--------------------------- MODULE TelemetryHistory ---------------------------
(***************************************************************************)
(* The history of the rigs' telemetry at the controller: one file for each *)
(* rig and day, to which a heartbeat appends a sample once a minute, and   *)
(* which is deleted after 32 days. When the last sample of a rig was taken *)
(* is part of the saved state. Samples are dated by the rig's own clock,   *)
(* and each one that is stored prunes the files of all rigs.               *)
(*                                                                         *)
(* Sources: internal/server/telemetry.go (recordMetricsLocked,             *)
(* appendMetric, readHistory, pruneHistory, WorkerHistory,                 *)
(* migrateEmbeddedHistory), store.go (Heartbeat, DeleteRig, OpenStore).    *)
(*                                                                         *)
(* A day is a number; of the time of day only whether a minute has passed. *)
(* A failed write may leave part of a line in the file.                    *)
(***************************************************************************)
EXTENDS Integers, FiniteSets

CONSTANTS
  Rig,
  Retention,     \* for how many days samples are kept
  LastDay,       \* bound on the days
  MaxErrors,     \* bound on failing writes, removals, saves and crashes
  None

Day == 0 .. LastDay + Retention + 1   \* also those of a clock that is ahead

\* Before a version kept files, the samples were part of the state.
HistoryState == [taken : [Rig -> Day \cup {None}],      \* HistoryRecordedAt
                 embedded : [Rig -> SUBSET Day]]

VARIABLES
  today,
  wrong,         \* the rigs whose clock is ahead
  enrolled,      \* the rigs that exist, in memory and in the state file alike
  series, savedSeries,   \* the part of the state that is about the history
  dayFiles,      \* per rig, the days that have a file
  serving,       \* the controller has started
  stored,        \* history: per rig, the days a sample was stored on
  misled,        \* history: a sample from the future was stored
  errors

historyVars == << today, wrong, enrolled, series, savedSeries, dayFiles,
                  serving, stored, misled, errors >>

-----------------------------------------------------------------------------

Err == errors < MaxErrors /\ errors' = errors + 1
NoErr == UNCHANGED errors

Clock(r) == IF r \in wrong THEN today + Retention + 1 ELSE today

\* Less than a minute after the last sample, or before it: no sample is due.
MayBeEarly(r) == series.taken[r] # None /\ Clock(r) <= series.taken[r]
MustBeEarly(r) == series.taken[r] # None /\ Clock(r) < series.taken[r]

\* Faulty variant: the last day that is kept goes too.
TooOld(d, now) == d <= now - Retention

Outdated(d, now) == d < now - Retention

\* pruneHistory, as far as it gets.
Pruned(fs, now) == {gs \in [Rig -> SUBSET Day] :
                      \A r \in Rig : gs[r] \subseteq fs[r] /\
                        \A d \in fs[r] : ~Outdated(d, now) => d \in gs[r]}
AllPruned(fs, now) == [r \in Rig |-> {d \in fs[r] : ~Outdated(d, now)}]

SaveSeries(s) == \/ series' = s /\ savedSeries' = s /\ NoErr
                 \/ series' = savedSeries /\ UNCHANGED savedSeries /\ Err

\* Heartbeat of a rig, as far as it is about the history.
Sample(r) ==
  LET c == Clock(r)
      s == [series EXCEPT !.taken[r] = c]
      appended == [dayFiles EXCEPT ![r] = @ \cup {c}]
  IN /\ serving /\ r \in enrolled
     /\ \/ /\ MayBeEarly(r)
           /\ SaveSeries(series)
           /\ UNCHANGED << dayFiles, stored, misled >>
        \/ /\ ~MustBeEarly(r)
           /\ dayFiles' = AllPruned(appended, c)
           /\ SaveSeries(s)
           /\ stored' = [stored EXCEPT ![r] = @ \cup {c}]
           /\ misled' = (misled \/ c > today)
        \/ /\ ~MustBeEarly(r) /\ Err      \* a file cannot be removed
           /\ dayFiles' \in Pruned(appended, c)
           /\ dayFiles' # AllPruned(appended, c)
           /\ series' = s
           /\ stored' = [stored EXCEPT ![r] = @ \cup {c}]
           /\ misled' = (misled \/ c > today)
           /\ UNCHANGED savedSeries
        \/ /\ ~MustBeEarly(r) /\ Err      \* the sample cannot be written
           /\ dayFiles' \in {dayFiles, appended}
           /\ UNCHANGED << series, savedSeries, stored, misled >>
     /\ UNCHANGED << today, wrong, enrolled, serving >>

\* DeleteRig: saved first, then the directory, perhaps in part.
DeleteSeries(r) ==
  LET s == [taken |-> [series.taken EXCEPT ![r] = None],
            embedded |-> [series.embedded EXCEPT ![r] = {}]]
  IN /\ serving /\ r \in enrolled
     /\ \/ /\ series' = s /\ savedSeries' = s
           /\ enrolled' = enrolled \ {r}
           /\ \/ dayFiles' = [dayFiles EXCEPT ![r] = {}] /\ NoErr
              \/ dayFiles' \in {[dayFiles EXCEPT ![r] = ds] : ds \in SUBSET dayFiles[r]} /\ Err
        \/ /\ series' = savedSeries /\ Err
           /\ UNCHANGED << savedSeries, enrolled, dayFiles >>
     /\ UNCHANGED << today, wrong, serving, stored, misled >>

SaveElse ==
  /\ serving /\ series # savedSeries
  /\ SaveSeries(series)
  /\ UNCHANGED << today, wrong, enrolled, dayFiles, serving, stored, misled >>

\* The controller starts from the state file and moves embedded samples into
\* files, rig by rig; a failure ends the start.
Stop ==
  /\ serving /\ Err
  /\ series' = savedSeries /\ serving' = FALSE
  /\ UNCHANGED << today, wrong, enrolled, savedSeries, dayFiles, stored, misled >>

LatestDay(r) ==
  LET days == series.embedded[r] \cup ({series.taken[r]} \ {None})
  IN IF days = {} THEN None ELSE CHOOSE d \in days : \A e \in days : e <= d

Migrated == [taken |-> [r \in Rig |-> LatestDay(r)], embedded |-> [r \in Rig |-> {}]]

StartController ==
  LET all == [r \in Rig |-> dayFiles[r] \cup series.embedded[r]]
  IN /\ ~serving
     /\ IF \A r \in Rig : series.embedded[r] = {}
          THEN serving' = TRUE /\ UNCHANGED << series, savedSeries, dayFiles, stored, errors >>
          ELSE \/ /\ dayFiles' = all
                  /\ series' = Migrated /\ savedSeries' = Migrated
                  /\ stored' = [r \in Rig |-> stored[r] \cup series.embedded[r]]
                  /\ serving' = TRUE /\ NoErr
               \/ /\ Err
                  /\ dayFiles' \in {fs \in [Rig -> SUBSET Day] :
                       \A r \in Rig : dayFiles[r] \subseteq fs[r] /\ fs[r] \subseteq all[r]}
                  /\ UNCHANGED << series, savedSeries, serving, stored >>
     /\ UNCHANGED << today, wrong, enrolled, misled >>

Midnight ==
  /\ today < LastDay
  /\ today' = today + 1
  /\ UNCHANGED << wrong, enrolled, series, savedSeries, dayFiles, serving,
                  stored, misled, errors >>

\* A clock is set wrong, or right again.
ClockSet(r) ==
  /\ wrong' = IF r \in wrong THEN wrong \ {r} ELSE wrong \cup {r}
  /\ UNCHANGED << today, enrolled, series, savedSeries, dayFiles, serving,
                  stored, misled, errors >>

HistoryInit ==
  /\ today = 0 /\ wrong = {} /\ enrolled = Rig
  /\ \E e \in [Rig -> SUBSET {0}] :
       series = [taken |-> [r \in Rig |-> None], embedded |-> e]
  /\ savedSeries = series
  /\ dayFiles = [r \in Rig |-> {}] /\ stored = dayFiles
  /\ serving = FALSE /\ misled = FALSE /\ errors = 0

HistoryNext ==
  \/ \E r \in Rig : Sample(r) \/ DeleteSeries(r) \/ ClockSet(r)
  \/ SaveElse \/ Stop \/ StartController \/ Midnight

HistorySpec == HistoryInit /\ [][HistoryNext]_historyVars

-----------------------------------------------------------------------------

HistoryTypeOK ==
  /\ today \in 0 .. LastDay /\ wrong \subseteq Rig /\ enrolled \subseteq Rig
  /\ series \in HistoryState /\ savedSeries \in HistoryState
  /\ dayFiles \in [Rig -> SUBSET Day] /\ stored \in [Rig -> SUBSET Day]
  /\ serving \in BOOLEAN /\ misled \in BOOLEAN
  /\ errors \in 0 .. MaxErrors

\* "At least 32-day retention" (README.md:96): what was stored of an enrolled rig
\* is there for as many days, whichever rig's heartbeat prunes the files, whatever
\* fails, and across restarts and the migration of embedded samples; unless a
\* sample of the future has been stored, which prunes by its own date.
HistoryKept ==
  misled \/ \A r \in enrolled : \A d \in stored[r] :
              today - d <= Retention => d \in dayFiles[r]

=============================================================================
