--------------------------- MODULE ControllerProofs ---------------------------
(***************************************************************************)
(* What holds of the controller as a whole, for any sizes and bounds: the  *)
(* type invariant of all its services, and the properties of the package   *)
(* store, the alerts and the telemetry history, next to everything else    *)
(* the controller does.                                                    *)
(***************************************************************************)
EXTENDS Controller, ConfigVersionProofs, ServiceProofs, WellFoundedInduction,
        SequenceTheorems

-----------------------------------------------------------------------------
(* The telemetry history. *)

HistoryInv == History!HistoryTypeOK /\ History!HistoryKept

\* A set of days that is not empty has a last one.
LEMMA LastOfDays ==
  ASSUME NEW S \in SUBSET History!Day, S # {}
  PROVE  \E d \in S : \A e \in S : e <= d
<1> USE HistoryAssumption
<1> DEFINE top == LastDay + Retention + 1
           T   == {top - d : d \in S}
<1>1. top \in Nat /\ \A d \in S : d \in Nat /\ top - d \in Nat
  BY DEF History!Day
<1>2. T \in SUBSET Nat /\ T # {}
  <2> HIDE DEF top
  <2> QED BY <1>1
<1>3. \E x \in T : \A y \in T : ~ (<< y, x >> \in OpToRel(<, Nat))
  <2> HIDE DEF T
  <2> QED BY <1>2, NatLessThanWellFounded, WFMin
<1>4. PICK x \in T : \A y \in T : ~ (<< y, x >> \in OpToRel(<, Nat))
  BY <1>3
<1>5. PICK d \in S : x = top - d
  BY <1>4
<1>6. ASSUME NEW e \in S, ~(e <= d) PROVE FALSE
  <2>1. top - e \in T /\ top - e \in Nat /\ x \in Nat
    BY <1>1, <1>2
  <2>2. top - e < x
    <3> HIDE DEF top
    <3> QED BY <1>1, <1>5, <1>6
  <2>3. << top - e, x >> \in OpToRel(<, Nat)
    <3> HIDE DEF top
    <3>1. << top - e, x >> \in Nat \X Nat /\ << top - e, x >>[1] < << top - e, x >>[2]
      BY <2>1, <2>2
    <3> QED BY <3>1, Zenon DEF OpToRel
  <2> QED BY <1>4, <2>1, <2>3
<1> QED BY <1>6

LEMMA ClockType ==
  ASSUME History!HistoryTypeOK, NEW r \in Rig
  PROVE  /\ History!Clock(r) \in History!Day
         /\ History!Clock(r) = today \/ History!Clock(r) > today
         /\ today \in 0 .. LastDay
BY HistoryAssumption DEF History!HistoryTypeOK, History!Clock, History!Day

\* What is saved or goes back keeps to its values.
LEMMA SeriesSaved ==
  ASSUME History!HistoryTypeOK, NEW s \in History!HistoryState, History!SaveSeries(s)
  PROVE  /\ series' \in History!HistoryState /\ savedSeries' \in History!HistoryState
         /\ errors' \in 0 .. MaxErrors
BY HistoryAssumption DEF History!HistoryTypeOK, History!SaveSeries, History!Err, History!NoErr

LEMMA ErrorCounted ==
  ASSUME History!HistoryTypeOK, History!Err PROVE errors' \in 0 .. MaxErrors
BY HistoryAssumption DEF History!HistoryTypeOK, History!Err

LEMMA TakenType ==
  ASSUME NEW s \in History!HistoryState, NEW r \in Rig, NEW c \in History!Day \cup {None}
  PROVE  [s EXCEPT !.taken[r] = c] \in History!HistoryState
BY DEF History!HistoryState

\* A pruning loses no day that is to be kept.
LEMMA PrunedKeeps ==
  ASSUME NEW fs \in [Rig -> SUBSET History!Day], NEW day \in History!Day
  PROVE  /\ History!AllPruned(fs, day) \in History!Pruned(fs, day)
         /\ \A gs \in History!Pruned(fs, day) :
              /\ gs \in [Rig -> SUBSET History!Day]
              /\ \A q \in Rig : \A d \in fs[q] : day - d <= Retention => d \in gs[q]
<1>1. History!AllPruned(fs, day) \in History!Pruned(fs, day)
  BY DEF History!AllPruned, History!Pruned
<1>2. ASSUME NEW gs \in History!Pruned(fs, day), NEW q \in Rig, NEW d \in fs[q],
             day - d <= Retention
      PROVE  d \in gs[q]
  <2>1. ~History!Outdated(d, day)
    BY <1>2, HistoryAssumption DEF History!Outdated, History!Day
  <2> QED BY <2>1 DEF History!Pruned
<1> QED BY <1>1, <1>2 DEF History!Pruned

\* A sample that is stored: the file of its day and all that are to be kept
\* are there after the pruning, unless its day is still to come.
LEMMA StoredKept ==
  ASSUME HistoryInv, NEW r \in Rig, enrolled' = enrolled, today' = today,
         LET c == History!Clock(r)
             appended == [dayFiles EXCEPT ![r] = @ \cup {c}]
         IN /\ dayFiles' \in History!Pruned(appended, c)
            /\ stored' = [stored EXCEPT ![r] = @ \cup {c}]
            /\ misled' = (misled \/ c > today)
  PROVE  /\ dayFiles' \in [Rig -> SUBSET History!Day]
         /\ stored' \in [Rig -> SUBSET History!Day] /\ misled' \in BOOLEAN
         /\ History!HistoryKept'
<1> DEFINE c == History!Clock(r)
           appended == [dayFiles EXCEPT ![r] = @ \cup {c}]
<1>1. c \in History!Day /\ (c = today \/ c > today) /\ today \in 0 .. LastDay
  BY ClockType DEF HistoryInv
<1>2. /\ dayFiles \in [Rig -> SUBSET History!Day] /\ stored \in [Rig -> SUBSET History!Day]
      /\ misled \in BOOLEAN /\ enrolled \subseteq Rig
  BY DEF HistoryInv, History!HistoryTypeOK
<1>3. /\ appended \in [Rig -> SUBSET History!Day]
      /\ dayFiles' \in History!Pruned(appended, c)
      /\ stored' = [stored EXCEPT ![r] = @ \cup {c}]
      /\ misled' = (misled \/ c > today)
  BY <1>1, <1>2
<1>4. /\ dayFiles' \in [Rig -> SUBSET History!Day]
      /\ \A q \in Rig : \A d \in appended[q] : c - d <= Retention => d \in dayFiles'[q]
  <2> HIDE DEF c, appended
  <2> QED BY <1>1, <1>3, PrunedKeeps
<1>5. stored' \in [Rig -> SUBSET History!Day] /\ misled' \in BOOLEAN
  BY <1>1, <1>2, <1>3
<1>6. ASSUME ~misled', NEW q \in enrolled, NEW d \in stored'[q], today - d <= Retention
      PROVE  d \in dayFiles'[q]
  <2>1. ~misled /\ c = today
    BY <1>1, <1>2, <1>3, <1>6
  <2>2. q \in Rig /\ (d \in stored[q] \/ (q = r /\ d = c))
    BY <1>2, <1>3, <1>6
  <2>3. d \in appended[q]
    <3>1. CASE d \in stored[q]
      <4>1. d \in dayFiles[q]
        BY <2>1, <1>6, <3>1 DEF HistoryInv, History!HistoryKept
      <4> QED BY <4>1, <2>2, <1>2
    <3>2. CASE q = r /\ d = c
      BY <1>2, <3>2
    <3> QED BY <2>2, <3>1, <3>2
  <2> QED BY <1>4, <1>6, <2>1, <2>2, <2>3
<1>7. History!HistoryKept'
  BY <1>6 DEF History!HistoryKept
<1> QED BY <1>4, <1>5, <1>7

LEMMA SampleStep ==
  ASSUME HistoryInv, NEW r \in Rig, History!Sample(r) PROVE HistoryInv'
<1> DEFINE c == History!Clock(r)
           s == [series EXCEPT !.taken[r] = c]
           appended == [dayFiles EXCEPT ![r] = @ \cup {c}]
<1>0. UNCHANGED << today, wrong, enrolled, serving >>
  BY DEF History!Sample
<1>1. c \in History!Day
  BY ClockType DEF HistoryInv
<1>2. series \in History!HistoryState /\ savedSeries \in History!HistoryState
  BY DEF HistoryInv, History!HistoryTypeOK
<1>3. s \in History!HistoryState
  BY <1>1, <1>2, TakenType
<1>4. dayFiles \in [Rig -> SUBSET History!Day] /\ appended \in [Rig -> SUBSET History!Day]
  BY <1>1 DEF HistoryInv, History!HistoryTypeOK
<1>5. CASE History!SaveSeries(series) /\ UNCHANGED << dayFiles, stored, misled >>
  <2>1. /\ series' \in History!HistoryState /\ savedSeries' \in History!HistoryState
        /\ errors' \in 0 .. MaxErrors
    BY <1>2, <1>5, SeriesSaved DEF HistoryInv
  <2> QED BY <1>0, <1>5, <2>1 DEF HistoryInv, History!HistoryTypeOK, History!HistoryKept
<1>6. CASE /\ dayFiles' \in History!Pruned(appended, c)
           /\ stored' = [stored EXCEPT ![r] = @ \cup {c}]
           /\ misled' = (misled \/ c > today)
           /\ series' \in History!HistoryState /\ savedSeries' \in History!HistoryState
           /\ errors' \in 0 .. MaxErrors
  <2>1. /\ dayFiles' \in [Rig -> SUBSET History!Day]
        /\ stored' \in [Rig -> SUBSET History!Day] /\ misled' \in BOOLEAN
        /\ History!HistoryKept'
    BY <1>0, <1>6, StoredKept
  <2> QED BY <1>0, <1>6, <2>1 DEF HistoryInv, History!HistoryTypeOK
<1>7. CASE /\ dayFiles' \in {dayFiles, appended} /\ History!Err
           /\ UNCHANGED << series, savedSeries, stored, misled >>
  <2>1. errors' \in 0 .. MaxErrors
    BY <1>7, ErrorCounted DEF HistoryInv
  <2>2. \A q \in Rig : dayFiles[q] \subseteq dayFiles'[q]
    BY <1>4, <1>7
  <2>3. dayFiles' \in [Rig -> SUBSET History!Day]
    BY <1>4, <1>7
  <2>4. enrolled \subseteq Rig
    BY DEF HistoryInv, History!HistoryTypeOK
  <2>5. History!HistoryKept'
    BY <1>0, <1>7, <2>2, <2>4 DEF HistoryInv, History!HistoryKept
  <2> QED BY <1>0, <1>7, <2>1, <2>3, <2>5 DEF HistoryInv, History!HistoryTypeOK
<1>8. \/ History!SaveSeries(series) /\ UNCHANGED << dayFiles, stored, misled >>
      \/ /\ dayFiles' = History!AllPruned(appended, c) /\ History!SaveSeries(s)
         /\ stored' = [stored EXCEPT ![r] = @ \cup {c}]
         /\ misled' = (misled \/ c > today)
      \/ /\ History!Err /\ dayFiles' \in History!Pruned(appended, c)
         /\ series' = s /\ UNCHANGED savedSeries
         /\ stored' = [stored EXCEPT ![r] = @ \cup {c}]
         /\ misled' = (misled \/ c > today)
      \/ /\ dayFiles' \in {dayFiles, appended} /\ History!Err
         /\ UNCHANGED << series, savedSeries, stored, misled >>
  BY DEF History!Sample
<1>9. History!AllPruned(appended, c) \in History!Pruned(appended, c)
  <2> HIDE DEF appended, c
  <2> QED BY <1>1, <1>4, PrunedKeeps
<1>10. History!SaveSeries(s) => /\ series' \in History!HistoryState
                                /\ savedSeries' \in History!HistoryState
                                /\ errors' \in 0 .. MaxErrors
  <2> HIDE DEF s
  <2> QED BY <1>3, SeriesSaved DEF HistoryInv
<1>11. History!Err => errors' \in 0 .. MaxErrors
  BY ErrorCounted DEF HistoryInv
<1> HIDE DEF s, appended, c
<1> QED BY <1>2, <1>3, <1>5, <1>6, <1>7, <1>8, <1>9, <1>10, <1>11

\* A deletion leaves the files of the other rigs alone.
LEMMA DeleteSeriesStep ==
  ASSUME HistoryInv, NEW r \in Rig, History!DeleteSeries(r) PROVE HistoryInv'
<1> DEFINE s == [taken |-> [series.taken EXCEPT ![r] = None],
                 embedded |-> [series.embedded EXCEPT ![r] = {}]]
<1>1. UNCHANGED << today, wrong, serving, stored, misled >>
  BY DEF History!DeleteSeries
<1>2. /\ series \in History!HistoryState /\ savedSeries \in History!HistoryState
      /\ dayFiles \in [Rig -> SUBSET History!Day] /\ enrolled \subseteq Rig
      /\ errors \in 0 .. MaxErrors
  BY DEF HistoryInv, History!HistoryTypeOK
<1>3. s \in History!HistoryState
  BY <1>2 DEF History!HistoryState
<1>4. History!Err => errors' \in 0 .. MaxErrors
  BY ErrorCounted DEF HistoryInv
<1>5. CASE /\ series' = s /\ savedSeries' = s /\ enrolled' = enrolled \ {r}
           /\ \E ds \in SUBSET dayFiles[r] : dayFiles' = [dayFiles EXCEPT ![r] = ds]
           /\ errors' \in 0 .. MaxErrors
  <2>1. PICK ds \in SUBSET dayFiles[r] : dayFiles' = [dayFiles EXCEPT ![r] = ds]
    BY <1>5
  <2>2. dayFiles' \in [Rig -> SUBSET History!Day]
    BY <1>2, <2>1
  <2>3. \A q \in enrolled' : q \in enrolled /\ dayFiles'[q] = dayFiles[q]
    BY <1>2, <1>5, <2>1
  <2>4. History!HistoryKept'
    BY <1>1, <2>3 DEF HistoryInv, History!HistoryKept
  <2>5. enrolled' \subseteq Rig /\ series' \in History!HistoryState
          /\ savedSeries' \in History!HistoryState
    BY <1>2, <1>3, <1>5
  <2> QED BY <1>1, <1>5, <2>2, <2>4, <2>5 DEF HistoryInv, History!HistoryTypeOK
<1>6. CASE /\ series' = savedSeries /\ UNCHANGED << savedSeries, enrolled, dayFiles >>
           /\ errors' \in 0 .. MaxErrors
  BY <1>1, <1>2, <1>6 DEF HistoryInv, History!HistoryTypeOK, History!HistoryKept
<1>7. \/ /\ series' = s /\ savedSeries' = s /\ enrolled' = enrolled \ {r}
         /\ \/ dayFiles' = [dayFiles EXCEPT ![r] = {}] /\ UNCHANGED errors
            \/ /\ dayFiles' \in {[dayFiles EXCEPT ![r] = ds] : ds \in SUBSET dayFiles[r]}
               /\ History!Err
      \/ /\ series' = savedSeries /\ History!Err
         /\ UNCHANGED << savedSeries, enrolled, dayFiles >>
  BY DEF History!DeleteSeries, History!NoErr
<1> HIDE DEF s
<1> QED BY <1>2, <1>4, <1>5, <1>6, <1>7

LEMMA SaveElseStep == ASSUME HistoryInv, History!SaveElse PROVE HistoryInv'
<1>1. /\ History!SaveSeries(series)
      /\ UNCHANGED << today, wrong, enrolled, dayFiles, serving, stored, misled >>
  BY DEF History!SaveElse
<1>2. series \in History!HistoryState
  BY DEF HistoryInv, History!HistoryTypeOK
<1>3. /\ series' \in History!HistoryState /\ savedSeries' \in History!HistoryState
      /\ errors' \in 0 .. MaxErrors
  BY <1>1, <1>2, SeriesSaved DEF HistoryInv
<1> QED BY <1>1, <1>3 DEF HistoryInv, History!HistoryTypeOK, History!HistoryKept

LEMMA StopHistoryStep == ASSUME HistoryInv, History!Stop PROVE HistoryInv'
<1>1. errors' \in 0 .. MaxErrors
  BY ErrorCounted DEF History!Stop, HistoryInv
<1> QED BY <1>1 DEF History!Stop, HistoryInv, History!HistoryTypeOK, History!HistoryKept

\* The migration moves every embedded sample into a file of its day.
LEMMA StartControllerStep == ASSUME HistoryInv, History!StartController PROVE HistoryInv'
<1> DEFINE all == [r \in Rig |-> dayFiles[r] \cup series.embedded[r]]
<1>1. UNCHANGED << today, wrong, enrolled, misled >>
  BY DEF History!StartController
<1>2. /\ series \in History!HistoryState /\ savedSeries \in History!HistoryState
      /\ dayFiles \in [Rig -> SUBSET History!Day] /\ enrolled \subseteq Rig
      /\ stored \in [Rig -> SUBSET History!Day] /\ serving \in BOOLEAN
      /\ errors \in 0 .. MaxErrors
  BY DEF HistoryInv, History!HistoryTypeOK
<1>3. /\ series.taken \in [Rig -> History!Day \cup {None}]
      /\ series.embedded \in [Rig -> SUBSET History!Day]
  BY <1>2 DEF History!HistoryState
<1>4. all \in [Rig -> SUBSET History!Day]
  BY <1>2, <1>3
<1>5. ASSUME NEW r \in Rig PROVE History!LatestDay(r) \in History!Day \cup {None}
  <2> DEFINE days == series.embedded[r] \cup ({series.taken[r]} \ {None})
  <2>1. days \in SUBSET History!Day
    BY <1>3
  <2>2. History!LatestDay(r)
          = IF days = {} THEN None ELSE CHOOSE d \in days : \A e \in days : e <= d
    BY DEF History!LatestDay
  <2>3. CASE days = {}
    BY <2>2, <2>3
  <2>4. CASE days # {}
    <3> HIDE DEF days
    <3>1. \E d \in days : \A e \in days : e <= d
      BY <2>1, <2>4, LastOfDays
    <3>2. History!LatestDay(r) \in days
      BY <2>2, <2>4, <3>1
    <3> QED BY <2>1, <3>2
  <2> QED BY <2>3, <2>4
<1>6. History!Migrated \in History!HistoryState
  BY <1>5 DEF History!Migrated, History!HistoryState
<1>7. CASE serving' = TRUE /\ UNCHANGED << series, savedSeries, dayFiles, stored, errors >>
  BY <1>1, <1>7 DEF HistoryInv, History!HistoryTypeOK, History!HistoryKept
<1>8. CASE /\ dayFiles' = all
           /\ series' = History!Migrated /\ savedSeries' = History!Migrated
           /\ stored' = [r \in Rig |-> stored[r] \cup series.embedded[r]]
           /\ serving' = TRUE /\ UNCHANGED errors
  <2>1. stored' \in [Rig -> SUBSET History!Day] /\ dayFiles' \in [Rig -> SUBSET History!Day]
    BY <1>2, <1>3, <1>4, <1>8
  <2>2. \A r \in enrolled : /\ dayFiles'[r] = dayFiles[r] \cup series.embedded[r]
                            /\ stored'[r] = stored[r] \cup series.embedded[r]
    BY <1>2, <1>8
  <2>3. History!HistoryKept'
    <3> HIDE DEF all
    <3> QED BY <1>1, <2>2 DEF HistoryInv, History!HistoryKept
  <2> QED BY <1>1, <1>2, <1>6, <1>8, <2>1, <2>3 DEF HistoryInv, History!HistoryTypeOK
<1>9. CASE /\ History!Err
           /\ dayFiles' \in {fs \in [Rig -> SUBSET History!Day] :
                \A r \in Rig : dayFiles[r] \subseteq fs[r] /\ fs[r] \subseteq all[r]}
           /\ UNCHANGED << series, savedSeries, serving, stored >>
  <2>1. /\ dayFiles' \in [Rig -> SUBSET History!Day]
        /\ \A r \in enrolled : dayFiles[r] \subseteq dayFiles'[r]
    BY <1>2, <1>9
  <2>2. errors' \in 0 .. MaxErrors
    BY <1>9, ErrorCounted DEF HistoryInv
  <2>3. History!HistoryKept'
    BY <1>1, <1>9, <2>1 DEF HistoryInv, History!HistoryKept
  <2> QED BY <1>1, <1>9, <2>1, <2>2, <2>3 DEF HistoryInv, History!HistoryTypeOK
<1> QED BY <1>7, <1>8, <1>9 DEF History!StartController, History!NoErr

LEMMA MidnightStep == ASSUME HistoryInv, History!Midnight PROVE HistoryInv'
<1>1. /\ today' = today + 1 /\ today' \in 0 .. LastDay /\ today \in 0 .. LastDay
      /\ UNCHANGED << wrong, enrolled, series, savedSeries, dayFiles, serving,
                      stored, misled, errors >>
  BY HistoryAssumption DEF History!Midnight, HistoryInv, History!HistoryTypeOK
<1>2. ASSUME ~misled', NEW r \in enrolled', NEW d \in stored'[r], today' - d <= Retention
      PROVE  d \in dayFiles'[r]
  <2>1. d \in Nat
    BY <1>1, HistoryAssumption DEF HistoryInv, History!HistoryTypeOK, History!Day
  <2>2. today - d <= Retention
    BY <1>1, <1>2, <2>1, HistoryAssumption
  <2> QED BY <1>1, <1>2, <2>2 DEF HistoryInv, History!HistoryKept
<1>3. History!HistoryKept'
  BY <1>2 DEF History!HistoryKept
<1> QED BY <1>1, <1>3 DEF HistoryInv, History!HistoryTypeOK

LEMMA ClockSetStep == ASSUME HistoryInv, NEW r \in Rig, History!ClockSet(r) PROVE HistoryInv'
BY DEF History!ClockSet, HistoryInv, History!HistoryTypeOK, History!HistoryKept

LEMMA HistoryInitInv == ASSUME History!HistoryInit PROVE HistoryInv
<1>1. 0 \in 0 .. LastDay /\ 0 \in 0 .. MaxErrors /\ 0 \in History!Day
  BY HistoryAssumption DEF History!Day
<1>2. series \in History!HistoryState
  BY <1>1 DEF History!HistoryInit, History!HistoryState
<1>3. [r \in Rig |-> {}] \in [Rig -> SUBSET History!Day]
  OBVIOUS
<1>4. History!HistoryTypeOK
  BY <1>1, <1>2, <1>3 DEF History!HistoryInit, History!HistoryTypeOK
<1>5. History!HistoryKept
  BY DEF History!HistoryInit, History!HistoryKept
<1> QED BY <1>4, <1>5 DEF HistoryInv

LEMMA HistoryStep ==
  ASSUME HistoryInv, History!HistoryNext \/ UNCHANGED historyVars PROVE HistoryInv'
<1>1. CASE UNCHANGED historyVars
  BY <1>1 DEF historyVars, HistoryInv, History!HistoryTypeOK, History!HistoryKept
<1>2. CASE History!HistoryNext
  BY <1>2, SampleStep, DeleteSeriesStep, ClockSetStep, SaveElseStep, StopHistoryStep,
     StartControllerStep, MidnightStep DEF History!HistoryNext
<1> QED BY <1>1, <1>2

-----------------------------------------------------------------------------
(* The package store. *)

\* What the digests of a record say of the files, whichever format it has: the
\* file of an executable is the one of the digest; the bundle is the one of its
\* digest, and holds the executable under the record's name.
Matches(v, fs) ==
  v # None =>
    /\ v.binary # None /\ fs["binary"] # None =>
         v.binary = [of |-> fs["binary"], entry |-> None]
    /\ v.binary # None /\ v.package # None /\ fs["tar.gz"] # None =>
         v.package = fs["tar.gz"] /\ v.binary = [of |-> fs["tar.gz"], entry |-> v.name]

\* A digest of an entry is of the entry the record names.
Named(v) == v # None /\ v.binary # None => v.binary.entry \in {None, v.name}

Storing == {"backed", "placed", "recorded"}

\* The files as they were before j put its own in place.
Before(j) == [files EXCEPT ![jobs[j].format] = jobs[j].old]

\* Which fields of a request mean something at which point.
JobSound(j) ==
  /\ jobs[j].at \in {"looking", "fetching", "reading"} \cup Storing => jobs[j].content \in Content
  /\ jobs[j].at \in {"reading", "version"} \cup Storing => jobs[j].seen \in Packages!MinerRecord
  /\ jobs[j].kind = "import" \/ jobs[j].at = "looking" => jobs[j].name \in Entry
  /\ jobs[j].at = "cleanup" => jobs[j].kind = "import"
  /\ Named(jobs[j].was)
  /\ jobs[j].at = "version" => Named(jobs[j].seen)

\* The request that holds the lock: nobody changes the record or the files meanwhile.
StoringSound(j) ==
  /\ jobs[j].at \in Storing <=> lock = j
  /\ jobs[j].at \in {"backed", "placed"} =>
       /\ record = jobs[j].seen
       /\ trusted => Matches(record, Before(j)) /\ Matches(saved, Before(j))
  /\ jobs[j].at \in {"placed", "recorded"} => files[jobs[j].format] = jobs[j].content
  /\ jobs[j].at = "recorded" =>
       /\ record # None /\ record = saved
       /\ jobs[j].format = "binary" =>
            record.package = None /\ record.binary = [of |-> jobs[j].content, entry |-> None]
       /\ jobs[j].format = "tar.gz" =>
            /\ record.package = jobs[j].content
            /\ record.binary = [of |-> jobs[j].content, entry |-> record.name]

\* The definition an import saves over the one it found.
Imported(j) ==
  LET v == [name |-> jobs[j].name, format |-> jobs[j].format,
            binary |-> None, package |-> None]
  IN IF jobs[j].was = None THEN v ELSE Packages!Kept(jobs[j].was, v)

\* An import nobody has disturbed can still be taken back.
ImportSound(j) ==
  quiet[j] # None =>
    /\ jobs[j].kind = "import" /\ jobs[j].at # "idle"
    /\ jobs[j].was = None => quiet[j] = Packages!NoFiles
    /\ jobs[j].at = "looking" => record = jobs[j].was
    /\ jobs[j].at \in {"fetching", "reading", "backed", "placed", "cleanup"} =>
         record = Imported(j) /\ saved = record
    /\ jobs[j].at \in {"looking", "fetching", "reading", "cleanup"} => files = quiet[j]
    /\ jobs[j].at \in {"backed", "placed"} => Before(j) = quiet[j]

PackageInv ==
  /\ Packages!PackageTypeOK
  /\ Named(record) /\ Named(saved)
  /\ record # None \/ saved # None => born
  /\ ~born => files = Packages!NoFiles
  /\ ~up => Seed # None /\ record # None /\ saved # None
  /\ lock = None /\ trusted => Matches(record, files) /\ Matches(saved, files)
  /\ \A j \in Job : JobSound(j) /\ StoringSound(j) /\ ImportSound(j)

-----------------------------------------------------------------------------
LEMMA PackageTypes ==
  ASSUME PackageInv
  PROVE  /\ record \in Packages!MinerRecord \cup {None} /\ saved \in Packages!MinerRecord \cup {None}
         /\ files \in [Packages!Format -> Content \cup {None}]
         /\ lock \in Job \cup {None} /\ jobs \in [Job -> Packages!JobRecord]
         /\ quiet \in [Job -> [Packages!Format -> Content \cup {None}] \cup {None}]
         /\ born \in BOOLEAN /\ up \in BOOLEAN /\ trusted \in BOOLEAN
         /\ operations \in 0 .. MaxEvents /\ faults \in 0 .. MaxEvents
BY DEF PackageInv, Packages!PackageTypeOK, Packages!Opt

LEMMA JobFields ==
  ASSUME NEW t \in Packages!JobRecord
  PROVE  /\ t.kind \in Packages!Kind /\ t.at \in Packages!Point /\ t.format \in Packages!Format
         /\ t.content \in Content \cup {None} /\ t.name \in Entry \cup {None}
         /\ t.seen \in Packages!MinerRecord \cup {None} /\ t.was \in Packages!MinerRecord \cup {None}
         /\ t.old \in Content \cup {None}
BY DEF Packages!JobRecord, Packages!Opt

LEMMA MinerFields ==
  ASSUME NEW v \in Packages!MinerRecord
  PROVE  /\ v.name \in Entry /\ v.format \in Packages!Format
         /\ v.binary \in Packages!Executable \cup {None} /\ v.package \in Content \cup {None}
BY DEF Packages!MinerRecord, Packages!Opt

LEMMA NewMiner ==
  ASSUME NEW n \in Entry, NEW f \in Packages!Format, NEW b \in Packages!Executable \cup {None},
         NEW p \in Content \cup {None}
  PROVE  [name |-> n, format |-> f, binary |-> b, package |-> p] \in Packages!MinerRecord
BY DEF Packages!MinerRecord, Packages!Opt

LEMMA IdleType ==
  Packages!IdleJob \in Packages!JobRecord /\ Packages!IdleJob.at = "idle" /\ Packages!IdleJob.kind = "upload"
    /\ Packages!IdleJob.was = None /\ Packages!IdleJob.name = None
BY DEF Packages!IdleJob, Packages!JobRecord, Packages!Kind, Packages!Point, Packages!Format, Packages!Opt

LEMMA Faulted ==
  ASSUME PackageInv, Packages!Fault
  PROVE  faults' \in 0 .. MaxEvents /\ faults' # faults
<1>1. operations \in 0 .. MaxEvents /\ faults \in 0 .. MaxEvents
  BY PackageTypes
<1> QED BY <1>1, PackageAssumption DEF Packages!Fault

LEMMA Started ==
  ASSUME PackageInv, Packages!Starts
  PROVE  operations' \in 0 .. MaxEvents
<1>1. operations \in 0 .. MaxEvents /\ faults \in 0 .. MaxEvents
  BY PackageTypes
<1> QED BY <1>1, PackageAssumption DEF Packages!Starts

LEMMA KeptFields ==
  ASSUME NEW old \in Packages!MinerRecord, NEW new \in Packages!MinerRecord
  PROVE  /\ Packages!Kept(old, new) \in Packages!MinerRecord
         /\ Packages!Kept(old, new).name = new.name /\ Packages!Kept(old, new).format = new.format
         /\ Packages!Kept(old, new).binary
              = IF new.binary = None /\ old.name = new.name THEN old.binary ELSE new.binary
         /\ Packages!Kept(old, new).package
              = IF new.package = None /\ old.name = new.name THEN old.package ELSE new.package
<1> DEFINE b == IF new.binary = None /\ old.name = new.name THEN old.binary ELSE new.binary
           p == IF new.package = None /\ old.name = new.name THEN old.package ELSE new.package
<1>1. Packages!Kept(old, new) = [new EXCEPT !.binary = b, !.package = p]
  BY DEF Packages!Kept
<1>2. b \in Packages!Executable \cup {None} /\ p \in Content \cup {None}
  BY MinerFields
<1>3. new = [name |-> new.name, format |-> new.format, binary |-> new.binary,
             package |-> new.package]
  BY DEF Packages!MinerRecord
<1> HIDE DEF b, p
<1>4. Packages!Kept(old, new) = [name |-> new.name, format |-> new.format, binary |-> b, package |-> p]
  BY <1>1, <1>3
<1>5. Packages!Kept(old, new) \in Packages!MinerRecord
  BY <1>2, <1>4, MinerFields, NewMiner
<1> QED BY <1>4, <1>5 DEF b, p

\* A digest that is kept is kept under its name.
LEMMA KeptNamed ==
  ASSUME NEW old \in Packages!MinerRecord, NEW new \in Packages!MinerRecord, Named(old), Named(new)
  PROVE  Named(Packages!Kept(old, new))
<1> DEFINE v == Packages!Kept(old, new)
<1>1. /\ v.name = new.name
      /\ v.binary = IF new.binary = None /\ old.name = new.name THEN old.binary ELSE new.binary
      /\ old # None /\ new # None
  BY KeptFields, PackageAssumption
<1> HIDE DEF v
<1>2. v # None /\ v.binary # None => v.binary.entry \in {None, v.name}
  BY <1>1 DEF Named
<1> QED BY <1>2 DEF Named, v

\* Writing back digests the record has leaves the served file verifiable.
LEMMA KeptMatches ==
  ASSUME NEW old \in Packages!MinerRecord, NEW v \in Packages!MinerRecord, NEW fs, Matches(old, fs),
         fs \in [Packages!Format -> Content \cup {None}],
         Named(v), Packages!Digests(v) \subseteq Packages!Digests(old)
  PROVE  Matches(v, fs)
<1>1. /\ old.binary \in Packages!Executable \cup {None} /\ old.package \in Content \cup {None}
      /\ v.binary \in Packages!Executable \cup {None} /\ v.package \in Content \cup {None}
      /\ v.name \in Entry /\ old.name \in Entry /\ v # None /\ old # None
  BY MinerFields, PackageAssumption
<1>2. {v.binary, v.package} \subseteq {None, old.binary, old.package}
  BY <1>1 DEF Packages!Digests
<1>3. v.binary # None => v.binary = old.binary
  BY <1>1, <1>2, PackageAssumption
<1>4. v.package # None => v.package = old.package
  BY <1>1, <1>2, PackageAssumption
<1>5. v.binary # None /\ fs["binary"] # None =>
        v.binary = [of |-> fs["binary"], entry |-> None]
  BY <1>1, <1>3 DEF Matches
<1>6. ASSUME v.binary # None, v.package # None, fs["tar.gz"] # None
      PROVE  v.package = fs["tar.gz"] /\ v.binary = [of |-> fs["tar.gz"], entry |-> v.name]
  <2>1. old.package = fs["tar.gz"] /\ old.binary = [of |-> fs["tar.gz"], entry |-> old.name]
    BY <1>1, <1>3, <1>4, <1>6 DEF Matches
  <2>2. v.binary = [of |-> fs["tar.gz"], entry |-> old.name] /\ v.binary.entry = old.name
    BY <1>3, <1>6, <2>1
  <2>3. v.name = old.name
    BY <1>1, <1>6, <2>2, PackageAssumption DEF Named
  <2> QED BY <1>4, <1>6, <2>1, <2>2, <2>3
<1> QED BY <1>5, <1>6 DEF Matches

\* What a save leaves, whether it succeeds or goes back.
LEMMA SaveRecordStep ==
  ASSUME PackageInv, lock = None, NEW v \in Packages!MinerRecord, Packages!SaveRecord(v), Named(v),
         files' = files, record = None => v.binary = None
  PROVE  /\ record' \in Packages!MinerRecord \cup {None} /\ saved' \in Packages!MinerRecord \cup {None}
         /\ Named(record') /\ Named(saved') /\ saved' \in {saved, record'}
         /\ trusted' \in BOOLEAN /\ faults' \in 0 .. MaxEvents
         /\ trusted' => Matches(record', files') /\ Matches(saved', files')
         /\ UNCHANGED faults => record' = v /\ saved' = v
<1>1. /\ record \in Packages!MinerRecord \cup {None} /\ saved \in Packages!MinerRecord \cup {None}
      /\ Named(record) /\ Named(saved) /\ trusted \in BOOLEAN /\ faults \in 0 .. MaxEvents
      /\ files \in [Packages!Format -> Content \cup {None}]
      /\ trusted => Matches(record, files) /\ Matches(saved, files)
  BY PackageTypes DEF PackageInv
<1>2. CASE /\ record' = v /\ saved' = v /\ UNCHANGED faults
           /\ trusted' = (trusted /\ Packages!Digests(v) \subseteq Packages!Digests(record))
  <2>1. ASSUME trusted'
        PROVE  Matches(v, files)
    <3>1. CASE record # None
      BY <1>1, <1>2, <2>1, <3>1, KeptMatches
    <3>2. CASE record = None
      BY <3>2 DEF Matches
    <3> QED BY <3>1, <3>2
  <2>2. trusted' \in BOOLEAN
    BY <1>2
  <2> QED BY <1>1, <1>2, <2>1, <2>2
<1>3. CASE record' = saved /\ Packages!Fault /\ UNCHANGED << saved, trusted >>
  <2>1. faults' \in 0 .. MaxEvents /\ faults' # faults
    BY <1>3, Faulted
  <2> QED BY <1>1, <1>3, <2>1
<1> QED BY <1>2, <1>3 DEF Packages!SaveRecord, Packages!NoFault

\* What a step of a request does to the others: they stay as they are, and an
\* import whose record or files change is no longer undisturbed.
LEMMA QuietType ==
  ASSUME PackageInv, NEW S, Packages!Disturbed(S)
  PROVE  /\ quiet' \in [Job -> [Packages!Format -> Content \cup {None}] \cup {None}]
         /\ \A i \in Job : jobs'[i].at = "idle" => quiet'[i] = None
BY PackageTypes DEF Packages!Disturbed

LEMMA OthersQuiet ==
  ASSUME PackageInv, NEW S, Packages!Disturbed(S), NEW i \in Job, i \notin S, jobs'[i] = jobs[i],
         saved' \in {saved, record'}
  PROVE  ImportSound(i)'
<1> SUFFICES ASSUME quiet'[i] # None PROVE ImportSound(i)'
  BY DEF ImportSound
<1>1. quiet'[i] = IF jobs'[i].at = "looking" /\ jobs[i].at = "idle" THEN files
                  ELSE IF jobs'[i].at = "idle" \/ (Packages!Changes /\ i \notin S) THEN None
                  ELSE quiet[i]
  BY DEF Packages!Disturbed
<1>2. jobs[i].at # "idle" /\ ~Packages!Changes /\ quiet'[i] = quiet[i] /\ quiet[i] # None
  BY <1>1
<1>3. record' = record /\ files' = files
  BY <1>2 DEF Packages!Changes
<1>4. ImportSound(i)
  BY DEF PackageInv
<1>5. Before(i)' = Before(i) /\ Imported(i)' = Imported(i)
  BY <1>3 DEF Before, Imported
<1> QED BY <1>2, <1>3, <1>4, <1>5 DEF ImportSound

\* What j itself has done leaves it undisturbed.
LEMMA OwnQuiet ==
  ASSUME PackageInv, NEW j \in Job, Packages!Disturbed({j}), jobs[j].at # "idle"
  PROVE  quiet'[j] # None => quiet'[j] = quiet[j] /\ jobs'[j].at # "idle" /\ ImportSound(j)
BY DEF Packages!Disturbed, PackageInv

\* A step of an operator or a request while nobody holds the lock.
LEMMA FreeStep ==
  ASSUME PackageInv, lock = None, up = TRUE, UNCHANGED << lock, up >>,
         record' \in Packages!MinerRecord \cup {None}, saved' \in Packages!MinerRecord \cup {None},
         Named(record'), Named(saved'), saved' \in {saved, record'},
         files' \in [Packages!Format -> Content \cup {None}], born' \in BOOLEAN,
         record' # None \/ saved' # None => born', ~born' => files' = Packages!NoFiles,
         trusted' \in BOOLEAN,
         trusted' => Matches(record', files') /\ Matches(saved', files'),
         operations' \in 0 .. MaxEvents, faults' \in 0 .. MaxEvents,
         NEW S \in SUBSET Job, Packages!Disturbed(S),
         jobs' \in [Job -> Packages!JobRecord],
         \A i \in S : jobs'[i].at \notin Storing /\ JobSound(i)' /\ ImportSound(i)',
         \A i \in Job \ S : jobs'[i] = jobs[i]
  PROVE  PackageInv'
<1>1. Packages!PackageTypeOK'
  BY QuietType DEF Packages!PackageTypeOK, Packages!Opt, PackageInv
<1>2. ASSUME NEW i \in Job
      PROVE  JobSound(i)' /\ StoringSound(i)' /\ ImportSound(i)'
  <2>1. jobs[i].at \notin Storing /\ JobSound(i)
    BY PackageAssumption, ZenonT(30) DEF PackageInv, StoringSound
  <2>2. jobs'[i].at \notin Storing
    BY <2>1
  <2>3. StoringSound(i)'
    BY <2>2, PackageAssumption DEF StoringSound, Storing
  <2>4. CASE i \in S
    BY <2>3, <2>4
  <2>5. CASE i \notin S
    <3>1. JobSound(i)'
      BY <2>1, <2>5 DEF JobSound
    <3>2. ImportSound(i)'
      BY <2>5, OthersQuiet
    <3> QED BY <2>3, <3>1, <3>2
  <2> QED BY <2>4, <2>5
<1> QED BY <1>1, <1>2 DEF PackageInv

\* A step of a request that touches neither record nor files.
LEMMA TalkStep ==
  ASSUME PackageInv, NEW j \in Job, NEW t \in Packages!JobRecord, jobs' = [jobs EXCEPT ![j] = t],
         UNCHANGED << record, saved, born, files, lock, up, trusted >>,
         jobs[j].at \notin Storing, t.at \notin Storing,
         operations' \in 0 .. MaxEvents, faults' \in 0 .. MaxEvents,
         Packages!Disturbed({j}), JobSound(j)', ImportSound(j)'
  PROVE  PackageInv'
<1>0. jobs' \in [Job -> Packages!JobRecord]
  BY PackageTypes
<1>1. Packages!PackageTypeOK'
  BY <1>0, QuietType DEF Packages!PackageTypeOK, Packages!Opt, PackageInv
<1>2. ASSUME NEW i \in Job, i # j
      PROVE  JobSound(i)' /\ StoringSound(i)' /\ ImportSound(i)'
  <2>1. jobs'[i] = jobs[i] /\ JobSound(i) /\ StoringSound(i)
    BY <1>2, PackageTypes DEF PackageInv
  <2>2. ImportSound(i)'
    BY <1>2, <2>1, OthersQuiet
  <2>3. Before(i)' = Before(i)
    BY <2>1 DEF Before
  <2> QED BY <2>1, <2>2, <2>3 DEF JobSound, StoringSound
<1>3. StoringSound(j)'
  <2>1. jobs'[j].at \notin Storing /\ lock # j
    BY PackageTypes DEF PackageInv, StoringSound
  <2> QED BY <2>1 DEF StoringSound, Storing
<1>4. \A i \in Job : JobSound(i)' /\ StoringSound(i)' /\ ImportSound(i)'
  BY <1>2, <1>3
<1>5. UNCHANGED << record, saved, born, files, lock, up, trusted >>
  OBVIOUS
<1> QED BY <1>1, <1>4, <1>5 DEF PackageInv

LEMMA StartUploadStep ==
  ASSUME PackageInv, NEW j \in Job, NEW kind0 \in {"upload", "refresh"}, NEW f \in Packages!Format,
         NEW c \in Content, Packages!StartUpload(j, kind0, f, c), Packages!Disturbed({j})
  PROVE  PackageInv'
<1> DEFINE t == [Packages!IdleJob EXCEPT !.kind = kind0, !.at = "fetching", !.format = f, !.content = c]
<1>1. /\ t.kind = kind0 /\ t.at = "fetching" /\ t.format = f /\ t.content = c
      /\ t.was = None /\ t \in Packages!JobRecord
  BY IdleType DEF Packages!JobRecord, Packages!Kind, Packages!Point, Packages!Opt, Packages!Format
<1> HIDE DEF t
<1>2. t \in Packages!JobRecord
  BY <1>1
<1>3. /\ jobs' = [jobs EXCEPT ![j] = t] /\ jobs[j].at = "idle" /\ Packages!Starts
      /\ UNCHANGED << record, saved, born, files, lock, up, trusted, faults >>
  BY DEF Packages!StartUpload, t
<1>4. jobs'[j] = t
  BY <1>3, PackageTypes
<1>5. JobSound(j)'
  BY <1>1, <1>4 DEF JobSound, Storing, Named
<1>6. quiet'[j] = None
  <2>1. quiet[j] = None
    BY <1>3 DEF PackageInv, ImportSound
  <2> QED BY <1>1, <1>4, <2>1 DEF Packages!Disturbed
<1>7. ImportSound(j)'
  BY <1>6 DEF ImportSound
<1>8. operations' \in 0 .. MaxEvents /\ faults' \in 0 .. MaxEvents
  BY <1>3, Started, PackageTypes
<1>9. jobs[j].at \notin Storing /\ t.at \notin Storing
  BY <1>1, <1>3 DEF Storing
<1> QED BY <1>2, <1>3, <1>5, <1>7, <1>8, <1>9, TalkStep

LEMMA StartRepairStep ==
  ASSUME PackageInv, NEW j \in Job, Packages!StartRepair(j), Packages!Disturbed({j})
  PROVE  PackageInv'
<1> DEFINE t == [Packages!IdleJob EXCEPT !.kind = "repair", !.at = "fetching",
                                 !.format = "tar.gz", !.content = Seed]
<1>0. Seed \in Content
  BY PackageAssumption DEF Packages!StartRepair
<1>1. /\ t.kind = "repair" /\ t.at = "fetching" /\ t.format = "tar.gz" /\ t.content = Seed
      /\ t.was = None /\ t \in Packages!JobRecord
  BY <1>0, IdleType DEF Packages!JobRecord, Packages!Kind, Packages!Point, Packages!Opt, Packages!Format
<1> HIDE DEF t
<1>2. t \in Packages!JobRecord
  BY <1>1
<1>3. /\ jobs' = [jobs EXCEPT ![j] = t] /\ jobs[j].at = "idle"
      /\ Packages!Starts \/ UNCHANGED operations
      /\ UNCHANGED << record, saved, born, files, lock, up, trusted, faults >>
  BY DEF Packages!StartRepair, t
<1>4. jobs'[j] = t
  BY <1>3, PackageTypes
<1>5. JobSound(j)'
  BY <1>0, <1>1, <1>4 DEF JobSound, Storing, Named
<1>6. quiet'[j] = None
  <2>1. quiet[j] = None
    BY <1>3 DEF PackageInv, ImportSound
  <2> QED BY <1>1, <1>4, <2>1 DEF Packages!Disturbed
<1>7. ImportSound(j)'
  BY <1>6 DEF ImportSound
<1>8. operations' \in 0 .. MaxEvents /\ faults' \in 0 .. MaxEvents
  BY <1>3, Started, PackageTypes
<1>9. jobs[j].at \notin Storing /\ t.at \notin Storing
  BY <1>1, <1>3 DEF Storing
<1> QED BY <1>2, <1>3, <1>5, <1>7, <1>8, <1>9, TalkStep

LEMMA LookUpStep ==
  ASSUME PackageInv, NEW j \in Job, NEW n \in Entry, NEW f \in Packages!Format, NEW c \in Content,
         Packages!LookUp(j, n, f, c), Packages!Disturbed({j})
  PROVE  PackageInv'
<1> DEFINE t == [Packages!IdleJob EXCEPT !.kind = "import", !.at = "looking",
                                 !.format = f, !.content = c, !.name = n, !.was = record]
<1>0. record \in Packages!MinerRecord \cup {None} /\ Named(record)
  BY PackageTypes DEF PackageInv
<1>1. /\ t.kind = "import" /\ t.at = "looking" /\ t.format = f /\ t.content = c
      /\ t.name = n /\ t.was = record /\ t \in Packages!JobRecord
  BY <1>0, IdleType DEF Packages!JobRecord, Packages!Kind, Packages!Point, Packages!Opt, Packages!Format
<1> HIDE DEF t
<1>2. t \in Packages!JobRecord
  BY <1>1
<1>3. /\ jobs' = [jobs EXCEPT ![j] = t] /\ jobs[j].at = "idle" /\ Packages!Starts
      /\ born => record # None
      /\ UNCHANGED << record, saved, born, files, lock, up, trusted, faults >>
  BY DEF Packages!LookUp, t
<1>4. jobs'[j] = t
  BY <1>3, PackageTypes
<1>5. JobSound(j)'
  BY <1>0, <1>1, <1>4 DEF JobSound, Storing, Named
<1>6. quiet'[j] = files
  BY <1>1, <1>3, <1>4 DEF Packages!Disturbed
<1>7. record = None => files = Packages!NoFiles
  BY <1>3 DEF PackageInv
<1>8. ImportSound(j)'
  BY <1>1, <1>3, <1>4, <1>6, <1>7 DEF ImportSound
<1>9. operations' \in 0 .. MaxEvents /\ faults' \in 0 .. MaxEvents
  BY <1>3, Started, PackageTypes
<1>10. jobs[j].at \notin Storing /\ t.at \notin Storing
  BY <1>1, <1>3 DEF Storing
<1> QED BY <1>2, <1>3, <1>5, <1>8, <1>9, <1>10, TalkStep

LEMMA ReadStep ==
  ASSUME PackageInv, NEW j \in Job, Packages!Read(j), Packages!Disturbed({j})
  PROVE  PackageInv'
<1> DEFINE t == [jobs[j] EXCEPT !.at = "reading", !.seen = record]
<1>0. record \in Packages!MinerRecord /\ jobs[j] \in Packages!JobRecord
  BY PackageTypes DEF Packages!Read
<1>1. /\ t.at = "reading" /\ t.seen = record /\ t.kind = jobs[j].kind
      /\ t.format = jobs[j].format /\ t.content = jobs[j].content /\ t.name = jobs[j].name
      /\ t.was = jobs[j].was /\ t \in Packages!JobRecord
  BY <1>0 DEF Packages!JobRecord, Packages!Point, Packages!Opt
<1>2. /\ jobs' = [jobs EXCEPT ![j] = t] /\ jobs[j].at = "fetching"
      /\ UNCHANGED << record, saved, born, files, lock, up, trusted, operations, faults >>
  BY PackageTypes DEF Packages!Read
<1> HIDE DEF t
<1>3. jobs'[j] = t
  BY <1>2, PackageTypes
<1>4. JobSound(j)'
  BY <1>0, <1>1, <1>2, <1>3 DEF JobSound, Storing, PackageInv
<1>5. ImportSound(j)'
  <2>1. Imported(j)' = Imported(j)
    BY <1>1, <1>3 DEF Imported
  <2>2. quiet'[j] # None => quiet'[j] = quiet[j] /\ ImportSound(j)
    BY <1>2, OwnQuiet
  <2> QED BY <1>1, <1>2, <1>3, <2>1, <2>2 DEF ImportSound
<1>6. operations' \in 0 .. MaxEvents /\ faults' \in 0 .. MaxEvents
  BY <1>2, PackageTypes
<1>7. jobs[j].at \notin Storing /\ t.at \notin Storing
  BY <1>1, <1>2 DEF Storing
<1> QED BY <1>1, <1>2, <1>4, <1>5, <1>6, <1>7, TalkStep

LEMMA GivenUp ==
  ASSUME PackageInv, NEW j \in Job, Packages!GiveUp(j)
  PROVE  \E t \in Packages!JobRecord :
           /\ jobs' = [jobs EXCEPT ![j] = t] /\ jobs'[j] = t
           /\ \/ t = Packages!IdleJob
              \/ /\ t.at = "cleanup" /\ jobs[j].kind = "import" /\ t.kind = "import"
                 /\ t.was = jobs[j].was /\ t.name = jobs[j].name
                 /\ t.format = jobs[j].format /\ t.content = jobs[j].content
<1> DEFINE u == [jobs[j] EXCEPT !.at = "cleanup"]
           t == IF jobs[j].kind = "import" THEN u ELSE Packages!IdleJob
<1>0. jobs[j] \in Packages!JobRecord
  BY PackageTypes
<1>1. /\ u.at = "cleanup" /\ u.kind = jobs[j].kind /\ u.was = jobs[j].was /\ u.name = jobs[j].name
      /\ u.format = jobs[j].format /\ u.content = jobs[j].content /\ u \in Packages!JobRecord
  BY <1>0 DEF Packages!JobRecord, Packages!Point
<1>2. jobs' = [jobs EXCEPT ![j] = t]
  BY DEF Packages!GiveUp
<1> HIDE DEF u
<1>3. t \in Packages!JobRecord
  BY <1>1, IdleType
<1>4. jobs'[j] = t
  BY <1>2, PackageTypes
<1> QED BY <1>1, <1>2, <1>3, <1>4

LEMMA RefuseStep ==
  ASSUME PackageInv, NEW j \in Job, jobs[j].at \in {"fetching", "reading"},
         Packages!GiveUp(j), Packages!NothingStored, Packages!Disturbed({j})
  PROVE  PackageInv'
<1>1. PICK t \in Packages!JobRecord :
        /\ jobs' = [jobs EXCEPT ![j] = t] /\ jobs'[j] = t
        /\ \/ t = Packages!IdleJob
           \/ /\ t.at = "cleanup" /\ jobs[j].kind = "import" /\ t.kind = "import"
              /\ t.was = jobs[j].was /\ t.name = jobs[j].name
              /\ t.format = jobs[j].format /\ t.content = jobs[j].content
  BY GivenUp
<1>2. UNCHANGED << record, saved, born, files, lock, up, trusted, operations, faults >>
  BY DEF Packages!NothingStored
<1>3. JobSound(j)' /\ ImportSound(j)' /\ t.at \notin Storing
  <2>1. CASE t = Packages!IdleJob
    <3>1. t.at = "idle" /\ t.kind = "upload" /\ t.was = None /\ quiet'[j] = None
      BY <1>1, <2>1, IdleType, QuietType
    <3> QED BY <1>1, <3>1 DEF JobSound, ImportSound, Storing, Named
  <2>2. CASE /\ t.at = "cleanup" /\ jobs[j].kind = "import" /\ t.kind = "import"
             /\ t.was = jobs[j].was /\ t.name = jobs[j].name
             /\ t.format = jobs[j].format /\ t.content = jobs[j].content
    <3>1. JobSound(j)' /\ t.at \notin Storing
      BY <1>1, <2>2 DEF JobSound, Storing, PackageInv
    <3>2. Imported(j)' = Imported(j)
      BY <1>1, <2>2 DEF Imported
    <3>3. quiet'[j] # None => quiet'[j] = quiet[j] /\ ImportSound(j)
      BY OwnQuiet
    <3>4. ImportSound(j)'
      BY <1>1, <1>2, <2>2, <3>2, <3>3 DEF ImportSound
    <3> QED BY <3>1, <3>4
  <2> QED BY <1>1, <2>1, <2>2
<1>4. operations' \in 0 .. MaxEvents /\ faults' \in 0 .. MaxEvents
  BY <1>2, PackageTypes
<1>5. jobs[j].at \notin Storing
  BY DEF Storing
<1> QED BY <1>1, <1>2, <1>3, <1>4, <1>5, TalkStep

LEMMA FreeFacts ==
  ASSUME PackageInv, lock = None
  PROVE  /\ files \in [Packages!Format -> Content \cup {None}] /\ born \in BOOLEAN
         /\ operations \in 0 .. MaxEvents /\ faults \in 0 .. MaxEvents
         /\ jobs \in [Job -> Packages!JobRecord]
         /\ trusted => Matches(record, files) /\ Matches(saved, files)
         /\ \A i \in Job : jobs[i].at \notin Storing
BY PackageTypes, PackageAssumption DEF PackageInv, StoringSound

LEMMA CreateStep ==
  ASSUME PackageInv, NEW n \in Entry, NEW f \in Packages!Format, Packages!Create(n, f), Packages!Disturbed({})
  PROVE  PackageInv'
<1> DEFINE v == [name |-> n, format |-> f, binary |-> None, package |-> None]
<1>1. v \in Packages!MinerRecord /\ Named(v) /\ v.binary = None
  BY NewMiner DEF Named
<1>2. /\ lock = None /\ up = TRUE /\ ~born /\ Packages!SaveRecord(v) /\ born' = (record' # None)
      /\ UNCHANGED << files, lock, jobs, up, operations >>
  BY PackageTypes DEF Packages!Create, Packages!Free
<1>3. record = None /\ saved = None /\ files = Packages!NoFiles
  BY <1>2 DEF PackageInv
<1> HIDE DEF v
<1>4. /\ record' \in Packages!MinerRecord \cup {None} /\ saved' \in Packages!MinerRecord \cup {None}
      /\ Named(record') /\ Named(saved') /\ saved' \in {saved, record'}
      /\ trusted' \in BOOLEAN /\ faults' \in 0 .. MaxEvents
      /\ trusted' => Matches(record', files') /\ Matches(saved', files')
  BY <1>1, <1>2, SaveRecordStep
<1>5. record' # None \/ saved' # None => born'
  BY <1>2, <1>3, <1>4
<1>6. files' \in [Packages!Format -> Content \cup {None}] /\ operations' \in 0 .. MaxEvents
        /\ jobs' \in [Job -> Packages!JobRecord] /\ born' \in BOOLEAN
  BY <1>2, FreeFacts
<1> QED BY <1>2, <1>3, <1>4, <1>5, <1>6, FreeStep

LEMMA EditStep ==
  ASSUME PackageInv, NEW n \in Entry, NEW f \in Packages!Format, NEW p \in Content \cup {None},
         Packages!Edit(n, f, p), Packages!Disturbed({})
  PROVE  PackageInv'
<1> DEFINE w == [name |-> n, format |-> f, binary |-> None, package |-> p]
           v == Packages!Kept(record, w)
<1>1. w \in Packages!MinerRecord /\ Named(w) /\ w.binary = None
  BY NewMiner DEF Named
<1>2. /\ lock = None /\ up = TRUE /\ record # None /\ Packages!Starts /\ Packages!SaveRecord(v)
      /\ UNCHANGED << born, files, lock, up, jobs >>
  BY PackageTypes DEF Packages!Edit, Packages!Free
<1> HIDE DEF w
<1>3. record \in Packages!MinerRecord /\ Named(record) /\ born = TRUE
  BY <1>2, PackageTypes DEF PackageInv
<1>4. v \in Packages!MinerRecord /\ Named(v)
  BY <1>1, <1>3, KeptFields, KeptNamed
<1> HIDE DEF v
<1>5. /\ record' \in Packages!MinerRecord \cup {None} /\ saved' \in Packages!MinerRecord \cup {None}
      /\ Named(record') /\ Named(saved') /\ saved' \in {saved, record'}
      /\ trusted' \in BOOLEAN /\ faults' \in 0 .. MaxEvents
      /\ trusted' => Matches(record', files') /\ Matches(saved', files')
  BY <1>2, <1>3, <1>4, SaveRecordStep
<1>6. files' \in [Packages!Format -> Content \cup {None}] /\ jobs' \in [Job -> Packages!JobRecord]
  BY <1>2, FreeFacts
<1>7. operations' \in 0 .. MaxEvents
  BY <1>2, Started
<1> QED BY <1>2, <1>3, <1>5, <1>6, <1>7, FreeStep

\* A deletion: the record and the files go, the one before the other.
LEMMA RemovedStep ==
  ASSUME PackageInv, lock = None, record # None, Packages!Removed
  PROVE  /\ record' \in Packages!MinerRecord \cup {None} /\ saved' \in Packages!MinerRecord \cup {None}
         /\ Named(record') /\ Named(saved') /\ saved' \in {saved, record'}
         /\ files' \in [Packages!Format -> Content \cup {None}] /\ faults' \in 0 .. MaxEvents
         /\ trusted => Matches(record', files') /\ Matches(saved', files')
         /\ UNCHANGED faults => record' = None /\ files' = Packages!NoFiles
<1>1. /\ record \in Packages!MinerRecord /\ saved \in Packages!MinerRecord \cup {None}
      /\ Named(record) /\ Named(saved) /\ files \in [Packages!Format -> Content \cup {None}]
      /\ faults \in 0 .. MaxEvents
      /\ trusted => Matches(saved, files)
  BY PackageTypes DEF PackageInv
<1>2. /\ Named(None) /\ \A fs : Matches(None, fs)
  BY DEF Named, Matches
<1>3. /\ Packages!NoFiles \in [Packages!Format -> Content \cup {None}]
      /\ \A v : Matches(v, Packages!NoFiles)
  BY DEF Packages!NoFiles, Matches, Packages!Format
<1>4. CASE record' = None /\ saved' = None /\ files' = Packages!NoFiles /\ faults' = faults
  <2>1. Named(record') /\ Named(saved')
    BY <1>2, <1>4
  <2>2. Matches(record', files') /\ Matches(saved', files')
    BY <1>2, <1>4
  <2>3. /\ record' \in Packages!MinerRecord \cup {None} /\ saved' \in Packages!MinerRecord \cup {None}
        /\ saved' \in {saved, record'}
    BY <1>4
  <2>4. files' \in [Packages!Format -> Content \cup {None}]
    BY <1>3, <1>4
  <2>5. faults' \in 0 .. MaxEvents
    BY <1>1, <1>4
  <2> QED BY <1>4, <2>1, <2>2, <2>3, <2>4, <2>5
<1>5. CASE record' = saved /\ files' = Packages!NoFiles /\ Packages!Fault /\ UNCHANGED saved
  <2>1. faults' \in 0 .. MaxEvents /\ faults' # faults
    BY <1>5, Faulted
  <2> QED BY <1>1, <1>2, <1>3, <1>5, <2>1
<1>6. CASE /\ record' = None /\ Packages!Fault /\ UNCHANGED saved
           /\ files' \in {files, [files EXCEPT !["binary"] = None]}
  <2>1. faults' \in 0 .. MaxEvents /\ faults' # faults
    BY <1>6, Faulted
  <2>2. files' \in [Packages!Format -> Content \cup {None}]
    BY <1>1, <1>6
  <2>3. /\ files'["binary"] \in {None, files["binary"]} /\ files'["tar.gz"] = files["tar.gz"]
    BY <1>1, <1>6 DEF Packages!Format
  <2>4. trusted => Matches(saved', files')
    BY <1>1, <1>6, <2>3 DEF Matches
  <2> QED BY <1>1, <1>2, <1>6, <2>1, <2>2, <2>4
<1> QED BY <1>4, <1>5, <1>6 DEF Packages!Removed, Packages!NoFault

LEMMA DeleteStep ==
  ASSUME PackageInv, Packages!Delete, Packages!Disturbed({}) PROVE PackageInv'
<1>1. /\ lock = None /\ up = TRUE /\ record # None /\ Packages!Starts /\ Packages!Removed
      /\ UNCHANGED << born, lock, jobs, up, trusted >>
  BY PackageTypes DEF Packages!Delete, Packages!Free
<1>2. born = TRUE /\ trusted \in BOOLEAN
  BY <1>1, PackageTypes DEF PackageInv
<1>3. /\ record' \in Packages!MinerRecord \cup {None} /\ saved' \in Packages!MinerRecord \cup {None}
      /\ Named(record') /\ Named(saved') /\ saved' \in {saved, record'}
      /\ files' \in [Packages!Format -> Content \cup {None}] /\ faults' \in 0 .. MaxEvents
      /\ trusted => Matches(record', files') /\ Matches(saved', files')
  BY <1>1, RemovedStep
<1>4. jobs' \in [Job -> Packages!JobRecord]
  BY <1>1, FreeFacts
<1>5. operations' \in 0 .. MaxEvents
  BY <1>1, Started
<1> QED BY <1>1, <1>2, <1>3, <1>4, <1>5, FreeStep

LEMMA SaveElsewhereStep ==
  ASSUME PackageInv, Packages!SaveElsewhere, Packages!Disturbed({}) PROVE PackageInv'
<1>1. /\ lock = None /\ up = TRUE
      /\ \/ saved' = record /\ record' = record
         \/ record' = saved /\ saved' = saved
      /\ UNCHANGED << born, files, lock, jobs, up, trusted, operations, faults >>
  BY PackageTypes DEF Packages!SaveElsewhere, Packages!Free
<1>2. /\ record \in Packages!MinerRecord \cup {None} /\ saved \in Packages!MinerRecord \cup {None}
      /\ Named(record) /\ Named(saved) /\ trusted \in BOOLEAN
      /\ record # None \/ saved # None => born
      /\ ~born => files = Packages!NoFiles
  BY PackageTypes DEF PackageInv
<1>3. /\ record' \in Packages!MinerRecord \cup {None} /\ saved' \in Packages!MinerRecord \cup {None}
      /\ Named(record') /\ Named(saved') /\ saved' \in {saved, record'}
  BY <1>1, <1>2
<1>4. /\ trusted' => Matches(record', files') /\ Matches(saved', files')
      /\ record' # None \/ saved' # None => born'
      /\ ~born' => files' = Packages!NoFiles
      /\ trusted' \in BOOLEAN
  BY <1>1, <1>2, FreeFacts
<1>5. /\ files' \in [Packages!Format -> Content \cup {None}] /\ born' \in BOOLEAN
      /\ operations' \in 0 .. MaxEvents /\ faults' \in 0 .. MaxEvents
      /\ jobs' \in [Job -> Packages!JobRecord]
  BY <1>1, FreeFacts
<1> QED BY <1>1, <1>3, <1>4, <1>5, FreeStep

LEMMA Finished ==
  ASSUME PackageInv, NEW j \in Job, Packages!Finish(j), Packages!Disturbed({j})
  PROVE  /\ jobs' \in [Job -> Packages!JobRecord] /\ \A i \in Job \ {j} : jobs'[i] = jobs[i]
         /\ jobs'[j].at \notin Storing /\ JobSound(j)' /\ ImportSound(j)'
<1>1. jobs' = [jobs EXCEPT ![j] = Packages!IdleJob] /\ jobs \in [Job -> Packages!JobRecord]
  BY PackageTypes DEF Packages!Finish
<1>2. jobs'[j] = Packages!IdleJob /\ jobs' \in [Job -> Packages!JobRecord]
        /\ \A i \in Job \ {j} : jobs'[i] = jobs[i]
  BY <1>1, IdleType
<1>3. /\ jobs'[j].at = "idle" /\ jobs'[j].kind = "upload" /\ jobs'[j].was = None
      /\ quiet'[j] = None
  BY <1>2, IdleType, QuietType
<1>4. JobSound(j)'
  BY <1>3 DEF JobSound, Storing, Named
<1>5. ImportSound(j)'
  BY <1>3 DEF ImportSound
<1> QED BY <1>2, <1>3, <1>4, <1>5 DEF Storing

\* A write-back by a request that ends with it.
LEMMA WriteBack ==
  ASSUME PackageInv, NEW j \in Job, lock = None, up = TRUE, record # None,
         NEW w \in Packages!MinerRecord, Named(w), Packages!SaveRecord(Packages!Kept(record, w)),
         Packages!Finish(j), Packages!Disturbed({j}),
         UNCHANGED << born, files, lock, up, operations >>
  PROVE  PackageInv' /\ (UNCHANGED faults => record' = Packages!Kept(record, w))
<1> DEFINE v == Packages!Kept(record, w)
<1>1. record \in Packages!MinerRecord /\ Named(record) /\ born = TRUE
  BY PackageTypes DEF PackageInv
<1>2. v \in Packages!MinerRecord /\ Named(v)
  BY <1>1, KeptFields, KeptNamed
<1> HIDE DEF v
<1>3. Packages!SaveRecord(v)
  BY DEF v
<1>4. /\ record' \in Packages!MinerRecord \cup {None} /\ saved' \in Packages!MinerRecord \cup {None}
      /\ Named(record') /\ Named(saved') /\ saved' \in {saved, record'}
      /\ trusted' \in BOOLEAN /\ faults' \in 0 .. MaxEvents
      /\ trusted' => Matches(record', files') /\ Matches(saved', files')
      /\ UNCHANGED faults => record' = v
  BY <1>1, <1>2, <1>3, SaveRecordStep
<1>5. /\ files' \in [Packages!Format -> Content \cup {None}] /\ operations' \in 0 .. MaxEvents
  BY FreeFacts
<1>6. /\ jobs' \in [Job -> Packages!JobRecord] /\ \A i \in Job \ {j} : jobs'[i] = jobs[i]
      /\ jobs'[j].at \notin Storing /\ JobSound(j)' /\ ImportSound(j)'
  BY Finished
<1>7. PackageInv'
  BY <1>1, <1>4, <1>5, <1>6, FreeStep
<1> QED BY <1>4, <1>7 DEF v

LEMMA SaveVersionStep ==
  ASSUME PackageInv, NEW j \in Job, Packages!SaveVersion(j), Packages!Disturbed({j})
  PROVE  PackageInv'
<1>1. /\ lock = None /\ up = TRUE /\ jobs[j].at = "version" /\ Packages!Finish(j)
      /\ UNCHANGED << born, files, lock, up, operations >>
  BY PackageTypes DEF Packages!SaveVersion, Packages!Free
<1>2. CASE record = None
  <2>1. UNCHANGED << record, saved, trusted, faults >>
    BY <1>2 DEF Packages!SaveVersion
  <2>2. /\ jobs' \in [Job -> Packages!JobRecord] /\ \A i \in Job \ {j} : jobs'[i] = jobs[i]
        /\ jobs'[j].at \notin Storing /\ JobSound(j)' /\ ImportSound(j)'
    BY <1>1, Finished
  <2>3. /\ record' \in Packages!MinerRecord \cup {None} /\ saved' \in Packages!MinerRecord \cup {None}
        /\ Named(record') /\ Named(saved') /\ saved' \in {saved, record'}
        /\ trusted' \in BOOLEAN /\ faults' \in 0 .. MaxEvents
        /\ record' # None \/ saved' # None => born'
        /\ ~born' => files' = Packages!NoFiles
    BY <1>1, <2>1, PackageTypes DEF PackageInv
  <2>4. /\ files' \in [Packages!Format -> Content \cup {None}] /\ operations' \in 0 .. MaxEvents
        /\ trusted' => Matches(record', files') /\ Matches(saved', files')
        /\ born' \in BOOLEAN
    BY <1>1, <2>1, FreeFacts
  <2> QED BY <1>1, <2>2, <2>3, <2>4, FreeStep
<1>3. CASE record # None
  <2>1. Packages!SaveRecord(Packages!Kept(record, jobs[j].seen))
    BY <1>3 DEF Packages!SaveVersion
  <2>2. jobs[j].seen \in Packages!MinerRecord /\ Named(jobs[j].seen)
    BY <1>1 DEF PackageInv, JobSound
  <2> QED BY <1>1, <1>3, <2>1, <2>2, WriteBack
<1> QED BY <1>2, <1>3

LEMMA DefineStep ==
  ASSUME PackageInv, NEW j \in Job, Packages!Define(j), Packages!Disturbed({j})
  PROVE  PackageInv'
<1> DEFINE w == [name |-> jobs[j].name, format |-> jobs[j].format,
                 binary |-> None, package |-> None]
           v == IF record = None THEN w ELSE Packages!Kept(record, w)
<1>1. /\ lock = None /\ up = TRUE /\ jobs[j].at = "looking"
      /\ UNCHANGED << files, lock, up, operations >>
  BY PackageTypes DEF Packages!Define, Packages!Free
<1>2. CASE /\ born /\ record = None /\ Packages!Finish(j)
           /\ UNCHANGED << record, saved, trusted, born, faults >>
  <2>1. /\ jobs' \in [Job -> Packages!JobRecord] /\ \A i \in Job \ {j} : jobs'[i] = jobs[i]
        /\ jobs'[j].at \notin Storing /\ JobSound(j)' /\ ImportSound(j)'
    BY <1>2, Finished
  <2>2. /\ record' \in Packages!MinerRecord \cup {None} /\ saved' \in Packages!MinerRecord \cup {None}
        /\ Named(record') /\ Named(saved') /\ saved' \in {saved, record'}
        /\ trusted' \in BOOLEAN /\ faults' \in 0 .. MaxEvents
        /\ record' # None \/ saved' # None => born'
        /\ ~born' => files' = Packages!NoFiles
    BY <1>1, <1>2, PackageTypes DEF PackageInv
  <2>3. /\ files' \in [Packages!Format -> Content \cup {None}] /\ operations' \in 0 .. MaxEvents
        /\ trusted' => Matches(record', files') /\ Matches(saved', files')
        /\ born' \in BOOLEAN
    BY <1>1, <1>2, FreeFacts
  <2> QED BY <1>1, <2>1, <2>2, <2>3, FreeStep
<1>3. CASE /\ Packages!SaveRecord(v)
           /\ born' = (born \/ record' # None)
           /\ jobs' = [jobs EXCEPT ![j] = IF faults' = faults
                         THEN [@ EXCEPT !.at = "fetching"] ELSE Packages!IdleJob]
           /\ ~(born /\ record = None)
  <2>0. /\ jobs[j] \in Packages!JobRecord /\ jobs \in [Job -> Packages!JobRecord]
        /\ record \in Packages!MinerRecord \cup {None} /\ Named(record) /\ born \in BOOLEAN
        /\ JobSound(j) /\ ImportSound(j)
    BY PackageTypes DEF PackageInv
  <2>1. jobs[j].kind = "import" \/ quiet[j] = None
    BY <2>0 DEF ImportSound
  <2>2. CASE jobs[j].name \in Entry
    <3>1. w \in Packages!MinerRecord /\ Named(w) /\ w.binary = None
      BY <2>0, <2>2, JobFields, NewMiner DEF Named
    <3> HIDE DEF w
    <3>2. v \in Packages!MinerRecord /\ Named(v) /\ (record = None => v.binary = None)
      BY <2>0, <3>1, KeptFields, KeptNamed
    <3> HIDE DEF v
    <3>3. /\ record' \in Packages!MinerRecord \cup {None} /\ saved' \in Packages!MinerRecord \cup {None}
          /\ Named(record') /\ Named(saved') /\ saved' \in {saved, record'}
          /\ trusted' \in BOOLEAN /\ faults' \in 0 .. MaxEvents
          /\ trusted' => Matches(record', files') /\ Matches(saved', files')
          /\ UNCHANGED faults => record' = v /\ saved' = v
      BY <1>1, <1>3, <3>2, SaveRecordStep
    <3>4. /\ born' \in BOOLEAN /\ (record' # None \/ saved' # None => born')
          /\ ~born' => files' = Packages!NoFiles
      BY <1>1, <1>3, <2>0, <3>3 DEF PackageInv
    <3>5. /\ files' \in [Packages!Format -> Content \cup {None}] /\ operations' \in 0 .. MaxEvents
      BY <1>1, FreeFacts
    <3>6. CASE faults' = faults
      <4> DEFINE t == [jobs[j] EXCEPT !.at = "fetching"]
      <4>1. /\ t.at = "fetching" /\ t.kind = jobs[j].kind /\ t.was = jobs[j].was
            /\ t.name = jobs[j].name /\ t.format = jobs[j].format
            /\ t.content = jobs[j].content /\ t \in Packages!JobRecord
        BY <2>0 DEF Packages!JobRecord, Packages!Point
      <4>2. jobs' = [jobs EXCEPT ![j] = t]
        BY <1>3, <3>6
      <4> HIDE DEF t
      <4>3. /\ jobs'[j] = t /\ jobs' \in [Job -> Packages!JobRecord]
            /\ \A i \in Job \ {j} : jobs'[i] = jobs[i]
        BY <2>0, <4>1, <4>2
      <4>4. quiet'[j] # None => quiet'[j] = quiet[j] /\ ImportSound(j)
        BY <1>1, OwnQuiet
      <4>5. ImportSound(j)'
        <5>1. SUFFICES ASSUME quiet'[j] # None PROVE ImportSound(j)'
          BY DEF ImportSound
        <5>2. record = jobs[j].was /\ files = quiet[j] /\ jobs[j].kind = "import"
              /\ (jobs[j].was = None => quiet[j] = Packages!NoFiles)
          BY <1>1, <4>4, <5>1 DEF ImportSound
        <5>3. Imported(j)' = v
          BY <4>1, <4>3, <5>2 DEF Imported, v, w
        <5> QED BY <1>1, <3>3, <3>6, <4>1, <4>3, <4>4, <5>1, <5>2, <5>3 DEF ImportSound
      <4>6. JobSound(j)' /\ jobs'[j].at \notin Storing
        <5>1. jobs[j].content \in Content
          BY <1>1, <2>0 DEF JobSound
        <5> QED BY <1>1, <2>0, <4>1, <4>3, <5>1 DEF JobSound, Storing
      <4> QED BY <1>1, <3>3, <3>4, <3>5, <4>3, <4>5, <4>6, FreeStep
    <3>7. CASE faults' # faults
      <4>1. Packages!Finish(j)
        BY <1>3, <3>7 DEF Packages!Finish
      <4>2. /\ jobs' \in [Job -> Packages!JobRecord] /\ \A i \in Job \ {j} : jobs'[i] = jobs[i]
            /\ jobs'[j].at \notin Storing /\ JobSound(j)' /\ ImportSound(j)'
        BY <4>1, Finished
      <4> QED BY <1>1, <3>3, <3>4, <3>5, <4>2, FreeStep
    <3> QED BY <3>6, <3>7
  <2> QED BY <1>1, <2>0, <2>2 DEF JobSound
<1> QED BY <1>2, <1>3 DEF Packages!Define

LEMMA UndoStep ==
  ASSUME PackageInv, NEW j \in Job, Packages!Undo(j), Packages!Disturbed({j})
  PROVE  PackageInv'
<1>1. /\ lock = None /\ up = TRUE /\ jobs[j].at = "cleanup" /\ Packages!Finish(j)
      /\ UNCHANGED << born, lock, up, operations >>
  BY PackageTypes DEF Packages!Undo, Packages!Free
<1>2. /\ jobs' \in [Job -> Packages!JobRecord] /\ \A i \in Job \ {j} : jobs'[i] = jobs[i]
      /\ jobs'[j].at \notin Storing /\ JobSound(j)' /\ ImportSound(j)'
  BY <1>1, Finished
<1>3. CASE /\ record # None /\ jobs[j].was # None
           /\ Packages!SaveRecord(Packages!Kept(record, jobs[j].was)) /\ UNCHANGED files
  <2>1. jobs[j].was \in Packages!MinerRecord /\ Named(jobs[j].was)
    BY <1>3, PackageTypes, JobFields DEF PackageInv, JobSound
  <2> QED BY <1>1, <1>3, <2>1, WriteBack
<1>4. CASE record # None /\ Packages!Removed /\ UNCHANGED trusted
  <2>1. born = TRUE /\ trusted \in BOOLEAN
    BY <1>4, PackageTypes DEF PackageInv
  <2>2. /\ record' \in Packages!MinerRecord \cup {None} /\ saved' \in Packages!MinerRecord \cup {None}
        /\ Named(record') /\ Named(saved') /\ saved' \in {saved, record'}
        /\ files' \in [Packages!Format -> Content \cup {None}] /\ faults' \in 0 .. MaxEvents
        /\ trusted => Matches(record', files') /\ Matches(saved', files')
    BY <1>1, <1>4, RemovedStep
  <2>3. operations' \in 0 .. MaxEvents
    BY <1>1, FreeFacts
  <2> QED BY <1>1, <1>2, <1>4, <2>1, <2>2, <2>3, FreeStep
<1>5. CASE /\ Packages!Fault \/ UNCHANGED faults
           /\ UNCHANGED << record, saved, trusted, files >>
  <2>1. faults' \in 0 .. MaxEvents
    BY <1>1, <1>5, Faulted, FreeFacts
  <2>2. /\ record' \in Packages!MinerRecord \cup {None} /\ saved' \in Packages!MinerRecord \cup {None}
        /\ Named(record') /\ Named(saved') /\ saved' \in {saved, record'}
        /\ trusted' \in BOOLEAN
        /\ record' # None \/ saved' # None => born'
        /\ ~born' => files' = Packages!NoFiles
    BY <1>1, <1>5, PackageTypes DEF PackageInv
  <2>3. /\ files' \in [Packages!Format -> Content \cup {None}] /\ operations' \in 0 .. MaxEvents
        /\ trusted' => Matches(record', files') /\ Matches(saved', files')
        /\ born' \in BOOLEAN
    BY <1>1, <1>5, FreeFacts
  <2> QED BY <1>1, <1>2, <2>1, <2>2, <2>3, FreeStep
<1> QED BY <1>3, <1>4, <1>5 DEF Packages!Undo, Packages!NoFault

LEMMA StoreRestartStep ==
  ASSUME PackageInv, Packages!Restart, Packages!Disturbed({}) PROVE PackageInv'
<1>1. /\ Packages!Fault \/ UNCHANGED faults
      /\ record' = saved /\ lock' = None /\ jobs' = [j \in Job |-> Packages!IdleJob]
      /\ up' = (Seed = None \/ saved = None)
      /\ trusted' = (trusted /\ lock = None)
      /\ UNCHANGED << saved, born, files, operations >>
  BY DEF Packages!Restart, Packages!NoFault
<1>2. jobs' \in [Job -> Packages!JobRecord] /\ \A j \in Job : jobs'[j] = Packages!IdleJob
  BY <1>1, IdleType
<1>3. faults' \in 0 .. MaxEvents
  BY <1>1, Faulted, PackageTypes
<1>4. /\ record' \in Packages!MinerRecord \cup {None} /\ saved' \in Packages!MinerRecord \cup {None}
      /\ Named(record') /\ Named(saved')
      /\ record' # None \/ saved' # None => born'
      /\ ~born' => files' = Packages!NoFiles
      /\ files' \in [Packages!Format -> Content \cup {None}] /\ operations' \in 0 .. MaxEvents
  BY <1>1, PackageTypes DEF PackageInv
<1>5. /\ born' \in BOOLEAN /\ trusted' \in BOOLEAN /\ up' \in BOOLEAN
      /\ ~up' => Seed # None /\ record' # None /\ saved' # None
  BY <1>1, PackageTypes
<1>6. trusted' => Matches(record', files') /\ Matches(saved', files')
  BY <1>1 DEF PackageInv
<1>7. Packages!PackageTypeOK'
  BY <1>1, <1>2, <1>3, <1>4, <1>5, QuietType DEF Packages!PackageTypeOK, Packages!Opt
<1>8. ASSUME NEW j \in Job
      PROVE  JobSound(j)' /\ StoringSound(j)' /\ ImportSound(j)'
  <2>1. jobs'[j].at = "idle" /\ jobs'[j].kind = "upload" /\ jobs'[j].was = None
          /\ quiet'[j] = None
    BY <1>2, IdleType, QuietType
  <2>2. JobSound(j)' /\ ImportSound(j)'
    BY <2>1 DEF JobSound, ImportSound, Storing, Named
  <2>3. StoringSound(j)'
    BY <1>1, <2>1, PackageAssumption DEF StoringSound, Storing
  <2> QED BY <2>2, <2>3
<1> QED BY <1>4, <1>5, <1>6, <1>7, <1>8 DEF PackageInv

LEMMA StartupDoneStep ==
  ASSUME PackageInv, Packages!StartupDone, Packages!Disturbed({}) PROVE PackageInv'
<1>1. /\ up' = TRUE
      /\ UNCHANGED << record, saved, born, files, lock, jobs, trusted, operations, faults >>
  BY DEF Packages!StartupDone
<1>2. Packages!PackageTypeOK'
  BY <1>1, QuietType DEF Packages!PackageTypeOK, Packages!Opt, PackageInv
<1>3. ASSUME NEW j \in Job
      PROVE  JobSound(j)' /\ StoringSound(j)' /\ ImportSound(j)'
  <2>1. ImportSound(j)'
    BY <1>1, OthersQuiet
  <2>2. JobSound(j) /\ StoringSound(j) /\ Before(j)' = Before(j)
    BY <1>1 DEF PackageInv, Before
  <2> QED BY <1>1, <2>1, <2>2 DEF JobSound, StoringSound
<1> QED BY <1>1, <1>2, <1>3 DEF PackageInv

\* A step of the request that holds the lock, takes it or releases it.
LEMMA LockStep ==
  ASSUME PackageInv, NEW j \in Job, lock \in {None, j}, lock' \in {None, j}, born = TRUE,
         UNCHANGED << born, operations >>, up' \in BOOLEAN, ~up' => ~up,
         record' \in Packages!MinerRecord \cup {None}, saved' \in Packages!MinerRecord \cup {None},
         Named(record'), Named(saved'), saved' \in {saved, record'},
         ~up => record' # None /\ saved' # None,
         files' \in [Packages!Format -> Content \cup {None}], trusted' \in BOOLEAN,
         lock' = None /\ trusted' => Matches(record', files') /\ Matches(saved', files'),
         faults' \in 0 .. MaxEvents, Packages!Disturbed({j}),
         NEW t \in Packages!JobRecord, jobs' = [jobs EXCEPT ![j] = t],
         JobSound(j)', StoringSound(j)', ImportSound(j)'
  PROVE  PackageInv'
<1>0. jobs' \in [Job -> Packages!JobRecord] /\ lock' \in Job \cup {None}
  BY PackageTypes
<1>1. /\ up' \in BOOLEAN /\ born' = TRUE /\ operations' \in 0 .. MaxEvents
      /\ ~up' => Seed # None
  BY PackageTypes DEF PackageInv
<1>2. Packages!PackageTypeOK'
  BY <1>0, <1>1, QuietType DEF Packages!PackageTypeOK, Packages!Opt
<1>3. ASSUME NEW i \in Job, i # j
      PROVE  JobSound(i)' /\ StoringSound(i)' /\ ImportSound(i)'
  <2>1. jobs'[i] = jobs[i] /\ JobSound(i) /\ StoringSound(i)
    BY <1>3, PackageTypes DEF PackageInv
  <2>2. jobs[i].at \notin Storing /\ lock' # i
    BY <1>3, <2>1, PackageAssumption DEF StoringSound
  <2>3. StoringSound(i)'
    BY <2>1, <2>2 DEF StoringSound, Storing
  <2>4. ImportSound(i)'
    BY <1>3, <2>1, OthersQuiet
  <2> QED BY <2>1, <2>3, <2>4 DEF JobSound
<1>4. \A i \in Job : JobSound(i)' /\ StoringSound(i)' /\ ImportSound(i)'
  BY <1>3
<1> QED BY <1>1, <1>2, <1>4 DEF PackageInv

LEMMA BackUpFileStep ==
  ASSUME PackageInv, NEW j \in Job, Packages!BackUp(j), Packages!Disturbed({j})
  PROVE  PackageInv'
<1> DEFINE f == jobs[j].format
           t == [jobs[j] EXCEPT !.at = "backed", !.old = files[f]]
<1>0. /\ jobs[j] \in Packages!JobRecord /\ f \in Packages!Format
      /\ files \in [Packages!Format -> Content \cup {None}] /\ files[f] \in Content \cup {None}
  BY PackageTypes, JobFields
<1>1. /\ t.at = "backed" /\ t.old = files[f] /\ t.format = f /\ t.kind = jobs[j].kind
      /\ t.content = jobs[j].content /\ t.seen = jobs[j].seen /\ t.name = jobs[j].name
      /\ t.was = jobs[j].was /\ t \in Packages!JobRecord
  BY <1>0 DEF Packages!JobRecord, Packages!Point, Packages!Opt
<1>2. /\ jobs[j].at = "reading" /\ lock = None /\ lock' = j
      /\ record # None /\ record = jobs[j].seen
      /\ files' = [files EXCEPT ![f] = None] /\ jobs' = [jobs EXCEPT ![j] = t]
      /\ UNCHANGED << record, saved, born, up, trusted, operations, faults >>
  BY PackageTypes DEF Packages!BackUp, Packages!StillTheSame
<1> HIDE DEF t
<1>3. jobs'[j] = t
  BY <1>2, PackageTypes
<1>4. Before(j)' = files
  <2>1. [files' EXCEPT ![f] = files[f]] = files
    BY <1>0, <1>2
  <2> QED BY <1>1, <1>3, <2>1 DEF Before
<1>5. JobSound(j) /\ (trusted => Matches(record, files) /\ Matches(saved, files))
  BY <1>2 DEF PackageInv
<1>6. JobSound(j)'
  BY <1>1, <1>2, <1>3, <1>5 DEF JobSound, Storing
<1>7. StoringSound(j)'
  BY <1>1, <1>2, <1>3, <1>4, <1>5 DEF StoringSound, Storing
<1>8. ImportSound(j)'
  <2>1. quiet'[j] # None => quiet'[j] = quiet[j] /\ ImportSound(j)
    BY <1>2, OwnQuiet
  <2>2. Imported(j)' = Imported(j)
    BY <1>1, <1>3 DEF Imported
  <2> QED BY <1>1, <1>2, <1>3, <1>4, <2>1, <2>2 DEF ImportSound
<1>9. /\ record' \in Packages!MinerRecord \cup {None} /\ saved' \in Packages!MinerRecord \cup {None}
      /\ Named(record') /\ Named(saved') /\ trusted' \in BOOLEAN
      /\ ~up => record' # None /\ saved' # None
      /\ born = TRUE /\ faults' \in 0 .. MaxEvents
  BY <1>2, PackageTypes DEF PackageInv
<1>10. files' \in [Packages!Format -> Content \cup {None}]
  BY <1>0, <1>2
<1>11. t \in Packages!JobRecord /\ lock' # None
  BY <1>1, <1>2, PackageAssumption
<1>12. up' \in BOOLEAN /\ (~up' => ~up)
  BY <1>2, PackageTypes
<1> QED BY <1>2, <1>6, <1>7, <1>8, <1>9, <1>10, <1>11, <1>12, LockStep

\* A step that puts the files back as they were and gives up.
LEMMA GivingBackStep ==
  ASSUME PackageInv, NEW j \in Job, jobs[j].at \in {"backed", "placed"}, Packages!Disturbed({j}),
         files' = Before(j), lock' = None, Packages!GiveUp(j), Packages!Fault,
         record' \in {record, saved}, UNCHANGED << saved, born, up, trusted, operations >>
  PROVE  PackageInv'
<1>0. /\ JobSound(j) /\ StoringSound(j) /\ lock = j
      /\ jobs[j] \in Packages!JobRecord /\ jobs[j].format \in Packages!Format
      /\ record = jobs[j].seen /\ record \in Packages!MinerRecord
      /\ trusted => Matches(record, Before(j)) /\ Matches(saved, Before(j))
  BY PackageTypes, JobFields DEF PackageInv, StoringSound, JobSound, Storing
<1>1. PICK t \in Packages!JobRecord :
        /\ jobs' = [jobs EXCEPT ![j] = t] /\ jobs'[j] = t
        /\ \/ t = Packages!IdleJob
           \/ /\ t.at = "cleanup" /\ jobs[j].kind = "import" /\ t.kind = "import"
              /\ t.was = jobs[j].was /\ t.name = jobs[j].name
              /\ t.format = jobs[j].format /\ t.content = jobs[j].content
  BY GivenUp
<1>2. /\ record' \in Packages!MinerRecord \cup {None} /\ saved' \in Packages!MinerRecord \cup {None}
      /\ Named(record') /\ Named(saved') /\ trusted' \in BOOLEAN
      /\ ~up => record' # None /\ saved' # None
      /\ born = TRUE
  BY <1>0, PackageTypes, PackageAssumption DEF PackageInv
<1>3. files' \in [Packages!Format -> Content \cup {None}]
  BY <1>0, PackageTypes, JobFields DEF Before
<1>4. faults' \in 0 .. MaxEvents
  BY Faulted
<1>5. JobSound(j)' /\ StoringSound(j)' /\ ImportSound(j)'
  <2>1. CASE t = Packages!IdleJob
    <3>1. t.at = "idle" /\ t.kind = "upload" /\ t.was = None /\ quiet'[j] = None
      BY <1>1, <2>1, IdleType, QuietType
    <3>2. JobSound(j)' /\ ImportSound(j)'
      BY <1>1, <3>1 DEF JobSound, ImportSound, Storing, Named
    <3>3. StoringSound(j)'
      BY <1>1, <3>1, PackageAssumption DEF StoringSound, Storing
    <3> QED BY <3>2, <3>3
  <2>2. CASE /\ t.at = "cleanup" /\ jobs[j].kind = "import" /\ t.kind = "import"
             /\ t.was = jobs[j].was /\ t.name = jobs[j].name
             /\ t.format = jobs[j].format /\ t.content = jobs[j].content
    <3>1. JobSound(j)'
      BY <1>0, <1>1, <2>2 DEF JobSound, Storing
    <3>2. StoringSound(j)'
      BY <1>1, <2>2, PackageAssumption DEF StoringSound, Storing
    <3>3. Imported(j)' = Imported(j)
      BY <1>1, <2>2 DEF Imported
    <3>4. quiet'[j] # None => quiet'[j] = quiet[j] /\ ImportSound(j)
      BY OwnQuiet
    <3>5. ImportSound(j)'
      BY <1>1, <2>2, <3>3, <3>4 DEF ImportSound
    <3> QED BY <3>1, <3>2, <3>5
  <2> QED BY <1>1, <2>1, <2>2
<1>6. up' \in BOOLEAN /\ (~up' => ~up)
  BY PackageTypes
<1> QED BY <1>0, <1>1, <1>2, <1>3, <1>4, <1>5, <1>6, LockStep

LEMMA PlaceStep ==
  ASSUME PackageInv, NEW j \in Job, Packages!Place(j), Packages!Disturbed({j})
  PROVE  PackageInv'
<1> DEFINE f == jobs[j].format
           t == [jobs[j] EXCEPT !.at = "placed"]
<1>0. /\ jobs[j] \in Packages!JobRecord /\ f \in Packages!Format /\ lock = j
      /\ files \in [Packages!Format -> Content \cup {None}] /\ jobs[j].old \in Content \cup {None}
      /\ JobSound(j) /\ StoringSound(j) /\ jobs[j].at = "backed"
      /\ jobs[j].content \in Content /\ record = jobs[j].seen /\ record \in Packages!MinerRecord
  BY PackageTypes, JobFields, ZenonT(30) DEF Packages!Place, PackageInv, StoringSound, JobSound, Storing
<1>1. CASE /\ files' = [files EXCEPT ![f] = jobs[j].content]
           /\ jobs' = [jobs EXCEPT ![j] = t]
           /\ UNCHANGED << record, saved, born, up, trusted, operations, faults, lock >>
  <2>1. /\ t.at = "placed" /\ t.old = jobs[j].old /\ t.format = f /\ t.kind = jobs[j].kind
        /\ t.content = jobs[j].content /\ t.seen = jobs[j].seen /\ t.name = jobs[j].name
        /\ t.was = jobs[j].was /\ t \in Packages!JobRecord
    BY <1>0 DEF Packages!JobRecord, Packages!Point
  <2> HIDE DEF t
  <2>2. jobs'[j] = t
    BY <1>1, PackageTypes
  <2>3. Before(j)' = Before(j) /\ files'[f] = jobs[j].content
    <3>1. [files' EXCEPT ![f] = jobs[j].old] = [files EXCEPT ![f] = jobs[j].old]
      BY <1>0, <1>1
    <3> QED BY <1>0, <1>1, <2>1, <2>2, <3>1 DEF Before
  <2>4. JobSound(j)'
    BY <1>0, <2>1, <2>2 DEF JobSound, Storing
  <2>5. StoringSound(j)'
    BY <1>0, <1>1, <2>1, <2>2, <2>3 DEF StoringSound, Storing
  <2>6. ImportSound(j)'
    <3>1. quiet'[j] # None => quiet'[j] = quiet[j] /\ ImportSound(j)
      BY <1>0, OwnQuiet
    <3>2. Imported(j)' = Imported(j)
      BY <2>1, <2>2 DEF Imported
    <3> QED BY <1>0, <1>1, <2>1, <2>2, <2>3, <3>1, <3>2 DEF ImportSound
  <2>7. /\ record' \in Packages!MinerRecord \cup {None} /\ saved' \in Packages!MinerRecord \cup {None}
        /\ Named(record') /\ Named(saved') /\ trusted' \in BOOLEAN
        /\ ~up => record' # None /\ saved' # None
        /\ born = TRUE /\ faults' \in 0 .. MaxEvents
    BY <1>0, <1>1, PackageTypes, PackageAssumption DEF PackageInv
  <2>8. files' \in [Packages!Format -> Content \cup {None}]
    BY <1>0, <1>1
  <2>9. t \in Packages!JobRecord /\ lock' # None /\ lock' = j
    BY <1>0, <1>1, <2>1, PackageAssumption
  <2>10. up' \in BOOLEAN /\ (~up' => ~up)
    BY <1>1, PackageTypes
  <2> QED BY <1>0, <1>1, <2>4, <2>5, <2>6, <2>7, <2>8, <2>9, <2>10, LockStep
<1>2. CASE /\ files' = [files EXCEPT ![f] = jobs[j].old]
           /\ lock' = None /\ Packages!GiveUp(j) /\ Packages!Fault
           /\ UNCHANGED << record, saved, born, up, trusted, operations >>
  <2>1. files' = Before(j)
    BY <1>2 DEF Before
  <2> QED BY <1>0, <1>2, <2>1, GivingBackStep
<1>3. jobs' = [jobs EXCEPT ![j].at = "placed"] => jobs' = [jobs EXCEPT ![j] = t]
  BY PackageTypes
<1> HIDE DEF t
<1> QED BY <1>1, <1>2, <1>3 DEF Packages!Place, Packages!NoFault

\* A digest, as one thing.
Digest(c, n) == [of |-> c, entry |-> n]

\* The record after a package was stored under the name that was read.
LEMMA RecordedFields ==
  ASSUME NEW v \in Packages!MinerRecord, NEW c \in Content, NEW f \in Packages!Format, NEW n, n = v.name,
         NEW r, r = Packages!Recorded(v, n, f, c)
  PROVE  /\ r \in Packages!MinerRecord /\ Named(r)
         /\ f = "binary" => r.package = None /\ r.binary = Digest(c, None)
         /\ f = "tar.gz" => r.package = c /\ r.binary = Digest(c, r.name)
<1>1. /\ v.name \in Entry /\ v.format \in Packages!Format
      /\ v = [name |-> v.name, format |-> v.format, binary |-> v.binary, package |-> v.package]
  BY DEF Packages!MinerRecord
<1>2. CASE f = "binary"
  <2>1. r = [name |-> v.name, format |-> "binary", binary |-> [of |-> c, entry |-> None],
             package |-> None]
    BY <1>1, <1>2 DEF Packages!Recorded
  <2>2. [of |-> c, entry |-> None] \in Packages!Executable /\ "binary" \in Packages!Format
    BY DEF Packages!Executable, Packages!Opt, Packages!Format
  <2>3. r \in Packages!MinerRecord
    BY <1>1, <2>1, <2>2, NewMiner
  <2> QED BY <1>2, <2>1, <2>3 DEF Named, Digest
<1>3. CASE f = "tar.gz"
  <2>1. r = [name |-> v.name, format |-> v.format, binary |-> [of |-> c, entry |-> v.name],
             package |-> c]
    BY <1>1, <1>3 DEF Packages!Recorded
  <2>2. [of |-> c, entry |-> v.name] \in Packages!Executable
    BY <1>1 DEF Packages!Executable, Packages!Opt
  <2>3. r \in Packages!MinerRecord
    BY <1>1, <2>1, <2>2, NewMiner
  <2> QED BY <1>3, <2>1, <2>3 DEF Named, Digest
<1> QED BY <1>2, <1>3 DEF Packages!Format

LEMMA RecordStep ==
  ASSUME PackageInv, NEW j \in Job, Packages!Record(j), Packages!Disturbed({j})
  PROVE  PackageInv'
<1> DEFINE f == jobs[j].format
           t == [jobs[j] EXCEPT !.at = "recorded"]
           v == Packages!Recorded(record, jobs[j].seen.name, f, jobs[j].content)
<1>0. /\ jobs[j] \in Packages!JobRecord /\ f \in Packages!Format /\ lock = j
      /\ JobSound(j) /\ StoringSound(j) /\ jobs[j].at = "placed"
      /\ jobs[j].content \in Content /\ record = jobs[j].seen /\ record \in Packages!MinerRecord
  BY PackageTypes, JobFields DEF Packages!Record, PackageInv, StoringSound, JobSound, Storing
<1>1. CASE /\ record' = v /\ saved' = v
           /\ jobs' = [jobs EXCEPT ![j] = t]
           /\ UNCHANGED << files, lock, born, up, trusted, operations, faults >>
  <2>1. /\ t.at = "recorded" /\ t.old = jobs[j].old /\ t.format = f /\ t.kind = jobs[j].kind
        /\ t.content = jobs[j].content /\ t.seen = jobs[j].seen /\ t.name = jobs[j].name
        /\ t.was = jobs[j].was /\ t \in Packages!JobRecord
    BY <1>0 DEF Packages!JobRecord, Packages!Point
  <2> HIDE DEF t
  <2>2. jobs'[j] = t
    BY <1>1, PackageTypes
  <2>3. v = Packages!Recorded(record, jobs[j].seen.name, f, jobs[j].content)
    OBVIOUS
  <2> HIDE DEF v
  <2>4. /\ v \in Packages!MinerRecord /\ Named(v) /\ v # None
        /\ f = "binary" => v.package = None /\ v.binary = [of |-> jobs[j].content, entry |-> None]
        /\ f = "tar.gz" => /\ v.package = jobs[j].content
                           /\ v.binary = [of |-> jobs[j].content, entry |-> v.name]
    <3>1. jobs[j].seen.name = record.name
      BY <1>0
    <3> DEFINE n == jobs[j].seen.name
    <3>2. v = Packages!Recorded(record, n, f, jobs[j].content)
      BY <2>3
    <3>3. n = record.name
      BY <3>1
    <3> HIDE DEF n
    <3>4. f \in Packages!Format /\ record \in Packages!MinerRecord /\ jobs[j].content \in Content
      BY <1>0
    <3> HIDE DEF f
    <3>5. v \in Packages!MinerRecord /\ Named(v)
      BY <3>2, <3>3, <3>4, RecordedFields
    <3>6. /\ f = "binary" => v.package = None /\ v.binary = Digest(jobs[j].content, None)
          /\ f = "tar.gz" => /\ v.package = jobs[j].content
                             /\ v.binary = Digest(jobs[j].content, v.name)
      BY <3>2, <3>3, <3>4, RecordedFields
    <3> QED BY <3>5, <3>6, PackageAssumption DEF Digest
  <2>5. JobSound(j)'
    BY <1>0, <2>1, <2>2 DEF JobSound, Storing
  <2>6. StoringSound(j)'
    <3>1. files'[f] = jobs[j].content
      BY <1>0, <1>1 DEF StoringSound
    <3> QED BY <1>0, <1>1, <2>1, <2>2, <2>4, <3>1 DEF StoringSound, Storing
  <2>7. ImportSound(j)'
    <3>1. quiet'[j] # None => quiet'[j] = quiet[j] /\ ImportSound(j)
      BY <1>0, OwnQuiet
    <3> QED BY <1>0, <2>1, <2>2, <3>1 DEF ImportSound
  <2>8. /\ born = TRUE /\ faults' \in 0 .. MaxEvents /\ trusted' \in BOOLEAN
        /\ files' \in [Packages!Format -> Content \cup {None}]
    BY <1>0, <1>1, PackageTypes, PackageAssumption DEF PackageInv
  <2>9. t \in Packages!JobRecord /\ lock' # None /\ lock' = j
    BY <1>0, <1>1, <2>1, PackageAssumption
  <2>10. /\ record' \in Packages!MinerRecord \cup {None} /\ saved' \in Packages!MinerRecord \cup {None}
         /\ Named(record') /\ Named(saved') /\ saved' \in {saved, record'}
         /\ record' # None /\ saved' # None
    BY <1>1, <2>4
  <2>11. up' \in BOOLEAN /\ (~up' => ~up)
    BY <1>1, PackageTypes
  <2> QED BY <1>0, <1>1, <2>5, <2>6, <2>7, <2>8, <2>9, <2>10, <2>11, LockStep
<1>2. CASE /\ record' = saved /\ Packages!Fault /\ UNCHANGED saved
           /\ files' = Packages!PutBack(j) /\ lock' = None /\ Packages!GiveUp(j)
           /\ UNCHANGED << born, up, trusted, operations >>
  <2>1. files' = Before(j)
    BY <1>2 DEF Before, Packages!PutBack
  <2> QED BY <1>0, <1>2, <2>1, GivingBackStep
<1>3. jobs' = [jobs EXCEPT ![j].at = "recorded"] => jobs' = [jobs EXCEPT ![j] = t]
  BY PackageTypes
<1> HIDE DEF t
<1> QED BY <1>1, <1>2, <1>3 DEF Packages!Record, Packages!NoFault

LEMMA TidyStep ==
  ASSUME PackageInv, NEW j \in Job, Packages!Tidy(j), Packages!Disturbed({j})
  PROVE  PackageInv'
<1> DEFINE f == jobs[j].format
           g == Packages!Other(f)
           u == [jobs[j] EXCEPT !.at = "version", !.seen = record]
           t == IF jobs[j].kind = "refresh" THEN u ELSE Packages!IdleJob
<1>0. /\ jobs[j] \in Packages!JobRecord /\ f \in Packages!Format /\ lock = j
      /\ files \in [Packages!Format -> Content \cup {None}]
      /\ JobSound(j) /\ StoringSound(j) /\ jobs[j].at = "recorded"
      /\ jobs[j].content \in Content /\ record \in Packages!MinerRecord /\ record = saved
      /\ Named(record)
  BY PackageTypes, JobFields DEF Packages!Tidy, PackageInv, StoringSound, JobSound, Storing
<1>1. /\ files' = [files EXCEPT ![g] = None] /\ lock' = None /\ trusted' = TRUE
      /\ jobs' = [jobs EXCEPT ![j] = t]
      /\ up' = TRUE
      /\ UNCHANGED << record, saved, born, operations, faults >>
  BY PackageTypes DEF Packages!Tidy
<1>2. g \in Packages!Format /\ (f = "binary" => g = "tar.gz") /\ (f = "tar.gz" => g = "binary")
  BY <1>0 DEF Packages!Other, Packages!Format
<1> HIDE DEF g
<1>3. Matches(record, files')
  <2>1. files[f] = jobs[j].content
    BY <1>0 DEF StoringSound
  <2>2. CASE f = "binary"
    BY <1>0, <1>1, <1>2, <2>1, <2>2 DEF Matches, StoringSound, Packages!Format
  <2>3. CASE f = "tar.gz"
    BY <1>0, <1>1, <1>2, <2>1, <2>3 DEF Matches, StoringSound, Packages!Format
  <2> QED BY <1>0, <2>2, <2>3 DEF Packages!Format
<1>4. /\ u.at = "version" /\ u.seen = record /\ u.format = f /\ u.kind = jobs[j].kind
      /\ u.name = jobs[j].name /\ u.was = jobs[j].was /\ u \in Packages!JobRecord
  BY <1>0 DEF Packages!JobRecord, Packages!Point, Packages!Opt
<1> HIDE DEF u
<1>5. t \in Packages!JobRecord
  BY <1>4, IdleType
<1>6. JobSound(j)' /\ StoringSound(j)' /\ ImportSound(j)'
  <2>1. jobs'[j] = t
    BY <1>1, PackageTypes
  <2>2. CASE jobs[j].kind = "refresh"
    <3>1. jobs'[j] = u
      BY <2>1, <2>2
    <3>2. JobSound(j)'
      BY <1>0, <1>1, <1>4, <2>2, <3>1 DEF JobSound, Storing
    <3>3. StoringSound(j)'
      BY <1>1, <1>4, <3>1, PackageAssumption DEF StoringSound, Storing
    <3>4. ImportSound(j)'
      <4>1. quiet'[j] # None => quiet'[j] = quiet[j] /\ ImportSound(j)
        BY <1>0, OwnQuiet
      <4>2. quiet'[j] = None
        BY <2>2, <4>1 DEF ImportSound
      <4> QED BY <4>2 DEF ImportSound
    <3> QED BY <3>2, <3>3, <3>4
  <2>3. CASE jobs[j].kind # "refresh"
    <3>1. jobs'[j].at = "idle" /\ jobs'[j].kind = "upload" /\ jobs'[j].was = None
            /\ quiet'[j] = None
      BY <2>1, <2>3, IdleType, QuietType
    <3>2. JobSound(j)' /\ ImportSound(j)'
      BY <3>1 DEF JobSound, ImportSound, Storing, Named
    <3>3. StoringSound(j)'
      BY <1>1, <3>1, PackageAssumption DEF StoringSound, Storing
    <3> QED BY <3>2, <3>3
  <2> QED BY <2>2, <2>3
<1> HIDE DEF t
<1>7. /\ born = TRUE /\ faults' \in 0 .. MaxEvents
      /\ record' \in Packages!MinerRecord \cup {None} /\ saved' \in Packages!MinerRecord \cup {None}
      /\ Named(record') /\ Named(saved') /\ saved' \in {saved, record'}
      /\ ~up => record' # None /\ saved' # None
  BY <1>0, <1>1, PackageTypes, PackageAssumption DEF PackageInv
<1>8. files' \in [Packages!Format -> Content \cup {None}]
  BY <1>0, <1>1, <1>2
<1>9. lock' = None /\ trusted' => Matches(record', files') /\ Matches(saved', files')
  BY <1>0, <1>1, <1>3
<1>10. up' \in BOOLEAN /\ (~up' => ~up)
  BY <1>1, PackageTypes
<1> QED BY <1>0, <1>1, <1>5, <1>6, <1>7, <1>8, <1>9, <1>10, LockStep

LEMMA PackageStarts == ASSUME Packages!PackageInit PROVE PackageInv
<1>1. /\ saved = record /\ born = (record # None) /\ lock = None
      /\ jobs = [j \in Job |-> Packages!IdleJob] /\ up = TRUE /\ trusted = TRUE
      /\ quiet = [j \in Job |-> None] /\ operations = 0 /\ faults = 0
  BY DEF Packages!PackageInit
<1>2. \A j \in Job : jobs[j] = Packages!IdleJob /\ quiet[j] = None
  BY <1>1
<1>3. /\ record \in Packages!MinerRecord \cup {None} /\ files \in [Packages!Format -> Content \cup {None}]
      /\ Named(record) /\ Matches(record, files)
      /\ record = None => files = Packages!NoFiles
  <2>0. Packages!NoFiles \in [Packages!Format -> Content \cup {None}]
    BY DEF Packages!NoFiles
  <2>1. CASE record = None /\ files = Packages!NoFiles
    BY <2>0, <2>1 DEF Named, Matches
  <2>2. ASSUME NEW n \in Entry, NEW f \in Packages!Format, NEW c \in Content \cup {None},
               NEW v, v = [name |-> n, format |-> f, binary |-> None, package |-> None],
               record = IF c = None THEN v ELSE Packages!Recorded(v, n, f, c),
               files = [Packages!NoFiles EXCEPT ![f] = c]
        PROVE  <1>3!:
    <3>1. v \in Packages!MinerRecord /\ v.name = n /\ v.binary = None
      BY <2>2, NewMiner
    <3>2. files \in [Packages!Format -> Content \cup {None}]
      BY <2>0, <2>2
    <3>3. CASE c = None
      <4>1. record = v /\ record \in Packages!MinerRecord
        BY <2>2, <3>1, <3>3
      <4> QED BY <3>1, <3>2, <4>1, PackageAssumption DEF Named, Matches
    <3>4. CASE c # None
      <4>0. c \in Content /\ record = Packages!Recorded(v, n, f, c)
        BY <2>2, <3>4
      <4>1. /\ record \in Packages!MinerRecord /\ Named(record)
            /\ f = "binary" => record.package = None /\ record.binary = Digest(c, None)
            /\ f = "tar.gz" => record.package = c /\ record.binary = Digest(c, record.name)
        BY <3>1, <4>0, RecordedFields
      <4>2. files = [g \in Packages!Format |-> IF g = f THEN c ELSE None]
        BY <2>2 DEF Packages!NoFiles
      <4>3. Matches(record, files)
        BY <4>1, <4>2 DEF Matches, Packages!Format, Digest
      <4> QED BY <3>2, <4>1, <4>3, PackageAssumption
    <3> QED BY <3>3, <3>4
  <2> QED BY <2>1, <2>2 DEF Packages!PackageInit, Packages!Opt
<1>4. Packages!PackageTypeOK
  BY <1>1, <1>3, IdleType, PackageAssumption DEF Packages!PackageTypeOK, Packages!Opt
<1>5. ASSUME NEW j \in Job PROVE JobSound(j) /\ StoringSound(j) /\ ImportSound(j)
  BY <1>1, <1>2, IdleType, PackageAssumption
     DEF JobSound, StoringSound, ImportSound, Storing, Named
<1> QED BY <1>1, <1>3, <1>4, <1>5 DEF PackageInv

LEMMA PackageStep ==
  ASSUME PackageInv, Packages!PackageNext \/ UNCHANGED packageVars PROVE PackageInv'
<1>1. CASE UNCHANGED packageVars
  BY <1>1, ZenonT(30) DEF PackageInv, packageVars, Packages!PackageTypeOK, Before, JobSound, StoringSound,
              ImportSound, Imported
<1>2. CASE Packages!StoreStep /\ Packages!Disturbed({})
  BY <1>2, CreateStep, EditStep, DeleteStep, SaveElsewhereStep, StoreRestartStep,
     StartupDoneStep DEF Packages!StoreStep, Packages!Opt
<1>3. ASSUME NEW j \in Job, Packages!JobStep(j), Packages!Disturbed({j}) PROVE PackageInv'
  <2>1. CASE \/ \E k \in {"upload", "refresh"}, f \in Packages!Format, c \in Content :
                  Packages!StartUpload(j, k, f, c)
             \/ \E n \in Entry, f \in Packages!Format, c \in Content : Packages!LookUp(j, n, f, c)
             \/ Packages!StartRepair(j)
    BY <1>3, <2>1, StartUploadStep, LookUpStep, StartRepairStep
  <2>2. CASE Packages!RefuseRelease(j) \/ Packages!RefuseDownload(j) \/ Packages!RefuseBody(j)
    <3>1. jobs[j].at \in {"fetching", "reading"} /\ Packages!GiveUp(j) /\ Packages!NothingStored
      BY <2>2 DEF Packages!RefuseRelease, Packages!RefuseDownload, Packages!RefuseBody
    <3> QED BY <1>3, <3>1, RefuseStep
  <2>3. CASE Packages!Read(j) \/ Packages!BackUp(j) \/ Packages!Place(j) \/ Packages!Record(j) \/ Packages!Tidy(j)
    BY <1>3, <2>3, ReadStep, BackUpFileStep, PlaceStep, RecordStep, TidyStep
  <2>4. CASE Packages!SaveVersion(j) \/ Packages!Define(j) \/ Packages!Undo(j)
    BY <1>3, <2>4, SaveVersionStep, DefineStep, UndoStep
  <2> QED BY <1>3, <2>1, <2>2, <2>3, <2>4 DEF Packages!JobStep
<1> QED BY <1>1, <1>2, <1>3 DEF Packages!PackageNext

\* What a rig is served matches its record.
LEMMA ServedMatches == ASSUME PackageInv PROVE Packages!ServedPackageMatches
<1> DEFINE c == Packages!Served(record, files)
<1>1. SUFFICES ASSUME trusted, lock = None, c # None PROVE Packages!Verifies(record, c)
  BY DEF Packages!ServedPackageMatches
<1>2. Matches(record, files) /\ record \in Packages!MinerRecord /\ record # None
  BY <1>1, PackageTypes DEF PackageInv, Packages!Served
<1>3. /\ record.binary # None /\ c = files[record.format]
      /\ record.format = "tar.gz" => record.package # None
  BY <1>1 DEF Packages!Served
<1>4. CASE record.format = "binary"
  BY <1>1, <1>2, <1>3, <1>4 DEF Matches, Packages!Verifies
<1>5. CASE record.format = "tar.gz"
  BY <1>1, <1>2, <1>3, <1>5 DEF Matches, Packages!Verifies
<1> QED BY <1>2, <1>4, <1>5, MinerFields DEF Packages!Format

\* A definition that has been replaced is kept by what is saved over the new one.
LEMMA KeptBack ==
  ASSUME NEW old \in Packages!MinerRecord, NEW w \in Packages!MinerRecord, w.binary = None, w.package = None
  PROVE  Packages!Kept(Packages!Kept(old, w), old) = old
<1> DEFINE v == Packages!Kept(old, w)
           u == Packages!Kept(v, old)
<1>1. /\ v \in Packages!MinerRecord /\ v.name = w.name
      /\ v.binary = IF old.name = w.name THEN old.binary ELSE None
      /\ v.package = IF old.name = w.name THEN old.package ELSE None
  BY KeptFields
<1> HIDE DEF v
<1>2. /\ u \in Packages!MinerRecord /\ u.name = old.name /\ u.format = old.format
      /\ u.binary = IF old.binary = None /\ v.name = old.name THEN v.binary ELSE old.binary
      /\ u.package = IF old.package = None /\ v.name = old.name THEN v.package ELSE old.package
  BY <1>1, KeptFields
<1> HIDE DEF u
<1>3. u.binary = old.binary /\ u.package = old.package
  BY <1>1, <1>2
<1>4. u = old
  BY <1>2, <1>3 DEF Packages!MinerRecord
<1> QED BY <1>4 DEF u, v

LEMMA UndoneStep ==
  ASSUME PackageInv, NEW j \in Job, Packages!Undo(j), UNCHANGED faults, quiet[j] # None
  PROVE  record' = jobs[j].was /\ files' = quiet[j]
<1> DEFINE w == [name |-> jobs[j].name, format |-> jobs[j].format,
                 binary |-> None, package |-> None]
<1>1. /\ jobs[j].at = "cleanup" /\ jobs[j].kind = "import" /\ jobs[j].name \in Entry
      /\ jobs[j].format \in Packages!Format /\ jobs[j].was \in Packages!MinerRecord \cup {None}
      /\ files = quiet[j] /\ (jobs[j].was = None => quiet[j] = Packages!NoFiles)
      /\ record = IF jobs[j].was = None THEN w ELSE Packages!Kept(jobs[j].was, w)
      /\ ~Packages!Fault
  BY PackageTypes, JobFields, Faulted
     DEF Packages!Undo, PackageInv, ImportSound, JobSound, Imported
<1>2. w \in Packages!MinerRecord /\ w.binary = None /\ w.package = None
  BY <1>1, NewMiner
<1> HIDE DEF w
<1>3. record # None
  BY <1>1, <1>2, KeptFields, PackageAssumption
<1>4. CASE jobs[j].was = None
  BY <1>1, <1>3, <1>4 DEF Packages!Undo, Packages!Removed
<1>5. CASE jobs[j].was # None
  <2>1. Packages!Kept(record, jobs[j].was) = jobs[j].was
    BY <1>1, <1>2, <1>5, KeptBack
  <2>2. files' = files /\ record' = Packages!Kept(record, jobs[j].was)
    BY <1>1, <1>3, <1>5 DEF Packages!Undo, Packages!SaveRecord
  <2> QED BY <1>1, <2>1, <2>2
<1> QED BY <1>4, <1>5

\* Until the controller serves, the only request is the repair of the built-in
\* package, and what it has in memory is what is on disk.
StartInv == ~up => /\ record = saved
                   /\ \A j \in Job : jobs[j].at # "idle" =>
                        jobs[j].kind = "repair" /\ jobs[j].format = "tar.gz" /\ jobs[j].content = Seed

\* What has to hold when a controller comes to serve.
ServesSeed ==
  ~up /\ up' /\ record'.format = "tar.gz" =>
    /\ Packages!Served(record', files') = Seed
    /\ Packages!Verifies(record', Seed)
    /\ saved' = record'

LEMMA StartStarts == ASSUME Packages!PackageInit PROVE StartInv
BY DEF Packages!PackageInit, StartInv

\* The repair of a starting controller goes on with what it brings, or ends.
LEMMA RepairGoesOn ==
  ASSUME PackageInv, StartInv, ~up, NEW j \in Job, NEW t, jobs' = [jobs EXCEPT ![j] = t],
         record' = saved', t.at = "idle" \/ jobs[j].at # "idle",
         t.at # "idle" =>
           t.kind = jobs[j].kind /\ t.format = jobs[j].format /\ t.content = jobs[j].content
  PROVE  StartInv'
<1>1. \A i \in Job : jobs'[i] = IF i = j THEN t ELSE jobs[i]
  BY PackageTypes
<1> QED BY <1>1 DEF StartInv

\* What is given up there is no import.
LEMMA RepairGivesUp ==
  ASSUME PackageInv, StartInv, ~up, NEW j \in Job, jobs[j].at # "idle", Packages!GiveUp(j),
         record' = saved'
  PROVE  StartInv'
<1>1. jobs[j].kind = "repair" /\ jobs[j] \in Packages!JobRecord
  BY PackageTypes DEF StartInv
<1>2. jobs' = [jobs EXCEPT ![j] = Packages!IdleJob]
  BY <1>1 DEF Packages!GiveUp
<1> QED BY <1>2, IdleType, RepairGoesOn

LEMMA StartRequestStep ==
  ASSUME PackageInv, StartInv, ~up, NEW j \in Job, Packages!JobStep(j)
  PROVE  StartInv' /\ ServesSeed
<1> USE DEF ServesSeed
<1>0. jobs[j] \in Packages!JobRecord /\ record = saved /\ record # None /\ up = FALSE
  BY PackageTypes DEF StartInv, PackageInv
<1>1. CASE Packages!StartRepair(j)
  <2> DEFINE t == [Packages!IdleJob EXCEPT !.kind = "repair", !.at = "fetching",
                                   !.format = "tar.gz", !.content = Seed]
  <2>1. t.kind = "repair" /\ t.format = "tar.gz" /\ t.content = Seed
    BY DEF Packages!IdleJob
  <2> HIDE DEF t
  <2>2. /\ jobs' = [jobs EXCEPT ![j] = t] /\ UNCHANGED << record, saved, up >>
        /\ \A i \in Job : jobs[i].at = "idle"
    BY <1>0, <1>1 DEF Packages!StartRepair, t
  <2>3. \A i \in Job : jobs'[i] = IF i = j THEN t ELSE jobs[i]
    BY <2>2, PackageTypes
  <2> QED BY <1>0, <2>1, <2>2, <2>3 DEF StartInv
<1>2. CASE Packages!Read(j)
  <2> DEFINE t == [jobs[j] EXCEPT !.at = "reading", !.seen = record]
  <2>1. t.kind = jobs[j].kind /\ t.format = jobs[j].format /\ t.content = jobs[j].content
    BY <1>0 DEF Packages!JobRecord
  <2> HIDE DEF t
  <2>2. /\ jobs' = [jobs EXCEPT ![j] = t] /\ UNCHANGED << record, saved, up >>
        /\ jobs[j].at # "idle"
    BY <1>2 DEF Packages!Read, t
  <2> QED BY <1>0, <2>1, <2>2, RepairGoesOn
<1>3. CASE Packages!RefuseRelease(j) \/ Packages!RefuseDownload(j) \/ Packages!RefuseBody(j)
  <2>1. jobs[j].at # "idle" /\ Packages!GiveUp(j) /\ UNCHANGED << record, saved, up >>
    BY <1>3 DEF Packages!RefuseRelease, Packages!RefuseDownload, Packages!RefuseBody, Packages!NothingStored
  <2> QED BY <1>0, <2>1, RepairGivesUp
<1>4. CASE Packages!BackUp(j)
  <2> DEFINE t == [jobs[j] EXCEPT !.at = "backed", !.old = files[jobs[j].format]]
  <2>1. t.kind = jobs[j].kind /\ t.format = jobs[j].format /\ t.content = jobs[j].content
    BY <1>0 DEF Packages!JobRecord
  <2> HIDE DEF t
  <2>2. /\ jobs' = [jobs EXCEPT ![j] = t] /\ UNCHANGED << record, saved, up >>
        /\ jobs[j].at # "idle"
    BY <1>4 DEF Packages!BackUp, t
  <2> QED BY <1>0, <2>1, <2>2, RepairGoesOn
<1>5. CASE Packages!Place(j)
  <2> DEFINE t == [jobs[j] EXCEPT !.at = "placed"]
  <2>1. t.kind = jobs[j].kind /\ t.format = jobs[j].format /\ t.content = jobs[j].content
    BY <1>0 DEF Packages!JobRecord
  <2> HIDE DEF t
  <2>2. /\ jobs' = [jobs EXCEPT ![j] = t] \/ Packages!GiveUp(j)
        /\ UNCHANGED << record, saved, up >> /\ jobs[j].at # "idle"
    BY <1>5 DEF Packages!Place, t
  <2> QED BY <1>0, <2>1, <2>2, RepairGoesOn, RepairGivesUp
<1>6. CASE Packages!Record(j)
  <2> DEFINE t == [jobs[j] EXCEPT !.at = "recorded"]
             v == Packages!Recorded(record, jobs[j].seen.name, jobs[j].format, jobs[j].content)
  <2>1. t.kind = jobs[j].kind /\ t.format = jobs[j].format /\ t.content = jobs[j].content
    BY <1>0 DEF Packages!JobRecord
  <2> HIDE DEF t, v
  <2>2. /\ \/ jobs' = [jobs EXCEPT ![j] = t] /\ record' = v /\ saved' = v
           \/ Packages!GiveUp(j) /\ record' = saved /\ saved' = saved
        /\ up' = up /\ jobs[j].at # "idle"
    BY <1>6 DEF Packages!Record, t, v
  <2> QED BY <1>0, <2>1, <2>2, RepairGoesOn, RepairGivesUp
<1>7. CASE Packages!Tidy(j)
  <2>1. /\ jobs[j].at = "recorded" /\ up' = TRUE /\ record' = record /\ saved' = saved
        /\ files' = [files EXCEPT ![Packages!Other(jobs[j].format)] = None]
    BY <1>7 DEF Packages!Tidy
  <2>2. jobs[j].format = "tar.gz" /\ jobs[j].content = Seed
    BY <2>1 DEF StartInv
  <2>3. /\ files["tar.gz"] = Seed /\ record.package = Seed /\ Seed \in Content
        /\ record.binary = [of |-> Seed, entry |-> record.name]
        /\ files \in [Packages!Format -> Content \cup {None}]
    BY <2>1, <2>2, PackageTypes DEF PackageInv, StoringSound, JobSound, Storing
  <2>4. Packages!Other("tar.gz") = "binary"
    BY DEF Packages!Other, Packages!Format
  <2>5. files'["tar.gz"] = Seed
    BY <2>1, <2>2, <2>3, <2>4 DEF Packages!Format
  <2>6. record.binary # None /\ record.package # None
    <3>1. record \in Packages!MinerRecord /\ record.name \in Entry
      BY <1>0, PackageTypes, MinerFields
    <3>2. record.binary \in Packages!Executable
      BY <2>3, <3>1 DEF Packages!Executable, Packages!Opt
    <3> QED BY <2>3, <3>2, PackageAssumption
  <2> QED BY <1>0, <2>1, <2>3, <2>5, <2>6 DEF StartInv, Packages!Served, Packages!Verifies
<1>8. CASE \/ \E k \in {"upload", "refresh"}, f \in Packages!Format, c \in Content :
                Packages!StartUpload(j, k, f, c)
           \/ \E n \in Entry, f \in Packages!Format, c \in Content : Packages!LookUp(j, n, f, c)
  BY <1>0, <1>8 DEF Packages!StartUpload, Packages!LookUp, Packages!Free
<1>9. CASE Packages!SaveVersion(j) \/ Packages!Define(j) \/ Packages!Undo(j)
  BY <1>0, <1>9 DEF Packages!SaveVersion, Packages!Define, Packages!Undo, Packages!Free
<1> QED BY <1>1, <1>2, <1>3, <1>4, <1>5, <1>6, <1>7, <1>8, <1>9 DEF Packages!JobStep

\* A request of a controller that serves leaves it serving.
LEMMA RequestServes ==
  ASSUME up = TRUE, NEW j \in Job, Packages!JobStep(j) PROVE up' = TRUE
<1>1. CASE \/ \E k \in {"upload", "refresh"}, f \in Packages!Format, c \in Content :
                Packages!StartUpload(j, k, f, c)
           \/ \E n \in Entry, f \in Packages!Format, c \in Content : Packages!LookUp(j, n, f, c)
           \/ Packages!StartRepair(j) \/ Packages!Read(j)
  BY <1>1 DEF Packages!StartUpload, Packages!LookUp, Packages!StartRepair, Packages!Read
<1>2. CASE Packages!RefuseRelease(j) \/ Packages!RefuseDownload(j) \/ Packages!RefuseBody(j)
  BY <1>2 DEF Packages!RefuseRelease, Packages!RefuseDownload, Packages!RefuseBody, Packages!NothingStored
<1>3. CASE Packages!BackUp(j) \/ Packages!Place(j) \/ Packages!Record(j) \/ Packages!Tidy(j)
  BY <1>3 DEF Packages!BackUp, Packages!Place, Packages!Record, Packages!Tidy
<1>4. CASE Packages!SaveVersion(j) \/ Packages!Define(j) \/ Packages!Undo(j)
  BY <1>4 DEF Packages!SaveVersion, Packages!Define, Packages!Undo
<1> QED BY <1>1, <1>2, <1>3, <1>4 DEF Packages!JobStep

\* A controller comes to serve with its built-in package, found intact or repaired.
LEMMA ServeStep ==
  ASSUME PackageInv, StartInv, Packages!PackageNext \/ UNCHANGED packageVars
  PROVE  StartInv' /\ ServesSeed
<1>0. up \in BOOLEAN
  BY PackageTypes
<1>1. CASE UNCHANGED packageVars
  BY <1>1 DEF StartInv, ServesSeed, packageVars
<1>2. CASE Packages!StartupDone
  <2>1. /\ up' = TRUE /\ UNCHANGED << record, saved, files >> /\ ~up
        /\ Packages!SeedIntact
    BY <1>2 DEF Packages!StartupDone
  <2>2. Seed # None /\ record # None /\ record = saved
    BY <2>1 DEF StartInv, PackageInv
  <2> QED BY <2>1, <2>2 DEF StartInv, ServesSeed, Packages!SeedIntact, Packages!Served, Packages!Verifies
<1>3. CASE Packages!Restart
  <2>1. /\ record' = saved /\ saved' = saved /\ up' = (Seed = None \/ saved = None)
        /\ jobs' = [j \in Job |-> Packages!IdleJob]
    BY <1>3 DEF Packages!Restart
  <2>2. StartInv'
    BY <2>1, IdleType DEF StartInv
  <2>3. ~up => ~up'
    BY <2>1 DEF PackageInv
  <2> QED BY <2>2, <2>3 DEF ServesSeed
<1>4. CASE \/ \E n \in Entry, f \in Packages!Format : Packages!Create(n, f)
           \/ \E n \in Entry, f \in Packages!Format, p \in Packages!Opt(Content) : Packages!Edit(n, f, p)
           \/ Packages!Delete \/ Packages!SaveElsewhere
  <2>1. up /\ up' = up
    BY <1>4 DEF Packages!Create, Packages!Edit, Packages!Delete, Packages!SaveElsewhere, Packages!Free
  <2> QED BY <2>1 DEF StartInv, ServesSeed
<1>5. ASSUME NEW j \in Job, Packages!JobStep(j) PROVE StartInv' /\ ServesSeed
  <2>1. CASE ~up
    BY <1>5, <2>1, StartRequestStep
  <2>2. CASE up
    <3>1. up' = TRUE
      BY <1>0, <1>5, <2>2, RequestServes
    <3> QED BY <2>2, <3>1 DEF StartInv, ServesSeed
  <2> QED BY <2>1, <2>2
<1> QED BY <1>1, <1>2, <1>3, <1>4, <1>5 DEF Packages!PackageNext, Packages!StoreStep

-----------------------------------------------------------------------------
(* The alerts. *)

\* The n-th alert of a log is an active one of the rig and the type.
Raised(log, n, r, t) == log[n].rig = r /\ log[n].type = t /\ log[n].active = TRUE

IsLog(log, k) ==
  /\ log \in Seq(Alerts!Alert) /\ Len(log) <= LogLimit
  /\ \A n \in DOMAIN log : log[n].rig \in k

\* The log tells of a rig that a condition holds, or that it does not.
Said(log, r, t, holds) ==
  /\ \A m, n \in DOMAIN log : Raised(log, m, r, t) /\ Raised(log, n, r, t) => m = n
  /\ \A n \in DOMAIN log : Raised(log, n, r, t) => holds
  /\ holds => Len(log) = LogLimit \/ \E n \in DOMAIN log : Raised(log, n, r, t)

\* What holds of the alerts in memory and of those in the state file, k being
\* the rigs ever enrolled.
FarmSound(s, k) ==
  /\ s \in Alerts!FarmState /\ IsLog(s.alerts, k)
  /\ \A r \in Alerts!Present(s) :
       /\ r \in k
       /\ \A t \in Alerts!AlertType : Said(s.alerts, r, t, t \in s.rigs[r].found)

AlertInv ==
  /\ FarmSound(farm, known) /\ FarmSound(savedFarm, known)
  /\ known \subseteq Rig /\ failures \in 0 .. MaxFailures

\* The alert that is raised, as one thing.
Alarm(r, t) == [rig |-> r, type |-> t, active |-> TRUE]

\* One log is the other with an alert at its end, but for the oldest if it was full.
Longer(log, log2, a) ==
  \E d \in {0, 1} :
    /\ Len(log2) = Len(log) + 1 - d /\ (d = 1 => Len(log2) = LogLimit)
    /\ \A n \in 1 .. Len(log2) : log2[n] = IF n = Len(log2) THEN a ELSE log[n + d]

LEMMA ActiveAlerts ==
  ASSUME NEW log \in Seq(Alerts!Alert), NEW r, NEW t, NEW n \in DOMAIN log
  PROVE  log[n] = [rig |-> r, type |-> t, active |-> TRUE] <=> Raised(log, n, r, t)
<1>1. log[n] \in Alerts!Alert
  OBVIOUS
<1> QED BY <1>1 DEF Raised, Alerts!Alert

\* A resolved alert is of no rig and type any more, the others are as they were.
LEMMA ResolveKeeps ==
  ASSUME NEW k, NEW log, IsLog(log, k), NEW r \in Rig, NEW t \in Alerts!AlertType,
         NEW log2, log2 = Alerts!Resolve(log, r, t)
  PROVE  /\ IsLog(log2, k) /\ Len(log2) = Len(log) /\ DOMAIN log2 = DOMAIN log
         /\ \A q, u : \A n \in DOMAIN log :
              Raised(log2, n, q, u) <=> Raised(log, n, q, u) /\ ~(q = r /\ u = t)
<1>1. /\ log \in Seq(Alerts!Alert) /\ DOMAIN log = 1 .. Len(log) /\ Len(log) \in Nat
      /\ \A n \in DOMAIN log : log[n] \in Alerts!Alert
  BY DEF IsLog
<1> DEFINE Off(a) == [a EXCEPT !.active = FALSE]
<1>2. \A a \in Alerts!Alert : /\ Off(a) \in Alerts!Alert /\ Off(a).active = FALSE
                        /\ Off(a).rig = a.rig /\ Off(a).type = a.type
  BY DEF Alerts!Alert
<1>3. /\ DOMAIN log2 = DOMAIN log
      /\ \A n \in DOMAIN log :
           log2[n] = IF log[n].rig = r /\ log[n].type = t THEN Off(log[n]) ELSE log[n]
  BY DEF Alerts!Resolve
<1> HIDE DEF Off
<1>4. \A n \in DOMAIN log :
        /\ log2[n] \in Alerts!Alert /\ log2[n].rig = log[n].rig /\ log2[n].type = log[n].type
        /\ log2[n].active = TRUE <=>
             log[n].active = TRUE /\ ~(log[n].rig = r /\ log[n].type = t)
  BY <1>1, <1>2, <1>3
<1>5. log2 = [n \in 1 .. Len(log) |-> log2[n]]
  BY <1>1 DEF Alerts!Resolve
<1>6. log2 \in Seq(Alerts!Alert) /\ Len(log2) = Len(log)
  <2>1. \A n \in 1 .. Len(log) : log2[n] \in Alerts!Alert
    BY <1>1, <1>4
  <2>2. log2 \in [1 .. Len(log) -> Alerts!Alert]
    BY <1>5, <2>1
  <2> QED BY <1>1, <2>2, LenProperties, SeqDef
<1> QED BY <1>3, <1>4, <1>6 DEF IsLog, Raised

\* A new alert comes last; the oldest is dropped from a full list.
LEMMA ActivateKeeps ==
  ASSUME NEW k, NEW log, IsLog(log, k), NEW r \in Rig, NEW t \in Alerts!AlertType,
         ~Alerts!IsActive(log, r, t), NEW log2, log2 = Alerts!Activate(log, r, t), r \in k
  PROVE  /\ IsLog(log2, k)
         /\ Longer(log, log2, Alarm(r, t))
<1> DEFINE a == Alarm(r, t)
           longer == Append(log, a)
<1>1. a \in Alerts!Alert /\ a.rig = r
  BY DEF Alerts!Alert, Alarm
<1>2. /\ log \in Seq(Alerts!Alert) /\ DOMAIN log = 1 .. Len(log) /\ Len(log) \in Nat
      /\ Len(log) <= LogLimit /\ LogLimit \in Nat
      /\ \A n \in 1 .. Len(log) : log[n] \in Alerts!Alert /\ log[n].rig \in k
  BY AlertAssumption DEF IsLog
<1>3. log2 = IF Len(longer) > LogLimit THEN Tail(longer) ELSE longer
  BY DEF Alerts!Activate, Alarm
<1> HIDE DEF a
<1>4. /\ longer \in Seq(Alerts!Alert) /\ Len(longer) = Len(log) + 1
      /\ \A n \in 1 .. Len(log) + 1 : longer[n] = IF n = Len(log) + 1 THEN a ELSE log[n]
  BY <1>1, <1>2
<1> HIDE DEF longer
<1>5. CASE Len(longer) > LogLimit
  <2>1. /\ log2 \in Seq(Alerts!Alert) /\ Len(log2) = Len(log) /\ Len(log) = LogLimit
        /\ \A n \in 1 .. Len(log) : log2[n] = longer[n + 1]
    <3>1. log2 = Tail(longer) /\ longer # << >>
      BY <1>2, <1>3, <1>4, <1>5
    <3>2. /\ log2 \in Seq(Alerts!Alert) /\ Len(log2) = Len(longer) - 1
          /\ \A n \in 1 .. Len(log2) : log2[n] = longer[n + 1]
      BY <1>4, <3>1, HeadTailProperties
    <3>3. Len(log2) = Len(log) /\ Len(log) = LogLimit
      <4>1. Len(log) \in Nat /\ Len(log) <= LogLimit /\ LogLimit \in Nat
        BY <1>2
      <4>2. Len(longer) = Len(log) + 1 /\ Len(log2) = Len(longer) - 1
        BY <1>4, <3>2
      <4> HIDE DEF longer
      <4> QED BY <1>5, <4>1, <4>2
    <3> QED BY <3>2, <3>3
  <2>2. \A n \in 1 .. Len(log2) : log2[n] = IF n = Len(log2) THEN a ELSE log[n + 1]
    BY <1>2, <1>4, <2>1
  <2>3. IsLog(log2, k)
    BY <1>1, <1>2, <2>1, <2>2 DEF IsLog
  <2>4. \E d \in {0, 1} :
          /\ Len(log2) = Len(log) + 1 - d /\ (d = 1 => Len(log2) = LogLimit)
          /\ \A n \in 1 .. Len(log2) : log2[n] = IF n = Len(log2) THEN a ELSE log[n + d]
    <3>1. WITNESS 1 \in {0, 1}
    <3> QED BY <1>2, <2>1, <2>2
  <2> QED BY <2>3, <2>4 DEF a, Longer
<1>6. CASE ~(Len(longer) > LogLimit)
  <2>1. /\ log2 \in Seq(Alerts!Alert) /\ Len(log2) = Len(log) + 1 /\ Len(log2) <= LogLimit
        /\ \A n \in 1 .. Len(log2) : log2[n] = IF n = Len(log2) THEN a ELSE log[n + 0]
    BY <1>2, <1>3, <1>4, <1>6
  <2>3. IsLog(log2, k)
    BY <1>1, <1>2, <2>1 DEF IsLog
  <2>4. \E d \in {0, 1} :
          /\ Len(log2) = Len(log) + 1 - d /\ (d = 1 => Len(log2) = LogLimit)
          /\ \A n \in 1 .. Len(log2) : log2[n] = IF n = Len(log2) THEN a ELSE log[n + d]
    <3>1. WITNESS 0 \in {0, 1}
    <3> QED BY <1>2, <2>1
  <2> QED BY <2>3, <2>4 DEF a, Longer
<1> QED BY <1>5, <1>6

\* A decision is told, and leaves what is told of all else.
LEMMA DecideKeeps ==
  ASSUME NEW k, NEW log, IsLog(log, k), NEW r \in Rig, NEW t \in Alerts!AlertType, r \in k,
         NEW holds \in BOOLEAN, NEW log2, log2 = Alerts!Decide(log, r, t, holds)
  PROVE  /\ IsLog(log2, k)
         /\ \A h : Said(log, r, t, h) => Said(log2, r, t, holds)
         /\ \A q, u, h : Said(log, q, u, h) /\ ~(q = r /\ u = t) => Said(log2, q, u, h)
<1>1. CASE ~holds
  <2>1. log2 = Alerts!Resolve(log, r, t)
    BY <1>1 DEF Alerts!Decide
  <2>2. /\ IsLog(log2, k) /\ Len(log2) = Len(log) /\ DOMAIN log2 = DOMAIN log
        /\ \A q, u : \A n \in DOMAIN log :
              Raised(log2, n, q, u) <=> Raised(log, n, q, u) /\ ~(q = r /\ u = t)
    BY <2>1, ResolveKeeps
  <2> QED BY <1>1, <2>2 DEF Said
<1>2. CASE holds /\ Alerts!IsActive(log, r, t)
  <2>1. log2 = log
    BY <1>2 DEF Alerts!Decide, Alerts!Activate
  <2>2. \E n \in DOMAIN log : Raised(log, n, r, t)
    BY <1>2, ActiveAlerts DEF Alerts!IsActive, IsLog
  <2> QED BY <1>2, <2>1, <2>2 DEF Said
<1>3. CASE holds /\ ~Alerts!IsActive(log, r, t)
  <2>0. \A n \in DOMAIN log : ~Raised(log, n, r, t)
    BY <1>3, ActiveAlerts DEF Alerts!IsActive, IsLog
  <2>1. log2 = Alerts!Activate(log, r, t)
    BY <1>3 DEF Alerts!Decide
  <2> DEFINE a == Alarm(r, t)
  <2>2. IsLog(log2, k)
    BY <1>3, <2>1, ActivateKeeps
  <2>3. PICK d \in {0, 1} :
              /\ Len(log2) = Len(log) + 1 - d /\ (d = 1 => Len(log2) = LogLimit)
              /\ \A n \in 1 .. Len(log2) : log2[n] = IF n = Len(log2) THEN a ELSE log[n + d]
    <3>1. Longer(log, log2, a)
      BY <1>3, <2>1, ActivateKeeps
    <3> QED BY <3>1 DEF Longer
  <2>4. a.rig = r /\ a.type = t /\ a.active = TRUE
    BY DEF Alarm
  <2> HIDE DEF a
  <2>5. /\ Len(log) \in Nat /\ Len(log2) \in Nat /\ LogLimit \in Nat
        /\ Len(log2) <= LogLimit /\ Len(log) <= LogLimit
        /\ DOMAIN log = 1 .. Len(log) /\ DOMAIN log2 = 1 .. Len(log2)
    BY <2>2, AlertAssumption DEF IsLog
  <2>6. \A q, u : \A n \in DOMAIN log2 :
          Raised(log2, n, q, u) <=>
            IF n = Len(log2) THEN q = r /\ u = t ELSE Raised(log, n + d, q, u)
    BY <2>3, <2>4, <2>5 DEF Raised
  <2>7. \A n \in DOMAIN log2 : n # Len(log2) => n + d \in DOMAIN log
    BY <2>3, <2>5
  <2>8. \A h : Said(log, r, t, h) => Said(log2, r, t, holds)
    <3>1. \A n \in DOMAIN log2 : Raised(log2, n, r, t) <=> n = Len(log2)
      BY <2>0, <2>6, <2>7
    <3>2. Len(log2) = LogLimit \/ Len(log2) \in DOMAIN log2
      BY <2>3, <2>5
    <3> QED BY <1>3, <3>1, <3>2 DEF Said
  <2>9. ASSUME NEW q, NEW u, NEW h, Said(log, q, u, h), ~(q = r /\ u = t)
        PROVE  Said(log2, q, u, h)
    <3>1. \A n \in DOMAIN log2 :
            Raised(log2, n, q, u) => n # Len(log2) /\ n + d \in DOMAIN log /\ Raised(log, n + d, q, u)
      BY <2>6, <2>7, <2>9
    <3>2. ASSUME NEW m \in DOMAIN log2, NEW n \in DOMAIN log2,
                 Raised(log2, m, q, u), Raised(log2, n, q, u)
          PROVE  m = n
      <4>1. m + d = n + d
        BY <2>9, <3>1, <3>2 DEF Said
      <4> QED BY <2>3, <2>5, <4>1
    <3>3. \A n \in DOMAIN log2 : Raised(log2, n, q, u) => h
      BY <2>9, <3>1 DEF Said
    <3>4. ASSUME h PROVE Len(log2) = LogLimit \/ \E n \in DOMAIN log2 : Raised(log2, n, q, u)
      <4>1. CASE d = 1
        BY <2>3, <4>1
      <4>2. CASE d = 0
        <5>1. PICK n \in DOMAIN log : Raised(log, n, q, u)
          <6>1. Len(log) # LogLimit
            <7>1. Len(log2) = Len(log) + 1 - 0
              BY <2>3, <4>2
            <7>2. \A x, y, z \in Nat : y = x + 1 - 0 /\ y <= z => x # z
              OBVIOUS
            <7> QED BY ONLY <2>5, <7>1, <7>2
          <6> QED BY <2>9, <3>4, <6>1 DEF Said
        <5>2. n \in DOMAIN log2 /\ n # Len(log2) /\ n + d = n
          BY <2>3, <2>5, <4>2
        <5> QED BY <2>6, <5>1, <5>2
      <4> QED BY <4>1, <4>2
    <3> QED BY <3>2, <3>3, <3>4 DEF Said
  <2> QED BY <2>2, <2>8, <2>9
<1> QED BY <1>1, <1>2, <1>3

LEMMA SaidSame ==
  ASSUME NEW log, NEW r, NEW t, NEW h1, NEW h2, Said(log, r, t, h1), h1 <=> h2
  PROVE  Said(log, r, t, h2)
BY DEF Said

\* A decision on what has been found.
LEMMA JudgeKeeps ==
  ASSUME NEW k, NEW log, IsLog(log, k), NEW r \in Rig, NEW t \in Alerts!AlertType, r \in k,
         NEW found, NEW log2, log2 = Alerts!Decide(log, r, t, t \in found),
         NEW h0, Said(log, r, t, h0)
  PROVE  /\ IsLog(log2, k) /\ Said(log2, r, t, t \in found)
         /\ \A q, u, h : Said(log, q, u, h) /\ ~(q = r /\ u = t) => Said(log2, q, u, h)
<1> DEFINE holds == t \in found
<1>1. holds \in BOOLEAN /\ log2 = Alerts!Decide(log, r, t, holds)
  OBVIOUS
<1> HIDE DEF holds
<1>2. /\ IsLog(log2, k) /\ Said(log2, r, t, holds)
      /\ \A q, u, h : Said(log, q, u, h) /\ ~(q = r /\ u = t) => Said(log2, q, u, h)
  BY <1>1, DecideKeeps
<1> QED BY <1>2 DEF holds

\* A heartbeat decides the three alerts it judges one after the other.
LEMMA EvaluatedSaid ==
  ASSUME NEW k, NEW log, IsLog(log, k), NEW r \in Rig, r \in k,
         NEW found \in SUBSET Alerts!Judged, NEW old,
         \A t \in Alerts!AlertType : Said(log, r, t, t \in old),
         NEW log2, log2 = Alerts!Evaluated(log, r, found)
  PROVE  /\ IsLog(log2, k)
         /\ \A t \in Alerts!AlertType : Said(log2, r, t, t \in found \cup (old \cap {"offline"}))
         /\ \A q, u, h : q # r /\ Said(log, q, u, h) => Said(log2, q, u, h)
<1> DEFINE a == Alerts!Decide(log, r, "temperature", "temperature" \in found)
           b == Alerts!Decide(a, r, "hashrate", "hashrate" \in found)
           c == Alerts!Decide(b, r, "miner", "miner" \in found)
<1>1. log2 = c
  BY DEF Alerts!Evaluated
<1>2. {"temperature", "hashrate", "miner", "offline"} = Alerts!AlertType
  BY DEF Alerts!AlertType, Alerts!Judged
<1>3. /\ IsLog(a, k) /\ Said(a, r, "temperature", "temperature" \in found)
      /\ \A q, u, h : Said(log, q, u, h) /\ ~(q = r /\ u = "temperature") => Said(a, q, u, h)
  <2>1. "temperature" \in Alerts!AlertType /\ Said(log, r, "temperature", "temperature" \in old)
    BY <1>2
  <2> QED BY <2>1, JudgeKeeps
<1> HIDE DEF a
<1>4. /\ IsLog(b, k) /\ Said(b, r, "hashrate", "hashrate" \in found)
      /\ \A q, u, h : Said(a, q, u, h) /\ ~(q = r /\ u = "hashrate") => Said(b, q, u, h)
  <2>1. "hashrate" \in Alerts!AlertType /\ Said(a, r, "hashrate", "hashrate" \in old)
    BY <1>2, <1>3
  <2> QED BY <1>3, <2>1, JudgeKeeps
<1> HIDE DEF b
<1>5. /\ IsLog(c, k) /\ Said(c, r, "miner", "miner" \in found)
      /\ \A q, u, h : Said(b, q, u, h) /\ ~(q = r /\ u = "miner") => Said(c, q, u, h)
  <2>1. "miner" \in Alerts!AlertType /\ Said(b, r, "miner", "miner" \in old)
    BY <1>2, <1>3, <1>4
  <2> QED BY <1>4, <2>1, JudgeKeeps
<1> HIDE DEF c
<1>6. /\ Said(c, r, "temperature", "temperature" \in found)
      /\ Said(c, r, "hashrate", "hashrate" \in found)
      /\ Said(c, r, "offline", "offline" \in old)
  BY <1>2, <1>3, <1>4, <1>5
<1>7. "offline" \notin found
  BY DEF Alerts!Judged
<1>8. ASSUME NEW t \in Alerts!AlertType
      PROVE  Said(c, r, t, t \in found \cup (old \cap {"offline"}))
  <2>1. CASE t = "offline"
    <3>1. Said(c, r, t, t \in old)
      BY <1>6, <2>1
    <3>2. t \in old <=> t \in found \cup (old \cap {"offline"})
      BY <1>7, <2>1
    <3> QED BY <3>1, <3>2, SaidSame
  <2>2. CASE t # "offline"
    <3>1. Said(c, r, t, t \in found)
      BY <1>2, <1>5, <1>6, <2>2
    <3>2. t \in found <=> t \in found \cup (old \cap {"offline"})
      BY <2>2
    <3> QED BY <3>1, <3>2, SaidSame
  <2> QED BY <2>1, <2>2
<1>9. \A q, u, h : q # r /\ Said(log, q, u, h) => Said(c, q, u, h)
  BY <1>3, <1>4, <1>5
<1> QED BY <1>1, <1>5, <1>8, <1>9

LEMMA LeastNatural ==
  ASSUME NEW S \in SUBSET Nat, S # {}
  PROVE  \E m \in S : \A n \in S : m <= n
<1>1. PICK m \in S : \A n \in S : ~ (<< n, m >> \in OpToRel(<, Nat))
  BY NatLessThanWellFounded, WFMin
<1>2. ASSUME NEW n \in S, ~(m <= n) PROVE FALSE
  <2>1. << n, m >> \in Nat \X Nat /\ << n, m >>[1] < << n, m >>[2]
    BY <1>2
  <2>2. << n, m >> \in OpToRel(<, Nat)
    BY <2>1, Zenon DEF OpToRel
  <2> QED BY <1>1, <2>2
<1> QED BY <1>2

\* The alerts after so many rigs are what their definition says: there is such a
\* function, or there would be a least number of rigs without one.
LEMMA ChecksDefined ==
  ASSUME NEW s, NEW order, Len(order) \in Nat
  PROVE  /\ Alerts!AfterChecks(s, order)[0] = s.alerts
         /\ \A n \in 1 .. Len(order) :
              Alerts!AfterChecks(s, order)[n]
                = Alerts!Decide(Alerts!AfterChecks(s, order)[n - 1], order[n], "offline",
                          Alerts!Overdue(s.rigs[order[n]]))
<1> DEFINE Turn(log, n) == Alerts!Decide(log, order[n], "offline", Alerts!Overdue(s.rigs[order[n]]))
           Is(f, m) == f = [n \in 0 .. m |-> IF n = 0 THEN s.alerts ELSE Turn(f[n - 1], n)]
           Lacking == {m \in Nat : ~ \E f : Is(f, m)}
<1>1. Lacking = {}
  <2>1. SUFFICES ASSUME Lacking # {} PROVE FALSE
    OBVIOUS
  <2>2. PICK m \in Lacking : \A n \in Lacking : m <= n
    <3>1. Lacking \in SUBSET Nat
      OBVIOUS
    <3> HIDE DEF Lacking
    <3> QED BY <2>1, <3>1, LeastNatural
  <2> HIDE DEF Turn
  <2>3. CASE m = 0
    <3> DEFINE f == [n \in 0 .. 0 |-> s.alerts]
    <3>1. f = [n \in 0 .. 0 |-> IF n = 0 THEN s.alerts ELSE Turn(f[n - 1], n)]
      OBVIOUS
    <3> QED BY <2>2, <2>3, <3>1
  <2>4. CASE m # 0
    <3>1. m - 1 \in Nat /\ m \in Nat /\ m - 1 \notin Lacking
      BY <2>2, <2>4
    <3>2. PICK g : Is(g, m - 1)
      BY <3>1
    <3> DEFINE f == [n \in 0 .. m |-> IF n = m THEN Turn(g[m - 1], m) ELSE g[n]]
    <3>3. ASSUME NEW n \in 0 .. m
          PROVE  f[n] = IF n = 0 THEN s.alerts ELSE Turn(f[n - 1], n)
      <4>1. CASE n = m
        <5>1. f[n] = Turn(g[m - 1], m) /\ f[n - 1] = g[m - 1]
          BY <2>4, <3>1, <4>1
        <5> QED BY <2>4, <4>1, <5>1
      <4>2. CASE n # m
        <5>1. n \in 0 .. m - 1 /\ f[n] = g[n] /\ (n # 0 => f[n - 1] = g[n - 1])
          BY <3>1, <3>3, <4>2
        <5>2. g[n] = IF n = 0 THEN s.alerts ELSE Turn(g[n - 1], n)
          BY <3>2, <5>1
        <5> QED BY <5>1, <5>2
      <4> QED BY <4>1, <4>2
    <3>4. f = [n \in 0 .. m |-> f[n]]
      OBVIOUS
    <3> HIDE DEF f
    <3>5. Is(f, m)
      BY <3>3, <3>4
    <3> QED BY <2>2, <3>5
  <2> QED BY <2>3, <2>4
<1>2. \E f : Is(f, Len(order))
  BY <1>1
<1>3. Alerts!AfterChecks(s, order) = CHOOSE f : Is(f, Len(order))
  BY DEF Alerts!AfterChecks
<1> DEFINE a == Alerts!AfterChecks(s, order)
<1>4. Is(a, Len(order))
  <2> HIDE DEF Is
  <2> QED BY <1>2, <1>3
<1> HIDE DEF a, Turn
<1>5. a[0] = s.alerts /\ \A n \in 1 .. Len(order) : a[n] = Turn(a[n - 1], n)
  BY <1>4
<1> QED BY <1>5 DEF a, Turn

\* What the connectivity check has decided of q after n rigs.
Decided(s, order, n, q, u) ==
  IF u = "offline" /\ \E i \in 1 .. n : order[i] = q
    THEN Alerts!Overdue(s.rigs[q]) ELSE u \in s.rigs[q].found

LEMMA CheckedSoFar ==
  ASSUME NEW k, NEW s, FarmSound(s, k), NEW order, Len(order) \in Nat,
         \A i \in 1 .. Len(order) : order[i] \in Alerts!Present(s),
         NEW m \in 0 .. Len(order)
  PROVE  /\ IsLog(Alerts!AfterChecks(s, order)[m], k)
         /\ \A q \in Alerts!Present(s), u \in Alerts!AlertType :
              Said(Alerts!AfterChecks(s, order)[m], q, u, Decided(s, order, m, q, u))
<1> DEFINE a == Alerts!AfterChecks(s, order)
           Fine(n) == /\ IsLog(a[n], k)
                      /\ \A q \in Alerts!Present(s), u \in Alerts!AlertType :
                           Said(a[n], q, u, Decided(s, order, n, q, u))
           Bad == {n \in 0 .. Len(order) : ~Fine(n)}
<1>1. /\ a[0] = s.alerts
      /\ \A n \in 1 .. Len(order) :
           a[n] = Alerts!Decide(a[n - 1], order[n], "offline", Alerts!Overdue(s.rigs[order[n]]))
  BY ChecksDefined
<1> HIDE DEF a
<1>2. Fine(0)
  <2>1. IsLog(a[0], k)
    BY <1>1 DEF FarmSound
  <2>2. ASSUME NEW q \in Alerts!Present(s), NEW u \in Alerts!AlertType
        PROVE  Said(a[0], q, u, Decided(s, order, 0, q, u))
    <3>1. Said(a[0], q, u, u \in s.rigs[q].found)
      BY <1>1 DEF FarmSound
    <3>2. u \in s.rigs[q].found <=> Decided(s, order, 0, q, u)
      BY DEF Decided
    <3> QED BY <3>1, <3>2, SaidSame
  <2> QED BY <2>1, <2>2
<1>3. ASSUME NEW n \in 1 .. Len(order), Fine(n - 1) PROVE Fine(n)
  <2> DEFINE r == order[n]
             h == Alerts!Overdue(s.rigs[r])
             log == a[n - 1]
  <2>1. /\ r \in Rig /\ r \in k /\ h \in BOOLEAN /\ r \in Alerts!Present(s)
        /\ "offline" \in Alerts!AlertType
    BY DEF FarmSound, Alerts!Present, Alerts!Overdue, Alerts!AlertType
  <2>2. a[n] = Alerts!Decide(log, r, "offline", h) /\ IsLog(log, k)
    BY <1>1, <1>3
  <2> HIDE DEF h, log
  <2>3. /\ IsLog(a[n], k)
        /\ \A g : Said(log, r, "offline", g) => Said(a[n], r, "offline", h)
        /\ \A q, u, g : Said(log, q, u, g) /\ ~(q = r /\ u = "offline") => Said(a[n], q, u, g)
    BY <2>1, <2>2, DecideKeeps
  <2>4. ASSUME NEW q \in Alerts!Present(s), NEW u \in Alerts!AlertType
        PROVE  Said(a[n], q, u, Decided(s, order, n, q, u))
    <3>1. Said(log, q, u, Decided(s, order, n - 1, q, u))
      BY <1>3 DEF log
    <3>2. CASE q = r /\ u = "offline"
      <4>1. Said(a[n], q, u, h)
        BY <2>3, <3>1, <3>2
      <4>2. n \in 1 .. n /\ order[n] = q
        BY <3>2
      <4>3. h <=> Decided(s, order, n, q, u)
        BY <3>2, <4>2 DEF Decided, h
      <4> QED BY <4>1, <4>3, SaidSame
    <3>3. CASE ~(q = r /\ u = "offline")
      <4>1. Said(a[n], q, u, Decided(s, order, n - 1, q, u))
        BY <2>3, <3>1, <3>3
      <4>2. u = "offline" =>
              ((\E i \in 1 .. n : order[i] = q) <=> \E i \in 1 .. n - 1 : order[i] = q)
        <5>1. \A i \in 1 .. n : i = n \/ i \in 1 .. n - 1
          OBVIOUS
        <5>2. \A i \in 1 .. n - 1 : i \in 1 .. n
          OBVIOUS
        <5> QED BY <3>3, <5>1, <5>2
      <4>3. Decided(s, order, n - 1, q, u) <=> Decided(s, order, n, q, u)
        BY <4>2 DEF Decided
      <4> QED BY <4>1, <4>3, SaidSame
    <3> QED BY <3>2, <3>3
  <2> QED BY <2>3, <2>4
<1> HIDE DEF Fine
<1>4. Bad = {}
  <2>1. SUFFICES ASSUME Bad # {} PROVE FALSE
    OBVIOUS
  <2>2. PICK n \in Bad : \A i \in Bad : n <= i
    <3>1. Bad \in SUBSET Nat
      OBVIOUS
    <3> HIDE DEF Bad
    <3> QED BY <2>1, <3>1, LeastNatural
  <2>3. n # 0 /\ n \in 1 .. Len(order) /\ n - 1 \in 0 .. Len(order) /\ n - 1 \notin Bad
    BY <1>2, <2>2
  <2> QED BY <1>3, <2>2, <2>3
<1>5. Fine(m)
  BY <1>4
<1> QED BY <1>5 DEF Fine, a

\* The cardinality FarmAlerts speaks of is the one everybody knows.
LEMMA SameCardinality == \A S : Alerts!Cardinality(S) = Cardinality(S)
BY DEF Alerts!Cardinality, Cardinality

\* The orders of the present rigs name every one of them, and no other.
LEMMA OrdersNameAll ==
  ASSUME NEW S \in SUBSET Rig, NEW order \in Alerts!SetToSeqs(S)
  PROVE  /\ Len(order) \in Nat /\ \A i \in 1 .. Len(order) : order[i] \in S
         /\ \A r \in S : \E i \in 1 .. Len(order) : order[i] = r
<1>1. IsFiniteSet(S)
  BY AlertAssumption, FS_Subset
<1> DEFINE N == Cardinality(S)
<1>2. N \in Nat /\ IsFiniteSet(1 .. N) /\ Cardinality(1 .. N) = N
  BY <1>1, FS_CardinalityType, FS_Interval
<1> HIDE DEF N
<1>3. order \in [1 .. N -> S] /\ \A i, j \in 1 .. N : i # j => order[i] # order[j]
  BY SameCardinality DEF Alerts!SetToSeqs, N
<1>4. Len(order) = N
  BY <1>2, <1>3
<1>5. order \in Injection(1 .. N, S)
  BY <1>3 DEF Injection, IsInjective
<1>6. order \in Surjection(1 .. N, S)
  BY <1>1, <1>2, <1>5, FS_Injection DEF N
<1> QED BY <1>2, <1>3, <1>4, <1>6 DEF Surjection

LEMMA CheckedSound ==
  ASSUME NEW k, NEW s, FarmSound(s, k), NEW order \in Alerts!SetToSeqs(Alerts!Present(s))
  PROVE  FarmSound(Alerts!Checked(s, order), k)
<1> DEFINE c == Alerts!Checked(s, order)
           log == Alerts!AfterChecks(s, order)[Len(order)]
           Now(r) == [s.rigs[r] EXCEPT !.found = IF Alerts!Overdue(s.rigs[r]) THEN @ \cup {"offline"}
                                                                       ELSE @ \ {"offline"}]
<1>1. /\ Len(order) \in Nat /\ \A i \in 1 .. Len(order) : order[i] \in Alerts!Present(s)
      /\ \A r \in Alerts!Present(s) : \E i \in 1 .. Len(order) : order[i] = r
  BY OrdersNameAll DEF Alerts!Present
<1>2. /\ IsLog(log, k)
      /\ \A q \in Alerts!Present(s), u \in Alerts!AlertType :
           Said(log, q, u, Decided(s, order, Len(order), q, u))
  BY <1>1, CheckedSoFar
<1>3. c = [rigs |-> [r \in Rig |-> IF s.rigs[r] = None THEN None ELSE Now(r)], alerts |-> log]
  BY DEF Alerts!Checked
<1>4. \A r \in Alerts!Present(s) :
        /\ Now(r) \in Alerts!Watched
        /\ Now(r).found = IF Alerts!Overdue(s.rigs[r]) THEN s.rigs[r].found \cup {"offline"}
                                                ELSE s.rigs[r].found \ {"offline"}
  <2>1. \A r \in Alerts!Present(s) : s.rigs[r] \in Alerts!Watched
    BY DEF FarmSound, Alerts!Present, Alerts!FarmState
  <2> QED BY <2>1 DEF Alerts!Watched, Alerts!AlertType
<1> HIDE DEF Now, log
<1>5. c.alerts = log /\ c.rigs = [r \in Rig |-> IF s.rigs[r] = None THEN None ELSE Now(r)]
  BY <1>3
<1>6. Alerts!Present(c) = Alerts!Present(s) /\ \A r \in Alerts!Present(s) : c.rigs[r] = Now(r)
  BY <1>4, <1>5, AlertAssumption DEF Alerts!Present
<1>7. c \in Alerts!FarmState
  <2>1. log \in Seq(Alerts!Alert)
    BY <1>2 DEF IsLog
  <2>2. [r \in Rig |-> IF s.rigs[r] = None THEN None ELSE Now(r)] \in [Rig -> Alerts!Watched \cup {None}]
    BY <1>4 DEF Alerts!Present
  <2> QED BY <1>3, <2>1, <2>2 DEF Alerts!FarmState
<1> HIDE DEF c
<1>8. ASSUME NEW r \in Alerts!Present(s), NEW u \in Alerts!AlertType
      PROVE  Said(c.alerts, r, u, u \in c.rigs[r].found)
  <2>1. Said(log, r, u, Decided(s, order, Len(order), r, u))
    BY <1>2
  <2>2. Decided(s, order, Len(order), r, u) <=> u \in Now(r).found
    <3>1. \E i \in 1 .. Len(order) : order[i] = r
      BY <1>1
    <3>2. CASE u = "offline"
      BY <1>4, <3>1, <3>2 DEF Decided
    <3>3. CASE u # "offline"
      <4>1. Decided(s, order, Len(order), r, u) <=> u \in s.rigs[r].found
        BY <3>3 DEF Decided
      <4>2. u \in Now(r).found <=> u \in s.rigs[r].found
        <5>1. Now(r).found \in {s.rigs[r].found \cup {"offline"}, s.rigs[r].found \ {"offline"}}
          BY <1>4
        <5> QED BY <3>3, <5>1
      <4> QED BY <4>1, <4>2
    <3> QED BY <3>2, <3>3
  <2> QED BY <1>5, <1>6, <2>1, <2>2, SaidSame
<1> QED BY <1>2, <1>5, <1>6, <1>7, <1>8 DEF FarmSound, c

-----------------------------------------------------------------------------

LEMMA FarmSoundLater ==
  ASSUME NEW s, NEW k, NEW k2, FarmSound(s, k), k \subseteq k2
  PROVE  FarmSound(s, k2)
BY DEF FarmSound, IsLog

\* One rig is replaced, with or without its alerts.
LEMMA RigReplaced ==
  ASSUME NEW k, NEW s, FarmSound(s, k), NEW r \in Rig, r \in k, NEW w \in Alerts!Watched,
         NEW log, IsLog(log, k), \A t \in Alerts!AlertType : Said(log, r, t, t \in w.found),
         \A q, u, h : q # r /\ Said(s.alerts, q, u, h) => Said(log, q, u, h),
         NEW s2, s2.rigs = [s.rigs EXCEPT ![r] = w], s2.alerts = log, s2 \in Alerts!FarmState
  PROVE  FarmSound(s2, k)
<1>1. s.rigs \in [Rig -> Alerts!Watched \cup {None}]
  BY DEF FarmSound, Alerts!FarmState
<1>2. ASSUME NEW q \in Alerts!Present(s2)
      PROVE  q \in k /\ \A t \in Alerts!AlertType : Said(s2.alerts, q, t, t \in s2.rigs[q].found)
  <2>1. q \in Rig /\ s2.rigs[q] # None
    BY DEF Alerts!Present
  <2>2. CASE q = r
    BY <1>1, <2>2
  <2>3. CASE q # r
    BY <1>1, <2>1, <2>3 DEF FarmSound, Alerts!Present
  <2> QED BY <2>2, <2>3
<1> QED BY <1>2 DEF FarmSound

\* What a save leaves.
LEMMA SavedFarm ==
  ASSUME AlertInv, NEW s, NEW k \in SUBSET Rig, known \subseteq k, FarmSound(s, k),
         Alerts!SaveFarm(s), known' \in {known, k}, farm' = s => known' = k
  PROVE  AlertInv'
<1>1. failures' \in 0 .. MaxFailures
  BY AlertAssumption DEF Alerts!SaveFarm, Alerts!Fails, AlertInv
<1>2. CASE farm' = s /\ savedFarm' = s
  BY <1>1, <1>2 DEF AlertInv
<1>3. CASE farm' = savedFarm /\ savedFarm' = savedFarm
  <2>1. FarmSound(savedFarm, known')
    BY FarmSoundLater DEF AlertInv
  <2> QED BY <1>1, <1>3, <2>1 DEF AlertInv
<1> QED BY <1>2, <1>3 DEF Alerts!SaveFarm

LEMMA EnrollRigStep == ASSUME AlertInv, NEW r \in Rig, Alerts!EnrollRig(r) PROVE AlertInv'
<1> DEFINE w == [heard |-> "never", set |-> [assigned |-> FALSE, rules |-> {}], found |-> {}]
           s == [farm EXCEPT !.rigs[r] = w]
<1>1. /\ r \notin known /\ Alerts!SaveFarm(s)
      /\ known' = IF farm'.rigs[r] = None THEN known ELSE known \cup {r}
  BY DEF Alerts!EnrollRig
<1>2. w \in Alerts!Watched /\ w # None /\ w.found = {}
  <2>1. w \in Alerts!Watched /\ w.found = {}
    BY DEF Alerts!Watched, Alerts!AnySetting
  <2> HIDE DEF w
  <2> QED BY <2>1, AlertAssumption
<1> HIDE DEF w
<1>3. farm \in Alerts!FarmState /\ IsLog(farm.alerts, known) /\ farm.rigs \in [Rig -> Alerts!Watched \cup {None}]
  BY DEF AlertInv, FarmSound, Alerts!FarmState
<1>4. s \in Alerts!FarmState /\ s.rigs = [farm.rigs EXCEPT ![r] = w] /\ s.alerts = farm.alerts
  BY <1>2, <1>3 DEF Alerts!FarmState
<1> HIDE DEF s
<1>5. FarmSound(s, known \cup {r})
  <2>1. FarmSound(farm, known \cup {r})
    BY FarmSoundLater DEF AlertInv
  <2>2. \A t \in Alerts!AlertType : Said(farm.alerts, r, t, t \in w.found)
    BY <1>1, <1>2, <1>3 DEF Said, Raised, IsLog
  <2>3. IsLog(farm.alerts, known \cup {r}) /\ r \in known \cup {r}
    BY <1>3 DEF IsLog
  <2> QED BY <1>2, <1>4, <2>1, <2>2, <2>3, RigReplaced
<1>6. known' \in {known, known \cup {r}} /\ (farm' = s => known' = known \cup {r})
  BY <1>1, <1>2, <1>3, <1>4
<1>7. known \cup {r} \in SUBSET Rig
  BY DEF AlertInv
<1> QED BY <1>1, <1>5, <1>6, <1>7, SavedFarm

\* What an operation finds of a rig that is present.
LEMMA PresentRig ==
  ASSUME NEW s, NEW k, FarmSound(s, k), NEW r \in Alerts!Present(s)
  PROVE  /\ s \in Alerts!FarmState /\ s.rigs[r] \in Alerts!Watched /\ r \in Rig /\ r \in k
         /\ IsLog(s.alerts, k) /\ s.alerts \in Seq(Alerts!Alert)
         /\ \A t \in Alerts!AlertType : Said(s.alerts, r, t, t \in s.rigs[r].found)
BY DEF FarmSound, Alerts!Present, Alerts!FarmState, IsLog

LEMMA SameKnown ==
  ASSUME AlertInv, NEW s, FarmSound(s, known), Alerts!SaveFarm(s), known' = known
  PROVE  AlertInv'
<1>1. known \in SUBSET Rig
  BY DEF AlertInv
<1> QED BY <1>1, SavedFarm

\* A rig of which only what it is set to, or heard of, has changed.
LEMMA RigTouched ==
  ASSUME NEW k, NEW s, FarmSound(s, k), NEW r \in Alerts!Present(s), NEW w \in Alerts!Watched,
         w.found = s.rigs[r].found, NEW s2, s2 \in Alerts!FarmState,
         s2.rigs = [s.rigs EXCEPT ![r] = w], s2.alerts = s.alerts
  PROVE  FarmSound(s2, k)
<1>1. /\ s \in Alerts!FarmState /\ r \in Rig /\ r \in k /\ IsLog(s.alerts, k)
      /\ s.alerts \in Seq(Alerts!Alert)
      /\ \A t \in Alerts!AlertType : Said(s.alerts, r, t, t \in w.found)
  BY PresentRig
<1> QED BY <1>1, RigReplaced

LEMMA AssignStep ==
  ASSUME AlertInv, NEW r \in Rig, NEW setting \in Watchdog, Alerts!Assign(r, setting)
  PROVE  AlertInv'
<1> DEFINE w == [farm.rigs[r] EXCEPT !.set = setting]
           s == [farm EXCEPT !.rigs[r] = w]
<1>1. r \in Alerts!Present(farm) /\ known' = known /\ Alerts!SaveFarm(s) /\ FarmSound(farm, known)
  BY DEF Alerts!Assign, AlertInv
<1>2. farm.rigs[r] \in Alerts!Watched
  BY <1>1, PresentRig
<1>3. w \in Alerts!Watched /\ w.found = farm.rigs[r].found
  <2>1. setting \in Alerts!AnySetting
    <3>1. setting = [assigned |-> TRUE, rules |-> {"hashrate"}]
      BY DEF Watchdog
    <3>2. {"hashrate"} \in SUBSET {"temperature", "hashrate"}
      OBVIOUS
    <3> QED BY <3>1, <3>2 DEF Alerts!AnySetting
  <2> QED BY <1>2, <2>1 DEF Alerts!Watched
<1> HIDE DEF w
<1>4. s \in Alerts!FarmState /\ s.rigs = [farm.rigs EXCEPT ![r] = w] /\ s.alerts = farm.alerts
  BY <1>1, <1>3 DEF FarmSound, Alerts!FarmState
<1> HIDE DEF s
<1>5. FarmSound(s, known)
  BY <1>1, <1>3, <1>4, RigTouched
<1> QED BY <1>1, <1>5, SameKnown

LEMMA BeatStep ==
  ASSUME AlertInv, NEW r \in Rig, NEW m \in Alerts!Report, Alerts!Beat(r, m)
  PROVE  AlertInv'
<1> DEFINE w     == [farm.rigs[r] EXCEPT !.heard = "lately"]
           found == Alerts!Conditions(farm.rigs[r], m)
           heard == [farm EXCEPT !.rigs[r] = w]
           log   == Alerts!Evaluated(farm.alerts, r, found)
           new   == [w EXCEPT !.found = found \cup (@ \cap {"offline"})]
           s     == [heard EXCEPT !.rigs[r].found = found \cup (@ \cap {"offline"}),
                                  !.alerts = Alerts!Evaluated(@, r, found)]
<1>1. /\ r \in Alerts!Present(farm) /\ known' = known /\ FarmSound(farm, known)
      /\ \/ Alerts!SaveFarm(s)
         \/ farm' = heard /\ savedFarm' = savedFarm /\ Alerts!Fails
  BY DEF Alerts!Beat, AlertInv
<1>2. /\ farm.rigs[r] \in Alerts!Watched /\ farm \in Alerts!FarmState /\ IsLog(farm.alerts, known)
      /\ r \in known /\ farm.alerts \in Seq(Alerts!Alert)
      /\ \A t \in Alerts!AlertType : Said(farm.alerts, r, t, t \in farm.rigs[r].found)
  BY <1>1, PresentRig
<1>3. found \in SUBSET Alerts!Judged /\ found \subseteq Alerts!AlertType
  BY DEF Alerts!Conditions, Alerts!AlertType
<1> HIDE DEF found
<1>4. /\ w \in Alerts!Watched /\ w.found = farm.rigs[r].found
      /\ new \in Alerts!Watched /\ new.found = found \cup (farm.rigs[r].found \cap {"offline"})
  BY <1>2, <1>3 DEF Alerts!Watched, Alerts!AlertType
<1>5. /\ IsLog(log, known) /\ log \in Seq(Alerts!Alert)
      /\ \A t \in Alerts!AlertType : Said(log, r, t, t \in new.found)
      /\ \A q, u, h : q # r /\ Said(farm.alerts, q, u, h) => Said(log, q, u, h)
  <2> DEFINE old == farm.rigs[r].found
  <2>1. \A t \in Alerts!AlertType : Said(farm.alerts, r, t, t \in old)
    BY <1>2
  <2>2. r \in Rig
    OBVIOUS
  <2> HIDE DEF old
  <2>3. /\ IsLog(log, known)
        /\ \A t \in Alerts!AlertType : Said(log, r, t, t \in found \cup (old \cap {"offline"}))
        /\ \A q, u, h : q # r /\ Said(farm.alerts, q, u, h) => Said(log, q, u, h)
    BY <1>2, <1>3, <2>1, <2>2, EvaluatedSaid
  <2>4. new.found = found \cup (old \cap {"offline"})
    BY <1>4 DEF old
  <2> HIDE DEF new, log
  <2> QED BY <2>3, <2>4 DEF IsLog
<1>6. /\ heard \in Alerts!FarmState /\ heard.rigs = [farm.rigs EXCEPT ![r] = w]
      /\ heard.alerts = farm.alerts
  <2> HIDE DEF w
  <2> QED BY <1>2, <1>4 DEF Alerts!FarmState
<1>7. s.rigs = [farm.rigs EXCEPT ![r] = new] /\ s.alerts = log /\ s \in Alerts!FarmState
  <2>1. heard.rigs[r] = w /\ farm.rigs \in [Rig -> Alerts!Watched \cup {None}]
    BY <1>2, <1>6 DEF Alerts!FarmState
  <2>2. s = [rigs |-> [heard.rigs EXCEPT ![r] = new], alerts |-> log]
    <3>1. s = [[heard EXCEPT !.rigs = [heard.rigs EXCEPT ![r] = new]] EXCEPT !.alerts = log]
      BY <1>6, <2>1
    <3> HIDE DEF new, log, s, heard
    <3> QED BY <1>6, <3>1 DEF Alerts!FarmState
  <2>3. [heard.rigs EXCEPT ![r] = new] = [farm.rigs EXCEPT ![r] = new]
    BY <1>6, <2>1
  <2>4. [farm.rigs EXCEPT ![r] = new] \in [Rig -> Alerts!Watched \cup {None}]
    BY <1>4, <2>1
  <2> HIDE DEF new, log
  <2> QED BY <1>5, <2>2, <2>3, <2>4 DEF Alerts!FarmState
<1>8. FarmSound(heard, known)
  <2> HIDE DEF w, heard
  <2> QED BY <1>1, <1>4, <1>6, RigTouched
<1> HIDE DEF w, log, new, s, heard
<1>9. FarmSound(s, known)
  BY <1>1, <1>2, <1>4, <1>5, <1>7, RigReplaced
<1>10. CASE Alerts!SaveFarm(s)
  BY <1>1, <1>9, <1>10, SameKnown
<1>11. CASE farm' = heard /\ savedFarm' = savedFarm /\ Alerts!Fails
  <2>1. failures' \in 0 .. MaxFailures
    BY <1>11, AlertAssumption DEF Alerts!Fails, AlertInv
  <2> QED BY <1>1, <1>8, <1>11, <2>1 DEF AlertInv
<1> QED BY <1>1, <1>10, <1>11

LEMMA CheckConnectivityStep == ASSUME AlertInv, Alerts!CheckConnectivity PROVE AlertInv'
<1>1. PICK order \in Alerts!SetToSeqs(Alerts!Present(farm)) :
        Alerts!SaveFarm(Alerts!Checked(farm, order)) /\ known' = known
  BY DEF Alerts!CheckConnectivity
<1>2. FarmSound(Alerts!Checked(farm, order), known)
  BY CheckedSound DEF AlertInv
<1> QED BY <1>1, <1>2, SameKnown

LEMMA SilenceStep == ASSUME AlertInv, NEW r \in Rig, Alerts!Silence(r) PROVE AlertInv'
<1> DEFINE Aged(s) == IF s.rigs[r] # None /\ s.rigs[r].heard = "lately"
                        THEN [s EXCEPT !.rigs[r].heard = "long ago"] ELSE s
<1>1. /\ savedFarm' = Aged(savedFarm) /\ farm' \in {farm, Aged(farm)}
      /\ known' = known /\ failures' = failures
  BY DEF Alerts!Silence
<1>2. ASSUME NEW s, FarmSound(s, known) PROVE FarmSound(Aged(s), known)
  <2>1. CASE s.rigs[r] # None /\ s.rigs[r].heard = "lately"
    <3> DEFINE w == [s.rigs[r] EXCEPT !.heard = "long ago"]
    <3>1. r \in Alerts!Present(s) /\ s.rigs[r] \in Alerts!Watched
      BY <1>2, <2>1, PresentRig DEF Alerts!Present
    <3>2. w \in Alerts!Watched /\ w.found = s.rigs[r].found
      BY <3>1 DEF Alerts!Watched
    <3>3. /\ Aged(s) \in Alerts!FarmState /\ Aged(s).rigs = [s.rigs EXCEPT ![r] = w]
          /\ Aged(s).alerts = s.alerts
      <4>1. Aged(s) = [s EXCEPT !.rigs[r] = w]
        BY <2>1
      <4> HIDE DEF w, Aged
      <4> QED BY <1>2, <3>2, <4>1 DEF FarmSound, Alerts!FarmState
    <3> HIDE DEF w, Aged
    <3> QED BY <1>2, <3>1, <3>2, <3>3, RigTouched
  <2>2. CASE ~(s.rigs[r] # None /\ s.rigs[r].heard = "lately")
    BY <1>2, <2>2
  <2> QED BY <2>1, <2>2
<1> HIDE DEF Aged
<1> QED BY <1>1, <1>2 DEF AlertInv

LEMMA ForgetStep == ASSUME AlertInv, NEW r \in Rig, Alerts!Forget(r) PROVE AlertInv'
<1> DEFINE s == [farm EXCEPT !.rigs[r] = None]
<1>1. Alerts!SaveFarm(s) /\ known' = known /\ FarmSound(farm, known)
  BY DEF Alerts!Forget, AlertInv
<1>2. /\ farm \in Alerts!FarmState /\ farm.rigs \in [Rig -> Alerts!Watched \cup {None}]
      /\ farm.alerts \in Seq(Alerts!Alert)
  BY <1>1 DEF FarmSound, Alerts!FarmState
<1>3. s \in Alerts!FarmState /\ s.rigs = [farm.rigs EXCEPT ![r] = None] /\ s.alerts = farm.alerts
  BY <1>2 DEF Alerts!FarmState
<1> HIDE DEF s
<1>4. \A q \in Alerts!Present(s) : q \in Alerts!Present(farm) /\ s.rigs[q] = farm.rigs[q]
  BY <1>2, <1>3 DEF Alerts!Present
<1>5. FarmSound(s, known)
  BY <1>1, <1>3, <1>4 DEF FarmSound
<1> QED BY <1>1, <1>5, SameKnown

LEMMA AlertStarts == ASSUME Alerts!AlertInit PROVE AlertInv
<1>1. /\ farm = [rigs |-> [r \in Rig |-> None], alerts |-> << >>]
      /\ savedFarm = farm /\ known = {} /\ failures = 0
  BY DEF Alerts!AlertInit
<1>2. farm.rigs = [r \in Rig |-> None] /\ farm.alerts = << >> /\ Alerts!Present(farm) = {}
  BY <1>1 DEF Alerts!Present
<1>3. farm \in Alerts!FarmState
  BY <1>1 DEF Alerts!FarmState
<1>4. FarmSound(farm, known)
  BY <1>2, <1>3, AlertAssumption DEF FarmSound, IsLog
<1> QED BY <1>1, <1>4, AlertAssumption DEF AlertInv

LEMMA AlertStep ==
  ASSUME AlertInv, Alerts!AlertNext \/ UNCHANGED alertVars PROVE AlertInv'
<1>1. CASE UNCHANGED alertVars
  BY <1>1 DEF AlertInv, alertVars
<1>2. CASE \E r \in Rig : Alerts!EnrollRig(r) \/ Alerts!Forget(r) \/ Alerts!Silence(r)
  BY <1>2, EnrollRigStep, ForgetStep, SilenceStep
<1>3. CASE \E r \in Rig, setting \in Watchdog : Alerts!Assign(r, setting)
  BY <1>3, AssignStep
<1>4. CASE \E r \in Rig, m \in Alerts!Report : Alerts!Beat(r, m)
  BY <1>4, BeatStep
<1>5. CASE Alerts!SaveOther
  <2>1. Alerts!SaveFarm(farm) /\ known' = known /\ FarmSound(farm, known)
    BY <1>5 DEF Alerts!SaveOther, AlertInv
  <2> QED BY <2>1, SameKnown
<1>6. CASE Alerts!AlertCrash
  <2>1. /\ farm' = savedFarm /\ savedFarm' = savedFarm /\ known' = known
        /\ failures' \in 0 .. MaxFailures
    BY <1>6, AlertAssumption DEF Alerts!AlertCrash, Alerts!Fails, AlertInv
  <2> QED BY <2>1 DEF AlertInv
<1> QED BY <1>1, <1>2, <1>3, <1>4, <1>5, <1>6, CheckConnectivityStep DEF Alerts!AlertNext

LEMMA AlertsSaid ==
  ASSUME AlertInv PROVE Alerts!AlertTypeOK /\ Alerts!AlertsMatch
<1>1. Alerts!AlertTypeOK
  BY DEF AlertInv, Alerts!AlertTypeOK, FarmSound, IsLog
<1>2. ASSUME NEW s \in {farm, savedFarm}, NEW r \in Alerts!Present(s), NEW t \in Alerts!AlertType
      PROVE  LET active == {n \in DOMAIN s.alerts :
                              s.alerts[n] = [rig |-> r, type |-> t, active |-> TRUE]}
             IN /\ Alerts!Cardinality(active) <= 1
                /\ active # {} => t \in s.rigs[r].found
                /\ t \in s.rigs[r].found /\ active = {} => Len(s.alerts) = LogLimit
  <2> DEFINE active == {n \in DOMAIN s.alerts :
                          s.alerts[n] = [rig |-> r, type |-> t, active |-> TRUE]}
  <2>1. FarmSound(s, known)
    BY DEF AlertInv
  <2>2. Said(s.alerts, r, t, t \in s.rigs[r].found) /\ s.alerts \in Seq(Alerts!Alert)
    BY <2>1, PresentRig
  <2>3. active = {n \in DOMAIN s.alerts : Raised(s.alerts, n, r, t)}
    BY <2>2, ActiveAlerts
  <2> HIDE DEF active
  <2>4. /\ \A m, n \in active : m = n
        /\ active # {} => t \in s.rigs[r].found
        /\ t \in s.rigs[r].found /\ active = {} => Len(s.alerts) = LogLimit
    BY <2>2, <2>3 DEF Said
  <2>5. Cardinality(active) <= 1
    <3>1. CASE active = {}
      BY <3>1, FS_EmptySet
    <3>2. CASE active # {}
      <4>1. PICK n \in active : active = {n}
        BY <2>4, <3>2
      <4>2. Cardinality({n}) = 1
        BY FS_Singleton
      <4> QED BY <4>1, <4>2
    <3> QED BY <3>1, <3>2
  <2>6. Alerts!Cardinality(active) <= 1
    BY <2>5, SameCardinality
  <2> QED BY <2>4, <2>6 DEF active
<1> QED BY <1>1, <1>2 DEF Alerts!AlertsMatch

-----------------------------------------------------------------------------
(* The composition. *)

\* A step of the controller is one of a service, or leaves it alone.
LEMMA ServiceSteps ==
  ASSUME [ControllerNext]_controllerVars
  PROVE  /\ [Next]_vars
         /\ Packages!PackageNext \/ UNCHANGED packageVars
         /\ EnrollmentNext \/ UNCHANGED enrollmentVars
         /\ Alerts!AlertNext \/ UNCHANGED alertVars
         /\ History!HistoryNext \/ UNCHANGED historyVars
         /\ AccountsNext \/ UNCHANGED accountVars
         /\ UpdateNext \/ UNCHANGED updateVars
         /\ CacheNext \/ UNCHANGED cacheVars
         /\ part' = part
<1>1. CASE UNCHANGED controllerVars
  BY <1>1 DEF controllerVars
<1>2. CASE Only("configuration") /\ Next
  BY <1>2 DEF Only
<1>3. CASE Only("packages") /\ Packages!PackageNext
  BY <1>3 DEF Only
<1>4. CASE Only("enrollment") /\ EnrollmentNext
  BY <1>4 DEF Only
<1>5. CASE Only("alerts") /\ Alerts!AlertNext
  BY <1>5 DEF Only
<1>6. CASE Only("history") /\ History!HistoryNext
  BY <1>6 DEF Only
<1>7. CASE Only("users") /\ AccountsNext
  BY <1>7 DEF Only
<1>8. CASE Only("updates") /\ UpdateNext
  BY <1>8 DEF Only
<1>9. CASE Only("cache") /\ CacheNext
  BY <1>9 DEF Only
<1> QED BY <1>1, <1>2, <1>3, <1>4, <1>5, <1>6, <1>7, <1>8, <1>9 DEF ControllerNext

\* "At least 32-day retention" (README.md:96): no sample of an enrolled rig is
\* lost before its time (appendMetric, pruneHistory, migrateEmbeddedHistory).
THEOREM SamplesAreKept == ControllerSpec => []HistoryKept
<1>1. ControllerInit => HistoryInv
  BY HistoryInitInv DEF ControllerInit
<1>2. HistoryInv /\ [ControllerNext]_controllerVars => HistoryInv'
  BY ServiceSteps, HistoryStep
<1>3. HistoryInv => HistoryKept
  BY DEF HistoryInv, HistoryKept
<1> QED BY <1>1, <1>2, <1>3, PTL DEF ControllerSpec

\* The inductive invariant of the package store, next to everything else.
LEMMA PackagesHold == ControllerSpec => []PackageInv
<1>1. ControllerInit => PackageInv
  BY PackageStarts DEF ControllerInit
<1>2. PackageInv /\ [ControllerNext]_controllerVars => PackageInv'
  BY ServiceSteps, PackageStep
<1> QED BY <1>1, <1>2, PTL DEF ControllerSpec

\* A rig gets the package whose digest it has been told, in spite of overlapping
\* uploads, imports and edits (packages.go:96).
THEOREM PackagesMatch == ControllerSpec => []ServedPackageMatches
<1>1. PackageInv => ServedPackageMatches
  BY ServedMatches DEF ServedPackageMatches
<1> QED BY <1>1, PackagesHold, PTL

\* "Installation is rejected and cleaned up" (README.md:244): a failed import
\* leaves no trace of a miner nobody else has touched (custom_packages.go:20).
THEOREM ImportsAreUndone == ControllerSpec => FailedImportUndone
<1> DEFINE Undone == \A j \in Job :
             Packages!Undo(j) /\ UNCHANGED faults /\ quiet[j] # None =>
               record' = jobs[j].was /\ files' = quiet[j]
<1>1. PackageInv => Undone
  BY UndoneStep
<1>2. PackageInv => [Undone]_packageVars
  BY <1>1
<1> QED BY <1>2, PackagesHold, PTL
        DEF FailedImportUndone, Packages!FailedImportUndone, Packages!packageVars, packageVars

\* A controller comes to serve only with its built-in package in place and recorded,
\* whatever crashes, failed saves and failed repairs came before (main.go:60,
\* RefreshInstalledEmbeddedMinerPackages).
THEOREM SeedIsServed == ControllerSpec => StartsWithSeed
<1>1. ControllerInit => StartInv
  BY StartStarts DEF ControllerInit
<1>2. PackageInv /\ StartInv /\ [ControllerNext]_controllerVars => StartInv' /\ ServesSeed
  BY ServiceSteps, ServeStep
<1>3. PackageInv /\ StartInv /\ [ControllerNext]_controllerVars => [ServesSeed]_packageVars
  BY <1>2
<1> QED BY <1>1, <1>2, <1>3, PackagesHold, PTL
        DEF ControllerSpec, StartsWithSeed, Packages!StartsWithSeed, Packages!packageVars,
            packageVars, ServesSeed

\* The inductive invariant of the alerts, next to everything else.
LEMMA AlertsHold == ControllerSpec => []AlertInv
<1>1. ControllerInit => AlertInv
  BY AlertStarts DEF ControllerInit
<1>2. AlertInv /\ [ControllerNext]_controllerVars => AlertInv'
  BY ServiceSteps, AlertStep
<1> QED BY <1>1, <1>2, PTL DEF ControllerSpec

\* The active alerts of a rig are what was last found of it (telemetry.go:233),
\* each once, for any number of rigs and any limit of the list.
THEOREM AlertsAreTrue == ControllerSpec => []AlertsMatch
<1>1. AlertInv => AlertsMatch
  BY AlertsSaid DEF AlertsMatch
<1> QED BY <1>1, AlertsHold, PTL

-----------------------------------------------------------------------------
(* The other services, whose theorems carry over. *)

\* Next to the others each service behaves as its own specification says.
LEMMA ServicesRun ==
  ControllerSpec => Spec /\ EnrollmentSpec /\ AccountsSpec /\ UpdateSpec /\ CacheSpec
<1>1. ControllerInit => Init /\ EnrollmentInit /\ AccountsInit /\ UpdateInit /\ CacheInit
  BY DEF ControllerInit
<1>2. [ControllerNext]_controllerVars =>
        /\ [Next]_vars /\ [EnrollmentNext]_enrollmentVars /\ [AccountsNext]_accountVars
        /\ [UpdateNext]_updateVars /\ [CacheNext]_cacheVars
  BY ServiceSteps
<1> QED
  BY <1>1, <1>2, PTL DEF ControllerSpec, Spec, EnrollmentSpec, AccountsSpec, UpdateSpec, CacheSpec

\* Every variable of every service keeps to its values, for any numbers of entries,
\* rigs, requests, helpers and failures.
THEOREM ControllerTypeCorrect == ControllerSpec => []ControllerTypeOK
<1> DEFINE Typed == /\ Inductive /\ PackageInv /\ EnrollmentInv /\ AlertInv /\ HistoryInv
                    /\ AccountsInv /\ UpdateInv /\ CacheInv /\ part \in Service
<1>1. ControllerInit => Typed
  BY InitInductive, PackageStarts, EnrollmentInitInv, AlertStarts, HistoryInitInv,
     AccountsInitInv, UpdateInitInv, CacheInitInv
  DEF ControllerInit
<1>2. Typed /\ [ControllerNext]_controllerVars => Typed'
  BY ServiceSteps, InductiveStep, PackageStep, EnrollmentStep, AlertStep, HistoryStep,
     AccountsStep, UpdateStep, CacheStep
<1>3. Typed => ControllerTypeOK
  <2>1. ASSUME Inductive PROVE TypeOK
    BY <2>1 DEF Inductive, Sound, TypeOK
  <2>2. ASSUME AlertInv PROVE Alerts!AlertTypeOK
    BY <2>2, AlertsSaid
  <2> QED
    BY <2>1, <2>2
    DEF ControllerTypeOK, PackageInv, EnrollmentInv, HistoryInv, AccountsInv, UpdateInv, CacheInv
<1> QED
  <2> HIDE DEF Typed
  <2> QED BY <1>1, <1>2, <1>3, PTL DEF ControllerSpec

\* What was proved of the configuration store, of schedules, enrollment, accounts,
\* updates and caches by themselves holds of the controller.
THEOREM ServicesKeepTheirPromises ==
  ControllerSpec => [](/\ ReferencesExist /\ UniqueNames /\ ScheduleRunsOnce
                       /\ GrantUsedOnce /\ WriterAndGrantAgree /\ AdministratorStays
                       /\ ControllerKept /\ AnswersAreRecent)
BY ServicesRun, ReferencesHold, NamesUnique, RunsOnce, GrantAdmitsOneRig,
   WriterTellsTheTruth, AdministratorAlwaysStays, WorkingControllerIsKept,
   EveryAnswerIsRecent, PTL

=============================================================================
