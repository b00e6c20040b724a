----------------------------- MODULE SourceCache -----------------------------
(***************************************************************************)
(* What the controller keeps of other web sites: releases, catalogues,     *)
(* prices, pool statistics and mining data. Each is kept for some time;    *)
(* the request that finds it expired fetches it again, while others wait   *)
(* for it or fetch it too, depending on the cache. A fetch may be slow or  *)
(* fail, also because the request that waits for it is given up.           *)
(*                                                                         *)
(* Sources: internal/server/release_monitor.go (latest),                   *)
(* community_miners.go (catalog), application_updates.go (latest),         *)
(* discover.go (discoverCache.get), market_pool.go (prices, coinAssets,    *)
(* snapshot), discover_exchange.go (nonKYCBestBidUSD); the loads of the    *)
(* discover caches: discover_pow.go (powPrices), discover_calc.go          *)
(* (minerCalcCoins), discover_listings.go (newListings),                   *)
(* discover_hardware.go (calcHardware, calcHardwareBenchmarks),            *)
(* flight_algorithms.go (minerAlgorithmCatalog).                           *)
(*                                                                         *)
(* One entry of one of these caches. Of a value it matters when its source *)
(* said it and whether it is whole: several loads answer, without an error,*)
(* with data of an earlier fetch or with what is left when a source fails. *)
(* Three of them take the market feed from a cache of its own (mpsRows).   *)
(* The benchmarks of ASICs are those of `hardware` and are not kept again. *)
(* The price of Bitcoin that a calculator request brings is a part that    *)
(* may be missing; its age, below that of the feed, is left out.           *)
(***************************************************************************)
EXTENDS Absent, Integers

CONSTANTS
  Request,
  Life,          \* for how long an entry is kept
  Timeout,       \* of a fetch
  FeedLife,      \* for how long the market feed is kept
  LastTime       \* bound on the time

Time == 0 .. LastTime

\* held: the mutex is held during a fetch; errors: a failure is kept like a value;
\* from: when an entry's time begins to run; stale: a failed refresh answers with
\* the old value; forced: a request may refresh an entry that has not expired;
\* load: where a fetch gets its value from.
Releases     == [held |-> FALSE, errors |-> TRUE,  from |-> "start", stale |-> FALSE, forced |-> FALSE, load |-> "web"]
Community    == [held |-> TRUE,  errors |-> TRUE,  from |-> "end",   stale |-> FALSE, forced |-> FALSE, load |-> "web"]
Applications == [held |-> TRUE,  errors |-> TRUE,  from |-> "end",   stale |-> FALSE, forced |-> TRUE,  load |-> "web"]
Discover     == [held |-> TRUE,  errors |-> FALSE, from |-> "end",   stale |-> TRUE,  forced |-> FALSE, load |-> "web"]
\* An answer without any price is kept and does not count as one.
Prices       == [held |-> TRUE,  errors |-> FALSE, from |-> "end",   stale |-> FALSE, forced |-> TRUE,  load |-> "web"]
\* The assets of one set of coins; asking for others replaces them.
Assets       == [held |-> TRUE,  errors |-> FALSE, from |-> "end",   stale |-> FALSE, forced |-> TRUE,  load |-> "web"]
PoolStats    == [held |-> TRUE,  errors |-> FALSE, from |-> "end",   stale |-> FALSE, forced |-> FALSE, load |-> "web"]
Bids         == [held |-> FALSE, errors |-> TRUE,  from |-> "start", stale |-> FALSE, forced |-> FALSE, load |-> "web"]
Benchmarks   == [held |-> FALSE, errors |-> FALSE, from |-> "end",   stale |-> FALSE, forced |-> FALSE, load |-> "web"]

\* The feed itself and the calendar come from the web.
DiscoverFrom(load) == [Discover EXCEPT !.load = load]

Policy == [release |-> Releases, community |-> Community, application |-> Applications,
           discover |-> Discover, prices |-> Prices, assets |-> Assets,
           pool |-> PoolStats, exchange |-> Bids, benchmark |-> Benchmarks,
           hardware |-> DiscoverFrom("pages"), algorithms |-> DiscoverFrom("bundle"),
           pow |-> DiscoverFrom("feed"), calculator |-> DiscoverFrom("mix"),
           listings |-> DiscoverFrom("file")]

Kind == DOMAIN Policy

\* whole: as the sources said it at that time or later; older: with something of an
\* earlier fetch; partial: with something missing; nothing: an error.
Wholeness == {"whole", "older", "partial", "nothing"}

\* Of a value that is not whole the time is that of putting it together.
Answer == [of : Time, said : Wholeness]

\* Some of the hardware is built in, so that failed pages never count as an error; so
\* is a catalogue of algorithms.
CalcHardware    == {"whole", "partial"}
MinerAlgorithms == {"whole", "older"}

\* What the loads say that use the market feed, by what it told them. Prices are joined
\* with CoinGecko's changes, or the last ones known; the calculator does with either of
\* its sources; listings found before come from a file, also when the board cannot be
\* read.
PowPrices   == [whole   |-> {"whole", "older", "partial"},
                older   |-> {"older", "partial"},
                nothing |-> {"nothing"}]
CalcCoins   == [whole   |-> {"whole", "partial"},
                older   |-> {"older", "partial"},
                nothing |-> {"partial", "nothing"}]
NewListings == [whole   |-> Wholeness,
                older   |-> {"older", "partial", "nothing"},
                nothing |-> {"older", "partial", "nothing"}]

Alone  == [web |-> {"whole", "nothing"}, pages |-> CalcHardware, bundle |-> MinerAlgorithms]
Joined == [feed |-> PowPrices, mix |-> CalcCoins, file |-> NewListings]

\* A fetch gives up before an entry expires; None is no entry.
ASSUME CacheAssumption ==
  /\ {Life, Timeout, FeedLife, LastTime} \subseteq Nat /\ Timeout < Life
  /\ None \notin Wholeness
  /\ None \notin Answer \cup [answer : Answer, since : Time] \cup [of : Time, since : Time]

Idle == [at |-> "idle", start |-> 0, got |-> None, had |-> None]

VARIABLES
  kind,          \* which of the caches this is
  entry,         \* what is kept, and since when it counts
  feed,          \* the market feed in its cache
  holder,        \* the request that holds the mutex during its fetch
  requests,      \* per request its start, and what its load has returned
  returned,      \* history: the last answer given to a request, when, whether its own
                 \* fetch failed, and what the entry said when it asked
  now

cacheVars == << kind, entry, feed, holder, requests, returned, now >>

P == Policy[kind]
UsesFeed == P.load \in DOMAIN Joined

-----------------------------------------------------------------------------

\* Faulty variant: what is there is good.
Loaded == entry # None

Unexpired == entry # None /\ now - entry.since < Life

Reply(a, failed, had) ==
  returned' = [answer |-> a, time |-> now, failed |-> failed, had |-> had]

\* A request looks, and is answered or begins to fetch.
AskFor(q) ==
  /\ requests[q].at = "idle" /\ holder = None
  /\ \/ /\ Unexpired
        /\ Reply(entry.answer, FALSE, entry.answer.said)
        /\ UNCHANGED << requests, holder >>
     \/ /\ ~Unexpired \/ P.forced
        /\ requests' = [requests EXCEPT ![q] =
                         [at |-> "fetching", start |-> now, got |-> None,
                          had |-> IF entry = None THEN None ELSE entry.answer.said]]
        /\ holder' = IF P.held THEN q ELSE None
        /\ UNCHANGED returned
  /\ UNCHANGED << kind, entry, feed, now >>

\* Faulty variant: the feed does not expire.
FeedLoaded == feed # None

FeedFresh == feed # None /\ now - feed.since < FeedLife

\* The feed answers a load begun at time t with m: with what it keeps, with what it fetches,
\* or, when that fails, with what it kept before.
Market(t, m) ==
  \/ FeedFresh /\ m = [of |-> feed.of, said |-> "whole"] /\ UNCHANGED feed
  \/ /\ ~FeedFresh /\ m.of \in t .. now /\ m.said = "whole"
     /\ feed' = [of |-> m.of, since |-> now]
  \/ /\ ~FeedFresh /\ UNCHANGED feed
     /\ m = [of |-> now, said |-> IF feed = None THEN "nothing" ELSE "older"]

Fetched(q, a) == requests' = [requests EXCEPT ![q].at = "fetched", ![q].got = a]

\* The sources of a load have answered, or failed.
SourceAnswers(q) ==
  /\ requests[q].at = "fetching"
  /\ \/ /\ ~UsesFeed
        /\ \E said \in Alone[P.load] : Fetched(q, [of |-> now, said |-> said])
        /\ UNCHANGED feed
     \/ /\ UsesFeed
        /\ \E m \in Answer : Market(requests[q].start, m) /\
             \E said \in Joined[P.load][m.said] :
               Fetched(q, [of |-> IF said = "whole" THEN m.of ELSE now, said |-> said])
  /\ UNCHANGED << kind, entry, holder, returned, now >>

\* Somebody else reads the feed: another cache, or a request for profits or algorithms.
OthersRead ==
  /\ UsesFeed /\ ~FeedFresh
  /\ \E t \in Time : t <= now /\ now - t <= Timeout /\ feed' = [of |-> t, since |-> now]
  /\ UNCHANGED << kind, entry, holder, requests, returned, now >>

\* Faulty variant: an entry counts from the end of its fetch.
FromEnd(q) == now

Since(q) == IF P.from = "start" THEN requests[q].start ELSE now

\* The answer reaches the request, which keeps it and replies.
Keep(q) ==
  LET a == requests[q].got
  IN /\ requests[q].at = "fetched"
     /\ IF a.said # "nothing" \/ P.errors
          THEN entry' = [answer |-> a, since |-> Since(q)]
          ELSE UNCHANGED entry
     /\ Reply(IF a.said = "nothing" /\ P.stale /\ entry # None THEN entry.answer ELSE a,
              a.said = "nothing", requests[q].had)
     /\ requests' = [requests EXCEPT ![q] = Idle]
     /\ holder' = IF P.held THEN None ELSE holder
     /\ UNCHANGED << kind, feed, now >>

\* No fetch takes longer than its timeout.
Tick ==
  /\ now < LastTime
  /\ \A q \in Request : requests[q].at # "idle" => now - requests[q].start < Timeout
  /\ now' = now + 1
  /\ UNCHANGED << kind, entry, feed, holder, requests, returned >>

CacheInit ==
  /\ kind \in Kind
  /\ entry = None /\ feed = None /\ holder = None /\ now = 0
  /\ requests = [q \in Request |-> Idle]
  /\ returned = None

CacheNext ==
  \/ \E q \in Request : AskFor(q) \/ SourceAnswers(q) \/ Keep(q)
  \/ OthersRead \/ Tick

CacheSpec == CacheInit /\ [][CacheNext]_cacheVars

-----------------------------------------------------------------------------

CacheTypeOK ==
  /\ kind \in Kind
  /\ entry \in [answer : Answer, since : Time] \cup {None}
  /\ feed \in [of : Time, since : Time] \cup {None}
  /\ holder \in Request \cup {None}
  /\ requests \in [Request -> [at : {"idle", "fetching", "fetched"}, start : Time,
                               got : Answer \cup {None}, had : Wholeness \cup {None}]]
  /\ returned \in [answer : Answer, time : Time, failed : BOOLEAN,
                   had : Wholeness \cup {None}] \cup {None}
  /\ now \in Time

\* How much older the feed makes what is loaded from it.
Behind == IF UsesFeed THEN FeedLife + Timeout ELSE 0

\* What a request is answered, a value or an error, is what the source said less than
\* an entry's life and one fetch ago, whoever fetches at the same time and whichever
\* answer arrives last (release_monitor.go:76); where the market feed is a part, the
\* feed's life and one fetch more. Two kinds of answers may be older: that of a failed
\* refresh where it is the old value, and what a load has put together from older
\* parts, which is as recent only in its putting together. And where a failed refresh
\* answers with the old value it never answers with an error a page that was loaded
\* (discover.go:58).
AnswersAreRecent ==
  returned # None =>
    LET a == returned
    IN /\ a.time - a.answer.of < Life + Timeout + Behind \/ (P.stale /\ a.failed)
       /\ P.from = "start" => a.time - a.answer.of < Life
       /\ P.stale /\ a.had # None => a.answer.said # "nothing"

=============================================================================
