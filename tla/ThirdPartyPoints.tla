-------------------------- MODULE ThirdPartyPoints --------------------------
(***************************************************************************)
(* The points that other platforms give to a wallet, of which              *)
(* third_party_points is a cache with a row per platform.  API requests    *)
(* ask a platform when its row is stale, and the midnight job asks them    *)
(* all.  Each action is one call to the database or to a platform.  One    *)
(* wallet: the rest of the job's batch only takes time before its turn and *)
(* before the batch is saved.  EigenLayer points go the same way.          *)
(***************************************************************************)
EXTENDS Naturals

CONSTANTS
  Platforms,
  AlwaysAsked,   \* AMPHOR: asked whether its row is stale or not
  Viewers,       \* API requests that may be served at the same time
  MaxAttempts,   \* the retries of fetchThirdPartyPointTotalsWithRetries
  MaxPoints,     \* bound: the points a platform may give
  LastHour,      \* bound: the hours that pass
  NoRow,         \* no row
  Waiting,       \* no answer yet
  Failed         \* points: null, when all attempts have failed

ASSUME ThirdPartyAssumption ==
  /\ AlwaysAsked \subseteq Platforms
  /\ MaxAttempts \in Nat \ {0}
  /\ MaxPoints \in Nat
  /\ NoRow \notin [points: Nat, staleAt: Nat]
  /\ Waiting \notin Nat /\ Failed \notin Nat /\ Waiting # Failed

VARIABLES
  hour,
  earned,     \* what each platform gives the wallet
  entry,      \* the row of each platform
  viewer,     \* the API requests
  collector,  \* the midnight job
  said,       \* history: what platforms have answered last, <<platform, points, hour>>
  saidZero,   \* history: platforms that have answered 0, of which said forgets
  held        \* history: platforms held to give 0, see PointsSurvive

thirdPartyVars == <<hour, earned, entry, viewer, collector, said, saidZero, held>>

Row == [points: Nat, staleAt: Nat]

Rows == [Platforms -> Row \cup {NoRow}]

NoRows == [p \in Platforms |-> NoRow]

\* What is known of the platforms, and what each of them is waiting for.
Viewer ==
  [cached: Rows, at: [Platforms -> {"done", "fetch", "set"}], fetched: [Platforms -> Nat]]

IdleViewer ==
  [cached |-> NoRows, at |-> [p \in Platforms |-> "done"], fetched |-> [p \in Platforms |-> 0]]

Collector ==
  [pc: {"idle", "fetch", "set"},
   cached: Rows,                                  \* getThirdPartyPointsBulk
   attempt: [Platforms -> 0 .. MaxAttempts],
   answer: [Platforms -> Nat \cup {Waiting, Failed}],
   rows: Rows]                                    \* newPointsDbData

IdleCollector ==
  [pc |-> "idle", cached |-> NoRows, attempt |-> [p \in Platforms |-> 0],
   answer |-> [p \in Platforms |-> Waiting], rows |-> NoRows]

ThirdPartyTypeOK ==
  /\ hour \in Nat
  /\ earned \in [Platforms -> Nat]
  /\ entry \in Rows
  /\ viewer \in [Viewers -> Viewer]
  /\ collector \in Collector
  /\ said \subseteq Platforms \X Nat \X Nat
  /\ saidZero \subseteq Platforms /\ held \subseteq Platforms

ThirdPartyInit ==
  /\ hour = 0
  /\ earned = [p \in Platforms |-> 1]
  /\ entry = NoRows
  /\ viewer = [h \in Viewers |-> IdleViewer]
  /\ collector = IdleCollector
  /\ said = {} /\ saidZero = {} /\ held = {}

----------------------------------------------------------------------------
(* Platforms and time.                                                     *)

Earn ==
  /\ \E p \in Platforms : /\ earned[p] < MaxPoints
                          /\ earned' = [earned EXCEPT ![p] = @ + 1]
  /\ UNCHANGED <<hour, entry, viewer, collector, said, saidZero, held>>

\* An hour does not pass between an answer and the writing of what is made of
\* it: the row, or the job's data for this wallet.
HourPasses ==
  /\ hour < LastHour
  /\ \A h \in Viewers, p \in Platforms : viewer[h].at[p] # "set"
  /\ collector.pc = "fetch" => \A p \in Platforms : collector.attempt[p] = 0
                                                    /\ collector.answer[p] = Waiting
  /\ hour' = hour + 1
  /\ UNCHANGED <<earned, entry, viewer, collector, said, saidZero, held>>

\* fetchPlatformDataFromUrl: a platform may answer 0 although there are
\* points, as when it has an error code instead of points.
Answers(p) == {earned[p], 0}

Says(p, points) ==
  IF points = 0 \/ p \in saidZero
  THEN /\ saidZero' = saidZero \cup {p}
       /\ said' = {s \in said : s[1] # p}
  ELSE /\ said' = {s \in said : s[1] # p \/ s[2] # points} \cup {<<p, points, hour>>}
       /\ UNCHANGED saidZero

Fresh(points) == [points |-> points, staleAt |-> hour + 1]

----------------------------------------------------------------------------
(* API requests.                                                           *)

GetCachedThirdPartyPoints(h) ==
  /\ \A p \in Platforms : viewer[h].at[p] = "done"
  /\ LET due == {p \in Platforms : \/ entry[p] = NoRow
                                   \/ entry[p] # NoRow /\ hour > entry[p].staleAt
                                   \/ p \in AlwaysAsked}
     IN /\ due # {}
        /\ viewer' = [viewer EXCEPT ![h] =
             [cached |-> [p \in Platforms |-> IF p \in due THEN entry[p] ELSE NoRow],
              at |-> [p \in Platforms |-> IF p \in due THEN "fetch" ELSE "done"],
              fetched |-> [p \in Platforms |-> 0]]]
  /\ UNCHANGED <<hour, earned, entry, collector, said, saidZero, held>>

\* The platform is through with: forget what was known of it.
Done(h, p) ==
  viewer' = [viewer EXCEPT ![h] = [cached |-> [viewer[h].cached EXCEPT ![p] = NoRow],
                                   at |-> [viewer[h].at EXCEPT ![p] = "done"],
                                   fetched |-> [viewer[h].fetched EXCEPT ![p] = 0]]]

HydrateFetch(h, p) ==
  /\ viewer[h].at[p] = "fetch"
  /\ \/ Done(h, p) /\ UNCHANGED <<said, saidZero>>  \* the platform does not answer
     \/ \E points \in Answers(p) :
          /\ Says(p, points)
          /\ viewer' = [viewer EXCEPT ![h] =
               [cached |-> viewer[h].cached,
                at |-> [viewer[h].at EXCEPT ![p] = "set"],
                fetched |-> [viewer[h].fetched EXCEPT ![p] = points]]]
  /\ UNCHANGED <<hour, earned, entry, collector, held>>

CachedPoints(cached, p) == IF cached[p] = NoRow THEN 0 ELSE cached[p].points

MutNewPoints(h, p) == viewer[h].fetched[p]  \* an answer of 0 is stored

\* An answer of 0 keeps the points that were cached.
NewPoints(h, p) ==
  IF viewer[h].fetched[p] = 0 THEN CachedPoints(viewer[h].cached, p) ELSE viewer[h].fetched[p]

\* The upsert; or it fails.
SetThirdPartyPoints(h, p) ==
  /\ viewer[h].at[p] = "set"
  /\ \/ /\ entry' = [entry EXCEPT ![p] = Fresh(NewPoints(h, p))]
        /\ held' = IF CachedPoints(viewer[h].cached, p) = 0 /\ viewer[h].fetched[p] = 0
                   THEN held \cup {p} ELSE held
     \/ UNCHANGED <<entry, held>>
  /\ Done(h, p)
  /\ UNCHANGED <<hour, earned, collector, said, saidZero>>

----------------------------------------------------------------------------
(* The midnight job.                                                       *)

GetThirdPartyPointsBulk ==
  /\ collector.pc = "idle"
  /\ collector' = [IdleCollector EXCEPT !.pc = "fetch", !.cached = entry]
  /\ UNCHANGED <<hour, earned, entry, viewer, said, saidZero, held>>

\* One attempt of exponentialBackoff.
MutFetchWithRetries(p) ==  \* starts over instead of throwing
  /\ collector.pc = "fetch" /\ collector.answer[p] = Waiting
  /\ \/ /\ collector' = [collector EXCEPT
             !.attempt = [@ EXCEPT ![p] = (@ + 1) % MaxAttempts]]
        /\ UNCHANGED <<said, saidZero>>
     \/ \E points \in Answers(p) :
          /\ Says(p, points)
          /\ collector' = [collector EXCEPT !.answer = [@ EXCEPT ![p] = points]]
  /\ UNCHANGED <<hour, earned, entry, viewer, held>>

MutRetryLimit(p) ==  \* one attempt too many
  /\ collector.pc = "fetch" /\ collector.answer[p] = Waiting
  /\ \/ /\ LET attempt == collector.attempt[p] + 1 IN
           collector' = [collector EXCEPT
             !.attempt = [@ EXCEPT ![p] = attempt],
             !.answer = [@ EXCEPT ![p] = IF attempt > MaxAttempts THEN Failed ELSE Waiting]]
        /\ UNCHANGED <<said, saidZero>>
     \/ \E points \in Answers(p) :
          /\ Says(p, points)
          /\ collector' = [collector EXCEPT !.answer = [@ EXCEPT ![p] = points]]
  /\ UNCHANGED <<hour, earned, entry, viewer, held>>

FetchWithRetries(p) ==
  /\ collector.pc = "fetch" /\ collector.answer[p] = Waiting
  /\ \/ /\ LET attempt == collector.attempt[p] + 1 IN
           collector' = [collector EXCEPT
             !.attempt = [@ EXCEPT ![p] = attempt],
             !.answer = [@ EXCEPT ![p] = IF attempt >= MaxAttempts THEN Failed ELSE Waiting]]
        /\ UNCHANGED <<said, saidZero>>
     \/ \E points \in Answers(p) :
          /\ Says(p, points)
          /\ collector' = [collector EXCEPT !.answer = [@ EXCEPT ![p] = points]]
  /\ UNCHANGED <<hour, earned, entry, viewer, held>>

MutBuildRow(p) ==  \* without an answer, the cached points become fresh
  IF collector.answer[p] # Failed THEN Fresh(collector.answer[p])
  ELSE Fresh(CachedPoints(collector.cached, p))

BuildRow(p) ==
  IF collector.answer[p] # Failed THEN Fresh(collector.answer[p])
  ELSE IF collector.cached[p] = NoRow THEN Fresh(0)
  ELSE collector.cached[p]

\* With all answers there, buildPointsDbData.
BuildPointsDbData ==
  /\ collector.pc = "fetch" /\ \A p \in Platforms : collector.answer[p] # Waiting
  /\ collector' = [IdleCollector EXCEPT !.pc = "set",
                                        !.rows = [p \in Platforms |-> BuildRow(p)]]
  /\ held' = held \cup {p \in Platforms : \/ collector.answer[p] = 0
                                          \/ /\ collector.answer[p] = Failed
                                             /\ CachedPoints(collector.cached, p) = 0}
  /\ UNCHANGED <<hour, earned, entry, viewer, said, saidZero>>

\* The statement fails as a whole, or not: the job goes on.
SetThirdPartyPointsBulk ==
  /\ collector.pc = "set"
  /\ entry' = collector.rows \/ UNCHANGED entry
  /\ collector' = IdleCollector
  /\ UNCHANGED <<hour, earned, viewer, said, saidZero, held>>

\* The processing service restarts, or the database is down for the read.
LoseCollector ==
  /\ collector.pc # "idle"
  /\ collector' = IdleCollector
  /\ UNCHANGED <<hour, earned, entry, viewer, said, saidZero, held>>

----------------------------------------------------------------------------
Collect ==
  (\E p \in Platforms : FetchWithRetries(p)) \/ BuildPointsDbData \/ SetThirdPartyPointsBulk

ThirdPartyNext ==
  \/ Earn \/ HourPasses
  \/ \E h \in Viewers :
       \/ GetCachedThirdPartyPoints(h)
       \/ \E p \in Platforms : HydrateFetch(h, p) \/ SetThirdPartyPoints(h, p)
  \/ GetThirdPartyPointsBulk \/ Collect \/ LoseCollector

ThirdPartySpec == ThirdPartyInit /\ [][ThirdPartyNext]_thirdPartyVars

----------------------------------------------------------------------------
(* Properties.                                                             *)

\* The points of a row are what the platform has said not more than an hour
\* before they count as fresh, unless it has said 0 before: then older points
\* may count as fresh.  A job that saves late what it has read or asked early
\* never makes old points look fresh.
FreshWasSaid == \A p \in Platforms :
  entry[p] # NoRow /\ p \notin saidZero =>
    \/ entry[p].points = 0
    \/ \E t \in 0 .. hour : t + 1 >= entry[p].staleAt /\ <<p, entry[p].points, t>> \in said

\* Points are not lost to platforms that do not answer, nor to an answer of 0
\* to a request: a row has 0 points only if the job was told 0, or if whoever
\* asked was told 0 or nothing and had found no points before he asked.
PointsSurvive == \A p \in Platforms :
  entry[p] # NoRow /\ p \notin held => entry[p].points > 0

\* The job comes to its end, whatever platforms do.
CollectionEnds == collector.pc # "idle" ~> collector.pc = "idle"
=============================================================================
