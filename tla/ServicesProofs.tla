--------------------------- MODULE ServicesProofs ---------------------------
(***************************************************************************)
(* Proofs about the parts that MCServices composes, each for itself and    *)
(* then as parts of the whole: for any platforms, viewers, attempts and    *)
(* points, any number of events, failed starts and crashes, any streams,   *)
(* and any book of orders.                                                 *)
(***************************************************************************)
EXTENDS MCServices, FiniteSums, FiniteSetTheorems, TLAPS

----------------------------------------------------------------------------
(* Third party points.                                                     *)

\* A platform the job waits for has attempts left.
ThirdPartyTypeInv ==
  /\ ThirdPartyTypeOK
  /\ collector.pc = "fetch" =>
       \A p \in Platforms : collector.answer[p] = Waiting => collector.attempt[p] < MaxAttempts

----------------------------------------------------------------------------
(* Types.                                                                  *)

LEMMA Rowless ==
  /\ NoRows \in Rows /\ \A p \in Platforms : NoRows[p] = NoRow
  /\ NoRow \notin Row
  /\ IdleViewer \in Viewer /\ \A p \in Platforms : IdleViewer.at[p] = "done"
  /\ IdleCollector \in Collector /\ IdleCollector.pc = "idle"
<1>1. NoRows \in Rows /\ (\A p \in Platforms : NoRows[p] = NoRow) /\ NoRow \notin Row
  BY ThirdPartyAssumption DEF NoRows, Rows, Row
<1>2. IdleViewer \in Viewer /\ \A p \in Platforms : IdleViewer.at[p] = "done"
  BY <1>1 DEF IdleViewer, Viewer
<1>3. IdleCollector \in Collector /\ IdleCollector.pc = "idle"
  BY <1>1, ThirdPartyAssumption DEF IdleCollector, Collector
<1>4. QED  BY <1>1, <1>2, <1>3

LEMMA ThirdPartyTypeInit == ThirdPartyInit => ThirdPartyTypeInv
<1> SUFFICES ASSUME ThirdPartyInit
             PROVE  ThirdPartyTypeInv
  OBVIOUS
<1>1. /\ hour \in Nat /\ earned \in [Platforms -> Nat] /\ entry \in Rows
      /\ viewer \in [Viewers -> Viewer] /\ collector \in Collector
      /\ collector.pc = "idle"
  BY Rowless DEF ThirdPartyInit
<1>2. said = {} /\ saidZero = {} /\ held = {}
  BY DEF ThirdPartyInit
<1>3. QED  BY <1>1, <1>2 DEF ThirdPartyTypeInv, ThirdPartyTypeOK

LEMMA CollectorIs ==
  ASSUME ThirdPartyTypeOK
  PROVE  /\ collector \in Collector
         /\ collector.pc \in {"idle", "fetch", "set"}
         /\ collector.cached \in Rows /\ collector.rows \in Rows
         /\ collector.attempt \in [Platforms -> 0 .. MaxAttempts]
         /\ collector.answer \in [Platforms -> Nat \cup {Waiting, Failed}]
<1>1. collector \in Collector
  BY DEF ThirdPartyTypeOK
<1>2. QED  BY <1>1 DEF Collector

LEMMA ViewerIs ==
  ASSUME ThirdPartyTypeOK, NEW h \in Viewers
  PROVE  /\ viewer[h].cached \in Rows
         /\ viewer[h].at \in [Platforms -> {"done", "fetch", "set"}]
         /\ viewer[h].fetched \in [Platforms -> Nat]
<1>1. viewer[h] \in Viewer
  BY DEF ThirdPartyTypeOK
<1>2. QED  BY <1>1 DEF Viewer

\* What a viewer may become.
LEMMA ViewerBecomes ==
  ASSUME ThirdPartyTypeOK, NEW h \in Viewers, NEW v \in Viewer,
         viewer' = [viewer EXCEPT ![h] = v]
  PROVE  /\ viewer' \in [Viewers -> Viewer] /\ viewer'[h] = v
         /\ \A g \in Viewers \ {h} : viewer'[g] = viewer[g]
BY DEF ThirdPartyTypeOK

LEMMA CachedPointsAre ==
  ASSUME NEW cached \in Rows, NEW p \in Platforms
  PROVE  CachedPoints(cached, p) \in Nat
BY DEF CachedPoints, Rows, Row

LEMMA FreshRows ==
  ASSUME ThirdPartyTypeOK, NEW points \in Nat
  PROVE  /\ Fresh(points) \in Row /\ Fresh(points).points = points
         /\ Fresh(points).staleAt = hour + 1
BY DEF Fresh, Row, ThirdPartyTypeOK

LEMMA BuiltRows ==
  ASSUME ThirdPartyTypeOK, NEW p \in Platforms, collector.answer[p] # Waiting
  PROVE  BuildRow(p) \in Row
<1>1. collector.answer[p] \in Nat \cup {Failed} /\ collector.cached[p] \in Row \cup {NoRow}
  BY CollectorIs DEF Rows
<1>2. QED  BY <1>1, FreshRows DEF BuildRow

LEMMA SaysKeepsTypes ==
  ASSUME ThirdPartyTypeOK, NEW p \in Platforms, NEW points \in Nat, Says(p, points)
  PROVE  said' \subseteq Platforms \X Nat \X Nat /\ saidZero' \subseteq Platforms
<1>1. said \subseteq Platforms \X Nat \X Nat /\ saidZero \subseteq Platforms /\ hour \in Nat
  BY DEF ThirdPartyTypeOK
<1>2. CASE points = 0 \/ p \in saidZero
  BY <1>1, <1>2 DEF Says
<1>3. CASE ~(points = 0 \/ p \in saidZero)
  BY <1>1, <1>3 DEF Says
<1>4. QED  BY <1>2, <1>3

LEMMA AnswersAre == ASSUME ThirdPartyTypeOK, NEW p \in Platforms PROVE Answers(p) \subseteq Nat
BY DEF Answers, ThirdPartyTypeOK

\* What becomes of a viewer that is done with a platform.
LEMMA DoneIs ==
  ASSUME ThirdPartyTypeOK, NEW h \in Viewers, NEW p \in Platforms, Done(h, p)
  PROVE  /\ viewer' \in [Viewers -> Viewer]
         /\ \A g \in Viewers, q \in Platforms :
              viewer'[g].at[q] # "done" => /\ viewer'[g].at[q] = viewer[g].at[q]
                                           /\ viewer'[g].fetched[q] = viewer[g].fetched[q]
<1> DEFINE v == [cached |-> [viewer[h].cached EXCEPT ![p] = NoRow],
                 at |-> [viewer[h].at EXCEPT ![p] = "done"],
                 fetched |-> [viewer[h].fetched EXCEPT ![p] = 0]]
<1>1. v \in Viewer
  BY ViewerIs DEF Viewer, Rows
<1>2. /\ v.at = [viewer[h].at EXCEPT ![p] = "done"]
      /\ v.fetched = [viewer[h].fetched EXCEPT ![p] = 0]
  OBVIOUS
<1>3. viewer' = [viewer EXCEPT ![h] = v]
  BY DEF Done
<1> HIDE DEF v
<1>4. /\ viewer' \in [Viewers -> Viewer] /\ viewer'[h] = v
      /\ \A g \in Viewers \ {h} : viewer'[g] = viewer[g]
  BY <1>1, <1>3, ViewerBecomes
<1>5. \A q \in Platforms :
        v.at[q] # "done" => v.at[q] = viewer[h].at[q] /\ v.fetched[q] = viewer[h].fetched[q]
  BY <1>2, ViewerIs
<1>6. QED  BY <1>4, <1>5

\* The step of a viewer that has an answer.
Answered(h, p, points) ==
  viewer' = [viewer EXCEPT ![h] =
    [cached |-> viewer[h].cached,
     at |-> [viewer[h].at EXCEPT ![p] = "set"],
     fetched |-> [viewer[h].fetched EXCEPT ![p] = points]]]

\* What becomes of him.
LEMMA AnsweredIs ==
  ASSUME ThirdPartyTypeOK, NEW h \in Viewers, NEW p \in Platforms, NEW points \in Nat,
         Answered(h, p, points)
  PROVE  /\ viewer' \in [Viewers -> Viewer]
         /\ viewer'[h].at[p] = "set" /\ viewer'[h].fetched[p] = points
         /\ \A g \in Viewers, q \in Platforms : g # h \/ q # p =>
              /\ viewer'[g].at[q] = viewer[g].at[q]
              /\ viewer'[g].fetched[q] = viewer[g].fetched[q]
<1> DEFINE v == [cached |-> viewer[h].cached,
                 at |-> [viewer[h].at EXCEPT ![p] = "set"],
                 fetched |-> [viewer[h].fetched EXCEPT ![p] = points]]
<1>1. v \in Viewer
  BY ViewerIs DEF Viewer
<1>2. /\ v.at = [viewer[h].at EXCEPT ![p] = "set"]
      /\ v.fetched = [viewer[h].fetched EXCEPT ![p] = points]
  OBVIOUS
<1> HIDE DEF v
<1>3. /\ viewer' \in [Viewers -> Viewer] /\ viewer'[h] = v
      /\ \A g \in Viewers \ {h} : viewer'[g] = viewer[g]
  BY <1>1, ViewerBecomes DEF v, Answered
<1>4. /\ v.at[p] = "set" /\ v.fetched[p] = points
      /\ \A q \in Platforms \ {p} : /\ v.at[q] = viewer[h].at[q]
                                    /\ v.fetched[q] = viewer[h].fetched[q]
  BY <1>2, ViewerIs
<1>5. QED  BY <1>3, <1>4

\* What an attempt makes of the job: nothing but the answer of the platform.
LEMMA FetchIs ==
  ASSUME ThirdPartyTypeInv, NEW p \in Platforms, FetchWithRetries(p)
  PROVE  /\ collector' \in Collector
         /\ collector'.pc = "fetch" /\ collector'.cached = collector.cached
         /\ \A q \in Platforms \ {p} : /\ collector'.answer[q] = collector.answer[q]
                                       /\ collector'.attempt[q] = collector.attempt[q]
         /\ \/ /\ UNCHANGED <<said, saidZero>>
               /\ collector'.answer[p] \in {Waiting, Failed}
               /\ collector'.answer[p] = Waiting =>
                    /\ collector'.attempt[p] < MaxAttempts
                    /\ collector'.attempt[p] = collector.attempt[p] + 1
            \/ \E points \in Answers(p) : /\ Says(p, points)
                                          /\ collector'.answer[p] = points
<1> DEFINE attempt == collector.attempt[p] + 1
           answer == IF attempt >= MaxAttempts THEN Failed ELSE Waiting
<1>1. /\ attempt \in 0 .. MaxAttempts /\ attempt \in Nat /\ MaxAttempts \in Nat
      /\ answer = Waiting => attempt < MaxAttempts
  BY CollectorIs, ThirdPartyAssumption DEF FetchWithRetries, ThirdPartyTypeInv
<1>2. collector.pc = "fetch"
  BY DEF FetchWithRetries
<1>3. answer \in {Waiting, Failed}
  OBVIOUS
<1> HIDE DEF attempt
<1>4. CASE /\ collector' = [collector EXCEPT !.attempt = [collector.attempt EXCEPT ![p] = attempt],
                                            !.answer = [collector.answer EXCEPT ![p] = answer]]
           /\ UNCHANGED <<said, saidZero>>
  <2> DEFINE attempts == [collector.attempt EXCEPT ![p] = attempt]
             answers == [collector.answer EXCEPT ![p] = answer]
  <2>1. attempts \in [Platforms -> 0 .. MaxAttempts] /\ attempts[p] = attempt
        /\ \A q \in Platforms \ {p} : attempts[q] = collector.attempt[q]
    BY <1>1, CollectorIs DEF ThirdPartyTypeInv
  <2>2. answers \in [Platforms -> Nat \cup {Waiting, Failed}] /\ answers[p] = answer
        /\ \A q \in Platforms \ {p} : answers[q] = collector.answer[q]
    BY <1>3, CollectorIs DEF ThirdPartyTypeInv
  <2>3. collector' = [collector EXCEPT !.attempt = attempts, !.answer = answers]
    BY <1>4
  <2> HIDE DEF attempts, answers
  <2>4. /\ collector' \in Collector /\ collector'.pc = "fetch"
        /\ collector'.cached = collector.cached
        /\ collector'.attempt = attempts /\ collector'.answer = answers
    BY <1>2, <2>1, <2>2, <2>3, CollectorIs DEF ThirdPartyTypeInv, Collector
  <2>5. collector'.answer[p] \in {Waiting, Failed}
    BY <1>3, <2>2, <2>4
  <2>6. /\ collector'.attempt[p] = attempt
        /\ collector'.answer[p] = Waiting => collector'.attempt[p] < MaxAttempts
    BY <1>1, <2>1, <2>2, <2>4
  <2>7. QED  BY <1>4, <2>1, <2>2, <2>4, <2>5, <2>6 DEF attempt
<1>5. ASSUME NEW points \in Answers(p), Says(p, points),
             collector' = [collector EXCEPT !.answer = [collector.answer EXCEPT ![p] = points]]
      PROVE  /\ collector' \in Collector
             /\ collector'.pc = "fetch" /\ collector'.cached = collector.cached
             /\ \A q \in Platforms \ {p} : /\ collector'.answer[q] = collector.answer[q]
                                           /\ collector'.attempt[q] = collector.attempt[q]
             /\ collector'.answer[p] = points
  <2> DEFINE answers == [collector.answer EXCEPT ![p] = points]
  <2>1. points \in Nat
    BY AnswersAre DEF ThirdPartyTypeInv
  <2>2. answers \in [Platforms -> Nat \cup {Waiting, Failed}] /\ answers[p] = points
        /\ \A q \in Platforms \ {p} : answers[q] = collector.answer[q]
    BY <2>1, CollectorIs DEF ThirdPartyTypeInv
  <2>3. collector' = [collector EXCEPT !.answer = answers]
    BY <1>5
  <2> HIDE DEF answers
  <2>4. /\ collector' \in Collector /\ collector'.pc = "fetch"
        /\ collector'.cached = collector.cached
        /\ collector'.attempt = collector.attempt /\ collector'.answer = answers
    BY <1>2, <2>2, <2>3, CollectorIs DEF ThirdPartyTypeInv, Collector
  <2>5. QED  BY <2>2, <2>4
<1>6. QED  BY <1>4, <1>5 DEF FetchWithRetries, attempt

\* What the job holds once it has built its rows.
LEMMA BuildIs ==
  ASSUME ThirdPartyTypeOK, BuildPointsDbData
  PROVE  /\ collector' \in Collector /\ collector'.pc = "set"
         /\ \A p \in Platforms : /\ collector'.rows[p] = BuildRow(p)
                                /\ collector.answer[p] # Waiting
<1> DEFINE rows == [p \in Platforms |-> BuildRow(p)]
<1>1. /\ \A p \in Platforms : collector.answer[p] # Waiting
      /\ collector' = [IdleCollector EXCEPT !.pc = "set", !.rows = rows]
  BY DEF BuildPointsDbData
<1>2. rows \in Rows /\ \A p \in Platforms : rows[p] = BuildRow(p)
  BY <1>1, BuiltRows DEF Rows
<1> HIDE DEF rows
<1>3. collector' \in Collector /\ collector'.pc = "set" /\ collector'.rows = rows
  BY <1>1, <1>2, Rowless DEF Collector, IdleCollector
<1>4. QED  BY <1>1, <1>2, <1>3

LEMMA ThirdPartyTypeStep ==
  ThirdPartyTypeInv /\ [ThirdPartyNext]_thirdPartyVars => ThirdPartyTypeInv'
<1> SUFFICES ASSUME ThirdPartyTypeInv, [ThirdPartyNext]_thirdPartyVars
             PROVE  ThirdPartyTypeInv'
  OBVIOUS
<1> USE DEF ThirdPartyTypeInv
<1>1. CASE Earn
  BY <1>1 DEF Earn, ThirdPartyTypeOK
<1>2. CASE HourPasses
  BY <1>2 DEF HourPasses, ThirdPartyTypeOK
<1>3. ASSUME NEW h \in Viewers, GetCachedThirdPartyPoints(h)
      PROVE  ThirdPartyTypeInv'
  <2> DEFINE due == {p \in Platforms : \/ entry[p] = NoRow
                                       \/ entry[p] # NoRow /\ hour > entry[p].staleAt
                                       \/ p \in AlwaysAsked}
             v == [cached |-> [p \in Platforms |-> IF p \in due THEN entry[p] ELSE NoRow],
                   at |-> [p \in Platforms |-> IF p \in due THEN "fetch" ELSE "done"],
                   fetched |-> [p \in Platforms |-> 0]]
  <2> HIDE DEF due
  <2>1. v \in Viewer
    BY DEF Viewer, Rows, ThirdPartyTypeOK
  <2>2. viewer' = [viewer EXCEPT ![h] = v]
    BY <1>3 DEF GetCachedThirdPartyPoints, due
  <2>3. viewer' \in [Viewers -> Viewer]
    BY <2>1, <2>2 DEF ThirdPartyTypeOK
  <2>4. UNCHANGED <<hour, earned, entry, collector, said, saidZero, held>>
    BY <1>3 DEF GetCachedThirdPartyPoints
  <2>5. QED  BY <2>3, <2>4 DEF ThirdPartyTypeOK
<1>4. ASSUME NEW h \in Viewers, NEW p \in Platforms, HydrateFetch(h, p)
      PROVE  ThirdPartyTypeInv'
  <2>1. UNCHANGED <<hour, earned, entry, collector, held>>
    BY <1>4 DEF HydrateFetch
  <2>2. CASE Done(h, p) /\ UNCHANGED <<said, saidZero>>
    BY <2>1, <2>2, DoneIs DEF ThirdPartyTypeOK
  <2>3. ASSUME NEW points \in Answers(p), Says(p, points), Answered(h, p, points)
        PROVE  ThirdPartyTypeInv'
    <3>1. points \in Nat
      BY AnswersAre
    <3>2. viewer' \in [Viewers -> Viewer]
      BY <2>3, <3>1, AnsweredIs
    <3>3. said' \subseteq Platforms \X Nat \X Nat /\ saidZero' \subseteq Platforms
      BY <2>3, <3>1, SaysKeepsTypes
    <3>4. QED  BY <2>1, <3>2, <3>3 DEF ThirdPartyTypeOK
  <2>4. QED  BY <1>4, <2>2, <2>3 DEF HydrateFetch, Answered
<1>5. ASSUME NEW h \in Viewers, NEW p \in Platforms, SetThirdPartyPoints(h, p)
      PROVE  ThirdPartyTypeInv'
  <2>1. Fresh(NewPoints(h, p)) \in Row
    BY ViewerIs, CachedPointsAre, FreshRows DEF NewPoints
  <2>2. entry' \in Rows /\ held' \subseteq Platforms
    BY <1>5, <2>1 DEF SetThirdPartyPoints, ThirdPartyTypeOK, Rows
  <2>3. viewer' \in [Viewers -> Viewer]
    BY <1>5, DoneIs DEF SetThirdPartyPoints
  <2>4. UNCHANGED <<hour, earned, collector, said, saidZero>>
    BY <1>5 DEF SetThirdPartyPoints
  <2>5. QED  BY <2>2, <2>3, <2>4 DEF ThirdPartyTypeOK
<1>6. CASE GetThirdPartyPointsBulk
  <2>1. /\ collector' \in Collector
        /\ \A p \in Platforms : collector'.attempt[p] = 0
    BY <1>6, Rowless DEF GetThirdPartyPointsBulk, IdleCollector, Collector, ThirdPartyTypeOK
  <2>2. \A p \in Platforms : collector'.attempt[p] < MaxAttempts
    BY <2>1, ThirdPartyAssumption
  <2>3. UNCHANGED <<hour, earned, entry, viewer, said, saidZero, held>>
    BY <1>6 DEF GetThirdPartyPointsBulk
  <2>4. QED  BY <2>1, <2>2, <2>3 DEF ThirdPartyTypeOK
<1>7. ASSUME NEW p \in Platforms, FetchWithRetries(p)
      PROVE  ThirdPartyTypeInv'
  <2>1. UNCHANGED <<hour, earned, entry, viewer, held>>
    BY <1>7 DEF FetchWithRetries
  <2>2. /\ collector' \in Collector
        /\ \A q \in Platforms \ {p} : /\ collector'.answer[q] = collector.answer[q]
                                      /\ collector'.attempt[q] = collector.attempt[q]
        /\ \A q \in Platforms : collector.answer[q] = Waiting =>
             collector.attempt[q] < MaxAttempts
    BY <1>7, FetchIs DEF FetchWithRetries
  <2>3. CASE /\ UNCHANGED <<said, saidZero>>
             /\ collector'.answer[p] = Waiting => collector'.attempt[p] < MaxAttempts
    BY <2>1, <2>2, <2>3 DEF ThirdPartyTypeOK
  <2>4. ASSUME NEW points \in Answers(p), Says(p, points), collector'.answer[p] = points
        PROVE  ThirdPartyTypeInv'
    <3>1. points \in Nat /\ points # Waiting
      BY AnswersAre, ThirdPartyAssumption
    <3>2. said' \subseteq Platforms \X Nat \X Nat /\ saidZero' \subseteq Platforms
      BY <2>4, <3>1, SaysKeepsTypes
    <3>3. QED  BY <2>1, <2>2, <2>4, <3>1, <3>2 DEF ThirdPartyTypeOK
  <2>5. QED  BY <1>7, <2>3, <2>4, FetchIs
<1>8. CASE BuildPointsDbData
  <2>1. held' \subseteq Platforms
    BY <1>8 DEF BuildPointsDbData, ThirdPartyTypeOK
  <2>2. UNCHANGED <<hour, earned, entry, viewer, said, saidZero>>
    BY <1>8 DEF BuildPointsDbData
  <2>3. QED  BY <1>8, <2>1, <2>2, BuildIs DEF ThirdPartyTypeOK
<1>9. CASE SetThirdPartyPointsBulk \/ LoseCollector
  <2>1. entry' \in Rows /\ collector' = IdleCollector
    BY <1>9, CollectorIs DEF SetThirdPartyPointsBulk, LoseCollector, ThirdPartyTypeOK
  <2>2. UNCHANGED <<hour, earned, viewer, said, saidZero, held>>
    BY <1>9 DEF SetThirdPartyPointsBulk, LoseCollector
  <2>3. QED  BY <2>1, <2>2, Rowless DEF ThirdPartyTypeOK
<1>10. CASE UNCHANGED thirdPartyVars
  BY <1>10 DEF thirdPartyVars, ThirdPartyTypeOK
<1>11. QED
  BY <1>1, <1>2, <1>3, <1>4, <1>5, <1>6, <1>7, <1>8, <1>9, <1>10 DEF ThirdPartyNext, Collect

\* The job never attempts more than it may, and rows hold points, never the
\* null of a platform that has failed.
THEOREM ThirdPartyTypeCorrect == ThirdPartySpec => []ThirdPartyTypeOK
<1>1. ThirdPartySpec => []ThirdPartyTypeInv
  BY ThirdPartyTypeInit, ThirdPartyTypeStep, PTL DEF ThirdPartySpec
<1>2. ThirdPartyTypeInv => ThirdPartyTypeOK
  BY DEF ThirdPartyTypeInv
<1>3. QED  BY <1>1, <1>2, PTL

----------------------------------------------------------------------------
(* Points survive.                                                         *)

\* Rows on their way to the table are as good as those in it.
SurvivalInv ==
  /\ PointsSurvive
  /\ collector.pc = "set" =>
       \A p \in Platforms : collector.rows[p] # NoRow /\ p \notin held =>
         collector.rows[p].points > 0

LEMMA SurvivalStep ==
  ThirdPartyTypeInv /\ SurvivalInv /\ [ThirdPartyNext]_thirdPartyVars => SurvivalInv'
<1> SUFFICES ASSUME ThirdPartyTypeInv, SurvivalInv, [ThirdPartyNext]_thirdPartyVars
             PROVE  SurvivalInv'
  OBVIOUS
<1>1. ThirdPartyTypeOK
  BY DEF ThirdPartyTypeInv
<1>2. CASE UNCHANGED <<entry, collector, held>>
  BY <1>2 DEF SurvivalInv, PointsSurvive
<1>3. ASSUME NEW h \in Viewers, NEW p \in Platforms, SetThirdPartyPoints(h, p)
      PROVE  SurvivalInv'
  <2> DEFINE points == NewPoints(h, p)
  <2>1. UNCHANGED collector /\ held \subseteq held'
    BY <1>3 DEF SetThirdPartyPoints
  <2>2. CASE UNCHANGED entry
    BY <2>1, <2>2 DEF SurvivalInv, PointsSurvive
  <2>3. CASE /\ entry' = [entry EXCEPT ![p] = Fresh(points)]
             /\ held' = IF CachedPoints(viewer[h].cached, p) = 0 /\ viewer[h].fetched[p] = 0
                        THEN held \cup {p} ELSE held
    <3>1. points \in Nat /\ (points = 0 => p \in held')
      BY <1>1, <2>3, ViewerIs, CachedPointsAre DEF NewPoints
    <3>2. Fresh(points).points = points
      BY <1>1, <3>1, FreshRows
    <3> HIDE DEF points
    <3>3. /\ entry'[p] = Fresh(points)
          /\ \A q \in Platforms \ {p} : entry'[q] = entry[q]
      BY <1>1, <2>3 DEF ThirdPartyTypeOK, Rows
    <3>4. \A q \in Platforms : entry'[q] # NoRow /\ q \notin held' => entry'[q].points > 0
      BY <2>1, <3>1, <3>2, <3>3 DEF SurvivalInv, PointsSurvive
    <3>5. QED  BY <2>1, <3>4 DEF SurvivalInv, PointsSurvive
  <2>4. QED  BY <1>3, <2>2, <2>3 DEF SetThirdPartyPoints
<1>4. CASE BuildPointsDbData
  <2>1. UNCHANGED entry
    BY <1>4 DEF BuildPointsDbData
  <2>2. held' = held \cup {p \in Platforms : \/ collector.answer[p] = 0
                                          \/ /\ collector.answer[p] = Failed
                                             /\ CachedPoints(collector.cached, p) = 0}
    BY <1>4 DEF BuildPointsDbData
  <2>3. ASSUME NEW p \in Platforms, p \notin held'
        PROVE  collector'.rows[p].points > 0
    <3>1. collector'.rows[p] = BuildRow(p) /\ collector.answer[p] \in Nat \cup {Failed}
      BY <1>1, <1>4, BuildIs, CollectorIs
    <3>2. CASE collector.answer[p] # Failed
      BY <1>1, <2>2, <2>3, <3>1, <3>2, FreshRows DEF BuildRow
    <3>3. CASE collector.answer[p] = Failed
      <4>1. /\ CachedPoints(collector.cached, p) # 0
            /\ CachedPoints(collector.cached, p) \in Nat
        BY <1>1, <2>2, <2>3, <3>3, CachedPointsAre, CollectorIs
      <4>2. collector.cached[p] # NoRow /\ collector.cached[p].points > 0
        BY <4>1 DEF CachedPoints
      <4>3. QED  BY <3>1, <3>3, <4>2 DEF BuildRow
    <3>4. QED  BY <3>2, <3>3
  <2>4. QED  BY <2>1, <2>2, <2>3 DEF SurvivalInv, PointsSurvive
<1>5. CASE SetThirdPartyPointsBulk
  BY <1>5, Rowless DEF SetThirdPartyPointsBulk, SurvivalInv, PointsSurvive
<1>6. CASE LoseCollector
  BY <1>6, Rowless DEF LoseCollector, SurvivalInv, PointsSurvive
<1>7. CASE GetThirdPartyPointsBulk
  <2>1. collector'.pc = "fetch"
    BY <1>7 DEF GetThirdPartyPointsBulk, IdleCollector
  <2>2. UNCHANGED <<entry, held>>
    BY <1>7 DEF GetThirdPartyPointsBulk
  <2>3. QED  BY <2>1, <2>2 DEF SurvivalInv, PointsSurvive
<1>8. ASSUME NEW p \in Platforms, FetchWithRetries(p)
      PROVE  SurvivalInv'
  <2>1. UNCHANGED <<entry, held>>
    BY <1>8 DEF FetchWithRetries
  <2>2. collector'.pc = "fetch"
    BY <1>8, FetchIs
  <2>3. QED  BY <2>1, <2>2 DEF SurvivalInv, PointsSurvive
<1>9. QED
  BY <1>2, <1>3, <1>4, <1>5, <1>6, <1>7, <1>8
     DEF ThirdPartyNext, Collect, Earn, HourPasses, GetCachedThirdPartyPoints, HydrateFetch,
         thirdPartyVars

\* A row has no points only if its platform has said so to the job, or has said
\* so or nothing to somebody who knew of none.
THEOREM PointsAlwaysSurvive == ThirdPartySpec => []PointsSurvive
<1>1. ThirdPartyInit => SurvivalInv
  BY Rowless DEF ThirdPartyInit, SurvivalInv, PointsSurvive
<1>2. ThirdPartySpec => [](ThirdPartyTypeInv /\ SurvivalInv)
  BY <1>1, ThirdPartyTypeInit, ThirdPartyTypeStep, SurvivalStep, PTL DEF ThirdPartySpec
<1>3. SurvivalInv => PointsSurvive
  BY DEF SurvivalInv
<1>4. QED  BY <1>2, <1>3, PTL

----------------------------------------------------------------------------
(* Fresh points were said.                                                 *)

\* FreshWasSaid of one row r of platform p, in hour h, if the platforms have
\* said s, and those of z have said 0.
RowSaid(p, r, h, s, z) ==
  r # NoRow /\ p \notin z =>
    r.points = 0 \/ \E t \in 0 .. h : t + 1 >= r.staleAt /\ <<p, r.points, t>> \in s

\* An answer that is not used yet is one of this hour.
JustSaid(p, points) == p \notin saidZero => points # 0 /\ <<p, points, hour>> \in said

FreshInv ==
  /\ \A p \in Platforms : RowSaid(p, entry[p], hour, said, saidZero)
  /\ \A h \in Viewers, p \in Platforms :
       viewer[h].at[p] = "set" => JustSaid(p, viewer[h].fetched[p])
  /\ \A p \in Platforms :
       /\ collector.pc = "fetch" =>
            /\ RowSaid(p, collector.cached[p], hour, said, saidZero)
            /\ collector.answer[p] \in Nat => JustSaid(p, collector.answer[p])
       /\ collector.pc = "set" => RowSaid(p, collector.rows[p], hour, said, saidZero)

\* What was said may be forgotten only if it is said again, or if 0 is said.
SaidMore ==
  /\ hour' >= hour /\ hour' \in Nat /\ saidZero \subseteq saidZero'
  /\ \A p \in Platforms, n \in Nat, t \in 0 .. hour : p \notin saidZero' /\ <<p, n, t>> \in said =>
       \E u \in 0 .. hour' : u >= t /\ <<p, n, u>> \in said'

LEMMA SaysMore ==
  ASSUME ThirdPartyTypeOK, NEW p \in Platforms, NEW points \in Nat, Says(p, points),
         UNCHANGED hour
  PROVE  SaidMore /\ (p \notin saidZero' => points # 0 /\ <<p, points, hour>> \in said')
<1>1. hour \in Nat /\ said \subseteq Platforms \X Nat \X Nat /\ hour' \in Nat /\ hour \in 0 .. hour
  BY DEF ThirdPartyTypeOK
<1>2. CASE points = 0 \/ p \in saidZero
  <2>1. saidZero' = saidZero \cup {p} /\ said' = {s \in said : s[1] # p}
    BY <1>2 DEF Says
  <2>2. \A q \in Platforms, n \in Nat, t \in 0 .. hour : q \notin saidZero' /\ <<q, n, t>> \in said =>
          <<q, n, t>> \in said'
    BY <2>1
  <2>3. QED  BY <1>1, <2>1, <2>2 DEF SaidMore
<1>3. CASE ~(points = 0 \/ p \in saidZero)
  <2>1. /\ said' = {s \in said : s[1] # p \/ s[2] # points} \cup {<<p, points, hour>>}
        /\ UNCHANGED saidZero
    BY <1>3 DEF Says
  <2>2. ASSUME NEW q \in Platforms, NEW n \in Nat, NEW t \in 0 .. hour, <<q, n, t>> \in said
        PROVE  \E u \in 0 .. hour' : u >= t /\ <<q, n, u>> \in said'
    <3>1. CASE q = p /\ n = points
      <4>1. <<q, n, hour>> \in said' /\ hour >= t /\ hour \in 0 .. hour'
        BY <1>1, <2>1, <3>1
      <4>2. QED  BY <4>1
    <3>2. CASE ~(q = p /\ n = points)
      <4>1. <<q, n, t>> \in said' /\ t >= t /\ t \in 0 .. hour'
        BY <1>1, <2>1, <2>2, <3>2
      <4>2. QED  BY <4>1
    <3>3. QED  BY <3>1, <3>2
  <2>3. QED  BY <1>1, <1>3, <2>1, <2>2 DEF SaidMore
<1>4. QED  BY <1>2, <1>3

\* A row that was said stays so.
LEMMA RowsStaySaid ==
  ASSUME SaidMore, NEW p \in Platforms, NEW r \in Row \cup {NoRow},
         RowSaid(p, r, hour, said, saidZero)
  PROVE  RowSaid(p, r, hour', said', saidZero')
<1> SUFFICES ASSUME r # NoRow, p \notin saidZero', r.points # 0
             PROVE  \E t \in 0 .. hour' : t + 1 >= r.staleAt /\ <<p, r.points, t>> \in said'
  BY DEF RowSaid
<1>1. r.points \in Nat /\ r.staleAt \in Nat
  BY DEF Row
<1>2. PICK t \in 0 .. hour : t + 1 >= r.staleAt /\ <<p, r.points, t>> \in said
  BY DEF RowSaid, SaidMore
<1>3. PICK u \in 0 .. hour' : u >= t /\ <<p, r.points, u>> \in said'
  BY <1>1, <1>2 DEF SaidMore
<1>4. QED  BY <1>1, <1>2, <1>3

\* What was said just now stays so within the hour.
LEMMA JustSaidStays ==
  ASSUME ThirdPartyTypeOK, SaidMore, UNCHANGED hour, NEW p \in Platforms, NEW points \in Nat,
         JustSaid(p, points)
  PROVE  p \notin saidZero' => points # 0 /\ <<p, points, hour'>> \in said'
<1> SUFFICES ASSUME p \notin saidZero'
             PROVE  points # 0 /\ <<p, points, hour>> \in said'
  OBVIOUS
<1>1. hour \in Nat /\ hour \in 0 .. hour
  BY DEF ThirdPartyTypeOK
<1>2. points # 0 /\ <<p, points, hour>> \in said
  BY DEF JustSaid, SaidMore
<1>3. PICK u \in 0 .. hour : u >= hour /\ <<p, points, u>> \in said'
  BY <1>1, <1>2 DEF SaidMore
<1>4. u = hour
  BY <1>1, <1>3
<1>5. QED  BY <1>2, <1>3, <1>4

LEMMA SameSaid ==
  ASSUME ThirdPartyTypeOK, UNCHANGED <<said, saidZero>>, hour' \in Nat, hour' >= hour
  PROVE  SaidMore
<1>1. hour \in Nat
  BY DEF ThirdPartyTypeOK
<1>2. ASSUME NEW t \in 0 .. hour PROVE t \in 0 .. hour' /\ t >= t
  BY <1>1
<1>3. QED  BY <1>1, <1>2 DEF SaidMore

\* The row that the job builds was said.
LEMMA BuiltRowSaid ==
  ASSUME ThirdPartyTypeOK, FreshInv, NEW p \in Platforms, collector.pc = "fetch",
         collector.answer[p] # Waiting
  PROVE  RowSaid(p, BuildRow(p), hour, said, saidZero)
<1>1. collector.answer[p] \in Nat \cup {Failed} /\ hour \in Nat
  BY CollectorIs DEF ThirdPartyTypeOK
<1>2. CASE collector.answer[p] # Failed
  <2> DEFINE n == collector.answer[p]
  <2>1. n \in Nat /\ JustSaid(p, n)
    BY <1>1, <1>2 DEF FreshInv
  <2>2. BuildRow(p) = Fresh(n)
    BY <1>2 DEF BuildRow
  <2> HIDE DEF n
  <2>3. Fresh(n).points = n /\ Fresh(n).staleAt = hour + 1
    BY <2>1, FreshRows
  <2>4. hour \in 0 .. hour /\ hour + 1 >= hour + 1
    BY <1>1
  <2>5. RowSaid(p, Fresh(n), hour, said, saidZero)
    BY <2>1, <2>3, <2>4 DEF RowSaid, JustSaid
  <2>6. QED  BY <2>2, <2>5
<1>3. CASE collector.answer[p] = Failed /\ collector.cached[p] = NoRow
  <2>1. BuildRow(p) = Fresh(0)
    BY <1>3 DEF BuildRow
  <2>2. Fresh(0).points = 0
    BY FreshRows
  <2>3. QED  BY <2>1, <2>2 DEF RowSaid
<1>4. CASE collector.answer[p] = Failed /\ collector.cached[p] # NoRow
  BY <1>4 DEF BuildRow, FreshInv
<1>5. QED  BY <1>2, <1>3, <1>4

LEMMA FreshStep ==
  ThirdPartyTypeInv /\ FreshInv /\ [ThirdPartyNext]_thirdPartyVars => FreshInv'
<1> SUFFICES ASSUME ThirdPartyTypeInv, FreshInv, [ThirdPartyNext]_thirdPartyVars
             PROVE  FreshInv'
  OBVIOUS
<1>1. ThirdPartyTypeOK /\ hour \in Nat
  BY DEF ThirdPartyTypeInv, ThirdPartyTypeOK
<1>2. \A p \in Platforms : /\ entry[p] \in Row \cup {NoRow}
                           /\ collector.cached[p] \in Row \cup {NoRow}
                           /\ collector.rows[p] \in Row \cup {NoRow}
  BY <1>1, CollectorIs DEF ThirdPartyTypeOK, Rows
<1>3. ASSUME SaidMore
      PROVE  \A p \in Platforms :
               /\ RowSaid(p, entry[p], hour', said', saidZero')
               /\ collector.pc = "fetch" =>
                    RowSaid(p, collector.cached[p], hour', said', saidZero')
               /\ collector.pc = "set" =>
                    RowSaid(p, collector.rows[p], hour', said', saidZero')
  BY <1>2, <1>3, RowsStaySaid DEF FreshInv
<1>4. ASSUME SaidMore, UNCHANGED hour
      PROVE  /\ \A h \in Viewers, p \in Platforms : viewer[h].at[p] = "set" =>
                  (p \notin saidZero' => /\ viewer[h].fetched[p] # 0
                                        /\ <<p, viewer[h].fetched[p], hour'>> \in said')
             /\ \A p \in Platforms : collector.pc = "fetch" /\ collector.answer[p] \in Nat =>
                  (p \notin saidZero' => /\ collector.answer[p] # 0
                                        /\ <<p, collector.answer[p], hour'>> \in said')
  <2>1. \A h \in Viewers, p \in Platforms : viewer[h].fetched[p] \in Nat
    BY <1>1, ViewerIs
  <2>2. \A h \in Viewers, p \in Platforms : viewer[h].at[p] = "set" => JustSaid(p, viewer[h].fetched[p])
    BY DEF FreshInv
  <2>3. \A p \in Platforms : collector.pc = "fetch" /\ collector.answer[p] \in Nat =>
          JustSaid(p, collector.answer[p])
    BY DEF FreshInv
  <2>4. QED  BY <1>1, <1>4, <2>1, <2>2, <2>3, JustSaidStays
<1>5. CASE Earn
  BY <1>5 DEF Earn, FreshInv, JustSaid
<1>6. CASE HourPasses
  <2>1. /\ hour' = hour + 1 /\ UNCHANGED <<entry, viewer, collector, said, saidZero>>
        /\ \A h \in Viewers, p \in Platforms : viewer[h].at[p] # "set"
        /\ collector.pc = "fetch" => \A p \in Platforms : collector.answer[p] = Waiting
    BY <1>6 DEF HourPasses
  <2>2. SaidMore
    BY <1>1, <2>1, SameSaid
  <2>3. Waiting \notin Nat
    BY ThirdPartyAssumption
  <2>4. QED  BY <1>3, <2>1, <2>2, <2>3 DEF FreshInv
<1>7. ASSUME NEW h \in Viewers, GetCachedThirdPartyPoints(h)
      PROVE  FreshInv'
  <2>1. UNCHANGED <<hour, entry, collector, said, saidZero>>
    BY <1>7 DEF GetCachedThirdPartyPoints
  <2> DEFINE due == {p \in Platforms : \/ entry[p] = NoRow
                                       \/ entry[p] # NoRow /\ hour > entry[p].staleAt
                                       \/ p \in AlwaysAsked}
             v == [cached |-> [p \in Platforms |-> IF p \in due THEN entry[p] ELSE NoRow],
                   at |-> [p \in Platforms |-> IF p \in due THEN "fetch" ELSE "done"],
                   fetched |-> [p \in Platforms |-> 0]]
  <2>2. viewer' = [viewer EXCEPT ![h] = v]
    BY <1>7 DEF GetCachedThirdPartyPoints
  <2> HIDE DEF due
  <2>3. \A p \in Platforms : v.at[p] # "set"
    OBVIOUS
  <2> HIDE DEF v
  <2>4. \A g \in Viewers, p \in Platforms :
          viewer'[g].at[p] = "set" => viewer'[g] = viewer[g]
    BY <1>1, <2>2, <2>3 DEF ThirdPartyTypeOK
  <2>5. QED  BY <2>1, <2>4 DEF FreshInv, JustSaid
<1>8. ASSUME NEW h \in Viewers, NEW p \in Platforms, HydrateFetch(h, p)
      PROVE  FreshInv'
  <2>1. UNCHANGED <<hour, entry, collector>>
    BY <1>8 DEF HydrateFetch
  <2>2. CASE Done(h, p) /\ UNCHANGED <<said, saidZero>>
    <3>1. \A g \in Viewers, q \in Platforms : viewer'[g].at[q] = "set" =>
            viewer[g].at[q] = "set" /\ viewer'[g].fetched[q] = viewer[g].fetched[q]
      BY <1>1, <2>2, DoneIs
    <3>2. QED  BY <2>1, <2>2, <3>1 DEF FreshInv, JustSaid
  <2>3. ASSUME NEW points \in Answers(p), Says(p, points), Answered(h, p, points)
        PROVE  FreshInv'
    <3>1. points \in Nat
      BY <1>1, AnswersAre
    <3>2. SaidMore /\ (p \notin saidZero' => points # 0 /\ <<p, points, hour>> \in said')
      BY <1>1, <2>1, <2>3, <3>1, SaysMore
    <3>3. /\ viewer'[h].at[p] = "set" /\ viewer'[h].fetched[p] = points
          /\ \A g \in Viewers, q \in Platforms : g # h \/ q # p =>
               /\ viewer'[g].at[q] = viewer[g].at[q]
               /\ viewer'[g].fetched[q] = viewer[g].fetched[q]
      BY <1>1, <2>3, <3>1, AnsweredIs
    <3>4. ASSUME NEW g \in Viewers, NEW q \in Platforms, viewer'[g].at[q] = "set",
                 q \notin saidZero'
          PROVE  /\ viewer'[g].fetched[q] # 0
                 /\ <<q, viewer'[g].fetched[q], hour'>> \in said'
      <4>1. CASE g = h /\ q = p
        BY <2>1, <3>2, <3>3, <3>4, <4>1
      <4>2. CASE ~(g = h /\ q = p)
        <5>1. /\ viewer'[g].at[q] = viewer[g].at[q]
              /\ viewer'[g].fetched[q] = viewer[g].fetched[q]
          BY <3>3, <4>2
        <5>2. QED  BY <1>4, <2>1, <3>2, <3>4, <5>1
      <4>3. QED  BY <4>1, <4>2
    <3>5. QED  BY <1>3, <1>4, <2>1, <3>2, <3>4 DEF FreshInv, JustSaid
  <2>4. QED  BY <1>8, <2>2, <2>3 DEF HydrateFetch, Answered
<1>9. ASSUME NEW h \in Viewers, NEW p \in Platforms, SetThirdPartyPoints(h, p)
      PROVE  FreshInv'
  <2>1. UNCHANGED <<hour, collector, said, saidZero>> /\ viewer[h].at[p] = "set"
    BY <1>9 DEF SetThirdPartyPoints
  <2>2. \A g \in Viewers, q \in Platforms : viewer'[g].at[q] = "set" =>
          viewer[g].at[q] = "set" /\ viewer'[g].fetched[q] = viewer[g].fetched[q]
    BY <1>1, <1>9, DoneIs DEF SetThirdPartyPoints
  <2> DEFINE n == NewPoints(h, p)
  <2>3. RowSaid(p, Fresh(n), hour, said, saidZero)
    <3>1. n \in Nat
      BY <1>1, ViewerIs, CachedPointsAre DEF NewPoints
    <3>2. JustSaid(p, viewer[h].fetched[p])
      BY <2>1 DEF FreshInv
    <3>3. p \notin saidZero => n # 0 /\ <<p, n, hour>> \in said
      BY <3>2 DEF JustSaid, NewPoints
    <3> HIDE DEF n
    <3>4. Fresh(n).points = n /\ Fresh(n).staleAt = hour + 1
      BY <1>1, <3>1, FreshRows
    <3>5. hour \in 0 .. hour /\ hour + 1 >= hour + 1
      BY <1>1
    <3>6. QED  BY <3>3, <3>4, <3>5 DEF RowSaid
  <2>4. UNCHANGED entry \/ entry' = [entry EXCEPT ![p] = Fresh(n)]
    BY <1>9 DEF SetThirdPartyPoints
  <2> HIDE DEF n
  <2>5. \A q \in Platforms : RowSaid(q, entry'[q], hour, said, saidZero)
    <3>1. CASE UNCHANGED entry
      BY <3>1 DEF FreshInv
    <3>2. CASE entry' = [entry EXCEPT ![p] = Fresh(n)]
      <4>1. entry'[p] = Fresh(n) /\ \A q \in Platforms \ {p} : entry'[q] = entry[q]
        BY <1>1, <3>2 DEF ThirdPartyTypeOK, Rows
      <4>2. QED  BY <2>3, <4>1 DEF FreshInv
    <3>3. QED  BY <2>4, <3>1, <3>2
  <2>6. QED  BY <2>1, <2>2, <2>5 DEF FreshInv, JustSaid
<1>10. CASE GetThirdPartyPointsBulk
  <2>1. UNCHANGED <<hour, entry, viewer, said, saidZero>>
    BY <1>10 DEF GetThirdPartyPointsBulk
  <2>2. /\ collector'.pc = "fetch" /\ collector'.cached = entry
        /\ \A p \in Platforms : collector'.answer[p] = Waiting
    BY <1>10 DEF GetThirdPartyPointsBulk, IdleCollector
  <2>3. Waiting \notin Nat
    BY ThirdPartyAssumption
  <2>4. QED  BY <2>1, <2>2, <2>3 DEF FreshInv, JustSaid
<1>11. ASSUME NEW p \in Platforms, FetchWithRetries(p)
       PROVE  FreshInv'
  <2>1. UNCHANGED <<hour, entry, viewer>> /\ collector.pc = "fetch"
    BY <1>11 DEF FetchWithRetries
  <2>2. /\ collector'.pc = "fetch" /\ collector'.cached = collector.cached
        /\ \A q \in Platforms \ {p} : collector'.answer[q] = collector.answer[q]
    BY <1>11, FetchIs
  <2>3. CASE UNCHANGED <<said, saidZero>> /\ collector'.answer[p] \in {Waiting, Failed}
    BY <2>1, <2>2, <2>3, ThirdPartyAssumption DEF FreshInv, JustSaid
  <2>4. ASSUME NEW points \in Answers(p), Says(p, points), collector'.answer[p] = points
        PROVE  FreshInv'
    <3>1. points \in Nat
      BY <1>1, AnswersAre
    <3>2. SaidMore /\ (p \notin saidZero' => points # 0 /\ <<p, points, hour>> \in said')
      BY <1>1, <2>1, <2>4, <3>1, SaysMore
    <3>3. QED  BY <1>3, <1>4, <2>1, <2>2, <2>4, <3>2 DEF FreshInv, JustSaid
  <2>5. QED  BY <1>11, <2>3, <2>4, FetchIs DEF ThirdPartyTypeInv
<1>12. CASE BuildPointsDbData
  <2>1. UNCHANGED <<hour, entry, viewer, said, saidZero>> /\ collector.pc = "fetch"
    BY <1>12 DEF BuildPointsDbData
  <2>2. /\ collector'.pc = "set"
        /\ \A p \in Platforms : /\ collector'.rows[p] = BuildRow(p)
                               /\ collector.answer[p] # Waiting
    BY <1>1, <1>12, BuildIs
  <2>3. \A p \in Platforms : RowSaid(p, collector'.rows[p], hour, said, saidZero)
    BY <1>1, <2>1, <2>2, BuiltRowSaid
  <2>4. QED  BY <2>1, <2>2, <2>3 DEF FreshInv, JustSaid
<1>13. CASE SetThirdPartyPointsBulk
  <2>1. /\ UNCHANGED <<hour, viewer, said, saidZero>> /\ collector'.pc = "idle"
        /\ collector.pc = "set" /\ (entry' = collector.rows \/ UNCHANGED entry)
    BY <1>13, Rowless DEF SetThirdPartyPointsBulk
  <2>2. QED  BY <2>1 DEF FreshInv, JustSaid
<1>14. CASE LoseCollector
  <2>1. UNCHANGED <<hour, entry, viewer, said, saidZero>> /\ collector'.pc = "idle"
    BY <1>14, Rowless DEF LoseCollector
  <2>2. QED  BY <2>1 DEF FreshInv, JustSaid
<1>15. CASE UNCHANGED thirdPartyVars
  BY <1>15 DEF thirdPartyVars, FreshInv, JustSaid
<1>16. QED
  BY <1>5, <1>6, <1>7, <1>8, <1>9, <1>10, <1>11, <1>12, <1>13, <1>14, <1>15
     DEF ThirdPartyNext, Collect

\* Whatever requests and the job do at the same time, points that count as
\* fresh were said not more than an hour before.
THEOREM FreshPointsWereSaid == ThirdPartySpec => []FreshWasSaid
<1>1. ThirdPartyInit => FreshInv
  BY Rowless DEF ThirdPartyInit, FreshInv, RowSaid
<1>2. ThirdPartySpec => [](ThirdPartyTypeInv /\ FreshInv)
  BY <1>1, ThirdPartyTypeInit, ThirdPartyTypeStep, FreshStep, PTL DEF ThirdPartySpec
<1>3. FreshInv => FreshWasSaid
  BY DEF FreshInv, FreshWasSaid, RowSaid
<1>4. QED  BY <1>2, <1>3, PTL

----------------------------------------------------------------------------
(* The midnight job ends.                                                  *)

\* The attempts that job c may still make for each platform.
AttemptsLeft(c) ==
  [p \in Platforms |-> IF c.answer[p] = Waiting THEN MaxAttempts - c.attempt[p] ELSE 0]

\* How many steps it has before it at most: attempts, the building of its rows
\* and the statement that saves them.
StepsLeft(c) ==
  IF c.pc = "idle" THEN 0
  ELSE IF c.pc = "set" THEN 1
  ELSE 2 + SumOver(AttemptsLeft(c), Platforms)

LEMMA StepsAre ==
  ASSUME IsFiniteSet(Platforms), NEW c \in Collector
  PROVE  /\ AttemptsLeft(c) \in [Platforms -> Nat]
         /\ SumOver(AttemptsLeft(c), Platforms) \in Nat
         /\ StepsLeft(c) \in Nat
<1>1. ASSUME NEW p \in Platforms
      PROVE  MaxAttempts - c.attempt[p] \in Nat
  <2>1. c.attempt[p] \in 0 .. MaxAttempts /\ MaxAttempts \in Nat
    BY ThirdPartyAssumption DEF Collector
  <2>2. QED  BY <2>1
<1>2. AttemptsLeft(c) \in [Platforms -> Nat]
  BY <1>1 DEF AttemptsLeft
<1>3. SumOver(AttemptsLeft(c), Platforms) \in Nat
  BY <1>2, SumIsInt
<1>4. QED  BY <1>2, <1>3 DEF StepsLeft

\* An attempt leaves fewer: one less, or none for a platform that has answered
\* or failed.
LEMMA AttemptTaken ==
  ASSUME IsFiniteSet(Platforms), ThirdPartyTypeInv, NEW p \in Platforms, FetchWithRetries(p)
  PROVE  SumOver(AttemptsLeft(collector'), Platforms) < SumOver(AttemptsLeft(collector), Platforms)
<1>1. /\ collector.answer[p] = Waiting
      /\ collector.attempt[p] < MaxAttempts /\ collector.attempt[p] \in 0 .. MaxAttempts
      /\ MaxAttempts \in Nat
  BY CollectorIs, ThirdPartyAssumption DEF FetchWithRetries, ThirdPartyTypeInv
<1>2. /\ \A q \in Platforms \ {p} : /\ collector'.answer[q] = collector.answer[q]
                                   /\ collector'.attempt[q] = collector.attempt[q]
      /\ \/ collector'.answer[p] # Waiting
         \/ collector'.attempt[p] = collector.attempt[p] + 1
  <2>1. Waiting \notin Answers(p) /\ Failed # Waiting
    BY AnswersAre, ThirdPartyAssumption DEF ThirdPartyTypeInv
  <2>2. QED  BY <2>1, FetchIs
<1>3. /\ \A q \in Platforms \ {p} : AttemptsLeft(collector')[q] = AttemptsLeft(collector)[q]
      /\ AttemptsLeft(collector')[p] < AttemptsLeft(collector)[p]
  BY <1>1, <1>2 DEF AttemptsLeft
<1>4. collector \in Collector /\ collector' \in Collector
  BY CollectorIs, FetchIs DEF ThirdPartyTypeInv
<1>5. /\ AttemptsLeft(collector) \in [Platforms -> Nat]
      /\ AttemptsLeft(collector') \in [Platforms -> Nat]
  BY <1>4, StepsAre
<1> DEFINE f == AttemptsLeft(collector)
           g == AttemptsLeft(collector')
<1>6. /\ f \in [Platforms -> Nat] /\ g \in [Platforms -> Nat]
      /\ g[p] < f[p] /\ \A q \in Platforms \ {p} : g[q] = f[q]
  BY <1>3, <1>5
<1> HIDE DEF f, g
<1>7. SumOver(g, Platforms) < SumOver(f, Platforms)
  BY <1>6, SumShrinks
<1>8. QED  BY <1>7 DEF f, g

\* What CollectionEnds rests on.  Each step of a running job, whatever platforms
\* answer, leaves it fewer steps, and nothing that requests do leaves it more:
\* so a run ends after so many steps, and never starts over by itself.
THEOREM CollectionRunsOut ==
  ASSUME IsFiniteSet(Platforms)
  PROVE  ThirdPartySpec =>
           /\ [](StepsLeft(collector) \in Nat)
           /\ [][collector.pc # "idle" /\ collector' # collector
                 => StepsLeft(collector') < StepsLeft(collector)]_thirdPartyVars
<1>1. ASSUME ThirdPartyTypeInv
      PROVE  /\ StepsLeft(collector) \in Nat
             /\ collector.pc = "fetch" =>
                  /\ StepsLeft(collector) = 2 + SumOver(AttemptsLeft(collector), Platforms)
                  /\ SumOver(AttemptsLeft(collector), Platforms) \in Nat
             /\ collector.pc = "set" => StepsLeft(collector) = 1
             /\ collector.pc \in {"idle", "fetch", "set"}
  BY <1>1, CollectorIs, StepsAre DEF ThirdPartyTypeInv, StepsLeft
<1>2. ASSUME ThirdPartyTypeInv, ThirdPartyNext, collector.pc # "idle", collector' # collector
      PROVE  StepsLeft(collector') < StepsLeft(collector)
  <2>1. ASSUME NEW p \in Platforms, FetchWithRetries(p)
        PROVE  StepsLeft(collector') < StepsLeft(collector)
    <3>1. collector.pc = "fetch" /\ collector'.pc = "fetch" /\ collector' \in Collector
      BY <1>2, <2>1, FetchIs DEF FetchWithRetries
    <3>2. SumOver(AttemptsLeft(collector'), Platforms)
            < SumOver(AttemptsLeft(collector), Platforms)
      BY <1>2, <2>1, AttemptTaken
    <3>3. /\ SumOver(AttemptsLeft(collector'), Platforms) \in Nat
          /\ SumOver(AttemptsLeft(collector), Platforms) \in Nat
          /\ StepsLeft(collector) = 2 + SumOver(AttemptsLeft(collector), Platforms)
      BY <1>1, <1>2, <3>1, StepsAre
    <3>4. StepsLeft(collector') = 2 + SumOver(AttemptsLeft(collector'), Platforms)
      BY <3>1 DEF StepsLeft
    <3>5. QED  BY <3>2, <3>3, <3>4
  <2>2. CASE BuildPointsDbData
    <3>1. collector.pc = "fetch" /\ StepsLeft(collector') = 1
      BY <1>2, <2>2, BuildIs DEF BuildPointsDbData, StepsLeft, ThirdPartyTypeInv
    <3>2. QED  BY <1>1, <1>2, <3>1
  <2>3. CASE SetThirdPartyPointsBulk \/ LoseCollector
    <3>1. StepsLeft(collector') = 0
      BY <2>3, Rowless DEF SetThirdPartyPointsBulk, LoseCollector, StepsLeft
    <3>2. QED  BY <1>1, <1>2, <3>1
  <2>4. QED
    BY <1>2, <2>1, <2>2, <2>3
       DEF ThirdPartyNext, Collect, Earn, HourPasses, GetCachedThirdPartyPoints,
           HydrateFetch, SetThirdPartyPoints, GetThirdPartyPointsBulk
<1>3. ThirdPartyTypeInv => StepsLeft(collector) \in Nat
  BY <1>1
<1>4. ThirdPartyTypeInv /\ [ThirdPartyNext]_thirdPartyVars =>
        [collector.pc # "idle" /\ collector' # collector
         => StepsLeft(collector') < StepsLeft(collector)]_thirdPartyVars
  BY <1>2
<1>5. QED
  BY <1>3, <1>4, ThirdPartyTypeInit, ThirdPartyTypeStep, PTL DEF ThirdPartySpec

----------------------------------------------------------------------------
(* The listener.                                                           *)

\* A start has an event to subscribe to.
ListenerTypeInv ==
  /\ ListenerTypeOK
  /\ listener.pc = "starting" => listener.next \in 1 .. 4

\* A start has subscribed to the events before the next one, once more than
\* starts have failed at most, and to none of the others.
HandlersInv ==
  /\ listener.pc = "down" => handlers = None /\ failed = 0
  /\ listener.pc = "starting" =>
       \A i \in 1 .. 4 :
         /\ i < listener.next => handlers[Events[i]] \in 1 .. failed + 1
         /\ i >= listener.next => handlers[Events[i]] <= failed
  /\ listener.pc = "waiting" => \A i \in 1 .. 4 : handlers[Events[i]] <= failed
  /\ listener.pc = "listening" =>
       \A i \in 1 .. 4 : handlers[Events[i]] \in 1 .. failed + 1

----------------------------------------------------------------------------
(* Types.                                                                  *)

LEMMA EventsAreListed ==
  /\ Len(Events) = 4
  /\ \A i \in 1 .. 4 : Events[i] \in EventNames
  /\ \A i, j \in 1 .. 4 : Events[i] = Events[j] => i = j
  /\ \A e \in EventNames : \E i \in 1 .. 4 : Events[i] = e
<1>1. /\ Len(Events) = 4
      /\ Events[1] = "WalletCreated" /\ Events[2] = "Deposit"
      /\ Events[3] = "Stake" /\ Events[4] = "Unstake"
  BY DEF Events
<1>2. \A i \in 1 .. 4 : i = 1 \/ i = 2 \/ i = 3 \/ i = 4
  OBVIOUS
<1>3. \A i \in 1 .. 4 : Events[i] \in EventNames
  BY <1>1, <1>2 DEF EventNames
<1>4. \A i, j \in 1 .. 4 : Events[i] = Events[j] => i = j
  BY <1>1, <1>2
<1>5. \A e \in EventNames : \E i \in 1 .. 4 : Events[i] = e
  BY <1>1 DEF EventNames
<1>6. QED  BY <1>1, <1>3, <1>4, <1>5

LEMMA NoHandlers == None \in [EventNames -> Nat] /\ \A e \in EventNames : None[e] = 0
BY DEF None

LEMMA StakeOfEvents ==
  /\ StakeOf("Stake") = 1 /\ StakeOf("Unstake") = -1
  /\ \A e \in EventNames \ Stakes : StakeOf(e) = 0
  /\ \A e \in EventNames : StakeOf(e) \in Int
  /\ "Stake" \in EventNames /\ "Unstake" \in EventNames
<1>1. StakeOf("Stake") = 1 /\ StakeOf("Unstake") = -1
  BY DEF StakeOf
<1>2. \A e \in EventNames \ Stakes : StakeOf(e) = 0
  BY DEF StakeOf, Stakes
<1>3. \A e \in EventNames : StakeOf(e) \in Int
  BY DEF StakeOf
<1>4. "Stake" \in EventNames /\ "Unstake" \in EventNames
  BY DEF EventNames
<1>5. QED  BY <1>1, <1>2, <1>3, <1>4

LEMMA ListenerTypeInit == ListenerInit => ListenerTypeInv
<1> SUFFICES ASSUME ListenerInit
             PROVE  ListenerTypeInv
  OBVIOUS
<1>1. listener \in [pc: {"down", "starting", "waiting", "listening"}, next: 1 .. Len(Events) + 1]
  BY EventsAreListed DEF ListenerInit
<1>2. listener.pc = "down"
  BY DEF ListenerInit
<1>3. leaked \in BOOLEAN /\ missed \in BOOLEAN
  BY Zenon DEF ListenerInit
<1>4. /\ handlers \in [EventNames -> Nat] /\ handling \in [EventNames -> Nat]
      /\ onChain \in Int /\ recorded \in Int
      /\ failed \in Nat /\ emitted \in Nat /\ listenerFaults \in Nat
  BY NoHandlers DEF ListenerInit
<1>5. QED  BY <1>1, <1>2, <1>3, <1>4 DEF ListenerTypeInv, ListenerTypeOK

LEMMA GoDownKeepsTypes ==
  ASSUME ListenerTypeOK, GoDown, listenerFaults' = listenerFaults + 1
  PROVE  ListenerTypeInv'
<1>1. missed' \in BOOLEAN
  BY Zenon DEF GoDown
<1>2. listener' \in [pc: {"down", "starting", "waiting", "listening"}, next: 1 .. Len(Events) + 1]
  BY EventsAreListed DEF GoDown
<1>3. listener'.pc = "down"
  BY DEF GoDown
<1>4. QED  BY <1>1, <1>2, <1>3, NoHandlers DEF GoDown, ListenerTypeOK, ListenerTypeInv

LEMMA ListenerTypeStep == ListenerTypeInv /\ [ListenerNext]_listenerVars => ListenerTypeInv'
<1> SUFFICES ASSUME ListenerTypeInv, [ListenerNext]_listenerVars
             PROVE  ListenerTypeInv'
  OBVIOUS
<1>1. CASE Boot
  BY <1>1, EventsAreListed DEF Boot, ListenerTypeOK, ListenerTypeInv
<1>2. CASE Subscribe
  <2>1. listener.next \in 1 .. 4 /\ Len(Events) = 4
    BY <1>2, EventsAreListed DEF Subscribe, ListenerTypeInv
  <2>2. /\ listener' \in [pc: {"down", "starting", "waiting", "listening"}, next: 1 .. Len(Events) + 1]
        /\ listener'.pc = "starting" => listener'.next \in 1 .. 4
    BY <1>2, <2>1 DEF Subscribe
  <2>3. handlers' \in [EventNames -> Nat]
    <3>1. Events[listener.next] \in EventNames
      BY <2>1, EventsAreListed
    <3>2. handlers \in [EventNames -> Nat]
      BY DEF ListenerTypeOK, ListenerTypeInv
    <3>3. QED  BY <1>2, <3>1, <3>2 DEF Subscribe
  <2>4. UNCHANGED <<handling, onChain, recorded, failed, leaked, missed, emitted, listenerFaults>>
    BY <1>2 DEF Subscribe
  <2>5. QED  BY <2>2, <2>3, <2>4 DEF ListenerTypeOK, ListenerTypeInv
<1>3. CASE SubscribeFails
  BY <1>3, EventsAreListed DEF SubscribeFails, ListenerTypeOK, ListenerTypeInv
<1>4. CASE Reconnect
  BY <1>4, EventsAreListed DEF Reconnect, ListenerTypeOK, ListenerTypeInv
<1>5. CASE HandleProviderError
  BY <1>5, GoDownKeepsTypes DEF HandleProviderError, ListenerTypeInv
<1>6. ASSUME NEW e \in EventNames, Emit(e)
      PROVE  ListenerTypeInv'
  <2>1. leaked' \in BOOLEAN /\ missed' \in BOOLEAN
    BY <1>6, Zenon DEF Emit
  <2>2. handling' \in [EventNames -> Nat] /\ emitted' \in Nat
    BY <1>6 DEF Emit, ListenerTypeOK, ListenerTypeInv
  <2>3. onChain' \in Int
    BY <1>6, StakeOfEvents DEF Emit, ListenerTypeOK, ListenerTypeInv
  <2>4. UNCHANGED <<listener, handlers, recorded, failed, listenerFaults>>
    BY <1>6 DEF Emit
  <2>5. QED  BY <2>1, <2>2, <2>3, <2>4 DEF ListenerTypeOK, ListenerTypeInv
<1>7. ASSUME NEW e \in EventNames, HandleEvent(e)
      PROVE  ListenerTypeInv'
  <2>1. handling[e] - 1 \in Nat
    BY <1>7 DEF HandleEvent, ListenerTypeOK, ListenerTypeInv
  <2>2. handling' \in [EventNames -> Nat]
    BY <1>7, <2>1 DEF HandleEvent, ListenerTypeOK, ListenerTypeInv
  <2>3. recorded' \in Int
    BY <1>7, StakeOfEvents DEF HandleEvent, ListenerTypeOK, ListenerTypeInv
  <2>4. UNCHANGED <<listener, handlers, onChain, failed, leaked, missed, emitted, listenerFaults>>
    BY <1>7 DEF HandleEvent
  <2>5. QED  BY <2>2, <2>3, <2>4 DEF ListenerTypeOK, ListenerTypeInv
<1>8. ASSUME NEW e \in EventNames, HandleEventFails(e)
      PROVE  ListenerTypeInv'
  BY <1>8, GoDownKeepsTypes DEF HandleEventFails, ListenerTypeInv
<1>9. CASE UNCHANGED listenerVars
  BY <1>9 DEF listenerVars, ListenerTypeOK, ListenerTypeInv
<1>10. QED  BY <1>1, <1>2, <1>3, <1>4, <1>5, <1>6, <1>7, <1>8, <1>9 DEF ListenerNext

\* Counts never leave the naturals: no handler is done with more events than
\* it was told of.
THEOREM ListenerTypeCorrect == ListenerSpec => []ListenerTypeOK
<1>1. ListenerSpec => []ListenerTypeInv
  BY ListenerTypeInit, ListenerTypeStep, PTL DEF ListenerSpec
<1>2. ListenerTypeInv => ListenerTypeOK
  BY DEF ListenerTypeInv
<1>3. QED  BY <1>1, <1>2, PTL

----------------------------------------------------------------------------
(* Who listens hears all.                                                  *)

LEMMA HandlersInvInit == ListenerInit => HandlersInv
BY DEF ListenerInit, HandlersInv

LEMMA SubscribeKeepsHandlers ==
  ASSUME ListenerTypeInv, HandlersInv, Subscribe
  PROVE  HandlersInv'
<1> DEFINE n == listener.next
<1>1. /\ n \in 1 .. 4 /\ failed \in Nat /\ failed' = failed
      /\ \A i \in 1 .. 4 : handlers[Events[i]] \in Nat
      /\ \A i \in 1 .. 4 : i < n => handlers[Events[i]] \in 1 .. failed + 1
      /\ \A i \in 1 .. 4 : i >= n => handlers[Events[i]] <= failed
  BY EventsAreListed DEF Subscribe, HandlersInv, ListenerTypeOK, ListenerTypeInv
<1>2. \A i \in 1 .. 4 :
        handlers'[Events[i]] = IF i = n THEN handlers[Events[i]] + 1 ELSE handlers[Events[i]]
  BY <1>1, EventsAreListed DEF Subscribe, ListenerTypeOK, ListenerTypeInv
<1>3. /\ listener'.pc = IF n = 4 THEN "listening" ELSE "starting"
      /\ listener'.next = n + 1
  BY EventsAreListed DEF Subscribe
<1> HIDE DEF n
<1>4. \A i \in 1 .. 4 : i < n + 1 => handlers'[Events[i]] \in 1 .. failed + 1
  BY <1>1, <1>2
<1>5. \A i \in 1 .. 4 : i >= n + 1 => handlers'[Events[i]] <= failed
  BY <1>1, <1>2
<1>6. CASE n = 4
  BY <1>1, <1>3, <1>4, <1>6 DEF HandlersInv
<1>7. CASE n # 4
  BY <1>1, <1>3, <1>4, <1>5, <1>7 DEF HandlersInv
<1>8. QED  BY <1>6, <1>7

LEMMA HandlersInvStep ==
  ListenerTypeInv /\ HandlersInv /\ [ListenerNext]_listenerVars => HandlersInv'
<1> SUFFICES ASSUME ListenerTypeInv, HandlersInv, [ListenerNext]_listenerVars
             PROVE  HandlersInv'
  OBVIOUS
<1>0. failed \in Nat /\ \A i \in 1 .. 4 : handlers[Events[i]] \in Nat
  BY EventsAreListed DEF ListenerTypeInv, ListenerTypeOK
<1>1. CASE Boot
  <2>1. \A i \in 1 .. 4 : handlers'[Events[i]] = 0
    BY <1>1, NoHandlers, EventsAreListed DEF Boot, HandlersInv
  <2>2. listener' = [pc |-> "starting", next |-> 1] /\ failed' = 0
    BY <1>1 DEF Boot
  <2>3. QED  BY <2>1, <2>2 DEF HandlersInv
<1>2. CASE Subscribe
  BY <1>2, SubscribeKeepsHandlers
<1>3. CASE SubscribeFails
  <2>0. listener \in [pc: {"down", "starting", "waiting", "listening"}, next: 1 .. Len(Events) + 1]
    BY DEF ListenerTypeInv, ListenerTypeOK
  <2>1. /\ listener.pc = "starting" /\ listener' = [listener EXCEPT !.pc = "waiting"]
        /\ failed' = failed + 1 /\ handlers' = handlers
    BY <1>3 DEF SubscribeFails
  <2>4. listener'.pc = "waiting"
    BY <2>0, <2>1
  <2>2. \A i \in 1 .. 4 : handlers[Events[i]] <= failed + 1
    <3>1. listener.next \in 1 .. 4
      BY <2>1 DEF ListenerTypeInv
    <3>2. \A i \in 1 .. 4 :
            /\ i < listener.next => handlers[Events[i]] \in 1 .. failed + 1
            /\ i >= listener.next => handlers[Events[i]] <= failed
      BY <2>1 DEF HandlersInv
    <3>3. QED  BY <1>0, <3>1, <3>2
  <2>3. QED  BY <2>1, <2>2, <2>4 DEF HandlersInv
<1>4. CASE Reconnect
  BY <1>0, <1>4 DEF Reconnect, HandlersInv
<1>5. CASE HandleProviderError
  BY <1>5 DEF HandleProviderError, GoDown, HandlersInv
<1>6. ASSUME NEW e \in EventNames, Emit(e)
      PROVE  HandlersInv'
  BY <1>6 DEF Emit, HandlersInv
<1>7. ASSUME NEW e \in EventNames, HandleEvent(e)
      PROVE  HandlersInv'
  BY <1>7 DEF HandleEvent, HandlersInv
<1>8. ASSUME NEW e \in EventNames, HandleEventFails(e)
      PROVE  HandlersInv'
  BY <1>8 DEF HandleEventFails, GoDown, HandlersInv
<1>9. CASE UNCHANGED listenerVars
  BY <1>9 DEF listenerVars, HandlersInv
<1>10. QED  BY <1>1, <1>2, <1>3, <1>4, <1>5, <1>6, <1>7, <1>8, <1>9 DEF ListenerNext

\* Through failed starts and crashes, isListening means a handler for every
\* event, and no more handlers than starts.
THEOREM AlwaysHearsAll == ListenerSpec => []ListeningHearsAll
<1>1. ListenerSpec => []ListenerTypeInv
  BY ListenerTypeInit, ListenerTypeStep, PTL DEF ListenerSpec
<1>2. ListenerSpec => []HandlersInv
  BY <1>1, HandlersInvInit, HandlersInvStep, PTL DEF ListenerSpec
<1>3. ListenerTypeInv /\ HandlersInv => ListeningHearsAll
  <2> SUFFICES ASSUME ListenerTypeInv, HandlersInv, listener.pc = "listening",
                      NEW e \in EventNames
               PROVE  handlers[e] >= 1 /\ handlers[e] <= failed + 1
    BY DEF ListeningHearsAll
  <2>1. PICK i \in 1 .. 4 : Events[i] = e
    BY EventsAreListed
  <2>2. handlers[e] \in 1 .. failed + 1 /\ failed \in Nat
    BY <2>1 DEF HandlersInv, ListenerTypeInv, ListenerTypeOK
  <2>3. QED  BY <2>2
<1>4. QED  BY <1>1, <1>2, <1>3, PTL

----------------------------------------------------------------------------
(* Stakes add up.                                                          *)

LEMMA StakesInit == ListenerInit => StakesAddUp
BY NoHandlers, StakeOfEvents DEF ListenerInit, StakesAddUp, InHand

\* A process that ends takes handlers with it; unless one of them had a stake
\* in hand, none was missing.
LEMMA GoDownKeepsStakes ==
  ASSUME ListenerTypeOK, StakesAddUp, GoDown
  PROVE  StakesAddUp'
<1> SUFFICES ASSUME ~missed', ~leaked'
             PROVE  recorded' + InHand' = onChain'
  BY DEF StakesAddUp
<1>0. ~missed /\ ~leaked /\ ~\E e \in Stakes : handling[e] > 0
  BY Zenon DEF GoDown
<1>1. ~missed /\ ~leaked /\ handling["Stake"] = 0 /\ handling["Unstake"] = 0
  BY <1>0, StakeOfEvents DEF Stakes, ListenerTypeOK
<1>2. recorded = onChain /\ recorded \in Int
  BY <1>1 DEF StakesAddUp, InHand, ListenerTypeOK
<1>3. handling'["Stake"] = 0 /\ handling'["Unstake"] = 0
  BY NoHandlers, StakeOfEvents DEF GoDown
<1>4. QED  BY <1>2, <1>3 DEF GoDown, InHand

\* An event's contribution to the updates that are on their way.
LEMMA EmitKeepsStakes ==
  ASSUME ListenerTypeOK, StakesAddUp, NEW e \in EventNames, Emit(e)
  PROVE  StakesAddUp'
<1> SUFFICES ASSUME ~missed', ~leaked'
             PROVE  recorded' + InHand' = onChain'
  BY DEF StakesAddUp
<1>0. ~missed /\ ~leaked /\ ~(e \in Stakes /\ handlers[e] > 1) /\ ~(e \in Stakes /\ handlers[e] = 0)
  BY Zenon DEF Emit
<1>1. /\ recorded \in Int /\ onChain \in Int /\ recorded' = recorded
      /\ onChain' = onChain + StakeOf(e)
      /\ handling["Stake"] \in Nat /\ handling["Unstake"] \in Nat
      /\ recorded + (handling["Stake"] - handling["Unstake"]) = onChain
  BY <1>0, StakeOfEvents DEF Emit, StakesAddUp, InHand, ListenerTypeOK
<1>2. e \in Stakes => handlers[e] = 1
  BY <1>0 DEF ListenerTypeOK
<1>3. /\ handling'["Stake"] = handling["Stake"] + (IF e = "Stake" THEN handlers[e] ELSE 0)
      /\ handling'["Unstake"] = handling["Unstake"] + (IF e = "Unstake" THEN handlers[e] ELSE 0)
  <2>1. \A f \in EventNames : handling'[f] = handling[f] + (IF f = e THEN handlers[e] ELSE 0)
    BY DEF Emit, ListenerTypeOK
  <2>2. QED  BY <2>1, StakeOfEvents
<1>4. CASE e = "Stake"
  BY <1>1, <1>2, <1>3, <1>4, StakeOfEvents DEF InHand, Stakes
<1>5. CASE e = "Unstake"
  BY <1>1, <1>2, <1>3, <1>5, StakeOfEvents DEF InHand, Stakes
<1>6. CASE e \notin Stakes
  BY <1>1, <1>3, <1>6, StakeOfEvents DEF InHand, Stakes
<1>7. QED  BY <1>4, <1>5, <1>6 DEF Stakes

LEMMA HandleEventKeepsStakes ==
  ASSUME ListenerTypeOK, StakesAddUp, NEW e \in EventNames, HandleEvent(e)
  PROVE  StakesAddUp'
<1> SUFFICES ASSUME ~missed', ~leaked'
             PROVE  recorded' + InHand' = onChain'
  BY DEF StakesAddUp
<1>1. /\ recorded \in Int /\ onChain \in Int /\ onChain' = onChain
      /\ recorded' = recorded + StakeOf(e)
      /\ handling["Stake"] \in Nat /\ handling["Unstake"] \in Nat
      /\ recorded + (handling["Stake"] - handling["Unstake"]) = onChain
  BY StakeOfEvents DEF HandleEvent, StakesAddUp, InHand, ListenerTypeOK
<1>2. /\ handling'["Stake"] = handling["Stake"] - (IF e = "Stake" THEN 1 ELSE 0)
      /\ handling'["Unstake"] = handling["Unstake"] - (IF e = "Unstake" THEN 1 ELSE 0)
  <2>1. \A f \in EventNames : handling'[f] = handling[f] - (IF f = e THEN 1 ELSE 0)
    BY DEF HandleEvent, ListenerTypeOK
  <2>2. QED  BY <2>1, StakeOfEvents
<1>3. CASE e = "Stake"
  BY <1>1, <1>2, <1>3, StakeOfEvents DEF InHand
<1>4. CASE e = "Unstake"
  BY <1>1, <1>2, <1>4, StakeOfEvents DEF InHand
<1>5. CASE e \notin Stakes
  BY <1>1, <1>2, <1>5, StakeOfEvents DEF InHand, Stakes
<1>6. QED  BY <1>3, <1>4, <1>5 DEF Stakes

LEMMA StakesStep ==
  ListenerTypeOK /\ StakesAddUp /\ [ListenerNext]_listenerVars => StakesAddUp'
<1> SUFFICES ASSUME ListenerTypeOK, StakesAddUp, [ListenerNext]_listenerVars
             PROVE  StakesAddUp'
  OBVIOUS
<1>1. CASE Boot \/ Subscribe \/ SubscribeFails \/ Reconnect \/ UNCHANGED listenerVars
  BY <1>1 DEF Boot, Subscribe, SubscribeFails, Reconnect, listenerVars, StakesAddUp, InHand
<1>2. CASE HandleProviderError
  BY <1>2, GoDownKeepsStakes DEF HandleProviderError
<1>3. ASSUME NEW e \in EventNames, Emit(e)
      PROVE  StakesAddUp'
  BY <1>3, EmitKeepsStakes
<1>4. ASSUME NEW e \in EventNames, HandleEvent(e)
      PROVE  StakesAddUp'
  BY <1>4, HandleEventKeepsStakes
<1>5. ASSUME NEW e \in EventNames, HandleEventFails(e)
      PROVE  StakesAddUp'
  BY <1>5, GoDownKeepsStakes DEF HandleEventFails
<1>6. QED  BY <1>1, <1>2, <1>3, <1>4, <1>5 DEF ListenerNext

\* Recorded and pending stakes make up the stake on chain, in whatever order
\* events are handled, unless one was missed or handed out twice.
THEOREM StakesAlwaysAddUp == ListenerSpec => []StakesAddUp
<1>1. ListenerSpec => []ListenerTypeOK
  BY ListenerTypeCorrect
<1>2. QED  BY <1>1, StakesInit, StakesStep, PTL DEF ListenerSpec

----------------------------------------------------------------------------
(* The sync of streams.                                                    *)

\* A stream that was listed is there, and so is the one that the job is at once
\* it has been found or created.  Those that were not listed are not there
\* until the job gets to them.  The addresses to remove are on the stream, but
\* for its own.
StreamSyncInv ==
  /\ StreamSyncTypeOK
  /\ \A s \in sync.found : streams[s] # Absent
  /\ sync.pc # "idle" =>
       \A s \in Streams \ sync.found :
         s > sync.stream \/ (s = sync.stream /\ sync.pc = "find") => streams[s] = Absent
  /\ sync.pc \in {"listAddresses", "remove"} => streams[sync.stream] # Absent
  /\ sync.pc = "remove" =>
       /\ Wanted[sync.stream] = NoAddress => sync.foreign = {}
       /\ sync.foreign \subseteq streams[sync.stream] \ {Wanted[sync.stream]}

LEMMA StreamsAre ==
  /\ Streams = 1 .. Len(Wanted) /\ Len(Wanted) \in Nat /\ 1 \in Streams
  /\ \A s \in Streams : s \in Nat /\ (s # Len(Wanted) => s + 1 \in Streams)
  /\ \A s \in Streams : Wanted[s] \in WatchedAddresses
  /\ \A watched \in SUBSET (WatchedAddresses \ {NoAddress}) : watched # Absent
  /\ IdleSync \in Sync /\ IdleSync.pc = "idle" /\ IdleSync.found = {} /\ IdleSync.stream = 1
<1>1. Wanted \in Seq({Wanted[s] : s \in Streams}) /\ Wanted # <<>>
  BY StreamSyncAssumption
<1>2. Streams = 1 .. Len(Wanted) /\ Len(Wanted) \in Nat /\ Len(Wanted) > 0
  BY <1>1 DEF Streams
<1>3. 1 \in Streams
  BY <1>2
<1>4. IdleSync \in Sync
  BY <1>3 DEF IdleSync, Sync
<1>5. QED
  BY <1>2, <1>3, <1>4, StreamSyncAssumption DEF IdleSync, WatchedAddresses

LEMMA SyncIs ==
  ASSUME StreamSyncTypeOK
  PROVE  /\ sync.pc \in {"idle", "find", "listAddresses", "remove"}
         /\ sync.stream \in Streams /\ sync.found \in SUBSET Streams
         /\ sync.listed \in SUBSET WatchedAddresses /\ sync.foreign \in SUBSET WatchedAddresses
         /\ streams \in [Streams -> (SUBSET (WatchedAddresses \ {NoAddress})) \cup {Absent}]
BY DEF StreamSyncTypeOK, Sync

LEMMA StreamSyncInvInit == StreamSyncInit => StreamSyncInv
BY StreamsAre, StreamSyncAssumption DEF StreamSyncInit, StreamSyncInv, StreamSyncTypeOK

\* Where a run ends.
LEMMA SyncEnds ==
  ASSUME StreamSyncInv, sync' = IdleSync, UNCHANGED streams, syncFaults' \in 0 .. MaxSyncFaults
  PROVE  StreamSyncInv'
BY StreamsAre DEF StreamSyncInv, StreamSyncTypeOK

\* Where a run goes on.
LEMMA SyncGoesOn ==
  ASSUME StreamSyncInv, UNCHANGED syncFaults,
         streams' \in [Streams -> (SUBSET (WatchedAddresses \ {NoAddress})) \cup {Absent}],
         NEW pc \in {"find", "listAddresses", "remove"}, NEW s \in Streams,
         NEW found \in SUBSET Streams, NEW listed \in SUBSET WatchedAddresses,
         NEW foreign \in SUBSET WatchedAddresses,
         sync' = [pc |-> pc, stream |-> s, found |-> found, listed |-> listed, foreign |-> foreign]
  PROVE  StreamSyncTypeOK'
BY DEF StreamSyncInv, StreamSyncTypeOK, Sync

LEMMA StreamSyncStep ==
  ASSUME StreamSyncInv, [StreamSyncNext]_streamSyncVars
  PROVE  /\ StreamSyncInv'
         /\ \A s \in Streams : streams[s] = {Wanted[s]} => streams'[s] = {Wanted[s]}
<1> DEFINE kept == \A s \in Streams : streams[s] = {Wanted[s]} => streams'[s] = {Wanted[s]}
           at == sync.stream
<1>1. /\ sync.pc \in {"idle", "find", "listAddresses", "remove"}
      /\ at \in Streams /\ sync.found \in SUBSET Streams
      /\ sync.listed \in SUBSET WatchedAddresses /\ sync.foreign \in SUBSET WatchedAddresses
      /\ streams \in [Streams -> (SUBSET (WatchedAddresses \ {NoAddress})) \cup {Absent}]
  BY SyncIs DEF StreamSyncInv
<1>2. CASE ListStreams
  <2> DEFINE found == {s \in Streams : streams[s] # Absent}
  <2>1. /\ UNCHANGED <<streams, syncFaults>>
        /\ sync' = [pc |-> "find", stream |-> 1, found |-> found, listed |-> {}, foreign |-> {}]
    BY <1>2 DEF ListStreams, IdleSync
  <2>2. StreamSyncTypeOK'
    BY <1>1, <2>1, StreamsAre, SyncGoesOn
  <2>3. QED  BY <2>1, <2>2 DEF StreamSyncInv
<1>3. CASE FindStream
  <2>1. /\ sync.pc = "find" /\ UNCHANGED syncFaults
        /\ sync' = [pc |-> "listAddresses", stream |-> at, found |-> sync.found,
                    listed |-> sync.listed, foreign |-> sync.foreign]
    BY <1>3 DEF FindStream, StreamSyncInv, StreamSyncTypeOK, Sync
  <2>2. /\ streams' \in [Streams -> (SUBSET (WatchedAddresses \ {NoAddress})) \cup {Absent}]
        /\ \A s \in Streams \ {at} : streams'[s] = streams[s]
        /\ streams'[at] # Absent
        /\ at \notin sync.found \/ streams' = streams
    <3>1. CASE at \in sync.found
      BY <1>1, <1>3, <3>1 DEF FindStream, StreamSyncInv
    <3>2. CASE at \notin sync.found
      <4>1. streams' = [streams EXCEPT ![at] = {}]
        BY <1>3, <3>2 DEF FindStream
      <4>2. {} # Absent
        BY StreamsAre
      <4>3. QED  BY <1>1, <3>2, <4>1, <4>2
    <3>3. QED  BY <3>1, <3>2
  <2>3. StreamSyncTypeOK'
    BY <1>1, <2>1, <2>2, SyncGoesOn
  <2>4. streams[at] = Absent \/ streams' = streams
    BY <1>1, <2>1, <2>2 DEF StreamSyncInv
  <2>5. {Wanted[at]} # Absent
    BY <1>1, StreamsAre, StreamSyncAssumption
  <2>6. kept
    BY <2>2, <2>4, <2>5
  <2>7. \A s \in sync.found : streams'[s] # Absent
    BY <1>1, <2>2 DEF StreamSyncInv
  <2>8. \A s \in Streams \ sync.found : s > at => streams'[s] = Absent
    BY <1>1, <2>1, <2>2, StreamsAre DEF StreamSyncInv
  <2>9. QED  BY <2>1, <2>2, <2>3, <2>6, <2>7, <2>8 DEF StreamSyncInv
<1>4. CASE ListStreamAddresses
  <2>1. sync.pc = "listAddresses" /\ UNCHANGED <<streams, syncFaults>>
    BY <1>4 DEF ListStreamAddresses
  <2>2. CASE Wanted[at] = NoAddress /\ streams[at] # {}
    <3>1. sync' = IdleSync
      BY <1>4, <2>2 DEF ListStreamAddresses
    <3>2. syncFaults' \in 0 .. MaxSyncFaults
      BY <2>1 DEF StreamSyncInv, StreamSyncTypeOK
    <3>3. QED  BY <2>1, <3>1, <3>2, SyncEnds
  <2>3. CASE Wanted[at] # NoAddress \/ streams[at] = {}
    <3> DEFINE listed == streams[at]
               foreign == listed \ {Wanted[at]}
    <3>1. sync' = [pc |-> "remove", stream |-> at, found |-> sync.found,
                   listed |-> listed, foreign |-> foreign]
      BY <1>4, <2>3 DEF ListStreamAddresses, StreamSyncInv, StreamSyncTypeOK, Sync
    <3>2. listed \in SUBSET WatchedAddresses /\ foreign \in SUBSET WatchedAddresses
      BY <1>1, <2>1 DEF StreamSyncInv
    <3>3. StreamSyncTypeOK'
      BY <1>1, <2>1, <3>1, <3>2, SyncGoesOn
    <3>4. QED  BY <1>1, <2>1, <2>3, <3>1, <3>3 DEF StreamSyncInv
  <2>4. QED  BY <2>2, <2>3
<1>5. CASE RemoveAddressFromStream
  <2>1. sync.pc = "remove" /\ UNCHANGED syncFaults
    BY <1>5 DEF RemoveAddressFromStream
  <2>2. PICK a \in sync.foreign :
          \/ /\ streams' = [streams EXCEPT ![at] = @ \ {Wanted[at]}]
             /\ sync' = [sync EXCEPT !.foreign = @ \ {a}]
          \/ UNCHANGED streams /\ sync' = IdleSync
    BY <1>5 DEF RemoveAddressFromStream
  <2>3. CASE UNCHANGED streams /\ sync' = IdleSync
    <3>1. syncFaults' \in 0 .. MaxSyncFaults
      BY <2>1 DEF StreamSyncInv, StreamSyncTypeOK
    <3>2. QED  BY <2>3, <3>1, SyncEnds
  <2>4. CASE /\ streams' = [streams EXCEPT ![at] = @ \ {Wanted[at]}]
             /\ sync' = [sync EXCEPT !.foreign = @ \ {a}]
    <3> DEFINE foreign == sync.foreign \ {a}
    <3>1. sync' = [pc |-> "remove", stream |-> at, found |-> sync.found,
                   listed |-> sync.listed, foreign |-> foreign]
      BY <2>1, <2>4 DEF StreamSyncInv, StreamSyncTypeOK, Sync
    <3>2. /\ streams[at] # Absent /\ streams[at] \in SUBSET (WatchedAddresses \ {NoAddress})
          /\ sync.foreign \subseteq streams[at] \ {Wanted[at]} /\ Wanted[at] # NoAddress
      BY <1>1, <2>1, <2>2 DEF StreamSyncInv
    <3>3. /\ streams'[at] = streams[at] \ {Wanted[at]}
          /\ \A s \in Streams \ {at} : streams'[s] = streams[s]
          /\ streams' \in [Streams -> (SUBSET (WatchedAddresses \ {NoAddress})) \cup {Absent}]
      BY <1>1, <2>4, <3>2
    <3>4. StreamSyncTypeOK'
      <4>1. foreign \in SUBSET WatchedAddresses
        BY <1>1
      <4>2. QED  BY <1>1, <2>1, <3>1, <3>3, <4>1, SyncGoesOn
    <3>5. streams'[at] # Absent
      BY <3>2, <3>3, StreamsAre
    <3>6. kept
      BY <2>2, <3>2, <3>3
    <3>7. \A s \in sync.found : streams'[s] # Absent
      BY <1>1, <3>3, <3>5 DEF StreamSyncInv
    <3>8. \A s \in Streams \ sync.found : s > at => streams'[s] = Absent
      BY <1>1, <2>1, <3>3, StreamsAre DEF StreamSyncInv
    <3>9. foreign \subseteq streams'[at] \ {Wanted[at]}
      BY <3>2, <3>3
    <3>10. QED  BY <3>1, <3>2, <3>4, <3>5, <3>6, <3>7, <3>8, <3>9 DEF StreamSyncInv
  <2>5. QED  BY <2>2, <2>3, <2>4
<1>6. CASE AddAddressToStream
  <2>1. /\ sync.pc = "remove" /\ UNCHANGED syncFaults /\ Wanted[at] # NoAddress
        /\ streams' = IF Wanted[at] \in sync.listed THEN streams
                      ELSE [streams EXCEPT ![at] = @ \cup {Wanted[at]}]
    BY <1>6 DEF AddAddressToStream
  <2>2. /\ streams[at] # Absent /\ streams[at] \in SUBSET (WatchedAddresses \ {NoAddress})
        /\ Wanted[at] \in WatchedAddresses \ {NoAddress}
    BY <1>1, <2>1, StreamsAre DEF StreamSyncInv
  <2>3. /\ streams'[at] \in {streams[at], streams[at] \cup {Wanted[at]}}
        /\ \A s \in Streams \ {at} : streams'[s] = streams[s]
        /\ streams' \in [Streams -> (SUBSET (WatchedAddresses \ {NoAddress})) \cup {Absent}]
    BY <1>1, <2>1, <2>2
  <2>4. streams'[at] # Absent
    BY <2>2, <2>3, StreamsAre
  <2>5. kept
    BY <2>3
  <2>6. CASE at = Len(Wanted)
    <3>1. sync' = IdleSync
      BY <1>6, <2>6 DEF AddAddressToStream
    <3>2. QED
      BY <2>1, <2>3, <2>5, <3>1, StreamsAre DEF StreamSyncInv, StreamSyncTypeOK
  <2>7. CASE at # Len(Wanted)
    <3>1. sync' = [pc |-> "find", stream |-> at + 1, found |-> sync.found, listed |-> {},
                   foreign |-> {}]
      BY <1>6, <2>7 DEF AddAddressToStream, IdleSync
    <3>2. at + 1 \in Streams
      BY <1>1, <2>7, StreamsAre
    <3>3. StreamSyncTypeOK'
      BY <1>1, <2>1, <2>3, <3>1, <3>2, SyncGoesOn
    <3>4. \A s \in sync.found : streams'[s] # Absent
      BY <1>1, <2>3, <2>4 DEF StreamSyncInv
    <3>5. \A s \in Streams \ sync.found : s > at => streams'[s] = Absent
      BY <1>1, <2>1, <2>3, StreamsAre DEF StreamSyncInv
    <3>6. \A s \in Streams : s > at + 1 \/ s = at + 1 => s > at
      BY <1>1, StreamsAre
    <3>7. QED  BY <2>5, <3>1, <3>3, <3>4, <3>5, <3>6 DEF StreamSyncInv
  <2>8. QED  BY <2>6, <2>7
<1>7. CASE FailSync
  <2>1. syncFaults' \in 0 .. MaxSyncFaults
    BY <1>7, StreamSyncAssumption DEF FailSync, StreamSyncInv, StreamSyncTypeOK
  <2>2. QED  BY <1>7, <2>1, SyncEnds DEF FailSync
<1>8. CASE RejectUndefinedAddress
  <2>1. syncFaults' \in 0 .. MaxSyncFaults
    BY <1>8 DEF RejectUndefinedAddress, StreamSyncInv, StreamSyncTypeOK
  <2>2. QED  BY <1>8, <2>1, SyncEnds DEF RejectUndefinedAddress
<1>9. CASE UNCHANGED streamSyncVars
  BY <1>9 DEF streamSyncVars, StreamSyncInv, StreamSyncTypeOK
<1>10. QED
  BY <1>2, <1>3, <1>4, <1>5, <1>6, <1>7, <1>8, <1>9 DEF StreamSyncNext, SyncMoralisStreams

\* A stream that watches the contract of its event and no other keeps doing so,
\* whatever calls fail or find: the job neither empties nor creates it again.
THEOREM SetUpStreamsStay ==
  StreamSyncSpec =>
    [][\A s \in Streams : streams[s] = {Wanted[s]} => streams'[s] = {Wanted[s]}]_streamSyncVars
<1>1. StreamSyncInv /\ [StreamSyncNext]_streamSyncVars =>
        [\A s \in Streams : streams[s] = {Wanted[s]} => streams'[s] = {Wanted[s]}]_streamSyncVars
  BY StreamSyncStep
<1>2. StreamSyncInv /\ [StreamSyncNext]_streamSyncVars => StreamSyncInv'
  BY StreamSyncStep
<1>3. QED  BY <1>1, <1>2, StreamSyncInvInit, PTL DEF StreamSyncSpec

LEMMA StreamSyncTypeCorrect == StreamSyncSpec => []StreamSyncTypeOK
<1>1. StreamSyncInv /\ [StreamSyncNext]_streamSyncVars => StreamSyncInv'
  BY StreamSyncStep
<1>2. StreamSyncInv => StreamSyncTypeOK
  BY DEF StreamSyncInv
<1>3. QED  BY <1>1, <1>2, StreamSyncInvInit, PTL DEF StreamSyncSpec

\* Every stream is set up but for those that come after a foreign address or a
\* missing contract: what WatchedUnlessForeign says is so in the end.
Watched ==
  \A s \in Streams :
    (\A r \in 1 .. s : OnlyItsOwn(r) /\ Wanted[r] # NoAddress) => streams[s] = {Wanted[s]}

\* The streams from the first on, up to one before the given place.
WatchedBefore(n) ==
  \A s \in Streams :
    s < n /\ (\A r \in 1 .. s : OnlyItsOwn(r) /\ Wanted[r] # NoAddress)
      => streams[s] = {Wanted[s]}

\* What the job does to one stream at a time.
LEMMA StreamMoves ==
  ASSUME StreamSyncInv, [StreamSyncNext]_streamSyncVars
  PROVE  /\ \A s \in Streams : OnlyItsOwn(s)' => OnlyItsOwn(s)
         /\ \A s \in Streams : s # sync.stream \/ sync.pc = "idle" => streams'[s] = streams[s]
<1>0. PICK at \in Streams : at = sync.stream
  BY SyncIs DEF StreamSyncInv
<1> DEFINE moved == /\ sync.pc # "idle"
                    /\ \A s \in Streams \ {at} : streams'[s] = streams[s]
                    /\ OnlyItsOwn(at)' => OnlyItsOwn(at)
<1>1. /\ sync.found \in SUBSET Streams
      /\ streams \in [Streams -> (SUBSET (WatchedAddresses \ {NoAddress})) \cup {Absent}]
  BY SyncIs DEF StreamSyncInv
<1>2. ASSUME NEW w, streams' = [streams EXCEPT ![at] = w]
      PROVE  streams'[at] = w /\ \A s \in Streams \ {at} : streams'[s] = streams[s]
  BY <1>1, <1>2
<1>3. \A w \in SUBSET (WatchedAddresses \ {NoAddress}) : w # Absent
  BY StreamsAre
<1>4. ASSUME FindStream PROVE UNCHANGED streams \/ moved
  <2>1. CASE at \in sync.found
    BY <1>0, <1>4, <2>1 DEF FindStream
  <2>2. CASE at \notin sync.found
    <3>1. streams' = [streams EXCEPT ![at] = {}] /\ sync.pc = "find"
      BY <1>0, <1>4, <2>2 DEF FindStream
    <3>2. streams[at] = Absent
      BY <1>0, <1>1, <2>2, <3>1 DEF StreamSyncInv
    <3>3. QED  BY <1>2, <3>1, <3>2 DEF OnlyItsOwn
  <2>3. QED  BY <2>1, <2>2
<1>5. ASSUME sync.pc = "remove"
      PROVE  streams[at] # Absent /\ streams[at] \in SUBSET (WatchedAddresses \ {NoAddress})
  BY <1>0, <1>1, <1>5 DEF StreamSyncInv
<1>6. ASSUME RemoveAddressFromStream PROVE UNCHANGED streams \/ moved
  <2>1. CASE UNCHANGED streams
    BY <2>1
  <2>2. CASE ~UNCHANGED streams
    <3>1. streams' = [streams EXCEPT ![at] = streams[at] \ {Wanted[at]}] /\ sync.pc = "remove"
      BY <1>0, <1>6, <2>2 DEF RemoveAddressFromStream
    <3>2. streams[at] \ {Wanted[at]} # Absent
      BY <1>3, <1>5, <3>1
    <3>3. streams[at] \ {Wanted[at]} \subseteq {Wanted[at]} => streams[at] \subseteq {Wanted[at]}
      OBVIOUS
    <3>4. streams'[at] = streams[at] \ {Wanted[at]}
      BY <1>2, <3>1
    <3>5. OnlyItsOwn(at)' => OnlyItsOwn(at)
      BY <3>2, <3>3, <3>4 DEF OnlyItsOwn
    <3>6. QED  BY <1>2, <3>1, <3>5
  <2>3. QED  BY <2>1, <2>2
<1>7. ASSUME AddAddressToStream PROVE UNCHANGED streams \/ moved
  <2>1. CASE UNCHANGED streams
    BY <2>1
  <2>2. CASE ~UNCHANGED streams
    <3>1. /\ streams' = [streams EXCEPT ![at] = streams[at] \cup {Wanted[at]}]
          /\ sync.pc = "remove" /\ Wanted[at] # NoAddress
      BY <1>0, <1>7, <2>2 DEF AddAddressToStream
    <3>2. streams[at] \cup {Wanted[at]} # Absent
      <4>1. Wanted[at] \in WatchedAddresses \ {NoAddress}
        BY <1>0, <1>1, <3>1, StreamsAre DEF StreamSyncInv
      <4>2. QED  BY <1>3, <1>5, <3>1, <4>1
    <3>3. streams'[at] = streams[at] \cup {Wanted[at]}
      BY <1>2, <3>1
    <3>4. OnlyItsOwn(at)' => OnlyItsOwn(at)
      BY <3>2, <3>3 DEF OnlyItsOwn
    <3>5. QED  BY <1>2, <3>1, <3>4
  <2>3. QED  BY <2>1, <2>2
<1>8. UNCHANGED streams \/ moved
  BY <1>4, <1>6, <1>7
  DEF StreamSyncNext, SyncMoralisStreams, ListStreams, ListStreamAddresses,
      RejectUndefinedAddress, FailSync, streamSyncVars
<1>9. CASE UNCHANGED streams
  BY <1>9 DEF OnlyItsOwn
<1>10. CASE moved
  <2>1. ASSUME NEW s \in Streams, s # at
        PROVE  OnlyItsOwn(s)' => OnlyItsOwn(s)
    BY <1>10, <2>1 DEF OnlyItsOwn
  <2>2. QED  BY <1>0, <1>10, <2>1
<1>11. QED  BY <1>8, <1>9, <1>10

\* Once the streams are set up, they are for good: a failed run, or one that
\* ends early, undoes nothing.
LEMMA WatchedStep ==
  ASSUME StreamSyncInv, Watched, [StreamSyncNext]_streamSyncVars
  PROVE  Watched'
<1>1. \A s \in Streams : streams[s] = {Wanted[s]} => streams'[s] = {Wanted[s]}
  BY StreamSyncStep
<1>2. \A s \in Streams : OnlyItsOwn(s)' => OnlyItsOwn(s)
  BY StreamMoves
<1>3. \A s \in Streams : \A r \in 1 .. s : r \in Streams
  BY StreamsAre
<1>4. ASSUME NEW s \in Streams, \A r \in 1 .. s : OnlyItsOwn(r)' /\ Wanted[r] # NoAddress
      PROVE  streams'[s] = {Wanted[s]}
  BY <1>1, <1>2, <1>3, <1>4 DEF Watched
<1>5. QED  BY <1>4 DEF Watched

\* Where a run that has not failed has got.  If its stream had no foreign
\* address, none of its own was removed.
WatchInv ==
  /\ sync.pc = "idle" => Watched
  /\ sync.pc # "idle" => WatchedBefore(sync.stream)
  /\ sync.pc = "remove" /\ OnlyItsOwn(sync.stream) =>
       sync.listed \cap {Wanted[sync.stream]} \subseteq streams[sync.stream]

\* The job has just listed the streams.
StreamJobStarted == sync.pc = "find" /\ sync.stream = 1

LEMMA WatchInvStarts ==
  ASSUME StreamSyncInv, StreamJobStarted
  PROVE  WatchInv
<1>1. \A s \in Streams : ~(s < 1)
  BY StreamsAre
<1>2. QED  BY <1>1 DEF StreamJobStarted, WatchInv, WatchedBefore

LEMMA WatchInvStep ==
  ASSUME StreamSyncInv, WatchInv, [StreamSyncNext]_streamSyncVars, UNCHANGED syncFaults
  PROVE  WatchInv'
<1>0. PICK at \in Streams : at = sync.stream
  BY SyncIs DEF StreamSyncInv
<1>1. /\ Streams \subseteq Nat /\ \A s \in Streams : \A r \in 1 .. s : r \in Streams
      /\ streams \in [Streams -> (SUBSET (WatchedAddresses \ {NoAddress})) \cup {Absent}]
      /\ sync \in Sync /\ syncFaults \in Nat
  BY StreamsAre DEF StreamSyncInv, StreamSyncTypeOK
\* The streams before this one stay as they are.
<1>2. ASSUME sync.pc # "idle"
      PROVE  WatchedBefore(at)'
  <2>1. \A s \in Streams : s # at => streams'[s] = streams[s]
    BY <1>0, StreamMoves
  <2>2. ASSUME NEW s \in Streams, s < at,
               \A r \in 1 .. s : OnlyItsOwn(r)' /\ Wanted[r] # NoAddress
        PROVE  streams'[s] = {Wanted[s]}
    <3>1. \A r \in 1 .. s : r \in Streams /\ r # at
      BY <1>1, <2>2
    <3>2. \A r \in 1 .. s : OnlyItsOwn(r)
      BY <2>1, <2>2, <3>1 DEF OnlyItsOwn
    <3>3. streams[s] = {Wanted[s]}
      BY <1>0, <1>2, <2>2, <3>2 DEF WatchInv, WatchedBefore
    <3>4. QED  BY <2>1, <2>2, <3>3, <1>1
  <2>3. QED  BY <2>2 DEF WatchedBefore
\* If this stream is not to be watched, neither is one behind it.
<1>3. ASSUME sync.pc # "idle", OnlyItsOwn(at)' => Wanted[at] = NoAddress
      PROVE  Watched'
  <2>1. ASSUME NEW s \in Streams, \A r \in 1 .. s : OnlyItsOwn(r)' /\ Wanted[r] # NoAddress
        PROVE  s < at
    <3>1. at \notin 1 .. s
      BY <1>3, <2>1
    <3>2. at \in 1 .. Len(Wanted) /\ s \in Nat
      BY StreamsAre
    <3>3. QED  BY <3>1, <3>2
  <2>2. QED  BY <1>2, <1>3, <2>1 DEF Watched, WatchedBefore
<1>4. CASE ListStreams
  <2>1. sync' = [IdleSync EXCEPT !.pc = "find",
                                 !.found = {s \in Streams : streams[s] # Absent}]
    BY <1>4 DEF ListStreams
  <2>2. sync'.pc = "find" /\ sync'.stream = 1
    BY <2>1 DEF IdleSync
  <2>3. \A s \in Streams : ~(s < 1)
    BY StreamsAre
  <2>4. QED  BY <2>2, <2>3 DEF WatchInv, WatchedBefore
<1>5. CASE FindStream
  <2>1. sync.pc = "find" /\ sync'.pc = "listAddresses" /\ sync'.stream = at
    BY <1>0, <1>1, <1>5 DEF FindStream, Sync
  <2>2. WatchedBefore(sync.stream)'
    BY <1>2, <2>1 DEF WatchedBefore
  <2>3. QED  BY <2>1, <2>2 DEF WatchInv
<1>6. CASE ListStreamAddresses
  <2>1. sync.pc = "listAddresses" /\ UNCHANGED streams
    BY <1>6 DEF ListStreamAddresses
  <2>2. CASE Wanted[at] = NoAddress /\ streams[at] # {}
    <3>1. sync'.pc = "idle"
      BY <1>0, <1>6, <2>2, StreamsAre DEF ListStreamAddresses
    <3>2. QED  BY <1>3, <2>1, <2>2, <3>1 DEF WatchInv
  <2>3. CASE Wanted[at] # NoAddress \/ streams[at] = {}
    <3>1. sync'.pc = "remove" /\ sync'.stream = at /\ sync'.listed = streams[at]
      BY <1>0, <1>1, <1>6, <2>3 DEF ListStreamAddresses, Sync
    <3>2. WatchedBefore(sync.stream)'
      BY <1>2, <2>1, <3>1 DEF WatchedBefore
    <3>3. sync'.listed \cap {Wanted[at]} \subseteq streams'[at]
      BY <2>1, <3>1
    <3>4. QED  BY <3>1, <3>2, <3>3 DEF WatchInv
  <2>4. QED  BY <2>2, <2>3
<1>7. CASE RemoveAddressFromStream
  <2>1. sync.pc = "remove"
    BY <1>7 DEF RemoveAddressFromStream
  <2>2. PICK a \in sync.foreign :
          \/ sync' = [sync EXCEPT !.foreign = @ \ {a}]
          \/ UNCHANGED streams /\ sync' = IdleSync
    BY <1>7 DEF RemoveAddressFromStream
  <2>3. ~OnlyItsOwn(at)
    <3>1. streams[at] # Absent /\ a \in streams[at] \ {Wanted[at]}
      BY <1>0, <2>1, <2>2 DEF StreamSyncInv
    <3>2. QED  BY <3>1 DEF OnlyItsOwn
  <2>4. ~(OnlyItsOwn(at)')
    BY <2>3, StreamMoves
  <2>5. CASE sync' = IdleSync
    <3>1. sync'.pc = "idle"
      BY <2>5, StreamsAre
    <3>2. QED  BY <1>3, <2>1, <2>4, <3>1 DEF WatchInv
  <2>6. CASE sync' = [sync EXCEPT !.foreign = @ \ {a}]
    <3>1. sync'.pc = "remove" /\ sync'.stream = at
      BY <1>0, <1>1, <2>1, <2>6 DEF Sync
    <3>2. WatchedBefore(sync.stream)'
      BY <1>2, <2>1, <3>1 DEF WatchedBefore
    <3>3. ~(OnlyItsOwn(sync.stream)')
      BY <2>4, <3>1 DEF OnlyItsOwn
    <3>4. QED  BY <3>1, <3>2, <3>3 DEF WatchInv
  <2>7. QED  BY <2>2, <2>5, <2>6
<1>8. CASE AddAddressToStream
  <2>1. /\ sync.pc = "remove"
        /\ streams' = IF Wanted[at] \in sync.listed THEN streams
                      ELSE [streams EXCEPT ![at] = @ \cup {Wanted[at]}]
        /\ sync' = IF at = Len(Wanted) THEN IdleSync
                   ELSE [IdleSync EXCEPT !.pc = "find", !.stream = at + 1, !.found = sync.found]
    BY <1>0, <1>8 DEF AddAddressToStream
  <2>2. streams[at] # Absent /\ streams[at] \in SUBSET (WatchedAddresses \ {NoAddress})
    BY <1>0, <1>1, <2>1 DEF StreamSyncInv
  <2>3. ASSUME OnlyItsOwn(at)'
        PROVE  streams'[at] = {Wanted[at]}
    <3>1. OnlyItsOwn(at)
      BY <2>3, StreamMoves
    <3>2. streams[at] \subseteq {Wanted[at]}
      BY <2>2, <3>1 DEF OnlyItsOwn
    <3>3. CASE Wanted[at] \in sync.listed
      <4>1. Wanted[at] \in streams[at] /\ streams' = streams
        BY <1>0, <2>1, <3>1, <3>3 DEF WatchInv
      <4>2. QED  BY <3>2, <4>1
    <3>4. CASE Wanted[at] \notin sync.listed
      <4>1. streams'[at] = streams[at] \cup {Wanted[at]}
        BY <1>1, <2>1, <3>4
      <4>2. QED  BY <3>2, <4>1
    <3>5. QED  BY <3>3, <3>4
  <2>4. ASSUME NEW s \in Streams, s < at + 1,
               \A r \in 1 .. s : OnlyItsOwn(r)' /\ Wanted[r] # NoAddress
        PROVE  streams'[s] = {Wanted[s]}
    <3>1. s \in Nat /\ at \in Nat /\ s \in 1 .. s
      BY <1>1, StreamsAre
    <3>2. CASE s = at
      BY <2>3, <2>4, <3>1, <3>2
    <3>3. CASE s # at
      <4>1. s < at
        BY <2>4, <3>1, <3>3
      <4>2. QED  BY <1>2, <2>1, <2>4, <4>1 DEF WatchedBefore
    <3>4. QED  BY <3>2, <3>3
  <2>5. CASE at = Len(Wanted)
    <3>1. sync'.pc = "idle"
      BY <2>1, <2>5, StreamsAre
    <3>2. \A s \in Streams : s < at + 1
      BY <2>5, StreamsAre
    <3>3. Watched'
      BY <2>4, <3>2 DEF Watched
    <3>4. QED  BY <3>1, <3>3 DEF WatchInv
  <2>6. CASE at # Len(Wanted)
    <3>1. sync' = [IdleSync EXCEPT !.pc = "find", !.stream = at + 1, !.found = sync.found]
      BY <2>1, <2>6
    <3>2. sync'.pc = "find" /\ sync'.stream = at + 1
      BY <3>1 DEF IdleSync
    <3>3. WatchedBefore(sync.stream)'
      BY <2>4, <3>2 DEF WatchedBefore
    <3>4. QED  BY <3>2, <3>3 DEF WatchInv
  <2>7. QED  BY <2>5, <2>6
<1>9. CASE FailSync
  <2>1. syncFaults' # syncFaults + 1
    BY <1>1
  <2>2. QED  BY <1>9, <2>1 DEF FailSync
<1>10. CASE RejectUndefinedAddress
  <2>1. sync.pc = "remove" /\ Wanted[at] = NoAddress /\ sync'.pc = "idle"
    BY <1>0, <1>10, StreamsAre DEF RejectUndefinedAddress
  <2>2. QED  BY <1>3, <2>1 DEF WatchInv
<1>11. CASE UNCHANGED streamSyncVars
  BY <1>11 DEF streamSyncVars, WatchInv, Watched, WatchedBefore, OnlyItsOwn
<1>12. QED
  BY <1>4, <1>5, <1>6, <1>7, <1>8, <1>9, <1>10, <1>11 DEF StreamSyncNext, SyncMoralisStreams

\* One run in which no call fails, but for removals, sets every stream up that
\* has no foreign address or missing contract before or in it; and once they are
\* set up, no later run and no failure undoes it.
THEOREM OneRunSetsUp ==
  StreamSyncSpec =>
    /\ [](StreamJobStarted /\ [][UNCHANGED syncFaults]_streamSyncVars
            => [](sync.pc = "idle" => Watched))
    /\ [](Watched => []Watched)
<1>1. StreamSyncInv /\ [StreamSyncNext]_streamSyncVars => StreamSyncInv'
  BY StreamSyncStep
<1>2. StreamSyncInv /\ StreamJobStarted => WatchInv
  BY WatchInvStarts
<1>3. StreamSyncInv /\ WatchInv /\ [StreamSyncNext]_streamSyncVars
        /\ [UNCHANGED syncFaults]_streamSyncVars => WatchInv'
  BY WatchInvStep DEF streamSyncVars
<1>4. StreamSyncInv /\ Watched /\ [StreamSyncNext]_streamSyncVars => Watched'
  BY WatchedStep
<1>5. WatchInv => (sync.pc = "idle" => Watched)
  BY DEF WatchInv
<1>6. QED
  BY <1>1, <1>2, <1>3, <1>4, <1>5, StreamSyncInvInit, PTL DEF StreamSyncSpec

----------------------------------------------------------------------------
(* The pages of the staleness job.                                         *)

LEMMA BookIs ==
  ASSUME order \in Layouts
  PROVE  /\ \A o \in Book : Token(o) \in Tokens /\ Token(o) \in Nat
         /\ \A S \in SUBSET Book : IsFiniteSet(S) /\ Cardinality(S) \in Nat
         /\ BatchSize \in Nat \ {0}
<1>1. order \in [Book -> Tokens \X GroupKeys] /\ IsFiniteSet(Book) /\ Tokens \subseteq Nat
  BY PagingAssumption
<1>2. \A o \in Book : Token(o) \in Tokens
  BY <1>1 DEF Token
<1>3. \A S \in SUBSET Book : IsFiniteSet(S) /\ Cardinality(S) \in Nat
  BY <1>1, FS_Subset, FS_CardinalityType
<1>4. QED  BY <1>1, <1>2, <1>3, PagingAssumption

\* The order of a batch with the last token, by which the next batch starts.
LEMMA LastToken ==
  ASSUME order \in Layouts, NEW S \in SUBSET Book, S # {}
  PROVE  \E o \in S : \A x \in S : Token(x) <= Token(o)
<1> DEFINE Good == {T \in SUBSET S : T # {} => \E o \in T : \A x \in T : Token(x) <= Token(o)}
<1>1. \A o \in S : Token(o) \in Nat
  BY BookIs
<1>2. ASSUME NEW T \in SUBSET S, \A U \in SUBSET T : U # T => U \in Good, T # {}
      PROVE  \E o \in T : \A x \in T : Token(x) <= Token(o)
  <2>1. PICK y \in T : TRUE
    BY <1>2
  <2>2. CASE T = {y}
    BY <1>1, <2>2
  <2>3. CASE T # {y}
    <3>1. T \ {y} \in Good /\ T \ {y} # {}
      BY <1>2, <2>1, <2>3
    <3>2. PICK o \in T \ {y} : \A x \in T \ {y} : Token(x) <= Token(o)
      BY <3>1
    <3>3. CASE Token(y) <= Token(o)
      BY <3>2, <3>3
    <3>4. CASE ~(Token(y) <= Token(o))
      <4>1. \A x \in T : Token(x) <= Token(y)
        BY <1>1, <3>2, <3>4
      <4>2. QED  BY <2>1, <4>1
    <3>5. QED  BY <3>3, <3>4
  <2>4. QED  BY <2>2, <2>3
<1>3. IsFiniteSet(S)
  BY BookIs
<1>4. \A T \in SUBSET S : (\A U \in SUBSET T : U # T => U \in Good) => T \in Good
  BY <1>2
<1> HIDE DEF Good
<1>5. S \in Good
  BY <1>3, <1>4, SubsetInduction
<1>6. QED  BY <1>5 DEF Good

LEMMA NextMinIs ==
  ASSUME order \in Layouts, paging.batch \in SUBSET Book, paging.batch # {}
  PROVE  \E o \in paging.batch : NextMin = Token(o) /\ \A x \in paging.batch : Token(x) <= Token(o)
<1> DEFINE last == CHOOSE o \in paging.batch : \A x \in paging.batch : Token(x) <= Token(o)
<1>1. last \in paging.batch /\ \A x \in paging.batch : Token(x) <= Token(last)
  BY LastToken
<1>2. NextMin = Token(last)
  BY DEF NextMin
<1>3. QED  BY <1>1, <1>2

LEMMA PagingTypeStep ==
  ASSUME PagingTypeOK, [PagingNext]_pagingVars
  PROVE  PagingTypeOK'
<1>1. CASE ReadBatch
  <2>1. PICK batch \in SUBSET From(paging.min) :
          paging' = [paging EXCEPT !.pc = "settle", !.batch = batch, !.read = batch \cap stale,
                                   !.hasMore = Cardinality(batch) >= BatchSize]
    BY <1>1 DEF ReadBatch
  <2>2. batch \in SUBSET Book
    BY DEF From
  <2>3. (Cardinality(batch) >= BatchSize) \in BOOLEAN
    OBVIOUS
  <2>4. paging' \in Paging
    BY <2>1, <2>2, <2>3 DEF PagingTypeOK, Paging
  <2>5. QED  BY <1>1, <2>4 DEF ReadBatch, PagingTypeOK
<1>2. CASE SettleGroups
  <2>1. /\ order \in Layouts /\ paging.batch \in SUBSET Book /\ paging.min \in Nat
        /\ paging.hasMore \in BOOLEAN
    BY DEF PagingTypeOK, Paging
  <2>2. paging.batch # {} => NextMin \in Nat
    BY <2>1, NextMinIs, BookIs
  <2>3. paging' \in Paging
    <3>1. paging' = [pc |-> IF paging.hasMore THEN "read" ELSE "done",
                     min |-> IF paging.batch = {} THEN paging.min ELSE NextMin,
                     hasMore |-> paging.hasMore, batch |-> {}, read |-> {}]
      BY <1>2 DEF SettleGroups
    <3>2. QED  BY <2>1, <2>2, <3>1 DEF Paging
  <2>4. Settled \in SUBSET Book
    BY <2>1 DEF Settled
  <2>5. sent' \subseteq Book \X BOOLEAN
    <3>1. \A o : Worse(o, paging.batch) \in BOOLEAN
      BY DEF Worse
    <3>2. sent' = sent \cup {<<o, Worse(o, paging.batch)>> :
                               o \in {x \in Settled : Worse(x, paging.batch) # (x \in paging.read)}}
      BY <1>2 DEF SettleGroups
    <3>3. QED  BY <2>4, <3>1, <3>2 DEF PagingTypeOK
  <2>6. split' \subseteq Book
    BY <1>2, <2>4 DEF SettleGroups, PagingTypeOK
  <2>7. QED  BY <1>2, <2>3, <2>5, <2>6 DEF SettleGroups, PagingTypeOK
<1>3. CASE UpdateOrderStaleness
  <2>1. PICK u \in sent : /\ stale' = IF u[2] THEN stale \cup {u[1]} ELSE stale \ {u[1]}
                          /\ sent' = sent \ {u} /\ UNCHANGED <<order, paging, split>>
    BY <1>3 DEF UpdateOrderStaleness
  <2>2. u \in Book \X BOOLEAN
    BY DEF PagingTypeOK
  <2>3. QED  BY <2>1, <2>2 DEF PagingTypeOK
<1>4. CASE UNCHANGED pagingVars
  BY <1>4 DEF pagingVars, PagingTypeOK
<1>5. QED  BY <1>1, <1>2, <1>3, <1>4 DEF PagingNext

LEMMA PagingTypeInit == PagingInit => PagingTypeOK
BY DEF PagingInit, PagingTypeOK, Paging

LEMMA PagingTypeCorrect == PagingSpec => []PagingTypeOK
BY PagingTypeInit, PagingTypeStep, PTL DEF PagingSpec

\* An order of a group that was not decided in part.
Whole(o) == GroupOf(o) \cap split = {}

\* Only what is right is on the way, but for groups that were decided in part;
\* so what was right when a batch was read is right when it is settled.
SentInv ==
  /\ \A o \in Book :
       /\ <<o, TRUE>> \in sent => Worse(o, Book)
       /\ <<o, FALSE>> \in sent /\ Worse(o, Book) => ~Whole(o)
  /\ paging.pc = "settle" => \A o \in paging.batch :
       /\ ~Worse(o, Book) /\ o \notin paging.read => o \notin stale
       /\ Worse(o, Book) /\ Whole(o) /\ o \in paging.read => o \in stale

BatchInv ==
  /\ paging.pc = "settle" =>
       /\ paging.batch \subseteq From(paging.min) /\ IsBatch(paging.batch, paging.min)
       /\ paging.hasMore <=> Cardinality(paging.batch) >= BatchSize
  /\ paging.pc = "read" => paging.hasMore

\* The orders that are right, or will be once what is on the way is made.
Decided(o) ==
  /\ ~Worse(o, Book) => o \notin stale \/ <<o, FALSE>> \in sent
  /\ Worse(o, Book) /\ Whole(o) => o \in stale \/ <<o, TRUE>> \in sent

DecidedInv ==
  NoTokenFillsABatch =>
    \A o \in Book : paging.pc = "done" \/ Token(o) < paging.min => Decided(o)

PagingInv == PagingTypeOK /\ SentInv /\ BatchInv /\ DecidedInv

LEMMA PagingIs ==
  ASSUME PagingTypeOK
  PROVE  /\ order \in Layouts /\ paging.pc \in {"read", "settle", "done"}
         /\ paging.min \in Nat /\ paging.hasMore \in BOOLEAN
         /\ paging.batch \in SUBSET Book /\ paging.read \in SUBSET Book
BY DEF PagingTypeOK, Paging

LEMMA SameBook ==
  ASSUME UNCHANGED order
  PROVE  /\ \A o : Token(o)' = Token(o) /\ GroupOf(o)' = GroupOf(o)
         /\ \A o, S : Worse(o, S)' = Worse(o, S)
         /\ \A n : From(n)' = From(n) /\ \A S : IsBatch(S, n)' = IsBatch(S, n)
         /\ NoTokenFillsABatch' = NoTokenFillsABatch
         /\ split' = split => \A o : Whole(o)' = Whole(o)
         /\ split \subseteq split' => \A o : Whole(o)' => Whole(o)
BY DEF Token, GroupOf, Worse, From, IsBatch, SortedBefore, NoTokenFillsABatch, Whole

\* Where a batch is settled, all orders before the next one are in it or came
\* before it.
LEMMA BatchCovers ==
  ASSUME PagingTypeOK, BatchInv, NoTokenFillsABatch, paging.pc = "settle",
         NEW o \in Book, Token(o) >= paging.min,
         paging.hasMore => Token(o) < NextMin
  PROVE  o \in paging.batch /\ Settled = paging.batch
<1> DEFINE batch == paging.batch
           rest == From(paging.min)
<1>1. /\ order \in Layouts /\ paging.min \in Nat /\ batch \in SUBSET Book
      /\ rest \in SUBSET Book /\ o \in rest
  BY PagingIs DEF From
<1>2. /\ IsFiniteSet(rest) /\ Cardinality(rest) \in Nat /\ Cardinality(batch) \in Nat
      /\ BatchSize \in Nat \ {0} /\ \A x \in Book : Token(x) \in Tokens /\ Token(x) \in Nat
  BY <1>1, BookIs
<1>3. /\ batch \subseteq rest
      /\ Cardinality(batch) = IF Cardinality(rest) < BatchSize THEN Cardinality(rest) ELSE BatchSize
      /\ \A x \in batch, y \in rest \ batch : ~(Token(y) < Token(x))
      /\ paging.hasMore <=> Cardinality(batch) >= BatchSize
  BY DEF BatchInv, IsBatch, SortedBefore
<1>4. CASE ~paging.hasMore
  <2>1. Cardinality(batch) = Cardinality(rest)
    BY <1>2, <1>3, <1>4
  <2>2. batch = rest
    BY <1>2, <1>3, <2>1, FS_Subset
  <2>3. QED  BY <1>1, <1>4, <2>2 DEF Settled
<1>5. CASE paging.hasMore
  <2>1. batch # {}
    <3>1. Cardinality(batch) # 0
      BY <1>2, <1>3, <1>5
    <3>2. QED  BY <3>1, FS_EmptySet
  <2>2. PICK last \in batch : NextMin = Token(last) /\ \A x \in batch : Token(x) <= Token(last)
    BY <1>1, <2>1, NextMinIs
  <2>3. o \in batch
    BY <1>1, <1>3, <1>5, <2>2
  <2>4. ASSUME \A x, y \in batch : order[x] = order[y]
        PROVE  FALSE
    <3> DEFINE t == Token(last)
               all_t == {x \in Book : Token(x) = t}
    <3>1. batch \subseteq all_t
      BY <1>1, <2>2, <2>4 DEF Token
    <3>2. Cardinality(all_t) < BatchSize
      BY <1>1, <1>2, <2>2 DEF NoTokenFillsABatch
    <3>3. IsFiniteSet(all_t) /\ Cardinality(all_t) \in Nat
      BY <1>1, BookIs
    <3>4. Cardinality(batch) <= Cardinality(all_t)
      BY <3>1, <3>3, FS_Subset
    <3>5. QED  BY <1>2, <1>3, <1>5, <3>2, <3>3, <3>4
  <2>5. QED  BY <1>5, <2>3, <2>4 DEF Settled
<1>6. QED  BY <1>1, <1>4, <1>5, PagingIs

LEMMA SettleIs ==
  ASSUME PagingTypeOK, SettleGroups
  PROVE  /\ paging.pc = "settle" /\ UNCHANGED <<order, stale>>
         /\ Settled \subseteq paging.batch
         /\ sent \subseteq sent' /\ split \subseteq split'
         /\ \A o, b : <<o, b>> \in sent' =>
              <<o, b>> \in sent \/ (o \in Settled /\ b = Worse(o, paging.batch))
         /\ \A o \in Settled :
              /\ (Worse(o, paging.batch) /\ o \notin paging.read) => <<o, TRUE>> \in sent'
              /\ (~Worse(o, paging.batch) /\ o \in paging.read) => <<o, FALSE>> \in sent'
              /\ ~(GroupOf(o) \subseteq paging.batch) => o \in split'
         /\ paging'.pc = IF paging.hasMore THEN "read" ELSE "done"
         /\ paging'.min = IF paging.batch = {} THEN paging.min ELSE NextMin
         /\ paging'.hasMore = paging.hasMore
<1> DEFINE worse(o) == Worse(o, paging.batch)
<1>1. /\ paging.pc = "settle" /\ UNCHANGED <<order, stale>>
      /\ sent' = sent \cup {<<o, worse(o)>> : o \in {x \in Settled : worse(x) # (x \in paging.read)}}
      /\ split' = split \cup {o \in Settled : ~(GroupOf(o) \subseteq paging.batch)}
      /\ paging' = [pc |-> IF paging.hasMore THEN "read" ELSE "done",
                    min |-> IF paging.batch = {} THEN paging.min ELSE NextMin,
                    hasMore |-> paging.hasMore, batch |-> {}, read |-> {}]
  BY DEF SettleGroups
<1>2. Settled \subseteq paging.batch
  BY DEF Settled
<1>3. \A o : worse(o) \in BOOLEAN
  BY DEF Worse
<1> HIDE DEF worse
<1>4. \A o, b : <<o, b>> \in sent' => <<o, b>> \in sent \/ (o \in Settled /\ b = worse(o))
  BY <1>1
<1>5. ASSUME NEW o \in Settled
      PROVE  /\ (worse(o) /\ o \notin paging.read) => <<o, TRUE>> \in sent'
             /\ (~worse(o) /\ o \in paging.read) => <<o, FALSE>> \in sent'
  <2>1. worse(o) # (o \in paging.read) => <<o, worse(o)>> \in sent'
    BY <1>1
  <2>2. worse(o) = TRUE \/ worse(o) = FALSE
    BY <1>3
  <2>3. QED  BY <2>1, <2>2
<1>6. QED  BY <1>1, <1>2, <1>4, <1>5 DEF worse

LEMMA SettleStep ==
  ASSUME PagingInv, SettleGroups
  PROVE  SentInv' /\ BatchInv' /\ DecidedInv'
<1> DEFINE batch == paging.batch
<1>1. /\ paging.pc = "settle" /\ UNCHANGED <<order, stale>> /\ Settled \subseteq batch
      /\ sent \subseteq sent' /\ split \subseteq split' /\ batch \in SUBSET Book
      /\ paging'.pc \in {"read", "done"}
      /\ paging'.pc = "read" => paging'.hasMore
  BY SettleIs, PagingIs DEF PagingInv
<1>2. \A o \in Book : GroupOf(o) \in SUBSET Book /\ o \in GroupOf(o)
  BY DEF GroupOf
<1>3. \A o \in Book : Worse(o, batch) => Worse(o, Book)
  BY <1>1 DEF Worse
<1>4. \A o \in Book : GroupOf(o) \subseteq batch /\ Worse(o, Book) => Worse(o, batch)
  BY <1>1 DEF Worse
<1>5. \A o \in Settled : ~(GroupOf(o) \subseteq batch) => o \in split'
  BY SettleIs DEF PagingInv
<1>6. SentInv'
  <2>1. ASSUME NEW o \in Book, <<o, TRUE>> \in sent'
        PROVE  Worse(o, Book)'
    <3>1. <<o, TRUE>> \in sent \/ Worse(o, batch)
      BY <2>1, SettleIs DEF PagingInv
    <3>2. Worse(o, Book)
      BY <1>3, <3>1 DEF PagingInv, SentInv
    <3>3. QED  BY <1>1, <3>2, SameBook
  <2>2. ASSUME NEW o \in Book, <<o, FALSE>> \in sent', Worse(o, Book)'
        PROVE  ~Whole(o)'
    <3>1. Worse(o, Book)
      BY <1>1, <2>2, SameBook
    <3>2. <<o, FALSE>> \in sent \/ (o \in Settled /\ ~Worse(o, batch))
      BY <2>2, SettleIs DEF PagingInv
    <3>3. CASE <<o, FALSE>> \in sent
      <4>1. ~Whole(o)
        BY <3>1, <3>3 DEF PagingInv, SentInv
      <4>2. QED  BY <1>1, <4>1, SameBook
    <3>4. CASE o \in Settled /\ ~Worse(o, batch)
      <4>1. o \in split' /\ o \in GroupOf(o)'
        BY <1>1, <1>2, <1>4, <1>5, <3>1, <3>4, SameBook
      <4>2. QED  BY <4>1 DEF Whole
    <3>5. QED  BY <3>2, <3>3, <3>4
  <2>3. QED  BY <1>1, <2>1, <2>2 DEF SentInv
<1>7. BatchInv'
  BY <1>1 DEF BatchInv
<1>8. ASSUME NoTokenFillsABatch, NEW o \in Book, paging'.pc = "done" \/ Token(o) < paging'.min
      PROVE  Decided(o)'
  <2>1. Token(o) \in Nat /\ paging.min \in Nat
    BY PagingIs, BookIs DEF PagingInv
  <2>2. CASE Token(o) < paging.min
    <3>1. Decided(o)
      BY <1>8, <2>2 DEF PagingInv, DecidedInv
    <3>2. QED  BY <1>1, <3>1, SameBook DEF Decided
  <2>3. CASE Token(o) >= paging.min
    <3>1. paging.hasMore => Token(o) < NextMin
      <4>1. ASSUME paging.hasMore
            PROVE  Token(o) < NextMin
        <5>1. paging'.pc = "read"
          BY <4>1, SettleIs DEF PagingInv
        <5>2. Token(o) < paging'.min
          BY <1>8, <5>1
        <5>3. paging'.min = IF batch = {} THEN paging.min ELSE NextMin
          BY SettleIs DEF PagingInv
        <5>4. CASE batch = {}
          BY <2>1, <2>3, <5>2, <5>3, <5>4
        <5>5. CASE batch # {}
          BY <5>2, <5>3, <5>5
        <5>6. QED  BY <5>4, <5>5
      <4>2. QED  BY <4>1
    <3>2. o \in batch /\ Settled = batch
      BY <1>1, <1>8, <2>3, <3>1, BatchCovers DEF PagingInv
    <3>3. ~Worse(o, Book) => o \notin stale \/ <<o, FALSE>> \in sent'
      <4>1. ASSUME ~Worse(o, Book), o \in stale
            PROVE  <<o, FALSE>> \in sent'
        <5>1. o \in paging.read /\ ~Worse(o, batch)
          BY <1>1, <1>3, <3>2, <4>1 DEF PagingInv, SentInv
        <5>2. QED  BY <3>2, <5>1, SettleIs DEF PagingInv
      <4>2. QED  BY <4>1
    <3>4. ASSUME Worse(o, Book), Whole(o)', o \notin stale
          PROVE  <<o, TRUE>> \in sent'
      <4>1. Whole(o) /\ o \notin split'
        BY <1>1, <1>2, <3>4, SameBook DEF Whole
      <4>2. Worse(o, batch)
        BY <1>4, <1>5, <3>2, <3>4, <4>1
      <4>3. o \notin paging.read
        BY <1>1, <3>2, <3>4, <4>1 DEF PagingInv, SentInv
      <4>4. QED  BY <3>2, <4>2, <4>3, SettleIs DEF PagingInv
    <3>5. QED  BY <1>1, <3>3, <3>4, SameBook DEF Decided
  <2>4. QED  BY <2>1, <2>2, <2>3
<1>9. DecidedInv'
  BY <1>1, <1>8, SameBook DEF DecidedInv
<1>10. QED  BY <1>6, <1>7, <1>9

LEMMA ReadStep ==
  ASSUME PagingInv, ReadBatch
  PROVE  SentInv' /\ BatchInv' /\ DecidedInv'
<1>1. PICK batch \in SUBSET From(paging.min) :
        /\ IsBatch(batch, paging.min)
        /\ paging' = [paging EXCEPT !.pc = "settle", !.batch = batch, !.read = batch \cap stale,
                                    !.hasMore = Cardinality(batch) >= BatchSize]
  BY DEF ReadBatch
<1>2. paging.pc = "read" /\ UNCHANGED <<order, stale, sent, split>>
  BY DEF ReadBatch
<1>3. /\ paging'.pc = "settle" /\ paging'.batch = batch /\ paging'.read = batch \cap stale
      /\ paging'.min = paging.min
      /\ paging'.hasMore <=> Cardinality(batch) >= BatchSize
  BY <1>1 DEF PagingInv, PagingTypeOK, Paging
<1>4. SentInv'
  BY <1>2, <1>3, SameBook DEF PagingInv, SentInv
<1>5. BatchInv'
  BY <1>1, <1>2, <1>3, SameBook DEF BatchInv
<1>6. DecidedInv'
  BY <1>2, <1>3, SameBook DEF PagingInv, DecidedInv, Decided
<1>7. QED  BY <1>4, <1>5, <1>6

LEMMA UpdateStep ==
  ASSUME PagingInv, UpdateOrderStaleness
  PROVE  SentInv' /\ BatchInv' /\ DecidedInv'
<1>1. PICK u \in sent : /\ stale' = IF u[2] THEN stale \cup {u[1]} ELSE stale \ {u[1]}
                        /\ sent' = sent \ {u} /\ UNCHANGED <<order, paging, split>>
  BY DEF UpdateOrderStaleness
<1>2. PICK x \in Book, b \in BOOLEAN : u = <<x, b>>
  BY DEF PagingInv, PagingTypeOK
<1>3. /\ \A o : o # x => (o \in stale' <=> o \in stale)
      /\ b => x \in stale' /\ Worse(x, Book)
      /\ ~b => x \notin stale' /\ (Worse(x, Book) => ~Whole(x))
  BY <1>1, <1>2 DEF PagingInv, SentInv
<1>4. /\ sent' \subseteq sent
      /\ \A o, c : <<o, c>> \in sent => <<o, c>> \in sent' \/ (o = x /\ c = b)
  BY <1>1, <1>2
<1>5. SentInv'
  BY <1>1, <1>3, <1>4, SameBook DEF PagingInv, SentInv
<1>6. BatchInv'
  BY <1>1, SameBook DEF PagingInv, BatchInv
<1>7. ASSUME NEW o \in Book, Decided(o)
      PROVE  Decided(o)'
  <2>1. Worse(o, Book)' = Worse(o, Book) /\ Whole(o)' = Whole(o)
    BY <1>1, SameBook
  <2>2. CASE o # x
    BY <1>3, <1>4, <1>7, <2>1, <2>2 DEF Decided
  <2>3. CASE o = x
    BY <1>2, <1>3, <1>4, <1>7, <2>1, <2>3 DEF Decided
  <2>4. QED  BY <2>2, <2>3
<1>8. DecidedInv'
  BY <1>1, <1>7, SameBook DEF PagingInv, DecidedInv
<1>9. QED  BY <1>5, <1>6, <1>8

LEMMA PagingStep ==
  ASSUME PagingInv, [PagingNext]_pagingVars
  PROVE  PagingInv'
<1>1. PagingTypeOK'
  BY PagingTypeStep DEF PagingInv
<1>2. CASE UNCHANGED pagingVars
  <2>1. UNCHANGED <<order, stale, paging, sent, split>>
    BY <1>2 DEF pagingVars
  <2>2. SentInv'
    BY <2>1, SameBook DEF PagingInv, SentInv
  <2>3. BatchInv'
    BY <2>1, SameBook DEF PagingInv, BatchInv
  <2>4. DecidedInv'
    BY <2>1, SameBook DEF PagingInv, DecidedInv, Decided
  <2>5. QED  BY <1>1, <2>2, <2>3, <2>4 DEF PagingInv
<1>3. QED
  BY <1>1, <1>2, ReadStep, SettleStep, UpdateStep DEF PagingInv, PagingNext

LEMMA PagingInvInit == PagingInit => PagingInv
<1> SUFFICES ASSUME PagingInit
             PROVE  PagingInv
  OBVIOUS
<1>1. PagingTypeOK
  BY PagingTypeInit
<1>2. \A o \in Book : Token(o) \in Nat
  BY <1>1, BookIs, PagingIs
<1>3. paging.pc = "read" /\ paging.min = 0 /\ paging.hasMore /\ sent = {}
  BY DEF PagingInit
<1>4. \A o \in Book : ~(paging.pc = "done" \/ Token(o) < paging.min)
  BY <1>2, <1>3
<1>5. QED
  BY <1>1, <1>3, <1>4 DEF PagingInv, SentInv, BatchInv, DecidedInv

\* If no token has as many orders as a batch, then once the job is done and
\* everything it has sent is made, of each group the best order is the one that
\* is not stale, but for the others of a group that was cut in two: whatever is
\* read before earlier updates are made, and in whatever order they are.
THEOREM PagingSettlesRight ==
  PagingSpec => [](NoTokenFillsABatch /\ paging.pc = "done" /\ sent = {} => Right)
<1>1. PagingInv => (NoTokenFillsABatch /\ paging.pc = "done" /\ sent = {} => Right)
  BY DEF PagingInv, DecidedInv, Decided, Right, Whole
<1>2. QED  BY <1>1, PagingInvInit, PagingStep, PTL DEF PagingSpec

----------------------------------------------------------------------------
(* The composition.                                                        *)

\* While one part moves the others rest: a behaviour of the whole is one of
\* each of the parts.
THEOREM ServicesCompose ==
  Spec => ThirdPartySpec /\ ListenerSpec /\ StreamSyncSpec /\ PagingSpec
<1>1. Init => ThirdPartyInit /\ ListenerInit /\ StreamSyncInit /\ PagingInit
  BY DEF Init
<1>2. [Next]_services =>
        /\ [ThirdPartyNext]_thirdPartyVars /\ [ListenerNext]_listenerVars
        /\ [StreamSyncNext]_streamSyncVars /\ [PagingNext]_pagingVars
  BY DEF Next, services, ThirdPartyMoves, ListenerMoves, StreamsMove, PagingMoves
<1>3. Spec => Init /\ [][Next]_services
  BY DEF Spec
<1>4. QED
  BY <1>1, <1>2, <1>3, PTL DEF ThirdPartySpec, ListenerSpec, StreamSyncSpec, PagingSpec

\* The types of all four parts.
THEOREM ServicesTyped == Spec => []TypeOK
<1>1. ThirdPartyTypeOK /\ ListenerTypeOK /\ StreamSyncTypeOK /\ PagingTypeOK => TypeOK
  BY DEF TypeOK
<1>2. QED
  BY <1>1, ServicesCompose, ThirdPartyTypeCorrect, ListenerTypeCorrect, StreamSyncTypeCorrect,
     PagingTypeCorrect, PTL
=============================================================================
