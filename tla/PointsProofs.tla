---------------------------- MODULE PointsProofs ----------------------------
(***************************************************************************)
(* Proofs about the points, for any users, wallets, batches, faults and    *)
(* times that runs take: a run that completes has paid every wallet for    *)
(* every hour until its start; totals add up; nothing is paid twice; and   *)
(* a backfill pays each hour by the balance it had.  Then what MCPoints    *)
(* composes, each part with its own theorems.                              *)
(***************************************************************************)
EXTENDS MCPoints, AccountsProofs, FiniteSums, FiniteSetTheorems, WellFoundedInduction,
        SequenceTheorems, TLAPS

\* The half hours at which the last complete run was.
LastRun == IF lastProcessed = NoRow THEN 0 ELSE lastProcessed

\* The types of what the hourly job pays hours by.  Users' points are left out:
\* they are sums.
HoursTypeOK ==
  /\ clock \in Nat /\ slow \in Nat
  /\ michiWallets \subseteq Indices
  /\ lastProcessed \in Nat \cup {NoRow} /\ LastRun <= clock
  /\ pointsJob \in PointsJob
  /\ pointsJob.pc # "idle" => pointsJob.started <= clock /\ pointsJob.started % 2 = 0
  /\ credited \in [Indices -> Nat]

\* The half hours since the start of the run.
Ahead == clock - pointsJob.started

\* The hours until the start of the run.
Target == pointsJob.started \div 2

\* Wallets are paid until the last complete run.  Those below the next batch
\* are paid until the start of this one, those of the batch are in it, and
\* until their backfill is done they are to be paid what they lack but for one.
\* While the job is running, slow makes up for the time that passes.
MadeUpInv ==
  /\ HoursTypeOK
  /\ pointsJob.pc = "idle" =>
       \A w \in michiWallets : credited[w] + slow >= RoundToNearestHour(LastRun)
  /\ pointsJob.pc # "idle" =>
       \A w \in michiWallets :
         /\ credited[w] + slow >= RoundToNearestHour(LastRun) + Ahead
         /\ w < pointsJob.from => credited[w] + slow >= Target + Ahead
  /\ pointsJob.pc \in {"getBalances", "setBackfill", "setPoints"} =>
       \A w \in michiWallets :
         pointsJob.from <= w /\ w < pointsJob.from + WalletsPerBatch => w \in pointsJob.batch
  /\ pointsJob.pc = "setBackfill" =>
       RoundToNearestHour(LastRun) + pointsJob.hours + 1 >= Target
  /\ pointsJob.pc = "setPoints" =>
       \A w \in michiWallets : credited[w] + slow + 1 >= Target + Ahead
  /\ pointsJob.pc = "setTime" =>
       \A w \in michiWallets : credited[w] + slow >= Target + Ahead

----------------------------------------------------------------------------
(* Hours and batches.                                                      *)

LEMMA Halves ==
  /\ \A n \in Nat : RoundToNearestHour(n) \in Nat
  /\ \A n \in Nat : 2 * RoundToNearestHour(n) \in {n, n + 1}
  /\ \A n \in Nat : n % 2 = 0 => 2 * (n \div 2) = n /\ n \div 2 \in Nat
BY DEF RoundToNearestHour

LEMMA Credits ==
  ASSUME NEW hours, PayHours(hours)
  PROVE  credited' = [w \in Indices |-> credited[w] + IF w \in DOMAIN hours THEN hours[w] ELSE 0]
BY DEF PayHours

LEMMA IdleRun ==
  /\ IdlePointsJob \in PointsJob /\ IdlePointsJob.pc = "idle"
  /\ IdlePointsJob.from = 0
BY DEF IdlePointsJob, PointsJob

\* Before the first of a batch there are fewer wallets than places.
LEMMA FewBefore ==
  ASSUME HoursTypeOK, NEW i \in Nat, NEW w \in michiWallets, i <= w, w < i + WalletsPerBatch
  PROVE  w \in WalletsFrom(i)
<1> DEFINE before == {k \in michiWallets : i <= k /\ k < w}
<1>1. w \in Nat /\ michiWallets \subseteq Nat /\ WalletsPerBatch \in Nat
  BY PointsAssumption DEF HoursTypeOK
<1>2. IsFiniteSet(i .. w - 1) /\ Cardinality(i .. w - 1) = w - i
  <2>1. IsFiniteSet(i .. w - 1)
        /\ Cardinality(i .. w - 1) = IF i > w - 1 THEN 0 ELSE (w - 1) - i + 1
    BY <1>1, FS_Interval
  <2>2. QED  BY <1>1, <2>1
<1>3. before \subseteq i .. w - 1
  <2> SUFFICES ASSUME NEW k \in michiWallets, i <= k, k < w
               PROVE  k \in i .. w - 1
    BY Zenon
  <2>1. k \in Nat
    BY <1>1
  <2>2. QED  BY <1>1, <2>1
<1>4. Cardinality(before) <= w - i /\ Cardinality(before) \in Nat
  BY <1>2, <1>3, FS_Subset, FS_CardinalityType
<1>5. Cardinality(before) < WalletsPerBatch
  BY <1>1, <1>4
<1>6. QED  BY <1>1, <1>5 DEF WalletsFrom

\* An empty batch is the end of the table.
LEMMA EmptyBatch ==
  ASSUME HoursTypeOK, NEW i \in Nat, WalletsFrom(i) = {}
  PROVE  \A w \in michiWallets : w < i
<1> DEFINE rest == {w \in michiWallets : w >= i}
<1>1. /\ michiWallets \subseteq Nat /\ IsFiniteSet(michiWallets)
      /\ WalletsPerBatch \in Nat \ {0}
  BY PointsAssumption, FS_Subset DEF HoursTypeOK
<1>2. SUFFICES ASSUME rest # {}
               PROVE  FALSE
  BY <1>1
<1>3. PICK w \in rest : \A v \in rest : w <= v
  <2>1. rest \subseteq Nat /\ rest # {}
    BY <1>1, <1>2
  <2> HIDE DEF rest
  <2>2. QED  BY <2>1, SmallestIn
<1>4. {k \in michiWallets : i <= k /\ k < w} = {}
  <2> SUFFICES ASSUME NEW k \in michiWallets, i <= k, k < w
               PROVE  FALSE
    BY Zenon
  <2>1. k \in Nat /\ w \in Nat /\ k >= i
    BY <1>1
  <2>2. w <= k
    BY <1>3, <2>1
  <2>3. QED  BY <2>1, <2>2
<1>5. Cardinality({k \in michiWallets : i <= k /\ k < w}) = 0
  BY <1>4, FS_EmptySet
<1>6. w \in WalletsFrom(i)
  BY <1>1, <1>3, <1>5 DEF WalletsFrom
<1>7. QED  BY <1>6

----------------------------------------------------------------------------
(* Types.                                                                  *)

LEMMA JobIs ==
  ASSUME HoursTypeOK
  PROVE  /\ pointsJob.pc \in {"idle", "getBatch", "getBalances", "setBackfill", "setPoints", "setTime"}
         /\ pointsJob.started \in Nat /\ pointsJob.from \in Nat /\ pointsJob.hours \in Nat
         /\ pointsJob.batch \subseteq Indices
         /\ LastRun \in Nat /\ RoundToNearestHour(LastRun) \in Nat
         /\ WalletsPerBatch \in Nat \ {0} /\ Indices \subseteq Nat
<1>1. LastRun \in Nat
  BY PointsAssumption DEF HoursTypeOK, LastRun
<1>2. RoundToNearestHour(LastRun) \in Nat
  BY <1>1, Halves
<1>3. pointsJob \in PointsJob
  BY DEF HoursTypeOK
<1>4. QED  BY <1>1, <1>2, <1>3, PointsAssumption DEF PointsJob

\* What may have been paid since the last state.
OnlyMore ==
  /\ credited' \in [Indices -> Nat]
  /\ \A w \in Indices : credited'[w] >= credited[w]

LEMMA PaidMore ==
  ASSUME HoursTypeOK, NEW hours, PayHours(hours), \A w \in DOMAIN hours : hours[w] \in Nat
  PROVE  /\ OnlyMore
         /\ \A w \in Indices : w \in DOMAIN hours => credited'[w] = credited[w] + hours[w]
<1>1. credited' = [w \in Indices |-> credited[w] + IF w \in DOMAIN hours THEN hours[w] ELSE 0]
  BY Credits
<1>2. credited \in [Indices -> Nat]
  BY DEF HoursTypeOK
<1>3. QED  BY <1>1, <1>2 DEF OnlyMore

\* What a wallet is paid by the backfill: every hour, at least once.
LEMMA InABatch ==
  ASSUME HoursTypeOK, NEW w \in michiWallets
  PROVE  Cardinality(BatchesWith(w)) \in Nat /\ Cardinality(BatchesWith(w)) >= 1
<1>1. w \in Nat /\ WalletsPerBatch \in Nat \ {0}
  BY JobIs DEF HoursTypeOK
<1> DEFINE k == w \div WalletsPerBatch
<1>2. k \in Nat /\ k * WalletsPerBatch <= w /\ w < k * WalletsPerBatch + WalletsPerBatch
      /\ k \in 0 .. w /\ k * WalletsPerBatch \in Nat
  BY <1>1
<1>3. k \in BatchesWith(w)
  <2>1. w \in WalletsFrom(k * WalletsPerBatch)
    BY <1>2, FewBefore
  <2>2. QED  BY <1>2, <2>1 DEF BatchesWith
<1>4. IsFiniteSet(BatchesWith(w))
  <2>1. IsFiniteSet(0 .. w) /\ BatchesWith(w) \subseteq 0 .. w
    BY <1>1, FS_Interval DEF BatchesWith
  <2>2. QED  BY <2>1, FS_Subset
<1>5. Cardinality(BatchesWith(w)) \in Nat /\ Cardinality(BatchesWith(w)) # 0
  BY <1>3, <1>4, FS_CardinalityType, FS_EmptySet
<1>6. QED  BY <1>5

LEMMA BackfillPays ==
  ASSUME HoursTypeOK, SetBackfill
  PROVE  /\ OnlyMore
         /\ \A w \in michiWallets : credited'[w] >= credited[w] + pointsJob.hours
<1> DEFINE hours == [w \in michiWallets |-> pointsJob.hours * Cardinality(BatchesWith(w))]
<1>1. PayHours(hours)
  BY DEF SetBackfill
<1>2. \A w \in michiWallets : hours[w] \in Nat /\ hours[w] >= pointsJob.hours
  <2> TAKE w \in michiWallets
  <2>1. /\ pointsJob.hours \in Nat
        /\ Cardinality(BatchesWith(w)) \in Nat /\ Cardinality(BatchesWith(w)) >= 1
    BY JobIs, InABatch
  <2>2. \A m, n \in Nat : n >= 1 => m * n \in Nat /\ m * n >= m
    OBVIOUS
  <2>3. QED  BY <2>1, <2>2
<1>3. DOMAIN hours = michiWallets /\ michiWallets \subseteq Indices
  BY DEF HoursTypeOK
<1> HIDE DEF hours
<1>4. /\ OnlyMore
      /\ \A w \in michiWallets : credited'[w] = credited[w] + hours[w]
  BY <1>1, <1>2, <1>3, PaidMore
<1>5. \A w \in michiWallets : credited[w] \in Nat
  BY <1>3 DEF HoursTypeOK
<1>6. QED  BY <1>2, <1>4, <1>5, JobIs

LEMMA BatchPays ==
  ASSUME HoursTypeOK, SetPoints
  PROVE  /\ OnlyMore
         /\ \A w \in pointsJob.batch : credited'[w] = credited[w] + 1
<1> DEFINE hours == [w \in pointsJob.batch |-> 1]
<1>1. PayHours(hours)
  BY DEF SetPoints
<1>2. /\ \A w \in pointsJob.batch : hours[w] = 1
      /\ DOMAIN hours = pointsJob.batch /\ pointsJob.batch \subseteq Indices
  BY JobIs
<1> HIDE DEF hours
<1>3. QED  BY <1>1, <1>2, PaidMore

\* The step keeps what the hourly job pays hours by, and the job.
LEMMA SameJob ==
  ASSUME MadeUpInv, UNCHANGED <<clock, michiWallets, lastProcessed, pointsJob, credited, slow>>
  PROVE  MadeUpInv'
BY DEF MadeUpInv, HoursTypeOK, LastRun, Ahead, Target

\* A run that goes on keeps its start.
LEMMA JobGoesOn ==
  ASSUME HoursTypeOK, UNCHANGED <<clock, michiWallets, lastProcessed, slow>>,
         pointsJob' \in PointsJob, pointsJob.pc # "idle", pointsJob'.started = pointsJob.started,
         credited' \in [Indices -> Nat]
  PROVE  HoursTypeOK' /\ LastRun' = LastRun /\ Ahead' = Ahead /\ Target' = Target
BY DEF HoursTypeOK, LastRun, Ahead, Target

LEMMA TickStep == ASSUME MadeUpInv, Tick PROVE MadeUpInv'
<1>1. HoursTypeOK
  BY DEF MadeUpInv
<1>2. /\ clock' = clock + 1 /\ clock \in Nat /\ slow \in Nat
      /\ UNCHANGED <<michiWallets, lastProcessed, credited>>
  BY <1>1 DEF Tick, HoursTypeOK, tablesOfPoints, histories
<1>3. slow' \in {slow, slow + 1} /\ (pointsJob.pc # "idle" => slow' = slow + 1)
  BY DEF Tick, Running
<1>4. LastRun' = LastRun /\ LastRun \in Nat /\ LastRun <= clock
  BY <1>1, <1>2, JobIs DEF LastRun, HoursTypeOK
<1>5. \A w \in michiWallets : credited[w] \in Nat
  BY <1>1 DEF HoursTypeOK
<1>6. /\ RoundToNearestHour(LastRun) \in Nat /\ 2 * RoundToNearestHour(LastRun) \in {LastRun, LastRun + 1}
  BY <1>4, Halves
<1>7. CASE UNCHANGED pointsJob
  <2>1. HoursTypeOK'
    BY <1>1, <1>2, <1>3, <1>4, <1>7, JobIs DEF HoursTypeOK
  <2>2. CASE pointsJob.pc = "idle"
    <3>1. \A w \in michiWallets : credited[w] + slow >= RoundToNearestHour(LastRun)
      BY <2>2 DEF MadeUpInv
    <3>2. \A w \in michiWallets : credited[w] + slow' >= RoundToNearestHour(LastRun)
      BY <1>2, <1>3, <1>5, <1>6, <3>1
    <3>3. QED  BY <1>2, <1>4, <1>7, <2>1, <2>2, <3>2 DEF MadeUpInv
  <2>3. CASE pointsJob.pc # "idle"
    <3> DEFINE target == Target
               ahead == Ahead
    <3>1. /\ Target' = target /\ Ahead' = ahead + 1 /\ slow' = slow + 1
          /\ target \in Nat /\ ahead \in Nat
      BY <1>1, <1>2, <1>3, <1>7, <2>3, JobIs, Halves DEF Target, Ahead, HoursTypeOK
    <3>2. /\ \A w \in michiWallets :
              /\ credited[w] + slow >= RoundToNearestHour(LastRun) + ahead
              /\ w < pointsJob.from => credited[w] + slow >= target + ahead
          /\ pointsJob.pc \in {"getBalances", "setBackfill", "setPoints"} =>
               \A w \in michiWallets :
                 pointsJob.from <= w /\ w < pointsJob.from + WalletsPerBatch => w \in pointsJob.batch
          /\ pointsJob.pc = "setBackfill" =>
               RoundToNearestHour(LastRun) + pointsJob.hours + 1 >= target
          /\ pointsJob.pc = "setPoints" =>
               \A w \in michiWallets : credited[w] + slow + 1 >= target + ahead
          /\ pointsJob.pc = "setTime" =>
               \A w \in michiWallets : credited[w] + slow >= target + ahead
      BY <2>3 DEF MadeUpInv
    <3> HIDE DEF target, ahead
    <3>3. \A w \in michiWallets :
            /\ credited[w] + slow' >= RoundToNearestHour(LastRun) + (ahead + 1)
            /\ w < pointsJob.from => credited[w] + slow' >= target + (ahead + 1)
      BY <1>2, <1>5, <1>6, <3>1, <3>2
    <3>4. pointsJob.pc = "setPoints" =>
            \A w \in michiWallets : credited[w] + slow' + 1 >= target + (ahead + 1)
      BY <1>2, <1>5, <3>1, <3>2
    <3>5. pointsJob.pc = "setTime" =>
            \A w \in michiWallets : credited[w] + slow' >= target + (ahead + 1)
      BY <1>2, <1>5, <3>1, <3>2
    <3>6. QED  BY <1>2, <1>4, <1>7, <2>1, <2>3, <3>1, <3>2, <3>3, <3>4, <3>5 DEF MadeUpInv
  <2>4. QED  BY <2>2, <2>3
<1>8. CASE /\ clock' % 2 = 0 /\ pointsJob.pc = "idle"
           /\ pointsJob' = [IdlePointsJob EXCEPT !.pc = "getBatch", !.started = clock']
  <2>1. /\ pointsJob' \in PointsJob /\ pointsJob'.pc = "getBatch"
        /\ pointsJob'.started = clock' /\ pointsJob'.from = 0
    <3>1. clock' \in Nat
      BY <1>2
    <3>2. QED  BY <1>8, <3>1, IdleRun DEF PointsJob
  <2>2. HoursTypeOK' /\ Ahead' = 0
    BY <1>1, <1>2, <1>3, <1>4, <1>8, <2>1, JobIs DEF HoursTypeOK, Ahead
  <2>3. \A w \in michiWallets : w \in Nat
    BY <1>1, JobIs DEF HoursTypeOK
  <2>4. \A w \in michiWallets : credited[w] + slow >= RoundToNearestHour(LastRun)
    BY <1>8 DEF MadeUpInv
  <2>5. \A w \in michiWallets : credited[w] + slow' >= RoundToNearestHour(LastRun) + 0
    BY <1>2, <1>3, <1>5, <1>6, <2>4
  <2>6. \A w \in michiWallets : ~(w < 0)
    BY <2>3
  <2>7. QED  BY <1>2, <1>4, <2>1, <2>2, <2>5, <2>6 DEF MadeUpInv
<1>9. QED  BY <1>7, <1>8 DEF Tick

LEMMA GetBatchStep == ASSUME MadeUpInv, GetBatch PROVE MadeUpInv'
<1>1. HoursTypeOK /\ pointsJob.pc = "getBatch"
  BY DEF MadeUpInv, GetBatch
<1> DEFINE batch == WalletsFrom(pointsJob.from)
           pc == IF batch = {} THEN "setTime" ELSE "getBalances"
<1>2. pointsJob' = [pointsJob EXCEPT !.pc = pc, !.batch = batch]
  BY DEF GetBatch
<1>3. /\ batch \subseteq Indices
      /\ pc = "setTime" => \A w \in michiWallets : w < pointsJob.from
      /\ \A w \in michiWallets :
           pointsJob.from <= w /\ w < pointsJob.from + WalletsPerBatch => w \in batch
      /\ pc \in {"setTime", "getBalances"}
  BY <1>1, JobIs, EmptyBatch, FewBefore DEF WalletsFrom, HoursTypeOK
<1>4. UNCHANGED <<clock, michiWallets, lastProcessed, credited, slow>>
  BY DEF GetBatch, tablesOfPoints, histories, bounded
<1> HIDE DEF batch, pc
<1>5. /\ pointsJob' \in PointsJob /\ pointsJob'.pc = pc /\ pointsJob'.batch = batch
      /\ pointsJob'.from = pointsJob.from /\ pointsJob'.started = pointsJob.started
  BY <1>1, <1>2, <1>3 DEF HoursTypeOK, PointsJob
<1>6. HoursTypeOK' /\ LastRun' = LastRun /\ Ahead' = Ahead /\ Target' = Target
  BY <1>1, <1>4, <1>5, JobGoesOn DEF HoursTypeOK
<1>7. \A w \in michiWallets :
        /\ credited[w] + slow >= RoundToNearestHour(LastRun) + Ahead
        /\ w < pointsJob.from => credited[w] + slow >= Target + Ahead
  BY <1>1 DEF MadeUpInv
<1>8. QED  BY <1>3, <1>4, <1>5, <1>6, <1>7 DEF MadeUpInv

\* What is missing to the start of the run after the backfill is the hour that
\* the batch is paid.
LEMMA BackfillIsEnough ==
  ASSUME HoursTypeOK, pointsJob.pc # "idle"
  PROVE  /\ BackfillNeeded => /\ HoursToBackfill \in Nat
                             /\ RoundToNearestHour(LastRun) + HoursToBackfill + 1 >= Target
         /\ ~BackfillNeeded => RoundToNearestHour(LastRun) + 1 >= Target
<1>1. /\ clock \in Nat /\ LastRun \in Nat /\ LastRun <= clock
      /\ pointsJob.started \in Nat /\ pointsJob.started <= clock
      /\ 2 * Target = pointsJob.started /\ Target \in Nat
  BY JobIs, Halves DEF HoursTypeOK, Target
<1>2. /\ RoundToNearestHour(clock) \in Nat
      /\ 2 * RoundToNearestHour(clock) \in {clock, clock + 1}
      /\ RoundToNearestHour(LastRun) \in Nat
      /\ 2 * RoundToNearestHour(LastRun) \in {LastRun, LastRun + 1}
  BY <1>1, Halves
<1>3. ASSUME BackfillNeeded
      PROVE  /\ HoursToBackfill \in Nat
             /\ RoundToNearestHour(LastRun) + HoursToBackfill + 1 >= Target
  <2>1. RoundToNearestHour(0) = 0
    BY Halves
  <2>2. HoursToBackfill = IF RoundToNearestHour(clock) - 1 > RoundToNearestHour(LastRun)
                          THEN (RoundToNearestHour(clock) - 1) - RoundToNearestHour(LastRun)
                          ELSE 0
    BY <2>1 DEF HoursToBackfill, LastRun
  <2>3. QED  BY <1>1, <1>2, <2>2
<1>4. ASSUME ~BackfillNeeded
      PROVE  RoundToNearestHour(LastRun) + 1 >= Target
  <2>1. LastRun = lastProcessed /\ ~(RoundToNearestHour(clock - LastRun) > 1)
    BY <1>4 DEF BackfillNeeded, LastRun
  <2>2. /\ RoundToNearestHour(clock - LastRun) \in Nat
        /\ 2 * RoundToNearestHour(clock - LastRun) \in {clock - LastRun, clock - LastRun + 1}
    BY <1>1, Halves
  <2>3. clock - LastRun <= 2
    BY <1>1, <2>1, <2>2
  <2>4. QED  BY <1>1, <1>2, <2>3
<1>5. QED  BY <1>3, <1>4

LEMMA GetBalancesStep == ASSUME MadeUpInv, GetBalances PROVE MadeUpInv'
<1>1. HoursTypeOK /\ pointsJob.pc = "getBalances"
  BY DEF MadeUpInv, GetBalances
<1>2. UNCHANGED <<clock, michiWallets, lastProcessed, credited, slow>>
  BY DEF GetBalances, tablesOfPoints, histories, bounded
<1>3. /\ \A w \in michiWallets :
          /\ credited[w] + slow >= RoundToNearestHour(LastRun) + Ahead
          /\ w < pointsJob.from => credited[w] + slow >= Target + Ahead
      /\ \A w \in michiWallets :
           pointsJob.from <= w /\ w < pointsJob.from + WalletsPerBatch => w \in pointsJob.batch
  BY <1>1 DEF MadeUpInv
<1>4. CASE BackfillNeeded
  <2> DEFINE hours == HoursToBackfill
  <2>1. hours \in Nat /\ RoundToNearestHour(LastRun) + hours + 1 >= Target
    BY <1>1, <1>4, BackfillIsEnough
  <2>2. pointsJob' = [pointsJob EXCEPT !.pc = "setBackfill", !.hours = hours]
    BY <1>4 DEF GetBalances
  <2> HIDE DEF hours
  <2>3. /\ pointsJob' \in PointsJob /\ pointsJob'.pc = "setBackfill" /\ pointsJob'.hours = hours
        /\ pointsJob'.from = pointsJob.from /\ pointsJob'.started = pointsJob.started
        /\ pointsJob'.batch = pointsJob.batch
    BY <1>1, <2>1, <2>2 DEF HoursTypeOK, PointsJob
  <2>4. HoursTypeOK' /\ LastRun' = LastRun /\ Ahead' = Ahead /\ Target' = Target
    BY <1>1, <1>2, <2>3, JobGoesOn DEF HoursTypeOK
  <2>5. QED  BY <1>2, <1>3, <2>1, <2>3, <2>4 DEF MadeUpInv
<1>5. CASE ~BackfillNeeded
  <2>1. pointsJob' = [pointsJob EXCEPT !.pc = "setPoints"]
    BY <1>5 DEF GetBalances
  <2>2. /\ pointsJob' \in PointsJob /\ pointsJob'.pc = "setPoints"
        /\ pointsJob'.from = pointsJob.from /\ pointsJob'.started = pointsJob.started
        /\ pointsJob'.batch = pointsJob.batch
    BY <1>1, <2>1 DEF HoursTypeOK, PointsJob
  <2>3. HoursTypeOK' /\ LastRun' = LastRun /\ Ahead' = Ahead /\ Target' = Target
    BY <1>1, <1>2, <2>2, JobGoesOn DEF HoursTypeOK
  <2>4. \A w \in michiWallets : credited[w] + slow + 1 >= Target + Ahead
    <3>1. /\ RoundToNearestHour(LastRun) + 1 >= Target /\ RoundToNearestHour(LastRun) \in Nat
          /\ Target \in Nat /\ Ahead \in Nat /\ slow \in Nat
          /\ \A w \in michiWallets : credited[w] \in Nat
      BY <1>1, <1>5, BackfillIsEnough, JobIs, Halves DEF HoursTypeOK, Target, Ahead
    <3>2. QED  BY <1>3, <3>1
  <2>5. QED  BY <1>2, <1>3, <2>2, <2>3, <2>4 DEF MadeUpInv
<1>6. QED  BY <1>4, <1>5

LEMMA SetBackfillStep == ASSUME MadeUpInv, SetBackfill PROVE MadeUpInv'
<1>1. HoursTypeOK /\ pointsJob.pc = "setBackfill"
  BY DEF MadeUpInv, SetBackfill
<1>2. UNCHANGED <<clock, michiWallets, lastProcessed, slow>>
  BY DEF SetBackfill, bounded
<1> DEFINE paid == pointsJob.paid \/ pointsJob.hours > 0
<1>3. pointsJob' = [pointsJob EXCEPT !.pc = "setPoints", !.filled = TRUE, !.paid = paid]
  BY DEF SetBackfill
<1>4. paid \in BOOLEAN
  BY Zenon
<1> HIDE DEF paid
<1>5. /\ pointsJob' \in PointsJob /\ pointsJob'.pc = "setPoints"
      /\ pointsJob'.from = pointsJob.from /\ pointsJob'.started = pointsJob.started
      /\ pointsJob'.batch = pointsJob.batch
  BY <1>1, <1>3, <1>4 DEF HoursTypeOK, PointsJob
<1>6. /\ OnlyMore
      /\ \A w \in michiWallets : credited'[w] >= credited[w] + pointsJob.hours
  BY <1>1, BackfillPays
<1>7. HoursTypeOK' /\ LastRun' = LastRun /\ Ahead' = Ahead /\ Target' = Target
  BY <1>1, <1>2, <1>5, <1>6, JobGoesOn DEF OnlyMore
<1>8. /\ \A w \in michiWallets :
          /\ credited[w] + slow >= RoundToNearestHour(LastRun) + Ahead
          /\ w < pointsJob.from => credited[w] + slow >= Target + Ahead
      /\ \A w \in michiWallets :
           pointsJob.from <= w /\ w < pointsJob.from + WalletsPerBatch => w \in pointsJob.batch
      /\ RoundToNearestHour(LastRun) + pointsJob.hours + 1 >= Target
  BY <1>1 DEF MadeUpInv
<1> DEFINE past == RoundToNearestHour(LastRun)
<1>9. /\ \A w \in michiWallets : credited[w] \in Nat /\ credited'[w] \in Nat
      /\ slow \in Nat /\ past \in Nat /\ Target \in Nat /\ Ahead \in Nat
      /\ pointsJob.hours \in Nat
  BY <1>1, <1>6, JobIs, Halves DEF HoursTypeOK, Target, Ahead, OnlyMore
<1> HIDE DEF past
<1>10. \A w \in michiWallets :
         /\ credited'[w] + slow >= past + Ahead
         /\ w < pointsJob.from => credited'[w] + slow >= Target + Ahead
         /\ credited'[w] + slow + 1 >= Target + Ahead
  BY <1>6, <1>8, <1>9 DEF past
<1>11. QED  BY <1>2, <1>5, <1>7, <1>8, <1>10 DEF MadeUpInv, past

LEMMA SetPointsStep == ASSUME MadeUpInv, SetPoints PROVE MadeUpInv'
<1>1. HoursTypeOK /\ pointsJob.pc = "setPoints"
  BY DEF MadeUpInv, SetPoints
<1>2. UNCHANGED <<clock, michiWallets, lastProcessed, slow>>
  BY DEF SetPoints, bounded
<1>3. pointsJob' = [pointsJob EXCEPT !.pc = "getBatch", !.paid = TRUE, !.batch = {}, !.hours = 0,
                                     !.from = pointsJob.from + WalletsPerBatch]
  BY DEF SetPoints
<1>4. /\ pointsJob' \in PointsJob /\ pointsJob'.pc = "getBatch"
      /\ pointsJob'.from = pointsJob.from + WalletsPerBatch
      /\ pointsJob'.started = pointsJob.started
  <2>1. pointsJob.from + WalletsPerBatch \in Nat
    BY <1>1, JobIs
  <2>2. QED  BY <1>1, <1>3, <2>1 DEF HoursTypeOK, PointsJob
<1>5. /\ OnlyMore
      /\ \A w \in pointsJob.batch : credited'[w] = credited[w] + 1
  BY <1>1, BatchPays
<1>6. HoursTypeOK' /\ LastRun' = LastRun /\ Ahead' = Ahead /\ Target' = Target
  BY <1>1, <1>2, <1>4, <1>5, JobGoesOn DEF OnlyMore
<1>7. /\ \A w \in michiWallets :
          /\ credited[w] + slow >= RoundToNearestHour(LastRun) + Ahead
          /\ w < pointsJob.from => credited[w] + slow >= Target + Ahead
          /\ credited[w] + slow + 1 >= Target + Ahead
      /\ \A w \in michiWallets :
           pointsJob.from <= w /\ w < pointsJob.from + WalletsPerBatch => w \in pointsJob.batch
  BY <1>1 DEF MadeUpInv
<1> DEFINE past == RoundToNearestHour(LastRun)
<1>8. /\ \A w \in michiWallets : /\ credited[w] \in Nat /\ credited'[w] \in Nat
                                /\ credited'[w] >= credited[w] /\ w \in Nat
      /\ slow \in Nat /\ past \in Nat /\ Target \in Nat /\ Ahead \in Nat
      /\ pointsJob.from \in Nat
  BY <1>1, <1>5, JobIs, Halves DEF HoursTypeOK, Target, Ahead, OnlyMore
<1> HIDE DEF past
<1>9. ASSUME NEW w \in michiWallets
      PROVE  /\ credited'[w] + slow >= past + Ahead
             /\ w < pointsJob.from + WalletsPerBatch => credited'[w] + slow >= Target + Ahead
  <2>1. credited'[w] + slow >= past + Ahead
    BY <1>7, <1>8 DEF past
  <2>2. CASE w < pointsJob.from
    BY <1>7, <1>8, <2>1, <2>2
  <2>3. CASE pointsJob.from <= w /\ w < pointsJob.from + WalletsPerBatch
    BY <1>5, <1>7, <1>8, <2>1, <2>3
  <2>4. QED  BY <1>8, <2>1, <2>2, <2>3
<1>10. QED  BY <1>2, <1>4, <1>6, <1>9 DEF MadeUpInv, past

LEMMA SetTimeStep == ASSUME MadeUpInv, SetLastPointsProcessingTime PROVE MadeUpInv'
<1>1. HoursTypeOK /\ pointsJob.pc = "setTime"
  BY DEF MadeUpInv, SetLastPointsProcessingTime
<1>2. /\ UNCHANGED <<clock, michiWallets, credited, slow>>
      /\ lastProcessed' = clock /\ pointsJob' = IdlePointsJob
  BY DEF SetLastPointsProcessingTime, histories, bounded
<1>3. /\ clock \in Nat /\ slow \in Nat /\ \A w \in michiWallets : credited[w] \in Nat
      /\ pointsJob.started \in Nat /\ pointsJob.started <= clock
      /\ 2 * Target = pointsJob.started /\ Target \in Nat
  BY <1>1, JobIs, Halves DEF HoursTypeOK, Target
<1>4. LastRun' = clock
  BY <1>2, <1>3, PointsAssumption DEF LastRun
<1>5. HoursTypeOK'
  BY <1>1, <1>2, <1>3, <1>4, IdleRun DEF HoursTypeOK
<1>6. /\ RoundToNearestHour(clock) \in Nat
      /\ 2 * RoundToNearestHour(clock) \in {clock, clock + 1}
  BY <1>3, Halves
<1>7. RoundToNearestHour(clock) <= Target + Ahead
  BY <1>3, <1>6 DEF Ahead
<1>8. \A w \in michiWallets : credited[w] + slow >= Target + Ahead
  BY <1>1 DEF MadeUpInv
<1>9. \A w \in michiWallets : credited[w] + slow >= RoundToNearestHour(clock)
  <2>1. Ahead \in Int
    BY <1>3 DEF Ahead
  <2>2. QED  BY <1>3, <1>6, <1>7, <1>8, <2>1
<1>10. QED  BY <1>2, <1>4, <1>5, <1>9, IdleRun DEF MadeUpInv

LEMMA FailStep == ASSUME MadeUpInv, FailPointsJob PROVE MadeUpInv'
<1>1. HoursTypeOK /\ pointsJob.pc # "idle"
  BY DEF MadeUpInv, FailPointsJob
<1>2. UNCHANGED <<clock, michiWallets, lastProcessed, credited, slow>> /\ pointsJob' = IdlePointsJob
  BY DEF FailPointsJob, tablesOfPoints
<1>3. HoursTypeOK' /\ LastRun' = LastRun
  BY <1>1, <1>2, IdleRun DEF HoursTypeOK, LastRun
<1>4. \A w \in michiWallets : credited[w] + slow >= RoundToNearestHour(LastRun) + Ahead
  BY <1>1 DEF MadeUpInv
<1>5. /\ \A w \in michiWallets : credited[w] \in Nat
      /\ slow \in Nat /\ RoundToNearestHour(LastRun) \in Nat /\ Ahead \in Nat
  BY <1>1, JobIs DEF HoursTypeOK, Ahead
<1>6. \A w \in michiWallets : credited[w] + slow >= RoundToNearestHour(LastRun)
  BY <1>4, <1>5
<1>7. QED  BY <1>2, <1>3, <1>6, IdleRun DEF MadeUpInv

LEMMA MadeUpInit == PointsInit => MadeUpInv
<1> SUFFICES ASSUME PointsInit
             PROVE  MadeUpInv
  OBVIOUS
<1>1. /\ clock = 0 /\ lastProcessed = NoRow /\ slow = 0
      /\ michiWallets \subseteq Indices
      /\ pointsJob = IdlePointsJob /\ credited \in [Indices -> Nat]
  BY PointsAssumption DEF PointsInit
<1>2. LastRun = 0 /\ HoursTypeOK
  BY <1>1, IdleRun DEF LastRun, HoursTypeOK
<1>3. RoundToNearestHour(0) = 0
  BY Halves
<1>4. \A w \in michiWallets : credited[w] + slow >= 0
  BY <1>1
<1>5. QED  BY <1>1, <1>2, <1>3, <1>4, IdleRun DEF MadeUpInv

LEMMA MadeUpStep == MadeUpInv /\ [PointsNext]_pointsVars => MadeUpInv'
<1> SUFFICES ASSUME MadeUpInv, [PointsNext]_pointsVars
             PROVE  MadeUpInv'
  OBVIOUS
<1>1. CASE RunStakingJob \/ UpdateStakingInfo \/ EnsureUserExists
  <2>1. UNCHANGED <<clock, michiWallets, lastProcessed, pointsJob, credited, slow>>
    BY <1>1
       DEF RunStakingJob, UpdateStakingInfo, EnsureUserExists, FindStakingInfos, FindUser,
           SetUser, SetUpdatedAt, FailStakingJob, tablesOfPoints, histories, bounded
  <2>2. QED  BY <2>1, SameJob
<1>2. CASE AtHorizon \/ UNCHANGED pointsVars
  BY <1>2, SameJob DEF AtHorizon, pointsVars, tablesOfPoints, histories, bounded
<1>3. QED
  BY <1>1, <1>2, TickStep, GetBatchStep, GetBalancesStep, SetBackfillStep, SetPointsStep,
     SetTimeStep, FailStep
     DEF PointsNext, RunPointsJob

\* Whatever runs have failed or overrun, a run that completes leaves no wallet
\* behind: batches cover the table, and the backfill makes up for all hours
\* since the last complete run.
THEOREM RunsMakeUp == PointsSpec => MissedHoursAreMadeUp
<1> DEFINE Made == lastProcessed' # lastProcessed =>
             \A w \in michiWallets : credited[w] + slow >= pointsJob.started \div 2
<1>1. MadeUpInv /\ [PointsNext]_pointsVars => [Made]_pointsVars
  <2> SUFFICES ASSUME MadeUpInv, PointsNext, lastProcessed' # lastProcessed
               PROVE  \A w \in michiWallets : credited[w] + slow >= pointsJob.started \div 2
    OBVIOUS
  <2>1. SetLastPointsProcessingTime
    BY DEF PointsNext, Tick, RunPointsJob, RunStakingJob, GetBatch, GetBalances, SetBackfill,
           SetPoints, FailPointsJob, UpdateStakingInfo, EnsureUserExists, FindStakingInfos,
           FindUser, SetUser, SetUpdatedAt, FailStakingJob, AtHorizon, pointsVars,
           tablesOfPoints
  <2>2. HoursTypeOK /\ \A w \in michiWallets : credited[w] + slow >= Target + Ahead
    BY <2>1 DEF SetLastPointsProcessingTime, MadeUpInv
  <2>3. /\ \A w \in michiWallets : credited[w] \in Nat
        /\ slow \in Nat /\ Target \in Nat /\ Ahead \in Nat
    BY <2>1, <2>2, JobIs, Halves DEF SetLastPointsProcessingTime, HoursTypeOK, Target, Ahead
  <2>4. \A w \in michiWallets : credited[w] + slow >= Target
    BY <2>2, <2>3
  <2>5. QED  BY <2>4 DEF Target
<1>2. QED
  BY <1>1, MadeUpInit, MadeUpStep, PTL DEF PointsSpec, MissedHoursAreMadeUp

----------------------------------------------------------------------------
(* The types of users' points and of the job for stakes.                   *)

\* The row that the job for stakes is at is there, and so are those it has left.
PointsTypeInv ==
  /\ PointsTypeOK
  /\ stakingJob.pc \in {"setUser", "setUpdatedAt"} =>
       stakingJob.user \in Stakers /\ stakingInfo[stakingJob.user] # NoRow
  /\ \A u \in Stakers : stakingJob.infos[u] # NoRow => stakingInfo[u] # NoRow

LEMMA HoursOfIs ==
  ASSUME NEW hours, NEW u
  PROVE  HoursOf(hours, u) = SumOver(hours, {w \in DOMAIN hours : OwnedBy[w] = u})
BY DEF HoursOf, SumOver

LEMMA WalletsAreFinite ==
  ASSUME NEW S \in SUBSET Indices
  PROVE  IsFiniteSet(S)
BY PointsAssumption, FS_Subset

LEMMA HoursOfIsNat ==
  ASSUME NEW hours, DOMAIN hours \subseteq Indices, \A w \in DOMAIN hours : hours[w] \in Nat, NEW u
  PROVE  /\ HoursOf(hours, u) \in Nat
         /\ (\A w \in DOMAIN hours : OwnedBy[w] # u) => HoursOf(hours, u) = 0
         /\ (\A w \in DOMAIN hours : hours[w] = 0) => HoursOf(hours, u) = 0
<1> DEFINE S == {w \in DOMAIN hours : OwnedBy[w] = u}
<1>1. IsFiniteSet(S) /\ \A w \in S : hours[w] \in Nat
  BY WalletsAreFinite
<1>2. SumOver(hours, S) \in Nat
  BY <1>1, SumIsInt
<1>3. ASSUME \A w \in DOMAIN hours : OwnedBy[w] # u
      PROVE  SumOver(hours, S) = 0
  <2>1. S = {}
    BY <1>3
  <2>2. QED  BY <1>1, <2>1, SumIsRecursive
<1>4. ASSUME \A w \in DOMAIN hours : hours[w] = 0
      PROVE  SumOver(hours, S) = 0
  <2>1. 0 \in {0} /\ \A a, b \in {0} : a + b \in {0}
    OBVIOUS
  <2>2. \A w \in S : hours[w] \in {0}
    BY <1>4
  <2>3. SumOver(hours, S) \in {0}
    BY ONLY <1>1, <2>1, <2>2, SumIsIn
  <2>4. QED  BY <2>3
<1>5. QED  BY <1>2, <1>3, <1>4, HoursOfIs

\* The hours of a user grow by what his wallets are paid.
LEMMA HoursOfGrows ==
  ASSUME NEW before \in [Indices -> Nat], NEW hours, DOMAIN hours \subseteq Indices,
         \A w \in DOMAIN hours : hours[w] \in Nat, NEW after,
         after = [w \in Indices |-> before[w] + IF w \in DOMAIN hours THEN hours[w] ELSE 0],
         NEW u
  PROVE  HoursOf(after, u) = HoursOf(before, u) + HoursOf(hours, u)
<1> DEFINE S == {w \in Indices : OwnedBy[w] = u}
           D == DOMAIN hours
<1>1. IsFiniteSet(S)
  BY WalletsAreFinite
<1>2. /\ \A w \in S : before[w] \in Int /\ after[w] = before[w] + IF w \in D THEN hours[w] ELSE 0
      /\ \A w \in S \cap D : hours[w] \in Int
  OBVIOUS
<1>3. S \cap D = {w \in DOMAIN hours : OwnedBy[w] = u}
  OBVIOUS
<1>4. DOMAIN before = Indices /\ DOMAIN after = Indices
  OBVIOUS
<1>5. SumOver(after, S) = SumOver(before, S) + SumOver(hours, S \cap D)
  <2>1. Adds(after, before, hours, D, S)
    BY <1>2 DEF Adds
  <2> HIDE DEF S, D
  <2>2. QED  BY ONLY <1>1, <2>1, SumGrows
<1>6. QED  BY <1>3, <1>4, <1>5, HoursOfIs

\* What setUserPoints writes, given the hours of each wallet.
LEMMA PayHoursIs ==
  ASSUME PointsTypeInv, NEW hours, PayHours(hours), DOMAIN hours \subseteq Indices,
         \A w \in DOMAIN hours : hours[w] \in Nat
  PROVE  /\ points' \in [Users -> Int \cup {NoRow}]
         /\ \A u \in Users : points[u] # NoRow => points'[u] = points[u] + HoursOf(hours, u)
         /\ \A u \in Users : points'[u] = NoRow <=> points[u] = NoRow /\ \A w \in DOMAIN hours : OwnedBy[w] # u
         /\ \A u \in Users : HoursOf(hours, u) \in Nat
         /\ \A u \in Users : HoursOf(credited', u) = HoursOf(credited, u) + HoursOf(hours, u)
         /\ raced \subseteq raced' /\ raced' \subseteq Stakers
         /\ stakingJob.pc = "setUser" /\ stakingJob.user \notin raced'
            => HoursOf(hours, stakingJob.user) = 0
<1> DEFINE Sum(u) == InitialWalletPoints + HoursOf(hours, u)
           paid == {OwnedBy[w] : w \in DOMAIN hours}
<1>1. /\ points' = [u \in Users |->
            IF u \notin paid THEN points[u]
            ELSE IF points[u] = NoRow THEN Sum(u)
            ELSE points[u] + Sum(u) - InitialWalletPoints]
      /\ credited' = [w \in Indices |-> credited[w] + IF w \in DOMAIN hours THEN hours[w] ELSE 0]
      /\ raced' = raced \cup {u \in paid : /\ stakingJob.pc = "setUser" /\ stakingJob.user = u
                                           /\ Sum(u) # InitialWalletPoints}
  BY DEF PayHours
<1>2. \A u : HoursOf(hours, u) \in Nat /\ (u \notin paid => HoursOf(hours, u) = 0)
  BY HoursOfIsNat
<1>3. /\ points \in [Users -> Int \cup {NoRow}] /\ credited \in [Indices -> Nat]
      /\ raced \subseteq Stakers /\ InitialWalletPoints \in Nat /\ NoRow \notin Int
      /\ stakingJob.pc = "setUser" => stakingJob.user \in Stakers
  BY PointsAssumption DEF PointsTypeInv, PointsTypeOK
<1>4. \A u \in Users :
        /\ u \notin paid => points'[u] = points[u]
        /\ u \in paid /\ points[u] = NoRow => points'[u] = Sum(u)
        /\ u \in paid /\ points[u] # NoRow => points'[u] = points[u] + HoursOf(hours, u)
        /\ Sum(u) \in Int
  <2> HIDE DEF paid
  <2>1. QED  BY <1>1, <1>2, <1>3
<1>5. \A u : HoursOf(credited', u) = HoursOf(credited, u) + HoursOf(hours, u)
  BY <1>1, <1>3, HoursOfGrows
<1>6. /\ raced \subseteq raced' /\ raced' \subseteq Stakers
      /\ stakingJob.pc = "setUser" /\ stakingJob.user \notin raced'
         => HoursOf(hours, stakingJob.user) = 0
  <2>1. raced \subseteq raced' /\ raced' \subseteq Stakers
    BY <1>1, <1>3
  <2>2. ASSUME stakingJob.pc = "setUser", stakingJob.user \notin raced'
        PROVE  HoursOf(hours, stakingJob.user) = 0
    <3>1. stakingJob.user \notin paid \/ Sum(stakingJob.user) = InitialWalletPoints
      BY <1>1, <2>2
    <3> HIDE DEF paid
    <3>2. QED  BY <1>2, <1>3, <3>1
  <2>3. QED  BY <2>1, <2>2
<1>7. points' \in [Users -> Int \cup {NoRow}]
  <2> HIDE DEF Sum, paid
  <2>1. \A u \in Users : points'[u] \in Int \cup {NoRow}
    BY <1>2, <1>3, <1>4
  <2>2. points' = [u \in Users |-> points'[u]]
    BY <1>1
  <2>3. QED  BY <2>1, <2>2
<1>8. \A u \in Users : points[u] # NoRow => points'[u] = points[u] + HoursOf(hours, u)
  <2> HIDE DEF Sum, paid
  <2>1. QED  BY <1>2, <1>3, <1>4
<1>9. \A u \in Users : points'[u] = NoRow <=> points[u] = NoRow /\ u \notin paid
  <2> HIDE DEF Sum, paid
  <2>1. QED  BY <1>2, <1>3, <1>4
<1>10. QED  BY <1>2, <1>5, <1>6, <1>7, <1>8, <1>9

LEMMA StakingRecords ==
  /\ NoRow \notin Int /\ NoRow \notin StakingInfo
  /\ NoInfos \in [Stakers -> {NoRow}]
  /\ IdleStakingJob \in StakingJob /\ IdleStakingJob.pc = "idle"
  /\ IdleStakingJob.infos = NoInfos
BY PointsAssumption DEF StakingInfo, NoInfos, IdleStakingJob, StakingJob

\* What the hourly job pays by a backfill, and by a batch.
LEMMA BackfillHours ==
  ASSUME HoursTypeOK, SetBackfill
  PROVE  \E hours : /\ PayHours(hours) /\ DOMAIN hours = michiWallets
                    /\ \A w \in michiWallets :
                         hours[w] \in Nat /\ hours[w] = pointsJob.hours * Cardinality(BatchesWith(w))
<1> DEFINE hours == [w \in michiWallets |-> pointsJob.hours * Cardinality(BatchesWith(w))]
<1>1. \A w \in michiWallets : hours[w] \in Nat
  <2> TAKE w \in michiWallets
  <2>1. pointsJob.hours \in Nat /\ Cardinality(BatchesWith(w)) \in Nat
    BY JobIs, InABatch
  <2>2. \A m, n \in Nat : m * n \in Nat
    OBVIOUS
  <2>3. QED  BY <2>1, <2>2
<1>2. PayHours(hours)
  BY DEF SetBackfill
<1>3. QED  BY <1>1, <1>2

\* What setUserPoints leaves as it is, and what it makes of the types.
LEMMA PayingKeepsTypes ==
  ASSUME PointsTypeInv, HoursTypeOK', NEW hours, PayHours(hours), DOMAIN hours \subseteq Indices,
         \A w \in DOMAIN hours : hours[w] \in Nat,
         UNCHANGED <<michiWallets, stakingInfo, stakingJob, staked, stakeTorn, bounded>>,
         torn' \in BOOLEAN
  PROVE  PointsTypeInv'
<1>1. points' \in [Users -> Int \cup {NoRow}] /\ raced' \subseteq Stakers
  BY PayHoursIs
<1>2. QED
  BY <1>1 DEF PointsTypeInv, PointsTypeOK, HoursTypeOK, bounded

LEMMA StakingJobIs ==
  ASSUME PointsTypeInv
  PROVE  /\ stakingJob.pc \in {"idle", "findMany", "findUser", "setUser", "setUpdatedAt"}
         /\ stakingJob.infos \in [Stakers -> StakingInfo \cup {NoRow}]
         /\ stakingJob.now \in Nat /\ stakingJob.earned \in Int /\ stakingJob.read \in Int
BY DEF PointsTypeInv, PointsTypeOK, StakingJob

LEMMA Products ==
  /\ \A m, n \in Int : m * n \in Int
  /\ \A m \in Int : RoundToNearestHour(m) \in Int
BY DEF RoundToNearestHour

\* What FindUser makes of the row of a user.
LEMMA FindUserIs ==
  ASSUME PointsTypeInv, clock \in Nat, FindUser
  PROVE  \E u \in Stakers :
           /\ stakingJob.infos[u] # NoRow /\ stakingJob.infos[u] \in StakingInfo
           /\ stakingJob' \in StakingJob
           /\ stakingJob'.pc = IF points[u] = NoRow THEN "setUpdatedAt" ELSE "setUser"
           /\ stakingJob'.infos = [stakingJob.infos EXCEPT ![u] = NoRow]
           /\ stakingJob'.user = u /\ stakingJob'.now = clock
           /\ stakingJob'.earned = stakingJob.infos[u].amount * StakeRate
                                   * RoundToNearestHour(clock - stakingJob.infos[u].updatedAt)
           /\ points[u] # NoRow => stakingJob'.read = points[u]
<1>1. PICK u \in Stakers :
        /\ stakingJob.infos[u] # NoRow
        /\ stakingJob' =
             [pc |-> IF points[u] = NoRow THEN "setUpdatedAt" ELSE "setUser",
              infos |-> [stakingJob.infos EXCEPT ![u] = NoRow],
              user |-> u,
              now |-> clock,
              earned |-> stakingJob.infos[u].amount * StakeRate
                         * RoundToNearestHour(clock - stakingJob.infos[u].updatedAt),
              read |-> IF points[u] = NoRow THEN 0 ELSE points[u]]
  BY Zenon DEF FindUser
<1> DEFINE info == stakingJob.infos[u]
           infos == [stakingJob.infos EXCEPT ![u] = NoRow]
           earned == info.amount * StakeRate * RoundToNearestHour(clock - info.updatedAt)
<1>2. /\ info \in StakingInfo /\ infos \in [Stakers -> StakingInfo \cup {NoRow}]
      /\ u \in Users /\ points[u] \in Int \cup {NoRow}
  BY <1>1, StakingJobIs DEF Users, PointsTypeInv, PointsTypeOK
<1>3. earned \in Int
  <2>1. info.amount \in Int /\ info.updatedAt \in Int /\ StakeRate \in Int
    BY <1>2, PointsAssumption DEF StakingInfo
  <2>2. clock - info.updatedAt \in Int
    BY <2>1
  <2> HIDE DEF info
  <2>3. /\ info.amount * StakeRate \in Int
        /\ RoundToNearestHour(clock - info.updatedAt) \in Int
    BY <2>1, <2>2, Products
  <2> DEFINE p == info.amount * StakeRate
             q == RoundToNearestHour(clock - info.updatedAt)
  <2>4. p \in Int /\ q \in Int /\ earned = p * q
    BY <2>3
  <2> HIDE DEF p, q, earned
  <2>5. QED  BY <2>4
<1>4. stakingJob' \in StakingJob
  <2> DEFINE pc == IF points[u] = NoRow THEN "setUpdatedAt" ELSE "setUser"
             read == IF points[u] = NoRow THEN 0 ELSE points[u]
  <2>1. pc \in {"setUser", "setUpdatedAt"} /\ read \in Int /\ clock \in Nat
    BY <1>2
  <2>2. stakingJob' = [pc |-> pc, infos |-> infos, user |-> u, now |-> clock, earned |-> earned,
                       read |-> read]
    BY <1>1
  <2> HIDE DEF info, infos, earned, pc, read
  <2>3. QED  BY <1>2, <1>3, <2>1, <2>2 DEF StakingJob
<1>5. QED
  BY <1>1, <1>2, <1>4

LEMMA PointsTypeStep ==
  ASSUME MadeUpInv, MadeUpInv', PointsTypeInv, [PointsNext]_pointsVars
  PROVE  PointsTypeInv'
<1>1. HoursTypeOK /\ HoursTypeOK'
  BY DEF MadeUpInv
<1>2. CASE Tick
  <2>1. stakingJob' = stakingJob \/ stakingJob' = [IdleStakingJob EXCEPT !.pc = "findMany"]
    BY <1>2 DEF Tick
  <2>2. UNCHANGED <<tablesOfPoints, histories, stakeEvents, jobFaults>>
    BY <1>2 DEF Tick
  <2>3. CASE stakingJob' = stakingJob
    BY <1>1, <2>2, <2>3
       DEF PointsTypeInv, PointsTypeOK, HoursTypeOK, tablesOfPoints, histories
  <2>4. CASE stakingJob' = [IdleStakingJob EXCEPT !.pc = "findMany"]
    <3>1. stakingJob' \in StakingJob /\ stakingJob'.pc = "findMany" /\ stakingJob'.infos = NoInfos
      BY <2>4, StakingRecords DEF StakingJob
    <3>2. QED
      BY <1>1, <2>2, <3>1, StakingRecords
         DEF PointsTypeInv, PointsTypeOK, HoursTypeOK, tablesOfPoints, histories
  <2>5. QED  BY <2>1, <2>3, <2>4
<1>3. CASE GetBatch \/ GetBalances \/ SetLastPointsProcessingTime
  BY <1>1, <1>3
     DEF GetBatch, GetBalances, SetLastPointsProcessingTime, PointsTypeInv, PointsTypeOK,
         HoursTypeOK, tablesOfPoints, histories, bounded
<1>4. CASE FailPointsJob
  <2>1. /\ torn' \in BOOLEAN /\ jobFaults' \in Nat
        /\ UNCHANGED <<michiWallets, lastProcessed, points, stakingInfo, stakingJob, staked, raced,
                       stakeTorn, stakeEvents>>
    BY <1>4 DEF FailPointsJob, tablesOfPoints, PointsTypeInv, PointsTypeOK
  <2>2. QED  BY <1>1, <2>1 DEF PointsTypeInv, PointsTypeOK, HoursTypeOK
<1>5. CASE SetBackfill
  <2>1. PICK hours : /\ PayHours(hours) /\ DOMAIN hours = michiWallets
                     /\ \A w \in michiWallets : hours[w] \in Nat
    BY <1>1, <1>5, BackfillHours
  <2>2. UNCHANGED <<michiWallets, stakingInfo, stakingJob, staked, stakeTorn, bounded>>
    BY <1>5 DEF SetBackfill
  <2>3. torn' \in BOOLEAN
    BY <1>5, Zenon DEF SetBackfill
  <2>4. michiWallets \subseteq Indices
    BY <1>1 DEF HoursTypeOK
  <2>5. QED  BY <1>1, <2>1, <2>2, <2>3, <2>4, PayingKeepsTypes
<1>6. CASE SetPoints
  <2> DEFINE hours == [w \in pointsJob.batch |-> 1]
  <2>1. PayHours(hours)
    BY <1>6 DEF SetPoints
  <2>2. UNCHANGED <<michiWallets, stakingInfo, stakingJob, staked, stakeTorn, bounded, torn>>
    BY <1>6 DEF SetPoints
  <2>3. torn' \in BOOLEAN
    BY <2>2 DEF PointsTypeInv, PointsTypeOK
  <2>4. DOMAIN hours \subseteq Indices /\ \A w \in DOMAIN hours : hours[w] \in Nat
    BY <1>1, JobIs
  <2> HIDE DEF hours
  <2>5. QED  BY <1>1, <2>1, <2>2, <2>3, <2>4, PayingKeepsTypes
<1>7. CASE UpdateStakingInfo
  <2>1. PICK u \in Stakers, amount \in StakeAmounts :
          stakingInfo' = [stakingInfo EXCEPT ![u] =
            IF stakingInfo[u] = NoRow THEN [amount |-> amount, updatedAt |-> clock]
            ELSE [amount |-> stakingInfo[u].amount + amount, updatedAt |-> stakingInfo[u].updatedAt]]
    BY <1>7 DEF UpdateStakingInfo
  <2>2. amount \in Int /\ clock \in Nat
    BY <1>1, PointsAssumption DEF HoursTypeOK
  <2>3. /\ stakingInfo' \in [Stakers -> StakingInfo \cup {NoRow}]
        /\ \A v \in Stakers : stakingInfo[v] # NoRow => stakingInfo'[v] # NoRow
    <3>1. stakingInfo \in [Stakers -> StakingInfo \cup {NoRow}]
      BY DEF PointsTypeInv, PointsTypeOK
    <3>2. (IF stakingInfo[u] = NoRow THEN [amount |-> amount, updatedAt |-> clock]
            ELSE [amount |-> stakingInfo[u].amount + amount, updatedAt |-> stakingInfo[u].updatedAt])
          \in StakingInfo
      BY <2>2, <3>1 DEF StakingInfo
    <3>3. QED  BY <2>1, <3>1, <3>2, StakingRecords
  <2>4. /\ UNCHANGED <<clock, michiWallets, lastProcessed, points, pointsJob, stakingJob,
                       credited, staked, raced, torn, stakeTorn, slow, jobFaults>>
        /\ stakeEvents' = stakeEvents + 1
    BY <1>7 DEF UpdateStakingInfo, histories
  <2>5. QED  BY <1>1, <2>3, <2>4 DEF PointsTypeInv, PointsTypeOK, HoursTypeOK
<1>8. CASE EnsureUserExists
  <2>1. points' \in [Users -> Int \cup {NoRow}]
    BY <1>8 DEF EnsureUserExists, PointsTypeInv, PointsTypeOK
  <2>2. QED
    BY <1>1, <1>8, <2>1
       DEF EnsureUserExists, PointsTypeInv, PointsTypeOK, HoursTypeOK, histories, bounded
<1>9. CASE FindStakingInfos
  <2>1. /\ stakingJob' \in StakingJob
        /\ stakingJob'.pc \in {"idle", "findUser"}
        /\ \A u \in Stakers : stakingJob'.infos[u] # NoRow => stakingInfo[u] # NoRow
    <3>1. CASE stakingInfo = NoInfos
      BY <1>9, <3>1, StakingRecords DEF FindStakingInfos
    <3>2. CASE stakingInfo # NoInfos
      BY <1>9, <3>2 DEF FindStakingInfos, PointsTypeInv, PointsTypeOK, StakingJob
    <3>3. QED  BY <3>1, <3>2
  <2>2. QED
    BY <1>1, <1>9, <2>1
       DEF FindStakingInfos, PointsTypeInv, PointsTypeOK, HoursTypeOK, tablesOfPoints,
           histories, bounded
<1>10. CASE FindUser
  <2>1. PICK u \in Stakers :
          /\ stakingJob.infos[u] # NoRow /\ stakingJob' \in StakingJob
          /\ stakingJob'.user = u /\ stakingJob'.infos = [stakingJob.infos EXCEPT ![u] = NoRow]
    BY <1>1, <1>10, FindUserIs DEF HoursTypeOK
  <2>2. /\ stakingInfo[u] # NoRow
        /\ \A v \in Stakers : stakingJob'.infos[v] # NoRow => stakingInfo[v] # NoRow
    BY <2>1, StakingJobIs DEF PointsTypeInv
  <2>3. QED
    BY <1>1, <1>10, <2>1, <2>2
       DEF FindUser, PointsTypeInv, PointsTypeOK, HoursTypeOK, tablesOfPoints, histories, bounded
<1>11. CASE SetUser
  <2>1. stakingJob' = [stakingJob EXCEPT !.pc = "setUpdatedAt"]
    BY <1>11 DEF SetUser
  <2>2. /\ stakingJob' \in StakingJob /\ stakingJob'.user = stakingJob.user
        /\ stakingJob'.infos = stakingJob.infos /\ stakingJob'.pc = "setUpdatedAt"
    BY <2>1 DEF PointsTypeInv, PointsTypeOK, StakingJob
  <2>3. stakingJob.user \in Stakers /\ stakingInfo[stakingJob.user] # NoRow
    BY <1>11 DEF SetUser, PointsTypeInv
  <2>4. /\ points' \in [Users -> Int \cup {NoRow}]
        /\ staked' \in [Stakers -> Int]
    <3>1. /\ points' = [points EXCEPT ![stakingJob.user] = stakingJob.read + stakingJob.earned]
          /\ staked' = [staked EXCEPT ![stakingJob.user] = staked[stakingJob.user]
                                                            + stakingJob.earned]
      BY <1>11 DEF SetUser
    <3>2. /\ points \in [Users -> Int \cup {NoRow}] /\ staked \in [Stakers -> Int]
          /\ stakingJob.read + stakingJob.earned \in Int
          /\ staked[stakingJob.user] + stakingJob.earned \in Int
      BY <2>3, StakingJobIs DEF PointsTypeInv, PointsTypeOK
    <3>3. QED  BY <3>1, <3>2
  <2>5. UNCHANGED <<clock, michiWallets, lastProcessed, stakingInfo, pointsJob, credited, raced,
                    torn, stakeTorn, slow, stakeEvents, jobFaults>>
    BY <1>11 DEF SetUser, bounded
  <2>6. PointsTypeOK'
    BY <1>1, <2>2, <2>4, <2>5 DEF PointsTypeInv, PointsTypeOK, HoursTypeOK
  <2>7. QED  BY <2>2, <2>3, <2>5, <2>6 DEF PointsTypeInv
<1>12. CASE SetUpdatedAt
  <2> DEFINE u == stakingJob.user
  <2>1. u \in Stakers /\ stakingInfo[u] \in StakingInfo /\ stakingJob.now \in Nat
    BY <1>12, StakingJobIs DEF SetUpdatedAt, PointsTypeInv, PointsTypeOK
  <2>2. /\ stakingInfo' \in [Stakers -> StakingInfo \cup {NoRow}]
        /\ \A v \in Stakers : stakingInfo[v] # NoRow => stakingInfo'[v] # NoRow
    <3>1. stakingInfo' = [stakingInfo EXCEPT ![u] = [amount |-> stakingInfo[u].amount,
                                                     updatedAt |-> stakingJob.now]]
      BY <1>12 DEF SetUpdatedAt
    <3>2. [amount |-> stakingInfo[u].amount, updatedAt |-> stakingJob.now] \in StakingInfo
      BY <2>1 DEF StakingInfo
    <3> HIDE DEF u
    <3>3. QED  BY <2>1, <3>1, <3>2, StakingRecords DEF PointsTypeInv, PointsTypeOK
  <2>3. /\ stakingJob' \in StakingJob /\ stakingJob'.pc \in {"idle", "findUser"}
        /\ stakingJob'.infos = stakingJob.infos
    <3>1. CASE stakingJob.infos = NoInfos
      BY <1>12, <3>1, StakingRecords DEF SetUpdatedAt
    <3>2. CASE stakingJob.infos # NoInfos
      BY <1>12, <3>2, StakingRecords, StakingJobIs DEF SetUpdatedAt, StakingJob
    <3>3. QED  BY <3>1, <3>2
  <2>4. QED
    BY <1>1, <1>12, <2>2, <2>3
       DEF SetUpdatedAt, PointsTypeInv, PointsTypeOK, HoursTypeOK, histories, bounded
<1>13. CASE FailStakingJob
  <2>1. /\ stakingJob' \in StakingJob /\ stakingJob'.pc = "idle"
        /\ \A u \in Stakers : stakingJob'.infos[u] = NoRow
    BY <1>13, StakingRecords DEF FailStakingJob
  <2>2. stakeTorn' \in BOOLEAN /\ jobFaults' \in Nat
    BY <1>13 DEF FailStakingJob, PointsTypeInv, PointsTypeOK
  <2>3. QED
    BY <1>1, <1>13, <2>1, <2>2
       DEF FailStakingJob, PointsTypeInv, PointsTypeOK, HoursTypeOK, tablesOfPoints
<1>14. CASE AtHorizon \/ UNCHANGED pointsVars
  BY <1>14
     DEF AtHorizon, pointsVars, tablesOfPoints, histories, bounded, PointsTypeInv, PointsTypeOK
<1>15. QED
  BY <1>2, <1>3, <1>4, <1>5, <1>6, <1>7, <1>8, <1>9, <1>10, <1>11, <1>12, <1>13, <1>14
     DEF PointsNext, RunPointsJob, RunStakingJob

LEMMA PointsTypeInit == PointsInit => PointsTypeInv
<1> SUFFICES ASSUME PointsInit
             PROVE  PointsTypeInv
  OBVIOUS
<1>1. HoursTypeOK
  BY MadeUpInit DEF MadeUpInv
<1>2. /\ stakingInfo \in [Stakers -> StakingInfo \cup {NoRow}]
      /\ points \in [Users -> Int \cup {NoRow}]
      /\ staked \in [Stakers -> Int]
  BY StakingRecords DEF PointsInit
<1>3. /\ stakingJob \in StakingJob /\ stakingJob.pc = "idle"
      /\ \A u \in Stakers : stakingJob.infos[u] = NoRow
  BY StakingRecords DEF PointsInit
<1>4. /\ michiWallets \in Tables /\ raced \subseteq Stakers
      /\ torn \in BOOLEAN /\ stakeTorn \in BOOLEAN /\ stakeEvents \in Nat /\ jobFaults \in Nat
  BY DEF PointsInit
<1>5. QED
  BY <1>1, <1>2, <1>3, <1>4 DEF PointsTypeInv, PointsTypeOK, HoursTypeOK

LEMMA AlwaysMadeUp == PointsSpec => []MadeUpInv
BY MadeUpInit, MadeUpStep, PTL DEF PointsSpec

LEMMA AlwaysPointsTyped == PointsSpec => []PointsTypeInv
BY AlwaysMadeUp, PointsTypeInit, PointsTypeStep, PTL DEF PointsSpec

\* Rows, runs and batches keep their types: no wallet is ever paid a negative
\* number of hours, and a job never works from a row that is not there.
THEOREM PointsTypeCorrect == PointsSpec => []PointsTypeOK
<1>1. PointsTypeInv => PointsTypeOK
  BY DEF PointsTypeInv
<1>2. QED  BY <1>1, AlwaysPointsTyped, PTL

----------------------------------------------------------------------------
(* Totals.                                                                 *)

\* Owners have a row before they are paid, and stakes are paid to rows only, so
\* that a row that is entered with no points is owed none.  The points that the
\* job for stakes has read are there still, or the other job has added to them.
TotalsInv ==
  /\ TotalsAddUp
  /\ \A u \in Owners : points[u] # NoRow
  /\ \A u \in Stakers : points[u] = NoRow => staked[u] = 0
  /\ stakingJob.pc = "setUser" =>
       /\ points[stakingJob.user] # NoRow
       /\ stakingJob.read <= points[stakingJob.user]
       /\ stakingJob.user \notin raced => stakingJob.read = points[stakingJob.user]

LEMMA EarnedIs ==
  ASSUME PointsTypeInv
  PROVE  /\ \A u \in Users : Earned(u) \in Int
         /\ \A u \in Users \ Owners : HoursOf(credited, u) = 0
         /\ \A u \in Users : HoursOf(credited, u) \in Nat
         /\ \A u \in Users : points[u] # NoRow => points[u] \in Int
<1>1. credited \in [Indices -> Nat] /\ staked \in [Stakers -> Int] /\ OwnedBy \in [Indices -> Owners]
      /\ points \in [Users -> Int \cup {NoRow}]
  BY PointsAssumption DEF PointsTypeInv, PointsTypeOK
<1>2. \A u : HoursOf(credited, u) \in Nat /\ (u \notin Owners => HoursOf(credited, u) = 0)
  BY <1>1, HoursOfIsNat
<1>3. QED  BY <1>1, <1>2 DEF Earned

LEMMA TotalsInit == PointsInit => TotalsInv
<1> SUFFICES ASSUME PointsInit
             PROVE  TotalsInv
  OBVIOUS
<1>1. /\ points = [u \in Users |-> IF u \in Owners THEN 0 ELSE NoRow]
      /\ credited = [w \in Indices |-> 0] /\ staked = [u \in Stakers |-> 0]
      /\ stakingJob.pc = "idle" /\ 0 # NoRow /\ Owners \subseteq Users
  BY StakingRecords, PointsAssumption DEF PointsInit, Users
<1>2. \A u : HoursOf(credited, u) = 0
  BY <1>1, HoursOfIsNat
<1>3. \A u \in Users : Earned(u) = 0
  BY <1>1, <1>2 DEF Earned
<1>4. \A u \in Users : points[u] # NoRow => points[u] = 0
  BY <1>1
<1>5. TotalsAddUp
  BY <1>3, <1>4 DEF TotalsAddUp
<1>6. QED  BY <1>1, <1>5 DEF TotalsInv

\* Paying hours adds as much to the points as to what has been earned.
LEMMA PayingKeepsTotals ==
  ASSUME PointsTypeInv, TotalsInv, NEW hours, PayHours(hours), DOMAIN hours \subseteq Indices,
         \A w \in DOMAIN hours : hours[w] \in Nat,
         UNCHANGED <<stakingJob, staked>>
  PROVE  TotalsInv'
<1>1. /\ \A u \in Users : points[u] # NoRow => points'[u] = points[u] + HoursOf(hours, u)
      /\ \A u \in Users : points'[u] = NoRow <=> points[u] = NoRow /\ \A w \in DOMAIN hours : OwnedBy[w] # u
      /\ \A u \in Users : HoursOf(hours, u) \in Nat
      /\ \A u \in Users : HoursOf(credited', u) = HoursOf(credited, u) + HoursOf(hours, u)
      /\ raced \subseteq raced'
      /\ stakingJob.pc = "setUser" /\ stakingJob.user \notin raced'
         => HoursOf(hours, stakingJob.user) = 0
  BY PayHoursIs
<1>2. /\ \A u \in Users : points'[u] # NoRow => points[u] # NoRow
      /\ \A u \in Users : points[u] # NoRow => points'[u] # NoRow
      /\ \A u \in Stakers : points'[u] = NoRow => points[u] = NoRow
      /\ Owners \subseteq Users
  <2>1. \A w \in DOMAIN hours : OwnedBy[w] \in Owners
    BY PointsAssumption
  <2>2. \A u \in Users : points[u] = NoRow => \A w \in DOMAIN hours : OwnedBy[w] # u
    BY <2>1 DEF TotalsInv
  <2>3. QED  BY <1>1, <2>2 DEF Users
<1>3. \A u \in Users : Earned(u)' = Earned(u) + HoursOf(hours, u)
  <2>1. \A u \in Users : HoursOf(credited, u) \in Nat /\ (u \in Stakers => staked[u] \in Int)
    BY EarnedIs DEF PointsTypeInv, PointsTypeOK
  <2> SUFFICES ASSUME NEW u \in Users
               PROVE  Earned(u)' = Earned(u) + HoursOf(hours, u)
    OBVIOUS
  <2> DEFINE before == HoursOf(credited, u)
             more == HoursOf(hours, u)
             stakes == IF u \in Stakers THEN staked[u] ELSE 0
  <2>2. /\ Earned(u)' = (before + more) + stakes /\ Earned(u) = before + stakes
        /\ before \in Nat /\ more \in Nat /\ stakes \in Int
    BY <1>1, <2>1 DEF Earned
  <2> HIDE DEF before, more, stakes
  <2>3. Earned(u)' = Earned(u) + more
    BY <2>2
  <2>4. QED  BY <2>3 DEF more
<1>4. ASSUME NEW u \in Users, points'[u] # NoRow
      PROVE  points'[u] <= Earned(u)' /\ (u \notin raced' => points'[u] = Earned(u)')
  <2> DEFINE more == HoursOf(hours, u)
             now == points[u]
             earned == Earned(u)
  <2>1. /\ points'[u] = now + more /\ Earned(u)' = earned + more
        /\ now \in Int /\ more \in Nat /\ earned \in Int
        /\ now <= earned /\ (u \notin raced' => now = earned)
    BY <1>1, <1>2, <1>3, <1>4, EarnedIs DEF TotalsInv, TotalsAddUp
  <2> HIDE DEF more, now, earned
  <2>2. QED  BY <2>1
<1>5. ASSUME stakingJob.pc = "setUser"
      PROVE  LET u == stakingJob.user IN
             /\ points'[u] # NoRow /\ stakingJob.read <= points'[u]
             /\ u \notin raced' => stakingJob.read = points'[u]
  <2> DEFINE u == stakingJob.user
             more == HoursOf(hours, u)
             now == points[u]
  <2>1. u \in Users /\ now # NoRow
    BY <1>5 DEF TotalsInv, PointsTypeInv, Users
  <2>2. /\ points'[u] = now + more /\ points'[u] # NoRow
        /\ now \in Int /\ more \in Nat /\ stakingJob.read \in Int
        /\ stakingJob.read <= now
        /\ u \notin raced' => more = 0 /\ stakingJob.read = now
    BY <1>1, <1>2, <1>5, <2>1, EarnedIs, StakingJobIs DEF TotalsInv
  <2> HIDE DEF more, now
  <2>3. QED  BY <2>2
<1>6. TotalsAddUp'
  BY <1>4 DEF TotalsAddUp
<1>7. QED  BY <1>1, <1>2, <1>5, <1>6 DEF TotalsInv

\* What totals are made of.
totals == <<points, stakingJob, credited, staked, raced>>

LEMMA SameTotals == ASSUME TotalsInv, UNCHANGED totals PROVE TotalsInv'
BY DEF TotalsInv, TotalsAddUp, Earned, totals

\* The same points, and a job that is not about to write any.
LEMMA SamePoints ==
  ASSUME TotalsInv, UNCHANGED <<points, credited, staked, raced>>, stakingJob'.pc # "setUser"
  PROVE  TotalsInv'
BY DEF TotalsInv, TotalsAddUp, Earned

LEMMA TotalsStep ==
  ASSUME HoursTypeOK, PointsTypeInv, TotalsInv, [PointsNext]_pointsVars
  PROVE  TotalsInv'
<1>1. CASE Tick
  <2>1. UNCHANGED <<points, credited, staked, raced>>
    BY <1>1 DEF Tick, tablesOfPoints, histories
  <2>2. stakingJob' = stakingJob \/ stakingJob'.pc = "findMany"
    BY <1>1, StakingRecords DEF Tick, StakingJob
  <2>3. QED  BY <2>1, <2>2, SameTotals, SamePoints DEF totals
<1>2. CASE GetBatch \/ GetBalances \/ SetLastPointsProcessingTime \/ UpdateStakingInfo \/ AtHorizon
  BY <1>2, SameTotals
     DEF GetBatch, GetBalances, SetLastPointsProcessingTime, UpdateStakingInfo, AtHorizon,
         tablesOfPoints, histories, totals, pointsVars
<1>3. CASE FailPointsJob
  BY <1>3, SameTotals DEF FailPointsJob, tablesOfPoints, totals
<1>4. CASE SetBackfill
  <2>1. PICK hours : /\ PayHours(hours) /\ DOMAIN hours = michiWallets
                     /\ \A w \in michiWallets : hours[w] \in Nat
    BY <1>4, BackfillHours
  <2>2. UNCHANGED <<stakingJob, staked>> /\ michiWallets \subseteq Indices
    BY <1>4 DEF SetBackfill, HoursTypeOK
  <2>3. QED  BY <2>1, <2>2, PayingKeepsTotals
<1>5. CASE SetPoints
  <2> DEFINE hours == [w \in pointsJob.batch |-> 1]
  <2>1. PayHours(hours) /\ UNCHANGED <<stakingJob, staked>>
    BY <1>5 DEF SetPoints
  <2>2. DOMAIN hours \subseteq Indices /\ \A w \in DOMAIN hours : hours[w] \in Nat
    BY JobIs
  <2> HIDE DEF hours
  <2>3. QED  BY <2>1, <2>2, PayingKeepsTotals
<1>6. CASE EnsureUserExists
  <2>1. PICK u \in Users : points[u] = NoRow /\ points' = [points EXCEPT ![u] = 0]
    BY <1>6 DEF EnsureUserExists
  <2>2. UNCHANGED <<stakingJob, credited, staked, raced>>
    BY <1>6 DEF EnsureUserExists, histories
  <2>3. /\ \A v \in Users : Earned(v)' = Earned(v)
        /\ points'[u] = 0 /\ \A v \in Users \ {u} : points'[v] = points[v]
        /\ 0 # NoRow
    BY <2>1, <2>2, StakingRecords DEF Earned, PointsTypeInv, PointsTypeOK
  <2>4. Earned(u) = 0
    <3>1. HoursOf(credited, u) = 0
      BY <2>1, EarnedIs DEF TotalsInv
    <3>2. u \in Stakers => staked[u] = 0
      BY <2>1 DEF TotalsInv
    <3>3. QED  BY <3>1, <3>2 DEF Earned
  <2>5. TotalsAddUp'
    BY <2>2, <2>3, <2>4 DEF TotalsInv, TotalsAddUp
  <2>6. stakingJob.pc = "setUser" => stakingJob.user \in Users \ {u}
    BY <2>1 DEF TotalsInv, PointsTypeInv, Users
  <2>7. /\ \A v \in Owners : points'[v] # NoRow
        /\ \A v \in Stakers : points'[v] = NoRow => points[v] = NoRow
    BY <2>3 DEF TotalsInv, Users
  <2>8. QED  BY <2>2, <2>3, <2>5, <2>6, <2>7 DEF TotalsInv
<1>7. CASE FindStakingInfos \/ FailStakingJob \/ SetUpdatedAt
  <2>1. UNCHANGED <<points, credited, staked, raced>>
    BY <1>7 DEF FindStakingInfos, FailStakingJob, SetUpdatedAt, tablesOfPoints, histories
  <2>2. stakingJob'.pc # "setUser"
    <3>1. stakingJob' = IdleStakingJob \/ stakingJob'.pc = "findUser"
      BY <1>7, StakingRecords
         DEF FindStakingInfos, FailStakingJob, SetUpdatedAt, PointsTypeInv, PointsTypeOK,
             StakingJob
    <3>2. QED  BY <3>1, StakingRecords
  <2>3. QED  BY <2>1, <2>2, SamePoints
<1>8. CASE FindUser
  <2>1. UNCHANGED <<points, credited, staked, raced>>
    BY <1>8 DEF FindUser, tablesOfPoints, histories
  <2>2. PICK u \in Stakers :
          /\ stakingJob'.pc = IF points[u] = NoRow THEN "setUpdatedAt" ELSE "setUser"
          /\ stakingJob'.user = u
          /\ points[u] # NoRow => stakingJob'.read = points[u]
    BY <1>8, FindUserIs DEF HoursTypeOK
  <2>3. points[u] # NoRow => points[u] \in Int
    BY EarnedIs DEF Users
  <2>4. TotalsAddUp'
    BY <2>1 DEF TotalsInv, TotalsAddUp, Earned
  <2>5. QED  BY <2>1, <2>2, <2>3, <2>4 DEF TotalsInv
<1>9. CASE SetUser
  <2>1. PICK u \in Stakers, e \in Int : u = stakingJob.user /\ e = stakingJob.earned
    BY <1>9, StakingJobIs DEF SetUser, PointsTypeInv
  <2>2. /\ stakingJob.pc = "setUser" /\ u \in Users
        /\ points[u] # NoRow /\ points[u] \in Int
        /\ stakingJob.read \in Int
    BY <1>9, <2>1, StakingJobIs, EarnedIs DEF SetUser, PointsTypeInv, TotalsInv, Users
  <2>3. /\ points' = [points EXCEPT ![u] = stakingJob.read + e]
        /\ staked' = [staked EXCEPT ![u] = staked[u] + e]
        /\ UNCHANGED <<credited, raced>>
        /\ stakingJob'.pc # "setUser"
    BY <1>9, <2>1 DEF SetUser, PointsTypeInv, PointsTypeOK, StakingJob
  <2>4. points \in [Users -> Int \cup {NoRow}] /\ staked \in [Stakers -> Int]
    BY DEF PointsTypeInv, PointsTypeOK
  <2>5. /\ points'[u] = stakingJob.read + e /\ points'[u] # NoRow
        /\ \A v \in Users \ {u} : points'[v] = points[v]
        /\ staked'[u] = staked[u] + e /\ staked[u] \in Int
        /\ \A v \in Stakers \ {u} : staked'[v] = staked[v]
    BY <2>2, <2>3, <2>4, StakingRecords
  <2>6. /\ Earned(u)' = Earned(u) + e
        /\ \A v \in Users \ {u} : Earned(v)' = Earned(v)
    <3>1. HoursOf(credited, u) \in Nat
      BY <2>2, EarnedIs
    <3>2. Earned(u)' = Earned(u) + e
      <4>1. Earned(u)' = HoursOf(credited, u) + (staked[u] + e)
        BY <2>2, <2>3, <2>5 DEF Earned
      <4>2. Earned(u) = HoursOf(credited, u) + staked[u]
        BY <2>2 DEF Earned
      <4> DEFINE paid == HoursOf(credited, u)
      <4>3. Earned(u)' = paid + (staked[u] + e) /\ Earned(u) = paid + staked[u] /\ paid \in Nat
        BY <3>1, <4>1, <4>2
      <4> HIDE DEF paid
      <4>4. QED  BY <2>2, <2>5, <4>3
    <3>3. \A v \in Users \ {u} : Earned(v)' = Earned(v)
      BY <2>3, <2>5 DEF Earned
    <3>4. QED  BY <3>2, <3>3
  <2>7. /\ stakingJob.read <= points[u] /\ points[u] <= Earned(u) /\ Earned(u) \in Int
        /\ u \notin raced => stakingJob.read = Earned(u)
    BY <2>1, <2>2, EarnedIs DEF TotalsInv, TotalsAddUp
  <2>8. /\ points'[u] <= Earned(u)'
        /\ u \notin raced => points'[u] = Earned(u)'
    <3> DEFINE earned == Earned(u)
    <3>1. /\ points'[u] = stakingJob.read + e /\ Earned(u)' = earned + e
          /\ stakingJob.read <= points[u] /\ points[u] <= earned /\ earned \in Int
          /\ u \notin raced => stakingJob.read = earned
      BY <2>5, <2>6, <2>7
    <3> HIDE DEF earned
    <3>2. QED  BY <2>2, <3>1
  <2>9. TotalsAddUp'
    BY <2>3, <2>5, <2>6, <2>8 DEF TotalsInv, TotalsAddUp
  <2>20. /\ \A v \in Owners : points'[v] # NoRow
        /\ \A v \in Stakers : points'[v] = NoRow => staked'[v] = 0
    BY <2>5 DEF TotalsInv, Users
  <2>21. QED  BY <2>3, <2>9, <2>20 DEF TotalsInv
<1>10. CASE UNCHANGED pointsVars
  BY <1>10, SameTotals DEF pointsVars, tablesOfPoints, histories, totals
<1>11. QED
  BY <1>1, <1>2, <1>3, <1>4, <1>5, <1>6, <1>7, <1>8, <1>9, <1>10
     DEF PointsNext, RunPointsJob, RunStakingJob

\* The points of every user are what his wallets and stakes have earned, and
\* never more.
LEMMA AlwaysTotals == PointsSpec => []TotalsInv
<1>1. MadeUpInv => HoursTypeOK
  BY DEF MadeUpInv
<1>2. QED
  BY <1>1, AlwaysMadeUp, AlwaysPointsTyped, TotalsInit, TotalsStep, PTL DEF PointsSpec

\* For any tables, batches and faults, a user has no more points than his hours
\* and stakes have brought, and no fewer unless the two jobs have raced for him.
THEOREM TotalsAlwaysAddUp == PointsSpec => []TotalsAddUp
<1>1. TotalsInv => TotalsAddUp
  BY DEF TotalsInv
<1>2. QED  BY <1>1, AlwaysTotals, PTL

----------------------------------------------------------------------------
(* What wallets are paid at most.                                          *)

\* The whole hours until the last complete run.
Before == LastRun \div 2

\* Until a run has paid, wallets have what they had before.  Until it has
\* backfilled they have an hour more, if their batch has been paid, and in the
\* end the hours until its start.  The half hours since the start of the run are
\* part of slow; those before it are slow - Ahead.
PaidInv ==
  /\ pointsJob.pc = "idle" =>
       \A w \in michiWallets : credited[w] <= Before + slow
  /\ pointsJob.pc # "idle" =>
       \A w \in michiWallets :
         /\ credited[w] <= Target + slow
         /\ w >= pointsJob.from => credited[w] + 1 <= Target + slow
         /\ ~pointsJob.paid => credited[w] + Ahead <= Before + slow
         /\ ~pointsJob.filled =>
              /\ credited[w] + Ahead <= Before + slow + 1
              /\ w >= pointsJob.from => credited[w] + Ahead <= Before + slow
  /\ pointsJob.pc \in {"getBalances", "setBackfill", "setPoints"} =>
       \A w \in pointsJob.batch : pointsJob.from <= w /\ w < pointsJob.from + WalletsPerBatch
  /\ pointsJob.pc = "setBackfill" =>
       \/ pointsJob.hours = 0
       \/ pointsJob.hours + 1 + RoundToNearestHour(LastRun) <= RoundToNearestHour(clock)

WalletsInv ==
  /\ pointsJob.pc # "idle" => slow >= Ahead /\ LastRun < pointsJob.started
  /\ Gapless /\ ~torn => PaidInv

\* Without a gap, a batch ends before the index of the next.
LEMMA GaplessBatch ==
  ASSUME HoursTypeOK, Gapless, NEW i \in Nat, NEW w \in WalletsFrom(i)
  PROVE  i <= w /\ w < i + WalletsPerBatch
<1> DEFINE before == {k \in michiWallets : i <= k /\ k < w}
           n == WalletsPerBatch
<1>1. w \in michiWallets /\ w \in Nat /\ i <= w /\ Cardinality(before) < n /\ n \in Nat \ {0}
  BY JobIs DEF WalletsFrom, HoursTypeOK
<1>2. SUFFICES ASSUME w >= i + n
               PROVE  FALSE
  BY <1>1
<1>3. i .. i + n - 1 \subseteq before
  <2>1. 0 .. w \subseteq michiWallets
    BY <1>1 DEF Gapless
  <2>2. \A k \in i .. i + n - 1 : k \in 0 .. w /\ i <= k /\ k < w
    BY <1>1, <1>2
  <2>3. QED  BY <2>1, <2>2
<1>4. Cardinality(i .. i + n - 1) = n /\ IsFiniteSet(i .. i + n - 1)
  <2>1. /\ IsFiniteSet(i .. i + n - 1)
        /\ Cardinality(i .. i + n - 1) = IF i > i + n - 1 THEN 0 ELSE (i + n - 1) - i + 1
    BY <1>1, FS_Interval
  <2>2. QED  BY <1>1, <2>1
<1>5. IsFiniteSet(before)
  BY WalletsAreFinite DEF HoursTypeOK
<1>6. Cardinality(before) \in Nat /\ Cardinality(i .. i + n - 1) <= Cardinality(before)
  BY <1>3, <1>5, FS_Subset, FS_CardinalityType
<1>7. QED  BY <1>1, <1>4, <1>6

LEMMA OneBatch ==
  ASSUME HoursTypeOK, Gapless, NEW w \in michiWallets
  PROVE  Cardinality(BatchesWith(w)) = 1
<1> DEFINE n == WalletsPerBatch
           b == w \div n
<1>1. w \in Nat /\ n \in Nat \ {0}
  BY JobIs DEF HoursTypeOK
<1>2. BatchesWith(w) \subseteq {b}
  <2> SUFFICES ASSUME NEW k \in BatchesWith(w)
               PROVE  k = b
    OBVIOUS
  <2>1. k \in Nat /\ w \in WalletsFrom(k * n)
    BY <1>1 DEF BatchesWith
  <2>2. k * n \in Nat
    BY <1>1, <2>1
  <2>3. k * n <= w /\ w < k * n + n
    BY <2>1, <2>2, GaplessBatch
  <2>4. b \in Nat /\ b * n <= w /\ w < b * n + n
    BY <1>1
  <2>5. \A l, m \in Nat : l < m => l * n + n <= m * n
    BY <1>1
  <2>6. /\ ~(k < b) /\ ~(b < k)
    <3>1. k * n \in Nat /\ b * n \in Nat
      BY <1>1, <2>1, <2>4
    <3> HIDE DEF b, n
    <3>2. QED  BY <1>1, <2>1, <2>3, <2>4, <2>5, <3>1
  <2> HIDE DEF b
  <2>7. QED  BY <2>1, <2>4, <2>6
<1>3. Cardinality(BatchesWith(w)) <= 1
  <2> HIDE DEF b
  <2>1. IsFiniteSet({b}) /\ Cardinality({b}) = 1
    BY FS_Singleton
  <2>2. QED  BY <1>2, <2>1, FS_Subset
<1>4. QED  BY <1>3, InABatch

\* The numbers of the invariant.
LEMMA PaidNumbers ==
  ASSUME HoursTypeOK
  PROVE  /\ clock \in Nat /\ slow \in Nat /\ LastRun \in Nat /\ LastRun <= clock
         /\ Before \in Nat /\ 2 * Before \in {LastRun, LastRun - 1}
         /\ Before <= RoundToNearestHour(LastRun)
         /\ RoundToNearestHour(LastRun) \in Nat
         /\ RoundToNearestHour(clock) \in Nat /\ 2 * RoundToNearestHour(clock) \in {clock, clock + 1}
         /\ pointsJob.from \in Nat /\ pointsJob.hours \in Nat /\ pointsJob.started \in Nat
         /\ \A w \in michiWallets : w \in Nat /\ credited[w] \in Nat
         /\ WalletsPerBatch \in Nat
         /\ pointsJob.pc # "idle" => /\ Target \in Nat /\ Ahead \in Nat
                                     /\ 2 * Target = pointsJob.started
                                     /\ clock = 2 * Target + Ahead
                                     /\ RoundToNearestHour(clock) <= Target + Ahead
<1>1. /\ clock \in Nat /\ slow \in Nat /\ LastRun \in Nat /\ LastRun <= clock
      /\ pointsJob.from \in Nat /\ pointsJob.hours \in Nat /\ pointsJob.started \in Nat
      /\ \A w \in michiWallets : w \in Nat /\ credited[w] \in Nat
      /\ WalletsPerBatch \in Nat
  BY JobIs DEF HoursTypeOK
<1>2. /\ RoundToNearestHour(LastRun) \in Nat /\ 2 * RoundToNearestHour(LastRun) \in {LastRun, LastRun + 1}
      /\ RoundToNearestHour(clock) \in Nat /\ 2 * RoundToNearestHour(clock) \in {clock, clock + 1}
  BY <1>1, Halves
<1>3. Before \in Nat /\ 2 * Before \in {LastRun, LastRun - 1}
  BY <1>1 DEF Before
<1>4. Before <= RoundToNearestHour(LastRun)
  BY <1>1, <1>2, <1>3
<1>5. ASSUME pointsJob.pc # "idle"
      PROVE  /\ Target \in Nat /\ Ahead \in Nat
             /\ 2 * Target = pointsJob.started
             /\ clock = 2 * Target + Ahead
             /\ RoundToNearestHour(clock) <= Target + Ahead
  <2>1. pointsJob.started <= clock /\ pointsJob.started % 2 = 0
    BY <1>5 DEF HoursTypeOK
  <2>2. Target \in Nat /\ Ahead \in Nat /\ 2 * Target = pointsJob.started
    BY <1>1, <2>1, Halves DEF Target, Ahead
  <2>3. clock = 2 * Target + Ahead
    BY <1>1, <2>2 DEF Ahead
  <2>4. QED  BY <1>2, <2>2, <2>3
<1>6. QED  BY <1>1, <1>2, <1>3, <1>4, <1>5

\* The step keeps what wallets are paid by.
LEMMA SameWallets ==
  ASSUME WalletsInv, UNCHANGED <<clock, michiWallets, lastProcessed, pointsJob, credited, torn, slow>>
  PROVE  WalletsInv'
BY DEF WalletsInv, PaidInv, Gapless, LastRun, Before, Ahead, Target

LEMMA TickWallets == ASSUME HoursTypeOK, HoursTypeOK', WalletsInv, Tick PROVE WalletsInv'
<1>1. /\ clock' = clock + 1 /\ UNCHANGED <<michiWallets, lastProcessed, credited, torn>>
      /\ LastRun' = LastRun /\ Before' = Before /\ (Gapless' <=> Gapless)
  BY DEF Tick, tablesOfPoints, histories, LastRun, Before, Gapless
<1>2. slow' \in {slow, slow + 1} /\ (pointsJob.pc # "idle" => slow' = slow + 1)
  BY DEF Tick, Running
<1>3. /\ clock \in Nat /\ slow \in Nat /\ LastRun \in Nat /\ LastRun <= clock
      /\ Before \in Nat /\ 2 * Before \in {LastRun, LastRun - 1}
      /\ \A w \in michiWallets : w \in Nat /\ credited[w] \in Nat
      /\ RoundToNearestHour(LastRun) \in Nat
      /\ RoundToNearestHour(clock) \in Nat /\ RoundToNearestHour(clock)' \in Nat
      /\ RoundToNearestHour(clock) <= RoundToNearestHour(clock)'
  BY <1>1, PaidNumbers, Halves
<1>4. CASE UNCHANGED pointsJob /\ pointsJob.pc = "idle"
  <2>1. ASSUME Gapless, ~torn
        PROVE  \A w \in michiWallets : credited[w] <= Before + slow'
    <3>1. \A w \in michiWallets : credited[w] <= Before + slow
      BY <1>4, <2>1 DEF WalletsInv, PaidInv
    <3>2. QED  BY <1>2, <1>3, <3>1
  <2>2. QED  BY <1>1, <1>4, <2>1 DEF WalletsInv, PaidInv
<1>5. CASE UNCHANGED pointsJob /\ pointsJob.pc # "idle"
  <2> DEFINE target == Target
             ahead == Ahead
             before == Before
  <2>1. /\ target \in Nat /\ ahead \in Nat /\ before \in Nat
        /\ Target' = target /\ Ahead' = ahead + 1 /\ Before' = before /\ slow' = slow + 1
        /\ slow >= ahead /\ LastRun < pointsJob.started
    BY <1>1, <1>2, <1>3, <1>5, PaidNumbers DEF Target, Ahead, WalletsInv
  <2>2. ASSUME Gapless, ~torn
        PROVE  PaidInv'
    <3>1. /\ \A w \in michiWallets :
               /\ credited[w] <= target + slow
               /\ w >= pointsJob.from => credited[w] + 1 <= target + slow
               /\ ~pointsJob.paid => credited[w] + ahead <= before + slow
               /\ ~pointsJob.filled =>
                    /\ credited[w] + ahead <= before + slow + 1
                    /\ w >= pointsJob.from => credited[w] + ahead <= before + slow
          /\ pointsJob.pc \in {"getBalances", "setBackfill", "setPoints"} =>
               \A w \in pointsJob.batch : pointsJob.from <= w /\ w < pointsJob.from + WalletsPerBatch
          /\ pointsJob.pc = "setBackfill" =>
               \/ pointsJob.hours = 0
               \/ pointsJob.hours + 1 + RoundToNearestHour(LastRun) <= RoundToNearestHour(clock)
      BY <1>5, <2>2 DEF WalletsInv, PaidInv
    <3>2. pointsJob.hours \in Nat
      BY PaidNumbers
    <3> HIDE DEF target, ahead, before
    <3>3. \A w \in michiWallets :
            /\ credited[w] <= target + (slow + 1)
            /\ w >= pointsJob.from => credited[w] + 1 <= target + (slow + 1)
            /\ ~pointsJob.paid => credited[w] + (ahead + 1) <= before + (slow + 1)
            /\ ~pointsJob.filled =>
                 /\ credited[w] + (ahead + 1) <= before + (slow + 1) + 1
                 /\ w >= pointsJob.from => credited[w] + (ahead + 1) <= before + (slow + 1)
      BY <1>3, <2>1, <3>1
    <3>4. pointsJob.pc = "setBackfill" =>
            \/ pointsJob.hours = 0
            \/ pointsJob.hours + 1 + RoundToNearestHour(LastRun) <= RoundToNearestHour(clock)'
      BY <1>3, <3>1, <3>2
    <3>5. QED  BY <1>1, <1>5, <2>1, <3>1, <3>3, <3>4 DEF PaidInv
  <2>3. slow' >= Ahead'
    BY <1>3, <2>1
  <2>4. QED  BY <1>1, <1>5, <2>1, <2>2, <2>3 DEF WalletsInv
<1>6. CASE /\ pointsJob.pc = "idle"
           /\ pointsJob' = [IdlePointsJob EXCEPT !.pc = "getBatch", !.started = clock']
  <2>1. /\ pointsJob'.pc = "getBatch" /\ pointsJob'.started = clock' /\ pointsJob'.from = 0
        /\ pointsJob'.paid = FALSE /\ pointsJob'.filled = FALSE
    BY <1>6 DEF IdlePointsJob
  <2>2. Ahead' = 0 /\ slow' \in Nat /\ 2 * Target' = clock + 1 /\ Target' \in Nat
    BY <1>1, <1>2, <1>3, <2>1, PaidNumbers DEF Ahead, HoursTypeOK, Target
  <2>3. ASSUME Gapless, ~torn
        PROVE  PaidInv'
    <3>1. \A w \in michiWallets : credited[w] <= Before + slow
      BY <1>6, <2>3 DEF WalletsInv, PaidInv
    <3>2. Before + 1 <= Target'
      <4> DEFINE before == Before
                 target == pointsJob'.started \div 2
                 past == LastRun
      <4>1. /\ before \in Nat /\ target \in Nat /\ past \in Nat /\ past <= clock
            /\ 2 * before \in {past, past - 1} /\ 2 * target = clock + 1 /\ Target' = target
        BY <1>3, <2>2 DEF Target
      <4> HIDE DEF before, target, past
      <4>2. before + 1 <= target
        BY <1>3, <4>1
      <4>3. QED  BY <4>1, <4>2 DEF before
    <3>3. \A w \in michiWallets :
            /\ credited[w] <= Target' + slow' /\ credited[w] + 1 <= Target' + slow'
            /\ credited[w] + 0 <= Before + slow' /\ credited[w] + 0 <= Before + slow' + 1
      BY <1>2, <1>3, <2>2, <3>1, <3>2
    <3>4. QED  BY <1>1, <2>1, <2>2, <3>3 DEF PaidInv
  <2>4. slow' >= Ahead' /\ LastRun < pointsJob'.started
    BY <1>1, <1>3, <2>1, <2>2
  <2>5. QED  BY <1>1, <2>1, <2>3, <2>4 DEF WalletsInv
<1>7. QED  BY <1>4, <1>5, <1>6 DEF Tick

\* The part of a run that does not depend on where it is.
RunPaid ==
  \A w \in michiWallets :
    /\ credited[w] <= Target + slow
    /\ w >= pointsJob.from => credited[w] + 1 <= Target + slow
    /\ ~pointsJob.paid => credited[w] + Ahead <= Before + slow
    /\ ~pointsJob.filled =>
         /\ credited[w] + Ahead <= Before + slow + 1
         /\ w >= pointsJob.from => credited[w] + Ahead <= Before + slow

LEMMA Runs ==
  ASSUME HoursTypeOK, WalletsInv, pointsJob.pc # "idle"
  PROVE  /\ slow >= Ahead /\ LastRun < pointsJob.started
         /\ Gapless /\ ~torn => RunPaid
BY DEF WalletsInv, PaidInv, RunPaid

\* A step within a run that pays nobody.
LEMMA RunGoesOn ==
  ASSUME HoursTypeOK, WalletsInv,
         UNCHANGED <<clock, michiWallets, lastProcessed, credited, torn, slow>>,
         pointsJob.pc # "idle", pointsJob'.pc # "idle",
         pointsJob'.started = pointsJob.started, pointsJob'.from = pointsJob.from,
         pointsJob'.paid = pointsJob.paid, pointsJob'.filled = pointsJob.filled,
         Gapless /\ ~torn =>
           /\ pointsJob'.pc \in {"getBalances", "setBackfill", "setPoints"} =>
                \A w \in pointsJob'.batch :
                  pointsJob.from <= w /\ w < pointsJob.from + WalletsPerBatch
           /\ pointsJob'.pc = "setBackfill" =>
                \/ pointsJob'.hours = 0
                \/ pointsJob'.hours + 1 + RoundToNearestHour(LastRun) <= RoundToNearestHour(clock)
  PROVE  WalletsInv'
<1>1. /\ LastRun' = LastRun /\ Before' = Before /\ Target' = Target /\ Ahead' = Ahead
      /\ Gapless' <=> Gapless
  BY DEF LastRun, Before, Target, Ahead, Gapless
<1>2. RunPaid => RunPaid'
  BY <1>1 DEF RunPaid
<1>3. QED  BY <1>1, <1>2, Runs DEF WalletsInv, PaidInv, RunPaid

LEMMA GetBatchWallets == ASSUME HoursTypeOK, WalletsInv, GetBatch PROVE WalletsInv'
<1> DEFINE batch == WalletsFrom(pointsJob.from)
           pc == IF batch = {} THEN "setTime" ELSE "getBalances"
<1>1. pointsJob' = [pointsJob EXCEPT !.pc = pc, !.batch = batch] /\ pointsJob.pc = "getBatch"
  BY DEF GetBatch
<1>2. UNCHANGED <<clock, michiWallets, lastProcessed, credited, torn, slow>>
  BY DEF GetBatch, tablesOfPoints, histories, bounded
<1>3. pointsJob \in PointsJob /\ pc \in {"setTime", "getBalances"}
  BY DEF HoursTypeOK
<1>4. Gapless => \A w \in batch : pointsJob.from <= w /\ w < pointsJob.from + WalletsPerBatch
  BY JobIs, GaplessBatch
<1> HIDE DEF batch, pc
<1>5. /\ pointsJob'.pc = pc /\ pointsJob'.batch = batch /\ pointsJob'.from = pointsJob.from
      /\ pointsJob'.started = pointsJob.started
      /\ pointsJob'.paid = pointsJob.paid /\ pointsJob'.filled = pointsJob.filled
  BY <1>1, <1>3 DEF PointsJob
<1>6. QED  BY <1>1, <1>2, <1>3, <1>4, <1>5, RunGoesOn

LEMMA GetBalancesWallets == ASSUME HoursTypeOK, WalletsInv, GetBalances PROVE WalletsInv'
<1>1. /\ UNCHANGED <<clock, michiWallets, lastProcessed, credited, torn, slow>>
      /\ pointsJob.pc = "getBalances"
  BY DEF GetBalances, tablesOfPoints, histories, bounded
<1>2. Gapless /\ ~torn =>
        \A w \in pointsJob.batch : pointsJob.from <= w /\ w < pointsJob.from + WalletsPerBatch
  BY <1>1 DEF WalletsInv, PaidInv
<1>3. /\ pointsJob'.pc \in {"setBackfill", "setPoints"}
      /\ pointsJob'.pc = "setBackfill" => pointsJob'.hours = HoursToBackfill
      /\ pointsJob'.batch = pointsJob.batch /\ pointsJob'.from = pointsJob.from
      /\ pointsJob'.started = pointsJob.started
      /\ pointsJob'.paid = pointsJob.paid /\ pointsJob'.filled = pointsJob.filled
  BY DEF GetBalances, HoursTypeOK, PointsJob
<1>4. \/ HoursToBackfill = 0
      \/ HoursToBackfill + 1 + RoundToNearestHour(LastRun) <= RoundToNearestHour(clock)
  <2> DEFINE now == RoundToNearestHour(clock)
             past == RoundToNearestHour(LastRun)
  <2>1. RoundToNearestHour(0) = 0
    BY Halves
  <2>2. HoursToBackfill = IF now - 1 > past THEN (now - 1) - past ELSE 0
    BY <2>1 DEF HoursToBackfill, LastRun
  <2>3. now \in Nat /\ past \in Nat
    BY PaidNumbers
  <2> HIDE DEF now, past
  <2>4. HoursToBackfill = 0 \/ HoursToBackfill + 1 + past <= now
    BY <2>2, <2>3
  <2>5. QED  BY <2>4 DEF now, past
<1>5. QED  BY <1>1, <1>2, <1>3, <1>4, RunGoesOn

\* After the backfill the batch is paid its hour, and no more than that.
LEMMA SetBackfillWallets == ASSUME HoursTypeOK, WalletsInv, SetBackfill PROVE WalletsInv'
<1>1. /\ UNCHANGED <<clock, michiWallets, lastProcessed, slow>> /\ pointsJob.pc = "setBackfill"
      /\ torn' = (torn \/ (pointsJob.filled /\ pointsJob.hours > 0))
  BY DEF SetBackfill, bounded
<1>2. /\ pointsJob'.pc = "setPoints" /\ pointsJob'.filled = TRUE
      /\ ~pointsJob'.paid => ~pointsJob.paid /\ ~(pointsJob.hours > 0)
      /\ pointsJob'.batch = pointsJob.batch /\ pointsJob'.from = pointsJob.from
      /\ pointsJob'.started = pointsJob.started
  <2> DEFINE paid == pointsJob.paid \/ pointsJob.hours > 0
  <2>1. /\ pointsJob' = [pointsJob EXCEPT !.pc = "setPoints", !.filled = TRUE, !.paid = paid]
        /\ pointsJob \in PointsJob
    BY DEF SetBackfill, HoursTypeOK
  <2>2. ~paid => ~pointsJob.paid /\ ~(pointsJob.hours > 0)
    BY Zenon
  <2> HIDE DEF paid
  <2>3. QED  BY <2>1, <2>2 DEF PointsJob
<1>3. /\ LastRun' = LastRun /\ Before' = Before /\ Target' = Target /\ Ahead' = Ahead
      /\ Gapless' <=> Gapless
  BY <1>1, <1>2 DEF LastRun, Before, Target, Ahead, Gapless
<1>4. slow >= Ahead /\ LastRun < pointsJob.started
  BY <1>1, Runs
<1>5. ASSUME Gapless, ~torn'
      PROVE  PaidInv'
  <2>1. RunPaid /\ ~torn /\ (pointsJob.filled => ~(pointsJob.hours > 0))
    BY <1>1, <1>5, Runs
  <2>2. /\ \A w \in pointsJob.batch : pointsJob.from <= w /\ w < pointsJob.from + WalletsPerBatch
        /\ pointsJob.hours = 0
           \/ pointsJob.hours + 1 + RoundToNearestHour(LastRun) <= RoundToNearestHour(clock)
    BY <1>1, <1>5, <2>1 DEF WalletsInv, PaidInv
  <2>3. PICK hours : /\ PayHours(hours) /\ DOMAIN hours = michiWallets
                     /\ \A w \in michiWallets :
                          hours[w] \in Nat /\ hours[w] = pointsJob.hours * Cardinality(BatchesWith(w))
    BY BackfillHours
  <2>4. \A w \in michiWallets : hours[w] = pointsJob.hours
    BY <1>5, <2>3, OneBatch, PaidNumbers
  <2>5. \A w \in michiWallets : credited'[w] = credited[w] + pointsJob.hours
    BY <2>3, <2>4, PaidMore DEF HoursTypeOK
  <2> DEFINE target == Target
             ahead == Ahead
             before == Before
             past == RoundToNearestHour(LastRun)
             now == RoundToNearestHour(clock)
             h == pointsJob.hours
  <2>6. /\ target \in Nat /\ ahead \in Nat /\ before \in Nat /\ past \in Nat /\ now \in Nat
        /\ h \in Nat /\ slow \in Nat /\ before <= past /\ now <= target + ahead
        /\ \A w \in michiWallets : w \in Nat /\ credited[w] \in Nat
    BY <1>1, PaidNumbers
  <2>7. \A w \in michiWallets :
          /\ credited[w] <= target + slow
          /\ w >= pointsJob.from => credited[w] + 1 <= target + slow
          /\ ~pointsJob.paid => credited[w] + ahead <= before + slow
          /\ ~pointsJob.filled =>
               /\ credited[w] + ahead <= before + slow + 1
               /\ w >= pointsJob.from => credited[w] + ahead <= before + slow
    BY <2>1 DEF RunPaid
  <2>8. h = 0 \/ h + 1 + past <= now
    BY <2>2
  <2>9. \A w \in michiWallets : credited'[w] = credited[w] + h
    BY <2>5
  <2>10. pointsJob.filled => ~(h > 0)
    BY <2>1
  <2>11. ~pointsJob'.paid => ~pointsJob.paid /\ ~(h > 0)
    BY <1>2
  <2> HIDE DEF target, ahead, before, past, now, h
  <2>12. ASSUME NEW w \in michiWallets
         PROVE  /\ credited'[w] <= target + slow
                /\ w >= pointsJob.from => credited'[w] + 1 <= target + slow
                /\ ~pointsJob'.paid => credited'[w] + ahead <= before + slow
    <3>1. CASE h = 0
      BY <2>6, <2>7, <2>9, <2>11, <3>1
    <3>2. CASE h # 0
      <4>1. h > 0 /\ h + 1 + past <= now /\ ~pointsJob.filled /\ pointsJob'.paid
        BY <2>6, <2>8, <2>10, <2>11, <3>2
      <4>2. /\ credited[w] + ahead <= before + slow + 1
            /\ w >= pointsJob.from => credited[w] + ahead <= before + slow
        BY <2>7, <4>1
      <4> DEFINE c == credited[w]
                 later == credited'[w]
      <4>3. /\ c \in Nat /\ later = c + h
            /\ c + ahead <= before + slow + 1
            /\ w >= pointsJob.from => c + ahead <= before + slow
        BY <2>6, <2>9, <4>2
      <4>4. /\ target \in Nat /\ ahead \in Nat /\ before \in Nat /\ past \in Nat /\ now \in Nat
            /\ h \in Nat /\ slow \in Nat /\ before <= past /\ now <= target + ahead
        BY <2>6
      <4> HIDE DEF c, later
      <4>5. later <= target + slow /\ (w >= pointsJob.from => later + 1 <= target + slow)
        BY ONLY <4>1, <4>3, <4>4
      <4>6. QED  BY <4>1, <4>5 DEF later
    <3>3. QED  BY <3>1, <3>2
  <2>13. QED
    BY <1>1, <1>2, <1>3, <2>2, <2>12 DEF PaidInv, target, ahead, before
<1>6. QED  BY <1>1, <1>2, <1>3, <1>4, <1>5 DEF WalletsInv

LEMMA SetPointsWallets == ASSUME HoursTypeOK, WalletsInv, SetPoints PROVE WalletsInv'
<1>1. /\ UNCHANGED <<clock, michiWallets, lastProcessed, torn, slow>> /\ pointsJob.pc = "setPoints"
  BY DEF SetPoints, bounded
<1>2. /\ pointsJob'.pc = "getBatch" /\ pointsJob'.filled = pointsJob.filled
      /\ pointsJob'.paid = TRUE /\ pointsJob'.from = pointsJob.from + WalletsPerBatch
      /\ pointsJob'.started = pointsJob.started
  BY DEF SetPoints, HoursTypeOK, PointsJob
<1>3. /\ LastRun' = LastRun /\ Before' = Before /\ Target' = Target /\ Ahead' = Ahead
      /\ Gapless' <=> Gapless
  BY <1>1, <1>2 DEF LastRun, Before, Target, Ahead, Gapless
<1>4. slow >= Ahead /\ LastRun < pointsJob.started
  BY <1>1, Runs
<1>5. ASSUME Gapless, ~torn
      PROVE  PaidInv'
  <2>1. RunPaid
    BY <1>1, <1>5, Runs
  <2>2. \A w \in pointsJob.batch : pointsJob.from <= w /\ w < pointsJob.from + WalletsPerBatch
    BY <1>1, <1>5 DEF WalletsInv, PaidInv
  <2>3. \A w \in michiWallets :
          credited'[w] = credited[w] + IF w \in pointsJob.batch THEN 1 ELSE 0
    <3> DEFINE hours == [w \in pointsJob.batch |-> 1]
    <3>1. PayHours(hours)
      BY DEF SetPoints
    <3>2. credited' = [w \in Indices |-> credited[w] + IF w \in DOMAIN hours THEN hours[w] ELSE 0]
      BY <3>1, Credits
    <3>3. michiWallets \subseteq Indices
      BY DEF HoursTypeOK
    <3>4. QED  BY <3>2, <3>3
  <2> DEFINE target == Target
             ahead == Ahead
             before == Before
             from == pointsJob.from
             n == WalletsPerBatch
  <2>4. /\ target \in Nat /\ ahead \in Nat /\ before \in Nat /\ slow \in Nat /\ from \in Nat /\ n \in Nat
        /\ \A w \in michiWallets : w \in Nat /\ credited[w] \in Nat
    BY <1>1, PaidNumbers
  <2>5. \A w \in michiWallets :
          /\ credited[w] <= target + slow
          /\ w >= from => credited[w] + 1 <= target + slow
          /\ ~pointsJob.filled =>
               /\ credited[w] + ahead <= before + slow + 1
               /\ w >= from => credited[w] + ahead <= before + slow
    BY <2>1 DEF RunPaid
  <2>6. \A w \in pointsJob.batch : from <= w /\ w < from + n
    BY <2>2
  <2> HIDE DEF target, ahead, before, from, n
  <2>7. ASSUME NEW w \in michiWallets
        PROVE  /\ credited'[w] <= target + slow
               /\ w >= from + n => credited'[w] + 1 <= target + slow
               /\ ~pointsJob.filled =>
                    /\ credited'[w] + ahead <= before + slow + 1
                    /\ w >= from + n => credited'[w] + ahead <= before + slow
    <3>1. CASE w \in pointsJob.batch
      <4>1. from <= w /\ ~(w >= from + n) /\ credited'[w] = credited[w] + 1
        BY <2>3, <2>4, <2>6, <3>1
      <4>2. w >= from
        BY <2>4, <4>1
      <4>3. /\ credited[w] + 1 <= target + slow
            /\ ~pointsJob.filled => credited[w] + ahead <= before + slow
        BY <2>5, <4>2
      <4>4. QED  BY <2>4, <4>1, <4>3
    <3>2. CASE w \notin pointsJob.batch
      <4>1. credited'[w] = credited[w]
        BY <2>3, <2>4, <3>2
      <4>2. w >= from + n => w >= from
        BY <2>4
      <4>3. QED  BY <2>5, <4>1, <4>2
    <3>3. QED  BY <3>1, <3>2
  <2>8. QED
    BY <1>1, <1>2, <1>3, <2>7 DEF PaidInv, target, ahead, before, from, n
<1>6. QED  BY <1>1, <1>2, <1>3, <1>4, <1>5 DEF WalletsInv

LEMMA SetTimeWallets ==
  ASSUME HoursTypeOK, WalletsInv, SetLastPointsProcessingTime
  PROVE  WalletsInv'
<1>1. /\ UNCHANGED <<clock, michiWallets, credited, torn, slow>> /\ pointsJob.pc = "setTime"
      /\ lastProcessed' = clock /\ pointsJob'.pc = "idle"
  BY IdleRun DEF SetLastPointsProcessingTime, histories, bounded
<1>2. clock \in Nat /\ LastRun' = clock /\ (Gapless' <=> Gapless)
  BY <1>1, PaidNumbers, PointsAssumption DEF LastRun, Gapless
<1>3. ASSUME Gapless, ~torn
      PROVE  \A w \in michiWallets : credited[w] <= Before' + slow
  <2>1. \A w \in michiWallets : credited[w] <= Target + slow
    BY <1>1, <1>3, Runs DEF RunPaid
  <2>2. Target <= Before' /\ Before' \in Nat
    <3> DEFINE target == Target
               ahead == Ahead
    <3>1. target \in Nat /\ ahead \in Nat /\ clock = 2 * target + ahead /\ Before' = clock \div 2
      BY <1>1, <1>2, PaidNumbers DEF Before
    <3> HIDE DEF target, ahead
    <3>2. target <= Before' /\ Before' \in Nat
      BY <3>1
    <3>3. QED  BY <3>2 DEF target
  <2>3. Target \in Nat /\ slow \in Nat /\ \A w \in michiWallets : credited[w] \in Nat
    BY <1>1, PaidNumbers
  <2>4. QED  BY <2>1, <2>2, <2>3
<1>4. QED  BY <1>1, <1>2, <1>3 DEF WalletsInv, PaidInv

LEMMA FailWallets == ASSUME HoursTypeOK, WalletsInv, FailPointsJob PROVE WalletsInv'
<1>1. /\ UNCHANGED <<clock, michiWallets, lastProcessed, credited, slow>>
      /\ pointsJob.pc # "idle" /\ torn' = (torn \/ pointsJob.paid) /\ pointsJob'.pc = "idle"
  BY IdleRun DEF FailPointsJob, tablesOfPoints
<1>2. Before' = Before /\ (Gapless' <=> Gapless)
  BY <1>1 DEF Before, LastRun, Gapless
<1>3. ASSUME Gapless, ~torn'
      PROVE  \A w \in michiWallets : credited[w] <= Before + slow
  <2>1. \A w \in michiWallets : credited[w] + Ahead <= Before + slow
    BY <1>1, <1>3, Runs DEF RunPaid
  <2>2. Before \in Nat /\ Ahead \in Nat /\ slow \in Nat /\ \A w \in michiWallets : credited[w] \in Nat
    BY <1>1, PaidNumbers
  <2>3. QED  BY <2>1, <2>2
<1>4. QED  BY <1>1, <1>2, <1>3 DEF WalletsInv, PaidInv

LEMMA WalletsInit == PointsInit => WalletsInv
<1> SUFFICES ASSUME PointsInit
             PROVE  WalletsInv
  OBVIOUS
<1>1. HoursTypeOK /\ pointsJob.pc = "idle"
  BY MadeUpInit, IdleRun DEF MadeUpInv, PointsInit
<1>2. \A w \in michiWallets : credited[w] = 0
  BY <1>1 DEF PointsInit, HoursTypeOK
<1>3. \A w \in michiWallets : credited[w] <= Before + slow
  BY <1>1, <1>2, PaidNumbers
<1>4. QED  BY <1>1, <1>3 DEF WalletsInv, PaidInv

LEMMA WalletsStep ==
  ASSUME HoursTypeOK, HoursTypeOK', WalletsInv, [PointsNext]_pointsVars
  PROVE  WalletsInv'
<1>1. CASE \/ RunStakingJob \/ UpdateStakingInfo \/ EnsureUserExists \/ AtHorizon
           \/ UNCHANGED pointsVars
  <2>1. UNCHANGED <<clock, michiWallets, lastProcessed, pointsJob, credited, torn, slow>>
    BY <1>1
       DEF RunStakingJob, UpdateStakingInfo, EnsureUserExists, FindStakingInfos, FindUser,
           SetUser, SetUpdatedAt, FailStakingJob, AtHorizon, pointsVars, tablesOfPoints,
           histories, bounded
  <2>2. QED  BY <2>1, SameWallets
<1>2. QED
  BY <1>1, TickWallets, GetBatchWallets, GetBalancesWallets, SetBackfillWallets,
     SetPointsWallets, SetTimeWallets, FailWallets
     DEF PointsNext, RunPointsJob

\* The hours that wallets are paid are at most those until now.
LEMMA WalletsPaid == ASSUME HoursTypeOK, WalletsInv PROVE WalletsNotOverpaid
<1> SUFFICES ASSUME Gapless, ~torn
             PROVE  \A w \in michiWallets : credited[w] <= RoundToNearestHour(clock) + slow
  BY DEF WalletsNotOverpaid
<1> DEFINE now == RoundToNearestHour(clock)
           past == LastRun
           before == Before
           target == Target
<1>1. /\ clock \in Nat /\ slow \in Nat /\ past \in Nat /\ past <= clock
      /\ before \in Nat /\ 2 * before \in {past, past - 1}
      /\ now \in Nat /\ 2 * now \in {clock, clock + 1}
      /\ \A w \in michiWallets : credited[w] \in Nat
  BY PaidNumbers
<1>2. CASE pointsJob.pc = "idle"
  <2>1. \A w \in michiWallets : credited[w] <= before + slow
    BY <1>2 DEF WalletsInv, PaidInv
  <2> HIDE DEF now, past, before
  <2>2. before <= now
    BY <1>1
  <2>3. \A w \in michiWallets : credited[w] <= now + slow
    BY <1>1, <2>1, <2>2
  <2>4. QED  BY <2>3 DEF now
<1>3. CASE pointsJob.pc # "idle"
  <2>1. \A w \in michiWallets : credited[w] <= target + slow
    BY <1>3, Runs DEF RunPaid
  <2>2. target \in Nat /\ 2 * target <= clock
    <3> DEFINE ahead == Ahead
    <3>1. target \in Nat /\ ahead \in Nat /\ clock = 2 * target + ahead
      BY <1>3, PaidNumbers
    <3> HIDE DEF target, ahead
    <3>2. QED  BY <3>1
  <2> HIDE DEF now, target
  <2>3. target <= now
    BY <1>1, <2>2
  <2>4. \A w \in michiWallets : credited[w] <= now + slow
    BY <1>1, <2>1, <2>2, <2>3
  <2>5. QED  BY <2>4 DEF now
<1>4. QED  BY <1>2, <1>3

----------------------------------------------------------------------------
(* What stakes are paid at most.                                           *)

\* At most a point for each of the hours and for each event that has staked.
PointsOfStake(hours) == (StakeRate * stakeEvents) * hours

\* A row that the job is still to pay is late by half an hour at half past,
\* which slow has already counted.
Late(u) == IF stakingJob.pc = "findMany" \/ stakingJob.infos[u] # NoRow THEN clock % 2 ELSE 0

\* The rows, and those the job has read: it pays each of them once.
StakesRowInv ==
  /\ stakingJob.pc # "idle" /\ clock % 2 = 1 => slow >= 1
  /\ \A u \in Stakers :
       IF stakingInfo[u] = NoRow THEN staked[u] = 0
       ELSE stakingInfo[u].updatedAt <= clock /\ stakingInfo[u].amount <= stakeEvents
  /\ \A u \in Stakers : stakingJob.infos[u] # NoRow =>
       /\ stakingJob.infos[u].updatedAt = stakingInfo[u].updatedAt
       /\ stakingJob.infos[u].amount <= stakeEvents
  /\ stakingJob.pc \in {"idle", "findMany"} => stakingJob.infos = NoInfos
  /\ stakingJob.pc \in {"setUser", "setUpdatedAt"} =>
       stakingJob.infos[stakingJob.user] = NoRow /\ stakingJob.now <= clock

\* Users are paid until updatedAt, or until now if that is yet to be saved.
StakesPaidInv ==
  /\ \A u \in Stakers :
       stakingInfo[u] # NoRow /\ ~(stakingJob.pc = "setUpdatedAt" /\ stakingJob.user = u)
       => staked[u] <= PointsOfStake((stakingInfo[u].updatedAt \div 2) + slow - Late(u))
  /\ stakingJob.pc = "setUser" =>
       staked[stakingJob.user] + stakingJob.earned
         <= PointsOfStake((stakingJob.now \div 2) + slow)
  /\ stakingJob.pc = "setUpdatedAt" =>
       staked[stakingJob.user] <= PointsOfStake((stakingJob.now \div 2) + slow)

StakesInv == StakesRowInv /\ (~stakeTorn => StakesPaidInv)

LEMMA Multiples ==
  /\ \A p, h \in Nat : p * h \in Nat
  /\ \A p \in Nat, h, k \in Int : h <= k => p * h <= p * k
  /\ \A p, q, h \in Nat : p <= q => p * h <= q * h
  /\ \A p \in Nat, h, k \in Int : p * (h + k) = p * h + p * k
<1>1. \A p, h \in Nat : p * h \in Nat
  OBVIOUS
<1>2. \A p \in Nat, h, k \in Int : p * (h + k) = p * h + p * k
  OBVIOUS
<1>3. ASSUME NEW p \in Nat, NEW h \in Int, NEW k \in Int, h <= k
      PROVE  p * h <= p * k
  <2>1. PICK d \in Nat : k = h + d
    <3>1. k - h \in Nat /\ k = h + (k - h)
      BY <1>3
    <3>2. QED  BY <3>1
  <2>2. p * k = p * h + p * d /\ p * d \in Nat /\ p * h \in Int
    BY <1>1, <1>2, <2>1
  <2>3. QED  BY <2>2
<1>4. ASSUME NEW p \in Nat, NEW q \in Nat, NEW h \in Nat, p <= q
      PROVE  p * h <= q * h
  <2>1. h * p <= h * q
    BY <1>3, <1>4
  <2>2. QED  BY <2>1
<1>5. QED  BY <1>1, <1>2, <1>3, <1>4

\* A bound grows with the events and with the hours.
LEMMA MorePoints ==
  ASSUME stakeEvents \in Nat, stakeEvents' \in Nat, stakeEvents <= stakeEvents',
         NEW h \in Int, NEW k \in Nat, h <= k
  PROVE  /\ PointsOfStake(h) \in Int /\ PointsOfStake(h)' \in Int
         /\ PointsOfStake(h) <= (StakeRate * stakeEvents') * k
         /\ 0 <= (StakeRate * stakeEvents') * k
<1> DEFINE p == StakeRate * stakeEvents
           q == StakeRate * stakeEvents'
<1>1. p \in Nat /\ q \in Nat /\ p <= q
  <2>1. StakeRate \in Nat
    BY PointsAssumption
  <2>2. stakeEvents * StakeRate <= stakeEvents' * StakeRate
    BY <2>1, Multiples
  <2>3. stakeEvents * StakeRate = p /\ stakeEvents' * StakeRate = q
    BY <2>1
  <2>4. QED  BY <2>1, <2>2, <2>3, Multiples
<1> HIDE DEF p, q
<1>2. p * h <= p * k /\ p * k <= q * k /\ q * k \in Nat /\ p * h \in Int /\ q * h \in Int /\ p * k \in Int
  BY <1>1, Multiples
<1>3. p * h <= q * k
  BY <1>2
<1>4. QED  BY <1>2, <1>3 DEF PointsOfStake, p, q

LEMMA StakeNumbers ==
  ASSUME HoursTypeOK, PointsTypeInv
  PROVE  /\ clock \in Nat /\ clock % 2 \in {0, 1} /\ slow \in Nat /\ stakeEvents \in Nat
         /\ \A u \in Stakers : /\ Late(u) \in {0, 1} /\ staked[u] \in Int
                               /\ stakingInfo[u] # NoRow =>
                                    /\ stakingInfo[u].updatedAt \in Nat
                                    /\ stakingInfo[u].updatedAt \div 2 \in Nat
                                    /\ stakingInfo[u].amount \in Int
         /\ stakingJob.now \in Nat /\ stakingJob.now \div 2 \in Nat
         /\ stakingJob.earned \in Int
<1>1. clock \in Nat /\ clock % 2 \in {0, 1} /\ slow \in Nat /\ stakeEvents \in Nat
  BY DEF HoursTypeOK, PointsTypeInv, PointsTypeOK
<1>2. ASSUME NEW u \in Stakers, stakingInfo[u] # NoRow
      PROVE  stakingInfo[u].updatedAt \in Nat /\ stakingInfo[u].amount \in Int
  BY <1>2 DEF PointsTypeInv, PointsTypeOK, StakingInfo
<1>3. \A u \in Stakers : staked[u] \in Int
  BY DEF PointsTypeInv, PointsTypeOK
<1>4. \A n \in Nat : n \div 2 \in Nat
  OBVIOUS
<1>5. stakingJob.now \in Nat /\ stakingJob.earned \in Int
  BY StakingJobIs
<1>6. \A u \in Stakers : Late(u) \in {0, 1}
  BY <1>1 DEF Late
<1>7. QED  BY <1>1, <1>2, <1>3, <1>4, <1>5, <1>6

\* Who may be late: the job has been running for half an hour.
LEMMA LateIsSlow ==
  ASSUME HoursTypeOK, PointsTypeInv, StakesInv, NEW u \in Stakers
  PROVE  Late(u) <= slow
<1>1. Late(u) = 1 => stakingJob.pc # "idle" /\ clock % 2 = 1
  <2>1. stakingJob.pc = "idle" => stakingJob.infos[u] = NoRow
    BY StakingRecords DEF StakesInv, StakesRowInv
  <2>2. QED  BY <2>1 DEF Late
<1>2. QED  BY <1>1, StakeNumbers DEF StakesInv, StakesRowInv

\* A row that is not paid stays within its bound, if it does not become later.
LEMMA RowStaysPaid ==
  ASSUME HoursTypeOK, PointsTypeInv, StakesInv, ~stakeTorn, NEW u \in Stakers,
         stakingInfo[u] # NoRow, ~(stakingJob.pc = "setUpdatedAt" /\ stakingJob.user = u),
         stakeEvents' \in Nat, stakeEvents <= stakeEvents',
         stakingInfo'[u].updatedAt = stakingInfo[u].updatedAt, staked'[u] = staked[u],
         slow' \in Nat, Late(u)' \in Nat, slow - Late(u) <= slow' - Late(u)'
  PROVE  staked'[u] <= PointsOfStake((stakingInfo[u].updatedAt \div 2) + slow - Late(u))'
<1> DEFINE b == stakingInfo[u].updatedAt \div 2
           h == b + slow - Late(u)
           k == b + slow' - Late(u)'
<1>1. staked[u] <= PointsOfStake(h)
  BY DEF StakesInv, StakesPaidInv
<1>2. /\ b \in Nat /\ slow \in Nat /\ Late(u) \in {0, 1} /\ Late(u) <= slow
      /\ staked[u] \in Int /\ stakeEvents \in Nat
  BY StakeNumbers, LateIsSlow
<1> HIDE DEF b
<1>3. h \in Int /\ k \in Nat /\ h <= k
  BY <1>2
<1> HIDE DEF h, k
<1>4. PointsOfStake(h) \in Int /\ PointsOfStake(h) <= (StakeRate * stakeEvents') * k
      /\ (StakeRate * stakeEvents') * k \in Int
  <2>1. PointsOfStake(h) \in Int /\ PointsOfStake(h) <= (StakeRate * stakeEvents') * k
    BY <1>2, <1>3, MorePoints
  <2>2. (StakeRate * stakeEvents') * k \in Int
    BY <1>3, Multiples, PointsAssumption
  <2>3. QED  BY <2>1, <2>2
<1>5. staked[u] <= (StakeRate * stakeEvents') * k
  BY <1>1, <1>2, <1>4
<1>6. PointsOfStake((stakingInfo[u].updatedAt \div 2) + slow - Late(u))'
      = (StakeRate * stakeEvents') * k
  BY DEF PointsOfStake, k, b
<1>7. QED  BY <1>5, <1>6

\* What is paid until now stays within its bound.
LEMMA JobStaysPaid ==
  ASSUME HoursTypeOK, PointsTypeInv, StakesInv, ~stakeTorn,
         stakingJob' = stakingJob, staked' = staked, slow' \in Nat, slow <= slow',
         stakeEvents' \in Nat, stakeEvents <= stakeEvents'
  PROVE  /\ stakingJob'.pc = "setUser" =>
              staked'[stakingJob'.user] + stakingJob'.earned
                <= PointsOfStake((stakingJob.now \div 2) + slow)'
         /\ stakingJob'.pc = "setUpdatedAt" =>
              staked'[stakingJob'.user] <= PointsOfStake((stakingJob.now \div 2) + slow)'
<1> DEFINE h == (stakingJob.now \div 2) + slow
           k == (stakingJob.now \div 2) + slow'
           bound == (StakeRate * stakeEvents') * k
<1>1. /\ stakingJob.pc = "setUser" =>
           staked[stakingJob.user] + stakingJob.earned <= PointsOfStake(h)
      /\ stakingJob.pc = "setUpdatedAt" => staked[stakingJob.user] <= PointsOfStake(h)
  BY DEF StakesInv, StakesPaidInv
<1>2. /\ h \in Int /\ k \in Nat /\ h <= k /\ stakeEvents \in Nat /\ stakingJob.earned \in Int
      /\ stakingJob.pc \in {"setUser", "setUpdatedAt"} => staked[stakingJob.user] \in Int
  <2>1. stakingJob.pc \in {"setUser", "setUpdatedAt"} => stakingJob.user \in Stakers
    BY DEF PointsTypeInv
  <2>2. QED  BY <2>1, StakeNumbers
<1>3. PointsOfStake((stakingJob.now \div 2) + slow)' = bound
  BY DEF PointsOfStake
<1> HIDE DEF h, k
<1>4. PointsOfStake(h) \in Int /\ PointsOfStake(h) <= bound /\ bound \in Int
  <2>1. PointsOfStake(h) \in Int /\ PointsOfStake(h) <= bound
    BY <1>2, MorePoints
  <2>2. bound \in Int
    BY <1>2, Multiples, PointsAssumption
  <2>3. QED  BY <2>1, <2>2
<1> HIDE DEF bound
<1>5. ASSUME stakingJob.pc = "setUser"
      PROVE  staked[stakingJob.user] + stakingJob.earned <= bound
  <2> DEFINE s == staked[stakingJob.user] + stakingJob.earned
  <2>1. s \in Int /\ s <= PointsOfStake(h)
    BY <1>1, <1>2, <1>5
  <2> HIDE DEF s
  <2>2. s <= bound
    BY <1>4, <2>1
  <2>3. QED  BY <2>2 DEF s
<1>6. ASSUME stakingJob.pc = "setUpdatedAt"
      PROVE  staked[stakingJob.user] <= bound
  BY <1>1, <1>2, <1>4, <1>6
<1>7. QED  BY <1>3, <1>5, <1>6

\* What stakes are paid by.
stakesOf == <<clock, stakingInfo, stakingJob, staked, stakeTorn, slow, stakeEvents>>

LEMMA SameStakes == ASSUME StakesInv, UNCHANGED stakesOf PROVE StakesInv'
BY DEF StakesInv, StakesRowInv, StakesPaidInv, PointsOfStake, Late, stakesOf

LEMMA TickStakes ==
  ASSUME HoursTypeOK, HoursTypeOK', PointsTypeInv, StakesInv, Tick
  PROVE  StakesInv'
<1>1. /\ clock' = clock + 1 /\ UNCHANGED <<stakingInfo, staked, stakeTorn, stakeEvents>>
      /\ slow' \in {slow, slow + 1} /\ (stakingJob.pc # "idle" => slow' = slow + 1)
  BY DEF Tick, Running, tablesOfPoints, histories
<1>2. /\ clock \in Nat /\ slow \in Nat /\ slow' \in Nat /\ stakeEvents \in Nat /\ stakeEvents' \in Nat
      /\ slow <= slow' /\ stakeEvents <= stakeEvents'
  BY <1>1, StakeNumbers
<1>3. \/ stakingJob' = stakingJob
      \/ /\ stakingJob.pc = "idle" /\ stakingJob'.pc = "findMany" /\ stakingJob'.infos = NoInfos
         /\ clock' % 2 = 0
  BY StakingRecords DEF Tick, StakingJob
<1>4. \A u \in Stakers : NoInfos[u] = NoRow
  BY StakingRecords
<1>5. StakesRowInv'
  <2>1. stakingJob'.pc # "idle" /\ clock' % 2 = 1 => slow' >= 1
    <3>1. CASE stakingJob' = stakingJob
      BY <1>1, <1>2, <3>1
    <3>2. CASE clock' % 2 = 0
      BY <3>2
    <3>3. QED  BY <1>3, <3>1, <3>2
  <2>2. \A u \in Stakers :
          IF stakingInfo'[u] = NoRow THEN staked'[u] = 0
          ELSE stakingInfo'[u].updatedAt <= clock' /\ stakingInfo'[u].amount <= stakeEvents'
    <3>1. \A u \in Stakers :
            IF stakingInfo[u] = NoRow THEN staked[u] = 0
            ELSE stakingInfo[u].updatedAt <= clock /\ stakingInfo[u].amount <= stakeEvents
      BY DEF StakesInv, StakesRowInv
    <3>2. \A u \in Stakers : stakingInfo[u] # NoRow => stakingInfo[u].updatedAt \in Nat
      BY StakeNumbers
    <3>3. QED  BY <1>1, <1>2, <3>1, <3>2
  <2>3. \A u \in Stakers : stakingJob'.infos[u] # NoRow =>
          /\ stakingJob'.infos[u].updatedAt = stakingInfo'[u].updatedAt
          /\ stakingJob'.infos[u].amount <= stakeEvents'
    BY <1>1, <1>3, <1>4 DEF StakesInv, StakesRowInv
  <2>4. /\ stakingJob'.pc \in {"idle", "findMany"} => stakingJob'.infos = NoInfos
        /\ stakingJob'.pc \in {"setUser", "setUpdatedAt"} =>
             stakingJob'.infos[stakingJob'.user] = NoRow /\ stakingJob'.now <= clock'
    BY <1>1, <1>2, <1>3, StakeNumbers DEF StakesInv, StakesRowInv
  <2>5. QED  BY <2>1, <2>2, <2>3, <2>4 DEF StakesRowInv
<1>6. ASSUME NEW u \in Stakers
      PROVE  Late(u)' \in Nat /\ slow - Late(u) <= slow' - Late(u)'
  <2>1. ASSUME stakingJob.pc = "idle", stakingJob'.pc = "idle" \/ clock' % 2 = 0,
               stakingJob'.infos = NoInfos
        PROVE  Late(u) = 0 /\ Late(u)' = 0
    <3>1. stakingJob.infos[u] = NoRow /\ stakingJob'.infos[u] = NoRow
      BY <1>4, <2>1 DEF StakesInv, StakesRowInv
    <3>2. Late(u) = 0
      BY <2>1, <3>1 DEF Late
    <3>3. Late(u)' = 0
      BY <2>1, <3>1 DEF Late
    <3>4. QED  BY <3>2, <3>3
  <2>2. stakingJob.pc = "idle" => Late(u) = 0 /\ Late(u)' = 0
    BY <1>3, <2>1 DEF StakesInv, StakesRowInv
  <2>3. CASE stakingJob.pc # "idle"
    <3> DEFINE pending == stakingJob.pc = "findMany" \/ stakingJob.infos[u] # NoRow
               half == clock % 2
               next == (clock + 1) % 2
               late == IF pending THEN half ELSE 0
               later == IF pending THEN next ELSE 0
               old == slow
               new == slow'
    <3>1. stakingJob' = stakingJob
      BY <1>3, <2>3
    <3>2. Late(u) = late
      BY DEF Late
    <3>3. Late(u)' = later
      BY <1>1, <3>1 DEF Late
    <3>4. half \in {0, 1} /\ next = 1 - half /\ old \in Nat /\ new = old + 1
      BY <1>1, <1>2, <2>3
    <3> HIDE DEF pending, half, next, old, new
    <3>5. later \in Nat /\ old - late <= new - later
      BY ONLY <3>4
    <3> HIDE DEF late, later
    <3>6. QED  BY <3>2, <3>3, <3>5 DEF old, new
  <2>4. CASE stakingJob.pc = "idle"
    <3> DEFINE late == Late(u)
               later == Late(u)'
               old == slow
               new == slow'
    <3>1. late = 0 /\ later = 0
      BY <2>2, <2>4
    <3>2. old \in Nat /\ new \in Nat /\ old <= new
      BY <1>2
    <3> HIDE DEF late, later, old, new
    <3>3. later \in Nat /\ old - late <= new - later
      BY ONLY <3>1, <3>2
    <3>4. QED  BY <3>3 DEF late, later, old, new
  <2>5. QED  BY <2>3, <2>4
<1>7. ASSUME ~stakeTorn
      PROVE  StakesPaidInv'
  <2>1. ASSUME NEW u \in Stakers, stakingInfo'[u] # NoRow,
               ~(stakingJob'.pc = "setUpdatedAt" /\ stakingJob'.user = u)
        PROVE  staked'[u] <= PointsOfStake((stakingInfo[u].updatedAt \div 2) + slow - Late(u))'
    <3>1. ~(stakingJob.pc = "setUpdatedAt" /\ stakingJob.user = u)
      BY <1>3, <2>1
    <3>2. QED  BY <1>1, <1>2, <1>6, <1>7, <2>1, <3>1, RowStaysPaid
  <2>2. CASE stakingJob' = stakingJob
    BY <1>1, <1>2, <1>7, <2>1, <2>2, JobStaysPaid DEF StakesPaidInv
  <2>3. CASE stakingJob'.pc = "findMany"
    BY <2>1, <2>3 DEF StakesPaidInv
  <2>4. QED  BY <1>3, <2>2, <2>3
<1>8. QED  BY <1>1, <1>5, <1>7 DEF StakesInv

LEMMA UpdateStakes ==
  ASSUME HoursTypeOK, PointsTypeInv, StakesInv, UpdateStakingInfo
  PROVE  StakesInv'
<1>1. /\ UNCHANGED <<clock, stakingJob, staked, stakeTorn, slow>> /\ stakeEvents' = stakeEvents + 1
  BY DEF UpdateStakingInfo, histories
<1>2. PICK u \in Stakers, amount \in StakeAmounts :
        stakingInfo' = [stakingInfo EXCEPT ![u] =
          IF stakingInfo[u] = NoRow THEN [amount |-> amount, updatedAt |-> clock]
          ELSE [amount |-> stakingInfo[u].amount + amount, updatedAt |-> stakingInfo[u].updatedAt]]
  BY DEF UpdateStakingInfo
<1>3. /\ amount \in Int /\ amount <= 1 /\ clock \in Nat /\ slow \in Nat /\ slow' \in Nat
      /\ stakeEvents \in Nat /\ stakeEvents' \in Nat /\ stakeEvents <= stakeEvents'
      /\ stakingInfo \in [Stakers -> StakingInfo \cup {NoRow}]
  <2>1. amount \in {1, -1}
    BY PointsAssumption
  <2>2. QED  BY <1>1, <2>1, StakeNumbers DEF PointsTypeInv, PointsTypeOK
<1>4. /\ \A v \in Stakers \ {u} : stakingInfo'[v] = stakingInfo[v]
      /\ stakingInfo[u] # NoRow => /\ stakingInfo'[u].amount = stakingInfo[u].amount + amount
                                   /\ stakingInfo'[u].updatedAt = stakingInfo[u].updatedAt
      /\ stakingInfo[u] = NoRow => stakingInfo'[u].amount = amount /\ stakingInfo'[u].updatedAt = clock
      /\ stakingInfo'[u] # NoRow
  <2> DEFINE row == IF stakingInfo[u] = NoRow THEN [amount |-> amount, updatedAt |-> clock]
                    ELSE [amount |-> stakingInfo[u].amount + amount,
                          updatedAt |-> stakingInfo[u].updatedAt]
  <2>1. row \in StakingInfo
    BY <1>3 DEF StakingInfo
  <2>2. stakingInfo' = [stakingInfo EXCEPT ![u] = row]
    BY <1>2
  <2>3. /\ stakingInfo[u] # NoRow => /\ row.amount = stakingInfo[u].amount + amount
                                     /\ row.updatedAt = stakingInfo[u].updatedAt
        /\ stakingInfo[u] = NoRow => row.amount = amount /\ row.updatedAt = clock
    OBVIOUS
  <2> HIDE DEF row
  <2>4. QED  BY <1>3, <2>1, <2>2, <2>3, StakingRecords
<1>5. \A v \in Stakers :
        IF stakingInfo[v] = NoRow THEN staked[v] = 0
        ELSE stakingInfo[v].updatedAt <= clock /\ stakingInfo[v].amount <= stakeEvents
  BY DEF StakesInv, StakesRowInv
<1>6. \A v \in Stakers : stakingInfo[v] # NoRow =>
        stakingInfo[v].updatedAt \in Nat /\ stakingInfo[v].amount \in Int
  BY StakeNumbers
<1>7. StakesRowInv'
  <2>1. ASSUME NEW v \in Stakers
        PROVE  IF stakingInfo'[v] = NoRow THEN staked'[v] = 0
               ELSE stakingInfo'[v].updatedAt <= clock' /\ stakingInfo'[v].amount <= stakeEvents'
    <3>1. CASE v # u
      BY <1>1, <1>3, <1>4, <1>5, <1>6, <3>1
    <3>2. CASE v = u
      BY <1>1, <1>3, <1>4, <1>5, <1>6, <3>2
    <3>3. QED  BY <3>1, <3>2
  <2>2. ASSUME NEW v \in Stakers, stakingJob'.infos[v] # NoRow
        PROVE  /\ stakingJob'.infos[v].updatedAt = stakingInfo'[v].updatedAt
               /\ stakingJob'.infos[v].amount <= stakeEvents'
    <3>1. /\ stakingJob.infos[v].updatedAt = stakingInfo[v].updatedAt
          /\ stakingJob.infos[v].amount <= stakeEvents /\ stakingInfo[v] # NoRow
      BY <1>1, <2>2 DEF StakesInv, StakesRowInv, PointsTypeInv
    <3>2. stakingJob.infos[v].amount \in Int
      BY <1>1, <2>2, StakingJobIs DEF StakingInfo
    <3>3. stakingInfo'[v].updatedAt = stakingInfo[v].updatedAt
      BY <1>4, <3>1
    <3>4. stakingJob.infos[v].amount <= stakeEvents'
      BY <1>1, <1>3, <3>1, <3>2
    <3>5. QED  BY <1>1, <3>1, <3>3, <3>4
  <2>3. QED  BY <1>1, <2>1, <2>2 DEF StakesInv, StakesRowInv
<1>8. \A v \in Stakers : Late(v)' = Late(v)
  BY <1>1 DEF Late
<1>9. ASSUME ~stakeTorn
      PROVE  StakesPaidInv'
  <2>1. ASSUME NEW v \in Stakers, ~(stakingJob'.pc = "setUpdatedAt" /\ stakingJob'.user = v),
               stakingInfo'[v] # NoRow
        PROVE  staked'[v] <= PointsOfStake((stakingInfo[v].updatedAt \div 2) + slow - Late(v))'
    <3>1. CASE stakingInfo[v] # NoRow
      <4>1. stakingInfo'[v].updatedAt = stakingInfo[v].updatedAt
        BY <1>4, <3>1
      <4>2. Late(v)' \in Nat /\ slow - Late(v) <= slow' - Late(v)'
        BY <1>1, <1>3, <1>8, StakeNumbers
      <4>3. QED  BY <1>1, <1>3, <1>9, <2>1, <3>1, <4>1, <4>2, RowStaysPaid
    <3>2. CASE stakingInfo[v] = NoRow
      <4> DEFINE b == clock \div 2
                 k == b + slow - Late(v)
      <4>1. v = u /\ staked'[v] = 0 /\ stakingInfo'[v].updatedAt = clock
        BY <1>1, <1>4, <1>5, <2>1, <3>2
      <4>2. b \in Nat /\ slow \in Nat /\ Late(v) \in Nat /\ Late(v) <= slow
        BY <1>3, StakeNumbers, LateIsSlow
      <4>3. PointsOfStake((stakingInfo[v].updatedAt \div 2) + slow - Late(v))'
            = (StakeRate * stakeEvents') * k
        BY <1>1, <1>8, <4>1 DEF PointsOfStake
      <4> HIDE DEF b
      <4>4. k \in Nat
        BY <4>2
      <4> HIDE DEF k
      <4>5. 0 <= (StakeRate * stakeEvents') * k
        BY <1>3, <4>4, MorePoints
      <4>6. QED  BY <4>1, <4>3, <4>5
    <3>3. QED  BY <3>1, <3>2
  <2>2. slow <= slow'
    BY <1>1, <1>3
  <2>3. QED  BY <1>1, <1>3, <1>9, <2>1, <2>2, JobStaysPaid DEF StakesPaidInv
<1>10. QED  BY <1>1, <1>7, <1>9 DEF StakesInv

\* A row that becomes less late stays paid.
LEMMA LessLate ==
  ASSUME HoursTypeOK, PointsTypeInv, UNCHANGED slow, NEW u \in Stakers,
         Late(u)' = Late(u) \/ Late(u)' = 0
  PROVE  Late(u)' \in Nat /\ slow - Late(u) <= slow' - Late(u)'
<1> DEFINE late == Late(u)
           later == Late(u)'
           old == slow
           new == slow'
<1>1. late \in {0, 1} /\ old \in Nat /\ new = old /\ (later = late \/ later = 0)
  BY StakeNumbers
<1> HIDE DEF late, later, old, new
<1>2. later \in Nat /\ old - late <= new - later
  BY ONLY <1>1
<1>3. QED  BY <1>2 DEF late, later, old, new

\* What the job leaves of a row that it does not save.
LEMMA OtherStakes ==
  ASSUME HoursTypeOK, PointsTypeInv, StakesInv, ~stakeTorn, UNCHANGED <<slow, stakeEvents>>,
         NEW u \in Stakers, stakingInfo[u] # NoRow, stakingInfo'[u] = stakingInfo[u],
         staked'[u] = staked[u], Late(u)' = Late(u) \/ Late(u)' = 0,
         ~(stakingJob.pc = "setUpdatedAt" /\ stakingJob.user = u)
  PROVE  staked'[u] <= PointsOfStake((stakingInfo[u].updatedAt \div 2) + slow - Late(u))'
<1>1. /\ stakeEvents' \in Nat /\ stakeEvents <= stakeEvents' /\ slow' \in Nat
  BY StakeNumbers
<1>2. Late(u)' \in Nat /\ slow - Late(u) <= slow' - Late(u)'
  BY LessLate
<1>3. QED  BY <1>1, <1>2, RowStaysPaid

LEMMA FindInfosStakes ==
  ASSUME HoursTypeOK, PointsTypeInv, StakesInv, FindStakingInfos
  PROVE  StakesInv'
<1>1. /\ stakingJob.pc = "findMany"
      /\ UNCHANGED <<clock, stakingInfo, staked, stakeTorn, slow, stakeEvents>>
  BY DEF FindStakingInfos, tablesOfPoints, histories, bounded
<1>2. \/ stakingJob'.pc = "idle" /\ stakingJob'.infos = NoInfos
      \/ stakingJob'.pc = "findUser" /\ stakingJob'.infos = stakingInfo
  <2>1. CASE stakingInfo = NoInfos
    BY <2>1, StakingRecords DEF FindStakingInfos
  <2>2. CASE stakingInfo # NoInfos
    <3>1. stakingJob' = [stakingJob EXCEPT !.pc = "findUser", !.infos = stakingInfo]
      BY <2>2 DEF FindStakingInfos
    <3>2. stakingJob \in StakingJob
      BY DEF PointsTypeInv, PointsTypeOK
    <3>3. QED  BY <3>1, <3>2 DEF StakingJob
  <2>3. QED  BY <2>1, <2>2
<1>3. \A u \in Stakers : NoInfos[u] = NoRow
  BY StakingRecords
<1>4. StakesRowInv'
  BY <1>1, <1>2, <1>3 DEF StakesInv, StakesRowInv
<1>5. \A u \in Stakers : Late(u)' = Late(u) \/ Late(u)' = 0
  BY <1>1, <1>2 DEF Late
<1>6. ASSUME ~stakeTorn, NEW u \in Stakers, stakingInfo'[u] # NoRow
      PROVE  staked'[u] <= PointsOfStake((stakingInfo[u].updatedAt \div 2) + slow - Late(u))'
  BY <1>1, <1>5, <1>6, OtherStakes
<1>7. QED  BY <1>1, <1>2, <1>4, <1>6 DEF StakesInv, StakesPaidInv

\* The hours from updatedAt to now, rounded.
LEMMA HoursBetween ==
  ASSUME NEW a \in Nat, NEW n \in Nat, a <= n
  PROVE  /\ RoundToNearestHour(n - a) \in Nat
         /\ (a \div 2) + RoundToNearestHour(n - a) <= (n \div 2) + (n % 2)
BY DEF RoundToNearestHour

\* What the job adds up for a row stays within the bound for now.
LEMMA EarnedIsBounded ==
  ASSUME NEW p \in Nat, NEW q \in Int, q <= p, NEW r \in Nat, NEW s \in Int, NEW h \in Int,
         NEW k \in Nat, h + r <= k, s <= p * h
  PROVE  s + q * r <= p * k
<1>1. q * r <= p * r
  <2>1. q * r = r * q /\ p * r = r * p
    OBVIOUS
  <2>2. QED  BY <2>1, Multiples
<1>2. p * (h + r) = p * h + p * r /\ p * (h + r) <= p * k
  BY Multiples
<1>3. q * r \in Int /\ p * r \in Int /\ p * h \in Int /\ p * k \in Int
  OBVIOUS
<1> DEFINE a == q * r
           b == p * r
           c == p * h
           d == p * k
<1>4. a \in Int /\ b \in Int /\ c \in Int /\ d \in Int /\ a <= b /\ c + b <= d /\ s <= c
  BY <1>1, <1>2, <1>3
<1> HIDE DEF a, b, c, d
<1>5. s + a <= d
  BY <1>4
<1>6. QED  BY <1>5 DEF a, d

LEMMA FindUserStakes ==
  ASSUME HoursTypeOK, PointsTypeInv, TotalsInv, StakesInv, FindUser
  PROVE  StakesInv'
<1>1. /\ stakingJob.pc = "findUser" /\ clock \in Nat /\ slow \in Nat /\ stakeEvents \in Nat
      /\ UNCHANGED <<clock, points, stakingInfo, staked, stakeTorn, slow, stakeEvents>>
  BY StakeNumbers DEF FindUser, tablesOfPoints, histories, bounded
<1>2. PICK u \in Stakers :
        /\ stakingJob.infos[u] # NoRow /\ stakingJob.infos[u] \in StakingInfo
        /\ stakingJob'.pc = IF points[u] = NoRow THEN "setUpdatedAt" ELSE "setUser"
        /\ stakingJob'.infos = [stakingJob.infos EXCEPT ![u] = NoRow]
        /\ stakingJob'.user = u /\ stakingJob'.now = clock
        /\ stakingJob'.earned = stakingJob.infos[u].amount * StakeRate
                                * RoundToNearestHour(clock - stakingJob.infos[u].updatedAt)
  BY <1>1, FindUserIs
<1>3. /\ stakingInfo[u] # NoRow /\ stakingInfo[u].updatedAt = stakingJob.infos[u].updatedAt
      /\ stakingInfo[u].updatedAt <= clock /\ stakingJob.infos[u].amount <= stakeEvents
  BY <1>2 DEF StakesInv, StakesRowInv, PointsTypeInv
<1>4. /\ \A v \in Stakers \ {u} : stakingJob'.infos[v] = stakingJob.infos[v]
      /\ stakingJob'.infos[u] = NoRow
  BY <1>2, StakingJobIs
<1>5. StakesRowInv'
  BY <1>1, <1>2, <1>3, <1>4, NoRow = NoRow DEF StakesInv, StakesRowInv
<1>6. \A v \in Stakers : Late(v)' = Late(v) \/ Late(v)' = 0
  <2> TAKE v \in Stakers
  <2>1. stakingJob'.pc # "findMany"
    BY <1>2
  <2>2. CASE v = u
    BY <1>4, <2>1, <2>2 DEF Late
  <2>3. CASE v # u
    <3>1. stakingJob'.infos[v] = stakingJob.infos[v]
      BY <1>4, <2>3
    <3>2. QED  BY <1>1, <2>1, <3>1 DEF Late
  <2>4. QED  BY <2>2, <2>3
<1>7. ASSUME ~stakeTorn, NEW v \in Stakers, stakingInfo'[v] # NoRow
      PROVE  staked'[v] <= PointsOfStake((stakingInfo[v].updatedAt \div 2) + slow - Late(v))'
  BY <1>1, <1>6, <1>7, OtherStakes
<1>8. PointsOfStake((stakingJob.now \div 2) + slow)'
      = (StakeRate * stakeEvents) * ((clock \div 2) + slow)
  BY <1>1, <1>2 DEF PointsOfStake
<1> DEFINE now == (clock \div 2) + slow
           a == stakingInfo[u].updatedAt
           past == (a \div 2) + slow - Late(u)
           p == StakeRate * stakeEvents
           q == stakingJob.infos[u].amount * StakeRate
           r == RoundToNearestHour(clock - a)
<1>9. a \in Nat /\ a <= clock /\ stakingJob.infos[u].amount \in Int /\ StakeRate \in Nat
  BY <1>2, <1>3, PointsAssumption DEF StakingInfo, PointsTypeInv, PointsTypeOK
<1>10. p \in Nat /\ q \in Int /\ q <= p
  <2> DEFINE m == stakingJob.infos[u].amount
  <2>1. m \in Int /\ m <= stakeEvents
    BY <1>3, <1>9
  <2>2. q = StakeRate * m
    BY <1>9
  <2> HIDE DEF m
  <2>3. StakeRate * m <= StakeRate * stakeEvents /\ StakeRate * m \in Int /\ p \in Nat
    BY <1>1, <1>9, <2>1, Multiples
  <2>4. QED  BY <2>2, <2>3
<1>11. r \in Nat /\ past \in Int /\ now \in Nat /\ past + r <= now
  <2> DEFINE old == a \div 2
             half == clock \div 2
             late == Late(u)
             s == slow
             odd == clock % 2
  <2>1. r \in Nat /\ old + r <= half + odd
    BY <1>1, <1>9, HoursBetween
  <2>2. old \in Nat /\ half \in Nat /\ odd \in {0, 1} /\ s \in Nat
    BY <1>1, <1>9
  <2>3. late = odd
    BY <1>2 DEF Late
  <2> HIDE DEF old, half, late, r, s, odd
  <2>4. QED  BY <2>1, <2>2, <2>3 DEF past, now, s, late, old, half
<1>12. ASSUME ~stakeTorn
       PROVE  staked[u] <= p * past
  <2>1. staked[u] <= PointsOfStake(past)
    BY <1>1, <1>3, <1>12 DEF StakesInv, StakesPaidInv
  <2>2. QED  BY <2>1 DEF PointsOfStake
<1>13. stakingJob'.earned = q * r /\ staked[u] \in Int
  BY <1>2, <1>3, StakeNumbers
<1>14. points[u] = NoRow => staked[u] = 0
  BY DEF TotalsInv
<1>15. PointsOfStake((stakingJob.now \div 2) + slow)' = p * now
  BY <1>8
<1> HIDE DEF now, past, p, q, r, a
<1>16. ASSUME ~stakeTorn, points[u] # NoRow
       PROVE  staked[u] + stakingJob'.earned <= p * now
  BY <1>10, <1>11, <1>12, <1>13, <1>16, EarnedIsBounded
<1>17. 0 <= p * now
  <2>1. p * now \in Nat
    BY <1>10, <1>11, Multiples
  <2>2. QED  BY <2>1
<1>18. ASSUME ~stakeTorn
       PROVE  StakesPaidInv'
  <2>1. CASE points[u] = NoRow
    <3>1. stakingJob'.pc = "setUpdatedAt"
      BY <1>2, <2>1
    <3>2. staked'[stakingJob'.user] <= PointsOfStake((stakingJob.now \div 2) + slow)'
      BY <1>1, <1>2, <1>14, <1>15, <1>17, <2>1
    <3>3. QED  BY <1>7, <1>18, <3>1, <3>2 DEF StakesPaidInv
  <2>2. CASE points[u] # NoRow
    <3>1. stakingJob'.pc = "setUser"
      BY <1>2, <2>2
    <3>2. staked'[stakingJob'.user] + stakingJob'.earned
          <= PointsOfStake((stakingJob.now \div 2) + slow)'
      BY <1>1, <1>2, <1>15, <1>16, <1>18, <2>2
    <3>3. QED  BY <1>7, <1>18, <3>1, <3>2 DEF StakesPaidInv
  <2>3. QED  BY <2>1, <2>2
<1>19. QED  BY <1>1, <1>5, <1>18 DEF StakesInv

LEMMA SetUserStakes ==
  ASSUME HoursTypeOK, PointsTypeInv, StakesInv, SetUser
  PROVE  StakesInv'
<1>1. /\ stakingJob.pc = "setUser" /\ stakingJob' = [stakingJob EXCEPT !.pc = "setUpdatedAt"]
      /\ staked' = [staked EXCEPT ![stakingJob.user] = @ + stakingJob.earned]
      /\ UNCHANGED <<clock, stakingInfo, stakeTorn, slow, stakeEvents>>
  BY DEF SetUser, bounded
<1>2. PICK u \in Stakers : u = stakingJob.user /\ stakingInfo[u] # NoRow
  BY <1>1 DEF PointsTypeInv
<1>3. /\ stakingJob'.pc = "setUpdatedAt" /\ stakingJob'.infos = stakingJob.infos
      /\ stakingJob'.user = u /\ stakingJob'.now = stakingJob.now
  BY <1>1, <1>2 DEF PointsTypeInv, PointsTypeOK, StakingJob
<1>4. /\ staked'[u] = staked[u] + stakingJob.earned
      /\ \A v \in Stakers \ {u} : staked'[v] = staked[v]
  BY <1>1, <1>2 DEF PointsTypeInv, PointsTypeOK
<1>5. StakesRowInv'
  <2>1. \A v \in Stakers :
          IF stakingInfo'[v] = NoRow THEN staked'[v] = 0
          ELSE stakingInfo'[v].updatedAt <= clock' /\ stakingInfo'[v].amount <= stakeEvents'
    BY <1>1, <1>2, <1>4 DEF StakesInv, StakesRowInv
  <2>2. stakingJob'.infos[stakingJob'.user] = NoRow /\ stakingJob'.now <= clock'
    BY <1>1, <1>2, <1>3 DEF StakesInv, StakesRowInv
  <2>3. QED  BY <1>1, <1>3, <2>1, <2>2 DEF StakesInv, StakesRowInv
<1>6. \A v \in Stakers : Late(v)' = Late(v)
  BY <1>1, <1>3 DEF Late
<1>7. ASSUME ~stakeTorn
      PROVE  StakesPaidInv'
  <2>1. ASSUME NEW v \in Stakers, stakingInfo'[v] # NoRow, v # u
        PROVE  staked'[v] <= PointsOfStake((stakingInfo[v].updatedAt \div 2) + slow - Late(v))'
    BY <1>1, <1>4, <1>6, <1>7, <2>1, OtherStakes
  <2>2. staked[u] + stakingJob.earned <= PointsOfStake((stakingJob.now \div 2) + slow)
    BY <1>1, <1>2, <1>7 DEF StakesInv, StakesPaidInv
  <2>3. PointsOfStake((stakingJob.now \div 2) + slow)'
        = PointsOfStake((stakingJob.now \div 2) + slow)
    BY <1>1, <1>3 DEF PointsOfStake
  <2>4. staked'[u] <= PointsOfStake((stakingJob.now \div 2) + slow)'
    BY <1>4, <2>2, <2>3
  <2>5. QED  BY <1>3, <2>1, <2>4 DEF StakesPaidInv
<1>8. QED  BY <1>1, <1>5, <1>7 DEF StakesInv

LEMMA SetUpdatedAtStakes ==
  ASSUME HoursTypeOK, PointsTypeInv, StakesInv, SetUpdatedAt
  PROVE  StakesInv'
<1>1. /\ stakingJob.pc = "setUpdatedAt"
      /\ UNCHANGED <<clock, staked, stakeTorn, slow, stakeEvents>>
      /\ stakingInfo' = [stakingInfo EXCEPT ![stakingJob.user] =
                           [amount |-> stakingInfo[stakingJob.user].amount,
                            updatedAt |-> stakingJob.now]]
  BY DEF SetUpdatedAt, histories, bounded
<1>2. PICK u \in Stakers : u = stakingJob.user /\ stakingInfo[u] # NoRow
  BY <1>1 DEF PointsTypeInv
<1>3. /\ stakingJob.infos[u] = NoRow /\ stakingJob.now <= clock /\ stakingJob.now \in Nat
      /\ stakingInfo[u].amount <= stakeEvents /\ stakingInfo[u].amount \in Int
  BY <1>1, <1>2, StakeNumbers DEF StakesInv, StakesRowInv
<1>4. /\ stakingJob'.pc \in {"idle", "findUser"} /\ stakingJob'.infos = stakingJob.infos
      /\ stakingJob'.pc = "idle" => stakingJob'.infos = NoInfos
  <2>1. CASE stakingJob.infos = NoInfos
    BY <2>1, StakingRecords DEF SetUpdatedAt
  <2>2. CASE stakingJob.infos # NoInfos
    <3>1. stakingJob' = [IdleStakingJob EXCEPT !.pc = "findUser", !.infos = stakingJob.infos]
      BY <2>2 DEF SetUpdatedAt
    <3>2. QED  BY <3>1 DEF IdleStakingJob
  <2>3. QED  BY <2>1, <2>2
<1>5. /\ stakingInfo'[u].amount = stakingInfo[u].amount
      /\ stakingInfo'[u].updatedAt = stakingJob.now /\ stakingInfo'[u] # NoRow
      /\ \A v \in Stakers \ {u} : stakingInfo'[v] = stakingInfo[v]
  <2> DEFINE row == [amount |-> stakingInfo[u].amount, updatedAt |-> stakingJob.now]
  <2>1. row \in StakingInfo
    BY <1>3 DEF StakingInfo
  <2>2. stakingInfo' = [stakingInfo EXCEPT ![u] = row]
    BY <1>1, <1>2
  <2>3. row.amount = stakingInfo[u].amount /\ row.updatedAt = stakingJob.now
    OBVIOUS
  <2>4. stakingInfo \in [Stakers -> StakingInfo \cup {NoRow}]
    BY DEF PointsTypeInv, PointsTypeOK
  <2> HIDE DEF row
  <2>5. QED  BY <1>2, <2>1, <2>2, <2>3, <2>4, StakingRecords
<1>6. StakesRowInv'
  <2>1. \A v \in Stakers :
          IF stakingInfo'[v] = NoRow THEN staked'[v] = 0
          ELSE stakingInfo'[v].updatedAt <= clock' /\ stakingInfo'[v].amount <= stakeEvents'
    BY <1>1, <1>3, <1>5 DEF StakesInv, StakesRowInv
  <2>2. \A v \in Stakers : stakingJob'.infos[v] # NoRow =>
          /\ stakingJob'.infos[v].updatedAt = stakingInfo'[v].updatedAt
          /\ stakingJob'.infos[v].amount <= stakeEvents'
    BY <1>1, <1>3, <1>4, <1>5 DEF StakesInv, StakesRowInv
  <2>3. stakingJob'.pc # "idle" /\ clock' % 2 = 1 => slow' >= 1
    BY <1>1, <1>4 DEF StakesInv, StakesRowInv
  <2>4. QED  BY <1>4, <2>1, <2>2, <2>3 DEF StakesRowInv
<1>7. \A v \in Stakers : Late(v)' = Late(v)
  BY <1>1, <1>4 DEF Late
<1>8. Late(u)' = 0
  BY <1>3, <1>4 DEF Late
<1>9. ASSUME ~stakeTorn, NEW v \in Stakers, stakingInfo'[v] # NoRow
      PROVE  staked'[v] <= PointsOfStake((stakingInfo[v].updatedAt \div 2) + slow - Late(v))'
  <2>1. CASE v # u
    BY <1>1, <1>2, <1>5, <1>7, <1>9, <2>1, OtherStakes
  <2>2. CASE v = u
    <3> DEFINE h == (stakingJob.now \div 2) + slow
               k == (stakingInfo'[u].updatedAt \div 2) + slow' - Late(u)'
    <3>1. staked[u] <= PointsOfStake(h)
      BY <1>1, <1>2, <1>9 DEF StakesInv, StakesPaidInv
    <3>2. k = h
      <4> DEFINE b == stakingJob.now \div 2
                 s == slow
      <4>1. k = b + s - 0 /\ h = b + s /\ b \in Nat /\ s \in Nat
        BY <1>1, <1>5, <1>8, StakeNumbers
      <4> HIDE DEF b, s, h, k
      <4>2. QED  BY <4>1
    <3>3. PointsOfStake((stakingInfo[u].updatedAt \div 2) + slow - Late(u))'
          = (StakeRate * stakeEvents') * k
      BY DEF PointsOfStake
    <3> HIDE DEF k, h
    <3>4. PointsOfStake((stakingInfo[u].updatedAt \div 2) + slow - Late(u))' = PointsOfStake(h)
      BY <1>1, <3>2, <3>3 DEF PointsOfStake
    <3>5. QED  BY <1>1, <2>2, <3>1, <3>4
  <2>3. QED  BY <2>1, <2>2
<1>10. QED  BY <1>1, <1>4, <1>6, <1>9 DEF StakesInv, StakesPaidInv

LEMMA FailStakes ==
  ASSUME HoursTypeOK, PointsTypeInv, StakesInv, FailStakingJob
  PROVE  StakesInv'
<1>1. /\ UNCHANGED <<clock, stakingInfo, staked, slow, stakeEvents>>
      /\ stakingJob'.pc = "idle" /\ stakingJob'.infos = NoInfos
      /\ ~stakeTorn' => ~stakeTorn /\ stakingJob.pc # "setUpdatedAt"
  BY StakingRecords DEF FailStakingJob, tablesOfPoints
<1>2. \A u \in Stakers : NoInfos[u] = NoRow
  BY StakingRecords
<1>3. StakesRowInv'
  BY <1>1, <1>2 DEF StakesInv, StakesRowInv
<1>4. \A u \in Stakers : Late(u)' = 0
  BY <1>1, <1>2 DEF Late
<1>5. ASSUME ~stakeTorn', NEW u \in Stakers, stakingInfo'[u] # NoRow
      PROVE  staked'[u] <= PointsOfStake((stakingInfo[u].updatedAt \div 2) + slow - Late(u))'
  BY <1>1, <1>4, <1>5, OtherStakes
<1>6. QED  BY <1>1, <1>3, <1>5 DEF StakesInv, StakesPaidInv

LEMMA StakesInit == PointsInit => StakesInv
BY StakingRecords
   DEF PointsInit, StakesInv, StakesRowInv, StakesPaidInv

LEMMA StakesStep ==
  ASSUME HoursTypeOK, HoursTypeOK', PointsTypeInv, TotalsInv, StakesInv, [PointsNext]_pointsVars
  PROVE  StakesInv'
<1>1. CASE RunPointsJob \/ EnsureUserExists \/ AtHorizon \/ UNCHANGED pointsVars
  <2>1. UNCHANGED stakesOf
    BY <1>1
       DEF RunPointsJob, GetBatch, GetBalances, SetBackfill, SetPoints,
           SetLastPointsProcessingTime, FailPointsJob, EnsureUserExists, AtHorizon,
           pointsVars, tablesOfPoints, histories, bounded, stakesOf
  <2>2. QED  BY <2>1, SameStakes
<1>2. QED
  BY <1>1, TickStakes, UpdateStakes, FindInfosStakes, FindUserStakes, SetUserStakes,
     SetUpdatedAtStakes, FailStakes
     DEF PointsNext, RunStakingJob

\* The hours that stakes are paid for are at most those until now.
LEMMA StakesPaid ==
  ASSUME HoursTypeOK, PointsTypeInv, StakesInv
  PROVE  StakesNotOverpaid
<1> SUFFICES ASSUME ~stakeTorn, NEW u \in Stakers
             PROVE  staked[u] <= StakeRate * stakeEvents * (RoundToNearestHour(clock) + slow)
  BY DEF StakesNotOverpaid
<1> DEFINE now == RoundToNearestHour(clock) + slow
<1>1. now \in Nat /\ \A n \in Nat : n <= clock => (n \div 2) + slow <= now
  BY StakeNumbers DEF RoundToNearestHour
<1>2. stakeEvents \in Nat /\ slow \in Nat /\ clock \in Nat /\ staked[u] \in Int /\ Late(u) \in {0, 1}
      /\ stakingJob.now \in Nat
  BY StakeNumbers
<1>3. StakeRate * stakeEvents * now = PointsOfStake(now)
  BY DEF PointsOfStake
<1> HIDE DEF now
<1>4. ASSUME NEW h \in Int, h <= now
      PROVE  PointsOfStake(h) \in Int /\ PointsOfStake(h) <= PointsOfStake(now)
             /\ 0 <= PointsOfStake(now) /\ PointsOfStake(now) \in Int
  <2> DEFINE p == StakeRate * stakeEvents
  <2>1. p \in Nat
    BY <1>2, PointsAssumption, Multiples
  <2> HIDE DEF p
  <2>2. p * h \in Int /\ p * h <= p * now /\ p * now \in Nat
    BY <1>1, <1>4, <2>1, Multiples
  <2>3. QED  BY <2>2 DEF PointsOfStake, p
<1>5. CASE stakingInfo[u] = NoRow
  <2>1. staked[u] = 0
    BY <1>5 DEF StakesInv, StakesRowInv
  <2>2. 0 <= PointsOfStake(now)
    BY <1>1, <1>4
  <2>3. QED  BY <1>3, <2>1, <2>2 DEF now
<1>6. CASE stakingInfo[u] # NoRow /\ ~(stakingJob.pc = "setUpdatedAt" /\ stakingJob.user = u)
  <2> DEFINE b == stakingInfo[u].updatedAt \div 2
             h == b + slow - Late(u)
  <2>1. staked[u] <= PointsOfStake(h)
    BY <1>6 DEF StakesInv, StakesPaidInv
  <2>2. b \in Nat /\ b + slow <= now
    BY <1>1, <1>6, StakeNumbers DEF StakesInv, StakesRowInv
  <2> HIDE DEF b
  <2>3. h \in Int /\ h <= now
    BY <1>1, <1>2, <2>2
  <2> HIDE DEF h
  <2>4. staked[u] <= PointsOfStake(now)
    BY <1>2, <1>4, <2>1, <2>3
  <2>5. QED  BY <1>3, <2>4 DEF now
<1>7. CASE stakingJob.pc = "setUpdatedAt" /\ stakingJob.user = u
  <2> DEFINE h == (stakingJob.now \div 2) + slow
  <2>1. staked[u] <= PointsOfStake(h)
    BY <1>7 DEF StakesInv, StakesPaidInv
  <2>2. h \in Int /\ h <= now
    BY <1>1, <1>2, <1>7 DEF StakesInv, StakesRowInv
  <2> HIDE DEF h
  <2>3. staked[u] <= PointsOfStake(now)
    BY <1>2, <1>4, <2>1, <2>2
  <2>4. QED  BY <1>3, <2>3 DEF now
<1>8. QED  BY <1>5, <1>6, <1>7

\* However runs fail, overrun and backfill, neither a wallet of a table without
\* a gap nor a stake is paid for more hours than there were, unless a run failed
\* after paying or backfilled in two batches.
THEOREM NeverOverpaid == PointsSpec => []NotOverpaid
<1>1. MadeUpInv => HoursTypeOK
  BY DEF MadeUpInv
<1>2. PointsSpec => []WalletsInv
  BY <1>1, AlwaysMadeUp, WalletsInit, WalletsStep, PTL DEF PointsSpec
<1>3. PointsSpec => []StakesInv
  BY <1>1, AlwaysMadeUp, AlwaysPointsTyped, AlwaysTotals, StakesInit, StakesStep, PTL
     DEF PointsSpec
<1>4. HoursTypeOK /\ PointsTypeInv /\ WalletsInv /\ StakesInv => NotOverpaid
  BY WalletsPaid, StakesPaid DEF NotOverpaid
<1>5. QED  BY <1>1, <1>2, <1>3, <1>4, AlwaysMadeUp, AlwaysPointsTyped, PTL

----------------------------------------------------------------------------
(* The backfill of one token.                                              *)

\* What a history is: newest first, and never overdrawn.
IsHistory(h) ==
  /\ h \in Seq(TransferOf) /\ NeverOverdrawn(h)
  /\ \A i, j \in 1 .. Len(h) : i <= j => h[j].at <= h[i].at

LEMMA TransfersAre ==
  ASSUME NEW h \in Seq(TransferOf)
  PROVE  /\ DOMAIN h = 1 .. Len(h) /\ Len(h) \in Nat
         /\ \A i \in 1 .. Len(h) : h[i] \in TransferOf /\ h[i].at \in Int /\ h[i].amount \in Int
<1>1. ASSUME NEW x \in TransferOf
      PROVE  x.at \in Int /\ x.amount \in Int
  <2>1. x.at \in 0 .. 2 * Now /\ x.amount \in Amounts
    BY DEF TransferOf
  <2>2. 2 * Now \in Int /\ Amounts \subseteq Int
    BY BackfillAssumption
  <2>3. x.at \in Int
    BY ONLY <2>1, <2>2
  <2>4. QED  BY <2>1, <2>2, <2>3
<1>2. DOMAIN h = 1 .. Len(h) /\ Len(h) \in Nat /\ \A i \in 1 .. Len(h) : h[i] \in TransferOf
  BY ElementOfSeq
<1>3. QED  BY <1>1, <1>2

LEMMA SumOfIs ==
  ASSUME NEW h, NEW S
  PROVE  SumOf(h, S) = SumOver([i \in DOMAIN h |-> h[i].amount], S)
BY DEF SumOf, SumFunctionOnSet, FoldFunctionOnSet, SumOver, MapThenSumSet

LEMMA TailOf ==
  ASSUME NEW n \in Nat, NEW m \in 0 .. n
  PROVE  /\ IsFiniteSet(m + 1 .. n) /\ m + 1 .. n \subseteq 1 .. n
         /\ m = n => m + 1 .. n = {}
         /\ m # n => m + 1 \in m + 1 .. n /\ (m + 1 .. n) \ {m + 1} = m + 2 .. n
<1>1. IsFiniteSet(m + 1 .. n)
  <2>1. m + 1 \in Int /\ n \in Int
    OBVIOUS
  <2>2. QED  BY <2>1, FS_Interval
<1>2. QED  BY <1>1

\* Each transfer adds its amount to the balance before it.
LEMMA SumFrom ==
  ASSUME NEW h \in Seq(TransferOf), NEW k \in 0 .. Len(h)
  PROVE  /\ SumOf(h, k + 1 .. Len(h)) \in Int
         /\ k = Len(h) => SumOf(h, k + 1 .. Len(h)) = 0
         /\ k # Len(h) => SumOf(h, k + 1 .. Len(h)) = h[k + 1].amount + SumOf(h, k + 2 .. Len(h))
<1> DEFINE f == [i \in DOMAIN h |-> h[i].amount]
           S == k + 1 .. Len(h)
<1>1. /\ DOMAIN h = 1 .. Len(h) /\ Len(h) \in Nat
      /\ \A i \in 1 .. Len(h) : h[i].amount \in Int
  BY TransfersAre
<1>2. \A i \in 1 .. Len(h) : f[i] = h[i].amount /\ f[i] \in Int
  BY <1>1
<1>3. /\ IsFiniteSet(S) /\ S \subseteq 1 .. Len(h)
      /\ k = Len(h) => S = {}
      /\ k # Len(h) => k + 1 \in S /\ S \ {k + 1} = k + 2 .. Len(h)
  BY <1>1, TailOf
<1>9. \A i \in S : f[i] \in Int
  BY <1>2, <1>3
<1>4. SumOf(h, S) = SumOver(f, S) /\ \A T : SumOf(h, T) = SumOver(f, T)
  BY SumOfIs
<1>5. SumOver(f, S) \in Int
  <2> HIDE DEF f, S
  <2>1. QED  BY <1>9, <1>3, SumIsInt
<1>6. k = Len(h) => SumOver(f, S) = 0
  <2>1. k = Len(h) => S = {}
    BY <1>3
  <2> HIDE DEF f
  <2>2. SumOver(f, {}) = 0
    BY SumIsRecursive, FS_EmptySet
  <2>3. QED  BY <2>1, <2>2
<1>7. k # Len(h) => SumOver(f, S) = h[k + 1].amount + SumOver(f, k + 2 .. Len(h))
  <2> SUFFICES ASSUME k # Len(h)
               PROVE  SumOver(f, S) = h[k + 1].amount + SumOver(f, k + 2 .. Len(h))
    OBVIOUS
  <2>1. k + 1 \in S /\ S \ {k + 1} = k + 2 .. Len(h)
    BY <1>3
  <2>2. f[k + 1] = h[k + 1].amount
    BY <1>2, <1>3, <2>1
  <2> HIDE DEF f, S
  <2>3. SumOver(f, S) = f[k + 1] + SumOver(f, S \ {k + 1})
    BY <1>9, <1>3, <2>1, SumTakes
  <2>4. QED  BY <2>1, <2>2, <2>3
<1> HIDE DEF f
<1>8. QED  BY <1>4, <1>5, <1>6, <1>7

\* The balance before the transfers that are later than a time.
BalanceIn(h, half) == Opening + SumOf(h, {i \in DOMAIN h : h[i].at <= half})

LEMMA BalanceIs ==
  ASSUME NEW h, IsHistory(h), NEW half \in Int, NEW k \in 0 .. Len(h),
         \A i \in 1 .. Len(h) : i <= k => h[i].at > half,
         \A i \in 1 .. Len(h) : i > k => h[i].at <= half
  PROVE  /\ BalanceIn(h, half) = Opening + SumOf(h, k + 1 .. Len(h))
         /\ BalanceIn(h, half) \in Nat
<1>1. /\ DOMAIN h = 1 .. Len(h) /\ Len(h) \in Nat /\ h \in Seq(TransferOf)
      /\ \A i \in 1 .. Len(h) : h[i].at \in Int
  BY TransfersAre DEF IsHistory
<1>2. {i \in DOMAIN h : h[i].at <= half} = k + 1 .. Len(h)
  <2>1. \A i \in 1 .. Len(h) : h[i].at <= half <=> i > k
    BY <1>1
  <2>2. QED  BY <1>1, <2>1
<1>3. BalanceIn(h, half) = Opening + SumOf(h, k + 1 .. Len(h))
  BY <1>2 DEF BalanceIn
<1>4. SumOf(h, k + 1 .. Len(h)) \in Int /\ Opening \in Nat
  BY <1>1, SumFrom, BackfillAssumption
<1>5. Opening + SumOf(h, k + 1 .. Len(h)) >= 0
  <2>1. CASE k = Len(h)
    BY <1>1, <1>4, <2>1, SumFrom
  <2>2. CASE k # Len(h)
    <3>1. k + 1 \in 1 .. Len(h)
      BY <1>1, <2>2, TailOf
    <3>2. QED  BY <3>1 DEF IsHistory, NeverOverdrawn
  <2>3. QED  BY <2>1, <2>2
<1>6. QED  BY <1>3, <1>4, <1>5

LEMMA NewestFirst ==
  ASSUME NEW n \in Nat, NEW h \in [1 .. n -> TransferOf],
         \A i \in 1 .. n - 1 : h[i].at >= h[i + 1].at,
         NEW i \in 1 .. n, NEW j \in 1 .. n, i <= j
  PROVE  h[j].at <= h[i].at
<1> DEFINE Bad == {k \in 1 .. n : i <= k /\ ~(h[k].at <= h[i].at)}
<1> SUFFICES ASSUME Bad # {}
             PROVE  FALSE
  OBVIOUS
<1>1. \A k \in 1 .. n : h[k].at \in Int
  BY DEF TransferOf, BackfillAssumption
<1>2. PICK k \in Bad : \A m \in Bad : k <= m
  <2>1. Bad \in SUBSET Nat
    OBVIOUS
  <2> HIDE DEF Bad
  <2>2. QED  BY <2>1, SmallestIn
<1>3. k # i
  BY <1>1, <1>2
<1>4. k - 1 \in 1 .. n - 1 /\ k - 1 >= i /\ k - 1 \in 1 .. n /\ ~(k - 1 \in Bad)
  BY <1>2, <1>3
<1>5. h[k - 1].at <= h[i].at
  BY <1>4
<1>6. h[k - 1].at >= h[(k - 1) + 1].at /\ (k - 1) + 1 = k
  BY <1>4
<1>7. h[k].at <= h[i].at
  BY <1>1, <1>2, <1>4, <1>5, <1>6
<1>8. QED  BY <1>2, <1>7

\* How many there are tells which, of the first ones.
LEMMA FirstOnes ==
  ASSUME NEW n \in Nat, NEW P \in SUBSET (1 .. n),
         \A i \in P, j \in 1 .. n : j <= i => j \in P
  PROVE  Cardinality(P) \in 0 .. n /\ P = 1 .. Cardinality(P)
<1> DEFINE Rest == (1 .. n + 1) \ P
<1>1. PICK m \in Rest : \A k \in Rest : m <= k
  <2>1. n + 1 \in Rest /\ Rest \in SUBSET Nat
    OBVIOUS
  <2> HIDE DEF Rest
  <2>2. QED  BY <2>1, SmallestIn
<1>2. P = 1 .. m - 1
  <2>1. ASSUME NEW i \in P
        PROVE  i \in 1 .. m - 1
    <3>1. i < m
      <4>1. m \in 1 .. n /\ m <= i => m \in P
        OBVIOUS
      <4>2. QED  BY <1>1, <4>1
    <3>2. QED  BY <1>1, <3>1
  <2>2. ASSUME NEW i \in 1 .. m - 1
        PROVE  i \in P
    BY <1>1
  <2>3. QED  BY <2>1, <2>2
<1>3. Cardinality(1 .. m - 1) = m - 1
  BY <1>1, FS_Interval
<1>4. QED  BY <1>1, <1>2, <1>3

\* A stretch of transfers and the first page of it.
LEMMA PagesOf ==
  ASSUME NEW s \in Seq(TransferOf)
  PROVE  /\ Page(s) \in Seq(TransferOf) /\ NextPages(s) \in Seq(TransferOf)
         /\ Len(Page(s)) \in Nat /\ Len(NextPages(s)) \in Nat
         /\ Len(s) = Len(Page(s)) + Len(NextPages(s))
         /\ Len(Page(s)) = 0 => Len(s) = 0
         /\ \A j \in 1 .. Len(Page(s)) : Page(s)[j] = s[j]
         /\ \A j \in 1 .. Len(NextPages(s)) : NextPages(s)[j] = s[Len(Page(s)) + j]
<1> DEFINE p == Min({PageLength, Len(s)})
           n == Len(s)
<1>1. n \in Nat /\ PageLength \in Nat \ {0} /\ \A i \in 1 .. n : s[i] \in TransferOf
  BY TransfersAre, BackfillAssumption
<1>2. /\ p \in Nat /\ p <= n /\ p <= PageLength
      /\ p = n \/ p = PageLength
  BY <1>1 DEF Min
<1> HIDE DEF p
<1>3. /\ Page(s) \in Seq(TransferOf) /\ Len(Page(s)) = p
      /\ \A j \in 1 .. p : Page(s)[j] = s[j]
  <2>1. \A i \in 1 .. p : s[i] \in TransferOf
    BY <1>1, <1>2
  <2>2. /\ SubSeq(s, 1, p) \in Seq(TransferOf)
        /\ Len(SubSeq(s, 1, p)) = IF 1 <= p THEN p - 1 + 1 ELSE 0
        /\ \A i \in 1 .. p - 1 + 1 : SubSeq(s, 1, p)[i] = s[1 + i - 1]
    BY <1>2, <2>1, SubSeqProperties
  <2>3. Page(s) = SubSeq(s, 1, p)
    BY DEF Page, p
  <2>4. QED  BY <1>2, <2>2, <2>3
<1>4. /\ NextPages(s) \in Seq(TransferOf)
      /\ Len(NextPages(s)) = n - p
      /\ \A j \in 1 .. n - p : NextPages(s)[j] = s[p + j]
  <2> DEFINE q == PageLength
  <2>1. \A i \in q + 1 .. n : s[i] \in TransferOf
    BY <1>1
  <2>2. /\ SubSeq(s, q + 1, n) \in Seq(TransferOf)
        /\ Len(SubSeq(s, q + 1, n)) = IF q + 1 <= n THEN n - (q + 1) + 1 ELSE 0
        /\ \A i \in 1 .. n - (q + 1) + 1 : SubSeq(s, q + 1, n)[i] = s[q + 1 + i - 1]
    <3>1. q + 1 \in Int /\ n \in Int
      BY <1>1
    <3> HIDE DEF n
    <3>2. QED  BY <3>1, <2>1, SubSeqProperties
  <2>3. NextPages(s) = SubSeq(s, q + 1, n)
    BY DEF NextPages
  <2>4. Len(NextPages(s)) = n - p
    BY <1>1, <1>2, <2>2, <2>3
  <2>5. ASSUME NEW j \in 1 .. n - p
        PROVE  NextPages(s)[j] = s[p + j]
    <3>1. p = q /\ j \in 1 .. n - (q + 1) + 1 /\ p + j = q + 1 + j - 1
      BY <1>1, <1>2
    <3>2. QED  BY <2>2, <2>3, <3>1
  <2>6. QED  BY <2>2, <2>3, <2>4, <2>5
<1> DEFINE a == Len(Page(s))
           b == Len(NextPages(s))
<1>5. a = p /\ b = n - p
  BY <1>3, <1>4
<1>6. /\ \A j \in 1 .. a : Page(s)[j] = s[j]
      /\ \A j \in 1 .. b : NextPages(s)[j] = s[a + j]
  BY <1>3, <1>4, <1>5
<1> HIDE DEF a, b, n
<1>7. a \in Nat /\ b \in Nat /\ n = a + b /\ (a = 0 => n = 0)
  BY <1>1, <1>2, <1>5
<1>8. QED  BY <1>3, <1>4, <1>6, <1>7 DEF a, b, n

\* The transfers that are fetched: those after the ones later than an hour, to
\* the last that is not earlier than another.
\* What is found are the transfers k + 1 to e: all from one hour to another.
Between(found, h, from, to, k, e) ==
  /\ k <= e /\ found \in Seq(TransferOf) /\ Len(found) = e - k
  /\ \A j \in 1 .. e - k : found[j] = h[k + j]
  /\ \A i \in 1 .. Len(h) : i <= k => h[i].at > 2 * to
  /\ \A i \in 1 .. Len(h) : i > k => h[i].at <= 2 * to
  /\ \A i \in 1 .. Len(h) : i > e => h[i].at < 2 * from

LEMMA FetchedIs ==
  ASSUME NEW h, IsHistory(h), NEW from \in Int, NEW to \in Int
  PROVE  \E k, e \in 0 .. Len(h) : Between(Fetched(h, from, to), h, from, to, k, e)
<1> DEFINE n == Len(h)
           A == {i \in DOMAIN h : h[i].at > 2 * to}
           C == {i \in DOMAIN h : h[i].at >= 2 * from}
           k == Cardinality(A)
           c == Cardinality(C)
           e == IF c > k THEN c ELSE k
<1>1. /\ DOMAIN h = 1 .. n /\ n \in Nat
      /\ \A i \in 1 .. n : h[i] \in TransferOf /\ h[i].at \in Int
      /\ \A i, j \in 1 .. n : i <= j => h[j].at <= h[i].at
  BY TransfersAre DEF IsHistory
<1>2. k \in 0 .. n /\ A = 1 .. k
  <2>1. A \in SUBSET (1 .. n) /\ \A i \in A : \A j \in 1 .. n : j <= i => j \in A
    BY <1>1
  <2> HIDE DEF A, n
  <2>2. QED  BY <1>1, <2>1, FirstOnes
<1>3. c \in 0 .. n /\ C = 1 .. c
  <2>1. C \in SUBSET (1 .. n) /\ \A i \in C : \A j \in 1 .. n : j <= i => j \in C
    BY <1>1
  <2> HIDE DEF C, n
  <2>2. QED  BY <1>1, <2>1, FirstOnes
<1>4. \A i \in 1 .. n : i <= k => h[i].at > 2 * to
  <2>1. \A i \in A : h[i].at > 2 * to
    OBVIOUS
  <2> HIDE DEF A
  <2>2. QED  BY <1>1, <1>2, <2>1
<1>5. \A i \in 1 .. n : i > k => h[i].at <= 2 * to
  <2>1. \A i \in 1 .. n : ~(i \in A) => h[i].at <= 2 * to
    BY <1>1
  <2> HIDE DEF A
  <2>2. QED  BY <1>1, <1>2, <2>1
<1>6. \A i \in 1 .. n : i > c => h[i].at < 2 * from
  <2>1. \A i \in 1 .. n : ~(i \in C) => h[i].at < 2 * from
    BY <1>1
  <2> HIDE DEF C
  <2>2. QED  BY <1>1, <1>3, <2>1
<1>7. Fetched(h, from, to) = SubSeq(h, k + 1, c)
  BY DEF Fetched
<1> HIDE DEF A, C, k, c, n
<1>8. \A i \in k + 1 .. c : h[i] \in TransferOf
  BY <1>1, <1>2, <1>3
<1>9. /\ SubSeq(h, k + 1, c) \in Seq(TransferOf)
      /\ Len(SubSeq(h, k + 1, c)) = IF k + 1 <= c THEN c - (k + 1) + 1 ELSE 0
      /\ \A i \in 1 .. c - (k + 1) + 1 : SubSeq(h, k + 1, c)[i] = h[k + 1 + i - 1]
  <2>1. k + 1 \in Int /\ c \in Int
    BY <1>2, <1>3
  <2>2. QED  BY <1>8, <2>1, SubSeqProperties
<1>10. k <= e /\ e \in 0 .. n /\ Len(SubSeq(h, k + 1, c)) = e - k
  BY <1>1, <1>2, <1>3, <1>9
<1>11. ASSUME NEW j \in 1 .. e - k
       PROVE  Fetched(h, from, to)[j] = h[k + j]
  <2>1. j \in 1 .. c - (k + 1) + 1 /\ k + 1 + j - 1 = k + j
    BY <1>2, <1>3
  <2>2. QED  BY <1>7, <1>9, <2>1
<1>12. \A i \in 1 .. n : i > e => h[i].at < 2 * from
  BY <1>2, <1>3, <1>6
<1> HIDE DEF e
<1>13. /\ Fetched(h, from, to) \in Seq(TransferOf) /\ Len(Fetched(h, from, to)) = e - k
       /\ \A j \in 1 .. e - k : Fetched(h, from, to)[j] = h[k + j]
  BY <1>7, <1>9, <1>10, <1>11
<1>14. QED  BY <1>2, <1>4, <1>5, <1>10, <1>12, <1>13 DEF n, Between

\* Nothing has moved in the last hour.
StillIn(h) == BalanceIn(h, 2 * Now) = BalanceIn(h, 2 * (Now - 1))

\* What has been paid; the multiplier may be anything.
Payslips == {[hour |-> n[1], points |-> PointsForToken(n[2], n[1])] : n \in Int \X Int}

PaidAt(h, hour) == [hour |-> hour, points |-> BalanceIn(h, 2 * hour) * Multiplier(hour)]

BackfillTyped ==
  /\ IsHistory(history) /\ last \in Nat
  /\ unwind \in [pc: {"idle", "hour", "undo", "pay", "done"}, t: Int, balance: Int,
                 page: Seq(TransferOf), index: Nat, more: Seq(TransferOf),
                 paid: Seq(Payslips)]

\* The rest of the page and the other pages are the transfers k + 1 to e.
Remaining(u, k, e) ==
  /\ u.index <= Len(u.page)
  /\ k + (Len(u.page) - u.index) + Len(u.more) = e
  /\ u.index = Len(u.page) => Len(u.more) = 0
  /\ \A j \in 1 .. Len(u.page) - u.index : u.page[u.index + j] = history[k + j]
  /\ \A j \in 1 .. Len(u.more) : u.more[j] = history[k + (Len(u.page) - u.index) + j]

\* The balance is the one before the first k transfers: those later than t, but
\* for the hour that is being undone.
Rewound(u, k) ==
  /\ \A i \in 1 .. Len(history) : i <= k => history[i].at > 2 * u.t
  /\ \A i \in 1 .. Len(history) : i > k =>
       history[i].at <= IF u.pc = "undo" THEN 2 * u.t + 2 ELSE 2 * u.t
  /\ StillIn(history) => u.balance = Opening + SumOf(history, k + 1 .. Len(history))

\* Those after e are of hours that are not paid.
Unfetched(e) == \A i \in 1 .. Len(history) : i > e => history[i].at < 2 * last

Counted(u) ==
  /\ u.pc = "hour" => Len(u.paid) = Now - 1 - u.t /\ (u.t >= last \/ u.t = Now - 1)
  /\ u.pc \in {"undo", "pay"} => Len(u.paid) = Now - 2 - u.t /\ u.t >= last
  /\ u.pc = "done" => Len(u.paid) = IF Now - 1 > last THEN Now - 1 - last ELSE 0

PaidRight(u) == StillIn(history) => \A i \in 1 .. Len(u.paid) : u.paid[i] = PaidAt(history, Now - 1 - i)

InLoop(u) == u.pc \in {"hour", "undo", "pay"}

BackfillInv ==
  /\ BackfillTyped /\ Counted(unwind) /\ PaidRight(unwind)
  /\ InLoop(unwind) =>
       \E k, e \in 0 .. Len(history) : Remaining(unwind, k, e) /\ Rewound(unwind, k) /\ Unfetched(e)

LEMMA BackfillStarts == BackfillInit => BackfillInv
<1> SUFFICES ASSUME BackfillInit
             PROVE  BackfillInv
  OBVIOUS
<1>1. history = <<>> /\ last = 0 /\ unwind = Waiting
  BY DEF BackfillInit
<1>2. \A S : <<>> \in Seq(S) /\ Len(<<>>) = 0
  BY EmptySeq
<1>3. IsHistory(history)
  <2>1. Len(history) = 0 /\ history \in Seq(TransferOf)
    BY <1>1, <1>2
  <2>2. 1 .. Len(history) = {}
    BY <2>1
  <2>3. QED  BY <2>1, <2>2 DEF IsHistory, NeverOverdrawn
<1>4. unwind \in [pc: {"idle", "hour", "undo", "pay", "done"}, t: Int, balance: Int,
                 page: Seq(TransferOf), index: Nat, more: Seq(TransferOf),
                 paid: Seq(Payslips)]
  BY <1>1, <1>2 DEF Waiting
<1>5. unwind.pc = "idle" /\ Len(unwind.paid) = 0
  BY <1>1, <1>2 DEF Waiting
<1>6. 1 .. Len(unwind.paid) = {}
  BY <1>5
<1>7. QED  BY <1>1, <1>3, <1>4, <1>5, <1>6 DEF BackfillInv, BackfillTyped, Counted, PaidRight, InLoop

\* A wallet begins with the transfers of the last hour passed over.
LEMMA WalletBegins ==
  ASSUME BackfillInv, GetWalletPointsToBackfill
  PROVE  BackfillInv'
<1>1. PICK n \in 0 .. MaxHistory : \E h \in [1 .. n -> TransferOf] :
         /\ \A i \in 1 .. n - 1 : h[i].at >= h[i + 1].at
         /\ NeverOverdrawn(h) /\ history' = h
  BY DEF GetWalletPointsToBackfill
<1>2. PICK h \in [1 .. n -> TransferOf] :
         /\ \A i \in 1 .. n - 1 : h[i].at >= h[i + 1].at
         /\ NeverOverdrawn(h) /\ history' = h
  BY <1>1
<1>3. n \in Nat /\ h \in Seq(TransferOf) /\ Len(h) = n
  BY BackfillAssumption, LenProperties, IsASeq
<1>4. IsHistory(history')
  <2>1. \A i, j \in 1 .. n : i <= j => h[j].at <= h[i].at
    BY <1>2, <1>3, NewestFirst
  <2>2. NeverOverdrawn(history)'
    BY <1>2 DEF NeverOverdrawn
  <2>3. QED  BY <1>2, <1>3, <2>1, <2>2 DEF IsHistory
<1>5. last' \in Nat
  BY BackfillAssumption DEF GetWalletPointsToBackfill
<1> DEFINE found == Fetched(history', last', Now - 1)
<1>6. PICK k \in 0 .. n, e \in 0 .. n :
         /\ k <= e /\ found \in Seq(TransferOf) /\ Len(found) = e - k
         /\ \A j \in 1 .. e - k : found[j] = h[k + j]
         /\ \A i \in 1 .. n : i <= k => h[i].at > 2 * (Now - 1)
         /\ \A i \in 1 .. n : i > k => h[i].at <= 2 * (Now - 1)
         /\ \A i \in 1 .. n : i > e => h[i].at < 2 * last'
  <2>1. IsHistory(h)
    BY <1>2, <1>4
  <2>2. last' \in Int /\ Now - 1 \in Int
    BY <1>5, BackfillAssumption
  <2>3. \E k, e \in 0 .. Len(h) : Between(Fetched(h, last', Now - 1), h, last', Now - 1, k, e)
    BY <2>1, <2>2, FetchedIs
  <2>4. found = Fetched(h, last', Now - 1) /\ Len(h) = n
    BY <1>2, <1>3
  <2> HIDE DEF found
  <2>5. QED  BY ONLY <2>3, <2>4 DEF Between
<1>7. unwind' = [Waiting EXCEPT !.pc = "hour", !.t = Now - 1,
                                !.balance = Opening + SumOf(history', DOMAIN history'),
                                !.page = Page(found), !.more = NextPages(found)]
  BY DEF GetWalletPointsToBackfill
<1> HIDE DEF found
<1>8. /\ unwind'.pc = "hour" /\ unwind'.t = Now - 1 /\ unwind'.index = 0 /\ unwind'.paid = <<>>
      /\ unwind'.page = Page(found) /\ unwind'.more = NextPages(found)
      /\ unwind'.balance = Opening + SumOf(h, 1 .. n)
  BY <1>2, <1>7 DEF Waiting
<1>9. /\ Page(found) \in Seq(TransferOf) /\ NextPages(found) \in Seq(TransferOf)
      /\ Len(Page(found)) \in Nat /\ Len(NextPages(found)) \in Nat
      /\ e - k = Len(Page(found)) + Len(NextPages(found))
      /\ Len(Page(found)) = 0 => Len(NextPages(found)) = 0
      /\ \A j \in 1 .. Len(Page(found)) : Page(found)[j] = found[j]
      /\ \A j \in 1 .. Len(NextPages(found)) : NextPages(found)[j] = found[Len(Page(found)) + j]
  <2>1. found \in Seq(TransferOf) /\ Len(found) = e - k
    BY <1>6
  <2>2. /\ Page(found) \in Seq(TransferOf) /\ NextPages(found) \in Seq(TransferOf)
        /\ Len(Page(found)) \in Nat /\ Len(NextPages(found)) \in Nat
        /\ Len(found) = Len(Page(found)) + Len(NextPages(found))
        /\ Len(Page(found)) = 0 => Len(found) = 0
    BY ONLY <2>1, PagesOf
  <2>3. /\ \A j \in 1 .. Len(Page(found)) : Page(found)[j] = found[j]
        /\ \A j \in 1 .. Len(NextPages(found)) : NextPages(found)[j] = found[Len(Page(found)) + j]
    BY ONLY <2>1, PagesOf
  <2> DEFINE a == Len(Page(found))
             b == Len(NextPages(found))
  <2>4. e - k = a + b
    BY <2>1, <2>2
  <2>5. a = 0 => b = 0
    <3>1. a \in Nat /\ b \in Nat /\ Len(found) = a + b /\ (a = 0 => Len(found) = 0)
      BY <2>2
    <3> HIDE DEF a, b
    <3>2. QED  BY <3>1
  <2>6. QED  BY ONLY <2>2, <2>3, <2>4, <2>5
<1>10. SumOf(h, 1 .. n) \in Int
  <2>1. 0 \in 0 .. Len(h) /\ 0 + 1 = 1
    BY <1>3
  <2>2. QED  BY <1>3, <2>1, SumFrom
<1>11. BackfillTyped'
  <2>1. \A S : <<>> \in Seq(S)
    BY EmptySeq
  <2>2. unwind' \in [pc: {"idle", "hour", "undo", "pay", "done"}, t: Int, balance: Int,
                     page: Seq(TransferOf), index: Nat, more: Seq(TransferOf),
                     paid: Seq(Payslips)]
    <3>1. /\ unwind'.page \in Seq(TransferOf) /\ unwind'.more \in Seq(TransferOf)
          /\ unwind'.balance \in Int /\ unwind'.t \in Int /\ unwind'.paid \in Seq(Payslips)
      BY <1>8, <1>9, <1>10, <2>1, BackfillAssumption
    <3>3. unwind' = [pc |-> "hour", t |-> unwind'.t, balance |-> unwind'.balance,
                     page |-> unwind'.page, index |-> 0, more |-> unwind'.more, paid |-> unwind'.paid]
      BY <1>7, <1>8 DEF Waiting
    <3>4. QED  BY <3>1, <3>3
  <2>3. QED  BY <1>4, <1>5, <2>2 DEF BackfillTyped
<1>12. Len(unwind'.paid) = 0
  BY <1>8, EmptySeq
<1>13. Counted(unwind)' /\ PaidRight(unwind)'
  <2>1. 1 .. Len(unwind'.paid) = {}
    BY <1>12
  <2>2. QED  BY <1>8, <1>12, <2>1, BackfillAssumption DEF Counted, PaidRight
<1>14. Remaining(unwind, k, e)'
  <2> DEFINE p == Len(Page(found))
             m == Len(NextPages(found))
  <2>1. p \in Nat /\ m \in Nat /\ e - k = p + m /\ k \in Nat /\ e \in Nat
    BY <1>9, <1>3, <1>6
  <2>2. \A j \in 1 .. p - 0 : Page(found)[0 + j] = h[k + j]
    <3> HIDE DEF m, p
    <3>1. \A j \in 1 .. p - 0 : j \in 1 .. e - k /\ 0 + j = j
      BY <2>1
    <3>2. QED  BY <1>6, <1>9, <3>1 DEF p
  <2>3. \A j \in 1 .. m : NextPages(found)[j] = h[k + (p - 0) + j]
    <3> HIDE DEF m, p
    <3>1. \A j \in 1 .. m : p + j \in 1 .. e - k /\ k + (p - 0) + j = k + (p + j)
      BY <2>1
    <3>2. QED  BY <1>6, <1>9, <3>1 DEF p, m
  <2>4. p = 0 => m = 0
    BY <1>9
  <2> HIDE DEF p, m
  <2>5. 0 <= p /\ k + (p - 0) + m = e
    BY <2>1
  <2>6. QED  BY <1>2, <1>8, <2>2, <2>3, <2>4, <2>5 DEF Remaining, p, m
<1>15. StillIn(h) => SumOf(h, 1 .. n) = SumOf(h, k + 1 .. n)
  <2>1. BalanceIn(h, 2 * (Now - 1)) = Opening + SumOf(h, k + 1 .. n)
    <3>1. 2 * (Now - 1) \in Int
      BY BackfillAssumption
    <3>2. QED  BY <1>2, <1>3, <1>4, <1>6, <3>1, BalanceIs
  <2>2. BalanceIn(h, 2 * Now) = Opening + SumOf(h, 1 .. n)
    <3>1. 2 * Now \in Int /\ 0 \in 0 .. n /\ 0 + 1 = 1
      BY BackfillAssumption, <1>3
    <3>2. \A i \in 1 .. n : i <= 0 => h[i].at > 2 * Now
      OBVIOUS
    <3>3. \A i \in 1 .. n : i > 0 => h[i].at <= 2 * Now
      BY <1>3 DEF TransferOf
    <3>4. BalanceIn(h, 2 * Now) = Opening + SumOf(h, 0 + 1 .. n)
      <4> HIDE DEF BalanceIn
      <4>1. IsHistory(h)
        BY <1>2, <1>4
      <4>2. QED  BY <1>3, <3>1, <3>2, <3>3, <4>1, BalanceIs
    <3>5. QED  BY <3>1, <3>4
  <2>3. SumOf(h, k + 1 .. n) \in Int /\ Opening \in Int
    BY <1>3, <1>6, SumFrom, BackfillAssumption
  <2> DEFINE a == SumOf(h, k + 1 .. n)
             b == SumOf(h, 1 .. n)
  <2>4. StillIn(h) => Opening + b = Opening + a
    BY <2>1, <2>2 DEF StillIn
  <2>5. a \in Int /\ b \in Int /\ Opening \in Int
    BY <2>3, <1>10
  <2> HIDE DEF a, b
  <2>6. StillIn(h) => a = b
    BY <2>4, <2>5
  <2>7. QED  BY <2>6 DEF a, b
<1>16. Rewound(unwind, k)'
  BY <1>2, <1>3, <1>6, <1>8, <1>15 DEF Rewound
<1>17. Unfetched(e)'
  BY <1>2, <1>3, <1>6 DEF Unfetched
<1>18. k \in 0 .. Len(history') /\ e \in 0 .. Len(history')
  BY <1>2, <1>3
<1>19. QED  BY <1>11, <1>13, <1>14, <1>16, <1>17, <1>18 DEF BackfillInv

\* A step of the loop leaves the history alone.
LEMMA LoopTyped ==
  ASSUME BackfillInv
  PROVE  /\ IsHistory(history) /\ last \in Nat /\ unwind.t \in Int /\ unwind.balance \in Int
         /\ unwind.index \in Nat /\ unwind.page \in Seq(TransferOf) /\ unwind.more \in Seq(TransferOf)
         /\ unwind.paid \in Seq(Payslips) /\ Len(unwind.paid) \in Nat /\ Len(unwind.page) \in Nat
         /\ Len(unwind.more) \in Nat /\ Len(history) \in Nat
         /\ history \in Seq(TransferOf) /\ Now \in Int
         /\ \A i \in 1 .. Len(history) : history[i] \in TransferOf /\ history[i].at \in Int /\ history[i].amount \in Int
<1>1. /\ IsHistory(history) /\ last \in Nat /\ unwind.t \in Int /\ unwind.balance \in Int
         /\ unwind.index \in Nat /\ unwind.page \in Seq(TransferOf) /\ unwind.more \in Seq(TransferOf)
         /\ unwind.paid \in Seq(Payslips) /\ history \in Seq(TransferOf)
  BY DEF BackfillInv, BackfillTyped, IsHistory
<1>2. Now \in Int
  BY BackfillAssumption
<1>3. /\ Len(unwind.paid) \in Nat /\ Len(unwind.page) \in Nat
      /\ Len(unwind.more) \in Nat /\ Len(history) \in Nat
  BY <1>1, LenProperties
<1>4. QED  BY <1>1, <1>2, <1>3, TransfersAre

LEMMA NextHourKeeps ==
  ASSUME BackfillInv, NextHour
  PROVE  BackfillInv'
<1> DEFINE u == unwind
           v == unwind'
<1>1. u.pc = "hour" /\ UNCHANGED <<history, last>>
  BY DEF NextHour
<1>2. /\ v.page = u.page /\ v.more = u.more /\ v.index = u.index /\ v.balance = u.balance
      /\ v.paid = u.paid
      /\ u.t > last => v.pc = "undo" /\ v.t = u.t - 1
      /\ ~(u.t > last) => v.pc = "done" /\ v.t = u.t
  BY DEF NextHour, BackfillInv, BackfillTyped
<1>3. BackfillTyped'
  <2>1. u.t - 1 \in Int
    BY LoopTyped
  <2>2. QED  BY <1>1, <2>1 DEF BackfillInv, BackfillTyped, NextHour
<1>4. Counted(unwind)'
  <2>1. Len(u.paid) = Now - 1 - u.t /\ (u.t >= last \/ u.t = Now - 1)
    BY <1>1 DEF BackfillInv, Counted
  <2>2. u.t \in Int /\ last \in Int /\ Now \in Int
    BY LoopTyped
  <2>3. CASE u.t > last
    <3>1. Now - 2 - (u.t - 1) = Now - 1 - u.t /\ u.t - 1 >= last
      BY <2>2, <2>3
    <3>2. Len(v.paid) = Now - 2 - v.t /\ v.t >= last'
      BY <1>1, <1>2, <2>1, <2>3, <3>1
    <3>3. QED  BY <1>2, <2>3, <3>2 DEF Counted
  <2>4. CASE ~(u.t > last)
    <3>1. Now - 1 - u.t = IF Now - 1 > last THEN Now - 1 - last ELSE 0
      BY <2>1, <2>2, <2>4
    <3>2. Len(v.paid) = IF Now - 1 > last' THEN Now - 1 - last' ELSE 0
      BY <1>1, <1>2, <2>1, <3>1
    <3>3. QED  BY <1>2, <2>4, <3>2 DEF Counted
  <2>5. QED  BY <2>3, <2>4
<1>5. PaidRight(unwind)'
  <2>1. PaidRight(unwind)
    BY DEF BackfillInv
  <2>2. QED  BY <1>1, <1>2, <2>1 DEF PaidRight
<1>6. ASSUME u.t > last
      PROVE  \E k, e \in 0 .. Len(history) :
               Remaining(unwind, k, e)' /\ Rewound(unwind, k)' /\ Unfetched(e)'
  <2>1. PICK k \in 0 .. Len(history), e \in 0 .. Len(history) :
               Remaining(unwind, k, e) /\ Rewound(unwind, k) /\ Unfetched(e)
    BY <1>1 DEF BackfillInv, InLoop
  <2>2. Remaining(unwind, k, e)'
    BY <1>1, <1>2, <2>1 DEF Remaining
  <2>3. Rewound(unwind, k)'
    <3>1. \A i \in 1 .. Len(history) : i <= k => history[i].at > 2 * (u.t - 1)
      <4>1. ASSUME NEW i \in 1 .. Len(history), i <= k
            PROVE  history[i].at > 2 * (u.t - 1)
        <5>1. history[i].at > 2 * u.t
          BY <2>1, <4>1 DEF Rewound
        <5>2. history[i].at \in Int /\ u.t \in Int
          BY LoopTyped
        <5>3. QED  BY ONLY <5>1, <5>2
      <4>2. QED  BY <4>1
    <3>2. \A i \in 1 .. Len(history) : i > k => history[i].at <= 2 * (u.t - 1) + 2
      <4>1. 2 * (u.t - 1) + 2 = 2 * u.t
        BY LoopTyped
      <4>2. QED  BY <1>1, <2>1, <4>1 DEF Rewound
    <3>3. StillIn(history) => u.balance = Opening + SumOf(history, k + 1 .. Len(history))
      BY <2>1 DEF Rewound
    <3>4. QED  BY <1>1, <1>2, <1>6, <3>1, <3>2, <3>3 DEF Rewound
  <2>4. Unfetched(e)'
    BY <1>1, <2>1 DEF Unfetched
  <2>5. QED  BY <2>2, <2>3, <2>4
<1>7. InLoop(unwind)' => u.t > last
  BY <1>2 DEF InLoop
<1>8. QED  BY <1>1, <1>3, <1>4, <1>5, <1>6, <1>7 DEF BackfillInv

LEMMA PayHourKeeps ==
  ASSUME BackfillInv, PayHour
  PROVE  BackfillInv'
<1> DEFINE u == unwind
           v == unwind'
           slip == [hour |-> u.t, points |-> PointsForToken(u.balance, u.t)]
           n == Len(u.paid)
<1>1. u.pc = "pay" /\ UNCHANGED <<history, last>>
  BY DEF PayHour
<1>2. /\ v.page = u.page /\ v.more = u.more /\ v.index = u.index /\ v.balance = u.balance
      /\ v.paid = Append(u.paid, slip) /\ v.pc = "hour" /\ v.t = u.t
  BY DEF PayHour, BackfillInv, BackfillTyped
<1>3. slip \in Payslips
  <2>1. <<u.t, u.balance>> \in Int \X Int
    BY LoopTyped
  <2>2. QED  BY <2>1 DEF Payslips
<1> HIDE DEF slip
<1>4. /\ v.paid \in Seq(Payslips) /\ Len(v.paid) = n + 1
      /\ \A i \in 1 .. n : v.paid[i] = u.paid[i]
      /\ v.paid[n + 1] = slip
  BY <1>2, <1>3, LoopTyped, AppendProperties
<1>5. BackfillTyped'
  <2>1. unwind' = [unwind EXCEPT !.pc = "hour", !.paid = v.paid]
    BY <1>2 DEF PayHour, slip
  <2>2. QED  BY <1>1, <1>4, <2>1 DEF BackfillInv, BackfillTyped
<1>6. n = Now - 2 - u.t /\ u.t >= last
  BY <1>1 DEF BackfillInv, Counted
<1>7. u.t \in Int /\ last \in Int /\ Now \in Int /\ n \in Nat
  BY LoopTyped
<1>8. Counted(unwind)'
  <2>1. n + 1 = Now - 1 - u.t
    BY <1>6, <1>7
  <2>2. QED  BY <1>1, <1>2, <1>4, <1>6, <2>1 DEF Counted
<1>9. PICK k \in 0 .. Len(history), e \in 0 .. Len(history) :
             Remaining(unwind, k, e) /\ Rewound(unwind, k) /\ Unfetched(e)
  BY <1>1 DEF BackfillInv, InLoop
<1>10. StillIn(history) => slip = PaidAt(history, Now - 1 - (n + 1))
  <2>1. Now - 1 - (n + 1) = u.t /\ 2 * u.t \in Int
    <3>1. \A m, a, b \in Int : m = a - 2 - b => a - 1 - (m + 1) = b /\ 2 * b \in Int
      OBVIOUS
    <3>2. n = Now - 2 - u.t
      BY <1>6
    <3> HIDE DEF n, u
    <3>3. QED  BY <1>7, <3>1, <3>2
  <2>2. /\ BalanceIn(history, 2 * u.t) = Opening + SumOf(history, k + 1 .. Len(history))
        /\ BalanceIn(history, 2 * u.t) \in Nat
    <3>1. /\ \A i \in 1 .. Len(history) : i <= k => history[i].at > 2 * u.t
          /\ \A i \in 1 .. Len(history) : i > k => history[i].at <= 2 * u.t
      BY <1>1, <1>9 DEF Rewound
    <3>2. IsHistory(history)
      BY LoopTyped
    <3>3. QED  BY <2>1, <3>1, <3>2, BalanceIs
  <2>3. StillIn(history) => u.balance = BalanceIn(history, 2 * u.t)
    BY <1>9, <2>2 DEF Rewound
  <2>4. \A b \in Nat : ~(b < 0)
    OBVIOUS
  <2>5. QED  BY <2>1, <2>2, <2>3, <2>4 DEF slip, PaidAt, PointsForToken
<1>11. PaidRight(unwind)'
  <2>1. StillIn(history) => \A i \in 1 .. n : u.paid[i] = PaidAt(history, Now - 1 - i)
    BY DEF BackfillInv, PaidRight
  <2>2. \A i \in 1 .. n + 1 : i \in 1 .. n \/ i = n + 1
    BY <1>7
  <2> HIDE DEF n
  <2>3. StillIn(history) => \A i \in 1 .. n + 1 : v.paid[i] = PaidAt(history, Now - 1 - i)
    BY <1>4, <1>10, <2>1, <2>2
  <2>4. QED  BY <1>1, <1>4, <2>3 DEF PaidRight, PaidAt
<1>12. Remaining(unwind, k, e)' /\ Rewound(unwind, k)' /\ Unfetched(e)'
  BY <1>1, <1>2, <1>9 DEF Remaining, Rewound, Unfetched
<1>13. QED  BY <1>1, <1>5, <1>8, <1>9, <1>11, <1>12 DEF BackfillInv

LEMMA NextWalletKeeps ==
  ASSUME BackfillInv, NextWallet
  PROVE  BackfillInv'
<1>1. BackfillInit'
  BY DEF NextWallet, BackfillInit
<1>2. QED  BY <1>1, BackfillStarts, PTL

\* The transfer that comes next is the first that has not been passed.
LEMMA NextIs ==
  ASSUME BackfillInv, NEW k \in 0 .. Len(history), NEW e \in 0 .. Len(history),
         Remaining(unwind, k, e), unwind.index < Len(unwind.page)
  PROVE  /\ k + 1 \in 1 .. Len(history) /\ k + 1 \in 0 .. Len(history) /\ k # Len(history) /\ k + 1 <= e
         /\ unwind.page[unwind.index + 1] = history[k + 1]
<1> DEFINE i == unwind.index
           p == Len(unwind.page)
           m == Len(unwind.more)
           n == Len(history)
<1>1. /\ i \in Nat /\ p \in Nat /\ m \in Nat /\ n \in Nat /\ i < p /\ k + (p - i) + m = e
      /\ k \in 0 .. n /\ e \in 0 .. n
  BY LoopTyped DEF Remaining
<1>2. \A j \in 1 .. p - i : unwind.page[i + j] = history[k + j]
  BY DEF Remaining
<1> HIDE DEF i, p, m, n
<1>3. 1 \in 1 .. p - i /\ k + 1 \in 1 .. n /\ k + 1 \in 0 .. n /\ k # n /\ k + 1 <= e
  BY <1>1
<1>4. unwind.page[i + 1] = history[k + 1]
  BY <1>2, <1>3
<1>5. QED  BY <1>3, <1>4 DEF i, n

LEMMA UndoTransferKeeps ==
  ASSUME BackfillInv, UndoTransfer
  PROVE  BackfillInv'
<1> DEFINE u == unwind
           v == unwind'
           x == u.page[u.index + 1]
           ends == u.index + 1 >= Len(u.page)
<1>1. u.pc = "undo" /\ UNCHANGED <<history, last>>
  BY DEF UndoTransfer
<1>2. PICK k \in 0 .. Len(history), e \in 0 .. Len(history) :
             Remaining(unwind, k, e) /\ Rewound(unwind, k) /\ Unfetched(e)
  BY <1>1 DEF BackfillInv, InLoop
<1>3. Len(u.paid) = Now - 2 - u.t /\ u.t >= last
  BY <1>1 DEF BackfillInv, Counted
<1>4. PaidRight(unwind)
  BY DEF BackfillInv
<1>5. ASSUME v = [u EXCEPT !.pc = "pay"], \A i \in 1 .. Len(history) : i > k => history[i].at <= 2 * u.t
      PROVE  BackfillInv'
  <2>1. /\ v.page = u.page /\ v.more = u.more /\ v.index = u.index /\ v.balance = u.balance
        /\ v.paid = u.paid /\ v.pc = "pay" /\ v.t = u.t
    BY <1>5 DEF BackfillInv, BackfillTyped
  <2>2. BackfillTyped'
    BY <1>1, <1>5 DEF BackfillInv, BackfillTyped
  <2>3. Counted(unwind)' /\ PaidRight(unwind)'
    BY <1>1, <1>3, <1>4, <2>1 DEF Counted, PaidRight
  <2>4. Remaining(unwind, k, e)' /\ Unfetched(e)'
    BY <1>1, <1>2, <2>1 DEF Remaining, Unfetched
  <2>5. Rewound(unwind, k)'
    BY <1>1, <1>2, <1>5, <2>1 DEF Rewound
  <2>6. QED  BY <1>1, <2>2, <2>3, <2>4, <2>5 DEF BackfillInv
<1>6. CASE u.index >= Len(u.page)
  <2>1. v = [u EXCEPT !.pc = "pay"]
    BY <1>6 DEF UndoTransfer
  <2>2. k = e
    <3>1. u.index = Len(u.page) /\ k + (Len(u.page) - u.index) + Len(u.more) = e /\ Len(u.more) = 0
      BY <1>2, <1>6, LoopTyped DEF Remaining
    <3>2. QED  BY <3>1, LoopTyped
  <2>3. \A i \in 1 .. Len(history) : i > k => history[i].at <= 2 * u.t
    <3>1. ASSUME NEW i \in 1 .. Len(history), i > k
          PROVE  history[i].at <= 2 * u.t
      <4>1. history[i].at < 2 * last /\ last <= u.t
        BY <1>2, <1>3, <2>2, <3>1 DEF Unfetched
      <4>2. history[i].at \in Int /\ last \in Int /\ u.t \in Int
        BY LoopTyped
      <4>3. QED  BY ONLY <4>1, <4>2
    <3>2. QED  BY <3>1
  <2>4. QED  BY <1>5, <2>1, <2>3
<1>7. CASE u.index < Len(u.page) /\ x.at <= 2 * u.t
  <2>1. v = [u EXCEPT !.pc = "pay"]
    BY <1>7 DEF UndoTransfer
  <2>2. k + 1 \in 1 .. Len(history) /\ x = history[k + 1]
    BY <1>2, <1>7, NextIs
  <2>3. \A i \in 1 .. Len(history) : i > k => history[i].at <= 2 * u.t
    <3>1. ASSUME NEW i \in 1 .. Len(history), i > k
          PROVE  history[i].at <= 2 * u.t
      <4>1. k + 1 <= i
        BY <3>1
      <4>2. history[i].at <= history[k + 1].at
        BY <2>2, <4>1, LoopTyped DEF IsHistory
      <4> DEFINE a == history[i].at
                 b == history[k + 1].at
                 c == 2 * u.t
      <4>3. a \in Int /\ b \in Int /\ c \in Int /\ a <= b /\ b <= c
        <5>1. a \in Int /\ b \in Int /\ c \in Int
          <6>1. u.t \in Int /\ \A j \in 1 .. Len(history) : history[j].at \in Int
            BY LoopTyped
          <6>2. a \in Int /\ b \in Int
            BY <2>2, <6>1
          <6>3. c \in Int
            BY ONLY <6>1
          <6>4. QED  BY <6>2, <6>3
        <5>2. b <= c
          BY <1>7, <2>2
        <5>3. QED  BY <4>2, <5>1, <5>2
      <4> HIDE DEF a, b, c
      <4>4. a <= c
        BY ONLY <4>3
      <4>5. QED  BY <4>4 DEF a, c
    <3>2. QED  BY <3>1
  <2>4. QED  BY <1>5, <2>1, <2>3
<1>8. CASE u.index < Len(u.page) /\ ~(x.at <= 2 * u.t)
  <2>1. /\ k + 1 \in 1 .. Len(history) /\ k + 1 \in 0 .. Len(history) /\ k # Len(history)
        /\ k + 1 <= e /\ x = history[k + 1] /\ x.at \in Int /\ x.amount \in Int
    BY <1>2, <1>8, NextIs, LoopTyped
  <2>2. x.at <= 2 * u.t + 2
    BY <1>1, <1>2, <2>1 DEF Rewound
  <2>3. ~(u.index >= Len(u.page))
    BY <1>8, LoopTyped
  <2>4. v = [u EXCEPT
               !.balance = u.balance - x.amount,
               !.pc = IF ends /\ u.more = <<>> THEN "pay" ELSE "undo",
               !.page = IF ends /\ u.more # <<>> THEN Page(u.more) ELSE @,
               !.more = IF ends THEN NextPages(@) ELSE @,
               !.index = IF ends /\ u.more # <<>> THEN 0 ELSE @ + 1]
    BY <1>8, <2>2, <2>3 DEF UndoTransfer
  <2> HIDE DEF x
  <2>5. /\ v.balance = u.balance - x.amount /\ v.paid = u.paid /\ v.t = u.t
        /\ ends /\ u.more # <<>> => v.pc = "undo" /\ v.page = Page(u.more) /\ v.more = NextPages(u.more) /\ v.index = 0
        /\ ends /\ u.more = <<>> => v.pc = "pay" /\ v.page = u.page /\ v.more = NextPages(u.more) /\ v.index = u.index + 1
        /\ ~ends => v.pc = "undo" /\ v.page = u.page /\ v.more = u.more /\ v.index = u.index + 1
    <3> HIDE DEF ends
    <3>1. QED  BY <2>4 DEF BackfillInv, BackfillTyped
  <2>6. /\ Page(u.more) \in Seq(TransferOf) /\ NextPages(u.more) \in Seq(TransferOf)
        /\ Len(Page(u.more)) \in Nat /\ Len(NextPages(u.more)) \in Nat
        /\ Len(u.more) = Len(Page(u.more)) + Len(NextPages(u.more))
        /\ Len(Page(u.more)) = 0 => Len(u.more) = 0
        /\ \A j \in 1 .. Len(Page(u.more)) : Page(u.more)[j] = u.more[j]
        /\ \A j \in 1 .. Len(NextPages(u.more)) : NextPages(u.more)[j] = u.more[Len(Page(u.more)) + j]
    BY LoopTyped, PagesOf
  <2>7. BackfillTyped'
    <3>1. u.balance - x.amount \in Int /\ u.index + 1 \in Nat
      <4>1. u.balance \in Int /\ u.index \in Nat
        BY LoopTyped
      <4>2. QED  BY ONLY <2>1, <4>1
    <3>2. /\ v.pc \in {"undo", "pay"} /\ v.balance \in Int /\ v.index \in Nat
          /\ v.page \in Seq(TransferOf) /\ v.more \in Seq(TransferOf)
      <4> HIDE DEF ends
      <4>1. u.page \in Seq(TransferOf) /\ u.more \in Seq(TransferOf)
        BY LoopTyped
      <4>2. CASE ends /\ u.more # <<>>
        BY <2>5, <2>6, <3>1, <4>2
      <4>3. CASE ends /\ u.more = <<>>
        BY <2>5, <2>6, <3>1, <4>1, <4>3
      <4>4. CASE ~ends
        BY <2>5, <3>1, <4>1, <4>4
      <4>5. QED  BY <4>2, <4>3, <4>4
    <3>3. v = [u EXCEPT !.balance = v.balance, !.pc = v.pc, !.page = v.page, !.more = v.more,
                        !.index = v.index]
      <4> HIDE DEF ends
      <4>1. QED  BY <2>4 DEF BackfillInv, BackfillTyped
    <3>4. QED  BY <1>1, <3>2, <3>3 DEF BackfillInv, BackfillTyped
  <2>8. Counted(unwind)' /\ PaidRight(unwind)' /\ Unfetched(e)'
    <3>1. v.pc \in {"undo", "pay"}
      BY <2>5
    <3>2. QED  BY <1>1, <1>2, <1>3, <1>4, <2>5, <3>1 DEF Counted, PaidRight, Unfetched
  <2> DEFINE i == u.index
             p == Len(u.page)
             m == Len(u.more)
  <2>9. /\ i \in Nat /\ p \in Nat /\ m \in Nat /\ k \in Nat /\ e \in Nat /\ i < p
        /\ k + (p - i) + m = e
        /\ \A j \in 1 .. p - i : u.page[i + j] = history[k + j]
        /\ \A j \in 1 .. m : u.more[j] = history[k + (p - i) + j]
    <3>1. i \in Nat /\ p \in Nat /\ m \in Nat /\ i < p
      BY <1>8, LoopTyped
    <3>2. k \in Nat /\ e \in Nat
      <4>1. Len(history) \in Nat
        BY LoopTyped
      <4>2. QED  BY ONLY <4>1, k \in 0 .. Len(history), e \in 0 .. Len(history)
    <3>3. /\ k + (p - i) + m = e
          /\ \A j \in 1 .. p - i : u.page[i + j] = history[k + j]
          /\ \A j \in 1 .. m : u.more[j] = history[k + (p - i) + j]
      BY <1>2 DEF Remaining
    <3>4. QED  BY <3>1, <3>2, <3>3
  <2>10. u.more = <<>> <=> m = 0
    BY LoopTyped, EmptySeq
  <2>11. Remaining(unwind, k + 1, e)'
    <3>1. CASE ~ends
      <4>1. i + 1 < p /\ i + 1 <= p /\ i + 1 # p /\ (k + 1) + (p - (i + 1)) + m = e
        <5>1. ~(i + 1 >= p)
          BY <3>1
        <5> HIDE DEF i, p, m
        <5>2. QED  BY <2>9, <5>1
      <4>2. \A j \in 1 .. p - (i + 1) : u.page[(i + 1) + j] = history[(k + 1) + j]
        <5>1. ASSUME NEW j \in 1 .. p - (i + 1)
              PROVE  u.page[(i + 1) + j] = history[(k + 1) + j]
          <6>1. j + 1 \in 1 .. p - i /\ i + (j + 1) = (i + 1) + j /\ k + (j + 1) = (k + 1) + j
            <7> HIDE DEF i, p
            <7>1. QED  BY <2>9
          <6>2. u.page[i + (j + 1)] = history[k + (j + 1)]
            BY <2>9, <6>1
          <6>3. QED  BY <6>1, <6>2
        <5>2. QED  BY <5>1
      <4>3. \A j \in 1 .. m : u.more[j] = history[(k + 1) + (p - (i + 1)) + j]
        <5>1. (k + 1) + (p - (i + 1)) = k + (p - i)
          <6> HIDE DEF i, p, m
          <6>1. QED  BY <2>9
        <5>2. QED  BY <2>9, <5>1
      <4>4. v.page = u.page /\ v.more = u.more /\ v.index = i + 1
        BY <2>5, <3>1
      <4>5. QED  BY <1>1, <4>1, <4>2, <4>3, <4>4 DEF Remaining
    <3>2. CASE ends /\ u.more = <<>>
      <4>1. i + 1 = p /\ m = 0 /\ Len(NextPages(u.more)) = 0
        BY <2>6, <2>9, <2>10, <3>2
      <4>2. (k + 1) + (p - (i + 1)) + 0 = e /\ i + 1 <= p
        BY <2>9, <4>1
      <4>3. 1 .. p - (i + 1) = {} /\ 1 .. 0 = {}
        BY <2>9, <4>1
      <4>4. v.page = u.page /\ v.more = NextPages(u.more) /\ v.index = i + 1
        BY <2>5, <3>2
      <4>5. QED  BY <1>1, <4>1, <4>2, <4>3, <4>4 DEF Remaining
    <3>3. CASE ends /\ u.more # <<>>
      <4> DEFINE a == Len(Page(u.more))
                 b == Len(NextPages(u.more))
      <4>1. v.page = Page(u.more) /\ v.more = NextPages(u.more) /\ v.index = 0
        BY <2>5, <3>3
      <4>2. i + 1 = p /\ a \in Nat /\ b \in Nat /\ m = a + b /\ a # 0
        BY <2>6, <2>9, <2>10, <3>3
      <4>3. 0 <= a /\ (k + 1) + (a - 0) + b = e /\ (k + 1) + (a - 0) = k + (p - i) + a /\ k + (p - i) = k + 1
        <5> HIDE DEF a, b, m, p, i
        <5>1. QED  BY <2>9, <4>2
      <4>4. \A j \in 1 .. a - 0 : Page(u.more)[0 + j] = history[(k + 1) + j]
        <5> HIDE DEF a, b, m, p, i
        <5>1. \A j \in 1 .. a - 0 : j \in 1 .. a /\ j \in 1 .. m /\ 0 + j = j
          BY <4>2
        <5>2. \A j \in 1 .. a : Page(u.more)[j] = u.more[j]
          BY <2>6 DEF a
        <5>3. \A j \in 1 .. m : u.more[j] = history[(k + 1) + j]
          BY <2>9, <4>3
        <5>4. QED  BY <5>1, <5>2, <5>3
      <4>5. \A j \in 1 .. b : NextPages(u.more)[j] = history[(k + 1) + (a - 0) + j]
        <5>1. \A j \in 1 .. b : NextPages(u.more)[j] = u.more[a + j]
          BY <2>6
        <5> HIDE DEF a, b, m, p, i
        <5>2. \A j \in 1 .. b : a + j \in 1 .. m /\ (k + 1) + (a + j) = (k + 1) + (a - 0) + j
          BY <2>9, <4>2
        <5>3. \A j \in 1 .. m : u.more[j] = history[(k + 1) + j]
          BY <2>9, <4>3
        <5>4. QED  BY <5>1, <5>2, <5>3
      <4> HIDE DEF a, b
      <4>6. QED  BY <1>1, <4>1, <4>2, <4>3, <4>4, <4>5 DEF Remaining, a, b
    <3>4. QED  BY <3>1, <3>2, <3>3
  <2>12. Rewound(unwind, k + 1)'
    <3>1. ASSUME NEW j \in 1 .. Len(history), j <= k + 1
          PROVE  history[j].at > 2 * u.t
      <4>1. history[k + 1].at <= history[j].at
        <5>1. IsHistory(history)
          BY LoopTyped
        <5>2. QED  BY <2>1, <3>1, <5>1 DEF IsHistory
      <4>2. history[k + 1].at > 2 * u.t
        <5>1. ~(history[k + 1].at <= 2 * u.t)
          BY <1>8, <2>1 DEF x
        <5>2. history[k + 1].at \in Int /\ u.t \in Int
          BY <2>1, LoopTyped
        <5>3. QED  BY ONLY <5>1, <5>2
      <4> DEFINE a == history[j].at
                 b == history[k + 1].at
                 c == 2 * u.t
      <4>3. a \in Int /\ b \in Int /\ c \in Int /\ b <= a /\ b > c
        <5>1. a \in Int /\ b \in Int
          BY <2>1, LoopTyped
        <5>2. u.t \in Int
          BY LoopTyped
        <5>3. c \in Int
          BY ONLY <5>2
        <5>4. QED  BY <4>1, <4>2, <5>1, <5>3
      <4> HIDE DEF a, b, c
      <4>4. a > c
        BY ONLY <4>3
      <4>5. QED  BY <4>4 DEF a, c
    <3>2. ASSUME NEW j \in 1 .. Len(history), j > k + 1
          PROVE  history[j].at <= IF v.pc = "undo" THEN 2 * u.t + 2 ELSE 2 * u.t
      <4>1. j > k
        BY <3>2
      <4>2. CASE v.pc = "undo"
        BY <1>1, <1>2, <4>1, <4>2 DEF Rewound
      <4>3. CASE v.pc # "undo"
        <5>1. ends /\ u.more = <<>>
          <6> HIDE DEF ends
          <6>1. QED  BY <2>5, <4>3
        <5>2. i + 1 = p /\ m = 0
          BY <2>9, <2>10, <5>1
        <5>3. k + 1 = e
          <6> HIDE DEF i, p, m
          <6>1. QED  BY <2>9, <5>2
        <5>4. history[j].at < 2 * last
          BY <1>2, <3>2, <5>3 DEF Unfetched
        <5>5. last \in Int /\ u.t \in Int /\ history[j].at \in Int
          BY LoopTyped
        <5>6. last <= u.t
          BY <1>3
        <5>7. history[j].at <= 2 * u.t
          BY ONLY <5>4, <5>5, <5>6
        <5>8. QED  BY <4>3, <5>7
      <4>4. QED  BY <4>2, <4>3
    <3>3. StillIn(history) => v.balance = Opening + SumOf(history, (k + 1) + 1 .. Len(history))
      <4>1. /\ SumOf(history, k + 1 .. Len(history)) = x.amount + SumOf(history, k + 2 .. Len(history))
            /\ SumOf(history, k + 2 .. Len(history)) \in Int
        <5>1. (k + 1) + 1 = k + 2
          OBVIOUS
        <5>2. SumOf(history, (k + 1) + 1 .. Len(history)) \in Int
          BY <2>1, LoopTyped, SumFrom
        <5>3. SumOf(history, k + 1 .. Len(history)) = history[k + 1].amount + SumOf(history, k + 2 .. Len(history))
          BY <2>1, LoopTyped, SumFrom
        <5>4. QED  BY <2>1, <5>1, <5>2, <5>3
      <4>2. StillIn(history) => u.balance = Opening + SumOf(history, k + 1 .. Len(history))
        BY <1>2 DEF Rewound
      <4> DEFINE s == SumOf(history, k + 2 .. Len(history))
                 a == x.amount
      <4>3. s \in Int /\ a \in Int /\ Opening \in Int
        BY <2>1, <4>1, BackfillAssumption
      <4>4. StillIn(history) => v.balance = (Opening + (a + s)) - a
        BY <2>5, <4>1, <4>2
      <4>5. (Opening + (a + s)) - a = Opening + s /\ (k + 1) + 1 = k + 2
        <5> HIDE DEF a, s
        <5>1. QED  BY <4>3
      <4>6. QED  BY <4>4, <4>5
    <3>4. QED  BY <1>1, <2>5, <3>1, <3>2, <3>3 DEF Rewound
  <2>13. QED  BY <1>1, <2>1, <2>7, <2>8, <2>11, <2>12 DEF BackfillInv
<1>9. QED
  <2>1. u.index < Len(u.page) \/ u.index >= Len(u.page)
    BY LoopTyped
  <2>2. QED  BY <1>6, <1>7, <1>8, <2>1

LEMMA BackfillKeeps == BackfillInv /\ [BackfillNext]_backfillVars => BackfillInv'
<1> SUFFICES ASSUME BackfillInv, [BackfillNext]_backfillVars
             PROVE  BackfillInv'
  OBVIOUS
<1>1. CASE GetWalletPointsToBackfill
  BY <1>1, WalletBegins
<1>2. CASE NextHour
  BY <1>2, NextHourKeeps
<1>3. CASE UndoTransfer
  BY <1>3, UndoTransferKeeps
<1>4. CASE PayHour
  BY <1>4, PayHourKeeps
<1>5. CASE NextWallet
  BY <1>5, NextWalletKeeps
<1>6. CASE UNCHANGED backfillVars
  BY <1>6 DEF backfillVars, BackfillInv, BackfillTyped, Counted, PaidRight, InLoop, Remaining, Rewound,
              Unfetched
<1>7. QED  BY <1>1, <1>2, <1>3, <1>4, <1>5, <1>6 DEF BackfillNext

LEMMA BackfillIsPaid == BackfillInv => BackfillPaysBalances
<1> SUFFICES ASSUME BackfillInv, unwind.pc = "done", BalanceAt(2 * Now) = BalanceAt(2 * (Now - 1))
             PROVE  /\ Len(unwind.paid) = IF Now - 1 > last THEN Now - 1 - last ELSE 0
                    /\ \A i \in 1 .. Len(unwind.paid) :
                         unwind.paid[i] = [hour |-> Now - 1 - i,
                           points |-> BalanceAt(2 * (Now - 1 - i)) * Multiplier(Now - 1 - i)]
  BY DEF BackfillPaysBalances
<1>1. \A half : BalanceAt(half) = BalanceIn(history, half)
  BY DEF BalanceAt, BalanceIn
<1>2. StillIn(history)
  BY <1>1 DEF StillIn
<1>3. \A i \in 1 .. Len(unwind.paid) : unwind.paid[i] = PaidAt(history, Now - 1 - i)
  BY <1>2 DEF BackfillInv, PaidRight
<1>4. QED  BY <1>1, <1>3 DEF BackfillInv, Counted, PaidAt

LEMMA AlwaysBackfillInv == BackfillSpec => []BackfillInv
BY BackfillStarts, BackfillKeeps, PTL DEF BackfillSpec

\* getWalletPointsToBackfill pays each hour from the last run until two hours ago
\* once, newest first, by the balance at that hour, for every history of
\* transfers and every size of page, if nothing has moved in the last hour.
THEOREM HoursPaidRight == BackfillSpec => []BackfillPaysBalances
BY AlwaysBackfillInv, BackfillIsPaid, PTL

----------------------------------------------------------------------------
(* The composition.                                                        *)

\* While one part moves the others rest: a behaviour of the whole is one of
\* each of the parts.
THEOREM PointsCompose ==
  Spec => AccountsSpec /\ PointsSpec /\ BackfillSpec
<1>1. Init => AccountsInit /\ PointsInit /\ BackfillInit
  BY DEF Init
<1>2. [Next]_all =>
        [AccountsNext]_accountsVars /\ [PointsNext]_pointsVars /\ [BackfillNext]_backfillVars
  BY DEF Next, all, AccountsMove, PointsMove, BackfillMoves
<1>3. Spec => Init /\ [][Next]_all
  BY DEF Spec
<1>4. QED  BY <1>1, <1>2, <1>3, PTL DEF AccountsSpec, PointsSpec, BackfillSpec

\* The types of the points and the accounts, in the whole.
THEOREM PointsTyped == Spec => []TypeOK
<1>1. AccountsTypeOK /\ PointsTypeOK => TypeOK
  BY DEF TypeOK
<1>2. QED  BY <1>1, PointsCompose, AccountsTypeCorrect, PointsTypeCorrect, PTL
=============================================================================
