--------------------------- MODULE PointsAccrual ----------------------------
(***************************************************************************)
(* The michi points of one chain: the hourly job, which pays the wallets   *)
(* batch by batch and makes up for hours it has missed, and the job that   *)
(* pays for stakes, which reads a user's points and writes the sum.  Both  *)
(* are started by cron at the full hour.  Each action is one call to the   *)
(* database with what is computed around it.  Owners and balances, which   *)
(* the hourly job also syncs, are in WalletRegistry and TokenBalances: a   *)
(* wallet here keeps its owner and earns one point an hour.                *)
(***************************************************************************)
EXTENDS Integers, FiniteSets, FiniteSetsExt

CONSTANTS
  Owners,               \* users who own wallets
  Stakers,              \* users who may stake
  OwnedBy,              \* OwnedBy[w]: the owner of the wallet of index w
  Tables,               \* the sets of indices that michi_wallets may hold
  WalletsPerBatch,      \* DEFAULT_BATCH_SIZE
  InitialWalletPoints,  \* INITIAL_WALLET_POINTS
  StakeRate,            \* points per staked token and hour
  StakeAmounts,         \* what a Stake or an Unstake adds
  Horizon,              \* bound: half hours since the launch
  MaxSlow,              \* bound: half hours that pass while a job is running
  MaxStakeEvents,       \* bound: Stake and Unstake events
  MaxJobFaults,         \* bound: failed runs
  NoRow                 \* no row

Indices == DOMAIN OwnedBy

Users == Owners \cup Stakers

ASSUME PointsAssumption ==
  /\ Indices \subseteq Nat /\ IsFiniteSet(Indices)
  /\ OwnedBy \in [Indices -> Owners]
  /\ Tables \subseteq SUBSET Indices
  /\ WalletsPerBatch \in Nat \ {0}
  /\ InitialWalletPoints \in Nat /\ StakeRate \in Nat /\ StakeAmounts \subseteq {1, -1}
  /\ Horizon \in Nat /\ MaxSlow \in Nat /\ MaxStakeEvents \in Nat /\ MaxJobFaults \in Nat
  /\ NoRow \notin Int /\ NoRow \notin [amount: Int, updatedAt: Nat]

VARIABLES
  clock,          \* half hours since MICHI_LAUNCH_DATES of the chain
  michiWallets,   \* the indices of the rows of michi_wallets
  lastProcessed,  \* last_points_processing_time
  points,         \* michi_points of the row of each user
  stakingInfo,    \* staking_info
  pointsJob,      \* the hourly job
  stakingJob,     \* the job for stakes
  credited,       \* history: the hours each wallet was paid for
  staked,         \* history: the points each user was paid for stakes
  raced,          \* history: users paid while the other job was adding to their points
  torn,           \* history: hours may have been paid twice, see FailPointsJob
  stakeTorn,      \* history: likewise for stakes
  slow, stakeEvents, jobFaults   \* for the bounds

tablesOfPoints == <<michiWallets, lastProcessed, points, stakingInfo>>

histories == <<credited, staked, raced, torn, stakeTorn>>

bounded == <<slow, stakeEvents, jobFaults>>

pointsVars == <<clock, tablesOfPoints, pointsJob, stakingJob, histories, bounded>>

StakingInfo == [amount: Int, updatedAt: Nat]

PointsJob ==
  [pc: {"idle", "getBatch", "getBalances", "setBackfill", "setPoints", "setTime"},
   started: Nat,
   from: Nat,                \* the index the next batch starts at
   batch: SUBSET Indices,
   hours: Nat,               \* to backfill
   filled: BOOLEAN,          \* this run has backfilled before
   paid: BOOLEAN]            \* this run has paid somebody

IdlePointsJob ==
  [pc |-> "idle", started |-> 0, from |-> 0, batch |-> {}, hours |-> 0,
   filled |-> FALSE, paid |-> FALSE]

StakingJob ==
  [pc: {"idle", "findMany", "findUser", "setUser", "setUpdatedAt"},
   infos: [Stakers -> StakingInfo \cup {NoRow}],   \* the rows left to do
   user: Stakers \cup {NoRow},
   now: Nat,                 \* currentTimestamp
   earned: Int,
   read: Int]                \* the points the user had

NoInfos == [u \in Stakers |-> NoRow]

IdleStakingJob ==
  [pc |-> "idle", infos |-> NoInfos, user |-> NoRow, now |-> 0, earned |-> 0, read |-> 0]

PointsTypeOK ==
  /\ clock \in Nat
  /\ michiWallets \in Tables
  /\ lastProcessed \in Nat \cup {NoRow}
  /\ points \in [Users -> Int \cup {NoRow}]
  /\ stakingInfo \in [Stakers -> StakingInfo \cup {NoRow}]
  /\ pointsJob \in PointsJob
  /\ stakingJob \in StakingJob
  /\ credited \in [Indices -> Nat]
  /\ staked \in [Stakers -> Int]
  /\ raced \subseteq Stakers
  /\ torn \in BOOLEAN /\ stakeTorn \in BOOLEAN
  /\ slow \in Nat /\ stakeEvents \in Nat /\ jobFaults \in Nat

\* setMichiWallets has entered the owner of every wallet as a user, with 0
\* points.
PointsInit ==
  /\ clock = 0
  /\ michiWallets \in Tables
  /\ lastProcessed = NoRow
  /\ points = [u \in Users |-> IF u \in Owners THEN 0 ELSE NoRow]
  /\ stakingInfo = NoInfos
  /\ pointsJob = IdlePointsJob /\ stakingJob = IdleStakingJob
  /\ credited = [w \in Indices |-> 0] /\ staked = [u \in Stakers |-> 0]
  /\ raced = {} /\ torn = FALSE /\ stakeTorn = FALSE
  /\ slow = 0 /\ stakeEvents = 0 /\ jobFaults = 0

----------------------------------------------------------------------------
(* Time.                                                                   *)

\* roundToNearestHour, and Math.round of hours: half past counts as a whole.
RoundToNearestHour(halves) == (halves + 1) \div 2

Running == pointsJob.pc # "idle" \/ stakingJob.pc # "idle"

\* Half an hour passes; at the full hour cron starts the jobs, unless they
\* are still running.
Tick ==
  /\ clock < Horizon
  /\ clock' = clock + 1
  /\ IF Running THEN slow < MaxSlow /\ slow' = slow + 1 ELSE slow' = slow
  /\ pointsJob' = IF clock' % 2 = 0 /\ pointsJob.pc = "idle"
                  THEN [IdlePointsJob EXCEPT !.pc = "getBatch", !.started = clock']
                  ELSE pointsJob
  /\ stakingJob' = IF clock' % 2 = 0 /\ stakingJob.pc = "idle"
                   THEN [IdleStakingJob EXCEPT !.pc = "findMany"]
                   ELSE stakingJob
  /\ UNCHANGED <<tablesOfPoints, histories, stakeEvents, jobFaults>>

----------------------------------------------------------------------------
(* The hourly job.                                                         *)

\* getWalletsByIndex: the first rows at or above an index.
WalletsFrom(i) ==
  {w \in michiWallets : /\ w >= i
                        /\ Cardinality({k \in michiWallets : i <= k /\ k < w}) < WalletsPerBatch}

GetBatch ==
  /\ pointsJob.pc = "getBatch"
  /\ LET batch == WalletsFrom(pointsJob.from) IN
     pointsJob' = [pointsJob EXCEPT !.pc = IF batch = {} THEN "setTime" ELSE "getBalances",
                                    !.batch = batch]
  /\ UNCHANGED <<clock, tablesOfPoints, stakingJob, histories, bounded>>

\* isBackfillNeeded
MutBackfillNeeded ==  \* no backfill before the first run is complete
  lastProcessed # NoRow /\ RoundToNearestHour(clock - lastProcessed) > 1

BackfillNeeded == lastProcessed = NoRow \/ RoundToNearestHour(clock - lastProcessed) > 1

\* How often the loop of doBackfill runs: t starts an hour ago and is
\* decremented at the start of each pass.
MutHoursToBackfill ==  \* from now, not from an hour ago
  LET now == RoundToNearestHour(clock)
      last == IF lastProcessed = NoRow THEN 0 ELSE RoundToNearestHour(lastProcessed)
  IN IF now > last THEN now - last ELSE 0

HoursToBackfill ==
  LET t == RoundToNearestHour(clock) - 1
      last == IF lastProcessed = NoRow THEN 0 ELSE RoundToNearestHour(lastProcessed)
  IN IF t > last THEN t - last ELSE 0

GetBalances ==
  /\ pointsJob.pc = "getBalances"
  /\ pointsJob' = IF BackfillNeeded
                  THEN [pointsJob EXCEPT !.pc = "setBackfill", !.hours = HoursToBackfill]
                  ELSE [pointsJob EXCEPT !.pc = "setPoints"]
  /\ UNCHANGED <<clock, tablesOfPoints, stakingJob, histories, bounded>>

\* The batches of the backfill that hold a wallet: over a gap they overlap.
BatchesWith(w) ==
  {k \in 0 .. w : w \in WalletsFrom(k * WalletsPerBatch)}

\* The hours of a user's wallets, as the jobs add them up by owner.
HoursOf(hours, u) == MapThenSumSet(LAMBDA w : hours[w], {w \in DOMAIN hours : OwnedBy[w] = u})

\* setUserPoints, given the hours each wallet is paid: one upsert of the
\* owners' sums, each of which starts from the initial points once.
MutPayHours(hours) ==  \* every wallet brings initial points, the conflict takes off one
  LET Sum(u) == MapThenSumSet(LAMBDA w : hours[w] + InitialWalletPoints,
                              {w \in DOMAIN hours : OwnedBy[w] = u})
      paid == {OwnedBy[w] : w \in DOMAIN hours}
  IN /\ points' = [u \in Users |->
          IF u \notin paid THEN points[u]
          ELSE IF points[u] = NoRow THEN Sum(u)
          ELSE points[u] + Sum(u) - InitialWalletPoints]
     /\ credited' = [w \in Indices |-> credited[w] + IF w \in DOMAIN hours THEN hours[w] ELSE 0]
     /\ raced' = raced \cup {u \in paid : /\ stakingJob.pc = "setUser" /\ stakingJob.user = u
                                          /\ Sum(u) # InitialWalletPoints}

PayHours(hours) ==
  LET Sum(u) == InitialWalletPoints + HoursOf(hours, u)
      paid == {OwnedBy[w] : w \in DOMAIN hours}
  IN /\ points' = [u \in Users |->
          IF u \notin paid THEN points[u]
          ELSE IF points[u] = NoRow THEN Sum(u)
          ELSE points[u] + Sum(u) - InitialWalletPoints]
     /\ credited' = [w \in Indices |-> credited[w] + IF w \in DOMAIN hours THEN hours[w] ELSE 0]
     /\ raced' = raced \cup {u \in paid : /\ stakingJob.pc = "setUser" /\ stakingJob.user = u
                                          /\ Sum(u) # InitialWalletPoints}

\* All wallets, whatever the batch.
SetBackfill ==
  /\ pointsJob.pc = "setBackfill"
  /\ PayHours([w \in michiWallets |-> pointsJob.hours * Cardinality(BatchesWith(w))])
  /\ torn' = (torn \/ (pointsJob.filled /\ pointsJob.hours > 0))
  /\ pointsJob' = [pointsJob EXCEPT !.pc = "setPoints", !.filled = TRUE,
                                    !.paid = @ \/ pointsJob.hours > 0]
  /\ UNCHANGED <<clock, michiWallets, lastProcessed, stakingInfo, stakingJob, staked,
                 stakeTorn, bounded>>

SetPoints ==
  /\ pointsJob.pc = "setPoints"
  /\ PayHours([w \in pointsJob.batch |-> 1])
  /\ pointsJob' = [pointsJob EXCEPT !.pc = "getBatch", !.paid = TRUE, !.batch = {}, !.hours = 0,
                                    !.from = @ + WalletsPerBatch]
  /\ UNCHANGED <<clock, michiWallets, lastProcessed, stakingInfo, stakingJob, staked,
                 torn, stakeTorn, bounded>>

SetLastPointsProcessingTime ==
  /\ pointsJob.pc = "setTime"
  /\ lastProcessed' = clock
  /\ pointsJob' = IdlePointsJob
  /\ UNCHANGED <<clock, michiWallets, points, stakingInfo, stakingJob, histories, bounded>>

\* A failed call ends the run, whose time is not saved: what it has paid will
\* be paid again.
FailPointsJob ==
  /\ pointsJob.pc # "idle"
  /\ jobFaults < MaxJobFaults
  /\ jobFaults' = jobFaults + 1
  /\ torn' = (torn \/ pointsJob.paid)
  /\ pointsJob' = IdlePointsJob
  /\ UNCHANGED <<clock, tablesOfPoints, stakingJob, credited, staked, raced, stakeTorn,
                 slow, stakeEvents>>

----------------------------------------------------------------------------
(* Stakes.                                                                 *)

\* updateStakingInfo, for Stake and Unstake: an Unstake may come without its
\* Stake, if the listener was down.
UpdateStakingInfo ==
  /\ stakeEvents < MaxStakeEvents
  /\ stakeEvents' = stakeEvents + 1
  /\ \E u \in Stakers, amount \in StakeAmounts :
       stakingInfo' = [stakingInfo EXCEPT ![u] =
         IF stakingInfo[u] = NoRow THEN [amount |-> amount, updatedAt |-> clock]
         ELSE [amount |-> stakingInfo[u].amount + amount, updatedAt |-> stakingInfo[u].updatedAt]]
  /\ UNCHANGED <<clock, michiWallets, lastProcessed, points, pointsJob, stakingJob,
                 histories, slow, jobFaults>>

\* ensureUsersExist, for an order or a wallet of the user.
EnsureUserExists ==
  /\ \E u \in Users : /\ points[u] = NoRow
                      /\ points' = [points EXCEPT ![u] = 0]
  /\ UNCHANGED <<clock, michiWallets, lastProcessed, stakingInfo, pointsJob, stakingJob,
                 histories, bounded>>

FindStakingInfos ==
  /\ stakingJob.pc = "findMany"
  /\ stakingJob' = IF stakingInfo = NoInfos THEN IdleStakingJob
                   ELSE [stakingJob EXCEPT !.pc = "findUser", !.infos = stakingInfo]
  /\ UNCHANGED <<clock, tablesOfPoints, pointsJob, histories, bounded>>

MutFindUser ==  \* a user that is not there is not noticed
  /\ stakingJob.pc = "findUser"
  /\ \E u \in {s \in Stakers : stakingJob.infos[s] # NoRow} :
       LET info == stakingJob.infos[u] IN
       stakingJob' =
         [pc |-> "setUser", infos |-> [stakingJob.infos EXCEPT ![u] = NoRow], user |-> u,
          now |-> clock,
          earned |-> info.amount * StakeRate * RoundToNearestHour(clock - info.updatedAt),
          read |-> points[u]]
  /\ UNCHANGED <<clock, tablesOfPoints, pointsJob, histories, bounded>>

\* One of the rows found; without a user its hours are passed over.
FindUser ==
  /\ stakingJob.pc = "findUser"
  /\ \E u \in {s \in Stakers : stakingJob.infos[s] # NoRow} :
       LET info == stakingJob.infos[u] IN
       stakingJob' =
         [pc |-> IF points[u] = NoRow THEN "setUpdatedAt" ELSE "setUser",
          infos |-> [stakingJob.infos EXCEPT ![u] = NoRow],
          user |-> u,
          now |-> clock,
          earned |-> info.amount * StakeRate * RoundToNearestHour(clock - info.updatedAt),
          read |-> IF points[u] = NoRow THEN 0 ELSE points[u]]
  /\ UNCHANGED <<clock, tablesOfPoints, pointsJob, histories, bounded>>

SetUser ==
  /\ stakingJob.pc = "setUser"
  /\ points' = [points EXCEPT ![stakingJob.user] = stakingJob.read + stakingJob.earned]
  /\ staked' = [staked EXCEPT ![stakingJob.user] = @ + stakingJob.earned]
  /\ stakingJob' = [stakingJob EXCEPT !.pc = "setUpdatedAt"]
  /\ UNCHANGED <<clock, michiWallets, lastProcessed, stakingInfo, pointsJob, credited, raced,
                 torn, stakeTorn, bounded>>

SetUpdatedAt ==
  /\ stakingJob.pc = "setUpdatedAt"
  /\ LET u == stakingJob.user IN
     stakingInfo' = [stakingInfo EXCEPT ![u] =
                       [amount |-> stakingInfo[u].amount, updatedAt |-> stakingJob.now]]
  /\ stakingJob' = IF stakingJob.infos = NoInfos THEN IdleStakingJob
                   ELSE [IdleStakingJob EXCEPT !.pc = "findUser", !.infos = stakingJob.infos]
  /\ UNCHANGED <<clock, michiWallets, lastProcessed, points, pointsJob, histories, bounded>>

\* Between the two updates of a row a failure has its hours paid again.
FailStakingJob ==
  /\ stakingJob.pc # "idle"
  /\ jobFaults < MaxJobFaults
  /\ jobFaults' = jobFaults + 1
  /\ stakeTorn' = (stakeTorn \/ stakingJob.pc = "setUpdatedAt")
  /\ stakingJob' = IdleStakingJob
  /\ UNCHANGED <<clock, tablesOfPoints, pointsJob, credited, staked, raced, torn,
                 slow, stakeEvents>>

----------------------------------------------------------------------------
RunPointsJob ==
  \/ GetBatch \/ GetBalances \/ SetBackfill \/ SetPoints \/ SetLastPointsProcessingTime
  \/ FailPointsJob

RunStakingJob ==
  \/ FindStakingInfos \/ FindUser \/ SetUser \/ SetUpdatedAt \/ FailStakingJob

\* Where the bound of the clock ends the behaviours.
AtHorizon == clock = Horizon /\ ~Running /\ UNCHANGED pointsVars

PointsNext ==
  \/ Tick \/ RunPointsJob \/ RunStakingJob \/ UpdateStakingInfo \/ EnsureUserExists
  \/ AtHorizon

PointsSpec == PointsInit /\ [][PointsNext]_pointsVars

----------------------------------------------------------------------------
(* Properties.                                                             *)

\* The points of a user are what the hours of his wallets and his stakes have
\* brought: nothing is counted twice, neither batch nor backfill leaves
\* initial points behind, and nothing is missing unless the hourly job has paid
\* him while the other was adding a stake to the points it had read.
Earned(u) == HoursOf(credited, u) + IF u \in Stakers THEN staked[u] ELSE 0

TotalsAddUp == \A u \in Users :
  points[u] # NoRow => /\ points[u] <= Earned(u)
                       /\ u \notin raced => points[u] = Earned(u)

Gapless == \A w \in michiWallets : 0 .. w \subseteq michiWallets

WalletsNotOverpaid ==
  Gapless /\ ~torn =>
    \A w \in michiWallets : credited[w] <= RoundToNearestHour(clock) + slow

StakesNotOverpaid ==
  ~stakeTorn =>
    \A u \in Stakers :
      staked[u] <= StakeRate * stakeEvents * (RoundToNearestHour(clock) + slow)

\* No wallet and no staked token is paid for more hours than there were, but
\* for one hour for each half hour that runs have overrun.  This takes a table
\* without a gap, which makes batches overlap, and that no run has failed
\* after paying and none has backfilled in two batches, all of which pay hours
\* twice.
NotOverpaid == WalletsNotOverpaid /\ StakesNotOverpaid

\* A run that completes leaves no wallet behind, whatever runs have failed
\* before: every hour until its start is paid, but for one for each half hour
\* that runs have overrun.
MissedHoursAreMadeUp ==
  [][lastProcessed' # lastProcessed =>
       \A w \in michiWallets : credited[w] + slow >= pointsJob.started \div 2]_pointsVars
============================================================================
