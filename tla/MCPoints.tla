------------------------------ MODULE MCPoints ------------------------------
(***************************************************************************)
(* Accounts, the jobs that pay points, and the backfill of one token.  In  *)
(* a behaviour one of the three moves, the others rest: accounts share no  *)
(* table with the points as they are modelled, and the last looks into one *)
(* call of the second.                                                     *)
(***************************************************************************)
EXTENDS Accounts, PointsAccrual, Backfill, TLC

CONSTANTS alice, bob, carol, arbitrum, mantle

VARIABLE part

all == <<part, accountsVars, pointsVars, backfillVars>>

\* The job of one chain pays both of the addresses, the other one of them.
PayeesOfChains == arbitrum :> {alice, bob} @@ mantle :> {bob}

\* alice owns the wallets of the indices 0 and 1.
OwnersOfWallets == 0 :> alice @@ 1 :> alice @@ 2 :> bob

\* A full batch, two batches, and a gap.
WalletTables == {{0, 1}, {0, 1, 2}, {0, 2}}

InAndOut == {1, -1}

TwoCutoffs == <<[endDate |-> 1, multiplier |-> 3], [endDate |-> 2, multiplier |-> 2]>>

\* A part at rest is in one initial state, the same in all behaviours.
Init ==
  /\ part \in {"accounts", "points", "backfill"}
  /\ part = "points" \/ michiWallets = {0, 1}
  /\ AccountsInit /\ PointsInit /\ BackfillInit

AccountsMove == part = "accounts" /\ UNCHANGED <<part, pointsVars, backfillVars>>

PointsMove == part = "points" /\ UNCHANGED <<part, accountsVars, backfillVars>>

BackfillMoves == part = "backfill" /\ UNCHANGED <<part, accountsVars, pointsVars>>

Next ==
  \/ AccountsMove /\ AccountsNext
  \/ PointsMove /\ PointsNext
  \/ BackfillMoves /\ BackfillNext

\* The job of a chain goes on, and cron starts it again.
Fairness == \A c \in PaidChains : WF_all(AccountsMove /\ Pay(c))

Spec == Init /\ [][Next]_all /\ Fairness

TypeOK == AccountsTypeOK /\ PointsTypeOK
=============================================================================
