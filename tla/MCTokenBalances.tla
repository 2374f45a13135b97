-------------------------- MODULE MCTokenBalances --------------------------
(* Instances of TokenBalances for TLC.                                     *)
EXTENDS TokenBalances

CONSTANTS weeth, ezeth, p1, p2

\* One deposit of a token the job syncs, whose event the webhook and the
\* listener both handle.
OneDeposit == {[id |-> 1, token |-> weeth, amount |-> 2]}

============================================================================
