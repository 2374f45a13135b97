-------------------------- MODULE MCEventIngestion --------------------------
(***************************************************************************)
(* An instance of EventIngestion for TLC: the bodies the streams produce   *)
(* for three transactions.                                                 *)
(***************************************************************************)
EXTENDS EventIngestion

CONSTANTS t1, t2, t3, p1, p2

Confirmed(tx, type) == [tx |-> tx, type |-> type, confirmed |-> TRUE]

\* A purchase, with its unconfirmed body; a transaction that both creates a
\* wallet and deposits to it; a cancellation; and a body without logs.
SomeBodies ==
  {Confirmed(t1, "WALLET_PURCHASED"),
   [tx |-> t1, type |-> "WALLET_PURCHASED", confirmed |-> FALSE],
   Confirmed(t2, "WALLET_CREATED"), Confirmed(t2, "DEPOSIT"),
   Confirmed(t3, "ORDERS_CANCELLED"),
   Confirmed(None, "DEPOSIT")}
============================================================================
