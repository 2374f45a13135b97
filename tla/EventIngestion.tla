--------------------------- MODULE EventIngestion ---------------------------
(***************************************************************************)
(* How the API service takes in the events of the chain.  Moralis posts    *)
(* every matching log to the webhook of its stream, first unconfirmed and  *)
(* then confirmed, and posts it again until it is answered with 200.  A    *)
(* handler looks the transaction up in processed_moralis_events, enters it *)
(* there, and only then does its writes.                                   *)
(*                                                                         *)
(* What the writes do is in the modules of their tables; here each one is  *)
(* only counted.                                                           *)
(***************************************************************************)
EXTENDS Naturals, FiniteSets

CONSTANTS
  Transactions,  \* transaction hashes
  Bodies,        \* the webhook bodies that the streams produce
  Procs,         \* webhook calls that may be served at the same time
  MaxFaults,     \* bound: handler errors and restarts of the server
  None

MichiEvent ==
  {"WALLET_CREATED", "DEPOSIT", "WALLET_PURCHASED", "ORDERS_CANCELLED",
   "ALL_ORDERS_CANCELLED"}

\* tx is logs[0].transactionHash, None when there are no logs.
Body == [tx: Transactions \cup {None}, type: MichiEvent, confirmed: BOOLEAN]

ASSUME IngestionAssumption ==
  /\ Bodies \subseteq Body
  /\ None \notin Transactions
  /\ None \notin Bodies
  /\ MaxFaults \in Nat

\* The writes a handler makes, each named for what it changes.
Writes == {"backfill", "wallet", "balance", "sale", "deleteOrder", "cancelOrders", "unstale"}

VARIABLES
  answered,   \* bodies answered with 200, which are not posted again
  processed,  \* processed_moralis_events
  applied,    \* how often each write of each transaction has been done
  proc,       \* the webhook calls being served
  faults      \* errors and restarts so far

vars == <<answered, processed, applied, proc, faults>>

Idle == [pc |-> "idle", body |-> None]

TypeOK ==
  /\ answered \subseteq Bodies
  /\ processed \subseteq Transactions
  /\ applied \in [Transactions \X Writes -> Nat]
  /\ proc \in [Procs -> [pc: Writes \cup {"idle", "getProcessed", "setProcessed"},
                         body: Bodies \cup {None}]]
  /\ \A p \in Procs : (proc[p].pc = "idle") <=> (proc[p].body = None)
  /\ faults \in 0 .. MaxFaults

Init ==
  /\ answered = {}
  /\ processed = {}
  /\ applied = [tw \in Transactions \X Writes |-> 0]
  /\ proc = [p \in Procs |-> Idle]
  /\ faults = 0

----------------------------------------------------------------------------

Go(p, step) == proc' = [proc EXCEPT ![p].pc = step]

Return(p) == proc' = [proc EXCEPT ![p] = Idle]

\* The response is { status: 'ok' }.
Answer(p) == Return(p) /\ answered' = answered \cup {proc[p].body}

\* The handler throws: Moralis gets a 500.
Throw(p) == Return(p) /\ UNCHANGED answered

(***************************************************************************)
(* A post by Moralis, the controller's test of body.confirmed and the test *)
(* of the hash.  A body may be posted again while an earlier post of it is *)
(* still being served.                                                     *)
(***************************************************************************)
Receive(p, body) ==
  /\ proc[p].pc = "idle"
  /\ body \notin answered
  /\ IF body.confirmed /\ body.tx # None
       THEN /\ proc' = [proc EXCEPT ![p] = [pc |-> "getProcessed", body |-> body]]
            /\ UNCHANGED answered
       ELSE answered' = answered \cup {body} /\ UNCHANGED proc
  /\ UNCHANGED <<processed, applied, faults>>

MutGetProcessedMoralisEvent(p) ==  \* what is found is not looked at
  /\ proc[p].pc = "getProcessed"
  /\ Go(p, "setProcessed")
  /\ UNCHANGED <<answered, processed, applied, faults>>

GetProcessedMoralisEvent(p) ==
  /\ proc[p].pc = "getProcessed"
  /\ IF proc[p].body.tx \in processed
       THEN Answer(p)
       ELSE Go(p, "setProcessed") /\ UNCHANGED answered
  /\ UNCHANGED <<processed, applied, faults>>

\* The write a handler of this type starts with.  That of a created wallet
\* first fills the gap to the greatest index known, if there is one.
MutFirstWrites(type) ==  \* an event type without a case in the switch
  CASE type = "WALLET_CREATED" -> {"backfill", "wallet"}
    [] type = "WALLET_PURCHASED" -> {"sale"}
    [] type \in {"ORDERS_CANCELLED", "ALL_ORDERS_CANCELLED"} -> {"cancelOrders"}
    [] OTHER -> {"idle"}

FirstWrites(type) ==
  CASE type = "WALLET_CREATED" -> {"backfill", "wallet"}
    [] type = "DEPOSIT" -> {"balance"}
    [] type = "WALLET_PURCHASED" -> {"sale"}
    [] type \in {"ORDERS_CANCELLED", "ALL_ORDERS_CANCELLED"} -> {"cancelOrders"}

\* The write that follows one, none after the last.
MutNextWrites(w) ==  \* the sold order is left in the table
  CASE w = "backfill" -> {"wallet"}
    [] w = "cancelOrders" -> {"unstale"}
    [] OTHER -> {}

NextWrites(w) ==
  CASE w = "backfill" -> {"wallet"}
    [] w = "sale" -> {"deleteOrder"}
    [] w = "cancelOrders" -> {"unstale"}
    [] OTHER -> {}

MutSetProcessedMoralisEvent(p) ==  \* an upsert in place of the create
  /\ proc[p].pc = "setProcessed"
  /\ processed' = processed \cup {proc[p].body.tx}
  /\ \E w \in FirstWrites(proc[p].body.type) : Go(p, w)
  /\ UNCHANGED <<answered, applied, faults>>

\* The id is unique: the create of a second row throws.
SetProcessedMoralisEvent(p) ==
  /\ proc[p].pc = "setProcessed"
  /\ LET tx == proc[p].body.tx IN
     IF tx \in processed
       THEN Throw(p) /\ UNCHANGED processed
       ELSE /\ processed' = processed \cup {tx}
            /\ \E w \in FirstWrites(proc[p].body.type) : Go(p, w)
            /\ UNCHANGED answered
  /\ UNCHANGED <<applied, faults>>

Write(p) ==
  /\ proc[p].pc \in Writes
  /\ LET w == proc[p].pc IN
     /\ applied' = [applied EXCEPT ![<<proc[p].body.tx, w>>] = @ + 1]
     /\ IF NextWrites(w) = {}
          THEN Answer(p)
          ELSE (\E next \in NextWrites(w) : Go(p, next)) /\ UNCHANGED answered
  /\ UNCHANGED <<processed, faults>>

----------------------------------------------------------------------------

\* A call to the database, to Moralis or to a node fails.  cancelOrders
\* catches and logs what happens while it unstales orders.
Fail(p) ==
  /\ proc[p].pc # "idle"
  /\ faults < MaxFaults
  /\ faults' = faults + 1
  /\ IF proc[p].pc = "unstale" THEN Answer(p) ELSE Throw(p)
  /\ UNCHANGED <<processed, applied>>

\* The server restarts: no call that is being served gets an answer.
Restart ==
  /\ \E p \in Procs : proc[p].pc # "idle"
  /\ faults < MaxFaults
  /\ faults' = faults + 1
  /\ proc' = [p \in Procs |-> Idle]
  /\ UNCHANGED <<answered, processed, applied>>

HandleEvent(p) ==
  GetProcessedMoralisEvent(p) \/ SetProcessedMoralisEvent(p) \/ Write(p)

Next ==
  \/ \E p \in Procs : HandleEvent(p) \/ Fail(p) \/ \E body \in Bodies : Receive(p, body)
  \/ Restart

Spec == Init /\ [][Next]_vars

(***************************************************************************)
(* The server answers every call it is serving, and Moralis goes on        *)
(* posting a body until it is answered.                                    *)
(***************************************************************************)
FairSpec ==
  /\ Spec
  /\ \A p \in Procs : WF_vars(HandleEvent(p))
  /\ \A body \in Bodies : WF_vars(\E p \in Procs : Receive(p, body))

----------------------------------------------------------------------------
(* Properties.                                                             *)

\* Posted twice, served twice at the same time, or again after a restart: a
\* transaction is accepted once and each write for it is done at most once.
Promise == INSTANCE AtMostOnce WITH accepted <- processed

ImplementsAtMostOnce == Promise!Spec

\* The last write of a handler of this type.
LastWrite(type) ==
  CASE type = "WALLET_CREATED" -> "wallet"
    [] type = "DEPOSIT" -> "balance"
    [] type = "WALLET_PURCHASED" -> "deleteOrder"
    [] type \in {"ORDERS_CANCELLED", "ALL_ORDERS_CANCELLED"} -> "unstale"

\* Some body of the transaction has been handled to the end.
Handled(tx) ==
  \E body \in Bodies : body.tx = tx /\ applied[<<tx, LastWrite(body.type)>>] > 0

\* A body that Moralis will not post again has been handled, or another one
\* of its transaction has, or it is being handled, unless something failed.
AnsweredIsAccountedFor ==
  faults = 0 =>
    \A body \in answered : body.confirmed /\ body.tx # None =>
      \/ Handled(body.tx)
      \/ \E p \in Procs : proc[p].pc \in Writes /\ proc[p].body.tx = body.tx

\* Every body is answered in the end, however many of its handlers failed:
\* Moralis does not go on posting for ever.
EventuallyAnswered == \A body \in Bodies : <>(body \in answered)

\* Unless something fails, every confirmed transaction is handled in the end.
EventuallyHandled ==
  \A body \in Bodies :
    body.confirmed /\ body.tx # None => <>(faults > 0 \/ Handled(body.tx))
=============================================================================
