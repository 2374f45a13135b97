------------------------ MODULE EventIngestionProofs ------------------------
(***************************************************************************)
(* EventIngestion implements AtMostOnce, for any transactions, bodies,     *)
(* number of concurrent calls and number of failures.                      *)
(***************************************************************************)
EXTENDS EventIngestion, TLAPS

\* The writes a handler that is at w may still do.
Pending(w) == {w} \cup NextWrites(w)

\* A call that is writing has claimed its transaction, alone, and nothing it
\* may still write has been written; nothing is written for a transaction
\* nobody has claimed.
ClaimInv ==
  /\ \A p \in Procs : proc[p].pc # "idle" =>
       proc[p].body \in Bodies /\ proc[p].body.tx \in Transactions
  /\ \A p \in Procs : proc[p].pc \in Writes =>
       /\ proc[p].body.tx \in processed
       /\ \A w \in Pending(proc[p].pc) : applied[<<proc[p].body.tx, w>>] = 0
  /\ \A p, q \in Procs :
       proc[p].pc \in Writes /\ proc[q].pc \in Writes
         /\ proc[p].body.tx = proc[q].body.tx => p = q
  /\ \A t \in Transactions \ processed, w \in Writes : applied[<<t, w>>] = 0

Inv == TypeOK /\ ClaimInv

\* The writes follow one another without a cycle.
LEMMA WritesFollow ==
  /\ \A type \in MichiEvent : FirstWrites(type) \subseteq Writes
  /\ \A w \in Writes : NextWrites(w) \subseteq Writes \ {w}
  /\ \A w \in Writes : \A v \in NextWrites(w) : NextWrites(v) = {}
<1>1. \A type \in MichiEvent : FirstWrites(type) \subseteq Writes
  BY DEF MichiEvent, FirstWrites, Writes
<1>2. \A w \in Writes : NextWrites(w) \subseteq Writes \ {w}
  BY DEF NextWrites, Writes
<1>3. \A w \in Writes : \A v \in NextWrites(w) : NextWrites(v) = {}
  BY DEF NextWrites, Writes
<1>4. QED  BY <1>1, <1>2, <1>3

LEMMA InvInit == Init => Inv
BY IngestionAssumption DEF Init, Inv, TypeOK, ClaimInv, Idle, Writes

\* A call that ends leaves what the others rely on.
LEMMA EndKeepsInv ==
  ASSUME Inv, NEW p \in Procs, Return(p),
         answered' \in {answered, answered \cup {proc[p].body}}, proc[p].pc # "idle",
         UNCHANGED <<processed, applied>>, faults' \in 0 .. MaxFaults
  PROVE  Inv'
<1>1. proc' = [proc EXCEPT ![p] = Idle]
  BY DEF Return
<1>2. proc[p].body \in Bodies
  BY DEF Inv, ClaimInv
<1>3. TypeOK'
  BY <1>1, <1>2, IngestionAssumption DEF Inv, TypeOK, Idle
<1>4. /\ proc'[p].pc = "idle"
      /\ \A q \in Procs \ {p} : proc'[q] = proc[q]
  BY <1>1 DEF Inv, TypeOK, Idle
<1>5. "idle" \notin Writes
  BY DEF Writes
<1>6. ClaimInv'
  BY <1>4, <1>5 DEF Inv, ClaimInv
<1>7. QED  BY <1>3, <1>6 DEF Inv

LEMMA InvStep == Inv /\ [Next]_vars => Inv'
<1> SUFFICES ASSUME Inv, [Next]_vars
             PROVE  Inv'
  OBVIOUS
<1>1. CASE UNCHANGED vars
  BY <1>1 DEF vars, Inv, TypeOK, ClaimInv
<1>2. /\ proc \in [Procs -> [pc: Writes \cup {"idle", "getProcessed", "setProcessed"},
                             body: Bodies \cup {None}]]
      /\ applied \in [Transactions \X Writes -> Nat]
      /\ faults \in 0 .. MaxFaults
  BY DEF Inv, TypeOK
<1>3. {"idle", "getProcessed", "setProcessed"} \cap Writes = {}
  BY DEF Writes
<1>4. ASSUME NEW p \in Procs, NEW body \in Bodies, Receive(p, body)
      PROVE  Inv'
  <2>1. CASE body.confirmed /\ body.tx # None
    <3>1. /\ proc' = [proc EXCEPT ![p] = [pc |-> "getProcessed", body |-> body]]
          /\ UNCHANGED <<answered, processed, applied, faults>>
      BY <1>4, <2>1 DEF Receive
    <3>2. proc'[p].pc = "getProcessed" /\ proc'[p].body = body
      BY <1>2, <3>1
    <3>3. \A q \in Procs \ {p} : proc'[q] = proc[q]
      BY <1>2, <3>1
    <3>4. body.tx \in Transactions /\ body # None
      BY <2>1, IngestionAssumption DEF Body
    <3>5. TypeOK'
      BY <3>1, <3>2, <3>3, <3>4, <1>2 DEF Inv, TypeOK
    <3>6. ClaimInv'
      BY <1>3, <3>1, <3>2, <3>3, <3>4 DEF Inv, ClaimInv
    <3>7. QED  BY <3>5, <3>6 DEF Inv
  <2>2. CASE ~(body.confirmed /\ body.tx # None)
    BY <1>4, <2>2 DEF Receive, Inv, TypeOK, ClaimInv
  <2>3. QED  BY <2>1, <2>2
<1>5. ASSUME NEW p \in Procs, GetProcessedMoralisEvent(p)
      PROVE  Inv'
  <2>1. CASE Answer(p)
    BY <1>2, <1>5, <2>1, EndKeepsInv DEF GetProcessedMoralisEvent, Answer
  <2>2. CASE Go(p, "setProcessed") /\ UNCHANGED answered
    <3>1. /\ proc[p].pc = "getProcessed"
          /\ proc' = [proc EXCEPT ![p].pc = "setProcessed"]
          /\ UNCHANGED <<answered, processed, applied, faults>>
      BY <1>5, <2>2 DEF GetProcessedMoralisEvent, Go
    <3>2. proc'[p] = [proc[p] EXCEPT !.pc = "setProcessed"]
      BY <1>2, <3>1
    <3>3. proc'[p].pc = "setProcessed" /\ proc'[p].body = proc[p].body
      BY <1>2, <3>2
    <3>4. \A q \in Procs \ {p} : proc'[q] = proc[q]
      BY <1>2, <3>1
    <3>5. proc' \in [Procs -> [pc: Writes \cup {"idle", "getProcessed", "setProcessed"},
                               body: Bodies \cup {None}]]
      BY <1>2, <3>1
    <3>6. TypeOK'
      BY <3>1, <3>3, <3>4, <3>5 DEF Inv, TypeOK
    <3>7. ClaimInv'
      BY <1>3, <3>1, <3>3, <3>4 DEF Inv, ClaimInv
    <3>8. QED  BY <3>6, <3>7 DEF Inv
  <2>3. QED  BY <1>5, <2>1, <2>2 DEF GetProcessedMoralisEvent
<1>6. ASSUME NEW p \in Procs, SetProcessedMoralisEvent(p)
      PROVE  Inv'
  <2> DEFINE tx == proc[p].body.tx
  <2>1. proc[p].pc = "setProcessed" /\ proc[p].body \in Bodies /\ tx \in Transactions
    BY <1>6 DEF SetProcessedMoralisEvent, Inv, ClaimInv
  <2>2. CASE tx \in processed
    BY <1>2, <1>6, <2>1, <2>2, EndKeepsInv DEF SetProcessedMoralisEvent, Throw
  <2>3. CASE tx \notin processed
    <3>1. PICK w \in FirstWrites(proc[p].body.type) :
            /\ proc' = [proc EXCEPT ![p].pc = w]
            /\ processed' = processed \cup {tx}
            /\ UNCHANGED <<answered, applied, faults>>
      BY <1>6, <2>3 DEF SetProcessedMoralisEvent, Go
    <3>2. w \in Writes
      BY <2>1, WritesFollow, IngestionAssumption DEF Body
    <3>3. proc'[p] = [proc[p] EXCEPT !.pc = w]
      BY <1>2, <3>1
    <3>4. proc'[p].pc = w /\ proc'[p].body = proc[p].body
      BY <1>2, <3>3
    <3>5. \A q \in Procs \ {p} : proc'[q] = proc[q]
      BY <1>2, <3>1
    <3>6. proc' \in [Procs -> [pc: Writes \cup {"idle", "getProcessed", "setProcessed"},
                               body: Bodies \cup {None}]]
      BY <1>2, <3>1, <3>2
    <3>7. TypeOK'
      BY <1>3, <2>1, <3>1, <3>2, <3>4, <3>5, <3>6 DEF Inv, TypeOK
    <3>8. \A v \in Pending(w) : applied'[<<tx, v>>] = 0
      <4>1. Pending(w) \subseteq Writes
        BY <3>2, WritesFollow DEF Pending
      <4>2. QED  BY <2>1, <2>3, <3>1, <4>1 DEF Inv, ClaimInv
    <3>9. \A q \in Procs \ {p} : proc'[q].pc \in Writes => proc'[q].body.tx # tx
      BY <2>3, <3>5 DEF Inv, ClaimInv
    <3>10. ClaimInv'
      BY <1>3, <2>1, <3>1, <3>2, <3>4, <3>5, <3>8, <3>9 DEF Inv, ClaimInv
    <3>11. QED  BY <3>7, <3>10 DEF Inv
  <2>4. QED  BY <2>2, <2>3
<1>7. ASSUME NEW p \in Procs, Write(p)
      PROVE  Inv'
  <2> DEFINE tx == proc[p].body.tx
             w == proc[p].pc
  <2>1. /\ w \in Writes /\ proc[p].body \in Bodies /\ tx \in Transactions
        /\ tx \in processed /\ applied[<<tx, w>>] = 0
        /\ \A v \in NextWrites(w) : applied[<<tx, v>>] = 0
    BY <1>3, <1>7 DEF Write, Inv, ClaimInv, Pending
  <2>2. /\ applied' = [applied EXCEPT ![<<tx, w>>] = applied[<<tx, w>>] + 1]
        /\ UNCHANGED <<processed, faults>>
    BY <1>7 DEF Write
  <2>3. applied' \in [Transactions \X Writes -> Nat]
    BY <1>2, <2>1, <2>2
  <2>4. \A t \in Transactions, v \in Writes :
          <<t, v>> # <<tx, w>> => applied'[<<t, v>>] = applied[<<t, v>>]
    BY <1>2, <2>2
  <2>5. \A t \in Transactions \ processed', v \in Writes : applied'[<<t, v>>] = 0
    <3>1. SUFFICES ASSUME NEW t \in Transactions, t \notin processed, NEW v \in Writes
                   PROVE  applied'[<<t, v>>] = 0
      BY <2>2
    <3>2. t # tx
      BY <2>1, <3>1
    <3>3. applied[<<t, v>>] = 0
      BY <3>1 DEF Inv, ClaimInv
    <3>4. QED  BY <2>4, <3>1, <3>2, <3>3
  <2>6. \A q \in Procs \ {p} : proc[q].pc \in Writes =>
          \A v \in Pending(proc[q].pc) : applied'[<<proc[q].body.tx, v>>] = 0
    <3>1. SUFFICES ASSUME NEW q \in Procs \ {p}, proc[q].pc \in Writes,
                          NEW v \in Pending(proc[q].pc)
                   PROVE  applied'[<<proc[q].body.tx, v>>] = 0
      OBVIOUS
    <3>2. /\ proc[q].body.tx # tx /\ proc[q].body.tx \in Transactions
          /\ applied[<<proc[q].body.tx, v>>] = 0
      BY <1>3, <2>1, <3>1 DEF Inv, ClaimInv
    <3>3. v \in Writes
      BY <3>1, WritesFollow DEF Pending
    <3>4. QED  BY <2>4, <3>2, <3>3
  <2>7. CASE Answer(p)
    <3>1. /\ proc' = [proc EXCEPT ![p] = Idle]
          /\ answered' = answered \cup {proc[p].body}
      BY <2>7 DEF Answer, Return
    <3>2. /\ proc'[p].pc = "idle" /\ proc'[p].body = None
          /\ \A q \in Procs \ {p} : proc'[q] = proc[q]
      BY <1>2, <3>1 DEF Idle
    <3>3. TypeOK'
      BY <1>2, <2>1, <2>2, <2>3, <3>1, <3>2 DEF Inv, TypeOK, Idle
    <3>4. ClaimInv'
      BY <1>3, <2>2, <2>5, <2>6, <3>2 DEF Inv, ClaimInv
    <3>5. QED  BY <3>3, <3>4 DEF Inv
  <2>8. ASSUME NEW next \in NextWrites(w), Go(p, next), UNCHANGED answered
        PROVE  Inv'
    <3>1. proc' = [proc EXCEPT ![p].pc = next]
      BY <2>8 DEF Go
    <3>2. proc'[p] = [proc[p] EXCEPT !.pc = next]
      BY <1>2, <3>1
    <3>3. proc'[p].pc = next /\ proc'[p].body = proc[p].body
      BY <1>2, <3>2
    <3>4. \A q \in Procs \ {p} : proc'[q] = proc[q]
      BY <1>2, <3>1
    <3>5. next \in Writes /\ next # w /\ NextWrites(next) = {}
      BY <2>1, <2>8, WritesFollow
    <3>6. proc' \in [Procs -> [pc: Writes \cup {"idle", "getProcessed", "setProcessed"},
                               body: Bodies \cup {None}]]
      BY <1>2, <3>1, <3>5
    <3>7. TypeOK'
      BY <1>3, <2>1, <2>2, <2>3, <2>8, <3>3, <3>4, <3>5, <3>6 DEF Inv, TypeOK
    <3>8. Pending(next) = {next} /\ applied'[<<tx, next>>] = 0
      BY <2>1, <2>4, <2>8, <3>5 DEF Pending
    <3>9. ClaimInv'
      BY <1>3, <2>1, <2>2, <2>5, <2>6, <3>3, <3>4, <3>5, <3>8 DEF Inv, ClaimInv
    <3>10. QED  BY <3>7, <3>9 DEF Inv
  <2>9. QED  BY <1>7, <2>7, <2>8 DEF Write
<1>8. ASSUME NEW p \in Procs, Fail(p)
      PROVE  Inv'
  <2>1. faults' \in 0 .. MaxFaults
    BY <1>2, <1>8, IngestionAssumption DEF Fail
  <2>2. QED  BY <1>8, <2>1, EndKeepsInv DEF Fail, Answer, Throw
<1>9. CASE Restart
  <2>1. /\ proc' = [p \in Procs |-> Idle] /\ faults' = faults + 1 /\ faults < MaxFaults
        /\ UNCHANGED <<answered, processed, applied>>
    BY <1>9 DEF Restart
  <2>2. TypeOK'
    BY <1>2, <2>1, IngestionAssumption DEF Inv, TypeOK, Idle
  <2>3. ClaimInv'
    BY <1>3, <2>1 DEF Inv, ClaimInv, Idle
  <2>4. QED  BY <2>2, <2>3 DEF Inv
<1>10. QED
  BY <1>1, <1>4, <1>5, <1>6, <1>7, <1>8, <1>9 DEF Next, HandleEvent

\* Every step accepts a transaction nobody has accepted, does a write that was
\* not done, or changes neither.
LEMMA StepImplements ==
  Inv /\ [Next]_vars => [Promise!Next]_<<processed, applied>>
<1> SUFFICES ASSUME Inv, Next
             PROVE  Promise!Next \/ UNCHANGED <<processed, applied>>
  BY DEF vars
<1>1. ASSUME NEW p \in Procs, SetProcessedMoralisEvent(p)
      PROVE  Promise!Next \/ UNCHANGED <<processed, applied>>
  <2>1. proc[p].body.tx \in Transactions
    BY <1>1 DEF SetProcessedMoralisEvent, Inv, ClaimInv
  <2>2. CASE proc[p].body.tx \in processed
    BY <1>1, <2>2 DEF SetProcessedMoralisEvent
  <2>3. CASE proc[p].body.tx \notin processed
    <3>1. Promise!Accept(proc[p].body.tx)
      BY <1>1, <2>3 DEF SetProcessedMoralisEvent, Promise!Accept
    <3>2. QED  BY <2>1, <3>1 DEF Promise!Next
  <2>4. QED  BY <2>2, <2>3
<1>2. ASSUME NEW p \in Procs, Write(p)
      PROVE  Promise!Next
  <2>1. /\ proc[p].pc \in Writes /\ proc[p].body.tx \in Transactions
        /\ proc[p].body.tx \in processed
        /\ applied[<<proc[p].body.tx, proc[p].pc>>] = 0
    BY <1>2 DEF Write, Inv, ClaimInv, Pending, Writes
  <2>2. /\ applied' = [applied EXCEPT ![<<proc[p].body.tx, proc[p].pc>>] =
                         applied[<<proc[p].body.tx, proc[p].pc>>] + 1]
        /\ UNCHANGED processed
    BY <1>2 DEF Write
  <2>3. applied' = [applied EXCEPT ![<<proc[p].body.tx, proc[p].pc>>] = 1]
    BY <2>1, <2>2
  <2>4. Promise!Apply(proc[p].body.tx, proc[p].pc)
    BY <2>1, <2>2, <2>3 DEF Promise!Apply
  <2>5. QED  BY <2>1, <2>4 DEF Promise!Next
<1>3. QED
  BY <1>1, <1>2
     DEF Next, HandleEvent, GetProcessedMoralisEvent, Receive, Fail, Restart

\* However often and however concurrently a body is posted, and whatever fails
\* in between: its transaction is accepted once and each of its writes is done
\* at most once.
THEOREM AcceptedOnce == Spec => ImplementsAtMostOnce
<1>1. Init => Promise!Init
  BY DEF Init, Promise!Init
<1>2. Spec => []Inv
  BY InvInit, InvStep, PTL DEF Spec
<1>3. QED
  BY <1>1, <1>2, StepImplements, PTL DEF Spec, ImplementsAtMostOnce, Promise!Spec

\* However calls overlap, whatever fails: a call is idle exactly while it has
\* no body, and no write is counted that is none of the handlers'.
THEOREM TypeCorrect == Spec => []TypeOK
<1>1. Spec => []Inv
  BY InvInit, InvStep, PTL DEF Spec
<1>2. Inv => TypeOK
  BY DEF Inv
<1>3. QED  BY <1>1, <1>2, PTL

----------------------------------------------------------------------------
(* Answers are accounted for.                                              *)

\* The writes of a handler of this type.
WritesOf(type) == FirstWrites(type) \cup UNION {NextWrites(w) : w \in FirstWrites(type)}

\* A transaction that is accepted is handled, or a call of it is writing,
\* which is on its way to the last write of its type.
AccountedInv ==
  /\ \A p \in Procs : proc[p].pc \in Writes => proc[p].pc \in WritesOf(proc[p].body.type)
  /\ \A body \in answered : body.confirmed /\ body.tx # None => body.tx \in processed
  /\ faults = 0 =>
       \A tx \in processed :
         Handled(tx) \/ \E p \in Procs : proc[p].pc \in Writes /\ proc[p].body.tx = tx

LEMMA LastWrites ==
  ASSUME NEW type \in MichiEvent
  PROVE  /\ FirstWrites(type) \subseteq WritesOf(type)
         /\ \A w \in WritesOf(type) :
              /\ w \in Writes /\ NextWrites(w) \subseteq WritesOf(type)
              /\ NextWrites(w) = {} => w = LastWrite(type)
<1>1. FirstWrites(type) \subseteq WritesOf(type)
  BY DEF WritesOf
<1>2. CASE type = "WALLET_CREATED"
  <2>1. /\ FirstWrites(type) = {"backfill", "wallet"} /\ LastWrite(type) = "wallet"
        /\ NextWrites("backfill") = {"wallet"} /\ NextWrites("wallet") = {}
    BY <1>2 DEF FirstWrites, LastWrite, NextWrites
  <2>2. QED  BY <1>1, <2>1 DEF WritesOf, Writes
<1>3. CASE type = "DEPOSIT"
  <2>1. /\ FirstWrites(type) = {"balance"} /\ LastWrite(type) = "balance"
        /\ NextWrites("balance") = {}
    BY <1>3 DEF FirstWrites, LastWrite, NextWrites
  <2>2. QED  BY <1>1, <2>1 DEF WritesOf, Writes
<1>4. CASE type = "WALLET_PURCHASED"
  <2>1. /\ FirstWrites(type) = {"sale"} /\ LastWrite(type) = "deleteOrder"
        /\ NextWrites("sale") = {"deleteOrder"} /\ NextWrites("deleteOrder") = {}
    BY <1>4 DEF FirstWrites, LastWrite, NextWrites
  <2>2. QED  BY <1>1, <2>1 DEF WritesOf, Writes
<1>5. CASE type \in {"ORDERS_CANCELLED", "ALL_ORDERS_CANCELLED"}
  <2>1. /\ FirstWrites(type) = {"cancelOrders"} /\ LastWrite(type) = "unstale"
        /\ NextWrites("cancelOrders") = {"unstale"} /\ NextWrites("unstale") = {}
    BY <1>5 DEF FirstWrites, LastWrite, NextWrites
  <2>2. QED  BY <1>1, <2>1 DEF WritesOf, Writes
<1>6. QED  BY <1>2, <1>3, <1>4, <1>5 DEF MichiEvent

LEMMA TypesAre ==
  ASSUME NEW body \in Bodies
  PROVE  body.type \in MichiEvent /\ LastWrite(body.type) \in Writes
<1>1. body.type \in MichiEvent
  BY IngestionAssumption DEF Body
<1>2. \A type \in MichiEvent : LastWrite(type) \in Writes
  BY DEF MichiEvent, LastWrite, Writes
<1>3. QED  BY <1>1, <1>2

LEMMA AccountedStep == Inv /\ AccountedInv /\ [Next]_vars => AccountedInv'
<1> SUFFICES ASSUME Inv, AccountedInv, [Next]_vars
             PROVE  AccountedInv'
  OBVIOUS
<1>1. /\ proc \in [Procs -> [pc: Writes \cup {"idle", "getProcessed", "setProcessed"},
                             body: Bodies \cup {None}]]
      /\ applied \in [Transactions \X Writes -> Nat]
      /\ faults \in Nat
      /\ answered \subseteq Bodies
  BY IngestionAssumption DEF Inv, TypeOK
<1>2. {"idle", "getProcessed", "setProcessed"} \cap Writes = {}
  BY DEF Writes
<1>3. \A p \in Procs : proc[p].pc # "idle" =>
        /\ proc[p].body \in Bodies /\ proc[p].body.tx \in Transactions
        /\ proc[p].body.type \in MichiEvent
  BY TypesAre DEF Inv, ClaimInv
<1>4. ASSUME NEW p \in Procs, NEW body \in Bodies, Receive(p, body)
      PROVE  AccountedInv'
  <2>1. UNCHANGED <<processed, applied, faults>> /\ proc[p].pc = "idle"
    BY <1>4 DEF Receive
  <2>2. \A q \in Procs : proc[q].pc \in Writes => proc'[q] = proc[q]
    BY <1>1, <1>2, <1>4, <2>1 DEF Receive
  <2>3. \A q \in Procs : proc'[q].pc \in Writes => proc'[q] = proc[q]
    BY <1>1, <1>2, <1>4 DEF Receive
  <2>4. \A b \in answered' : b \in answered \/ ~(b.confirmed /\ b.tx # None)
    BY <1>4 DEF Receive
  <2>5. QED  BY <2>1, <2>2, <2>3, <2>4 DEF AccountedInv, Handled
<1>5. ASSUME NEW p \in Procs, GetProcessedMoralisEvent(p)
      PROVE  AccountedInv'
  <2>1. UNCHANGED <<processed, applied, faults>> /\ proc[p].pc = "getProcessed"
    BY <1>5 DEF GetProcessedMoralisEvent
  <2>2. \A q \in Procs \ {p} : proc'[q] = proc[q]
    BY <1>1, <1>5 DEF GetProcessedMoralisEvent, Answer, Return, Go
  <2>3. proc'[p].pc \notin Writes
    BY <1>1, <1>2, <1>5 DEF GetProcessedMoralisEvent, Answer, Return, Go, Idle
  <2>4. \A b \in answered' : b \in answered \/ b.tx \in processed
    BY <1>5 DEF GetProcessedMoralisEvent, Answer
  <2>5. QED  BY <1>2, <2>1, <2>2, <2>3, <2>4 DEF AccountedInv, Handled
<1>6. ASSUME NEW p \in Procs, SetProcessedMoralisEvent(p)
      PROVE  AccountedInv'
  <2> DEFINE tx == proc[p].body.tx
  <2>1. UNCHANGED <<answered, applied, faults>> /\ proc[p].pc = "setProcessed"
    BY <1>6 DEF SetProcessedMoralisEvent, Throw
  <2>2. \A q \in Procs \ {p} : proc'[q] = proc[q]
    BY <1>1, <1>6 DEF SetProcessedMoralisEvent, Throw, Return, Go
  <2>3. CASE Throw(p) /\ UNCHANGED processed
    <3>1. proc'[p].pc \notin Writes
      BY <1>1, <1>2, <2>3 DEF Throw, Return, Idle
    <3>2. QED  BY <1>2, <2>1, <2>2, <2>3, <3>1 DEF AccountedInv, Handled
  <2>4. ASSUME NEW w \in FirstWrites(proc[p].body.type), Go(p, w),
               processed' = processed \cup {tx}
        PROVE  AccountedInv'
    <3>1. w \in WritesOf(proc[p].body.type) /\ w \in Writes
      BY <1>3, <2>1, LastWrites
    <3>2. proc'[p].pc = w /\ proc'[p].body = proc[p].body
      BY <1>1, <2>4 DEF Go
    <3>3. ASSUME faults = 0, NEW t \in processed'
          PROVE  Handled(t)' \/ \E q \in Procs : proc'[q].pc \in Writes /\ proc'[q].body.tx = t
      <4>1. CASE t = tx
        BY <3>1, <3>2, <4>1
      <4>2. CASE t \in processed
        BY <1>2, <2>1, <2>2, <3>3, <4>2 DEF AccountedInv, Handled
      <4>3. QED  BY <2>4, <4>1, <4>2
    <3>4. QED  BY <2>1, <2>2, <2>4, <3>1, <3>2, <3>3 DEF AccountedInv
  <2>5. QED  BY <1>6, <2>3, <2>4 DEF SetProcessedMoralisEvent
<1>7. ASSUME NEW p \in Procs, Write(p)
      PROVE  AccountedInv'
  <2> DEFINE w == proc[p].pc
             tx == proc[p].body.tx
             type == proc[p].body.type
  <2>1. /\ w \in Writes /\ w # "idle" /\ proc[p].body \in Bodies /\ tx \in Transactions
        /\ type \in MichiEvent /\ UNCHANGED <<processed, faults>>
        /\ tx \in processed
    BY <1>2, <1>3, <1>7 DEF Write, Inv, ClaimInv
  <2>2. /\ applied' = [applied EXCEPT ![<<tx, w>>] = applied[<<tx, w>>] + 1]
        /\ <<tx, w>> \in Transactions \X Writes /\ applied[<<tx, w>>] \in Nat
    BY <1>1, <1>7, <2>1 DEF Write
  <2>3. \A k \in Transactions \X Writes : applied[k] > 0 => applied'[k] > 0
    BY <1>1, <2>2
  <2>4. applied'[<<tx, w>>] > 0
    BY <1>1, <2>2
  <2>5. \A t \in Transactions : Handled(t) => Handled(t)'
    <3> SUFFICES ASSUME NEW t \in Transactions, NEW body \in Bodies, body.tx = t,
                        applied[<<t, LastWrite(body.type)>>] > 0
                 PROVE  applied'[<<t, LastWrite(body.type)>>] > 0
      BY DEF Handled
    <3>1. LastWrite(body.type) \in Writes
      BY TypesAre
    <3>2. QED  BY <2>3, <3>1
  <2>6. w \in WritesOf(type)
    BY <2>1 DEF AccountedInv
  <2>7. \A q \in Procs \ {p} : proc'[q] = proc[q]
    BY <1>1, <1>7 DEF Write, Answer, Return, Go
  <2>8. \A b \in answered' : b \in answered \/ b.tx \in processed
    BY <1>7, <2>1 DEF Write, Answer
  <2>9. processed \subseteq Transactions
    BY DEF Inv, TypeOK
  <2>10. CASE NextWrites(w) = {} /\ Answer(p)
    <3>1. proc'[p].pc \notin Writes
      BY <1>1, <1>2, <2>10 DEF Answer, Return, Idle
    <3>2. ASSUME NEW t \in Transactions, t = tx
          PROVE  Handled(t)'
      <4>1. w = LastWrite(type)
        BY <2>1, <2>6, <2>10, LastWrites
      <4>2. applied'[<<t, LastWrite(proc[p].body.type)>>] > 0
        BY <2>4, <3>2, <4>1
      <4>3. QED  BY <2>1, <3>2, <4>2 DEF Handled
    <3>3. ASSUME faults = 0, NEW t \in processed
          PROVE  Handled(t)' \/ \E q \in Procs : proc'[q].pc \in Writes /\ proc'[q].body.tx = t
      <4>1. CASE t = tx
        BY <2>9, <3>2, <3>3, <4>1
      <4>2. CASE t # tx
        BY <2>5, <2>7, <2>9, <3>3, <4>2 DEF AccountedInv
      <4>3. QED  BY <4>1, <4>2
    <3>4. QED  BY <2>1, <2>7, <2>8, <3>1, <3>3 DEF AccountedInv
  <2>11. ASSUME NEW next \in NextWrites(w), Go(p, next), UNCHANGED answered
         PROVE  AccountedInv'
    <3>1. proc'[p].pc = next /\ proc'[p].body = proc[p].body
      BY <1>1, <2>11 DEF Go
    <3>2. next \in WritesOf(type) /\ next \in Writes
      BY <2>1, <2>6, LastWrites
    <3>3. ASSUME faults = 0, NEW t \in processed
          PROVE  Handled(t)' \/ \E q \in Procs : proc'[q].pc \in Writes /\ proc'[q].body.tx = t
      <4>1. CASE t = tx
        BY <3>1, <3>2, <4>1
      <4>2. CASE t # tx
        BY <2>5, <2>7, <2>9, <3>3, <4>2 DEF AccountedInv
      <4>3. QED  BY <4>1, <4>2
    <3>4. QED  BY <2>1, <2>7, <2>11, <3>1, <3>2, <3>3 DEF AccountedInv
  <2>12. QED  BY <1>7, <2>10, <2>11 DEF Write
<1>8. ASSUME NEW p \in Procs, Fail(p)
      PROVE  AccountedInv'
  <2>1. faults' # 0 /\ UNCHANGED <<processed, applied>> /\ proc[p].pc # "idle"
    BY <1>1, <1>8 DEF Fail
  <2>2. /\ proc' = [proc EXCEPT ![p] = Idle]
        /\ answered' = answered \/ (/\ proc[p].pc = "unstale"
                                   /\ answered' = answered \cup {proc[p].body})
    BY <1>8 DEF Fail, Answer, Throw, Return
  <2>3. /\ proc'[p].pc \notin Writes
        /\ \A q \in Procs \ {p} : proc'[q] = proc[q]
    BY <1>1, <1>2, <2>2 DEF Idle
  <2>4. proc[p].pc = "unstale" => proc[p].body.tx \in processed
    BY DEF Inv, ClaimInv, Writes
  <2>5. QED  BY <2>1, <2>2, <2>3, <2>4 DEF AccountedInv
<1>9. CASE Restart
  <2>1. faults' # 0 /\ UNCHANGED <<answered, processed>> /\ proc' = [p \in Procs |-> Idle]
    BY <1>1, <1>9 DEF Restart
  <2>2. QED  BY <1>2, <2>1 DEF AccountedInv, Idle
<1>10. CASE UNCHANGED vars
  BY <1>10 DEF vars, AccountedInv, Handled
<1>11. QED
  BY <1>4, <1>5, <1>6, <1>7, <1>8, <1>9, <1>10 DEF Next, HandleEvent

\* Until something fails, a body that will not be posted again has been handled
\* or is on its way, also when it was answered because another call had
\* accepted its transaction.
THEOREM AnswersAreAccountedFor == Spec => []AnsweredIsAccountedFor
<1>1. Init => AccountedInv
  BY DEF Init, AccountedInv, Idle, Writes
<1>2. Spec => [](Inv /\ AccountedInv)
  BY <1>1, InvInit, InvStep, AccountedStep, PTL DEF Spec
<1>3. AccountedInv => AnsweredIsAccountedFor
  BY DEF AccountedInv, AnsweredIsAccountedFor
<1>4. QED  BY <1>2, <1>3, PTL
=============================================================================
