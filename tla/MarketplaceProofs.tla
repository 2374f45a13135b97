------------------------- MODULE MarketplaceProofs -------------------------
(***************************************************************************)
(* Proofs about Marketplace, for any users, chains, requests, number of    *)
(* concurrent handlers and bounds; then, for one handler at a time, what   *)
(* only holds then; and last what a run of the staleness job leaves.       *)
(***************************************************************************)
EXTENDS Marketplace, FiniteSetTheorems, SequenceTheorems, TLAPS

InsertedSteps ==
  {"readExisting", "markStale", "markStaleThrown", "getNonce", "setNonce"}

\* What a handler carries agrees with where it is; from the insertion on, it
\* is the request of the row the handler inserted.
HandlersOK ==
  \A p \in Procs :
    /\ proc[p].pc \in CreateSteps => proc[p].req \in CreateOrderDto
    /\ proc[p].pc \in CancelSteps => proc[p].req \in Cancellation
    /\ proc[p].pc = "deleteOrder" => proc[p].req \in PurchaseEvent
    /\ proc[p].pc \in InsertedSteps =>
         proc[p].me \in Ids /\ orders[proc[p].me].dto = proc[p].req

TypeInv == TypeOK /\ HandlersOK

----------------------------------------------------------------------------
(* The shape of the table.                                                 *)

LEMMA TableIds ==
  ASSUME TypeOK
  PROVE  /\ Len(orders) \in Nat
         /\ Ids = 1 .. Len(orders)
         /\ Ids \subseteq Nat
         /\ orders \in [Ids -> Row]
         /\ \A i \in Ids : orders[i].dto \in CreateOrderDto
<1>1. orders \in Seq(Row)
  BY DEF TypeOK
<1>2. Len(orders) \in Nat /\ Ids = 1 .. Len(orders) /\ orders \in [Ids -> Row]
  BY <1>1, LenProperties DEF Ids
<1>3. \A i \in Ids : orders[i].dto \in CreateOrderDto
  BY <1>2 DEF Row
<1>4. QED  BY <1>2, <1>3

\* A table in which every row was rewritten is a table with the same ids.
LEMMA RewrittenTable ==
  ASSUME TypeOK, NEW t \in [Ids -> Row]
  PROVE  t \in Seq(Row) /\ DOMAIN t = Ids
<1>1. t \in [1 .. Len(orders) -> Row] /\ Len(orders) \in Nat
  BY TableIds
<1>2. QED  BY <1>1, TableIds, SeqDef

\* No step shortens the table or changes what an order says.
Grows ==
  /\ Ids \subseteq Ids'
  /\ \A i \in Ids : orders'[i].dto = orders[i].dto

Rewrites == orders' \in [Ids -> Row] /\ \A i \in Ids : orders'[i].dto = orders[i].dto

LEMMA RewritesGrow ==
  ASSUME TypeOK, Rewrites
  PROVE  Grows /\ orders' \in Seq(Row) /\ Ids' = Ids
BY RewrittenTable DEF Rewrites, Grows, Ids

----------------------------------------------------------------------------
(* What each kind of step does to the table.                               *)

LEMMA SetStaleRewrites ==
  ASSUME TypeOK, NEW i, NEW b \in BOOLEAN, orders' = WithStale(i, b)
  PROVE  Rewrites
BY TableIds DEF WithStale, Rewrites, Row

\* Of a row such an update changes the status only.
LEMMA StatusSet ==
  ASSUME NEW row \in Row, NEW s \in OrderStatus \cup {"DELETED"}
  PROVE  LET set == [row EXCEPT !.status = s] IN
         /\ set \in Row /\ set.dto = row.dto
         /\ set.isStale = row.isStale /\ set.status = s
BY DEF Row

LEMMA StatusSteps ==
  ASSUME TypeOK, NEW p \in Procs,
         CancelOrders(p) \/ MarkOrdersAsPendingCancellation(p) \/ DeleteOrder(p)
  PROVE  Rewrites /\ \A i \in Ids : orders'[i].isStale = orders[i].isStale
<1>1. orders \in [Ids -> Row]
  BY TableIds
<1>2. orders' = [i \in Ids |-> orders'[i]]
  <2>1. CASE CancelOrders(p)
    BY <2>1 DEF CancelOrders
  <2>2. CASE MarkOrdersAsPendingCancellation(p)
    BY <2>2 DEF MarkOrdersAsPendingCancellation
  <2>3. CASE DeleteOrder(p)
    BY <2>3 DEF DeleteOrder
  <2>4. QED  BY <2>1, <2>2, <2>3
<1>3. ASSUME NEW i \in Ids
      PROVE  \/ orders'[i] = orders[i]
             \/ \E s \in OrderStatus \cup {"DELETED"} :
                  orders'[i] = [orders[i] EXCEPT !.status = s]
  <2>1. {"CANCELLED", "PROCESSING_CANCELLATION", "DELETED"} \subseteq OrderStatus \cup {"DELETED"}
    BY DEF OrderStatus
  <2>2. CASE CancelOrders(p)
    <3>1. PICK c \in Cancellations :
            orders' = [j \in Ids |->
              IF /\ ~Deleted(j)
                 /\ orders[j].dto.participant = c.user
                 /\ orders[j].dto.chainId = c.chainId
                 /\ orders[j].dto.nonce \in c.nonces
                THEN Cancelled(orders[j]) ELSE orders[j]]
      BY <2>2 DEF CancelOrders
    <3>2. orders'[i] \in {orders[i], Cancelled(orders[i])}
      BY <3>1
    <3>3. QED  BY <2>1, <3>2 DEF Cancelled
  <2>3. CASE MarkOrdersAsPendingCancellation(p)
    BY <2>1, <2>3 DEF MarkOrdersAsPendingCancellation
  <2>4. CASE DeleteOrder(p)
    BY <2>1, <2>4 DEF DeleteOrder
  <2>5. QED  BY <2>2, <2>3, <2>4
<1>4. ASSUME NEW i \in Ids
      PROVE  /\ orders'[i] \in Row /\ orders'[i].dto = orders[i].dto
             /\ orders'[i].isStale = orders[i].isStale
  <2>1. orders[i] \in Row
    BY <1>1
  <2>2. CASE orders'[i] = orders[i]
    BY <2>1, <2>2
  <2>3. ASSUME NEW s \in OrderStatus \cup {"DELETED"},
               orders'[i] = [orders[i] EXCEPT !.status = s]
        PROVE  /\ orders'[i] \in Row /\ orders'[i].dto = orders[i].dto
               /\ orders'[i].isStale = orders[i].isStale
    BY <2>1, <2>3, StatusSet
  <2>4. QED  BY <1>3, <2>2, <2>3
<1>5. orders' \in [Ids -> Row]
  BY <1>2, <1>4
<1>6. QED  BY <1>4, <1>5 DEF Rewrites

LEMMA StatusRewrites ==
  ASSUME TypeOK, NEW p \in Procs,
         CancelOrders(p) \/ MarkOrdersAsPendingCancellation(p) \/ DeleteOrder(p)
  PROVE  Rewrites
BY StatusSteps

LEMMA StaleRewrites ==
  ASSUME TypeOK, NEW p \in Procs, MarkStale(p) \/ Unstale(p)
  PROVE  Rewrites
<1>1. ASSUME NEW i, NEW b \in BOOLEAN, orders' = WithStale(i, b)
      PROVE  Rewrites
  BY <1>1, SetStaleRewrites
<1>2. ASSUME UNCHANGED orders
      PROVE  Rewrites
  BY <1>2, TableIds DEF Rewrites
<1>3. CASE MarkStale(p)
  BY <1>1, <1>2, <1>3 DEF MarkStale
<1>4. CASE Unstale(p)
  <2>1. \A r \in Row : /\ [r EXCEPT !.isStale = FALSE] \in Row
                       /\ [r EXCEPT !.isStale = FALSE].dto = r.dto
    BY DEF Row
  <2>2. orders' = [i \in Ids |-> IF i \in proc[p].plan /\ ~Deleted(i)
                                  THEN [orders[i] EXCEPT !.isStale = FALSE]
                                  ELSE orders[i]]
    BY <1>4 DEF Unstale
  <2>3. orders \in [Ids -> Row]
    BY TableIds
  <2>4. QED  BY <2>1, <2>2, <2>3 DEF Rewrites
<1>5. QED  BY <1>3, <1>4

LEMMA ExpireRewrites ==
  ASSUME TypeOK, Expire
  PROVE  Rewrites
<1>1. \A r \in Row : /\ [r EXCEPT !.expired = TRUE] \in Row
                     /\ [r EXCEPT !.expired = TRUE].dto = r.dto
  BY DEF Row
<1>2. PICK i \in Ids : orders' = [orders EXCEPT ![i].expired = TRUE]
  BY DEF Expire
<1>3. orders \in [Ids -> Row]
  BY TableIds
<1>4. orders' = [k \in Ids |-> IF k = i THEN [orders[k] EXCEPT !.expired = TRUE]
                                        ELSE orders[k]]
  BY <1>2, <1>3
<1>5. QED  BY <1>1, <1>3, <1>4 DEF Rewrites

LEMMA InsertAppends ==
  ASSUME TypeInv, NEW p \in Procs, InsertOrder(p)
  PROVE  /\ orders' \in Seq(Row)
         /\ Grows
         /\ Ids' = Ids \cup {Len(orders) + 1}
         /\ orders'[Len(orders) + 1].dto = proc[p].req
         /\ ~orders'[Len(orders) + 1].isStale
         /\ orders'[Len(orders) + 1].status = "ACTIVE"
         /\ \A i \in Ids : orders'[i] = orders[i]
<1> DEFINE row == [dto |-> proc[p].req, status |-> "ACTIVE",
                   isStale |-> FALSE, expired |-> FALSE]
<1>1. orders \in Seq(Row) /\ orders' = Append(orders, row)
  BY DEF InsertOrder, TypeInv, TypeOK
<1>2. proc[p].req \in CreateOrderDto
  BY DEF InsertOrder, TypeInv, HandlersOK, CreateSteps
<1>3. row \in Row
  BY <1>2 DEF Row, OrderStatus
<1> HIDE DEF row
<1>4. /\ orders' \in Seq(Row)
      /\ Len(orders') = Len(orders) + 1
      /\ \A i \in 1 .. Len(orders) : orders'[i] = orders[i]
      /\ orders'[Len(orders) + 1] = row
  BY <1>1, <1>3, AppendProperties
<1>5. DOMAIN orders' = 1 .. Len(orders) + 1
  BY <1>4, LenProperties
<1>6. Ids = 1 .. Len(orders) /\ Len(orders) \in Nat
  BY TableIds DEF TypeInv
<1>7. Ids' = Ids \cup {Len(orders) + 1}
  BY <1>5, <1>6 DEF Ids
<1>8. row.dto = proc[p].req /\ ~row.isStale /\ row.status = "ACTIVE"
  BY DEF row
<1>9. QED  BY <1>4, <1>6, <1>7, <1>8 DEF Grows

\* Every step leaves the table alone, rewrites its rows or inserts one.
LEMMA StepOnOrders ==
  ASSUME TypeInv, [Next]_vars
  PROVE  orders' \in Seq(Row) /\ Grows
<1>1. ASSUME UNCHANGED orders
      PROVE  orders' \in Seq(Row) /\ Grows
  BY <1>1 DEF TypeInv, TypeOK, Grows, Ids
<1>2. ASSUME Rewrites
      PROVE  orders' \in Seq(Row) /\ Grows
  BY <1>2, RewritesGrow DEF TypeInv
<1>3. ASSUME NEW p \in Procs, HandlerStep(p)
      PROVE  orders' \in Seq(Row) /\ Grows
  <2>1. CASE InsertOrder(p)
    BY <2>1, InsertAppends
  <2>2. CASE MarkStale(p) \/ Unstale(p)
    BY <2>2, <1>2, StaleRewrites DEF TypeInv
  <2>3. CASE CancelOrders(p) \/ MarkOrdersAsPendingCancellation(p) \/ DeleteOrder(p)
    BY <2>3, <1>2, StatusRewrites DEF TypeInv
  <2>4. QED
    BY <1>1, <1>3, <2>1, <2>2, <2>3
       DEF HandlerStep, CreateOrder, ValidateExisting, RejectDuplicateNonce,
           ReadExisting, GetUserNonce, SetUserNonce, ReadCancelled, ReadOthers,
           ProcessCancellationTx, CreateSale, Abort
<1>4. CASE UpdateOrderStaleness
  <2>1. orders' = orders \/ \E w \in writes : orders' = WithStale(w.id, w.isStale)
    BY <1>4 DEF UpdateOrderStaleness
  <2>2. \A w \in writes : w.isStale \in BOOLEAN
    BY DEF TypeInv, TypeOK
  <2>3. QED  BY <1>1, <1>2, <2>1, <2>2, SetStaleRewrites DEF TypeInv
<1>5. CASE Expire
  BY <1>2, <1>5, ExpireRewrites DEF TypeInv
<1>6. QED
  BY <1>1, <1>3, <1>4, <1>5
     DEF Next, JobStep, StartStalenessJob, ReadSome, ReadActiveOrders, AbortJob,
         UpsertMichiWallet, PostSale, vars

----------------------------------------------------------------------------
(* Type correctness.                                                       *)

\* What carries over to a handler that did not move.
LEMMA OthersKeep ==
  ASSUME TypeInv, Grows, NEW p \in Procs,
         proc' = [proc EXCEPT ![p] = proc'[p]],
         proc'[p] \in Handler,
         proc'[p].pc \in CreateSteps => proc'[p].req \in CreateOrderDto,
         proc'[p].pc \in CancelSteps => proc'[p].req \in Cancellation,
         proc'[p].pc = "deleteOrder" => proc'[p].req \in PurchaseEvent,
         proc'[p].pc \in InsertedSteps =>
           proc'[p].me \in Ids' /\ orders'[proc'[p].me].dto = proc'[p].req
  PROVE  proc' \in [Procs -> Handler] /\ HandlersOK'
<1>1. proc \in [Procs -> Handler] /\ HandlersOK
  BY DEF TypeInv, TypeOK
<1>2. proc' \in [Procs -> Handler]
  BY <1>1
<1>3. \A q \in Procs : q # p => proc'[q] = proc[q]
  BY <1>1
<1>4. QED  BY <1>1, <1>2, <1>3 DEF HandlersOK, Grows

PurchaseOf(i, e) ==
  /\ orders[i].dto.chainId = e.sale.chainId
  /\ orders[i].dto.tokenId = e.sale.tokenId
  /\ orders[i].dto.nonce = e.nonce

\* The sale that a purchase records, and what its handler carries on with.
LEMMA SaleTyped ==
  ASSUME TypeInv, NEW p \in Procs, CreateSale(p)
  PROVE  \E e \in PurchaseEvent :
           /\ proc' = [proc EXCEPT ![p].pc = "deleteOrder", ![p].req = e]
           /\ sales' = sales \cup {e.sale}
           /\ \E i \in Ids : PurchaseOf(i, e) /\ executed' = executed \cup {i}
<1> DEFINE sale(i, other) ==
      LET o == orders[i].dto IN
      [chainId |-> o.chainId, tokenId |-> o.tokenId,
       buyer  |-> IF o.type = "BID" THEN o.participant ELSE other,
       seller |-> IF o.type = "BID" THEN other ELSE o.participant]
<1>1. PICK i \in Ids, other \in Users :
        /\ executed' = executed \cup {i}
        /\ sales' = sales \cup {sale(i, other)}
        /\ proc' = [proc EXCEPT ![p].pc = "deleteOrder",
                    ![p].req = [sale |-> sale(i, other), nonce |-> orders[i].dto.nonce]]
  BY DEF CreateSale, RecordSale
<1>2. orders[i].dto \in CreateOrderDto
  BY TableIds DEF TypeInv
<1>3. sale(i, other) \in Sale /\ orders[i].dto.nonce \in Nat
  BY <1>2 DEF Sale, CreateOrderDto
<1>4. [sale |-> sale(i, other), nonce |-> orders[i].dto.nonce] \in PurchaseEvent
  BY <1>3 DEF PurchaseEvent
<1>5. PurchaseOf(i, [sale |-> sale(i, other), nonce |-> orders[i].dto.nonce])
  BY DEF PurchaseOf
<1>6. QED  BY <1>1, <1>4, <1>5

LEMMA HandlersStep ==
  ASSUME TypeInv, Grows, NEW p \in Procs, HandlerStep(p)
  PROVE  proc' \in [Procs -> Handler] /\ HandlersOK'
<1>1. proc \in [Procs -> Handler] /\ proc[p] \in Handler /\ HandlersOK
  BY DEF TypeInv, TypeOK
<1>2. Ids \subseteq Nat /\ Len(orders) \in Nat
  BY TableIds DEF TypeInv
<1>3. Idle \in Handler
  BY DEF Idle, Handler
<1>4. ASSUME Return(p)
      PROVE  proc' \in [Procs -> Handler] /\ HandlersOK'
  <2>1. proc' = [proc EXCEPT ![p] = proc'[p]] /\ proc'[p] = Idle
    BY <1>1, <1>4 DEF Return
  <2>2. QED
    BY <1>3, <2>1, OthersKeep DEF Idle, CreateSteps, CancelSteps, InsertedSteps
<1>5. CASE CreateOrder(p)
  <2>1. PICK dto \in Requests :
          proc' = [proc EXCEPT ![p].pc = "validateExisting", ![p].req = dto]
    BY <1>5 DEF CreateOrder
  <2>2. /\ proc' = [proc EXCEPT ![p] = proc'[p]]
        /\ proc'[p] = [proc[p] EXCEPT !.pc = "validateExisting", !.req = dto]
    BY <1>1, <2>1
  <2>3. dto \in CreateOrderDto
    BY MarketplaceAssumption
  <2>4. proc'[p] \in Handler /\ proc'[p].pc = "validateExisting" /\ proc'[p].req = dto
    BY <1>1, <2>2, <2>3 DEF Handler, CreateSteps
  <2>5. QED
    BY <2>2, <2>3, <2>4, OthersKeep DEF CreateSteps, CancelSteps, InsertedSteps
<1>6. CASE ValidateExisting(p)
  <2>1. CASE Return(p)
    BY <1>4, <2>1
  <2>2. CASE Go(p, "insert")
    <3>1. proc' = [proc EXCEPT ![p] = proc'[p]] /\ proc'[p] = [proc[p] EXCEPT !.pc = "insert"]
      BY <1>1, <2>2 DEF Go
    <3>2. proc'[p] \in Handler /\ proc'[p].pc = "insert" /\ proc'[p].req = proc[p].req
      BY <1>1, <3>1 DEF Handler, CreateSteps
    <3>3. proc[p].req \in CreateOrderDto
      BY <1>1, <1>6 DEF ValidateExisting, HandlersOK, CreateSteps
    <3>4. QED
      BY <3>1, <3>2, <3>3, OthersKeep DEF CreateSteps, CancelSteps, InsertedSteps
  <2>3. QED  BY <1>6, <2>1, <2>2 DEF ValidateExisting
<1>7. CASE InsertOrder(p)
  <2> DEFINE id == Len(orders) + 1
  <2>0. id \in Nat
    BY <1>2
  <2>1. /\ proc' = [proc EXCEPT ![p] = proc'[p]]
        /\ proc'[p] = [proc[p] EXCEPT !.pc = "readExisting", !.me = id]
    BY <1>1, <1>7 DEF InsertOrder
  <2> HIDE DEF id
  <2>2. /\ proc'[p] \in Handler
        /\ proc'[p].pc = "readExisting" /\ proc'[p].me = id
        /\ proc'[p].req = proc[p].req
    BY <1>1, <2>0, <2>1 DEF Handler, CreateSteps
  <2>3. proc[p].req \in CreateOrderDto
    BY <1>1, <1>7 DEF InsertOrder, HandlersOK, CreateSteps
  <2>4. id \in Ids' /\ orders'[id].dto = proc[p].req
    BY <1>7, InsertAppends DEF id
  <2>5. QED
    BY <2>1, <2>2, <2>3, <2>4, OthersKeep DEF CreateSteps, CancelSteps, InsertedSteps
<1>8. CASE RejectDuplicateNonce(p)
  BY <1>4, <1>8 DEF RejectDuplicateNonce
\* Once its row is inserted a handler keeps its request and the row's id.
<1>9. ASSUME proc[p].pc \in InsertedSteps,
             proc' = [proc EXCEPT ![p] = proc'[p]],
             proc'[p] \in Handler,
             proc'[p].pc \in InsertedSteps,
             proc'[p].req = proc[p].req, proc'[p].me = proc[p].me
      PROVE  proc' \in [Procs -> Handler] /\ HandlersOK'
  <2>1. /\ proc[p].req \in CreateOrderDto
        /\ proc[p].me \in Ids /\ orders[proc[p].me].dto = proc[p].req
    BY <1>1, <1>9 DEF HandlersOK, InsertedSteps, CreateSteps
  <2>2. proc[p].me \in Ids' /\ orders'[proc[p].me].dto = proc[p].req
    BY <2>1 DEF Grows
  <2>3. QED
    BY <1>9, <2>1, <2>2, OthersKeep DEF CreateSteps, CancelSteps, InsertedSteps
<1>10. CASE ReadExisting(p)
  <2> DEFINE outdone == OutdoneBy(proc[p].req, proc[p].me)
  <2>1. outdone \subseteq Nat
    BY <1>2 DEF OutdoneBy, UserOrdersOnWallet
  <2> HIDE DEF outdone
  <2>2. PICK step \in {"getNonce", "markStale"} :
          proc' = [proc EXCEPT ![p].pc = step, ![p].plan = outdone]
    BY <1>10 DEF ReadExisting, outdone
  <2>3. /\ proc' = [proc EXCEPT ![p] = proc'[p]]
        /\ proc'[p] = [proc[p] EXCEPT !.pc = step, !.plan = outdone]
    BY <1>1, <2>2
  <2>4. /\ proc'[p] \in Handler /\ proc'[p].pc = step
        /\ proc'[p].req = proc[p].req /\ proc'[p].me = proc[p].me
    BY <1>1, <2>1, <2>3 DEF Handler, CreateSteps
  <2>5. QED
    BY <1>9, <1>10, <2>3, <2>4 DEF ReadExisting, InsertedSteps
<1>11. CASE MarkStale(p)
  <2>1. PICK i \in proc[p].plan :
          \/ Return(p)
          \/ \E step \in {"markStale", "markStaleThrown", "getNonce"} :
               proc' = [proc EXCEPT ![p] =
                          [@ EXCEPT !.plan = proc[p].plan \ {i}, !.pc = step]]
    BY <1>11 DEF MarkStale, Return
  <2>2. CASE Return(p)
    BY <1>4, <2>2
  <2>3. ASSUME NEW step \in {"markStale", "markStaleThrown", "getNonce"},
               proc' = [proc EXCEPT ![p] =
                          [@ EXCEPT !.plan = proc[p].plan \ {i}, !.pc = step]]
        PROVE  proc' \in [Procs -> Handler] /\ HandlersOK'
    <3>1. /\ proc' = [proc EXCEPT ![p] = proc'[p]]
          /\ proc'[p] = [proc[p] EXCEPT !.plan = proc[p].plan \ {i}, !.pc = step]
      BY <1>1, <2>3
    <3>2. /\ proc'[p] \in Handler /\ proc'[p].pc = step
          /\ proc'[p].req = proc[p].req /\ proc'[p].me = proc[p].me
      BY <1>1, <3>1 DEF Handler, CreateSteps
    <3>3. QED
      BY <1>9, <1>11, <3>1, <3>2 DEF MarkStale, InsertedSteps
  <2>4. QED  BY <2>1, <2>2, <2>3
<1>12. CASE GetUserNonce(p)
  <2>1. CASE Go(p, "setNonce")
    <3>1. /\ proc' = [proc EXCEPT ![p] = proc'[p]]
          /\ proc'[p] = [proc[p] EXCEPT !.pc = "setNonce"]
      BY <1>1, <2>1 DEF Go
    <3>2. /\ proc'[p] \in Handler /\ proc'[p].pc = "setNonce"
          /\ proc'[p].req = proc[p].req /\ proc'[p].me = proc[p].me
      BY <1>1, <3>1 DEF Handler, CreateSteps
    <3>3. QED
      BY <1>9, <1>12, <3>1, <3>2 DEF GetUserNonce, InsertedSteps
  <2>2. QED  BY <1>4, <1>12, <2>1 DEF GetUserNonce
<1>13. CASE SetUserNonce(p)
  BY <1>4, <1>13 DEF SetUserNonce
\* A step of a cancellation handler keeps its cancellation.
<1>14. ASSUME NEW step \in CancelSteps, NEW c \in Cancellation,
              proc' = [proc EXCEPT ![p] = proc'[p]],
              proc'[p] \in Handler,
              proc'[p].pc = step, proc'[p].req = c
       PROVE  proc' \in [Procs -> Handler] /\ HandlersOK'
  BY <1>14, OthersKeep DEF CreateSteps, CancelSteps, InsertedSteps
<1>15. CASE CancelOrders(p) \/ ProcessCancellationTx(p)
  <2>1. PICK c \in Cancellations, step \in {"readCancelled", "markPending"} :
          proc' = [proc EXCEPT ![p].pc = step, ![p].req = c]
    BY <1>15, MarketplaceAssumption DEF CancelOrders, ProcessCancellationTx
  <2>2. /\ proc' = [proc EXCEPT ![p] = proc'[p]]
        /\ proc'[p] = [proc[p] EXCEPT !.pc = step, !.req = c]
    BY <1>1, <2>1
  <2>3. c \in Cancellation /\ step \in CancelSteps
    BY MarketplaceAssumption DEF CancelSteps
  <2>4. proc'[p] \in Handler /\ proc'[p].pc = step /\ proc'[p].req = c
    BY <1>1, <2>2, <2>3 DEF Handler
  <2>5. QED  BY <1>14, <2>2, <2>3, <2>4
<1>16. CASE ReadCancelled(p) \/ ReadOthers(p)
  <2>1. PICK ids \in SUBSET Ids, step \in {"readOthers", "unstale"} :
          proc' = [proc EXCEPT ![p].pc = step, ![p].plan = ids]
    BY <1>16 DEF ReadCancelled, ReadOthers, Picks
  <2>2. /\ proc' = [proc EXCEPT ![p] = proc'[p]]
        /\ proc'[p] = [proc[p] EXCEPT !.pc = step, !.plan = ids]
    BY <1>1, <2>1
  <2>3. proc'[p] \in Handler /\ proc'[p].pc = step /\ proc'[p].req = proc[p].req
    BY <1>1, <1>2, <2>2 DEF Handler, CancelSteps
  <2>4. proc[p].req \in Cancellation
    BY <1>1, <1>16 DEF ReadCancelled, ReadOthers, HandlersOK, CancelSteps
  <2>5. QED  BY <1>14, <2>2, <2>3, <2>4 DEF CancelSteps
<1>17. CASE Unstale(p) \/ MarkOrdersAsPendingCancellation(p) \/ DeleteOrder(p) \/ Abort(p)
  BY <1>4, <1>17 DEF Unstale, MarkOrdersAsPendingCancellation, DeleteOrder, Abort
<1>18. CASE CreateSale(p)
  <2>1. PICK e \in PurchaseEvent :
          proc' = [proc EXCEPT ![p].pc = "deleteOrder", ![p].req = e]
    BY <1>18, SaleTyped
  <2>2. /\ proc' = [proc EXCEPT ![p] = proc'[p]]
        /\ proc'[p] = [proc[p] EXCEPT !.pc = "deleteOrder", !.req = e]
    BY <1>1, <2>1
  <2>3. proc'[p] \in Handler /\ proc'[p].pc = "deleteOrder" /\ proc'[p].req = e
    BY <1>1, <2>2 DEF Handler
  <2>4. QED
    BY <2>2, <2>3, OthersKeep DEF CreateSteps, CancelSteps, InsertedSteps
<1>19. QED
  BY <1>5, <1>6, <1>7, <1>8, <1>10, <1>11, <1>12, <1>13, <1>15, <1>16, <1>17, <1>18
     DEF HandlerStep

\* Which steps touch which table.
LEMMA UnchangedParts ==
  ASSUME [Next]_vars
  PROVE  /\ UNCHANGED nonce \/ \E p \in Procs : SetUserNonce(p)
         /\ UNCHANGED owner \/ UpsertMichiWallet
         /\ UNCHANGED <<sales, executed>> \/ PostSale \/ \E p \in Procs : CreateSale(p)
         /\ \/ UNCHANGED <<due, writes>>
            \/ StartStalenessJob \/ UpdateOrderStaleness \/ AbortJob
            \/ \E chain \in LiveChains : ReadActiveOrders(chain)
         /\ UNCHANGED faults \/ AbortJob \/ \E p \in Procs : Abort(p)
<1>1. ASSUME NEW p \in Procs, HandlerStep(p)
      PROVE  /\ UNCHANGED nonce \/ SetUserNonce(p)
             /\ UNCHANGED <<owner, due, writes>>
             /\ UNCHANGED <<sales, executed>> \/ CreateSale(p)
             /\ UNCHANGED faults \/ Abort(p)
  BY <1>1
     DEF HandlerStep, CreateOrder, ValidateExisting, InsertOrder, RejectDuplicateNonce,
         ReadExisting, MarkStale, GetUserNonce, SetUserNonce, CancelOrders,
         ReadCancelled, ReadOthers, Unstale, ProcessCancellationTx,
         MarkOrdersAsPendingCancellation, CreateSale, DeleteOrder, Abort, jobVars
<1>2. QED
  BY <1>1
     DEF Next, JobStep, StartStalenessJob, ReadSome, ReadActiveOrders,
         UpdateOrderStaleness, AbortJob, Expire, UpsertMichiWallet, PostSale, vars, jobVars

LEMMA TypeInit == Init => TypeInv
BY MarketplaceAssumption, EmptySeq
   DEF Init, TypeInv, TypeOK, HandlersOK, Ids, Idle, Handler,
       CreateSteps, CancelSteps, InsertedSteps

LEMMA TypeStep == TypeInv /\ [Next]_vars => TypeInv'
<1> SUFFICES ASSUME TypeInv, [Next]_vars
             PROVE  TypeInv'
  OBVIOUS
<1>1. orders' \in Seq(Row) /\ Grows
  BY StepOnOrders
<1>2. proc' \in [Procs -> Handler] /\ HandlersOK'
  <2>1. CASE UNCHANGED proc
    <3>1. HandlersOK'
      BY <1>1, <2>1 DEF TypeInv, HandlersOK, Grows
    <3>2. QED  BY <2>1, <3>1 DEF TypeInv, TypeOK
  <2>2. ASSUME NEW p \in Procs, HandlerStep(p)
        PROVE  proc' \in [Procs -> Handler] /\ HandlersOK'
    BY <1>1, <2>2, HandlersStep
  <2>3. QED
    BY <2>1, <2>2
       DEF Next, JobStep, StartStalenessJob, ReadSome, ReadActiveOrders,
           UpdateOrderStaleness, AbortJob, Expire, UpsertMichiWallet, PostSale, vars
<1>3. nonce' \in [Users \X Chains -> Nat]
  <2>1. CASE UNCHANGED nonce
    BY <2>1 DEF TypeInv, TypeOK
  <2>2. ASSUME NEW p \in Procs, SetUserNonce(p)
        PROVE  nonce' \in [Users \X Chains -> Nat]
    <3>1. proc[p].req \in CreateOrderDto
      BY <2>2 DEF SetUserNonce, TypeInv, HandlersOK, CreateSteps
    <3>2. proc[p].req.nonce \in Nat
      BY <3>1 DEF CreateOrderDto
    <3>3. QED  BY <2>2, <3>2 DEF SetUserNonce, TypeInv, TypeOK
  <2>3. QED  BY <2>1, <2>2, UnchangedParts
<1>4. owner' \in [Chains \X Tokens -> Users \cup {None}]
  BY UnchangedParts DEF UpsertMichiWallet, TypeInv, TypeOK
<1>5. sales' \subseteq Sale /\ executed' \subseteq Ids'
  <2>1. CASE UNCHANGED <<sales, executed>>
    BY <1>1, <2>1 DEF TypeInv, TypeOK, Grows
  <2>2. ASSUME NEW p \in Procs, CreateSale(p)
        PROVE  sales' \subseteq Sale /\ executed' \subseteq Ids'
    <3>1. executed' \subseteq Ids'
      BY <1>1, <2>2 DEF CreateSale, TypeInv, TypeOK, Grows
    <3>2. \E e \in PurchaseEvent : sales' = sales \cup {e.sale}
      BY <2>2, SaleTyped
    <3>3. QED  BY <3>1, <3>2 DEF PurchaseEvent, TypeInv, TypeOK
  <2>3. CASE PostSale
    <3>1. sales' \subseteq Sale
      BY <2>3, MarketplaceAssumption DEF PostSale, RecordSale, TypeInv, TypeOK
    <3>2. QED  BY <1>1, <2>3, <3>1 DEF PostSale, TypeInv, TypeOK, Grows
  <2>4. QED  BY <2>1, <2>2, <2>3, UnchangedParts
<1>6. due' \subseteq LiveChains /\ writes' \subseteq [id: Nat, isStale: BOOLEAN]
  <2>1. CASE UNCHANGED <<due, writes>>
    BY <2>1 DEF TypeInv, TypeOK
  <2>2. CASE StartStalenessJob \/ UpdateOrderStaleness \/ AbortJob
    BY <2>2 DEF StartStalenessJob, UpdateOrderStaleness, AbortJob, TypeInv, TypeOK
  <2>3. ASSUME NEW chain \in LiveChains, ReadActiveOrders(chain)
        PROVE  due' \subseteq LiveChains /\ writes' \subseteq [id: Nat, isStale: BOOLEAN]
    <3>1. ActiveOrders(chain) \subseteq Nat
      BY TableIds DEF TypeInv, ActiveOrders
    <3>2. ASSUME NEW firsts, NEW w \in Corrections(ActiveOrders(chain), firsts)
          PROVE  w \in [id: Nat, isStale: BOOLEAN]
      <4>1. PICK i \in ActiveOrders(chain) : w = [id |-> i, isStale |-> i \notin firsts]
        BY <3>2 DEF Corrections
      <4>2. PICK b \in BOOLEAN : b = (i \notin firsts)
        OBVIOUS
      <4>3. i \in Nat /\ w = [id |-> i, isStale |-> b]
        BY <3>1, <4>1, <4>2
      <4>4. QED  BY <4>3
    <3>3. QED
      BY <2>3, <3>2 DEF ReadActiveOrders, TypeInv, TypeOK
  <2>4. QED  BY <2>1, <2>2, <2>3, UnchangedParts
<1>7. faults' \in 0 .. MaxFaults
  BY UnchangedParts, MarketplaceAssumption DEF Abort, AbortJob, TypeInv, TypeOK
<1>8. QED
  BY <1>1, <1>2, <1>3, <1>4, <1>5, <1>6, <1>7 DEF TypeInv, TypeOK

\* Every table, and every record a handler or the job carries, is well formed
\* in every behaviour.
THEOREM TypeCorrect == Spec => []TypeOK
<1>1. Spec => []TypeInv
  BY TypeInit, TypeStep, PTL DEF Spec
<1>2. TypeInv => TypeOK
  BY DEF TypeInv
<1>3. QED  BY <1>1, <1>2, PTL

----------------------------------------------------------------------------
(* No order is hidden on its own account.                                  *)

\* The updates a create handler or the job still has to make hide only
\* orders that have a rival.
PlansOK ==
  \A p \in Procs : proc[p].pc \in {"markStale", "markStaleThrown"} =>
    \A i \in proc[p].plan : i \in Ids /\ HasRival(i)

WritesOK == \A w \in writes : w.id \in Ids /\ (w.isStale => HasRival(w.id))

StaleInv == TypeInv /\ StaleHasRival /\ PlansOK /\ WritesOK

\* Rows are never dropped and orders never change, so a rival stays one.
LEMMA RivalsRemain ==
  ASSUME Grows, NEW j \in Ids, HasRival(j)
  PROVE  j \in Ids' /\ HasRival(j)'
BY DEF Grows, HasRival, Rivals

\* The order a handler inserted is a rival of each one it makes stale.
LEMMA OutdoneHaveRival ==
  ASSUME TypeInv, NEW p \in Procs, proc[p].pc = "readExisting",
         NEW i \in OutdoneBy(proc[p].req, proc[p].me)
  PROVE  i \in Ids /\ HasRival(i)
<1>1. i \in Ids /\ i # proc[p].me /\ Outdoes(proc[p].req, orders[i].dto)
  BY DEF OutdoneBy, UserOrdersOnWallet
<1>2. /\ orders[i].dto.tokenId = proc[p].req.tokenId
      /\ orders[i].dto.participant = proc[p].req.participant
  BY DEF OutdoneBy, UserOrdersOnWallet
<1>3. /\ proc[p].me \in Ids /\ orders[proc[p].me].dto = proc[p].req
      /\ proc[p].req \in CreateOrderDto
  BY DEF TypeInv, HandlersOK, InsertedSteps, CreateSteps
<1>4. orders[i].dto \in CreateOrderDto
  BY <1>1, TableIds DEF TypeInv
<1>5. AsGood(proc[p].req, orders[i].dto)
  BY <1>1, <1>3, <1>4 DEF Outdoes, AsGood, CreateOrderDto
<1>6. Rivals(proc[p].me, i)
  BY <1>1, <1>2, <1>3, <1>5 DEF Rivals, Outdoes
<1>7. QED  BY <1>1, <1>3, <1>6 DEF HasRival

\* The first of its group is a rival of each order the job hides.
LEMMA CorrectionsHaveRival ==
  ASSUME TypeInv, NEW chain,
         NEW firsts \in Picks(ActiveOrders(chain), SameGroup, SortsBefore),
         NEW w \in Corrections(ActiveOrders(chain), firsts)
  PROVE  w.id \in Ids /\ (w.isStale => HasRival(w.id))
<1>1. PICK i \in ActiveOrders(chain) : w = [id |-> i, isStale |-> i \notin firsts]
  BY DEF Corrections
<1>2. firsts \subseteq ActiveOrders(chain) /\ ActiveOrders(chain) \subseteq Ids
  BY DEF Picks, ActiveOrders
<1>3. PICK j \in firsts : SameGroup(i, j) /\ ~SortsBefore(i, j)
  BY DEF Picks
<1>4. i \in Ids /\ j \in Ids
  BY <1>2
<1>5. orders[i].dto \in CreateOrderDto /\ orders[j].dto \in CreateOrderDto
  BY <1>4, TableIds DEF TypeInv
<1>6. AsGood(orders[j].dto, orders[i].dto)
  <2>1. orders[i].dto.amount \in Nat /\ orders[j].dto.amount \in Nat
    BY <1>5 DEF CreateOrderDto
  <2>2. orders[i].dto.type = orders[j].dto.type
    BY <1>3 DEF SameGroup
  <2>3. CASE orders[i].dto.type = "LISTING"
    <3>1. ~(orders[i].dto.amount < orders[j].dto.amount)
      BY <1>3, <2>3 DEF SortsBefore
    <3>2. orders[j].dto.amount <= orders[i].dto.amount
      BY <2>1, <3>1
    <3>3. QED  BY <2>3, <3>2 DEF AsGood
  <2>4. CASE orders[i].dto.type # "LISTING"
    <3>1. ~(orders[i].dto.amount > orders[j].dto.amount)
      BY <1>3, <2>4 DEF SortsBefore
    <3>2. orders[j].dto.amount >= orders[i].dto.amount
      BY <2>1, <3>1
    <3>3. QED  BY <2>4, <3>2 DEF AsGood
  <2>5. QED  BY <2>3, <2>4
<1>7. i \notin firsts => Rivals(j, i)
  BY <1>3, <1>6 DEF Rivals, SameGroup
<1>8. w.id = i /\ (w.isStale <=> i \notin firsts)
  BY <1>1
<1>9. QED  BY <1>4, <1>7, <1>8 DEF HasRival

\* A step leaves a row as shown as it was, or hides one that has a rival.
Hides ==
  \A i \in Ids' : orders'[i].isStale =>
    i \in Ids /\ (orders[i].isStale \/ HasRival(i))

LEMMA SetStaleHides ==
  ASSUME TypeInv, NEW i \in Ids, NEW b \in BOOLEAN, b => HasRival(i),
         orders' = WithStale(i, b)
  PROVE  Hides
<1>1. Ids' = Ids
  BY SetStaleRewrites, RewritesGrow DEF TypeInv
<1>2. \A k \in Ids : orders'[k].isStale = IF k = i THEN b ELSE orders[k].isStale
  BY TableIds DEF TypeInv, WithStale, Row
<1>3. QED  BY <1>1, <1>2 DEF Hides

LEMMA StepHides ==
  ASSUME StaleInv, [Next]_vars
  PROVE  Hides
<1>1. ASSUME UNCHANGED orders
      PROVE  Hides
  BY <1>1 DEF Hides, Ids
<1>2. ASSUME NEW p \in Procs, HandlerStep(p)
      PROVE  Hides
  <2>1. CASE InsertOrder(p)
    BY <2>1, InsertAppends DEF StaleInv, Hides
  <2>2. CASE MarkStale(p)
    <3>1. PICK i \in proc[p].plan : orders' = orders \/ orders' = WithStale(i, TRUE)
      BY <2>2 DEF MarkStale
    <3>2. i \in Ids /\ HasRival(i)
      BY <2>2 DEF MarkStale, StaleInv, PlansOK
    <3>3. QED  BY <1>1, <3>1, <3>2, SetStaleHides DEF StaleInv
  <2>3. CASE Unstale(p)
    <3>1. \A i \in Ids : orders'[i].isStale => orders[i].isStale
      BY <2>3, TableIds DEF Unstale, Row, StaleInv, TypeInv
    <3>2. Ids' = Ids
      BY <2>3, StaleRewrites, RewritesGrow DEF StaleInv, TypeInv
    <3>3. QED  BY <3>1, <3>2 DEF Hides
  <2>4. CASE CancelOrders(p) \/ MarkOrdersAsPendingCancellation(p) \/ DeleteOrder(p)
    <3>1. \A i \in Ids : orders'[i].isStale = orders[i].isStale
      BY <2>4, StatusSteps DEF StaleInv, TypeInv
    <3>2. Ids' = Ids
      BY <2>4, StatusRewrites, RewritesGrow DEF StaleInv, TypeInv
    <3>3. QED  BY <3>1, <3>2 DEF Hides
  <2>5. QED
    BY <1>1, <1>2, <2>1, <2>2, <2>3, <2>4
       DEF HandlerStep, CreateOrder, ValidateExisting, RejectDuplicateNonce,
           ReadExisting, GetUserNonce, SetUserNonce, ReadCancelled, ReadOthers,
           ProcessCancellationTx, CreateSale, Abort
<1>3. CASE UpdateOrderStaleness
  <2>1. orders' = orders \/ \E w \in writes : orders' = WithStale(w.id, w.isStale)
    BY <1>3 DEF UpdateOrderStaleness
  <2>2. \A w \in writes :
          w.isStale \in BOOLEAN /\ w.id \in Ids /\ (w.isStale => HasRival(w.id))
    BY DEF StaleInv, WritesOK, TypeInv, TypeOK
  <2>3. QED  BY <1>1, <2>1, <2>2, SetStaleHides DEF StaleInv
<1>4. CASE Expire
  <2>1. Ids' = Ids
    BY <1>4, ExpireRewrites, RewritesGrow DEF StaleInv, TypeInv
  <2>2. \A i \in Ids : orders'[i].isStale = orders[i].isStale
    BY <1>4, TableIds DEF Expire, Row, StaleInv, TypeInv
  <2>3. QED  BY <2>1, <2>2 DEF Hides
<1>5. QED
  BY <1>1, <1>2, <1>3, <1>4
     DEF Next, JobStep, StartStalenessJob, ReadSome, ReadActiveOrders, AbortJob,
         UpsertMichiWallet, PostSale, vars

LEMMA MovesTo ==
  ASSUME proc \in [Procs -> Handler], NEW p \in Procs, NEW step, NEW x,
         \/ proc' = [proc EXCEPT ![p].pc = step, ![p].req = x]
         \/ proc' = [proc EXCEPT ![p].pc = step, ![p].me = x]
         \/ proc' = [proc EXCEPT ![p].pc = step, ![p].plan = x]
  PROVE  proc'[p].pc = step
<1>1. \/ proc'[p] = [proc[p] EXCEPT !.pc = step, !.req = x]
      \/ proc'[p] = [proc[p] EXCEPT !.pc = step, !.me = x]
      \/ proc'[p] = [proc[p] EXCEPT !.pc = step, !.plan = x]
  OBVIOUS
<1>2. QED  BY <1>1 DEF Handler

\* Where a step takes a handler; the others stay where they are.
LEMMA WhereTo ==
  ASSUME proc \in [Procs -> Handler], NEW p \in Procs, HandlerStep(p)
  PROVE  /\ \A q \in Procs : q # p => proc'[q] = proc[q]
         /\ \/ ReadExisting(p) /\ proc'[p].pc \in {"getNonce", "markStale"}
            \/ MarkStale(p) /\ proc'[p].pc # "deleteOrder"
            \/ CreateSale(p) /\ proc'[p].pc = "deleteOrder"
            \/ proc'[p].pc \in (CreateSteps \ {"markStale", "markStaleThrown"})
                                \cup CancelSteps \cup {"idle"}
<1>1. \A q \in Procs : q # p => proc'[q] = proc[q]
  BY DEF HandlerStep, CreateOrder, ValidateExisting, InsertOrder,
         RejectDuplicateNonce, ReadExisting, MarkStale, GetUserNonce, SetUserNonce,
         CancelOrders, ReadCancelled, ReadOthers, Unstale, ProcessCancellationTx,
         MarkOrdersAsPendingCancellation, CreateSale, DeleteOrder, Abort, Go, Return
<1>2. ASSUME Return(p)
      PROVE  proc'[p].pc = "idle"
  BY <1>2 DEF Return, Idle
<1>3. ASSUME NEW step, Go(p, step)
      PROVE  proc'[p].pc = step
  <2>1. proc'[p] = [proc[p] EXCEPT !.pc = step]
    BY <1>3 DEF Go
  <2>2. QED  BY <2>1 DEF Handler
<1>4. CASE CreateOrder(p) \/ CancelOrders(p) \/ ProcessCancellationTx(p)
  <2>1. ASSUME NEW step, NEW x, proc' = [proc EXCEPT ![p].pc = step, ![p].req = x]
        PROVE  proc'[p].pc = step
    BY <2>1, MovesTo
  <2>2. proc'[p].pc \in {"validateExisting", "readCancelled", "markPending"}
    BY <1>4, <2>1 DEF CreateOrder, CancelOrders, ProcessCancellationTx
  <2>3. QED  BY <1>1, <2>2 DEF CreateSteps, CancelSteps
<1>5. CASE CreateSale(p)
  <2>1. PICK x : proc' = [proc EXCEPT ![p].pc = "deleteOrder", ![p].req = x]
    BY <1>5 DEF CreateSale
  <2>2. QED  BY <1>1, <1>5, <2>1, MovesTo
<1>6. CASE InsertOrder(p)
  <2>1. proc'[p].pc = "readExisting"
    BY <1>6, MovesTo DEF InsertOrder
  <2>2. QED  BY <1>1, <2>1 DEF CreateSteps
<1>7. CASE ReadExisting(p) \/ ReadCancelled(p) \/ ReadOthers(p)
  <2>1. PICK x, step :
          /\ proc' = [proc EXCEPT ![p].pc = step, ![p].plan = x]
          /\ \/ ReadExisting(p) /\ step \in {"getNonce", "markStale"}
             \/ step \in {"readOthers", "unstale"}
    BY <1>7 DEF ReadExisting, ReadCancelled, ReadOthers
  <2>2. proc'[p].pc = step
    BY <2>1, MovesTo
  <2>3. QED  BY <1>1, <2>1, <2>2 DEF CancelSteps
<1>8. CASE MarkStale(p)
  <2>1. PICK x :
          \/ proc' = [proc EXCEPT ![p] = Idle]
          \/ \E step \in {"markStale", "markStaleThrown", "getNonce"} :
               proc' = [proc EXCEPT ![p] = [@ EXCEPT !.plan = x, !.pc = step]]
    BY <1>8 DEF MarkStale
  <2>2. ASSUME NEW step \in {"markStale", "markStaleThrown", "getNonce"},
               proc' = [proc EXCEPT ![p] = [@ EXCEPT !.plan = x, !.pc = step]]
        PROVE  proc'[p].pc = step
    <3>1. proc'[p] = [proc[p] EXCEPT !.plan = x, !.pc = step]
      BY <2>2
    <3>2. QED  BY <3>1 DEF Handler
  <2>3. proc'[p].pc # "deleteOrder"
    BY <2>1, <2>2 DEF Idle
  <2>4. QED  BY <1>1, <1>8, <2>3
<1>9. CASE ValidateExisting(p) \/ RejectDuplicateNonce(p) \/ GetUserNonce(p) \/ SetUserNonce(p)
  <2>1. Return(p) \/ \E step \in {"insert", "setNonce"} : Go(p, step)
    BY <1>9 DEF ValidateExisting, RejectDuplicateNonce, GetUserNonce, SetUserNonce
  <2>2. proc'[p].pc \in {"idle", "insert", "setNonce"}
    BY <1>2, <1>3, <2>1
  <2>3. QED  BY <1>1, <2>2 DEF CreateSteps
<1>10. CASE Unstale(p) \/ MarkOrdersAsPendingCancellation(p) \/ DeleteOrder(p) \/ Abort(p)
  <2>1. Return(p)
    BY <1>10 DEF Unstale, MarkOrdersAsPendingCancellation, DeleteOrder, Abort
  <2>2. QED  BY <1>1, <1>2, <2>1
<1>11. QED
  BY <1>4, <1>5, <1>6, <1>7, <1>8, <1>9, <1>10 DEF HandlerStep

\* A step of a handler leaves its plan as it was, drops an order from it, or
\* reads it anew.
LEMMA PlansStep ==
  ASSUME StaleInv, Grows, NEW p \in Procs, HandlerStep(p)
  PROVE  PlansOK'
<1>1. proc \in [Procs -> Handler] /\ proc[p] \in Handler
  BY DEF StaleInv, TypeInv, TypeOK
<1>2. ASSUME NEW q \in Procs,
             proc'[q].pc \in {"markStale", "markStaleThrown"},
             NEW i \in proc'[q].plan
      PROVE  i \in Ids /\ HasRival(i)
  <2>1. CASE proc'[q] = proc[q]
    BY <1>2, <2>1 DEF StaleInv, PlansOK
  <2>2. CASE q = p /\ ReadExisting(p)
    <3>1. proc'[p].plan = OutdoneBy(proc[p].req, proc[p].me) /\ proc[p].pc = "readExisting"
      BY <1>1, <2>2 DEF ReadExisting, Handler
    <3>2. QED  BY <1>2, <2>2, <3>1, OutdoneHaveRival DEF StaleInv
  <2>3. CASE q = p /\ MarkStale(p)
    <3>1. proc[p].pc \in {"markStale", "markStaleThrown"}
      BY <2>3 DEF MarkStale
    <3>2. PICK k \in proc[p].plan :
            \/ proc' = [proc EXCEPT ![p] = Idle]
            \/ \E step \in {"markStale", "markStaleThrown", "getNonce"} :
                 proc' = [proc EXCEPT ![p] =
                            [@ EXCEPT !.plan = proc[p].plan \ {k}, !.pc = step]]
      BY <2>3 DEF MarkStale
    <3>3. proc'[p].pc = "idle" \/ proc'[p].plan = proc[p].plan \ {k}
      <4>1. CASE proc' = [proc EXCEPT ![p] = Idle]
        BY <1>1, <4>1 DEF Idle
      <4>2. ASSUME NEW step,
                   proc' = [proc EXCEPT ![p] =
                              [@ EXCEPT !.plan = proc[p].plan \ {k}, !.pc = step]]
            PROVE  proc'[p].plan = proc[p].plan \ {k}
        <5>1. proc'[p] = [proc[p] EXCEPT !.plan = proc[p].plan \ {k}, !.pc = step]
          BY <1>1, <4>2
        <5>2. QED  BY <1>1, <5>1 DEF Handler
      <4>3. QED  BY <3>2, <4>1, <4>2
    <3>4. i \in proc[p].plan
      BY <1>2, <2>3, <3>3
    <3>5. QED  BY <3>1, <3>4 DEF StaleInv, PlansOK
  <2>4. QED
    BY <1>1, <1>2, <2>1, <2>2, <2>3, WhereTo DEF CancelSteps
<1>3. QED  BY <1>2, RivalsRemain DEF PlansOK

LEMMA StaleStep == StaleInv /\ [Next]_vars => StaleInv'
<1> SUFFICES ASSUME StaleInv, [Next]_vars
             PROVE  StaleInv'
  OBVIOUS
<1>1. Grows
  BY StepOnOrders DEF StaleInv
<1>2. StaleHasRival'
  <2>1. ASSUME NEW i \in Ids', orders'[i].isStale
        PROVE  HasRival(i)'
    <3>1. i \in Ids /\ (orders[i].isStale \/ HasRival(i))
      BY <2>1, StepHides DEF Hides
    <3>2. HasRival(i)
      BY <3>1 DEF StaleInv, StaleHasRival
    <3>3. QED  BY <1>1, <3>1, <3>2, RivalsRemain
  <2>2. QED  BY <2>1 DEF StaleHasRival
<1>3. PlansOK'
  <2>1. CASE UNCHANGED proc
    BY <1>1, <2>1, RivalsRemain DEF StaleInv, PlansOK
  <2>2. ASSUME NEW p \in Procs, HandlerStep(p)
        PROVE  PlansOK'
    BY <1>1, <2>2, PlansStep
  <2>3. QED
    BY <2>1, <2>2
       DEF Next, JobStep, StartStalenessJob, ReadSome, ReadActiveOrders,
           UpdateOrderStaleness, AbortJob, Expire, UpsertMichiWallet, PostSale, vars
<1>4. WritesOK'
  <2>1. ASSUME NEW w \in writes'
        PROVE  w.id \in Ids /\ (w.isStale => HasRival(w.id))
    <3>1. CASE w \in writes
      BY <3>1 DEF StaleInv, WritesOK
    <3>2. ASSUME NEW chain \in LiveChains, ReadActiveOrders(chain)
          PROVE  w.id \in Ids /\ (w.isStale => HasRival(w.id))
      <4>1. PICK firsts \in Picks(ActiveOrders(chain), SameGroup, SortsBefore) :
              writes' = writes \cup Corrections(ActiveOrders(chain), firsts)
        BY <3>2 DEF ReadActiveOrders
      <4>2. QED  BY <2>1, <3>1, <4>1, CorrectionsHaveRival DEF StaleInv
    <3>3. QED
      BY <2>1, <3>1, <3>2, UnchangedParts
         DEF StaleInv, StartStalenessJob, UpdateOrderStaleness, AbortJob
  <2>2. QED  BY <1>1, <2>1, RivalsRemain DEF WritesOK, Grows
<1>5. QED  BY <1>2, <1>3, <1>4, TypeStep DEF StaleInv

\* Whatever create handlers and staleness runs interleave, an order is hidden
\* only if its participant placed one as good for that token.
THEOREM StaleAlwaysHasRival == Spec => []StaleHasRival
<1>1. Init => StaleInv
  BY TypeInit DEF Init, StaleInv, StaleHasRival, PlansOK, WritesOK, Ids, Idle
<1>2. Spec => []StaleInv
  BY <1>1, StaleStep, PTL DEF Spec
<1>3. StaleInv => StaleHasRival
  BY DEF StaleInv
<1>4. QED  BY <1>2, <1>3, PTL

\* Nobody places orders for wallets of two chains that have the same index.
IndexOnOneChain ==
  \A i, j \in Ids :
    /\ orders[i].dto.participant = orders[j].dto.participant
    /\ orders[i].dto.tokenId = orders[j].dto.tokenId
    => orders[i].dto.chainId = orders[j].dto.chainId

\* The where clause without a chain is all that hides orders of other wallets:
\* as long as nobody has orders for one index on two chains, an order is hidden
\* only for one as good on the same wallet.
THEOREM StaleOnlyForItsWallet ==
  Spec /\ []IndexOnOneChain => []StaleOnlyIfOutdoneOnSameWallet
<1>1. StaleHasRival /\ IndexOnOneChain => StaleOnlyIfOutdoneOnSameWallet
  BY DEF StaleHasRival, HasRival, Rivals, IndexOnOneChain, StaleOnlyIfOutdoneOnSameWallet
<1>2. QED  BY <1>1, StaleAlwaysHasRival, PTL

----------------------------------------------------------------------------
(* The saved nonce.                                                        *)

NonceInv == TypeInv /\ NonceIsOfAcceptedOrder

LEMMA NonceStep == NonceInv /\ [Next]_vars => NonceInv'
<1> SUFFICES ASSUME NonceInv, [Next]_vars
             PROVE  NonceInv'
  OBVIOUS
<1>1. Grows
  BY StepOnOrders DEF NonceInv
<1>2. ASSUME NEW u \in Users, NEW c \in Chains
      PROVE  \/ nonce'[<<u, c>>] = 0
             \/ \E i \in Ids' :
                  /\ orders'[i].dto.participant = u /\ orders'[i].dto.chainId = c
                  /\ orders'[i].dto.nonce = nonce'[<<u, c>>]
  <2>1. CASE nonce'[<<u, c>>] = nonce[<<u, c>>]
    BY <1>1, <2>1 DEF NonceInv, NonceIsOfAcceptedOrder, Grows
  <2>2. ASSUME NEW p \in Procs, SetUserNonce(p), nonce'[<<u, c>>] # nonce[<<u, c>>]
        PROVE  \E i \in Ids' :
                 /\ orders'[i].dto.participant = u /\ orders'[i].dto.chainId = c
                 /\ orders'[i].dto.nonce = nonce'[<<u, c>>]
    <3> DEFINE dto == proc[p].req
    <3>1. /\ proc[p].me \in Ids /\ orders[proc[p].me].dto = dto
          /\ dto \in CreateOrderDto
      BY <2>2 DEF SetUserNonce, NonceInv, TypeInv, HandlersOK, InsertedSteps, CreateSteps
    <3>2. nonce' = [nonce EXCEPT ![<<dto.participant, dto.chainId>>] = dto.nonce]
      BY <2>2 DEF SetUserNonce
    <3>3. nonce \in [Users \X Chains -> Nat]
      BY DEF NonceInv, TypeInv, TypeOK
    <3>4. u = dto.participant /\ c = dto.chainId /\ nonce'[<<u, c>>] = dto.nonce
      BY <2>2, <3>2, <3>3
    <3>5. proc[p].me \in Ids' /\ orders'[proc[p].me].dto = dto
      BY <1>1, <3>1 DEF Grows
    <3>6. QED  BY <3>4, <3>5
  <2>3. QED  BY <2>1, <2>2, UnchangedParts
<1>3. NonceIsOfAcceptedOrder'
  BY <1>2 DEF NonceIsOfAcceptedOrder, Ids
<1>4. QED  BY <1>3, TypeStep DEF NonceInv

\* The saved nonce is always that of an order that was accepted.
THEOREM NonceAlwaysAccepted == Spec => []NonceIsOfAcceptedOrder
<1>1. Init => NonceInv
  BY TypeInit DEF Init, NonceInv, NonceIsOfAcceptedOrder
<1>2. Spec => []NonceInv
  BY <1>1, NonceStep, PTL DEF Spec
<1>3. NonceInv => NonceIsOfAcceptedOrder
  BY DEF NonceInv
<1>4. QED  BY <1>2, <1>3, PTL

----------------------------------------------------------------------------
(* Sales and cancellations.                                                *)

Matches(i, e) ==
  PurchaseOf(i, e) /\ orders[i].dto.participant \in {e.sale.buyer, e.sale.seller}

\* Only the insertion adds a row, and it is not a removed one.
LEMMA StepKeepsIds ==
  ASSUME TypeInv, [Next]_vars
  PROVE  Ids' = Ids \/ \E p \in Procs : InsertOrder(p)
<1>1. ASSUME Rewrites
      PROVE  Ids' = Ids
  BY <1>1, RewritesGrow DEF TypeInv
<1>2. ASSUME UNCHANGED orders
      PROVE  Ids' = Ids
  BY <1>2 DEF Ids
<1>3. ASSUME NEW p \in Procs, HandlerStep(p)
      PROVE  Ids' = Ids \/ InsertOrder(p)
  BY <1>1, <1>2, <1>3, StaleRewrites, StatusRewrites
     DEF HandlerStep, CreateOrder, ValidateExisting, RejectDuplicateNonce,
         ReadExisting, GetUserNonce, SetUserNonce, ReadCancelled, ReadOthers,
         ProcessCancellationTx, CreateSale, Abort, TypeInv
<1>4. CASE UpdateOrderStaleness
  <2>1. orders' = orders \/ \E w \in writes : orders' = WithStale(w.id, w.isStale)
    BY <1>4 DEF UpdateOrderStaleness
  <2>2. \A w \in writes : w.isStale \in BOOLEAN
    BY DEF TypeInv, TypeOK
  <2>3. QED  BY <1>1, <1>2, <2>1, <2>2, SetStaleRewrites DEF TypeInv
<1>5. CASE Expire
  BY <1>1, <1>5, ExpireRewrites DEF TypeInv
<1>6. QED
  BY <1>2, <1>3, <1>4, <1>5
     DEF Next, JobStep, StartStalenessJob, ReadSome, ReadActiveOrders, AbortJob,
         UpsertMichiWallet, PostSale, vars

\* How a step may change the status of row i: a removal is of an order a
\* purchase names, and a cancelled order is removed or was reported.
StatusMoves(i) ==
  /\ orders'[i].status = "DELETED" =>
       \/ Deleted(i)
       \/ \E p \in Procs : proc[p].pc = "deleteOrder" /\ Matches(i, proc[p].req)
  /\ orders[i].status = "CANCELLED" =>
       \/ orders'[i].status \in {"CANCELLED", "DELETED"}
       \/ /\ orders'[i].status = "PROCESSING_CANCELLATION"
          /\ \E p \in Procs : Reports(p, i) /\ proc'[p] = Idle

LEMMA StatusStep ==
  ASSUME TypeInv, [Next]_vars, NEW i \in Ids
  PROVE  StatusMoves(i)
<1>1. CASE orders'[i].status = orders[i].status
  BY <1>1 DEF StatusMoves, Deleted
<1>2. ASSUME NEW p \in Procs, CancelOrders(p)
      PROVE  StatusMoves(i)
  <2>1. orders'[i] = orders[i] \/ orders'[i].status = "CANCELLED"
    BY <1>2, TableIds DEF CancelOrders, Cancelled, Row, TypeInv
  <2>2. QED  BY <1>1, <2>1 DEF StatusMoves
<1>3. ASSUME NEW p \in Procs, MarkOrdersAsPendingCancellation(p)
      PROVE  StatusMoves(i)
  <2>1. \/ orders'[i] = orders[i]
        \/ orders'[i].status = "PROCESSING_CANCELLATION" /\ Reports(p, i)
    BY <1>3, TableIds DEF MarkOrdersAsPendingCancellation, Reports, Row, TypeInv
  <2>2. proc'[p] = Idle
    BY <1>3 DEF MarkOrdersAsPendingCancellation, Return, TypeInv, TypeOK
  <2>3. QED  BY <1>1, <2>1, <2>2 DEF StatusMoves
<1>4. ASSUME NEW p \in Procs, DeleteOrder(p)
      PROVE  StatusMoves(i)
  <2>1. \/ orders'[i] = orders[i]
        \/ orders'[i].status = "DELETED" /\ Matches(i, proc[p].req)
    BY <1>4, TableIds DEF DeleteOrder, Matches, PurchaseOf, Row, TypeInv
  <2>2. proc[p].pc = "deleteOrder"
    BY <1>4 DEF DeleteOrder
  <2>3. QED  BY <1>1, <2>1, <2>2 DEF StatusMoves
<1>5. ASSUME NEW k, NEW b, orders' = WithStale(k, b)
      PROVE  StatusMoves(i)
  <2>1. orders'[i].status = orders[i].status
    BY <1>5, TableIds DEF WithStale, Row, TypeInv
  <2>2. QED  BY <1>1, <2>1
<1>6. ASSUME NEW p \in Procs, HandlerStep(p)
      PROVE  StatusMoves(i)
  <2>1. CASE InsertOrder(p)
    BY <1>1, <2>1, InsertAppends
  <2>2. CASE MarkStale(p)
    BY <1>1, <1>5, <2>2 DEF MarkStale
  <2>3. CASE Unstale(p)
    <3>1. orders'[i].status = orders[i].status
      BY <2>3, TableIds DEF Unstale, Row, TypeInv
    <3>2. QED  BY <1>1, <3>1
  <2>4. QED
    BY <1>1, <1>2, <1>3, <1>4, <1>6, <2>1, <2>2, <2>3
       DEF HandlerStep, CreateOrder, ValidateExisting, RejectDuplicateNonce,
           ReadExisting, GetUserNonce, SetUserNonce, ReadCancelled, ReadOthers,
           ProcessCancellationTx, CreateSale, Abort
<1>7. CASE UpdateOrderStaleness
  BY <1>1, <1>5, <1>7 DEF UpdateOrderStaleness
<1>8. CASE Expire
  <2>1. orders'[i].status = orders[i].status
    BY <1>8, TableIds DEF Expire, Row, TypeInv
  <2>2. QED  BY <1>1, <2>1
<1>9. QED
  BY <1>1, <1>6, <1>7, <1>8
     DEF Next, JobStep, StartStalenessJob, ReadSome, ReadActiveOrders, AbortJob,
         UpsertMichiWallet, PostSale, vars

\* A handler that is about to remove orders has recorded the sale, of an order
\* the chain has executed.
PurchaseMade(e) == e.sale \in sales /\ \E k \in executed : PurchaseOf(k, e)

SoldInv ==
  /\ TypeInv
  /\ DeletedWasSold
  /\ \A p \in Procs : proc[p].pc = "deleteOrder" => PurchaseMade(proc[p].req)

LEMMA SoldStep == SoldInv /\ [Next]_vars => SoldInv'
<1> SUFFICES ASSUME SoldInv, [Next]_vars
             PROVE  SoldInv'
  OBVIOUS
<1>1. Grows
  BY StepOnOrders DEF SoldInv
<1>2. sales \subseteq sales' /\ executed \subseteq executed' /\ executed \subseteq Ids
  BY UnchangedParts DEF CreateSale, PostSale, RecordSale, SoldInv, TypeInv, TypeOK
<1>3. ASSUME NEW i \in Ids, orders'[i].status = "DELETED"
      PROVE  \E s \in sales :
               /\ s.chainId = orders[i].dto.chainId /\ s.tokenId = orders[i].dto.tokenId
               /\ orders[i].dto.participant \in {s.buyer, s.seller}
  <2>1. CASE Deleted(i)
    BY <2>1 DEF SoldInv, DeletedWasSold
  <2>2. ASSUME NEW p \in Procs, proc[p].pc = "deleteOrder", Matches(i, proc[p].req)
        PROVE  \E s \in sales :
                 /\ s.chainId = orders[i].dto.chainId /\ s.tokenId = orders[i].dto.tokenId
                 /\ orders[i].dto.participant \in {s.buyer, s.seller}
    BY <2>2 DEF SoldInv, Matches, PurchaseOf, PurchaseMade
  <2>3. QED  BY <1>3, <2>1, <2>2, StatusStep DEF StatusMoves, SoldInv
<1>4. \A i \in Ids' : orders'[i].status = "DELETED" => i \in Ids
  <2>1. CASE Ids' = Ids
    BY <2>1
  <2>2. ASSUME NEW p \in Procs, InsertOrder(p)
        PROVE  \A i \in Ids' : orders'[i].status = "DELETED" => i \in Ids
    BY <2>2, InsertAppends DEF SoldInv
  <2>3. QED  BY <2>1, <2>2, StepKeepsIds DEF SoldInv
<1>5. DeletedWasSold'
  BY <1>1, <1>2, <1>3, <1>4 DEF DeletedWasSold, Deleted, Grows
<1>6. ASSUME NEW q \in Procs, proc'[q].pc = "deleteOrder"
      PROVE  PurchaseMade(proc[q].req)'
  <2>1. CASE proc'[q] = proc[q]
    BY <1>1, <1>2, <1>6, <2>1 DEF SoldInv, PurchaseMade, PurchaseOf, Grows
  <2>2. ASSUME NEW p \in Procs, HandlerStep(p), proc'[q] # proc[q]
        PROVE  CreateSale(p) /\ q = p
    BY <1>6, <2>2, WhereTo DEF SoldInv, TypeInv, TypeOK, CreateSteps, CancelSteps
  <2>3. ASSUME NEW p \in Procs, CreateSale(p), q = p
        PROVE  PurchaseMade(proc[q].req)'
    <3>1. PICK e \in PurchaseEvent :
            /\ proc' = [proc EXCEPT ![p].pc = "deleteOrder", ![p].req = e]
            /\ sales' = sales \cup {e.sale}
            /\ \E i \in Ids : PurchaseOf(i, e) /\ executed' = executed \cup {i}
      BY <2>3, SaleTyped DEF SoldInv
    <3>2. proc \in [Procs -> Handler]
      BY DEF SoldInv, TypeInv, TypeOK
    <3>3. proc'[p] = [proc[p] EXCEPT !.pc = "deleteOrder", !.req = e]
      BY <3>1, <3>2
    <3>4. proc'[p].req = e
      BY <3>2, <3>3 DEF Handler
    <3>5. PICK i \in Ids : PurchaseOf(i, e) /\ executed' = executed \cup {i}
      BY <3>1
    <3>6. i \in executed' /\ orders'[i].dto = orders[i].dto
      BY <1>1, <3>5 DEF Grows
    <3>7. \E k \in executed' : /\ orders'[k].dto.chainId = e.sale.chainId
                                /\ orders'[k].dto.tokenId = e.sale.tokenId
                                /\ orders'[k].dto.nonce = e.nonce
      BY <3>5, <3>6 DEF PurchaseOf
    <3>8. e.sale \in sales'
      BY <3>1
    <3>9. QED  BY <2>3, <3>4, <3>7, <3>8 DEF PurchaseMade, PurchaseOf
  <2>4. QED
    BY <2>1, <2>2, <2>3
       DEF Next, JobStep, StartStalenessJob, ReadSome, ReadActiveOrders,
           UpdateOrderStaleness, AbortJob, Expire, UpsertMichiWallet, PostSale, vars
<1>7. QED  BY <1>5, <1>6, TypeStep DEF SoldInv

LEMMA SoldAlways == Spec => []SoldInv
<1>1. Init => SoldInv
  BY TypeInit DEF Init, SoldInv, DeletedWasSold, Ids, Idle
<1>2. QED  BY <1>1, SoldStep, PTL DEF Spec

\* A removed order was sold: no purchase whose handling stops half way leaves
\* a removed order without its sale.
THEOREM DeletedAlwaysSold == Spec => []DeletedWasSold
<1>1. SoldInv => DeletedWasSold
  BY DEF SoldInv
<1>2. QED  BY <1>1, SoldAlways, PTL

\* Whatever creates, the job, unstaling and restarts do with what they have
\* read, a cancelled order of any user leaves that status only by a report of
\* its transaction that lands late, to PROCESSING_CANCELLATION, or is removed
\* for an order of its nonce and wallet that the chain has executed.
THEOREM CancelledStaysUnlessReported == Spec => CancelledComesBackOnlyReported
<1> DEFINE StaysUnlessReported ==
      \A i \in Ids :
        orders[i].status = "CANCELLED" =>
          \/ orders'[i].status = "CANCELLED"
          \/ /\ orders'[i].status = "PROCESSING_CANCELLATION"
             /\ \E p \in Procs : Reports(p, i) /\ proc'[p] = Idle
          \/ orders'[i].status = "DELETED" /\ ExecutedWith(i)
<1>1. ASSUME SoldInv, [Next]_vars, NEW i \in Ids,
             orders[i].status = "CANCELLED", orders'[i].status = "DELETED"
      PROVE  ExecutedWith(i)
  <2>1. PICK p \in Procs : proc[p].pc = "deleteOrder" /\ Matches(i, proc[p].req)
    BY <1>1, StatusStep DEF StatusMoves, Deleted, SoldInv
  <2>2. PurchaseMade(proc[p].req)
    BY <1>1, <2>1 DEF SoldInv
  <2>3. QED  BY <2>1, <2>2 DEF PurchaseMade, Matches, PurchaseOf, ExecutedWith
<1>2. SoldInv /\ [Next]_vars => [StaysUnlessReported]_vars
  BY <1>1, StatusStep DEF StatusMoves, SoldInv
<1>3. QED  BY <1>2, SoldAlways, PTL DEF Spec, CancelledComesBackOnlyReported

----------------------------------------------------------------------------
(* One request at a time.                                                  *)

OneAtATime == \A p, q \in Procs : p = q

\* What an assignment of a handler makes of its fields.
LEMMA ReqTo ==
  ASSUME proc \in [Procs -> Handler], NEW p \in Procs, NEW step, NEW x,
         proc' = [proc EXCEPT ![p].pc = step, ![p].req = x]
  PROVE  proc'[p].pc = step /\ proc'[p].req = x
<1>1. proc[p] \in Handler /\ proc'[p] = [proc[p] EXCEPT !.pc = step, !.req = x]
  OBVIOUS
<1>2. QED  BY <1>1 DEF Handler

LEMMA PlanTo ==
  ASSUME proc \in [Procs -> Handler], NEW p \in Procs, NEW step, NEW x,
         proc' = [proc EXCEPT ![p].pc = step, ![p].plan = x]
  PROVE  /\ proc'[p].pc = step /\ proc'[p].plan = x
         /\ proc'[p].me = proc[p].me /\ proc'[p].req = proc[p].req
<1>1. proc[p] \in Handler /\ proc'[p] = [proc[p] EXCEPT !.pc = step, !.plan = x]
  OBVIOUS
<1>2. QED  BY <1>1 DEF Handler

\* Either what MarkStale leaves of the handler's plan, or the handler is done.
LEMMA MarkTo ==
  ASSUME TypeInv, NEW p \in Procs, MarkStale(p)
  PROVE  \E i \in proc[p].plan :
           /\ orders' = IF Deleted(i) THEN orders ELSE WithStale(i, TRUE)
           /\ \/ /\ proc'[p].pc = "idle"
                 /\ proc[p].plan = {i}
                 /\ Deleted(i) \/ proc[p].pc = "markStaleThrown"
              \/ /\ proc'[p].pc \in {"markStale", "markStaleThrown", "getNonce"}
                 /\ proc'[p].pc = "markStaleThrown" =>
                      Deleted(i) \/ proc[p].pc = "markStaleThrown"
                 /\ proc'[p].pc = "getNonce" => proc[p].plan = {i}
                 /\ proc'[p].plan = proc[p].plan \ {i}
                 /\ proc'[p].me = proc[p].me /\ proc'[p].req = proc[p].req
<1>1. proc[p] \in Handler
  BY DEF TypeInv, TypeOK
<1>2. PICK i \in proc[p].plan :
        LET rest   == proc[p].plan \ {i}
            thrown == Deleted(i) \/ proc[p].pc = "markStaleThrown" IN
        /\ orders' = IF Deleted(i) THEN orders ELSE WithStale(i, TRUE)
        /\ proc' = [proc EXCEPT ![p] =
             CASE rest # {} -> [@ EXCEPT !.plan = rest,
                                !.pc = IF thrown THEN "markStaleThrown" ELSE "markStale"]
               [] rest = {} /\ thrown -> Idle
               [] OTHER -> [@ EXCEPT !.plan = {}, !.pc = "getNonce"]]
  BY DEF MarkStale
<1> DEFINE thrown == Deleted(i) \/ proc[p].pc = "markStaleThrown"
<1> DEFINE rest == proc[p].plan \ {i}
<1> DEFINE Done ==
      proc'[p].pc = "idle" /\ proc[p].plan = {i} /\ thrown
<1> DEFINE GoesOn ==
      /\ proc'[p].pc \in {"markStale", "markStaleThrown", "getNonce"}
      /\ proc'[p].pc = "markStaleThrown" => thrown
      /\ proc'[p].pc = "getNonce" => proc[p].plan = {i}
      /\ proc'[p].plan = rest
      /\ proc'[p].me = proc[p].me /\ proc'[p].req = proc[p].req
<1>3. ASSUME NEW step, NEW x, proc'[p] = [proc[p] EXCEPT !.plan = x, !.pc = step]
      PROVE  /\ proc'[p].pc = step /\ proc'[p].plan = x
             /\ proc'[p].me = proc[p].me /\ proc'[p].req = proc[p].req
  BY <1>1, <1>3 DEF Handler
<1>4. proc \in [Procs -> Handler]
  BY DEF TypeInv, TypeOK
<1>5. ASSUME rest # {}
      PROVE  Done \/ GoesOn
  <2>1. PICK step \in {"markStale", "markStaleThrown"} :
          /\ proc'[p] = [proc[p] EXCEPT !.plan = rest, !.pc = step]
          /\ step = "markStaleThrown" => thrown
    <3>1. CASE thrown
      BY <1>2, <1>4, <1>5, <3>1
    <3>2. CASE ~thrown
      BY <1>2, <1>4, <1>5, <3>2
    <3>3. QED  BY <3>1, <3>2
  <2>2. /\ proc'[p].pc = step /\ proc'[p].plan = rest
        /\ proc'[p].me = proc[p].me /\ proc'[p].req = proc[p].req
    BY <1>3, <2>1
  <2>3. GoesOn
    BY <2>1, <2>2
  <2>4. QED  BY <2>3
<1>6. ASSUME rest = {} /\ thrown
      PROVE  Done \/ GoesOn
  <2>1. proc'[p] = Idle
    BY <1>2, <1>4, <1>6
  <2>2. proc[p].plan = {i}
    BY <1>6
  <2>3. Done
    BY <1>6, <2>1, <2>2 DEF Idle
  <2>4. QED  BY <2>3
<1>7. ASSUME rest = {} /\ ~thrown
      PROVE  Done \/ GoesOn
  <2>1. proc'[p] = [proc[p] EXCEPT !.plan = {}, !.pc = "getNonce"]
    BY <1>2, <1>4, <1>7
  <2>2. proc[p].plan = {i}
    BY <1>7
  <2>3. /\ proc'[p].pc = "getNonce" /\ proc'[p].plan = rest
        /\ proc'[p].me = proc[p].me /\ proc'[p].req = proc[p].req
    BY <1>3, <1>7, <2>1
  <2>4. GoesOn
    BY <2>2, <2>3
  <2>5. QED  BY <2>4
<1>8. QED  BY <1>2, <1>5, <1>6, <1>7

LEMMA GoTo ==
  ASSUME proc \in [Procs -> Handler], NEW p \in Procs, NEW step, Go(p, step)
  PROVE  /\ proc'[p].pc = step /\ proc'[p].me = proc[p].me
         /\ proc'[p].req = proc[p].req /\ proc'[p].plan = proc[p].plan
<1>1. proc[p] \in Handler /\ proc'[p] = [proc[p] EXCEPT !.pc = step]
  BY DEF Go
<1>2. QED  BY <1>1 DEF Handler

LEMMA ReturnTo ==
  ASSUME proc \in [Procs -> Handler], NEW p \in Procs, Return(p)
  PROVE  proc'[p].pc = "idle"
BY DEF Return, Idle

\* The insertion keeps the request and the id of the new row.
LEMMA InsertTo ==
  ASSUME TypeInv, NEW p \in Procs, InsertOrder(p)
  PROVE  /\ proc'[p].pc = "readExisting" /\ proc'[p].me = Len(orders) + 1
         /\ proc'[p].req = proc[p].req
<1>1. proc[p] \in Handler
      /\ proc'[p] = [proc[p] EXCEPT !.pc = "readExisting", !.me = Len(orders) + 1]
  BY DEF InsertOrder, TypeInv, TypeOK
<1>2. QED  BY <1>1 DEF Handler

\* A handler that does not change the table, or rewrites the status of rows,
\* brings none back that was removed.
LEMMA DeletedStays ==
  ASSUME TypeInv, [Next]_vars, NEW i \in Ids, Deleted(i)
  PROVE  Deleted(i)'
<1>1. CASE orders'[i].status = orders[i].status
  BY <1>1 DEF Deleted
<1>2. orders \in [Ids -> Row]
  BY TableIds DEF TypeInv
<1>3. ASSUME NEW k, NEW b, orders' = WithStale(k, b)
      PROVE  orders'[i].status = orders[i].status
  BY <1>2, <1>3 DEF WithStale, Row
<1>4. ASSUME NEW p \in Procs, HandlerStep(p)
      PROVE  Deleted(i)'
  <2>1. CASE InsertOrder(p)
    BY <1>1, <2>1, InsertAppends
  <2>2. CASE MarkStale(p)
    BY <1>1, <1>3, <2>2 DEF MarkStale
  <2>3. CASE Unstale(p) \/ CancelOrders(p) \/ MarkOrdersAsPendingCancellation(p)
    BY <1>1, <2>3 DEF Unstale, CancelOrders, MarkOrdersAsPendingCancellation
  <2>4. CASE DeleteOrder(p)
    BY <1>2, <2>4 DEF DeleteOrder, Deleted, Row
  <2>5. QED
    BY <1>1, <1>4, <2>1, <2>2, <2>3, <2>4
       DEF HandlerStep, CreateOrder, ValidateExisting, RejectDuplicateNonce,
           ReadExisting, GetUserNonce, SetUserNonce, ReadCancelled, ReadOthers,
           ProcessCancellationTx, CreateSale, Abort
<1>5. CASE UpdateOrderStaleness
  BY <1>1, <1>3, <1>5 DEF UpdateOrderStaleness
<1>6. CASE Expire
  <2>1. orders'[i].status = orders[i].status
    BY <1>2, <1>6 DEF Expire, Row
  <2>2. QED  BY <1>1, <2>1
<1>7. QED
  BY <1>1, <1>4, <1>5, <1>6
     DEF Next, JobStep, StartStalenessJob, ReadSome, ReadActiveOrders, AbortJob,
         UpsertMichiWallet, PostSale, vars

SavedNonce(dto) == nonce[<<dto.participant, dto.chainId>>]

\* A row's nonce is saved, or the handler that inserted it is still at it;
\* and that handler gets to the end: nothing removes the orders it is to hide.
NoncesSaved ==
  \A i \in Ids : \/ Deleted(i)
                 \/ orders[i].dto.nonce <= SavedNonce(orders[i].dto)
                 \/ \E p \in Procs : proc[p].pc \in InsertedSteps /\ proc[p].me = i

CreatesFinish ==
  \A p \in Procs :
    /\ proc[p].pc # "markStaleThrown"
    /\ proc[p].pc = "markStale" => \A k \in proc[p].plan : k \in Ids /\ ~Deleted(k)
    /\ proc[p].pc = "setNonce" => proc[p].req.nonce > SavedNonce(proc[p].req)

NonceFreeInv == TypeInv /\ NoncesSaved /\ CreatesFinish

\* Without faults no handler and no job is cut short.
LEMMA NothingAborts ==
  ASSUME TypeInv, MaxFaults = 0
  PROVE  ~AbortJob /\ \A p \in Procs : ~Abort(p)
BY DEF TypeInv, TypeOK, AbortJob, Abort

\* Where the steps lead that have no part in hiding orders or saving nonces.
LEMMA LeadsTo ==
  ASSUME proc \in [Procs -> Handler], NEW p \in Procs,
         \/ CreateOrder(p) \/ ValidateExisting(p) \/ RejectDuplicateNonce(p)
         \/ CancelOrders(p) \/ ReadCancelled(p) \/ ReadOthers(p) \/ Unstale(p)
         \/ ProcessCancellationTx(p) \/ MarkOrdersAsPendingCancellation(p)
         \/ CreateSale(p) \/ DeleteOrder(p)
  PROVE  \/ proc'[p].pc \in {"validateExisting", "insert", "idle", "readCancelled",
                              "markPending", "deleteOrder"}
         \/ proc'[p].pc \in {"readOthers", "unstale"} /\ (ReadCancelled(p) \/ ReadOthers(p))
<1>1. ASSUME NEW step, NEW x, proc' = [proc EXCEPT ![p].pc = step, ![p].req = x]
      PROVE  proc'[p].pc = step
  BY <1>1, ReqTo
<1>2. ASSUME NEW step, NEW x, proc' = [proc EXCEPT ![p].pc = step, ![p].plan = x]
      PROVE  proc'[p].pc = step
  BY <1>2, PlanTo
<1>3. ASSUME NEW step, Go(p, step)
      PROVE  proc'[p].pc = step
  BY <1>3, GoTo
<1>4. Return(p) => proc'[p].pc = "idle"
  BY ReturnTo
<1>5. CASE CreateOrder(p) \/ CancelOrders(p) \/ ProcessCancellationTx(p)
  <2>1. proc'[p].pc \in {"validateExisting", "readCancelled", "markPending"}
    BY <1>1, <1>5 DEF CreateOrder, CancelOrders, ProcessCancellationTx
  <2>2. QED  BY <2>1
<1>6. CASE ReadCancelled(p) \/ ReadOthers(p)
  BY <1>2, <1>6 DEF ReadCancelled, ReadOthers
<1>7. CASE \/ ValidateExisting(p) \/ RejectDuplicateNonce(p) \/ Unstale(p)
           \/ MarkOrdersAsPendingCancellation(p) \/ DeleteOrder(p)
  BY <1>3, <1>4, <1>7
     DEF ValidateExisting, RejectDuplicateNonce, Unstale,
         MarkOrdersAsPendingCancellation, DeleteOrder
<1>8. CASE CreateSale(p)
  <2>1. PICK x : proc' = [proc EXCEPT ![p].pc = "deleteOrder", ![p].req = x]
    BY <1>8 DEF CreateSale
  <2>2. QED  BY <1>1, <2>1
<1>9. QED  BY <1>5, <1>6, <1>7, <1>8

LEMMA NonceFreeStep ==
  ASSUME OneAtATime, MaxFaults = 0, NonceFreeInv, [Next]_vars
  PROVE  NonceFreeInv'
<1>1. Grows /\ TypeInv /\ TypeInv'
  BY StepOnOrders, TypeStep DEF NonceFreeInv
<1>2. proc \in [Procs -> Handler] /\ nonce \in [Users \X Chains -> Nat]
  BY <1>1 DEF TypeInv, TypeOK
<1>3. \A i \in Ids : orders[i].dto \in CreateOrderDto
  BY <1>1, TableIds DEF TypeInv
\* A row whose nonce was saved stays so while the saved nonces stay.
<1>4. ASSUME UNCHANGED nonce, NEW i \in Ids
      PROVE  /\ Deleted(i) => Deleted(i)'
             /\ SavedNonce(orders[i].dto)' = SavedNonce(orders[i].dto)
             /\ orders'[i].dto = orders[i].dto
  BY <1>1, <1>4, DeletedStays DEF SavedNonce, Grows
<1>5. CASE UNCHANGED <<proc, nonce>> /\ Ids' = Ids /\ \A i \in Ids : Deleted(i)' => Deleted(i)
  <2>1. NoncesSaved'
    <3>1. ASSUME NEW i \in Ids
          PROVE  \/ Deleted(i)'
                 \/ orders'[i].dto.nonce <= SavedNonce(orders[i].dto)'
                 \/ \E p \in Procs : proc'[p].pc \in InsertedSteps /\ proc'[p].me = i
      BY <1>4, <1>5, <3>1 DEF NonceFreeInv, NoncesSaved
    <3>2. QED  BY <1>4, <1>5, <3>1 DEF NoncesSaved
  <2>2. CreatesFinish'
    BY <1>5 DEF NonceFreeInv, CreatesFinish, SavedNonce
  <2>3. QED  BY <1>1, <2>1, <2>2 DEF NonceFreeInv
<1>6. ASSUME NEW p \in Procs, HandlerStep(p)
      PROVE  NonceFreeInv'
  <2>1. \A q \in Procs : q = p
    BY DEF OneAtATime
  \* To show of this one handler, when its step saves no nonce.
  <2>2. ASSUME UNCHANGED nonce, Ids' = Ids,
               \A i \in Ids : ~Deleted(i) /\ proc[p].pc \in InsertedSteps /\ proc[p].me = i =>
                 \/ orders[i].dto.nonce <= SavedNonce(orders[i].dto)
                 \/ proc'[p].pc \in InsertedSteps /\ proc'[p].me = i,
               CreatesFinish'
        PROVE  NonceFreeInv'
    <3>1. ASSUME NEW i \in Ids
          PROVE  \/ Deleted(i)'
                 \/ orders'[i].dto.nonce <= SavedNonce(orders[i].dto)'
                 \/ proc'[p].pc \in InsertedSteps /\ proc'[p].me = i
      BY <1>4, <2>1, <2>2, <3>1 DEF NonceFreeInv, NoncesSaved
    <3>2. NoncesSaved'
      BY <1>4, <2>2, <3>1 DEF NoncesSaved
    <3>3. QED  BY <1>1, <2>2, <3>2 DEF NonceFreeInv
  <2>3. ASSUME UNCHANGED nonce, Ids' = Ids, proc[p].pc \notin InsertedSteps,
               proc'[p].pc \notin {"markStale", "markStaleThrown", "setNonce"}
        PROVE  NonceFreeInv'
    <3>1. CreatesFinish'
      BY <2>1, <2>3 DEF CreatesFinish
    <3>2. QED  BY <2>2, <2>3, <3>1
  <2>4. CASE \/ CreateOrder(p) \/ ValidateExisting(p) \/ RejectDuplicateNonce(p)
             \/ CancelOrders(p) \/ ReadCancelled(p) \/ ReadOthers(p) \/ Unstale(p)
             \/ ProcessCancellationTx(p) \/ MarkOrdersAsPendingCancellation(p)
             \/ CreateSale(p) \/ DeleteOrder(p)
    <3>1. UNCHANGED nonce
      BY <2>4 DEF CreateOrder, ValidateExisting, RejectDuplicateNonce, CancelOrders,
                  ReadCancelled, ReadOthers, Unstale, ProcessCancellationTx,
                  MarkOrdersAsPendingCancellation, CreateSale, DeleteOrder
    <3>2. Ids' = Ids
      <4>1. CASE Rewrites
        BY <1>1, <4>1, RewritesGrow DEF TypeInv
      <4>2. QED
        BY <1>1, <2>4, <4>1, StaleRewrites, StatusRewrites
           DEF CreateOrder, ValidateExisting, RejectDuplicateNonce, ReadCancelled,
               ReadOthers, ProcessCancellationTx, CreateSale, Ids, TypeInv
    <3>3. proc[p].pc \notin InsertedSteps
      BY <2>4 DEF CreateOrder, ValidateExisting, RejectDuplicateNonce, CancelOrders,
                  ReadCancelled, ReadOthers, Unstale, ProcessCancellationTx,
                  MarkOrdersAsPendingCancellation, CreateSale, DeleteOrder, InsertedSteps
    <3>4. proc'[p].pc \in {"validateExisting", "insert", "idle", "readCancelled", "readOthers",
                           "unstale", "markPending", "deleteOrder"}
      BY <1>2, <2>4, LeadsTo
    <3>5. QED  BY <2>3, <3>1, <3>2, <3>3, <3>4
  <2>5. CASE InsertOrder(p)
    <3> DEFINE id == Len(orders) + 1
    <3>1. UNCHANGED nonce /\ proc'[p].pc = "readExisting" /\ proc'[p].me = id
      BY <1>1, <2>5, InsertTo DEF InsertOrder
    <3>2. Ids' = Ids \cup {id}
      BY <1>1, <2>5, InsertAppends
    <3> HIDE DEF id
    <3>3. ASSUME NEW i \in Ids
          PROVE  Deleted(i) \/ orders[i].dto.nonce <= SavedNonce(orders[i].dto)
      BY <2>1, <2>5 DEF NonceFreeInv, NoncesSaved, InsertOrder, InsertedSteps
    <3>4. NoncesSaved'
      BY <1>4, <3>1, <3>2, <3>3 DEF NoncesSaved, InsertedSteps
    <3>5. CreatesFinish'
      BY <2>1, <3>1 DEF CreatesFinish
    <3>6. QED  BY <1>1, <3>4, <3>5 DEF NonceFreeInv
  <2>6. CASE ReadExisting(p)
    <3> DEFINE outdone == OutdoneBy(proc[p].req, proc[p].me)
    <3>1. /\ UNCHANGED <<nonce, orders>>
          /\ proc'[p].pc \in {"getNonce", "markStale"}
          /\ proc'[p].plan = outdone /\ proc'[p].me = proc[p].me
      <4>1. PICK step \in {"getNonce", "markStale"} :
              proc' = [proc EXCEPT ![p].pc = step, ![p].plan = outdone]
        BY <2>6 DEF ReadExisting
      <4>2. UNCHANGED <<nonce, orders>>
        BY <2>6 DEF ReadExisting
      <4> HIDE DEF outdone
      <4>3. /\ proc[p] \in Handler
            /\ proc'[p] = [proc[p] EXCEPT !.pc = step, !.plan = outdone]
        BY <1>2, <4>1
      <4>4. /\ proc'[p].pc = step /\ proc'[p].plan = outdone
            /\ proc'[p].me = proc[p].me
        BY <4>3 DEF Handler
      <4>5. QED  BY <4>2, <4>4
    <3>2. \A k \in outdone : k \in Ids /\ ~Deleted(k)
      BY DEF OutdoneBy, UserOrdersOnWallet, Live, Deleted
    <3>3. CreatesFinish'
      BY <2>1, <3>1, <3>2 DEF CreatesFinish, Ids, Deleted
    <3>4. Ids' = Ids /\ proc'[p].pc \in InsertedSteps
      BY <3>1 DEF Ids, InsertedSteps
    <3>5. QED  BY <2>2, <3>1, <3>3, <3>4
  <2>7. CASE MarkStale(p)
    <3>1. /\ proc[p].pc = "markStale"
          /\ \A k \in proc[p].plan : k \in Ids /\ ~Deleted(k)
      BY <2>7 DEF MarkStale, NonceFreeInv, CreatesFinish
    <3>2. PICK i \in proc[p].plan :
            /\ orders' = WithStale(i, TRUE)
            /\ proc'[p].pc \in {"markStale", "getNonce"}
            /\ proc'[p].plan = proc[p].plan \ {i} /\ proc'[p].me = proc[p].me
      BY <1>1, <2>7, <3>1, MarkTo
    <3>4. Ids' = Ids /\ \A k \in Ids : orders'[k].status = orders[k].status
      BY <1>1, <3>2, TableIds, SetStaleRewrites, RewritesGrow DEF WithStale, Row, TypeInv
    <3>5. CreatesFinish'
      BY <2>1, <3>1, <3>2, <3>4 DEF CreatesFinish, Deleted
    <3>6. UNCHANGED nonce /\ proc'[p].pc \in InsertedSteps
      BY <2>7, <3>2 DEF MarkStale, InsertedSteps
    <3>7. QED  BY <2>2, <3>2, <3>4, <3>5, <3>6
  <2>8. CASE GetUserNonce(p)
    <3>1. /\ proc[p].me \in Ids /\ orders[proc[p].me].dto = proc[p].req
          /\ proc[p].req \in CreateOrderDto
      BY <1>1, <2>8 DEF GetUserNonce, TypeInv, HandlersOK, InsertedSteps, CreateSteps
    <3>2. UNCHANGED <<nonce, orders>>
      BY <2>8 DEF GetUserNonce
    <3>3. CASE proc[p].req.nonce > SavedNonce(proc[p].req) /\ Go(p, "setNonce")
      <4>1. /\ proc'[p].pc = "setNonce" /\ proc'[p].me = proc[p].me
            /\ proc'[p].req = proc[p].req
        BY <1>2, <3>3, GoTo
      <4>2. CreatesFinish'
        BY <2>1, <3>2, <3>3, <4>1 DEF CreatesFinish, SavedNonce
      <4>3. Ids' = Ids /\ proc'[p].pc \in InsertedSteps
        BY <3>2, <4>1 DEF Ids, InsertedSteps
      <4>4. QED  BY <2>2, <3>2, <4>1, <4>2, <4>3
    <3>4. CASE ~(proc[p].req.nonce > SavedNonce(proc[p].req)) /\ Return(p)
      <4>1. proc'[p].pc = "idle"
        BY <1>2, <3>4, ReturnTo
      <4>2. CreatesFinish'
        BY <2>1, <4>1 DEF CreatesFinish
      <4>3. SavedNonce(proc[p].req) \in Nat /\ proc[p].req.nonce \in Nat
        BY <1>2, <3>1 DEF SavedNonce, CreateOrderDto
      <4>4. proc[p].req.nonce <= SavedNonce(proc[p].req)
        BY <3>4, <4>3
      <4>5. Ids' = Ids
        BY <3>2 DEF Ids
      <4>6. QED  BY <2>2, <3>1, <3>2, <4>2, <4>4, <4>5
    <3>5. QED  BY <2>8, <3>3, <3>4 DEF GetUserNonce, SavedNonce
  <2>9. CASE SetUserNonce(p)
    <3> DEFINE dto == proc[p].req
    <3>1. /\ proc[p].me \in Ids /\ orders[proc[p].me].dto = dto
          /\ dto \in CreateOrderDto /\ dto.nonce > SavedNonce(dto)
      BY <1>1, <2>9 DEF SetUserNonce, TypeInv, HandlersOK, InsertedSteps, CreateSteps,
                        NonceFreeInv, CreatesFinish
    <3>2. /\ nonce' = [nonce EXCEPT ![<<dto.participant, dto.chainId>>] = dto.nonce]
          /\ UNCHANGED orders /\ proc'[p].pc = "idle"
      BY <1>2, <2>9, ReturnTo DEF SetUserNonce
    <3>3. ASSUME NEW i \in Ids
          PROVE  Deleted(i)' \/ orders'[i].dto.nonce <= SavedNonce(orders[i].dto)'
      <4> DEFINE o == orders[i].dto
      <4>1. orders'[i] = orders[i] /\ o \in CreateOrderDto
        BY <1>3, <3>2
      <4>2. /\ <<o.participant, o.chainId>> \in Users \X Chains
            /\ <<dto.participant, dto.chainId>> \in Users \X Chains
            /\ o.nonce \in Nat /\ dto.nonce \in Nat
        BY <3>1, <4>1 DEF CreateOrderDto
      <4>3. CASE <<o.participant, o.chainId>> = <<dto.participant, dto.chainId>>
        <5>1. SavedNonce(o)' = dto.nonce /\ SavedNonce(o) = SavedNonce(dto)
          BY <1>2, <3>2, <4>1, <4>2, <4>3 DEF SavedNonce
        <5>2. SavedNonce(dto) \in Nat
          BY <1>2, <4>2 DEF SavedNonce
        <5>3. Deleted(i) \/ o.nonce <= SavedNonce(o) \/ proc[p].me = i
          BY <2>1 DEF NonceFreeInv, NoncesSaved
        <5>4. Deleted(i) \/ o.nonce <= dto.nonce
          BY <3>1, <4>2, <5>1, <5>2, <5>3
        <5>5. QED  BY <4>1, <5>1, <5>4 DEF Deleted
      <4>4. CASE <<o.participant, o.chainId>> # <<dto.participant, dto.chainId>>
        <5>1. SavedNonce(o)' = SavedNonce(o)
          BY <1>2, <3>2, <4>1, <4>2, <4>4 DEF SavedNonce
        <5>2. proc[p].me # i
          BY <3>1, <4>4
        <5>3. Deleted(i) \/ o.nonce <= SavedNonce(o)
          BY <2>1, <5>2 DEF NonceFreeInv, NoncesSaved
        <5>4. QED  BY <4>1, <5>1, <5>3 DEF Deleted
      <4>5. QED  BY <4>3, <4>4
    <3>4. NoncesSaved'
      BY <3>2, <3>3 DEF NoncesSaved, Ids
    <3>5. CreatesFinish'
      BY <2>1, <3>2 DEF CreatesFinish
    <3>6. QED  BY <1>1, <3>4, <3>5 DEF NonceFreeInv
  <2>10. QED
    BY <1>1, <1>6, <2>4, <2>5, <2>6, <2>7, <2>8, <2>9, NothingAborts DEF HandlerStep
<1>7. CASE \/ UNCHANGED vars \/ PostSale \/ StartStalenessJob \/ ReadSome
           \/ UpsertMichiWallet
  BY <1>5, <1>7
     DEF vars, PostSale, StartStalenessJob, ReadSome, ReadActiveOrders, UpsertMichiWallet,
         Ids, Deleted
<1>8. CASE UpdateOrderStaleness
  <2>1. UNCHANGED <<proc, nonce>>
    BY <1>8 DEF UpdateOrderStaleness
  <2>2. orders' = orders \/ \E w \in writes : orders' = WithStale(w.id, w.isStale)
    BY <1>8 DEF UpdateOrderStaleness
  <2>3. \A w \in writes : w.isStale \in BOOLEAN
    BY <1>1 DEF TypeInv, TypeOK
  <2>4. Ids' = Ids /\ \A i \in Ids : orders'[i].status = orders[i].status
    <3>1. ASSUME NEW i, NEW b \in BOOLEAN, orders' = WithStale(i, b)
          PROVE  Ids' = Ids /\ \A k \in Ids : orders'[k].status = orders[k].status
      <4>1. Ids' = Ids
        BY <1>1, <3>1, SetStaleRewrites, RewritesGrow DEF TypeInv
      <4>2. \A k \in Ids : orders'[k].status = orders[k].status
        BY <1>1, <3>1, TableIds DEF WithStale, Row, TypeInv
      <4>3. QED  BY <4>1, <4>2
    <3>2. QED  BY <2>2, <2>3, <3>1 DEF Ids
  <2>5. QED  BY <1>5, <2>1, <2>4 DEF Deleted
<1>9. CASE Expire
  <2>1. Ids' = Ids
    BY <1>1, <1>9, ExpireRewrites, RewritesGrow DEF TypeInv
  <2>2. \A i \in Ids : orders'[i].status = orders[i].status
    BY <1>1, <1>9, TableIds DEF Expire, Row, TypeInv
  <2>3. QED  BY <1>5, <1>9, <2>1, <2>2 DEF Expire, Deleted
<1>10. QED
  BY <1>1, <1>6, <1>7, <1>8, <1>9, NothingAborts DEF Next, JobStep

\* When requests are handled one at a time and none is cut short, the nonce
\* after the saved one is free, as clients are told to assume: whatever was
\* inserted, cancelled or removed in between.
THEOREM NextNonceAlwaysFree ==
  ASSUME OneAtATime, MaxFaults = 0
  PROVE  Spec => []NextNonceIsFree
<1>1. Init => NonceFreeInv
  BY TypeInit DEF Init, NonceFreeInv, NoncesSaved, CreatesFinish, Ids, Idle
<1>2. NonceFreeInv /\ [Next]_vars => NonceFreeInv'
  BY NonceFreeStep
<1>3. NonceFreeInv => NextNonceIsFree
  BY DEF NonceFreeInv, NoncesSaved, NextNonceIsFree, Quiet, SavedNonce, InsertedSteps
<1>4. QED  BY <1>1, <1>2, <1>3, PTL DEF Spec

----------------------------------------------------------------------------
(* What is shown is the best.                                              *)

\* A cancellation by an all lower-case address shows orders again, the ones
\* with the smallest digits: no harm if those it leaves are at one price.
OnePriceLeft(c) ==
  \A d, e \in Requests :
    /\ d.participant = c.user /\ d.chainId = c.chainId /\ d.nonce \notin c.nonces
    /\ e.participant = c.user /\ e.chainId = c.chainId /\ e.nonce \notin c.nonces
    /\ d.type = e.type /\ d.tokenId = e.tokenId /\ d.currency = e.currency
    => d.amount = e.amount

HarmlessCancellations ==
  /\ \A c \in CancelRequests : c.user \in MixedCase
  /\ \A c \in Cancellations : c.user \in MixedCase \/ OnePriceLeft(c)

\* The updates the job has fired and does not wait for are made on what it
\* read: an order inserted meanwhile may be one they do not know.
InsertsBetweenUpdates == \A p \in Procs : proc[p].pc = "insert" => writes = {}

\* The orders that cancellation c names have ended.
NoneLeft(c) ==
  \A i \in Ids :
    /\ Live(i) /\ orders[i].dto.participant = c.user /\ orders[i].dto.chainId = c.chainId
    => orders[i].dto.nonce \notin c.nonces

\* What a handler has checked still holds: no conflict for the order to be
\* inserted, none of the cancelled orders live.
StillTrue(p) ==
  /\ proc[p].pc \in CreateSteps => proc[p].req \in Requests
  /\ proc[p].pc = "insert" => ~ConflictsWithExisting(proc[p].req)
  /\ proc[p].pc = "markPending" => proc[p].req \in CancelRequests
  /\ proc[p].pc \in {"readCancelled", "readOthers", "unstale"} =>
       proc[p].req \in Cancellations /\ NoneLeft(proc[p].req)
  /\ proc[p].pc = "unstale" =>
       \A i \in proc[p].plan : i \in Ids /\ FoundRaw(i, proc[p].req.user, proc[p].req.chainId)

\* The handler is still to hide order j because of the one it inserted, i.
ToHide(p, i, j) ==
  /\ proc[p].me = i
  /\ \/ proc[p].pc = "readExisting"
     \/ proc[p].pc \in {"markStale", "markStaleThrown"} /\ j \in proc[p].plan

\* Live order i is better than the live order j of its participant.
Outshone(i, j) == i \in Ids /\ j \in Ids /\ Live(i) /\ Live(j) /\ BetterOnSameWallet(i, j)

\* An order that is outshone is hidden, or its better one's handler will do so.
BestHidden ==
  \A i, j \in Ids : Outshone(i, j) =>
    orders[j].isStale \/ \E p \in Procs : ToHide(p, i, j)

\* No update of the job that is in flight shows an order that is outshone.
WritesHarmless ==
  \A w \in writes : w.id \in Ids /\ (~w.isStale => \A i \in Ids : ~Outshone(i, w.id))

BestInv ==
  /\ TypeInv
  /\ WritesHarmless
  /\ \A i \in Ids : orders[i].dto \in Requests
  /\ \A p \in Procs : StillTrue(p)
  /\ BestHidden

\* Rows stay what they were, and none that had ended is live again.
Ages == Ids' = Ids /\ \A i \in Ids : orders'[i].dto = orders[i].dto /\ (Live(i)' => Live(i))

LEMMA AgingKeeps ==
  ASSUME Ages
  PROVE  /\ \A dto : ConflictsWithExisting(dto)' => ConflictsWithExisting(dto)
         /\ \A c : NoneLeft(c) => NoneLeft(c)'
         /\ \A i, j : Outshone(i, j)' => Outshone(i, j)
         /\ \A i \in Ids : \A user, chain :
              FoundRaw(i, user, chain) => FoundRaw(i, user, chain)'
<1>1. ASSUME NEW dto, ConflictsWithExisting(dto)'
      PROVE  ConflictsWithExisting(dto)
  BY <1>1 DEF Ages, ConflictsWithExisting, UserOrdersOnWallet
<1>2. ASSUME NEW c, NoneLeft(c)
      PROVE  NoneLeft(c)'
  BY <1>2 DEF Ages, NoneLeft
<1>3. ASSUME NEW i, NEW j, Outshone(i, j)'
      PROVE  Outshone(i, j)
  BY <1>3 DEF Ages, Outshone, BetterOnSameWallet, SortsBefore
<1>4. \A i \in Ids : \A user, chain :
         FoundRaw(i, user, chain) => FoundRaw(i, user, chain)'
  BY DEF Ages, FoundRaw
<1>5. QED  BY <1>1, <1>2, <1>3, <1>4

\* With harmless cancellations only an insertion makes an order live.
LEMMA StepAges ==
  ASSUME BestInv, HarmlessCancellations, [Next]_vars, \A p \in Procs : ~InsertOrder(p)
  PROVE  Ages
<1>1. TypeInv /\ orders \in [Ids -> Row]
  BY TableIds DEF BestInv, TypeInv
<1>2. Ids' = Ids /\ Grows
  BY <1>1, StepKeepsIds, StepOnOrders
<1>3. ASSUME NEW i \in Ids, orders'[i].status = orders[i].status,
             orders[i].expired => orders'[i].expired
      PROVE  Live(i)' => Live(i)
  BY <1>3 DEF Live
<1>4. ASSUME NEW i \in Ids, orders'[i].status \in {"CANCELLED", "DELETED"}
      PROVE  Live(i)' => Live(i)
  BY <1>4 DEF Live
<1>5. ASSUME NEW i \in Ids
      PROVE  Live(i)' => Live(i)
  <2>1. CASE orders'[i] = orders[i]
    BY <1>3, <2>1
  <2>2. ASSUME NEW k, NEW b, orders' = WithStale(k, b)
        PROVE  Live(i)' => Live(i)
    <3>1. orders'[i].status = orders[i].status /\ orders'[i].expired = orders[i].expired
      BY <1>1, <2>2 DEF WithStale, Row
    <3>2. QED  BY <1>3, <3>1
  <2>3. ASSUME NEW p \in Procs, HandlerStep(p)
        PROVE  Live(i)' => Live(i)
    <3>1. CASE MarkStale(p)
      BY <2>1, <2>2, <3>1 DEF MarkStale
    <3>2. CASE Unstale(p)
      <4>1. orders'[i].status = orders[i].status /\ orders'[i].expired = orders[i].expired
        BY <1>1, <3>2 DEF Unstale, Row
      <4>2. QED  BY <1>3, <4>1
    <3>3. CASE CancelOrders(p)
      <4>1. orders'[i] = orders[i] \/ orders'[i].status = "CANCELLED"
        BY <1>1, <3>3 DEF CancelOrders, Cancelled, Row
      <4>2. QED  BY <1>4, <2>1, <4>1
    <3>4. CASE DeleteOrder(p)
      <4>1. orders'[i] = orders[i] \/ orders'[i].status = "DELETED"
        BY <1>1, <3>4 DEF DeleteOrder, Row
      <4>2. QED  BY <1>4, <2>1, <4>1
    <3>5. CASE MarkOrdersAsPendingCancellation(p)
      <4>1. proc[p].req.user \in MixedCase
        BY <3>5 DEF MarkOrdersAsPendingCancellation, BestInv, StillTrue, HarmlessCancellations
      <4>2. orders'[i] = orders[i]
        BY <3>5, <4>1 DEF MarkOrdersAsPendingCancellation, FoundRaw
      <4>3. QED  BY <2>1, <4>2
    <3>6. QED
      BY <2>1, <2>3, <3>1, <3>2, <3>3, <3>4, <3>5
         DEF HandlerStep, CreateOrder, ValidateExisting, RejectDuplicateNonce,
             ReadExisting, GetUserNonce, SetUserNonce, ReadCancelled, ReadOthers,
             ProcessCancellationTx, CreateSale, Abort
  <2>4. CASE UpdateOrderStaleness
    BY <2>1, <2>2, <2>4 DEF UpdateOrderStaleness
  <2>5. CASE Expire
    <3>1. PICK k \in Ids : orders' = [orders EXCEPT ![k].expired = TRUE]
      BY <2>5 DEF Expire
    <3>2. orders[i] \in Row /\ orders'[i] \in {orders[i], [orders[i] EXCEPT !.expired = TRUE]}
      BY <1>1, <3>1
    <3>3. [orders[i] EXCEPT !.expired = TRUE].status = orders[i].status
      BY <3>2 DEF Row
    <3>4. [orders[i] EXCEPT !.expired = TRUE].expired
      BY <3>2 DEF Row
    <3>5. QED  BY <1>3, <2>1, <3>2, <3>3, <3>4
  <2>6. QED
    BY <2>1, <2>3, <2>4, <2>5
       DEF Next, JobStep, StartStalenessJob, ReadSome, ReadActiveOrders, AbortJob,
           UpsertMichiWallet, PostSale, vars
<1>6. QED  BY <1>2, <1>5 DEF Ages, Grows

\* Which steps make an order shown again.
LEMMA StaleMoves ==
  ASSUME BestInv, [Next]_vars, NEW i \in Ids, orders[i].isStale
  PROVE  \/ orders'[i].isStale
         \/ \E p \in Procs : Unstale(p) /\ i \in proc[p].plan
         \/ \E w \in writes : w.id = i /\ ~w.isStale
<1>1. TypeInv /\ orders \in [Ids -> Row]
  BY TableIds DEF BestInv, TypeInv
<1>2. ASSUME NEW p \in Procs, HandlerStep(p)
      PROVE  orders'[i].isStale \/ (Unstale(p) /\ i \in proc[p].plan)
  <2>1. CASE InsertOrder(p)
    BY <1>1, <2>1, InsertAppends
  <2>2. CASE MarkStale(p)
    <3>1. PICK k : orders' = orders \/ orders' = WithStale(k, TRUE)
      BY <2>2 DEF MarkStale
    <3>2. CASE orders' = WithStale(k, TRUE) /\ k = i
      BY <1>1, <3>2 DEF WithStale, Row
    <3>3. CASE orders' = WithStale(k, TRUE) /\ k # i
      BY <1>1, <3>3 DEF WithStale
    <3>4. QED  BY <3>1, <3>2, <3>3
  <2>3. CASE Unstale(p)
    <3>1. i \in proc[p].plan \/ orders'[i] = orders[i]
      BY <2>3 DEF Unstale
    <3>2. QED  BY <2>3, <3>1
  <2>4. CASE CancelOrders(p)
    <3>1. [orders[i] EXCEPT !.status = "CANCELLED"].isStale
      BY <1>1 DEF Row
    <3>2. orders'[i] = orders[i] \/ orders'[i] = [orders[i] EXCEPT !.status = "CANCELLED"]
      BY <2>4 DEF CancelOrders, Cancelled
    <3>3. QED  BY <3>1, <3>2
  <2>5. CASE MarkOrdersAsPendingCancellation(p)
    <3>1. [orders[i] EXCEPT !.status = "PROCESSING_CANCELLATION"].isStale
      BY <1>1 DEF Row
    <3>2. \/ orders'[i] = orders[i]
          \/ orders'[i] = [orders[i] EXCEPT !.status = "PROCESSING_CANCELLATION"]
      BY <2>5 DEF MarkOrdersAsPendingCancellation
    <3>3. QED  BY <3>1, <3>2
  <2>6. CASE DeleteOrder(p)
    <3>1. [orders[i] EXCEPT !.status = "DELETED"].isStale
      BY <1>1 DEF Row
    <3>2. orders'[i] = orders[i] \/ orders'[i] = [orders[i] EXCEPT !.status = "DELETED"]
      BY <2>6 DEF DeleteOrder
    <3>3. QED  BY <3>1, <3>2
  <2>7. QED
    BY <1>2, <2>1, <2>2, <2>3, <2>4, <2>5, <2>6
       DEF HandlerStep, CreateOrder, ValidateExisting, RejectDuplicateNonce,
           ReadExisting, GetUserNonce, SetUserNonce, ReadCancelled, ReadOthers,
           ProcessCancellationTx, CreateSale, Abort
<1>3. CASE UpdateOrderStaleness
  <2>1. PICK w \in writes : orders' = orders \/ orders' = WithStale(w.id, w.isStale)
    BY <1>3 DEF UpdateOrderStaleness
  <2>2. CASE orders' = WithStale(w.id, w.isStale) /\ w.id # i
    BY <1>1, <2>2 DEF WithStale
  <2>3. CASE orders' = WithStale(w.id, w.isStale) /\ w.id = i
    <3>1. CASE w.isStale
      <4>1. [orders[i] EXCEPT !.isStale = w.isStale].isStale = w.isStale
        BY <1>1 DEF Row
      <4>2. orders'[i] = [orders[i] EXCEPT !.isStale = w.isStale]
        BY <1>1, <2>3 DEF WithStale
      <4>3. QED  BY <3>1, <4>1, <4>2
    <3>2. QED  BY <2>3, <3>1
  <2>4. QED  BY <2>1, <2>2, <2>3
<1>4. CASE Expire
  <2>1. PICK k \in Ids : orders' = [orders EXCEPT ![k].expired = TRUE]
    BY <1>4 DEF Expire
  <2>2. orders'[i] \in {orders[i], [orders[i] EXCEPT !.expired = TRUE]}
    BY <1>1, <2>1
  <2>3. [orders[i] EXCEPT !.expired = TRUE].isStale
    BY <1>1 DEF Row
  <2>4. QED  BY <2>2, <2>3
<1>5. QED
  BY <1>2, <1>3, <1>4
     DEF Next, JobStep, StartStalenessJob, ReadSome, ReadActiveOrders, AbortJob,
         UpsertMichiWallet, PostSale, vars

\* A request that is not ruled out by a live order is not outshone by one.
LEMMA NotRuledOut ==
  ASSUME NEW d \in CreateOrderDto, NEW i \in Ids, Live(i),
         orders[i].dto \in CreateOrderDto, ~ConflictsWithExisting(d),
         orders[i].dto.tokenId = d.tokenId, orders[i].dto.participant = d.participant,
         orders[i].dto.type = d.type
  PROVE  IF d.type = "LISTING" THEN ~(orders[i].dto.amount < d.amount)
                               ELSE ~(orders[i].dto.amount > d.amount)
<1>1. i \in UserOrdersOnWallet(d)
  BY DEF UserOrdersOnWallet
<1>2. ~RulesOut(orders[i].dto, d)
  BY <1>1 DEF ConflictsWithExisting
<1>3. /\ d.amount \in Nat /\ orders[i].dto.amount \in Nat
      /\ orders[i].dto.type \in {"LISTING", "BID"}
  BY DEF CreateOrderDto, OrderType
<1>4. QED  BY <1>2, <1>3 DEF RulesOut

\* An order that outshines another on its wallet is one that outdoes it.
LEMMA OutshinesOutdoes ==
  ASSUME NEW i \in Ids, NEW j \in Ids, Outshone(i, j),
         orders[i].dto \in CreateOrderDto, orders[j].dto \in CreateOrderDto
  PROVE  i # j /\ (~orders[j].isStale => j \in OutdoneBy(orders[i].dto, i))
<1>1. /\ orders[i].dto.amount \in Nat /\ orders[j].dto.amount \in Nat
      /\ orders[i].dto.type \in {"LISTING", "BID"}
      /\ orders[i].dto.type = orders[j].dto.type
      /\ SortsBefore(i, j)
  BY DEF CreateOrderDto, OrderType, Outshone, BetterOnSameWallet
<1>2. i # j
  BY <1>1 DEF SortsBefore
<1>3. j \in UserOrdersOnWallet(orders[i].dto)
  BY DEF UserOrdersOnWallet, Outshone, BetterOnSameWallet
<1>4. Outdoes(orders[i].dto, orders[j].dto)
  BY <1>1 DEF Outdoes, SortsBefore, Outshone, BetterOnSameWallet
<1>5. QED  BY <1>2, <1>3, <1>4 DEF OutdoneBy

LEMMA StillTrueStep ==
  ASSUME OneAtATime, BestInv, HarmlessCancellations, [Next]_vars
  PROVE  \A q \in Procs : StillTrue(q)'
<1>1. proc \in [Procs -> Handler]
  BY DEF BestInv, TypeInv, TypeOK
\* While no handler moves the table only ages.
<1>2. CASE UNCHANGED proc /\ \A p \in Procs : ~InsertOrder(p)
  <2>1. Ages
    BY <1>2, StepAges
  <2>2. ASSUME NEW q \in Procs
        PROVE  StillTrue(q)'
    <3>1. StillTrue(q)
      BY DEF BestInv
    <3>2. proc[q].pc = "insert" => ~ConflictsWithExisting(proc[q].req)'
      BY <1>2, <2>1, <3>1, AgingKeeps DEF StillTrue
    <3>3. proc[q].pc \in {"readCancelled", "readOthers", "unstale"} => NoneLeft(proc[q].req)'
      BY <1>2, <2>1, <3>1, AgingKeeps DEF StillTrue
    <3>4. proc[q].pc = "unstale" =>
            \A i \in proc[q].plan : /\ i \in Ids'
                                    /\ FoundRaw(i, proc[q].req.user, proc[q].req.chainId)'
      BY <1>2, <2>1, <3>1, AgingKeeps DEF StillTrue, Ages
    <3>5. QED  BY <1>2, <3>1, <3>2, <3>3, <3>4 DEF StillTrue
  <2>3. QED  BY <2>2
<1>3. ASSUME NEW p \in Procs, HandlerStep(p)
      PROVE  StillTrue(p)'
  <2>1. CASE proc'[p].pc = "idle"
    BY <2>1 DEF StillTrue, CreateSteps
  \* A creation that is past its insertion only keeps its request.
  <2>2. ASSUME proc[p].pc \in CreateSteps, proc'[p].req = proc[p].req,
               proc'[p].pc \in InsertedSteps
        PROVE  StillTrue(p)'
    BY <2>2 DEF BestInv, StillTrue, CreateSteps, InsertedSteps
  <2>3. CASE CreateOrder(p)
    <3>1. ASSUME NEW step, NEW x, proc' = [proc EXCEPT ![p].pc = step, ![p].req = x]
          PROVE  proc'[p].pc = step /\ proc'[p].req = x
      BY <1>1, <3>1, ReqTo
    <3>2. proc'[p].pc = "validateExisting" /\ proc'[p].req \in Requests
      BY <2>3, <3>1 DEF CreateOrder
    <3>3. QED  BY <3>2 DEF StillTrue
  <2>4. CASE ValidateExisting(p)
    <3>1. CASE Return(p)
      BY <1>1, <2>1, <3>1, ReturnTo
    <3>2. CASE Go(p, "insert") /\ ~ConflictsWithExisting(proc[p].req)
      <4>1. proc'[p].pc = "insert" /\ proc'[p].req = proc[p].req
        BY <1>1, <3>2, GoTo
      <4>2. proc[p].req \in Requests /\ UNCHANGED orders
        BY <2>4 DEF ValidateExisting, BestInv, StillTrue, CreateSteps
      <4>3. ~ConflictsWithExisting(proc[p].req)'
        BY <3>2, <4>1, <4>2 DEF ConflictsWithExisting, UserOrdersOnWallet, Live, Ids
      <4>4. QED  BY <4>1, <4>2, <4>3 DEF StillTrue
    <3>3. QED  BY <2>4, <3>1, <3>2 DEF ValidateExisting
  <2>5. CASE InsertOrder(p)
    <3>1. proc'[p].pc = "readExisting" /\ proc'[p].req = proc[p].req
      BY <2>5, InsertTo DEF BestInv
    <3>2. QED  BY <2>2, <2>5, <3>1 DEF InsertOrder, CreateSteps, InsertedSteps
  <2>6. CASE ReadExisting(p)
    <3>1. ASSUME NEW step, NEW x, proc' = [proc EXCEPT ![p].pc = step, ![p].plan = x]
          PROVE  proc'[p].pc = step /\ proc'[p].req = proc[p].req
      BY <1>1, <3>1, PlanTo
    <3>2. proc'[p].pc \in {"getNonce", "markStale"} /\ proc'[p].req = proc[p].req
      BY <2>6, <3>1 DEF ReadExisting
    <3>3. QED  BY <2>2, <2>6, <3>2 DEF ReadExisting, CreateSteps, InsertedSteps
  <2>7. CASE MarkStale(p)
    <3>1. \/ proc'[p].pc = "idle"
          \/ /\ proc'[p].pc \in {"markStale", "markStaleThrown", "getNonce"}
             /\ proc'[p].req = proc[p].req
      BY <2>7, MarkTo DEF BestInv
    <3>2. proc[p].pc \in CreateSteps
      BY <2>7 DEF MarkStale, CreateSteps
    <3>3. QED  BY <2>1, <2>2, <3>1, <3>2 DEF InsertedSteps
  <2>8. CASE GetUserNonce(p)
    <3>1. CASE Return(p)
      BY <1>1, <2>1, <3>1, ReturnTo
    <3>2. CASE Go(p, "setNonce")
      <4>1. proc'[p].pc = "setNonce" /\ proc'[p].req = proc[p].req
        BY <1>1, <3>2, GoTo
      <4>2. QED  BY <2>2, <2>8, <4>1 DEF GetUserNonce, CreateSteps, InsertedSteps
    <3>3. QED  BY <2>8, <3>1, <3>2 DEF GetUserNonce
  <2>9. CASE CancelOrders(p)
    <3>1. ASSUME NEW step, NEW x, proc' = [proc EXCEPT ![p].pc = step, ![p].req = x]
          PROVE  proc'[p].pc = step /\ proc'[p].req = x
      BY <1>1, <3>1, ReqTo
    <3>2. PICK c \in Cancellations :
            /\ orders' = [i \in Ids |->
                 IF /\ ~Deleted(i)
                    /\ orders[i].dto.participant = c.user
                    /\ orders[i].dto.chainId = c.chainId
                    /\ orders[i].dto.nonce \in c.nonces
                   THEN Cancelled(orders[i]) ELSE orders[i]]
            /\ proc' = [proc EXCEPT ![p].pc = "readCancelled", ![p].req = c]
      BY <2>9 DEF CancelOrders
    <3>3. proc'[p].pc = "readCancelled" /\ proc'[p].req = c
      BY <3>1, <3>2
    <3>4. TypeInv /\ orders \in [Ids -> Row] /\ Ids' = Ids
      BY <2>9, TableIds, StatusRewrites, RewritesGrow DEF BestInv, TypeInv
    <3>5. ASSUME NEW i \in Ids, orders'[i].dto.participant = c.user,
                 orders'[i].dto.chainId = c.chainId, orders'[i].dto.nonce \in c.nonces
          PROVE  ~Live(i)'
      <4>1. /\ Cancelled(orders[i]).status = "CANCELLED"
            /\ Cancelled(orders[i]).dto = orders[i].dto
        BY <3>4 DEF Cancelled, Row
      <4>2. orders'[i].status \in {"CANCELLED", "DELETED"}
        BY <3>2, <3>5, <4>1 DEF Deleted
      <4>3. QED  BY <4>2 DEF Live
    <3>6. NoneLeft(c)'
      BY <3>4, <3>5 DEF NoneLeft
    <3>7. QED  BY <3>3, <3>6 DEF StillTrue, CreateSteps
  <2>10. CASE ReadCancelled(p) \/ ReadOthers(p)
    <3>1. ASSUME NEW step, NEW x, proc' = [proc EXCEPT ![p].pc = step, ![p].plan = x]
          PROVE  /\ proc'[p].pc = step /\ proc'[p].plan = x
                 /\ proc'[p].req = proc[p].req
      <4>1. proc[p] \in Handler /\ proc'[p] = [proc[p] EXCEPT !.pc = step, !.plan = x]
        BY <1>1, <3>1
      <4>2. QED  BY <4>1 DEF Handler
    <3>2. /\ proc'[p].pc \in {"readOthers", "unstale"} /\ proc'[p].req = proc[p].req
          /\ UNCHANGED orders
      BY <2>10, <3>1 DEF ReadCancelled, ReadOthers
    <3>3. proc[p].req \in Cancellations /\ NoneLeft(proc[p].req)
      BY <2>10 DEF ReadCancelled, ReadOthers, BestInv, StillTrue
    <3>4. NoneLeft(proc[p].req)'
      BY <3>2, <3>3 DEF NoneLeft, Live, Ids
    <3>5. proc'[p].pc = "unstale" =>
            \A i \in proc'[p].plan :
              i \in Ids /\ FoundRaw(i, proc[p].req.user, proc[p].req.chainId)
      <4>1. CASE ReadCancelled(p)
        BY <3>1, <4>1 DEF ReadCancelled
      <4>2. CASE ReadOthers(p)
        <5> DEFINE c == proc[p].req
                   tokens == {orders[i].dto.tokenId : i \in proc[p].plan}
                   others == {i \in Ids : /\ FoundRaw(i, c.user, c.chainId) /\ Live(i)
                                          /\ orders[i].dto.tokenId \in tokens}
        <5>1. PICK chosen \in Picks(others, SameUnstaleGroup, UnstaleBefore) :
                proc' = [proc EXCEPT ![p].pc = "unstale", ![p].plan = chosen]
          BY <4>2 DEF ReadOthers
        <5>2. chosen \subseteq others
          BY <5>1 DEF Picks
        <5>3. proc'[p].plan = chosen
          BY <3>1, <5>1
        <5>4. QED  BY <5>2, <5>3
      <4>3. QED  BY <2>10, <4>1, <4>2
    <3>6. proc'[p].pc = "unstale" =>
            \A i \in proc'[p].plan :
              i \in Ids' /\ FoundRaw(i, proc[p].req.user, proc[p].req.chainId)'
      BY <3>2, <3>5 DEF FoundRaw, Ids
    <3>7. QED  BY <3>2, <3>3, <3>4, <3>6 DEF StillTrue, CreateSteps
  <2>11. CASE ProcessCancellationTx(p)
    <3>1. ASSUME NEW step, NEW x, proc' = [proc EXCEPT ![p].pc = step, ![p].req = x]
          PROVE  proc'[p].pc = step /\ proc'[p].req = x
      BY <1>1, <3>1, ReqTo
    <3>2. proc'[p].pc = "markPending" /\ proc'[p].req \in CancelRequests
      BY <2>11, <3>1 DEF ProcessCancellationTx
    <3>3. QED  BY <3>2 DEF StillTrue, CreateSteps
  <2>12. CASE CreateSale(p)
    <3>1. ASSUME NEW step, NEW x, proc' = [proc EXCEPT ![p].pc = step, ![p].req = x]
          PROVE  proc'[p].pc = step
      BY <1>1, <3>1, ReqTo
    <3>2. \E x : proc' = [proc EXCEPT ![p].pc = "deleteOrder", ![p].req = x]
      BY <2>12 DEF CreateSale
    <3>3. proc'[p].pc = "deleteOrder"
      BY <3>1, <3>2
    <3>4. QED  BY <3>3 DEF StillTrue, CreateSteps
  <2>13. CASE \/ RejectDuplicateNonce(p) \/ SetUserNonce(p) \/ Unstale(p)
              \/ MarkOrdersAsPendingCancellation(p) \/ DeleteOrder(p) \/ Abort(p)
    <3>1. Return(p)
      BY <2>13 DEF RejectDuplicateNonce, SetUserNonce, Unstale,
                   MarkOrdersAsPendingCancellation, DeleteOrder, Abort
    <3>2. QED  BY <1>1, <2>1, <3>1, ReturnTo
  <2>14. QED
    BY <1>3, <2>3, <2>4, <2>5, <2>6, <2>7, <2>8, <2>9, <2>10, <2>11, <2>12, <2>13
       DEF HandlerStep
<1>4. ASSUME NEW p \in Procs, HandlerStep(p), NEW q \in Procs
      PROVE  StillTrue(q)'
  <2>1. q = p
    BY DEF OneAtATime
  <2>2. QED  BY <1>3, <1>4, <2>1
<1>5. ASSUME NEW p \in Procs, InsertOrder(p)
      PROVE  HandlerStep(p)
  BY <1>5 DEF HandlerStep
<1>6. QED
  BY <1>2, <1>4, <1>5
     DEF Next, JobStep, StartStalenessJob, ReadSome, ReadActiveOrders,
         UpdateOrderStaleness, AbortJob, Expire, UpsertMichiWallet, PostSale, vars

\* The step a handler takes from where it is, unless it is cut short.
LEMMA OnlyStepThere ==
  ASSUME NEW p \in Procs, HandlerStep(p), ~Abort(p)
  PROVE  /\ proc[p].pc = "readExisting" => ReadExisting(p)
         /\ proc[p].pc \in {"markStale", "markStaleThrown"} => MarkStale(p)
         /\ proc[p].pc = "unstale" => Unstale(p)
<1>1. CASE \/ CreateOrder(p) \/ ValidateExisting(p) \/ InsertOrder(p)
           \/ RejectDuplicateNonce(p) \/ GetUserNonce(p) \/ SetUserNonce(p)
  BY <1>1 DEF CreateOrder, ValidateExisting, InsertOrder, RejectDuplicateNonce,
              GetUserNonce, SetUserNonce
<1>2. CASE \/ CancelOrders(p) \/ ReadCancelled(p) \/ ReadOthers(p)
           \/ ProcessCancellationTx(p) \/ MarkOrdersAsPendingCancellation(p)
           \/ CreateSale(p) \/ DeleteOrder(p)
  BY <1>2 DEF CancelOrders, ReadCancelled, ReadOthers, ProcessCancellationTx,
              MarkOrdersAsPendingCancellation, CreateSale, DeleteOrder
<1>3. CASE ReadExisting(p) \/ MarkStale(p) \/ Unstale(p)
  BY <1>3 DEF ReadExisting, MarkStale, Unstale
<1>4. QED  BY <1>1, <1>2, <1>3 DEF HandlerStep

LEMMA BestHiddenStep ==
  ASSUME OneAtATime, MaxFaults = 0, BestInv, HarmlessCancellations, [Next]_vars
  PROVE  BestHidden'
<1>1. TypeInv /\ Grows /\ proc \in [Procs -> Handler]
  BY StepOnOrders DEF BestInv, TypeInv, TypeOK
<1>2. \A i \in Ids : orders[i].dto \in CreateOrderDto
  BY <1>1, TableIds DEF TypeInv
<1>3. \A i, j \in Ids : Outshone(i, j) =>
        /\ orders[j].isStale \/ \E p \in Procs : ToHide(p, i, j)
        /\ ~\E w \in writes : w.id = j /\ ~w.isStale
  BY DEF BestInv, BestHidden, WritesHarmless
\* An order that outshines another does so before the step, unless it is new.
<1>4. ASSUME Ages,
             \A i, j \in Ids : Outshone(i, j) /\ Outshone(i, j)' =>
               orders'[j].isStale \/ \E p \in Procs : ToHide(p, i, j)'
      PROVE  BestHidden'
  <2>1. Ids' = Ids /\ \A i, j \in Ids : Outshone(i, j)' => Outshone(i, j)
    BY <1>4, AgingKeeps DEF Ages
  <2>2. QED  BY <1>4, <2>1 DEF BestHidden
<1>5. CASE UNCHANGED proc /\ \A p \in Procs : ~InsertOrder(p) /\ ~Unstale(p)
  <2>1. Ages
    BY <1>5, StepAges
  <2>2. ASSUME NEW i \in Ids, NEW j \in Ids, Outshone(i, j)
        PROVE  orders'[j].isStale \/ \E p \in Procs : ToHide(p, i, j)'
    <3>1. CASE orders[j].isStale
      BY <1>3, <1>5, <2>2, <3>1, StaleMoves
    <3>2. CASE \E p \in Procs : ToHide(p, i, j)
      BY <1>5, <3>2 DEF ToHide
    <3>3. QED  BY <1>3, <2>2, <3>1, <3>2
  <2>3. QED  BY <1>4, <2>1, <2>2
<1>6. ASSUME NEW p \in Procs, HandlerStep(p)
      PROVE  BestHidden'
  <2>1. \A q \in Procs : q = p
    BY DEF OneAtATime
  <2>2. (\A q \in Procs : ~InsertOrder(q)) => Ages
    BY StepAges
  <2>3. CASE InsertOrder(p)
    <3>1. PICK id :
          /\ proc'[p].pc = "readExisting" /\ proc'[p].me = id
          /\ Ids' = Ids \cup {id} /\ orders'[id].dto = proc[p].req
          /\ \A i \in Ids : orders'[i] = orders[i]
      BY <1>1, <2>3, InsertTo, InsertAppends
    <3>2. ASSUME NEW i \in Ids, NEW j \in Ids, Outshone(i, j)'
          PROVE  orders'[j].isStale
      <4>1. Outshone(i, j)
        BY <3>1, <3>2 DEF Outshone, Live, BetterOnSameWallet, SortsBefore
      <4>2. ~ToHide(p, i, j)
        BY <2>3 DEF InsertOrder, ToHide
      <4>3. orders[j].isStale
        BY <1>3, <2>1, <4>1, <4>2
      <4>4. QED  BY <3>1, <4>3
    <3>3. ASSUME NEW i \in Ids', Outshone(i, id)'
          PROVE  FALSE
      <4> DEFINE d == proc[p].req
      <4>1. d \in CreateOrderDto /\ ~ConflictsWithExisting(d)
        BY <1>1, <2>3 DEF InsertOrder, TypeInv, HandlersOK, CreateSteps, BestInv, StillTrue
      <4>2. d.amount \in Nat
        BY <4>1 DEF CreateOrderDto
      <4>3. i # id
        BY <3>1, <3>3, <4>2 DEF Outshone, BetterOnSameWallet, SortsBefore
      <4>4. i \in Ids /\ Live(i) /\ orders[i].dto \in CreateOrderDto
        BY <1>2, <3>1, <3>3, <4>3 DEF Outshone, Live
      <4>5. /\ orders[i].dto.tokenId = d.tokenId /\ orders[i].dto.participant = d.participant
            /\ orders[i].dto.type = d.type
            /\ IF d.type = "LISTING" THEN orders[i].dto.amount < d.amount
                                     ELSE orders[i].dto.amount > d.amount
        BY <3>1, <3>3, <4>4 DEF Outshone, BetterOnSameWallet, SortsBefore
      <4>6. QED  BY <4>1, <4>4, <4>5, NotRuledOut
    <3>4. ASSUME NEW i \in Ids', NEW j \in Ids', Outshone(i, j)'
          PROVE  orders'[j].isStale \/ \E q \in Procs : ToHide(q, i, j)'
      <4>1. CASE j = id
        BY <3>3, <3>4, <4>1
      <4>2. CASE i = id
        BY <3>1, <4>2 DEF ToHide
      <4>3. QED  BY <3>1, <3>2, <3>4, <4>1, <4>2
    <3>5. QED  BY <3>4 DEF BestHidden
  <2>4. CASE ReadExisting(p)
    <3> DEFINE outdone == OutdoneBy(proc[p].req, proc[p].me)
    <3>1. /\ proc'[p].me = proc[p].me /\ proc'[p].plan = outdone
          /\ proc'[p].pc = IF outdone = {} THEN "getNonce" ELSE "markStale"
          /\ UNCHANGED orders
      <4>1. /\ proc[p] \in Handler
            /\ proc'[p] = [proc[p] EXCEPT
                             !.pc = IF outdone = {} THEN "getNonce" ELSE "markStale",
                             !.plan = outdone]
            /\ UNCHANGED orders
        BY <1>1, <2>4 DEF ReadExisting
      <4> HIDE DEF outdone
      <4>2. QED  BY <4>1 DEF Handler
    <3>2. proc[p].me \in Ids /\ orders[proc[p].me].dto = proc[p].req
      BY <1>1, <2>4 DEF ReadExisting, TypeInv, HandlersOK, InsertedSteps
    <3>3. ASSUME NEW i \in Ids, NEW j \in Ids, Outshone(i, j), ~orders[j].isStale
          PROVE  ToHide(p, i, j)'
      <4>1. proc[p].me = i
        BY <1>3, <2>1, <3>3 DEF ToHide
      <4>2. j \in outdone
        BY <1>2, <3>2, <3>3, <4>1, OutshinesOutdoes
      <4>3. QED  BY <3>1, <4>1, <4>2 DEF ToHide
    <3>4. Ages
      BY <2>2, <2>1, <2>4 DEF ReadExisting, InsertOrder
    <3>5. QED  BY <1>4, <3>1, <3>3, <3>4
  <2>5. CASE MarkStale(p)
    <3>1. PICK k \in proc[p].plan :
            /\ orders' = IF Deleted(k) THEN orders ELSE WithStale(k, TRUE)
            /\ \/ proc'[p].pc \in {"idle", "getNonce"} /\ proc[p].plan = {k}
               \/ /\ proc'[p].pc \in {"markStale", "markStaleThrown"}
                  /\ proc'[p].plan = proc[p].plan \ {k}
                  /\ proc'[p].me = proc[p].me
      BY <1>1, <2>5, MarkTo
    <3>2. Ages
      BY <2>2, <2>1, <2>5 DEF MarkStale, InsertOrder
    <3>3. ASSUME NEW i \in Ids, NEW j \in Ids, Outshone(i, j)
          PROVE  orders'[j].isStale \/ ToHide(p, i, j)'
      <4>1. CASE orders[j].isStale
        <5>1. ~Unstale(p)
          BY <2>5 DEF MarkStale, Unstale
        <5>2. QED  BY <1>3, <2>1, <3>3, <4>1, <5>1, StaleMoves
      <4>2. CASE j = k
        <5>1. ~Deleted(k)
          BY <3>3, <4>2 DEF Outshone, Live, Deleted
        <5>2. orders \in [Ids -> Row]
          BY <1>1, TableIds DEF TypeInv
        <5>3. QED  BY <3>1, <4>2, <5>1, <5>2 DEF WithStale, Row
      <4>3. CASE ~orders[j].isStale /\ j # k
        <5>1. ToHide(p, i, j)
          BY <1>3, <2>1, <3>3, <4>3
        <5>2. proc[p].me = i /\ j \in proc[p].plan
          BY <2>5, <5>1 DEF ToHide, MarkStale
        <5>3. QED  BY <3>1, <4>3, <5>2 DEF ToHide
      <4>4. QED  BY <4>1, <4>2, <4>3
    <3>4. QED  BY <1>4, <3>2, <3>3
  <2>6. CASE Unstale(p)
    <3> DEFINE c == proc[p].req
    <3>1. Ages
      BY <2>2, <2>1, <2>6 DEF Unstale, InsertOrder
    <3>2. /\ c \in Cancellations /\ NoneLeft(c)
          /\ \A i \in proc[p].plan : i \in Ids /\ FoundRaw(i, c.user, c.chainId)
      BY <2>6 DEF Unstale, BestInv, StillTrue
    <3>3. ASSUME NEW i \in Ids, NEW j \in Ids, Outshone(i, j)
          PROVE  orders'[j].isStale
      <4>1. orders[j].isStale
        BY <1>3, <2>1, <2>6, <3>3 DEF ToHide, Unstale
      <4>2. j \notin proc[p].plan
        <5>1. SUFFICES ASSUME j \in proc[p].plan
                       PROVE  FALSE
          OBVIOUS
        <5>2. /\ c.user \notin MixedCase
              /\ orders[j].dto.participant = c.user /\ orders[j].dto.chainId = c.chainId
          BY <3>2, <5>1 DEF FoundRaw
        <5>3. /\ orders[i].dto.participant = c.user /\ orders[i].dto.chainId = c.chainId
              /\ orders[i].dto.type = orders[j].dto.type
              /\ orders[i].dto.tokenId = orders[j].dto.tokenId
              /\ orders[i].dto.currency = orders[j].dto.currency
          BY <3>3, <5>2 DEF Outshone, BetterOnSameWallet
        <5>4. orders[i].dto.nonce \notin c.nonces /\ orders[j].dto.nonce \notin c.nonces
          BY <3>2, <3>3, <5>2, <5>3 DEF NoneLeft, Outshone
        <5>5. orders[i].dto \in Requests /\ orders[j].dto \in Requests
          BY DEF BestInv
        <5>6. OnePriceLeft(c)
          BY <3>2, <5>2 DEF HarmlessCancellations
        <5>7. orders[i].dto.amount = orders[j].dto.amount
          BY <5>2, <5>3, <5>4, <5>5, <5>6 DEF OnePriceLeft
        <5>8. orders[i].dto.amount \in Nat
          BY <1>2 DEF CreateOrderDto
        <5>9. QED  BY <3>3, <5>7, <5>8 DEF Outshone, BetterOnSameWallet, SortsBefore
      <4>3. QED  BY <1>3, <2>1, <3>3, <4>1, <4>2, StaleMoves
    <3>4. QED  BY <1>4, <3>1, <3>3
  <2>7. CASE proc[p].pc \notin {"readExisting", "markStale", "markStaleThrown"}
             /\ ~InsertOrder(p) /\ ~Unstale(p)
    <3>1. Ages
      BY <2>1, <2>2, <2>7
    <3>2. ASSUME NEW i \in Ids, NEW j \in Ids, Outshone(i, j)
          PROVE  orders'[j].isStale
      <4>1. orders[j].isStale
        BY <1>3, <2>1, <2>7, <3>2 DEF ToHide
      <4>2. QED  BY <1>3, <2>1, <2>7, <3>2, <4>1, StaleMoves
    <3>3. QED  BY <1>4, <3>1, <3>2
  <2>8. /\ proc[p].pc = "readExisting" => ReadExisting(p)
        /\ proc[p].pc \in {"markStale", "markStaleThrown"} => MarkStale(p)
    BY <1>1, <1>6, NothingAborts, OnlyStepThere
  <2>9. QED  BY <2>3, <2>4, <2>5, <2>6, <2>7, <2>8
<1>7. ASSUME NEW p \in Procs, InsertOrder(p) \/ Unstale(p)
      PROVE  HandlerStep(p)
  BY <1>7 DEF HandlerStep
<1>8. QED
  BY <1>5, <1>6, <1>7
     DEF Next, JobStep, StartStalenessJob, ReadSome, ReadActiveOrders,
         UpdateOrderStaleness, AbortJob, Expire, UpsertMichiWallet, PostSale, vars

\* The job decides on the table as it is: what it shows is the first of its
\* group, and stays so until an order is inserted.
LEMMA WritesHarmlessStep ==
  ASSUME BestInv, HarmlessCancellations, InsertsBetweenUpdates, [Next]_vars
  PROVE  WritesHarmless'
<1>1. CASE \E p \in Procs : InsertOrder(p)
  <2>1. writes = {} /\ UNCHANGED writes
    BY <1>1 DEF InsertsBetweenUpdates, InsertOrder, jobVars
  <2>2. QED  BY <2>1 DEF WritesHarmless
<1>2. CASE \A p \in Procs : ~InsertOrder(p)
  <2>1. Ages
    BY <1>2, StepAges
  <2>2. ASSUME NEW w, w.id \in Ids, ~w.isStale => \A i \in Ids : ~Outshone(i, w.id)
        PROVE  w.id \in Ids' /\ (~w.isStale => \A i \in Ids' : ~Outshone(i, w.id)')
    BY <2>1, <2>2, AgingKeeps DEF Ages
  <2>3. ASSUME NEW chain \in LiveChains, ReadActiveOrders(chain), NEW w \in writes'
        PROVE  w.id \in Ids /\ (~w.isStale => \A i \in Ids : ~Outshone(i, w.id))
    <3>1. CASE w \in writes
      BY <3>1 DEF BestInv, WritesHarmless
    <3>2. CASE w \notin writes
      <4>1. PICK firsts \in Picks(ActiveOrders(chain), SameGroup, SortsBefore) :
              w \in Corrections(ActiveOrders(chain), firsts)
        BY <2>3, <3>2 DEF ReadActiveOrders
      <4>2. PICK j \in ActiveOrders(chain) : w = [id |-> j, isStale |-> j \notin firsts]
        BY <4>1 DEF Corrections
      <4>3. w.id = j /\ (w.isStale <=> j \notin firsts)
        BY <4>2
      <4>4. ASSUME j \in firsts, NEW i \in Ids, Outshone(i, j)
            PROVE  FALSE
        <5>1. i \in ActiveOrders(chain) /\ SameGroup(i, j) /\ SortsBefore(i, j)
          BY <4>2, <4>4 DEF Outshone, BetterOnSameWallet, ActiveOrders, SameGroup
        <5>2. QED  BY <4>1, <4>4, <5>1 DEF Picks
      <4>5. QED  BY <4>2, <4>3, <4>4 DEF ActiveOrders
    <3>3. QED  BY <3>1, <3>2
  <2>4. CASE writes' \subseteq writes
    BY <2>2, <2>4 DEF BestInv, WritesHarmless
  <2>5. ASSUME NEW chain \in LiveChains, ReadActiveOrders(chain)
        PROVE  WritesHarmless'
    BY <2>2, <2>3, <2>5 DEF WritesHarmless
  <2>6. QED
    BY <2>4, <2>5, UnchangedParts DEF StartStalenessJob, UpdateOrderStaleness, AbortJob
<1>3. QED  BY <1>1, <1>2

LEMMA BestStep ==
  ASSUME OneAtATime, MaxFaults = 0, HarmlessCancellations, InsertsBetweenUpdates,
         BestInv, [Next]_vars
  PROVE  BestInv'
<1>1. TypeInv' /\ BestHidden' /\ \A p \in Procs : StillTrue(p)'
  BY BestHiddenStep, StillTrueStep, TypeStep DEF BestInv
<1>2. WritesHarmless'
  BY WritesHarmlessStep
<1>3. \A i \in Ids' : orders'[i].dto \in Requests
  <2>1. CASE Ages
    BY <2>1 DEF Ages, BestInv
  <2>2. ASSUME NEW p \in Procs, InsertOrder(p)
        PROVE  \A i \in Ids' : orders'[i].dto \in Requests
    <3>1. proc[p].req \in Requests
      BY <2>2 DEF InsertOrder, BestInv, StillTrue, CreateSteps
    <3>2. QED  BY <2>2, <3>1, InsertAppends DEF BestInv
  <2>3. QED  BY <2>1, <2>2, StepAges
<1>4. QED  BY <1>1, <1>2, <1>3 DEF BestInv

\* When requests are handled one at a time, none is cut short and none inserts
\* its order while updates of the hourly job are in flight, an order that is
\* shown is the best its participant has on that wallet: the checks and updates
\* of a creation suffice for it, and neither the job nor a purchase undoes it,
\* as long as no cancellation shows the wrong order again.
THEOREM ShownAlwaysBest ==
  ASSUME OneAtATime, MaxFaults = 0, HarmlessCancellations
  PROVE  Spec /\ []InsertsBetweenUpdates => []ShownIsBest
<1>1. Init => BestInv
  <2>1. ASSUME Init
        PROVE  TypeInv /\ writes = {} /\ Ids = {}
    BY <2>1, TypeInit DEF Init, Ids
  <2>2. ASSUME Init, NEW p \in Procs
        PROVE  StillTrue(p)
    BY <2>2 DEF Init, StillTrue, Idle, CreateSteps
  <2>3. QED  BY <2>1, <2>2 DEF BestInv, BestHidden, WritesHarmless
<1>2. BestInv /\ InsertsBetweenUpdates /\ [Next]_vars => BestInv'
  BY BestStep
<1>3. BestInv => ShownIsBest
  BY DEF BestInv, BestHidden, Outshone, ShownIsBest, Quiet, ToHide
<1>4. QED  BY <1>1, <1>2, <1>3, PTL DEF Spec

----------------------------------------------------------------------------
(* What a cancellation shows again.                                        *)

\* The orders a cancellation handler is to read first.
Concerned(c, k) ==
  /\ FoundRaw(k, c.user, c.chainId) /\ orders[k].dto.nonce \in c.nonces
  /\ ~Deleted(k) /\ ~orders[k].expired

\* An order on the wallet of a concerned one has, in the handler's choice, one
\* of its type and currency.
Represented(p, i) ==
  \E j \in proc[p].plan :
    /\ j \in Ids /\ SameUnstaleGroup(i, j)
    /\ FoundRaw(j, proc[p].req.user, proc[p].req.chainId)
    /\ orders[j].status \in {"ACTIVE", "PROCESSING_CANCELLATION"}

ChoiceOK(p) ==
  \A i, k \in Ids :
    /\ Concerned(proc[p].req, k)
    /\ FoundRaw(i, proc[p].req.user, proc[p].req.chainId) /\ Live(i)
    /\ orders[i].dto.tokenId = orders[k].dto.tokenId
    => Represented(p, i)

CancelInv ==
  /\ TypeInv
  /\ \A p \in Procs :
       /\ proc[p].pc = "readOthers" =>
            \A k \in Ids : Concerned(proc[p].req, k) => k \in proc[p].plan
       /\ proc[p].pc = "unstale" => ChoiceOK(p)

WorldStep == PostSale \/ JobStep \/ AbortJob \/ Expire \/ UpsertMichiWallet

\* What the job, a sale that is posted and the passing of time leave alone.
LEMMA RestsStep ==
  ASSUME TypeInv, WorldStep \/ UNCHANGED vars
  PROVE  /\ UNCHANGED proc /\ Ids' = Ids
         /\ \A i \in Ids : /\ orders'[i].dto = orders[i].dto
                           /\ orders'[i].status = orders[i].status
                           /\ orders[i].expired => orders'[i].expired
<1>1. orders \in [Ids -> Row]
  BY TableIds DEF TypeInv
<1>2. CASE UNCHANGED <<proc, orders>>
  BY <1>2 DEF Ids
<1>3. CASE UpdateOrderStaleness
  <2>1. UNCHANGED proc
    BY <1>3 DEF UpdateOrderStaleness
  <2>2. orders' = orders \/ \E w \in writes : orders' = WithStale(w.id, w.isStale)
    BY <1>3 DEF UpdateOrderStaleness
  <2>3. ASSUME NEW w \in writes, orders' = WithStale(w.id, w.isStale)
        PROVE  Ids' = Ids /\ Rewrites
    <3>1. w.isStale \in BOOLEAN
      BY DEF TypeInv, TypeOK
    <3>2. Rewrites
      BY <2>3, <3>1, SetStaleRewrites DEF TypeInv
    <3>3. QED  BY <3>2, RewritesGrow DEF TypeInv
  <2>4. ASSUME NEW w \in writes, orders' = WithStale(w.id, w.isStale), NEW i \in Ids
        PROVE  /\ orders'[i].status = orders[i].status
               /\ orders'[i].expired = orders[i].expired
    BY <1>1, <2>4 DEF WithStale, Row
  <2>5. QED  BY <1>2, <2>1, <2>2, <2>3, <2>4 DEF Rewrites
<1>4. CASE Expire
  <2>1. PICK k \in Ids : orders' = [orders EXCEPT ![k].expired = TRUE]
    BY <1>4 DEF Expire
  <2>2. Ids' = Ids /\ Rewrites /\ UNCHANGED proc
    BY <1>4, ExpireRewrites, RewritesGrow DEF Expire, TypeInv
  <2>3. ASSUME NEW i \in Ids
        PROVE  /\ orders'[i].status = orders[i].status
               /\ orders[i].expired => orders'[i].expired
    <3>1. orders'[i] \in {orders[i], [orders[i] EXCEPT !.expired = TRUE]}
      BY <1>1, <2>1
    <3>2. /\ [orders[i] EXCEPT !.expired = TRUE].status = orders[i].status
          /\ [orders[i] EXCEPT !.expired = TRUE].expired
      BY <1>1 DEF Row
    <3>3. QED  BY <3>1, <3>2
  <2>4. QED  BY <2>2, <2>3 DEF Rewrites
<1>5. QED
  BY <1>2, <1>3, <1>4
     DEF WorldStep, JobStep, StartStalenessJob, ReadSome, ReadActiveOrders, AbortJob,
         UpsertMichiWallet, PostSale, vars

\* While the cancellation is being handled time passes, and no more.
LEMMA RestsKeep ==
  ASSUME CancelInv, WorldStep \/ UNCHANGED vars,
         NEW p \in Procs
  PROVE  /\ proc'[p].pc = "readOthers" =>
              \A k \in Ids' : Concerned(proc[p].req, k)' => k \in proc'[p].plan
         /\ proc'[p].pc = "unstale" => ChoiceOK(p)'
<1>1. /\ UNCHANGED proc /\ Ids' = Ids
      /\ \A i \in Ids : /\ orders'[i].dto = orders[i].dto
                        /\ orders'[i].status = orders[i].status
                        /\ orders[i].expired => orders'[i].expired
  BY RestsStep DEF CancelInv
<1>2. \A k \in Ids : Concerned(proc[p].req, k)' => Concerned(proc[p].req, k)
  BY <1>1 DEF Concerned, FoundRaw, Deleted
<1>3. \A i \in Ids : Live(i)' => Live(i)
  BY <1>1 DEF Live
<1>4. \A i \in Ids : Represented(p, i) => Represented(p, i)'
  BY <1>1 DEF Represented, FoundRaw, SameUnstaleGroup
<1>5. \A i \in Ids : FoundRaw(i, proc[p].req.user, proc[p].req.chainId)' =>
                     FoundRaw(i, proc[p].req.user, proc[p].req.chainId)
  BY <1>1 DEF FoundRaw
<1>6. proc[p].pc = "unstale" => ChoiceOK(p)'
  <2>1. SUFFICES ASSUME proc[p].pc = "unstale", NEW i \in Ids, NEW k \in Ids,
                        Concerned(proc[p].req, k)',
                        FoundRaw(i, proc[p].req.user, proc[p].req.chainId)', Live(i)',
                        orders'[i].dto.tokenId = orders'[k].dto.tokenId
                 PROVE  Represented(p, i)'
    BY <1>1 DEF ChoiceOK
  <2>2. ChoiceOK(p)
    BY <2>1 DEF CancelInv
  <2>3. Represented(p, i)
    BY <1>1, <1>2, <1>3, <1>5, <2>1, <2>2 DEF ChoiceOK
  <2>4. QED  BY <1>4, <2>3
<1>7. QED  BY <1>1, <1>2, <1>6 DEF CancelInv

LEMMA CancelStep ==
  ASSUME OneAtATime, CancelInv, [Next]_vars
  PROVE  CancelInv'
<1>1. TypeInv /\ TypeInv' /\ proc \in [Procs -> Handler]
  BY TypeStep DEF CancelInv, TypeInv, TypeOK
<1>2. ASSUME WorldStep \/ UNCHANGED vars
      PROVE  CancelInv'
  BY <1>1, <1>2, RestsStep, RestsKeep DEF CancelInv
<1>3. ASSUME NEW p \in Procs, HandlerStep(p)
      PROVE  CancelInv'
  <2>1. \A q \in Procs : q = p
    BY DEF OneAtATime
  <2>2. CASE proc'[p].pc \notin {"readOthers", "unstale"}
    BY <1>1, <2>1, <2>2 DEF CancelInv
  <2>3. CASE ReadCancelled(p)
    <3> DEFINE concerned == {i \in Ids : /\ FoundRaw(i, proc[p].req.user, proc[p].req.chainId)
                                         /\ ~Deleted(i) /\ ~orders[i].expired
                                         /\ orders[i].dto.nonce \in proc[p].req.nonces}
    <3>1. /\ proc[p] \in Handler /\ UNCHANGED orders
          /\ proc'[p] = [proc[p] EXCEPT !.pc = "readOthers", !.plan = concerned]
      BY <1>1, <2>3 DEF ReadCancelled
    <3>2. /\ proc'[p].pc = "readOthers" /\ proc'[p].plan = concerned
          /\ proc'[p].req = proc[p].req
      <4> HIDE DEF concerned
      <4>1. QED  BY <3>1 DEF Handler
    <3>3. \A k \in Ids' : Concerned(proc[p].req, k)' => k \in proc'[p].plan
      BY <3>1, <3>2 DEF Concerned, FoundRaw, Deleted, Ids
    <3>4. QED  BY <1>1, <2>1, <3>2, <3>3 DEF CancelInv
  <2>4. CASE ReadOthers(p)
    <3> DEFINE c == proc[p].req
    <3> DEFINE tokens == {orders[i].dto.tokenId : i \in proc[p].plan}
    <3> DEFINE others == {i \in Ids : /\ FoundRaw(i, c.user, c.chainId) /\ Live(i)
                                      /\ orders[i].dto.tokenId \in tokens}
    <3>1. PICK chosen \in Picks(others, SameUnstaleGroup, UnstaleBefore) :
            /\ proc' = [proc EXCEPT ![p].pc = "unstale", ![p].plan = chosen]
            /\ UNCHANGED orders
      BY <2>4 DEF ReadOthers
    <3>2. /\ chosen \subseteq others
          /\ \A i \in others : \E j \in chosen : SameUnstaleGroup(i, j)
      BY <3>1 DEF Picks
    <3>3. proc[p].pc = "readOthers"
      BY <2>4 DEF ReadOthers
    <3>4. \A k \in Ids : Concerned(c, k) => orders[k].dto.tokenId \in tokens
      BY <3>3 DEF CancelInv
    <3>5. proc[p] \in Handler /\ proc'[p] = [proc[p] EXCEPT !.pc = "unstale", !.plan = chosen]
      BY <1>1, <3>1
    <3>6. proc'[p].pc = "unstale" /\ proc'[p].plan = chosen /\ proc'[p].req = c
      BY <3>5 DEF Handler
    <3>7. ASSUME NEW i \in Ids, NEW k \in Ids, Concerned(c, k),
                 FoundRaw(i, c.user, c.chainId), Live(i),
                 orders[i].dto.tokenId = orders[k].dto.tokenId
          PROVE  \E j \in chosen :
                   /\ j \in Ids /\ SameUnstaleGroup(i, j) /\ FoundRaw(j, c.user, c.chainId)
                   /\ orders[j].status \in {"ACTIVE", "PROCESSING_CANCELLATION"}
      <4>1. i \in others
        BY <3>4, <3>7
      <4>2. PICK j \in chosen : SameUnstaleGroup(i, j)
        BY <3>2, <4>1
      <4>3. j \in others
        BY <3>2
      <4>4. QED  BY <4>2, <4>3 DEF Live
    <3> HIDE DEF c, others, tokens
    <3>8. ChoiceOK(p)'
      <4>1. UNCHANGED orders
        BY <3>1
      <4>2. ASSUME NEW i \in Ids, NEW k \in Ids, Concerned(c, k),
                   FoundRaw(i, c.user, c.chainId), Live(i),
                   orders[i].dto.tokenId = orders[k].dto.tokenId
            PROVE  Represented(p, i)'
        BY <3>6, <3>7, <4>1, <4>2 DEF Represented, FoundRaw, SameUnstaleGroup, Ids
      <4>3. QED
        BY <3>6, <4>1, <4>2 DEF ChoiceOK, Concerned, FoundRaw, Live, Deleted, Ids
    <3>9. QED  BY <1>1, <2>1, <3>6, <3>8 DEF CancelInv
  <2>5. ReadCancelled(p) \/ ReadOthers(p) \/ proc'[p].pc \notin {"readOthers", "unstale"}
    <3>1. CASE InsertOrder(p)
      BY <1>1, <3>1, InsertTo
    <3>2. CASE MarkStale(p)
      BY <1>1, <3>2, MarkTo
    <3>3. CASE ReadExisting(p)
      <4>1. PICK step \in {"getNonce", "markStale"} :
              \E x : proc' = [proc EXCEPT ![p].pc = step, ![p].plan = x]
        BY <3>3 DEF ReadExisting
      <4>2. PICK x : proc' = [proc EXCEPT ![p].pc = step, ![p].plan = x]
        BY <4>1
      <4>3. proc[p] \in Handler /\ proc'[p] = [proc[p] EXCEPT !.pc = step, !.plan = x]
        BY <1>1, <4>2
      <4>4. proc'[p].pc = step
        BY <4>3 DEF Handler
      <4>5. QED  BY <4>4
    <3>4. CASE GetUserNonce(p)
      <4>1. Go(p, "setNonce") \/ Return(p)
        BY <3>4 DEF GetUserNonce
      <4>2. QED  BY <1>1, <4>1, GoTo, ReturnTo
    <3>5. CASE SetUserNonce(p) \/ Abort(p)
      <4>1. Return(p)
        BY <3>5 DEF SetUserNonce, Abort
      <4>2. QED  BY <1>1, <4>1, ReturnTo
    <3>6. CASE \/ CreateOrder(p) \/ ValidateExisting(p) \/ RejectDuplicateNonce(p)
               \/ CancelOrders(p) \/ ReadCancelled(p) \/ ReadOthers(p) \/ Unstale(p)
               \/ ProcessCancellationTx(p) \/ MarkOrdersAsPendingCancellation(p)
               \/ CreateSale(p) \/ DeleteOrder(p)
      <4>1. \/ proc'[p].pc \in {"validateExisting", "insert", "idle", "readCancelled",
                                 "markPending", "deleteOrder"}
            \/ ReadCancelled(p) \/ ReadOthers(p)
        BY <1>1, <3>6, LeadsTo
      <4>2. QED  BY <4>1
    <3>7. QED  BY <1>3, <3>1, <3>2, <3>3, <3>4, <3>5, <3>6 DEF HandlerStep
  <2>6. QED  BY <2>2, <2>3, <2>4, <2>5
<1>4. QED  BY <1>2, <1>3 DEF Next, WorldStep

\* When requests are handled one at a time, whatever the job does meanwhile, a
\* cancellation leaves no currency without an offer: of every live order on
\* the wallets concerned one of its type and currency is shown again.
THEOREM CancellationsLeaveOne ==
  ASSUME OneAtATime
  PROVE  Spec => CancellationLeavesOneShown
<1>1. Init => CancelInv
  BY TypeInit DEF Init, CancelInv, Idle
<1>2. CancelInv /\ [Next]_vars => CancelInv'
  BY CancelStep
<1>3. ASSUME CancelInv, [Next]_vars, NEW p \in Procs,
             proc[p].pc = "unstale", proc'[p].pc = "idle", faults' = faults,
             NEW i \in Ids, NEW k \in Ids,
             FoundRaw(k, proc[p].req.user, proc[p].req.chainId),
             orders[k].dto.nonce \in proc[p].req.nonces,
             ~Deleted(k), ~orders[k].expired,
             FoundRaw(i, proc[p].req.user, proc[p].req.chainId), Live(i),
             orders[i].dto.tokenId = orders[k].dto.tokenId
      PROVE  \E j \in Ids :
               /\ orders[j].dto.participant = proc[p].req.user
               /\ orders[j].dto.chainId = proc[p].req.chainId
               /\ orders[j].dto.tokenId = orders[i].dto.tokenId
               /\ orders[j].dto.type = orders[i].dto.type
               /\ orders[j].dto.currency = orders[i].dto.currency
               /\ orders[j].status \in {"ACTIVE", "PROCESSING_CANCELLATION"}
               /\ ~orders'[j].isStale
  <2>1. Represented(p, i)
    BY <1>3 DEF CancelInv, ChoiceOK, Concerned
  <2>2. PICK j \in proc[p].plan :
          /\ j \in Ids /\ SameUnstaleGroup(i, j)
          /\ FoundRaw(j, proc[p].req.user, proc[p].req.chainId)
          /\ orders[j].status \in {"ACTIVE", "PROCESSING_CANCELLATION"}
    BY <2>1 DEF Represented
  <2>3. Unstale(p)
    <3>1. PICK q \in Procs : HandlerStep(q)
      <4>1. proc' # proc
        BY <1>3
      <4>2. QED  BY <1>3, <4>1, RestsStep DEF Next, WorldStep, CancelInv
    <3>2. q = p
      BY <1>3, <3>1, WhereTo DEF CancelInv, TypeInv, TypeOK
    <3>3. ~Abort(p)
      BY <1>3 DEF Abort, CancelInv, TypeInv, TypeOK
    <3>4. QED  BY <1>3, <3>1, <3>2, <3>3, OnlyStepThere
  <2>4. ~orders'[j].isStale
    <3>1. orders'[j] = [orders[j] EXCEPT !.isStale = FALSE]
      BY <2>2, <2>3 DEF Unstale, Deleted
    <3>2. orders[j] \in Row
      BY <1>3, <2>2, TableIds DEF CancelInv, TypeInv
    <3>3. QED  BY <3>1, <3>2 DEF Row
  <2>5. QED  BY <2>2, <2>4 DEF FoundRaw, SameUnstaleGroup
<1>4. CancelInv /\ [Next]_vars =>
        [\A p \in Procs :
           proc[p].pc = "unstale" /\ proc'[p].pc = "idle" /\ faults' = faults
           => \A i, k \in Ids :
                LET c == proc[p].req IN
                /\ FoundRaw(k, c.user, c.chainId) /\ orders[k].dto.nonce \in c.nonces
                /\ ~Deleted(k) /\ ~orders[k].expired
                /\ FoundRaw(i, c.user, c.chainId) /\ Live(i)
                /\ orders[i].dto.tokenId = orders[k].dto.tokenId
                => \E j \in Ids :
                     /\ orders[j].dto.participant = c.user /\ orders[j].dto.chainId = c.chainId
                     /\ orders[j].dto.tokenId = orders[i].dto.tokenId
                     /\ orders[j].dto.type = orders[i].dto.type
                     /\ orders[j].dto.currency = orders[i].dto.currency
                     /\ orders[j].status \in {"ACTIVE", "PROCESSING_CANCELLATION"}
                     /\ ~orders'[j].isStale]_vars
  BY <1>3
<1>5. QED  BY <1>1, <1>2, <1>4, PTL DEF Spec, CancellationLeavesOneShown

----------------------------------------------------------------------------
(* A complete run of the staleness job.                                    *)

\* The job has just been started.
RunStarted == due = LiveChains /\ writes = {}

\* Nothing fails, no order expires, and nobody but the job's updates writes to
\* the orders.  Requests and webhooks may be served as far as they read.
Undisturbed ==
  /\ UNCHANGED faults
  /\ orders' # orders => UpdateOrderStaleness

\* The job may choose F as what is to be shown of the chain.
IsChoice(chain, F) ==
  /\ F \subseteq ActiveOrders(chain)
  /\ \A i \in ActiveOrders(chain) : \E j \in F : SameGroup(i, j)
  /\ \A i, j \in F : SameGroup(i, j) => i = j
  /\ \A i \in ActiveOrders(chain), j \in F : SameGroup(i, j) => ~SortsBefore(i, j)

\* Every order of the chain is as F has it or has an update in flight, and
\* those updates are as F has them.
Settles(chain, F) ==
  /\ IsChoice(chain, F)
  /\ \A i \in ActiveOrders(chain) :
       \/ orders[i].isStale <=> i \notin F
       \/ \E w \in writes : w.id = i
  /\ \A w \in writes : w.id \in ActiveOrders(chain) => (w.isStale <=> w.id \notin F)

\* Of an undisturbed run: the chains that were read are settled, and what is
\* in flight is about live orders of those.
RepairInv ==
  /\ \A w \in writes : /\ w.id \in Ids /\ Live(w.id)
                       /\ orders[w.id].dto.chainId \notin due
  /\ \A chain \in LiveChains \ due : \E F \in SUBSET Ids : Settles(chain, F)

LEMMA RepairInvStarts == RunStarted => RepairInv
BY DEF RunStarted, RepairInv

\* The updates of the job leave everything but the flags as it was.
LEMMA SameOrders ==
  ASSUME TypeOK, NEW k \in Ids, NEW b \in BOOLEAN, orders' = WithStale(k, b)
  PROVE  /\ Ids' = Ids
         /\ \A i \in Ids : orders'[i].isStale = IF i = k THEN b ELSE orders[i].isStale
         /\ \A i \in Ids : orders'[i].dto = orders[i].dto /\ Live(i)' = Live(i)
         /\ \A chain : ActiveOrders(chain)' = ActiveOrders(chain)
         /\ \A chain, F : IsChoice(chain, F) => IsChoice(chain, F)'
<1>1. orders \in [Ids -> Row]
  BY TableIds
<1>2. Ids' = Ids
  BY <1>1 DEF WithStale, Ids
<1>3. ASSUME NEW i \in Ids
      PROVE  /\ orders'[i].isStale = IF i = k THEN b ELSE orders[i].isStale
             /\ orders'[i].dto = orders[i].dto
             /\ orders'[i].status = orders[i].status
             /\ orders'[i].expired = orders[i].expired
  <2>1. orders[i] \in Row
    BY <1>1
  <2>2. orders'[i] = IF i = k THEN [orders[i] EXCEPT !.isStale = b] ELSE orders[i]
    BY <1>1 DEF WithStale
  <2>3. QED  BY <2>1, <2>2 DEF Row
<1>4. \A i \in Ids : orders'[i].dto = orders[i].dto /\ Live(i)' = Live(i)
  BY <1>3 DEF Live
<1>5. ASSUME NEW chain
      PROVE  ActiveOrders(chain)' = ActiveOrders(chain) /\ ActiveOrders(chain) \subseteq Ids
  BY <1>2, <1>4 DEF ActiveOrders
<1>6. ASSUME NEW i \in Ids, NEW j \in Ids
      PROVE  /\ SameGroup(i, j)' = SameGroup(i, j)
             /\ SortsBefore(i, j)' = SortsBefore(i, j)
  BY <1>4 DEF SameGroup, SortsBefore
<1>7. ASSUME NEW chain, NEW F, IsChoice(chain, F)
      PROVE  IsChoice(chain, F)'
  <2>1. F \subseteq Ids /\ ActiveOrders(chain) \subseteq Ids
    BY <1>5, <1>7 DEF IsChoice
  <2>2. F \subseteq ActiveOrders(chain)'
    BY <1>5, <1>7 DEF IsChoice
  <2>3. \A i \in ActiveOrders(chain)' : \E j \in F : SameGroup(i, j)'
    BY <1>5, <1>6, <1>7, <2>1 DEF IsChoice
  <2>4. \A i, j \in F : SameGroup(i, j)' => i = j
    BY <1>6, <1>7, <2>1 DEF IsChoice
  <2>5. \A i \in ActiveOrders(chain)', j \in F : SameGroup(i, j)' => ~SortsBefore(i, j)'
    BY <1>5, <1>6, <1>7, <2>1 DEF IsChoice
  <2>6. QED  BY <2>2, <2>3, <2>4, <2>5 DEF IsChoice
<1>8. QED  BY <1>2, <1>3, <1>4, <1>5, <1>7

LEMMA NoOrdersChange ==
  ASSUME UNCHANGED orders
  PROVE  /\ Ids' = Ids
         /\ \A i \in Ids : Live(i)' = Live(i)
         /\ \A chain : ActiveOrders(chain)' = ActiveOrders(chain)
         /\ \A chain, F : IsChoice(chain, F) => IsChoice(chain, F)'
BY DEF IsChoice, ActiveOrders, SameGroup, SortsBefore, Live, Ids

LEMMA NothingToRepair ==
  ASSUME RepairInv, UNCHANGED <<orders, writes, due>>
  PROVE  RepairInv'
<1>1. ASSUME NEW chain, NEW F, Settles(chain, F)
      PROVE  Settles(chain, F)'
  <2>1. IsChoice(chain, F)' /\ ActiveOrders(chain)' = ActiveOrders(chain)
    BY <1>1, NoOrdersChange DEF Settles
  <2>2. QED  BY <1>1, <2>1 DEF Settles
<1>2. Ids' = Ids /\ \A i \in Ids : Live(i)' = Live(i)
  BY NoOrdersChange
<1>3. QED  BY <1>1, <1>2 DEF RepairInv

LEMMA RepairInvStep ==
  ASSUME TypeInv, RepairInv, [Next]_vars, [Undisturbed]_vars
  PROVE  RepairInv'
<1>0. /\ TypeOK /\ faults \in Nat /\ writes \subseteq [id: Nat, isStale: BOOLEAN]
      /\ \A i \in Ids : orders[i] \in Row
  BY TableIds DEF TypeInv, TypeOK
<1>2. CASE UNCHANGED vars
  BY <1>2, NothingToRepair DEF vars
<1> SUFFICES ASSUME Next, Undisturbed PROVE RepairInv'
  BY <1>2
<1>3. CASE ~JobStep
  <2>1. UNCHANGED orders
    BY <1>3 DEF Undisturbed, JobStep
  <2>2. ~AbortJob
    BY <1>0 DEF Undisturbed, AbortJob
  <2>3. UNCHANGED <<due, writes>>
    <3>1. /\ ~StartStalenessJob /\ ~UpdateOrderStaleness
          /\ \A chain \in LiveChains : ~ReadActiveOrders(chain)
      BY <1>3 DEF JobStep, ReadSome
    <3>2. QED  BY <2>2, <3>1, UnchangedParts
  <2>4. QED  BY <2>1, <2>3, NothingToRepair
<1>4. CASE StartStalenessJob
  <2>1. writes' = {} /\ due' = LiveChains
    BY <1>4 DEF StartStalenessJob
  <2>2. QED  BY <2>1 DEF RepairInv
<1>5. ASSUME NEW chain \in LiveChains, ReadActiveOrders(chain)
      PROVE  RepairInv'
  <2> DEFINE read == ActiveOrders(chain)
  <2>1. PICK F \in Picks(read, SameGroup, SortsBefore) :
          writes' = writes \cup Corrections(read, F)
    BY <1>5 DEF ReadActiveOrders
  <2>2. UNCHANGED orders /\ chain \in due /\ due' = due \ {chain}
    BY <1>5 DEF ReadActiveOrders
  <2>3. read \subseteq Ids /\ \A i \in read : Live(i) /\ orders[i].dto.chainId = chain
    BY DEF ActiveOrders
  <2>4. IsChoice(chain, F)
    BY <2>1 DEF Picks, IsChoice
  <2>5. ASSUME NEW w \in Corrections(read, F)
        PROVE  w.id \in read /\ (w.isStale <=> w.id \notin F)
    <3>1. PICK i \in read : w = [id |-> i, isStale |-> i \notin F]
      BY DEF Corrections
    <3>2. w.id = i /\ (w.isStale <=> i \notin F)
      BY <3>1
    <3>3. QED  BY <3>2
  <2>6. \A i \in read : (orders[i].isStale <=> i \notin F)
                        \/ \E w \in Corrections(read, F) : w.id = i
    <3>1. ASSUME NEW i \in read, ~(orders[i].isStale <=> i \notin F)
          PROVE  \E w \in Corrections(read, F) : w.id = i
      <4>1. orders[i].isStale # (i \notin F)
        BY <3>1
      <4>2. [id |-> i, isStale |-> i \notin F] \in Corrections(read, F)
        BY <3>1, <4>1 DEF Corrections
      <4>3. QED  BY <4>2
    <3>2. QED  BY <3>1
  <2>7. \A w \in writes : w.id \notin read
    BY <2>2, <2>3 DEF RepairInv
  <2>8. Settles(chain, F)'
    <3>1. IsChoice(chain, F)' /\ read' = read
      BY <2>2, <2>4, NoOrdersChange
    <3>2. \A i \in read : (orders'[i].isStale <=> i \notin F) \/ \E w \in writes' : w.id = i
      BY <2>1, <2>2, <2>6
    <3>3. \A w \in writes' : w.id \in read => (w.isStale <=> w.id \notin F)
      BY <2>1, <2>5, <2>7
    <3> HIDE DEF read
    <3>4. QED  BY <3>1, <3>2, <3>3 DEF Settles, read
  <2>9. F \in SUBSET Ids'
    BY <2>2, <2>3, <2>4 DEF IsChoice, Ids
  <2>10. ASSUME NEW other \in LiveChains \ due', other # chain
         PROVE  \E G \in SUBSET Ids' : Settles(other, G)'
    <3>1. PICK G \in SUBSET Ids : Settles(other, G)
      BY <2>2, <2>10 DEF RepairInv
    <3>2. ActiveOrders(other)' = ActiveOrders(other) /\ IsChoice(other, G)' /\ Ids' = Ids
      BY <2>2, <3>1, NoOrdersChange DEF Settles
    <3>3. \A i \in ActiveOrders(other) :
            (orders'[i].isStale <=> i \notin G) \/ \E w \in writes' : w.id = i
      BY <2>1, <2>2, <3>1 DEF Settles
    <3>4. \A w \in Corrections(read, F) : w.id \notin ActiveOrders(other)
      BY <2>3, <2>5, <2>10 DEF ActiveOrders
    <3>5. \A w \in writes' : w.id \in ActiveOrders(other) => (w.isStale <=> w.id \notin G)
      BY <2>1, <3>1, <3>4 DEF Settles
    <3>6. Settles(other, G)'
      BY <3>2, <3>3, <3>5 DEF Settles
    <3>7. QED  BY <3>2, <3>6
  <2>11. ASSUME NEW w \in writes'
         PROVE  w.id \in Ids' /\ Live(w.id)' /\ orders'[w.id].dto.chainId \notin due'
    <3>1. w.id \in Ids /\ Live(w.id) /\ orders[w.id].dto.chainId \notin due'
      <4>1. CASE w \in writes
        BY <2>2, <4>1 DEF RepairInv
      <4>2. CASE w \notin writes
        BY <2>1, <2>2, <2>3, <2>5, <4>2
      <4>3. QED  BY <4>1, <4>2
    <3>2. QED  BY <2>2, <3>1 DEF Ids, Live
  <2>12. QED  BY <2>8, <2>9, <2>10, <2>11 DEF RepairInv
<1>6. CASE UpdateOrderStaleness
  <2>1. PICK w \in writes :
          IF Deleted(w.id) THEN writes' = {} /\ due' = {} /\ UNCHANGED orders
          ELSE orders' = WithStale(w.id, w.isStale) /\ writes' = writes \ {w} /\ UNCHANGED due
    BY <1>6 DEF UpdateOrderStaleness
  <2>2. w.id \in Ids /\ w.isStale \in BOOLEAN /\ Live(w.id)
    BY <1>0 DEF RepairInv
  <2>3. ~Deleted(w.id)
    BY <2>2 DEF Live, Deleted
  <2>4. orders' = WithStale(w.id, w.isStale) /\ writes' = writes \ {w} /\ UNCHANGED due
    BY <2>1, <2>3
  <2>5. /\ Ids' = Ids
        /\ \A i \in Ids : orders'[i].isStale
                            = IF i = w.id THEN w.isStale ELSE orders[i].isStale
        /\ \A i \in Ids : orders'[i].dto = orders[i].dto /\ Live(i)' = Live(i)
        /\ \A chain : ActiveOrders(chain)' = ActiveOrders(chain)
        /\ \A chain, F : IsChoice(chain, F) => IsChoice(chain, F)'
    BY <1>0, <2>2, <2>4, SameOrders
  <2>6. ASSUME NEW chain \in LiveChains \ due', NEW F \in SUBSET Ids, Settles(chain, F)
        PROVE  Settles(chain, F)'
    <3>1. ASSUME NEW i \in ActiveOrders(chain)
          PROVE  (orders'[i].isStale <=> i \notin F) \/ \E v \in writes' : v.id = i
      <4>1. i \in Ids
        BY DEF ActiveOrders
      <4>2. CASE i = w.id
        BY <2>5, <2>6, <4>1, <4>2 DEF Settles
      <4>3. CASE i # w.id
        BY <2>4, <2>5, <2>6, <4>1, <4>3 DEF Settles
      <4>4. QED  BY <4>2, <4>3
    <3>2. \A v \in writes' : v.id \in ActiveOrders(chain) => (v.isStale <=> v.id \notin F)
      BY <2>4, <2>6 DEF Settles
    <3>3. IsChoice(chain, F)' /\ ActiveOrders(chain)' = ActiveOrders(chain)
      BY <2>5, <2>6 DEF Settles
    <3>4. QED  BY <3>1, <3>2, <3>3 DEF Settles
  <2>7. \A chain \in LiveChains \ due' : \E F \in SUBSET Ids' : Settles(chain, F)'
    BY <2>4, <2>5, <2>6 DEF RepairInv
  <2>8. \A v \in writes' : v.id \in Ids' /\ Live(v.id)' /\ orders'[v.id].dto.chainId \notin due'
    BY <2>4, <2>5 DEF RepairInv
  <2>9. QED  BY <2>7, <2>8 DEF RepairInv
<1>7. QED  BY <1>3, <1>4, <1>5, <1>6 DEF JobStep, ReadSome

\* A settled chain with nothing in flight shows one order of each group, the
\* first.
LEMMA SettledIsRepaired ==
  ASSUME NEW chain, NEW F, Settles(chain, F), writes = {}, NEW i \in ActiveOrders(chain)
  PROVE  LET group == {j \in ActiveOrders(chain) : SameGroup(i, j)}
             shown == {j \in group : ~orders[j].isStale} IN
         /\ Cardinality(shown) = 1
         /\ \A j \in group, k \in shown : ~SortsBefore(j, k)
<1> DEFINE group == {j \in ActiveOrders(chain) : SameGroup(i, j)}
           shown == {j \in group : ~orders[j].isStale}
<1>1. \A j \in ActiveOrders(chain) : ~orders[j].isStale <=> j \in F
  BY DEF Settles
<1>2. IsChoice(chain, F)
  BY DEF Settles
<1>3. PICK f \in F : SameGroup(i, f) /\ f \in ActiveOrders(chain)
  BY <1>2 DEF IsChoice
<1>4. \A j, k \in group : SameGroup(j, k)
  BY DEF SameGroup
<1>5. shown = {f}
  <2>1. f \in shown
    BY <1>1, <1>3
  <2>2. ASSUME NEW j \in shown
        PROVE  j = f
    BY <1>1, <1>2, <1>3, <1>4 DEF IsChoice
  <2> HIDE DEF shown
  <2>3. QED  BY <2>1, <2>2
<1>6. Cardinality(shown) = 1
  BY <1>5, FS_Singleton
<1>7. ASSUME NEW j \in group, NEW k \in shown
      PROVE  ~SortsBefore(j, k)
  <2>1. k \in F /\ SameGroup(j, k) /\ j \in ActiveOrders(chain)
    BY <1>1, <1>4
  <2>2. QED  BY <1>2, <2>1 DEF IsChoice
<1>8. QED  BY <1>6, <1>7

\* Whenever the hourly job is started, and until its last update has landed
\* nothing fails, no order expires and nobody else writes to the orders, it
\* leaves exactly one order of each group shown on every live chain, the best,
\* whatever the races before have left; and so does every later run.
THEOREM CompleteRunRepairs ==
  Spec => [](RunStarted /\ [][Undisturbed]_vars
               => [](due = {} /\ writes = {} => StalenessRepaired))
<1>1. RunStarted => RepairInv
  BY RepairInvStarts
<1>2. TypeInv /\ RepairInv /\ [Next]_vars /\ [Undisturbed]_vars => RepairInv'
  BY RepairInvStep
<1>3. RepairInv => (due = {} /\ writes = {} => StalenessRepaired)
  <2> SUFFICES ASSUME RepairInv, due = {}, writes = {} PROVE StalenessRepaired
    OBVIOUS
  <2>1. ASSUME NEW chain \in LiveChains
        PROVE  \E F \in SUBSET Ids : Settles(chain, F)
    BY DEF RepairInv
  <2>2. QED  BY <2>1, SettledIsRepaired DEF StalenessRepaired
<1>4. QED  BY <1>1, <1>2, <1>3, TypeInit, TypeStep, PTL DEF Spec
=============================================================================
