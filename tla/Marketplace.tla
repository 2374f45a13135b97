---------------------------- MODULE Marketplace ----------------------------
(***************************************************************************)
(* The order book of the michi marketplace: the `orders` and `sales`       *)
(* tables and the `users.nonce` column, the API handlers and webhook       *)
(* handlers that change them, and the hourly job that repairs staleness.   *)
(*                                                                         *)
(* A handler is an async function: between two awaits anything else may    *)
(* run, on this API server or on another.  Each action below is one        *)
(* database round trip of one handler; what the handler has read so far is *)
(* in proc[p].  The processing service's job keeps its unfinished work in  *)
(* due and writes.                                                         *)
(*                                                                         *)
(* Left out: the `collection` column (there is one collection per chain),  *)
(* signatures, the point totals saved with orders and sales.               *)
(***************************************************************************)
EXTENDS Integers, Sequences, FiniteSets

CONSTANTS
  Users,          \* participants, by their lower-cased address
  MixedCase,      \* those whose checksummed address has an upper-case letter
  Chains,         \* chains some wallet or order is on
  LiveChains,     \* LIVE_CHAIN_IDS of the processing service
  Tokens,         \* wallet NFT indices
  Currencies,
  Procs,          \* handler invocations that may run at the same time
  Requests,       \* the CreateOrderDto's that clients post
  Cancellations,  \* the cancellations users make on chain
  CancelRequests, \* those whose transaction a client reports with POST /cancel
  PostedSales,    \* the sales that clients post
  MaxOrders,      \* bound: rows ever inserted into `orders`
  MaxFaults,      \* bound: database errors and restarts
  None

OrderType == {"LISTING", "BID"}

OrderStatus == {"ACTIVE", "CANCELLED", "PROCESSING_CANCELLATION"}

CreateOrderDto ==
  [type: OrderType, participant: Users, chainId: Chains, tokenId: Tokens,
   amount: Nat, currency: Currencies, nonce: Nat]

(***************************************************************************)
(* OrdersCancelled(user, nonces); AllOrdersCancelled(user, minNonce) is    *)
(* the cancellation of the nonces 0 .. minNonce-1.                         *)
(***************************************************************************)
Cancellation == [user: Users, chainId: Chains, nonces: SUBSET Nat]

Sale == [chainId: Chains, tokenId: Tokens, buyer: Users, seller: Users]

PurchaseEvent == [sale: Sale, nonce: Nat]

ASSUME MarketplaceAssumption ==
  /\ MixedCase \subseteq Users
  /\ LiveChains \subseteq Chains
  /\ Requests \subseteq CreateOrderDto
  /\ Cancellations \subseteq Cancellation
  /\ CancelRequests \subseteq Cancellations
  /\ PostedSales \subseteq Sale
  /\ MaxOrders \in Nat
  /\ MaxFaults \in Nat
  /\ None \notin Users

VARIABLES
  orders,  \* row i of the table has id i; a deleted row keeps its place
  nonce,   \* users.nonce, 0 for a user with no row
  owner,   \* michi_wallets.owner_address, None when there is no such wallet
  sales,   \* the `sales` table
  executed, \* ids of the orders a purchase on chain has executed
  proc,    \* where each handler is and what it has read
  due,     \* chains the running staleness job still has to read
  writes,  \* staleness updates the job has fired and that have not landed
  faults   \* errors and restarts so far

vars == <<orders, nonce, owner, sales, executed, proc, due, writes, faults>>

Row ==
  [dto: CreateOrderDto, status: OrderStatus \cup {"DELETED"},
   isStale: BOOLEAN, expired: BOOLEAN]

Ids == DOMAIN orders

CreateSteps ==
  {"validateExisting", "insert", "readExisting", "markStale", "markStaleThrown",
   "getNonce", "setNonce"}

CancelSteps == {"readCancelled", "readOthers", "unstale", "markPending"}

Handler ==
  [pc: CreateSteps \cup CancelSteps \cup {"idle", "deleteOrder"},
   req: CreateOrderDto \cup Cancellation \cup PurchaseEvent \cup {None},
   me: Nat,             \* id of the order the handler inserted, or 0
   plan: SUBSET Nat]    \* ids it has read and is still to write

Idle == [pc |-> "idle", req |-> None, me |-> 0, plan |-> {}]

TypeOK ==
  /\ orders \in Seq(Row)
  /\ nonce \in [Users \X Chains -> Nat]
  /\ owner \in [Chains \X Tokens -> Users \cup {None}]
  /\ sales \subseteq Sale
  /\ executed \subseteq Ids
  /\ proc \in [Procs -> Handler]
  /\ due \subseteq LiveChains
  /\ writes \subseteq [id: Nat, isStale: BOOLEAN]
  /\ faults \in 0 .. MaxFaults

Init ==
  /\ orders = <<>>
  /\ nonce = [uc \in Users \X Chains |-> 0]
  /\ owner \in [Chains \X Tokens -> Users \cup {None}]
  /\ sales = {}
  /\ executed = {}
  /\ proc = [p \in Procs |-> Idle]
  /\ due = {}
  /\ writes = {}
  /\ faults = 0

----------------------------------------------------------------------------
(* Queries on the tables.                                                  *)

Deleted(i) == orders[i].status = "DELETED"

\* What getOrdersByCriteria finds when asked for the two live statuses.
Live(i) ==
  /\ orders[i].status \in {"ACTIVE", "PROCESSING_CANCELLATION"}
  /\ ~orders[i].expired

\* The caller's address as it is in the event or the transaction, not
\* lower-cased: it finds rows only when it has no upper-case letter.
FoundRaw(i, user, chain) ==
  /\ user \notin MixedCase
  /\ orders[i].dto.participant = user
  /\ orders[i].dto.chainId = chain

\* The where clause of getUserOrdersOnWallet has no chainId.
UserOrdersOnWallet(dto) ==
  {i \in Ids : /\ Live(i)
               /\ orders[i].dto.tokenId = dto.tokenId
               /\ orders[i].dto.participant = dto.participant}

\* validateExistingOrder throws 423, 424 or 425.
RulesOut(o, dto) ==
  /\ o.type = dto.type
  /\ \/ o.type = "BID" /\ o.amount >= dto.amount
     \/ o.type = "LISTING" /\ o.amount <= dto.amount
     \/ o.type = "LISTING" /\ o.currency # dto.currency

MutConflictsWithExisting(dto) ==  \* stale orders are not looked at
  \E i \in UserOrdersOnWallet(dto) : ~orders[i].isStale /\ RulesOut(orders[i].dto, dto)

ConflictsWithExisting(dto) ==
  \E i \in UserOrdersOnWallet(dto) : RulesOut(orders[i].dto, dto)

\* The orders a newly created one makes stale.
Outdoes(dto, o) ==
  /\ o.type = dto.type
  /\ \/ o.type = "BID" /\ o.amount <= dto.amount /\ o.currency = dto.currency
     \/ o.type = "LISTING" /\ o.amount >= dto.amount

MutOutdoneBy(dto, me) ==  \* the created order is not left out
  {i \in UserOrdersOnWallet(dto) : ~orders[i].isStale /\ Outdoes(dto, orders[i].dto)}

OutdoneBy(dto, me) ==
  {i \in UserOrdersOnWallet(dto) \ {me} :
     ~orders[i].isStale /\ Outdoes(dto, orders[i].dto)}

\* @@unique([participant, nonce, chainId])
NonceTaken(dto) ==
  \E i \in Ids : /\ ~Deleted(i)
                 /\ orders[i].dto.participant = dto.participant
                 /\ orders[i].dto.nonce = dto.nonce
                 /\ orders[i].dto.chainId = dto.chainId

MutWithStale(i, b) ==  \* the row, read when it was live, is written back whole
  [orders EXCEPT ![i] = [@ EXCEPT !.isStale = b, !.status = "ACTIVE"]]

WithStale(i, b) == [orders EXCEPT ![i].isStale = b]

\* One order of each group of S, an arbitrary one among its firsts.
Picks(S, SameGroup(_, _), Before(_, _)) ==
  {F \in SUBSET S :
     /\ \A i \in S : \E j \in F : SameGroup(i, j) /\ ~Before(i, j)
     /\ \A i, j \in F : SameGroup(i, j) => i = j
     /\ \A i \in S, j \in F : SameGroup(i, j) => ~Before(i, j)}

Go(p, step) == proc' = [proc EXCEPT ![p].pc = step]

Return(p) == proc' = [proc EXCEPT ![p] = Idle]

jobVars == <<due, writes>>

----------------------------------------------------------------------------
(* POST /marketplace/order                                                 *)

\* validateWalletOwnership and validateNoTokensInWallet.  A wallet that
\* holds tokens, and any other rejection, leaves no trace.
CreateOrder(p) ==
  /\ proc[p].pc = "idle"
  /\ \E dto \in Requests :
       LET current == owner[<<dto.chainId, dto.tokenId>>] IN
       /\ current # None
       /\ dto.type = "BID" => dto.participant # current
       /\ dto.type = "LISTING" => dto.participant = current
       /\ proc' = [proc EXCEPT ![p].pc = "validateExisting", ![p].req = dto]
  /\ UNCHANGED <<orders, nonce, owner, sales, executed, jobVars, faults>>

MutValidateExisting(p) ==  \* the nonce is saved first, the order never
  /\ proc[p].pc = "validateExisting"
  /\ IF ConflictsWithExisting(proc[p].req) THEN Return(p) ELSE Go(p, "getNonce")
  /\ UNCHANGED <<orders, nonce, owner, sales, executed, jobVars, faults>>

ValidateExisting(p) ==
  /\ proc[p].pc = "validateExisting"
  /\ IF ConflictsWithExisting(proc[p].req) THEN Return(p) ELSE Go(p, "insert")
  /\ UNCHANGED <<orders, nonce, owner, sales, executed, jobVars, faults>>

InsertOrder(p) ==
  /\ proc[p].pc = "insert"
  /\ ~NonceTaken(proc[p].req)
  /\ Len(orders) < MaxOrders
  /\ orders' = Append(orders, [dto |-> proc[p].req, status |-> "ACTIVE",
                               isStale |-> FALSE, expired |-> FALSE])
  /\ proc' = [proc EXCEPT ![p].pc = "readExisting", ![p].me = Len(orders) + 1]
  /\ UNCHANGED <<nonce, owner, sales, executed, jobVars, faults>>

RejectDuplicateNonce(p) ==
  /\ proc[p].pc = "insert"
  /\ NonceTaken(proc[p].req)
  /\ Return(p)
  /\ UNCHANGED <<orders, nonce, owner, sales, executed, jobVars, faults>>

ReadExisting(p) ==
  /\ proc[p].pc = "readExisting"
  /\ LET outdone == OutdoneBy(proc[p].req, proc[p].me) IN
     proc' = [proc EXCEPT ![p].pc = IF outdone = {} THEN "getNonce" ELSE "markStale",
                          ![p].plan = outdone]
  /\ UNCHANGED <<orders, nonce, owner, sales, executed, jobVars, faults>>

\* One of the updates of Promise.all lands.  The update of a deleted row
\* throws: the handler fails at once, its other updates still land.
MarkStale(p) ==
  /\ proc[p].pc \in {"markStale", "markStaleThrown"}
  /\ \E i \in proc[p].plan :
       LET rest   == proc[p].plan \ {i}
           thrown == Deleted(i) \/ proc[p].pc = "markStaleThrown" IN
       /\ orders' = IF Deleted(i) THEN orders ELSE WithStale(i, TRUE)
       /\ proc' = [proc EXCEPT ![p] =
            CASE rest # {} -> [@ EXCEPT !.plan = rest,
                               !.pc = IF thrown THEN "markStaleThrown" ELSE "markStale"]
              [] rest = {} /\ thrown -> Idle
              [] OTHER -> [@ EXCEPT !.plan = {}, !.pc = "getNonce"]]
  /\ UNCHANGED <<nonce, owner, sales, executed, jobVars, faults>>

MutGetUserNonce(p) ==  \* the nonce is saved even when it is not greater
  /\ proc[p].pc = "getNonce"
  /\ Go(p, "setNonce")
  /\ UNCHANGED <<orders, nonce, owner, sales, executed, jobVars, faults>>

GetUserNonce(p) ==
  /\ proc[p].pc = "getNonce"
  /\ LET dto == proc[p].req IN
     IF dto.nonce > nonce[<<dto.participant, dto.chainId>>]
       THEN Go(p, "setNonce") ELSE Return(p)
  /\ UNCHANGED <<orders, nonce, owner, sales, executed, jobVars, faults>>

SetUserNonce(p) ==
  /\ proc[p].pc = "setNonce"
  /\ LET dto == proc[p].req IN
     nonce' = [nonce EXCEPT ![<<dto.participant, dto.chainId>>] = dto.nonce]
  /\ Return(p)
  /\ UNCHANGED <<orders, owner, sales, executed, jobVars, faults>>

----------------------------------------------------------------------------
(* The OrdersCancelled and AllOrdersCancelled webhooks.                    *)

MutCancelled(row) == [row EXCEPT !.status = "CANCELED"]  \* a misspelt status

Cancelled(row) == [row EXCEPT !.status = "CANCELLED"]

\* updateMany, by the lower-cased address.
CancelOrders(p) ==
  /\ proc[p].pc = "idle"
  /\ \E c \in Cancellations :
       /\ orders' = [i \in Ids |->
            IF /\ ~Deleted(i)
               /\ orders[i].dto.participant = c.user
               /\ orders[i].dto.chainId = c.chainId
               /\ orders[i].dto.nonce \in c.nonces
              THEN Cancelled(orders[i]) ELSE orders[i]]
       /\ proc' = [proc EXCEPT ![p].pc = "readCancelled", ![p].req = c]
  /\ UNCHANGED <<nonce, owner, sales, executed, jobVars, faults>>

ReadCancelled(p) ==
  /\ proc[p].pc = "readCancelled"
  /\ LET c == proc[p].req IN
     proc' = [proc EXCEPT ![p].pc = "readOthers", ![p].plan =
                {i \in Ids : /\ FoundRaw(i, c.user, c.chainId)
                             /\ ~Deleted(i) /\ ~orders[i].expired
                             /\ orders[i].dto.nonce \in c.nonces}]
  /\ UNCHANGED <<orders, nonce, owner, sales, executed, jobVars, faults>>

\* Amounts are compared as Decimal objects with <, which compares their
\* decimal digits as strings.
Digits[n \in Nat] == IF n < 10 THEN <<n>> ELSE Append(Digits[n \div 10], n % 10)

StringLess(a, b) ==
  LET s == Digits[a]
      t == Digits[b] IN
  \E n \in 0 .. Len(s) :
    /\ n < Len(t)
    /\ \A i \in 1 .. n : s[i] = t[i]
    /\ n < Len(s) => s[n + 1] < t[n + 1]

\* getOrdersToUnstale: for bids too, the "smallest" order of each group.
UnstaleBefore(i, j) == StringLess(orders[i].dto.amount, orders[j].dto.amount)

MutSameUnstaleGroup(i, j) ==  \* not grouped by currency
  /\ orders[i].dto.type = orders[j].dto.type
  /\ orders[i].dto.tokenId = orders[j].dto.tokenId

SameUnstaleGroup(i, j) ==
  /\ orders[i].dto.type = orders[j].dto.type
  /\ orders[i].dto.tokenId = orders[j].dto.tokenId
  /\ orders[i].dto.currency = orders[j].dto.currency

ReadOthers(p) ==
  /\ proc[p].pc = "readOthers"
  /\ LET c      == proc[p].req
         tokens == {orders[i].dto.tokenId : i \in proc[p].plan}
         others == {i \in Ids : /\ FoundRaw(i, c.user, c.chainId)
                                /\ Live(i)
                                /\ orders[i].dto.tokenId \in tokens} IN
     \E chosen \in Picks(others, SameUnstaleGroup, UnstaleBefore) :
       proc' = [proc EXCEPT ![p].pc = "unstale", ![p].plan = chosen]
  /\ UNCHANGED <<orders, nonce, owner, sales, executed, jobVars, faults>>

Unstale(p) ==
  /\ proc[p].pc = "unstale"
  /\ orders' = [i \in Ids |-> IF i \in proc[p].plan /\ ~Deleted(i)
                                THEN [orders[i] EXCEPT !.isStale = FALSE]
                                ELSE orders[i]]
  /\ Return(p)
  /\ UNCHANGED <<nonce, owner, sales, executed, jobVars, faults>>

----------------------------------------------------------------------------
(* POST /marketplace/cancel: the transaction named by the client is        *)
(* fetched and holds a cancellation; the where clause of the update has    *)
(* the participant as decoded from it, and no condition on the status.     *)

ProcessCancellationTx(p) ==
  /\ proc[p].pc = "idle"
  /\ \E c \in CancelRequests :
       proc' = [proc EXCEPT ![p].pc = "markPending", ![p].req = c]
  /\ UNCHANGED <<orders, nonce, owner, sales, executed, jobVars, faults>>

MarkOrdersAsPendingCancellation(p) ==
  /\ proc[p].pc = "markPending"
  /\ LET c == proc[p].req IN
     orders' = [i \in Ids |->
       IF /\ FoundRaw(i, c.user, c.chainId)
          /\ ~Deleted(i)
          /\ orders[i].dto.nonce \in c.nonces
         THEN [orders[i] EXCEPT !.status = "PROCESSING_CANCELLATION"]
         ELSE orders[i]]
  /\ Return(p)
  /\ UNCHANGED <<nonce, owner, sales, executed, jobVars, faults>>

----------------------------------------------------------------------------
(* The WalletPurchased webhook.  The chain executes an order at most once, *)
(* and it may be cancelled in the table by the time its event is handled.  *)

MutRecordSale(sale) == sales' \in {sales, sales \cup {sale}}  \* errors swallowed

RecordSale(sale) == sales' = sales \cup {sale}

CreateSale(p) ==
  /\ proc[p].pc = "idle"
  /\ \E i \in Ids, other \in Users :
       LET o == orders[i].dto
           sale == [chainId |-> o.chainId, tokenId |-> o.tokenId,
                    buyer  |-> IF o.type = "BID" THEN o.participant ELSE other,
                    seller |-> IF o.type = "BID" THEN other ELSE o.participant] IN
       /\ ~Deleted(i) /\ i \notin executed
       /\ other # o.participant
       /\ executed' = executed \cup {i}
       /\ RecordSale(sale)
       /\ proc' = [proc EXCEPT ![p].pc = "deleteOrder",
                               ![p].req = [sale |-> sale, nonce |-> o.nonce]]
  /\ UNCHANGED <<orders, nonce, owner, jobVars, faults>>

DeleteOrder(p) ==
  /\ proc[p].pc = "deleteOrder"
  /\ LET e == proc[p].req IN
     orders' = [i \in Ids |->
       IF /\ orders[i].dto.chainId = e.sale.chainId
          /\ orders[i].dto.participant \in {e.sale.buyer, e.sale.seller}
          /\ orders[i].dto.nonce = e.nonce
          /\ orders[i].dto.tokenId = e.sale.tokenId
         THEN [orders[i] EXCEPT !.status = "DELETED"] ELSE orders[i]]
  /\ Return(p)
  /\ UNCHANGED <<nonce, owner, sales, executed, jobVars, faults>>

\* POST /marketplace/sales: whoever posts it, the sale is recorded.
PostSale ==
  /\ \E sale \in PostedSales : RecordSale(sale)
  /\ UNCHANGED <<orders, nonce, owner, executed, proc, jobVars, faults>>

----------------------------------------------------------------------------
(* The hourly job.  isRunning is due # {}.  The updates of a batch are     *)
(* fired from forEach(async ...) and not awaited: the job is over while    *)
(* they are in flight.  They land well within the hour, so the next run    *)
(* starts after them.                                                      *)

StartStalenessJob ==
  /\ due = {} /\ writes = {}
  /\ due' = LiveChains
  /\ UNCHANGED <<orders, nonce, owner, sales, executed, proc, writes, faults>>

SameGroup(i, j) ==
  /\ orders[i].dto.type = orders[j].dto.type
  /\ orders[i].dto.tokenId = orders[j].dto.tokenId
  /\ orders[i].dto.participant = orders[j].dto.participant
  /\ orders[i].dto.type = "BID" => orders[i].dto.currency = orders[j].dto.currency

SortsBefore(i, j) ==
  IF orders[i].dto.type = "LISTING"
    THEN orders[i].dto.amount < orders[j].dto.amount
    ELSE orders[i].dto.amount > orders[j].dto.amount

ActiveOrders(chain) ==
  {i \in Ids : orders[i].dto.chainId = chain /\ Live(i)}

MutCorrections(read, firsts) ==  \* nothing is ever shown again
  {[id |-> i, isStale |-> TRUE] : i \in {k \in read \ firsts : ~orders[k].isStale}}

\* updateStaleness, for all groups: the updates of the rows that are wrong.
Corrections(read, firsts) ==
  {[id |-> i, isStale |-> i \notin firsts] :
     i \in {k \in read : orders[k].isStale # (k \notin firsts)}}

ReadActiveOrders(chain) ==
  /\ chain \in due
  /\ \E firsts \in Picks(ActiveOrders(chain), SameGroup, SortsBefore) :
       writes' = writes \cup Corrections(ActiveOrders(chain), firsts)
  /\ due' = due \ {chain}
  /\ UNCHANGED <<orders, nonce, owner, sales, executed, proc, faults>>

\* The update of a deleted row rejects a promise nobody awaits, which ends
\* the process: the other updates and the rest of the run are lost.
UpdateOrderStaleness ==
  /\ \E w \in writes :
       IF Deleted(w.id)
         THEN writes' = {} /\ due' = {} /\ UNCHANGED orders
         ELSE /\ orders' = WithStale(w.id, w.isStale)
              /\ writes' = writes \ {w}
              /\ UNCHANGED due
  /\ UNCHANGED <<nonce, owner, sales, executed, proc, faults>>

----------------------------------------------------------------------------
(* The rest of the world.                                                  *)

\* An order's expiry passes.
Expire ==
  /\ \E i \in Ids : /\ ~Deleted(i) /\ ~orders[i].expired
                    /\ orders' = [orders EXCEPT ![i].expired = TRUE]
  /\ UNCHANGED <<nonce, owner, sales, executed, proc, jobVars, faults>>

\* A wallet is registered, or its owner is refreshed from the chain.
UpsertMichiWallet ==
  /\ \E w \in Chains \X Tokens, u \in Users :
       owner[w] # u /\ owner' = [owner EXCEPT ![w] = u]
  /\ UNCHANGED <<orders, nonce, sales, executed, proc, jobVars, faults>>

\* A database error or an API server restart ends a handler.
Abort(p) ==
  /\ proc[p].pc # "idle"
  /\ faults < MaxFaults
  /\ faults' = faults + 1
  /\ Return(p)
  /\ UNCHANGED <<orders, nonce, owner, sales, executed, jobVars>>

\* A failed read, or a restart of the processing service, ends the job.
AbortJob ==
  /\ due # {} \/ writes # {}
  /\ faults < MaxFaults
  /\ faults' = faults + 1
  /\ due' = {} /\ writes' = {}
  /\ UNCHANGED <<orders, nonce, owner, sales, executed, proc>>

HandlerStep(p) ==
  \/ CreateOrder(p) \/ ValidateExisting(p) \/ InsertOrder(p)
  \/ RejectDuplicateNonce(p) \/ ReadExisting(p) \/ MarkStale(p)
  \/ GetUserNonce(p) \/ SetUserNonce(p)
  \/ CancelOrders(p) \/ ReadCancelled(p) \/ ReadOthers(p) \/ Unstale(p)
  \/ ProcessCancellationTx(p) \/ MarkOrdersAsPendingCancellation(p)
  \/ CreateSale(p) \/ DeleteOrder(p)
  \/ Abort(p)

ReadSome == \E chain \in LiveChains : ReadActiveOrders(chain)

JobStep == StartStalenessJob \/ ReadSome \/ UpdateOrderStaleness

Next ==
  \/ \E p \in Procs : HandlerStep(p)
  \/ PostSale
  \/ JobStep
  \/ AbortJob
  \/ Expire
  \/ UpsertMichiWallet

Spec == Init /\ [][Next]_vars

(***************************************************************************)
(* Clients and users need not act and a handler may hang; cron starts the  *)
(* job every hour, and its reads and writes get an answer.                 *)
(***************************************************************************)
FairSpec ==
  Spec /\ WF_vars(StartStalenessJob) /\ WF_vars(ReadSome) /\ WF_vars(UpdateOrderStaleness)

----------------------------------------------------------------------------
(* Properties.                                                             *)

\* No request is being handled and no update is in flight.
Quiet ==
  /\ \A p \in Procs : proc[p].pc = "idle"
  /\ writes = {}

AsGood(a, b) ==
  IF b.type = "LISTING" THEN a.amount <= b.amount ELSE a.amount >= b.amount

Rivals(i, j) ==
  LET a == orders[i].dto
      b == orders[j].dto IN
  /\ i # j
  /\ a.participant = b.participant /\ a.tokenId = b.tokenId /\ a.type = b.type
  /\ AsGood(a, b)

HasRival(j) == \E i \in Ids : Rivals(i, j)

\* An order is hidden from buyers (isStale) only if its participant placed,
\* at some time, an order for that token that is at least as good: whatever
\* create handlers and staleness runs interleave, no order is hidden on its
\* own account.
StaleHasRival == \A i \in Ids : orders[i].isStale => HasRival(i)

\* The nonce a user is told to continue from is 0 or that of an order which
\* was accepted: a request that is rejected never moves it.
NonceIsOfAcceptedOrder ==
  \A u \in Users, c \in Chains :
    \/ nonce[<<u, c>>] = 0
    \/ \E i \in Ids : LET o == orders[i].dto IN
         o.participant = u /\ o.chainId = c /\ o.nonce = nonce[<<u, c>>]

\* A row is removed only after a sale of its wallet, to or by its
\* participant, has been recorded: a purchase whose handling stops half way
\* leaves the order, never a removed order without a sale.
DeletedWasSold ==
  \A i \in Ids : Deleted(i) =>
    \E s \in sales : LET o == orders[i].dto IN
      /\ s.chainId = o.chainId /\ s.tokenId = o.tokenId
      /\ o.participant \in {s.buyer, s.seller}

\* Creates, the job and unstaling write to orders they have read before the
\* webhook cancelled them, and a POST /cancel may land after the webhook.  No
\* such write offers a cancelled order again (ACTIVE).  Its row leaves CANCELLED
\* only by a late report of a transaction that names it, and then to
\* PROCESSING_CANCELLATION (prisma.service.ts:723 has no condition on the
\* status), or is removed, when the chain has executed, for its wallet, an
\* order with its nonce.
Reports(p, i) ==
  /\ proc[p].pc = "markPending"
  /\ FoundRaw(i, proc[p].req.user, proc[p].req.chainId)
  /\ orders[i].dto.nonce \in proc[p].req.nonces

ExecutedWith(i) ==
  \E k \in executed : LET a == orders[i].dto
                          b == orders[k].dto IN
    a.chainId = b.chainId /\ a.tokenId = b.tokenId /\ a.nonce = b.nonce

CancelledComesBackOnlyReported ==
  [][\A i \in Ids :
       orders[i].status = "CANCELLED" =>
         \/ orders'[i].status = "CANCELLED"
         \/ /\ orders'[i].status = "PROCESSING_CANCELLATION"
            /\ \E p \in Procs : Reports(p, i) /\ proc'[p] = Idle
         \/ orders'[i].status = "DELETED" /\ ExecutedWith(i)]_vars

\* When a cancellation has been handled, every live order of the user on the
\* wallets of the cancelled ones is shown, or another one is of its type and
\* currency: no currency is left without an offer.
CancellationLeavesOneShown ==
  [][\A p \in Procs :
       proc[p].pc = "unstale" /\ proc'[p].pc = "idle" /\ faults' = faults
       => \A i, k \in Ids :
            LET c == proc[p].req IN
            /\ FoundRaw(k, c.user, c.chainId) /\ orders[k].dto.nonce \in c.nonces
            /\ ~Deleted(k) /\ ~orders[k].expired
            /\ FoundRaw(i, c.user, c.chainId) /\ Live(i)
            /\ orders[i].dto.tokenId = orders[k].dto.tokenId
            => \E j \in Ids :
                 /\ orders[j].dto.participant = c.user /\ orders[j].dto.chainId = c.chainId
                 /\ orders[j].dto.tokenId = orders[i].dto.tokenId
                 /\ orders[j].dto.type = orders[i].dto.type
                 /\ orders[j].dto.currency = orders[i].dto.currency
                 /\ orders[j].status \in {"ACTIVE", "PROCESSING_CANCELLATION"}
                 /\ ~orders'[j].isStale]_vars

\* README.md:598: isStale says "a lower LISTING or higher BID exists for the same
\* wallet"; once all is quiet, an order that is shown is the best its
\* participant has on that wallet.
BetterOnSameWallet(i, j) ==
  LET a == orders[i].dto
      b == orders[j].dto IN
  /\ a.participant = b.participant /\ a.type = b.type /\ a.currency = b.currency
  /\ a.chainId = b.chainId /\ a.tokenId = b.tokenId
  /\ SortsBefore(i, j)

ShownIsBest ==
  Quiet => \A i, j \in Ids :
    Live(i) /\ Live(j) /\ BetterOnSameWallet(i, j) => orders[j].isStale

\* README.md:598 again, the other half: an order is stale only if there is,
\* or has been, one as good on the same wallet, that is the same chain too.
StaleOnlyIfOutdoneOnSameWallet ==
  \A j \in Ids : orders[j].isStale =>
    \E i \in Ids \ {j} : /\ orders[i].dto.chainId = orders[j].dto.chainId
                         /\ Rivals(i, j)

\* README.md:487: "A new order should be created with nonce + 1".  Once all is
\* quiet, no row has a greater nonce than users.nonce, so nonce + 1 is free.
NextNonceIsFree ==
  Quiet => \A i \in Ids :
    LET o == orders[i].dto IN
    ~Deleted(i) => o.nonce <= nonce[<<o.participant, o.chainId>>]

\* README.md:536: POST /cancel is to "Mark marketplace orders as
\* PROCESSING_CANCELLATION": when it returns normally, they are.
CancelRequestMarks ==
  [][\A p \in Procs :
       /\ proc[p].pc = "markPending" /\ proc'[p].pc = "idle" /\ faults' = faults
       => \A i \in Ids : LET o == orders[i].dto
                             c == proc[p].req IN
            /\ orders[i].status = "ACTIVE"
            /\ o.participant = c.user /\ o.chainId = c.chainId /\ o.nonce \in c.nonces
            => orders'[i].status = "PROCESSING_CANCELLATION"]_vars

\* Among the live orders of a group (as the job groups them) exactly one is
\* shown, and none sorts before it.
StalenessRepaired ==
  \A chain \in LiveChains : \A i \in ActiveOrders(chain) :
    LET group == {j \in ActiveOrders(chain) : SameGroup(i, j)}
        shown == {j \in group : ~orders[j].isStale} IN
    /\ Cardinality(shown) = 1
    /\ \A j \in group, k \in shown : ~SortsBefore(j, k)

\* Whatever races have left both of two orders shown, or neither, the hourly
\* job repairs it, again and again.
StalenessConverges == []<>StalenessRepaired
============================================================================
