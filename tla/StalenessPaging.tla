--------------------------- MODULE StalenessPaging ---------------------------
(***************************************************************************)
(* How the hourly staleness job pages through the orders of a chain: a     *)
(* batch is cut off anywhere, the next one starts again at the token of    *)
(* the last group.  Updates are sent and not waited for: the next batch    *)
(* may be read before they are made.  What else happens to orders          *)
(* meanwhile is in Marketplace; here the book stands still.                *)
(***************************************************************************)
EXTENDS Naturals, FiniteSets

CONSTANTS
  Book,       \* the ids of the orders, a smaller one is a better price
  Tokens,     \* token ids
  GroupKeys,  \* type, participant and, of bids, currency
  Layouts,    \* bound: the token and the group of each order
  BatchSize   \* BATCH_SIZE

ASSUME PagingAssumption ==
  /\ Book \subseteq Nat /\ IsFiniteSet(Book)
  /\ Tokens \subseteq Nat
  /\ GroupKeys \subseteq Nat
  /\ Layouts \subseteq [Book -> Tokens \X GroupKeys]
  /\ BatchSize \in Nat \ {0}

VARIABLES
  order,      \* token and group of each order
  stale,      \* isStale
  paging,     \* validateOrderStaleness
  sent,       \* updateOrderStaleness, on the way
  split       \* history: groups that were decided in part

pagingVars == <<order, stale, paging, sent, split>>

GroupOf(o) == {x \in Book : order[x] = order[o]}

Paging ==
  [pc: {"read", "settle", "done"},
   min: Nat,            \* minTokenId; -1 is 0 here
   hasMore: BOOLEAN,
   batch: SUBSET Book,
   read: SUBSET Book]   \* those of the batch that were stale when it was read

PagingTypeOK ==
  /\ order \in Layouts
  /\ stale \subseteq Book
  /\ paging \in Paging
  /\ sent \subseteq Book \X BOOLEAN
  /\ split \subseteq Book

PagingInit ==
  /\ order \in Layouts
  /\ stale \in SUBSET Book
  /\ paging = [pc |-> "read", min |-> 0, hasMore |-> TRUE, batch |-> {}, read |-> {}]
  /\ sent = {} /\ split = {}

Token(o) == order[o][1]

From(min) == {o \in Book : Token(o) >= min}

\* Rows are sorted by token.  Within a token they are sorted by participant
\* and currency but not by type: groups are mixed, and cut, in any way.
SortedBefore(x, y) == Token(x) < Token(y)

IsBatch(batch, min) ==
  /\ Cardinality(batch) = IF Cardinality(From(min)) < BatchSize THEN Cardinality(From(min))
                          ELSE BatchSize
  /\ \A x \in batch, y \in From(min) \ batch : ~SortedBefore(y, x)

\* getActiveOrdersBatchedByMinTokenId
ReadBatch ==
  /\ paging.pc = "read" /\ paging.hasMore
  /\ \E batch \in SUBSET From(paging.min) :
       /\ IsBatch(batch, paging.min)
       /\ paging' = [paging EXCEPT !.pc = "settle", !.batch = batch, !.read = batch \cap stale,
                                   !.hasMore = Cardinality(batch) >= BatchSize]
  /\ UNCHANGED <<order, stale, sent, split>>

\* All but the best of a group are stale.
Worse(o, batch) == \E x \in GroupOf(o) \cap batch : x < o

MutNextMin ==  \* on to the next token
  LET last == CHOOSE o \in paging.batch : \A x \in paging.batch : Token(x) <= Token(o)
  IN Token(last) + 1

NextMin ==
  LET last == CHOOSE o \in paging.batch : \A x \in paging.batch : Token(x) <= Token(o)
  IN Token(last)

\* The loop over the groups.  i == len for a batch of one group only, as i is
\* a constant: that group waits for the next batch.
Settled == IF paging.hasMore /\ \A x, y \in paging.batch : order[x] = order[y]
           THEN {} ELSE paging.batch

SettleGroups ==
  /\ paging.pc = "settle"
  /\ sent' = sent \cup {<<o, Worse(o, paging.batch)>> :
                          o \in {x \in Settled : Worse(x, paging.batch) # (x \in paging.read)}}
  /\ split' = split \cup {o \in Settled : ~(GroupOf(o) \subseteq paging.batch)}
  /\ paging' = [pc |-> IF paging.hasMore THEN "read" ELSE "done",
                min |-> IF paging.batch = {} THEN paging.min ELSE NextMin,
                hasMore |-> paging.hasMore, batch |-> {}, read |-> {}]
  /\ UNCHANGED <<order, stale>>

\* Updates are made in any order.
UpdateOrderStaleness ==
  \E u \in sent : /\ stale' = IF u[2] THEN stale \cup {u[1]} ELSE stale \ {u[1]}
                  /\ sent' = sent \ {u}
                  /\ UNCHANGED <<order, paging, split>>

PagingNext == ReadBatch \/ SettleGroups \/ UpdateOrderStaleness

PagingSpec == PagingInit /\ [][PagingNext]_pagingVars

----------------------------------------------------------------------------
(* Properties.                                                             *)

\* Of each group the best order ends up as the one that is not stale, if no
\* token has as many orders as a batch; but of a group that was cut in two the
\* others may also end up not stale.  (With as many orders of a token the job
\* reads the same batch for ever.)
NoTokenFillsABatch == \A t \in Tokens : Cardinality({o \in Book : Token(o) = t}) < BatchSize

Right == \A o \in Book :
  /\ ~Worse(o, Book) => o \notin stale
  /\ Worse(o, Book) /\ GroupOf(o) \cap split = {} => o \in stale

EveryGroupSettled == NoTokenFillsABatch => <>[](paging.pc = "done" /\ sent = {} /\ Right)
=============================================================================
