------------------------------ MODULE Backfill ------------------------------
(***************************************************************************)
(* getWalletPointsToBackfill: from the balance of today and the transfers  *)
(* since, newest first, the balance of one token in one wallet is wound    *)
(* back hour by hour and each hour is paid.  PointsAccrual counts the      *)
(* hours; this module says what is paid for them.                          *)
(***************************************************************************)
EXTENDS Integers, Sequences, FiniteSets, FiniteSetsExt, Functions

CONSTANTS
  Now,           \* the hour of the run, counted from the launch
  Amounts,       \* what a transfer adds to the balance
  Opening,       \* the balance at launch
  MaxHistory,    \* bound: transfers
  PageLength,    \* transfers that Moralis returns at once
  Cutoffs        \* CHAIN_POINT_MULTIPLIER_CUTOFFS of the chain

ASSUME BackfillAssumption ==
  /\ Now \in Nat /\ Amounts \subseteq Int /\ Opening \in Nat
  /\ MaxHistory \in Nat /\ PageLength \in Nat \ {0}

VARIABLES
  history,   \* all transfers, newest first; times are half hours
  last,      \* the hour of the last completed run
  unwind     \* the loop

backfillVars == <<history, last, unwind>>

TransferOf == [at: 0 .. 2 * Now, amount: Amounts]

\* The balance half an hour count after the launch.
SumOf(h, S) == SumFunctionOnSet([i \in DOMAIN h |-> h[i].amount], S)

BalanceAt(half) == Opening + SumOf(history, {i \in DOMAIN history : history[i].at <= half})

NeverOverdrawn(h) ==
  \A i \in 1 .. Len(h) : Opening + SumOf(h, i .. Len(h)) >= 0

\* calculatePointsForToken, with getPointsMultiplier.
Multiplier(hour) ==
  LET ahead == {k \in DOMAIN Cutoffs : hour < Cutoffs[k].endDate}
  IN IF ahead = {} THEN 1 ELSE Cutoffs[Min(ahead)].multiplier

PointsForToken(balance, hour) ==
  IF balance < 0 THEN 0 ELSE balance * Multiplier(hour)

\* getWalletERC20Transfers, in pages: a stretch of what is newest first.
Fetched(h, from, to) ==
  SubSeq(h, Cardinality({i \in DOMAIN h : h[i].at > 2 * to}) + 1,
            Cardinality({i \in DOMAIN h : h[i].at >= 2 * from}))

Page(transfers) == SubSeq(transfers, 1, Min({PageLength, Len(transfers)}))

NextPages(transfers) == SubSeq(transfers, PageLength + 1, Len(transfers))

Waiting ==
  [pc |-> "idle", t |-> 0, balance |-> 0, page |-> <<>>, index |-> 0, more |-> <<>>,
   paid |-> <<>>]

BackfillInit == history = <<>> /\ last = 0 /\ unwind = Waiting

MutGetWalletPointsToBackfill ==  \* the first page is all there is
  /\ unwind.pc = "idle"
  /\ \E n \in 0 .. MaxHistory : \E h \in [1 .. n -> TransferOf] :
       /\ \A i \in 1 .. n - 1 : h[i].at >= h[i + 1].at
       /\ NeverOverdrawn(h)
       /\ history' = h
  /\ last' \in 0 .. Now
  /\ LET found == Fetched(history', last', Now - 1) IN
     unwind' = [Waiting EXCEPT !.pc = "hour", !.t = Now - 1,
                               !.balance = Opening + SumOf(history', DOMAIN history'),
                               !.page = Page(found)]

\* The row of the token holds the balance of now, which the job has synced.
GetWalletPointsToBackfill ==
  /\ unwind.pc = "idle"
  /\ \E n \in 0 .. MaxHistory : \E h \in [1 .. n -> TransferOf] :
       /\ \A i \in 1 .. n - 1 : h[i].at >= h[i + 1].at
       /\ NeverOverdrawn(h)
       /\ history' = h
  /\ last' \in 0 .. Now
  /\ LET found == Fetched(history', last', Now - 1) IN
     unwind' = [Waiting EXCEPT !.pc = "hour", !.t = Now - 1,
                               !.balance = Opening + SumOf(history', DOMAIN history'),
                               !.page = Page(found), !.more = NextPages(found)]

NextHour ==
  /\ unwind.pc = "hour"
  /\ unwind' = IF unwind.t > last
               THEN [unwind EXCEPT !.pc = "undo", !.t = @ - 1]
               ELSE [unwind EXCEPT !.pc = "done"]
  /\ UNCHANGED <<history, last>>

\* The transfer that comes next, if it is later than t: it is taken back if it
\* belongs to this hour, and passed over in any case.
UndoTransfer ==
  /\ unwind.pc = "undo"
  /\ LET u == unwind
         ends == u.index + 1 >= Len(u.page)
         x == u.page[u.index + 1]
     IN IF u.index >= Len(u.page) \/ x.at <= 2 * u.t
        THEN unwind' = [u EXCEPT !.pc = "pay"]
        ELSE unwind' = [u EXCEPT
               !.balance = IF x.at <= 2 * u.t + 2 THEN @ - x.amount ELSE @,
               !.pc = IF ends /\ u.more = <<>> THEN "pay" ELSE "undo",
               !.page = IF ends /\ u.more # <<>> THEN Page(u.more) ELSE @,
               !.more = IF ends THEN NextPages(@) ELSE @,
               !.index = IF ends /\ u.more # <<>> THEN 0 ELSE @ + 1]
  /\ UNCHANGED <<history, last>>

PayHour ==
  /\ unwind.pc = "pay"
  /\ unwind' = [unwind EXCEPT
       !.pc = "hour",
       !.paid = Append(@, [hour |-> unwind.t, points |-> PointsForToken(unwind.balance, unwind.t)])]
  /\ UNCHANGED <<history, last>>

\* The wallet is done; the next one may begin.
NextWallet ==
  /\ unwind.pc = "done"
  /\ history' = <<>> /\ last' = 0 /\ unwind' = Waiting

BackfillNext ==
  GetWalletPointsToBackfill \/ NextHour \/ UndoTransfer \/ PayHour \/ NextWallet

BackfillSpec == BackfillInit /\ [][BackfillNext]_backfillVars

\* If nothing has moved in the last hour, the hours from the last run until
\* two hours ago are each paid once, newest first, by the balance there was at
\* that hour; however the transfers fall into hours and pages.  (Transfers of
\* the last hour are not taken back: they count for all hours.)
BackfillPaysBalances ==
  unwind.pc = "done" /\ BalanceAt(2 * Now) = BalanceAt(2 * (Now - 1)) =>
    /\ Len(unwind.paid) = IF Now - 1 > last THEN Now - 1 - last ELSE 0
    /\ \A i \in 1 .. Len(unwind.paid) :
         LET hour == Now - 1 - i IN
         unwind.paid[i] = [hour |-> hour,
                           points |-> BalanceAt(2 * hour) * Multiplier(hour)]
============================================================================
