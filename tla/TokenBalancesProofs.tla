------------------------ MODULE TokenBalancesProofs ------------------------
(***************************************************************************)
(* Proofs about the balances of a wallet: types, the accrued-interest flag *)
(* (who may set it, and that it stays set), the bound on what races may    *)
(* count twice, and what a sync leaves that nothing disturbs.              *)
(***************************************************************************)
EXTENDS TokenBalances, TLAPS

\* A request that is about to look at the cached flags holds a row of each
\* token, flagged at least where there is a balance.
TypeInv ==
  /\ TypeOK
  /\ \A p \in Procs : proc[p].pc = "getCached" =>
       \A t \in Tokens :
         /\ proc[p].rows[t] # None
         /\ proc[p].rows[t].balance > 0 => proc[p].rows[t].accrued = "TRUE"

RowsWereSeen(rows) ==
  \A t \in Tokens : rows[t] # None /\ rows[t].accrued = "TRUE" => t \in seen

\* What is in flight is flagged for the same reason as what is stored.
SeenInv ==
  /\ RowsWereSeen(table)
  /\ RowsWereSeen(job.rows)
  /\ \A p \in Procs : RowsWereSeen(proc[p].rows)

\* The deposit of t that a handler is about to add to the table.
Pending(h, t) == IF h.pc = "setSum" /\ h.event.token = t THEN h.event.amount ELSE 0

\* A handler's row is over the bound by at most the deposit in it.
CountInv ==
  /\ \A t \in Tokens : onChain[t] <= peak[t]
  /\ OvercountIsBounded
  /\ \A t \in Tokens : job.rows[t] # None => job.rows[t].balance <= peak[t]
  /\ \A p \in Procs, t \in Tokens : proc[p].rows[t] # None =>
       proc[p].rows[t].balance <= peak[t] + credited[t] + Pending(proc[p], t)

----------------------------------------------------------------------------
(* The rows.                                                               *)

LEMMA NoneIsNoRow == None \notin Row /\ NoRows \in Rows /\ None \notin Deposits
BY BalancesAssumption DEF Row, NoRows, Rows

LEMMA FreshRows ==
  ASSUME NEW b \in Nat, NEW flag \in BOOLEAN
  PROVE  /\ FreshRow(b, flag) \in Row
         /\ FreshRow(b, flag).balance = b
         /\ FreshRow(b, flag).accrued = "TRUE" <=> b > 0 \/ flag
BY DEF FreshRow, Row

LEMMA UnflaggedRows ==
  ASSUME NEW b \in Nat
  PROVE  /\ FreshRow(b, FALSE) \in Row
         /\ FreshRow(b, FALSE) # None
         /\ FreshRow(b, FALSE).balance = b
         /\ FreshRow(b, FALSE).accrued = "TRUE" <=> b > 0
BY NoneIsNoRow DEF FreshRow, Row

LEMMA Sums ==
  ASSUME NEW row \in Row \cup {None}, NEW amount \in Nat
  PROVE  /\ Sum(row, amount) \in Row
         /\ Sum(row, amount).accrued = "NULL"
         /\ Sum(row, amount).balance
              = IF row = None THEN amount ELSE row.balance + amount
BY NoneIsNoRow DEF Sum, Row

\* What an upsert makes of the rows: each is the old one or has the new
\* balance, and is flagged if one of the two was.
LEMMA Upserts ==
  ASSUME table \in Rows, NEW rows \in Rows
  PROVE  /\ Upserted(rows) \in Rows
         /\ \A t \in Tokens :
              /\ rows[t] = None => Upserted(rows)[t] = table[t]
              /\ rows[t] # None =>
                   /\ Upserted(rows)[t] # None
                   /\ Upserted(rows)[t].balance = rows[t].balance
                   /\ Upserted(rows)[t].accrued = "TRUE" <=>
                        \/ rows[t].accrued = "TRUE"
                        \/ table[t] # None /\ table[t].accrued = "TRUE"
<1> DEFINE Merged(t) ==
      [rows[t] EXCEPT !.accrued = SqlOr(table[t].accrued, rows[t].accrued)]
<1>1. ASSUME NEW t \in Tokens, rows[t] # None, table[t] # None
      PROVE  /\ Merged(t) \in Row
             /\ Merged(t).balance = rows[t].balance
             /\ Merged(t).accrued = "TRUE" <=>
                  rows[t].accrued = "TRUE" \/ table[t].accrued = "TRUE"
  <2>1. rows[t] \in Row /\ table[t] \in Row
    BY <1>1 DEF Rows
  <2>2. SqlOr(table[t].accrued, rows[t].accrued) \in {"TRUE", "FALSE", "NULL"}
    BY DEF SqlOr
  <2>3. SqlOr(table[t].accrued, rows[t].accrued) = "TRUE" <=>
          rows[t].accrued = "TRUE" \/ table[t].accrued = "TRUE"
    BY DEF SqlOr
  <2>4. QED  BY <2>1, <2>2, <2>3 DEF Row
<1>2. ASSUME NEW t \in Tokens
      PROVE  /\ Upserted(rows)[t] \in Row \cup {None}
             /\ rows[t] = None => Upserted(rows)[t] = table[t]
             /\ rows[t] # None =>
                  /\ Upserted(rows)[t] # None
                  /\ Upserted(rows)[t].balance = rows[t].balance
                  /\ Upserted(rows)[t].accrued = "TRUE" <=>
                       \/ rows[t].accrued = "TRUE"
                       \/ table[t] # None /\ table[t].accrued = "TRUE"
  <2>1. Upserted(rows)[t] = IF rows[t] = None THEN table[t]
                            ELSE IF table[t] = None THEN rows[t] ELSE Merged(t)
    BY <1>2 DEF Upserted
  <2>2. rows[t] \in Row \cup {None} /\ table[t] \in Row \cup {None}
    BY <1>2 DEF Rows
  <2>3. CASE rows[t] = None
    BY <2>1, <2>2, <2>3
  <2>4. CASE rows[t] # None /\ table[t] = None
    BY <2>1, <2>2, <2>4
  <2>5. CASE rows[t] # None /\ table[t] # None
    <3> HIDE DEF Merged
    <3>1. QED  BY <1>1, <2>1, <2>5, NoneIsNoRow
  <2>6. QED  BY <2>3, <2>4, <2>5
<1>3. Upserted(rows) \in Rows
  <2>1. Upserted(rows) = [t \in Tokens |-> Upserted(rows)[t]]
    BY DEF Upserted
  <2>2. QED  BY <1>2, <2>1 DEF Rows
<1>4. QED  BY <1>2, <1>3

----------------------------------------------------------------------------
(* Types.                                                                  *)

LEMMA TypeInvInit == Init => TypeInv
BY BalancesAssumption, NoneIsNoRow DEF Init, TypeInv, TypeOK, Idle, Handler, IdleJob, Job

\* A handler that is given a new state leaves the others as they are.
LEMMA HandlerGoesOn ==
  ASSUME TypeInv, NEW p \in Procs, NEW h \in Handler,
         proc' = [proc EXCEPT ![p] = h],
         h.pc \in {"getBalance", "setSum"} => h.event \in made',
         made \subseteq made',
         h.pc = "getCached" => \A t \in Tokens :
           /\ h.rows[t] # None
           /\ h.rows[t].balance > 0 => h.rows[t].accrued = "TRUE"
  PROVE  /\ proc' \in [Procs -> Handler]
         /\ \A q \in Procs :
              proc'[q].pc \in {"getBalance", "setSum"} => proc'[q].event \in made'
         /\ \A q \in Procs : proc'[q].pc = "getCached" =>
              \A t \in Tokens :
                /\ proc'[q].rows[t] # None
                /\ proc'[q].rows[t].balance > 0 => proc'[q].rows[t].accrued = "TRUE"
<1>1. proc \in [Procs -> Handler]
  BY DEF TypeInv, TypeOK
<1>2. proc'[p] = h /\ \A q \in Procs \ {p} : proc'[q] = proc[q]
  BY <1>1
<1>3. QED  BY <1>1, <1>2 DEF TypeInv, TypeOK

LEMMA IdleIsHandler == Idle \in Handler /\ IdleJob \in Job
BY NoneIsNoRow DEF Idle, Handler, IdleJob, Job

\* The fields of a handler's state.
LEMMA HandlerFields ==
  ASSUME TypeInv, NEW p \in Procs
  PROVE  /\ proc[p] \in Handler
         /\ proc[p].rows \in Rows
         /\ proc[p].pc \in {"getBalance", "setSum"} =>
              /\ proc[p].event \in Deposits
              /\ proc[p].event.token \in Tokens
              /\ proc[p].event.amount \in Nat
<1>1. proc[p] \in Handler /\ made \subseteq Deposits
  BY DEF TypeInv, TypeOK
<1>2. proc[p].pc \in {"getBalance", "setSum"} => proc[p].event \in Deposits
  BY <1>1 DEF TypeInv, TypeOK
<1>3. QED  BY <1>1, <1>2, BalancesAssumption DEF Handler, DepositEvent

\* What a request has read on chain, as the rows it builds first and as
\* those it builds with the cached flags.
LEMMA RequestRows ==
  ASSUME TypeInv
  PROVE  /\ [t \in Tokens |-> FreshRow(onChain[t], FALSE)] \in Rows
         /\ \A p \in Procs : proc[p].pc = "getCached" =>
              [t \in Tokens |-> FreshRow(proc[p].rows[t].balance,
                 table[t] # None /\ table[t].accrued = "TRUE")] \in Rows
<1>1. \A t \in Tokens : FreshRow(onChain[t], FALSE) \in Row
  BY FreshRows DEF TypeInv, TypeOK
<1>2. ASSUME NEW p \in Procs, NEW t \in Tokens, proc[p].pc = "getCached"
      PROVE  FreshRow(proc[p].rows[t].balance,
                      table[t] # None /\ table[t].accrued = "TRUE") \in Row
  <2>1. proc[p].rows[t] \in Row
    BY <1>2, HandlerFields DEF TypeInv, Rows
  <2>2. proc[p].rows[t].balance \in Nat
    BY <2>1 DEF Row
  <2>3. QED  BY <2>2, FreshRows
<1>3. QED  BY <1>1, <1>2 DEF Rows

LEMMA TypeInvStep == TypeInv /\ [Next]_vars => TypeInv'
<1> SUFFICES ASSUME TypeInv, [Next]_vars
             PROVE  TypeInv'
  OBVIOUS
<1> USE BalancesAssumption
<1>0. /\ onChain \in [Tokens -> Nat] /\ peak \in [Tokens -> Nat]
      /\ made \subseteq Deposits /\ delivered \subseteq made \X Sources
      /\ table \in Rows /\ job \in Job /\ proc \in [Procs -> Handler]
      /\ credited \in [Tokens -> Nat] /\ seen \subseteq Tokens
      /\ transfers \in 0 .. MaxTransfers /\ faults \in 0 .. MaxFaults
  BY DEF TypeInv, TypeOK
<1>1. CASE UNCHANGED vars
  BY <1>1 DEF vars, chainVars, tables, TypeInv, TypeOK
<1>2. ASSUME NEW t \in Tokens, NEW b \in Nat, BalanceBecomes(t, b)
      PROVE  onChain' \in [Tokens -> Nat] /\ peak' \in [Tokens -> Nat]
  <2>1. (IF b > peak[t] THEN b ELSE peak[t]) \in Nat
    BY <1>0
  <2>2. peak' = [peak EXCEPT ![t] = IF b > peak[t] THEN b ELSE peak[t]]
    BY <1>2 DEF BalanceBecomes
  <2>3. QED  BY <1>0, <1>2, <2>1, <2>2 DEF BalanceBecomes
<1>3. CASE Deposit
  <2>1. PICK d \in Deposits \ made :
          made' = made \cup {d} /\ BalanceBecomes(d.token, onChain[d.token] + d.amount)
    BY <1>3 DEF Deposit
  <2>2. d.token \in Tokens /\ d.amount \in Nat
    BY DEF DepositEvent
  <2>3. onChain' \in [Tokens -> Nat] /\ peak' \in [Tokens -> Nat]
    BY <1>0, <1>2, <2>1, <2>2
  <2>4. QED  BY <1>0, <1>3, <2>1, <2>3 DEF Deposit, tables, TypeInv, TypeOK
<1>4. CASE Transfer
  <2>1. onChain' \in [Tokens -> Nat] /\ peak' \in [Tokens -> Nat]
    BY <1>2, <1>4 DEF Transfer
  <2>2. transfers' \in 0 .. MaxTransfers
    BY <1>0, <1>4 DEF Transfer
  <2>3. QED  BY <1>0, <1>4, <2>1, <2>2 DEF Transfer, tables, TypeInv, TypeOK
<1>5. ASSUME NEW p \in Procs, Serve(p)
      PROVE  TypeInv'
  <2>1. CASE HandleDepositEvent(p)
    <3>1. PICK d \in made, source \in Sources :
            /\ delivered' = delivered \cup {<<d, source>>}
            /\ proc' = [proc EXCEPT ![p] = [pc |-> "getBalance", source |-> source,
                                            event |-> d, rows |-> NoRows]]
      BY <2>1 DEF HandleDepositEvent
    <3>2. [pc |-> "getBalance", source |-> source, event |-> d, rows |-> NoRows] \in Handler
      BY <1>0, NoneIsNoRow DEF Handler
    <3>3. made' = made
      BY <2>1 DEF HandleDepositEvent, chainVars
    <3>4. delivered' \subseteq made \X Sources
      BY <1>0, <3>1
    <3>5. QED  BY <1>0, <2>1, <3>1, <3>2, <3>3, <3>4, HandlerGoesOn
               DEF HandleDepositEvent, chainVars, tables, TypeInv, TypeOK
  <2>2. CASE GetWalletTokenBalance(p)
    <3> DEFINE d == proc[p].event
               rows == [NoRows EXCEPT ![d.token] = Sum(table[d.token], d.amount)]
               h == [proc[p] EXCEPT !.pc = "setSum", !.rows = rows]
    <3>1. proc[p].pc = "getBalance" /\ proc' = [proc EXCEPT ![p] = h]
      BY <2>2 DEF GetWalletTokenBalance
    <3>2. Sum(table[d.token], d.amount) \in Row
      <4>1. d.token \in Tokens /\ d.amount \in Nat
        BY <3>1, HandlerFields
      <4>2. table[d.token] \in Row \cup {None}
        BY <1>0, <4>1 DEF Rows
      <4> HIDE DEF d
      <4>3. QED  BY <4>1, <4>2, Sums
    <3>3. rows \in Rows
      BY <3>2 DEF NoRows, Rows
    <3>4. h \in Handler /\ h.pc = "setSum" /\ h.event = d
      BY <3>3, HandlerFields DEF Handler
    <3>5. d \in made /\ made' = made
      BY <2>2, <3>1 DEF GetWalletTokenBalance, chainVars, TypeInv, TypeOK
    <3> HIDE DEF d, h
    <3>6. UNCHANGED <<chainVars, tables, delivered, job, seen, faults>>
      BY <2>2 DEF GetWalletTokenBalance
    <3>7. /\ proc' \in [Procs -> Handler]
          /\ \A q \in Procs :
               proc'[q].pc \in {"getBalance", "setSum"} => proc'[q].event \in made'
          /\ \A q \in Procs : proc'[q].pc = "getCached" =>
               \A t \in Tokens :
                 /\ proc'[q].rows[t] # None
                 /\ proc'[q].rows[t].balance > 0 => proc'[q].rows[t].accrued = "TRUE"
      BY <3>1, <3>4, <3>5, HandlerGoesOn
    <3>8. QED  BY <1>0, <3>6, <3>7 DEF chainVars, tables, TypeInv, TypeOK
  <2>3. CASE SetSum(p)
    <3>1. table' \in Rows
      BY <1>0, <2>3, HandlerFields, Upserts DEF SetSum
    <3>2. credited' \in [Tokens -> Nat]
      BY <1>0, <2>3, HandlerFields DEF SetSum
    <3>3. made' = made
      BY <2>3 DEF SetSum, chainVars
    <3>4. Idle.pc = "idle"
      BY DEF Idle
    <3>5. QED  BY <1>0, <2>3, <3>1, <3>2, <3>3, <3>4, IdleIsHandler, HandlerGoesOn
               DEF SetSum, chainVars, TypeInv, TypeOK
  <2>4. CASE GetWalletTokens(p)
    <3>1. /\ [Idle EXCEPT !.pc = "getOnChain"] \in Handler
          /\ [Idle EXCEPT !.pc = "getOnChain"].pc = "getOnChain"
      BY NoneIsNoRow DEF Idle, Handler
    <3>2. made' = made
      BY <2>4 DEF GetWalletTokens, chainVars
    <3>3. QED  BY <1>0, <2>4, <3>1, <3>2, HandlerGoesOn
               DEF GetWalletTokens, chainVars, tables, TypeInv, TypeOK
  <2>5. CASE GetOnChainTokenData(p)
    <3> DEFINE rows == [t \in Tokens |-> FreshRow(onChain[t], FALSE)]
               h == [proc[p] EXCEPT !.pc = "getCached", !.rows = rows]
    <3>1. proc' = [proc EXCEPT ![p] = h]
      BY <2>5 DEF GetOnChainTokenData
    <3>2. rows \in Rows
      BY RequestRows
    <3>3. ASSUME NEW t \in Tokens
          PROVE  rows[t] # None /\ (rows[t].balance > 0 => rows[t].accrued = "TRUE")
      <4>1. onChain[t] \in Nat /\ rows[t] = FreshRow(onChain[t], FALSE)
        BY <1>0
      <4> HIDE DEF rows, h
      <4>2. /\ FreshRow(onChain[t], FALSE) # None
            /\ FreshRow(onChain[t], FALSE).balance = onChain[t]
            /\ FreshRow(onChain[t], FALSE).accrued = "TRUE" <=> onChain[t] > 0
        BY <4>1, UnflaggedRows
      <4>3. QED  BY <4>1, <4>2
    <3> HIDE DEF rows
    <3>4. h \in Handler /\ h.pc = "getCached" /\ h.rows = rows
      BY <3>2, HandlerFields DEF Handler
    <3>5. made' = made
      BY <2>5 DEF GetOnChainTokenData, chainVars
    <3> HIDE DEF h
    <3>6. /\ proc' \in [Procs -> Handler]
          /\ \A q \in Procs :
               proc'[q].pc \in {"getBalance", "setSum"} => proc'[q].event \in made'
          /\ \A q \in Procs : proc'[q].pc = "getCached" =>
               \A t \in Tokens :
                 /\ proc'[q].rows[t] # None
                 /\ proc'[q].rows[t].balance > 0 => proc'[q].rows[t].accrued = "TRUE"
      BY <3>1, <3>3, <3>4, <3>5, HandlerGoesOn
    <3>7. seen' \subseteq Tokens
      BY <1>0, <2>5 DEF GetOnChainTokenData
    <3>8. UNCHANGED <<onChain, made, peak, transfers, table, credited, delivered, job, faults>>
      BY <2>5 DEF GetOnChainTokenData, chainVars, tables
    <3>9. QED  BY <1>0, <3>6, <3>7, <3>8 DEF TypeInv, TypeOK
  <2>6. CASE GenerateFreshWalletTokenData(p)
    <3> DEFINE rows == [t \in Tokens |-> FreshRow(proc[p].rows[t].balance,
                          table[t] # None /\ table[t].accrued = "TRUE")]
               h == [proc[p] EXCEPT !.pc = "setFresh", !.rows = rows]
    <3>1. proc[p].pc = "getCached" /\ proc' = [proc EXCEPT ![p] = h]
      BY <1>0, <2>6 DEF GenerateFreshWalletTokenData
    <3>2. rows \in Rows
      BY <3>1, RequestRows
    <3> HIDE DEF rows
    <3>3. h \in Handler /\ h.pc = "setFresh"
      BY <3>2, HandlerFields DEF Handler
    <3>4. made' = made
      BY <2>6 DEF GenerateFreshWalletTokenData, chainVars
    <3> HIDE DEF h
    <3>5. QED  BY <1>0, <2>6, <3>1, <3>3, <3>4, HandlerGoesOn
               DEF GenerateFreshWalletTokenData, chainVars, tables, TypeInv, TypeOK
  <2>7. CASE SetFresh(p)
    <3>1. table' \in Rows
      BY <1>0, <2>7, HandlerFields, Upserts DEF SetFresh
    <3>2. made' = made
      BY <2>7 DEF SetFresh, chainVars
    <3>3. Idle.pc = "idle"
      BY DEF Idle
    <3>4. QED  BY <1>0, <2>7, <3>1, <3>2, <3>3, IdleIsHandler, HandlerGoesOn
               DEF SetFresh, chainVars, TypeInv, TypeOK
  <2>8. CASE Fail(p)
    <3>1. made' = made /\ faults' \in 0 .. MaxFaults
      BY <1>0, <2>8 DEF Fail, chainVars
    <3>2. Idle.pc = "idle"
      BY DEF Idle
    <3>3. QED  BY <1>0, <2>8, <3>1, <3>2, IdleIsHandler, HandlerGoesOn
               DEF Fail, chainVars, tables, TypeInv, TypeOK
  <2>9. QED  BY <1>5, <2>1, <2>2, <2>3, <2>4, <2>5, <2>6, <2>7, <2>8 DEF Serve
<1>6. CASE SyncTokenBalances
  <2>1. CASE StartSync
    <3>1. job' \in Job
      BY <2>1, NoneIsNoRow DEF StartSync, Job
    <3>2. QED  BY <1>0, <2>1, <3>1 DEF StartSync, chainVars, tables, TypeInv, TypeOK
  <2>2. CASE GetERC20TokenBalancesBatched
    <3>1. PICK t \in job.left :
            /\ seen' = seen \cup {k \in {t} : onChain[k] > 0}
            /\ job' = [pc |-> "setBalances", left |-> job.left \ {t},
                       rows |-> [NoRows EXCEPT ![t] = FreshRow(onChain[t], FALSE)]]
      BY <2>2 DEF GetERC20TokenBalancesBatched
    <3>2. t \in Tokens /\ job.left \subseteq Tokens /\ onChain[t] \in Nat
      BY <1>0 DEF Job
    <3>3. FreshRow(onChain[t], FALSE) \in Row
      BY <3>2, UnflaggedRows
    <3>4. [NoRows EXCEPT ![t] = FreshRow(onChain[t], FALSE)] \in Rows
      BY <3>2, <3>3 DEF NoRows, Rows
    <3>5. job' \in Job /\ seen' \subseteq Tokens
      BY <1>0, <3>1, <3>2, <3>4 DEF Job
    <3>6. QED  BY <1>0, <2>2, <3>5
               DEF GetERC20TokenBalancesBatched, chainVars, tables, TypeInv, TypeOK
  <2>3. CASE SetWalletTokenBalances
    <3>1. job.rows \in Rows /\ job.left \subseteq Tokens
      BY <1>0 DEF Job
    <3>2. table' \in Rows
      BY <1>0, <2>3, <3>1, Upserts DEF SetWalletTokenBalances
    <3>3. [pc |-> "getBalances", left |-> job.left, rows |-> NoRows] \in Job
      BY <3>1, NoneIsNoRow DEF Job
    <3>4. job' \in Job
      BY <2>3, <3>3, IdleIsHandler DEF SetWalletTokenBalances
    <3>5. QED  BY <1>0, <2>3, <3>2, <3>4 DEF SetWalletTokenBalances, chainVars, TypeInv, TypeOK
  <2>4. QED  BY <1>6, <2>1, <2>2, <2>3 DEF SyncTokenBalances
<1>7. CASE FailJob
  <2>1. job' \in Job /\ faults' \in 0 .. MaxFaults
    BY <1>0, <1>7, IdleIsHandler DEF FailJob
  <2>2. QED  BY <1>0, <1>7, <2>1 DEF FailJob, chainVars, tables, TypeInv, TypeOK
<1>8. CASE RestartProcessing
  <2>1. job' \in Job /\ faults' \in 0 .. MaxFaults
    BY <1>0, <1>8, IdleIsHandler DEF RestartProcessing
  <2>2. proc' \in [Procs -> Handler] /\ \A q \in Procs : proc'[q] \in {Idle, proc[q]}
    BY <1>0, <1>8, IdleIsHandler DEF RestartProcessing
  <2>3. Idle.pc = "idle"
    BY DEF Idle
  <2>4. QED  BY <1>0, <1>8, <2>1, <2>2, <2>3
             DEF RestartProcessing, chainVars, tables, TypeInv, TypeOK
<1>9. QED  BY <1>1, <1>3, <1>4, <1>5, <1>6, <1>7, <1>8 DEF Next

\* The fields of rows, handlers and the job always have their types, and the
\* event a handler of a deposit holds was made.
THEOREM TypeCorrect == Spec => []TypeOK
<1>1. Spec => []TypeInv
  BY TypeInvInit, TypeInvStep, PTL DEF Spec
<1>2. TypeInv => TypeOK
  BY DEF TypeInv
<1>3. QED  BY <1>1, <1>2, PTL

\* A flag once given is never lost: an upsert takes the OR, and nothing else
\* writes the rows.
THEOREM AccruedStays == Spec => AccruedIsKept
<1> DEFINE Kept == \A t \in Tokens :
      table[t] # None /\ table[t].accrued = "TRUE"
      => table'[t] # None /\ table'[t].accrued = "TRUE"
<1>1. ASSUME TypeInv, [Next]_vars
      PROVE  [Kept]_vars
  <2>1. ASSUME NEW rows \in Rows, table' = Upserted(rows)
        PROVE  Kept
    <3>1. table \in Rows
      BY <1>1 DEF TypeInv, TypeOK
    <3>2. ASSUME NEW t \in Tokens, table[t] # None, table[t].accrued = "TRUE"
          PROVE  table'[t] # None /\ table'[t].accrued = "TRUE"
      <4>1. CASE rows[t] = None
        BY <2>1, <3>1, <3>2, <4>1, Upserts
      <4>2. CASE rows[t] # None
        BY <2>1, <3>1, <3>2, <4>2, Upserts
      <4>3. QED  BY <4>1, <4>2
    <3>3. QED  BY <3>2
  <2>2. ASSUME NEW p \in Procs, SetSum(p) \/ SetFresh(p)
        PROVE  Kept
    <3>1. proc[p].rows \in Rows /\ table' = Upserted(proc[p].rows)
      BY <1>1, <2>2, HandlerFields DEF SetSum, SetFresh
    <3> HIDE DEF Kept
    <3>2. QED  BY <2>1, <3>1
  <2>3. CASE SetWalletTokenBalances
    <3>1. job.rows \in Rows /\ table' = Upserted(job.rows)
      BY <1>1, <2>3 DEF SetWalletTokenBalances, TypeInv, TypeOK, Job
    <3> HIDE DEF Kept
    <3>2. QED  BY <2>1, <3>1
  <2>4. ASSUME UNCHANGED table
        PROVE  Kept
    BY <2>4
  <2> HIDE DEF Kept
  <2>5. CASE UNCHANGED vars
    BY <2>5
  <2>6. CASE Deposit \/ Transfer \/ StartSync \/ GetERC20TokenBalancesBatched
             \/ FailJob \/ RestartProcessing
    BY <2>4, <2>6 DEF Deposit, Transfer, StartSync, GetERC20TokenBalancesBatched,
                      FailJob, RestartProcessing, tables
  <2>7. ASSUME NEW p \in Procs, Serve(p), ~ (SetSum(p) \/ SetFresh(p))
        PROVE  Kept
    <3>1. CASE HandleDepositEvent(p)
      BY <2>4, <3>1 DEF HandleDepositEvent, tables
    <3>2. CASE GetWalletTokenBalance(p)
      BY <2>4, <3>2 DEF GetWalletTokenBalance, tables
    <3>3. CASE GetWalletTokens(p)
      BY <2>4, <3>3 DEF GetWalletTokens, tables
    <3>4. CASE GetOnChainTokenData(p)
      BY <2>4, <3>4 DEF GetOnChainTokenData, tables
    <3>5. CASE GenerateFreshWalletTokenData(p)
      BY <2>4, <3>5 DEF GenerateFreshWalletTokenData, tables
    <3>6. CASE Fail(p)
      BY <2>4, <3>6 DEF Fail, tables
    <3>7. QED  BY <2>7, <3>1, <3>2, <3>3, <3>4, <3>5, <3>6 DEF Serve
  <2>8. QED  BY <1>1, <2>2, <2>3, <2>5, <2>6, <2>7 DEF Next, SyncTokenBalances
<1>2. TypeInv /\ [Next]_vars => [Kept]_vars
  BY <1>1
<1>3. Spec => []TypeInv
  BY TypeInvInit, TypeInvStep, PTL DEF Spec
<1>4. Spec => [][Kept]_vars
  BY <1>2, <1>3, PTL DEF Spec
<1>5. QED  BY <1>4 DEF AccruedIsKept

----------------------------------------------------------------------------
(* The flag is given only for a balance that somebody has read.            *)

LEMMA SeenInvInit == Init => SeenInv
BY DEF Init, SeenInv, RowsWereSeen, NoRows, Idle, IdleJob

LEMMA SeenInvStep == TypeInv /\ SeenInv /\ [Next]_vars => SeenInv'
<1> SUFFICES ASSUME TypeInv, SeenInv, [Next]_vars
             PROVE  SeenInv'
  OBVIOUS
<1>0. /\ onChain \in [Tokens -> Nat] /\ table \in Rows
      /\ job \in Job /\ proc \in [Procs -> Handler]
  BY DEF TypeInv, TypeOK
<1>1. RowsWereSeen(NoRows) /\ RowsWereSeen(NoRows)'
  BY DEF RowsWereSeen, NoRows
<1>2. CASE UNCHANGED vars
  BY <1>2 DEF vars, tables, SeenInv, RowsWereSeen
\* It is enough that new rows in flight were seen, ...
<1>3. ASSUME NEW p \in Procs, NEW h \in Handler, proc' = [proc EXCEPT ![p] = h],
             \A t \in Tokens : h.rows[t] # None /\ h.rows[t].accrued = "TRUE" => t \in seen',
             UNCHANGED <<table, job>>, seen \subseteq seen'
      PROVE  SeenInv'
  <2>1. proc'[p] = h /\ \A q \in Procs \ {p} : proc'[q] = proc[q]
    BY <1>0, <1>3
  <2>2. QED  BY <1>3, <2>1 DEF SeenInv, RowsWereSeen
\* ... and that the rows of an upsert were.
<1>4. ASSUME NEW rows \in Rows, RowsWereSeen(rows), table' = Upserted(rows), seen' = seen
      PROVE  RowsWereSeen(table)'
  <2>1. ASSUME NEW t \in Tokens, table'[t] # None, table'[t].accrued = "TRUE"
        PROVE  t \in seen
    <3>1. CASE rows[t] = None
      BY <1>0, <1>4, <2>1, <3>1, Upserts DEF SeenInv, RowsWereSeen
    <3>2. CASE rows[t] # None
      BY <1>0, <1>4, <2>1, <3>2, Upserts DEF SeenInv, RowsWereSeen
    <3>3. QED  BY <3>1, <3>2
  <2>2. QED  BY <1>4, <2>1 DEF RowsWereSeen
<1>5. CASE Deposit \/ Transfer
  BY <1>5 DEF Deposit, Transfer, tables, SeenInv, RowsWereSeen
<1>6. ASSUME NEW p \in Procs, Serve(p)
      PROVE  SeenInv'
  <2>1. CASE HandleDepositEvent(p)
    <3>1. PICK d \in made, source \in Sources :
            proc' = [proc EXCEPT ![p] = [pc |-> "getBalance", source |-> source,
                                         event |-> d, rows |-> NoRows]]
      BY <2>1 DEF HandleDepositEvent
    <3>2. [pc |-> "getBalance", source |-> source, event |-> d, rows |-> NoRows] \in Handler
      BY NoneIsNoRow, BalancesAssumption DEF TypeInv, TypeOK, Handler
    <3>3. UNCHANGED <<table, job, seen>>
      BY <2>1 DEF HandleDepositEvent, tables
    <3>4. QED  BY <1>3, <3>1, <3>2, <3>3 DEF NoRows
  <2>2. CASE GetWalletTokenBalance(p)
    <3> DEFINE d == proc[p].event
               rows == [NoRows EXCEPT ![d.token] = Sum(table[d.token], d.amount)]
               h == [proc[p] EXCEPT !.pc = "setSum", !.rows = rows]
    <3>1. proc[p].pc = "getBalance" /\ proc' = [proc EXCEPT ![p] = h]
      BY <2>2 DEF GetWalletTokenBalance
    <3>2. Sum(table[d.token], d.amount) \in Row
          /\ Sum(table[d.token], d.amount).accrued = "NULL"
      BY <1>0, <3>1, HandlerFields, Sums DEF Rows
    <3>3. rows \in Rows
          /\ \A t \in Tokens : rows[t] # None => rows[t].accrued # "TRUE"
      BY <3>2 DEF NoRows, Rows
    <3> HIDE DEF rows
    <3>4. h \in Handler /\ h.rows = rows
      BY <3>3, HandlerFields DEF Handler
    <3>5. UNCHANGED <<table, job, seen>>
      BY <2>2 DEF GetWalletTokenBalance, tables
    <3> HIDE DEF h
    <3>6. QED  BY <1>3, <3>1, <3>3, <3>4, <3>5
  <2>3. CASE SetSum(p) \/ SetFresh(p)
    <3>1. proc[p].rows \in Rows /\ RowsWereSeen(proc[p].rows)
      BY HandlerFields DEF SeenInv
    <3>2. table' = Upserted(proc[p].rows) /\ UNCHANGED <<job, seen>>
      BY <2>3 DEF SetSum, SetFresh
    <3>3. RowsWereSeen(table)'
      BY <1>4, <3>1, <3>2
    <3>4. \A q \in Procs : proc'[q].rows \in {NoRows, proc[q].rows}
      BY <1>0, <2>3 DEF SetSum, SetFresh, Idle
    <3>5. \A q \in Procs : RowsWereSeen(proc[q].rows)'
      BY <1>1, <3>2, <3>4 DEF SeenInv, RowsWereSeen
    <3>6. RowsWereSeen(job.rows)'
      BY <3>2 DEF SeenInv, RowsWereSeen
    <3>7. QED  BY <3>3, <3>5, <3>6 DEF SeenInv
  <2>4. CASE GetWalletTokens(p)
    <3>1. \A q \in Procs : proc'[q].rows \in {NoRows, proc[q].rows}
      BY <1>0, <2>4 DEF GetWalletTokens, Idle
    <3>2. UNCHANGED <<table, job, seen>>
      BY <2>4 DEF GetWalletTokens, tables
    <3>3. \A q \in Procs : RowsWereSeen(proc[q].rows)'
      BY <1>1, <3>1, <3>2 DEF SeenInv, RowsWereSeen
    <3>4. QED  BY <3>2, <3>3 DEF SeenInv, RowsWereSeen
  <2>5. CASE GetOnChainTokenData(p)
    <3> DEFINE rows == [t \in Tokens |-> FreshRow(onChain[t], FALSE)]
               h == [proc[p] EXCEPT !.pc = "getCached", !.rows = rows]
    <3>1. proc' = [proc EXCEPT ![p] = h] /\ seen' = seen \cup {t \in Tokens : onChain[t] > 0}
      BY <1>0, <2>5 DEF GetOnChainTokenData
    <3>2. rows \in Rows
      BY RequestRows
    <3>3. ASSUME NEW t \in Tokens, rows[t].accrued = "TRUE"
          PROVE  onChain[t] > 0
      <4>1. onChain[t] \in Nat /\ rows[t] = FreshRow(onChain[t], FALSE)
        BY <1>0
      <4> HIDE DEF rows
      <4>2. QED  BY <3>3, <4>1, UnflaggedRows
    <3> HIDE DEF rows
    <3>4. h \in Handler /\ h.rows = rows
      BY <3>2, HandlerFields DEF Handler
    <3>5. UNCHANGED <<table, job>>
      BY <2>5 DEF GetOnChainTokenData, tables
    <3> HIDE DEF h
    <3>6. \A t \in Tokens : rows[t].accrued = "TRUE" => t \in seen'
      BY <3>1, <3>3
    <3>7. QED  BY <1>3, <3>1, <3>4, <3>5, <3>6
  <2>6. CASE GenerateFreshWalletTokenData(p)
    <3> DEFINE flag(t) == table[t] # None /\ table[t].accrued = "TRUE"
               rows == [t \in Tokens |-> FreshRow(proc[p].rows[t].balance, flag(t))]
               h == [proc[p] EXCEPT !.pc = "setFresh", !.rows = rows]
    <3>1. proc[p].pc = "getCached" /\ proc' = [proc EXCEPT ![p] = h]
      BY <1>0, <2>6 DEF GenerateFreshWalletTokenData
    <3>2. rows \in Rows
      BY <3>1, RequestRows
    <3>3. ASSUME NEW t \in Tokens, rows[t].accrued = "TRUE"
          PROVE  t \in seen
      <4>1. proc[p].rows[t] \in Row \cup {None} /\ proc[p].rows[t] # None
            /\ (proc[p].rows[t].balance > 0 => proc[p].rows[t].accrued = "TRUE")
        BY <3>1, HandlerFields DEF TypeInv, Rows
      <4>2. proc[p].rows[t].balance \in Nat
        BY <4>1 DEF Row
      <4>3. rows[t] = FreshRow(proc[p].rows[t].balance, flag(t)) /\ flag(t) \in BOOLEAN
        OBVIOUS
      <4>4. proc[p].rows[t].balance > 0 => t \in seen
        BY <4>1 DEF SeenInv, RowsWereSeen
      <4>5. flag(t) => t \in seen
        BY DEF SeenInv, RowsWereSeen
      <4> HIDE DEF rows, flag
      <4>6. QED  BY <3>3, <4>2, <4>3, <4>4, <4>5, FreshRows
    <3> HIDE DEF rows
    <3>4. h \in Handler /\ h.rows = rows
      BY <3>2, HandlerFields DEF Handler
    <3>5. UNCHANGED <<table, job, seen>>
      BY <2>6 DEF GenerateFreshWalletTokenData, tables
    <3> HIDE DEF h
    <3>6. RowsWereSeen(h.rows)
      BY <3>3, <3>4 DEF RowsWereSeen
    <3>7. \A q \in Procs : RowsWereSeen(proc'[q].rows)
      BY <1>0, <3>1, <3>6 DEF SeenInv
    <3>8. QED  BY <3>5, <3>7 DEF SeenInv, RowsWereSeen
  <2>7. CASE Fail(p)
    <3>1. \A q \in Procs : proc'[q].rows \in {NoRows, proc[q].rows}
      BY <1>0, <2>7 DEF Fail, Idle
    <3>2. UNCHANGED <<table, job, seen>>
      BY <2>7 DEF Fail, tables
    <3>3. \A q \in Procs : RowsWereSeen(proc[q].rows)'
      BY <1>1, <3>1, <3>2 DEF SeenInv, RowsWereSeen
    <3>4. QED  BY <3>2, <3>3 DEF SeenInv, RowsWereSeen
  <2>8. QED  BY <1>6, <2>1, <2>2, <2>3, <2>4, <2>5, <2>6, <2>7 DEF Serve
<1>7. CASE SyncTokenBalances
  <2>1. CASE StartSync
    BY <1>1, <2>1 DEF StartSync, tables, SeenInv, RowsWereSeen
  <2>2. CASE GetERC20TokenBalancesBatched
    <3>1. PICK t \in job.left :
            /\ seen' = seen \cup {k \in {t} : onChain[k] > 0}
            /\ job' = [pc |-> "setBalances", left |-> job.left \ {t},
                       rows |-> [NoRows EXCEPT ![t] = FreshRow(onChain[t], FALSE)]]
      BY <2>2 DEF GetERC20TokenBalancesBatched
    <3>2. t \in Tokens /\ onChain[t] \in Nat
      BY <1>0 DEF Job
    <3>3. FreshRow(onChain[t], FALSE).accrued = "TRUE" => onChain[t] > 0
      BY <3>2, UnflaggedRows
    <3> DEFINE rows == [NoRows EXCEPT ![t] = FreshRow(onChain[t], FALSE)]
    <3>4. \A k \in Tokens : rows[k] # None => k = t /\ rows[k] = FreshRow(onChain[t], FALSE)
      BY <3>2 DEF NoRows
    <3>5. job'.rows = rows
      BY <3>1
    <3> HIDE DEF rows
    <3>6. \A k \in Tokens : job'.rows[k] # None /\ job'.rows[k].accrued = "TRUE" => k \in seen'
      BY <3>1, <3>3, <3>4, <3>5
    <3>7. UNCHANGED <<table, proc>> /\ seen \subseteq seen'
      BY <2>2, <3>1 DEF GetERC20TokenBalancesBatched, tables
    <3>8. QED  BY <3>6, <3>7 DEF SeenInv, RowsWereSeen
  <2>3. CASE SetWalletTokenBalances
    <3>1. job.rows \in Rows /\ RowsWereSeen(job.rows)
      BY <1>0 DEF Job, SeenInv
    <3>2. table' = Upserted(job.rows) /\ UNCHANGED <<proc, seen>>
      BY <2>3 DEF SetWalletTokenBalances
    <3>3. RowsWereSeen(table)'
      BY <1>4, <3>1, <3>2
    <3>4. job'.rows = NoRows
      BY <2>3 DEF SetWalletTokenBalances, IdleJob
    <3>5. QED  BY <1>1, <3>2, <3>3, <3>4 DEF SeenInv, RowsWereSeen
  <2>4. QED  BY <1>7, <2>1, <2>2, <2>3 DEF SyncTokenBalances
<1>8. CASE FailJob
  BY <1>1, <1>8 DEF FailJob, tables, IdleJob, SeenInv, RowsWereSeen
<1>9. CASE RestartProcessing
  <2>1. \A q \in Procs : proc'[q].rows \in {NoRows, proc[q].rows}
    BY <1>0, <1>9 DEF RestartProcessing, Idle
  <2>2. UNCHANGED <<table, seen>> /\ job'.rows = NoRows
    BY <1>9 DEF RestartProcessing, tables, IdleJob
  <2>3. QED  BY <1>1, <2>1, <2>2 DEF SeenInv, RowsWereSeen
<1>10. QED  BY <1>2, <1>5, <1>6, <1>7, <1>8, <1>9 DEF Next

\* Whatever races with what, a stored flag is backed by a balance that a
\* request or the job has read on chain.
THEOREM AccruedAlwaysSeen == Spec => []AccruedWasSeen
<1>1. Spec => []TypeInv
  BY TypeInvInit, TypeInvStep, PTL DEF Spec
<1>2. Spec => []SeenInv
  BY <1>1, SeenInvInit, SeenInvStep, PTL DEF Spec
<1>3. SeenInv => AccruedWasSeen
  BY DEF SeenInv, RowsWereSeen, AccruedWasSeen
<1>4. QED  BY <1>2, <1>3, PTL

----------------------------------------------------------------------------
(* Nothing is counted more often than its event is added.                  *)

LEMMA CountInvInit == Init => CountInv
BY DEF Init, CountInv, OvercountIsBounded, NoRows, Idle, IdleJob

\* The bounds only grow, so what is stored or in flight stays within them.
LEMMA BoundsGrow ==
  ASSUME TypeInv, CountInv, UNCHANGED <<table, proc, job>>,
         \A t \in Tokens :
           /\ onChain'[t] \in Nat /\ peak'[t] \in Nat /\ credited'[t] \in Nat
           /\ onChain'[t] <= peak'[t]
           /\ peak[t] <= peak'[t] /\ credited[t] <= credited'[t]
  PROVE  CountInv'
<1>0. /\ \A t \in Tokens : peak[t] \in Nat /\ credited[t] \in Nat
      /\ table \in Rows /\ job.rows \in Rows
  BY DEF TypeInv, TypeOK, Job
<1>1. \A t \in Tokens : table[t] # None => table[t].balance \in Nat
  BY <1>0 DEF Rows, Row
<1>2. \A t \in Tokens : job.rows[t] # None => job.rows[t].balance \in Nat
  BY <1>0 DEF Rows, Row
<1>3. \A p \in Procs, t \in Tokens :
        proc[p].rows[t] # None => proc[p].rows[t].balance \in Nat
  BY HandlerFields DEF Rows, Row
<1>4. \A p \in Procs, t \in Tokens : Pending(proc[p], t) \in Nat
  BY HandlerFields DEF Pending
<1>5. \A p \in Procs, t \in Tokens : Pending(proc'[p], t) = Pending(proc[p], t)
  OBVIOUS
<1>6. OvercountIsBounded'
  BY <1>0, <1>1 DEF CountInv, OvercountIsBounded
<1>7. \A t \in Tokens : job.rows[t] # None => job.rows[t].balance <= peak'[t]
  BY <1>0, <1>2 DEF CountInv
<1>8. ASSUME NEW p \in Procs, NEW t \in Tokens, proc[p].rows[t] # None
      PROVE  proc[p].rows[t].balance <= peak'[t] + credited'[t] + Pending(proc[p], t)
  <2>1. proc[p].rows[t].balance <= peak[t] + credited[t] + Pending(proc[p], t)
    BY <1>8 DEF CountInv
  <2>2. QED  BY <1>0, <1>3, <1>4, <1>8, <2>1
<1>9. QED  BY <1>6, <1>7, <1>8 DEF CountInv, Pending

\* A handler goes on and the rest stays.
LEMMA HandlerWithinBound ==
  ASSUME TypeInv, CountInv, NEW p \in Procs, NEW h \in Handler,
         proc' = [proc EXCEPT ![p] = h],
         UNCHANGED <<onChain, peak, credited, table, job>>,
         \A t \in Tokens : h.rows[t] # None =>
           h.rows[t].balance <= peak[t] + credited[t] + Pending(h, t)
  PROVE  CountInv'
<1>1. proc'[p] = h /\ \A q \in Procs \ {p} : proc'[q] = proc[q]
  BY DEF TypeInv, TypeOK
<1>2. ASSUME NEW q \in Procs, NEW t \in Tokens, proc'[q].rows[t] # None
      PROVE  proc'[q].rows[t].balance <= peak[t] + credited[t] + Pending(proc'[q], t)
  <2>1. CASE q = p
    BY <1>1, <1>2, <2>1
  <2>2. CASE q # p
    BY <1>1, <1>2, <2>2 DEF CountInv
  <2>3. QED  BY <2>1, <2>2
<1>3. QED  BY <1>2 DEF CountInv, OvercountIsBounded, Pending

\* Rows within the bound leave the table within it.
LEMMA UpsertWithinBound ==
  ASSUME TypeInv, CountInv, NEW rows \in Rows, table' = Upserted(rows),
         \A t \in Tokens : credited'[t] \in Nat /\ credited[t] <= credited'[t],
         UNCHANGED peak,
         \A t \in Tokens : rows[t] # None => rows[t].balance <= peak[t] + credited'[t]
  PROVE  OvercountIsBounded'
<1>0. /\ \A t \in Tokens : peak[t] \in Nat /\ credited[t] \in Nat
      /\ table \in Rows
  BY DEF TypeInv, TypeOK
<1>1. ASSUME NEW t \in Tokens, table'[t] # None
      PROVE  table'[t].balance <= peak[t] + credited'[t]
  <2>1. CASE rows[t] = None
    <3>1. table'[t] = table[t] /\ table[t] \in Row
      BY <1>0, <1>1, <2>1, Upserts DEF Rows
    <3>2. table[t].balance \in Nat /\ table[t].balance <= peak[t] + credited[t]
      BY <1>1, <3>1 DEF Row, CountInv, OvercountIsBounded
    <3>3. QED  BY <1>0, <3>1, <3>2
  <2>2. CASE rows[t] # None
    BY <1>0, <1>1, <2>2, Upserts
  <2>3. QED  BY <2>1, <2>2
<1>2. QED  BY <1>1 DEF OvercountIsBounded

LEMMA CountInvStep == TypeInv /\ CountInv /\ [Next]_vars => CountInv'
<1> SUFFICES ASSUME TypeInv, CountInv, [Next]_vars
             PROVE  CountInv'
  OBVIOUS
<1>0. /\ onChain \in [Tokens -> Nat] /\ peak \in [Tokens -> Nat]
      /\ credited \in [Tokens -> Nat] /\ table \in Rows
      /\ job \in Job /\ proc \in [Procs -> Handler]
  BY DEF TypeInv, TypeOK
<1>1. CASE UNCHANGED vars
  BY <1>1 DEF vars, chainVars, tables, CountInv, OvercountIsBounded, Pending
<1>2. ASSUME NEW k \in Tokens, NEW b \in Nat, BalanceBecomes(k, b),
             UNCHANGED <<table, credited, proc, job>>
      PROVE  CountInv'
  <2>1. ASSUME NEW t \in Tokens
        PROVE  /\ onChain'[t] \in Nat /\ peak'[t] \in Nat
               /\ onChain'[t] <= peak'[t] /\ peak[t] <= peak'[t]
    <3>1. onChain'[t] = IF t = k THEN b ELSE onChain[t]
      BY <1>0, <1>2 DEF BalanceBecomes
    <3>2. peak' = [peak EXCEPT ![k] = IF b > peak[k] THEN b ELSE peak[k]]
      BY <1>2 DEF BalanceBecomes
    <3>3. peak'[t] = IF t = k THEN (IF b > peak[k] THEN b ELSE peak[k]) ELSE peak[t]
      BY <1>0, <3>2
    <3>4. peak[t] \in Nat /\ onChain[t] \in Nat /\ onChain[t] <= peak[t]
      BY <1>0 DEF CountInv
    <3>5. QED  BY <3>1, <3>3, <3>4
  <2>2. \A t \in Tokens : credited'[t] \in Nat /\ credited[t] <= credited'[t]
    BY <1>0, <1>2
  <2>3. QED  BY <1>2, <2>1, <2>2, BoundsGrow
<1>3. CASE Deposit
  <2>1. PICK d \in Deposits \ made : BalanceBecomes(d.token, onChain[d.token] + d.amount)
    BY <1>3 DEF Deposit
  <2>2. d.token \in Tokens /\ d.amount \in Nat
    BY BalancesAssumption DEF DepositEvent
  <2>3. onChain[d.token] + d.amount \in Nat
    BY <1>0, <2>2
  <2>4. UNCHANGED <<table, credited, proc, job>>
    BY <1>3 DEF Deposit, tables
  <2>5. QED  BY <1>2, <2>1, <2>2, <2>3, <2>4
<1>4. CASE Transfer
  <2>1. PICK t \in Tokens, b \in Balances : BalanceBecomes(t, b)
    BY <1>4 DEF Transfer
  <2>2. b \in Nat
    BY BalancesAssumption
  <2>3. UNCHANGED <<table, credited, proc, job>>
    BY <1>4 DEF Transfer, tables
  <2>4. QED  BY <1>2, <2>1, <2>2, <2>3
\* Dropping what is in flight keeps the bounds.
<1>5. ASSUME \A q \in Procs : proc'[q] \in {Idle, proc[q]},
             job' = job \/ job'.rows = NoRows,
             UNCHANGED <<onChain, peak, credited, table>>
      PROVE  CountInv'
  <2>1. Idle.rows = NoRows /\ \A t \in Tokens : NoRows[t] = None
    BY DEF Idle, NoRows
  <2>2. \A q \in Procs, t \in Tokens : proc'[q].rows[t] # None =>
          proc'[q].rows[t].balance <= peak[t] + credited[t] + Pending(proc'[q], t)
    BY <1>5, <2>1 DEF CountInv
  <2>3. \A t \in Tokens : job'.rows[t] # None => job'.rows[t].balance <= peak[t]
    BY <1>5, <2>1 DEF CountInv
  <2>4. QED  BY <1>5, <2>2, <2>3 DEF CountInv, OvercountIsBounded, Pending
<1>6. ASSUME NEW p \in Procs, Serve(p)
      PROVE  CountInv'
  <2>1. CASE HandleDepositEvent(p)
    <3>1. PICK d \in made, source \in Sources :
            proc' = [proc EXCEPT ![p] = [pc |-> "getBalance", source |-> source,
                                         event |-> d, rows |-> NoRows]]
      BY <2>1 DEF HandleDepositEvent
    <3>2. [pc |-> "getBalance", source |-> source, event |-> d, rows |-> NoRows] \in Handler
      BY NoneIsNoRow, BalancesAssumption DEF TypeInv, TypeOK, Handler
    <3>3. UNCHANGED <<onChain, peak, credited, table, job>>
      BY <2>1 DEF HandleDepositEvent, chainVars, tables
    <3>4. QED  BY <3>1, <3>2, <3>3, HandlerWithinBound DEF NoRows
  <2>2. CASE GetWalletTokenBalance(p)
    <3> DEFINE d == proc[p].event
               sum == Sum(table[d.token], d.amount)
               rows == [NoRows EXCEPT ![d.token] = sum]
               h == [proc[p] EXCEPT !.pc = "setSum", !.rows = rows]
    <3>1. proc[p].pc = "getBalance" /\ proc' = [proc EXCEPT ![p] = h]
      BY <2>2 DEF GetWalletTokenBalance
    <3>2. d.token \in Tokens /\ d.amount \in Nat
      BY <3>1, HandlerFields
    <3>3. table[d.token] \in Row \cup {None}
      BY <1>0, <3>2 DEF Rows
    <3>4. sum \in Row /\ sum.balance = IF table[d.token] = None THEN d.amount
                                       ELSE table[d.token].balance + d.amount
      BY <3>2, <3>3, Sums
    <3>5. sum.balance <= peak[d.token] + credited[d.token] + d.amount
      <4>1. peak[d.token] \in Nat /\ credited[d.token] \in Nat
        BY <1>0, <3>2
      <4>2. CASE table[d.token] = None
        BY <3>2, <3>4, <4>1, <4>2
      <4>3. CASE table[d.token] # None
        <5>1. /\ table[d.token].balance \in Nat
              /\ table[d.token].balance <= peak[d.token] + credited[d.token]
          BY <3>2, <3>3, <4>3 DEF Row, CountInv, OvercountIsBounded
        <5>2. QED  BY <3>2, <3>4, <4>1, <4>3, <5>1
      <4>4. QED  BY <4>2, <4>3
    <3>6. rows \in Rows /\ \A t \in Tokens : rows[t] # None => t = d.token /\ rows[t] = sum
      BY <3>2, <3>4 DEF NoRows, Rows
    <3> HIDE DEF rows, sum
    <3>7. h \in Handler /\ h.pc = "setSum" /\ h.event = d /\ h.rows = rows
      BY <3>6, HandlerFields DEF Handler
    <3>8. UNCHANGED <<onChain, peak, credited, table, job>>
      BY <2>2 DEF GetWalletTokenBalance, chainVars, tables
    <3> HIDE DEF h, d
    <3>9. Pending(h, d.token) = d.amount
      BY <3>7 DEF Pending
    <3>10. \A t \in Tokens : h.rows[t] # None =>
             h.rows[t].balance <= peak[t] + credited[t] + Pending(h, t)
      BY <3>5, <3>6, <3>7, <3>9
    <3>11. QED  BY <3>1, <3>7, <3>8, <3>10, HandlerWithinBound
  <2>3. CASE SetSum(p)
    <3> DEFINE d == proc[p].event
    <3>1. /\ proc[p].pc = "setSum" /\ table' = Upserted(proc[p].rows)
          /\ credited' = [credited EXCEPT ![d.token] = @ + d.amount]
          /\ proc' = [proc EXCEPT ![p] = Idle] /\ UNCHANGED <<onChain, peak, job>>
      BY <2>3 DEF SetSum, chainVars
    <3>2. d.token \in Tokens /\ d.amount \in Nat /\ proc[p].rows \in Rows
      BY <3>1, HandlerFields
    <3>3. \A t \in Tokens : credited'[t] = credited[t] + Pending(proc[p], t)
      BY <1>0, <3>1, <3>2 DEF Pending
    <3>4. \A t \in Tokens : Pending(proc[p], t) \in Nat
      BY <3>2 DEF Pending
    <3>5. \A t \in Tokens : credited'[t] \in Nat /\ credited[t] <= credited'[t]
      BY <1>0, <3>3, <3>4
    <3>6. ASSUME NEW t \in Tokens, proc[p].rows[t] # None
          PROVE  proc[p].rows[t].balance <= peak[t] + credited'[t]
      <4>1. proc[p].rows[t].balance <= peak[t] + credited[t] + Pending(proc[p], t)
        BY <3>6 DEF CountInv
      <4>2. proc[p].rows[t].balance \in Nat /\ peak[t] \in Nat /\ credited[t] \in Nat
        BY <1>0, <3>2, <3>6 DEF Rows, Row
      <4>3. QED  BY <3>3, <3>4, <4>1, <4>2
    <3>7. OvercountIsBounded'
      BY <3>1, <3>2, <3>5, <3>6, UpsertWithinBound
    <3>8. ASSUME NEW q \in Procs, NEW t \in Tokens, proc'[q].rows[t] # None
          PROVE  proc'[q].rows[t].balance <= peak[t] + credited'[t] + Pending(proc'[q], t)
      <4>1. q # p /\ proc'[q] = proc[q]
        BY <1>0, <3>1, <3>8 DEF Idle, NoRows
      <4>2. proc[q].rows[t].balance <= peak[t] + credited[t] + Pending(proc[q], t)
        BY <3>8, <4>1 DEF CountInv
      <4>3. proc[q].rows[t].balance \in Nat
        BY <3>8, <4>1, HandlerFields DEF Rows, Row
      <4>4. Pending(proc[q], t) \in Nat
        BY HandlerFields DEF Pending
      <4>5. peak[t] \in Nat /\ credited[t] \in Nat
        BY <1>0
      <4>6. QED  BY <3>5, <4>1, <4>2, <4>3, <4>4, <4>5
    <3>9. QED  BY <3>1, <3>7, <3>8 DEF CountInv, Pending
  <2>4. CASE GetWalletTokens(p)
    <3> DEFINE h == [Idle EXCEPT !.pc = "getOnChain"]
    <3>1. h \in Handler /\ h.rows = NoRows
      BY NoneIsNoRow DEF Idle, Handler
    <3>2. proc' = [proc EXCEPT ![p] = h] /\ UNCHANGED <<onChain, peak, credited, table, job>>
      BY <2>4 DEF GetWalletTokens, chainVars, tables
    <3> HIDE DEF h
    <3>3. QED  BY <3>1, <3>2, HandlerWithinBound DEF NoRows
  <2>5. CASE GetOnChainTokenData(p)
    <3> DEFINE rows == [t \in Tokens |-> FreshRow(onChain[t], FALSE)]
               h == [proc[p] EXCEPT !.pc = "getCached", !.rows = rows]
    <3>1. /\ proc' = [proc EXCEPT ![p] = h]
          /\ UNCHANGED <<onChain, peak, credited, table, job>>
      BY <1>0, <2>5 DEF GetOnChainTokenData, chainVars, tables
    <3>2. rows \in Rows
      BY RequestRows
    <3>3. ASSUME NEW t \in Tokens
          PROVE  rows[t].balance <= peak[t] + credited[t]
      <4>1. onChain[t] \in Nat /\ rows[t] = FreshRow(onChain[t], FALSE)
        BY <1>0
      <4> HIDE DEF rows
      <4>2. rows[t].balance = onChain[t]
        BY <4>1, UnflaggedRows
      <4>3. /\ onChain[t] \in Nat /\ peak[t] \in Nat /\ credited[t] \in Nat
            /\ onChain[t] <= peak[t]
        BY <1>0 DEF CountInv
      <4>4. QED  BY <4>2, <4>3
    <3> HIDE DEF rows
    <3>4. h \in Handler /\ h.rows = rows /\ h.pc = "getCached"
      BY <3>2, HandlerFields DEF Handler
    <3> HIDE DEF h
    <3>5. \A t \in Tokens : Pending(h, t) = 0
      BY <3>4 DEF Pending
    <3>6. \A t \in Tokens : peak[t] \in Nat /\ credited[t] \in Nat
      BY <1>0
    <3>7. \A t \in Tokens : h.rows[t].balance <= peak[t] + credited[t] + Pending(h, t)
      BY <3>3, <3>4, <3>5, <3>6
    <3>8. QED  BY <3>1, <3>4, <3>7, HandlerWithinBound
  <2>6. CASE GenerateFreshWalletTokenData(p)
    <3> DEFINE flag(t) == table[t] # None /\ table[t].accrued = "TRUE"
               rows == [t \in Tokens |-> FreshRow(proc[p].rows[t].balance, flag(t))]
               h == [proc[p] EXCEPT !.pc = "setFresh", !.rows = rows]
    <3>1. /\ proc[p].pc = "getCached" /\ proc' = [proc EXCEPT ![p] = h]
          /\ UNCHANGED <<onChain, peak, credited, table, job>>
      BY <1>0, <2>6 DEF GenerateFreshWalletTokenData, chainVars, tables
    <3>2. rows \in Rows
      BY <3>1, RequestRows
    <3>3. ASSUME NEW t \in Tokens
          PROVE  rows[t].balance <= peak[t] + credited[t]
      <4>1. proc[p].rows[t] \in Row \cup {None} /\ proc[p].rows[t] # None
        BY <3>1, HandlerFields DEF TypeInv, Rows
      <4>2. proc[p].rows[t].balance \in Nat
        BY <4>1 DEF Row
      <4>3. rows[t] = FreshRow(proc[p].rows[t].balance, flag(t)) /\ flag(t) \in BOOLEAN
        OBVIOUS
      <4>4. Pending(proc[p], t) = 0
        BY <3>1 DEF Pending
      <4>5. proc[p].rows[t].balance <= peak[t] + credited[t] + Pending(proc[p], t)
        BY <4>1 DEF CountInv
      <4> HIDE DEF rows, flag
      <4>6. rows[t].balance = proc[p].rows[t].balance
        BY <4>2, <4>3, FreshRows
      <4>7. peak[t] \in Nat /\ credited[t] \in Nat
        BY <1>0
      <4>8. QED  BY <4>2, <4>4, <4>5, <4>6, <4>7
    <3> HIDE DEF rows
    <3>4. h \in Handler /\ h.rows = rows /\ h.pc = "setFresh"
      BY <3>2, HandlerFields DEF Handler
    <3> HIDE DEF h
    <3>5. \A t \in Tokens : Pending(h, t) = 0
      BY <3>4 DEF Pending
    <3>6. \A t \in Tokens : peak[t] \in Nat /\ credited[t] \in Nat
      BY <1>0
    <3>7. \A t \in Tokens : h.rows[t].balance <= peak[t] + credited[t] + Pending(h, t)
      BY <3>3, <3>4, <3>5, <3>6
    <3>8. QED  BY <3>1, <3>4, <3>7, HandlerWithinBound
  <2>7. CASE SetFresh(p)
    <3>1. /\ proc[p].pc = "setFresh" /\ table' = Upserted(proc[p].rows)
          /\ proc' = [proc EXCEPT ![p] = Idle]
          /\ UNCHANGED <<onChain, peak, credited, job>>
      BY <2>7 DEF SetFresh, chainVars
    <3>2. proc[p].rows \in Rows
      BY HandlerFields
    <3>3. \A t \in Tokens : Pending(proc[p], t) = 0 /\ peak[t] \in Nat /\ credited[t] \in Nat
      BY <1>0, <3>1 DEF Pending
    <3>4. \A t \in Tokens : proc[p].rows[t] # None =>
            proc[p].rows[t].balance <= peak[t] + credited[t]
      BY <3>3 DEF CountInv
    <3>5. \A t \in Tokens : credited'[t] \in Nat /\ credited[t] <= credited'[t]
      BY <3>1, <3>3
    <3>6. OvercountIsBounded'
      BY <3>1, <3>2, <3>4, <3>5, UpsertWithinBound
    <3>7. \A q \in Procs : proc'[q] \in {Idle, proc[q]}
      BY <1>0, <3>1
    <3>8. Idle.rows = NoRows /\ \A t \in Tokens : NoRows[t] = None
      BY DEF Idle, NoRows
    <3>9. \A q \in Procs, t \in Tokens : proc'[q].rows[t] # None =>
            proc'[q].rows[t].balance <= peak[t] + credited[t] + Pending(proc'[q], t)
      BY <3>7, <3>8 DEF CountInv
    <3>10. QED  BY <3>1, <3>6, <3>9 DEF CountInv, Pending
  <2>8. CASE Fail(p)
    <3>1. \A q \in Procs : proc'[q] \in {Idle, proc[q]}
      BY <1>0, <2>8 DEF Fail
    <3>2. UNCHANGED <<onChain, peak, credited, table, job>>
      BY <2>8 DEF Fail, chainVars, tables
    <3>3. QED  BY <1>5, <3>1, <3>2
  <2>9. QED  BY <1>6, <2>1, <2>2, <2>3, <2>4, <2>5, <2>6, <2>7, <2>8 DEF Serve
<1>7. CASE SyncTokenBalances
  <2>1. CASE StartSync
    <3>1. proc' = proc /\ job'.rows = NoRows /\ UNCHANGED <<onChain, peak, credited, table>>
      BY <2>1 DEF StartSync, chainVars, tables
    <3>2. QED  BY <1>5, <3>1
  <2>2. CASE GetERC20TokenBalancesBatched
    <3>1. PICK t \in job.left :
            job' = [pc |-> "setBalances", left |-> job.left \ {t},
                    rows |-> [NoRows EXCEPT ![t] = FreshRow(onChain[t], FALSE)]]
      BY <2>2 DEF GetERC20TokenBalancesBatched
    <3>2. t \in Tokens /\ onChain[t] \in Nat
      BY <1>0 DEF Job
    <3>3. FreshRow(onChain[t], FALSE).balance = onChain[t]
      BY <3>2, UnflaggedRows
    <3> DEFINE rows == [NoRows EXCEPT ![t] = FreshRow(onChain[t], FALSE)]
    <3>4. \A k \in Tokens : rows[k] # None => k = t /\ rows[k] = FreshRow(onChain[t], FALSE)
      BY <3>2 DEF NoRows
    <3>5. job'.rows = rows
      BY <3>1
    <3> HIDE DEF rows
    <3>6. \A k \in Tokens : job'.rows[k] # None => job'.rows[k].balance <= peak[k]
      BY <3>3, <3>4, <3>5 DEF CountInv
    <3>7. UNCHANGED <<onChain, peak, credited, table, proc>>
      BY <2>2 DEF GetERC20TokenBalancesBatched, chainVars, tables
    <3>8. QED  BY <3>6, <3>7 DEF CountInv, OvercountIsBounded, Pending
  <2>3. CASE SetWalletTokenBalances
    <3>1. /\ table' = Upserted(job.rows) /\ UNCHANGED <<onChain, peak, credited, proc>>
          /\ job'.rows = NoRows
      BY <2>3 DEF SetWalletTokenBalances, chainVars, IdleJob
    <3>2. job.rows \in Rows /\ \A t \in Tokens : peak[t] \in Nat /\ credited[t] \in Nat
      BY <1>0 DEF Job
    <3>3. ASSUME NEW t \in Tokens, job.rows[t] # None
          PROVE  job.rows[t].balance <= peak[t] + credited[t]
      <4>1. job.rows[t].balance \in Nat
        BY <3>2, <3>3 DEF Rows, Row
      <4>2. job.rows[t].balance <= peak[t]
        BY <3>3 DEF CountInv
      <4>3. QED  BY <3>2, <4>1, <4>2
    <3>4. \A t \in Tokens : credited'[t] \in Nat /\ credited[t] <= credited'[t]
      BY <3>1, <3>2
    <3>5. OvercountIsBounded'
      BY <3>1, <3>2, <3>3, <3>4, UpsertWithinBound
    <3>6. \A t \in Tokens : NoRows[t] = None
      BY DEF NoRows
    <3>7. QED  BY <3>1, <3>5, <3>6 DEF CountInv, Pending
  <2>4. QED  BY <1>7, <2>1, <2>2, <2>3 DEF SyncTokenBalances
<1>8. CASE FailJob
  <2>1. proc' = proc /\ job'.rows = NoRows /\ UNCHANGED <<onChain, peak, credited, table>>
    BY <1>8 DEF FailJob, IdleJob, chainVars, tables
  <2>2. QED  BY <1>5, <2>1
<1>9. CASE RestartProcessing
  <2>1. \A q \in Procs : proc'[q] \in {Idle, proc[q]}
    BY <1>0, <1>9 DEF RestartProcessing
  <2>2. job'.rows = NoRows /\ UNCHANGED <<onChain, peak, credited, table>>
    BY <1>9 DEF RestartProcessing, IdleJob, chainVars, tables
  <2>3. QED  BY <1>5, <2>1, <2>2
<1>10. QED  BY <1>1, <1>3, <1>4, <1>6, <1>7, <1>8, <1>9 DEF Next

\* However deposit events, requests and syncs interleave, a stored balance
\* exceeds what the wallet has had by no more than the events have added.
THEOREM OvercountAlwaysBounded == Spec => []OvercountIsBounded
<1>1. Spec => []TypeInv
  BY TypeInvInit, TypeInvStep, PTL DEF Spec
<1>2. Spec => []CountInv
  BY <1>1, CountInvInit, CountInvStep, PTL DEF Spec
<1>3. CountInv => OvercountIsBounded
  BY DEF CountInv
<1>4. QED  BY <1>2, <1>3, PTL

----------------------------------------------------------------------------
(* A complete run of the job.                                              *)

\* The job has just come to this wallet.
SyncStarted ==
  job = [pc |-> "getBalances", left |-> Tokens \ Excluded, rows |-> NoRows]

\* Nothing happens on chain, no call fails, and nobody but the job writes to
\* the table.  Requests and events may be served as far as they read.
Undisturbed ==
  /\ UNCHANGED <<onChain, faults>>
  /\ table' # table => SyncTokenBalances

IsOnChain(t) == table[t] # None /\ table[t].balance = onChain[t]

Synced == \A t \in Tokens \ Excluded : IsOnChain(t)

\* A token the job no longer has to read is right or about to be written, and
\* what it is about to write is right.
SyncInv ==
  /\ job.pc = "idle" => job.left = {}
  /\ \A t \in Tokens \ Excluded :
       \/ t \in job.left
       \/ job.pc = "setBalances" /\ job.rows[t] # None
       \/ IsOnChain(t)
  /\ \A t \in Tokens : job.pc = "setBalances" /\ job.rows[t] # None =>
       job.rows[t].balance = onChain[t]

LEMMA SyncInvStarts == SyncStarted => SyncInv
BY DEF SyncStarted, SyncInv

LEMMA SyncInvStep ==
  ASSUME TypeInv, SyncInv, [Next]_vars, [Undisturbed]_vars
  PROVE  SyncInv'
<1>1. CASE UNCHANGED vars
  BY <1>1 DEF vars, chainVars, tables, SyncInv, IsOnChain
<1> SUFFICES ASSUME Next, Undisturbed PROVE SyncInv'
  BY <1>1
<1>0. /\ job \in Job /\ table \in Rows /\ onChain \in [Tokens -> Nat] /\ faults \in Nat
      /\ UNCHANGED <<onChain, faults>>
  BY DEF TypeInv, TypeOK, Undisturbed
<1>2. CASE ~SyncTokenBalances
  <2>1. UNCHANGED table
    BY <1>2 DEF Undisturbed
  <2>2. ~FailJob /\ ~RestartProcessing /\ \A p \in Procs : ~Fail(p)
    <3>1. faults' # faults + 1
      BY <1>0
    <3>2. QED  BY <3>1 DEF FailJob, RestartProcessing, Fail
  <2>3. UNCHANGED job
    BY <1>2, <2>2
    DEF Next, Deposit, Transfer, Serve, HandleDepositEvent, GetWalletTokenBalance, SetSum,
        GetWalletTokens, GetOnChainTokenData, GenerateFreshWalletTokenData, SetFresh
  <2>4. QED  BY <1>0, <2>1, <2>3 DEF SyncInv, IsOnChain
<1>3. CASE StartSync
  <2>1. job' = [pc |-> "getBalances", left |-> Tokens \ Excluded, rows |-> NoRows]
    BY <1>3 DEF StartSync
  <2>2. job'.pc = "getBalances" /\ job'.left = Tokens \ Excluded
    BY <2>1
  <2>3. QED  BY <2>2 DEF SyncInv
<1>4. CASE GetERC20TokenBalancesBatched
  <2>1. PICK t \in job.left :
          job' = [pc |-> "setBalances", left |-> job.left \ {t},
                  rows |-> [NoRows EXCEPT ![t] = FreshRow(onChain[t], FALSE)]]
    BY <1>4 DEF GetERC20TokenBalancesBatched
  <2>2. job.pc = "getBalances" /\ UNCHANGED table
    BY <1>4 DEF GetERC20TokenBalancesBatched, tables
  <2>3. t \in Tokens /\ onChain[t] \in Nat
    BY <1>0 DEF Job
  <2>4. /\ FreshRow(onChain[t], FALSE) # None
        /\ FreshRow(onChain[t], FALSE).balance = onChain[t]
    BY <2>3, UnflaggedRows
  <2>5. /\ job'.pc = "setBalances" /\ job'.left = job.left \ {t}
        /\ \A k \in Tokens : job'.rows[k] = IF k = t THEN FreshRow(onChain[t], FALSE)
                                            ELSE None
    BY <2>1, <2>3 DEF NoRows
  <2>6. ASSUME NEW k \in Tokens \ Excluded
        PROVE  k \in job'.left \/ job'.rows[k] # None \/ IsOnChain(k)'
    <3>1. k \in job.left \/ IsOnChain(k)
      BY <2>2 DEF SyncInv
    <3>2. IsOnChain(k) => IsOnChain(k)'
      BY <1>0, <2>2 DEF IsOnChain
    <3>3. QED  BY <2>4, <2>5, <3>1, <3>2
  <2>7. \A k \in Tokens : job'.rows[k] # None => job'.rows[k].balance = onChain'[k]
    BY <1>0, <2>4, <2>5
  <2>8. QED  BY <2>5, <2>6, <2>7 DEF SyncInv
<1>5. CASE SetWalletTokenBalances
  <2>1. /\ job.pc = "setBalances" /\ table' = Upserted(job.rows)
        /\ job' = IF job.left = {} THEN IdleJob
                  ELSE [pc |-> "getBalances", left |-> job.left, rows |-> NoRows]
    BY <1>5 DEF SetWalletTokenBalances
  <2>2. job'.pc \in {"idle", "getBalances"} /\ job'.left = job.left
    <3>1. CASE job.left = {}
      BY <2>1, <3>1 DEF IdleJob
    <3>2. CASE job.left # {}
      BY <2>1, <3>2
    <3>3. QED  BY <3>1, <3>2
  <2>3. job'.pc = "idle" => job'.left = {}
    BY <2>1, <2>2
  <2>4. job.rows \in Rows
    BY <1>0 DEF Job
  <2>5. \A t \in Tokens :
          /\ job.rows[t] = None => table'[t] = table[t]
          /\ job.rows[t] # None => table'[t] # None /\ table'[t].balance = job.rows[t].balance
    BY <1>0, <2>1, <2>4, Upserts
  <2>6. ASSUME NEW t \in Tokens \ Excluded
        PROVE  t \in job'.left \/ IsOnChain(t)'
    <3>1. CASE job.rows[t] # None
      <4>1. job.rows[t].balance = onChain[t]
        BY <2>1, <3>1 DEF SyncInv
      <4>2. QED  BY <1>0, <2>5, <3>1, <4>1 DEF IsOnChain
    <3>2. CASE job.rows[t] = None
      <4>1. t \in job.left \/ IsOnChain(t)
        BY <2>1, <3>2 DEF SyncInv
      <4>2. IsOnChain(t) => IsOnChain(t)'
        BY <1>0, <2>5, <3>2 DEF IsOnChain
      <4>3. QED  BY <2>2, <4>1, <4>2
    <3>3. QED  BY <3>1, <3>2
  <2>7. job'.pc # "setBalances"
    BY <2>2
  <2>8. QED  BY <2>3, <2>6, <2>7 DEF SyncInv
<1>6. QED  BY <1>2, <1>3, <1>4, <1>5 DEF SyncTokenBalances

\* Whenever the job comes to the wallet, and until it is done nothing happens
\* on chain, nothing fails and no handler writes, it leaves the balance on
\* chain in the row of every token that is not excluded, whatever the rows were
\* before; and so does every later run.
THEOREM CompleteSyncIsRight ==
  Spec => [](SyncStarted /\ [][Undisturbed]_vars => [](job.pc = "idle" => Synced))
<1>1. SyncStarted => SyncInv
  BY SyncInvStarts
<1>2. TypeInv /\ SyncInv /\ [Next]_vars /\ [Undisturbed]_vars => SyncInv'
  BY SyncInvStep
<1>3. SyncInv => (job.pc = "idle" => Synced)
  BY DEF SyncInv, Synced
<1>4. QED  BY <1>1, <1>2, <1>3, TypeInvInit, TypeInvStep, PTL DEF Spec
============================================================================
