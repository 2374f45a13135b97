---------------------------- MODULE TokenBalances ---------------------------
(***************************************************************************)
(* The wallet_tokens rows of one wallet: the balance of each approved      *)
(* token, and whether it has ever earned interest.  Deposit events, by the *)
(* webhook and by the listener, read a balance and write the sum; requests *)
(* (GET /tokens/:chain/:wallet) and the hourly points job write what they  *)
(* have read on chain.  Each action is one call to the database or to the  *)
(* chain.                                                                  *)
(***************************************************************************)
EXTENDS Integers, FiniteSets

CONSTANTS
  Tokens,        \* the approved tokens of the chain
  Excluded,      \* TOKEN_EXCLUSION_LIST, which the job leaves out
  Deposits,      \* the deposits that may be made
  Balances,      \* what a transfer that is no deposit may leave on chain
  Procs,         \* events and requests that may be served at the same time
  Sources,       \* who handles this chain's events: "webhook", "listener"
  MaxTransfers,  \* bound: transfers that are no deposits
  MaxFaults,     \* bound: failed calls and restarts
  None

\* The id tells the transactions of equal deposits apart.
DepositEvent == [id: Nat, token: Tokens, amount: Nat \ {0}]

ASSUME BalancesAssumption ==
  /\ Excluded \subseteq Tokens
  /\ Deposits \subseteq DepositEvent
  /\ Balances \subseteq Nat
  /\ Sources \subseteq {"webhook", "listener"}
  /\ MaxTransfers \in Nat /\ MaxFaults \in Nat
  /\ None \notin Deposits
  /\ None \notin [balance: Nat, eligible: Nat, accrued: {"TRUE", "FALSE", "NULL"}]

VARIABLES
  onChain,    \* the balance of each token on chain
  made,       \* the deposits made on chain
  delivered,  \* the deposit events each source has begun to handle
  table,      \* wallet_tokens: the row of each token, None if there is none
  proc,       \* the handlers
  job,        \* the points job, as far as it syncs this wallet
  peak,       \* history: the greatest balance there has been on chain
  credited,   \* history: the amounts added for deposit events
  seen,       \* history: tokens of which somebody has read a balance on chain
  transfers,
  faults

tables == <<table, credited>>

chainVars == <<onChain, made, peak, transfers>>

vars == <<chainVars, tables, delivered, proc, job, seen, faults>>

\* has_accrued_interest is nullable.
Row == [balance: Nat, eligible: Nat, accrued: {"TRUE", "FALSE", "NULL"}]

\* The row of each token, None where there is none.
Rows == [Tokens -> Row \cup {None}]

NoRows == [t \in Tokens |-> None]

Handler ==
  [pc: {"idle", "getBalance", "setSum", "getOnChain", "getCached", "setFresh"},
   source: {"webhook", "listener", "request"},
   event: Deposits \cup {None},
   rows: Rows]

Idle == [pc |-> "idle", source |-> "request", event |-> None, rows |-> NoRows]

Job ==
  [pc: {"idle", "getBalances", "setBalances"},
   left: SUBSET Tokens,   \* tokens still to sync in this run
   rows: Rows]

IdleJob == [pc |-> "idle", left |-> {}, rows |-> NoRows]

TypeOK ==
  /\ onChain \in [Tokens -> Nat] /\ peak \in [Tokens -> Nat]
  /\ made \subseteq Deposits
  /\ delivered \subseteq made \X Sources
  /\ table \in Rows
  /\ proc \in [Procs -> Handler]
  /\ \A p \in Procs : proc[p].pc \in {"getBalance", "setSum"} => proc[p].event \in made
  /\ job \in Job
  /\ credited \in [Tokens -> Nat]
  /\ seen \subseteq Tokens
  /\ transfers \in 0 .. MaxTransfers /\ faults \in 0 .. MaxFaults

Init ==
  /\ onChain = [t \in Tokens |-> 0] /\ peak = onChain
  /\ made = {} /\ delivered = {}
  /\ table = NoRows
  /\ proc = [p \in Procs |-> Idle]
  /\ job = IdleJob
  /\ credited = [t \in Tokens |-> 0]
  /\ seen = {}
  /\ transfers = 0 /\ faults = 0

----------------------------------------------------------------------------
(* The chain.                                                              *)

BalanceBecomes(t, b) ==
  /\ onChain' = [onChain EXCEPT ![t] = b]
  /\ peak' = [peak EXCEPT ![t] = IF b > @ THEN b ELSE @]

Deposit ==
  /\ \E d \in Deposits \ made :
       /\ made' = made \cup {d}
       /\ BalanceBecomes(d.token, onChain[d.token] + d.amount)
  /\ UNCHANGED <<tables, delivered, proc, job, seen, transfers, faults>>

\* A withdrawal, or an income without an event of the Michi contracts.
Transfer ==
  /\ transfers < MaxTransfers
  /\ transfers' = transfers + 1
  /\ \E t \in Tokens, b \in Balances : b # onChain[t] /\ BalanceBecomes(t, b)
  /\ UNCHANGED <<tables, made, delivered, proc, job, seen, faults>>

----------------------------------------------------------------------------
(* The rows.                                                               *)

\* OR, as SQL has it.
SqlOr(a, b) ==
  CASE "TRUE" \in {a, b} -> "TRUE"
    [] {a, b} = {"FALSE"} -> "FALSE"
    [] OTHER -> "NULL"

MutUpserted(rows) ==  \* the flag is replaced like the other columns
  [t \in Tokens |-> IF rows[t] # None THEN rows[t] ELSE table[t]]

MutUpsertedOnce(rows) ==  \* ON CONFLICT DO NOTHING
  [t \in Tokens |-> IF table[t] = None THEN rows[t] ELSE table[t]]

Upserted(rows) ==
  [t \in Tokens |->
     IF rows[t] = None THEN table[t]
     ELSE IF table[t] = None THEN rows[t]
     ELSE [rows[t] EXCEPT !.accrued = SqlOr(table[t].accrued, rows[t].accrued)]]

\* What is written of a token whose balance on chain is b, if its flag was
\* read to be TRUE or not.
FreshRow(b, flag) ==
  [balance |-> b, eligible |-> b, accrued |-> IF b > 0 \/ flag THEN "TRUE" ELSE "FALSE"]

----------------------------------------------------------------------------
(* The Deposit event, handled by the webhook or by the listener.           *)

HandleDepositEvent(p) ==
  /\ proc[p].pc = "idle"
  /\ \E d \in made, source \in Sources :
       /\ <<d, source>> \notin delivered
       /\ delivered' = delivered \cup {<<d, source>>}
       /\ proc' = [proc EXCEPT ![p] = [pc |-> "getBalance", source |-> source,
                                       event |-> d, rows |-> NoRows]]
  /\ UNCHANGED <<chainVars, tables, job, seen, faults>>

\* Without a row both balances start from 0; the flag is not given.
MutSumLess(row, amount) ==  \* the amount is taken off the eligible balance
  IF row = None THEN [balance |-> amount, eligible |-> amount, accrued |-> "NULL"]
  ELSE [balance |-> row.balance + amount, eligible |-> row.eligible - amount,
        accrued |-> "NULL"]

MutSum(row, amount) ==  \* a deposit earns interest
  IF row = None THEN [balance |-> amount, eligible |-> amount, accrued |-> "TRUE"]
  ELSE [balance |-> row.balance + amount, eligible |-> row.eligible + amount,
        accrued |-> "TRUE"]

Sum(row, amount) ==
  IF row = None THEN [balance |-> amount, eligible |-> amount, accrued |-> "NULL"]
  ELSE [balance |-> row.balance + amount, eligible |-> row.eligible + amount,
        accrued |-> "NULL"]

GetWalletTokenBalance(p) ==
  /\ proc[p].pc = "getBalance"
  /\ LET d == proc[p].event IN
     proc' = [proc EXCEPT ![p].pc = "setSum",
                          ![p].rows = [NoRows EXCEPT ![d.token] =
                                         Sum(table[d.token], d.amount)]]
  /\ UNCHANGED <<chainVars, tables, delivered, job, seen, faults>>

SetSum(p) ==
  /\ proc[p].pc = "setSum"
  /\ table' = Upserted(proc[p].rows)
  /\ LET d == proc[p].event IN credited' = [credited EXCEPT ![d.token] = @ + d.amount]
  /\ proc' = [proc EXCEPT ![p] = Idle]
  /\ UNCHANGED <<chainVars, delivered, job, seen, faults>>

----------------------------------------------------------------------------
(* GET /tokens/:chain/:wallet of a wallet whose account is deployed; of    *)
(* others it changes nothing.                                              *)

GetWalletTokens(p) ==
  /\ proc[p].pc = "idle"
  /\ proc' = [proc EXCEPT ![p] = [Idle EXCEPT !.pc = "getOnChain"]]
  /\ UNCHANGED <<chainVars, tables, delivered, job, seen, faults>>

\* Until the cached flags are known they are taken for FALSE.
GetOnChainTokenData(p) ==
  /\ proc[p].pc = "getOnChain"
  /\ seen' = seen \cup {t \in Tokens : onChain[t] > 0}
  /\ proc' = [proc EXCEPT ![p].pc = "getCached",
                          ![p].rows = [t \in Tokens |-> FreshRow(onChain[t], FALSE)]]
  /\ UNCHANGED <<chainVars, tables, delivered, job, faults>>

GenerateFreshWalletTokenData(p) ==
  /\ proc[p].pc = "getCached"
  /\ proc' = [proc EXCEPT ![p].pc = "setFresh", ![p].rows = [t \in Tokens |->
       FreshRow(proc[p].rows[t].balance, table[t] # None /\ table[t].accrued = "TRUE")]]
  /\ UNCHANGED <<chainVars, tables, delivered, job, seen, faults>>

SetFresh(p) ==
  /\ proc[p].pc = "setFresh"
  /\ table' = Upserted(proc[p].rows)
  /\ proc' = [proc EXCEPT ![p] = Idle]
  /\ UNCHANGED <<chainVars, credited, delivered, job, seen, faults>>

----------------------------------------------------------------------------
(* The hourly job: the batch with this wallet, token by token.             *)

StartSync ==
  /\ job.pc = "idle"
  /\ Tokens \ Excluded # {}
  /\ job' = [pc |-> "getBalances", left |-> Tokens \ Excluded, rows |-> NoRows]
  /\ UNCHANGED <<chainVars, tables, delivered, proc, seen, faults>>

MutGetERC20TokenBalancesBatched ==  \* added to the row, like a deposit
  /\ job.pc = "getBalances"
  /\ \E t \in job.left :
       /\ seen' = seen \cup {k \in {t} : onChain[k] > 0}
       /\ job' = [pc |-> "setBalances", left |-> job.left \ {t},
                  rows |-> [NoRows EXCEPT ![t] = Sum(table[t], onChain[t])]]
  /\ UNCHANGED <<chainVars, tables, delivered, proc, faults>>

GetERC20TokenBalancesBatched ==
  /\ job.pc = "getBalances"
  /\ \E t \in job.left :
       /\ seen' = seen \cup {k \in {t} : onChain[k] > 0}
       /\ job' = [pc |-> "setBalances", left |-> job.left \ {t},
                  rows |-> [NoRows EXCEPT ![t] = FreshRow(onChain[t], FALSE)]]
  /\ UNCHANGED <<chainVars, tables, delivered, proc, faults>>

SetWalletTokenBalances ==
  /\ job.pc = "setBalances"
  /\ table' = Upserted(job.rows)
  /\ job' = IF job.left = {} THEN IdleJob
            ELSE [pc |-> "getBalances", left |-> job.left, rows |-> NoRows]
  /\ UNCHANGED <<chainVars, credited, delivered, proc, seen, faults>>

----------------------------------------------------------------------------
(* Failures.                                                               *)

\* A call of a webhook or a request fails, or the API service restarts.
Fail(p) ==
  /\ proc[p].pc # "idle" /\ proc[p].source # "listener"
  /\ faults < MaxFaults
  /\ faults' = faults + 1
  /\ proc' = [proc EXCEPT ![p] = Idle]
  /\ UNCHANGED <<chainVars, tables, delivered, job, seen>>

\* A failed call of the job ends its run.
FailJob ==
  /\ job.pc # "idle"
  /\ faults < MaxFaults
  /\ faults' = faults + 1
  /\ job' = IdleJob
  /\ UNCHANGED <<chainVars, tables, delivered, proc, seen>>

\* A failed call of the listener ends the processing service, with the job.
RestartProcessing ==
  /\ faults < MaxFaults
  /\ faults' = faults + 1
  /\ proc' = [p \in Procs |-> IF proc[p].source = "listener" THEN Idle ELSE proc[p]]
  /\ job' = IdleJob
  /\ UNCHANGED <<chainVars, tables, delivered, seen>>

Serve(p) ==
  \/ HandleDepositEvent(p) \/ GetWalletTokenBalance(p) \/ SetSum(p)
  \/ GetWalletTokens(p) \/ GetOnChainTokenData(p) \/ GenerateFreshWalletTokenData(p)
  \/ SetFresh(p)
  \/ Fail(p)

SyncTokenBalances == StartSync \/ GetERC20TokenBalancesBatched \/ SetWalletTokenBalances

Next ==
  \/ Deposit \/ Transfer
  \/ \E p \in Procs : Serve(p)
  \/ SyncTokenBalances \/ FailJob
  \/ RestartProcessing

Spec == Init /\ [][Next]_vars

\* Only the job, which cron starts, is sure to go on.
FairSpec == Spec /\ WF_vars(SyncTokenBalances)

----------------------------------------------------------------------------
(* Properties.                                                             *)

\* A token is flagged as having earned interest only if somebody has read a
\* balance of it on chain: no deposit event, and no race of one with a
\* request or a sync, gives the flag.
AccruedWasSeen == \A t \in Tokens :
  table[t] # None /\ table[t].accrued = "TRUE" => t \in seen

\* A flag once given is never lost, to the NULL of a deposit or to the FALSE
\* of a request or sync that has read an empty wallet before.
AccruedIsKept ==
  [][\A t \in Tokens :
       table[t] # None /\ table[t].accrued = "TRUE"
       => table'[t] # None /\ table'[t].accrued = "TRUE"]_vars

\* A balance is never more than the wallet has had on chain and the deposit
\* events have added since: the races of events, requests and syncs may count
\* a deposit twice, and never more often.
OvercountIsBounded == \A t \in Tokens :
  table[t] # None => table[t].balance <= peak[t] + credited[t]

\* Once deposits and transfers are over, every token that the job syncs ends
\* at its balance on chain, whatever was lost, counted twice or overwritten.
BalancesConverge ==
  <>[](\A t \in Tokens \ Excluded : table[t] # None /\ table[t].balance = onChain[t])
============================================================================
