--------------------------- MODULE WalletRegistry ---------------------------
(***************************************************************************)
(* The michi_wallets table of one chain: which wallet NFTs it has, and     *)
(* whom it says they belong to.  Wallets come into it by the WalletCreated *)
(* events that the webhook and the listener handle, by the requests of     *)
(* their owners (GET /nft/:owner) and by the hourly points job, which also *)
(* refreshes every owner.  Each action is one call to the database or to   *)
(* the chain.                                                              *)
(***************************************************************************)
EXTENDS Integers, Sequences, FiniteSets

CONSTANTS
  Users,
  Procs,         \* events and requests that may be served at the same time
  Sources,       \* who handles this chain's events: "webhook", "listener"
  Requesters,    \* the users whose front end asks for their wallets
  BatchSize,     \* DEFAULT_BATCH_SIZE
  MaxMinted,     \* bound: wallets created on chain
  MaxTransfers,  \* bound: transfers of wallets
  MaxFaults,     \* bound: failed calls and restarts
  None

ASSUME RegistryAssumption ==
  /\ Sources \subseteq {"webhook", "listener"}
  /\ Requesters \subseteq Users
  /\ BatchSize \in Nat \ {0}
  /\ MaxMinted \in Nat /\ MaxTransfers \in Nat /\ MaxFaults \in Nat
  /\ None \notin Users

VARIABLES
  minted,     \* wallets the NFT contract has minted, with the indices 0 .. minted-1
  history,    \* on chain: the owners of each wallet so far, its creator first
  wallets,    \* michi_wallets: from nft_index to owner_address, a partial function
  delivered,  \* the WalletCreated events each source has begun to handle
  proc,       \* the handlers
  job,        \* the points job
  jumped,     \* history: a request has left a gap in the table
  faults

vars == <<minted, history, wallets, delivered, proc, job, jumped, faults>>

Indices == 0 .. MaxMinted - 1

OwnerOf(i) == history[i][Len(history[i])]

CreatorOf(i) == history[i][1]

HasOwned(u, i) == \E k \in DOMAIN history[i] : history[i][k] = u

Registered == DOMAIN wallets

\* Rows to be upserted: from some indices to owners.
Rows == UNION {[S -> Users] : S \in SUBSET Indices}

NoRows == [i \in {} |-> None]

\* The contract's checkERC721Owners for a range without its last index.
MutOwnersFrom(first, last) ==  \* with its last index
  [i \in first .. last |-> IF i < minted THEN OwnerOf(i) ELSE None]

OwnersFrom(first, last) == [i \in first .. last - 1 |-> OwnerOf(i)]

Upserted(rows) ==
  [i \in Registered \cup DOMAIN rows |->
     IF i \in DOMAIN rows THEN rows[i] ELSE wallets[i]]

Handler ==
  [pc: {"idle", "getCurrentIndex", "getOwners", "backfill", "setWallet", "getNFTs", "setOwned"},
   source: {"webhook", "listener", "request"},
   index: Indices \cup {0},     \* nft_index of the event
   from: 0 .. MaxMinted,        \* where the range to backfill starts
   user: Users \cup {None},     \* the owner named by the request
   rows: Rows]

Idle == [pc |-> "idle", source |-> "request", index |-> 0, from |-> 0,
         user |-> None, rows |-> NoRows]

Job ==
  [pc: {"idle", "getCurrentIndex", "getOwners", "backfill", "getBatch", "syncOwners", "setOwners"},
   minted: 0 .. MaxMinted,      \* numMichiWallets
   from: 0 .. MaxMinted + BatchSize,
   batch: SUBSET Indices,
   rows: Rows]

IdleJob == [pc |-> "idle", minted |-> 0, from |-> 0, batch |-> {}, rows |-> NoRows]

TypeOK ==
  /\ minted \in 0 .. MaxMinted
  /\ history \in [Indices -> Seq(Users)]
  /\ \A i \in Indices : history[i] # <<>> <=> i < minted
  /\ wallets \in Rows
  /\ delivered \subseteq (0 .. minted - 1) \X Sources
  /\ proc \in [Procs -> Handler]
  /\ job \in Job
  /\ jumped \in BOOLEAN
  /\ faults \in 0 .. MaxFaults

Init ==
  /\ minted = 0
  /\ history = [i \in Indices |-> <<>>]
  /\ wallets = NoRows
  /\ delivered = {}
  /\ proc = [p \in Procs |-> Idle]
  /\ job = IdleJob
  /\ jumped = FALSE
  /\ faults = 0

----------------------------------------------------------------------------
(* The chain.                                                              *)

CreateWallet ==
  /\ minted < MaxMinted
  /\ \E u \in Users : history' = [history EXCEPT ![minted] = <<u>>]
  /\ minted' = minted + 1
  /\ UNCHANGED <<wallets, delivered, proc, job, jumped, faults>>

TransferWallet ==
  /\ Cardinality(UNION {{i} \X DOMAIN history[i] : i \in Indices}) < minted + MaxTransfers
  /\ \E i \in 0 .. minted - 1, u \in Users :
       /\ u # OwnerOf(i)
       /\ history' = [history EXCEPT ![i] = Append(@, u)]
  /\ UNCHANGED <<minted, wallets, delivered, proc, job, jumped, faults>>

----------------------------------------------------------------------------
(* The WalletCreated event, handled by the webhook or by the listener.     *)

\* The webhook handles the event of a transaction once (EventIngestion), the
\* listener when the node reports it: an event may also never be delivered.
HandleWalletCreatedEvent(p) ==
  /\ proc[p].pc = "idle"
  /\ \E i \in 0 .. minted - 1, source \in Sources :
       /\ <<i, source>> \notin delivered
       /\ delivered' = delivered \cup {<<i, source>>}
       /\ proc' = [proc EXCEPT ![p] = [Idle EXCEPT !.pc = "getCurrentIndex",
                                                   !.source = source, !.index = i]]
  /\ UNCHANGED <<minted, history, wallets, job, jumped, faults>>

\* getCurrentNftIndex: the greatest index of the table, or -1.
IsCurrentNftIndex(m) == \A k \in Registered : k <= m

MutBackfillsFrom(current) == current + 2  \* one off

BackfillsFrom(current) == current + 1

GetCurrentNftIndex(p) ==
  /\ proc[p].pc = "getCurrentIndex"
  /\ \E current \in Registered \cup {-1} :
       /\ IsCurrentNftIndex(current)
       /\ proc' = [proc EXCEPT ![p] =
            IF @.index > current + 1
              THEN [@ EXCEPT !.pc = "getOwners", !.from = BackfillsFrom(current)]
              ELSE [@ EXCEPT !.pc = "setWallet"]]
  /\ UNCHANGED <<minted, history, wallets, delivered, job, jumped, faults>>

GetMichiNFTOwnerBatched(p) ==
  /\ proc[p].pc = "getOwners"
  /\ proc' = [proc EXCEPT ![p].pc = "backfill",
                          ![p].rows = OwnersFrom(proc[p].from, proc[p].index)]
  /\ UNCHANGED <<minted, history, wallets, delivered, job, jumped, faults>>

BackfillMissingWalletCreates(p) ==
  /\ proc[p].pc = "backfill"
  /\ wallets' = Upserted(proc[p].rows)
  /\ proc' = [proc EXCEPT ![p].pc = "setWallet", ![p].rows = NoRows]
  /\ UNCHANGED <<minted, history, delivered, job, jumped, faults>>

\* The owner is the sender of the event, whoever owns the wallet by now.
SetMichiWallet(p) ==
  /\ proc[p].pc = "setWallet"
  /\ LET i == proc[p].index IN
     wallets' = Upserted([k \in {i} |-> CreatorOf(i)])
  /\ proc' = [proc EXCEPT ![p] = Idle]
  /\ UNCHANGED <<minted, history, delivered, job, jumped, faults>>

----------------------------------------------------------------------------
(* GET /nft/:owner, when the rows of the owner are stale or there are none;*)
(* otherwise it changes nothing.                                           *)

GetOwnedMichiWallets(p) ==
  /\ proc[p].pc = "idle"
  /\ \E u \in Requesters :
       proc' = [proc EXCEPT ![p] = [Idle EXCEPT !.pc = "getNFTs", !.user = u]]
  /\ UNCHANGED <<minted, history, wallets, delivered, job, jumped, faults>>

GenerateFreshWalletData(u) ==
  [i \in {k \in 0 .. minted - 1 : OwnerOf(k) = u} |-> u]

GetWalletNFTs(p) ==
  /\ proc[p].pc = "getNFTs"
  /\ proc' = [proc EXCEPT ![p].pc = "setOwned",
                          ![p].rows = GenerateFreshWalletData(proc[p].user)]
  /\ UNCHANGED <<minted, history, wallets, delivered, job, jumped, faults>>

\* There is a row for every index below that of a row.
Contiguous == \A i \in Registered : \A k \in 0 .. i - 1 : k \in Registered

SetOwnedWallets(p) ==
  /\ proc[p].pc = "setOwned"
  /\ wallets' = Upserted(proc[p].rows)
  /\ jumped' = (jumped \/ ~Contiguous')
  /\ proc' = [proc EXCEPT ![p] = Idle]
  /\ UNCHANGED <<minted, history, delivered, job, faults>>

----------------------------------------------------------------------------
(* The hourly points job, as far as it concerns the wallets of the chain.  *)

GoJob(pc) == job' = [job EXCEPT !.pc = pc]

\* getMichiCurrentIndex asks the contract.
ProcessChainMichiPoints ==
  /\ job.pc = "idle"
  /\ job' = [IdleJob EXCEPT !.pc = "getCurrentIndex", !.minted = minted]
  /\ UNCHANGED <<minted, history, wallets, delivered, proc, jumped, faults>>

JobGetCurrentNftIndex ==
  /\ job.pc = "getCurrentIndex"
  /\ \E current \in Registered \cup {-1} :
       /\ IsCurrentNftIndex(current)
       /\ job' = IF current < job.minted - 1
                   THEN [job EXCEPT !.pc = "getOwners", !.from = BackfillsFrom(current)]
                   ELSE [job EXCEPT !.pc = "getBatch"]
  /\ UNCHANGED <<minted, history, wallets, delivered, proc, jumped, faults>>

JobGetMichiNFTOwnerBatched ==
  /\ job.pc = "getOwners"
  /\ job' = [job EXCEPT !.pc = "backfill", !.rows = OwnersFrom(job.from, job.minted)]
  /\ UNCHANGED <<minted, history, wallets, delivered, proc, jumped, faults>>

JobBackfillMissingWalletCreates ==
  /\ job.pc = "backfill"
  /\ wallets' = Upserted(job.rows)
  /\ job' = [job EXCEPT !.pc = "getBatch", !.from = 0, !.rows = NoRows]
  /\ UNCHANGED <<minted, history, delivered, proc, jumped, faults>>

\* getWalletsByIndex: the first rows at or above an index.
BatchAt(from) ==
  {i \in Registered :
     /\ i >= from
     /\ Cardinality({k \in Registered : from <= k /\ k < i}) < BatchSize}

GetWalletsByIndex ==
  /\ job.pc = "getBatch"
  /\ LET batch == BatchAt(job.from) IN
     job' = IF batch = {} THEN IdleJob
                          ELSE [job EXCEPT !.pc = "syncOwners", !.batch = batch]
  /\ UNCHANGED <<minted, history, wallets, delivered, proc, jumped, faults>>

\* walletOwners[index], index being the place in the batch: the owner of the
\* wallet as many indices above the start of the batch as there are rows of
\* the batch before this one.
MutSyncedOwner(i) ==  \* counted from the first row of the table
  OwnerOf(Cardinality({k \in job.batch : k < i}))

SyncedOwner(i) == OwnerOf(job.from + Cardinality({k \in job.batch : k < i}))

SyncWalletOwners ==
  /\ job.pc = "syncOwners"
  /\ job' = [job EXCEPT !.pc = "setOwners", !.rows = [i \in job.batch |-> SyncedOwner(i)]]
  /\ UNCHANGED <<minted, history, wallets, delivered, proc, jumped, faults>>

MutNextBatch(from) == MaxMinted  \* only one batch

NextBatch(from) == from + BatchSize

SetOwners ==
  /\ job.pc = "setOwners"
  /\ wallets' = Upserted(job.rows)
  /\ job' = [job EXCEPT !.pc = "getBatch", !.from = NextBatch(job.from),
                        !.batch = {}, !.rows = NoRows]
  /\ UNCHANGED <<minted, history, delivered, proc, jumped, faults>>

----------------------------------------------------------------------------
(* Failures.                                                               *)

\* A call of a webhook or a request fails, or the API service restarts.
Fail(p) ==
  /\ proc[p].pc # "idle" /\ proc[p].source # "listener"
  /\ faults < MaxFaults
  /\ faults' = faults + 1
  /\ proc' = [proc EXCEPT ![p] = Idle]
  /\ UNCHANGED <<minted, history, wallets, delivered, job, jumped>>

\* A failed call of the job is caught, and the run is over.
FailJob ==
  /\ job.pc # "idle"
  /\ faults < MaxFaults
  /\ faults' = faults + 1
  /\ job' = IdleJob
  /\ UNCHANGED <<minted, history, wallets, delivered, proc, jumped>>

\* A failed call of the listener's handler, which nobody awaits, ends the
\* processing service, and the job with it.
RestartProcessing ==
  /\ faults < MaxFaults
  /\ faults' = faults + 1
  /\ proc' = [p \in Procs |-> IF proc[p].source = "listener" THEN Idle ELSE proc[p]]
  /\ job' = IdleJob
  /\ UNCHANGED <<minted, history, wallets, delivered, jumped>>

Chain == CreateWallet \/ TransferWallet

Serve(p) ==
  \/ HandleWalletCreatedEvent(p) \/ GetCurrentNftIndex(p) \/ GetMichiNFTOwnerBatched(p)
  \/ BackfillMissingWalletCreates(p) \/ SetMichiWallet(p)
  \/ GetOwnedMichiWallets(p) \/ GetWalletNFTs(p) \/ SetOwnedWallets(p)
  \/ Fail(p)

RunJob ==
  \/ ProcessChainMichiPoints \/ JobGetCurrentNftIndex \/ JobGetMichiNFTOwnerBatched
  \/ JobBackfillMissingWalletCreates \/ GetWalletsByIndex \/ SyncWalletOwners \/ SetOwners

Next ==
  \/ Chain
  \/ \E p \in Procs : Serve(p)
  \/ RunJob
  \/ FailJob
  \/ RestartProcessing

Spec == Init /\ [][Next]_vars

\* Cron starts the job every hour and its calls get an answer; no event need
\* be delivered, no request be made and no handler come to its end.
FairSpec == Spec /\ WF_vars(RunJob)

----------------------------------------------------------------------------
(* Properties.                                                             *)

\* Backfilling works: however the handlers of the webhook, of the listener
\* and the job interleave, and whatever events are lost, only a request of an
\* owner can leave a gap below the greatest index of the table.
NoGaps == jumped \/ Contiguous

\* As long as no request has left a gap, whoever the table gives as the owner
\* of a wallet has owned that very wallet, be it the creator named by a late
\* event, the owner read for a backfill, or the one the job has read by its
\* place in the batch.
OwnersWereOwners ==
  jumped \/ \A i \in Registered : HasOwned(wallets[i], i)

\* When minting and transfers are over, the job has in the end registered
\* every wallet with its present owner, and late events and answers undo that
\* only finitely often; unless a gap is left that no event has filled.
AllCurrent == \A i \in 0 .. minted - 1 : i \in Registered /\ wallets[i] = OwnerOf(i)

RegistryConverges == <>[](Contiguous => AllCurrent)

\* README.md:115: GET /nft/:owner is to "Get owned Michi Wallet NFTs"; it
\* answers from the table as long as the rows are fresh, so nobody may be
\* there as the owner of a wallet that was never theirs.
ListedWasOwned == \A i \in Registered : HasOwned(wallets[i], i)
============================================================================
