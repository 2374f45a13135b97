------------------------ MODULE WalletRegistryProofs ------------------------
(***************************************************************************)
(* Proofs about the wallet registry: that it is well typed, that only a    *)
(* request can leave a gap, and that without one the owners it names were  *)
(* owners.  Each is an inductive invariant of its own: TypeInv, then       *)
(* GapInv on top of it, then OwnerInv on top of both.  And that a run of   *)
(* the job which nothing disturbs brings the table up to date (RunInv).    *)
(***************************************************************************)
EXTENDS WalletRegistry, FiniteSetTheorems, SequenceTheorems, TLAPS

EventSteps == {"getCurrentIndex", "getOwners", "backfill", "setWallet"}

MintedIndices == 0 .. minted - 1

\* What a handler holds is about wallets that were minted.
HandlerOK(h) ==
  /\ h.pc \in EventSteps => h.index < minted
  /\ h.pc \in {"getNFTs", "setOwned"} => h.user \in Users
  /\ DOMAIN h.rows \subseteq MintedIndices
  /\ h.pc = "backfill" => DOMAIN h.rows = h.from .. h.index - 1

HandlersOK == \A p \in Procs : HandlerOK(proc[p])

\* The same of the job.
JobOK ==
  /\ job.minted <= minted
  /\ job.batch \subseteq Registered
  /\ \A i \in job.batch : job.from <= i
  /\ job.pc \notin {"syncOwners", "setOwners"} => job.batch = {}
  /\ job.pc \in {"getOwners", "backfill"} => job.from <= MaxMinted
  /\ job.pc \in {"syncOwners", "setOwners"} => job.from < MaxMinted
  /\ DOMAIN job.rows \subseteq MintedIndices
  /\ job.pc = "backfill" => DOMAIN job.rows = job.from .. job.minted - 1
  /\ job.pc = "setOwners" => DOMAIN job.rows \subseteq Registered

TypeInv ==
  /\ TypeOK
  /\ Registered \subseteq MintedIndices
  /\ HandlersOK
  /\ JobOK

\* Every index below n has a row.
FilledBelow(n) == \A k \in 0 .. n - 1 : k \in Registered

GapInv ==
  jumped \/
    /\ Contiguous
    /\ \A p \in Procs :
         /\ proc[p].pc \in {"getOwners", "backfill"} => FilledBelow(proc[p].from)
         /\ proc[p].pc = "setWallet" => FilledBelow(proc[p].index)
    /\ job.pc \in {"getOwners", "backfill"} => FilledBelow(job.from)

RowsWereOwned(rows) == \A i \in DOMAIN rows : HasOwned(rows[i], i)

OwnerInv ==
  /\ \A p \in Procs : RowsWereOwned(proc[p].rows)
  /\ jumped \/
       /\ RowsWereOwned(wallets)
       /\ RowsWereOwned(job.rows)
       /\ \A i \in job.batch : {k \in job.batch : k < i} = job.from .. i - 1

----------------------------------------------------------------------------
(* The chain and the rows.                                                 *)

LEMMA TypeInvFacts ==
  ASSUME TypeInv
  PROVE  /\ minted \in Nat /\ MaxMinted \in Nat /\ minted <= MaxMinted
         /\ history \in [Indices -> Seq(Users)]
         /\ wallets \in Rows /\ Registered \subseteq MintedIndices
         /\ MintedIndices \subseteq Indices /\ MintedIndices \subseteq Nat
         /\ proc \in [Procs -> Handler] /\ job \in Job
         /\ HandlersOK /\ JobOK
BY RegistryAssumption DEF TypeInv, TypeOK, MintedIndices, Indices

LEMMA RowsAreFunctions ==
  ASSUME NEW rows
  PROVE  rows \in Rows <=> /\ DOMAIN rows \subseteq Indices
                           /\ rows \in [DOMAIN rows -> Users]
BY DEF Rows

LEMMA NoRowsAreRows == NoRows \in Rows /\ DOMAIN NoRows = {}
BY RowsAreFunctions DEF NoRows

LEMMA UpsertedIsRows ==
  ASSUME wallets \in Rows, NEW rows \in Rows
  PROVE  /\ Upserted(rows) \in Rows
         /\ DOMAIN Upserted(rows) = Registered \cup DOMAIN rows
         /\ \A i \in DOMAIN Upserted(rows) :
              Upserted(rows)[i] = IF i \in DOMAIN rows THEN rows[i] ELSE wallets[i]
<1>1. DOMAIN Upserted(rows) = Registered \cup DOMAIN rows
  BY DEF Upserted
<1>2. /\ DOMAIN rows \subseteq Indices /\ rows \in [DOMAIN rows -> Users]
      /\ Registered \subseteq Indices /\ wallets \in [Registered -> Users]
  BY RowsAreFunctions DEF Registered
<1>3. Upserted(rows) \in [DOMAIN Upserted(rows) -> Users]
  BY <1>1, <1>2 DEF Upserted
<1>4. QED  BY <1>1, <1>2, <1>3, RowsAreFunctions DEF Upserted

LEMMA MintedHaveOwners ==
  ASSUME TypeInv, NEW i \in MintedIndices
  PROVE  /\ OwnerOf(i) \in Users /\ HasOwned(OwnerOf(i), i)
         /\ CreatorOf(i) \in Users /\ HasOwned(CreatorOf(i), i)
<1>1. i \in Indices /\ history[i] \in Seq(Users) /\ history[i] # <<>>
  BY TypeInvFacts DEF TypeInv, TypeOK, MintedIndices
<1>2. /\ DOMAIN history[i] = 1 .. Len(history[i])
      /\ Len(history[i]) \in Nat \ {0}
      /\ \A k \in 1 .. Len(history[i]) : history[i][k] \in Users
  BY <1>1, EmptySeq, LenProperties, ElementOfSeq
<1>3. QED  BY <1>2 DEF OwnerOf, CreatorOf, HasOwned

LEMMA OwnersOfRange ==
  ASSUME TypeInv, NEW first \in Nat, NEW last \in Nat, last <= minted
  PROVE  /\ OwnersFrom(first, last) \in Rows
         /\ DOMAIN OwnersFrom(first, last) = first .. last - 1
         /\ first .. last - 1 \subseteq MintedIndices
         /\ RowsWereOwned(OwnersFrom(first, last))
<1>1. first .. last - 1 \subseteq MintedIndices
  BY TypeInvFacts DEF MintedIndices
<1>2. DOMAIN OwnersFrom(first, last) = first .. last - 1
  BY DEF OwnersFrom
<1>3. \A i \in first .. last - 1 : /\ OwnersFrom(first, last)[i] = OwnerOf(i)
                                   /\ OwnerOf(i) \in Users
                                   /\ HasOwned(OwnerOf(i), i)
  BY <1>1, MintedHaveOwners DEF OwnersFrom
<1>4. OwnersFrom(first, last) \in [first .. last - 1 -> Users]
  BY <1>3 DEF OwnersFrom
<1>5. QED
  BY <1>1, <1>2, <1>3, <1>4, TypeInvFacts, RowsAreFunctions DEF RowsWereOwned

\* Nothing on chain is taken back.
LEMMA ChainGrows ==
  ASSUME TypeInv, [Next]_vars
  PROVE  /\ minted' \in 0 .. MaxMinted /\ minted <= minted'
         /\ history' \in [Indices -> Seq(Users)]
         /\ \A i \in Indices : history'[i] # <<>> <=> i < minted'
         /\ \A i \in MintedIndices : \A u : HasOwned(u, i) => HasOwned(u, i)'
<1>1. CASE CreateWallet
  <2>1. PICK u \in Users : history' = [history EXCEPT ![minted] = <<u>>]
    BY <1>1 DEF CreateWallet
  <2>2. minted' = minted + 1 /\ minted < MaxMinted
    BY <1>1 DEF CreateWallet
  <2>3. <<u>> \in Seq(Users) /\ <<u>> # <<>>
    OBVIOUS
  <2>4. \A i \in Indices : history'[i] = IF i = minted THEN <<u>> ELSE history[i]
    BY <2>1, TypeInvFacts
  <2>5. QED
    BY <2>1, <2>2, <2>3, <2>4, TypeInvFacts
    DEF TypeInv, TypeOK, Indices, MintedIndices, HasOwned
<1>2. CASE TransferWallet
  <2>1. PICK i \in MintedIndices, u \in Users :
          history' = [history EXCEPT ![i] = Append(@, u)]
    BY <1>2 DEF TransferWallet, MintedIndices
  <2>2. minted' = minted
    BY <1>2 DEF TransferWallet
  <2>3. history[i] \in Seq(Users) /\ history[i] # <<>>
    BY <2>1, TypeInvFacts DEF TypeInv, TypeOK, MintedIndices
  <2>4. /\ Append(history[i], u) \in Seq(Users)
        /\ Append(history[i], u) # <<>>
        /\ DOMAIN history[i] \subseteq DOMAIN Append(history[i], u)
        /\ \A k \in DOMAIN history[i] : Append(history[i], u)[k] = history[i][k]
    BY <2>3, AppendProperties, LenProperties
  <2>5. \A k \in Indices :
          history'[k] = IF k = i THEN Append(history[i], u) ELSE history[k]
    BY <2>1, TypeInvFacts
  <2>6. \A k \in MintedIndices : \A w : HasOwned(w, k) => HasOwned(w, k)'
    BY <2>4, <2>5, TypeInvFacts DEF HasOwned
  <2>7. QED
    BY <2>1, <2>2, <2>3, <2>4, <2>5, <2>6, TypeInvFacts
    DEF TypeInv, TypeOK, Indices, MintedIndices
<1>3. CASE UNCHANGED <<minted, history>>
  BY <1>3, TypeInvFacts DEF TypeInv, TypeOK, HasOwned
<1>4. QED
  BY <1>1, <1>2, <1>3
  DEF Next, vars, Chain, Serve, RunJob, HandleWalletCreatedEvent, GetCurrentNftIndex,
      GetMichiNFTOwnerBatched, BackfillMissingWalletCreates, SetMichiWallet,
      GetOwnedMichiWallets, GetWalletNFTs, SetOwnedWallets, Fail,
      ProcessChainMichiPoints, JobGetCurrentNftIndex, JobGetMichiNFTOwnerBatched,
      JobBackfillMissingWalletCreates, GetWalletsByIndex, SyncWalletOwners, SetOwners,
      FailJob, RestartProcessing

LEMMA Upserting ==
  ASSUME TypeInv, minted' = minted, NEW rows \in Rows, wallets' = Upserted(rows),
         DOMAIN rows \subseteq MintedIndices
  PROVE  /\ wallets' \in Rows
         /\ Registered' \subseteq MintedIndices'
         /\ Registered' = Registered \cup DOMAIN rows
         /\ \A i \in Registered' :
              wallets'[i] = IF i \in DOMAIN rows THEN rows[i] ELSE wallets[i]
<1>1. wallets \in Rows /\ Registered \subseteq MintedIndices
  BY TypeInvFacts
<1>2. Registered' = DOMAIN wallets'
  BY DEF Registered
<1>3. MintedIndices' = MintedIndices
  BY DEF MintedIndices
<1>4. QED  BY <1>1, <1>2, <1>3, UpsertedIsRows

\* Two facts to carry what is not touched over a step.
LEMMA KeepHandlers ==
  ASSUME TypeInv, UNCHANGED proc, minted' \in Nat, minted <= minted'
  PROVE  HandlersOK'
<1>1. \A p \in Procs : proc[p] \in Handler /\ HandlerOK(proc[p])
  BY TypeInvFacts DEF HandlersOK
<1>2. ASSUME NEW h \in Handler, HandlerOK(h)
      PROVE  HandlerOK(h)'
  BY <1>2, TypeInvFacts DEF HandlerOK, Handler, MintedIndices, Indices
<1>3. QED  BY <1>1, <1>2 DEF HandlersOK, HandlerOK

LEMMA KeepJob ==
  ASSUME TypeInv, UNCHANGED job, minted' \in Nat, minted <= minted',
         Registered \subseteq Registered'
  PROVE  JobOK'
BY TypeInvFacts DEF JobOK, Job, MintedIndices

\* One handler moves, in a state with as many wallets minted.
LEMMA MoveHandler ==
  ASSUME TypeInv, minted' = minted, NEW p \in Procs,
         proc' = [proc EXCEPT ![p] = proc'[p]],
         proc'[p] \in Handler, HandlerOK(proc'[p])
  PROVE  proc' \in [Procs -> Handler] /\ HandlersOK'
<1>1. \A q \in Procs : HandlerOK(proc[q])
  BY TypeInvFacts DEF HandlersOK
<1>2. \A q \in Procs : q # p => proc'[q] = proc[q]
  BY TypeInvFacts
<1>3. \A q \in Procs : HandlerOK(proc'[q])
  BY <1>1, <1>2
<1>4. QED
  BY <1>3, TypeInvFacts DEF HandlersOK, HandlerOK, MintedIndices

LEMMA IdleOK == Idle \in Handler /\ HandlerOK(Idle)
BY NoRowsAreRows, RegistryAssumption
DEF Idle, Handler, HandlerOK, EventSteps, NoRows

----------------------------------------------------------------------------
(* Types.                                                                  *)

LEMMA TypeInvInit == Init => TypeInv
<1> SUFFICES ASSUME Init PROVE TypeInv
  OBVIOUS
<1>1. TypeOK
  <2>1. /\ minted \in 0 .. MaxMinted
        /\ history \in [Indices -> Seq(Users)]
        /\ \A i \in Indices : history[i] # <<>> <=> i < minted
    BY RegistryAssumption DEF Init, Indices
  <2>2. wallets \in Rows /\ proc \in [Procs -> Handler]
    BY NoRowsAreRows, IdleOK DEF Init
  <2>3. job \in Job
    <3>1. IdleJob \in Job
      BY NoRowsAreRows, RegistryAssumption DEF IdleJob, Job
    <3>2. QED  BY <3>1 DEF Init
  <2>4. delivered = {} /\ jumped \in BOOLEAN /\ faults \in 0 .. MaxFaults
    <3>1. delivered = {} /\ jumped = FALSE /\ faults = 0
      BY DEF Init
    <3>2. 0 \in 0 .. MaxFaults
      BY RegistryAssumption
    <3>3. QED  BY <3>1, <3>2
  <2>5. QED  BY <2>1, <2>2, <2>3, <2>4 DEF TypeOK
<1>2. Registered \subseteq MintedIndices
  BY NoRowsAreRows DEF Init, Registered
<1>3. HandlersOK
  BY IdleOK DEF Init, HandlersOK
<1>4. JobOK
  BY NoRowsAreRows, RegistryAssumption DEF Init, JobOK, IdleJob
<1>5. QED  BY <1>1, <1>2, <1>3, <1>4 DEF TypeInv

\* The part of TypeOK that an action of a handler or of the job can disturb.
LEMMA TypeInvFromParts ==
  ASSUME TypeInv, UNCHANGED <<minted, history>>,
         wallets' \in Rows, Registered' \subseteq MintedIndices,
         delivered' \subseteq MintedIndices \X Sources,
         proc' \in [Procs -> Handler], HandlersOK',
         job' \in Job, JobOK',
         jumped' \in BOOLEAN, faults' \in 0 .. MaxFaults
  PROVE  TypeInv'
BY DEF TypeInv, TypeOK, MintedIndices

LEMMA ServeTypes ==
  ASSUME TypeInv, NEW p \in Procs, Serve(p)
  PROVE  TypeInv'
<1> USE RegistryAssumption
<1>0. /\ proc[p] \in Handler /\ HandlerOK(proc[p])
      /\ delivered \subseteq MintedIndices \X Sources
      /\ jumped \in BOOLEAN /\ faults \in 0 .. MaxFaults
      /\ UNCHANGED <<minted, history, job>>
  BY TypeInvFacts
  DEF HandlersOK, TypeInv, TypeOK, MintedIndices, Serve, HandleWalletCreatedEvent,
      GetCurrentNftIndex, GetMichiNFTOwnerBatched, BackfillMissingWalletCreates,
      SetMichiWallet, GetOwnedMichiWallets, GetWalletNFTs, SetOwnedWallets, Fail
<1>1. ASSUME UNCHANGED wallets, proc' = [proc EXCEPT ![p] = proc'[p]],
             proc'[p] \in Handler, HandlerOK(proc'[p]),
             delivered' \subseteq MintedIndices \X Sources,
             jumped' \in BOOLEAN, faults' \in 0 .. MaxFaults
      PROVE  TypeInv'
  <2>1. Registered' = Registered
    BY <1>1 DEF Registered
  <2>2. JobOK'
    BY <1>0, <2>1, KeepJob, TypeInvFacts
  <2>3. proc' \in [Procs -> Handler] /\ HandlersOK'
    BY <1>0, <1>1, MoveHandler
  <2>4. QED  BY <1>0, <1>1, <2>1, <2>2, <2>3, TypeInvFacts, TypeInvFromParts
<1>2. ASSUME NEW rows \in Rows, wallets' = Upserted(rows),
             DOMAIN rows \subseteq MintedIndices,
             proc' = [proc EXCEPT ![p] = proc'[p]],
             proc'[p] \in Handler, HandlerOK(proc'[p]),
             UNCHANGED delivered, jumped' \in BOOLEAN, UNCHANGED faults
      PROVE  TypeInv'
  <2>1. /\ wallets' \in Rows /\ Registered' \subseteq MintedIndices
        /\ Registered \subseteq Registered'
    BY <1>0, <1>2, Upserting DEF MintedIndices
  <2>2. JobOK'
    BY <1>0, <2>1, KeepJob, TypeInvFacts
  <2>3. proc' \in [Procs -> Handler] /\ HandlersOK'
    BY <1>0, <1>2, MoveHandler
  <2>4. QED  BY <1>0, <1>2, <2>1, <2>2, <2>3, TypeInvFacts, TypeInvFromParts
<1>3. CASE HandleWalletCreatedEvent(p)
  <2>1. PICK i \in MintedIndices, source \in Sources :
          /\ delivered' = delivered \cup {<<i, source>>}
          /\ proc' = [proc EXCEPT ![p] = [Idle EXCEPT !.pc = "getCurrentIndex",
                                                      !.source = source, !.index = i]]
    BY <1>3 DEF HandleWalletCreatedEvent, MintedIndices
  <2>2. proc'[p] = [Idle EXCEPT !.pc = "getCurrentIndex", !.source = source, !.index = i]
    BY <2>1, TypeInvFacts
  <2>3. proc'[p] = [pc |-> "getCurrentIndex", source |-> source, index |-> i,
                    from |-> 0, user |-> None, rows |-> NoRows]
    BY <2>2 DEF Idle
  <2>4. i \in Indices /\ i < minted /\ source \in {"webhook", "listener"} /\ 0 \in 0 .. MaxMinted
    BY TypeInvFacts DEF MintedIndices
  <2>5. proc'[p] \in Handler
    BY <2>3, <2>4, NoRowsAreRows DEF Handler
  <2>6. HandlerOK(proc'[p])
    BY <2>3, <2>4, NoRowsAreRows DEF HandlerOK
  <2>7. UNCHANGED <<wallets, jumped, faults>>
    BY <1>3 DEF HandleWalletCreatedEvent
  <2>8. delivered' \subseteq MintedIndices \X Sources
    BY <1>0, <2>1
  <2>9. proc' = [proc EXCEPT ![p] = proc'[p]]
    BY <2>1, <2>2
  <2>10. QED  BY <1>0, <1>1, <2>5, <2>6, <2>7, <2>8, <2>9
<1>4. CASE GetCurrentNftIndex(p)
  <2>1. PICK current \in Registered \cup {-1} :
          proc' = [proc EXCEPT ![p] =
            IF @.index > current + 1
              THEN [@ EXCEPT !.pc = "getOwners", !.from = BackfillsFrom(current)]
              ELSE [@ EXCEPT !.pc = "setWallet"]]
    BY <1>4 DEF GetCurrentNftIndex
  <2>2. proc'[p] = IF proc[p].index > current + 1
              THEN [proc[p] EXCEPT !.pc = "getOwners", !.from = current + 1]
              ELSE [proc[p] EXCEPT !.pc = "setWallet"]
    BY <2>1, TypeInvFacts DEF BackfillsFrom
  <2>3. proc[p].pc = "getCurrentIndex" /\ current + 1 \in 0 .. MaxMinted
    BY <1>4, TypeInvFacts DEF GetCurrentNftIndex, MintedIndices
  <2>4. proc'[p] \in Handler
    BY <1>0, <2>2, <2>3 DEF Handler
  <2>5. HandlerOK(proc'[p])
    BY <1>0, <2>2, <2>3 DEF Handler, HandlerOK, EventSteps
  <2>6. QED  BY <1>0, <1>1, <1>4, <2>1, <2>2, <2>4, <2>5 DEF GetCurrentNftIndex
<1>5. CASE GetMichiNFTOwnerBatched(p)
  <2> DEFINE rows == OwnersFrom(proc[p].from, proc[p].index)
  <2>1. proc[p].pc = "getOwners" /\ proc[p].from \in Nat /\ proc[p].index \in Nat
    BY <1>0, <1>5, TypeInvFacts DEF GetMichiNFTOwnerBatched, Handler, Indices
  <2>2. proc[p].index < minted
    BY <1>0, <2>1 DEF HandlerOK, EventSteps
  <2>3. /\ rows \in Rows /\ DOMAIN rows \subseteq MintedIndices
        /\ DOMAIN rows = proc[p].from .. proc[p].index - 1
    BY <2>1, <2>2, OwnersOfRange, TypeInvFacts
  <2> HIDE DEF rows
  <2>4. proc' = [proc EXCEPT ![p].pc = "backfill", ![p].rows = rows]
    BY <1>5 DEF GetMichiNFTOwnerBatched, rows
  <2>5. proc'[p] = [proc[p] EXCEPT !.pc = "backfill", !.rows = rows]
    BY <2>4, TypeInvFacts
  <2>6. proc'[p] \in Handler /\ HandlerOK(proc'[p])
    BY <1>0, <2>1, <2>2, <2>3, <2>5 DEF Handler, HandlerOK, EventSteps
  <2>7. QED  BY <1>0, <1>1, <1>5, <2>4, <2>5, <2>6 DEF GetMichiNFTOwnerBatched
<1>6. CASE BackfillMissingWalletCreates(p)
  <2>1. /\ proc[p].pc = "backfill"
        /\ proc' = [proc EXCEPT ![p].pc = "setWallet", ![p].rows = NoRows]
        /\ wallets' = Upserted(proc[p].rows)
    BY <1>6 DEF BackfillMissingWalletCreates
  <2>2. proc'[p] = [proc[p] EXCEPT !.pc = "setWallet", !.rows = NoRows]
    BY <2>1, TypeInvFacts
  <2>3. proc'[p] \in Handler /\ HandlerOK(proc'[p])
    <3>1. /\ proc'[p].pc = "setWallet" /\ proc'[p].rows = NoRows
          /\ proc'[p].index = proc[p].index
          /\ proc'[p] \in Handler
      BY <1>0, <2>2, NoRowsAreRows DEF Handler
    <3>2. proc[p].index < minted
      BY <1>0, <2>1 DEF HandlerOK, EventSteps
    <3>3. QED  BY <3>1, <3>2, NoRowsAreRows DEF HandlerOK
  <2>4. proc[p].rows \in Rows /\ DOMAIN proc[p].rows \subseteq MintedIndices
    BY <1>0 DEF Handler, HandlerOK
  <2>5. QED
    BY <1>0, <1>2, <1>6, <2>1, <2>2, <2>3, <2>4 DEF BackfillMissingWalletCreates
<1>7. CASE SetMichiWallet(p)
  <2> DEFINE i == proc[p].index
             rows == [k \in {i} |-> CreatorOf(i)]
  <2>1. i \in MintedIndices
    BY <1>0, <1>7, TypeInvFacts
    DEF SetMichiWallet, HandlerOK, EventSteps, MintedIndices, Handler, Indices
  <2>2. rows \in Rows /\ DOMAIN rows \subseteq MintedIndices
    BY <2>1, MintedHaveOwners, RowsAreFunctions, TypeInvFacts
  <2>3. wallets' = Upserted(rows) /\ proc' = [proc EXCEPT ![p] = Idle]
    BY <1>7 DEF SetMichiWallet
  <2> HIDE DEF rows
  <2>4. proc'[p] = Idle
    BY <2>3, TypeInvFacts
  <2>5. QED  BY <1>0, <1>2, <1>7, <2>2, <2>3, <2>4, IdleOK DEF SetMichiWallet
<1>8. CASE GetOwnedMichiWallets(p)
  <2>1. PICK u \in Users :
          proc' = [proc EXCEPT ![p] = [Idle EXCEPT !.pc = "getNFTs", !.user = u]]
    BY <1>8 DEF GetOwnedMichiWallets
  <2>2. proc'[p] = [Idle EXCEPT !.pc = "getNFTs", !.user = u]
    BY <2>1, TypeInvFacts
  <2>3. proc'[p] \in Handler /\ HandlerOK(proc'[p])
    BY <2>2, IdleOK, NoRowsAreRows DEF Idle, Handler, HandlerOK, EventSteps
  <2>4. QED  BY <1>0, <1>1, <1>8, <2>1, <2>2, <2>3 DEF GetOwnedMichiWallets
<1>9. CASE GetWalletNFTs(p)
  <2> DEFINE rows == GenerateFreshWalletData(proc[p].user)
  <2>1. proc[p].pc = "getNFTs" /\ proc[p].user \in Users
    BY <1>0, <1>9 DEF GetWalletNFTs, HandlerOK
  <2>2. rows \in Rows /\ DOMAIN rows \subseteq MintedIndices
    <3>1. /\ DOMAIN rows \subseteq MintedIndices
          /\ rows \in [DOMAIN rows -> Users]
      BY <2>1 DEF GenerateFreshWalletData, MintedIndices
    <3>2. QED  BY <3>1, RowsAreFunctions, TypeInvFacts
  <2>3. proc' = [proc EXCEPT ![p].pc = "setOwned", ![p].rows = rows]
    BY <1>9 DEF GetWalletNFTs
  <2> HIDE DEF rows
  <2>4. proc'[p] = [proc[p] EXCEPT !.pc = "setOwned", !.rows = rows]
    BY <2>3, TypeInvFacts
  <2>5. proc'[p] \in Handler /\ HandlerOK(proc'[p])
    BY <1>0, <2>1, <2>2, <2>4 DEF Handler, HandlerOK, EventSteps
  <2>6. QED  BY <1>0, <1>1, <1>9, <2>3, <2>4, <2>5 DEF GetWalletNFTs
<1>10. CASE SetOwnedWallets(p)
  <2>1. /\ wallets' = Upserted(proc[p].rows)
        /\ proc' = [proc EXCEPT ![p] = Idle]
        /\ jumped' \in BOOLEAN
    BY <1>0, <1>10 DEF SetOwnedWallets
  <2>2. proc'[p] = Idle
    BY <2>1, TypeInvFacts
  <2>3. proc[p].rows \in Rows /\ DOMAIN proc[p].rows \subseteq MintedIndices
    BY <1>0 DEF Handler, HandlerOK
  <2>4. QED  BY <1>0, <1>2, <1>10, <2>1, <2>2, <2>3, IdleOK DEF SetOwnedWallets
<1>11. CASE Fail(p)
  <2>1. proc' = [proc EXCEPT ![p] = Idle] /\ proc'[p] = Idle
    BY <1>11, TypeInvFacts DEF Fail
  <2>2. faults' \in 0 .. MaxFaults
    BY <1>0, <1>11 DEF Fail
  <2>3. QED  BY <1>0, <1>1, <1>11, <2>1, <2>2, IdleOK DEF Fail
<1>12. QED
  BY <1>3, <1>4, <1>5, <1>6, <1>7, <1>8, <1>9, <1>10, <1>11 DEF Serve

\* A row of a batch is given the owner of a minted wallet, whatever gaps
\* there are: no more rows come before it than indices.
LEMMA PlaceInBatch ==
  ASSUME NEW from \in Nat, NEW batch \in SUBSET Nat, \A k \in batch : from <= k,
         NEW i \in batch
  PROVE  /\ Cardinality({k \in batch : k < i}) \in 0 .. i - from
         /\ {k \in batch : k < i} = from .. i - 1
              => Cardinality({k \in batch : k < i}) = i - from
<1> DEFINE before == {k \in batch : k < i}
<1>1. /\ i \in Nat /\ from <= i
      /\ before \subseteq from .. i - 1
  <2>1. \A k \in batch : k \in Nat /\ from <= k
    OBVIOUS
  <2>2. i \in Nat /\ from <= i
    BY <2>1
  <2>3. \A k \in before : k \in from .. i - 1
    BY <2>1, <2>2
  <2>4. QED  BY <2>2, <2>3
<1>2. IsFiniteSet(from .. i - 1) /\ Cardinality(from .. i - 1) = i - from
  <2>1. from \in Int /\ i - 1 \in Int
    BY <1>1
  <2>2. /\ IsFiniteSet(from .. i - 1)
        /\ Cardinality(from .. i - 1) = IF from > i - 1 THEN 0 ELSE i - 1 - from + 1
    BY <2>1, FS_Interval
  <2>3. QED  BY <1>1, <2>2
<1>3. IsFiniteSet(before) /\ Cardinality(before) <= i - from
  BY <1>1, <1>2, FS_Subset
<1>4. Cardinality(before) \in Nat
  BY <1>3, FS_CardinalityType
<1>5. Cardinality(before) \in 0 .. i - from
  BY <1>1, <1>3, <1>4
<1>6. before = from .. i - 1 => Cardinality(before) = i - from
  BY <1>2
<1>7. QED  BY <1>5, <1>6

LEMMA RunJobTypes ==
  ASSUME TypeInv, RunJob
  PROVE  TypeInv'
<1> USE RegistryAssumption
<1>0. /\ job \in Job /\ JobOK
      /\ delivered \subseteq MintedIndices \X Sources
      /\ jumped \in BOOLEAN /\ faults \in 0 .. MaxFaults
      /\ UNCHANGED <<minted, history, delivered, proc, jumped, faults>>
  BY TypeInvFacts
  DEF TypeInv, TypeOK, MintedIndices, RunJob, ProcessChainMichiPoints,
      JobGetCurrentNftIndex, JobGetMichiNFTOwnerBatched,
      JobBackfillMissingWalletCreates, GetWalletsByIndex, SyncWalletOwners, SetOwners
<1>1. proc' \in [Procs -> Handler] /\ HandlersOK'
  BY <1>0, KeepHandlers, TypeInvFacts
<1>2. ASSUME wallets' \in Rows, Registered' \subseteq MintedIndices, job' \in Job, JobOK'
      PROVE  TypeInv'
  BY <1>0, <1>1, <1>2, TypeInvFromParts
<1>3. ASSUME UNCHANGED wallets, job' \in Job, JobOK'
      PROVE  TypeInv'
  BY <1>2, <1>3, TypeInvFacts DEF Registered
<1>4. IdleJob \in Job /\ IdleJob.rows = NoRows /\ IdleJob.batch = {}
  BY NoRowsAreRows DEF IdleJob, Job
<1>5. CASE ProcessChainMichiPoints
  <2>1. job' = [IdleJob EXCEPT !.pc = "getCurrentIndex", !.minted = minted]
        /\ UNCHANGED wallets
    BY <1>5 DEF ProcessChainMichiPoints
  <2>2. job' = [pc |-> "getCurrentIndex", minted |-> minted, from |-> 0, batch |-> {},
                rows |-> NoRows]
    BY <2>1 DEF IdleJob
  <2>3. job' \in Job
    BY <2>2, NoRowsAreRows, TypeInvFacts DEF Job
  <2>4. JobOK'
    BY <1>0, <2>2, NoRowsAreRows, TypeInvFacts DEF JobOK
  <2>5. QED  BY <1>3, <2>1, <2>3, <2>4
<1>6. CASE JobGetCurrentNftIndex
  <2>1. PICK current \in Registered \cup {-1} :
          job' = IF current < job.minted - 1
                   THEN [job EXCEPT !.pc = "getOwners", !.from = current + 1]
                   ELSE [job EXCEPT !.pc = "getBatch"]
    BY <1>6 DEF JobGetCurrentNftIndex, BackfillsFrom
  <2>2. UNCHANGED wallets /\ job.pc = "getCurrentIndex"
    BY <1>6 DEF JobGetCurrentNftIndex
  <2>3. current + 1 \in 0 .. MaxMinted /\ Registered' = Registered
    <3>1. current + 1 \in 0 .. MaxMinted
      BY TypeInvFacts DEF MintedIndices
    <3>2. QED  BY <2>2, <3>1 DEF Registered
  <2>4. job' \in Job
    <3>1. current + 1 \in 0 .. MaxMinted + BatchSize
      BY <2>3
    <3>2. [job EXCEPT !.pc = "getOwners", !.from = current + 1] \in Job
      BY <1>0, <3>1 DEF Job
    <3>3. [job EXCEPT !.pc = "getBatch"] \in Job
      BY <1>0 DEF Job
    <3>4. QED  BY <2>1, <3>2, <3>3
  <2>5. /\ job'.minted = job.minted /\ job'.rows = job.rows /\ job'.batch = job.batch
        /\ job'.pc \in {"getOwners", "getBatch"}
        /\ job'.pc = "getOwners" => job'.from = current + 1
    BY <1>0, <2>1 DEF Job
  <2>6. job'.batch = {}
    BY <1>0, <2>2, <2>5 DEF JobOK
  <2>7. JobOK'
    BY <1>0, <2>3, <2>5, <2>6, TypeInvFacts DEF JobOK, MintedIndices
  <2>8. QED  BY <1>3, <2>2, <2>4, <2>7
<1>7. CASE JobGetMichiNFTOwnerBatched
  <2> DEFINE rows == OwnersFrom(job.from, job.minted)
  <2>1. /\ job.pc = "getOwners" /\ UNCHANGED wallets
        /\ job' = [job EXCEPT !.pc = "backfill", !.rows = rows]
    BY <1>7 DEF JobGetMichiNFTOwnerBatched
  <2>2. /\ job.from \in Nat /\ job.minted \in Nat /\ job.minted <= minted
        /\ job.from <= MaxMinted /\ job.batch = {}
    BY <1>0, <2>1, TypeInvFacts DEF Job, JobOK
  <2>3. /\ rows \in Rows /\ DOMAIN rows \subseteq MintedIndices
        /\ DOMAIN rows = job.from .. job.minted - 1
    BY <2>2, OwnersOfRange
  <2> HIDE DEF rows
  <2>4. job' \in Job
    BY <1>0, <2>1, <2>3 DEF Job
  <2>5. /\ job'.minted = job.minted /\ job'.rows = rows /\ job'.batch = {}
        /\ job'.pc = "backfill" /\ job'.from = job.from
    BY <1>0, <2>1, <2>2 DEF Job
  <2>6. JobOK'
    BY <1>0, <2>2, <2>3, <2>5 DEF JobOK, MintedIndices
  <2>7. QED  BY <1>3, <2>1, <2>4, <2>6
<1>8. CASE JobBackfillMissingWalletCreates
  <2>1. /\ job.pc = "backfill" /\ wallets' = Upserted(job.rows)
        /\ job' = [job EXCEPT !.pc = "getBatch", !.from = 0, !.rows = NoRows]
    BY <1>8 DEF JobBackfillMissingWalletCreates
  <2>2. /\ wallets' \in Rows /\ Registered' \subseteq MintedIndices
    <3>1. job.rows \in Rows /\ DOMAIN job.rows \subseteq MintedIndices
      BY <1>0 DEF Job, JobOK
    <3>2. minted' = minted /\ MintedIndices' = MintedIndices
      BY <1>0 DEF MintedIndices
    <3>3. QED  BY <2>1, <3>1, <3>2, Upserting
  <2>3. job' \in Job
    <3>1. 0 \in 0 .. MaxMinted + BatchSize
      OBVIOUS
    <3>2. QED  BY <1>0, <2>1, <3>1, NoRowsAreRows DEF Job
  <2>4. /\ job'.minted = job.minted /\ job'.rows = NoRows /\ job'.batch = job.batch
        /\ job'.pc = "getBatch" /\ job'.from = 0
    BY <1>0, <2>1 DEF Job
  <2>5. job.batch = {}
    BY <1>0, <2>1 DEF JobOK
  <2>6. JobOK'
    BY <1>0, <2>4, <2>5, NoRowsAreRows DEF JobOK
  <2>7. QED  BY <1>2, <2>2, <2>3, <2>6
<1>9. CASE GetWalletsByIndex
  <2>1. /\ UNCHANGED wallets
        /\ \/ job' = IdleJob
           \/ /\ BatchAt(job.from) # {}
              /\ job' = [job EXCEPT !.pc = "syncOwners", !.batch = BatchAt(job.from)]
    BY <1>9 DEF GetWalletsByIndex
  <2>2. Registered' = Registered
    BY <2>1 DEF Registered
  <2>3. CASE job' = IdleJob
    <3>1. JobOK'
      BY <1>0, <2>3, NoRowsAreRows, TypeInvFacts DEF JobOK, IdleJob
    <3>2. QED  BY <1>3, <1>4, <2>1, <2>3, <3>1
  <2>4. CASE /\ BatchAt(job.from) # {}
             /\ job' = [job EXCEPT !.pc = "syncOwners", !.batch = BatchAt(job.from)]
    <3> DEFINE batch == BatchAt(job.from)
    <3>1. batch \subseteq Registered /\ \A i \in batch : job.from <= i
      BY <1>0, TypeInvFacts DEF BatchAt, Job, MintedIndices
    <3> HIDE DEF batch
    <3>2. job.from < MaxMinted
      BY <1>0, <2>4, <3>1, TypeInvFacts DEF MintedIndices, batch, Job
    <3>3. job' = [job EXCEPT !.pc = "syncOwners", !.batch = batch]
      BY <2>4 DEF batch
    <3>4. batch \subseteq Indices
      BY <3>1, TypeInvFacts
    <3>5. job' \in Job
      BY <1>0, <3>3, <3>4 DEF Job
    <3>6. /\ job'.minted = job.minted /\ job'.rows = job.rows /\ job'.batch = batch
          /\ job'.pc = "syncOwners" /\ job'.from = job.from
      BY <1>0, <3>3 DEF Job
    <3>7. JobOK'
      BY <1>0, <2>2, <3>1, <3>2, <3>6 DEF JobOK, MintedIndices
    <3>8. QED  BY <1>3, <2>1, <3>5, <3>7
  <2>5. QED  BY <2>1, <2>3, <2>4
<1>10. CASE SyncWalletOwners
  <2> DEFINE rows == [i \in job.batch |-> SyncedOwner(i)]
  <2>1. /\ job.pc = "syncOwners" /\ UNCHANGED wallets
        /\ job' = [job EXCEPT !.pc = "setOwners", !.rows = rows]
    BY <1>10 DEF SyncWalletOwners
  <2>2. job.batch \subseteq MintedIndices /\ \A i \in job.batch : job.from <= i
    BY <1>0, TypeInvFacts DEF JobOK
  <2>3. ASSUME NEW i \in job.batch
        PROVE  SyncedOwner(i) \in Users
    <3>1. Cardinality({k \in job.batch : k < i}) \in 0 .. i - job.from
      <4>1. job.from \in Nat /\ job.batch \in SUBSET Nat
        BY <1>0, <2>2, RegistryAssumption, TypeInvFacts DEF Job
      <4>2. QED  BY <2>2, <4>1, PlaceInBatch
    <3>2. job.from + Cardinality({k \in job.batch : k < i}) \in MintedIndices
      BY <1>0, <2>2, <3>1, TypeInvFacts DEF Job, MintedIndices
    <3>3. QED  BY <3>2, MintedHaveOwners DEF SyncedOwner
  <2>4. rows \in Rows /\ DOMAIN rows = job.batch
    BY <2>2, <2>3, RowsAreFunctions, TypeInvFacts
  <2> HIDE DEF rows
  <2>5. job' \in Job
    BY <1>0, <2>1, <2>4 DEF Job
  <2>6. /\ job'.minted = job.minted /\ job'.rows = rows /\ job'.batch = job.batch
        /\ job'.pc = "setOwners" /\ job'.from = job.from
    BY <1>0, <2>1 DEF Job
  <2>7. Registered' = Registered
    BY <2>1 DEF Registered
  <2>8. JobOK'
    BY <1>0, <2>1, <2>2, <2>4, <2>6, <2>7 DEF JobOK, MintedIndices
  <2>9. QED  BY <1>3, <2>1, <2>5, <2>8
<1>11. CASE SetOwners
  <2>1. /\ job.pc = "setOwners" /\ wallets' = Upserted(job.rows)
        /\ job' = [job EXCEPT !.pc = "getBatch", !.from = job.from + BatchSize,
                              !.batch = {}, !.rows = NoRows]
    BY <1>11 DEF SetOwners, NextBatch
  <2>2. wallets' \in Rows /\ Registered' \subseteq MintedIndices
    <3>1. job.rows \in Rows /\ DOMAIN job.rows \subseteq MintedIndices
      BY <1>0 DEF Job, JobOK
    <3>2. minted' = minted /\ MintedIndices' = MintedIndices
      BY <1>0 DEF MintedIndices
    <3>3. QED  BY <2>1, <3>1, <3>2, Upserting
  <2>3. job.from < MaxMinted
    BY <1>0, <2>1 DEF JobOK
  <2>4. job.from + BatchSize \in 0 .. MaxMinted + BatchSize
    BY <1>0, <2>3 DEF Job
  <2>5. job' \in Job
    BY <1>0, <2>1, <2>4, NoRowsAreRows DEF Job
  <2>6. /\ job'.minted = job.minted /\ job'.rows = NoRows /\ job'.batch = {}
        /\ job'.pc = "getBatch"
    BY <1>0, <2>1 DEF Job
  <2>7. JobOK'
    BY <1>0, <2>6, NoRowsAreRows DEF JobOK
  <2>8. QED  BY <1>2, <2>2, <2>5, <2>7
<1>12. QED
  BY <1>5, <1>6, <1>7, <1>8, <1>9, <1>10, <1>11 DEF RunJob

LEMMA IdleJobOK ==
  ASSUME TypeInv, UNCHANGED minted
  PROVE  IdleJob \in Job /\ (job' = IdleJob => JobOK')
<1>1. IdleJob \in Job
  BY NoRowsAreRows, RegistryAssumption DEF IdleJob, Job
<1>2. job' = IdleJob => JobOK'
  BY NoRowsAreRows, TypeInvFacts DEF IdleJob, JobOK
<1>3. QED  BY <1>1, <1>2

LEMMA TypeInvStep == TypeInv /\ [Next]_vars => TypeInv'
<1> SUFFICES ASSUME TypeInv, [Next]_vars PROVE TypeInv'
  OBVIOUS
<1>0. /\ delivered \subseteq MintedIndices \X Sources
      /\ jumped \in BOOLEAN /\ faults \in 0 .. MaxFaults
  BY DEF TypeInv, TypeOK, MintedIndices
<1>1. CASE Chain
  <2>1. UNCHANGED <<wallets, delivered, proc, job, jumped, faults>>
    BY <1>1 DEF Chain, CreateWallet, TransferWallet
  <2>2. MintedIndices \subseteq MintedIndices' /\ minted' \in Nat
    BY ChainGrows, TypeInvFacts DEF MintedIndices
  <2>3. Registered' = Registered
    BY <2>1 DEF Registered
  <2>4. HandlersOK' /\ JobOK'
    BY <2>1, <2>2, <2>3, ChainGrows, KeepHandlers, KeepJob
  <2>5. TypeOK'
    BY <1>0, <2>1, <2>2, ChainGrows DEF TypeInv, TypeOK, MintedIndices
  <2>6. QED  BY <2>2, <2>3, <2>4, <2>5, TypeInvFacts DEF TypeInv
<1>2. CASE \E p \in Procs : Serve(p)
  BY <1>2, ServeTypes
<1>3. CASE RunJob
  BY <1>3, RunJobTypes
<1>4. CASE FailJob
  <2>1. /\ UNCHANGED <<minted, history, wallets, delivered, proc, jumped>>
        /\ job' = IdleJob /\ faults' \in 0 .. MaxFaults
    BY <1>0, <1>4, RegistryAssumption DEF FailJob
  <2>2. Registered' = Registered
    BY <2>1 DEF Registered
  <2>3. HandlersOK'
    BY <2>1, KeepHandlers, TypeInvFacts
  <2>4. QED  BY <1>0, <2>1, <2>2, <2>3, IdleJobOK, TypeInvFacts, TypeInvFromParts
<1>5. CASE RestartProcessing
  <2>1. /\ UNCHANGED <<minted, history, wallets, delivered, jumped>>
        /\ job' = IdleJob /\ faults' \in 0 .. MaxFaults
    BY <1>0, <1>5, RegistryAssumption DEF RestartProcessing
  <2>2. Registered' = Registered
    BY <2>1 DEF Registered
  <2>3. \A p \in Procs : proc'[p] \in {Idle, proc[p]}
    BY <1>5, TypeInvFacts DEF RestartProcessing
  <2>4. proc' \in [Procs -> Handler]
    BY <1>5, <2>3, IdleOK, TypeInvFacts DEF RestartProcessing
  <2>5. \A p \in Procs : HandlerOK(proc'[p])
    BY <2>3, IdleOK, TypeInvFacts DEF HandlersOK
  <2>6. HandlersOK'
    BY <2>1, <2>5 DEF HandlersOK, HandlerOK, MintedIndices
  <2>7. QED  BY <1>0, <2>1, <2>2, <2>4, <2>6, IdleJobOK, TypeInvFacts, TypeInvFromParts
<1>6. CASE UNCHANGED vars
  BY <1>6 DEF vars, TypeInv, TypeOK, Registered, MintedIndices, HandlersOK, HandlerOK, JobOK
<1>7. QED  BY <1>1, <1>2, <1>3, <1>4, <1>5, <1>6 DEF Next

\* The registry is well typed: the job's loop ends within a batch of the
\* last index, handlers hold rows of minted wallets only, and the job never
\* asks for the owner of a wallet that was not minted.
THEOREM TypeCorrect == Spec => []TypeOK
<1>1. TypeInv => TypeOK
  BY DEF TypeInv
<1>2. QED  BY <1>1, TypeInvInit, TypeInvStep, PTL DEF Spec

----------------------------------------------------------------------------
(* Gaps.                                                                   *)

LEMMA GapInvInit == Init => GapInv
BY NoRowsAreRows DEF Init, GapInv, Contiguous, Registered, Idle, IdleJob

\* Rows are added and never removed.
LEMMA RegisteredGrows ==
  ASSUME TypeInv, [Next]_vars
  PROVE  Registered \subseteq Registered'
<1>1. ASSUME NEW rows \in Rows, wallets' = Upserted(rows)
      PROVE  Registered \subseteq Registered'
  <2>1. DOMAIN Upserted(rows) = Registered \cup DOMAIN rows
    BY UpsertedIsRows, TypeInvFacts
  <2>2. QED  BY <1>1, <2>1 DEF Registered
<1>2. ASSUME UNCHANGED wallets
      PROVE  Registered \subseteq Registered'
  BY <1>2 DEF Registered
<1>3. ASSUME NEW p \in Procs, Serve(p)
      PROVE  Registered \subseteq Registered'
  <2>1. proc[p].rows \in Rows
    BY TypeInvFacts DEF Handler
  <2>2. CASE SetMichiWallet(p)
    <3> DEFINE i == proc[p].index
               rows == [k \in {i} |-> CreatorOf(i)]
    <3>1. i \in MintedIndices
      BY <2>2, TypeInvFacts
      DEF SetMichiWallet, HandlersOK, HandlerOK, EventSteps, MintedIndices, Handler, Indices
    <3>2. rows \in Rows
      BY <3>1, MintedHaveOwners, RowsAreFunctions, TypeInvFacts
    <3>3. wallets' = Upserted(rows)
      BY <2>2 DEF SetMichiWallet
    <3>4. QED  BY <1>1, <3>2, <3>3
  <2>3. CASE ~SetMichiWallet(p)
    BY <1>1, <1>2, <1>3, <2>1, <2>3
    DEF Serve, HandleWalletCreatedEvent, GetCurrentNftIndex, GetMichiNFTOwnerBatched,
        BackfillMissingWalletCreates, GetOwnedMichiWallets, GetWalletNFTs,
        SetOwnedWallets, Fail
  <2>4. QED  BY <2>2, <2>3
<1>4. job.rows \in Rows
  BY TypeInvFacts DEF Job
<1>5. CASE RunJob
  BY <1>1, <1>2, <1>4, <1>5
  DEF RunJob, ProcessChainMichiPoints, JobGetCurrentNftIndex,
      JobGetMichiNFTOwnerBatched, JobBackfillMissingWalletCreates, GetWalletsByIndex,
      SyncWalletOwners, SetOwners
<1>6. CASE Chain \/ FailJob \/ RestartProcessing \/ UNCHANGED vars
  BY <1>2, <1>6 DEF Chain, CreateWallet, TransferWallet, FailJob, RestartProcessing, vars
<1>7. QED  BY <1>3, <1>5, <1>6 DEF Next

\* Without gaps, the index after the greatest one has everything below it.
LEMMA FilledBelowCurrent ==
  ASSUME TypeInv, Contiguous, NEW m \in Registered \cup {-1}, NEW n \in Int, n <= m + 1
  PROVE  FilledBelow(n)
<1>1. Registered \subseteq Nat
  BY TypeInvFacts
<1>2. ASSUME NEW k \in 0 .. n - 1
      PROVE  k \in Registered
  <2>1. m # -1 /\ (k = m \/ k \in 0 .. m - 1)
    BY <1>1, <1>2
  <2>2. QED  BY <2>1 DEF Contiguous
<1>3. QED  BY <1>2 DEF FilledBelow

\* Adding a range, or one index, on top of a table filled below it leaves no gap.
LEMMA FillingRange ==
  ASSUME TypeInv, Contiguous, NEW first \in Nat, NEW last \in Nat, FilledBelow(first),
         Registered' = Registered \cup (first .. last - 1)
  PROVE  Contiguous' /\ FilledBelow(last)'
<1>1. \A k \in 0 .. last - 1 : k \in Registered'
  BY DEF FilledBelow
<1>2. Registered \subseteq Nat
  BY TypeInvFacts
<1>3. ASSUME NEW i \in Registered', NEW k \in 0 .. i - 1
      PROVE  k \in Registered'
  <2>1. CASE i \in Registered
    BY <1>3, <2>1 DEF Contiguous
  <2>2. CASE i \in first .. last - 1
    BY <1>1, <2>2
  <2>3. QED  BY <2>1, <2>2
<1>4. QED  BY <1>1, <1>3 DEF Contiguous, FilledBelow

\* What the handlers have to know of the table while they fill a gap.
HandlerFilled(h) ==
  /\ h.pc \in {"getOwners", "backfill"} => FilledBelow(h.from)
  /\ h.pc = "setWallet" => FilledBelow(h.index)

LEMMA FilledStays ==
  ASSUME Registered \subseteq Registered', NEW n, FilledBelow(n)
  PROVE  \A k \in 0 .. n - 1 : k \in Registered'
BY DEF FilledBelow

LEMMA GapInvServe ==
  ASSUME TypeInv, TypeInv', GapInv, NEW p \in Procs, Serve(p)
  PROVE  GapInv'
<1>j. jumped => jumped'
  BY DEF Serve, HandleWalletCreatedEvent, GetCurrentNftIndex,
         GetMichiNFTOwnerBatched, BackfillMissingWalletCreates, SetMichiWallet,
         GetOwnedMichiWallets, GetWalletNFTs, SetOwnedWallets, Fail
<1> SUFFICES ASSUME ~jumped, ~jumped' PROVE GapInv'
  BY <1>j, Zenon DEF GapInv
<1>0. /\ Contiguous /\ \A q \in Procs : HandlerFilled(proc[q])
      /\ job.pc \in {"getOwners", "backfill"} => FilledBelow(job.from)
  BY DEF GapInv, HandlerFilled
<1>1. Registered \subseteq Registered' /\ job' = job /\ minted' = minted
  <2>1. job' = job /\ minted' = minted
    BY DEF Serve, HandleWalletCreatedEvent, GetCurrentNftIndex,
           GetMichiNFTOwnerBatched, BackfillMissingWalletCreates, SetMichiWallet,
           GetOwnedMichiWallets, GetWalletNFTs, SetOwnedWallets, Fail
  <2>2. [Next]_vars
    BY DEF Next
  <2>3. QED  BY <2>1, <2>2, RegisteredGrows
<1>2. proc[p] \in Handler /\ HandlerOK(proc[p]) /\ proc'[p] \in Handler
  BY TypeInvFacts, TypeInvFacts DEF HandlersOK, TypeInv, TypeOK
<1>3. \A q \in Procs : q # p => proc'[q] = proc[q]
  BY TypeInvFacts
  DEF Serve, HandleWalletCreatedEvent, GetCurrentNftIndex,
      GetMichiNFTOwnerBatched, BackfillMissingWalletCreates, SetMichiWallet,
      GetOwnedMichiWallets, GetWalletNFTs, SetOwnedWallets, Fail
<1>4. ASSUME Contiguous',
             proc'[p].pc \in {"getOwners", "backfill"}
               => \A k \in 0 .. proc'[p].from - 1 : k \in Registered',
             proc'[p].pc = "setWallet"
               => \A k \in 0 .. proc'[p].index - 1 : k \in Registered'
      PROVE  GapInv'
  <2>1. ASSUME NEW q \in Procs, q # p
        PROVE  /\ proc'[q].pc \in {"getOwners", "backfill"}
                    => \A k \in 0 .. proc'[q].from - 1 : k \in Registered'
               /\ proc'[q].pc = "setWallet"
                    => \A k \in 0 .. proc'[q].index - 1 : k \in Registered'
    <3>1. HandlerFilled(proc[q]) /\ proc'[q] = proc[q]
      BY <1>0, <1>3, <2>1
    <3>2. QED  BY <1>1, <3>1, FilledStays DEF HandlerFilled
  <2>2. job'.pc \in {"getOwners", "backfill"}
          => \A k \in 0 .. job'.from - 1 : k \in Registered'
    BY <1>0, <1>1, FilledStays
  <2>3. QED  BY <1>4, <2>1, <2>2 DEF GapInv, FilledBelow
<1>5. ASSUME UNCHANGED wallets
      PROVE  Registered' = Registered /\ Contiguous'
  BY <1>0, <1>5 DEF Registered, Contiguous
<1>6. CASE GetCurrentNftIndex(p)
  <2>1. PICK current \in Registered \cup {-1} :
          proc' = [proc EXCEPT ![p] =
            IF @.index > current + 1
              THEN [@ EXCEPT !.pc = "getOwners", !.from = current + 1]
              ELSE [@ EXCEPT !.pc = "setWallet"]]
    BY <1>6 DEF GetCurrentNftIndex, BackfillsFrom
  <2>2. current \in Int /\ proc[p].index \in Int
    BY <1>2, TypeInvFacts DEF Handler, Indices
  <2>3. UNCHANGED wallets
    BY <1>6 DEF GetCurrentNftIndex
  <2>4. FilledBelow(current + 1)
    BY <1>0, <2>2, FilledBelowCurrent
  <2>5. CASE proc[p].index > current + 1
    <3>1. proc'[p] = [proc[p] EXCEPT !.pc = "getOwners", !.from = current + 1]
      BY <2>1, <2>5, TypeInvFacts
    <3>2. proc'[p].pc = "getOwners" /\ proc'[p].from = current + 1
      BY <1>2, <3>1 DEF Handler
    <3>3. QED  BY <1>4, <1>5, <2>3, <2>4, <3>2 DEF FilledBelow
  <2>6. CASE ~(proc[p].index > current + 1)
    <3>1. proc'[p] = [proc[p] EXCEPT !.pc = "setWallet"]
      BY <2>1, <2>6, TypeInvFacts
    <3>2. proc'[p].pc = "setWallet" /\ proc'[p].index = proc[p].index
      BY <1>2, <3>1 DEF Handler
    <3>3. FilledBelow(proc[p].index)
      BY <1>0, <2>2, <2>6, FilledBelowCurrent
    <3>4. QED  BY <1>4, <1>5, <2>3, <3>2, <3>3 DEF FilledBelow
  <2>7. QED  BY <2>5, <2>6
<1>7. CASE GetMichiNFTOwnerBatched(p)
  <2>1. /\ UNCHANGED wallets /\ proc[p].pc = "getOwners"
        /\ proc'[p].pc = "backfill" /\ proc'[p].from = proc[p].from
    BY <1>2, <1>7, TypeInvFacts DEF GetMichiNFTOwnerBatched, Handler
  <2>2. FilledBelow(proc[p].from)
    BY <1>0, <2>1 DEF HandlerFilled
  <2>3. QED  BY <1>4, <1>5, <2>1, <2>2 DEF FilledBelow
<1>8. CASE BackfillMissingWalletCreates(p)
  <2>1. /\ proc[p].pc = "backfill" /\ wallets' = Upserted(proc[p].rows)
        /\ proc'[p].pc = "setWallet" /\ proc'[p].index = proc[p].index
    BY <1>2, <1>8, TypeInvFacts DEF BackfillMissingWalletCreates, Handler
  <2>2. /\ proc[p].rows \in Rows /\ proc[p].from \in Nat /\ proc[p].index \in Nat
        /\ DOMAIN proc[p].rows = proc[p].from .. proc[p].index - 1
        /\ FilledBelow(proc[p].from)
    BY <1>0, <1>2, <2>1, TypeInvFacts DEF HandlerOK, HandlerFilled, Handler, Indices
  <2>3. Registered' = Registered \cup (proc[p].from .. proc[p].index - 1)
    <3>1. DOMAIN proc[p].rows \subseteq MintedIndices
      BY <1>2 DEF HandlerOK
    <3>2. Registered' = Registered \cup DOMAIN proc[p].rows
      BY <1>1, <2>1, <2>2, <3>1, Upserting
    <3>3. QED  BY <2>2, <3>2
  <2>4. PICK first \in Nat, last \in Nat : first = proc[p].from /\ last = proc[p].index
    BY <2>2
  <2>5. Contiguous' /\ FilledBelow(last)'
    BY <1>0, <2>2, <2>3, <2>4, FillingRange
  <2>6. QED  BY <1>4, <2>1, <2>4, <2>5 DEF FilledBelow
<1>9. CASE SetMichiWallet(p)
  <2> DEFINE i == proc[p].index
             rows == [k \in {i} |-> CreatorOf(i)]
  <2>1. proc[p].pc = "setWallet" /\ wallets' = Upserted(rows) /\ proc'[p].pc = "idle"
    BY <1>9, TypeInvFacts DEF SetMichiWallet, Idle
  <2>2. i \in MintedIndices /\ i \in Nat /\ FilledBelow(i)
    BY <1>0, <1>2, <2>1, TypeInvFacts
    DEF HandlerOK, EventSteps, HandlerFilled, Handler, Indices, MintedIndices
  <2>3. rows \in Rows /\ DOMAIN rows = i .. (i + 1) - 1
    BY <2>2, MintedHaveOwners, RowsAreFunctions, TypeInvFacts
  <2>4. Registered' = Registered \cup (i .. (i + 1) - 1)
    BY <2>1, <2>3, UpsertedIsRows, TypeInvFacts DEF Registered
  <2>5. Contiguous'
    BY <1>0, <2>2, <2>4, FillingRange
  <2>6. QED  BY <1>4, <2>1, <2>5
<1>10. CASE SetOwnedWallets(p)
  <2>1. Contiguous' /\ proc'[p].pc = "idle"
    BY <1>10, TypeInvFacts DEF SetOwnedWallets, Idle
  <2>2. QED  BY <1>4, <2>1
<1>11. CASE HandleWalletCreatedEvent(p) \/ GetOwnedMichiWallets(p) \/ GetWalletNFTs(p) \/ Fail(p)
  <2>1. UNCHANGED wallets /\ proc'[p].pc \in {"getCurrentIndex", "getNFTs", "setOwned", "idle"}
    <3>1. CASE HandleWalletCreatedEvent(p) \/ GetOwnedMichiWallets(p)
      BY <3>1, TypeInvFacts DEF HandleWalletCreatedEvent, GetOwnedMichiWallets, Idle
    <3>2. CASE GetWalletNFTs(p)
      BY <1>2, <3>2, TypeInvFacts DEF GetWalletNFTs, Handler
    <3>3. CASE Fail(p)
      BY <3>3, TypeInvFacts DEF Fail, Idle
    <3>4. QED  BY <1>11, <3>1, <3>2, <3>3
  <2>2. QED  BY <1>4, <1>5, <2>1
<1>12. QED
  BY <1>6, <1>7, <1>8, <1>9, <1>10, <1>11 DEF Serve

LEMMA GapInvJob ==
  ASSUME TypeInv, GapInv, RunJob \/ FailJob \/ RestartProcessing
  PROVE  GapInv'
<1>j. jumped' = jumped /\ minted' = minted
  BY DEF RunJob, ProcessChainMichiPoints, JobGetCurrentNftIndex,
         JobGetMichiNFTOwnerBatched, JobBackfillMissingWalletCreates, GetWalletsByIndex,
         SyncWalletOwners, SetOwners, FailJob, RestartProcessing
<1> SUFFICES ASSUME ~jumped, ~jumped' PROVE GapInv'
  BY <1>j, Zenon DEF GapInv
<1>0. /\ Contiguous /\ \A q \in Procs : HandlerFilled(proc[q])
      /\ job.pc \in {"getOwners", "backfill"} => FilledBelow(job.from)
      /\ job \in Job /\ JobOK
  BY TypeInvFacts DEF GapInv, HandlerFilled
<1>1. Registered \subseteq Registered'
  <2>1. [Next]_vars
    BY DEF Next
  <2>2. QED  BY <2>1, RegisteredGrows
<1>2. \A q \in Procs : proc'[q] \in {Idle, proc[q]}
  BY TypeInvFacts
  DEF RunJob, ProcessChainMichiPoints, JobGetCurrentNftIndex,
      JobGetMichiNFTOwnerBatched, JobBackfillMissingWalletCreates, GetWalletsByIndex,
      SyncWalletOwners, SetOwners, FailJob, RestartProcessing
<1>3. ASSUME Contiguous',
             job'.pc \in {"getOwners", "backfill"}
               => \A k \in 0 .. job'.from - 1 : k \in Registered'
      PROVE  GapInv'
  <2>1. ASSUME NEW q \in Procs
        PROVE  /\ proc'[q].pc \in {"getOwners", "backfill"}
                    => \A k \in 0 .. proc'[q].from - 1 : k \in Registered'
               /\ proc'[q].pc = "setWallet"
                    => \A k \in 0 .. proc'[q].index - 1 : k \in Registered'
    <3>1. CASE proc'[q] = Idle
      BY <3>1 DEF Idle
    <3>2. CASE proc'[q] = proc[q]
      BY <1>0, <1>1, <3>2, FilledStays DEF HandlerFilled
    <3>3. QED  BY <1>2, <3>1, <3>2
  <2>2. QED  BY <1>3, <2>1 DEF GapInv, FilledBelow
<1>4. ASSUME UNCHANGED wallets
      PROVE  Registered' = Registered /\ Contiguous'
  BY <1>0, <1>4 DEF Registered, Contiguous
<1>5. CASE JobGetCurrentNftIndex
  <2>1. PICK current \in Registered \cup {-1} :
          job' = IF current < job.minted - 1
                   THEN [job EXCEPT !.pc = "getOwners", !.from = current + 1]
                   ELSE [job EXCEPT !.pc = "getBatch"]
    BY <1>5 DEF JobGetCurrentNftIndex, BackfillsFrom
  <2>2. UNCHANGED wallets
    BY <1>5 DEF JobGetCurrentNftIndex
  <2>3. current \in Int
    BY TypeInvFacts
  <2>4. FilledBelow(current + 1)
    BY <1>0, <2>3, FilledBelowCurrent
  <2>5. /\ job'.pc \in {"getOwners", "getBatch"}
        /\ job'.pc = "getOwners" => job'.from = current + 1
    BY <1>0, <2>1 DEF Job
  <2>6. QED  BY <1>3, <1>4, <2>2, <2>4, <2>5 DEF FilledBelow
<1>6. CASE JobGetMichiNFTOwnerBatched
  <2>1. /\ UNCHANGED wallets /\ job.pc = "getOwners" /\ job'.from = job.from
    BY <1>0, <1>6 DEF JobGetMichiNFTOwnerBatched, Job
  <2>2. FilledBelow(job.from)
    BY <1>0, <2>1
  <2>3. QED  BY <1>3, <1>4, <2>1, <2>2 DEF FilledBelow
<1>7. CASE JobBackfillMissingWalletCreates
  <2>1. /\ job.pc = "backfill" /\ wallets' = Upserted(job.rows) /\ job'.pc = "getBatch"
    BY <1>0, <1>7 DEF JobBackfillMissingWalletCreates, Job
  <2>2. /\ job.rows \in Rows /\ DOMAIN job.rows \subseteq MintedIndices
        /\ DOMAIN job.rows = job.from .. job.minted - 1
        /\ job.from \in Nat /\ job.minted \in Nat /\ FilledBelow(job.from)
    BY <1>0, <2>1, RegistryAssumption DEF JobOK, Job
  <2>3. Registered' = Registered \cup (job.from .. job.minted - 1)
    BY <1>j, <2>1, <2>2, Upserting
  <2>4. Contiguous'
    BY <1>0, <2>2, <2>3, FillingRange
  <2>5. QED  BY <1>3, <2>1, <2>4
<1>8. CASE SetOwners
  <2>1. /\ job.pc = "setOwners" /\ wallets' = Upserted(job.rows) /\ job'.pc = "getBatch"
    BY <1>0, <1>8 DEF SetOwners, Job
  <2>2. /\ job.rows \in Rows /\ DOMAIN job.rows \subseteq MintedIndices
        /\ DOMAIN job.rows \subseteq Registered
    BY <1>0, <2>1 DEF JobOK, Job
  <2>3. Registered' = Registered
    BY <1>j, <2>1, <2>2, Upserting
  <2>4. Contiguous'
    BY <1>0, <2>3 DEF Contiguous
  <2>5. QED  BY <1>3, <2>1, <2>4
<1>9. CASE \/ ProcessChainMichiPoints \/ GetWalletsByIndex \/ SyncWalletOwners
           \/ FailJob \/ RestartProcessing
  <2>1. UNCHANGED wallets
    BY <1>9 DEF ProcessChainMichiPoints, GetWalletsByIndex, SyncWalletOwners,
                FailJob, RestartProcessing
  <2>2. job'.pc \in {"idle", "getCurrentIndex", "syncOwners", "setOwners"}
    <3>1. CASE ProcessChainMichiPoints \/ FailJob \/ RestartProcessing
      <4>1. CASE ProcessChainMichiPoints
        <5>1. job' = [IdleJob EXCEPT !.pc = "getCurrentIndex", !.minted = minted]
          BY <4>1 DEF ProcessChainMichiPoints
        <5>2. job' = [pc |-> "getCurrentIndex", minted |-> minted, from |-> 0, batch |-> {},
                      rows |-> NoRows]
          BY <5>1 DEF IdleJob
        <5>3. QED  BY <5>2
      <4>2. CASE FailJob \/ RestartProcessing
        BY <4>2 DEF FailJob, RestartProcessing, IdleJob
      <4>3. QED  BY <3>1, <4>1, <4>2
    <3>2. CASE GetWalletsByIndex
      BY <1>0, <3>2 DEF GetWalletsByIndex, IdleJob, Job
    <3>3. CASE SyncWalletOwners
      BY <1>0, <3>3 DEF SyncWalletOwners, Job
    <3>4. QED  BY <1>9, <3>1, <3>2, <3>3
  <2>3. QED  BY <1>3, <1>4, <2>1, <2>2
<1>10. QED
  BY <1>5, <1>6, <1>7, <1>8, <1>9 DEF RunJob

LEMMA GapInvStep == TypeInv /\ GapInv /\ [Next]_vars => GapInv'
<1> SUFFICES ASSUME TypeInv, GapInv, [Next]_vars PROVE GapInv'
  OBVIOUS
<1>1. TypeInv'
  BY TypeInvStep
<1>2. CASE \E p \in Procs : Serve(p)
  BY <1>1, <1>2, GapInvServe
<1>3. CASE RunJob \/ FailJob \/ RestartProcessing
  BY <1>3, GapInvJob
<1>4. CASE Chain \/ UNCHANGED vars
  BY <1>4 DEF Chain, CreateWallet, TransferWallet, vars, GapInv, FilledBelow, Contiguous,
              Registered
<1>5. QED  BY <1>2, <1>3, <1>4 DEF Next

\* Whatever handlers and job runs interleave, and whatever events and calls
\* are lost, only a request of an owner leaves a gap in the table: the range a
\* handler or the job backfills always starts where the table is filled.
THEOREM BackfillLeavesNoGaps == Spec => []NoGaps
<1>1. TypeInv /\ GapInv => NoGaps
  BY DEF GapInv, NoGaps
<1>2. QED
  BY <1>1, TypeInvInit, GapInvInit, TypeInvStep, GapInvStep, PTL DEF Spec

----------------------------------------------------------------------------
(* Owners.                                                                 *)

\* RowsWereOwned of the next state, for rows of this one.
StillWereOwned(rows) ==
  \A i \in DOMAIN rows : \E k \in DOMAIN history'[i] : history'[i][k] = rows[i]

LEMMA OwnedStays ==
  ASSUME TypeInv, [Next]_vars, NEW rows, DOMAIN rows \subseteq MintedIndices,
         RowsWereOwned(rows)
  PROVE  StillWereOwned(rows)
<1> SUFFICES ASSUME NEW i \in DOMAIN rows
             PROVE  \E k \in DOMAIN history'[i] : history'[i][k] = rows[i]
  BY DEF StillWereOwned
<1>1. PICK u : u = rows[i]
  OBVIOUS
<1>2. HasOwned(u, i)
  BY <1>1 DEF RowsWereOwned
<1>3. HasOwned(u, i)'
  BY <1>2, ChainGrows
<1>4. QED  BY <1>1, <1>3 DEF HasOwned

LEMMA UpsertedWereOwned ==
  ASSUME TypeInv, NEW rows \in Rows, StillWereOwned(wallets), StillWereOwned(rows),
         wallets' = Upserted(rows)
  PROVE  StillWereOwned(wallets')
<1>1. /\ DOMAIN Upserted(rows) = DOMAIN wallets \cup DOMAIN rows
      /\ \A i \in DOMAIN Upserted(rows) :
           Upserted(rows)[i] = IF i \in DOMAIN rows THEN rows[i] ELSE wallets[i]
  BY UpsertedIsRows, TypeInvFacts DEF Registered
<1>2. QED  BY <1>1 DEF StillWereOwned

LEMMA NoRowsOwned == StillWereOwned(NoRows)
BY NoRowsAreRows DEF StillWereOwned

\* Without gaps, the rows of a batch are those at from, from + 1, and so on.
LEMMA BatchIsInterval ==
  ASSUME TypeInv, Contiguous, NEW from \in Nat, NEW i \in BatchAt(from)
  PROVE  {k \in BatchAt(from) : k < i} = from .. i - 1
<1> DEFINE before(n) == {k \in Registered : from <= k /\ k < n}
<1>1. Registered \subseteq Nat
  BY TypeInvFacts
<1>2. i \in Registered /\ i \in Nat /\ from <= i /\ Cardinality(before(i)) < BatchSize
  BY <1>1 DEF BatchAt
<1>3. IsFiniteSet(before(i))
  <2>1. 0 \in Int /\ i \in Int
    BY <1>2
  <2>2. IsFiniteSet(0 .. i)
    BY <2>1, FS_Interval
  <2>3. \A k \in before(i) : k \in 0 .. i
    BY <1>1, <1>2
  <2>4. QED  BY <2>2, <2>3, FS_Subset
<1>4. ASSUME NEW k \in from .. i - 1
      PROVE  k \in BatchAt(from)
  <2>1. k \in Nat /\ k < i /\ from <= k /\ k \in 0 .. i - 1
    BY <1>2
  <2>a. k \in Registered
    BY <1>2, <2>1 DEF Contiguous
  <2>2. \A j \in before(k) : j \in before(i)
    BY <1>1, <1>2, <2>1
  <2>3. /\ IsFiniteSet(before(k))
        /\ Cardinality(before(k)) <= Cardinality(before(i))
    <3>1. before(k) \subseteq before(i)
      BY <2>2
    <3>2. QED  BY <1>3, <3>1, FS_Subset
  <2>4. Cardinality(before(k)) \in Nat /\ Cardinality(before(i)) \in Nat
    BY <1>3, <2>3, FS_CardinalityType
  <2>5. Cardinality(before(k)) < BatchSize
    BY <1>2, <2>3, <2>4, RegistryAssumption
  <2>6. QED  BY <2>1, <2>a, <2>5 DEF BatchAt
<1>5. ASSUME NEW k \in BatchAt(from), k < i
      PROVE  k \in from .. i - 1
  BY <1>1, <1>2, <1>5 DEF BatchAt
<1>6. \A k \in from .. i - 1 : k < i
  BY <1>2
<1>7. QED  BY <1>4, <1>5, <1>6

LEMMA OwnerInvInit == Init => OwnerInv
BY NoRowsAreRows DEF Init, OwnerInv, RowsWereOwned, Idle, IdleJob

\* How OwnerInv of the next state follows from what was shown above.
LEMMA OwnerInvFromParts ==
  ASSUME TypeInv', \A p \in Procs : StillWereOwned(proc'[p].rows),
         jumped' \/ /\ StillWereOwned(wallets') /\ StillWereOwned(job'.rows)
                    /\ \A i \in job'.batch : {k \in job'.batch : k < i} = job'.from .. i - 1
  PROVE  OwnerInv'
BY DEF OwnerInv, RowsWereOwned, StillWereOwned, HasOwned

LEMMA OwnerInvServe ==
  ASSUME TypeInv, TypeInv', OwnerInv, NEW p \in Procs, Serve(p)
  PROVE  OwnerInv'
<1>0. /\ [Next]_vars /\ job' = job /\ (jumped => jumped')
      /\ proc \in [Procs -> Handler] /\ job \in Job /\ JobOK
      /\ \A q \in Procs : HandlerOK(proc[q])
  <2>1. job' = job
    BY DEF Serve, HandleWalletCreatedEvent, GetCurrentNftIndex,
           GetMichiNFTOwnerBatched, BackfillMissingWalletCreates, SetMichiWallet,
           GetOwnedMichiWallets, GetWalletNFTs, SetOwnedWallets, Fail
  <2>2. jumped => jumped'
    BY DEF Serve, HandleWalletCreatedEvent, GetCurrentNftIndex,
           GetMichiNFTOwnerBatched, BackfillMissingWalletCreates, SetMichiWallet,
           GetOwnedMichiWallets, GetWalletNFTs, SetOwnedWallets, Fail
  <2>3. [Next]_vars
    BY DEF Next
  <2>4. QED  BY <2>1, <2>2, <2>3, TypeInvFacts DEF HandlersOK
<1>1. \A q \in Procs : StillWereOwned(proc[q].rows)
  BY <1>0, OwnedStays DEF HandlerOK, OwnerInv
<1>2. \A q \in Procs : q # p => proc'[q] = proc[q]
  BY TypeInvFacts
  DEF Serve, HandleWalletCreatedEvent, GetCurrentNftIndex,
      GetMichiNFTOwnerBatched, BackfillMissingWalletCreates, SetMichiWallet,
      GetOwnedMichiWallets, GetWalletNFTs, SetOwnedWallets, Fail
<1>3. jumped \/ StillWereOwned(wallets)
  BY <1>0, OwnedStays, TypeInvFacts DEF OwnerInv, Registered
<1>4. jumped \/ /\ StillWereOwned(job'.rows)
                /\ \A i \in job'.batch : {k \in job'.batch : k < i} = job'.from .. i - 1
  BY <1>0, OwnedStays DEF OwnerInv, JobOK
<1>5. ASSUME StillWereOwned(proc'[p].rows), jumped' \/ StillWereOwned(wallets')
      PROVE  OwnerInv'
  <2>1. \A q \in Procs : StillWereOwned(proc'[q].rows)
    BY <1>1, <1>2, <1>5
  <2>2. QED  BY <1>0, <1>4, <1>5, <2>1, OwnerInvFromParts, Zenon
<1>6. CASE GetCurrentNftIndex(p)
  <2>1. proc'[p].rows = proc[p].rows /\ UNCHANGED <<wallets, jumped>>
    BY <1>0, <1>6 DEF GetCurrentNftIndex, Handler
  <2>2. QED  BY <1>1, <1>3, <1>5, <2>1
<1>7. CASE GetMichiNFTOwnerBatched(p)
  <2> DEFINE rows == OwnersFrom(proc[p].from, proc[p].index)
  <2>1. proc[p].pc = "getOwners" /\ proc[p].from \in Nat /\ proc[p].index \in Nat
    BY <1>0, <1>7, TypeInvFacts DEF GetMichiNFTOwnerBatched, Handler, Indices
  <2>2. proc[p].index <= minted
    BY <1>0, <2>1, TypeInvFacts DEF HandlerOK, EventSteps
  <2>3. DOMAIN rows \subseteq MintedIndices /\ RowsWereOwned(rows)
    BY <2>1, <2>2, OwnersOfRange
  <2> HIDE DEF rows
  <2>4. StillWereOwned(rows)
    BY <1>0, <2>3, OwnedStays
  <2>5. UNCHANGED <<wallets, jumped>> /\ proc'[p].rows = rows
    BY <1>0, <1>7 DEF GetMichiNFTOwnerBatched, Handler, rows
  <2>6. QED  BY <1>3, <1>5, <2>4, <2>5
<1>8. CASE BackfillMissingWalletCreates(p)
  <2>1. /\ proc'[p].rows = NoRows /\ UNCHANGED jumped
        /\ wallets' = Upserted(proc[p].rows) /\ proc[p].rows \in Rows
    BY <1>0, <1>8 DEF BackfillMissingWalletCreates, Handler
  <2>2. jumped \/ StillWereOwned(wallets')
    BY <1>1, <1>3, <2>1, UpsertedWereOwned
  <2>3. QED  BY <1>5, <2>1, <2>2, NoRowsOwned
<1>9. CASE SetMichiWallet(p)
  <2> DEFINE i == proc[p].index
             rows == [k \in {i} |-> CreatorOf(i)]
  <2>1. i \in MintedIndices
    BY <1>0, <1>9, TypeInvFacts
    DEF SetMichiWallet, HandlerOK, EventSteps, MintedIndices, Handler, Indices
  <2>2. rows \in Rows /\ DOMAIN rows \subseteq MintedIndices /\ RowsWereOwned(rows)
    BY <2>1, MintedHaveOwners, RowsAreFunctions, TypeInvFacts DEF RowsWereOwned
  <2>3. /\ proc'[p].rows = NoRows /\ UNCHANGED jumped /\ wallets' = Upserted(rows)
    BY <1>0, <1>9 DEF SetMichiWallet, Idle
  <2> HIDE DEF rows
  <2>4. StillWereOwned(rows)
    BY <1>0, <2>2, OwnedStays
  <2>5. jumped \/ StillWereOwned(wallets')
    BY <1>3, <2>2, <2>3, <2>4, UpsertedWereOwned
  <2>6. QED  BY <1>5, <2>3, <2>5, NoRowsOwned
<1>10. CASE GetWalletNFTs(p)
  <2> DEFINE rows == GenerateFreshWalletData(proc[p].user)
  <2>1. DOMAIN rows \subseteq MintedIndices
    BY DEF GenerateFreshWalletData, MintedIndices
  <2>2. ASSUME NEW i \in DOMAIN rows
        PROVE  HasOwned(rows[i], i)
    <3>1. i \in MintedIndices /\ rows[i] = OwnerOf(i)
      BY <2>1, <2>2 DEF GenerateFreshWalletData, MintedIndices
    <3>2. QED  BY <3>1, MintedHaveOwners
  <2>3. RowsWereOwned(rows)
    BY <2>2 DEF RowsWereOwned
  <2> HIDE DEF rows
  <2>4. StillWereOwned(rows)
    BY <1>0, <2>1, <2>3, OwnedStays
  <2>5. UNCHANGED <<wallets, jumped>> /\ proc'[p].rows = rows
    BY <1>0, <1>10 DEF GetWalletNFTs, Handler, rows
  <2>6. QED  BY <1>3, <1>5, <2>4, <2>5
<1>11. CASE SetOwnedWallets(p)
  <2>1. /\ proc'[p].rows = NoRows
        /\ wallets' = Upserted(proc[p].rows) /\ proc[p].rows \in Rows
    BY <1>0, <1>11 DEF SetOwnedWallets, Handler, Idle
  <2>2. jumped \/ StillWereOwned(wallets')
    BY <1>1, <1>3, <2>1, UpsertedWereOwned
  <2>3. QED  BY <1>0, <1>5, <2>1, <2>2, NoRowsOwned
<1>12. CASE HandleWalletCreatedEvent(p)
  <2>1. PICK i \in MintedIndices, source \in Sources :
          proc' = [proc EXCEPT ![p] = [Idle EXCEPT !.pc = "getCurrentIndex",
                                                   !.source = source, !.index = i]]
    BY <1>12 DEF HandleWalletCreatedEvent, MintedIndices
  <2>2. proc'[p] = [Idle EXCEPT !.pc = "getCurrentIndex", !.source = source, !.index = i]
    BY <2>1, TypeInvFacts
  <2>3. proc'[p].rows = NoRows
    BY <2>2 DEF Idle
  <2>4. UNCHANGED <<wallets, jumped>>
    BY <1>12 DEF HandleWalletCreatedEvent
  <2>5. QED  BY <1>3, <1>5, <2>3, <2>4, NoRowsOwned
<1>13. CASE GetOwnedMichiWallets(p)
  <2>1. PICK u \in Users :
          proc' = [proc EXCEPT ![p] = [Idle EXCEPT !.pc = "getNFTs", !.user = u]]
    BY <1>13, RegistryAssumption DEF GetOwnedMichiWallets
  <2>2. proc'[p] = [Idle EXCEPT !.pc = "getNFTs", !.user = u]
    BY <2>1, TypeInvFacts
  <2>3. proc'[p].rows = NoRows
    BY <2>2 DEF Idle
  <2>4. UNCHANGED <<wallets, jumped>>
    BY <1>13 DEF GetOwnedMichiWallets
  <2>5. QED  BY <1>3, <1>5, <2>3, <2>4, NoRowsOwned
<1>14. CASE Fail(p)
  <2>1. proc'[p] = Idle /\ UNCHANGED <<wallets, jumped>>
    BY <1>14, TypeInvFacts DEF Fail
  <2>2. proc'[p].rows = NoRows
    BY <2>1 DEF Idle
  <2>3. QED  BY <1>3, <1>5, <2>1, <2>2, NoRowsOwned
<1>15. QED
  BY <1>6, <1>7, <1>8, <1>9, <1>10, <1>11, <1>12, <1>13, <1>14 DEF Serve

LEMMA OwnerInvJob ==
  ASSUME TypeInv, TypeInv', GapInv, OwnerInv, RunJob \/ FailJob \/ RestartProcessing
  PROVE  OwnerInv'
<1>0. /\ [Next]_vars /\ jumped' = jumped
      /\ proc \in [Procs -> Handler] /\ job \in Job /\ JobOK
      /\ \A q \in Procs : HandlerOK(proc[q])
  <2>1. jumped' = jumped
    BY DEF RunJob, ProcessChainMichiPoints, JobGetCurrentNftIndex,
           JobGetMichiNFTOwnerBatched, JobBackfillMissingWalletCreates, GetWalletsByIndex,
           SyncWalletOwners, SetOwners, FailJob, RestartProcessing
  <2>2. [Next]_vars
    BY DEF Next
  <2>3. QED  BY <2>1, <2>2, TypeInvFacts DEF HandlersOK
<1>1. \A q \in Procs : StillWereOwned(proc[q].rows)
  BY <1>0, OwnedStays DEF HandlerOK, OwnerInv
<1>2. \A q \in Procs : proc'[q] \in {Idle, proc[q]}
  BY TypeInvFacts
  DEF RunJob, ProcessChainMichiPoints, JobGetCurrentNftIndex,
      JobGetMichiNFTOwnerBatched, JobBackfillMissingWalletCreates, GetWalletsByIndex,
      SyncWalletOwners, SetOwners, FailJob, RestartProcessing
<1>3. \A q \in Procs : StillWereOwned(proc'[q].rows)
  <2>1. Idle.rows = NoRows
    BY DEF Idle
  <2>2. QED  BY <1>1, <1>2, <2>1, NoRowsOwned
<1>4. CASE jumped
  <2>1. jumped'
    BY <1>0, <1>4
  <2>2. QED  BY <1>3, <2>1, OwnerInvFromParts
<1>5. CASE ~jumped
  <2>1. /\ StillWereOwned(wallets) /\ StillWereOwned(job.rows) /\ Contiguous
        /\ \A i \in job.batch : {k \in job.batch : k < i} = job.from .. i - 1
    BY <1>0, <1>5, OwnedStays, TypeInvFacts DEF OwnerInv, GapInv, JobOK, Registered
  <2>2. ASSUME StillWereOwned(wallets'), StillWereOwned(job'.rows),
               \A i \in job'.batch : {k \in job'.batch : k < i} = job'.from .. i - 1
        PROVE  OwnerInv'
    BY <1>3, <2>2, OwnerInvFromParts
  <2>3. CASE ProcessChainMichiPoints \/ FailJob \/ RestartProcessing
    <3>1. CASE ProcessChainMichiPoints
      <4>1. job' = [IdleJob EXCEPT !.pc = "getCurrentIndex", !.minted = minted]
        BY <3>1 DEF ProcessChainMichiPoints
      <4>2. job' = [pc |-> "getCurrentIndex", minted |-> minted, from |-> 0, batch |-> {},
                    rows |-> NoRows]
        BY <4>1 DEF IdleJob
      <4>3. job'.rows = NoRows /\ job'.batch = {}
        BY <4>2
      <4>4. UNCHANGED wallets
        BY <3>1 DEF ProcessChainMichiPoints
      <4>5. QED  BY <2>1, <2>2, <4>3, <4>4, NoRowsOwned
    <3>2. CASE FailJob \/ RestartProcessing
      <4>1. job' = IdleJob /\ UNCHANGED wallets
        BY <3>2 DEF FailJob, RestartProcessing
      <4>2. job'.rows = NoRows /\ job'.batch = {}
        BY <4>1 DEF IdleJob
      <4>3. QED  BY <2>1, <2>2, <4>1, <4>2, NoRowsOwned
    <3>3. QED  BY <2>3, <3>1, <3>2
  <2>4. CASE JobGetCurrentNftIndex
    <3>1. /\ job'.rows = job.rows /\ job'.batch = job.batch /\ job.batch = {}
          /\ UNCHANGED wallets
      BY <1>0, <2>4 DEF JobGetCurrentNftIndex, Job, JobOK
    <3>2. QED  BY <2>1, <2>2, <3>1
  <2>5. CASE JobGetMichiNFTOwnerBatched
    <3> DEFINE rows == OwnersFrom(job.from, job.minted)
    <3>1. /\ job.pc = "getOwners" /\ job.from \in Nat /\ job.minted \in Nat
          /\ job.minted <= minted /\ job.batch = {}
      BY <1>0, <2>5, RegistryAssumption DEF JobGetMichiNFTOwnerBatched, Job, JobOK
    <3>2. DOMAIN rows \subseteq MintedIndices /\ RowsWereOwned(rows)
      BY <3>1, OwnersOfRange
    <3> HIDE DEF rows
    <3>3. StillWereOwned(rows)
      BY <1>0, <3>2, OwnedStays
    <3>4. job'.rows = rows /\ job'.batch = job.batch /\ UNCHANGED wallets
      BY <1>0, <2>5 DEF JobGetMichiNFTOwnerBatched, Job, rows
    <3>5. QED  BY <2>1, <2>2, <3>1, <3>3, <3>4
  <2>6. CASE JobBackfillMissingWalletCreates
    <3>1. /\ job'.rows = NoRows /\ job'.batch = job.batch /\ job.batch = {}
          /\ wallets' = Upserted(job.rows) /\ job.rows \in Rows
      BY <1>0, <2>6 DEF JobBackfillMissingWalletCreates, Job, JobOK
    <3>2. StillWereOwned(wallets')
      BY <2>1, <3>1, UpsertedWereOwned
    <3>3. QED  BY <2>2, <3>1, <3>2, NoRowsOwned
  <2>7. CASE GetWalletsByIndex
    <3> DEFINE batch == BatchAt(job.from)
    <3>1. job.from \in Nat
      BY <1>0, RegistryAssumption DEF Job
    <3>2. \A i \in batch : {k \in batch : k < i} = job.from .. i - 1
      BY <2>1, <3>1, BatchIsInterval
    <3> HIDE DEF batch
    <3>3. UNCHANGED wallets /\ job' = IF batch = {} THEN IdleJob
                                      ELSE [job EXCEPT !.pc = "syncOwners", !.batch = batch]
      BY <2>7 DEF GetWalletsByIndex, batch
    <3>4. CASE batch = {}
      <4>1. job'.rows = NoRows /\ job'.batch = {}
        BY <3>3, <3>4 DEF IdleJob
      <4>2. QED  BY <2>1, <2>2, <3>3, <4>1, NoRowsOwned
    <3>5. CASE batch # {}
      <4>1. job'.rows = job.rows /\ job'.batch = batch /\ job'.from = job.from
        BY <1>0, <3>3, <3>5 DEF Job
      <4>2. QED  BY <2>1, <2>2, <3>2, <3>3, <4>1
    <3>6. QED  BY <3>4, <3>5
  <2>8. CASE SyncWalletOwners
    <3> DEFINE rows == [i \in job.batch |-> SyncedOwner(i)]
    <3>1. /\ job.from \in Nat /\ job.batch \in SUBSET Nat /\ \A k \in job.batch : job.from <= k
          /\ job.batch \subseteq MintedIndices
      BY <1>0, TypeInvFacts, RegistryAssumption DEF Job, JobOK
    <3>2. ASSUME NEW i \in job.batch
          PROVE  HasOwned(SyncedOwner(i), i)
      <4>1. Cardinality({k \in job.batch : k < i}) = i - job.from
        BY <2>1, <3>1, PlaceInBatch
      <4>2. job.from + Cardinality({k \in job.batch : k < i}) = i
        BY <3>1, <4>1
      <4>3. SyncedOwner(i) = OwnerOf(i)
        BY <4>2 DEF SyncedOwner
      <4>4. QED  BY <3>1, <4>3, MintedHaveOwners
    <3>3. DOMAIN rows \subseteq MintedIndices /\ RowsWereOwned(rows)
      BY <3>1, <3>2 DEF RowsWereOwned
    <3> HIDE DEF rows
    <3>4. StillWereOwned(rows)
      BY <1>0, <3>3, OwnedStays
    <3>5. /\ job'.rows = rows /\ job'.batch = job.batch /\ job'.from = job.from
          /\ UNCHANGED wallets
      BY <1>0, <2>8 DEF SyncWalletOwners, Job, rows
    <3>6. QED  BY <2>1, <2>2, <3>4, <3>5
  <2>9. CASE SetOwners
    <3>1. /\ job'.rows = NoRows /\ job'.batch = {}
          /\ wallets' = Upserted(job.rows) /\ job.rows \in Rows
      BY <1>0, <2>9 DEF SetOwners, Job
    <3>2. StillWereOwned(wallets')
      BY <2>1, <3>1, UpsertedWereOwned
    <3>3. QED  BY <2>2, <3>1, <3>2, NoRowsOwned
  <2>10. QED
    BY <2>3, <2>4, <2>5, <2>6, <2>7, <2>8, <2>9 DEF RunJob
<1>6. QED  BY <1>4, <1>5

LEMMA OwnerInvStep == TypeInv /\ GapInv /\ OwnerInv /\ [Next]_vars => OwnerInv'
<1> SUFFICES ASSUME TypeInv, GapInv, OwnerInv, [Next]_vars PROVE OwnerInv'
  OBVIOUS
<1>1. TypeInv'
  BY TypeInvStep
<1>2. CASE \E p \in Procs : Serve(p)
  BY <1>1, <1>2, OwnerInvServe
<1>3. CASE RunJob \/ FailJob \/ RestartProcessing
  BY <1>1, <1>3, OwnerInvJob
<1>4. CASE Chain \/ UNCHANGED vars
  <2>1. UNCHANGED <<wallets, proc, job, jumped>>
    BY <1>4 DEF Chain, CreateWallet, TransferWallet, vars
  <2>2. \A p \in Procs : StillWereOwned(proc[p].rows)
    BY OwnedStays, TypeInvFacts DEF OwnerInv, HandlersOK, HandlerOK
  <2>3. jumped \/ (StillWereOwned(wallets) /\ StillWereOwned(job.rows))
    <3>1. DOMAIN wallets \subseteq MintedIndices /\ DOMAIN job.rows \subseteq MintedIndices
      BY TypeInvFacts DEF JobOK, Registered
    <3>2. jumped \/ (RowsWereOwned(wallets) /\ RowsWereOwned(job.rows))
      BY DEF OwnerInv
    <3>3. QED  BY <3>1, <3>2, OwnedStays
  <2>4. jumped \/ \A i \in job.batch : {k \in job.batch : k < i} = job.from .. i - 1
    BY DEF OwnerInv
  <2>5. QED  BY <1>1, <2>1, <2>2, <2>3, <2>4, OwnerInvFromParts
<1>5. QED  BY <1>2, <1>3, <1>4 DEF Next

\* As long as no request has left a gap, every owner the table names has owned
\* that wallet: a batch of the job is then an unbroken range of indices, so
\* that a place in the batch and a place in the range are the same.
THEOREM OwnersAreGenuine == Spec => []OwnersWereOwners
<1>1. TypeInv /\ OwnerInv => OwnersWereOwners
  BY DEF OwnerInv, OwnersWereOwners, RowsWereOwned, Registered
<1>2. QED
  BY <1>1, TypeInvInit, GapInvInit, OwnerInvInit, TypeInvStep, GapInvStep, OwnerInvStep,
     PTL DEF Spec
----------------------------------------------------------------------------
(* A complete run of the job.                                              *)

\* The job has just been started.
JobStarted == job = [IdleJob EXCEPT !.pc = "getCurrentIndex", !.minted = minted]

\* Nothing is minted or transferred, no call fails, and nobody but the job
\* writes to the table.  Requests and events may be served as far as they read.
Undisturbed ==
  /\ UNCHANGED <<minted, history, faults>>
  /\ wallets' # wallets => RunJob

\* The rows below n are there and have the present owners.
CurrentBelow(n) == \A i \in MintedIndices :
  i < n => i \in Registered /\ wallets[i] = OwnerOf(i)

\* Where a run that was not disturbed has got: it fills the table first, goes
\* through it batch by batch, and misses no wallet between two batches.
RunInv ==
  /\ Contiguous
  /\ job.pc = "idle" => AllCurrent
  /\ job.pc # "idle" => job.minted = minted
  /\ job.pc = "getCurrentIndex" => job.from = 0
  /\ job.pc \in {"getOwners", "backfill"} => FilledBelow(job.from)
  /\ job.pc \in {"getBatch", "syncOwners", "setOwners"} =>
       FilledBelow(minted) /\ CurrentBelow(job.from)
  /\ job.pc \in {"syncOwners", "setOwners"} =>
       /\ \A i \in MintedIndices :
            job.from <= i /\ i < job.from + BatchSize => i \in job.batch
       /\ \A i \in job.batch : {k \in job.batch : k < i} = job.from .. i - 1
  /\ job.pc = "setOwners" =>
       /\ DOMAIN job.rows = job.batch
       /\ \A i \in job.batch : job.rows[i] = OwnerOf(i)

LEMMA RunInvStarts ==
  ASSUME TypeInv, JobStarted, Contiguous
  PROVE  RunInv
<1>1. job = [pc |-> "getCurrentIndex", minted |-> minted, from |-> 0, batch |-> {},
             rows |-> NoRows]
  BY DEF JobStarted, IdleJob
<1>2. job.pc = "getCurrentIndex" /\ job.minted = minted /\ job.from = 0
  BY <1>1
<1>3. QED  BY <1>2 DEF RunInv

\* Nothing of the run has changed.
LEMMA RunInvKept ==
  ASSUME RunInv, UNCHANGED <<minted, history, wallets, job>>
  PROVE  RunInv'
BY DEF RunInv, Contiguous, AllCurrent, FilledBelow, CurrentBelow, OwnerOf, Registered,
       MintedIndices

\* A batch has every row from its start on to the next batch's start.
LEMMA BatchIsFull ==
  ASSUME TypeInv, NEW from \in Nat, NEW i \in Registered, from <= i, i < from + BatchSize
  PROVE  i \in BatchAt(from)
<1> DEFINE before == {k \in Registered : from <= k /\ k < i}
<1>1. Registered \subseteq Nat /\ i \in Nat /\ BatchSize \in Nat
  BY TypeInvFacts, RegistryAssumption
<1>2. \A k \in before : k \in from .. i - 1
  BY <1>1
<1>3. from \in Int /\ i - 1 \in Int
  BY <1>1
<1>4. IsFiniteSet(from .. i - 1) /\ Cardinality(from .. i - 1) = i - from
  <2>1. /\ IsFiniteSet(from .. i - 1)
        /\ Cardinality(from .. i - 1) = IF from > i - 1 THEN 0 ELSE i - 1 - from + 1
    BY <1>3, FS_Interval
  <2>2. QED  BY <1>1, <2>1
<1>5. before \subseteq from .. i - 1
  BY <1>2
<1>6. IsFiniteSet(before) /\ Cardinality(before) <= i - from
  BY <1>4, <1>5, FS_Subset
<1>7. Cardinality(before) \in Nat
  BY <1>6, FS_CardinalityType
<1>8. Cardinality(before) < BatchSize
  BY <1>1, <1>6, <1>7
<1>9. QED  BY <1>8 DEF BatchAt

LEMMA RunInvStep ==
  ASSUME TypeInv, RunInv, [Next]_vars, [Undisturbed]_vars
  PROVE  RunInv'
<1> USE RegistryAssumption
<1>u. CASE UNCHANGED vars
  BY <1>u, RunInvKept DEF vars
<1> SUFFICES ASSUME Next, Undisturbed PROVE RunInv'
  BY <1>u
<1>0. /\ job \in Job /\ JobOK /\ minted \in Nat /\ Contiguous
      /\ Registered \subseteq MintedIndices /\ MintedIndices \subseteq Nat
      /\ UNCHANGED <<minted, history, faults>>
      /\ MintedIndices' = MintedIndices
  BY TypeInvFacts DEF RunInv, Undisturbed, MintedIndices
<1>1. \A i : OwnerOf(i)' = OwnerOf(i)
  BY <1>0 DEF OwnerOf
<1>2. ASSUME UNCHANGED wallets
      PROVE  /\ Registered' = Registered /\ Contiguous'
             /\ \A n : FilledBelow(n) => \A k \in 0 .. n - 1 : k \in Registered'
             /\ \A n : CurrentBelow(n) => \A i \in MintedIndices :
                  i < n => i \in Registered' /\ wallets'[i] = OwnerOf(i)
  BY <1>0, <1>2 DEF Registered, Contiguous, FilledBelow, CurrentBelow
<1>3. CASE ~RunJob
  <2>1. UNCHANGED wallets
    BY <1>3 DEF Undisturbed
  <2>2. ~FailJob /\ ~RestartProcessing
    <3>1. faults \in Nat
      BY DEF TypeInv, TypeOK
    <3>2. faults' # faults + 1
      BY <1>0, <3>1
    <3>3. QED  BY <3>2 DEF FailJob, RestartProcessing
  <2>3. UNCHANGED job
    BY <1>3, <2>2
    DEF Next, Chain, CreateWallet, TransferWallet, Serve, HandleWalletCreatedEvent,
        GetCurrentNftIndex, GetMichiNFTOwnerBatched, BackfillMissingWalletCreates,
        SetMichiWallet, GetOwnedMichiWallets, GetWalletNFTs, SetOwnedWallets, Fail
  <2>4. QED  BY <1>0, <2>1, <2>3, RunInvKept
<1>4. CASE ProcessChainMichiPoints
  <2>1. /\ UNCHANGED wallets
        /\ job' = [IdleJob EXCEPT !.pc = "getCurrentIndex", !.minted = minted]
    BY <1>4 DEF ProcessChainMichiPoints
  <2>2. job' = [pc |-> "getCurrentIndex", minted |-> minted, from |-> 0, batch |-> {},
                rows |-> NoRows]
    BY <2>1 DEF IdleJob
  <2>3. job'.pc = "getCurrentIndex" /\ job'.minted = minted' /\ job'.from = 0
    BY <1>0, <2>2
  <2>4. Contiguous'
    BY <1>2, <2>1
  <2>5. QED  BY <2>3, <2>4 DEF RunInv
<1>5. CASE JobGetCurrentNftIndex
  <2>1. PICK current \in Registered \cup {-1} :
          job' = IF current < job.minted - 1
                   THEN [job EXCEPT !.pc = "getOwners", !.from = current + 1]
                   ELSE [job EXCEPT !.pc = "getBatch"]
    BY <1>5 DEF JobGetCurrentNftIndex, BackfillsFrom
  <2>2. UNCHANGED wallets /\ job.pc = "getCurrentIndex"
    BY <1>5 DEF JobGetCurrentNftIndex
  <2>3. current \in Int /\ job.minted = minted /\ job.from = 0
    <3>1. \A k \in Registered : k \in Nat
      BY <1>0
    <3>2. current \in Int
      BY <3>1
    <3>3. QED  BY <2>2, <3>2 DEF RunInv
  <2>4. CASE current < minted - 1
    <3>1. /\ job'.pc = "getOwners" /\ job'.from = current + 1 /\ job'.minted = minted
      BY <1>0, <2>1, <2>3, <2>4 DEF Job
    <3>2. FilledBelow(current + 1)
      BY <1>0, <2>3, FilledBelowCurrent
    <3>3. FilledBelow(job.from)'
      BY <1>2, <2>2, <3>1, <3>2 DEF FilledBelow
    <3>4. QED  BY <1>0, <1>2, <2>2, <3>1, <3>3 DEF RunInv
  <2>5. CASE ~(current < minted - 1)
    <3>1. /\ job'.pc = "getBatch" /\ job'.from = 0 /\ job'.minted = minted
      BY <1>0, <2>1, <2>3, <2>5 DEF Job
    <3>2. FilledBelow(minted)
      <4>1. minted \in Int /\ minted <= current + 1
        BY <1>0, <2>3, <2>5
      <4>2. QED  BY <1>0, <4>1, FilledBelowCurrent
    <3>3. FilledBelow(minted)'
      BY <1>0, <1>2, <2>2, <3>2 DEF FilledBelow
    <3>4. CurrentBelow(job.from)'
      <4>1. \A i \in MintedIndices : ~(i < 0)
        BY <1>0
      <4>2. QED  BY <1>0, <3>1, <4>1 DEF CurrentBelow
    <3>5. QED  BY <1>0, <1>2, <2>2, <3>1, <3>3, <3>4 DEF RunInv
  <2>6. QED  BY <2>4, <2>5
<1>6. CASE JobGetMichiNFTOwnerBatched
  <2>1. /\ UNCHANGED wallets /\ job.pc = "getOwners"
        /\ job'.pc = "backfill" /\ job'.from = job.from /\ job'.minted = job.minted
    BY <1>0, <1>6 DEF JobGetMichiNFTOwnerBatched, Job
  <2>2. FilledBelow(job.from) /\ job.minted = minted
    BY <2>1 DEF RunInv
  <2>3. FilledBelow(job.from)'
    BY <1>2, <2>1, <2>2 DEF FilledBelow
  <2>4. QED  BY <1>0, <1>2, <2>1, <2>2, <2>3 DEF RunInv
<1>7. CASE JobBackfillMissingWalletCreates
  <2>1. /\ job.pc = "backfill" /\ wallets' = Upserted(job.rows)
        /\ job'.pc = "getBatch" /\ job'.from = 0 /\ job'.minted = job.minted
    BY <1>0, <1>7 DEF JobBackfillMissingWalletCreates, Job
  <2>2. /\ job.rows \in Rows /\ DOMAIN job.rows \subseteq MintedIndices
        /\ DOMAIN job.rows = job.from .. job.minted - 1
        /\ job.from \in Nat /\ job.minted = minted /\ FilledBelow(job.from)
    BY <1>0, <2>1 DEF JobOK, Job, RunInv
  <2>3. Registered' = Registered \cup (job.from .. minted - 1)
    BY <1>0, <2>1, <2>2, Upserting
  <2>4. Contiguous' /\ FilledBelow(minted)'
    <3>1. \A k \in 0 .. minted - 1 : k \in Registered'
      BY <1>0, <2>2, <2>3 DEF FilledBelow
    <3>2. QED  BY <1>0, <2>2, <2>3, <3>1, FillingRange DEF FilledBelow
  <2>5. CurrentBelow(job.from)'
    <3>1. \A i \in MintedIndices : ~(i < 0)
      BY <1>0
    <3>2. QED  BY <1>0, <2>1, <3>1 DEF CurrentBelow
  <2>6. QED  BY <1>0, <2>1, <2>2, <2>4, <2>5 DEF RunInv
<1>8. CASE GetWalletsByIndex
  <2> DEFINE batch == BatchAt(job.from)
  <2>1. /\ UNCHANGED wallets /\ job.pc = "getBatch"
        /\ job' = IF batch = {} THEN IdleJob
                                ELSE [job EXCEPT !.pc = "syncOwners", !.batch = batch]
    BY <1>8 DEF GetWalletsByIndex
  <2>2. /\ FilledBelow(minted) /\ CurrentBelow(job.from) /\ job.minted = minted
        /\ job.from \in Nat
    BY <1>0, <2>1 DEF RunInv, Job
  <2>3. \A i \in MintedIndices : i \in Registered
    BY <2>2 DEF FilledBelow, MintedIndices
  <2>4. \A i \in MintedIndices :
          job.from <= i /\ i < job.from + BatchSize => i \in batch
    BY <2>2, <2>3, BatchIsFull
  <2>5. \A i \in batch : {k \in batch : k < i} = job.from .. i - 1
    BY <1>0, <2>2, BatchIsInterval
  <2>6. FilledBelow(minted)' /\ \A i \in MintedIndices :
          i < job.from => i \in Registered' /\ wallets'[i] = OwnerOf(i)
    BY <1>0, <1>2, <2>1, <2>2 DEF FilledBelow
  <2>7. CASE batch = {}
    <3>1. job'.pc = "idle"
      BY <2>1, <2>7 DEF IdleJob
    <3>2. \A i \in MintedIndices : i < job.from
      <4>1. SUFFICES ASSUME NEW i \in MintedIndices, job.from <= i PROVE FALSE
        BY <1>0, <2>2
      <4>2. job.from \in MintedIndices
        BY <1>0, <2>2, <4>1 DEF MintedIndices
      <4>3. job.from < job.from + BatchSize
        BY <2>2
      <4>4. job.from \in batch
        BY <2>2, <2>4, <4>2, <4>3
      <4>5. QED  BY <2>7, <4>4
    <3>3. AllCurrent'
      BY <1>0, <1>1, <2>6, <3>2 DEF AllCurrent, MintedIndices
    <3>4. QED  BY <1>2, <2>1, <3>1, <3>3 DEF RunInv
  <2>8. CASE batch # {}
    <3>1. /\ job'.pc = "syncOwners" /\ job'.batch = batch /\ job'.from = job.from
          /\ job'.minted = job.minted
      BY <1>0, <2>1, <2>8 DEF Job
    <3> HIDE DEF batch
    <3>2. CurrentBelow(job.from)'
      BY <1>0, <1>1, <2>6, <3>1 DEF CurrentBelow
    <3>3. QED  BY <1>0, <1>2, <2>1, <2>2, <2>4, <2>5, <2>6, <3>1, <3>2 DEF RunInv
  <2>9. QED  BY <2>7, <2>8
<1>9. CASE SyncWalletOwners
  <2> DEFINE rows == [i \in job.batch |-> SyncedOwner(i)]
  <2>1. /\ UNCHANGED wallets /\ job.pc = "syncOwners"
        /\ job'.pc = "setOwners" /\ job'.rows = rows /\ job'.batch = job.batch
        /\ job'.from = job.from /\ job'.minted = job.minted
    BY <1>0, <1>9 DEF SyncWalletOwners, Job
  <2>2. /\ FilledBelow(minted) /\ CurrentBelow(job.from) /\ job.minted = minted
        /\ \A i \in MintedIndices :
             job.from <= i /\ i < job.from + BatchSize => i \in job.batch
        /\ \A i \in job.batch : {k \in job.batch : k < i} = job.from .. i - 1
    BY <2>1 DEF RunInv
  <2>3. job.from \in Nat /\ job.batch \in SUBSET Nat /\ \A k \in job.batch : job.from <= k
    <3>1. job.from \in Nat
      BY <1>0 DEF Job
    <3>2. job.batch \subseteq Registered /\ \A k \in job.batch : job.from <= k
      BY <1>0 DEF JobOK
    <3>3. QED  BY <1>0, <3>1, <3>2
  <2>4. ASSUME NEW i \in job.batch
        PROVE  rows[i] = OwnerOf(i)
    <3>1. Cardinality({k \in job.batch : k < i}) = i - job.from
      BY <2>2, <2>3, PlaceInBatch
    <3>2. i \in Nat /\ job.from + Cardinality({k \in job.batch : k < i}) = i
      BY <2>3, <3>1
    <3>3. QED  BY <3>2 DEF SyncedOwner
  <2>5. DOMAIN rows = job.batch
    OBVIOUS
  <2> HIDE DEF rows
  <2>6. FilledBelow(minted)'
    BY <1>0, <1>2, <2>1, <2>2 DEF FilledBelow
  <2>7. CurrentBelow(job.from)'
    BY <1>0, <1>1, <1>2, <2>1, <2>2 DEF CurrentBelow
  <2>8. QED
    BY <1>0, <1>1, <1>2, <2>1, <2>2, <2>4, <2>5, <2>6, <2>7 DEF RunInv
<1>10. CASE SetOwners
  <2>1. /\ job.pc = "setOwners" /\ wallets' = Upserted(job.rows)
        /\ job'.pc = "getBatch" /\ job'.from = job.from + BatchSize
        /\ job'.minted = job.minted
    BY <1>0, <1>10 DEF SetOwners, Job, NextBatch
  <2>2. /\ FilledBelow(minted) /\ CurrentBelow(job.from) /\ job.minted = minted
        /\ \A i \in MintedIndices :
             job.from <= i /\ i < job.from + BatchSize => i \in job.batch
        /\ DOMAIN job.rows = job.batch
        /\ \A i \in job.batch : job.rows[i] = OwnerOf(i)
    BY <2>1 DEF RunInv
  <2>3. /\ job.rows \in Rows /\ DOMAIN job.rows \subseteq MintedIndices
        /\ DOMAIN job.rows \subseteq Registered /\ job.from \in Nat
    <3>1. job.rows \in Rows /\ job.from \in Nat
      BY <1>0 DEF Job
    <3>2. DOMAIN job.rows \subseteq MintedIndices /\ DOMAIN job.rows \subseteq Registered
      BY <1>0, <2>1 DEF JobOK
    <3>3. QED  BY <3>1, <3>2
  <2>4. /\ Registered' = Registered
        /\ \A i \in Registered' :
             wallets'[i] = IF i \in DOMAIN job.rows THEN job.rows[i] ELSE wallets[i]
    <3>1. /\ Registered' = Registered \cup DOMAIN job.rows
          /\ \A i \in Registered' :
               wallets'[i] = IF i \in DOMAIN job.rows THEN job.rows[i] ELSE wallets[i]
      BY <1>0, <2>1, <2>3, Upserting
    <3>2. Registered \cup DOMAIN job.rows = Registered
      BY <2>3
    <3>3. QED  BY <3>1, <3>2
  <2>5. Contiguous' /\ FilledBelow(minted)'
    <3>1. Registered' = Registered /\ Contiguous /\ UNCHANGED minted /\ FilledBelow(minted)
      BY <1>0, <2>2, <2>4
    <3>2. Contiguous'
      BY <3>1 DEF Contiguous
    <3>3. FilledBelow(minted)'
      BY <3>1 DEF FilledBelow
    <3>4. QED  BY <3>2, <3>3
  <2>6. ASSUME NEW i \in MintedIndices, i < job.from + BatchSize
        PROVE  i \in Registered' /\ wallets'[i] = OwnerOf(i)
    <3>1. i \in Registered'
      BY <2>2, <2>4 DEF FilledBelow, MintedIndices
    <3>2. CASE i \in job.batch
      BY <2>2, <2>4, <3>1, <3>2
    <3>3. CASE i \notin job.batch
      <4>1. i < job.from
        BY <1>0, <2>2, <2>3, <2>6, <3>3
      <4>2. wallets[i] = OwnerOf(i)
        BY <2>2, <4>1 DEF CurrentBelow
      <4>3. QED  BY <2>2, <2>4, <3>1, <3>3, <4>2
    <3>4. QED  BY <3>2, <3>3
  <2>7. CurrentBelow(job.from)'
    BY <1>0, <1>1, <2>1, <2>6 DEF CurrentBelow
  <2>8. QED  BY <1>0, <2>1, <2>2, <2>5, <2>7 DEF RunInv
<1>11. QED
  BY <1>3, <1>4, <1>5, <1>6, <1>7, <1>8, <1>9, <1>10 DEF RunJob

\* Whenever the job is started on a table without a gap, and until it is done
\* nothing is minted or transferred, nothing fails and no handler writes, it
\* leaves every wallet registered with its present owner, and so does every
\* later run.
THEOREM CompleteRunIsCurrent ==
  Spec => [](JobStarted /\ Contiguous /\ [][Undisturbed]_vars
               => [](job.pc = "idle" => AllCurrent))
<1>1. TypeInv /\ JobStarted /\ Contiguous => RunInv
  BY RunInvStarts
<1>2. TypeInv /\ RunInv /\ [Next]_vars /\ [Undisturbed]_vars => RunInv'
  BY RunInvStep
<1>3. RunInv => (job.pc = "idle" => AllCurrent)
  BY DEF RunInv
<1>4. QED  BY <1>1, <1>2, <1>3, TypeInvInit, TypeInvStep, PTL DEF Spec
============================================================================
