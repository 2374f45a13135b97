----------------------------- MODULE StreamSync -----------------------------
(***************************************************************************)
(* The hourly job that has a Moralis stream for every event of every live  *)
(* chain, each watching the one contract that emits the event.  Each       *)
(* action is one call to Moralis.  Streams may be there from earlier       *)
(* deployments, with the addresses of earlier contracts.  (The recreation  *)
(* of streams in development is left out.)                                 *)
(***************************************************************************)
EXTENDS Naturals, Sequences

CONSTANTS
  Wanted,         \* Wanted[s]: the contract of the stream s, in the order of the job
  OldAddresses,   \* addresses of earlier contracts
  MaxSyncFaults,  \* bound: calls that fail, and restarts
  NoAddress,      \* the chain has no such contract: the address is undefined
  Absent          \* no stream

Streams == DOMAIN Wanted

WatchedAddresses == OldAddresses \cup {Wanted[s] : s \in Streams}

ASSUME StreamSyncAssumption ==
  /\ Wanted \in Seq({Wanted[s] : s \in Streams}) /\ Wanted # <<>>
  /\ NoAddress \notin OldAddresses /\ MaxSyncFaults \in Nat
  /\ \A watched \in SUBSET WatchedAddresses : watched # Absent

VARIABLES
  streams,    \* what each stream watches
  sync,       \* the job
  syncFaults  \* for the bound

streamSyncVars == <<streams, sync, syncFaults>>

Sync ==
  [pc: {"idle", "find", "listAddresses", "remove"},
   stream: Streams,
   found: SUBSET Streams,         \* those that listStreams has returned
   listed: SUBSET WatchedAddresses,      \* what listStreamAddresses has returned
   foreign: SUBSET WatchedAddresses]     \* of these, the ones left to remove

IdleSync == [pc |-> "idle", stream |-> 1, found |-> {}, listed |-> {}, foreign |-> {}]

StreamSyncTypeOK ==
  /\ streams \in [Streams -> (SUBSET (WatchedAddresses \ {NoAddress})) \cup {Absent}]
  /\ sync \in Sync
  /\ syncFaults \in 0 .. MaxSyncFaults

StreamSyncInit ==
  /\ streams \in [Streams -> (SUBSET (WatchedAddresses \ {NoAddress})) \cup {Absent}]
  /\ sync = IdleSync
  /\ syncFaults = 0

----------------------------------------------------------------------------
ListStreams ==
  /\ sync.pc = "idle"
  /\ sync' = [IdleSync EXCEPT !.pc = "find",
                              !.found = {s \in Streams : streams[s] # Absent}]
  /\ UNCHANGED <<streams, syncFaults>>

\* The one that was listed, or createStream.
FindStream ==
  /\ sync.pc = "find"
  /\ streams' = IF sync.stream \in sync.found THEN streams
                ELSE [streams EXCEPT ![sync.stream] = {}]
  /\ sync' = [sync EXCEPT !.pc = "listAddresses"]
  /\ UNCHANGED syncFaults

MutListStreamAddresses ==  \* every address is taken for a foreign one
  /\ sync.pc = "listAddresses"
  /\ LET watched == streams[sync.stream]  address == Wanted[sync.stream] IN
     sync' = IF address = NoAddress /\ watched # {} THEN IdleSync
             ELSE [sync EXCEPT !.pc = "remove", !.listed = watched, !.foreign = watched]
  /\ UNCHANGED <<streams, syncFaults>>

\* Each listed address is compared with the lower case of the wanted one: when
\* that is undefined and there is any to compare it with, the run ends.
ListStreamAddresses ==
  /\ sync.pc = "listAddresses"
  /\ LET watched == streams[sync.stream]  address == Wanted[sync.stream] IN
     sync' = IF address = NoAddress /\ watched # {} THEN IdleSync
             ELSE [sync EXCEPT !.pc = "remove", !.listed = watched,
                               !.foreign = watched \ {address}]
  /\ UNCHANGED <<streams, syncFaults>>

\* For each foreign address the job removes its own; when the stream does not
\* have that, Moralis may do nothing or fail, which ends the run.
RemoveAddressFromStream ==
  /\ sync.pc = "remove"
  /\ \E a \in sync.foreign : LET s == sync.stream IN
       \/ /\ streams' = [streams EXCEPT ![s] = @ \ {Wanted[s]}]
          /\ sync' = [sync EXCEPT !.foreign = @ \ {a}]
       \/ /\ Wanted[s] \notin streams[s]
          /\ sync' = IdleSync
          /\ UNCHANGED streams
  /\ UNCHANGED syncFaults

\* Unless it was listed, even if removed since; then on to the next stream.
AddAddressToStream ==
  /\ sync.pc = "remove" /\ sync.foreign = {}
  /\ Wanted[sync.stream] # NoAddress
  /\ LET s == sync.stream IN
     /\ streams' = IF Wanted[s] \in sync.listed THEN streams
                   ELSE [streams EXCEPT ![s] = @ \cup {Wanted[s]}]
     /\ sync' = IF s = Len(Wanted) THEN IdleSync
                ELSE [IdleSync EXCEPT !.pc = "find", !.stream = s + 1, !.found = sync.found]
  /\ UNCHANGED syncFaults

\* To a stream without addresses the job adds the undefined one too: Moralis
\* rejects it, which ends the run.
RejectUndefinedAddress ==
  /\ sync.pc = "remove" /\ sync.foreign = {}
  /\ Wanted[sync.stream] = NoAddress
  /\ sync' = IdleSync
  /\ UNCHANGED <<streams, syncFaults>>

\* Another call fails, or the processing service restarts.
FailSync ==
  /\ sync.pc # "idle"
  /\ syncFaults < MaxSyncFaults
  /\ syncFaults' = syncFaults + 1
  /\ sync' = IdleSync
  /\ UNCHANGED streams

SyncMoralisStreams ==
  \/ ListStreams \/ FindStream \/ ListStreamAddresses \/ RemoveAddressFromStream
  \/ AddAddressToStream \/ RejectUndefinedAddress

StreamSyncNext == SyncMoralisStreams \/ FailSync

StreamSyncSpec == StreamSyncInit /\ [][StreamSyncNext]_streamSyncVars

----------------------------------------------------------------------------
(* Properties.                                                             *)

OnlyItsOwn(s) == streams[s] = Absent \/ streams[s] \subseteq {Wanted[s]}

\* A stream is set up once and for all, whatever has failed before, if neither
\* it nor one before it watches the address of an earlier contract or has none
\* to watch.  (With a foreign address a stream loses its own every other hour,
\* and may keep the later ones from being set up, as one without contract does.)
WatchedUnlessForeign ==
  <>[](\A s \in Streams :
         (\A r \in 1 .. s : OnlyItsOwn(r) /\ Wanted[r] # NoAddress)
         => streams[s] = {Wanted[s]})
=============================================================================
