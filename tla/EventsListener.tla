--------------------------- MODULE EventsListener ---------------------------
(***************************************************************************)
(* EventsListenerService for one chain: it subscribes to the events of the *)
(* chain, one call after the other, reconnects when one fails, and hands   *)
(* every event to its handler.  What the handlers of WalletCreated and     *)
(* Deposit do is in WalletRegistry and TokenBalances; Stake and Unstake    *)
(* add up in staking_info.  Each action is one subscription, one event of  *)
(* the chain or one handler's update.  One wallet stakes, one token at a   *)
(* time.                                                                   *)
(***************************************************************************)
EXTENDS Integers, Sequences

CONSTANTS
  MaxEmitted,  \* bound: events that the chain emits
  MaxFaults    \* bound: failed subscriptions, provider errors and failed handlers

ASSUME ListenerAssumption == MaxEmitted \in Nat /\ MaxFaults \in Nat

\* The events of the two contracts, in the order of the subscriptions.
Events == <<"WalletCreated", "Deposit", "Stake", "Unstake">>

EventNames == {"WalletCreated", "Deposit", "Stake", "Unstake"}

\* What an event adds to the stake.
StakeOf(e) == IF e = "Stake" THEN 1 ELSE IF e = "Unstake" THEN -1 ELSE 0

VARIABLES
  listener,   \* the process: pc and the subscription that comes next
  handlers,   \* how many handlers each event has, all providers counted
  handling,   \* how many handlers of each event have not updated yet
  onChain,    \* the stake in the contract
  recorded,   \* stakedAmount of its row
  failed,     \* starts that have failed since the process came up
  leaked,     \* history: a stake was handed to more than one handler
  missed,     \* history: a stake was handed to none, or lost by its handler
  emitted, listenerFaults   \* for the bounds

listenerVars ==
  <<listener, handlers, handling, onChain, recorded, failed, leaked, missed, emitted,
    listenerFaults>>

Stakes == {"Stake", "Unstake"}

None == [e \in EventNames |-> 0]

ListenerTypeOK ==
  /\ listener \in [pc: {"down", "starting", "waiting", "listening"},
                   next: 1 .. Len(Events) + 1]
  /\ handlers \in [EventNames -> Nat]
  /\ handling \in [EventNames -> Nat]
  /\ onChain \in Int /\ recorded \in Int
  /\ failed \in Nat
  /\ leaked \in BOOLEAN /\ missed \in BOOLEAN
  /\ emitted \in Nat /\ listenerFaults \in Nat

ListenerInit ==
  /\ listener = [pc |-> "down", next |-> 1]
  /\ handlers = None /\ handling = None
  /\ onChain = 0 /\ recorded = 0
  /\ failed = 0 /\ leaked = FALSE /\ missed = FALSE
  /\ emitted = 0 /\ listenerFaults = 0

----------------------------------------------------------------------------
(* The process.                                                            *)

\* onModuleInit, with fresh providers and contracts.
Boot ==
  /\ listener.pc = "down"
  /\ listener' = [pc |-> "starting", next |-> 1]
  /\ failed' = 0
  /\ UNCHANGED <<handlers, handling, onChain, recorded, leaked, missed, emitted, listenerFaults>>

MutSubscribe ==  \* listening before the last subscription is there
  /\ listener.pc = "starting"
  /\ handlers' = [handlers EXCEPT ![Events[listener.next]] = @ + 1]
  /\ listener' = [pc |-> IF listener.next + 1 >= Len(Events) THEN "listening" ELSE "starting",
                  next |-> listener.next + 1]
  /\ UNCHANGED <<handling, onChain, recorded, failed, leaked, missed, emitted, listenerFaults>>

Subscribe ==
  /\ listener.pc = "starting"
  /\ handlers' = [handlers EXCEPT ![Events[listener.next]] = @ + 1]
  /\ listener' = [pc |-> IF listener.next = Len(Events) THEN "listening" ELSE "starting",
                  next |-> listener.next + 1]
  /\ UNCHANGED <<handling, onChain, recorded, failed, leaked, missed, emitted, listenerFaults>>

\* isListening is FALSE again, so that stopListening returns without removing
\* the handlers there are.
SubscribeFails ==
  /\ listener.pc = "starting"
  /\ listenerFaults < MaxFaults
  /\ listenerFaults' = listenerFaults + 1
  /\ failed' = failed + 1
  /\ listener' = [listener EXCEPT !.pc = "waiting"]
  /\ UNCHANGED <<handlers, handling, onChain, recorded, leaked, missed, emitted>>

\* Five seconds later, with new providers and contracts.
Reconnect ==
  /\ listener.pc = "waiting"
  /\ listener' = [pc |-> "starting", next |-> 1]
  /\ UNCHANGED <<handlers, handling, onChain, recorded, failed, leaked, missed, emitted,
                 listenerFaults>>

\* The process ends, and with it all handlers and what they have in hand.
GoDown ==
  /\ listener' = [pc |-> "down", next |-> 1]
  /\ handlers' = None /\ handling' = None
  /\ failed' = 0
  /\ missed' = (missed \/ \E e \in Stakes : handling[e] > 0)
  /\ UNCHANGED <<onChain, recorded, leaked, emitted>>

\* stopListening looks up the provider in a Map as in an object and throws;
\* nobody catches it.
HandleProviderError ==
  /\ listener.pc = "listening"
  /\ listenerFaults < MaxFaults
  /\ listenerFaults' = listenerFaults + 1
  /\ GoDown

----------------------------------------------------------------------------
(* Events.                                                                 *)

\* The chain emits an event, of which every handler is told.
Emit(e) ==
  /\ emitted < MaxEmitted
  /\ emitted' = emitted + 1
  /\ onChain' = onChain + StakeOf(e)
  /\ handling' = [handling EXCEPT ![e] = @ + handlers[e]]
  /\ leaked' = (leaked \/ (e \in Stakes /\ handlers[e] > 1))
  /\ missed' = (missed \/ (e \in Stakes /\ handlers[e] = 0))
  /\ UNCHANGED <<listener, handlers, recorded, failed, listenerFaults>>

MutHandleEvent(e) ==  \* an Unstake is taken for a Stake
  /\ handling[e] > 0
  /\ handling' = [handling EXCEPT ![e] = @ - 1]
  /\ recorded' = recorded + StakeOf(e) * StakeOf(e)
  /\ UNCHANGED <<listener, handlers, onChain, failed, leaked, missed, emitted, listenerFaults>>

\* handleEvent, with updateStakingInfo for a Stake or an Unstake: the upsert
\* increments the row.
HandleEvent(e) ==
  /\ handling[e] > 0
  /\ handling' = [handling EXCEPT ![e] = @ - 1]
  /\ recorded' = recorded + StakeOf(e)
  /\ UNCHANGED <<listener, handlers, onChain, failed, leaked, missed, emitted, listenerFaults>>

\* Nobody catches what a handler throws.
HandleEventFails(e) ==
  /\ handling[e] > 0
  /\ listenerFaults < MaxFaults
  /\ listenerFaults' = listenerFaults + 1
  /\ GoDown

----------------------------------------------------------------------------
ListenerNext ==
  \/ Boot \/ Subscribe \/ SubscribeFails \/ Reconnect \/ HandleProviderError
  \/ \E e \in EventNames : Emit(e) \/ HandleEvent(e) \/ HandleEventFails(e)

ListenerSpec == ListenerInit /\ [][ListenerNext]_listenerVars

----------------------------------------------------------------------------
(* Properties.                                                             *)

InHand == handling["Stake"] - handling["Unstake"]

\* The recorded stake, with the updates that are on their way, is the stake in
\* the contract, in whatever order Stakes and Unstakes are handled; unless one
\* was emitted while it had no handler, was lost with the process, or had the
\* handlers of a start that had failed as well.
StakesAddUp == ~missed /\ ~leaked => recorded + InHand = onChain

\* Whoever listens has a handler for every event, and has not more of them than
\* starts that failed before.
ListeningHearsAll ==
  listener.pc = "listening" =>
    \A e \in EventNames : handlers[e] >= 1 /\ handlers[e] <= failed + 1
=============================================================================
