----------------------------- MODULE MCServices -----------------------------
(***************************************************************************)
(* Four parts that share no table and no call: the points of other         *)
(* platforms, the listener, the sync of streams and the pages of the       *)
(* staleness job.  In a behaviour one of them moves, the others rest.      *)
(***************************************************************************)
EXTENDS ThirdPartyPoints, EventsListener, StreamSync, StalenessPaging, TLC

CONSTANTS helper, marketplace, formerHelper, renzo

VARIABLE part

services ==
  <<part, thirdPartyVars, listenerVars, streamSyncVars, pagingVars>>

\* The last chain has no such contract.
Contracts == <<helper, marketplace, NoAddress>>

\* Group keys are told apart within a token only: the best order of each token
\* is in group 1.
BookLayouts ==
  {layout \in [Book -> Tokens \X GroupKeys] :
     \A o \in Book : (\A x \in Book : layout[x][1] = layout[o][1] => o <= x) => layout[o][2] = 1}

\* A part at rest is in one of its initial states, the same in all behaviours.
Init ==
  /\ part \in {"thirdParty", "listener", "streams", "paging"}
  /\ ThirdPartyInit /\ ListenerInit
  /\ part = "streams" \/ streams = [s \in Streams |-> {formerHelper}]
  /\ StreamSyncInit
  /\ part = "paging" \/ (order = [o \in Book |-> <<1, 1>>] /\ stale = {})
  /\ PagingInit

ThirdPartyMoves ==
  part = "thirdParty" /\ UNCHANGED <<part, listenerVars, streamSyncVars, pagingVars>>

ListenerMoves ==
  part = "listener" /\ UNCHANGED <<part, thirdPartyVars, streamSyncVars, pagingVars>>

StreamsMove ==
  part = "streams" /\ UNCHANGED <<part, thirdPartyVars, listenerVars, pagingVars>>

PagingMoves ==
  part = "paging" /\ UNCHANGED <<part, thirdPartyVars, listenerVars, streamSyncVars>>

Next ==
  \/ ThirdPartyMoves /\ ThirdPartyNext
  \/ ListenerMoves /\ ListenerNext
  \/ StreamsMove /\ StreamSyncNext
  \/ PagingMoves /\ PagingNext

\* The jobs go on while the process is up, and cron starts them again.
Fairness ==
  /\ WF_services(ThirdPartyMoves /\ Collect)
  /\ WF_services(StreamsMove /\ SyncMoralisStreams)
  /\ WF_services(PagingMoves /\ PagingNext)

Spec == Init /\ [][Next]_services /\ Fairness

TypeOK ==
  ThirdPartyTypeOK /\ ListenerTypeOK /\ StreamSyncTypeOK /\ PagingTypeOK
=============================================================================
