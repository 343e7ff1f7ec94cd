--------------------------- MODULE CrossRelayBridge ---------------------------
(***************************************************************************)
(* The cross-relay bridge of one business connection (relay_node.go        *)
(* findAndBridge, doBridge, findHostRelay; StreamBridge.go): the legs of   *)
(* the connection arrive concurrently at a relay that does not host the    *)
(* target, the first claims the entry of the connection, asks the other    *)
(* relays where the target is, dials and starts the bridge; the others     *)
(* wait and join it.                                                        *)
(***************************************************************************)
EXTENDS Naturals, FiniteSets

CONSTANTS
    BridgeLegs,    \* legs that may arrive; a closed one may be dialled again
    CtlLinks,      \* control links to other relays
    MaxEntries     \* bound: entries of the connection over time

ASSUME BridgeAssumption == MaxEntries \in Nat

VARIABLES
    bleg,          \* by leg: its handler's step and the entry it holds
    entry,         \* localLegs[connID]: the present entry, 0 for none
    entries,       \* by entry: bridging, bridged, kcpReady closed
    bridge,        \* by entry, the CrossRelayBridge: its state and its local legs
    find,          \* by entry, the FIND: links unresolved, answers on their way
    madeEntries    \* entries made so far

bridgeVars == <<bleg, entry, entries, bridge, find, madeEntries>>

BridgeEntries == 1..MaxEntries
NewEntry == [bridging |-> FALSE, bridged |-> FALSE, ready |-> FALSE]
NoBridge == [state |-> "none", legs |-> {}, dualClosed |-> FALSE]
NoFind == [open |-> FALSE, unresolved |-> {}, answers |-> {}]
NewLeg == [pc |-> "new", e |-> 0]
LegTo(l, pc) == bleg' = [bleg EXCEPT ![l].pc = pc]
LegEnds(l) == bleg' = [bleg EXCEPT ![l] = NewLeg]

-----------------------------------------------------------------------------
(* findAndBridge: the entry of the connection.                               *)

Claimable(e) == ~entries[e].bridged /\ ~entries[e].bridging

\* The section under the node's lock: join a bridge that is up, wait for one
\* that is being built, or claim it.
FindAndBridge(l) ==
    /\ bleg[l].pc = "new"
    /\ entry = 0 => madeEntries < MaxEntries
    /\ LET e == IF entry = 0 THEN madeEntries + 1 ELSE entry
           found == [entries EXCEPT ![e] = IF entry = 0 THEN NewEntry ELSE @]
       IN /\ entry' = e
          /\ madeEntries' = IF entry = 0 THEN e ELSE madeEntries
          /\ \/ /\ entries[e].bridged
                /\ bleg' = [bleg EXCEPT ![l] = [pc |-> "splice", e |-> e]]
                /\ entries' = found
             \/ /\ ~entries[e].bridged /\ ~Claimable(e)
                /\ bleg' = [bleg EXCEPT ![l] = [pc |-> "wait", e |-> e]]
                /\ entries' = found
             \/ /\ Claimable(e)
                /\ bleg' = [bleg EXCEPT ![l] = [pc |-> "find", e |-> e]]
                /\ entries' = [found EXCEPT ![e].bridging = TRUE]
    /\ UNCHANGED <<bridge, find>>

\* kcpReady closed: join the bridge the other leg built, or give up.
WaiterWakes(l) ==
    /\ bleg[l].pc = "wait" /\ entries[bleg[l].e].ready
    /\ IF entries[bleg[l].e].bridged THEN LegTo(l, "splice") ELSE LegEnds(l)
    /\ UNCHANGED <<entry, entries, bridge, find, madeEntries>>

\* doBridge's cleanup: the claim is withdrawn, the waiting legs are woken, the
\* entry and the leg are dropped.
Cleanup(l) ==
    LET e == bleg[l].e
    IN /\ entries' = [entries EXCEPT ![e].bridging = FALSE, ![e].ready = TRUE]
       /\ entry' = 0
       /\ find' = [find EXCEPT ![e].open = FALSE]
       /\ LegEnds(l)

-----------------------------------------------------------------------------
(* findHostRelay: routes first, else FIND over every control link.           *)

\* routeNextHops knows a next hop.
RouteKnown(l) ==
    /\ bleg[l].pc = "find" /\ ~find[bleg[l].e].open
    /\ LegTo(l, "dial")
    /\ UNCHANGED <<entry, entries, bridge, find, madeEntries>>

FindStarts(l) ==
    /\ bleg[l].pc = "find" /\ ~find[bleg[l].e].open
    /\ find' = [find EXCEPT ![bleg[l].e] = [NoFind EXCEPT !.open = TRUE, !.unresolved = CtlLinks]]
    /\ UNCHANGED <<bleg, entry, entries, bridge, madeEntries>>

\* FIND_RESP of a request: deliverFindResp drops it once the request is over.
PeerAnswers(e, k, hosts) ==
    /\ find[e].open /\ k \in find[e].unresolved
    /\ find' = [find EXCEPT ![e].answers = @ \cup {<<k, hosts>>}]
    /\ UNCHANGED <<bleg, entry, entries, bridge, madeEntries>>

\* The link cannot send the request: it no longer counts.
FindSendFails(l, k) ==
    /\ bleg[l].pc = "find" /\ find[bleg[l].e].open /\ k \in find[bleg[l].e].unresolved
    /\ find' = [find EXCEPT ![bleg[l].e].unresolved = @ \ {k}]
    /\ UNCHANGED <<bleg, entry, entries, bridge, madeEntries>>

\* An answer of a link that still counts; of a link that does not, it is skipped.
FindAnswered(l, a) ==
    LET f == find[bleg[l].e] IN
    /\ bleg[l].pc = "find" /\ f.open /\ a \in f.answers /\ f.unresolved # {}
    /\ IF a[1] \in f.unresolved /\ a[2]
       THEN /\ LegTo(l, "dial")
            /\ find' = [find EXCEPT ![bleg[l].e] = NoFind]
       ELSE /\ find' = [find EXCEPT ![bleg[l].e].answers = @ \ {a},
                                    ![bleg[l].e].unresolved = @ \ {a[1]}]
            /\ UNCHANGED bleg
    /\ UNCHANGED <<entry, entries, bridge, madeEntries>>

\* Nobody hosts the target, the five seconds are over, or there was no link.
FindFails(l) ==
    /\ bleg[l].pc = "find" /\ find[bleg[l].e].open
    /\ Cleanup(l)
    /\ UNCHANGED <<bridge, madeEntries>>

-----------------------------------------------------------------------------
(* doBridge after the FIND, and SpliceLegWithFlags.                          *)

\* The dial of the first splice, outside the bridge's lock, fails.
DialFailsBridge(l) ==
    /\ bleg[l].pc = "dial"
    /\ Cleanup(l)
    /\ UNCHANGED <<bridge, madeEntries>>

\* ... or succeeds: both frame endpoints exist, the pumps start.
DialStarts(l) ==
    /\ bleg[l].pc = "dial"
    /\ bridge' = [bridge EXCEPT ![bleg[l].e] = [NoBridge EXCEPT !.state = "up", !.legs = {l}]]
    /\ LegTo(l, "built")
    /\ UNCHANGED <<entry, entries, find, madeEntries>>

\* doBridge publishes the bridge, wakes the waiting legs and starts the
\* releaser; the leg now belongs to the bridge.
Bridged(l) ==
    /\ bleg[l].pc = "built"
    /\ entries' = [entries EXCEPT ![bleg[l].e] = [@ EXCEPT !.bridged = TRUE, !.ready = TRUE]]
    /\ LegTo(l, "on")
    /\ UNCHANGED <<entry, bridge, find, madeEntries>>

\* A later leg: the bridge's context is looked at under its lock ...
SpliceChecks(l) ==
    /\ bleg[l].pc = "splice"
    /\ IF bridge[bleg[l].e].state = "up" THEN LegTo(l, "attach") ELSE LegEnds(l)
    /\ UNCHANGED <<entry, entries, bridge, find, madeEntries>>

\* Mutant: a local stream that was closed still takes the leg.
AttachableAlways(e) == TRUE

\* attachStreamCoexist refuses a closed DualStream.
Attachable(e) == ~bridge[e].dualClosed

\* ... and the leg is attached to the local stream after it.
SpliceAttaches(l) ==
    /\ bleg[l].pc = "attach"
    /\ IF Attachable(bleg[l].e)
       THEN /\ bridge' = [bridge EXCEPT ![bleg[l].e].legs = @ \cup {l}]
            /\ LegTo(l, "on")
       ELSE LegEnds(l) /\ UNCHANGED bridge
    /\ UNCHANGED <<entry, entries, find, madeEntries>>

\* A pump ends and cancels the bridge.
BridgePumpEnds(e) ==
    /\ bridge[e].state = "up"
    /\ bridge' = [bridge EXCEPT ![e].state = "done"]
    /\ UNCHANGED <<bleg, entry, entries, find, madeEntries>>

\* releaseLocalBridgeWhenDone: Close ends the local stream with its legs ...
BridgeCloses(e) ==
    /\ bridge[e].state = "done" /\ entries[e].bridged /\ ~bridge[e].dualClosed
    /\ bridge' = [bridge EXCEPT ![e].dualClosed = TRUE, ![e].legs = {}]
    /\ bleg' = [l \in BridgeLegs |->
                  IF l \in bridge[e].legs /\ bleg[l].pc = "on" THEN NewLeg ELSE bleg[l]]
    /\ UNCHANGED <<entry, entries, find, madeEntries>>

\* ... and the entry is removed if it is still this one.
BridgeReleased(e) ==
    /\ bridge[e].state = "done" /\ bridge[e].dualClosed
    /\ entry' = IF entry = e THEN 0 ELSE entry
    /\ bridge' = [bridge EXCEPT ![e].state = "released"]
    /\ UNCHANGED <<bleg, entries, find, madeEntries>>

-----------------------------------------------------------------------------

BridgeInit ==
    /\ bleg = [l \in BridgeLegs |-> NewLeg] /\ entry = 0
    /\ entries = [e \in BridgeEntries |-> NewEntry]
    /\ bridge = [e \in BridgeEntries |-> NoBridge]
    /\ find = [e \in BridgeEntries |-> NoFind] /\ madeEntries = 0

BridgeNext ==
    \/ \E l \in BridgeLegs :
          \/ FindAndBridge(l) \/ WaiterWakes(l) \/ RouteKnown(l) \/ FindStarts(l) \/ FindFails(l)
          \/ DialFailsBridge(l) \/ DialStarts(l) \/ Bridged(l) \/ SpliceChecks(l) \/ SpliceAttaches(l)
          \/ \E k \in CtlLinks : FindSendFails(l, k)
          \/ \E k \in CtlLinks, hosts \in BOOLEAN : FindAnswered(l, <<k, hosts>>)
    \/ \E e \in BridgeEntries :
          \/ BridgePumpEnds(e) \/ BridgeCloses(e) \/ BridgeReleased(e)
          \/ \E k \in CtlLinks, hosts \in BOOLEAN : PeerAnswers(e, k, hosts)

BridgeSpec == BridgeInit /\ [][BridgeNext]_bridgeVars

-----------------------------------------------------------------------------
(* Properties.                                                              *)

\* At most one bridge of the connection is being built or running, whatever
\* the order in which its legs arrive, fail and arrive again: the legs do not
\* open several connections to the hosting relay.
OneBridge ==
    Cardinality({e \in BridgeEntries : bridge[e].state \in {"up", "done"}
                                 \/ \E l \in BridgeLegs : bleg[l].e = e /\ bleg[l].pc \in {"find", "dial"}}) <= 1
    /\ \A e \in BridgeEntries : Cardinality({l \in BridgeLegs : bleg[l].e = e
                                           /\ bleg[l].pc \in {"find", "dial", "built"}}) <= 1

\* A leg that waits for another one's bridge is woken: while its entry is not
\* ready, a leg is at work on that entry.
NoWaiterStuck ==
    \A l \in BridgeLegs :
        bleg[l].pc = "wait" /\ ~entries[bleg[l].e].ready =>
            \E k \in BridgeLegs : bleg[k].e = bleg[l].e /\ bleg[k].pc \in {"find", "dial", "built"}

\* No leg stays attached to a bridge that was released: a leg that joins while
\* the bridge ends is closed with it or refused.
NoLegOnReleasedBridge ==
    \A l \in BridgeLegs : bleg[l].pc = "on" => bridge[bleg[l].e].state # "released"

\* The legs of a connection that reach the relay together or one after the
\* other share one bridge, and none is left behind by it (findAndBridge,
\* doBridge, waitAndJoinLocalBridge).
LegsShareBridge == OneBridge /\ NoWaiterStuck /\ NoLegOnReleasedBridge
=============================================================================
