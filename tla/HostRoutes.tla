------------------------------ MODULE HostRoutes ------------------------------
(***************************************************************************)
(* How a relay tells a neighbour which node it hosts (host_routes.go): the *)
(* announcements of registration, of unregistration and of the periodic    *)
(* renewal take their sequence numbers and enter the broadcast queue on    *)
(* their own, the queue drops what it cannot hold, a send that outlives    *)
(* its three seconds may be overtaken, the control link breaks and comes   *)
(* back, leases run out.  One origin, one target, one neighbour; relays    *)
(* that pass routes on (hostRouteMultipath) are left out.                  *)
(*                                                                         *)
(* newerHostRoute only compares sequence numbers, so every step renumbers  *)
(* the ones in the state by their rank: the origin may renew for ever.     *)
(***************************************************************************)
EXTENDS Naturals, Sequences, FiniteSets, SequencesExt

CONSTANTS
    hostRouteBroadcastQueueCapacity,
    MaxInFlight    \* bound: announcements on the link at a time

VARIABLES
    hosted,        \* natNodes of the origin holds the target
    sequence,      \* hostRouteSequence[target]
    own,           \* the origin's own record
    publisher,     \* publishLocalHostRoute in the registration and the renewal goroutine
    broadcasts,    \* hostRouteBroadcastQueue
    flight,        \* announcements on the control link
    linkUp,        \* the neighbour counts a control link of the origin
    purge,         \* its removeHostRoutesVia is under way
    route          \* its record of the target

routeVars == <<hosted, sequence, own, publisher, broadcasts, flight, linkUp, purge, route>>

NoRoute == [seq |-> 0, active |-> FALSE]
NotPublishing == [pc |-> "idle", ann |-> NoRoute]
Publishers == {"registration", "renewal"}

-----------------------------------------------------------------------------

\* The rank of a sequence number among those the given state holds.
RankIn(seqs, v) == IF v = 0 THEN 0 ELSE Cardinality({u \in seqs : 0 < u /\ u <= v})

\* The next state, its sequence numbers renumbered in order.
Becomes(seq2, own2, pub2, queue2, flight2, route2) ==
    \E seqs \in {{seq2, own2.seq, route2.seq} \cup {pub2[p].ann.seq : p \in Publishers}
                 \cup {m.seq : m \in ToSet(queue2)} \cup {m.seq : m \in flight2}} :
        LET R(m) == [m EXCEPT !.seq = RankIn(seqs, m.seq)]
        IN /\ sequence' = RankIn(seqs, seq2)
           /\ own' = R(own2) /\ route' = R(route2)
           /\ publisher' = [p \in Publishers |-> [pub2[p] EXCEPT !.ann = R(pub2[p].ann)]]
           /\ broadcasts' = [i \in DOMAIN queue2 |-> R(queue2[i])]
           /\ flight' = {R(m) : m \in flight2}

\* newerHostRoute within one incarnation; a record that was deleted is no bar.
Newer(current, incoming) == IF incoming.seq > current.seq THEN incoming ELSE current

-----------------------------------------------------------------------------
(* The origin.                                                               *)

\* onRegister and onUnregister, serialised per node: natNodes changes first.
RegistrationChanges ==
    /\ publisher["registration"].pc = "idle"
    /\ hosted' = ~hosted
    /\ publisher' = [publisher EXCEPT !["registration"].pc = "begin",
                                      !["registration"].ann.active = ~hosted]
    /\ UNCHANGED <<sequence, own, broadcasts, flight, linkUp, purge, route>>

\* Mutant: the renewal goes on with the nodes of its first tick.
RenewableAlways == TRUE

\* HostedNatNodes at the tick holds the target.
Renewable == hosted

\* A tick of maintainHostRoutes: the hosted nodes are listed ...
RenewalTick ==
    /\ publisher["renewal"].pc = "idle" /\ Renewable
    /\ publisher' = [publisher EXCEPT !["renewal"] = [pc |-> "begin", ann |-> [NoRoute EXCEPT !.active = TRUE]]]
    /\ UNCHANGED <<hosted, sequence, own, broadcasts, flight, linkUp, purge, route>>

\* ... and published later, whatever happened to them since.  publishLocalHostRoute
\* takes the next sequence number under the node's lock;
TakesSequence(p) ==
    /\ publisher[p].pc = "begin"
    /\ Becomes(sequence + 1, own,
               [publisher EXCEPT ![p].pc = "numbered", ![p].ann.seq = sequence + 1],
               broadcasts, flight, route)
    /\ UNCHANGED <<hosted, linkUp, purge>>

\* Mutant: announcements are only recorded locally.
EnqueuedNever(ann) == broadcasts

\* broadcastControl drops an announcement the queue has no room for.
Enqueued(ann) ==
    IF Len(broadcasts) < hostRouteBroadcastQueueCapacity THEN Append(broadcasts, ann)
    ELSE broadcasts

\* it is signed, accepted as the own record if newer, and enqueued.
Publishes(p) ==
    /\ publisher[p].pc = "numbered"
    /\ Becomes(sequence, Newer(own, publisher[p].ann), [publisher EXCEPT ![p] = NotPublishing],
               Enqueued(publisher[p].ann), flight, route)
    /\ UNCHANGED <<hosted, linkUp, purge>>

\* runHostRouteBroadcasts, in order; without a link the announcement is lost.
Delivers ==
    /\ broadcasts # <<>>
    /\ linkUp => Cardinality(flight) < MaxInFlight
    /\ Becomes(sequence, own, publisher, Tail(broadcasts),
               IF linkUp THEN flight \cup {Head(broadcasts)} ELSE flight, route)
    /\ UNCHANGED <<hosted, linkUp, purge>>

-----------------------------------------------------------------------------
(* The neighbour.                                                            *)

\* receiveHostRoutes; a send the worker gave up may arrive after a later one.
Receives(m) ==
    /\ m \in flight
    /\ Becomes(sequence, own, publisher, broadcasts, flight \ {m}, Newer(route, m))
    /\ UNCHANGED <<hosted, linkUp, purge>>

\* The last control link goes: what is on it is lost; relayLinkDown, and
\* removeHostRoutesVia after it.
LinkGoesDown ==
    /\ linkUp
    /\ linkUp' = FALSE /\ purge' = TRUE
    /\ Becomes(sequence, own, publisher, broadcasts, {}, route)
    /\ UNCHANGED hosted

RemovesRoutesVia ==
    /\ purge
    /\ purge' = FALSE
    /\ Becomes(sequence, own, publisher, broadcasts, flight, NoRoute)
    /\ UNCHANGED <<hosted, linkUp>>

\* A new link: after the HELLO the origin sends what it announces (syncHostRoutes).
LinkComesUp ==
    /\ ~linkUp
    /\ linkUp' = TRUE
    /\ Becomes(sequence, own, publisher, broadcasts, IF own.active THEN {own} ELSE {}, route)
    /\ UNCHANGED <<hosted, purge>>

\* expireHostRoutes at either relay, when the lease of the record is over.
NeighbourExpires ==
    /\ route # NoRoute
    /\ Becomes(sequence, own, publisher, broadcasts, flight, NoRoute)
    /\ UNCHANGED <<hosted, linkUp, purge>>

OriginExpires ==
    /\ own # NoRoute
    /\ Becomes(sequence, NoRoute, publisher, broadcasts, flight, route)
    /\ UNCHANGED <<hosted, linkUp, purge>>

-----------------------------------------------------------------------------

RouteInit ==
    /\ hosted = FALSE /\ sequence = 0 /\ own = NoRoute
    /\ publisher = [p \in Publishers |-> NotPublishing]
    /\ broadcasts = <<>> /\ flight = {} /\ linkUp = FALSE /\ purge = FALSE /\ route = NoRoute

RouteNext ==
    \/ RegistrationChanges \/ RenewalTick \/ Delivers
    \/ \E p \in Publishers : TakesSequence(p) \/ Publishes(p)
    \/ \E m \in flight : Receives(m)
    \/ LinkGoesDown \/ RemovesRoutesVia \/ LinkComesUp \/ NeighbourExpires \/ OriginExpires

-----------------------------------------------------------------------------
(* Properties.                                                              *)

\* A node that stays hosted behind a control link that stays up is known to
\* the neighbour again and again, even if announcements were dropped, overtaken
\* or removed by the late cleanup of an earlier link: the renewal repairs it.
OnlineKnown == <>[](hosted /\ linkUp) => []<>(route.active)

\* A node that is no longer hosted is forgotten for good, even if a renewal
\* listed it just before it left and announced it after its withdrawal.
OfflineForgotten == <>[](~hosted) => <>[](~route.active)
=============================================================================
