---------------------------- MODULE MCEventually ----------------------------
(* What must happen in the end, in four components that share no state; an    *)
(* initial state chooses the component that takes the steps, and only its     *)
(* goroutines are fair.                                                       *)
(*   billing  a NAT and a relay lose a connection, an answer or a send        *)
(*   routes   a hosted node, announced over a link that comes and goes        *)
(*   pool     two physical connections of a bridge pool                       *)
(*   metering a connection whose server runs out of balance                   *)
EXTENDS BillingSession, HostRoutes, BridgePool, Metering

CONSTANTS Parts, m1, m2
VARIABLE part

\* The second message fills a window by itself.
MCBytes == [m \in Messages |-> IF m = m2 THEN Window ELSE 1]
MCFaultSets == {{"disconnect", "sendTimeout", "claimTimeout"}}

eventualVars == <<part, vars, routeVars, poolVars, meterVars>>

\* An idle pool's warm connections are any fixed ones.
EventualInit ==
    /\ part \in Parts /\ Init /\ RouteInit /\ PoolInit /\ MeterInit
    /\ part # "pool" => pool.conns = CHOOSE warm \in SUBSET PhysConns : Cardinality(warm) = minWarmConns

EventualNext ==
    \/ part = "billing" /\ Next /\ UNCHANGED <<part, routeVars, poolVars, meterVars>>
    \/ part = "routes" /\ RouteNext /\ UNCHANGED <<part, vars, poolVars, meterVars>>
    \/ part = "pool" /\ PoolNext /\ UNCHANGED <<part, vars, routeVars, meterVars>>
    \/ part = "metering" /\ MeterNext /\ UNCHANGED <<part, vars, routeVars, poolVars>>

\* The goroutines of the component that takes the steps are scheduled.
\*   billing  as Fairness of BillingSession: sends, the connection's two ends,
\*            and the handlers of what arrives; faults are not fair
\*   routes   publishers and senders run, the renewal ticker ticks, what is on
\*            a link that stays up arrives, a lease that is not renewed ends
\*   pool     each manage loop, the closing of what was taken out, and the rest
\*            of Close once it began
\*   metering nothing: only what its steps may never do is checked
EventualSpec ==
    /\ EventualInit /\ [][EventualNext]_eventualVars
    /\ \A m \in Messages :
          /\ WF_vars(part = "billing" /\ Prepare(m)) /\ WF_vars(part = "billing" /\ Write(m))
          /\ WF_vars(part = "billing" /\ Fail(m)) /\ WF_vars(part = "billing" /\ Confirm(m))
          /\ WF_vars(part = "billing" /\ SendTimeout(m) /\ UNCHANGED budget)
          /\ WF_vars(part = "billing" /\ send[m].stage = "written" /\ ObserveRecord(RecordOf(m)))
    /\ WF_vars(part = "billing" /\ \E c \in Conns : Connect(c))
    /\ WF_vars(part = "billing" /\ Disconnect /\ UNCHANGED budget)
    /\ WF_vars(part = "billing" /\ OnSession) /\ WF_vars(part = "billing" /\ OnClaim)
    /\ \A c \in Conns :
          /\ WF_vars(part = "billing" /\ Advertise(c)) /\ WF_vars(part = "billing" /\ OnReady(c))
          /\ WF_vars(part = "billing" /\ OnSettlement(c))
          /\ WF_vars(part = "billing" /\ PeerLost(c) /\ UNCHANGED budget)
    /\ WF_vars(part = "billing" /\ \E o \in observer : OnVoucher(o) \/ ClaimLost(o))
    /\ \A p \in Publishers : /\ WF_routeVars(part = "routes" /\ TakesSequence(p))
                             /\ WF_routeVars(part = "routes" /\ Publishes(p))
    /\ WF_routeVars(part = "routes" /\ RenewalTick)
    /\ WF_routeVars(part = "routes" /\ Delivers)
    /\ WF_routeVars(part = "routes" /\ \E m \in flight : Receives(m))
    /\ WF_routeVars(part = "routes" /\ RemovesRoutesVia)
    /\ WF_routeVars(part = "routes" /\ NeighbourExpires)
    /\ WF_routeVars(part = "routes" /\ OriginExpires)
    /\ \A c \in PhysConns : /\ WF_poolVars(part = "pool" /\ ManageStep(c))
                            /\ WF_poolVars(part = "pool" /\ ClosePhysConn(c))
                            /\ WF_poolVars(part = "pool" /\ AddPhysConn(c))
    /\ WF_poolVars(part = "pool" /\ CancelPool)

-----------------------------------------------------------------------------
(* The properties of a NAT and a relay, where those two take the steps.       *)

\* Once failures stop, the NAT and the relay agree on a session again, and
\* sends are let through for good (maintainBillingControl, acceptControl).
SessionRecovers == <>[](part = "billing" => Ready)

\* Every Send returns (prepareWithLease, waitConfirmed, fail).
SendsConclude ==
    \A m \in Messages : []<>(part = "billing" => send[m].stage \in {"done", "failed"})
=============================================================================
