----------------------------- MODULE MCEndpoints -----------------------------
(* What runs at the ends of relayed connections; an initial state chooses the *)
(* component that takes the steps.                                            *)
(*   transfer  the workloads of MCRelayedTransfer, over two carriers          *)
(*   table     a routing table that meets three nodes                         *)
(*   service   a service listener with two connection ids and two carriers,   *)
(*             one of which is opened a second time                           *)
(*   tunnel    a stream of the tunnel, three writes or faults in all         *)
EXTENDS MCRelayedTransfer, RoutingTable, ServiceListener, TunnelMux

CONSTANTS Parts, ra, rb
VARIABLE part

MCMaxMuxes == [c \in SvcCarriers |-> IF c = ra THEN 2 ELSE 1]

endVars == <<part, vars, rtVars, svcVars, tunVars>>

EndInit ==
    /\ part \in Parts /\ Init /\ RtInit /\ SvcInit /\ TunInit
    /\ part # "transfer" => send[<<"up", 3>>].pc = "new" /\ send[<<"up", 2>>].pc = "none"

EndNext ==
    \/ part = "transfer" /\ Next /\ UNCHANGED <<part, rtVars, svcVars, tunVars>>
    \/ part = "table" /\ RtNext /\ UNCHANGED <<part, vars, svcVars, tunVars>>
    \/ part = "service" /\ SvcNext /\ UNCHANGED <<part, vars, rtVars, tunVars>>
    \/ part = "tunnel" /\ TunNext /\ UNCHANGED <<part, vars, rtVars, svcVars>>

EndSpec == EndInit /\ [][EndNext]_endVars
=============================================================================
