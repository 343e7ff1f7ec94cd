------------------------------- MODULE MCRelay -------------------------------
(* The connections of a relay, and what its voucher queue promises to the     *)
(* settlement; an initial state chooses the component that takes the steps.   *)
(*   queue        the voucher queue when directory syncs do not fail          *)
(*   registration two sessions of the NAT, one connection, two legs; one      *)
(*                registration handler stands for all, since each holds the   *)
(*                lifecycle lock from its first step to its last              *)
(*   links        three links, two sessions of one peer and one of another    *)
(*                that reports the same address                               *)
(*   bridge       three legs of a connection, two control links               *)
(*   striping     a connection opened twice over two physical connections     *)
EXTENDS BillingQueue, Registration, PeerLinks, CrossRelayBridge, Striping, TLC

CONSTANTS Parts, v1, v2, v3, p1, p2, c1, c2
VARIABLE part

MCPayer == (v1 :> p1) @@ (v2 :> p1) @@ (v3 :> p2)
MCChannel == (v1 :> c1) @@ (v2 :> c1) @@ (v3 :> c2)
MCSize == (v1 :> 1) @@ (v2 :> 2) @@ (v3 :> 1)
MCLegacyFile == {[pos |-> 1, kind |-> "enqueue", voucher |-> v2],
                 [pos |-> 2, kind |-> "enqueue", voucher |-> v3]}

\* Sessions s1 and s2 differ by their order of arrival only, so that two links
\* of s1 stand for two links of s2 too.
MCLinkSessions == [k1 |-> {"s1"}, k2 |-> {"s2"}, k3 |-> {"s1", "s3"}]
MCPeerOf == [s1 |-> "pa", s2 |-> "pa", s3 |-> "pb"]
MCAddrOf == [pa |-> "addr", pb |-> "addr"]

relayVars == <<part, vars, regVars, linkVars, bridgeVars, stripeVars>>

RelayInit ==
    /\ part \in Parts /\ Init /\ RegInit /\ LinkInit /\ BridgeInit /\ StripeInit
    /\ part # "queue" => format = "absent"

RelayNext ==
    \/ /\ part = "queue" /\ Next
       /\ UNCHANGED <<part, regVars, linkVars, bridgeVars, stripeVars>>
    \/ /\ part = "registration" /\ RegNext
       /\ UNCHANGED <<part, vars, linkVars, bridgeVars, stripeVars>>
    \/ /\ part = "links" /\ LinkNext
       /\ UNCHANGED <<part, vars, regVars, bridgeVars, stripeVars>>
    \/ /\ part = "bridge" /\ BridgeNext
       /\ UNCHANGED <<part, vars, regVars, linkVars, stripeVars>>
    \/ /\ part = "striping" /\ StripeNext
       /\ UNCHANGED <<part, vars, regVars, linkVars, bridgeVars>>

RelaySpec == RelayInit /\ [][RelayNext]_relayVars

\* Only one component moves, so Legs and CtlLinks may share their model values;
\* neither occurs in the promise of the queue.
Symmetry == Permutations(Legs)
=============================================================================
