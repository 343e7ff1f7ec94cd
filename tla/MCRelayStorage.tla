--------------------------- MODULE MCRelayStorage ---------------------------
(* What a relay keeps on disk or in bounded tables, each part explored by     *)
(* itself: an initial state chooses the component that takes the steps.       *)
(*   queue        the voucher queue: two payers, two channels, three vouchers *)
(*   revocation   two nodes, a log of two events                              *)
(*   logs         one level, two writers and the rotation ticker              *)
(*   holdback     a handshake message and a record on one connection, the     *)
(*                next record on another, two pumps                           *)
EXTENDS BillingQueue, Revocation, LogArchive, Holdback, TLC

CONSTANTS Parts, v1, v2, v3, p1, p2, c1, c2
VARIABLE part

MCPayer == (v1 :> p1) @@ (v2 :> p1) @@ (v3 :> p2)
MCChannel == (v1 :> c1) @@ (v2 :> c1) @@ (v3 :> c2)
MCSize == (v1 :> 1) @@ (v2 :> 2) @@ (v3 :> 1)
MCLegacyFile == {[pos |-> 1, kind |-> "enqueue", voucher |-> v2],
                 [pos |-> 2, kind |-> "enqueue", voucher |-> v3]}

MCMessages == {"hello", "first", "second"}
MCMsgConn == [hello |-> "c1", first |-> "c1", second |-> "c2"]
MCMsgKind == [hello |-> "noise", first |-> "data", second |-> "data"]
MCMsgFrames == [hello |-> 1, first |-> 2, second |-> 1]
MCMsgSeq == [hello |-> 0, first |-> 1, second |-> 2]
MCMsgE2E == [hello |-> "e1", first |-> "e1", second |-> "e2"]

storageVars == <<part, vars, revVars, logVars, holdVars>>

StorageInit ==
    /\ part \in Parts /\ Init /\ RevInit /\ LogInit /\ HoldInit
    /\ part # "queue" => format = "absent"

\* The other components may stop; the queue never does.
Stops == part # "queue" /\ UNCHANGED storageVars

StorageNext ==
    \/ /\ part = "queue" /\ Next
       /\ UNCHANGED <<part, revVars, logVars, holdVars>>
    \/ /\ part = "revocation" /\ RevNext
       /\ UNCHANGED <<part, vars, logVars, holdVars>>
    \/ /\ part = "logs" /\ LogNext
       /\ UNCHANGED <<part, vars, revVars, holdVars>>
    \/ /\ part = "holdback" /\ HoldNext
       /\ UNCHANGED <<part, vars, revVars, logVars>>
    \/ Stops

StorageSpec == StorageInit /\ [][StorageNext]_storageVars

PumpSymmetry == Permutations(Pumps)
=============================================================================
