------------------------------ MODULE LegTable ------------------------------
(***************************************************************************)
(* The leg table of a DualStream: the carrier of each leg ID, the order in *)
(* which the legs were attached and the preferred leg.  Every operator is  *)
(* what one critical section of d.mu does to the table.                    *)
(***************************************************************************)
EXTENDS Naturals, Sequences, FiniteSetsExt

CONSTANTS LegIds,    \* leg IDs: "tcp", "kcp", "tcp#2"
          NoLeg,     \* streamTransportUnknown
          NoCarrier  \* nil

Family(id) == IF id = "kcp" THEN "kcp" ELSE "tcp"

EmptyTable == [leg |-> [id \in LegIds |-> NoCarrier], order |-> <<>>, preferred |-> NoLeg]

Attached(t) == {id \in LegIds : t.leg[id] # NoCarrier}

\* The first leg of the order that is attached and is not the one left out.
FirstLeg(t, out) ==
    LET at == {i \in 1..Len(t.order) : t.order[i] # out /\ t.leg[t.order[i]] # NoCarrier}
    IN IF at = {} THEN NoLeg ELSE t.order[Min(at)]

NextPreferred(t) == FirstLeg(t, NoLeg)

\* attachWithIDPolicy without promotion, as the dialing side calls it.
AttachLeg(t, id, c) ==
    [leg       |-> [t.leg EXCEPT ![id] = c],
     order     |-> IF id \in Range(t.order) THEN t.order ELSE Append(t.order, id),
     preferred |-> IF t.preferred = NoLeg THEN id ELSE t.preferred]

\* removeLegOrderLocked
RemoveLegOrder(order, id) ==
    LET at == {i \in 1..Len(order) : order[i] = id}
    IN IF at = {} THEN order
       ELSE SubSeq(order, 1, Min(at) - 1) \o SubSeq(order, Min(at) + 1, Len(order))

\* detach keeps the preferred leg without choosing a successor.
DetachKeepsPreferred(t, id) ==
    [t EXCEPT !.leg[id] = NoCarrier, !.order = RemoveLegOrder(t.order, id)]

DetachLeg(t, id) ==
    LET rest == [t EXCEPT !.leg[id] = NoCarrier, !.order = RemoveLegOrder(t.order, id)]
    IN IF t.preferred # id THEN rest ELSE [rest EXCEPT !.preferred = NextPreferred(rest)]

SetPreferred(t, id) == IF t.leg[id] # NoCarrier THEN [t EXCEPT !.preferred = id] ELSE t

\* Close keeps the preferred leg ID and drops every leg.
ClearTable(t) == [EmptyTable EXCEPT !.preferred = t.preferred]

Primary(t) == IF t.preferred \in Attached(t) THEN t.preferred ELSE NextPreferred(t)

Backup(t) == FirstLeg(t, Primary(t))

\* The order lists the attached legs once each; the preferred leg is attached,
\* and there is one whenever some leg is attached.
TableConsistent(t) ==
    /\ Range(t.order) = Attached(t)
    /\ IsInjective(t.order)
    /\ IF Attached(t) = {} THEN t.preferred = NoLeg ELSE t.preferred \in Attached(t)
=============================================================================
