--------------------------- MODULE BillingEvidence ---------------------------
(***************************************************************************)
(* The evidence both ends of a billing session keep, and what each does    *)
(* with it: natnode's natBillingSession (one record of NatSession) and     *)
(* relaynode's relayBillingSession (one record of RelaySession).           *)
(*                                                                         *)
(* A watermark (cumulative bytes, last record, its sequence, record-set    *)
(* digest) is the digest of the records it covers, so it is represented    *)
(* by that sequence of records, its chain: two watermarks are equal exactly *)
(* when their chains are.  A record is one sealed attempt at one message.  *)
(***************************************************************************)
EXTENDS Integers, Sequences, FiniteSets, SequencesExt, FiniteSetsExt

CONSTANTS Messages,     \* application messages the NAT sends
          Bytes,        \* plaintext bytes of each message
          Window,       \* billingvoucher.CumulativeWindowBytes
          MaxTry,       \* bound: sealed attempts at one message
          MaxSession    \* bound: billing sessions ever created

Record == [msg : Messages, try : 1..MaxTry]
Sessions == 1..MaxSession

ASSUME EvidenceAssumption ==
    /\ Window \in Nat \ {0} /\ MaxTry \in Nat \ {0} /\ MaxSession \in Nat \ {0}
    /\ Bytes \in [Messages -> 1..Window]

Cumulative(chain) == FoldLeft(LAMBDA sum, r : sum + Bytes[r.msg], 0, chain)

\* A mutual voucher; its predecessor is named by the watermark it covers.
\* NoVoucher is the state of a channel that has none.
NoVoucher == [sid |-> 0, seq |-> 0, prev |-> <<>>, chain |-> <<>>]

\* The body issueVoucherWithClaim builds after last for a watermark.
NextVoucher(sid, last, chain) ==
    [sid |-> sid, seq |-> last.seq + 1, prev |-> last.chain, chain |-> chain]

ValidSuccessor(last, v) ==
    /\ v.seq = last.seq + 1
    /\ v.prev = last.chain
    /\ v.sid = last.sid
    /\ Cumulative(v.chain) > Cumulative(last.chain)
    /\ Len(v.chain) > Len(last.chain)
    /\ Cumulative(v.chain) - Cumulative(last.chain) <= Window

\* What follows last in a channel: a first voucher is only checked for its number.
Follows(last, v) ==
    IF last = NoVoucher THEN v.seq = 1 /\ v.prev = <<>> ELSE ValidSuccessor(last, v)

-----------------------------------------------------------------------------
(* natnode: natBillingSession and its voucher channel.                      *)

NewNatSession ==
    [nextAssigned |-> 1, chain |-> <<>>, pending |-> {}, assigned |-> {},
     active |-> {}, confirmed |-> 0, draining |-> FALSE, snapshots |-> {},
     claimable |-> <<>>, last |-> NoVoucher, target |-> {}, settled |-> {}]

NextAdvance(n) == Len(n.chain) + 1

Prepared(n, bytes) ==
    [n EXCEPT !.assigned = @ \cup {[seq |-> n.nextAssigned, bytes |-> bytes]},
              !.active = @ \cup {n.nextAssigned},
              !.nextAssigned = @ + 1]

WindowBase(n) ==
    Cumulative(IF n.claimable # <<>> THEN Last(n.claimable) ELSE n.last.chain)

\* appendNatClaimableSnapshot
AddClaimable(claimable, chain) ==
    IF chain = <<>> \/ \E c \in ToSet(claimable) : Cumulative(c) = Cumulative(chain)
    THEN claimable ELSE Append(claimable, chain)

\* Mutant: a record that overflows the window does not close it.
AdvanceOneNoOverflow(n, p) ==
    LET chain == Append(n.chain, p.rec)
        fills == Cumulative(chain) - WindowBase(n) = Window
    IN  [n EXCEPT !.chain = chain,
                  !.snapshots = {c \in @ : Cumulative(c) # Cumulative(chain)} \cup {chain},
                  !.claimable = IF fills THEN AddClaimable(@, chain) ELSE @,
                  !.assigned = {a \in @ : a.seq # p.seq},
                  !.pending = @ \ {p}]

\* One turn of observe's loop: the record takes the next place in the chain.
\* A record that would overflow the window closes it first; one that fills
\* it exactly closes it after itself.
AdvanceOne(n, p) ==
    LET used == Cumulative(n.chain) - WindowBase(n)
        overflows == used > 0 /\ Bytes[p.rec.msg] > Window - used
        closed == IF overflows THEN AddClaimable(n.claimable, n.chain) ELSE n.claimable
        base == IF overflows THEN Cumulative(n.chain) ELSE WindowBase(n)
        chain == Append(n.chain, p.rec)
        fills == Cumulative(chain) - base = Window
    IN  [n EXCEPT !.chain = chain,
                  !.snapshots = {c \in @ : Cumulative(c) # Cumulative(chain)} \cup {chain},
                  !.claimable = IF fills THEN AddClaimable(closed, chain) ELSE closed,
                  !.assigned = {a \in @ : a.seq # p.seq},
                  !.pending = @ \ {p}]

\* The pending records that follow the chain without a gap, in order.
Consecutive(n) ==
    LET run == {p \in n.pending :
                   \A k \in NextAdvance(n)..p.seq : \E q \in n.pending : q.seq = k}
    IN  SetToSortSeq(run, LAMBDA p, q : p.seq < q.seq)

Observed(n, seq, rec) ==
    LET m == [n EXCEPT !.pending = @ \cup {[seq |-> seq, rec |-> rec]}]
    IN  FoldLeft(AdvanceOne, m, Consecutive(m))

\* Mutant: a send that ends stays active.
CompletedNever(n, seq) == n

Completed(n, seq) == [n EXCEPT !.active = @ \ {seq}]

Confirmed(n, seq) == [n EXCEPT !.confirmed = Max({@, seq})]

SafeToReplace(n) ==
    /\ n.pending = {} /\ n.active = {} /\ ~n.draining
    /\ IF n.settled # {}
       THEN n.settled \subseteq {<<>>, n.last.chain}
       ELSE n.nextAssigned = NextAdvance(n) /\ n.chain = n.last.chain

-----------------------------------------------------------------------------
(* natnode: reconciling an invalid session with the relay's watermark.      *)

\* The voucher the relay has not caught up with, offered for recovery.
Recoverable(n, relayState) ==
    /\ n.last # NoVoucher
    /\ \/ relayState = n.last.chain
       \/ /\ Len(relayState) < Len(n.last.chain)
          /\ Cumulative(relayState) < Cumulative(n.last.chain)

PastVoucher(n, relayState) ==
    /\ Len(relayState) > Len(n.last.chain)
    /\ Cumulative(relayState) > Cumulative(n.last.chain)

\* locallyAssignedRelayAdvanceMatches: one record the NAT assigned but never
\* saw sealed.
AssignedAdvance(n, relayState) ==
    LET used == Cumulative(n.chain) - WindowBase(n) IN
    /\ Len(relayState) = NextAdvance(n)
    /\ \E a \in n.assigned :
          /\ a.seq = Len(relayState)
          /\ Cumulative(relayState) = Cumulative(n.chain) + a.bytes
          /\ used + a.bytes <= Window

Evidenced(n, relayState) ==
    relayState \in n.snapshots \cup {<<>>, n.chain}

ReconcileTarget(n, relayState) ==
    IF Recoverable(n, relayState) THEN n.last.chain ELSE relayState

\* Mutant: usage confirmed to senders may be rolled back.
ReconcileRejectsNoFloor(n, relayState) ==
    \/ n.pending # {}
    \/ /\ n.last # NoVoucher
       /\ ~Recoverable(n, relayState) /\ ~PastVoucher(n, relayState)
    \/ /\ ~Recoverable(n, relayState)
       /\ ~Evidenced(n, relayState) /\ ~AssignedAdvance(n, relayState)

ReconcileRejects(n, relayState) ==
    \/ n.pending # {}
    \/ /\ n.last # NoVoucher
       /\ ~Recoverable(n, relayState) /\ ~PastVoucher(n, relayState)
    \/ /\ ~Recoverable(n, relayState)
       /\ ~Evidenced(n, relayState) /\ ~AssignedAdvance(n, relayState)
    \/ Len(ReconcileTarget(n, relayState)) < n.confirmed

\* assignedAdvance, which the code only computes for a watermark it has no
\* evidence of.
Advances(n, relayState) ==
    /\ ~Recoverable(n, relayState) /\ ~Evidenced(n, relayState)
    /\ AssignedAdvance(n, relayState)

\* Mutant: a session the relay is behind in is resumed.
RotationRequiredUnassigned(n, relayState) ==
    /\ ~Advances(n, relayState)
    /\ n.nextAssigned # NextAdvance(n) \/ n.assigned # {}

RotationRequired(n, relayState) ==
    \/ Len(ReconcileTarget(n, relayState)) < Len(n.chain)
    \/ /\ ~Advances(n, relayState)
       /\ n.nextAssigned # NextAdvance(n) \/ n.assigned # {}

\* The session resumed at the target.
Resumed(n, relayState) ==
    LET target == ReconcileTarget(n, relayState)
        fills == Cumulative(target) - WindowBase(n) = Window
        claimable == IF Advances(n, relayState) /\ fills
                     THEN AddClaimable(n.claimable, target) ELSE n.claimable
        kept == {c \in n.snapshots : Cumulative(c) <= Cumulative(target)}
    IN  [n EXCEPT !.chain = target, !.nextAssigned = Len(target) + 1,
                  !.confirmed = Len(target), !.assigned = {}, !.draining = FALSE,
                  !.snapshots = IF Advances(n, relayState) THEN kept \cup {target} ELSE kept,
                  !.claimable = SelectSeq(claimable,
                                    LAMBDA c : Cumulative(c) <= Cumulative(target)),
                  !.target = {}, !.settled = {}]

\* The session refused: the relay is to close it at the target and rotate.
Rotating(n, relayState) ==
    LET target == ReconcileTarget(n, relayState) IN
    [n EXCEPT !.target = {target},
              !.settled = IF Recoverable(n, relayState) \/ target = <<>>
                          THEN {target} ELSE @]

-----------------------------------------------------------------------------
(* natnode: cosign.                                                         *)

\* The deterministic threshold: the oldest closed window, or the watermark a
\* rotation has to settle.
MayClaim(n, chain) ==
    \/ chain \in n.target
    \/ n.claimable # <<>> /\ Head(n.claimable) = chain

\* Mutant: a voucher is signed whatever the channel's last one is.
CosignsAnyNumber(n, v) ==
    \/ n.last # NoVoucher /\ v = n.last
    \/ v.chain \in n.snapshots /\ MayClaim(n, v.chain)

Cosigns(n, v) ==
    \/ n.last # NoVoucher /\ v = n.last
    \/ /\ Follows(n.last, v)
       /\ v.chain \in n.snapshots
       /\ MayClaim(n, v.chain)

Cosigned(n, v) ==
    IF v = n.last THEN n
    ELSE [n EXCEPT !.last = v,
                   !.settled = IF v.chain \in n.target THEN {v.chain} ELSE @,
                   !.claimable = IF v.chain \in n.target THEN @ ELSE Tail(@),
                   !.snapshots = {c \in @ : Cumulative(c) >= Cumulative(v.chain)}]

-----------------------------------------------------------------------------
(* relaynode: relayBillingSession.  The pending map is never written, and the *)
(* recent map only tells which records are acknowledged again.              *)

NoSession == [exists |-> FALSE, chain |-> <<>>, last |-> NoVoucher, blocked |-> "no"]
NewRelaySession == [NoSession EXCEPT !.exists = TRUE]

RelayNext(s) == Len(s.chain) + 1

WindowBytes(s) == Cumulative(s.chain) - Cumulative(s.last.chain)

Overflows(s, rec) == WindowBytes(s) > 0 /\ Bytes[rec.msg] > Window - WindowBytes(s)
\* Mutant: the record that fills the window exactly leaves it open.
FillsBeyond(s, rec) == WindowBytes(s) + Bytes[rec.msg] > Window
Fills(s, rec) == WindowBytes(s) + Bytes[rec.msg] = Window

Accepted(s, rec) == [s EXCEPT !.chain = Append(@, rec)]

\* restoreSessionVoucher
Restored(s, v) == [s EXCEPT !.exists = TRUE, !.last = v, !.chain = v.chain]

SafeToRotate(s) == s.blocked = "no" /\ s.chain = s.last.chain

\* installRecoveredVoucher's checks against the watermark it advertised.
RecoveryAccepted(s, advertised, v) ==
    /\ s.chain = advertised /\ s.blocked = "no"
    /\ IF v = s.last THEN s.chain = v.chain
       ELSE /\ Follows(s.last, v)
            /\ Cumulative(v.chain) >= Cumulative(s.chain)
            /\ Len(v.chain) >= Len(s.chain)
            /\ (Cumulative(v.chain) = Cumulative(s.chain) \/ Len(v.chain) = Len(s.chain))
                   => v.chain = s.chain

ReadyMatches(s, ready) ==
    /\ ~ready.reset /\ s.blocked = "no"
    /\ IF ready.preexisting THEN ready.chain = s.chain
       ELSE s.chain = <<>> /\ s.last = NoVoucher
=============================================================================
