---------------------------- MODULE DurableQueue ----------------------------
(***************************************************************************)
(* What the persistent waitSubmit queue promises to the relay, with no     *)
(* word about frames, files or compaction.                                 *)
(*                                                                         *)
(* An entry is a voucher with the position at which it was queued.         *)
(* "content" is what the next Open of the queue will show; "outcomes" is   *)
(* the set of contents a power loss may leave behind.  An operation that   *)
(* returns nil leaves exactly one outcome, its own result: that is         *)
(* durability.  An operation that returns an error may or may not have     *)
(* happened, so it can only add an outcome.                                *)
(***************************************************************************)
EXTENDS Naturals

CONSTANTS Vouchers,    \* mutual vouchers, by ID
          Channel,     \* the channel of a voucher: session, payer, relay, direction
          Positions    \* places in the queue, a set of numbers

VARIABLES content, outcomes,
          usable       \* operations are accepted; FALSE after an error, until Open

vars == <<content, outcomes, usable>>

Entry == [pos : Positions, voucher : Vouchers]

\* The entry is the earliest of its channel: the only one that may leave.
IsChannelHead(e, S) ==
    \A d \in S : Channel[d.voucher] = Channel[e.voucher] => e.pos <= d.pos

\* A queue any program version may have left on disk: no voucher twice.
InitialContent(S) ==
    /\ S \subseteq Entry
    /\ \A d, e \in S : (d.voucher = e.voucher \/ d.pos = e.pos) => d = e

Init == /\ InitialContent(content)
        /\ outcomes = {content}
        /\ usable = FALSE

\* The effect is durable.  An operation that returned nil always ends here.
Commit(new) == /\ content' = new
               /\ outcomes' = {new}

\* The operation returned an error with its effect visible but not durable.
InDoubt(new) == /\ content' = new
                /\ outcomes' = outcomes \cup {new}
                /\ usable' = FALSE

Perform(new) == /\ usable
                /\ \/ Commit(new) /\ usable' \in BOOLEAN
                   \/ InDoubt(new)

Enqueue(v) ==
    /\ \A e \in content : e.voucher # v
    /\ \E p \in Positions :
         /\ \A e \in content : e.pos < p
         /\ Perform(content \cup {[pos |-> p, voucher |-> v]})

Remove(e) ==
    /\ IsChannelHead(e, content)
    /\ Perform(content \ {e})

\* Open, Close, a crash of the process, an operation that failed without effect.
SetUsable == /\ usable' \in BOOLEAN
             /\ UNCHANGED <<content, outcomes>>

PowerLoss == \E o \in outcomes : Commit(o) /\ usable' = FALSE

Next == \/ \E v \in Vouchers : Enqueue(v)
        \/ \E e \in content : Remove(e)
        \/ SetUsable
        \/ PowerLoss

Spec == Init /\ [][Next]_vars
=============================================================================
