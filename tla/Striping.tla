------------------------------ MODULE Striping ------------------------------
(***************************************************************************)
(* One logical connection between two relays, striped over physical        *)
(* multiplexed connections: the opener's attempts (OpenLogicalConn), the   *)
(* OPEN, DATA and CLOSE frames of the legs, the acceptor that gathers the  *)
(* legs of an attempt (collectStripedLeg), and the reassembler behind the  *)
(* reader.  A stream is named by the connection alone, so the frames of    *)
(* one attempt and of the next share their name on a physical connection.  *)
(***************************************************************************)
EXTENDS Naturals, Sequences, FiniteSets
LOCAL INSTANCE SequencesExt

CONSTANTS
    Phys,           \* physical connections (MuxSession pairs)
    Width,          \* legs wanted for a logical connection
    MaxAttempts,    \* bound: attempts to open it
    MaxChunks,      \* bound: chunks the opener writes in an attempt
    MaxBack,        \* bound: chunks the acceptor writes in an attempt
    reasmMaxPending,
    MaxStripeFaults,\* bound: physical connections that die, timeouts, closes
    MaxLostCloses   \* bound: CLOSE frames that miss their write deadline

VARIABLES
    wire, back,        \* frames on their way to the acceptor and to the opener
    outLive, inLive,   \* sessions each side still holds for open
    opener,            \* the attempt of the opening relay
    ostream, istream,  \* the MuxStream of the connection at each end of a session
    queued,            \* sessions whose accept queue holds the stream
    stripe,            \* stripedLegs: the attempt that is being gathered
    conns,             \* by attempt, the accepted connection
    unclosed,          \* the CLOSE frames that were never written
    stripeBudget

stripeVars == <<wire, back, outLive, inLive, opener, ostream, istream, queued,
                stripe, conns, unclosed, stripeBudget>>

Attempts == 1..MaxAttempts
NoStream == [open |-> FALSE, a |-> 0, idx |-> 0, cnt |-> 0, hook |-> FALSE,
             early |-> <<>>, got |-> {}]
NoConn == [state |-> "none", legs |-> <<>>, next |-> 0, pending |-> {}, ready |-> <<>>,
           overflow |-> FALSE, closed |-> FALSE, wrote |-> 0]
NoStripe == [a |-> 0, legs |-> {}]
OpenFrame(a, idx, cnt) == [t |-> "open", a |-> a, idx |-> idx, cnt |-> cnt]
DataFrame(a, seq) == [t |-> "data", a |-> a, seq |-> seq]
CloseFrame == [t |-> "close"]

StripeFault == stripeBudget > 0 /\ stripeBudget' = stripeBudget - 1

\* writeFrame: lost when the other side's connection is gone already.
Sent(chan, s, frame, peerLive) == IF s \in peerLive THEN Append(chan[s], frame) ELSE chan[s]

\* MuxStream.Close writes its CLOSE with a deadline of its own and drops the
\* error: when the session's writer is busy until then, the frame is not
\* written and the session lives on.  The sets of sessions it may happen on.
MissedDeadline(sessions) ==
    {late \in SUBSET (sessions \cap outLive \cap inLive) :
        Cardinality(late) + Cardinality(unclosed) <= MaxLostCloses}
Unwritten(by, late, streams) == {[by |-> by, s |-> s, a |-> streams[s].a] : s \in late}

-----------------------------------------------------------------------------
(* The reassembler.                                                         *)

Consecutive(next, pending) ==
    LET seqs == {c.seq : c \in pending}
        Run(n) == \A k \in next..(n - 1) : k \in seqs
    IN CHOOSE n \in next..(next + Cardinality(pending)) :
          Run(n) /\ \A m \in (n + 1)..(next + Cardinality(pending)) : ~Run(m)

\* Mutant: a later chunk is released at once.
PushUnordered(c, chunk) ==
    IF c.closed \/ chunk.seq < c.next THEN c
    ELSE [c EXCEPT !.next = chunk.seq + 1, !.ready = Append(@, chunk)]

\* push: an old sequence number is dropped, the expected one releases what
\* waits behind it, a later one waits unless the window is full.
Push(c, chunk) ==
    IF c.closed \/ chunk.seq < c.next THEN c
    ELSE IF chunk.seq = c.next
    THEN LET n == Consecutive(c.next + 1, c.pending)
             run == {p \in c.pending : p.seq < n}
         IN [c EXCEPT !.next = n, !.pending = @ \ run,
                      !.ready = @ \o <<chunk>>
                        \o SetToSortSeq(run, LAMBDA x, y : x.seq < y.seq)]
    ELSE IF \E p \in c.pending : p.seq = chunk.seq THEN c
    ELSE IF Cardinality(c.pending) >= reasmMaxPending THEN [c EXCEPT !.overflow = TRUE]
    ELSE [c EXCEPT !.pending = @ \cup {chunk}]

\* A connection of one leg has no reassembler: it reads the leg's bytes as they come.
Takes(c, chunk) ==
    IF Len(c.legs) = 1 THEN [c EXCEPT !.ready = Append(@, chunk)] ELSE Push(c, chunk)

ReasmClosed(c) == [c EXCEPT !.closed = TRUE, !.pending = {}]

-----------------------------------------------------------------------------
(* The opening relay.                                                       *)

\* OpenLogicalConn: the least loaded live sessions, as many as there are up
\* to the width, and the next attempt number.
OpenLogicalConn(targets) ==
    /\ opener.pc = "idle" /\ opener.a < MaxAttempts
    /\ opener' = [pc |-> "opening", a |-> opener.a + 1, targets |-> targets, n |-> 0,
                  wrote |-> 0]
    /\ UNCHANGED <<wire, back, outLive, inLive, ostream, istream, queued, stripe, conns,
                   stripeBudget, unclosed>>

\* MuxStream.Close of the legs that are still open: CLOSE on each.
LegsClosed(legs) ==
    LET open == {s \in legs \cap outLive : ostream[s].open}
    IN \E late \in MissedDeadline(open) :
          /\ ostream' = [s \in Phys |-> IF s \in legs THEN NoStream ELSE ostream[s]]
          /\ wire' = [s \in Phys |-> IF s \in open \ late THEN Sent(wire, s, CloseFrame, inLive)
                                     ELSE wire[s]]
          /\ unclosed' = unclosed \cup Unwritten("opener", late, ostream)

OpenedLegs == {opener.targets[i] : i \in 1..opener.n}

\* OpenStreamLeg on the next target; a dead session or a stream that is
\* still in its table fails the attempt.
OpenLeg ==
    /\ opener.pc = "opening"
    /\ LET s == opener.targets[opener.n + 1]
           cnt == Len(opener.targets)
       IN IF s \notin outLive \/ ostream[s].open
          THEN LegsClosed(OpenedLegs) /\ opener' = [opener EXCEPT !.pc = "idle"]
          ELSE /\ ostream' = [ostream EXCEPT ![s] = [NoStream EXCEPT !.open = TRUE,
                                !.a = opener.a, !.idx = opener.n, !.cnt = cnt]]
               /\ wire' = [wire EXCEPT ![s] = Sent(wire, s, OpenFrame(opener.a, opener.n, cnt), inLive)]
               /\ opener' = [opener EXCEPT !.n = @ + 1,
                    !.pc = IF opener.n + 1 < cnt THEN "opening" ELSE "attach"]
               /\ UNCHANGED unclosed
    /\ UNCHANGED <<back, outLive, inLive, istream, queued, stripe, conns, stripeBudget>>

\* NewStripedConn hooks every leg up to the reassembler; what came before
\* stays in the leg's own buffer, which nobody reads.
AttachHooks ==
    /\ opener.pc = "attach"
    /\ ostream' = [s \in Phys |-> IF s \in OpenedLegs THEN [ostream[s] EXCEPT !.hook = TRUE]
                                  ELSE ostream[s]]
    /\ opener' = [opener EXCEPT !.pc = "up"]
    /\ UNCHANGED <<wire, back, outLive, inLive, istream, queued, stripe, conns, stripeBudget, unclosed>>

\* writeStriped: the chunk takes the next number and, by it, its leg.
OpenerWrites ==
    /\ opener.pc = "up" /\ opener.wrote < MaxChunks
    /\ LET s == opener.targets[(opener.wrote % opener.n) + 1] IN
       /\ ostream[s].open /\ s \in outLive
       /\ wire' = [wire EXCEPT ![s] = Sent(wire, s, DataFrame(opener.a, opener.wrote), inLive)]
    /\ opener' = [opener EXCEPT !.wrote = @ + 1]
    /\ UNCHANGED <<back, outLive, inLive, ostream, istream, queued, stripe, conns,
                   stripeBudget, unclosed>>

\* The bridge ends: its reader or writer met a closed leg, or its local end
\* went away.  The connection may come back with another attempt.
OpenerCloses ==
    /\ opener.pc = "up"
    /\ IF \A s \in OpenedLegs : ostream[s].open THEN StripeFault ELSE UNCHANGED stripeBudget
    /\ LegsClosed(OpenedLegs)
    /\ opener' = [opener EXCEPT !.pc = "idle"]
    /\ UNCHANGED <<back, outLive, inLive, istream, queued, stripe, conns>>

\* The opener's readLoop: DATA goes to the hook or, without one, to the
\* buffer of the leg; CLOSE drops the stream of that name.
OpenerReads(s) ==
    /\ back[s] # <<>> /\ s \in outLive
    /\ back' = [back EXCEPT ![s] = Tail(@)]
    /\ LET f == Head(back[s]) IN
       ostream' = [ostream EXCEPT ![s] =
          IF ~@.open THEN @
          ELSE IF f.t = "close" THEN NoStream
          ELSE IF @.hook THEN [@ EXCEPT !.got = @ \cup {f.seq}]
          ELSE [@ EXCEPT !.early = Append(@, f)]]
    /\ UNCHANGED <<wire, outLive, inLive, opener, istream, queued, stripe, conns, stripeBudget, unclosed>>

-----------------------------------------------------------------------------
(* The accepting relay.                                                     *)

\* A leg is a stream object: it is live while its session still has it.
Leg(s) == [s |-> s, a |-> istream[s].a, idx |-> istream[s].idx]
LiveLeg(l) == istream[l.s].open /\ istream[l.s].a = l.a
LegsOf(a) == IF conns[a].state = "up" THEN Range(conns[a].legs) ELSE {}

\* MuxStream.Close of the legs that are still open: CLOSE on each.
StreamsAfterClosing(legs) ==
    [s \in Phys |-> IF istream[s].open /\ Leg(s) \in legs THEN NoStream ELSE istream[s]]
CloseLegs(legs) ==
    LET open == {s \in Phys : istream[s].open /\ Leg(s) \in legs}
    IN \E late \in MissedDeadline(open) :
          /\ back' = [s \in Phys |-> IF s \in open \ late THEN Sent(back, s, CloseFrame, outLive)
                                     ELSE back[s]]
          /\ unclosed' = unclosed \cup Unwritten("acceptor", late, istream)

\* readLoop, OPEN: a stream, unless one of that name is open.
ReadsOpen(s) ==
    /\ s \in inLive /\ wire[s] # <<>> /\ Head(wire[s]).t = "open"
    /\ wire' = [wire EXCEPT ![s] = Tail(@)]
    /\ LET f == Head(wire[s]) IN
       IF istream[s].open THEN UNCHANGED <<istream, queued>>
       ELSE /\ istream' = [istream EXCEPT ![s] = [NoStream EXCEPT !.open = TRUE, !.a = f.a,
                                                     !.idx = f.idx, !.cnt = f.cnt]]
            /\ queued' = queued \cup {s}
    /\ UNCHANGED <<back, outLive, inLive, opener, ostream, stripe, conns, stripeBudget, unclosed>>

\* readLoop, DATA: to the hook, or kept until there is one; a stream that is
\* not striped is read from its own buffer.
ReadsData(s) ==
    /\ s \in inLive /\ wire[s] # <<>> /\ Head(wire[s]).t = "data"
    /\ wire' = [wire EXCEPT ![s] = Tail(@)]
    /\ LET chunk == [a |-> Head(wire[s]).a, seq |-> Head(wire[s]).seq]
       IN IF ~istream[s].open THEN UNCHANGED <<istream, conns>>
          ELSE IF istream[s].hook
          THEN /\ conns' = [a \in Attempts |-> IF Leg(s) \in LegsOf(a) THEN Takes(conns[a], chunk)
                                               ELSE conns[a]]
               /\ istream' = [istream EXCEPT ![s].got = @ \cup {chunk}]
          ELSE /\ istream' = [istream EXCEPT ![s].early = Append(@, chunk),
                                             ![s].got = @ \cup {chunk}]
               /\ UNCHANGED conns
    /\ UNCHANGED <<back, outLive, inLive, opener, ostream, queued, stripe, stripeBudget, unclosed>>

\* readLoop, CLOSE: dropStream.
ReadsClose(s) ==
    /\ s \in inLive /\ wire[s] # <<>> /\ Head(wire[s]).t = "close"
    /\ wire' = [wire EXCEPT ![s] = Tail(@)]
    /\ istream' = [istream EXCEPT ![s] = NoStream]
    /\ queued' = queued \ {s}
    /\ UNCHANGED <<back, outLive, inLive, opener, ostream, stripe, conns, stripeBudget, unclosed>>

\* Mutant: what came before the hook is not replayed.
ReplayedNever(c, early) == c

\* setDeliverHook: the chunks that came before are replayed in their order.
Replayed(c, early) == FoldLeft(Takes, c, early)

\* decodeStripedLegIndex: the high part of the index is the attempt.
AttemptOf(s) == istream[s].a

\* NewStripedConn and NewSingleLegConn at the acceptor: a connection whose
\* legs are hooked up to its reassembler.
Assembled(legs) ==
    LET order == SetToSortSeq(legs, LAMBDA x, y : x.idx < y.idx)
        early == [i \in 1..Len(order) |-> IF LiveLeg(order[i]) THEN istream[order[i].s].early
                                          ELSE <<>>]
    IN Replayed([NoConn EXCEPT !.state = "up", !.legs = order], FlattenSeq(early))
Hooked(streams, legs) ==
    [s \in Phys |-> IF streams[s].open /\ Leg(s) \in legs
                    THEN [streams[s] EXCEPT !.hook = TRUE, !.early = <<>>] ELSE streams[s]]

\* The legs that a newer attempt displaces.
StaleLegs(a) == IF stripe.a # 0 /\ stripe.a < a THEN stripe.legs ELSE {}

\* Accept of a stream that is not striped.
AcceptSingle(s) ==
    /\ s \in queued /\ istream[s].cnt = 1
    /\ queued' = queued \ {s}
    /\ conns' = [conns EXCEPT ![istream[s].a] = Assembled({Leg(s)})]
    /\ istream' = Hooked(istream, {Leg(s)})
    /\ UNCHANGED <<wire, back, outLive, inLive, opener, ostream, stripe, stripeBudget, unclosed>>

\* Accept and collectStripedLeg: a leg of an older attempt or of an index
\* that is taken is rejected, a newer attempt displaces what was gathered,
\* the last leg completes the connection.
CollectStripedLeg(s) ==
    /\ s \in queued /\ istream[s].cnt > 1
    /\ queued' = queued \ {s}
    /\ LET a == AttemptOf(s)
           mine == IF stripe.a = a THEN stripe.legs ELSE {}
           legs == mine \cup {Leg(s)}
           closing == StaleLegs(a)
       IN IF stripe.a > a \/ \E l \in mine : l.idx = istream[s].idx
          THEN /\ istream' = StreamsAfterClosing({Leg(s)}) /\ CloseLegs({Leg(s)})
               /\ UNCHANGED <<stripe, conns>>
          ELSE /\ CloseLegs(closing)
               /\ IF Cardinality(legs) = istream[s].cnt
                  THEN /\ conns' = [conns EXCEPT ![istream[s].a] = Assembled(legs)]
                       /\ istream' = Hooked(StreamsAfterClosing(closing), legs)
                       /\ stripe' = NoStripe
                  ELSE /\ stripe' = [a |-> a, legs |-> legs]
                       /\ istream' = StreamsAfterClosing(closing)
                       /\ UNCHANGED conns
    /\ UNCHANGED <<wire, outLive, inLive, opener, ostream, stripeBudget>>

\* watchStripedLeg and expireStripedAccept: the stripe is given up when one
\* of its legs closes or its time is over, and its legs are closed.
DiscardStripedAccept ==
    /\ stripe.a # 0
    /\ IF \A l \in stripe.legs : LiveLeg(l) THEN StripeFault ELSE UNCHANGED stripeBudget
    /\ stripe' = NoStripe
    /\ istream' = StreamsAfterClosing(stripe.legs) /\ CloseLegs(stripe.legs)
    /\ UNCHANGED <<wire, outLive, inLive, opener, ostream, queued, conns>>

\* The watchdog of a leg: the connection is over once one of its legs is.
WatchLegs(a) ==
    /\ conns[a].state = "up" /\ ~conns[a].closed /\ \E l \in LegsOf(a) : ~LiveLeg(l)
    /\ conns' = [conns EXCEPT ![a] = ReasmClosed(@)]
    /\ UNCHANGED <<wire, back, outLive, inLive, opener, ostream, istream, queued, stripe,
                   stripeBudget, unclosed>>

\* The reader met the end or the overflow, or the hosted side went away:
\* LogicalConn.Close closes every leg.
AcceptorCloses(a) ==
    /\ conns[a].state = "up"
    /\ IF conns[a].closed \/ conns[a].overflow THEN UNCHANGED stripeBudget ELSE StripeFault
    /\ istream' = StreamsAfterClosing(LegsOf(a)) /\ CloseLegs(LegsOf(a))
    /\ conns' = [conns EXCEPT ![a] = [ReasmClosed(@) EXCEPT !.state = "ended"]]
    /\ UNCHANGED <<wire, outLive, inLive, opener, ostream, queued, stripe>>

AcceptorWrites(a) ==
    /\ conns[a].state = "up" /\ ~conns[a].closed /\ conns[a].wrote < MaxBack
    /\ LET l == conns[a].legs[(conns[a].wrote % Len(conns[a].legs)) + 1] IN
       /\ LiveLeg(l)
       /\ back' = [back EXCEPT ![l.s] = Sent(back, l.s, DataFrame(a, conns[a].wrote), outLive)]
    /\ conns' = [conns EXCEPT ![a].wrote = @ + 1]
    /\ UNCHANGED <<wire, outLive, inLive, opener, ostream, istream, queued, stripe,
                   stripeBudget, unclosed>>

-----------------------------------------------------------------------------
(* A physical connection dies; each side notices by itself.                  *)

OpenerLoses(s) ==
    /\ s \in outLive
    /\ IF s \in inLive THEN StripeFault ELSE UNCHANGED stripeBudget
    /\ outLive' = outLive \ {s}
    /\ ostream' = [ostream EXCEPT ![s] = NoStream] /\ back' = [back EXCEPT ![s] = <<>>]
    /\ UNCHANGED <<wire, inLive, opener, istream, queued, stripe, conns, unclosed>>

AcceptorLoses(s) ==
    /\ s \in inLive
    /\ IF s \in outLive THEN StripeFault ELSE UNCHANGED stripeBudget
    /\ inLive' = inLive \ {s}
    /\ istream' = [istream EXCEPT ![s] = NoStream] /\ queued' = queued \ {s}
    /\ wire' = [wire EXCEPT ![s] = <<>>]
    /\ UNCHANGED <<back, outLive, opener, ostream, stripe, conns, unclosed>>

StripeInit ==
    /\ wire = [s \in Phys |-> <<>>] /\ back = [s \in Phys |-> <<>>]
    /\ outLive = Phys /\ inLive = Phys
    /\ opener = [pc |-> "idle", a |-> 0, targets |-> <<>>, n |-> 0, wrote |-> 0]
    /\ ostream = [s \in Phys |-> NoStream] /\ istream = [s \in Phys |-> NoStream]
    /\ queued = {} /\ stripe = NoStripe
    /\ conns = [a \in Attempts |-> NoConn] /\ unclosed = {}
    /\ stripeBudget = MaxStripeFaults

\* The sessions an attempt may be given: as many live ones as it wants.
Targets == {t \in UNION {[1..n -> Phys] : n \in 1..Width} :
              /\ \A i, j \in DOMAIN t : t[i] = t[j] => i = j}

StripeNext ==
    \/ \E t \in Targets :
          /\ Range(t) \subseteq outLive
          /\ Len(t) = Width \/ Range(t) = outLive
          /\ OpenLogicalConn(t)
    \/ OpenLeg \/ AttachHooks \/ OpenerWrites \/ OpenerCloses
    \/ \E s \in Phys :
          \/ OpenerReads(s) \/ ReadsOpen(s) \/ ReadsData(s) \/ ReadsClose(s)
          \/ AcceptSingle(s) \/ CollectStripedLeg(s) \/ OpenerLoses(s) \/ AcceptorLoses(s)
    \/ DiscardStripedAccept
    \/ \E a \in Attempts : WatchLegs(a) \/ AcceptorCloses(a) \/ AcceptorWrites(a)

-----------------------------------------------------------------------------
(* Properties.                                                              *)

\* The opener gave an attempt up and one of its legs was never told: the old
\* stream stays at the acceptor, handleOpen ignores the next attempt's OPEN of
\* the same name, and the next attempt's DATA enters the old stream.
Untold(a) == \E u \in unclosed : u.by = "opener" /\ u.a = a

\* What the reader of a striped connection gets is numbered from 0 without a
\* gap, a repetition or a swap, whatever the legs' speeds, deaths and retries.
StripedInOrder ==
    \A a \in Attempts : Len(conns[a].legs) > 1 =>
        \A i \in 1..Len(conns[a].ready) : conns[a].ready[i].seq = i - 1

\* Unless a CLOSE of the attempt was lost, a reader gets a prefix of what the
\* opener wrote in that attempt and nothing of another one.
PrefixOfAttempt ==
    \A a \in Attempts : ~Untold(a) =>
        \A i \in 1..Len(conns[a].ready) : conns[a].ready[i] = [a |-> a, seq |-> i - 1]

\* When one was lost, what gets mixed in is of a later attempt.
MixedOnlyForward ==
    \A a \in Attempts : \A i \in 1..Len(conns[a].ready) : conns[a].ready[i].a >= a

\* A connection is put together from legs of one attempt only: a leg that is
\* late from a failed attempt never completes the next one.
LegsOfOneAttempt ==
    \A a \in Attempts : \A l \in LegsOf(a) : l.a = a

\* While a connection is open nothing its legs took in is lost: each chunk is
\* released or waits for an earlier one, also those that arrived before the
\* legs were gathered.  In an untold attempt the chunks of the next one take
\* the numbers of its own.
NoChunkLost ==
    \A a \in Attempts :
        LET c == conns[a]
            taken == UNION {istream[l.s].got : l \in {x \in LegsOf(a) : LiveLeg(x)}}
        IN c.state = "up" /\ ~c.closed /\ ~c.overflow /\ ~Untold(a) =>
              taken \subseteq Range(c.ready) \cup c.pending

\* A leg that is open at the acceptor is still owned: it waits to be
\* accepted, is being gathered, or carries a connection that is not closed.
\* Legs of displaced and expired attempts are never left open; a leg of an
\* untold attempt stays with its connection until the hosted side ends it.
NoOrphanLeg ==
    \A s \in Phys : istream[s].open =>
        \/ s \in queued
        \/ Leg(s) \in stripe.legs
        \/ \E a \in Attempts : Leg(s) \in LegsOf(a)

\* What setDeliverHook's comment claims: chunks that reach a leg before its
\* hook are replayed, so none is left where the reassembler cannot see it.
EarlyChunksReplayed ==
    \A s \in Phys : ostream[s].hook /\ ostream[s].cnt > 1 => ostream[s].early = <<>>

\* A reader gets chunks in order, and of one attempt unless a CLOSE was lost
\* (reassembler.push, collectStripedLeg, MuxStream.Close).
OneAttemptInOrder == StripedInOrder /\ PrefixOfAttempt /\ MixedOnlyForward /\ LegsOfOneAttempt

\* Neither a chunk nor a leg is lost between the OPEN of a leg and the
\* connection it ends up in (collectStripedLeg, setDeliverHook).
NothingStranded == NoChunkLost /\ NoOrphanLeg
=============================================================================
