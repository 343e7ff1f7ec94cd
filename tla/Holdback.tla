------------------------------ MODULE Holdback ------------------------------
(***************************************************************************)
(* The relay's message holdback: the frames of a billable connection are   *)
(* kept until their message is complete and its record is accepted, then   *)
(* written to the client.  One scope (one registered NAT and session) with *)
(* its pumps, the acknowledgements of the clients, the expiry timers and   *)
(* the connections that fail or are reset meanwhile.                       *)
(*                                                                         *)
(* hb holds what holdback.mu protects.  The code compares entry pointers   *)
(* after every unlock; here a pump's `live` flag drops when the entry it   *)
(* works on leaves the table.  A timer that fired but waits for the mutex  *)
(* is `late`: stopping the timer does not stop it, scheduling a new one    *)
(* makes it obsolete.  Every frame has one byte, so that the byte limits   *)
(* coincide with the frame limits.                                         *)
(***************************************************************************)
EXTENDS Naturals, Sequences, FiniteSets, Functions

CONSTANTS
    Pumps,                 \* pumpRelayToClients of this scope, old group and new
    HoldConns,                 \* client connections
    Messages,              \* messages of the NAT
    MsgConn, MsgKind,      \* connection and route of a message
    MsgFrames,             \* its number of frames
    MsgSeq, MsgE2E,        \* its billing sequence and end-to-end session
    MaxConnectionMessages, MaxConnectionFrames, MaxGlobalMessages, MaxGlobalFrames,
    MaxConnections, MaxApproved, MaxConnectionApproved,
    MaxHoldFaults              \* bound: repeated frames, expiries, errors, closes, resumptions

HeldKinds == {"noise", "info", "keepalive", "data", "other"}

ASSUME HoldbackAssumption ==
    /\ MsgConn \in [Messages -> HoldConns] /\ MsgKind \in [Messages -> HeldKinds]
    /\ MsgFrames \in [Messages -> Nat \ {0}] /\ MsgSeq \in [Messages -> Nat]
    /\ MaxHoldFaults \in Nat /\ IsFiniteSet(Pumps) /\ "none" \notin Messages
    /\ MaxApproved \in Nat /\ MaxConnectionApproved \in Nat

\* A NAT numbers its billable records 1, 2, 3...; nothing else has a number.
ASSUME RecordsNumbered ==
    /\ \A m \in Messages : MsgSeq[m] # 0 <=> MsgKind[m] = "data"
    /\ \A m \in Messages, k \in Messages : MsgSeq[m] = MsgSeq[k] /\ MsgSeq[m] # 0 => m = k
    /\ \A m \in Messages : \A i \in 1..MsgSeq[m] : \E k \in Messages : MsgSeq[k] = i

VARIABLES
    hb,         \* entries, connections, counters and the validation lock
    pump,       \* the frame each pump works on
    open,       \* connections whose client leg is there
    nextSeq,    \* billing: nextRecordSequence of the session
    delivered,  \* frames written to a client
    released,   \* history: messages whose last validation released them
    holdBudget      \* faults left

holdVars == <<hb, pump, open, nextSeq, delivered, released, holdBudget>>

Locks == 1..(Cardinality(Pumps) + 1)
NoPump == [pc |-> "idle", msg |-> "none", live |-> FALSE, incoming |-> "none", phase |-> {},
           verdict |-> "none", lock |-> 0, out |-> <<>>, err |-> FALSE]
NoEntry == [frames |-> {}, status |-> "none", timer |-> FALSE, late |-> FALSE, why |-> "none"]
NoHeldConn == [known |-> FALSE, messages |-> 0, frames |-> 0, approved |-> 0, phase |-> {},
           e2e |-> "none", timer |-> FALSE, late |-> FALSE]
NoisePreludeMaxMessages == 4
Pending == {"collecting", "validating", "deferred"}

FramesOf(m) == 0..(MsgFrames[m] - 1)
HoldFault == holdBudget > 0 /\ holdBudget' = holdBudget - 1

-----------------------------------------------------------------------------
(* What runs under holdback.mu.                                             *)

Scheduled(e) == [e EXCEPT !.timer = TRUE, !.late = FALSE]
Stopped(e) == [e EXCEPT !.timer = FALSE]

\* removeIdleConnectionLocked.  A phase is what was approved on the connection.
RemoveIdle(h, c) ==
    IF /\ h.conns[c].messages = 0 /\ h.conns[c].frames = 0
       /\ h.conns[c].approved = 0 /\ h.conns[c].phase = {}
    THEN [h EXCEPT !.conns[c] = NoHeldConn] ELSE h

\* The messages of a list that are in S, in their order.
Among(s, S) ==
    LET taken[i \in 0..Len(s)] ==
          IF i = 0 THEN <<>> ELSE IF s[i] \in S THEN Append(taken[i - 1], s[i]) ELSE taken[i - 1]
    IN taken[Len(s)]

\* Mutant: removing a message forgets the frames it had pending.
NoFrames(h, M) == {}

FramesHeld(h, M) == UNION {{m} \X h.entries[m].frames : m \in M}

\* removeEntryLocked, for each of the messages M of a connection.
Removed(h, c, M) ==
    LET gone == {m \in M : h.entries[m].status # "none"}
        pend == {m \in gone : h.entries[m].status \in Pending}
        left == [m \in DOMAIN h.entries |-> IF m \in gone THEN NoEntry ELSE h.entries[m]]
        unused == (\A m \in Messages : left[m].status = "none") /\ h.lock # 0 /\ h.users[h.lock] = 0
        was == h.conns[c]
        conn == [was EXCEPT !.messages = was.messages - Cardinality(pend),
                            !.frames = was.frames - Cardinality(FramesHeld(h, pend)),
                            !.approved = was.approved - Cardinality(gone \ pend)]
    IN IF gone = {} THEN h
       ELSE RemoveIdle([h EXCEPT
               !.entries = left, !.lock = IF unused THEN 0 ELSE @,
               !.pendingMessages = @ - Cardinality(pend),
               !.pendingFrames = @ - Cardinality(FramesHeld(h, pend)),
               !.conns[c] = conn, !.approved = Among(@, Messages \ gone)], c)

RemoveEntryLocked(h, m) == Removed(h, MsgConn[m], {m})
RemoveAll(h, c) == Removed(h, c, {m \in Messages : MsgConn[m] = c})

\* forgetConnection.
ForgetConnection(h, c) == [RemoveAll(h, c) EXCEPT !.conns[c] = NoHeldConn]

\* resetConnection: what was approved on the connection survives until the
\* recovery timer.
Reset(h, c) ==
    LET r == RemoveAll(h, c) IN
    IF r.conns[c].phase # {}
    THEN [r EXCEPT !.conns[c].timer = TRUE, !.conns[c].late = FALSE]
    ELSE [r EXCEPT !.conns[c] = NoHeldConn]

\* evictApprovedLocked: the oldest fingerprints of all, then of the connection.
EvictApproved(h, c) ==
    LET g == IF Len(h.approved) > MaxApproved THEN RemoveEntryLocked(h, Head(h.approved)) ELSE h
        own == Among(g.approved, {x \in Messages : MsgConn[x] = c})
    IN IF g.conns[c].approved > MaxConnectionApproved THEN RemoveEntryLocked(g, Head(own)) ELSE g

\* Frames of entries that left the table are no longer this pump's.
StillHeld(h, ps) ==
    [p \in Pumps |-> [ps[p] EXCEPT
        !.live = ps[p].live /\ h.entries[ps[p].msg].status # "none"]]

Become(h, ps) == hb' = h /\ pump' = StillHeld(h, ps)
Goto(p, label) == [pump EXCEPT ![p].pc = label]

\* framesForForward returns, with or without an error, and unlocks.
Returning(q, failed) ==
    [q EXCEPT !.pc = "leave", !.live = FALSE, !.msg = "none", !.verdict = "none",
              !.err = failed]

\* The pump wrote what was authorized: an error closes the connection of the
\* frame that was read.
AfterWrite(q) ==
    IF q.out # <<>> THEN [q EXCEPT !.pc = "write"]
    ELSE IF q.err THEN [NoPump EXCEPT !.pc = "reject", !.incoming = q.incoming]
    ELSE NoPump

-----------------------------------------------------------------------------
(* add: a Data or Retransmit frame enters the holdback.                      *)

Stored(h, m, s) ==
    LET e == h.entries[m]  c == MsgConn[m]
        fresh == IF e.status = "none" THEN 1 ELSE 0
        done == e.frames \cup {s} = FramesOf(m)
        kept == [Scheduled(e) EXCEPT !.frames = e.frames \cup {s},
                                     !.status = IF done THEN "validating" ELSE "collecting"]
        was == h.conns[c]
        conn == [was EXCEPT !.known = TRUE, !.timer = FALSE,
                            !.messages = was.messages + fresh, !.frames = was.frames + 1]
    IN [h EXCEPT
          !.entries[m] = IF done THEN Stopped(kept) ELSE kept, !.conns[c] = conn,
          !.pendingMessages = @ + fresh, !.pendingFrames = @ + 1]

WithinLimits(m) ==
    LET c == hb.conns[MsgConn[m]] IN
    /\ hb.entries[m].status = "none" => /\ c.messages < MaxConnectionMessages
                                        /\ hb.pendingMessages < MaxGlobalMessages
    /\ c.known \/ Cardinality({x \in HoldConns : hb.conns[x].known}) < MaxConnections
    /\ c.frames < MaxConnectionFrames /\ hb.pendingFrames < MaxGlobalFrames

FrameArrives(p, m, s) ==
    /\ pump[p].pc = "idle" /\ open[MsgConn[m]] /\ s \in FramesOf(m)

\* A frame not seen yet; the last one missing starts the validation.
ReceiveNew(p, m, s) ==
    /\ FrameArrives(p, m, s) /\ s \notin hb.entries[m].frames /\ WithinLimits(m)
    /\ LET h == Stored(hb, m, s) IN
       Become(h, [pump EXCEPT ![p] =
           IF h.entries[m].status = "validating"
           THEN [NoPump EXCEPT !.pc = "guard", !.msg = m, !.live = TRUE, !.incoming = m]
           ELSE pump[p]])
    /\ UNCHANGED <<open, nextSeq, delivered, released, holdBudget>>

\* A limit is reached: the connection, its recovery stopped, is refused.
ReceiveOverLimit(p, m, s) ==
    /\ FrameArrives(p, m, s) /\ s \notin hb.entries[m].frames /\ ~WithinLimits(m)
    /\ hb' = [hb EXCEPT !.conns[MsgConn[m]].timer = FALSE]
    /\ pump' = [pump EXCEPT ![p] = [NoPump EXCEPT !.pc = "reject", !.incoming = m]]
    /\ UNCHANGED <<open, nextSeq, delivered, released, holdBudget>>

\* A repeated frame with another content, or another number of frames.
ReceiveConflict(p, m, s) ==
    /\ FrameArrives(p, m, s) /\ s \in hb.entries[m].frames /\ HoldFault
    /\ pump' = [pump EXCEPT ![p] = [NoPump EXCEPT !.pc = "reject", !.incoming = m]]
    /\ UNCHANGED <<hb, open, nextSeq, delivered, released>>

\* A repeated frame of an approved message passes at once.
ReceiveApproved(p, m, s) ==
    /\ FrameArrives(p, m, s) /\ hb.entries[m].status = "approved"
    /\ pump' = [pump EXCEPT ![p] =
                  [NoPump EXCEPT !.pc = "write", !.incoming = m, !.out = <<<<m, {s}>>>>]]
    /\ UNCHANGED <<hb, open, nextSeq, delivered, released, holdBudget>>

\* A deferred message is validated again.
Again(m) == [Stopped(hb.entries[m]) EXCEPT !.status = "validating"]

\* The last frame of a deferred message is repeated after its retry delay.
ReceiveDeferred(p, m, s) ==
    /\ FrameArrives(p, m, s) /\ hb.entries[m].status = "deferred" /\ s = MsgFrames[m] - 1
    /\ hb' = [hb EXCEPT !.entries[m] = Again(m)]
    /\ pump' = [pump EXCEPT ![p] =
                  [NoPump EXCEPT !.pc = "guard", !.msg = m, !.live = TRUE, !.incoming = m]]
    /\ UNCHANGED <<open, nextSeq, delivered, released, holdBudget>>

-----------------------------------------------------------------------------
(* framesForForward: one validation of the scope at a time.                  *)

\* The pump is between validationLock.mu.Lock and its release.
Inside(p) == pump[p].pc \in {"phase", "validate", "conclude", "next"}

\* Mutant: the lock object is replaced although a pump waits for it.
GuardFreshLock(p) ==
    /\ pump[p].pc = "guard" /\ pump[p].live
    /\ LET l == CHOOSE x \in Locks : hb.users[x] = 0 IN
       /\ hb' = [hb EXCEPT !.lock = l, !.users[l] = @ + 1]
       /\ pump' = [pump EXCEPT ![p].pc = "acquire", ![p].lock = l]
    /\ UNCHANGED <<open, nextSeq, delivered, released, holdBudget>>

\* validationGuard: count the user of the scope's lock, then wait for it.
Guard(p) ==
    /\ pump[p].pc = "guard" /\ pump[p].live
    /\ LET l == IF hb.lock # 0 THEN hb.lock ELSE CHOOSE x \in Locks : hb.users[x] = 0 IN
       /\ hb' = [hb EXCEPT !.lock = l, !.users[l] = @ + 1]
       /\ pump' = [pump EXCEPT ![p].pc = "acquire", ![p].lock = l]
    /\ UNCHANGED <<open, nextSeq, delivered, released, holdBudget>>

GuardExpired(p) ==
    /\ pump[p].pc = "guard" /\ ~pump[p].live
    /\ pump' = [pump EXCEPT ![p] = [NoPump EXCEPT !.pc = "reject", !.incoming = pump[p].incoming]]
    /\ UNCHANGED <<hb, open, nextSeq, delivered, released, holdBudget>>

Acquire(p) ==
    /\ pump[p].pc = "acquire"
    /\ \A q \in Pumps : ~(Inside(q) /\ pump[q].lock = pump[p].lock)
    /\ pump' = Goto(p, "phase") /\ released' = released \ {pump[p].msg}
    /\ UNCHANGED <<hb, open, nextSeq, delivered, holdBudget>>

\* phase: a copy of what the connection went through.
ReadPhase(p) ==
    /\ pump[p].pc = "phase"
    /\ LET c == hb.conns[MsgConn[pump[p].msg]]
           phase == c.phase \cup (IF c.e2e = "none" THEN {} ELSE {c.e2e})
       IN pump' = [pump EXCEPT ![p] =
              IF pump[p].live /\ c.known THEN [pump[p] EXCEPT !.pc = "validate", !.phase = phase]
              ELSE Returning(pump[p], TRUE)]
    /\ UNCHANGED <<hb, open, nextSeq, delivered, released, holdBudget>>

\* Mutant: a record ahead of its turn is let through.
VerdictsIgnoreGap(m, phase) ==
    IF MsgKind[m] = "data" THEN {"approve", "retry", "fatal"} ELSE {"approve"}

\* validateHeldMessage; for a billable record observe: a record already
\* counted passes again, one ahead of its turn is deferred, the next one may
\* find the billing control unavailable, and any may meet a fatal error.
Verdicts(m, phase) ==
    LET other == {MsgE2E[k] : k \in Messages} \ {MsgE2E[m]}
        foreign == phase \cap other # {}
    IN CASE MsgKind[m] = "noise" ->
              IF \/ phase \cap {"data", "info"} # {} \/ m \in phase
                 \/ Cardinality(phase \cap Messages) >= NoisePreludeMaxMessages
              THEN {"reject"} ELSE {"approve"}
         [] MsgKind[m] = "keepalive" ->
              IF phase \cap {"data", "info"} # {} /\ MsgE2E[m] \in phase
              THEN {"approve"} ELSE {"reject"}
         [] MsgKind[m] = "info" ->
              IF phase \cap {"data", "info"} # {} \/ foreign THEN {"reject"} ELSE {"approve"}
         [] MsgKind[m] = "data" ->
              IF foreign THEN {"reject"}
              ELSE IF MsgSeq[m] > nextSeq THEN {"order", "retry", "fatal"}
              ELSE {"approve", "retry", "fatal"}
         [] MsgKind[m] = "other" -> {"reject"}

Validate(p) ==
    /\ pump[p].pc = "validate"
    /\ \E v \in Verdicts(pump[p].msg, pump[p].phase) :
         /\ IF v \in {"retry", "fatal"} THEN HoldFault ELSE UNCHANGED holdBudget
         /\ pump' = [pump EXCEPT ![p].pc = "conclude", ![p].verdict = v, ![p].phase = {}]
         /\ nextSeq' = IF /\ v = "approve" /\ MsgKind[pump[p].msg] = "data"
                          /\ MsgSeq[pump[p].msg] = nextSeq
                       THEN nextSeq + 1 ELSE nextSeq
    /\ UNCHANGED <<hb, open, delivered, released>>

\* approve: the pending counters become approved ones, the frames go out.
Approved(h, m) ==
    LET c == MsgConn[m]  n == Cardinality(h.entries[m].frames)
        entry == [h.entries[m] EXCEPT !.status = "approved", !.why = "none"]
        went == CASE MsgKind[m] = "noise" -> {m}
                  [] MsgKind[m] = "keepalive" -> {}
                  [] OTHER -> {MsgKind[m]}
        was == h.conns[c]
        conn == [was EXCEPT
                   !.messages = was.messages - 1, !.frames = was.frames - n,
                   !.approved = was.approved + 1, !.phase = was.phase \cup went,
                   !.e2e = IF MsgKind[m] \in {"info", "data"} THEN MsgE2E[m] ELSE was.e2e]
        g == EvictApproved([h EXCEPT
               !.entries[m] = entry, !.conns[c] = conn,
               !.pendingMessages = @ - 1, !.pendingFrames = @ - n, !.approved = Append(@, m)], c)
    IN IF g.entries[m].status = "approved"
       THEN [g EXCEPT !.entries[m] = Scheduled(g.entries[m])] ELSE g

ConcludeApprove(p) ==
    /\ pump[p].pc = "conclude" /\ pump[p].verdict = "approve"
    /\ LET m == pump[p].msg IN
       IF /\ pump[p].live /\ hb.conns[MsgConn[m]].known
          /\ MsgKind[m] \in {"info", "data"} => hb.conns[MsgConn[m]].e2e \in {"none", MsgE2E[m]}
       THEN /\ Become(Approved(hb, m),
                      [pump EXCEPT ![p] = [pump[p] EXCEPT !.pc = "next", !.live = FALSE,
                          !.verdict = "none", !.out = Append(pump[p].out, <<m, FramesOf(m)>>)]])
            /\ released' = released \cup {m}
       ELSE pump' = [pump EXCEPT ![p] = Returning(pump[p], FALSE)] /\ UNCHANGED <<hb, released>>
    /\ UNCHANGED <<open, nextSeq, delivered, holdBudget>>

\* deferCompletion, for a record ahead of its turn or a temporary failure.
ConcludeDefer(p) ==
    /\ pump[p].pc = "conclude" /\ pump[p].verdict \in {"order", "retry"}
    /\ LET m == pump[p].msg IN
       IF pump[p].live
       THEN /\ hb' = [hb EXCEPT !.entries[m] =
                        [Scheduled(hb.entries[m]) EXCEPT !.status = "deferred", !.why = pump[p].verdict]]
            /\ pump' = [pump EXCEPT ![p] = Returning(pump[p], FALSE)]
       ELSE pump' = [pump EXCEPT ![p] = Returning(pump[p], TRUE)] /\ UNCHANGED hb
    /\ UNCHANGED <<open, nextSeq, delivered, released, holdBudget>>

\* reject: the message leaves, the pump then refuses the connection.
ConcludeReject(p) ==
    /\ pump[p].pc = "conclude" /\ pump[p].verdict \in {"reject", "fatal"}
    /\ Become(IF pump[p].live THEN RemoveEntryLocked(hb, pump[p].msg) ELSE hb,
              [pump EXCEPT ![p] = Returning(pump[p], TRUE)])
    /\ UNCHANGED <<open, nextSeq, delivered, released, holdBudget>>

\* nextDeferred: the deferred record with the lowest sequence follows.
NextDeferred(p) ==
    /\ pump[p].pc = "next"
    /\ LET waiting == {m \in Messages : /\ hb.entries[m].status = "deferred"
                                        /\ MsgSeq[m] # 0 /\ MsgSeq[pump[p].msg] # 0}
       IN IF waiting = {}
          THEN pump' = [pump EXCEPT ![p] = Returning(pump[p], FALSE)] /\ UNCHANGED <<hb, released>>
          ELSE \E m \in waiting :
                 /\ \A k \in waiting : MsgSeq[m] <= MsgSeq[k]
                 /\ hb' = [hb EXCEPT !.entries[m] = Again(m)]
                 /\ pump' = [pump EXCEPT ![p].pc = "phase", ![p].msg = m, ![p].live = TRUE]
                 /\ released' = released \ {m}
    /\ UNCHANGED <<open, nextSeq, delivered, holdBudget>>

\* releaseValidation, once unlocked: give the lock object up.
Leave(p) ==
    /\ pump[p].pc = "leave"
    /\ LET l == pump[p].lock
           gone == hb.users[l] = 1 /\ hb.lock = l
                   /\ \A m \in Messages : hb.entries[m].status = "none"
       IN hb' = [hb EXCEPT !.users[l] = @ - 1, !.lock = IF gone THEN 0 ELSE @]
    /\ pump' = [pump EXCEPT ![p] = AfterWrite([pump[p] EXCEPT !.lock = 0])]
    /\ UNCHANGED <<open, nextSeq, delivered, released, holdBudget>>

-----------------------------------------------------------------------------
(* pumpRelayToClients: the authorized frames are written, then an error of   *)
(* the authorization closes the connection of the frame that was read.       *)

WriteOne(p) ==
    /\ pump[p].pc = "write" /\ pump[p].out # <<>>
    /\ LET m == Head(pump[p].out)[1] IN
       delivered' = IF open[MsgConn[m]]
                    THEN delivered \cup ({m} \X Head(pump[p].out)[2]) ELSE delivered
    /\ pump' = [pump EXCEPT ![p] = AfterWrite([pump[p] EXCEPT !.out = Tail(pump[p].out)])]
    /\ UNCHANGED <<hb, open, nextSeq, released, holdBudget>>

\* The batch cannot be written: resetHeldConnection, then onClientFailure.
WriteFails(p) ==
    /\ pump[p].pc = "write" /\ pump[p].out # <<>> /\ HoldFault
    /\ LET c == MsgConn[Head(pump[p].out)[1]] IN
       /\ open[c]
       /\ Become(Reset(hb, c), [pump EXCEPT ![p] = AfterWrite([pump[p] EXCEPT !.out = Tail(pump[p].out)])])
       /\ open' = [open EXCEPT ![c] = FALSE]
    /\ UNCHANGED <<nextSeq, delivered, released>>

\* rejectConnection: forgetHeldConnection and the client's stream closed.
RejectConnection(p) ==
    /\ pump[p].pc = "reject"
    /\ LET c == MsgConn[pump[p].incoming] IN
       /\ Become(ForgetConnection(hb, c), [pump EXCEPT ![p] = NoPump])
       /\ open' = [open EXCEPT ![c] = FALSE]
    /\ UNCHANGED <<nextSeq, delivered, released, holdBudget>>

-----------------------------------------------------------------------------
(* The other goroutines that take holdback.mu.                               *)

\* acknowledgeHeldMessage, when the client's acknowledgement covers it all.
Acknowledge(m) ==
    /\ {m} \X FramesOf(m) \subseteq delivered /\ open[MsgConn[m]]
    /\ IF hb.entries[m].status = "approved" THEN Become(RemoveEntryLocked(hb, m), pump)
                                           ELSE UNCHANGED <<hb, pump>>
    /\ UNCHANGED <<open, nextSeq, delivered, released, holdBudget>>

\* closeTargetConnection; a client may come back with the same connection.
CloseConnection(c) ==
    /\ open[c] /\ HoldFault
    /\ Become(Reset(hb, c), pump)
    /\ open' = [open EXCEPT ![c] = FALSE]
    /\ UNCHANGED <<nextSeq, delivered, released>>

Resume(c) ==
    /\ ~open[c] /\ HoldFault
    /\ open' = [open EXCEPT ![c] = TRUE]
    /\ UNCHANGED <<hb, pump, nextSeq, delivered, released>>

\* The timer of a message fires; its callback waits for the mutex.
TimerFires(m) ==
    /\ hb.entries[m].timer /\ ~hb.entries[m].late /\ HoldFault
    /\ hb' = [hb EXCEPT !.entries[m].late = TRUE]
    /\ UNCHANGED <<pump, open, nextSeq, delivered, released>>

Expire(m) ==
    /\ hb.entries[m].late
    /\ Become(RemoveEntryLocked(hb, m), pump)
    /\ UNCHANGED <<open, nextSeq, delivered, released, holdBudget>>

RecoveryFires(c) ==
    /\ hb.conns[c].timer /\ ~hb.conns[c].late
    /\ hb' = [hb EXCEPT !.conns[c].late = TRUE]
    /\ UNCHANGED <<pump, open, nextSeq, delivered, released, holdBudget>>

RecoveryExpires(c) ==
    /\ hb.conns[c].late
    /\ hb' = [hb EXCEPT !.conns[c] =
                IF hb.conns[c].messages = 0 /\ hb.conns[c].approved = 0 THEN NoHeldConn
                ELSE [hb.conns[c] EXCEPT !.timer = FALSE, !.late = FALSE]]
    /\ UNCHANGED <<pump, open, nextSeq, delivered, released, holdBudget>>

-----------------------------------------------------------------------------

HoldInit ==
    /\ hb = [entries |-> [m \in Messages \cup {"none"} |-> NoEntry],
             conns |-> [c \in HoldConns |-> NoHeldConn],
             pendingMessages |-> 0, pendingFrames |-> 0, approved |-> <<>>,
             lock |-> 0, users |-> [l \in Locks |-> 0]]
    /\ pump = [p \in Pumps |-> NoPump]
    /\ open = [c \in HoldConns |-> TRUE]
    /\ nextSeq = 1 /\ delivered = {} /\ released = {}
    /\ holdBudget = MaxHoldFaults

Receive(p) ==
    \E m \in Messages : \E s \in FramesOf(m) :
        \/ ReceiveNew(p, m, s) \/ ReceiveOverLimit(p, m, s) \/ ReceiveConflict(p, m, s)
        \/ ReceiveApproved(p, m, s) \/ ReceiveDeferred(p, m, s)

HoldNext ==
    \/ \E p \in Pumps :
         \/ Receive(p) \/ Guard(p) \/ GuardExpired(p) \/ Acquire(p) \/ ReadPhase(p)
         \/ Validate(p) \/ ConcludeApprove(p) \/ ConcludeDefer(p) \/ ConcludeReject(p)
         \/ NextDeferred(p) \/ Leave(p)
         \/ WriteOne(p) \/ WriteFails(p) \/ RejectConnection(p)
    \/ \E m \in Messages : Acknowledge(m) \/ TimerFires(m) \/ Expire(m)
    \/ \E c \in HoldConns : \/ CloseConnection(c) \/ Resume(c)
                        \/ RecoveryFires(c) \/ RecoveryExpires(c)

HoldSpec == HoldInit /\ [][HoldNext]_holdVars

-----------------------------------------------------------------------------
(* Properties.                                                              *)

\* No frame of a billable message reaches a client before the billing hook
\* counted its record and every record before it, whatever pumps, timers and
\* resets do between the hook's answer and the write.
ForwardedWasAccepted ==
    \A d \in delivered : MsgKind[d[1]] = "data" => MsgSeq[d[1]] < nextSeq

\* The counters the limits are compared with are exactly what the table
\* holds, for the scope and for each connection, after any mix of expiries,
\* evictions, resets and rejections: a counter that drifts refuses a healthy
\* connection or lets memory grow past the limit.
CountersExact ==
    LET In(S) == {m \in Messages : hb.entries[m].status \in S}
        FramesIn(M) == Cardinality(UNION {{m} \X hb.entries[m].frames : m \in M})
    IN /\ hb.pendingMessages = Cardinality(In(Pending))
       /\ hb.pendingFrames = FramesIn(In(Pending))
       /\ Range(hb.approved) = In({"approved"}) /\ Len(hb.approved) <= MaxApproved
       /\ \A c \in HoldConns :
            LET own == {m \in Messages : MsgConn[m] = c} IN
            /\ hb.conns[c].messages = Cardinality(In(Pending) \cap own)
            /\ hb.conns[c].frames = FramesIn(In(Pending) \cap own)
            /\ hb.conns[c].approved = Cardinality(In({"approved"}) \cap own)

\* While nobody validates, a record deferred because it came early waits for
\* an earlier record whose last validation, if any, did not release it:
\* deferCompletion cannot miss the wake-up of nextDeferred, because one lock
\* spans the hook's answer and both of them.
NoStrandedRecord ==
    (\A p \in Pumps : ~Inside(p)) =>
        \A m \in Messages :
            hb.entries[m].status = "deferred" /\ hb.entries[m].why = "order"
            => \E k \in Messages : /\ MsgSeq[k] \in 1..(MsgSeq[m] - 1)
                                   /\ k \notin released
=============================================================================
