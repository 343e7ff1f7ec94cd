--------------------------- MODULE BillingSession ---------------------------
(***************************************************************************)
(* Dual-signed billing between one NAT (the payer) and one relay: the NAT's *)
(* senders and meter, the control connections on which the relay presents  *)
(* its watermark and asks for vouchers, the relay's record pipeline and    *)
(* its settlement loop, with the failures either side may meet.            *)
(*                                                                         *)
(* A control connection carries one message at a time in each direction,   *)
(* because every message of the protocol waits for its answer.  What the   *)
(* NAT wrote before it closed a connection may still be read; what the     *)
(* relay wrote is lost with it.                                            *)
(***************************************************************************)
EXTENDS BillingEvidence

CONSTANTS Conns,       \* names of control connections; reused once closed
          FaultSets,   \* the failures that may happen together, one set per scenario
          MaxFaults    \* bound: how many of them

FaultKinds == {"disconnect", "claimTimeout", "sealError", "sendTimeout", "cancel",
               "queueFull", "caFunds", "caReject", "relayCrash", "natCrash"}

ASSUME SessionAssumption ==
    /\ Conns \subseteq Nat \ {0}
    /\ FaultSets \subseteq SUBSET FaultKinds /\ MaxFaults \in Nat

VARIABLES
    send,        \* NAT: the Send call of each message
    nat,         \* NAT: meter.sessions and channels, by session
    bound,       \* NAT: relaySessions[relay], 0 when there is none
    invalid,     \* NAT: invalidSessions
    conn,        \* NAT: the open control connection, 0 when there is none
    down, up,    \* the message on its way to the NAT, to the relay, by connection
    handler,     \* relay: acceptControl, by connection
    relay,       \* relay: pipeline.sessions
    current,     \* relay: currentByPayer, 0 when there is none
    control,     \* relay: controls[payer], 0 when there is none
    observer,    \* relay: the record waiting for a voucher, session lock held
    queue,       \* relay: the durable waitSubmit queue
    cutoff,      \* relay: accounts.isCutoff(payer)
    poisoned,    \* relay: pipeline.fatalErr
    wire,        \* records that reached the network
    acked,       \* records the relay forwarded and acknowledged
    settled,     \* vouchers the CA accepted
    fresh,       \* the next random session identifier
    budget       \* failures left, those of the scenario, whether the NAT has
                 \* forgotten its sessions (history)

natVars == <<send, nat, bound, invalid, conn>>
relayVars == <<handler, relay, current, control, observer, queue, cutoff, poisoned, fresh>>
vars == <<natVars, relayVars, down, up, wire, acked, settled, budget>>

None == [type |-> "none"]
Idle == [stage |-> "closed", sid |-> 0, attempt |-> 0, advertised |-> <<>>, claim |-> NoVoucher]

Fault(kind) ==
    /\ kind \in budget.kinds /\ budget.left > 0
    /\ budget' = [budget EXCEPT !.left = @ - 1, !.forgot = @ \/ kind = "natCrash"]

RecordOf(m) == [sid |-> send[m].sid, seq |-> send[m].seq,
                rec |-> [msg |-> m, try |-> send[m].try]]

-----------------------------------------------------------------------------
(* NAT: NATConnection.Send.                                                 *)

Ready == bound # 0 /\ bound \notin invalid

\* Mutant: the last send in flight does not ask for the renegotiation.
DrainedNever(n, sid, inv) == FALSE

\* completeSend's answer: the last send in flight of a session that has to
\* be reconciled.
Drained(n, sid, inv) == (sid \in inv \/ n.draining) /\ n.active = {}

\* billingFailure: resetBillingControl closes the stream, whose serve loop
\* ends and invalidates the session.
ResetControlIf(reset, inv) ==
    /\ conn' = IF reset THEN 0 ELSE conn
    /\ invalid' = IF reset /\ conn # 0 THEN inv \cup ({bound} \ {0}) ELSE inv

\* waitRelaySession, the send-order lease and prepareWithLease: one send at a
\* time is between its sequence number and its first write.
Prepare(m) ==
    /\ send[m].stage = "new" /\ send[m].try < MaxTry
    /\ Ready
    /\ \A o \in Messages : ~(send[o].stage = "prepared" /\ send[o].sid = bound)
    /\ send' = [send EXCEPT ![m] = [stage |-> "prepared", sid |-> bound, try |-> @.try + 1,
                                    seq |-> nat[bound].nextAssigned]]
    /\ nat' = [nat EXCEPT ![bound] = Prepared(@, Bytes[m])]
    /\ UNCHANGED <<bound, invalid, conn, relayVars, down, up, wire, acked, settled, budget>>

\* The stream seals the message, shows it to observe and writes it; the
\* first write releases the lease.
Write(m) ==
    LET r == RecordOf(m) IN
    /\ send[m].stage = "prepared"
    /\ nat' = [nat EXCEPT ![r.sid] = Observed(@, r.seq, r.rec)]
    /\ wire' = wire \cup {r}
    /\ send' = [send EXCEPT ![m].stage = "written"]
    /\ UNCHANGED <<bound, invalid, conn, relayVars, down, up, acked, settled, budget>>

\* The stream fails before sealing.  The lease is released, nothing else has
\* happened yet.
SealError(m) ==
    /\ Fault("sealError")
    /\ send[m].stage = "prepared"
    /\ send' = [send EXCEPT ![m].stage = "failing"]
    /\ UNCHANGED <<nat, bound, invalid, conn, relayVars, down, up, wire, acked, settled>>

\* A record observeRecord refuses whenever it is retransmitted: its turn is
\* past, or the record whose turn it is is no longer being sent.
Refused(r) ==
    LET s == relay[r.sid] IN
    \/ cutoff \/ poisoned \/ ~s.exists \/ s.blocked # "no"
    \/ r.seq < RelayNext(s)
    \/ ~\E m \in Messages : /\ send[m].stage = "written"
                            /\ send[m].sid = r.sid /\ send[m].seq = RelayNext(s)

\* Retransmissions run out (ErrMessageMaxRetransmits), for want of an
\* acknowledgement or of a connection: Send tries again.
SendTimeout(m) ==
    /\ send[m].stage = "written"
    /\ \/ RecordOf(m) \notin acked /\ Refused(RecordOf(m)) /\ UNCHANGED budget
       \/ Fault("sendTimeout")
    /\ send' = [send EXCEPT ![m].stage = "retrying"]
    /\ UNCHANGED <<nat, bound, invalid, conn, relayVars, down, up, wire, acked, settled>>

\* The error path: invalidateRelaySessionForSession, completeSend and, for the
\* last send in flight, billingFailure.
Fail(m) ==
    LET s == send[m].sid
        n == Completed(nat[s], send[m].seq)
        inv == IF s = bound THEN invalid \cup {s} ELSE invalid
    IN  /\ send[m].stage \in {"failing", "retrying"}
        /\ nat' = [nat EXCEPT ![s] = n]
        /\ ResetControlIf(Drained(n, s, inv), inv)
        /\ send' = [send EXCEPT ![m].stage =
                       IF @ = "retrying" /\ send[m].try < MaxTry THEN "new" ELSE "failed"]
        /\ UNCHANGED <<bound, relayVars, down, up, wire, acked, settled, budget>>

\* The caller gives up after the first write: completeSend, its answer ignored.
Cancel(m) ==
    /\ Fault("cancel")
    /\ send[m].stage = "written"
    /\ nat' = [nat EXCEPT ![send[m].sid] = Completed(@, send[m].seq)]
    /\ send' = [send EXCEPT ![m].stage = "failed"]
    /\ UNCHANGED <<bound, invalid, conn, relayVars, down, up, wire, acked, settled>>

\* The acknowledgement arrives: confirm, completeSend.  A record confirmed
\* before it was advanced over is an error that invalidates the session.
Confirm(m) ==
    LET s == send[m].sid
        unproven == send[m].seq >= NextAdvance(nat[s])
        n == Completed(IF unproven THEN nat[s] ELSE Confirmed(nat[s], send[m].seq), send[m].seq)
        inv == IF unproven /\ s = bound THEN invalid \cup {s} ELSE invalid
    IN  /\ send[m].stage = "written"
        /\ RecordOf(m) \in acked
        /\ nat' = [nat EXCEPT ![s] = n]
        /\ ResetControlIf(Drained(n, s, inv), inv)
        /\ send' = [send EXCEPT ![m].stage = IF unproven THEN "failed" ELSE "done"]
        /\ UNCHANGED <<bound, relayVars, down, up, wire, acked, settled, budget>>

-----------------------------------------------------------------------------
(* NAT: maintainBillingControl and serveBillingControl.                     *)

Connect(c) ==
    /\ conn = 0
    /\ handler[c].stage = "closed" /\ control # c /\ \A o \in observer : o.conn # c
    /\ conn' = c
    /\ handler' = [handler EXCEPT ![c] = [Idle EXCEPT !.stage = "accepted"]]
    /\ down' = [down EXCEPT ![c] = None]
    /\ up' = [up EXCEPT ![c] = None]
    /\ UNCHANGED <<send, nat, bound, invalid, relay, current, control, observer, queue,
                   cutoff, poisoned, fresh, wire, acked, settled, budget>>

\* The serve loop ends, because the relay closed the stream or it broke.
Disconnect ==
    /\ conn # 0
    /\ \/ handler[conn].stage = "closed" /\ UNCHANGED budget
       \/ handler[conn].stage # "closed" /\ Fault("disconnect")
    /\ conn' = 0
    /\ invalid' = invalid \cup ({bound} \ {0})
    /\ UNCHANGED <<send, nat, bound, relayVars, down, up, wire, acked, settled>>

\* activateRelaySessionWithState's answers.
ResetReply(sid, chain, v) ==
    [type |-> "ready", sid |-> sid, preexisting |-> FALSE, reset |-> TRUE,
     chain |-> chain, voucher |-> v]
ReadyReply(sid, preexisting, chain, v) ==
    [type |-> "ready", sid |-> sid, preexisting |-> preexisting, reset |-> FALSE,
     chain |-> chain, voucher |-> v]

Reply(msg) == up' = [up EXCEPT ![conn] = msg]

\* The session the relay presents becomes the session of this relay.
Bind(sid) ==
    /\ bound' = sid
    /\ invalid' = (invalid \cup ({bound} \ {0, sid})) \ {sid}

MayBind(sid) == \A previous \in {bound} \ {0, sid} : SafeToReplace(nat[previous])
Retired(sid) == sid \in invalid /\ sid # bound

Offered(n, chain) == IF Recoverable(n, chain) THEN n.last ELSE NoVoucher

\* An invalid session is drained, closed or resumed.
Reconcile(sid, chain) ==
    LET n == nat[sid]
        target == ReconcileTarget(n, chain)
    IN  /\ ~ReconcileRejects(n, chain)
        /\ \/ /\ n.active # {}
              /\ nat' = [nat EXCEPT ![sid].draining = TRUE]
              /\ Reply(ReadyReply(sid, TRUE, target, Offered(n, chain)))
              /\ UNCHANGED <<bound, invalid>>
           \/ /\ n.active = {} /\ RotationRequired(n, chain)
              /\ nat' = [nat EXCEPT ![sid] = Rotating(n, chain)]
              /\ Reply(ResetReply(sid, target, Offered(n, chain)))
              /\ UNCHANGED <<bound, invalid>>
           \/ /\ n.active = {} /\ ~RotationRequired(n, chain)
              /\ nat' = [nat EXCEPT ![sid] = Resumed(n, chain)]
              /\ Reply(ReadyReply(sid, TRUE, target, Offered(n, chain)))
              /\ Bind(sid)

\* activateRelaySessionWithState where it returns a status.
Activate(sid, chain) ==
    \/ /\ Retired(sid) \/ (MayBind(sid) /\ sid \notin DOMAIN nat /\ chain # <<>>)
       /\ Reply(ResetReply(sid, <<>>, NoVoucher))
       /\ UNCHANGED <<nat, bound, invalid>>
    \/ /\ ~Retired(sid) /\ MayBind(sid) /\ sid \in DOMAIN nat /\ sid \in invalid
       /\ Reconcile(sid, chain)
    \/ /\ MayBind(sid) /\ sid \in DOMAIN nat /\ sid \notin invalid
       /\ chain = nat[sid].chain
       /\ Reply(ReadyReply(sid, TRUE, chain, NoVoucher))
       /\ Bind(sid)
       /\ UNCHANGED nat
    \/ /\ MayBind(sid) /\ sid \notin DOMAIN nat /\ chain = <<>>
       /\ nat' = [s \in DOMAIN nat \cup {sid} |-> IF s = sid THEN NewNatSession ELSE nat[s]]
       /\ Reply(ReadyReply(sid, FALSE, <<>>, NoVoucher))
       /\ Bind(sid)

\* ... and where it returns an error, on which the serve loop ends.
Refuses(sid, chain) ==
    /\ ~Retired(sid)
    /\ \/ ~MayBind(sid)
       \/ /\ sid \in DOMAIN nat
          /\ IF sid \in invalid THEN ReconcileRejects(nat[sid], chain)
                                ELSE chain # nat[sid].chain

\* serveBillingControl receives TypeSession.
OnSession ==
    /\ conn # 0 /\ down[conn].type = "session"
    /\ LET sid == down[conn].sid
           chain == down[conn].chain
       IN  \/ Activate(sid, chain) /\ UNCHANGED conn
           \/ /\ Refuses(sid, chain)
              /\ conn' = 0
              /\ invalid' = invalid \cup ({bound} \ {0})
              /\ UNCHANGED <<nat, bound, up>>
    /\ down' = [down EXCEPT ![conn] = None]
    /\ UNCHANGED <<send, relayVars, wire, acked, settled, budget>>

\* serveBillingControl receives TypeClaim: cosign or reject.
OnClaim ==
    /\ conn # 0 /\ down[conn].type = "claim"
    /\ LET v == down[conn].voucher
       IN  IF v.sid \in DOMAIN nat /\ Cosigns(nat[v.sid], v)
           THEN /\ nat' = [nat EXCEPT ![v.sid] = Cosigned(@, v)]
                /\ Reply([type |-> "cosigned", voucher |-> v])
           ELSE Reply([type |-> "reject"]) /\ UNCHANGED nat
    /\ down' = [down EXCEPT ![conn] = None]
    /\ UNCHANGED <<send, bound, invalid, conn, relayVars, wire, acked, settled, budget>>

-----------------------------------------------------------------------------
(* Relay: acceptControl.                                                    *)

\* The session lock is held while a record waits for its voucher.
Unlocked(sid) == \A o \in observer : o.r.sid # sid

Send(c, msg) == down' = [down EXCEPT ![c] = msg]

\* peer.close and removeControl.
ClosePeer(c) ==
    /\ handler' = [handler EXCEPT ![c] = Idle]
    /\ control' = IF control = c THEN 0 ELSE control

SessionMsg(sid, chain) == [type |-> "session", sid |-> sid, chain |-> chain]
ClaimMsg(v) == [type |-> "claim", voucher |-> v]

Advertising(sid, attempt, chain) ==
    [Idle EXCEPT !.stage = "advertised", !.sid = sid, !.attempt = attempt, !.advertised = chain]

\* The first attempt: the payer's current session, or a new one; a poisoned
\* relay closes the connection.
Advertise(c) ==
    /\ handler[c].stage = "accepted"
    /\ \/ /\ poisoned
          /\ ClosePeer(c) /\ UNCHANGED <<relay, current, fresh, down>>
       \/ /\ ~poisoned /\ current # 0 /\ Unlocked(current)
          /\ IF relay[current].blocked # "no"
             THEN ClosePeer(c) /\ UNCHANGED down
             ELSE /\ handler' = [handler EXCEPT ![c] = Advertising(current, 1, relay[current].chain)]
                  /\ Send(c, SessionMsg(current, relay[current].chain))
                  /\ UNCHANGED control
          /\ UNCHANGED <<relay, current, fresh>>
       \/ /\ ~poisoned /\ current = 0 /\ fresh \in Sessions
          /\ relay' = [relay EXCEPT ![fresh] = NewRelaySession]
          /\ current' = fresh
          /\ fresh' = fresh + 1
          /\ handler' = [handler EXCEPT ![c] = Advertising(fresh, 1, <<>>)]
          /\ Send(c, SessionMsg(fresh, <<>>))
          /\ UNCHANGED control
    /\ UNCHANGED <<natVars, up, observer, queue, cutoff, poisoned, wire, acked, settled, budget>>

\* billingSessionReadyMatches and what follows it, in a session whose state
\* is s: install the connection, give up, or rotate and present the next session.
ConcludeReady(c, sid, s, ready) ==
    \/ /\ ReadyMatches(s, ready)
       /\ control' = c
       /\ handler' = [k \in Conns |-> IF k = c THEN [handler[c] EXCEPT !.stage = "installed"]
                                      ELSE IF k = control THEN Idle ELSE handler[k]]
       /\ relay' = [relay EXCEPT ![sid] = s]
       /\ UNCHANGED <<current, fresh, down>>
    \/ /\ ~ReadyMatches(s, ready)
       /\ handler[c].attempt = 3 \/ (current = sid /\ ~SafeToRotate(s))
                                 \/ (current # sid /\ relay[current].blocked # "no")
       /\ ClosePeer(c)
       /\ relay' = [relay EXCEPT ![sid] = s]
       /\ UNCHANGED <<current, fresh, down>>
    \/ /\ ~ReadyMatches(s, ready) /\ handler[c].attempt < 3
       /\ current # sid /\ relay[current].blocked = "no" /\ Unlocked(current)
       /\ handler' = [handler EXCEPT ![c] =
                         Advertising(current, handler[c].attempt + 1, relay[current].chain)]
       /\ Send(c, SessionMsg(current, relay[current].chain))
       /\ relay' = [relay EXCEPT ![sid] = s]
       /\ UNCHANGED <<current, control, fresh>>
    \/ /\ ~ReadyMatches(s, ready) /\ handler[c].attempt < 3
       /\ current = sid /\ SafeToRotate(s) /\ fresh \in Sessions
       /\ relay' = [relay EXCEPT ![sid] = [s EXCEPT !.blocked = "rotated"],
                                 ![fresh] = NewRelaySession]
       /\ current' = fresh
       /\ fresh' = fresh + 1
       /\ handler' = [handler EXCEPT ![c] = Advertising(fresh, handler[c].attempt + 1, <<>>)]
       /\ Send(c, SessionMsg(fresh, <<>>))
       /\ UNCHANGED control

\* The session after the recovery voucher of ready, if there is one.
Recovered(sid, ready) ==
    IF ready.voucher = NoVoucher THEN relay[sid] ELSE Restored(relay[sid], ready.voucher)

\* A recovery voucher the relay does not hold yet is made durable first; one
\* the queue already has is not enqueued twice.
Recover(sid, ready) ==
    queue' = IF ready.voucher = NoVoucher \/ ready.voucher = relay[sid].last
                \/ ready.voucher \in ToSet(queue)
             THEN queue ELSE Append(queue, ready.voucher)

\* TypeReady arrives.
OnReady(c) ==
    LET sid == handler[c].sid
        ready == up[c]
        s == Recovered(sid, ready)
    IN  /\ handler[c].stage = "advertised" /\ ready.type = "ready"
        /\ Unlocked(sid)
        /\ \/ /\ ready.voucher # NoVoucher
              /\ \/ ~RecoveryAccepted(relay[sid], handler[c].advertised, ready.voucher)
                    /\ UNCHANGED budget
                 \/ Fault("queueFull")
              /\ ClosePeer(c)
              /\ UNCHANGED <<relay, current, fresh, down, queue>>
           \/ /\ \/ ready.voucher = NoVoucher
                 \/ RecoveryAccepted(relay[sid], handler[c].advertised, ready.voucher)
              /\ Recover(sid, ready)
              /\ IF ready.reset /\ s.blocked # "no"
                 THEN /\ ClosePeer(c)
                      /\ relay' = [relay EXCEPT ![sid] = s]
                      /\ UNCHANGED <<current, fresh, down>>
                 ELSE IF ready.reset /\ ~SafeToRotate(s)
                 THEN LET v == NextVoucher(sid, s.last, s.chain)
                      IN  /\ handler' = [handler EXCEPT ![c].stage = "settling", ![c].claim = v]
                          /\ Send(c, ClaimMsg(v))
                          /\ relay' = [relay EXCEPT ![sid] = s]
                          /\ UNCHANGED <<current, control, fresh>>
                 ELSE ConcludeReady(c, sid, s, ready)
              /\ UNCHANGED budget
        /\ up' = [up EXCEPT ![c] = None]
        /\ UNCHANGED <<natVars, observer, cutoff, poisoned, wire, acked, settled>>

\* Mutant: the queue does not know a voucher that it holds.
EnqueueAgain(v) == queue' = Append(queue, v)

\* EnqueueEnvelope as issueVoucherWithClaim uses it: full is an error of the
\* caller, a duplicate (or any other failure) poisons the pipeline.
EnqueueOk(v) == v \notin ToSet(queue) /\ queue' = Append(queue, v)
EnqueueDuplicate(v) == v \in ToSet(queue) /\ poisoned' = TRUE

\* The answer to the claim that closes a session before it is rotated.  The
\* session lock was not held meanwhile, so the watermark is compared again.
OnSettlement(c) ==
    LET sid == handler[c].sid
        v == handler[c].claim
        s == [relay[sid] EXCEPT !.last = v]
        reset == ResetReply(sid, <<>>, NoVoucher)
    IN  /\ handler[c].stage = "settling" /\ up[c].type \in {"cosigned", "reject"}
        /\ Unlocked(sid)
        /\ \/ /\ (up[c].type = "reject" /\ UNCHANGED budget) \/ Fault("queueFull")
              /\ ClosePeer(c)
              /\ UNCHANGED <<relay, current, fresh, down, queue, poisoned>>
           \/ /\ up[c].type = "cosigned" /\ EnqueueDuplicate(v)
              /\ ClosePeer(c)
              /\ UNCHANGED <<relay, current, fresh, down, queue, budget>>
           \/ /\ up[c].type = "cosigned" /\ EnqueueOk(v)
              /\ IF relay[sid].chain # v.chain \/ relay[sid].blocked # "no"
                 THEN ClosePeer(c) /\ UNCHANGED <<relay, current, fresh, down>>
                 ELSE ConcludeReady(c, sid, s, reset)
              /\ UNCHANGED <<poisoned, budget>>
        /\ up' = [up EXCEPT ![c] = None]
        /\ UNCHANGED <<natVars, observer, cutoff, wire, acked, settled>>

\* The relay finds the stream closed, or waits too long for an answer.
PeerLost(c) ==
    /\ handler[c].stage # "closed"
    /\ \/ c # conn /\ UNCHANGED budget
       \/ /\ c = conn
          /\ handler[c].stage \in {"advertised", "settling"} \/ \E o \in observer : o.conn = c
          /\ Fault("claimTimeout")
    /\ ClosePeer(c)
    /\ UNCHANGED <<natVars, relay, current, observer, queue, cutoff, poisoned, fresh,
                   down, up, wire, acked, settled>>

-----------------------------------------------------------------------------
(* Relay: observeRecord and advanceRecordLocked.                            *)

ControlFor(sid) == control # 0 /\ handler[control].sid = sid

\* The record takes its place and is forwarded and acknowledged.
Accept(r, s) ==
    /\ relay' = [relay EXCEPT ![r.sid] = Accepted(s, r.rec)]
    /\ acked' = acked \cup {r}

\* A voucher is asked for on the payer's control connection; last marks the
\* claim that covers the record itself.
Ask(r, s, chain, last) ==
    LET v == NextVoucher(r.sid, s.last, chain) IN
    /\ observer' = {[r |-> r, conn |-> control, claim |-> v, last |-> last]}
    /\ Send(control, ClaimMsg(v))

\* The record once no window is open that it would overflow.
Extend(r, s) ==
    IF Fills(s, r.rec)
    THEN /\ IF ControlFor(r.sid) THEN Ask(r, s, Append(s.chain, r.rec), TRUE)
                                 ELSE observer' = {} /\ UNCHANGED down
         /\ relay' = [relay EXCEPT ![r.sid] = s]
         /\ UNCHANGED acked
    ELSE Accept(r, s) /\ observer' = {} /\ UNCHANGED down

\* The next record of a session arrives.  A record that is out of turn, of a
\* rotated or blocked session, or of a payer without control is not forwarded
\* and changes nothing; a repeated one is acknowledged again.
ObserveRecord(r) ==
    LET s == relay[r.sid] IN
    /\ ~poisoned /\ ~cutoff
    /\ s.exists /\ ControlFor(r.sid) /\ Unlocked(r.sid) /\ observer = {}
    /\ s.blocked = "no" /\ r.seq = RelayNext(s)
    /\ IF Overflows(s, r.rec)
       THEN Ask(r, s, s.chain, FALSE) /\ UNCHANGED <<relay, acked>>
       ELSE Extend(r, s)
    /\ UNCHANGED <<natVars, handler, current, control, queue, cutoff, poisoned, fresh,
                   up, wire, settled, budget>>

\* The answer to the claim of a waiting record.
OnVoucher(o) ==
    LET c == o.conn
        s == [relay[o.r.sid] EXCEPT !.last = o.claim]
    IN  /\ handler[c].stage = "installed" /\ up[c].type \in {"cosigned", "reject"}
        /\ \/ /\ (up[c].type = "reject" /\ UNCHANGED budget) \/ Fault("queueFull")
              /\ observer' = {}
              /\ UNCHANGED <<relay, acked, down, queue, poisoned>>
           \/ /\ up[c].type = "cosigned" /\ EnqueueDuplicate(o.claim)
              /\ observer' = {}
              /\ UNCHANGED <<relay, acked, down, queue, budget>>
           \/ /\ up[c].type = "cosigned" /\ EnqueueOk(o.claim)
              /\ IF o.last THEN Accept(o.r, s) /\ observer' = {} /\ UNCHANGED down
                           ELSE Extend(o.r, s)
              /\ UNCHANGED <<poisoned, budget>>
        /\ up' = [up EXCEPT ![c] = None]
        /\ UNCHANGED <<natVars, handler, current, control, cutoff, fresh, wire, settled>>

\* The connection of the claim is gone: the record is left to a retransmission.
ClaimLost(o) ==
    /\ handler[o.conn].stage # "installed"
    /\ observer' = {}
    /\ UNCHANGED <<natVars, handler, relay, current, control, queue, cutoff, poisoned, fresh,
                   down, up, wire, acked, settled, budget>>

-----------------------------------------------------------------------------
(* Relay: submitPending, one channel head at a time, and restarts.          *)

ChannelHead(v) ==
    \E k \in DOMAIN queue : queue[k] = v /\ \A j \in 1..(k - 1) : queue[j].sid # v.sid

SettlementOpen(v) == ~poisoned /\ ChannelHead(v) /\ relay[v.sid].blocked # "rejected"

\* The CA settles the voucher and lets the payer go on.
Submit(v) ==
    /\ SettlementOpen(v)
    /\ settled' = settled \cup {v}
    /\ queue' = SelectSeq(queue, LAMBDA w : w # v)
    /\ cutoff' = FALSE
    /\ UNCHANGED <<natVars, handler, relay, current, control, observer, poisoned, fresh,
                   down, up, wire, acked, budget>>

\* The payer's funds are exhausted: the voucher stays queued, settled (the
\* token of a later recovery) or not (insufficient funds).
SubmitUnfunded(v) ==
    /\ Fault("caFunds") /\ SettlementOpen(v)
    /\ settled' \in {settled, settled \cup {v}}
    /\ cutoff' = TRUE
    /\ UNCHANGED <<natVars, handler, relay, current, control, observer, queue, poisoned, fresh,
                   down, up, wire, acked>>

\* A terminal rejection freezes the channel.
SubmitRejected(v) ==
    /\ Fault("caReject") /\ SettlementOpen(v) /\ Unlocked(v.sid)
    /\ relay' = IF relay[v.sid].exists THEN [relay EXCEPT ![v.sid].blocked = "rejected"] ELSE relay
    /\ cutoff' = TRUE
    /\ UNCHANGED <<natVars, handler, current, control, observer, queue, poisoned, fresh,
                   down, up, wire, acked, settled>>

\* The queued vouchers of a session, and the one restoreQueue ends with.
Queued(sid) == SelectSeq(queue, LAMBDA v : v.sid = sid)

\* The relay restarts: restoreQueue rebuilds the sessions that have a queued
\* voucher, and only those.
RelayRestart ==
    /\ Fault("relayCrash")
    /\ relay' = [s \in Sessions |-> IF Queued(s) = <<>> THEN NoSession
                                    ELSE Restored(NewRelaySession, Last(Queued(s)))]
    /\ current' = IF queue = <<>> THEN 0 ELSE Last(queue).sid
    /\ control' = 0
    /\ handler' = [c \in Conns |-> Idle]
    /\ observer' = {}
    /\ cutoff' = FALSE
    /\ poisoned' = FALSE
    /\ UNCHANGED <<natVars, queue, fresh, down, up, wire, acked, settled>>

\* The NAT restarts: the meter is not restored, callers send again.
NatRestart ==
    /\ Fault("natCrash")
    /\ nat' = <<>> /\ bound' = 0 /\ invalid' = {} /\ conn' = 0
    /\ send' = [m \in Messages |-> IF send[m].stage \in {"done", "failed"} THEN send[m]
                                   ELSE [send[m] EXCEPT !.stage = "new"]]
    /\ UNCHANGED <<relayVars, down, up, wire, acked, settled>>

-----------------------------------------------------------------------------
Init ==
    /\ send = [m \in Messages |-> [stage |-> "new", sid |-> 0, seq |-> 0, try |-> 0]]
    /\ nat = <<>> /\ bound = 0 /\ invalid = {} /\ conn = 0
    /\ down = [c \in Conns |-> None] /\ up = [c \in Conns |-> None]
    /\ handler = [c \in Conns |-> Idle]
    /\ relay = [s \in Sessions |-> NoSession]
    /\ current = 0 /\ control = 0 /\ observer = {}
    /\ queue = <<>> /\ cutoff = FALSE /\ poisoned = FALSE
    /\ wire = {} /\ acked = {} /\ settled = {}
    /\ fresh = 1
    /\ budget \in [left : {MaxFaults}, kinds : FaultSets, forgot : {FALSE}]

NatStep ==
    \/ \E m \in Messages : Prepare(m) \/ Write(m) \/ SealError(m) \/ SendTimeout(m)
                              \/ Cancel(m) \/ Fail(m) \/ Confirm(m)
    \/ \E c \in Conns : Connect(c)
    \/ Disconnect \/ OnSession \/ OnClaim \/ NatRestart

RelayStep ==
    \/ \E c \in Conns : Advertise(c) \/ OnReady(c) \/ OnSettlement(c) \/ PeerLost(c)
    \/ \E r \in wire : ObserveRecord(r)
    \/ \E o \in observer : OnVoucher(o) \/ ClaimLost(o)
    \/ \E v \in ToSet(queue) : Submit(v) \/ SubmitUnfunded(v) \/ SubmitRejected(v)
    \/ RelayRestart

Next == NatStep \/ RelayStep

Spec == Init /\ [][Next]_vars

\* Every goroutine that can go on does, a written record is retransmitted until
\* it is taken or given up, and closed connections are noticed.  The failures
\* themselves are not fair.
Fairness ==
    /\ \A m \in Messages :
          /\ WF_vars(Prepare(m)) /\ WF_vars(Write(m)) /\ WF_vars(Fail(m)) /\ WF_vars(Confirm(m))
          /\ WF_vars(SendTimeout(m) /\ UNCHANGED budget)
          /\ WF_vars(send[m].stage = "written" /\ ObserveRecord(RecordOf(m)))
    /\ WF_vars(\E c \in Conns : Connect(c))
    /\ WF_vars(Disconnect /\ UNCHANGED budget) /\ WF_vars(OnSession) /\ WF_vars(OnClaim)
    /\ \A c \in Conns :
          /\ WF_vars(Advertise(c)) /\ WF_vars(OnReady(c)) /\ WF_vars(OnSettlement(c))
          /\ WF_vars(PeerLost(c) /\ UNCHANGED budget)
    /\ WF_vars(\E o \in observer : OnVoucher(o) \/ ClaimLost(o))

FairSpec == Spec /\ Fairness

-----------------------------------------------------------------------------
Chains == Seq(Record)
Voucher == [sid : Sessions, seq : Nat \ {0}, prev : Chains, chain : Chains]

\* Every variable has its type, the sessions the NAT refers to are sessions it
\* keeps, and the control connection a relay keeps for a payer is one whose
\* handshake completed and that is not closed (controls, installControl and
\* removeControl).
TypeOK ==
    /\ \A m \in Messages : send[m].stage \in
          {"new", "prepared", "written", "failing", "retrying", "done", "failed"}
    /\ DOMAIN nat \subseteq Sessions /\ bound \in {0} \cup DOMAIN nat /\ invalid \subseteq DOMAIN nat
    /\ conn \in {0} \cup Conns
    /\ \A s \in Sessions : /\ relay[s].chain \in Chains
                           /\ relay[s].blocked \in {"no", "rotated", "rejected"}
    /\ queue \in Seq(Voucher) /\ settled \subseteq Voucher
    /\ Cardinality(observer) <= 1
    /\ control # 0 => handler[control].stage = "installed"

\* Every mutual voucher either side, the queue or the CA holds.
Vouchers == ToSet(queue) \cup settled
              \cup ({relay[s].last : s \in Sessions} \ {NoVoucher})
              \cup ({nat[s].last : s \in DOMAIN nat} \ {NoVoucher})

\* The vouchers of a session, wherever they are held, are one chain: two with
\* the same number are the same voucher, and a later one covers every record
\* of an earlier one and more.  No payer ever signs two histories, whatever
\* answers were lost (cosign, issueVoucherWithClaim, installRecoveredVoucher).
OneChain ==
    \A v, w \in Vouchers : v.sid = w.sid =>
        /\ v.seq = w.seq => v = w
        /\ v.seq < w.seq => IsStrictPrefix(v.chain, w.chain)

\* Between records, the usage the relay has forwarded and holds no voucher for
\* is less than one window (advanceRecordLocked): the credit a relay extends.
WindowBounded ==
    \A s \in Sessions : WindowBytes(relay[s]) \in 0..(Window - 1)

\* No voucher a relay obtains is one its queue already holds, so persisting
\* it cannot fail as a duplicate (issueVoucherWithClaim poisons the pipeline
\* on any failure but a full queue).
NeverPoisoned == ~poisoned

\* The claims of an installed connection are never rejected: the NAT closes
\* its windows at the records at which the relay closes its own (observe and
\* advanceRecordLocked compute the thresholds apart).
ThresholdsAgree == \A c \in Conns : handler[c].stage = "installed" => up[c].type # "reject"

\* The queued vouchers of a session are consecutive, so that restoreQueue
\* accepts them when the relay restarts.
QueueRestores ==
    \A s \in Sessions : \A k \in 2..Len(Queued(s)) :
        ValidSuccessor(Queued(s)[k - 1], Queued(s)[k])

\* A message whose Send succeeded in a session that was replaced since is
\* covered by a voucher of that session: rotating a session loses no usage
\* that was confirmed to its sender (sessionSafeToReplaceLocked, confirm).
ConfirmedSigned ==
    \A m \in Messages :
        (send[m].stage = "done" /\ send[m].sid \in DOMAIN nat /\ send[m].sid # bound) =>
            RecordOf(m).rec \in ToSet(nat[send[m].sid].last.chain)

\* All the records a voucher adds have been forwarded, the last one excepted:
\* a payer is asked to sign at most one record ahead of its delivery
\* (advanceRecordLocked signs the record that fills the window before it is
\* forwarded).
LastUnforwarded ==
    \A v \in Vouchers : \A k \in (Len(v.prev) + 1)..(Len(v.chain) - 1) :
        [sid |-> v.sid, seq |-> k, rec |-> v.chain[k]] \in acked

\* Neither side extends more credit than the protocol says: the relay forwards
\* less than a window without a signature, the payer signs at most one record
\* before its delivery (advanceRecordLocked, issueVoucherWithClaim).
CreditBounded == WindowBounded /\ LastUnforwarded

\* A sequence number of a session is sealed into one record only, however
\* often the session is invalidated and reconciled (prepareWithLease,
\* reconcileRelaySessionStateLocked).
NoSequenceReuse ==
    \A r, q \in wire : (r.sid = q.sid /\ r.seq = q.seq) => r = q

\* The relay counts no record the NAT does not count: while the NAT keeps its
\* memory, the relay's watermark is one the NAT has been at (observe runs
\* before the first write).
RelayNeverAhead ==
    \A s \in DOMAIN nat : IsPrefix(relay[s].chain, nat[s].chain)

\* Both sides number the records alike until the NAT restarts and forgets its
\* sessions, whatever else fails, a restart of the relay included
\* (prepareWithLease, reconcileRelaySessionStateLocked, observeRecord,
\* restoreQueue).
NumberedAlike ==
    TypeOK /\ (~budget.forgot => NoSequenceReuse /\ RelayNeverAhead)

\* Once failures stop, the NAT and the relay agree on a session again, and
\* sends are let through for good (maintainBillingControl, acceptControl).
Recovers == <>[]Ready

=============================================================================
