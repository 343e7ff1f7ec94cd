----------------------------- MODULE DualStream -----------------------------
(***************************************************************************)
(* A DualStream on the dialing side: one logical connection over several   *)
(* physical carriers (KCP, TCP and, when KCP is blocked, a second TCP).    *)
(* Goroutines: one pump per carrier, one reconnect worker per lost leg, the*)
(* watcher of relay changes, senders, and the dial that assembles the      *)
(* first legs.  They share the leg table (d.mu), the reconnect state       *)
(* (reconnectMu) and the context; a step is one critical section.          *)
(***************************************************************************)
EXTENDS RelayFailover, LegTable, FiniteSets

CONSTANTS Carriers,     \* 1 .. n: carriers that may ever be dialed
          Workers,      \* reconnect goroutines that may run at once
          Senders,      \* concurrent SendMessage calls
          Billable,     \* the senders whose messages carry a billing sequence
          Watcher,      \* the goroutine of watchRelayChanges
          MaxAttempts,  \* maxReconnectAttempts
          KCPDisabled,  \* BNFS_DISABLE_KCP
          SingleTCP,    \* singleTCPMode: neither KCP nor a second TCP leg
          PersistentKCP \* enablePersistentReconnectSurvival (registrations)

InitialLegs == IF KCPDisabled \/ SingleTCP THEN {"tcp"} ELSE {"kcp", "tcp"}

ASSUME DualAssumption ==
    /\ NoLeg \notin LegIds /\ NoCarrier \notin Carriers
    /\ InitialLegs \subseteq LegIds /\ (~SingleTCP => "tcp#2" \in LegIds)
    /\ MaxAttempts \in Nat \ {0}

VARIABLES table,     \* legs, legOrder, preferred
          carrier,   \* per carrier: [state, relay, leg, pump]
          ctxDone,   \* d.ctx is cancelled
          setup,     \* the initial dial: [pc, pending, ok, target]
          survival,  \* reconnectSurvival
          dialers, persistent, disabled, active,   \* reconnectMu, sets of leg IDs
          worker,    \* reconnect goroutines
          watcher,   \* watchRelayChanges
          fail,      \* handleLegFailure running in a goroutine
          sender

reconnectVars == <<survival, dialers, persistent, disabled, active, worker>>
vars == <<failoverVars, table, carrier, ctxDone, setup, reconnectVars, watcher, fail, sender>>

\* The goroutines that may be inside handleLegFailure.
Threads == Carriers \cup Senders \cup {Watcher}

Closed == [state |-> "closed", relay |-> "none", leg |-> NoLeg, pump |-> FALSE]
NoTarget == [relay |-> "none", generation |-> 0]
NotFailing == [pc |-> "idle", id |-> NoLeg, c |-> NoCarrier, redial |-> FALSE]
NoWorker == [pc |-> "off", id |-> NoLeg, left |-> 0, forever |-> FALSE,
             c |-> NoCarrier, target |-> NoTarget]
NotSending == [pc |-> "idle", moved |-> FALSE, woken |-> FALSE,
               p |-> NoLeg, pk |-> NoCarrier, b |-> NoLeg, bk |-> NoCarrier]

Init ==
    /\ FailoverInit
    /\ table = EmptyTable
    /\ carrier = [c \in Carriers |-> Closed]
    /\ ctxDone = FALSE
    /\ setup = [pc |-> "dialing", pending |-> InitialLegs, ok |-> {},
                target |-> IF HasTarget THEN CurrentTarget ELSE NoTarget]
    /\ survival = FALSE
    /\ dialers = InitialLegs /\ persistent = {"tcp"}
    /\ disabled = {} /\ active = {}
    /\ worker = [w \in Workers |-> NoWorker]
    /\ watcher = [pc |-> "wait", seen |-> 1, todo |-> {}]
    /\ fail = [t \in Threads |-> NotFailing]
    /\ sender = [s \in Senders |-> NotSending]

-----------------------------------------------------------------------------
(* Shared helpers *)

HasReconnectChance == dialers \ disabled # {}

HasStream(id) == table.leg[id] # NoCarrier

HasUsableFamily(family) ==
    \E id \in Attached(table) : /\ Family(id) = family
                                /\ carrier[table.leg[id]].state # "closed"

\* stream.Close of a carrier; its pump, if any, is still to notice it.
CloseCarrier(r) == IF r.pump THEN [r EXCEPT !.state = "closed", !.relay = "none"] ELSE Closed

\* Close: cancel the context, empty the table and close the legs.
Close == /\ ctxDone' = TRUE
         /\ table' = ClearTable(table)
         /\ carrier' = [c \in Carriers |->
                          IF \E id \in LegIds : table.leg[id] = c THEN CloseCarrier(carrier[c])
                          ELSE carrier[c]]

\* A carrier that a dial returns.  One that is closed and that no goroutine
\* refers to any more stands for a new one.
Fresh(c) ==
    LET free(d) == /\ carrier[d].state = "closed" /\ ~carrier[d].pump
                   /\ \A id \in LegIds : table.leg[id] # d
                   /\ \A t \in Threads : fail[t].c # d
                   /\ \A s \in Senders : d \notin {sender[s].pk, sender[s].bk}
                   /\ \A leg \in watcher.todo : leg[2] # d
    IN free(c) /\ \A d \in Carriers : d < c => ~free(d)

\* The start of runReconnectWithBackoff.  A KCP leg that is lost while TCP works
\* is granted one attempt.
NewWorker(id) ==
    LET fallback == Family(id) = "kcp" /\ HasUsableFamily("tcp")
        forever == id \in persistent /\ ~fallback
    IN [NoWorker EXCEPT !.pc = "loop", !.id = id, !.forever = forever,
                        !.left = IF forever THEN 0 ELSE IF fallback THEN 1 ELSE MaxAttempts]

\* scheduleReconnect: at most one goroutine per leg.
ScheduleReconnect(id) ==
    IF ctxDone \/ id \notin dialers \ disabled \/ id \in active
      THEN UNCHANGED <<active, worker>>
      ELSE /\ active' = active \cup {id}
           /\ \E w \in Workers :
                /\ worker[w].pc = "off"
                /\ \A v \in Workers : v < w => worker[v].pc # "off"
                /\ worker' = [worker EXCEPT ![w] = NewWorker(id)]

\* The entry of handleLegFailure: is there a dialer for the leg; its carrier is
\* closed in the same step.
Failing(id, c) == [pc |-> "detach", id |-> id, c |-> c,
                   redial |-> survival /\ id \in dialers \ disabled]

-----------------------------------------------------------------------------
(* handleLegFailure, in whichever goroutine noticed the failure *)

\* Without a leg the stream lives on only while it is being set up, or once it
\* is established and some leg may still be dialed.
MustClose == /\ setup.pc \notin {"dialing", "extra", "finish"}
             /\ ~(survival /\ HasReconnectChance)

\* detach, which closes a stream left without legs, and scheduleReconnect.
FinishFailure(t) ==
    LET f == fail[t]
        detached == IF table.leg[f.id] = f.c THEN DetachLeg(table, f.id) ELSE table
    IN /\ f.pc = "detach"
       /\ IF Attached(detached) = {} /\ MustClose
            THEN /\ ctxDone' = TRUE
                 /\ table' = ClearTable(detached)
                 /\ UNCHANGED <<active, worker>>
            ELSE /\ table' = detached
                 /\ UNCHANGED ctxDone
                 /\ IF f.redial THEN ScheduleReconnect(f.id) ELSE UNCHANGED <<active, worker>>
       /\ fail' = [fail EXCEPT ![t] = NotFailing]
       /\ UNCHANGED <<failoverVars, carrier, setup, survival, dialers, persistent, disabled,
                      watcher, sender>>

-----------------------------------------------------------------------------
(* Closing *)

\* The application closes the stream.
AppClose ==
    /\ setup.pc \in {"ready", "enable", "established"}
    /\ ~ctxDone
    /\ Close
    /\ UNCHANGED <<failoverVars, setup, reconnectVars, watcher, fail, sender>>

-----------------------------------------------------------------------------
(* Carriers and their pumps *)

\* The network, the relay or the peer's host drops a carrier.
Break(c) ==
    /\ carrier[c].state = "up"
    /\ carrier' = [carrier EXCEPT ![c].state = "broken"]
    /\ UNCHANGED <<failoverVars, table, ctxDone, setup, reconnectVars, watcher,
                   fail, sender>>

EndPump(r) == IF r.state = "closed" THEN Closed ELSE [r EXCEPT !.pump = FALSE]

\* NextMessage fails: only the current carrier of its leg starts a recovery.
PumpError(c) ==
    /\ carrier[c].pump
    /\ carrier[c].state # "up"
    /\ IF ctxDone \/ table.leg[carrier[c].leg] # c
         THEN /\ carrier' = [carrier EXCEPT ![c] = EndPump(@)]
              /\ UNCHANGED fail
         ELSE /\ carrier' = [carrier EXCEPT ![c] = Closed]
              /\ fail' = [fail EXCEPT ![c] = Failing(carrier[c].leg, c)]
    /\ UNCHANGED <<failoverVars, table, ctxDone, setup, reconnectVars, watcher,
                   sender>>

\* ErrConnectionClosedByPeer ends the whole logical connection.
PumpPeerClosed(c) ==
    /\ carrier[c].pump
    /\ carrier[c].state = "up"
    /\ ~ctxDone
    /\ Close
    /\ UNCHANGED <<failoverVars, setup, reconnectVars, watcher, fail, sender>>

PumpCancelled(c) ==
    /\ carrier[c].pump
    /\ ctxDone
    /\ carrier' = [carrier EXCEPT ![c] = EndPump(@)]
    /\ UNCHANGED <<failoverVars, table, ctxDone, setup, reconnectVars, watcher,
                   fail, sender>>

-----------------------------------------------------------------------------
(* The initial dial, clientStreamWithRelayPolicy *)

\* attachWithIDPolicy without its look at the context.
AttachDialedAlways(id, c, relay) ==
    /\ carrier' = [carrier EXCEPT ![c] = [state |-> "up", relay |-> relay, leg |-> id, pump |-> TRUE]]
    /\ table' = AttachLeg(table, id, c)

\* A dial of leg id returned carrier c to the relay of target: attached with
\* its pump unless the stream was closed meanwhile, which closes the carrier.
AttachDialed(id, c, relay) ==
    IF ctxDone
      THEN carrier' = [carrier EXCEPT ![c] = Closed] /\ UNCHANGED table
      ELSE /\ carrier' = [carrier EXCEPT ![c] =
                            [state |-> IF @.state = "broken" THEN "broken" ELSE "up",
                             relay |-> relay, leg |-> id, pump |-> TRUE]]
           /\ table' = AttachLeg(table, id, c)

AfterResult(id, ok) ==
    LET left == setup.pending \ {id}
        good == IF ok THEN setup.ok \cup {id} ELSE setup.ok
    IN [setup EXCEPT !.pending = left, !.ok = good,
                     !.pc = IF left # {} THEN "dialing"
                            ELSE IF good = {"tcp"} /\ ~SingleTCP THEN "extra" ELSE "finish"]

InitialDialed(id, c) ==
    /\ setup.pc = "dialing" /\ id \in setup.pending /\ setup.target # NoTarget
    /\ Fresh(c)
    /\ AttachDialed(id, c, setup.target.relay)
    /\ ReportSuccess(setup.target)
    /\ setup' = AfterResult(id, ~ctxDone)
    /\ UNCHANGED <<ctxDone, reconnectVars, watcher, fail, sender>>

InitialFailed(id) ==
    /\ setup.pc = "dialing" /\ id \in setup.pending
    /\ IF id = "tcp" /\ setup.target # NoTarget THEN ReportFailure(setup.target)
       ELSE UNCHANGED failoverVars
    /\ setup' = AfterResult(id, FALSE)
    /\ UNCHANGED <<table, carrier, ctxDone, reconnectVars, watcher,
                   fail, sender>>

\* KCP is blocked: its dialer is removed and a second TCP leg is dialed.
UseSecondTCP ==
    /\ dialers' = (dialers \ {"kcp"}) \cup {"tcp#2"}
    /\ persistent' = (persistent \ {"kcp"}) \cup {"tcp#2"}
    /\ setup' = [setup EXCEPT !.pc = "finish"]
    /\ UNCHANGED <<ctxDone, survival, disabled, active, worker, watcher,
                   fail, sender>>

ExtraDialed(c) ==
    /\ setup.pc = "extra" /\ HasTarget
    /\ Fresh(c)
    /\ AttachDialed("tcp#2", c, CurrentRelay)
    /\ ReportSuccess(CurrentTarget)
    /\ UseSecondTCP

ExtraFailed ==
    /\ setup.pc = "extra"
    /\ IF HasTarget THEN ReportFailure(CurrentTarget) ELSE UNCHANGED failoverVars
    /\ UNCHANGED <<table, carrier>>
    /\ UseSecondTCP

FinishSetup ==
    /\ setup.pc = "finish"
    /\ setup' = [setup EXCEPT !.pc = IF Attached(table) = {} THEN "failed" ELSE "ready",
                              !.ok = {}, !.target = NoTarget]
    /\ IF Attached(table) = {} THEN Close ELSE UNCHANGED <<ctxDone, table, carrier>>
    /\ UNCHANGED <<failoverVars, reconnectVars, watcher,
                   fail, sender>>

\* The handshake is done: EnableReconnectSurvival collects the legs with a
\* dialer and then schedules those that are missing, one after the other.
EnableSurvival ==
    /\ setup.pc = "ready"
    /\ survival' = TRUE
    /\ persistent' = IF PersistentKCP THEN dialers ELSE persistent
    /\ disabled' = IF PersistentKCP THEN disabled \ dialers ELSE disabled
    /\ setup' = [setup EXCEPT !.pc = "enable", !.pending = dialers \ disabled']
    /\ UNCHANGED <<failoverVars, table, carrier, ctxDone, dialers, active, worker,
                   watcher, fail, sender>>

EnableLeg(id) ==
    /\ setup.pc = "enable" /\ id \in setup.pending
    /\ setup' = [setup EXCEPT !.pending = @ \ {id},
                              !.pc = IF setup.pending = {id} THEN "established" ELSE "enable"]
    /\ IF HasStream(id) THEN UNCHANGED <<active, worker>> ELSE ScheduleReconnect(id)
    /\ UNCHANGED <<failoverVars, table, carrier, ctxDone, survival, dialers, persistent,
                   disabled, watcher, fail, sender>>

-----------------------------------------------------------------------------
(* runReconnectWithBackoff *)

\* The wait for the backoff does not watch the context.
WorkerTurnIgnoringClose(w) ==
    /\ worker[w].pc = "loop"
    /\ worker' = [worker EXCEPT ![w] =
         IF ~worker[w].forever /\ worker[w].left = 0 THEN [worker[w] EXCEPT !.pc = "spent"]
         ELSE IF HasStream(worker[w].id) THEN [worker[w] EXCEPT !.pc = "drop"]
         ELSE IF ~HasTarget THEN [worker[w] EXCEPT !.pc = "spent"]
         ELSE [worker[w] EXCEPT !.pc = "dial", !.target = CurrentTarget]]
    /\ UNCHANGED <<failoverVars, table, carrier, ctxDone, setup, survival, dialers,
                   persistent, disabled, active, watcher, fail, sender>>

\* One turn of the loop up to the dial: out of attempts, stream closed, leg
\* already there, no relay left, or a dial to the current relay.
WorkerTurn(w) ==
    /\ worker[w].pc = "loop"
    /\ worker' = [worker EXCEPT ![w] =
         IF ~worker[w].forever /\ worker[w].left = 0 THEN [worker[w] EXCEPT !.pc = "spent"]
         ELSE IF ctxDone \/ HasStream(worker[w].id) THEN [worker[w] EXCEPT !.pc = "drop"]
         ELSE IF ~HasTarget THEN [worker[w] EXCEPT !.pc = "spent"]
         ELSE [worker[w] EXCEPT !.pc = "dial", !.target = CurrentTarget]]
    /\ UNCHANGED <<failoverVars, table, carrier, ctxDone, setup, survival, dialers,
                   persistent, disabled, active, watcher, fail, sender>>

NextAttempt(r) == [r EXCEPT !.pc = "loop", !.c = NoCarrier, !.target = NoTarget,
                            !.left = IF r.forever THEN 0 ELSE r.left - 1]

WorkerDialed(w, c) ==
    /\ worker[w].pc = "dial"
    /\ Fresh(c)
    /\ carrier' = [carrier EXCEPT ![c].state = "up"]
    /\ worker' = [worker EXCEPT ![w].pc = "attach", ![w].c = c]
    /\ ReportSuccess(worker[w].target)
    /\ UNCHANGED <<table, ctxDone, setup, survival, dialers, persistent, disabled, active,
                   watcher, fail, sender>>

\* Only TCP failures count against the relay; a dial that is cancelled, or
\* fails before it reaches the relay, is not reported.
WorkerDialFailed(w) ==
    /\ worker[w].pc = "dial"
    /\ worker' = [worker EXCEPT ![w] = NextAttempt(@)]
    /\ \/ Family(worker[w].id) = "tcp" /\ ReportFailure(worker[w].target)
       \/ UNCHANGED failoverVars
    /\ UNCHANGED <<table, carrier, ctxDone, setup, survival, dialers, persistent, disabled,
                   active, watcher, fail, sender>>

WorkerAttach(w) ==
    /\ worker[w].pc = "attach"
    /\ AttachDialed(worker[w].id, worker[w].c, worker[w].target.relay)
    /\ worker' = [worker EXCEPT ![w] = IF ctxDone THEN NextAttempt(@)
                                       ELSE [NoWorker EXCEPT !.pc = "signal", !.id = worker[w].id]]
    /\ UNCHANGED <<failoverVars, ctxDone, setup, survival, dialers, persistent, disabled,
                   active, watcher, fail, sender>>

\* attachWithIDPolicy without signalLegAvailable.
WorkerSignalMissing(w) ==
    /\ worker[w].pc = "signal"
    /\ table' = SetPreferred(table, worker[w].id)
    /\ worker' = [worker EXCEPT ![w].pc = "drop"]
    /\ UNCHANGED <<failoverVars, carrier, ctxDone, setup, survival, dialers, persistent,
                   disabled, active, watcher, fail, sender>>

\* signalLegAvailable, the end of attachWithIDPolicy, then setPreferred.
WorkerSignal(w) ==
    /\ worker[w].pc = "signal"
    /\ sender' = [s \in Senders |-> [sender[s] EXCEPT !.woken = @ \/ sender[s].pc \in {"order", "wait"}]]
    /\ table' = SetPreferred(table, worker[w].id)
    /\ worker' = [worker EXCEPT ![w].pc = "drop"]
    /\ UNCHANGED <<failoverVars, carrier, ctxDone, setup, survival, dialers, persistent,
                   disabled, active, watcher, fail>>

\* Out of attempts: the leg is given up, and the stream if it has none.
WorkerGiveUp(w) ==
    /\ worker[w].pc = "spent"
    /\ disabled' = disabled \cup {worker[w].id}
    /\ IF Attached(table) = {} THEN Close ELSE UNCHANGED <<ctxDone, table, carrier>>
    /\ worker' = [worker EXCEPT ![w].pc = "drop"]
    /\ UNCHANGED <<failoverVars, setup, survival, dialers, persistent, active,
                   watcher, fail, sender>>

\* The deferred reset of reconnectActive.
WorkerDrop(w) ==
    /\ worker[w].pc = "drop"
    /\ active' = active \ {worker[w].id}
    /\ worker' = [worker EXCEPT ![w] = NoWorker]
    /\ UNCHANGED <<failoverVars, table, carrier, ctxDone, setup, survival, dialers,
                   persistent, disabled, watcher, fail, sender>>

-----------------------------------------------------------------------------
(* watchRelayChanges *)

\* The channel fetched in generation seen is closed: relayGeneration moves on
\* and the legs are listed.
WatchWake ==
    /\ watcher.pc = "wait" /\ generation # watcher.seen
    /\ watcher' = [watcher EXCEPT !.pc = "migrate",
                                  !.todo = {<<id, table.leg[id]>> : id \in Attached(table)}]
    /\ sender' = [s \in Senders |-> [sender[s] EXCEPT !.moved = @ \/ (s \in Billable /\ sender[s].pc # "idle")]]
    /\ UNCHANGED <<failoverVars, table, carrier, ctxDone, setup, reconnectVars, fail>>

\* Every leg of the snapshot is failed, whether or not it is still current.
WatchMigrate ==
    /\ watcher.pc = "migrate" /\ fail[Watcher].pc = "idle"
    /\ \/ /\ watcher.todo = {}
          /\ watcher' = [watcher EXCEPT !.pc = "wait", !.seen = generation]
          /\ UNCHANGED <<carrier, fail>>
       \/ \E leg \in watcher.todo :
          /\ watcher' = [watcher EXCEPT !.todo = @ \ {leg}]
          /\ carrier' = [carrier EXCEPT ![leg[2]] = CloseCarrier(@)]
          /\ fail' = [fail EXCEPT ![Watcher] = Failing(leg[1], leg[2])]
    /\ UNCHANGED <<failoverVars, table, ctxDone, setup, reconnectVars,
                   sender>>

WatchEnd ==
    /\ watcher.pc = "wait" /\ ctxDone
    /\ watcher' = [watcher EXCEPT !.pc = "done"]
    /\ UNCHANGED <<failoverVars, table, carrier, ctxDone, setup, reconnectVars, fail, sender>>

\* Other streams of the node report failed dials, the index sends a new list.
OtherFailure ==
    /\ HasTarget /\ ReportFailure(CurrentTarget)
    /\ UNCHANGED <<table, carrier, ctxDone, setup, reconnectVars, watcher,
                   fail, sender>>

NewCandidates(list) ==
    /\ SetCandidates(list)
    /\ UNCHANGED <<table, carrier, ctxDone, setup, reconnectVars, watcher,
                   fail, sender>>

-----------------------------------------------------------------------------
(* sendMessage: the sealed record is retried until a carrier takes it *)

sendUnchanged == <<failoverVars, ctxDone, setup, reconnectVars, watcher>>

\* relayGeneration is no longer what it was when the record was sealed.
RelayChanged(s) == sender[s].moved

\* The head of the send loop.  The leg signal is taken before the legs are
\* looked at.
TryAgain(s) == IF RelayChanged(s) THEN NotSending
               ELSE [NotSending EXCEPT !.pc = "order"]

SendStart(s) ==
    /\ sender[s].pc = "idle" /\ fail[s].pc = "idle" /\ ~ctxDone
    /\ setup.pc \in {"ready", "enable", "established"}
    /\ sender' = [sender EXCEPT ![s] = TryAgain(s)]
    /\ UNCHANGED <<sendUnchanged, table, carrier, fail>>

LegToUse(id) == IF id = NoLeg THEN NoCarrier ELSE table.leg[id]

SendOrder(s) ==
    /\ sender[s].pc = "order"
    /\ sender' = [sender EXCEPT ![s] =
         IF Attached(table) # {}
           THEN [sender[s] EXCEPT !.pc = "primary",
                   !.p = Primary(table), !.pk = LegToUse(Primary(table)),
                   !.b = Backup(table), !.bk = LegToUse(Backup(table))]
           ELSE IF HasReconnectChance THEN [sender[s] EXCEPT !.pc = "wait"] ELSE NotSending]
    /\ UNCHANGED <<sendUnchanged, table, carrier, fail>>

SendWait(s) ==
    /\ sender[s].pc = "wait"
    /\ \/ ctxDone /\ sender' = [sender EXCEPT ![s] = NotSending]
       \/ sender[s].woken /\ sender' = [sender EXCEPT ![s] = TryAgain(s)]
    /\ UNCHANGED <<sendUnchanged, table, carrier, fail>>

\* The caller's context ends while the message waits for a leg or an ACK.
SendCancelled(s) ==
    /\ sender[s].pc \in {"wait", "primary", "hedged", "backup"} /\ fail[s].pc = "idle"
    /\ sender' = [sender EXCEPT ![s] = NotSending]
    /\ UNCHANGED <<sendUnchanged, table, carrier, fail>>

\* A carrier that is up may deliver the message, or lose its ACKs for good
\* (ErrMessageMaxRetransmits); one that is not up fails the send.
Up(c) == c # NoCarrier /\ carrier[c].state = "up"

\* handleSendFailure: a leg that fails otherwise than by missing ACKs is failed
\* if it is still current; the sender goes on at pc.
LoseLeg(s, id, c, pc) ==
    /\ IF ~Up(c) /\ table.leg[id] = c
         THEN /\ carrier' = [carrier EXCEPT ![c] = CloseCarrier(@)]
              /\ fail' = [fail EXCEPT ![s] = Failing(id, c)]
         ELSE UNCHANGED <<carrier, fail>>
    /\ sender' = [sender EXCEPT ![s] =
         CASE pc = "idle"  -> NotSending
           [] pc = "retry" -> [NotSending EXCEPT !.pc = pc, !.moved = sender[s].moved]
           [] OTHER        -> [sender[s] EXCEPT !.pc = pc, !.p = NoLeg, !.pk = NoCarrier]]
    /\ UNCHANGED <<sendUnchanged, table>>

SendPrimary(s) ==
    /\ sender[s].pc = "primary"
    /\ \/ /\ Up(sender[s].pk)
          /\ sender' = [sender EXCEPT ![s] = NotSending]
          /\ UNCHANGED <<sendUnchanged, table, carrier, fail>>
       \/ /\ RelayChanged(s)
          /\ sender' = [sender EXCEPT ![s] = NotSending]
          /\ UNCHANGED <<sendUnchanged, table, carrier, fail>>
       \/ /\ ~RelayChanged(s)
          /\ LoseLeg(s, sender[s].p, sender[s].pk,
                     IF sender[s].b = NoLeg THEN "retry" ELSE "backup")

\* KCP exceeds its budget: TCP becomes preferred and the same record is sent
\* over both.
SendHedge(s) ==
    /\ sender[s].pc = "primary"
    /\ sender[s].b # NoLeg /\ Family(sender[s].p) = "kcp" /\ Family(sender[s].b) = "tcp"
    /\ table' = SetPreferred(table, sender[s].b)
    /\ sender' = [sender EXCEPT ![s].pc = "hedged"]
    /\ UNCHANGED <<sendUnchanged, carrier, fail>>

SendHedged(s) ==
    /\ sender[s].pc = "hedged"
    /\ \/ /\ Up(sender[s].pk) \/ Up(sender[s].bk)
          /\ sender' = [sender EXCEPT ![s] = NotSending]
          /\ UNCHANGED <<sendUnchanged, table, carrier, fail>>
       \/ Up(sender[s].pk) /\ LoseLeg(s, sender[s].b, sender[s].bk, "idle")
       \/ Up(sender[s].bk) /\ LoseLeg(s, sender[s].p, sender[s].pk, "idle")
       \/ /\ RelayChanged(s)
          /\ sender' = [sender EXCEPT ![s] = NotSending]
          /\ UNCHANGED <<sendUnchanged, table, carrier, fail>>
       \/ ~RelayChanged(s) /\ LoseLeg(s, sender[s].p, sender[s].pk, "both")

SendBothLost(s) ==
    /\ sender[s].pc = "both" /\ fail[s].pc = "idle"
    /\ LoseLeg(s, sender[s].b, sender[s].bk, "retry")

SendBackup(s) ==
    /\ sender[s].pc = "backup" /\ fail[s].pc = "idle"
    /\ \/ /\ Up(sender[s].bk)
          /\ table' = SetPreferred(table, sender[s].b)
          /\ sender' = [sender EXCEPT ![s] = NotSending]
          /\ UNCHANGED <<sendUnchanged, carrier, fail>>
       \/ LoseLeg(s, sender[s].b, sender[s].bk, "retry")

SendRetry(s) ==
    /\ sender[s].pc = "retry" /\ fail[s].pc = "idle"
    /\ sender' = [sender EXCEPT ![s] = IF HasReconnectChance THEN TryAgain(s) ELSE NotSending]
    /\ UNCHANGED <<sendUnchanged, table, carrier, fail>>

\* A heartbeat over KCP times out: the TCP backup becomes preferred.
HeartbeatTimeout ==
    /\ setup.pc \in {"ready", "enable", "established"} /\ ~ctxDone
    /\ Attached(table) # {} /\ Backup(table) # NoLeg
    /\ table.preferred = Primary(table)
    /\ Family(Primary(table)) = "kcp" /\ Family(Backup(table)) = "tcp"
    /\ table' = [table EXCEPT !.preferred = Backup(table)]
    /\ UNCHANGED <<sendUnchanged, carrier, fail, sender>>

-----------------------------------------------------------------------------
Pump(c) == PumpError(c) \/ PumpCancelled(c)

InitialDial == \/ \E id \in InitialLegs : InitialFailed(id) \/ \E c \in Carriers : InitialDialed(id, c)
               \/ \E c \in Carriers : ExtraDialed(c)
               \/ ExtraFailed
               \/ FinishSetup

Work(w) == \/ WorkerTurn(w) \/ WorkerDialFailed(w)
           \/ \E c \in Carriers : WorkerDialed(w, c)
           \/ WorkerAttach(w) \/ WorkerSignal(w) \/ WorkerGiveUp(w) \/ WorkerDrop(w)

Watch == WatchWake \/ WatchMigrate \/ WatchEnd

\* Every step of a send that does not wait for the caller.
Send(s) == \/ SendOrder(s) \/ SendWait(s) \/ SendPrimary(s)
           \/ SendHedged(s) \/ SendBothLost(s) \/ SendBackup(s) \/ SendRetry(s)

Next == \/ InitialDial
        \/ EnableSurvival
        \/ \E id \in LegIds : EnableLeg(id)
        \/ AppClose
        \/ \E c \in Carriers : Break(c) \/ Pump(c) \/ PumpPeerClosed(c)
        \/ \E t \in Threads : FinishFailure(t)
        \/ \E w \in Workers : Work(w)
        \/ Watch
        \/ OtherFailure
        \/ \E list \in CandidateLists : NewCandidates(list)
        \/ \E s \in Senders : SendStart(s) \/ Send(s) \/ SendCancelled(s) \/ SendHedge(s)
        \/ HeartbeatTimeout

Spec == Init /\ [][Next]_vars

\* Every goroutine goes on: a dial returns, a cancelled read returns.
FairSpec == /\ Spec
            /\ WF_vars(InitialDial)
            /\ WF_vars(EnableSurvival)
            /\ \A id \in LegIds : WF_vars(EnableLeg(id))
            /\ \A c \in Carriers : WF_vars(Pump(c))
            /\ \A t \in Threads : WF_vars(FinishFailure(t))
            /\ \A w \in Workers : WF_vars(Work(w))
            /\ WF_vars(Watch)
            /\ \A s \in Senders : WF_vars(Send(s))

-----------------------------------------------------------------------------
(* Properties *)

\* Every variable has its type.
TypeOK ==
    /\ FailoverTypeOK
    /\ table.leg \in [LegIds -> Carriers \cup {NoCarrier}]
    /\ Range(table.order) \subseteq LegIds
    /\ table.preferred \in LegIds \cup {NoLeg}
    /\ \A c \in Carriers : /\ carrier[c].state \in {"up", "broken", "closed"}
                          /\ carrier[c].leg \in LegIds \cup {NoLeg}
    /\ ctxDone \in BOOLEAN /\ survival \in BOOLEAN
    /\ dialers \subseteq LegIds /\ persistent \subseteq LegIds
    /\ disabled \subseteq LegIds /\ active \subseteq LegIds
    /\ \A w \in Workers : worker[w].left \in 0 .. MaxAttempts

\* While the stream is open the order of the legs lists each attached leg once
\* and the preferred leg is one of them: attaches, failures noticed by several
\* goroutines, reconnects and preference changes never leave sendOrder with a
\* leg that is gone while another one works.
LegTableConsistent == ~ctxDone => TableConsistent(table)

\* A carrier that is not closed is a leg of an open stream or about to be
\* attached by the goroutine that dialed it: no interleaving of dials,
\* replacements, failures and Close forgets an open connection.
NoCarrierLeak ==
    \A c \in Carriers : carrier[c].state \in {"up", "broken"} =>
        \/ ~ctxDone /\ \E id \in LegIds : table.leg[id] = c
        \/ \E w \in Workers : worker[w].pc = "attach" /\ worker[w].c = c

\* A send that waits for a leg is woken when there is one: the signal it waits
\* on has fired, or the goroutine that attached the leg is about to fire it.
NoLostWakeup ==
    \A s \in Senders : sender[s].pc = "wait" /\ Attached(table) # {} =>
        \/ sender[s].woken
        \/ \E w \in Workers : worker[w].pc = "signal"

\* Before its handshake is complete a stream does not outlive its legs: once
\* the failure is handled it is closed, so a refused admission is reported.
ClosedBeforeHandshake ==
    (setup.pc = "ready" /\ Attached(table) = {} /\ \A t \in Threads : fail[t].pc = "idle")
        => ctxDone

\* A leg is dialed by at most one goroutine at a time, however many goroutines
\* saw it fail: two would take the relay's only slot for the leg from each other.
OneDialPerLeg ==
    \A v, w \in Workers : v # w /\ worker[v].id = worker[w].id => worker[v].id = NoLeg

\* After Close every goroutine of the stream ends and every carrier is closed;
\* no send stays blocked.
Shutdown ==
    /\ ctxDone ~> /\ watcher.pc = "done"
                  /\ \A w \in Workers : worker[w].pc = "off"
                  /\ \A t \in Threads : fail[t].pc = "idle"
                  /\ \A c \in Carriers : /\ ~carrier[c].pump
                                        /\ carrier[c].state = "closed"
    /\ \A s \in Senders : ctxDone ~> sender[s].pc = "idle"

\* An established stream that may still dial some leg is closed by its
\* application or its peer only, never because its legs are gone.
SurvivesWhileReconnecting ==
    [][~ctxDone /\ ctxDone' /\ survival /\ HasReconnectChance'
         => AppClose \/ \E c \in Carriers : PumpPeerClosed(c)]_vars

\* An established stream without legs has a goroutine that dials one.
NeverStranded ==
    setup.pc = "established" /\ Attached(table) = {} /\ HasReconnectChance =>
        \/ ctxDone
        \/ active # {}
        \/ \E t \in Threads : fail[t].pc # "idle"

\* Once a relay change has been handled and nothing is being dialed, every leg
\* leads to the relay the node uses now.
LegsFollowRelay ==
    (/\ ~ctxDone
     /\ setup.pc = "established"
     /\ watcher.pc = "wait" /\ watcher.seen = generation
     /\ active = {}
     /\ \A t \in Threads : fail[t].pc = "idle")
        => \A id \in Attached(table) : carrier[table.leg[id]].relay = CurrentRelay

\* The leg table, the goroutines that dial and the state of the stream agree
\* with one another (attachLeg, handleLegFailure, scheduleReconnect).
LegsConsistent == TypeOK /\ LegTableConsistent /\ OneDialPerLeg /\ ClosedBeforeHandshake
=============================================================================
