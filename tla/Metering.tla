------------------------------ MODULE Metering ------------------------------
(***************************************************************************)
(* What a relay charges a hosted server for: the pump's hook state, which  *)
(* adds up the payload of first-time frames and reports it by thresholds;  *)
(* the retransmit cache, which recognizes repeated frames; the account     *)
(* that collects the reports; and the loop that settles the account with   *)
(* the CA and cuts the server off when its balance is used up.  One server *)
(* and one client connection; every frame has one byte.  The relay does    *)
(* not install the hook or start the loop by itself: settleOnce runs when  *)
(* it is called.                                                           *)
(***************************************************************************)
EXTENDS Integers, FiniteSets

CONSTANTS
    Frames,          \* frames of the connection, numbered within one message
    Threshold,       \* ThresholdBytes
    MaxFreeRepeats,  \* retransmitCacheMaxFreeRepeats
    CacheQuota,      \* entries a connection may have in the cache
    Balance,         \* what the server has at the CA to begin with
    MaxSends,        \* bound: frames the pump reads
    MaxStops,        \* bound: pumps that end
    MaxMeterFaults   \* bound: write errors, expiries, CA errors, credits

ASSUME MeterAssumption ==
    /\ IsFiniteSet(Frames)
    /\ Threshold \in Nat \ {0}
    /\ {MaxFreeRepeats, CacheQuota, Balance} \subseteq Nat

VARIABLES
    cache,      \* free repeats of each cached frame, -1 when it is not cached
    progress,   \* ackProgress: frames below it are acknowledged
    acc,        \* accumulatedBytes of the running pump
    batch,      \* the frames waiting for one write, and what they added to acc
    account,    \* UplinkBytes, settledBytes and cutoff of the server
    loop,       \* the settlement loop
    ca,         \* the CA: balance, bytes deducted, bytes it never heard of
    written,    \* frames written to the client
    sent,       \* frames read so far
    stops,      \* pumps that ended
    faults      \* faults left

meterVars == <<cache, progress, acc, batch, account, loop, ca, written, sent, stops, faults>>

NoBatch == [frames |-> {}, accounted |-> 0, closed |-> FALSE]
MeterFault == faults > 0 /\ faults' = faults - 1

\* forgetConnection.
ForgetConnection == cache' = [f \in Frames |-> -1] /\ progress' = 0

-----------------------------------------------------------------------------
(* The pump and its hook.                                                    *)

\* recordFrame: whether the frame is charged, and the cache after it.
RecordFrame(f) ==
    IF cache[f] >= 0
    THEN IF cache[f] >= MaxFreeRepeats THEN [charged |-> 1, cache |-> cache]
         ELSE [charged |-> 0, cache |-> [cache EXCEPT ![f] = @ + 1]]
    ELSE IF Cardinality({g \in Frames : cache[g] >= 0}) >= CacheQuota
    THEN [charged |-> 1, cache |-> cache]
    ELSE [charged |-> 1, cache |-> [cache EXCEPT ![f] = 0]]

\* wouldInvokeHook, which does not know whether the frame will be charged.
Boundary == acc + 1 >= Threshold

\* onFrame below the threshold: the frame joins the batch.  A frame that may
\* call the hook goes alone, after what was collected before it.
TakeFrame(f) ==
    /\ sent < MaxSends /\ ~batch.closed /\ (Boundary => batch.frames = {})
    /\ LET r == RecordFrame(f) IN
       /\ acc + r.charged < Threshold
       /\ cache' = r.cache /\ acc' = acc + r.charged
       /\ batch' = [frames |-> batch.frames \cup {f}, closed |-> Boundary,
                    accounted |-> batch.accounted + IF Boundary THEN 0 ELSE r.charged]
    /\ sent' = sent + 1
    /\ UNCHANGED <<progress, account, loop, ca, written, stops, faults>>

\* onFrame at the threshold: meteringHook adds the report to the account.
TakeAndReport(f) ==
    /\ sent < MaxSends /\ ~batch.closed /\ batch.frames = {} /\ ~account.cutoff
    /\ LET r == RecordFrame(f) IN
       /\ acc + r.charged >= Threshold
       /\ cache' = r.cache
       /\ account' = [account EXCEPT !.uplink = @ + acc + r.charged]
    /\ acc' = 0
    /\ batch' = [frames |-> {f}, accounted |-> 0, closed |-> TRUE]
    /\ sent' = sent + 1
    /\ UNCHANGED <<progress, loop, ca, written, stops, faults>>

\* meteringHook refuses a server that is cut off: the frame is not written,
\* the pump returns and its group closes, which forgets the connection.
TakeAndRefuse(f) ==
    /\ sent < MaxSends /\ ~batch.closed /\ batch.frames = {} /\ account.cutoff
    /\ stops < MaxStops /\ stops' = stops + 1
    /\ acc + RecordFrame(f).charged >= Threshold
    /\ ForgetConnection /\ acc' = 0 /\ sent' = sent + 1
    /\ UNCHANGED <<batch, account, loop, ca, written, faults>>

Flush ==
    /\ batch.frames # {}
    /\ written' = written \cup batch.frames /\ batch' = NoBatch
    /\ UNCHANGED <<cache, progress, acc, account, loop, ca, sent, stops, faults>>

\* The batch cannot be written: rollbackUncommitted, and the cache forgets
\* the connection so that its frames are charged when they are sent again.
FlushFails ==
    /\ batch.frames # {} /\ MeterFault
    /\ acc' = (IF acc < batch.accounted THEN 0 ELSE acc - batch.accounted) /\ batch' = NoBatch
    /\ ForgetConnection
    /\ UNCHANGED <<account, loop, ca, written, sent, stops>>

\* The group ends: what its pump collected below the threshold is not
\* reported.
PumpEnds ==
    /\ batch.frames = {} /\ stops < MaxStops /\ stops' = stops + 1
    /\ acc' = 0 /\ ForgetConnection
    /\ UNCHANGED <<batch, account, loop, ca, written, sent, faults>>

\* acknowledge: the contiguous acknowledged frames leave the cache.
AckFrames(n) ==
    /\ n > progress /\ 0..(n - 1) \subseteq written
    /\ cache' = [f \in Frames |-> IF f \in progress..(n - 1) THEN -1 ELSE cache[f]]
    /\ progress' = IF n = Cardinality(Frames) THEN 0 ELSE n
    /\ UNCHANGED <<acc, batch, account, loop, ca, written, sent, stops, faults>>

\* expireLocked and evictOverProtectedLocked.
CacheDrops(f) ==
    /\ cache[f] >= 0 /\ MeterFault
    /\ cache' = [cache EXCEPT ![f] = -1]
    /\ UNCHANGED <<progress, acc, batch, account, loop, ca, written, sent, stops>>

-----------------------------------------------------------------------------
(* settleOnce: the unsettled bytes of the server, then a probe when it is    *)
(* cut off.                                                                  *)

\* Mutant: the settled watermark stays behind.
TakeUnsettledAgain ==
    /\ loop.pc = "idle" /\ account.uplink > account.settled
    /\ loop' = [pc |-> "settling", delta |-> account.uplink - account.settled]
    /\ UNCHANGED <<cache, progress, acc, batch, account, ca, written, sent, stops, faults>>

\* takeUnsettled: read the difference and advance the watermark.
TakeUnsettled ==
    /\ loop.pc = "idle" /\ account.uplink > account.settled
    /\ loop' = [pc |-> "settling", delta |-> account.uplink - account.settled]
    /\ account' = [account EXCEPT !.settled = account.uplink]
    /\ UNCHANGED <<cache, progress, acc, batch, ca, written, sent, stops, faults>>

Deducts == ca' = [ca EXCEPT !.balance = @ - loop.delta, !.used = @ + loop.delta]

\* The CA deducts and answers whether the server may go on.
SettleAnswered ==
    /\ loop.pc = "settling"
    /\ Deducts
    /\ account' = [account EXCEPT !.cutoff = ca'.balance <= 0]
    /\ loop' = [pc |-> "probe", delta |-> 0]
    /\ UNCHANGED <<cache, progress, acc, batch, written, sent, stops, faults>>

\* The call fails, before or after the CA deducted.  The watermark has moved:
\* the bytes are not offered again.
SettleFails ==
    /\ loop.pc = "settling" /\ MeterFault
    /\ Deducts \/ ca' = [ca EXCEPT !.missed = @ + loop.delta]
    /\ loop' = [pc |-> "probe", delta |-> 0]
    /\ UNCHANGED <<cache, progress, acc, batch, account, written, sent, stops>>

\* Nothing to settle.
SettleNothing ==
    /\ loop.pc = "idle" /\ account.uplink = account.settled /\ account.cutoff
    /\ loop' = [pc |-> "probe", delta |-> 0]
    /\ UNCHANGED <<cache, progress, acc, batch, account, ca, written, sent, stops, faults>>

\* The probe with no bytes lifts the cut-off once there is a balance.
Probe ==
    /\ loop.pc = "probe"
    /\ account' = [account EXCEPT !.cutoff = @ /\ ca.balance <= 0]
    /\ loop' = [pc |-> "idle", delta |-> 0]
    /\ UNCHANGED <<cache, progress, acc, batch, ca, written, sent, stops, faults>>

ProbeFails ==
    /\ loop.pc = "probe" /\ account.cutoff /\ MeterFault
    /\ loop' = [pc |-> "idle", delta |-> 0]
    /\ UNCHANGED <<cache, progress, acc, batch, account, ca, written, sent, stops>>

\* The administrator credits the server.
Credit ==
    /\ ca.balance <= 0 /\ MeterFault
    /\ ca' = [ca EXCEPT !.balance = Balance]
    /\ UNCHANGED <<cache, progress, acc, batch, account, loop, written, sent, stops>>

-----------------------------------------------------------------------------

MeterInit ==
    /\ cache = [f \in Frames |-> -1] /\ progress = 0 /\ acc = 0 /\ batch = NoBatch
    /\ account = [uplink |-> 0, settled |-> 0, cutoff |-> FALSE]
    /\ loop = [pc |-> "idle", delta |-> 0]
    /\ ca = [balance |-> Balance, used |-> 0, missed |-> 0]
    /\ written = {} /\ sent = 0 /\ stops = 0 /\ faults = MaxMeterFaults

MeterNext ==
    \/ \E f \in Frames : \/ TakeFrame(f) \/ TakeAndReport(f) \/ TakeAndRefuse(f)
                         \/ CacheDrops(f)
    \/ \E n \in 1..Cardinality(Frames) : AckFrames(n)
    \/ Flush \/ FlushFails \/ PumpEnds
    \/ TakeUnsettled \/ SettleAnswered \/ SettleNothing \/ Probe \/ SettleFails \/ ProbeFails \/ Credit

MeterSpec == MeterInit /\ [][MeterNext]_meterVars

-----------------------------------------------------------------------------
(* Properties.                                                              *)

\* Every frame a client got is paid for, but for what each pump that ended
\* had collected below the threshold: no order of write errors, rollbacks,
\* forgotten caches and acknowledgements lets a frame through for free.
MeteredWithinThreshold ==
    Cardinality(written) <= account.uplink + acc + stops * (Threshold - 1)

\* Every byte the account handed over was deducted once, is on its way, or was
\* in a call that failed before the CA deducted it: none is deducted twice, and
\* none is dropped but by such a call, which is not repeated with the same bytes.
DeductedOnce ==
    /\ ca.used + loop.delta + ca.missed = account.settled
    /\ account.settled <= account.uplink

\* A frame is paid for once: it is counted before it is delivered, and what was
\* counted is deducted once, unless the call to the CA failed (onForward,
\* takeUnsettled, Settle).
PaidOnce == MeteredWithinThreshold /\ DeductedOnce
=============================================================================
