---------------------------- MODULE BillingQueue ----------------------------
(***************************************************************************)
(* billingqueue.Queue: the relay's persistent waitSubmit queue, a write-   *)
(* ahead log of enqueue and remove frames at one path, replayed by Open,   *)
(* appended to by every mutation and rewritten by compaction.              *)
(*                                                                         *)
(* The file is a set of frames, ordered by the position at which each was  *)
(* appended (compaction keeps positions, so the order of the vouchers is   *)
(* comparable across a rewrite).  A frame cut short by a failed write is   *)
(* a "torn" frame.  The SHA-256 chain that ties a frame to its predecessor *)
(* is abstracted to the rule it enforces: bytes after a torn frame do not  *)
(* parse.  Sizes are kept, because limits and compaction depend on them.   *)
(***************************************************************************)
EXTENDS Integers, FiniteSets, FiniteSetsExt

CONSTANTS Vouchers,           \* mutual vouchers, by ID
          Payers,             \* PayerNatID values
          Payer,              \* the payer of each voucher
          Channel,            \* voucherChannel: session, payer, relay, direction
          Size,               \* bytes of each voucher's encoded envelope
          MaxItems, MaxBytes, \* Limits
          MaxItemsPerPayer,   \* 0: the global limit applies
          MaxBytesPerPayer,
          DomainBytes,        \* len(fileDomain)
          FrameOverhead,      \* framePrefixSize + frameFixedBodySize
          IdBytes,            \* payload of a remove frame
          CompactionFloor, CompactionCeiling,
          LegacyFile,         \* content of a V2 file an older relay may have left
          Faults,             \* failures the file system may answer with
          MaxAppends          \* bound: frames ever appended

AppendFaults == {"closeFailed", "syncFailed", "shortWrite", "openFailed"}
RewriteFaults == {"dirCloseFailed", "dirSyncFailed", "notInstalled"}

Kinds == {"enqueue", "remove", "torn"}
Frame == [pos : Nat, kind : Kinds, voucher : Vouchers]

ASSUME ConstantsAssumption ==
    /\ Payer \in [Vouchers -> Payers]
    /\ Size \in [Vouchers -> Nat \ {0}]
    /\ DOMAIN Channel = Vouchers
    /\ MaxItems \in Nat \ {0} /\ MaxBytes \in Nat \ {0}
    /\ {MaxItemsPerPayer, MaxBytesPerPayer} \subseteq Nat
    /\ {DomainBytes, FrameOverhead, IdBytes} \subseteq Nat
    /\ {CompactionFloor, CompactionCeiling} \subseteq Nat
    /\ MaxAppends \in Nat
    /\ Faults \subseteq AppendFaults \cup RewriteFaults

\* A V2 file holds a list of distinct vouchers.
ASSUME LegacyAssumption ==
    /\ IsFiniteSet(LegacyFile)
    /\ LegacyFile \subseteq [pos : 1..MaxItems, kind : {"enqueue"}, voucher : Vouchers]
    /\ \A d, e \in LegacyFile : (d.voucher = e.voucher \/ d.pos = e.pos) => d = e

VARIABLES
    file,         \* frames a reader of the path sees
    format,       \* "absent", "legacy" (V2) or "wal" (V3)
    synced,       \* frames before this position survive a power loss
    shadow,       \* older files the directory may still name after a power loss
    handle,       \* the Queue object: "none", "open", "poisoned" or "closed"
    items,        \* queue.items (and liveIDs): enqueue frames by position
    bytes,        \* queue.bytes
    payerUsage,   \* queue.payerUsage, zero when the map has no entry
    logBytes, garbageBytes,
    nextPos       \* position of the next frame

disk == <<file, format, synced, shadow>>
memory == <<items, bytes, payerUsage, logBytes, garbageBytes>>
vars == <<disk, memory, handle, nextPos>>

-----------------------------------------------------------------------------
(* Reading a log *)

FrameBytes(f) ==
    FrameOverhead + IF f.kind = "remove" THEN IdBytes ELSE Size[f.voucher]

TotalBytes(F) == MapThenSumSet(FrameBytes, F)
PayloadBytes(F) == MapThenSumSet(LAMBDA f : Size[f.voucher], F)

Complete(F) == {f \in F : f.kind # "torn"}

\* Mutant: a remove frame cancels enqueues of the voucher wherever they stand.
LiveIgnoringOrder(F) ==
    {e \in F : /\ e.kind = "enqueue"
               /\ \A r \in F : r.kind = "remove" => r.voucher # e.voucher}

\* Enqueue frames no later remove frame cancels: replayEntry.removed is false.
Live(F) ==
    {e \in F : /\ e.kind = "enqueue"
               /\ \A r \in F : r.kind = "remove" /\ r.voucher = e.voucher => r.pos < e.pos}

Before(F, p) == {f \in F : f.pos < p}

IsChannelHead(e, S) ==
    \A d \in S : Channel[d.voucher] = Channel[e.voucher] => e.pos <= d.pos

\* replayWAL accepts the frame in the place it has in the log.
FrameAccepted(F, f) ==
    LET L == Live(Before(F, f.pos))
    IN  /\ f.kind = "enqueue" => /\ \A e \in L : e.voucher # f.voucher
                                 /\ Cardinality(L) < MaxItems
        /\ f.kind = "remove" => \E e \in L : e.voucher = f.voucher /\ IsChannelHead(e, L)
        /\ f.kind = "torn" => \A g \in F : g.pos <= f.pos

StructureAccepted(F) == \A f \in F : FrameAccepted(F, f)

\* The byte limit replayWAL enforces at every enqueue frame.
BytesAccepted(F) ==
    \A f \in F : f.kind = "enqueue" =>
        Size[f.voucher] <= MaxBytes - PayloadBytes(Live(Before(F, f.pos)))

MaximumFileSize ==
    4 * (DomainBytes + MaxItems * FrameOverhead + MaxBytes) + 2 * CompactionCeiling

ReplayAccepts(F) ==
    /\ DomainBytes + TotalBytes(F) <= MaximumFileSize
    /\ StructureAccepted(F)
    /\ BytesAccepted(F)

-----------------------------------------------------------------------------
(* Limits *)

ItemsPerPayer == IF MaxItemsPerPayer = 0 THEN MaxItems ELSE MaxItemsPerPayer
BytesPerPayer == IF MaxBytesPerPayer = 0 THEN MaxBytes ELSE MaxBytesPerPayer

UsageOf(S) ==
    [p \in Payers |->
        LET own == {e \in S : Payer[e.voucher] = p}
        IN  [items |-> Cardinality(own), bytes |-> PayloadBytes(own)]]

PayersWithinLimits(usage) ==
    \A p \in Payers : usage[p].items <= ItemsPerPayer /\ usage[p].bytes <= BytesPerPayer

HasRoom(v) ==
    LET usage == payerUsage[Payer[v]]
    IN  /\ Cardinality(items) < MaxItems
        /\ Size[v] <= MaxBytes - bytes
        /\ usage.items < ItemsPerPayer
        /\ usage.bytes < BytesPerPayer
        /\ Size[v] <= BytesPerPayer - usage.bytes

-----------------------------------------------------------------------------
(* Writing *)

LastPos == MaxItems + MaxAppends
NewFrame(kind, v) == [pos |-> nextPos, kind |-> kind, voucher |-> v]

AppendOutcomes == {"ok"} \cup (Faults \cap AppendFaults)
RewriteOutcomes == {"ok"} \cup (Faults \cap RewriteFaults)

\* appendFrame's first result: every byte of the frame reached the file.
Installed(outcome) == outcome \in {"ok", "closeFailed", "syncFailed"}

\* The file after appendFrame: whole frame, a prefix of it, or nothing.
Appended(f, outcome) ==
    IF Installed(outcome) THEN file \cup {f}
    ELSE IF outcome = "shortWrite" THEN file \cup {[f EXCEPT !.kind = "torn"]}
    ELSE file

\* Mutant: append without Sync.
SyncedAfterNoSync(f, outcome) == synced

SyncedAfter(f, outcome) ==
    IF outcome \in {"ok", "closeFailed"} THEN f.pos + 1 ELSE synced

\* Mutant: a failed append leaves the queue in service.
HandleAfterIgnored(err) == "open"

\* Any persistence error leaves the Queue object poisoned until the next Open.
HandleAfter(err) == IF err THEN "poisoned" ELSE "open"

\* writeAtomic: temporary file, sync, rename, sync of the directory.
\* "current" is the file the rename replaces.
Rewrite(current, content, outcome) ==
    /\ synced' = nextPos'
    /\ \/ /\ outcome = "notInstalled"
          /\ file' = current
          /\ UNCHANGED <<format, shadow>>
       \/ /\ outcome # "notInstalled"
          /\ file' = content
          /\ format' = "wal"
          /\ shadow' = IF outcome = "dirSyncFailed"
                       THEN shadow \cup {[format |-> format, file |-> current]} ELSE {}

Charge(v) == [payerUsage EXCEPT ![Payer[v]] =
                 [items |-> @.items + 1, bytes |-> @.bytes + Size[v]]]

\* Mutant: the payer keeps being charged for the bytes of a settled voucher.
DischargeItemOnly(v) == [payerUsage EXCEPT ![Payer[v]].items = @ - 1]

\* The map entry disappears with the payer's last voucher.
Discharge(v) == [payerUsage EXCEPT ![Payer[v]] =
                    [items |-> @.items - 1,
                     bytes |-> IF @.items = 1 THEN 0 ELSE @.bytes - Size[v]]]

\* EnqueueEnvelope; a refusal (ErrDuplicate, ErrFull, ErrPayerFull) changes nothing.
Enqueue(v, outcome) ==
    /\ handle = "open"
    /\ \A e \in items : e.voucher # v
    /\ HasRoom(v)
    /\ nextPos <= LastPos
    /\ LET f == NewFrame("enqueue", v)
       IN  /\ file' = Appended(f, outcome)
           /\ synced' = SyncedAfter(f, outcome)
           /\ IF Installed(outcome)
              THEN /\ items' = items \cup {f}
                   /\ bytes' = bytes + Size[v]
                   /\ payerUsage' = Charge(v)
                   /\ logBytes' = logBytes + FrameBytes(f)
                   /\ UNCHANGED garbageBytes
              ELSE UNCHANGED memory
    /\ handle' = HandleAfter(outcome # "ok")
    /\ nextPos' = nextPos + 1
    /\ UNCHANGED <<format, shadow>>

NeedsCompaction(garbage, log) ==
    /\ garbage >= CompactionFloor
    /\ garbage >= log - garbage \/ garbage >= CompactionCeiling

\* removeIndexLocked, maybeCompactLocked included.
RemoveEntry(e, outcome, rewriteOutcome) ==
    LET f == NewFrame("remove", e.voucher)
        log == logBytes + FrameBytes(f)
        garbage == garbageBytes + FrameBytes(e) + FrameBytes(f)
        compact == outcome = "ok" /\ NeedsCompaction(garbage, log)
        installed == compact /\ rewriteOutcome # "notInstalled"
    IN  /\ nextPos <= LastPos
        /\ nextPos' = nextPos + 1
        /\ compact \/ rewriteOutcome = "ok"
        /\ IF compact
           THEN Rewrite(file \cup {f}, items \ {e}, rewriteOutcome)
           ELSE /\ file' = Appended(f, outcome)
                /\ synced' = SyncedAfter(f, outcome)
                /\ UNCHANGED <<format, shadow>>
        /\ IF Installed(outcome)
           THEN /\ items' = items \ {e}
                /\ bytes' = bytes - Size[e.voucher]
                /\ payerUsage' = Discharge(e.voucher)
                /\ logBytes' = IF installed THEN DomainBytes + TotalBytes(items \ {e}) ELSE log
                /\ garbageBytes' = IF installed THEN 0 ELSE garbage
           ELSE UNCHANGED memory
        /\ handle' = HandleAfter(outcome # "ok" \/ rewriteOutcome # "ok")

\* Remove: the global head only.
Remove(e, outcome, rewriteOutcome) ==
    /\ handle = "open"
    /\ \A d \in items : e.pos <= d.pos
    /\ RemoveEntry(e, outcome, rewriteOutcome)

\* RemoveChannelHead: the earliest entry of its channel.
RemoveChannelHead(e, outcome, rewriteOutcome) ==
    /\ handle = "open"
    /\ IsChannelHead(e, items)
    /\ RemoveEntry(e, outcome, rewriteOutcome)

Close == /\ handle \in {"open", "poisoned"}
         /\ handle' = "closed"
         /\ UNCHANGED <<disk, memory, nextPos>>

-----------------------------------------------------------------------------
(* Open, crashes *)

Install(L, log, garbage) ==
    /\ items' = L
    /\ bytes' = PayloadBytes(L)
    /\ payerUsage' = UsageOf(L)
    /\ logBytes' = log
    /\ garbageBytes' = garbage
    /\ handle' = "open"

\* Open on a path that does not exist yet.
OpenAbsent(outcome) ==
    /\ handle # "open"
    /\ format = "absent"
    /\ UNCHANGED nextPos
    /\ Rewrite({}, {}, outcome)
    /\ IF outcome = "ok" THEN Install({}, DomainBytes, 0) ELSE UNCHANGED <<memory, handle>>

\* Open on a WAL: replay it, cut the torn tail off, rebuild the indexes.
OpenWal ==
    /\ handle # "open"
    /\ format = "wal"
    /\ ReplayAccepts(file)
    /\ PayersWithinLimits(UsageOf(Live(file)))
    /\ file' = Complete(file)
    /\ LET L == Live(file)
       IN  Install(L, DomainBytes + TotalBytes(Complete(file)),
                      TotalBytes(Complete(file) \ L))
    /\ UNCHANGED <<format, synced, shadow, nextPos>>

\* Open on a V2 file: decode it and rewrite it as a WAL before serving.
OpenLegacy(outcome) ==
    /\ handle # "open"
    /\ format = "legacy"
    /\ Cardinality(file) <= MaxItems
    /\ PayloadBytes(file) <= MaxBytes
    /\ UNCHANGED nextPos
    /\ Rewrite(file, file, outcome)
    /\ IF outcome = "ok" /\ PayersWithinLimits(UsageOf(file))
       THEN Install(file, DomainBytes + TotalBytes(file), 0)
       ELSE UNCHANGED <<memory, handle>>

Forget == /\ handle' = "none"
          /\ items' = {}
          /\ bytes' = 0
          /\ payerUsage' = UsageOf({})
          /\ logBytes' = 0
          /\ garbageBytes' = 0

\* The process dies; what it wrote stays visible.  A death inside appendFrame
\* leaves the same file as the failed append that precedes it here.
Crash == /\ handle # "none"
         /\ Forget
         /\ UNCHANGED <<disk, nextPos>>

\* The tail of a log a power loss may leave, from an unsynced frame on:
\* nothing of the frame, or a part of it.
TailLost(F, f) ==
    {Before(F, f.pos), Before(F, f.pos) \cup {[f EXCEPT !.kind = "torn"]}}

\* The logs a power loss may leave of F when it is synced up to position p.
LossResults(F, p) == {F} \cup UNION {TailLost(F, f) : f \in {g \in F : g.pos >= p}}

PowerLoss ==
    /\ \/ /\ file' \in LossResults(file, synced)
          /\ UNCHANGED format
       \/ \E s \in shadow : file' = s.file /\ format' = s.format
    /\ synced' = nextPos
    /\ shadow' = {}
    /\ Forget
    /\ UNCHANGED nextPos

-----------------------------------------------------------------------------
Init == /\ \/ format = "absent" /\ file = {}
           \/ format = "legacy" /\ file = LegacyFile
        /\ nextPos = MaxItems + 1
        /\ synced = nextPos
        /\ shadow = {}
        /\ handle = "none"
        /\ items = {}
        /\ bytes = 0
        /\ payerUsage = UsageOf({})
        /\ logBytes = 0
        /\ garbageBytes = 0

Next ==
    \/ \E v \in Vouchers, o \in AppendOutcomes : Enqueue(v, o)
    \/ \E e \in items, o \in AppendOutcomes, r \in RewriteOutcomes :
          Remove(e, o, r) \/ RemoveChannelHead(e, o, r)
    \/ \E r \in RewriteOutcomes : OpenAbsent(r) \/ OpenLegacy(r)
    \/ OpenWal
    \/ Close
    \/ Crash
    \/ PowerLoss

Spec == Init /\ [][Next]_vars

-----------------------------------------------------------------------------
(* Properties *)

\* Every variable has its type; an entry of items is an enqueue frame.  The
\* counters are left to AccountingExact, which says more than their type.
TypeOK ==
    /\ file \subseteq Frame
    /\ format \in {"absent", "legacy", "wal"}
    /\ synced \in Nat /\ nextPos \in Nat
    /\ shadow \subseteq [format : {"absent", "legacy", "wal"}, file : SUBSET Frame]
    /\ handle \in {"none", "open", "poisoned", "closed"}
    /\ items \subseteq [pos : Nat, kind : {"enqueue"}, voucher : Vouchers]

\* The files a reader may find after any power loss from here, of WAL format.
Survivors ==
    {F \in LossResults(file, synced) : format = "wal"}
        \cup {s.file : s \in {t \in shadow : t.format = "wal"}}

\* Open (queue.go:111) never meets a log it has to call corrupt or over its
\* limits: whatever failed append, failed compaction, crash or power loss
\* came before, the queue's own file replays, within the size and the payer
\* limits, so no voucher is stranded behind a refusing Open.
ReopenAccepts ==
    \A F \in Survivors : ReplayAccepts(F) /\ PayersWithinLimits(UsageOf(Live(F)))

\* An operational queue serves exactly what a restart would replay: items and
\* liveIDs mirror the log, and no torn frame lies in front of the next append.
MemoryMirrorsFile ==
    handle = "open" => items = Live(file) /\ file = Complete(file)

\* The counters that decide ErrFull, ErrPayerFull and compaction never drift
\* from the vouchers they count, through removals, compaction and reopening.
AccountingExact ==
    handle = "open" =>
        /\ bytes = PayloadBytes(items)
        /\ payerUsage = UsageOf(items)
        /\ logBytes = DomainBytes + TotalBytes(file)
        /\ garbageBytes = TotalBytes(file \ items)

Entries(F) == {[pos |-> e.pos, voucher |-> e.voucher] : e \in Live(F)}

Outcomes ==
    {Entries(F) : F \in LossResults(file, synced)} \cup {Entries(s.file) : s \in shadow}

Abstract == INSTANCE DurableQueue WITH
    Positions <- 1..LastPos, content <- Entries(file), outcomes <- Outcomes,
    usable <- (handle = "open")

\* The queue implements DurableQueue: what enqueue and remove acknowledged
\* survives every later crash, power loss, reopening and compaction, what
\* failed may only be undone as a whole, and each channel stays FIFO.
ImplementsDurableQueue == Abstract!Spec
=============================================================================
