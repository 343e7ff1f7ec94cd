----------------------------- MODULE LogArchive -----------------------------
(***************************************************************************)
(* The file sink of the logger, for one level: writers append lines under  *)
(* the sink's lock and rotate the file into .pending when it is due, hand  *)
(* it to the archive loop through a bounded channel outside the lock, and  *)
(* the archive loop packs it.  A file is the set of its lines, which also  *)
(* names it.  The process may die at any step and start again.             *)
(***************************************************************************)
EXTENDS Integers, FiniteSets, Sequences, Functions

CONSTANTS
    LogWriters,        \* goroutines that log, "rotation" (the ticker's) among them
    maxLines,          \* lines that fill a file (maxSizeBytes)
    archiveCapacity,   \* room in archiveQueue, 64 in the code
    MaxLines,          \* bound: lines ever written
    MaxLogFaults       \* bound: failed file operations and crashes

ASSUME LogAssumption == "rotation" \in LogWriters

VARIABLES
    active,        \* the active file: its lines, and whether the sink has it open
    pendingLogs,   \* the files of .pending
    archives,      \* the published archives
    archiveQueue, archiveTasks,
    tasksOf,       \* by goroutine: rotated files it has yet to queue
    archiver,      \* the archive loop: the file in hand and how far it is
    sink,          \* "starting", "open", "closing" (closed is set), "closed", "down"
    logged,        \* history: lines written so far, those without an error, those retention removed
    lbudget

logVars == <<active, pendingLogs, archives, archiveQueue, archiveTasks, tasksOf, archiver, sink, logged, lbudget>>

LogFault == lbudget > 0 /\ lbudget' = lbudget - 1
Goroutines == LogWriters \cup {"opener"}
NoArchive == [pc |-> "idle", file |-> {}]

-----------------------------------------------------------------------------
(* rotateLocked: what becomes of the active file, of .pending, and whether  *)
(* there is a task.                                                         *)

Rotation(lines, open, pend, new, failed) ==
    [lines |-> lines, open |-> open, pend |-> pend, new |-> new, failed |-> failed]

\* Closing fails, or nothing to rotate; the rename fails, or it is undone
\* because the new file cannot be opened, and the file is open again or not.
RotationsFailed(f, pend) ==
    IF ~f.open THEN {Rotation(f.lines, FALSE, pend, <<>>, TRUE)}
    ELSE {Rotation(f.lines, again, pend, <<>>, TRUE) : again \in BOOLEAN}
         \cup {Rotation({}, again, pend \cup {f.lines}, <<>>, TRUE) : again \in BOOLEAN}

RotationsDone(f, pend) ==
    IF f.lines = {} \/ ~f.open THEN {Rotation(f.lines, f.open, pend, <<>>, FALSE)}
    ELSE {Rotation({}, TRUE, pend \cup {f.lines}, <<f.lines>>, FALSE)}

\* The faults of one call are counted once.
Rotations(f, pend) ==
    RotationsDone(f, pend) \cup (IF lbudget > 0 /\ f.lines # {} THEN RotationsFailed(f, pend) ELSE {})

NoRotation(f, pend) == Rotation(f.lines, f.open, pend, <<>>, FALSE)

-----------------------------------------------------------------------------
(* Write and rotateExpired.                                                 *)

\* archiveTasks.Add, in rotateLocked, under the lock.
Counted(n) == archiveTasks + n

Due(f) == Cardinality(f.lines) + 1 > maxLines

LogWrites(w) ==
    /\ sink = "open" /\ w # "rotation" /\ tasksOf[w] = <<>> /\ tasksOf["opener"] = <<>>
    /\ logged.count < MaxLines
    /\ \E r1 \in (IF Due(active) THEN {} ELSE {NoRotation(active, pendingLogs)})
                 \cup Rotations(active, pendingLogs) :
       LET line == logged.count + 1
           f == [lines |-> IF r1.open THEN r1.lines \cup {line} ELSE r1.lines, open |-> r1.open]
       IN \E r2 \in IF Cardinality(f.lines) >= maxLines THEN Rotations(f, r1.pend)
                    ELSE {NoRotation(f, r1.pend)} :
          /\ active' = [lines |-> r2.lines, open |-> r2.open]
          /\ pendingLogs' = r2.pend
          /\ tasksOf' = [tasksOf EXCEPT ![w] = r1.new \o r2.new]
          /\ archiveTasks' = Counted(Len(r1.new \o r2.new))
          /\ logged' = [logged EXCEPT !.count = line, !.kept = IF r1.open THEN @ \cup {line} ELSE @]
          /\ lbudget' = IF r1.failed \/ r2.failed THEN lbudget - 1 ELSE lbudget
    /\ UNCHANGED <<archives, archiveQueue, archiver, sink>>

\* rotateExpired: the interval has passed for a file that is not empty.
LogRotates ==
    /\ sink \in {"starting", "open"} /\ tasksOf["rotation"] = <<>> /\ active.lines # {}
    /\ \E r \in Rotations(active, pendingLogs) :
       /\ active' = [lines |-> r.lines, open |-> r.open]
       /\ pendingLogs' = r.pend
       /\ tasksOf' = [tasksOf EXCEPT !["rotation"] = r.new]
       /\ archiveTasks' = Counted(Len(r.new))
       /\ lbudget' = IF r.failed THEN lbudget - 1 ELSE lbudget
    /\ UNCHANGED <<archives, archiveQueue, archiver, sink, logged>>

\* archiveQueue <- task, outside the lock; it waits for room.
LogQueues(g) ==
    /\ sink # "down" /\ tasksOf[g] # <<>> /\ Len(archiveQueue) < archiveCapacity
    /\ archiveQueue' = Append(archiveQueue, Head(tasksOf[g]))
    /\ tasksOf' = [tasksOf EXCEPT ![g] = Tail(@)]
    /\ UNCHANGED <<active, pendingLogs, archives, archiveTasks, archiver, sink, logged, lbudget>>

-----------------------------------------------------------------------------
(* archiveLoop and createArchive.                                           *)

ArchTakes ==
    /\ sink \notin {"closed", "down"} /\ archiver.pc = "idle" /\ archiveQueue # <<>>
    /\ archiver' = [pc |-> "pack", file |-> Head(archiveQueue)]
    /\ archiveQueue' = Tail(archiveQueue)
    /\ UNCHANGED <<active, pendingLogs, archives, archiveTasks, tasksOf, sink, logged, lbudget>>

\* Mutant: the source is removed before the archive is published.
ArchPacksRemovesFirst ==
    /\ archiver.pc = "pack" /\ sink # "down"
    /\ archiver' = [archiver EXCEPT !.pc = "remove"]
    /\ pendingLogs' = pendingLogs \ {archiver.file}
    /\ UNCHANGED <<active, archives, archiveQueue, archiveTasks, tasksOf, sink, logged, lbudget>>

\* The copy is written to a temporary file, synced and renamed.
ArchPacks ==
    /\ archiver.pc = "pack" /\ sink # "down" /\ archiver.file \in pendingLogs
    /\ archiver' = [archiver EXCEPT !.pc = "remove"]
    /\ archives' = archives \cup {archiver.file}
    /\ UNCHANGED <<active, pendingLogs, archiveQueue, archiveTasks, tasksOf, sink, logged, lbudget>>

\* The source is removed, and archives older than the retention with it.
ArchRemoves ==
    /\ archiver.pc = "remove" /\ sink # "down"
    /\ pendingLogs' = pendingLogs \ {archiver.file}
    /\ \E old \in {{}} \cup {{a} : a \in archives} :
       /\ archives' = archives \ old
       /\ logged' = [logged EXCEPT !.expired = @ \cup UNION old]
    /\ archiver' = NoArchive /\ archiveTasks' = archiveTasks - 1
    /\ UNCHANGED <<active, archiveQueue, tasksOf, sink, lbudget>>

\* An error, or the source is gone already: the task is done all the same.
ArchFails ==
    /\ archiver.pc \in {"pack", "remove"} /\ sink # "down"
    /\ IF archiver.file \in pendingLogs THEN LogFault ELSE UNCHANGED lbudget
    /\ archiver' = NoArchive /\ archiveTasks' = archiveTasks - 1
    /\ UNCHANGED <<active, pendingLogs, archives, archiveQueue, tasksOf, sink, logged>>

-----------------------------------------------------------------------------
(* Close, a crash and openSplitSink.                                        *)

\* The rotation loop ends first, then closed is set under the lock.
LogCloses ==
    /\ sink = "open" /\ tasksOf["rotation"] = <<>> /\ tasksOf["opener"] = <<>>
    /\ sink' = "closing" /\ active' = [active EXCEPT !.open = FALSE]
    /\ UNCHANGED <<pendingLogs, archives, archiveQueue, archiveTasks, tasksOf, archiver, logged, lbudget>>

\* archiveTasks.Wait, then the archive loop is stopped.
LogClosed ==
    /\ sink = "closing" /\ archiveTasks = 0 /\ archiver = NoArchive
    /\ sink' = "closed"
    /\ UNCHANGED <<active, pendingLogs, archives, archiveQueue, archiveTasks, tasksOf, archiver, logged, lbudget>>

LogCrashes ==
    /\ sink \notin {"closed", "down"} /\ LogFault
    /\ sink' = "down" /\ active' = [active EXCEPT !.open = FALSE]
    /\ archiveQueue' = <<>> /\ archiveTasks' = 0 /\ archiver' = NoArchive
    /\ tasksOf' = [g \in Goroutines |-> <<>>]
    /\ UNCHANGED <<pendingLogs, archives, logged>>

\* openSplitSink starts the loops before it looks for what is pending.
LogOpens ==
    /\ sink \in {"closed", "down"} /\ (sink = "closed" => logged.count < MaxLines)
    /\ \A g \in Goroutines : tasksOf[g] = <<>>
    /\ sink' = "starting" /\ active' = [active EXCEPT !.open = TRUE]
    /\ UNCHANGED <<pendingLogs, archives, archiveQueue, archiveTasks, tasksOf, archiver, logged, lbudget>>

\* recoverPendingArchives, in the order of the files' names: a file the
\* rotation loop has just put there is queued a second time.  Nothing is
\* queued when .pending cannot be read.
LogRecovers ==
    /\ sink = "starting" /\ sink' = "open"
    /\ \/ /\ \E files \in Injection(1..Cardinality(pendingLogs), pendingLogs) :
                tasksOf' = [tasksOf EXCEPT !["opener"] = files]
          /\ archiveTasks' = archiveTasks + Cardinality(pendingLogs)
          /\ UNCHANGED lbudget
       \/ LogFault /\ UNCHANGED <<tasksOf, archiveTasks>>
    /\ UNCHANGED <<active, pendingLogs, archives, archiveQueue, archiver, logged>>

-----------------------------------------------------------------------------

LogInit ==
    /\ active = [lines |-> {}, open |-> TRUE] /\ pendingLogs = {} /\ archives = {}
    /\ archiveQueue = <<>> /\ archiveTasks = 0 /\ tasksOf = [g \in Goroutines |-> <<>>]
    /\ archiver = NoArchive /\ sink = "open"
    /\ logged = [count |-> 0, kept |-> {}, expired |-> {}] /\ lbudget = MaxLogFaults

LogNext ==
    \/ \E w \in LogWriters : LogWrites(w)
    \/ \E g \in Goroutines : LogQueues(g)
    \/ LogRotates \/ ArchTakes \/ ArchPacks \/ ArchRemoves \/ ArchFails
    \/ LogCloses \/ LogClosed \/ LogCrashes \/ LogOpens \/ LogRecovers

LogSpec == LogInit /\ [][LogNext]_logVars

\* A line written without an error is in the active file, in .pending or in
\* an archive until the retention removes it: no failed rotation, failed
\* packing or crash between two file operations loses it.
NoLogLost ==
    logged.kept \subseteq active.lines \cup (UNION pendingLogs) \cup (UNION archives) \cup logged.expired

\* When Close has returned, no rotated file waits to be packed and no
\* goroutine is left to wait for a channel that nobody reads any more.
CloseDrains ==
    sink = "closed" => archiveQueue = <<>> /\ \A g \in Goroutines : tasksOf[g] = <<>>

\* The log keeps what it was given, through rotation, packing, retention,
\* Close and crashes (fileSink, archiveLoop, recoverPendingArchives).
LogKept == NoLogLost /\ CloseDrains
=============================================================================
