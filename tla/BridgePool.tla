----------------------------- MODULE BridgePool -----------------------------
(***************************************************************************)
(* The pool of physical connections to one peer relay (bridge_pool.go):    *)
(* the manage loop of each connection, the sampling loop that expands the  *)
(* pool, the reaper that shrinks it, streams that are opened on the least  *)
(* loaded connection, and Close.                                           *)
(*                                                                         *)
(* Loads and times are abstract: whether every live connection is at its   *)
(* high watermark, and whether a connection has been idle long enough, are *)
(* choices the code's conditions allow.                                    *)
(***************************************************************************)
EXTENDS Naturals, FiniteSets

CONSTANTS
    PhysConns,          \* physConn objects that may be created
    poolMaxConns, minWarmConns, burstBatchSize, burstTriggerCount,
    MaxPoolStreams,     \* bound: streams open at a time
    MaxPoolFaults       \* bound: dials that fail, connections that break

ASSUME PoolAssumption ==
    /\ IsFiniteSet(PhysConns)
    /\ {poolMaxConns, minWarmConns, burstBatchSize, burstTriggerCount} \subseteq Nat
    /\ minWarmConns <= poolMaxConns

VARIABLES
    pool,        \* conns, closed, cancelled, and the expansions of the last window
    phys,        \* by physConn: what manage does, its context, its session
    expander,    \* connections maybeExpand has still to add
    doomed,      \* connections the reaper or Close has still to close
    opening,     \* the connection OpenStream picked, outside the lock
    poolBudget

poolVars == <<pool, phys, expander, doomed, opening, poolBudget>>

Unused == [manage |-> "new", cancelled |-> FALSE, sess |-> "none", shown |-> FALSE,
           streams |-> 0, idle |-> FALSE]
PoolFault == poolBudget > 0 /\ poolBudget' = poolBudget - 1
\* Objects not in use; one whose manage loop ended may stand for a new one.
Fresh == {c \in PhysConns : phys[c].manage \in {"new", "ended"}
                            /\ c \notin pool.conns \cup doomed \cup opening}
Live(c) == phys[c].shown /\ phys[c].sess = "open"

-----------------------------------------------------------------------------
(* physConn.manage.                                                         *)

\* The context of a connection is cancelled with the pool's.
Cancelled(c) == phys[c].cancelled \/ pool.cancelled

Dials(c) ==
    /\ phys[c].manage = "loop" /\ ~Cancelled(c)
    /\ phys' = [phys EXCEPT ![c].manage = "dialing"]
    /\ UNCHANGED <<pool, expander, doomed, opening, poolBudget>>

DialFails(c) ==
    /\ phys[c].manage = "dialing" /\ PoolFault
    /\ phys' = [phys EXCEPT ![c].manage = "loop"]
    /\ UNCHANGED <<pool, expander, doomed, opening>>

\* DialBridgeMuxSession does not watch the context: it may succeed after the
\* connection was closed.  pc.sess is set without looking.
DialSucceeds(c) ==
    /\ phys[c].manage = "dialing"
    /\ phys' = [phys EXCEPT ![c].manage = "serving", ![c].sess = "open", ![c].shown = TRUE,
                            ![c].streams = 0]
    /\ UNCHANGED <<pool, expander, doomed, opening, poolBudget>>

\* closeOnContextDone: the session of a cancelled connection closes.
ContextDone(c) ==
    /\ phys[c].sess = "open" /\ Cancelled(c)
    /\ phys' = [phys EXCEPT ![c].sess = "closed", ![c].streams = 0]
    /\ UNCHANGED <<pool, expander, doomed, opening, poolBudget>>

SessionBreaks(c) ==
    /\ phys[c].sess = "open" /\ PoolFault
    /\ phys' = [phys EXCEPT ![c].sess = "closed", ![c].streams = 0]
    /\ UNCHANGED <<pool, expander, doomed, opening>>

\* The session ended: it is forgotten, and dialled again after the backoff.
Redials(c) ==
    /\ phys[c].manage = "serving" /\ phys[c].sess = "closed"
    /\ phys' = [phys EXCEPT ![c].manage = "loop", ![c].sess = "none", ![c].shown = FALSE]
    /\ UNCHANGED <<pool, expander, doomed, opening, poolBudget>>

\* The context ended: at the top of the loop, in the backoff, or while the
\* session is served, which is then closed.
ManageEnds(c) ==
    /\ phys[c].manage \in {"loop", "serving"} /\ Cancelled(c)
    /\ phys' = [phys EXCEPT ![c].manage = "ended", ![c].streams = 0,
                            ![c].sess = IF @ = "open" THEN "closed" ELSE @]
    /\ UNCHANGED <<pool, expander, doomed, opening, poolBudget>>

-----------------------------------------------------------------------------
(* Expansion and shrinking.                                                 *)

\* Mutant: the batch is not cut to the room that is left.
BatchUncut(events, size) == IF events + 1 >= burstTriggerCount THEN burstBatchSize ELSE 1

\* One connection, or a batch when there were several expansions of late,
\* never past poolMaxConns.
Batch(events, size) ==
    LET wanted == IF events + 1 >= burstTriggerCount THEN burstBatchSize ELSE 1
        room == poolMaxConns - size
    IN IF wanted > room THEN room ELSE wanted

\* maybeExpand: every live connection is loaded, the pool is open and has
\* room; the connections are added after the lock is released.
MaybeExpand ==
    /\ expander = 0 /\ ~pool.cancelled /\ ~pool.closed
    /\ {c \in pool.conns : Live(c)} # {}
    /\ Cardinality(pool.conns) < poolMaxConns
    /\ expander' = Batch(pool.events, Cardinality(pool.conns))
    /\ pool' = [pool EXCEPT !.events = IF @ < burstTriggerCount THEN @ + 1 ELSE @]
    /\ UNCHANGED <<phys, doomed, opening, poolBudget>>

\* Expansions fall out of the window.
WindowSlides ==
    /\ pool.events > 0
    /\ pool' = [pool EXCEPT !.events = @ - 1]
    /\ UNCHANGED <<phys, expander, doomed, opening, poolBudget>>

AddPhysConn(c) ==
    /\ expander > 0 /\ c \in Fresh
    /\ expander' = expander - 1
    /\ pool' = [pool EXCEPT !.conns = @ \cup {c}]
    /\ phys' = [phys EXCEPT ![c] = [Unused EXCEPT !.manage = "loop"]]
    /\ UNCHANGED <<doomed, opening, poolBudget>>

\* How many connections the reaper may take.
ReapBudget(size) == size - minWarmConns

\* reapOnce: the idle clock of every connection is refreshed; of those idle
\* for long enough as many are taken as leaves the warm ones.
ReapOnce(victims) ==
    /\ ~pool.closed /\ ~pool.cancelled /\ doomed = {}
    /\ \A c \in victims : c \in pool.conns /\ Live(c) /\ phys[c].streams = 0 /\ phys[c].idle
    /\ victims # {} => Cardinality(victims) <= ReapBudget(Cardinality(pool.conns))
    /\ pool' = [pool EXCEPT !.conns = @ \ victims]
    /\ phys' = [c \in PhysConns |-> IF c \in pool.conns
                  THEN [phys[c] EXCEPT !.idle = Live(c) /\ phys[c].streams = 0] ELSE phys[c]]
    /\ doomed' = victims
    /\ UNCHANGED <<expander, opening, poolBudget>>

\* physConn.close, after the lock was released.
ClosePhysConn(c) ==
    /\ c \in doomed
    /\ doomed' = doomed \ {c}
    /\ phys' = [phys EXCEPT ![c].cancelled = TRUE, ![c].shown = FALSE, ![c].streams = 0,
                            ![c].sess = IF @ = "open" /\ phys[c].shown THEN "closed" ELSE @]
    /\ UNCHANGED <<pool, expander, opening, poolBudget>>

-----------------------------------------------------------------------------
(* Streams.                                                                 *)

\* pickLeastLoaded, under the pool's lock.
PickLeastLoaded(c) ==
    /\ opening = {} /\ ~pool.closed /\ c \in pool.conns /\ Live(c)
    /\ \A d \in pool.conns : Live(d) => phys[c].streams <= phys[d].streams
    /\ opening' = {c}
    /\ UNCHANGED <<pool, phys, expander, doomed, poolBudget>>

\* The session is looked up again and the stream opened on it, or the caller
\* tries again.
OpenStream(c) ==
    /\ c \in opening /\ opening' = {}
    /\ phys' = IF Live(c) /\ phys[c].streams < MaxPoolStreams
               THEN [phys EXCEPT ![c].streams = @ + 1] ELSE phys
    /\ UNCHANGED <<pool, expander, doomed, poolBudget>>

CloseStream(c) ==
    /\ phys[c].sess = "open" /\ phys[c].streams > 0
    /\ phys' = [phys EXCEPT ![c].streams = @ - 1]
    /\ UNCHANGED <<pool, expander, doomed, opening, poolBudget>>

\* relayPeerPool.Close: closed under the lock, then the context, then every
\* connection it had.
ClosePool ==
    /\ ~pool.closed /\ doomed = {}
    /\ pool' = [pool EXCEPT !.closed = TRUE, !.conns = {}]
    /\ doomed' = pool.conns
    /\ UNCHANGED <<phys, expander, opening, poolBudget>>

\* Mutant: Close leaves the context of the pool.
CancelPoolNever == FALSE /\ UNCHANGED poolVars

CancelPool ==
    /\ pool.closed /\ ~pool.cancelled
    /\ pool' = [pool EXCEPT !.cancelled = TRUE]
    /\ UNCHANGED <<phys, expander, doomed, opening, poolBudget>>

-----------------------------------------------------------------------------

PoolInit ==
    /\ \E warm \in SUBSET PhysConns :
          /\ Cardinality(warm) = minWarmConns
          /\ pool = [conns |-> warm, closed |-> FALSE, cancelled |-> FALSE, events |-> 0]
          /\ phys = [c \in PhysConns |-> IF c \in warm THEN [Unused EXCEPT !.manage = "loop"]
                                         ELSE Unused]
    /\ expander = 0 /\ doomed = {} /\ opening = {} /\ poolBudget = MaxPoolFaults

ManageStep(c) == Dials(c) \/ DialSucceeds(c) \/ ContextDone(c) \/ Redials(c) \/ ManageEnds(c)

PoolNext ==
    \/ \E c \in PhysConns :
          \/ Dials(c) \/ DialFails(c) \/ DialSucceeds(c) \/ ContextDone(c)
          \/ SessionBreaks(c) \/ Redials(c) \/ ManageEnds(c)
          \/ AddPhysConn(c) \/ ClosePhysConn(c)
          \/ PickLeastLoaded(c) \/ OpenStream(c) \/ CloseStream(c)
    \/ MaybeExpand \/ WindowSlides
    \/ \E victims \in SUBSET PhysConns : ReapOnce(victims)
    \/ ClosePool \/ CancelPool

PoolSpec == PoolInit /\ [][PoolNext]_poolVars

-----------------------------------------------------------------------------
(* Properties.                                                              *)

\* However expansions, the reaper and dying connections interleave, an open
\* pool has at least its warm connections and, with those it is about to
\* add, at most poolMaxConns.
PoolBounds ==
    ~pool.closed =>
        /\ Cardinality(pool.conns) >= minWarmConns
        /\ Cardinality(pool.conns) + expander <= poolMaxConns

\* No session outlives the pool: once it is closed every session, one whose
\* dial succeeds later included, is closed in the end.
ClosedPoolReleases ==
    []<>(pool.closed => \A c \in PhysConns : phys[c].sess # "open" /\ phys[c].manage # "dialing")
=============================================================================
