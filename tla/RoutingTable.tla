---------------------------- MODULE RoutingTable ----------------------------
(***************************************************************************)
(* The Kademlia routing table: buckets that cover ranges of the distance   *)
(* to the local node, split when they fill up, each with a replacement     *)
(* cache, and a maintenance pass that probes the head of each bucket.      *)
(* A node stands for its XOR distance.  Maintenance holds the table's read *)
(* lock while it probes: AddNode and Remove wait, Touch and SetNodeHealth  *)
(* do not.                                                                 *)
(***************************************************************************)
EXTENDS Integers, FiniteSets, Sequences, Functions

CONSTANTS
    Distances,           \* nodes that are met, by distance
    MaxDistance,         \* the largest distance, 2^256 - 1 in the code
    maxSize,             \* nodes in a bucket
    RemoveAfterFailures  \* failed probes before a node is dropped

ASSUME RtAssumption ==
    /\ MaxDistance \in Nat /\ Distances \subseteq 0..MaxDistance
    /\ maxSize \in Nat /\ maxSize >= 2
    /\ RemoveAfterFailures \in Nat \ {0}

VARIABLES
    buckets,     \* sequence of [sl, el, nodes, cache]
    health,      \* of every node in a bucket: stale (LastSuccess is old), fails
    maint,       \* the maintenance pass
    missed,      \* history: failures of a node, probed or reported, since it was last heard of
    members      \* history: nodes AddNode found room for, not removed or dropped since

rtVars == <<buckets, health, maint, missed, members>>

NoMaint == [pc |-> "idle", todo |-> <<>>, node |-> -1, same |-> FALSE, fails |-> 0, bucket |-> 0]
NewHealth == [stale |-> FALSE, fails |-> 0]

IndexOf(n) == CHOOSE i \in 1..Len(buckets) : buckets[i].sl <= n /\ n <= buckets[i].el
Listed(n) == \E i \in 1..Len(buckets) : n \in Range(buckets[i].nodes)

\* The place of a node is cut out of the slice.
CutOut(s, n) ==
    LET at == {i \in 1..Len(s) : s[i] = n}
        i == CHOOSE i \in at : \A j \in at : i <= j
    IN IF at = {} THEN s ELSE SubSeq(s, 1, i - 1) \o SubSeq(s, i + 1, Len(s))

ToTail(s, n) == Append(CutOut(s, n), n)

\* Push: a known candidate moves to the tail, a full cache drops the new one.
Push(cache, n) == IF n \in Range(cache) \/ Len(cache) < maxSize THEN ToTail(cache, n) ELSE cache

-----------------------------------------------------------------------------
(* StoreNode.                                                               *)

\* AddNode of the bucket.
BucketAdd(b, n) ==
    IF n \in Range(b.nodes) \/ Len(b.nodes) < maxSize
    THEN [b EXCEPT !.nodes = ToTail(@, n)] ELSE [b EXCEPT !.cache = Push(@, n)]

\* Remove of the bucket: the cache supplies a replacement.
BucketRemove(b, n) ==
    LET rest == CutOut(b.nodes, n) IN
    IF b.cache = <<>> THEN [b EXCEPT !.nodes = rest]
    ELSE [b EXCEPT !.nodes = Append(rest, Head(b.cache)), !.cache = Tail(@)]

NewBucket(sl, el, nodes) == [sl |-> sl, el |-> el, nodes |-> nodes, cache |-> <<>>]

\* The nodes of a bucket that are in S, in their order.
Among(s, S) ==
    LET taken[i \in 0..Len(s)] ==
          IF i = 0 THEN <<>> ELSE IF s[i] \in S THEN Append(taken[i - 1], s[i]) ELSE taken[i - 1]
    IN taken[Len(s)]

\* Mutant: the halves overlap at the middle.
HalvesOverlap(b) ==
    LET mid == (b.sl + b.el) \div 2 IN
    <<NewBucket(b.sl, mid, Among(b.nodes, {x \in Distances : x <= mid})),
      NewBucket(mid, b.el, Among(b.nodes, {x \in Distances : x >= mid}))>>

\* splitBucket: two buckets for the halves of the range, with the nodes and
\* with new, empty caches; neither is split again.
Halves(b) ==
    LET mid == (b.sl + b.el) \div 2 IN
    <<NewBucket(b.sl, mid, Among(b.nodes, {x \in Distances : x <= mid})),
      NewBucket(mid + 1, b.el, Among(b.nodes, {x \in Distances : x > mid}))>>

-----------------------------------------------------------------------------
(* DHTTableImpl, between the probes of a maintenance pass.                  *)

Unlocked == maint.pc \in {"idle", "next"}

Heard(n) ==
    /\ missed' = [missed EXCEPT ![n] = 0]
    /\ maint' = [maint EXCEPT !.same = @ /\ maint.node # n]

RtAdd(n) ==
    /\ Unlocked
    /\ LET i == IndexOf(n)
           b == BucketAdd(buckets[i], n)
       IN /\ buckets' = IF Len(b.nodes) >= maxSize
                        THEN SubSeq(buckets, 1, i - 1) \o Halves(b) \o SubSeq(buckets, i + 1, Len(buckets))
                        ELSE [buckets EXCEPT ![i] = b]
          /\ health' = [health EXCEPT ![n] = IF n \in Range(b.nodes) THEN NewHealth ELSE @]
          /\ members' = IF Len(buckets[i].nodes) < maxSize THEN members \cup {n} ELSE members
    /\ Heard(n)

RtRemove(n) ==
    /\ Unlocked /\ Listed(n)
    /\ LET i == IndexOf(n) IN
       /\ buckets' = [buckets EXCEPT ![i] = BucketRemove(@, n)]
       /\ health' = [m \in Distances |-> IF m = n \/ (buckets[i].cache # <<>> /\ m = Head(buckets[i].cache))
                                         THEN NewHealth ELSE health[m]]
    /\ members' = members \ {n} /\ missed' = [missed EXCEPT ![n] = 0]
    /\ UNCHANGED maint

\* Clear: a new first bucket; none of those a maintenance pass still has to
\* visit is in the table any more.
RtClear ==
    /\ Unlocked
    /\ buckets' = <<NewBucket(0, MaxDistance, <<>>)>>
    /\ health' = [n \in Distances |-> NewHealth]
    /\ maint' = [maint EXCEPT !.todo = <<>>]
    /\ members' = {} /\ missed' = [n \in Distances |-> 0]

\* Touch, at any time.
RtTouch(n) ==
    /\ Listed(n)
    /\ buckets' = [buckets EXCEPT ![IndexOf(n)].nodes = ToTail(@, n)]
    /\ health' = [health EXCEPT ![n] = NewHealth]
    /\ Heard(n)
    /\ UNCHANGED members

\* SetNodeHealth takes any failure count, and the LastSuccess it is given,
\* an old one or a recent one, unless that is zero and the one on record is
\* kept.  A report with a time of its own replaces what was known.  (A count
\* beyond RemoveAfterFailures - 1 acts as that one does, short of 255, which
\* wraps to 0 at the next missed probe.)
RtSetHealth(n, f, at) ==
    /\ Listed(n)
    /\ health' = [health EXCEPT ![n] = [stale |-> IF at = "kept" THEN @.stale ELSE at = "old", fails |-> f]]
    /\ missed' = [missed EXCEPT ![n] = IF at = "kept" /\ f < @ THEN @ ELSE f]
    /\ maint' = [maint EXCEPT !.same = @ /\ (at = "kept" \/ maint.node # n)]
    /\ UNCHANGED <<buckets, members>>

\* StaleAfter passes for a node.
RtAges(n) ==
    /\ Listed(n) /\ ~health[n].stale
    /\ health' = [health EXCEPT ![n].stale = TRUE]
    /\ UNCHANGED <<buckets, maint, missed, members>>

-----------------------------------------------------------------------------
(* Maintain.                                                                *)

\* The buckets of the moment, by their ranges.
MaintStarts ==
    /\ maint.pc = "idle"
    /\ maint' = [NoMaint EXCEPT !.pc = "next",
                   !.todo = [i \in 1..Len(buckets) |-> <<buckets[i].sl, buckets[i].el>>]]
    /\ UNCHANGED <<buckets, health, missed, members>>

\* A bucket that was split away, an empty one and one whose head was heard
\* of lately are passed over; otherwise the head is probed.
MaintNext ==
    /\ maint.pc = "next"
    /\ IF maint.todo = <<>> THEN maint' = NoMaint
       ELSE LET at == {i \in 1..Len(buckets) : <<buckets[i].sl, buckets[i].el>> = Head(maint.todo)
                           /\ buckets[i].nodes # <<>> /\ health[Head(buckets[i].nodes)].stale}
            IN IF at = {} THEN maint' = [maint EXCEPT !.todo = Tail(@)]
               ELSE LET i == CHOOSE i \in at : TRUE
                        n == Head(buckets[i].nodes)
                    IN maint' = [maint EXCEPT !.pc = "probe", !.todo = Tail(@), !.node = n, !.bucket = i,
                                              !.same = TRUE, !.fails = health[n].fails]
    /\ UNCHANGED <<buckets, health, missed, members>>

MaintBack == [NoMaint EXCEPT !.pc = "next", !.todo = maint.todo]

\* After the probe: LastSuccess is what it was before.
ProbeCounts == maint.same

ProbeAnswered ==
    /\ maint.pc = "probe"
    /\ IF ProbeCounts
       THEN /\ buckets' = [buckets EXCEPT ![maint.bucket].nodes = ToTail(@, maint.node)]
            /\ health' = [health EXCEPT ![maint.node] = NewHealth]
            /\ missed' = [missed EXCEPT ![maint.node] = 0]
       ELSE UNCHANGED <<buckets, health, missed>>
    /\ maint' = MaintBack
    /\ UNCHANGED members

\* The count taken before the probe is raised and put back; the last failure
\* drops the node, and the cache is searched for one that answers.
ProbeMissed ==
    /\ maint.pc = "probe"
    /\ IF ~ProbeCounts THEN maint' = MaintBack /\ UNCHANGED <<buckets, health, missed, members>>
       ELSE /\ missed' = [missed EXCEPT ![maint.node] = IF @ < RemoveAfterFailures THEN @ + 1 ELSE @]
            /\ IF maint.fails + 1 < RemoveAfterFailures
               THEN /\ health' = [health EXCEPT ![maint.node].fails = maint.fails + 1]
                    /\ maint' = MaintBack
                    /\ UNCHANGED <<buckets, members>>
               ELSE /\ health' = [health EXCEPT ![maint.node] = NewHealth]
                    /\ buckets' = [buckets EXCEPT ![maint.bucket].nodes = CutOut(@, maint.node)]
                    /\ members' = members \ {maint.node}
                    /\ maint' = [MaintBack EXCEPT !.pc = "replace", !.bucket = maint.bucket, !.node = maint.node]

\* Candidates are popped until one answers, the k of them before it do not.
\* A StoreNode of its own has them; in a table there are none, for a bucket
\* that takes one is full and is split at once, into buckets with new caches.
MaintReplaces ==
    /\ maint.pc = "replace"
    /\ LET b == buckets[maint.bucket] IN
       \E k \in 0..Len(b.cache) :
          LET rest == SubSeq(b.cache, k + 2, Len(b.cache)) IN
          IF k = Len(b.cache)
          THEN buckets' = [buckets EXCEPT ![maint.bucket].cache = <<>>] /\ UNCHANGED health
          ELSE IF Len(b.nodes) < maxSize
          THEN /\ buckets' = [buckets EXCEPT ![maint.bucket].nodes = Append(@, b.cache[k + 1]),
                                             ![maint.bucket].cache = rest]
               /\ health' = [health EXCEPT ![b.cache[k + 1]] = NewHealth]
          ELSE buckets' = [buckets EXCEPT ![maint.bucket].cache = Push(rest, b.cache[k + 1])] /\ UNCHANGED health
    /\ maint' = MaintBack /\ missed' = [missed EXCEPT ![maint.node] = 0]
    /\ UNCHANGED members

-----------------------------------------------------------------------------

RtInit ==
    /\ buckets = <<NewBucket(0, MaxDistance, <<>>)>>
    /\ health = [n \in Distances |-> NewHealth]
    /\ maint = NoMaint /\ missed = [n \in Distances |-> 0] /\ members = {}

RtNext ==
    \/ \E n \in Distances : RtAdd(n) \/ RtRemove(n) \/ RtTouch(n) \/ RtAges(n)
    \/ \E n \in Distances : \E f \in 0..(RemoveAfterFailures - 1) : \E at \in {"kept", "old", "now"} : RtSetHealth(n, f, at)
    \/ RtClear \/ MaintStarts \/ MaintNext \/ ProbeAnswered \/ ProbeMissed \/ MaintReplaces

RtSpec == RtInit /\ [][RtNext]_rtVars

\* The ranges of the buckets follow one another and cover the space, every
\* node is in the bucket of its distance, in no other and once, and no
\* bucket has more than maxSize nodes: splits, removals, replacements and
\* the maintenance of a bucket never disagree (splitBucket, Maintain).
TableSound ==
    /\ buckets[1].sl = 0 /\ buckets[Len(buckets)].el = MaxDistance
    /\ \A i \in 1..Len(buckets) :
          LET b == buckets[i] IN
          /\ b.sl <= b.el /\ Len(b.nodes) <= maxSize /\ Len(b.cache) <= maxSize
          /\ IsInjective(b.nodes \o b.cache)
          /\ Range(b.nodes) \cup Range(b.cache) \subseteq b.sl..b.el
          /\ i > 1 => b.sl = buckets[i - 1].el + 1

\* Maintenance drops a node only after RemoveAfterFailures failures, missed
\* probes or failures reported through SetNodeHealth, with nothing heard of
\* it in between: a Touch during the probe saves it (Maintain).
DroppedWasSilent == maint.pc = "replace" => missed[maint.node] >= RemoveAfterFailures

\* The table holds exactly the nodes AddNode found room for, less those that
\* were removed or dropped since: a split loses nobody of its bucket, and a
\* free place is filled by AddNode only, never by a candidate (splitBucket,
\* AddNode, Remove, Maintain).
HoldsItsMembers == {n \in Distances : Listed(n)} = members

\* The table holds whom it should, where it should, and nobody besides
\* (AddNode, splitBucket, Maintain).
RoutingTableSound == TableSound /\ DroppedWasSilent /\ HoldsItsMembers
=============================================================================
