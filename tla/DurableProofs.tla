--------------------------- MODULE DurableProofs ----------------------------
(***************************************************************************)
(* Proofs about what a relay keeps in files: the queue of vouchers         *)
(* (BillingQueue) for every set of vouchers, every limit, every fault set  *)
(* and every bound, and that what was denied stays denied over restarts    *)
(* (Revocation).  The argument about the queue is about logs alone (which  *)
(* frames may follow which) and is then carried through the actions.       *)
(***************************************************************************)
EXTENDS BillingQueue, Revocation, FiniteSetTheorems, TLAPS

-----------------------------------------------------------------------------
(* Facts about numbers, sets and sequences that the proofs use.              *)

LEMMA LessOrSame ==
    ASSUME NEW a \in Nat, NEW b \in Nat, a <= b, a # b
    PROVE  a < b
OBVIOUS

LEMMA Shifted ==
    ASSUME NEW a \in Nat, NEW b \in Nat
    PROVE  a + b \in Nat /\ a <= a + b /\ \A i \in 1..b : a + i \in 1..(a + b)
OBVIOUS

LEMMA ShiftedInto ==
    ASSUME NEW a \in Nat, NEW b \in Nat, NEW c \in Nat, a + b <= c
    PROVE  a + b <= c + 1 /\ \A i \in 1..b : a + i \in 1..c
OBVIOUS

LEMMA NatOrder == \A a \in Nat : 0 <= a /\ a <= a
OBVIOUS

LEMMA StillLess ==
    ASSUME NEW a \in Nat, NEW b \in Nat, a <= b
    PROVE  a <= b + 1
OBVIOUS

LEMMA PairFields ==
    ASSUME NEW p, NEW v
    PROVE  [pos |-> p, voucher |-> v].pos = p /\ [pos |-> p, voucher |-> v].voucher = v
OBVIOUS

LEMMA ClosingPc == \A n : [pc |-> "close", node |-> n].pc = "close"
OBVIOUS

LEMMA SequenceLength == \A s \in Seq(DenyNodes) : Len(s) \in Nat
OBVIOUS

LEMMA WithinRange ==
    ASSUME NEW a \in Nat, NEW b \in Nat, a > 0, a <= b
    PROVE  a \in 1..b
OBVIOUS

LEMMA NoLonger ==
    ASSUME NEW a \in Nat, NEW b \in Nat, NEW c \in Nat, a <= b, b <= c
    PROVE  a <= c
OBVIOUS

LEMMA LongerRange ==
    ASSUME NEW a \in Nat, NEW b \in Nat, a <= b
    PROVE  \A i \in 1..a : i \in 1..b
OBVIOUS

LEMMA OneMore ==
    ASSUME NEW S, NEW s \in Seq(S), NEW x \in S
    PROVE  /\ Append(s, x) \in Seq(S) /\ Len(Append(s, x)) = Len(s) + 1 /\ Len(s) \in Nat
           /\ \A i \in 1..Len(s) : Append(s, x)[i] = s[i]
OBVIOUS

\* Taking e out of S takes its position and voucher out.
Pairs(S) == {[pos |-> d.pos, voucher |-> d.voucher] : d \in S}
PairsWithout(S, e) == Pairs(S \ {e}) = Pairs(S) \ {[pos |-> e.pos, voucher |-> e.voucher]}

LEMMA OnePairLess ==
    ASSUME NEW S, NEW e \in S, \A d \in S : d.pos = e.pos => d = e
    PROVE  PairsWithout(S, e)
BY DEF Pairs, PairsWithout

-----------------------------------------------------------------------------
(* The queue of vouchers: the logs this program writes.                      *)

\* Frames have distinct positions.
DistinctPositions(F) == \A f, g \in F : f.pos = g.pos => f = g

\* No prefix of the log holds more live entries than the queue may.
Bounded(F) == \A p \in Nat : Cardinality(Live(Before(F, p))) <= MaxItems

\* A log as this program writes it.
WellFormed(F) == /\ F \subseteq Frame
                 /\ IsFiniteSet(F)
                 /\ DistinctPositions(F)
                 /\ StructureAccepted(F)
                 /\ Bounded(F)

-----------------------------------------------------------------------------
(* Lemmas about logs *)

\* Reading a prefix of a prefix is reading the shorter one.
LEMMA BeforeBefore ==
    ASSUME NEW F, F \subseteq Frame, NEW p \in Nat, NEW q \in Nat, q <= p
    PROVE  Before(Before(F, p), q) = Before(F, q)
BY DEF Before, Frame

\* Every prefix of a well-formed log is one: what a power loss leaves replays.
LEMMA PrefixWellFormed ==
    ASSUME NEW F, WellFormed(F), NEW p \in Nat
    PROVE  WellFormed(Before(F, p))
<1> DEFINE G == Before(F, p)
<1>1. G \subseteq F /\ G \subseteq Frame
  BY DEF WellFormed, Before
<1>2. IsFiniteSet(G)
  BY <1>1, FS_Subset DEF WellFormed
<1>3. DistinctPositions(G)
  BY <1>1 DEF WellFormed, DistinctPositions
<1>4. StructureAccepted(G)
  <2> SUFFICES ASSUME NEW f \in G PROVE FrameAccepted(G, f)
    BY DEF StructureAccepted
  <2>1. f \in F /\ f.pos \in Nat /\ f.pos <= p
    BY DEF WellFormed, Before, Frame
  <2>2. Before(G, f.pos) = Before(F, f.pos)
    BY <2>1, BeforeBefore DEF WellFormed
  <2>3. FrameAccepted(F, f)
    BY <2>1 DEF WellFormed, StructureAccepted
  <2> QED
    BY <1>1, <2>2, <2>3 DEF FrameAccepted
<1>5. Bounded(G)
  <2> SUFFICES ASSUME NEW q \in Nat PROVE Cardinality(Live(Before(G, q))) <= MaxItems
    BY DEF Bounded
  <2>1. CASE q <= p
    BY <2>1, BeforeBefore DEF WellFormed, Bounded
  <2>2. CASE ~(q <= p)
    <3>1. Before(G, q) = G
      BY <2>2, <1>1 DEF Before, Frame
    <3> QED
      BY <3>1 DEF WellFormed, Bounded
  <2> QED
    BY <2>1, <2>2
<1> QED
  BY <1>1, <1>2, <1>3, <1>4, <1>5 DEF WellFormed

\* Two live entries never hold the same voucher.
LEMMA LiveDistinct ==
    ASSUME NEW F, WellFormed(F), NEW d \in Live(F), NEW e \in Live(F), d.voucher = e.voucher
    PROVE  d = e
<1>1. d \in F /\ e \in F /\ d.pos \in Nat /\ e.pos \in Nat
  BY DEF Live, WellFormed, Frame
<1>2. ASSUME NEW a \in Live(F), NEW b \in Live(F), a.voucher = b.voucher, a.pos < b.pos
      PROVE  FALSE
  <2>1. a \in Live(Before(F, b.pos))
    BY <1>2 DEF Live, Before
  <2>2. FrameAccepted(F, b) /\ b.kind = "enqueue"
    BY DEF Live, WellFormed, StructureAccepted
  <2> QED
    BY <1>2, <2>1, <2>2 DEF FrameAccepted
<1>3. d.pos = e.pos
  BY <1>1, <1>2
<1> QED
  BY <1>1, <1>3 DEF WellFormed, DistinctPositions

\* Appending a frame replay accepts keeps the log well formed.
LEMMA AppendWellFormed ==
    ASSUME NEW F, WellFormed(F), F = Complete(F),
           NEW f \in Frame, \A g \in F : g.pos < f.pos,
           FrameAccepted(F \cup {f}, f),
           Cardinality(Live(F \cup {f})) <= MaxItems
    PROVE  WellFormed(F \cup {f})
<1> DEFINE G == F \cup {f}
<1>0. F \subseteq Frame /\ IsFiniteSet(F) /\ f.pos \in Nat /\ G \subseteq Frame
  BY DEF WellFormed, Frame
<1>1. IsFiniteSet(G)
  BY <1>0, FS_AddElement
<1>2. DistinctPositions(G)
  <2> SUFFICES ASSUME NEW a \in G, NEW b \in G, a.pos = b.pos PROVE a = b
    BY DEF DistinctPositions
  <2>1. a.pos \in Nat /\ b.pos \in Nat
    BY <1>0 DEF Frame
  <2> QED
    BY <1>0, <2>1 DEF WellFormed, DistinctPositions
<1>3. StructureAccepted(G)
  <2> SUFFICES ASSUME NEW g \in F PROVE FrameAccepted(G, g)
    BY DEF StructureAccepted
  <2>1. FrameAccepted(F, g) /\ g.kind # "torn" /\ g.pos \in Nat /\ g.pos <= f.pos
    BY <1>0 DEF WellFormed, StructureAccepted, Complete, Frame
  <2>2. Before(G, g.pos) = Before(F, g.pos)
    BY <1>0, <2>1 DEF Before
  <2> QED
    BY <2>1, <2>2 DEF FrameAccepted
<1>4. Bounded(G)
  <2> SUFFICES ASSUME NEW p \in Nat PROVE Cardinality(Live(Before(G, p))) <= MaxItems
    BY DEF Bounded
  <2>1. CASE p <= f.pos
    <3>1. Before(G, p) = Before(F, p)
      BY <1>0, <2>1 DEF Before
    <3> QED
      BY <3>1 DEF WellFormed, Bounded
  <2>2. CASE p > f.pos
    <3>1. \A g \in G : g.pos < p
      BY <1>0, <2>2 DEF Frame
    <3>2. Before(G, p) = G
      BY <3>1 DEF Before
    <3> QED
      BY <3>2
  <2> QED
    BY <1>0, <2>1, <2>2
<1> QED
  BY <1>0, <1>1, <1>2, <1>3, <1>4 DEF WellFormed

\* Live entries are finitely many and within MaxItems.
LEMMA LiveFinite ==
    ASSUME NEW F, WellFormed(F), NEW p \in Nat, \A g \in F : g.pos < p
    PROVE  /\ IsFiniteSet(Live(F))
           /\ Cardinality(Live(F)) \in Nat
           /\ Cardinality(Live(F)) <= MaxItems
<1>1. Live(F) \subseteq F
  BY DEF Live
<1>2. IsFiniteSet(Live(F)) /\ Cardinality(Live(F)) \in Nat
  BY <1>1, FS_Subset, FS_CardinalityType DEF WellFormed
<1>3. Before(F, p) = F
  BY DEF Before
<1> QED
  BY <1>2, <1>3 DEF WellFormed, Bounded

\* An enqueue frame for a voucher that is not live, while there is room.
LEMMA AppendEnqueue ==
    ASSUME NEW F, WellFormed(F), F = Complete(F), NEW p \in Nat, \A g \in F : g.pos < p,
           NEW v \in Vouchers, \A e \in Live(F) : e.voucher # v,
           Cardinality(Live(F)) < MaxItems
    PROVE  LET f == [pos |-> p, kind |-> "enqueue", voucher |-> v]
           IN  WellFormed(F \cup {f}) /\ Live(F \cup {f}) = Live(F) \cup {f}
<1> DEFINE f == [pos |-> p, kind |-> "enqueue", voucher |-> v]
<1>1. f \in Frame /\ F \subseteq Frame
  BY DEF Frame, Kinds, WellFormed
<1>2. Live(F \cup {f}) = Live(F) \cup {f}
  BY <1>1 DEF Live, Frame
<1>3. Before(F \cup {f}, f.pos) = F
  BY <1>1 DEF Before
<1>4. FrameAccepted(F \cup {f}, f)
  BY <1>3 DEF FrameAccepted
<1>5. IsFiniteSet(Live(F)) /\ Cardinality(Live(F)) \in Nat
  BY LiveFinite
<1>6. f \notin Live(F)
  BY DEF Live
<1>7. Cardinality(Live(F) \cup {f}) = Cardinality(Live(F)) + 1
  BY <1>5, <1>6, FS_AddElement, Zenon
<1>8. Cardinality(Live(F \cup {f})) <= MaxItems
  <2>1. MaxItems \in Nat
    BY ConstantsAssumption
  <2>2. Cardinality(Live(F) \cup {f}) <= MaxItems
    BY <2>1, <1>5, <1>7
  <2> QED
    BY <2>2, <1>2, Zenon
<1> QED
  BY <1>1, <1>2, <1>4, <1>8, AppendWellFormed, Zenon

\* Appending f to the log adds f to what is live.
Extends(F, f) == Live(F \cup {f}) = Live(F) \cup {f}

\* An enqueue frame of a voucher that is not live does so.
LEMMA AppendExtends ==
    ASSUME NEW F, WellFormed(F), F = Complete(F), NEW p \in Nat, \A g \in F : g.pos < p,
           NEW v \in Vouchers, \A e \in Live(F) : e.voucher # v,
           Cardinality(Live(F)) < MaxItems,
           NEW f, f = [pos |-> p, kind |-> "enqueue", voucher |-> v]
    PROVE  Extends(F, f)
BY AppendEnqueue DEF Extends

\* A remove frame for the head of a channel takes exactly that entry out.
LEMMA AppendRemove ==
    ASSUME NEW F, WellFormed(F), F = Complete(F), NEW p \in Nat, \A g \in F : g.pos < p,
           NEW e \in Live(F), IsChannelHead(e, Live(F))
    PROVE  LET f == [pos |-> p, kind |-> "remove", voucher |-> e.voucher]
           IN  WellFormed(F \cup {f}) /\ Live(F \cup {f}) = Live(F) \ {e}
<1> DEFINE f == [pos |-> p, kind |-> "remove", voucher |-> e.voucher]
<1>1. f \in Frame /\ F \subseteq Frame
  BY DEF Frame, Kinds, WellFormed, Live
<1>a. e \in F /\ e.pos \in Nat /\ e.pos < p /\ f.pos = p /\ f.kind = "remove" /\ f.voucher = e.voucher
  BY DEF Frame, WellFormed, Live
<1>2. \A d \in Live(F) : d.voucher = e.voucher => d = e
  BY LiveDistinct
<1>3. Live(F \cup {f}) = Live(F) \ {e}
  <2>1. ASSUME NEW d \in Live(F \cup {f}) PROVE d \in Live(F) \ {e}
    <3>1. d # f /\ d \in F
      BY <1>a, <2>1 DEF Live
    <3>2. d # e
      <4>1. f.pos < d.pos \/ d.voucher # e.voucher
        BY <1>a, <2>1, Zenon DEF Live
      <4> QED
        BY <4>1, <1>a
    <3>3. d \in Live(F)
      BY <3>1, <2>1 DEF Live
    <3> QED
      BY <3>2, <3>3
  <2>2. ASSUME NEW d \in Live(F) \ {e} PROVE d \in Live(F \cup {f})
    <3>1. d.voucher # e.voucher
      BY <1>2, <2>2
    <3> QED
      BY <3>1, <2>2 DEF Live
  <2> QED
    BY <2>1, <2>2
<1>4. Before(F \cup {f}, f.pos) = F
  BY <1>1, <1>a DEF Before
<1>5. FrameAccepted(F \cup {f}, f)
  BY <1>4, <1>a DEF FrameAccepted
<1>6. /\ IsFiniteSet(Live(F)) /\ Cardinality(Live(F)) \in Nat
      /\ Cardinality(Live(F)) <= MaxItems
  BY LiveFinite
<1>7. Cardinality(Live(F) \ {e}) = Cardinality(Live(F)) - 1
  BY <1>6, FS_RemoveElement
<1>8. Cardinality(Live(F \cup {f})) <= MaxItems
  <2>1. MaxItems \in Nat
    BY ConstantsAssumption
  <2>2. Cardinality(Live(F) \ {e}) <= MaxItems
    BY <2>1, <1>6, <1>7
  <2> QED
    BY <2>2, <1>3, Zenon
<1> QED
  BY <1>1, <1>3, <1>5, <1>8, AppendWellFormed, Zenon

\* A torn frame at the end is read over: same live entries, still well formed.
LEMMA AppendTorn ==
    ASSUME NEW F, WellFormed(F), F = Complete(F), NEW f \in Frame, f.kind = "torn",
           \A g \in F : g.pos < f.pos
    PROVE  WellFormed(F \cup {f}) /\ Live(F \cup {f}) = Live(F)
<1>1. Live(F \cup {f}) = Live(F)
  BY DEF Live
<1>2. f.pos \in Nat
  BY DEF Frame
<1>3. Cardinality(Live(F)) <= MaxItems
  BY <1>2, LiveFinite
<1>4. FrameAccepted(F \cup {f}, f)
  BY <1>2 DEF FrameAccepted, WellFormed, Frame
<1> QED
  BY <1>1, <1>3, <1>4, AppendWellFormed

\* The tail a power loss leaves from any frame on.
LEMMA TornTail ==
    ASSUME NEW F, WellFormed(F), NEW f \in F, NEW t, t = [f EXCEPT !.kind = "torn"]
    PROVE  /\ WellFormed(Before(F, f.pos) \cup {t})
           /\ Live(Before(F, f.pos) \cup {t}) = Live(Before(F, f.pos))
<1> DEFINE G == Before(F, f.pos)
<1>1. f \in Frame /\ f.pos \in Nat /\ F \subseteq Frame
  BY DEF WellFormed, Frame
<1>2. WellFormed(G)
  BY <1>1, PrefixWellFormed
<1>3. G = Complete(G)
  <2> SUFFICES ASSUME NEW g \in G PROVE g.kind # "torn"
    BY DEF Complete
  <2>1. g \in F /\ g.pos < f.pos /\ FrameAccepted(F, g) /\ g.pos \in Nat
    BY DEF Before, WellFormed, StructureAccepted, Frame
  <2> QED
    BY <1>1, <2>1 DEF FrameAccepted
<1>4. t \in Frame /\ t.kind = "torn" /\ t.pos = f.pos
  BY <1>1 DEF Frame, Kinds
<1>5. \A g \in G : g.pos < t.pos
  BY <1>4 DEF Before
<1> QED
  BY <1>2, <1>3, <1>4, <1>5, AppendTorn, Zenon

\* Cutting the torn tail off changes nothing replay reads.
LEMMA CompleteWellFormed ==
    ASSUME NEW F, WellFormed(F)
    PROVE  /\ WellFormed(Complete(F))
           /\ Live(Complete(F)) = Live(F)
           /\ Complete(Complete(F)) = Complete(F)
           /\ \A t \in F : t.kind = "torn" => Complete(F) = Before(F, t.pos)
<1>1. Live(Complete(F)) = Live(F) /\ Complete(Complete(F)) = Complete(F)
  BY DEF Live, Complete
<1>2. ASSUME NEW t \in F, t.kind = "torn"
      PROVE  Complete(F) = Before(F, t.pos)
  <2>1. \A g \in F : g.pos <= t.pos /\ g.pos \in Nat
    BY <1>2 DEF WellFormed, StructureAccepted, FrameAccepted, Frame
  <2>2. \A g \in F : g.pos = t.pos => g = t
    BY DEF WellFormed, DistinctPositions
  <2>3. \A g \in F : g.kind = "torn" => t.pos <= g.pos
    BY DEF WellFormed, StructureAccepted, FrameAccepted
  <2> QED
    BY <1>2, <2>1, <2>2, <2>3 DEF Complete, Before
<1>3. WellFormed(Complete(F))
  <2>1. CASE \E t \in F : t.kind = "torn"
    <3>1. PICK t \in F : t.kind = "torn"
      BY <2>1
    <3>2. t.pos \in Nat
      BY DEF WellFormed, Frame
    <3> QED
      BY <1>2, <3>1, <3>2, PrefixWellFormed
  <2>2. CASE \A t \in F : t.kind # "torn"
    <3>1. Complete(F) = F
      BY <2>2 DEF Complete
    <3> QED
      BY <3>1
  <2> QED
    BY <2>1, <2>2
<1> QED
  BY <1>1, <1>2, <1>3

\* A log of enqueue frames for distinct vouchers, as compaction writes it.
LEMMA EnqueuesWellFormed ==
    ASSUME NEW S, S \subseteq [pos : Nat, kind : {"enqueue"}, voucher : Vouchers],
           IsFiniteSet(S), Cardinality(S) <= MaxItems,
           \A d, e \in S : (d.voucher = e.voucher \/ d.pos = e.pos) => d = e
    PROVE  WellFormed(S) /\ Live(S) = S /\ Complete(S) = S
<1>1. S \subseteq Frame /\ DistinctPositions(S)
  BY DEF Frame, Kinds, DistinctPositions
<1>2. \A T \in SUBSET S : Live(T) = T /\ Complete(T) = T
  BY DEF Live, Complete
<1>3. MaxItems \in Nat
  BY ConstantsAssumption
<1>4. \A T \in SUBSET S : Cardinality(T) \in Nat /\ Cardinality(T) <= MaxItems
  <2> SUFFICES ASSUME NEW T \in SUBSET S
               PROVE  Cardinality(T) \in Nat /\ Cardinality(T) <= MaxItems
    OBVIOUS
  <2>1. IsFiniteSet(T) /\ Cardinality(T) <= Cardinality(S)
    BY FS_Subset
  <2>2. Cardinality(T) \in Nat /\ Cardinality(S) \in Nat
    BY <2>1, FS_CardinalityType
  <2> QED
    BY <1>3, <2>1, <2>2
<1>5. Bounded(S)
  <2> SUFFICES ASSUME NEW p \in Nat PROVE Cardinality(Live(Before(S, p))) <= MaxItems
    BY DEF Bounded
  <2>1. Before(S, p) \in SUBSET S
    BY DEF Before
  <2> QED
    BY <1>2, <1>4, <2>1
<1>6. StructureAccepted(S)
  <2> SUFFICES ASSUME NEW f \in S PROVE FrameAccepted(S, f)
    BY DEF StructureAccepted
  <2> DEFINE T == Before(S, f.pos)
  <2>1. f.pos \in Nat /\ f.kind = "enqueue"
    OBVIOUS
  <2>2. T \in SUBSET S /\ f \notin T
    BY <2>1 DEF Before
  <2>3. Live(T) = T
    BY <1>2, <2>2
  <2>4. \A e \in T : e.voucher # f.voucher
    BY <2>2
  <2>5. Cardinality(T) < MaxItems
    <3>1. IsFiniteSet(T)
      BY <2>2, FS_Subset
    <3>2. Cardinality(T \cup {f}) = Cardinality(T) + 1
      BY <3>1, <2>2, FS_AddElement, Zenon
    <3>3. T \cup {f} \in SUBSET S
      BY <2>2
    <3>4. Cardinality(T) \in Nat /\ Cardinality(T \cup {f}) <= MaxItems
      BY <1>4, <2>2, <3>3
    <3> QED
      BY <1>3, <3>2, <3>4
  <2> QED
    BY <2>1, <2>3, <2>4, <2>5 DEF FrameAccepted
<1> QED
  BY <1>1, <1>2, <1>5, <1>6 DEF WellFormed

\* What compaction keeps, any part of the live entries, is a log of its own.
LEMMA LivePartWellFormed ==
    ASSUME NEW F, WellFormed(F), NEW p \in Nat, \A g \in F : g.pos < p,
           NEW S \in SUBSET Live(F)
    PROVE  WellFormed(S) /\ Live(S) = S /\ Complete(S) = S
<1>1. S \subseteq F /\ F \subseteq Frame
  BY DEF Live, WellFormed
<1>2. S \subseteq [pos : Nat, kind : {"enqueue"}, voucher : Vouchers]
  BY <1>1 DEF Live, Frame
<1>3. /\ IsFiniteSet(Live(F)) /\ Cardinality(Live(F)) \in Nat
      /\ Cardinality(Live(F)) <= MaxItems
  BY LiveFinite
<1>4. IsFiniteSet(S) /\ Cardinality(S) <= Cardinality(Live(F))
  BY <1>3, FS_Subset
<1>5. Cardinality(S) <= MaxItems
  <2>1. Cardinality(S) \in Nat /\ MaxItems \in Nat
    BY <1>4, FS_CardinalityType, ConstantsAssumption
  <2> QED
    BY <1>3, <1>4, <2>1
<1>6. \A d, e \in S : (d.voucher = e.voucher \/ d.pos = e.pos) => d = e
  BY <1>1, LiveDistinct DEF WellFormed, DistinctPositions
<1> QED
  BY <1>2, <1>4, <1>5, <1>6, EnqueuesWellFormed

-----------------------------------------------------------------------------
(* The inductive invariant *)

\* What Open may find at the path.
OnDisk(fmt, F) ==
    \/ fmt = "absent" /\ F = {}
    \/ fmt = "legacy" /\ F = LegacyFile
    \/ fmt = "wal" /\ WellFormed(F)

IInv ==
    /\ TypeOK
    /\ OnDisk(format, file)
    /\ \A f \in file : f.pos < nextPos
    /\ \A s \in shadow : OnDisk(s.format, s.file) /\ \A f \in s.file : f.pos < nextPos
    /\ nextPos > 0
    /\ synced <= nextPos
    /\ format # "wal" => synced = nextPos
    /\ handle = "open" => format = "wal" /\ items = Live(file) /\ file = Complete(file)

\* An empty log is well formed.
LEMMA EmptyWellFormed == WellFormed({}) /\ Live({}) = {} /\ Complete({}) = {}
<1>1. IsFiniteSet({}) /\ Cardinality({}) = 0
  BY FS_EmptySet
<1>2. MaxItems \in Nat
  BY ConstantsAssumption
<1>3. {} \subseteq [pos : Nat, kind : {"enqueue"}, voucher : Vouchers]
  OBVIOUS
<1> QED
  BY <1>1, <1>2, <1>3, EnqueuesWellFormed

\* A V2 file holds enqueue frames only.
LEMMA LegacyTyped == LegacyFile \subseteq Frame /\ \A f \in LegacyFile : f.kind # "torn"
BY LegacyAssumption DEF Frame, Kinds

\* The invariant holds before the first Open, over an absent or a V2 file.
LEMMA InitIInv == Init => IInv
<1> SUFFICES ASSUME Init PROVE IInv
  OBVIOUS
<1>1. MaxItems \in Nat
  BY ConstantsAssumption
<1>2. file \subseteq Frame /\ OnDisk(format, file)
  BY LegacyTyped DEF Init, OnDisk
<1>3. \A f \in file : f.pos < nextPos /\ f.kind # "torn"
  BY <1>1, LegacyAssumption DEF Init
<1> QED
  BY <1>1, <1>2, <1>3 DEF Init, IInv, TypeOK

\* The three results an append can have, on a log in service.
LEMMA EnqueueStep ==
    ASSUME IInv, NEW v \in Vouchers, NEW o \in AppendOutcomes, Enqueue(v, o)
    PROVE  IInv'
<1> DEFINE f == NewFrame("enqueue", v)
<1>1. /\ format = "wal" /\ WellFormed(file) /\ items = Live(file) /\ file = Complete(file)
      /\ file \subseteq Frame /\ nextPos \in Nat /\ synced \in Nat /\ synced <= nextPos
      /\ \A g \in file : g.pos < nextPos
  BY DEF IInv, Enqueue, OnDisk, TypeOK
<1>2. /\ f = [pos |-> nextPos, kind |-> "enqueue", voucher |-> v]
      /\ f \in Frame
  BY <1>1 DEF NewFrame, Frame, Kinds
<1>3. WellFormed(file \cup {f}) /\ Live(file \cup {f}) = items \cup {f}
  <2>1. Cardinality(Live(file)) < MaxItems /\ \A e \in Live(file) : e.voucher # v
    BY <1>1 DEF Enqueue, HasRoom
  <2> QED
    BY <1>1, <1>2, <2>1, AppendEnqueue
<1> DEFINE t == [f EXCEPT !.kind = "torn"]
<1>4. t \in Frame /\ t.kind = "torn" /\ t.pos = nextPos
  BY <1>2 DEF Frame, Kinds
<1>5. WellFormed(file \cup {t})
  BY <1>1, <1>4, AppendTorn, Zenon
<1>6. /\ nextPos' = nextPos + 1 /\ format' = "wal" /\ shadow' = shadow
      /\ file' = Appended(f, o) /\ synced' = SyncedAfter(f, o)
      /\ handle' = HandleAfter(o # "ok")
  BY <1>1 DEF Enqueue
<1>7. items' \subseteq [pos : Nat, kind : {"enqueue"}, voucher : Vouchers]
  BY <1>1, <1>2 DEF Enqueue, memory, IInv, TypeOK
<1>8. \A s \in shadow' : OnDisk(s.format, s.file) /\ \A g \in s.file : g.pos < nextPos'
  <2> SUFFICES ASSUME NEW s \in shadow, NEW g \in s.file PROVE g.pos < nextPos + 1
    BY <1>6 DEF IInv
  <2>1. g.pos \in Nat /\ g.pos < nextPos
    BY DEF IInv, TypeOK, Frame
  <2> QED
    BY <1>1, <2>1
<1>9. \A g \in file : g.pos \in Nat /\ g.kind # "torn"
  BY <1>1, Zenon DEF Frame, Complete
<1>10. CASE Installed(o)
  <2>1. file' = file \cup {f} /\ items' = items \cup {f}
    BY <1>6, <1>10 DEF Appended, Enqueue
  <2>2. synced' \in Nat /\ synced' <= nextPos'
    BY <1>1, <1>2, <1>6 DEF SyncedAfter
  <2>3. \A g \in file' : g.pos < nextPos' /\ g.kind # "torn"
    <3>1. f.pos < nextPos' /\ f.kind # "torn"
      BY <1>1, <1>2, <1>6
    <3>2. \A g \in file : g.pos < nextPos' /\ g.kind # "torn"
      BY <1>1, <1>6, <1>9
    <3> QED
      BY <2>1, <3>1, <3>2
  <2>4. file' = Complete(file')
    BY <2>3 DEF Complete
  <2>5. file' \subseteq Frame /\ OnDisk(format', file')
    BY <1>1, <1>2, <1>3, <1>6, <2>1, Zenon DEF OnDisk
  <2>6. handle' \in {"open", "poisoned"} /\ nextPos' \in Nat
    BY <1>1, <1>6 DEF HandleAfter
  <2> QED
    BY <1>3, <1>6, <1>7, <1>8, <2>1, <2>2, <2>3, <2>4, <2>5, <2>6 DEF IInv, TypeOK
<1>11. CASE ~Installed(o)
  <2>1. file' = file \/ file' = file \cup {t}
    BY <1>6, <1>11 DEF Appended
  <2>2. synced' = synced /\ handle' = "poisoned" /\ nextPos' \in Nat
    BY <1>1, <1>6, <1>11 DEF SyncedAfter, Installed, HandleAfter
  <2>3. \A g \in file' : g.pos < nextPos'
    <3> SUFFICES ASSUME NEW g \in file'
                 PROVE  g.pos < nextPos'
      OBVIOUS
    <3>1. CASE g \in file
      BY <1>1, <1>6, <1>9, <3>1
    <3>2. CASE g = t
      BY <1>1, <1>4, <1>6, <3>2
    <3> QED
      BY <2>1, <3>1, <3>2
  <2>4. file' \subseteq Frame /\ OnDisk(format', file')
    BY <1>1, <1>4, <1>5, <1>6, <2>1 DEF OnDisk
  <2> QED
    BY <1>1, <1>6, <1>7, <1>8, <2>2, <2>3, <2>4 DEF IInv, TypeOK
<1> QED
  BY <1>10, <1>11

\* Removal of the head of a channel, compaction and its failures included.
LEMMA RemoveStep ==
    ASSUME IInv, NEW e \in items, NEW o \in AppendOutcomes, NEW r \in RewriteOutcomes,
           handle = "open", IsChannelHead(e, items), RemoveEntry(e, o, r)
    PROVE  IInv'
<1> DEFINE f == NewFrame("remove", e.voucher)
           t == [f EXCEPT !.kind = "torn"]
           keep == items \ {e}
<1>1. /\ format = "wal" /\ WellFormed(file) /\ items = Live(file) /\ file = Complete(file)
      /\ file \subseteq Frame /\ nextPos \in Nat /\ synced \in Nat /\ synced <= nextPos
      /\ \A g \in file : g.pos < nextPos
      /\ items \subseteq [pos : Nat, kind : {"enqueue"}, voucher : Vouchers]
  BY DEF IInv, OnDisk, TypeOK
<1>2. /\ f = [pos |-> nextPos, kind |-> "remove", voucher |-> e.voucher]
      /\ f \in Frame
  BY <1>1, Zenon DEF NewFrame, Frame, Kinds
<1>3. WellFormed(file \cup {f}) /\ Live(file \cup {f}) = keep
  <2>1. e \in Live(file) /\ IsChannelHead(e, Live(file))
    BY <1>1, Zenon
  <2>2. LET g == [pos |-> nextPos, kind |-> "remove", voucher |-> e.voucher]
        IN  WellFormed(file \cup {g}) /\ Live(file \cup {g}) = Live(file) \ {e}
    BY <1>1, <2>1, AppendRemove, Zenon
  <2> QED
    BY <1>1, <2>2, Zenon DEF NewFrame
<1>4. t \in Frame /\ t.kind = "torn" /\ t.pos = nextPos
  BY <1>2 DEF Frame, Kinds
<1>5. WellFormed(file \cup {t})
  BY <1>1, <1>4, AppendTorn, Zenon
<1>6. WellFormed(keep) /\ Live(keep) = keep /\ Complete(keep) = keep
  BY <1>1, LivePartWellFormed
<1>7. nextPos' = nextPos + 1 /\ nextPos' \in Nat /\ nextPos' > 0
  <2>1. nextPos' = nextPos + 1 /\ nextPos \in Nat
    BY <1>1, Zenon DEF RemoveEntry
  <2> QED
    BY <2>1
<1>8. items' \in {items, keep}
  BY DEF RemoveEntry, memory
<1>9. \A g \in file : g.pos \in Nat /\ g.kind # "torn" /\ g.pos < nextPos'
  <2> SUFFICES ASSUME NEW g \in file
               PROVE  g.pos \in Nat /\ g.kind # "torn" /\ g.pos < nextPos'
    OBVIOUS
  <2>1. g.pos \in Nat /\ g.kind # "torn" /\ g.pos < nextPos
    BY <1>1, Zenon DEF Frame, Complete
  <2>2. nextPos \in Nat /\ nextPos' = nextPos + 1
    BY <1>1, <1>7, Zenon
  <2> QED
    BY <2>1, <2>2
<1>10. \A g \in file \cup {f} : g.pos \in Nat /\ g.pos < nextPos' /\ g.kind # "torn"
  BY <1>1, <1>2, <1>7, <1>9
<1>11. file \cup {f} = Complete(file \cup {f})
  BY <1>10 DEF Complete
<1>12. keep \subseteq file
  BY <1>1 DEF Live
<1>13. \A s \in shadow : OnDisk(s.format, s.file) /\ \A g \in s.file : g.pos < nextPos'
  <2> SUFFICES ASSUME NEW s \in shadow, NEW g \in s.file PROVE g.pos < nextPos + 1
    BY <1>7 DEF IInv
  <2>1. g.pos \in Nat /\ g.pos < nextPos
    BY DEF IInv, TypeOK, Frame
  <2> QED
    BY <1>1, <2>1
<1> DEFINE logged == logBytes + FrameBytes(f)
           garbage == garbageBytes + FrameBytes(e) + FrameBytes(f)
           compact == o = "ok" /\ NeedsCompaction(garbage, logged)
<1>14. CASE compact
  <2>1. Rewrite(file \cup {f}, keep, r) /\ items' = keep
    BY <1>14, Zenon DEF RemoveEntry, Installed
  <2>2. synced' = nextPos' /\ handle' \in {"open", "poisoned"}
    BY <2>1 DEF Rewrite, RemoveEntry, HandleAfter
  <2>3. CASE r = "notInstalled"
    <3>1. file' = file \cup {f} /\ format' = "wal" /\ shadow' = shadow
      BY <1>1, <2>1, <2>3, Zenon DEF Rewrite
    <3>2. file' \subseteq Frame /\ OnDisk(format', file')
      BY <1>1, <1>2, <1>3, <3>1, Zenon DEF OnDisk
    <3>3. \A g \in file' : g.pos < nextPos' /\ g.kind # "torn"
      BY <1>10, <3>1
    <3>4. items' = Live(file') /\ file' = Complete(file')
      BY <1>3, <1>11, <2>1, <3>1, Zenon
    <3>5. TypeOK'
      BY <1>1, <1>7, <2>1, <2>2, <3>1, <3>2 DEF IInv, TypeOK
    <3>6. synced' <= nextPos'
      BY <1>7, <2>2
    <3> QED
      BY <1>7, <1>13, <3>1, <3>2, <3>3, <3>4, <3>5, <3>6, Zenon DEF IInv
  <2>4. CASE r # "notInstalled"
    <3>1. /\ file' = keep /\ format' = "wal"
          /\ \A s \in shadow' : s \in shadow \/ s = [format |-> "wal", file |-> file \cup {f}]
      BY <1>1, <2>1, <2>4, Zenon DEF Rewrite
    <3>2. \A s \in shadow' : /\ s \in [format : {"absent", "legacy", "wal"}, file : SUBSET Frame]
                             /\ OnDisk(s.format, s.file)
                             /\ \A g \in s.file : g.pos < nextPos'
      <4> SUFFICES ASSUME NEW s \in shadow'
                   PROVE  /\ s \in [format : {"absent", "legacy", "wal"}, file : SUBSET Frame]
                          /\ OnDisk(s.format, s.file)
                          /\ \A g \in s.file : g.pos < nextPos'
        OBVIOUS
      <4>1. CASE s \in shadow
        BY <1>13, <4>1, Zenon DEF IInv, TypeOK
      <4>2. CASE s = [format |-> "wal", file |-> file \cup {f}]
        BY <1>1, <1>2, <1>3, <1>10, <4>2 DEF OnDisk
      <4> QED
        BY <3>1, <4>1, <4>2, Zenon
    <3>3. keep \subseteq Frame /\ \A g \in keep : g.pos < nextPos' /\ g.kind # "torn"
      BY <1>1, <1>9, <1>12
    <3>4. OnDisk(format', file') /\ items' = Live(file') /\ file' = Complete(file')
      BY <1>6, <2>1, <3>1, Zenon DEF OnDisk
    <3>5. TypeOK'
      BY <1>1, <1>7, <2>1, <2>2, <3>1, <3>2, <3>3 DEF TypeOK
    <3>6. synced' <= nextPos'
      BY <1>7, <2>2
    <3> QED
      BY <1>7, <3>1, <3>2, <3>3, <3>4, <3>5, <3>6, Zenon DEF IInv
  <2> QED
    BY <2>3, <2>4, Zenon
<1>15. CASE ~compact
  <2>1. /\ file' = Appended(f, o) /\ synced' = SyncedAfter(f, o)
        /\ format' = "wal" /\ shadow' = shadow
    BY <1>1, <1>15, Zenon DEF RemoveEntry
  <2>2. handle' \in {"open", "poisoned"} /\ (handle' = "open" => o = "ok")
    BY DEF RemoveEntry, HandleAfter
  <2>3. synced' \in Nat /\ synced' <= nextPos'
    <3>1. f.pos = nextPos
      BY <1>2
    <3>2. synced' \in {nextPos + 1, synced}
      BY <2>1, <3>1, Zenon DEF SyncedAfter
    <3> QED
      BY <1>1, <1>7, <3>2
  <2>4. CASE Installed(o)
    <3>1. file' = file \cup {f} /\ items' = keep
      BY <2>1, <2>4 DEF Appended, RemoveEntry
    <3>2. file' \subseteq Frame /\ OnDisk(format', file')
      BY <1>1, <1>2, <1>3, <2>1, <3>1, Zenon DEF OnDisk
    <3>3. \A g \in file' : g.pos < nextPos'
      BY <1>10, <3>1
    <3>4. items' = Live(file') /\ file' = Complete(file')
      BY <1>3, <1>11, <3>1
    <3>5. TypeOK'
      BY <1>1, <1>7, <2>1, <2>2, <2>3, <3>1, <3>2, Zenon DEF IInv, TypeOK
    <3> QED
      BY <1>7, <1>13, <2>1, <2>3, <3>2, <3>3, <3>4, <3>5 DEF IInv
  <2>5. CASE ~Installed(o)
    <3>1. file' = file \/ file' = file \cup {t}
      BY <2>1, <2>5 DEF Appended
    <3>2. synced' = synced /\ handle' = "poisoned"
      BY <2>1, <2>2, <2>5 DEF SyncedAfter, Installed
    <3>3. \A g \in file' : g.pos < nextPos'
      <4> SUFFICES ASSUME NEW g \in file'
                   PROVE  g.pos < nextPos'
        OBVIOUS
      <4>1. CASE g \in file
        BY <1>9, <4>1
      <4>2. CASE g = t
        BY <1>1, <1>4, <1>7, <4>2
      <4> QED
        BY <3>1, <4>1, <4>2
    <3>4. file' \subseteq Frame /\ OnDisk(format', file')
      BY <1>1, <1>4, <1>5, <2>1, <3>1, Zenon DEF OnDisk
    <3> QED
      BY <1>1, <1>7, <1>8, <1>13, <2>1, <2>3, <3>2, <3>3, <3>4 DEF IInv, TypeOK
  <2> QED
    BY <2>4, <2>5, Zenon
<1> QED
  BY <1>14, <1>15

\* Every step other than a queue mutation: Open in its three cases, Close,
\* the death of the process and a power loss.
LEMMA OpenAbsentStep ==
    ASSUME IInv, NEW r \in RewriteOutcomes, OpenAbsent(r)
    PROVE  IInv'
<1>1. Rewrite({}, {}, r) /\ nextPos' = nextPos /\ nextPos \in Nat /\ format = "absent"
  BY DEF OpenAbsent, IInv, TypeOK
<1>2. file' = {} /\ synced' = nextPos' /\ format' \in {"absent", "wal"}
  BY <1>1 DEF Rewrite
<1>3. \A s \in shadow' : s \in shadow \/ s = [format |-> "absent", file |-> {}]
  BY <1>1, Zenon DEF Rewrite
<1>4. shadow' \subseteq [format : {"absent", "legacy", "wal"}, file : SUBSET Frame]
  BY <1>3 DEF IInv, TypeOK
<1>5. \A s \in shadow' : OnDisk(s.format, s.file) /\ \A g \in s.file : g.pos < nextPos'
  BY <1>1, <1>3 DEF IInv, OnDisk
<1>6. OnDisk(format', file') /\ file' = Complete(file') /\ Live(file') = {}
  BY <1>2, EmptyWellFormed DEF OnDisk
<1>7. CASE r = "ok"
  <2>1. handle' = "open" /\ items' = {} /\ format' = "wal"
    BY <1>1, <1>7, Zenon DEF OpenAbsent, Install, Rewrite
  <2> QED
    BY <1>1, <1>2, <1>4, <1>5, <1>6, <2>1, Zenon DEF IInv, TypeOK
<1>8. CASE r # "ok"
  <2>1. handle' = handle /\ items' = items /\ handle # "open"
    BY <1>8 DEF OpenAbsent, memory
  <2> QED
    BY <1>1, <1>2, <1>4, <1>5, <1>6, <2>1 DEF IInv, TypeOK
<1> QED
  BY <1>7, <1>8

\* Migrating a V2 file preserves the invariant, whatever writeAtomic answers.
LEMMA OpenLegacyStep ==
    ASSUME IInv, NEW r \in RewriteOutcomes, OpenLegacy(r)
    PROVE  IInv'
<1>1. /\ Rewrite(file, file, r) /\ nextPos' = nextPos /\ nextPos \in Nat
      /\ format = "legacy" /\ file = LegacyFile /\ Cardinality(file) <= MaxItems
  BY Zenon DEF OpenLegacy, IInv, TypeOK, OnDisk
<1>2. file' = file /\ synced' = nextPos' /\ format' \in {"legacy", "wal"}
  BY <1>1 DEF Rewrite
<1>3. \A s \in shadow' : s \in shadow \/ s = [format |-> "legacy", file |-> file]
  BY <1>1, Zenon DEF Rewrite
<1>4. file \subseteq Frame /\ \A f \in file : f.kind # "torn" /\ f.pos < nextPos
  BY <1>1, LegacyTyped DEF IInv
<1>5. shadow' \subseteq [format : {"absent", "legacy", "wal"}, file : SUBSET Frame]
  BY <1>3, <1>4 DEF IInv, TypeOK
<1>6. \A s \in shadow' : OnDisk(s.format, s.file) /\ \A g \in s.file : g.pos < nextPos'
  BY <1>1, <1>3, <1>4 DEF IInv, OnDisk
<1>7. WellFormed(file) /\ Live(file) = file /\ Complete(file) = file
  <2>1. file \subseteq [pos : Nat, kind : {"enqueue"}, voucher : Vouchers]
    BY <1>1, LegacyAssumption, ConstantsAssumption
  <2> QED
    BY <1>1, <2>1, LegacyAssumption, EnqueuesWellFormed
<1>8. OnDisk(format', file')
  BY <1>1, <1>2, <1>7 DEF OnDisk
<1>9. /\ items' \subseteq [pos : Nat, kind : {"enqueue"}, voucher : Vouchers]
      /\ handle' \in {"none", "open", "poisoned", "closed"}
      /\ handle' = "open" => items' = file /\ format' = "wal"
  <2>1. CASE r = "ok" /\ PayersWithinLimits(UsageOf(file))
    <3>1. items' = file /\ handle' = "open"
      BY <2>1, Zenon DEF OpenLegacy, Install
    <3>2. format' = "wal"
      <4>1. "ok" # "notInstalled"
        OBVIOUS
      <4> QED
        BY <2>1, <4>1, Zenon DEF OpenLegacy, Rewrite
    <3>3. file \subseteq [pos : Nat, kind : {"enqueue"}, voucher : Vouchers]
      BY <1>1, LegacyAssumption, ConstantsAssumption
    <3> QED
      BY <3>1, <3>2, <3>3, Zenon
  <2>2. CASE ~(r = "ok" /\ PayersWithinLimits(UsageOf(file)))
    BY <2>2 DEF OpenLegacy, memory, IInv, TypeOK
  <2> QED
    BY <2>1, <2>2, Zenon
<1> QED
  BY <1>1, <1>2, <1>4, <1>5, <1>6, <1>7, <1>8, <1>9, Zenon DEF IInv, TypeOK

\* Replaying a log and cutting its torn tail off preserves the invariant.
LEMMA OpenWalStep ==
    ASSUME IInv, OpenWal
    PROVE  IInv'
<1>1. /\ WellFormed(file) /\ file \subseteq Frame /\ format' = "wal"
      /\ file' = Complete(file) /\ items' = Live(file) /\ handle' = "open"
      /\ UNCHANGED <<synced, shadow, nextPos>>
  BY DEF IInv, OnDisk, OpenWal, Install, TypeOK
<1>2. /\ WellFormed(file') /\ Live(file') = items' /\ Complete(file') = file'
  BY <1>1, CompleteWellFormed
<1>3. file' \subseteq file /\ \A f \in file' : f.kind # "torn"
  BY <1>1 DEF Complete
<1>4. items' \subseteq [pos : Nat, kind : {"enqueue"}, voucher : Vouchers]
  BY <1>1 DEF Live, Frame
<1> QED
  BY <1>1, <1>2, <1>3, <1>4, Zenon DEF IInv, TypeOK, OnDisk

\* A power loss leaves a log that still satisfies the invariant.
LEMMA PowerLossStep ==
    ASSUME IInv, PowerLoss
    PROVE  IInv'
<1>1. /\ nextPos' = nextPos /\ nextPos \in Nat /\ nextPos > 0 /\ synced' = nextPos
      /\ shadow' = {} /\ handle' = "none" /\ items' = {}
  BY Zenon DEF PowerLoss, Forget, IInv, TypeOK
<1>2. /\ format' \in {"absent", "legacy", "wal"} /\ file' \subseteq Frame
      /\ OnDisk(format', file') /\ \A g \in file' : g.pos < nextPos
  <2>1. CASE \E s \in shadow : file' = s.file /\ format' = s.format
    BY <2>1 DEF IInv, TypeOK
  <2>2. CASE file' = file /\ format' = format
    BY <2>2 DEF IInv, TypeOK
  <2>3. ASSUME NEW f \in file, f.pos >= synced, file' \in TailLost(file, f), format' = format
        PROVE  /\ format' \in {"absent", "legacy", "wal"} /\ file' \subseteq Frame
               /\ OnDisk(format', file') /\ \A g \in file' : g.pos < nextPos
    <3>1. f \in Frame /\ f.pos \in Nat /\ f.pos < nextPos /\ synced \in Nat
      BY DEF IInv, TypeOK, Frame
    <3>2. format = "wal" /\ WellFormed(file)
      <4>1. ~(synced = nextPos)
        BY <1>1, <2>3, <3>1
      <4> QED
        BY <4>1 DEF IInv, OnDisk, TypeOK
    <3> DEFINE t == [f EXCEPT !.kind = "torn"]
    <3>3. t \in Frame /\ t.pos = f.pos
      BY <3>1 DEF Frame, Kinds
    <3>4. WellFormed(Before(file, f.pos)) /\ WellFormed(Before(file, f.pos) \cup {t})
      BY <3>1, <3>2, PrefixWellFormed, TornTail, Zenon
    <3>5. WellFormed(file')
      BY <2>3, <3>4 DEF TailLost
    <3>6. \A g \in file' : g \in file \/ g = t
      BY <2>3 DEF TailLost, Before
    <3>7. \A g \in file' : g.pos < nextPos
      BY <3>1, <3>3, <3>6, Zenon DEF IInv
    <3> QED
      BY <2>3, <3>2, <3>5, <3>7 DEF OnDisk, WellFormed
  <2>4. \/ \E s \in shadow : file' = s.file /\ format' = s.format
        \/ file' = file /\ format' = format
        \/ \E f \in file : f.pos >= synced /\ file' \in TailLost(file, f) /\ format' = format
    BY DEF PowerLoss, LossResults
  <2> QED
    BY <2>1, <2>2, <2>3, <2>4
<1> QED
  BY <1>1, <1>2 DEF IInv, TypeOK

\* Every step of the queue preserves the invariant.
LEMMA NextIInv == IInv /\ [Next]_vars => IInv'
<1> SUFFICES ASSUME IInv, [Next]_vars PROVE IInv'
  OBVIOUS
<1>1. ASSUME NEW v \in Vouchers, NEW o \in AppendOutcomes, Enqueue(v, o) PROVE IInv'
  BY <1>1, EnqueueStep
<1>2. ASSUME NEW e \in items, NEW o \in AppendOutcomes, NEW r \in RewriteOutcomes,
             Remove(e, o, r) \/ RemoveChannelHead(e, o, r)
      PROVE  IInv'
  <2>1. handle = "open" /\ IsChannelHead(e, items) /\ RemoveEntry(e, o, r)
    BY <1>2 DEF Remove, RemoveChannelHead, IsChannelHead
  <2> QED
    BY <2>1, RemoveStep, Zenon
<1>3. ASSUME NEW r \in RewriteOutcomes, OpenAbsent(r) PROVE IInv'
  BY <1>3, OpenAbsentStep
<1>4. ASSUME NEW r \in RewriteOutcomes, OpenLegacy(r) PROVE IInv'
  BY <1>4, OpenLegacyStep
<1>5. CASE OpenWal
  BY <1>5, OpenWalStep, Zenon
<1>6. CASE Close
  BY <1>6 DEF Close, IInv, TypeOK, disk, memory
<1>7. CASE Crash
  BY <1>7 DEF Crash, Forget, IInv, TypeOK, disk
<1>8. CASE PowerLoss
  BY <1>8, PowerLossStep
<1>9. CASE UNCHANGED vars
  BY <1>9 DEF vars, disk, memory, IInv, TypeOK
<1> QED
  BY <1>1, <1>2, <1>3, <1>4, <1>5, <1>6, <1>7, <1>8, <1>9 DEF Next

\* The queue's state satisfies the inductive invariant from the first Open on.
THEOREM Inductive == Spec => []IInv
<1>1. IInv /\ [Next]_vars => IInv'
  BY NextIInv
<1> QED
  BY InitIInv, <1>1, PTL DEF Spec

\* Every variable keeps its type; items holds enqueue frames only.
THEOREM TypeCorrect == Spec => []TypeOK
<1>1. IInv => TypeOK
  BY Zenon DEF IInv
<1> QED
  BY Inductive, <1>1, PTL

\* While the queue serves, items is what replayWAL would read from the file,
\* and the file ends with a whole frame.
THEOREM MemoryCorrect == Spec => []MemoryMirrorsFile
<1>1. IInv => MemoryMirrorsFile
  BY DEF IInv, MemoryMirrorsFile
<1> QED
  BY Inductive, <1>1, PTL

\* Whatever a power loss leaves of the log, every frame Open meets is in its
\* place: no ErrCorrupt from the structure of the queue's own file.
THEOREM SurvivorsReplay == Spec => [](\A F \in Survivors : StructureAccepted(F))
<1>1. ASSUME IInv PROVE \A F \in Survivors : StructureAccepted(F)
  <2> SUFFICES ASSUME NEW F \in Survivors PROVE WellFormed(F)
    BY Zenon DEF WellFormed
  <2>1. CASE \E s \in shadow : F = s.file /\ s.format = "wal"
    BY <1>1, <2>1 DEF IInv, OnDisk
  <2>2. CASE F \in LossResults(file, synced) /\ format = "wal"
    <3>1. WellFormed(file) /\ file \subseteq Frame
      BY <1>1, <2>2 DEF IInv, OnDisk, WellFormed
    <3>2. CASE F = file
      BY <3>1, <3>2
    <3>3. ASSUME NEW f \in file, F \in TailLost(file, f) PROVE WellFormed(F)
      <4>1. f.pos \in Nat
        BY <3>1 DEF Frame
      <4> DEFINE t == [f EXCEPT !.kind = "torn"]
      <4>2. WellFormed(Before(file, f.pos)) /\ WellFormed(Before(file, f.pos) \cup {t})
        BY <3>1, <4>1, PrefixWellFormed, TornTail, Zenon
      <4> QED
        BY <3>3, <4>2 DEF TailLost
    <3> QED
      BY <2>2, <3>2, <3>3, Zenon DEF LossResults
  <2> QED
    BY <2>1, <2>2 DEF Survivors
<1> QED
  BY Inductive, <1>1, PTL

-----------------------------------------------------------------------------
(* Refinement: when directory syncs do not fail, BillingQueue implements     *)
(* DurableQueue.  What is acknowledged is the items a reader of the disk     *)
(* recovers, and no fault of a write, a sync or a crash can be told apart    *)
(* from the promise.                                                         *)

\* Without a failed directory sync no older file can come back.
NoShadow == IInv /\ shadow = {}

\* Without a failed directory sync the path always names the last file written.
LEMMA NoShadowInductive ==
    ASSUME "dirSyncFailed" \notin Faults
    PROVE  Spec => []NoShadow
<1>1. Init => NoShadow
  BY InitIInv DEF Init, NoShadow
<1>2. ASSUME NoShadow, [Next]_vars PROVE NoShadow'
  <2>1. IInv'
    BY <1>2, NextIInv DEF NoShadow
  <2>2. \A r \in RewriteOutcomes : r # "dirSyncFailed"
    BY DEF RewriteOutcomes
  <2>3. shadow = {}
    BY <1>2 DEF NoShadow
  <2>4. shadow' = {}
    <3>1. ASSUME NEW F, NEW G, NEW r \in RewriteOutcomes, Rewrite(F, G, r) PROVE shadow' = {}
      BY <2>2, <2>3, <3>1, Zenon DEF Rewrite
    <3>2. ASSUME NEW v \in Vouchers, NEW o \in AppendOutcomes, Enqueue(v, o) PROVE shadow' = {}
      BY <2>3, <3>2, Zenon DEF Enqueue
    <3>3. ASSUME NEW e \in items, NEW o \in AppendOutcomes, NEW r \in RewriteOutcomes,
                 RemoveEntry(e, o, r)
          PROVE  shadow' = {}
      <4>1. \/ \E F, G : Rewrite(F, G, r)
            \/ shadow' = shadow
        BY <3>3, Zenon DEF RemoveEntry
      <4> QED
        BY <2>3, <3>1, <4>1, Zenon
    <3>4. ASSUME NEW r \in RewriteOutcomes, OpenAbsent(r) \/ OpenLegacy(r) PROVE shadow' = {}
      BY <3>1, <3>4, Zenon DEF OpenAbsent, OpenLegacy
    <3>5. CASE OpenWal \/ Close \/ Crash \/ PowerLoss \/ UNCHANGED vars
      BY <2>3, <3>5, Zenon DEF OpenWal, Close, Crash, PowerLoss, disk, vars
    <3> QED
      BY <1>2, <3>2, <3>3, <3>4, <3>5, Zenon DEF Next, Remove, RemoveChannelHead
  <2> QED
    BY <2>1, <2>4 DEF NoShadow
<1> QED
  BY <1>1, <1>2, PTL DEF Spec

\* The contents a power loss may leave, by the first frame it takes.
Truncations(F, p) == {Entries(Before(F, g.pos)) : g \in {h \in F : h.pos >= p}}
Possible(F, p) == {Entries(F)} \cup Truncations(F, p)

\* A torn frame shows no entry, so only the prefixes count.
LEMMA LossResultsEntries ==
    ASSUME NEW F, F \subseteq Frame, NEW p
    PROVE  {Entries(G) : G \in LossResults(F, p)} = Possible(F, p)
<1> DEFINE cut == {h \in F : h.pos >= p}
<1>1. ASSUME NEW f \in cut, NEW G \in TailLost(F, f) PROVE Entries(G) = Entries(Before(F, f.pos))
  <2> DEFINE t == [f EXCEPT !.kind = "torn"]
  <2>1. t.kind = "torn"
    BY DEF Frame
  <2> HIDE DEF t
  <2>2. Live(Before(F, f.pos) \cup {t}) = Live(Before(F, f.pos))
    BY <2>1 DEF Live
  <2>3. G = Before(F, f.pos) \/ G = Before(F, f.pos) \cup {t}
    BY <1>1 DEF TailLost, t
  <2> QED
    BY <2>2, <2>3, Zenon DEF Entries
<1>2. ASSUME NEW G \in LossResults(F, p) PROVE Entries(G) \in Possible(F, p)
  <2>1. G = F \/ \E f \in cut : G \in TailLost(F, f)
    BY <1>2 DEF LossResults
  <2> QED
    BY <1>1, <2>1 DEF Possible, Truncations
<1>3. ASSUME NEW E \in Possible(F, p) PROVE \E G \in LossResults(F, p) : E = Entries(G)
  <2>1. E = Entries(F) \/ \E f \in cut : E = Entries(Before(F, f.pos))
    BY <1>3 DEF Possible, Truncations
  <2>2. \A f \in cut : Before(F, f.pos) \in LossResults(F, p)
    BY DEF LossResults, TailLost
  <2>3. F \in LossResults(F, p)
    BY DEF LossResults
  <2> QED
    BY <2>1, <2>2, <2>3
<1> QED
  BY <1>2, <1>3, Zenon

\* Once every frame is synced, a power loss changes nothing.
LEMMA AllSynced ==
    ASSUME NEW F, F \subseteq Frame, NEW n \in Nat, \A g \in F : g.pos < n
    PROVE  Possible(F, n) = {Entries(F)}
<1>1. \A g \in F : ~(g.pos >= n)
  BY DEF Frame
<1> QED
  BY <1>1 DEF Possible, Truncations

\* A whole frame or a torn one at the end adds one place where the log may be cut.
LEMMA AppendUnsynced ==
    ASSUME NEW F, F \subseteq Frame, NEW n \in Nat, \A g \in F : g.pos < n,
           NEW p \in Nat, p <= n, NEW f \in Frame, f.pos = n
    PROVE  Possible(F \cup {f}, p) = Possible(F, p) \cup {Entries(F \cup {f})}
<1> DEFINE G == F \cup {f}
<1>1. \A g \in F : Before(G, g.pos) = Before(F, g.pos)
  BY DEF Before, Frame
<1>2. Before(G, f.pos) = F
  BY DEF Before
<1>3. f.pos >= p
  OBVIOUS
<1>4. Truncations(G, p) = Truncations(F, p) \cup {Entries(F)}
  BY <1>1, <1>2, <1>3, Zenon DEF Truncations
<1> QED
  BY <1>4 DEF Possible

\* Without a shadow, the outcomes of the refinement mapping are the possible ones.
LEMMA OutcomesPossible ==
    /\ NoShadow => Outcomes = Possible(file, synced)
    /\ NoShadow' => Outcomes' = Possible(file', synced')
<1>1. NoShadow => Outcomes = Possible(file, synced)
  BY LossResultsEntries DEF NoShadow, IInv, TypeOK, Outcomes
<1>2. NoShadow' => Outcomes' = Possible(file', synced')
  <2> SUFFICES ASSUME NoShadow' PROVE Outcomes' = Possible(file', synced')
    OBVIOUS
  <2>1. file' \subseteq Frame /\ shadow' = {}
    BY DEF NoShadow, IInv, TypeOK
  <2>2. Outcomes' = {Entries(G) : G \in LossResults(file', synced')}
    BY <2>1, Zenon DEF Outcomes
  <2> QED
    BY <2>1, <2>2, LossResultsEntries
<1> QED
  BY <1>1, <1>2

\* The effect of one append on what the queue shows and what may survive:
\* durable, in doubt with the queue out of service, or none.
LEMMA AppendRefines ==
    ASSUME NoShadow, NoShadow', NEW f \in Frame, f.pos = nextPos, NEW o \in AppendOutcomes,
           file' = Appended(f, o), synced' = SyncedAfter(f, o), nextPos' = nextPos + 1,
           handle' = "open" => o = "ok"
    PROVE  \/ Entries(file') = Entries(file \cup {f}) /\ Outcomes' = {Entries(file')}
           \/ /\ Entries(file') = Entries(file \cup {f})
              /\ Outcomes' = Outcomes \cup {Entries(file')}
              /\ handle' # "open"
           \/ Entries(file') = Entries(file) /\ Outcomes' = Outcomes
<1>1. /\ file \subseteq Frame /\ nextPos \in Nat /\ synced \in Nat /\ synced <= nextPos
      /\ \A g \in file : g.pos < nextPos
  BY Zenon DEF NoShadow, IInv, TypeOK
<1>2. /\ file' \subseteq Frame /\ nextPos' \in Nat /\ \A g \in file' : g.pos < nextPos'
  BY DEF NoShadow, IInv, TypeOK
<1>3. Outcomes = Possible(file, synced) /\ Outcomes' = Possible(file', synced')
  BY OutcomesPossible
<1>4. CASE o \in {"ok", "closeFailed"}
  <2>1. file' = file \cup {f} /\ synced' = nextPos'
    BY <1>4 DEF Appended, Installed, SyncedAfter
  <2>2. Possible(file', synced') = {Entries(file')}
    BY <1>2, <2>1, AllSynced
  <2> QED
    BY <1>3, <2>1, <2>2
<1>5. CASE o = "syncFailed"
  <2>1. file' = file \cup {f} /\ synced' = synced /\ handle' # "open"
    BY <1>5 DEF Appended, Installed, SyncedAfter
  <2>2. Possible(file \cup {f}, synced) = Possible(file, synced) \cup {Entries(file \cup {f})}
    BY <1>1, AppendUnsynced
  <2> QED
    BY <1>3, <2>1, <2>2, Zenon
<1>6. CASE o = "shortWrite"
  <2> DEFINE t == [f EXCEPT !.kind = "torn"]
  <2>1. file' = file \cup {t} /\ synced' = synced
    BY <1>6 DEF Appended, Installed, SyncedAfter
  <2>2. t \in Frame /\ t.kind = "torn" /\ t.pos = nextPos
    BY DEF Frame, Kinds
  <2> HIDE DEF t
  <2>3. Possible(file \cup {t}, synced) = Possible(file, synced) \cup {Entries(file \cup {t})}
    BY <1>1, <2>2, AppendUnsynced
  <2>4. Live(file \cup {t}) = Live(file)
    BY <2>2 DEF Live
  <2>5. Entries(file \cup {t}) = Entries(file)
    BY <2>4 DEF Entries
  <2>6. Entries(file) \in Possible(file, synced)
    BY DEF Possible
  <2> QED
    BY <1>3, <2>1, <2>3, <2>5, <2>6
<1>7. CASE o = "openFailed"
  BY <1>3, <1>7 DEF Appended, Installed, SyncedAfter
<1> QED
  BY <1>4, <1>5, <1>6, <1>7, Zenon DEF AppendOutcomes, AppendFaults

\* The initial states map to initial states of DurableQueue.
LEMMA InitRefines ==
    ASSUME NoShadow, Init
    PROVE  Abstract!Init
<1>1. Outcomes = {Entries(file)}
  <2>1. file \subseteq Frame /\ nextPos \in Nat /\ synced = nextPos /\ \A g \in file : g.pos < nextPos
    BY DEF NoShadow, IInv, TypeOK, Init
  <2> QED
    BY <2>1, OutcomesPossible, AllSynced, Zenon
<1>2. file \subseteq LegacyFile
  BY DEF Init
<1>3. MaxItems \in Nat /\ MaxAppends \in Nat
  BY ConstantsAssumption
<1>4. \A p \in 1..MaxItems : p \in 1..LastPos
  BY <1>3 DEF LastPos
<1>5. \A e \in Live(file) : e.pos \in 1..LastPos /\ e.voucher \in Vouchers /\ e \in LegacyFile
  BY <1>2, <1>4, LegacyAssumption DEF Live
<1>6. Abstract!InitialContent(Entries(file))
  <2>1. Entries(file) \subseteq [pos : 1..LastPos, voucher : Vouchers]
    BY <1>5 DEF Entries
  <2>2. ASSUME NEW d \in Entries(file), NEW e \in Entries(file), d.voucher = e.voucher \/ d.pos = e.pos
        PROVE  d = e
    <3>1. PICK a \in Live(file) : d = [pos |-> a.pos, voucher |-> a.voucher]
      BY Zenon DEF Entries
    <3>2. PICK b \in Live(file) : e = [pos |-> b.pos, voucher |-> b.voucher]
      BY Zenon DEF Entries
    <3>3. a = b
      BY <1>5, <2>2, <3>1, <3>2, LegacyAssumption, Zenon
    <3> QED
      BY <3>1, <3>2, <3>3, Zenon
  <2> QED
    BY <2>1, <2>2, Zenon DEF Abstract!InitialContent, Abstract!Entry
<1>7. (handle = "open") = FALSE
  BY DEF Init
<1> QED
  BY <1>1, <1>6, <1>7 DEF Abstract!Init

\* An enqueue, failed or not, is one step of DurableQueue.
LEMMA EnqueueRefines ==
    ASSUME NoShadow, NoShadow', NEW v \in Vouchers, NEW o \in AppendOutcomes, Enqueue(v, o)
    PROVE  Abstract!Enqueue(v) \/ Abstract!SetUsable
<1> DEFINE f == NewFrame("enqueue", v)
           new == [pos |-> nextPos, voucher |-> v]
<1>1. /\ WellFormed(file) /\ items = Live(file) /\ file = Complete(file) /\ file \subseteq Frame
      /\ nextPos \in Nat /\ nextPos > 0 /\ \A g \in file : g.pos < nextPos
  BY Zenon DEF NoShadow, IInv, Enqueue, OnDisk, TypeOK
<1>2. f = [pos |-> nextPos, kind |-> "enqueue", voucher |-> v] /\ f \in Frame
  BY <1>1, Zenon DEF NewFrame, Frame, Kinds
<1>3. Live(file \cup {f}) = Live(file) \cup {f}
  <2>1. Cardinality(Live(file)) < MaxItems /\ \A e \in Live(file) : e.voucher # v
    BY <1>1, Zenon DEF Enqueue, HasRoom
  <2>2. Extends(file, f)
    BY <1>1, <1>2, <2>1, AppendExtends, Zenon
  <2> QED
    BY <2>2, Zenon DEF Extends
<1>4. Entries(file \cup {f}) = Entries(file) \cup {new}
  <2>1. [pos |-> f.pos, voucher |-> f.voucher] = new
    BY <1>2
  <2> HIDE DEF f, new
  <2>2. Entries(file \cup {f}) = {[pos |-> e.pos, voucher |-> e.voucher] : e \in Live(file) \cup {f}}
    BY <1>3, ZenonT(30) DEF Entries
  <2> QED
    BY <2>1, <2>2, Zenon DEF Entries
<1>5. /\ file' = Appended(f, o) /\ synced' = SyncedAfter(f, o) /\ nextPos' = nextPos + 1
      /\ handle' = "open" => o = "ok"
      /\ handle = "open"
  BY Zenon DEF Enqueue, HandleAfter
<1>6. \/ Entries(file') = Entries(file \cup {f}) /\ Outcomes' = {Entries(file')}
      \/ /\ Entries(file') = Entries(file \cup {f})
         /\ Outcomes' = Outcomes \cup {Entries(file')}
         /\ handle' # "open"
      \/ Entries(file') = Entries(file) /\ Outcomes' = Outcomes
  BY <1>2, <1>5, AppendRefines, Zenon
<1>7. \A e \in Entries(file) : e.voucher # v /\ e.pos < nextPos
  <2> SUFFICES ASSUME NEW g \in Live(file),
                      NEW e, e = [pos |-> g.pos, voucher |-> g.voucher]
               PROVE  e.voucher # v /\ e.pos < nextPos
    BY Zenon DEF Entries
  <2>1. e.voucher = g.voucher /\ e.pos = g.pos
    OBVIOUS
  <2>2. g.voucher # v
    BY <1>1, Zenon DEF Enqueue
  <2>3. g.pos < nextPos
    BY <1>1, Zenon DEF Live
  <2> QED
    BY <2>1, <2>2, <2>3, Zenon
<1>8. nextPos \in 1..LastPos
  <2>1. LastPos \in Nat
    BY ConstantsAssumption DEF LastPos
  <2>2. nextPos <= LastPos
    BY Zenon DEF Enqueue
  <2> QED
    BY <1>1, <2>1, <2>2, WithinRange, Zenon
<1> HIDE DEF f, new
<1>9. CASE Entries(file') = Entries(file \cup {f}) /\ Outcomes' = {Entries(file')}
  <2>1. Abstract!Perform(Entries(file) \cup {new})
    BY <1>4, <1>5, <1>9, Zenon DEF Abstract!Perform, Abstract!Commit
  <2> QED
    BY <1>7, <1>8, <2>1, Zenon DEF Abstract!Enqueue, new
<1>10. CASE /\ Entries(file') = Entries(file \cup {f})
            /\ Outcomes' = Outcomes \cup {Entries(file')}
            /\ handle' # "open"
  <2>1. Abstract!Perform(Entries(file) \cup {new})
    BY <1>4, <1>5, <1>10 DEF Abstract!Perform, Abstract!InDoubt
  <2> QED
    BY <1>7, <1>8, <2>1, Zenon DEF Abstract!Enqueue, new
<1>11. CASE Entries(file') = Entries(file) /\ Outcomes' = Outcomes
  BY <1>11 DEF Abstract!SetUsable
<1> QED
  BY <1>6, <1>9, <1>10, <1>11, Zenon

\* A removal, with the compaction it may start, is one step of DurableQueue.
LEMMA RemoveRefines ==
    ASSUME NoShadow, NoShadow', NEW e \in items, NEW o \in AppendOutcomes, NEW r \in RewriteOutcomes,
           handle = "open", IsChannelHead(e, items), RemoveEntry(e, o, r)
    PROVE  (\E x \in Entries(file) : Abstract!Remove(x)) \/ Abstract!SetUsable
<1> DEFINE f == NewFrame("remove", e.voucher)
           old == [pos |-> e.pos, voucher |-> e.voucher]
           keep == items \ {e}
<1>1. /\ WellFormed(file) /\ items = Live(file) /\ file = Complete(file) /\ file \subseteq Frame
      /\ nextPos \in Nat /\ \A g \in file : g.pos < nextPos
  BY DEF NoShadow, IInv, OnDisk, TypeOK
<1>2. f = [pos |-> nextPos, kind |-> "remove", voucher |-> e.voucher] /\ f \in Frame
  BY <1>1, Zenon DEF NewFrame, Frame, Kinds, Live
<1>3. Live(file \cup {f}) = keep
  <2>1. e \in Live(file) /\ IsChannelHead(e, Live(file))
    BY <1>1, Zenon
  <2>2. LET g == [pos |-> nextPos, kind |-> "remove", voucher |-> e.voucher]
        IN  Live(file \cup {g}) = Live(file) \ {e}
    BY <1>1, <2>1, AppendRemove, Zenon
  <2> QED
    BY <1>1, <2>2, Zenon DEF NewFrame
<1>4. {[pos |-> d.pos, voucher |-> d.voucher] : d \in keep} = Entries(file) \ {old}
  <2>1. \A d \in items : d.pos = e.pos => d = e
    BY <1>1 DEF WellFormed, DistinctPositions, Live
  <2>2. PairsWithout(items, e)
    BY <2>1, OnePairLess, Zenon
  <2> QED
    BY <1>1, <2>2, Zenon DEF Entries, Pairs, PairsWithout
<1>5. Entries(file \cup {f}) = Entries(file) \ {old} /\ Entries(keep) = Entries(file) \ {old}
  <2>1. Live(keep) = keep
    BY <1>1, LivePartWellFormed, Zenon
  <2> HIDE DEF keep, f, old
  <2> QED
    BY <1>3, <1>4, <2>1, Zenon DEF Entries
<1>6. old \in Entries(file) /\ Abstract!IsChannelHead(old, Entries(file))
  <2>1. old \in Entries(file)
    BY <1>1, Zenon DEF Entries
  <2> SUFFICES ASSUME NEW x \in Entries(file), Channel[x.voucher] = Channel[old.voucher]
               PROVE  old.pos <= x.pos
    BY <2>1, Zenon DEF Abstract!IsChannelHead
  <2>2. PICK d \in items : x = [pos |-> d.pos, voucher |-> d.voucher]
    BY <1>1, Zenon DEF Entries
  <2>3. /\ x.pos = d.pos /\ x.voucher = d.voucher
        /\ old.pos = e.pos /\ old.voucher = e.voucher
    BY <2>2, PairFields, Zenon
  <2> HIDE DEF old
  <2> QED
    BY <2>3, Zenon DEF IsChannelHead
<1> DEFINE logged == logBytes + FrameBytes(f)
           garbage == garbageBytes + FrameBytes(e) + FrameBytes(f)
           compact == o = "ok" /\ NeedsCompaction(garbage, logged)
<1>7. CASE compact
  <2>1. Rewrite(file \cup {f}, keep, r)
    BY <1>7, Zenon DEF RemoveEntry
  <2>2. synced' = nextPos' /\ (file' = file \cup {f} \/ file' = keep)
    BY <2>1, Zenon DEF Rewrite
  <2>3. file' \subseteq Frame /\ nextPos' \in Nat /\ \A g \in file' : g.pos < nextPos'
    BY DEF NoShadow, IInv, TypeOK
  <2>4. Outcomes' = {Entries(file')}
    BY <2>2, <2>3, OutcomesPossible, AllSynced, Zenon
  <2>5. Entries(file') = Entries(file) \ {old}
    BY <1>5, <2>2, Zenon
  <2> HIDE DEF old
  <2>6. Abstract!Perform(Entries(file) \ {old})
    BY <2>4, <2>5, Zenon DEF Abstract!Perform, Abstract!Commit
  <2> QED
    BY <1>6, <2>6, SMTT(30) DEF Abstract!Remove
<1>8. CASE ~compact
  <2>1. /\ file' = Appended(f, o) /\ synced' = SyncedAfter(f, o) /\ nextPos' = nextPos + 1
        /\ handle' = "open" => o = "ok"
    BY <1>8, Zenon DEF RemoveEntry, HandleAfter
  <2>2. \/ Entries(file') = Entries(file \cup {f}) /\ Outcomes' = {Entries(file')}
        \/ /\ Entries(file') = Entries(file \cup {f})
           /\ Outcomes' = Outcomes \cup {Entries(file')}
           /\ handle' # "open"
        \/ Entries(file') = Entries(file) /\ Outcomes' = Outcomes
    BY <1>2, <2>1, AppendRefines, Zenon
  <2> HIDE DEF f, old
  <2>3. CASE Entries(file') = Entries(file \cup {f}) /\ Outcomes' = {Entries(file')}
    <3>1. Abstract!Perform(Entries(file) \ {old})
      BY <1>5, <2>3, Zenon DEF Abstract!Perform, Abstract!Commit
    <3> QED
      BY <1>6, <3>1 DEF Abstract!Remove
  <2>4. CASE /\ Entries(file') = Entries(file \cup {f})
             /\ Outcomes' = Outcomes \cup {Entries(file')}
             /\ handle' # "open"
    <3>1. Abstract!Perform(Entries(file) \ {old})
      BY <1>5, <2>4, Zenon DEF Abstract!Perform, Abstract!InDoubt
    <3> QED
      BY <1>6, <3>1 DEF Abstract!Remove
  <2>5. CASE Entries(file') = Entries(file) /\ Outcomes' = Outcomes
    BY <2>5 DEF Abstract!SetUsable
  <2> QED
    BY <2>2, <2>3, <2>4, <2>5, SMTT(30)
<1> QED
  BY <1>7, <1>8, Zenon

\* Open rewrites a file it can read into one with the same entries.
LEMMA OpenRefines ==
    ASSUME NoShadow, NoShadow',
           OpenWal \/ \E r \in RewriteOutcomes : OpenAbsent(r) \/ OpenLegacy(r)
    PROVE  Abstract!SetUsable
<1>1. Outcomes = Possible(file, synced) /\ Outcomes' = Possible(file', synced')
  BY OutcomesPossible, Zenon
<1>2. /\ file \subseteq Frame /\ nextPos \in Nat /\ \A g \in file : g.pos < nextPos
      /\ OnDisk(format, file) /\ (format # "wal" => synced = nextPos)
  BY SMTT(30) DEF NoShadow, IInv, TypeOK
<1>3. ASSUME NEW r \in RewriteOutcomes, OpenAbsent(r) \/ OpenLegacy(r)
      PROVE  file' = file /\ synced' = nextPos /\ synced = nextPos
  BY <1>2, <1>3, Zenon DEF OpenAbsent, OpenLegacy, Rewrite, OnDisk
<1>4. CASE OpenWal
  <2>1. file' = Complete(file) /\ synced' = synced /\ WellFormed(file)
    BY <1>2, <1>4 DEF OpenWal, OnDisk
  <2>2. Live(file') = Live(file)
    BY <2>1, CompleteWellFormed, Zenon
  <2>3. Entries(file') = Entries(file)
    BY <2>2, Zenon DEF Entries
  <2>4. CASE \A t \in file : t.kind # "torn"
    <3>1. file' = file
      BY <2>1, <2>4 DEF Complete
    <3> QED
      BY <1>1, <2>1, <3>1 DEF Abstract!SetUsable
  <2>5. CASE \E t \in file : t.kind = "torn"
    <3>1. PICK t \in file : t.kind = "torn"
      BY <2>5, Zenon
    <3>2. file' = Before(file, t.pos)
      BY <2>1, <3>1, CompleteWellFormed
    <3>3. \A g \in file : g # t => g.pos < t.pos
      <4>1. \A g \in file : g.pos <= t.pos /\ g.pos \in Nat
        BY <2>1, <3>1, Zenon DEF WellFormed, StructureAccepted, FrameAccepted, Frame
      <4>2. \A g \in file : g.pos = t.pos => g = t
        BY <2>1 DEF WellFormed, DistinctPositions
      <4> QED
        BY <3>1, <4>1, <4>2, LessOrSame, Zenon
    <3>4. \A g \in file' : g \in file /\ g # t /\ g.pos < t.pos
      BY <1>2, <3>2 DEF Before, Frame
    <3>5. \A g \in file' : Before(file', g.pos) = Before(file, g.pos)
      BY <1>2, <3>2, <3>4 DEF Before, Frame
    <3>6. Entries(Before(file, t.pos)) = Entries(file)
      BY <2>3, <3>2, Zenon
    <3>7. Truncations(file', synced) \subseteq Truncations(file, synced)
      BY <3>4, <3>5, Zenon DEF Truncations
    <3>8. ASSUME NEW E \in Truncations(file, synced)
          PROVE  E = Entries(file') \/ E \in Truncations(file', synced)
      <4>1. PICK g \in file : g.pos >= synced /\ E = Entries(Before(file, g.pos))
        BY <3>8 DEF Truncations
      <4>2. CASE g = t
        BY <2>3, <3>6, <4>1, <4>2
      <4>3. CASE g # t
        <5>1. g \in file'
          BY <3>2, <3>3, <4>3 DEF Before
        <5> QED
          BY <3>5, <4>1, <5>1 DEF Truncations
      <4> QED
        BY <4>2, <4>3
    <3>9. Possible(file', synced) = Possible(file, synced)
      BY <2>3, <3>7, <3>8 DEF Possible
    <3> QED
      BY <1>1, <2>1, <2>3, <3>9 DEF Abstract!SetUsable
  <2> QED
    BY <2>4, <2>5, Zenon
<1>5. ASSUME NEW r \in RewriteOutcomes, OpenAbsent(r) \/ OpenLegacy(r)
      PROVE  Abstract!SetUsable
  BY <1>1, <1>3, <1>5 DEF Abstract!SetUsable
<1> QED
  BY <1>4, <1>5

\* A power loss is the power loss of DurableQueue: one of the promised outcomes.
LEMMA PowerLossRefines ==
    ASSUME NoShadow, NoShadow', PowerLoss
    PROVE  Abstract!PowerLoss
<1>1. Outcomes' = {Entries(file')}
  <2>1. file' \subseteq Frame /\ nextPos' \in Nat /\ \A g \in file' : g.pos < nextPos'
    BY DEF NoShadow, IInv, TypeOK
  <2>2. synced' = nextPos'
    BY DEF PowerLoss
  <2> QED
    BY <2>1, <2>2, OutcomesPossible, AllSynced, Zenon
<1>2. file' \in LossResults(file, synced) /\ handle' = "none"
  BY DEF PowerLoss, NoShadow, Forget
<1>3. Entries(file') \in Outcomes
  BY <1>2 DEF Outcomes
<1> QED
  BY <1>1, <1>2, <1>3 DEF Abstract!PowerLoss, Abstract!Commit

\* The queue implements DurableQueue for every set of vouchers, every limit
\* and every fault but a failed directory sync: what was acknowledged survives,
\* what failed is undone or kept as a whole, and each channel leaves in order.
THEOREM QueueRefinesDurableQueue ==
    ASSUME "dirSyncFailed" \notin Faults
    PROVE  Spec => ImplementsDurableQueue
<1>1. NoShadow /\ Init => Abstract!Init
  BY InitRefines, Zenon
<1>2. NoShadow /\ NoShadow' /\ [Next]_vars => [Abstract!Next]_(Abstract!vars)
  <2> SUFFICES ASSUME NoShadow, NoShadow', [Next]_vars
               PROVE  Abstract!Next \/ UNCHANGED Abstract!vars
    OBVIOUS
  <2>1. ASSUME NEW v \in Vouchers, NEW o \in AppendOutcomes, Enqueue(v, o)
        PROVE  Abstract!Next
    BY <2>1, EnqueueRefines DEF Abstract!Next
  <2>2. ASSUME NEW e \in items, NEW o \in AppendOutcomes, NEW r \in RewriteOutcomes,
               Remove(e, o, r) \/ RemoveChannelHead(e, o, r)
        PROVE  Abstract!Next
    <3>1. handle = "open" /\ IsChannelHead(e, items) /\ RemoveEntry(e, o, r)
      BY <2>2 DEF Remove, RemoveChannelHead, IsChannelHead
    <3> QED
      BY <3>1, RemoveRefines, Zenon DEF Abstract!Next
  <2>3. CASE OpenWal \/ \E r \in RewriteOutcomes : OpenAbsent(r) \/ OpenLegacy(r)
    BY <2>3, OpenRefines, Zenon DEF Abstract!Next
  <2>4. CASE Close \/ Crash
    BY <2>4, Zenon DEF Close, Crash, disk, Entries, Outcomes, Abstract!Next, Abstract!SetUsable
  <2>5. CASE PowerLoss
    BY <2>5, PowerLossRefines, Zenon DEF Abstract!Next
  <2>6. CASE UNCHANGED vars
    BY <2>6, Zenon DEF vars, disk, Entries, Outcomes, Abstract!vars
  <2> QED
    BY <2>1, <2>2, <2>3, <2>4, <2>5, <2>6, Zenon DEF Next
<1> QED
  BY <1>1, <1>2, NoShadowInductive, PTL DEF Spec, ImplementsDurableQueue, Abstract!Spec

-----------------------------------------------------------------------------
(* Revocation: the invariant.                                                *)

ControlState == [epoch : Nat, decisions : SUBSET DenyNodes]
SyncState ==
    [pc : {"idle", "answered", "record", "close"}, events : Seq(DenyNodes), base : ControlState]
DecisionState ==
    [pc : {"idle", "persist", "record", "close"}, node : DenyNodes \cup {"none"}]

RevTypeOK ==
    /\ log \in Seq(DenyNodes)
    /\ revFile \in ControlState /\ state \in ControlState
    /\ sync \in SyncState /\ decision \in DecisionState
    /\ denied \subseteq DenyNodes
    /\ reg \in [DenyNodes -> {"none", "verified", "hosted", "late"}]
    /\ running \in BOOLEAN

\* What the control holds in memory is in the file, which holds events the CA
\* logged.
StateInFile ==
    /\ state.epoch <= revFile.epoch /\ revFile.epoch <= Len(log)
    /\ state.decisions \subseteq revFile.decisions

\* The events of an answer follow the epoch in memory; those being applied
\* are part of it, and so is the decision being applied.
AnswerFollows ==
    /\ sync.pc = "answered" =>
          /\ state.epoch + Len(sync.events) <= Len(log)
          /\ \A i \in 1..Len(sync.events) : sync.events[i] = log[state.epoch + i]
    /\ sync.pc \in {"record", "close"} =>
          /\ sync.events # <<>>
          /\ \A i \in 1..Len(sync.events) : sync.events[i] \in ScopesOf(state)
    /\ decision.pc # "idle" => decision.node \in DenyNodes
    /\ decision.pc \in {"record", "close"} => decision.node \in state.decisions

\* A relay that is down holds nothing in memory; the table of accounts has
\* every node that was verified.
DownHoldsNothing ==
    /\ ~running => /\ sync = NoSync /\ decision = NoDecision
                   /\ \A n \in DenyNodes : reg[n] = "none"
    /\ \A n \in DenyNodes : reg[n] # "none" => n \in accounts

RevInv ==
    /\ RevTypeOK /\ StateInFile /\ AnswerFollows /\ DownHoldsNothing
    /\ denied \subseteq ScopesOf(state)
    /\ DeniedHostedOnlyLate

-----------------------------------------------------------------------------
(* Revocation: the steps.                                                    *)

\* More events and decisions deny more.
LEMMA ScopesGrow ==
    ASSUME NEW s \in ControlState, NEW t \in ControlState, s.epoch <= t.epoch, s.decisions \subseteq t.decisions
    PROVE  ScopesOf(s) \subseteq ScopesOf(t)
<1>1. s.epoch \in Nat /\ t.epoch \in Nat
  BY DEF ControlState
<1>2. 1..s.epoch \subseteq 1..t.epoch
  BY <1>1
<1> QED  BY <1>2 DEF ScopesOf

LEMMA ScopesAreNodes ==
    ASSUME RevTypeOK, NEW s \in ControlState, s.epoch <= Len(log)
    PROVE  ScopesOf(s) \subseteq DenyNodes
<1>1. s.epoch \in Nat /\ s.decisions \subseteq DenyNodes /\ Len(log) \in Nat
  BY DEF ControlState, RevTypeOK
<1>2. \A i \in 1..s.epoch : i \in 1..Len(log) /\ log[i] \in DenyNodes
  BY <1>1 DEF RevTypeOK
<1> QED  BY <1>1, <1>2, Zenon DEF ScopesOf

\* The proposed state holds the state in memory and the events of the answer.
LEMMA ProposedHolds ==
    ASSUME RevInv, sync.pc = "answered"
    PROVE  /\ Proposed(sync, sync.events) \in ControlState
           /\ Proposed(sync, sync.events).epoch <= Len(log)
           /\ state.epoch <= Proposed(sync, sync.events).epoch
           /\ Proposed(sync, sync.events).decisions = state.decisions
           /\ ScopesOf(state) \subseteq ScopesOf(Proposed(sync, sync.events))
           /\ \A i \in 1..Len(sync.events) : sync.events[i] \in ScopesOf(Proposed(sync, sync.events))
<1> DEFINE k == Len(sync.events)
           e == state.epoch + k
           t == [state EXCEPT !.epoch = e]
<1>1. state \in ControlState /\ state.epoch \in Nat /\ k \in Nat /\ e <= Len(log)
  <2>1. sync.events \in Seq(DenyNodes)
    BY Zenon DEF RevInv, RevTypeOK, SyncState
  <2>2. state \in ControlState /\ state.epoch \in Nat /\ e <= Len(log)
    BY Zenon DEF RevInv, RevTypeOK, AnswerFollows, ControlState
  <2> QED  BY <2>1, <2>2
<1>2. e \in Nat /\ state.epoch <= e /\ \A i \in 1..k : state.epoch + i \in 1..e
  BY <1>1, Shifted, Zenon
<1>3. Proposed(sync, sync.events) = t
  BY Zenon DEF Proposed
<1>4. \A i \in 1..k : sync.events[i] = log[state.epoch + i]
  BY DEF RevInv, AnswerFollows
<1> HIDE DEF e, k
<1>5. t \in ControlState /\ t.epoch = e /\ t.decisions = state.decisions
  BY <1>1, <1>2, Zenon DEF ControlState
<1> HIDE DEF t
<1>6. ScopesOf(state) \subseteq ScopesOf(t)
  BY <1>1, <1>2, <1>5, ScopesGrow, Zenon
<1>7. \A i \in 1..k : sync.events[i] \in ScopesOf(t)
  BY <1>2, <1>4, <1>5, Zenon DEF ScopesOf
<1> QED  BY <1>1, <1>2, <1>3, <1>5, <1>6, <1>7, Zenon DEF k

LEMMA IdleSyncDecision ==
    /\ NoSync \in SyncState /\ NoSync.pc = "idle"
    /\ NoDecision \in DecisionState /\ NoDecision.pc = "idle"
    /\ EmptyState \in ControlState /\ EmptyState.epoch = 0 /\ EmptyState.decisions = {}
<1>1. <<>> \in Seq(DenyNodes)
  OBVIOUS
<1> QED  BY <1>1 DEF NoSync, SyncState, NoDecision, DecisionState, EmptyState, ControlState

\* The CA logs an event.
LEMMA RevInvRevokes ==
    ASSUME RevInv, NEW n \in DenyNodes, CARevokes(n)
    PROVE  RevInv'
<1>1. /\ log' = Append(log, n) /\ log \in Seq(DenyNodes)
      /\ UNCHANGED <<revFile, state, sync, decision, denied, accounts, reg, running>>
  BY DEF CARevokes, RevInv, RevTypeOK
<1>2. /\ log' \in Seq(DenyNodes) /\ Len(log') = Len(log) + 1 /\ Len(log) \in Nat
      /\ \A i \in 1..Len(log) : log'[i] = log[i]
  BY <1>1, OneMore, Zenon
<1>3. /\ state.epoch \in Nat /\ revFile.epoch \in Nat /\ state.epoch <= Len(log) /\ revFile.epoch <= Len(log)
      /\ sync.events \in Seq(DenyNodes) /\ Len(sync.events) \in Nat
  <2>1. state.epoch \in Nat /\ revFile.epoch \in Nat /\ sync.events \in Seq(DenyNodes)
    BY DEF RevInv, RevTypeOK, ControlState, SyncState
  <2>2. state.epoch <= revFile.epoch /\ revFile.epoch <= Len(log)
    BY Zenon DEF RevInv, StateInFile
  <2>3. Len(sync.events) \in Nat
    BY <2>1, SequenceLength, Zenon
  <2> QED  BY <1>2, <2>1, <2>2, <2>3, NoLonger, Zenon
<1>4. ScopesOf(state)' = ScopesOf(state)
  <2>1. \A i \in 1..state.epoch : log'[i] = log[i]
    BY <1>2, <1>3, LongerRange, Zenon
  <2> QED  BY <2>1, <1>1, Zenon DEF ScopesOf
<1>5. RevTypeOK' /\ DownHoldsNothing' /\ DeniedHostedOnlyLate'
  BY <1>1, <1>2, Zenon DEF RevInv, RevTypeOK, DownHoldsNothing, DeniedHostedOnlyLate
<1>6. StateInFile'
  BY <1>1, <1>2, <1>3, StillLess, Zenon DEF RevInv, StateInFile
<1>7. AnswerFollows'
  <2>1. sync.pc = "answered" => /\ state.epoch + Len(sync.events) <= Len(log')
                                /\ \A i \in 1..Len(sync.events) : sync.events[i] = log'[state.epoch + i]
    <3> SUFFICES ASSUME sync.pc = "answered"
                 PROVE  /\ state.epoch + Len(sync.events) <= Len(log')
                        /\ \A i \in 1..Len(sync.events) : sync.events[i] = log'[state.epoch + i]
      BY Zenon
    <3>1. /\ state.epoch + Len(sync.events) <= Len(log)
          /\ \A i \in 1..Len(sync.events) : sync.events[i] = log[state.epoch + i]
      BY Zenon DEF RevInv, AnswerFollows
    <3>2. \A i \in 1..Len(sync.events) : state.epoch + i \in 1..Len(log)
      BY <1>2, <1>3, <3>1, ShiftedInto, Zenon
    <3>3. ASSUME NEW i \in 1..Len(sync.events) PROVE sync.events[i] = log'[state.epoch + i]
      <4>1. state.epoch + i \in 1..Len(log) /\ sync.events[i] = log[state.epoch + i]
        BY <3>1, <3>2, Zenon
      <4> QED  BY <1>2, <4>1, Zenon
    <3>4. state.epoch + Len(sync.events) <= Len(log')
      BY <1>2, <1>3, <3>1, ShiftedInto, Zenon
    <3> QED  BY <3>3, <3>4, Zenon
  <2> QED  BY <2>1, <1>1, <1>4, Zenon DEF RevInv, AnswerFollows
<1> QED  BY <1>1, <1>4, <1>5, <1>6, <1>7, Zenon DEF RevInv

\* The steps that write neither the file nor the state.
LEMMA RevInvKept ==
    ASSUME RevInv, UNCHANGED <<log, revFile, state>>,
           NEW sy \in SyncState, sync' = sy, NEW dc \in DecisionState, decision' = dc,
           denied' \subseteq DenyNodes, denied' \subseteq ScopesOf(state), running' = running,
           reg' \in [DenyNodes -> {"none", "verified", "hosted", "late"}],
           sy.pc = "answered" => /\ state.epoch + Len(sy.events) <= Len(log)
                                 /\ \A i \in 1..Len(sy.events) : sy.events[i] = log[state.epoch + i],
           sy.pc \in {"record", "close"} => /\ sy.events # <<>>
                                            /\ \A i \in 1..Len(sy.events) : sy.events[i] \in ScopesOf(state),
           dc.pc # "idle" => dc.node \in DenyNodes,
           dc.pc \in {"record", "close"} => dc.node \in state.decisions,
           DownHoldsNothing', DeniedHostedOnlyLate'
    PROVE  RevInv'
<1>1. RevTypeOK'
  BY Zenon DEF RevInv, RevTypeOK
<1>2. ScopesOf(state)' = ScopesOf(state)
  BY Zenon DEF ScopesOf
<1>3. StateInFile'
  BY Zenon DEF RevInv, StateInFile
<1>4. AnswerFollows'
  BY <1>2, Zenon DEF AnswerFollows
<1> QED  BY <1>1, <1>2, <1>3, <1>4, Zenon DEF RevInv

\* The registrations, and the closing of what is hosted when the CA is gone.
LEMMA RevInvRegistrations ==
    ASSUME RevInv,
           \/ \E n \in DenyNodes : RegisterVerify(n) \/ RegisterHosts(n) \/ RegistrationEnds(n)
           \/ CAUnreachable
    PROVE  RevInv'
<1>1. /\ UNCHANGED <<log, revFile, state, sync, decision, denied, running>> /\ running
      /\ reg \in [DenyNodes -> {"none", "verified", "hosted", "late"}]
      /\ sync \in SyncState /\ decision \in DecisionState /\ denied \subseteq DenyNodes
      /\ denied \subseteq ScopesOf(state)
  BY Zenon DEF RegisterVerify, RegisterHosts, RegistrationEnds, CAUnreachable, RevInv, RevTypeOK
<1>2. /\ reg' \in [DenyNodes -> {"none", "verified", "hosted", "late"}]
      /\ \A n \in DenyNodes : reg'[n] # "none" => n \in accounts'
      /\ \A n \in DenyNodes : reg'[n] = "hosted" => reg[n] = "hosted" \/ n \notin denied
  BY <1>1, Zenon DEF RegisterVerify, RegisterHosts, RegistrationEnds, CAUnreachable, RevInv, DownHoldsNothing, Hosted
<1>3. DownHoldsNothing'
  BY <1>1, <1>2, Zenon DEF DownHoldsNothing
<1>4. DeniedHostedOnlyLate'
  <2> SUFFICES ASSUME NEW n \in DenyNodes, reg'[n] = "hosted", n \in denied',
                      ~(sync'.pc = "close" /\ Head(sync'.events) = n)
               PROVE  decision' = [pc |-> "close", node |-> n]
    BY Zenon DEF DeniedHostedOnlyLate
  <2>1. reg[n] = "hosted" /\ n \in denied /\ ~(sync.pc = "close" /\ Head(sync.events) = n)
    BY <1>1, <1>2, Zenon
  <2> QED  BY <1>1, <2>1, Zenon DEF RevInv, DeniedHostedOnlyLate
<1>5. AnswerFollows
  BY Zenon DEF RevInv
<1> QED  BY <1>1, <1>2, <1>3, <1>4, <1>5, RevInvKept, Zenon DEF AnswerFollows

\* The part of a log of the CA that follows an epoch.
LEMMA EventsAfter ==
    ASSUME NEW l \in Seq(DenyNodes), NEW e \in Nat, NEW m \in e..Len(l)
    PROVE  /\ SubSeq(l, e + 1, m) \in Seq(DenyNodes) /\ Len(SubSeq(l, e + 1, m)) = m - e
           /\ \A i \in 1..(m - e) : SubSeq(l, e + 1, m)[i] = l[e + i]
OBVIOUS

\* A sync asks for the events after the epoch in memory.
LEMMA RevInvAsks ==
    ASSUME RevInv, NEW m \in 0..MaxLog, SyncAsks(m)
    PROVE  RevInv'
<1> DEFINE e == state.epoch
           ev == SubSeq(log, e + 1, m)
           sy == [pc |-> "answered", events |-> ev, base |-> state]
<1>1. /\ UNCHANGED <<log, revFile, state, decision, denied, accounts, reg, running>> /\ running
      /\ sync = NoSync /\ sync' = sy /\ m \in e..Len(log)
  BY Zenon DEF SyncAsks
<1>2. /\ state \in ControlState /\ e \in Nat /\ log \in Seq(DenyNodes) /\ Len(log) \in Nat
      /\ decision \in DecisionState /\ denied \subseteq DenyNodes /\ denied \subseteq ScopesOf(state)
      /\ reg \in [DenyNodes -> {"none", "verified", "hosted", "late"}]
  BY DEF RevInv, RevTypeOK, ControlState
<1>4. /\ ev \in Seq(DenyNodes) /\ Len(ev) = m - e
      /\ \A i \in 1..(m - e) : ev[i] = log[e + i]
  BY <1>1, <1>2, EventsAfter, Zenon
<1> HIDE DEF ev
<1>5. sy \in SyncState /\ sy.pc = "answered" /\ sy.events = ev
  BY <1>2, <1>4, Zenon DEF SyncState
<1> HIDE DEF sy
<1>6. /\ e + Len(ev) <= Len(log)
      /\ \A i \in 1..Len(ev) : ev[i] = log[e + i]
  <2>1. e + (m - e) <= Len(log)
    BY <1>1, <1>2
  <2> HIDE DEF e
  <2> QED  BY <1>4, <2>1, Zenon
<1>7. DownHoldsNothing'
  BY <1>1, Zenon DEF RevInv, DownHoldsNothing
<1>8. DeniedHostedOnlyLate'
  BY <1>1, <1>5, IdleSyncDecision, Zenon DEF RevInv, DeniedHostedOnlyLate
<1>9. /\ decision.pc # "idle" => decision.node \in DenyNodes
      /\ decision.pc \in {"record", "close"} => decision.node \in state.decisions
  BY DEF RevInv, AnswerFollows
<1> QED  BY <1>1, <1>2, <1>5, <1>6, <1>7, <1>8, <1>9, RevInvKept, Zenon

\* What remains to be applied after the first event.
LEMMA NextEvent ==
    ASSUME NEW S, NEW sy \in SyncState, NEW pc \in {"record", "close"}, sy.pc \in {"record", "close"},
           sy.events # <<>>, \A i \in 1..Len(sy.events) : sy.events[i] \in S
    PROVE  /\ Head(sy.events) \in S /\ Head(sy.events) \in DenyNodes
           /\ Len(sy.events) # 1 =>
                /\ [sy EXCEPT !.pc = pc, !.events = Tail(sy.events)] \in SyncState
                /\ [sy EXCEPT !.pc = pc, !.events = Tail(sy.events)].pc = pc
                /\ [sy EXCEPT !.pc = pc, !.events = Tail(sy.events)].events = Tail(sy.events)
                /\ Tail(sy.events) # <<>>
                /\ \A i \in 1..Len(Tail(sy.events)) : Tail(sy.events)[i] \in S
<1> DEFINE ev == sy.events
           tl == Tail(ev)
<1>1. ev \in Seq(DenyNodes) /\ Len(ev) \in Nat /\ Len(ev) >= 1
  BY DEF SyncState
<1>2. /\ tl \in Seq(DenyNodes) /\ Len(tl) = Len(ev) - 1
      /\ \A i \in 1..Len(tl) : tl[i] = ev[i + 1]
  BY <1>1
<1>3. Head(ev) = ev[1] /\ 1 \in 1..Len(ev) /\ ev[1] \in DenyNodes
  BY <1>1
<1>4. \A i \in 1..Len(tl) : i + 1 \in 1..Len(ev)
  BY <1>1, <1>2
<1>5. Len(ev) # 1 => tl # <<>>
  <2>1. Len(<<>>) = 0
    BY Zenon
  <2>2. Len(ev) # 1 => Len(tl) # 0
    BY <1>1, <1>2
  <2> HIDE DEF tl
  <2> QED  BY <2>1, <2>2, Zenon
<1> HIDE DEF tl
<1>6. /\ [sy EXCEPT !.pc = pc, !.events = tl] \in SyncState
      /\ [sy EXCEPT !.pc = pc, !.events = tl].pc = pc
      /\ [sy EXCEPT !.pc = pc, !.events = tl].events = tl
  BY <1>2, Zenon DEF SyncState
<1>7. \A i \in 1..Len(tl) : tl[i] \in S
  BY <1>2, <1>4
<1> QED  BY <1>3, <1>5, <1>6, <1>7, Zenon DEF tl

\* A deny of the log is recorded.
LEMMA RevInvRecords ==
    ASSUME RevInv, SyncRecords
    PROVE  RevInv'
<1> DEFINE n == Head(sync.events)
           S == ScopesOf(state)
           rest == [sync EXCEPT !.pc = "record", !.events = Tail(sync.events)]
           shuts == [sync EXCEPT !.pc = "close"]
<1>1. /\ UNCHANGED <<log, revFile, state, decision, accounts, reg, running>> /\ running
      /\ sync.pc = "record" /\ denied' = denied \cup {n}
      /\ n \notin denied => sync' = [sync EXCEPT !.pc = "close"]
      /\ n \in denied /\ Len(sync.events) = 1 => sync' = NoSync
      /\ n \in denied /\ Len(sync.events) # 1 => sync' = [sync EXCEPT !.events = Tail(sync.events)]
  BY DEF SyncRecords
<1>2. /\ sync \in SyncState /\ decision \in DecisionState /\ denied \subseteq DenyNodes /\ denied \subseteq S
      /\ reg \in [DenyNodes -> {"none", "verified", "hosted", "late"}]
      /\ sync.events # <<>> /\ \A i \in 1..Len(sync.events) : sync.events[i] \in S
  BY <1>1 DEF RevInv, RevTypeOK, AnswerFollows
<1>3. /\ n \in S /\ n \in DenyNodes
      /\ Len(sync.events) # 1 =>
           /\ rest \in SyncState /\ rest.pc = "record" /\ rest.events = Tail(sync.events)
           /\ Tail(sync.events) # <<>> /\ \A i \in 1..Len(Tail(sync.events)) : Tail(sync.events)[i] \in S
  <2> HIDE DEF S
  <2> QED  BY <1>1, <1>2, NextEvent, Zenon
<1>4. [sync EXCEPT !.events = Tail(sync.events)] = rest
  BY <1>1, <1>2, Zenon DEF SyncState
<1>5. shuts \in SyncState /\ shuts.pc = "close" /\ shuts.events = sync.events
  BY <1>2 DEF SyncState
<1>6. DownHoldsNothing'
  BY <1>1, Zenon DEF RevInv, DownHoldsNothing
<1>7. /\ decision.pc # "idle" => decision.node \in DenyNodes
      /\ decision.pc \in {"record", "close"} => decision.node \in state.decisions
  BY DEF RevInv, AnswerFollows
<1>8. \A k \in DenyNodes : reg[k] = "hosted" /\ k \in denied => decision = [pc |-> "close", node |-> k]
  BY <1>1 DEF RevInv, DeniedHostedOnlyLate
<1> HIDE DEF rest, S
<1>9. CASE n \notin denied
  <2>1. sync' = shuts
    BY <1>1, <1>9
  <2> HIDE DEF shuts
  <2>2. DeniedHostedOnlyLate'
    BY <1>1, <1>5, <1>8, <2>1, Zenon DEF DeniedHostedOnlyLate
  <2> QED  BY <2>1, <2>2, <1>1, <1>2, <1>3, <1>5, <1>6, <1>7, RevInvKept, Zenon DEF S
<1>10. CASE n \in denied
  <2>1. denied' = denied
    BY <1>1, <1>10
  <2>2. DeniedHostedOnlyLate'
    BY <1>1, <1>8, <2>1, Zenon DEF DeniedHostedOnlyLate
  <2>3. CASE Len(sync.events) = 1
    <3>1. sync' = NoSync
      BY <1>1, <1>10, <2>3, Zenon
    <3> QED  BY <2>1, <2>2, <3>1, <1>1, <1>2, <1>6, <1>7, IdleSyncDecision, RevInvKept, Zenon DEF S
  <2>4. CASE Len(sync.events) # 1
    <3>1. sync' = rest
      BY <1>1, <1>4, <1>10, <2>4, ZenonT(30)
    <3> QED  BY <2>1, <2>2, <2>4, <3>1, <1>1, <1>2, <1>3, <1>6, <1>7, RevInvKept, Zenon DEF S
  <2> QED  BY <2>3, <2>4
<1> QED  BY <1>9, <1>10

\* Closing the registration of a node that the account table has.
LEMMA HostingGone ==
    ASSUME RevInv, NEW n \in DenyNodes, reg' = HostingClosed(n)
    PROVE  /\ reg' \in [DenyNodes -> {"none", "verified", "hosted", "late"}]
           /\ reg'[n] # "hosted"
           /\ \A k \in DenyNodes : reg'[k] = "none" \/ reg'[k] = reg[k]
BY DEF HostingClosed, Hosted, RevInv, RevTypeOK, DownHoldsNothing

\* The registration of the node is closed.
LEMMA RevInvCloses ==
    ASSUME RevInv, SyncCloses
    PROVE  RevInv'
<1> DEFINE n == Head(sync.events)
           S == ScopesOf(state)
           rest == [sync EXCEPT !.pc = "record", !.events = Tail(sync.events)]
<1>1. /\ UNCHANGED <<log, revFile, state, decision, accounts, denied, running>> /\ running
      /\ sync.pc = "close" /\ reg' = HostingClosed(n)
      /\ Len(sync.events) = 1 => sync' = NoSync
      /\ Len(sync.events) # 1 => sync' = rest
  BY DEF SyncCloses
<1>2. /\ sync \in SyncState /\ decision \in DecisionState /\ denied \subseteq DenyNodes /\ denied \subseteq S
      /\ sync.events # <<>> /\ \A i \in 1..Len(sync.events) : sync.events[i] \in S
  BY <1>1 DEF RevInv, RevTypeOK, AnswerFollows
<1>3. /\ n \in S /\ n \in DenyNodes
      /\ Len(sync.events) # 1 =>
           /\ rest \in SyncState /\ rest.pc = "record" /\ rest.events = Tail(sync.events)
           /\ Tail(sync.events) # <<>> /\ \A i \in 1..Len(Tail(sync.events)) : Tail(sync.events)[i] \in S
  <2> HIDE DEF S
  <2> QED  BY <1>1, <1>2, NextEvent, Zenon
<1> HIDE DEF rest
<1>4. /\ reg' \in [DenyNodes -> {"none", "verified", "hosted", "late"}] /\ reg'[n] # "hosted"
      /\ \A k \in DenyNodes : reg'[k] = "none" \/ reg'[k] = reg[k]
  BY <1>1, <1>3, HostingGone, Zenon
<1>5. DownHoldsNothing'
  BY <1>1, <1>4, Zenon DEF RevInv, DownHoldsNothing
<1>6. \A k \in DenyNodes : reg'[k] = "hosted" /\ k \in denied => decision = [pc |-> "close", node |-> k]
  BY <1>1, <1>4 DEF RevInv, DeniedHostedOnlyLate
<1>7. DeniedHostedOnlyLate'
  BY <1>1, <1>6, Zenon DEF DeniedHostedOnlyLate
<1>8. /\ decision.pc # "idle" => decision.node \in DenyNodes
      /\ decision.pc \in {"record", "close"} => decision.node \in state.decisions
  BY DEF RevInv, AnswerFollows
<1>9. CASE Len(sync.events) = 1
  BY <1>1, <1>2, <1>4, <1>5, <1>7, <1>8, <1>9, IdleSyncDecision, RevInvKept, Zenon
<1>10. CASE Len(sync.events) # 1
  BY <1>1, <1>2, <1>3, <1>4, <1>5, <1>7, <1>8, <1>10, RevInvKept, Zenon
<1> QED  BY <1>9, <1>10

\* An answer with a decision comes; a decision that cannot be written is not
\* applied, whether or not the file was replaced.
LEMMA RevInvDecisionArrives ==
    ASSUME RevInv, NEW n \in DenyNodes, DecisionArrives(n)
    PROVE  RevInv'
<1> DEFINE dc == [pc |-> "persist", node |-> n]
<1>1. /\ UNCHANGED <<log, revFile, state, sync, denied, accounts, reg, running>> /\ running
      /\ decision = NoDecision /\ decision' = dc
  BY Zenon DEF DecisionArrives
<1>2. dc \in DecisionState /\ dc.pc = "persist" /\ dc.node = n
  BY DEF DecisionState
<1>3. /\ sync \in SyncState /\ denied \subseteq DenyNodes /\ denied \subseteq ScopesOf(state)
      /\ reg \in [DenyNodes -> {"none", "verified", "hosted", "late"}] /\ AnswerFollows
  BY Zenon DEF RevInv, RevTypeOK
<1>4. DownHoldsNothing'
  BY <1>1, Zenon DEF RevInv, DownHoldsNothing
<1>5. DeniedHostedOnlyLate'
  <2>1. \A x : decision # [pc |-> "close", node |-> x]
    <3>1. decision.pc = "idle" /\ "idle" # "close"
      BY <1>1, IdleSyncDecision, Zenon
    <3> QED  BY <3>1, ClosingPc, Zenon
  <2> QED  BY <1>1, <2>1, Zenon DEF RevInv, DeniedHostedOnlyLate
<1> HIDE DEF dc
<1> QED  BY <1>1, <1>2, <1>3, <1>4, <1>5, RevInvKept, Zenon DEF AnswerFollows

LEMMA RevInvDecisionApplies ==
    ASSUME RevInv, DecisionApplies
    PROVE  RevInv'
<1> DEFINE n == decision.node
           shuts == [decision EXCEPT !.pc = "close"]
<1>1. /\ UNCHANGED <<log, revFile, state, sync, accounts, running>> /\ running
      /\ decision.pc \in {"record", "close"}
  BY DEF DecisionApplies
<1>2. /\ sync \in SyncState /\ decision \in DecisionState /\ denied \subseteq DenyNodes /\ denied \subseteq ScopesOf(state)
      /\ reg \in [DenyNodes -> {"none", "verified", "hosted", "late"}] /\ AnswerFollows /\ state \in ControlState
  BY Zenon DEF RevInv, RevTypeOK
<1>3. n \in state.decisions /\ n \in DenyNodes /\ n \in ScopesOf(state)
  BY <1>1, <1>2, Zenon DEF AnswerFollows, ScopesOf
<1>4. shuts \in DecisionState /\ shuts.pc = "close" /\ shuts.node = n
      /\ shuts = [pc |-> "close", node |-> n]
  BY <1>2 DEF DecisionState
<1>5. CASE decision.pc = "record"
  <2>1. /\ denied' = denied \cup {n} /\ UNCHANGED reg
        /\ decision' = IF n \in denied THEN NoDecision ELSE shuts
    BY <1>5 DEF DecisionApplies
  <2>2. DownHoldsNothing'
    BY <1>1, <2>1, Zenon DEF RevInv, DownHoldsNothing
  <2>3. \A k \in DenyNodes : reg[k] = "hosted" /\ k \in denied => sync.pc = "close" /\ Head(sync.events) = k
    BY <1>5 DEF RevInv, DeniedHostedOnlyLate
  <2>4. DeniedHostedOnlyLate'
    BY <1>1, <1>4, <2>1, <2>3, Zenon DEF DeniedHostedOnlyLate
  <2> HIDE DEF shuts
  <2>5. CASE n \in denied
    <3>1. decision' = NoDecision
      BY <2>1, <2>5
    <3> QED  BY <1>1, <1>2, <2>1, <2>2, <2>4, <2>5, <3>1, IdleSyncDecision, RevInvKept, Zenon DEF AnswerFollows
  <2>6. CASE n \notin denied
    <3>1. decision' = shuts
      BY <2>1, <2>6, Zenon
    <3> QED  BY <1>1, <1>2, <1>3, <1>4, <2>1, <2>2, <2>4, <3>1, RevInvKept, Zenon DEF AnswerFollows
  <2> QED  BY <2>5, <2>6
<1>6. CASE decision.pc = "close"
  <2>1. reg' = HostingClosed(n) /\ decision' = NoDecision /\ UNCHANGED denied
    BY <1>6 DEF DecisionApplies
  <2>2. /\ reg' \in [DenyNodes -> {"none", "verified", "hosted", "late"}] /\ reg'[n] # "hosted"
        /\ \A k \in DenyNodes : reg'[k] = "none" \/ reg'[k] = reg[k]
    BY <1>3, <2>1, HostingGone, Zenon
  <2>3. DownHoldsNothing'
    BY <1>1, <2>1, <2>2, Zenon DEF RevInv, DownHoldsNothing
  <2>4. DeniedHostedOnlyLate'
    <3> SUFFICES ASSUME NEW k \in DenyNodes, reg'[k] = "hosted", k \in denied,
                        ~(sync.pc = "close" /\ Head(sync.events) = k)
                 PROVE  FALSE
      BY <1>1, <2>1, Zenon DEF DeniedHostedOnlyLate
    <3>1. reg[k] = "hosted" /\ k # n
      BY <2>2, Zenon
    <3>2. decision = [pc |-> "close", node |-> k]
      BY <3>1 DEF RevInv, DeniedHostedOnlyLate
    <3> QED  BY <3>1, <3>2, Zenon
  <2> QED  BY <1>1, <1>2, <2>1, <2>2, <2>3, <2>4, IdleSyncDecision, RevInvKept, Zenon DEF AnswerFollows
<1> QED  BY <1>1, <1>5, <1>6, Zenon

\* The steps that write the file: it holds the state in memory afterwards.
LEMMA RevInvWrites ==
    ASSUME RevInv, UNCHANGED <<log, denied, accounts, reg, running>>, running,
           NEW f \in ControlState, revFile' = f, f.epoch <= Len(log),
           NEW st \in ControlState, state' = st, st.epoch <= f.epoch, st.decisions \subseteq f.decisions,
           state.epoch <= st.epoch, state.decisions \subseteq st.decisions,
           NEW sy \in SyncState, sync' = sy, sync.pc # "close" \/ sy = sync,
           NEW dc \in DecisionState, decision' = dc, decision.pc # "close" \/ dc = decision,
           sy.pc = "answered" => sy = sync /\ st.epoch = state.epoch,
           sy.pc \in {"record", "close"} =>
              /\ sy.events # <<>>
              /\ \A i \in 1..Len(sy.events) : sy.events[i] \in ScopesOf(st),
           dc.pc # "idle" => dc.node \in DenyNodes,
           dc.pc \in {"record", "close"} => dc.node \in st.decisions
    PROVE  RevInv'
<1>1. RevTypeOK'
  BY Zenon DEF RevInv, RevTypeOK
<1>2. ScopesOf(state)' = ScopesOf(st)
  BY Zenon DEF ScopesOf
<1>3. StateInFile'
  BY Zenon DEF StateInFile
<1>4. AnswerFollows'
  BY <1>2, Zenon DEF RevInv, AnswerFollows
<1>5. state \in ControlState
  BY Zenon DEF RevInv, RevTypeOK
<1>6. denied \subseteq ScopesOf(st)
  BY <1>5, ScopesGrow, Zenon DEF RevInv
<1>7. DownHoldsNothing'
  BY Zenon DEF RevInv, DownHoldsNothing
<1>8. DeniedHostedOnlyLate'
  <2>1. sync.pc = "close" => sync' = sync
    BY Zenon
  <2>2. decision.pc = "close" => decision' = decision
    BY Zenon
  <2> SUFFICES ASSUME NEW n \in DenyNodes, reg'[n] = "hosted", n \in denied',
                      ~(sync'.pc = "close" /\ Head(sync'.events) = n)
               PROVE  decision' = [pc |-> "close", node |-> n]
    BY Zenon DEF DeniedHostedOnlyLate
  <2>4. ~(sync.pc = "close" /\ Head(sync.events) = n)
    BY <2>1, Zenon
  <2>5. decision = [pc |-> "close", node |-> n]
    BY <2>4, Zenon DEF RevInv, DeniedHostedOnlyLate
  <2>6. decision.pc = "close"
    BY <2>5, ClosingPc, Zenon
  <2> QED  BY <2>2, <2>5, <2>6, Zenon
<1> QED  BY <1>1, <1>2, <1>3, <1>4, <1>6, <1>7, <1>8, Zenon DEF RevInv

\* A sync writes the events of its answer, and adopts them unless it fails.
LEMMA RevInvSyncWrites ==
    ASSUME RevInv, SyncPersists \/ \E renamed \in BOOLEAN : SyncWriteFails(renamed)
    PROVE  RevInv'
<1> DEFINE t == Proposed(sync, sync.events)
           recording == [NoSync EXCEPT !.pc = "record", !.events = sync.events]
<1>1. /\ UNCHANGED <<log, decision, denied, accounts, reg, running>> /\ running /\ sync.pc = "answered"
      /\ \/ /\ revFile' = t /\ state' = t
            /\ sync' = IF sync.events = <<>> THEN NoSync ELSE recording
         \/ revFile' \in {t, revFile} /\ state' = state /\ sync' = NoSync
  BY DEF SyncPersists, SyncWriteFails
<1>2. /\ state \in ControlState /\ revFile \in ControlState /\ decision \in DecisionState /\ sync \in SyncState
      /\ state.epoch \in Nat /\ revFile.epoch \in Nat
      /\ state.epoch <= revFile.epoch /\ revFile.epoch <= Len(log) /\ state.decisions \subseteq revFile.decisions
  BY Zenon DEF RevInv, RevTypeOK, StateInFile, ControlState
<1>3. /\ decision.pc # "idle" => decision.node \in DenyNodes
      /\ decision.pc \in {"record", "close"} => decision.node \in state.decisions
  BY DEF RevInv, AnswerFollows
<1>4. /\ t \in ControlState /\ t.epoch <= Len(log) /\ state.epoch <= t.epoch /\ t.decisions = state.decisions
      /\ \A i \in 1..Len(sync.events) : sync.events[i] \in ScopesOf(t)
  BY <1>1, ProposedHolds
<1>5. recording \in SyncState /\ recording.pc = "record" /\ recording.events = sync.events
  BY <1>2, Zenon DEF NoSync, SyncState, ControlState
<1>6. t.epoch \in Nat
  BY <1>4, Zenon DEF ControlState
<1>a. t.epoch <= t.epoch /\ state.epoch <= state.epoch
  BY <1>2, <1>6, NatOrder, Zenon
<1>b. /\ "idle" \notin {"record", "close"} /\ "idle" # "answered"
      /\ "record" # "answered" /\ "answered" # "close"
  OBVIOUS
<1> HIDE DEF t, recording
<1>7. CASE revFile' = t /\ state' = t /\ sync' = NoSync
  BY <1>1, <1>2, <1>3, <1>4, <1>7, <1>a, <1>b, IdleSyncDecision, RevInvWrites, Zenon
<1>8. CASE revFile' = t /\ state' = t /\ sync' = recording /\ sync.events # <<>>
  BY <1>1, <1>2, <1>3, <1>4, <1>5, <1>8, <1>a, <1>b, RevInvWrites, Zenon
<1>9. CASE revFile' = t /\ state' = state /\ sync' = NoSync
  BY <1>1, <1>2, <1>3, <1>4, <1>9, <1>a, <1>b, IdleSyncDecision, RevInvWrites, Zenon
<1>10. CASE revFile' = revFile /\ state' = state /\ sync' = NoSync
  BY <1>1, <1>2, <1>3, <1>10, <1>a, <1>b, IdleSyncDecision, RevInvWrites, Zenon
<1> QED  BY <1>1, <1>7, <1>8, <1>9, <1>10, Zenon

\* A decision is written, and adopted unless the write fails.
LEMMA RevInvDecisionWrites ==
    ASSUME RevInv, PersistsDecision \/ \E renamed \in BOOLEAN : DecisionWriteFails(renamed)
    PROVE  RevInv'
<1> DEFINE n == decision.node
           more == state.decisions \cup {n}
           t == [state EXCEPT !.decisions = more]
           recording == [decision EXCEPT !.pc = "record"]
<1>1. /\ UNCHANGED <<log, sync, denied, accounts, reg, running>> /\ running /\ decision.pc = "persist"
      /\ \/ revFile' = t /\ state' = t /\ decision' = recording
         \/ revFile' \in {t, revFile} /\ state' = state /\ decision' = NoDecision
  BY Zenon DEF PersistsDecision, DecisionWriteFails
<1>2. /\ state \in ControlState /\ revFile \in ControlState /\ decision \in DecisionState /\ sync \in SyncState
      /\ state.epoch \in Nat /\ revFile.epoch \in Nat /\ Len(log) \in Nat
      /\ state.epoch <= revFile.epoch /\ revFile.epoch <= Len(log) /\ state.decisions \subseteq revFile.decisions
  BY DEF RevInv, RevTypeOK, StateInFile, ControlState
<1>3. /\ n \in DenyNodes
      /\ sync.pc \in {"record", "close"} =>
           /\ sync.events # <<>>
           /\ \A i \in 1..Len(sync.events) : sync.events[i] \in ScopesOf(state)
  BY <1>1, Zenon DEF RevInv, AnswerFollows
<1>4. more \subseteq DenyNodes /\ state.decisions \subseteq more /\ n \in more
  BY <1>2, <1>3 DEF ControlState
<1>5. recording \in DecisionState /\ recording.pc = "record" /\ recording.node = n
  BY <1>2 DEF DecisionState
<1> HIDE DEF more, recording
<1>6. t \in ControlState /\ t.epoch = state.epoch /\ t.decisions = more
  BY <1>2, <1>4, Zenon DEF ControlState
<1> HIDE DEF t, n
<1>7. /\ t.epoch <= Len(log) /\ state.epoch <= t.epoch
      /\ t.epoch <= t.epoch /\ state.epoch <= state.epoch
  BY <1>2, <1>6
<1>8. ScopesOf(state) \subseteq ScopesOf(t)
  BY <1>2, <1>4, <1>6, <1>7, ScopesGrow, Zenon
<1>9. CASE revFile' = t /\ state' = t /\ decision' = recording
  BY <1>1, <1>2, <1>3, <1>4, <1>5, <1>6, <1>7, <1>8, <1>9, RevInvWrites, Zenon
<1>10. CASE revFile' = t /\ state' = state /\ decision' = NoDecision
  BY <1>1, <1>2, <1>3, <1>4, <1>6, <1>7, <1>10, IdleSyncDecision, RevInvWrites, Zenon
<1>11. CASE revFile' = revFile /\ state' = state /\ decision' = NoDecision
  BY <1>1, <1>2, <1>3, <1>7, <1>11, IdleSyncDecision, RevInvWrites, Zenon
<1> QED  BY <1>1, <1>9, <1>10, <1>11, Zenon

\* A crash leaves the file, a start loads it.
LEMMA RevInvRestarts ==
    ASSUME RevInv, RelayCrash \/ RelayStarts
    PROVE  RevInv'
<1>1. /\ log \in Seq(DenyNodes) /\ Len(log) \in Nat /\ UNCHANGED <<log, revFile>>
      /\ revFile \in ControlState /\ revFile.epoch \in Nat /\ revFile.epoch <= Len(log)
  <2>1. state.epoch \in Nat /\ revFile \in ControlState /\ revFile.epoch \in Nat /\ log \in Seq(DenyNodes)
    BY Zenon DEF RevInv, RevTypeOK, ControlState
  <2>2. UNCHANGED <<log, revFile>> /\ revFile.epoch <= Len(log)
    BY Zenon DEF RelayCrash, RelayStarts, RevInv, StateInFile
  <2> QED  BY <2>1, <2>2
<1>2. sync' = NoSync /\ decision' = NoDecision /\ reg' = [n \in DenyNodes |-> "none"]
  BY DEF RelayCrash, RelayStarts, RevInv, RevTypeOK, DownHoldsNothing
<1>3. CASE RelayCrash
  <2>1. state' = EmptyState /\ denied' = {} /\ running' = FALSE
    BY <1>3 DEF RelayCrash
  <2>2. RevTypeOK'
    BY <1>1, <1>2, <2>1, IdleSyncDecision, Zenon DEF RevTypeOK
  <2>3. StateInFile' /\ AnswerFollows' /\ DownHoldsNothing' /\ DeniedHostedOnlyLate'
    <3>1. "idle" # "answered" /\ "idle" \notin {"record", "close"} /\ "none" # "hosted"
      OBVIOUS
    <3>2. StateInFile'
      BY <1>1, <2>1, IdleSyncDecision, NatOrder, Zenon DEF StateInFile
    <3>3. AnswerFollows'
      BY <1>2, <3>1, IdleSyncDecision, Zenon DEF AnswerFollows
    <3>4. DownHoldsNothing' /\ DeniedHostedOnlyLate'
      BY <1>2, <2>1, <3>1, Zenon DEF DownHoldsNothing, DeniedHostedOnlyLate
    <3> QED  BY <3>2, <3>3, <3>4, Zenon
  <2> QED  BY <2>1, <2>2, <2>3, Zenon DEF RevInv
<1>4. CASE RelayStarts
  <2>1. state' = revFile /\ denied' = ScopesOf(revFile) /\ running' = TRUE
    BY <1>4 DEF RelayStarts
  <2>2. ScopesOf(revFile) \subseteq DenyNodes /\ ScopesOf(state)' = ScopesOf(revFile)
    BY <1>1, <2>1, ScopesAreNodes, Zenon DEF RevInv, ScopesOf
  <2>3. RevTypeOK'
    BY <1>1, <1>2, <2>1, <2>2, IdleSyncDecision, Zenon DEF RevTypeOK
  <2>4. StateInFile' /\ AnswerFollows' /\ DownHoldsNothing' /\ DeniedHostedOnlyLate'
    <3>1. "idle" # "answered" /\ "idle" \notin {"record", "close"} /\ "none" # "hosted"
      OBVIOUS
    <3>2. StateInFile'
      BY <1>1, <2>1, IdleSyncDecision, NatOrder, Zenon DEF StateInFile
    <3>3. AnswerFollows'
      BY <1>2, <3>1, IdleSyncDecision, Zenon DEF AnswerFollows
    <3>4. DownHoldsNothing' /\ DeniedHostedOnlyLate'
      BY <1>2, <2>1, <3>1, Zenon DEF DownHoldsNothing, DeniedHostedOnlyLate
    <3> QED  BY <3>2, <3>3, <3>4, Zenon
  <2> QED  BY <2>1, <2>2, <2>3, <2>4, Zenon DEF RevInv
<1> QED  BY <1>3, <1>4, Zenon

LEMMA RevInvInductive ==
    /\ RevInit => RevInv
    /\ RevInv /\ [RevNext]_revVars => RevInv'
<1>1. RevInit => RevInv
  <2> SUFFICES ASSUME RevInit PROVE RevInv
    OBVIOUS
  <2>1. log \in Seq(DenyNodes) /\ Len(log) = 0
    BY DEF RevInit
  <2>2. RevTypeOK
    BY <2>1, IdleSyncDecision, Zenon DEF RevInit, RevTypeOK
  <2>3. StateInFile
    BY <2>1, IdleSyncDecision DEF RevInit, StateInFile
  <2>4. AnswerFollows /\ DownHoldsNothing /\ DeniedHostedOnlyLate
    BY IdleSyncDecision, Zenon DEF RevInit, AnswerFollows, DownHoldsNothing, DeniedHostedOnlyLate
  <2>5. denied = {}
    BY DEF RevInit
  <2> QED  BY <2>2, <2>3, <2>4, <2>5, Zenon DEF RevInv
<1>2. ASSUME RevInv, RevNext PROVE RevInv'
  BY <1>2, RevInvRevokes, RevInvDecisionArrives, RevInvRegistrations, RevInvAsks, RevInvSyncWrites,
     RevInvDecisionWrites, RevInvRecords, RevInvCloses, RevInvDecisionApplies, RevInvRestarts, Zenon
  DEF RevNext
<1>3. ASSUME RevInv, UNCHANGED revVars PROVE RevInv'
  <2>1. UNCHANGED <<log, revFile, state, sync, decision, denied, accounts, reg, running>>
    BY <1>3, Zenon DEF revVars
  <2>2. RevTypeOK' /\ StateInFile'
    BY <1>3, <2>1, Zenon DEF RevInv, RevTypeOK, StateInFile
  <2>3. ScopesOf(state)' = ScopesOf(state)
    BY <2>1, Zenon DEF ScopesOf
  <2>4. AnswerFollows'
    BY <1>3, <2>1, <2>3, Zenon DEF RevInv, AnswerFollows
  <2>5. DownHoldsNothing' /\ DeniedHostedOnlyLate'
    BY <1>3, <2>1, Zenon DEF RevInv, DownHoldsNothing, DeniedHostedOnlyLate
  <2> QED  BY <1>3, <2>1, <2>2, <2>3, <2>4, <2>5, Zenon DEF RevInv
<1> QED  BY <1>1, <1>2, <1>3, Zenon

\* Every deny the relay enforces is in its state file, wherever a write failed
\* and whatever the sync and a decision wrote in between (writeState,
\* persistDecision): loading the file denies the node again.
THEOREM DenyInForceIsOnFile == RevSpec => []DenySurvivesRestart
<1>1. RevInv => DenySurvivesRestart
  <2> SUFFICES ASSUME RevInv PROVE denied \subseteq ScopesOf(revFile)
    BY Zenon DEF DenySurvivesRestart
  <2>1. /\ state \in ControlState /\ revFile \in ControlState
        /\ state.epoch <= revFile.epoch /\ state.decisions \subseteq revFile.decisions
    BY DEF RevInv, RevTypeOK, StateInFile
  <2> QED  BY <2>1, ScopesGrow DEF RevInv
<1> QED  BY <1>1, RevInvInductive, PTL DEF RevSpec

\* A node hosted when its deny is recorded is closed by the goroutine that
\* recorded it (applyVerifiedDeny): afterwards a denied node is hosted only if
\* its registration was verified before and completed later.
THEOREM DeniedNodesAreClosed == RevSpec => []DeniedHostedOnlyLate
<1>1. RevInv => DeniedHostedOnlyLate
  BY DEF RevInv
<1> QED  BY <1>1, RevInvInductive, PTL DEF RevSpec

=============================================================================
