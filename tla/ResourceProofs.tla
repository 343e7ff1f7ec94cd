--------------------------- MODULE ResourceProofs ---------------------------
(* Counted resources, for every value of the constants: the connections of a *)
(* bridge pool, the session slots of a service, the bytes a server is charged *)
(* for.                                                                      *)
EXTENDS BridgePool, ServiceListener, Metering, FiniteSetTheorems, TLAPS

-----------------------------------------------------------------------------
(* BridgePool. PoolBounds is inductive once the pool is known to be a record *)
(* of a finite set of connections and the expander a count.                  *)

PoolType ==
    /\ pool \in [conns : SUBSET PhysConns, closed : BOOLEAN, cancelled : BOOLEAN,
                 events : Nat]
    /\ expander \in Nat

PoolInv == PoolType /\ PoolBounds

(* The connections of a pool are finitely many. *)
LEMMA ConnsFinite ==
    ASSUME NEW S \in SUBSET PhysConns
    PROVE  IsFiniteSet(S) /\ Cardinality(S) \in Nat
  BY PoolAssumption, FS_Subset, FS_CardinalityType

LEMMA PoolInitInv == PoolInit => PoolInv
<1> SUFFICES ASSUME PoolInit PROVE PoolInv
  OBVIOUS
<1>1. PICK warm \in SUBSET PhysConns :
          /\ Cardinality(warm) = minWarmConns
          /\ pool = [conns |-> warm, closed |-> FALSE, cancelled |-> FALSE, events |-> 0]
  BY Zenon DEF PoolInit
<1>2. pool.conns = warm /\ expander = 0 /\ Cardinality(warm) \in Nat
  BY <1>1, ConnsFinite DEF PoolInit
<1> QED
  BY <1>1, <1>2, PoolAssumption DEF PoolInv, PoolType, PoolBounds

(* Batch never goes past the room that is left. *)
LEMMA BatchFits ==
    ASSUME NEW events \in Nat, NEW size \in Nat, size <= poolMaxConns
    PROVE  Batch(events, size) \in Nat /\ size + Batch(events, size) <= poolMaxConns
  BY PoolAssumption DEF Batch

(* A step that leaves the connections and the expander alone, or closes the  *)
(* pool.                                                                     *)
LEMMA PoolKept ==
    ASSUME PoolInv, PoolType', pool'.closed \/ (/\ pool'.conns = pool.conns
                                                /\ pool'.closed = pool.closed
                                                /\ expander' = expander)
    PROVE  PoolInv'
  BY DEF PoolInv, PoolBounds

LEMMA MaybeExpandInv ==
    ASSUME PoolInv, MaybeExpand
    PROVE  PoolInv'
<1> DEFINE size == Cardinality(pool.conns)
<1>1. size \in Nat /\ pool.events \in Nat
  BY ConnsFinite DEF PoolInv, PoolType
<1>2. expander' = Batch(pool.events, size) /\ size < poolMaxConns /\ ~pool.closed
  BY DEF MaybeExpand
<1>3. expander' \in Nat /\ size + expander' <= poolMaxConns
  <2>1. size <= poolMaxConns
    BY <1>1, <1>2, PoolAssumption
  <2> HIDE DEF size
  <2> QED
    BY <1>1, <1>2, <2>1, BatchFits
<1>4. PoolType' /\ pool'.conns = pool.conns
  <2> DEFINE events == IF pool.events < burstTriggerCount THEN pool.events + 1 ELSE pool.events
  <2>1. events \in Nat
    BY <1>1
  <2>2. pool' = [pool EXCEPT !.events = events]
    BY DEF MaybeExpand
  <2> HIDE DEF events
  <2> QED
    BY <1>3, <2>1, <2>2 DEF PoolInv, PoolType
<1> QED
  BY <1>2, <1>3, <1>4 DEF PoolInv, PoolBounds

LEMMA AddPhysConnInv ==
    ASSUME PoolInv, NEW c \in PhysConns, AddPhysConn(c)
    PROVE  PoolInv'
<1>1. pool.conns \in SUBSET PhysConns /\ c \notin pool.conns
  BY DEF PoolInv, PoolType, AddPhysConn, Fresh
<1>2. /\ Cardinality(pool.conns \cup {c}) = Cardinality(pool.conns) + 1
      /\ Cardinality(pool.conns) \in Nat
  BY <1>1, ConnsFinite, FS_AddElement
<1>3. /\ pool'.conns = pool.conns \cup {c} /\ pool'.closed = pool.closed
      /\ expander' = expander - 1 /\ expander > 0
  BY DEF PoolInv, PoolType, AddPhysConn
<1>4. PoolType'
  <2>1. expander' \in Nat
    BY <1>3 DEF PoolInv, PoolType
  <2>2. pool' \in [conns : SUBSET PhysConns, closed : BOOLEAN, cancelled : BOOLEAN, events : Nat]
    BY DEF PoolInv, PoolType, AddPhysConn
  <2> QED
    BY <2>1, <2>2 DEF PoolType
<1>5. PoolBounds'
  BY <1>2, <1>3, PoolAssumption DEF PoolInv, PoolType, PoolBounds
<1> QED
  BY <1>4, <1>5 DEF PoolInv

LEMMA ReapOnceInv ==
    ASSUME PoolInv, NEW victims \in SUBSET PhysConns, ReapOnce(victims)
    PROVE  PoolInv'
<1>1. pool.conns \in SUBSET PhysConns /\ victims \in SUBSET pool.conns
  BY DEF PoolInv, PoolType, ReapOnce
<1>2. /\ pool'.conns = pool.conns \ victims /\ pool'.closed = pool.closed
      /\ expander' = expander /\ ~pool.closed
  BY DEF PoolInv, PoolType, ReapOnce
<1>3. PoolType'
  BY DEF PoolInv, PoolType, ReapOnce
<1>4. CASE victims = {}
  BY <1>2, <1>3, <1>4, PoolKept
<1>5. CASE victims # {}
  <2>1. Cardinality(victims) <= Cardinality(pool.conns) - minWarmConns
    BY <1>5 DEF ReapOnce, ReapBudget
  <2>2. pool.conns \cap victims = victims
    BY <1>1
  <2>3. /\ Cardinality(pool.conns \ victims) = Cardinality(pool.conns) - Cardinality(victims)
        /\ Cardinality(pool.conns) \in Nat /\ Cardinality(victims) \in Nat
    BY <1>1, <2>2, ConnsFinite, FS_Difference, Zenon
  <2>4. PoolBounds'
    BY <1>2, <2>1, <2>3, PoolAssumption DEF PoolInv, PoolType, PoolBounds
  <2> QED
    BY <1>3, <2>4 DEF PoolInv
<1> QED
  BY <1>4, <1>5

LEMMA PoolNextInv == PoolInv /\ [PoolNext]_poolVars => PoolInv'
<1> SUFFICES ASSUME PoolInv, [PoolNext]_poolVars PROVE PoolInv'
  OBVIOUS
<1>1. CASE UNCHANGED <<pool, expander>>
  <2>1. PoolType'
    BY <1>1 DEF PoolInv, PoolType
  <2> QED
    BY <1>1, <2>1, PoolKept
<1>2. CASE \E c \in PhysConns : AddPhysConn(c)
  BY <1>2, AddPhysConnInv
<1>3. CASE MaybeExpand
  BY <1>3, MaybeExpandInv
<1>4. CASE WindowSlides
  <2> DEFINE events == pool.events - 1
  <2>1. events \in Nat
    BY <1>4 DEF WindowSlides, PoolInv, PoolType
  <2>2. pool' = [pool EXCEPT !.events = events] /\ expander' = expander
    BY <1>4 DEF WindowSlides
  <2> HIDE DEF events
  <2>3. PoolType' /\ pool'.conns = pool.conns /\ pool'.closed = pool.closed
    BY <2>1, <2>2 DEF PoolInv, PoolType
  <2> QED
    BY <2>2, <2>3, PoolKept
<1>5. CASE \E victims \in SUBSET PhysConns : ReapOnce(victims)
  BY <1>5, ReapOnceInv
<1>6. CASE ClosePool
  <2>1. PoolType' /\ pool'.closed
    BY <1>6, Zenon DEF ClosePool, PoolInv, PoolType
  <2> QED
    BY <2>1, PoolKept
<1>7. CASE CancelPool
  <2>1. PoolType' /\ pool'.conns = pool.conns /\ pool'.closed = pool.closed
        /\ expander' = expander
    BY <1>7, Zenon DEF CancelPool, PoolInv, PoolType
  <2> QED
    BY <2>1, PoolKept
<1>8. CASE \E c \in PhysConns : \/ Dials(c) \/ DialFails(c) \/ DialSucceeds(c) \/ ContextDone(c)
                                \/ SessionBreaks(c) \/ Redials(c) \/ ManageEnds(c)
                                \/ ClosePhysConn(c) \/ PickLeastLoaded(c) \/ OpenStream(c)
                                \/ CloseStream(c)
  <2>1. UNCHANGED <<pool, expander>>
    BY <1>8 DEF Dials, DialFails, DialSucceeds, ContextDone, SessionBreaks, Redials, ManageEnds,
                ClosePhysConn, PickLeastLoaded, OpenStream, CloseStream
  <2> QED
    BY <1>1, <2>1, Zenon
<1>9. CASE UNCHANGED poolVars
  BY <1>1, <1>9 DEF poolVars
<1> QED
  BY <1>2, <1>3, <1>4, <1>5, <1>6, <1>7, <1>8, <1>9 DEF PoolNext

(* An open pool has at least its warm connections and, with those it is      *)
(* about to add, at most poolMaxConns, however maybeExpand, which adds after *)
(* the lock is released, reapOnce, dying connections and Close interleave.   *)
THEOREM PoolStaysWithinBounds == PoolSpec => []PoolBounds
<1>1. PoolInv => PoolBounds
  BY DEF PoolInv
<1> QED
  BY <1>1, PoolInitInv, PoolNextInv, PTL DEF PoolSpec

-----------------------------------------------------------------------------
(* ServiceListener. The count of the slots is kept only because a session in *)
(* the table is never also pending, because whoever drains the table does so *)
(* once before the slots are released, and because Close leaves nothing a    *)
(* late goroutine could still activate.                                      *)

Served == [c : SvcCarriers \cup {"none"}, mux : Nat]
CarrierState == [mux : Nat, gen : Nat, done : BOOLEAN, registered : BOOLEAN,
                 pc : {"watch", "drop", "retry", "install", "end"}]
WorkState == [pc : {"none", "arrived", "handshake", "release", "queue"},
              id : SvcIds \cup {"none"}, s : Served]
ListenerState == [pc : {"open", "drain", "entries", "closed", "panic"},
                  left : SUBSET SvcCarriers, entry : SvcCarriers \cup {"none"}]

SvcTypeOK ==
    /\ carrier \in [SvcCarriers -> CarrierState]
    /\ work \in [SvcWorkers -> WorkState]
    /\ sessions \in Nat
    /\ svcActive \in [SvcIds -> Served]
    /\ svcPending \in [SvcIds -> Served]
    /\ retired \in SUBSET SvcIds
    /\ drained \in [Owners -> SUBSET SvcIds]
    /\ listener \in ListenerState

\* A goroutine works for a connection of a carrier.
WorkersKnown ==
    \A w \in SvcWorkers :
        work[w].pc # "none" => work[w].id \in SvcIds /\ work[w].s.c \in SvcCarriers

\* Sessions are on their way out only between the two halves of clearCarrier
\* and of Close.
DrainsOwned ==
    /\ \A c \in SvcCarriers : carrier[c].pc # "drop" => drained[c] = {}
    /\ listener.pc \notin {"drain", "panic"} => drained["close"] = {}

\* While the listener is open, a handshake is the pending one of its id.
HandshakesPending ==
    ~SvcClosed =>
        \A w \in SvcWorkers : work[w].pc = "handshake" =>
            /\ svcPending[work[w].id] = work[w].s
            /\ \A v \in SvcWorkers : work[v].pc = "handshake" /\ work[v].id = work[w].id => v = w

\* Close leaves no session behind, and looks at a carrier only afterwards.
ClosedIsEmpty ==
    /\ SvcClosed => Ids(svcActive) = {} /\ Ids(svcPending) = {}
    /\ listener.entry \in SvcCarriers => listener.pc \in {"drain", "entries"}

\* Close has waited for the goroutines, and none begins afterwards.
ClosedWaited ==
    listener.pc = "closed" => \A w \in SvcWorkers : work[w].pc \in {"none", "arrived"}

\* The goroutines that hold a slot, and the sessions on their way out.
Busy(f) == {w \in SvcWorkers : f[w].pc \in {"handshake", "release"}}
DrainPairs(f) == UNION {{<<o, id>> : id \in f[o]} : o \in Owners}

SlotsCounted ==
    /\ sessions = Cardinality(Busy(work)) + Cardinality(Ids(svcActive))
                    + Cardinality(DrainPairs(drained))
    /\ sessions <= maxSessions

\* An id is active, pending or retired, one at a time.
TablesExclusive ==
    \A id \in SvcIds :
        /\ svcActive[id] # NotServed => svcPending[id] = NotServed /\ id \notin retired
        /\ svcPending[id] # NotServed => id \notin retired

SvcInv ==
    /\ SvcTypeOK /\ SlotsCounted /\ TablesExclusive
    /\ WorkersKnown /\ DrainsOwned /\ HandshakesPending /\ ClosedIsEmpty

LEMMA OwnersFacts ==
    /\ IsFiniteSet(Owners) /\ SvcCarriers \subseteq Owners /\ "close" \in Owners
    /\ "close" \notin SvcCarriers /\ "none" \notin SvcCarriers
<1>1. IsFiniteSet(SvcCarriers \cup {"close"})
  BY SvcAssumption, FS_AddElement
<1> QED
  BY <1>1, SvcAssumption DEF Owners

LEMMA SubsetFinite ==
    ASSUME NEW S, NEW T, IsFiniteSet(T), S \subseteq T
    PROVE  IsFiniteSet(S) /\ Cardinality(S) \in Nat
  BY FS_Subset, FS_CardinalityType

LEMMA BusyFinite ==
    ASSUME NEW f
    PROVE  IsFiniteSet(Busy(f)) /\ Cardinality(Busy(f)) \in Nat
<1>1. Busy(f) \subseteq SvcWorkers
  BY DEF Busy
<1> QED
  BY <1>1, SubsetFinite, SvcAssumption

LEMMA IdsFinite ==
    ASSUME NEW f
    PROVE  IsFiniteSet(Ids(f)) /\ Cardinality(Ids(f)) \in Nat
<1>1. Ids(f) \subseteq SvcIds
  BY DEF Ids
<1> QED
  BY <1>1, SubsetFinite, SvcAssumption

LEMMA InDrainPairs ==
    ASSUME NEW f, NEW x
    PROVE  x \in DrainPairs(f) <=> \E o \in Owners : \E id \in f[o] : x = <<o, id>>
  BY DEF DrainPairs

LEMMA DrainPairsFinite ==
    ASSUME NEW f \in [Owners -> SUBSET SvcIds]
    PROVE  IsFiniteSet(DrainPairs(f)) /\ Cardinality(DrainPairs(f)) \in Nat
<1>1. IsFiniteSet(Owners \X SvcIds)
  BY OwnersFacts, SvcAssumption, FS_Product
<1>2. DrainPairs(f) \subseteq Owners \X SvcIds
  BY DEF DrainPairs
<1> QED
  BY <1>1, <1>2, SubsetFinite

\* What an owner drains is counted once.
LEMMA DrainCounts ==
    ASSUME NEW f \in [Owners -> SUBSET SvcIds], NEW o \in Owners, NEW S \in SUBSET SvcIds,
           f[o] = {}
    PROVE  /\ Cardinality(DrainPairs([f EXCEPT ![o] = S])) = Cardinality(DrainPairs(f)) + Cardinality(S)
           /\ Cardinality(S) \in Nat /\ Cardinality(DrainPairs(f)) \in Nat
<1> DEFINE g == [f EXCEPT ![o] = S]
           mine == {o} \X S
<1>1. IsFiniteSet(S) /\ Cardinality(S) \in Nat
  BY SubsetFinite, SvcAssumption
<1>2. IsFiniteSet({o}) /\ Cardinality({o}) = 1
  BY FS_Singleton
<1>3. IsFiniteSet(mine) /\ Cardinality(mine) = Cardinality(S)
  BY <1>1, <1>2, FS_Product
<1>4. DrainPairs(g) = DrainPairs(f) \cup mine
  <2>1. \A p \in Owners : p # o => g[p] = f[p]
    OBVIOUS
  <2>2. g[o] = S
    OBVIOUS
  <2> HIDE DEF g
  <2>3. ASSUME NEW x \in DrainPairs(g) PROVE x \in DrainPairs(f) \cup mine
    <3>1. PICK p \in Owners : \E id \in g[p] : x = <<p, id>>
      BY <2>3, InDrainPairs
    <3> PICK id \in g[p] : x = <<p, id>>
      BY <3>1
    <3>2. CASE p = o
      BY <3>1, <3>2, <2>2
    <3>3. CASE p # o
      <4>1. id \in f[p]
        BY <3>1, <3>3, <2>1
      <4> QED
        BY <3>1, <4>1, InDrainPairs, Zenon
    <3> QED
      BY <3>2, <3>3
  <2>4. ASSUME NEW x \in DrainPairs(f) PROVE x \in DrainPairs(g)
    <3>1. PICK p \in Owners : \E id \in f[p] : x = <<p, id>>
      BY <2>4, InDrainPairs
    <3> PICK id \in f[p] : x = <<p, id>>
      BY <3>1
    <3>2. p # o
      BY <3>1
    <3>3. id \in g[p]
      BY <3>1, <3>2, <2>1
    <3> QED
      BY <3>1, <3>3, InDrainPairs, Zenon
  <2>5. ASSUME NEW x \in mine PROVE x \in DrainPairs(g)
    <3>1. PICK id \in S : x = <<o, id>>
      BY <2>5
    <3> QED
      BY <3>1, <2>2, InDrainPairs, Zenon
  <2> QED
    BY <2>3, <2>4, <2>5, Zenon
<1>5. DrainPairs(f) \cap mine = {}
  BY DEF DrainPairs
<1>6. IsFiniteSet(DrainPairs(f)) /\ Cardinality(DrainPairs(f)) \in Nat
  BY DrainPairsFinite
<1>7. Cardinality(DrainPairs(f) \cap mine) = 0
  BY <1>5, FS_EmptySet
<1> HIDE DEF g, mine
<1>8. Cardinality(DrainPairs(g)) = Cardinality(DrainPairs(f)) + Cardinality(mine)
  <2>1. Cardinality(DrainPairs(f) \cup mine) = Cardinality(DrainPairs(f)) + Cardinality(mine)
                                                  - Cardinality(DrainPairs(f) \cap mine)
    BY <1>3, <1>6, FS_Union, Zenon
  <2> QED
    BY <1>1, <1>3, <1>4, <1>6, <1>7, <2>1
<1> QED
  BY <1>1, <1>3, <1>6, <1>8 DEF g

LEMMA SlotsOf ==
    ASSUME SvcInv
    PROVE  /\ sessions = Cardinality(Busy(work)) + Cardinality(Ids(svcActive))
                           + Cardinality(DrainPairs(drained))
           /\ Cardinality(Busy(work)) \in Nat /\ Cardinality(Ids(svcActive)) \in Nat
           /\ Cardinality(DrainPairs(drained)) \in Nat
  BY BusyFinite, IdsFinite, DrainPairsFinite DEF SvcInv, SvcTypeOK, SlotsCounted

\* An owner that held sessions back releases as many slots as it held.
LEMMA DrainReleases ==
    ASSUME SvcInv, NEW o \in Owners
    PROVE  LET g == [drained EXCEPT ![o] = {}] IN
           /\ g \in [Owners -> SUBSET SvcIds]
           /\ Released(Cardinality(drained[o])) = sessions - Cardinality(drained[o])
           /\ Released(Cardinality(drained[o])) =
                Cardinality(Busy(work)) + Cardinality(Ids(svcActive)) + Cardinality(DrainPairs(g))
           /\ Released(Cardinality(drained[o])) \in Nat
           /\ Cardinality(drained[o]) \in Nat
<1> DEFINE g == [drained EXCEPT ![o] = {}]
<1>1. drained \in [Owners -> SUBSET SvcIds] /\ sessions \in Nat
  BY DEF SvcInv, SvcTypeOK
<1>2. g \in [Owners -> SUBSET SvcIds] /\ g[o] = {} /\ [g EXCEPT ![o] = drained[o]] = drained
  BY <1>1, Zenon
<1> HIDE DEF g
<1>3. /\ Cardinality(DrainPairs(drained)) = Cardinality(DrainPairs(g)) + Cardinality(drained[o])
      /\ Cardinality(drained[o]) \in Nat /\ Cardinality(DrainPairs(g)) \in Nat
  BY <1>1, <1>2, DrainCounts
<1>4. Released(Cardinality(drained[o])) = sessions - Cardinality(drained[o])
  BY <1>3, SlotsOf DEF Released
<1> QED
  BY <1>1, <1>2, <1>3, <1>4, SlotsOf DEF g

\* The slots as the invariant counts them are the slots of SessionsServedOnce,
\* and one handshake at a time follows from the pending table.
LEMMA SvcInvImplies == SvcInv /\ ClosedWaited => SessionsServedOnce
<1> SUFFICES ASSUME SvcInv, ClosedWaited PROVE SessionsServedOnce
  OBVIOUS
<1>1. SessionSlotsExact
  BY DEF SvcInv, SlotsCounted, DrainsOwned, ClosedIsEmpty, SvcClosed, ClosedWaited,
         SessionSlotsExact, Busy, DrainPairs
<1>2. ASSUME NEW id \in SvcIds, ~SvcClosed
      PROVE  Cardinality({w \in SvcWorkers : work[w].id = id /\ work[w].pc = "handshake"}) <= 1
  <2> DEFINE S == {w \in SvcWorkers : work[w].id = id /\ work[w].pc = "handshake"}
  <2> SUFFICES Cardinality(S) <= 1
    OBVIOUS
  <2>1. CASE S = {}
    BY <2>1, FS_EmptySet
  <2>2. CASE S # {}
    <3>1. PICK w : w \in S
      BY <2>2
    <3>2. S = {w}
      BY <1>2, <3>1 DEF SvcInv, HandshakesPending
    <3>3. Cardinality({w}) = 1
      BY FS_Singleton, Zenon
    <3>4. Cardinality(S) = 1
      BY <3>2, <3>3, Zenon
    <3> HIDE DEF S
    <3> QED
      BY <3>4
  <2> QED
    BY <2>1, <2>2
<1>3. ServedOnce
  BY <1>2 DEF SvcInv, TablesExclusive, ServedOnce
<1> QED
  BY <1>1, <1>3 DEF SessionsServedOnce

LEMMA SvcInitInv == SvcInit => SvcInv
<1> SUFFICES ASSUME SvcInit PROVE SvcInv
  OBVIOUS
<1> USE DEF SvcInit
<1>1. SvcTypeOK
  BY SvcAssumption DEF SvcTypeOK, Served, CarrierState, WorkState, ListenerState, NotServed,
                       NoWork, Owners
<1>2. Ids(svcActive) = {} /\ Ids(svcPending) = {}
  BY DEF Ids
<1>3. Busy(work) = {} /\ DrainPairs(drained) = {}
  BY DEF Busy, DrainPairs, NoWork
<1>4. SlotsCounted
  <2>1. /\ Cardinality(Busy(work)) = 0 /\ Cardinality(Ids(svcActive)) = 0
        /\ Cardinality(DrainPairs(drained)) = 0
    BY <1>2, <1>3, FS_EmptySet, Zenon
  <2>2. sessions = 0
    OBVIOUS
  <2> HIDE DEF SvcInit
  <2> QED
    BY <2>1, <2>2, SvcAssumption DEF SlotsCounted
<1>5. TablesExclusive
  BY DEF TablesExclusive
<1>6. WorkersKnown /\ HandshakesPending
  BY DEF WorkersKnown, HandshakesPending, NoWork
<1>7. DrainsOwned
  BY OwnersFacts DEF DrainsOwned
<1>8. ClosedIsEmpty
  BY <1>2, OwnersFacts DEF ClosedIsEmpty, SvcClosed
<1> QED
  BY <1>1, <1>4, <1>5, <1>6, <1>7, <1>8, Zenon DEF SvcInv

\* A step that changes only a carrier, or the progress of Close.
LEMMA QuietStep ==
    ASSUME SvcInv, SvcTypeOK',
           UNCHANGED <<work, sessions, svcActive, svcPending, retired, drained>>,
           SvcClosed' <=> SvcClosed, DrainsOwned', ClosedIsEmpty'
    PROVE  SvcInv'
<1>1. SlotsCounted' /\ TablesExclusive' /\ WorkersKnown'
  BY DEF SvcInv, SlotsCounted, TablesExclusive, WorkersKnown, Busy, Ids, DrainPairs
<1>2. HandshakesPending'
  BY DEF SvcInv, HandshakesPending
<1> QED
  BY <1>1, <1>2 DEF SvcInv

\* A step that changes only carriers, not into or out of clearCarrier.
LEMMA CarrierStep ==
    ASSUME SvcInv,
           carrier' \in [SvcCarriers -> CarrierState],
           \A c \in SvcCarriers : carrier'[c].pc # "drop" => carrier[c].pc # "drop",
           UNCHANGED <<work, sessions, svcActive, svcPending, retired, drained, listener>>
    PROVE  SvcInv'
<1>1. SvcTypeOK'
  BY DEF SvcInv, SvcTypeOK
<1>2. SvcClosed' <=> SvcClosed
  BY DEF SvcClosed
<1>3. DrainsOwned'
  BY DEF SvcInv, DrainsOwned
<1>4. ClosedIsEmpty'
  BY DEF SvcInv, ClosedIsEmpty, SvcClosed, Ids
<1> QED
  BY <1>1, <1>2, <1>3, <1>4, QuietStep

LEMMA RegistersInv ==
    ASSUME SvcInv, NEW c \in SvcCarriers, Registers(c) \/ Installs(c) \/ MuxEnds(c) \/ MaintainEnds(c)
    PROVE  SvcInv'
<1>1. carrier \in [SvcCarriers -> CarrierState] /\ carrier[c] \in CarrierState
  BY DEF SvcInv, SvcTypeOK
<1>2. PICK r \in CarrierState :
          /\ carrier' = [carrier EXCEPT ![c] = r]
          /\ r.pc # "drop" => carrier[c].pc # "drop"
  <2>1. CASE Registers(c)
    <3> DEFINE r == [carrier[c] EXCEPT !.pc = "install", !.registered = TRUE]
    <3>1. r \in CarrierState /\ carrier' = [carrier EXCEPT ![c] = r] /\ carrier[c].pc # "drop"
      BY <1>1, <2>1, Zenon DEF Registers, CarrierState
    <3> QED
      BY <3>1, Zenon
  <2>2. CASE Installs(c)
    <3> DEFINE r == IF SvcClosed THEN [carrier[c] EXCEPT !.pc = "end", !.registered = FALSE]
                    ELSE [carrier[c] EXCEPT !.pc = "watch", !.mux = carrier[c].gen + 1,
                                            !.gen = @ + 1, !.done = FALSE]
    <3>1. r \in CarrierState
      <4> DEFINE n == carrier[c].gen + 1
      <4>1. n \in Nat
        BY <1>1 DEF CarrierState
      <4> HIDE DEF n
      <4>2. [carrier[c] EXCEPT !.pc = "watch", !.mux = n, !.gen = n, !.done = FALSE] \in CarrierState
        BY <1>1, <4>1, Zenon DEF CarrierState
      <4>3. [carrier[c] EXCEPT !.pc = "end", !.registered = FALSE] \in CarrierState
        BY <1>1, Zenon DEF CarrierState
      <4> QED
        BY <4>2, <4>3 DEF n
    <3>2. carrier' = [carrier EXCEPT ![c] = r] /\ carrier[c].pc # "drop"
      BY <2>2 DEF Installs
    <3> HIDE DEF r
    <3> QED
      BY <3>1, <3>2, Zenon
  <2>3. CASE MuxEnds(c)
    <3> DEFINE r == [carrier[c] EXCEPT !.done = TRUE]
    <3>1. r \in CarrierState /\ carrier' = [carrier EXCEPT ![c] = r] /\ r.pc = carrier[c].pc
      BY <1>1, <2>3, Zenon DEF MuxEnds, CarrierState
    <3> QED
      BY <3>1, Zenon
  <2>4. CASE MaintainEnds(c)
    <3> DEFINE r == [carrier[c] EXCEPT !.pc = "end"]
    <3>1. r \in CarrierState /\ carrier' = [carrier EXCEPT ![c] = r] /\ carrier[c].pc # "drop"
      BY <1>1, <2>4 DEF MaintainEnds, CarrierState
    <3> QED
      BY <3>1, Zenon
  <2> QED
    BY <2>1, <2>2, <2>3, <2>4
<1>3. carrier' \in [SvcCarriers -> CarrierState]
  BY <1>1, <1>2
<1>4. \A d \in SvcCarriers : carrier'[d].pc # "drop" => carrier[d].pc # "drop"
  BY <1>1, <1>2
<1>5. UNCHANGED <<work, sessions, svcActive, svcPending, retired, drained, listener>>
  BY DEF Registers, Installs, MuxEnds, MaintainEnds
<1> QED
  BY <1>3, <1>4, <1>5, CarrierStep

\* The first half of clearCarrier moves the carrier's sessions from the table
\* to its owner's hands; no slot changes.
LEMMA ClearCarrierInv ==
    ASSUME SvcInv, NEW c \in SvcCarriers, ClearCarrier(c)
    PROVE  SvcInv'
<1> DEFINE mine == {id \in SvcIds : svcActive[id].c = c}
<1>1. /\ svcActive' = [id \in SvcIds |-> IF id \in mine THEN NotServed ELSE svcActive[id]]
      /\ retired' = retired \cup mine /\ drained' = [drained EXCEPT ![c] = mine]
      /\ carrier[c].pc = "watch"
      /\ UNCHANGED <<work, sessions, svcPending, listener>>
  BY DEF ClearCarrier
<1>2. carrier' = [carrier EXCEPT ![c] = [carrier[c] EXCEPT !.pc = "drop", !.mux = 0]]
  BY Zenon DEF ClearCarrier, SvcInv, SvcTypeOK, CarrierState
<1>3. /\ svcActive \in [SvcIds -> Served] /\ drained \in [Owners -> SUBSET SvcIds]
      /\ c \in Owners /\ c # "none" /\ c # "close" /\ drained[c] = {}
  BY <1>1, OwnersFacts DEF SvcInv, SvcTypeOK, DrainsOwned
<1>4. mine \subseteq Ids(svcActive) /\ mine \in SUBSET SvcIds /\ Ids(svcActive') = Ids(svcActive) \ mine
  BY <1>1, <1>3 DEF Ids, NotServed
<1>5. SvcTypeOK'
  <2>1. carrier' \in [SvcCarriers -> CarrierState]
    <3>1. carrier[c] \in CarrierState
      BY DEF SvcInv, SvcTypeOK
    <3>2. [carrier[c] EXCEPT !.pc = "drop", !.mux = 0] \in CarrierState
      BY <3>1, Zenon DEF CarrierState
    <3> QED
      BY <1>2, <3>2 DEF SvcInv, SvcTypeOK
  <2>2. NotServed \in Served
    BY DEF NotServed, Served
  <2> HIDE DEF mine
  <2>3. svcActive' \in [SvcIds -> Served]
    BY <1>1, <1>3, <2>2
  <2>4. retired' \in SUBSET SvcIds /\ drained' \in [Owners -> SUBSET SvcIds]
    BY <1>1, <1>3, <1>4, Zenon DEF SvcInv, SvcTypeOK
  <2> QED
    BY <1>1, <2>1, <2>3, <2>4 DEF SvcInv, SvcTypeOK
<1>6. SlotsCounted'
  <2> HIDE DEF mine
  <2>1. IsFiniteSet(Ids(svcActive)) /\ Cardinality(Ids(svcActive)) \in Nat
    BY IdsFinite
  <2>2. /\ Cardinality(DrainPairs(drained')) = Cardinality(DrainPairs(drained)) + Cardinality(mine)
        /\ Cardinality(mine) \in Nat /\ Cardinality(DrainPairs(drained)) \in Nat
    BY <1>1, <1>3, <1>4, DrainCounts, Zenon
  <2>3. Ids(svcActive) \cap mine = mine
    BY <1>4
  <2>4. Cardinality(Ids(svcActive')) = Cardinality(Ids(svcActive)) - Cardinality(mine)
    BY <1>4, <2>1, <2>3, FS_Difference, Zenon
  <2>5. Busy(work') = Busy(work) /\ Cardinality(Busy(work)) \in Nat
    BY <1>1, BusyFinite
  <2> QED
    BY <1>1, <2>1, <2>2, <2>4, <2>5 DEF SvcInv, SlotsCounted
<1>7. TablesExclusive'
  BY <1>1, <1>3, <1>4 DEF SvcInv, TablesExclusive, Ids
<1>8. WorkersKnown' /\ HandshakesPending'
  BY <1>1 DEF SvcInv, WorkersKnown, HandshakesPending, SvcClosed
<1>9. DrainsOwned'
  <2>1. drained'["close"] = drained["close"]
    BY <1>1, <1>3, OwnersFacts
  <2>2. \A d \in SvcCarriers : carrier'[d].pc # "drop" => d # c /\ carrier[d].pc # "drop"
    BY <1>2 DEF SvcInv, SvcTypeOK, CarrierState
  <2>3. \A d \in SvcCarriers : d # c => drained'[d] = drained[d]
    BY <1>1, <1>3, OwnersFacts
  <2> QED
    BY <1>1, <2>1, <2>2, <2>3, Zenon DEF SvcInv, DrainsOwned
<1>10. ClosedIsEmpty'
  BY <1>1, <1>4 DEF SvcInv, ClosedIsEmpty, SvcClosed
<1> QED
  BY <1>5, <1>6, <1>7, <1>8, <1>9, <1>10 DEF SvcInv

\* The second half releases them.
LEMMA DropCarrierInv ==
    ASSUME SvcInv, NEW c \in SvcCarriers, DropCarrier(c)
    PROVE  SvcInv'
<1>1. /\ sessions' = Released(Cardinality(drained[c])) /\ drained' = [drained EXCEPT ![c] = {}]
      /\ UNCHANGED <<work, svcActive, svcPending, retired, listener>>
  BY DEF DropCarrier
<1>2. carrier' = [carrier EXCEPT ![c] = [carrier[c] EXCEPT !.pc = "retry", !.registered = FALSE]]
  BY Zenon DEF DropCarrier, SvcInv, SvcTypeOK, CarrierState
<1>3. c \in Owners /\ c # "close" /\ drained \in [Owners -> SUBSET SvcIds]
  BY OwnersFacts DEF SvcInv, SvcTypeOK
<1>4. /\ drained' \in [Owners -> SUBSET SvcIds] /\ sessions' \in Nat
      /\ sessions' = sessions - Cardinality(drained[c]) /\ Cardinality(drained[c]) \in Nat
      /\ sessions' = Cardinality(Busy(work)) + Cardinality(Ids(svcActive)) + Cardinality(DrainPairs(drained'))
  BY <1>1, <1>3, DrainReleases, Zenon
<1>5. SvcTypeOK'
  <2>1. carrier' \in [SvcCarriers -> CarrierState]
    <3>1. carrier[c] \in CarrierState
      BY DEF SvcInv, SvcTypeOK
    <3>2. [carrier[c] EXCEPT !.pc = "retry", !.registered = FALSE] \in CarrierState
      BY <3>1, Zenon DEF CarrierState
    <3> QED
      BY <1>2, <3>2 DEF SvcInv, SvcTypeOK
  <2> QED
    BY <1>1, <1>4, <2>1 DEF SvcInv, SvcTypeOK
<1>6. SlotsCounted'
  <2>1. sessions \in Nat /\ sessions <= maxSessions
    BY DEF SvcInv, SvcTypeOK, SlotsCounted
  <2> QED
    BY <1>1, <1>4, <2>1, SvcAssumption DEF SlotsCounted
<1>7. TablesExclusive' /\ WorkersKnown' /\ HandshakesPending'
  BY <1>1 DEF SvcInv, TablesExclusive, WorkersKnown, HandshakesPending, SvcClosed
<1>8. DrainsOwned'
  <2>1. drained'["close"] = drained["close"] /\ drained'[c] = {}
    BY <1>1, <1>3, OwnersFacts
  <2>2. \A d \in SvcCarriers : d # c => drained'[d] = drained[d] /\ carrier'[d] = carrier[d]
    BY <1>1, <1>2, <1>3, OwnersFacts, Zenon DEF SvcInv, SvcTypeOK
  <2> QED
    BY <1>1, <2>1, <2>2 DEF SvcInv, DrainsOwned
<1>9. ClosedIsEmpty'
  BY <1>1 DEF SvcInv, ClosedIsEmpty, SvcClosed, Ids
<1> QED
  BY <1>5, <1>6, <1>7, <1>8, <1>9 DEF SvcInv

\* Close takes what is in the tables; a late goroutine finds nothing there.
LEMMA SvcClosesInv ==
    ASSUME SvcInv, SvcCloses
    PROVE  SvcInv'
<1>1. /\ listener.pc = "open" /\ listener' = [pc |-> "drain", left |-> SvcCarriers, entry |-> "none"]
      /\ drained' = [drained EXCEPT !["close"] = Ids(svcActive)]
      /\ svcActive' = [id \in SvcIds |-> NotServed] /\ svcPending' = [id \in SvcIds |-> NotServed]
      /\ retired' = {} /\ UNCHANGED <<carrier, work, sessions>>
  BY DEF SvcCloses
<1>2. /\ drained \in [Owners -> SUBSET SvcIds] /\ drained["close"] = {} /\ "close" \in Owners
      /\ Ids(svcActive) \in SUBSET SvcIds
  BY <1>1, OwnersFacts DEF SvcInv, SvcTypeOK, DrainsOwned, Ids
<1>3. Ids(svcActive') = {} /\ Ids(svcPending') = {}
  BY <1>1 DEF Ids
<1>4. SvcTypeOK'
  <2>1. NotServed \in Served
    BY DEF NotServed, Served
  <2>2. drained' \in [Owners -> SUBSET SvcIds]
    BY <1>1, <1>2
  <2> QED
    BY <1>1, <2>1, <2>2 DEF SvcInv, SvcTypeOK, ListenerState
<1>5. SlotsCounted'
  <2>1. /\ Cardinality(DrainPairs(drained')) = Cardinality(DrainPairs(drained)) + Cardinality(Ids(svcActive))
        /\ Cardinality(Ids(svcActive)) \in Nat /\ Cardinality(DrainPairs(drained)) \in Nat
    BY <1>1, <1>2, DrainCounts, Zenon
  <2>2. Cardinality(Ids(svcActive')) = 0
    BY <1>3, FS_EmptySet
  <2>3. Busy(work') = Busy(work) /\ Cardinality(Busy(work)) \in Nat
    BY <1>1, BusyFinite
  <2> QED
    BY <1>1, <2>1, <2>2, <2>3 DEF SvcInv, SlotsCounted
<1>6. TablesExclusive' /\ WorkersKnown'
  BY <1>1, Zenon DEF SvcInv, TablesExclusive, WorkersKnown
<1>7. SvcClosed' /\ HandshakesPending' /\ ClosedIsEmpty'
  BY <1>1, <1>3, OwnersFacts, Zenon DEF SvcClosed, HandshakesPending, ClosedIsEmpty
<1>8. DrainsOwned'
  BY <1>1, <1>2, OwnersFacts DEF SvcInv, DrainsOwned
<1> QED
  BY <1>4, <1>5, <1>6, <1>7, <1>8 DEF SvcInv

LEMMA CloseDrainedInv ==
    ASSUME SvcInv, CloseDrained
    PROVE  SvcInv'
<1>1. /\ listener.pc = "drain" /\ listener.entry = "none"
      /\ listener' = [listener EXCEPT !.pc = "entries", !.left = SvcCarriers]
      /\ sessions' = Released(Cardinality(drained["close"]))
      /\ drained' = [drained EXCEPT !["close"] = {}]
      /\ UNCHANGED <<work, svcActive, svcPending, retired>>
  BY DEF CloseDrained
<1>2. carrier' \in [SvcCarriers -> CarrierState]
      /\ \A c \in SvcCarriers : carrier'[c].pc = carrier[c].pc
  BY Zenon DEF CloseDrained, SvcInv, SvcTypeOK
<1>3. "close" \in Owners /\ drained \in [Owners -> SUBSET SvcIds]
  BY OwnersFacts DEF SvcInv, SvcTypeOK
<1>4. /\ drained' \in [Owners -> SUBSET SvcIds] /\ sessions' \in Nat
      /\ sessions' = sessions - Cardinality(drained["close"]) /\ Cardinality(drained["close"]) \in Nat
      /\ sessions' = Cardinality(Busy(work)) + Cardinality(Ids(svcActive)) + Cardinality(DrainPairs(drained'))
  BY <1>1, <1>3, DrainReleases, Zenon
<1>5. SvcTypeOK'
  <2>1. listener' \in ListenerState
    BY <1>1, Zenon DEF SvcInv, SvcTypeOK, ListenerState
  <2> QED
    BY <1>1, <1>2, <1>4, <2>1 DEF SvcInv, SvcTypeOK
<1>6. SlotsCounted'
  <2>1. sessions \in Nat /\ sessions <= maxSessions
    BY DEF SvcInv, SvcTypeOK, SlotsCounted
  <2> QED
    BY <1>1, <1>4, <2>1, SvcAssumption DEF SlotsCounted
<1>7. SvcClosed /\ SvcClosed' /\ listener'.pc = "entries"
  BY <1>1 DEF SvcInv, SvcTypeOK, SvcClosed, ListenerState
<1>8. TablesExclusive' /\ WorkersKnown' /\ HandshakesPending' /\ ClosedIsEmpty'
  BY <1>1, <1>7 DEF SvcInv, TablesExclusive, WorkersKnown, HandshakesPending, ClosedIsEmpty, Ids
<1>9. DrainsOwned'
  BY <1>1, <1>2, <1>3, OwnersFacts DEF SvcInv, DrainsOwned
<1> QED
  BY <1>5, <1>6, <1>8, <1>9 DEF SvcInv

\* The rest of Close only changes its own progress and a carrier.
LEMMA CloseEntriesInv ==
    ASSUME SvcInv,
           SvcDone \/ \E c \in SvcCarriers : CloseLooks(c) \/ CloseClosesMux(c) \/ CloseUnregisters(c)
    PROVE  SvcInv'
<1> DEFINE Goal ==
             /\ carrier' \in [SvcCarriers -> CarrierState] /\ \A c \in SvcCarriers : carrier'[c].pc = carrier[c].pc
             /\ listener' \in ListenerState /\ listener.pc \in {"drain", "entries"}
             /\ listener'.pc \in {"drain", "entries", "closed", "panic"}
             /\ listener.pc = "entries" \/ listener'.pc \in {"drain", "panic"}
             /\ listener'.entry \in SvcCarriers => listener'.pc \in {"drain", "entries"}
<1>1. Goal
  <2>1. listener \in ListenerState /\ carrier \in [SvcCarriers -> CarrierState] /\ "none" \notin SvcCarriers
    BY OwnersFacts DEF SvcInv, SvcTypeOK
  <2>2. CASE SvcDone
    BY <2>1, <2>2, SMTT(30) DEF SvcDone, ListenerState
  <2>3. ASSUME NEW c \in SvcCarriers, CloseLooks(c)
        PROVE  Goal
    <3>1. /\ listener.pc \in {"drain", "entries"} /\ carrier' = carrier
          /\ listener' = [listener EXCEPT !.left = @ \ {c}, !.entry = IF carrier[c].mux # 0 THEN c ELSE "none"]
      BY <2>3, Zenon DEF CloseLooks
    <3>2. (IF carrier[c].mux # 0 THEN c ELSE "none") \in SvcCarriers \cup {"none"}
      OBVIOUS
    <3>3. listener' \in ListenerState /\ listener'.pc = listener.pc
      BY <2>1, <3>1, <3>2, Zenon DEF ListenerState
    <3> QED
      BY <2>1, <3>1, <3>3, Zenon
  <2>4. ASSUME NEW c \in SvcCarriers, NEW r \in CarrierState, r.pc = carrier[c].pc,
               listener.pc \in {"drain", "entries"},
               \/ listener' = [listener EXCEPT !.pc = "panic", !.entry = "none"] /\ UNCHANGED carrier
               \/ listener' = [listener EXCEPT !.entry = "none"] /\ carrier' = [carrier EXCEPT ![c] = r]
        PROVE  Goal
    <3>1. carrier' \in [SvcCarriers -> CarrierState] /\ \A d \in SvcCarriers : carrier'[d].pc = carrier[d].pc
      BY <2>1, <2>4
    <3>2. listener' \in ListenerState /\ listener'.entry = "none" /\ listener'.pc \in {listener.pc, "panic"}
      BY <2>1, <2>4, Zenon DEF ListenerState
    <3> QED
      BY <2>1, <2>4, <3>1, <3>2, Zenon
  <2>5. ASSUME NEW c \in SvcCarriers, CloseClosesMux(c)
        PROVE  Goal
    <3> DEFINE r == [carrier[c] EXCEPT !.done = TRUE]
    <3>1. r \in CarrierState /\ r.pc = carrier[c].pc
      BY <2>1, Zenon DEF CarrierState
    <3>2. /\ listener.pc \in {"drain", "entries"}
          /\ \/ listener' = [listener EXCEPT !.pc = "panic", !.entry = "none"] /\ UNCHANGED carrier
             \/ listener' = [listener EXCEPT !.entry = "none"] /\ carrier' = [carrier EXCEPT ![c] = r]
      BY <2>5 DEF CloseClosesMux
    <3> HIDE DEF r
    <3> QED
      BY <2>4, <3>1, <3>2, Zenon
  <2>6. ASSUME NEW c \in SvcCarriers, CloseUnregisters(c)
        PROVE  Goal
    <3> DEFINE r == [carrier[c] EXCEPT !.registered = FALSE]
    <3>1. r \in CarrierState /\ r.pc = carrier[c].pc
      BY <2>1, Zenon DEF CarrierState
    <3>2. /\ listener.pc \in {"drain", "entries"}
          /\ \/ listener' = [listener EXCEPT !.pc = "panic", !.entry = "none"] /\ UNCHANGED carrier
             \/ listener' = [listener EXCEPT !.entry = "none"] /\ carrier' = [carrier EXCEPT ![c] = r]
      BY <2>6 DEF CloseUnregisters
    <3> HIDE DEF r
    <3> QED
      BY <2>4, <3>1, <3>2, Zenon
  <2> QED
    BY <2>2, <2>3, <2>5, <2>6, Zenon
<1>2. UNCHANGED <<work, sessions, svcActive, svcPending, retired, drained>>
  BY Zenon DEF SvcDone, CloseLooks, CloseClosesMux, CloseUnregisters
<1>3. SvcTypeOK'
  BY <1>1, <1>2 DEF SvcInv, SvcTypeOK
<1>4. SvcClosed /\ SvcClosed'
  BY <1>1, Zenon DEF SvcClosed
<1>5. DrainsOwned' /\ ClosedIsEmpty'
  BY <1>1, <1>2, <1>4 DEF SvcInv, DrainsOwned, ClosedIsEmpty, Ids
<1> QED
  BY <1>2, <1>3, <1>4, <1>5, QuietStep, Zenon

\* A goroutine takes a slot, gives it up, or keeps what it has.
LEMMA BusyAdds ==
    ASSUME NEW f \in [SvcWorkers -> WorkState], NEW w \in SvcWorkers, NEW r,
           f[w].pc \notin {"handshake", "release"}, r.pc \in {"handshake", "release"}
    PROVE  Cardinality(Busy([f EXCEPT ![w] = r])) = Cardinality(Busy(f)) + 1
<1>1. Busy([f EXCEPT ![w] = r]) = Busy(f) \cup {w} /\ w \notin Busy(f)
  BY DEF Busy
<1> QED
  BY <1>1, BusyFinite, FS_AddElement, Zenon

LEMMA BusyDrops ==
    ASSUME NEW f \in [SvcWorkers -> WorkState], NEW w \in Busy(f), NEW r,
           r.pc # "handshake", r.pc # "release"
    PROVE  Cardinality(Busy([f EXCEPT ![w] = r])) = Cardinality(Busy(f)) - 1
<1>1. Busy([f EXCEPT ![w] = r]) = Busy(f) \ {w} /\ w \in Busy(f)
  BY DEF Busy
<1> QED
  BY <1>1, BusyFinite, FS_RemoveElement, Zenon

LEMMA BusyStays ==
    ASSUME NEW f \in [SvcWorkers -> WorkState], NEW w \in SvcWorkers, NEW r,
           f[w].pc \in {"handshake", "release"} <=> r.pc \in {"handshake", "release"}
    PROVE  Busy([f EXCEPT ![w] = r]) = Busy(f)
  BY DEF Busy

\* A session enters the table, or leaves it.
LEMMA IdsAdds ==
    ASSUME NEW f \in [SvcIds -> Served], NEW id \in SvcIds, NEW v \in Served,
           f[id] = NotServed, v # NotServed
    PROVE  Cardinality(Ids([f EXCEPT ![id] = v])) = Cardinality(Ids(f)) + 1
<1>1. Ids([f EXCEPT ![id] = v]) = Ids(f) \cup {id} /\ id \notin Ids(f)
  BY DEF Ids
<1> QED
  BY <1>1, IdsFinite, FS_AddElement, Zenon

LEMMA IdsDrops ==
    ASSUME NEW f \in [SvcIds -> Served], NEW id \in SvcIds, f[id] # NotServed
    PROVE  Cardinality(Ids([f EXCEPT ![id] = NotServed])) = Cardinality(Ids(f)) - 1
<1>1. Ids([f EXCEPT ![id] = NotServed]) = Ids(f) \ {id} /\ id \in Ids(f)
  BY DEF Ids
<1> QED
  BY <1>1, IdsFinite, FS_RemoveElement, Zenon

LEMMA NothingServed ==
    /\ NotServed \in Served
    /\ \A s \in Served : s.c \in SvcCarriers => s # NotServed
    /\ NoWork \in WorkState /\ NoWork.pc = "none"
  BY OwnersFacts DEF NotServed, Served, NoWork, WorkState

LEMMA WorkerFacts ==
    ASSUME SvcInv, NEW w \in SvcWorkers, work[w].pc # "none"
    PROVE  /\ work \in [SvcWorkers -> WorkState] /\ work[w] \in WorkState
           /\ work[w].id \in SvcIds /\ work[w].s \in Served
           /\ work[w].s.c \in SvcCarriers /\ work[w].s # NotServed
<1>1. work[w] \in WorkState /\ work[w].id \in SvcIds /\ work[w].s.c \in SvcCarriers
  BY DEF SvcInv, SvcTypeOK, WorkersKnown
<1>2. work[w].s \in Served
  BY <1>1 DEF WorkState
<1> QED
  BY <1>1, <1>2, NothingServed DEF SvcInv, SvcTypeOK

\* What the steps of a goroutine leave alone.
LEMMA WorkerStep ==
    ASSUME SvcInv, UNCHANGED <<carrier, drained, listener>>,
           NEW w \in SvcWorkers, NEW r \in WorkState,
           r.pc # "none" => r.id \in SvcIds /\ r.s.c \in SvcCarriers,
           work' = [work EXCEPT ![w] = r],
           SvcClosed => Ids(svcActive') = {} /\ Ids(svcPending') = {}
    PROVE  /\ work' \in [SvcWorkers -> WorkState] /\ WorkersKnown' /\ DrainsOwned' /\ ClosedIsEmpty'
           /\ SvcClosed' <=> SvcClosed
<1>1. work \in [SvcWorkers -> WorkState]
  BY DEF SvcInv, SvcTypeOK
<1>2. work' \in [SvcWorkers -> WorkState]
  BY <1>1
<1>3. WorkersKnown'
  BY <1>1 DEF SvcInv, WorkersKnown
<1>4. DrainsOwned' /\ ClosedIsEmpty' /\ (SvcClosed' <=> SvcClosed)
  BY DEF SvcInv, DrainsOwned, ClosedIsEmpty, SvcClosed
<1> QED
  BY <1>2, <1>3, <1>4

\* A goroutine that is not shaking hands, before or after, leaves the pending
\* handshakes of the others as they are.
LEMMA ArrivesInv ==
    ASSUME SvcInv, NEW w \in SvcWorkers, NEW c \in SvcCarriers, NEW id \in SvcIds, Arrives(w, c, id)
    PROVE  SvcInv'
<1> DEFINE r == [pc |-> "arrived", id |-> id, s |-> [c |-> c, mux |-> carrier[c].mux]]
<1>1. /\ work[w] = NoWork /\ work' = [work EXCEPT ![w] = r]
      /\ UNCHANGED <<carrier, sessions, svcActive, svcPending, retired, drained, listener>>
  BY DEF Arrives
<1>2. r \in WorkState /\ r.pc = "arrived" /\ r.id \in SvcIds /\ r.s.c \in SvcCarriers
  BY DEF SvcInv, SvcTypeOK, CarrierState, WorkState, Served
<1> HIDE DEF r
<1>3. /\ work' \in [SvcWorkers -> WorkState] /\ WorkersKnown' /\ DrainsOwned' /\ ClosedIsEmpty'
      /\ SvcClosed' <=> SvcClosed
  <2>1. SvcClosed => Ids(svcActive') = {} /\ Ids(svcPending') = {}
    BY <1>1 DEF SvcInv, ClosedIsEmpty, Ids
  <2> QED
    BY <1>1, <1>2, <2>1, WorkerStep, Zenon
<1>4. work \in [SvcWorkers -> WorkState] /\ work[w].pc = "none"
  BY <1>1, NothingServed DEF SvcInv, SvcTypeOK
<1>5. SvcTypeOK'
  BY <1>1, <1>3, Zenon DEF SvcInv, SvcTypeOK
<1>6. SlotsCounted' /\ TablesExclusive'
  <2>1. Busy(work') = Busy(work)
    BY <1>1, <1>2, <1>4, BusyStays, Zenon
  <2> QED
    BY <1>1, <2>1 DEF SvcInv, SlotsCounted, TablesExclusive, Ids
<1>7. HandshakesPending'
  BY <1>1, <1>2, <1>3, <1>4 DEF SvcInv, HandshakesPending
<1> QED
  BY <1>3, <1>5, <1>6, <1>7, Zenon DEF SvcInv

\* A slot is taken together with the pending entry.
LEMMA AdmitsInv ==
    ASSUME SvcInv, NEW w \in SvcWorkers, Admits(w)
    PROVE  SvcInv'
<1> DEFINE id == work[w].id
           s == work[w].s
<1>1. work[w].pc = "arrived" /\ UNCHANGED <<carrier, svcActive, retired, drained, listener>>
  BY DEF Admits
<1>2. /\ work \in [SvcWorkers -> WorkState] /\ work[w] \in WorkState /\ id \in SvcIds
      /\ s \in Served /\ s.c \in SvcCarriers /\ s # NotServed
  BY <1>1, WorkerFacts
<1>3. /\ svcPending \in [SvcIds -> Served] /\ sessions \in Nat
      /\ Cardinality(Busy(work)) \in Nat /\ Cardinality(Ids(svcActive)) \in Nat
      /\ Cardinality(DrainPairs(drained)) \in Nat
      /\ sessions = Cardinality(Busy(work)) + Cardinality(Ids(svcActive)) + Cardinality(DrainPairs(drained))
  BY SlotsOf DEF SvcInv, SvcTypeOK
<1>4. CASE Admissible(id, s.c)
  <2> DEFINE r == [work[w] EXCEPT !.pc = "handshake"]
  <2>1. /\ sessions' = sessions + 1 /\ svcPending' = [svcPending EXCEPT ![id] = s]
        /\ work' = [work EXCEPT ![w] = r]
    BY <1>4 DEF Admits
  <2>2. r \in WorkState /\ r.pc = "handshake" /\ r.id = id /\ r.s = s
    BY <1>2, Zenon DEF WorkState
  <2> HIDE DEF r
  <2>3. /\ ~SvcClosed /\ id \notin retired /\ svcActive[id] = NotServed
        /\ svcPending[id] = NotServed /\ sessions < maxSessions
    BY <1>4 DEF Admissible
  <2>4. /\ work' \in [SvcWorkers -> WorkState] /\ WorkersKnown' /\ DrainsOwned' /\ ClosedIsEmpty'
        /\ SvcClosed' <=> SvcClosed
    BY <1>1, <1>2, <2>1, <2>2, <2>3, WorkerStep, Zenon
  <2>5. SvcTypeOK'
    <3>1. sessions' \in Nat
      <4>1. sessions \in Nat /\ sessions' = sessions + 1
        BY <1>3, <2>1, Zenon
      <4> QED
        BY <4>1
    <3>2. svcPending' \in [SvcIds -> Served]
      BY <1>2, <1>3, <2>1, Zenon
    <3> QED
      BY <1>1, <2>4, <3>1, <3>2, Zenon DEF SvcInv, SvcTypeOK
  <2>6. SlotsCounted'
    <3>1. Cardinality(Busy(work')) = Cardinality(Busy(work)) + 1
      BY <1>1, <1>2, <2>1, <2>2, BusyAdds, Zenon
    <3>2. UNCHANGED <<svcActive, drained>> /\ Ids(svcActive') = Ids(svcActive)
      BY <1>1, Zenon DEF Ids
    <3>3. /\ sessions' = Cardinality(Busy(work')) + Cardinality(Ids(svcActive)) + Cardinality(DrainPairs(drained))
          /\ sessions' <= maxSessions
      BY <1>3, <2>1, <2>3, <3>1, SvcAssumption
    <3> QED
      BY <3>2, <3>3, Zenon DEF SlotsCounted
  <2>7. TablesExclusive'
    BY <1>1, <1>2, <1>3, <2>1, <2>3, Zenon DEF SvcInv, TablesExclusive
  <2>8. HandshakesPending'
    <3>1. \A v \in SvcWorkers : work[v].pc = "handshake" => work[v].id # id
      <4> SUFFICES ASSUME NEW v \in SvcWorkers, work[v].pc = "handshake", work[v].id = id
                   PROVE  FALSE
        BY Zenon
      <4>1. svcPending[id] = work[v].s
        BY <2>3 DEF SvcInv, HandshakesPending
      <4>2. work[v].s # NotServed
        BY WorkerFacts
      <4> QED
        BY <2>3, <4>1, <4>2
    <3>2. \A v \in SvcWorkers : v # w => work'[v] = work[v]
      BY <1>2, <2>1
    <3>3. work'[w] = r
      BY <1>2, <2>1, Zenon
    <3>4. \A v \in SvcWorkers : work[v].pc = "handshake" => svcPending'[work[v].id] = work[v].s
      BY <1>3, <2>1, <2>3, <3>1, WorkerFacts, Zenon DEF SvcInv, HandshakesPending
    <3>5. svcPending'[id] = s
      BY <1>2, <1>3, <2>1, Zenon
    <3>6. ASSUME NEW v \in SvcWorkers, work'[v].pc = "handshake"
          PROVE  /\ svcPending'[work'[v].id] = work'[v].s
                 /\ \A u \in SvcWorkers : work'[u].pc = "handshake" /\ work'[u].id = work'[v].id => u = v
      <4> HIDE DEF id, s
      <4>1. CASE v = w
        BY <2>2, <3>1, <3>2, <3>3, <3>5, <4>1, Zenon
      <4>2. CASE v # w
        <5>1. work'[v] = work[v] /\ work[v].id # id /\ work[v].pc = "handshake"
          BY <3>1, <3>2, <3>6, <4>2, Zenon
        <5>2. \A u \in SvcWorkers : u # w /\ work[u].pc = "handshake" /\ work[u].id = work[v].id => u = v
          BY <2>3, <5>1 DEF SvcInv, HandshakesPending
        <5> QED
          BY <2>2, <3>2, <3>3, <3>4, <5>1, <5>2, Zenon
      <4> QED
        BY <4>1, <4>2, Zenon
    <3> QED
      BY <3>6, Zenon DEF HandshakesPending
  <2> QED
    BY <2>4, <2>5, <2>6, <2>7, <2>8 DEF SvcInv
<1>5. CASE ~Admissible(id, s.c)
  <2>1. work' = [work EXCEPT ![w] = NoWork] /\ UNCHANGED <<sessions, svcPending>>
    BY <1>5 DEF Admits
  <2>2. /\ work' \in [SvcWorkers -> WorkState] /\ WorkersKnown' /\ DrainsOwned' /\ ClosedIsEmpty'
        /\ SvcClosed' <=> SvcClosed
    <3>1. SvcClosed => Ids(svcActive') = {} /\ Ids(svcPending') = {}
      BY <1>1, <2>1 DEF SvcInv, ClosedIsEmpty, Ids
    <3> QED
      BY <1>1, <2>1, <3>1, NothingServed, WorkerStep, Zenon
  <2>3. Busy(work') = Busy(work)
    BY <1>1, <1>2, <2>1, NothingServed, BusyStays, Zenon
  <2>4. SvcTypeOK' /\ SlotsCounted' /\ TablesExclusive'
    BY <1>1, <2>1, <2>2, <2>3, Zenon DEF SvcInv, SvcTypeOK, SlotsCounted, TablesExclusive, Ids
  <2>5. HandshakesPending'
    BY <1>2, <2>1, <2>2, NothingServed, Zenon DEF SvcInv, HandshakesPending
  <2> QED
    BY <2>2, <2>4, <2>5 DEF SvcInv
<1> QED
  BY <1>4, <1>5

\* When a goroutine is through with its handshake, or had none, the other
\* handshakes are still the pending ones of their ids.
LEMMA HandshakesKept ==
    ASSUME SvcInv, NEW w \in SvcWorkers, NEW r \in WorkState, r.pc # "handshake",
           work' = [work EXCEPT ![w] = r], SvcClosed' <=> SvcClosed,
           \A id \in SvcIds : \/ svcPending'[id] = svcPending[id]
                              \/ work[w].pc = "handshake" /\ id = work[w].id
    PROVE  HandshakesPending'
<1>1. work \in [SvcWorkers -> WorkState]
  BY Zenon DEF SvcInv, SvcTypeOK
<1>2. ASSUME NEW v \in SvcWorkers, work'[v].pc = "handshake"
      PROVE  v # w /\ work'[v] = work[v]
  BY <1>1, <1>2, Zenon
<1> SUFFICES ASSUME ~SvcClosed, NEW v \in SvcWorkers, work'[v].pc = "handshake"
             PROVE  /\ svcPending'[work'[v].id] = work'[v].s
                    /\ \A u \in SvcWorkers :
                          work'[u].pc = "handshake" /\ work'[u].id = work'[v].id => u = v
  BY Zenon DEF HandshakesPending
<1>3. v # w /\ work'[v] = work[v] /\ work[v].pc = "handshake" /\ work[v].id \in SvcIds
  BY <1>2, WorkerFacts, Zenon
<1>4. /\ svcPending[work[v].id] = work[v].s
      /\ \A u \in SvcWorkers : work[u].pc = "handshake" /\ work[u].id = work[v].id => u = v
  BY <1>3, Zenon DEF SvcInv, HandshakesPending
<1>5. svcPending'[work[v].id] = svcPending[work[v].id]
  BY <1>3, <1>4, Zenon
<1> QED
  BY <1>2, <1>3, <1>4, <1>5, Zenon

LEMMA HandshakeFailsInv ==
    ASSUME SvcInv, NEW w \in SvcWorkers, HandshakeFails(w)
    PROVE  SvcInv'
<1> DEFINE id == work[w].id
           r == [work[w] EXCEPT !.pc = "release"]
<1>1. /\ work[w].pc = "handshake" /\ work' = [work EXCEPT ![w] = r]
      /\ UNCHANGED <<carrier, sessions, svcActive, drained, listener>>
  BY DEF HandshakeFails
<1>2. /\ work \in [SvcWorkers -> WorkState] /\ work[w] \in WorkState /\ id \in SvcIds
      /\ work[w].s.c \in SvcCarriers
  BY <1>1, WorkerFacts
<1>3. r \in WorkState /\ r.pc = "release" /\ r.id \in SvcIds /\ r.s.c \in SvcCarriers
  BY <1>2 DEF WorkState
<1>4. svcPending \in [SvcIds -> Served] /\ svcActive \in [SvcIds -> Served] /\ retired \in SUBSET SvcIds
  BY DEF SvcInv, SvcTypeOK
<1>5. \/ UNCHANGED <<svcPending, retired>>
      \/ /\ svcPending' = [svcPending EXCEPT ![id] = NotServed] /\ retired' = retired \cup {id}
         /\ svcPending[id] # NotServed
  <2>1. svcPending[id].c = work[w].s.c => svcPending[id] # NotServed
    BY <1>2, <1>4, NothingServed, Zenon
  <2> QED
    BY <2>1 DEF HandshakeFails
<1> HIDE DEF r, id
<1>6. /\ svcPending' \in [SvcIds -> Served] /\ retired' \in SUBSET SvcIds
      /\ Ids(svcPending') \subseteq Ids(svcPending)
      /\ \A i \in SvcIds : svcPending'[i] = svcPending[i] \/ i = id
  BY <1>2, <1>4, <1>5, NothingServed DEF Ids
<1>7. /\ work' \in [SvcWorkers -> WorkState] /\ WorkersKnown' /\ DrainsOwned' /\ ClosedIsEmpty'
      /\ SvcClosed' <=> SvcClosed
  <2>1. SvcClosed => Ids(svcActive') = {} /\ Ids(svcPending') = {}
    BY <1>1, <1>6 DEF SvcInv, ClosedIsEmpty
  <2> QED
    BY <1>1, <1>3, <2>1, WorkerStep, Zenon
<1>8. SvcTypeOK'
  BY <1>1, <1>6, <1>7 DEF SvcInv, SvcTypeOK
<1>9. SlotsCounted'
  <2>1. Busy(work') = Busy(work)
    BY <1>1, <1>2, <1>3, BusyStays, Zenon
  <2> QED
    BY <1>1, <2>1 DEF SvcInv, SlotsCounted, Ids
<1>10. TablesExclusive'
  BY <1>1, <1>2, <1>4, <1>5 DEF SvcInv, TablesExclusive
<1>11. HandshakesPending'
  BY <1>1, <1>3, <1>6, <1>7, HandshakesKept, Zenon DEF id
<1> QED
  BY <1>7, <1>8, <1>9, <1>10, <1>11 DEF SvcInv

LEMMA ReleasesSlotInv ==
    ASSUME SvcInv, NEW w \in SvcWorkers, ReleasesSlot(w)
    PROVE  SvcInv'
<1>1. /\ work[w].pc = "release" /\ work' = [work EXCEPT ![w] = NoWork] /\ sessions' = Released(1)
      /\ UNCHANGED <<carrier, svcActive, svcPending, retired, drained, listener>>
  BY DEF ReleasesSlot
<1>2. work \in [SvcWorkers -> WorkState]
  BY DEF SvcInv, SvcTypeOK
<1>3. /\ work' \in [SvcWorkers -> WorkState] /\ WorkersKnown' /\ DrainsOwned' /\ ClosedIsEmpty'
      /\ SvcClosed' <=> SvcClosed
  <2>1. SvcClosed => Ids(svcActive') = {} /\ Ids(svcPending') = {}
    BY <1>1 DEF SvcInv, ClosedIsEmpty, Ids
  <2> QED
    BY <1>1, <2>1, NothingServed, WorkerStep, Zenon
<1>4. Cardinality(Busy(work')) = Cardinality(Busy(work)) - 1 /\ Cardinality(Busy(work')) \in Nat
  <2>1. w \in Busy(work) /\ NoWork.pc # "handshake" /\ NoWork.pc # "release"
    BY <1>1, NothingServed DEF Busy
  <2>2. Cardinality(Busy([work EXCEPT ![w] = NoWork])) = Cardinality(Busy(work)) - 1
    BY <1>2, <2>1, BusyDrops, Zenon
  <2> QED
    BY <1>1, <2>2, BusyFinite
<1>5. sessions' = sessions - 1 /\ sessions' \in Nat
  BY <1>1, <1>4, SlotsOf DEF Released, SvcInv, SvcTypeOK
<1>6. SvcTypeOK'
  BY <1>1, <1>3, <1>5, Zenon DEF SvcInv, SvcTypeOK
<1>7. SlotsCounted'
  <2>1. sessions \in Nat /\ sessions <= maxSessions
    BY Zenon DEF SvcInv, SvcTypeOK, SlotsCounted
  <2>2. UNCHANGED <<svcActive, drained>>
    BY <1>1, Zenon
  <2>3. /\ sessions = Cardinality(Busy(work)) + Cardinality(Ids(svcActive)) + Cardinality(DrainPairs(drained))
        /\ Cardinality(Busy(work)) \in Nat /\ Cardinality(Ids(svcActive)) \in Nat
        /\ Cardinality(DrainPairs(drained)) \in Nat /\ maxSessions \in Nat
    BY SlotsOf, SvcAssumption, Zenon
  <2>4. sessions' = Cardinality(Busy(work')) + Cardinality(Ids(svcActive)) + Cardinality(DrainPairs(drained))
    BY <1>4, <1>5, <2>3
  <2>5. sessions' <= maxSessions
    BY <1>5, <2>1, <2>3
  <2> QED
    BY <2>2, <2>4, <2>5, Zenon DEF SlotsCounted
<1>8. TablesExclusive'
  BY <1>1, Zenon DEF SvcInv, TablesExclusive
<1>9. HandshakesPending'
  BY <1>1, <1>3, NothingServed, HandshakesKept, Zenon
<1> QED
  BY <1>3, <1>6, <1>7, <1>8, <1>9 DEF SvcInv

\* The slot passes from the goroutine to the session: the id was pending, so
\* it had no session.
LEMMA ActivatesInv ==
    ASSUME SvcInv, NEW w \in SvcWorkers, Activates(w)
    PROVE  SvcInv'
<1> DEFINE id == work[w].id
           s == work[w].s
           r == [work[w] EXCEPT !.pc = "queue"]
<1>1. /\ work[w].pc = "handshake" /\ work' = [work EXCEPT ![w] = r]
      /\ ~SvcClosed /\ svcPending[id].c = s.c
      /\ svcPending' = [svcPending EXCEPT ![id] = NotServed] /\ svcActive' = [svcActive EXCEPT ![id] = s]
      /\ UNCHANGED <<carrier, sessions, retired, drained, listener>>
  BY DEF Activates
<1>2. /\ work \in [SvcWorkers -> WorkState] /\ work[w] \in WorkState /\ id \in SvcIds
      /\ s \in Served /\ s.c \in SvcCarriers /\ s # NotServed
  BY <1>1, WorkerFacts
<1>3. r \in WorkState /\ r.pc = "queue" /\ r.id \in SvcIds /\ r.s.c \in SvcCarriers
  BY <1>2 DEF WorkState
<1>4. svcPending \in [SvcIds -> Served] /\ svcActive \in [SvcIds -> Served]
  BY DEF SvcInv, SvcTypeOK
<1> HIDE DEF r, id, s
<1>5. svcPending[id] # NotServed /\ svcActive[id] = NotServed /\ id \notin retired
  BY <1>1, <1>2, <1>4, NothingServed, Zenon DEF SvcInv, TablesExclusive
<1>6. svcPending' \in [SvcIds -> Served] /\ svcActive' \in [SvcIds -> Served]
  BY <1>1, <1>2, <1>4, NothingServed
<1>7. /\ work' \in [SvcWorkers -> WorkState] /\ WorkersKnown' /\ DrainsOwned' /\ ClosedIsEmpty'
      /\ SvcClosed' <=> SvcClosed
  BY <1>1, <1>3, WorkerStep, Zenon
<1>8. SvcTypeOK'
  BY <1>1, <1>6, <1>7 DEF SvcInv, SvcTypeOK
<1>9. SlotsCounted'
  <2>1. Cardinality(Busy(work')) = Cardinality(Busy(work)) - 1
    <3>1. w \in Busy(work) /\ r.pc # "handshake" /\ r.pc # "release"
      BY <1>1, <1>3 DEF Busy
    <3>2. Cardinality(Busy([work EXCEPT ![w] = r])) = Cardinality(Busy(work)) - 1
      BY <1>2, <3>1, BusyDrops, Zenon
    <3> QED
      BY <1>1, <3>2, Zenon
  <2>2. Cardinality(Ids(svcActive')) = Cardinality(Ids(svcActive)) + 1
    BY <1>1, <1>2, <1>4, <1>5, IdsAdds, Zenon
  <2>3. sessions' = sessions /\ drained' = drained
    BY <1>1
  <2>4. sessions <= maxSessions
    BY DEF SvcInv, SlotsCounted
  <2> QED
    BY <2>1, <2>2, <2>3, <2>4, SlotsOf DEF SlotsCounted
<1>10. TablesExclusive'
  BY <1>1, <1>2, <1>4, <1>5 DEF SvcInv, TablesExclusive
<1>11. HandshakesPending'
  <2>1. \A i \in SvcIds : svcPending'[i] = svcPending[i] \/ i = id
    BY <1>1, <1>4
  <2> QED
    BY <1>1, <1>3, <1>7, <2>1, HandshakesKept, Zenon DEF id
<1> QED
  BY <1>7, <1>8, <1>9, <1>10, <1>11 DEF SvcInv

\* Whoever finds the session in the table takes it out, retires its id and
\* releases its slot; who does not find it changes nothing.
LEMMA RemoveSessionFacts ==
    ASSUME SvcInv, NEW id \in SvcIds, RemoveSession(id)
    PROVE  /\ sessions' \in Nat /\ sessions' <= maxSessions
           /\ sessions' = Cardinality(Busy(work)) + Cardinality(Ids(svcActive'))
                            + Cardinality(DrainPairs(drained))
           /\ svcActive' \in [SvcIds -> Served] /\ retired' \in SUBSET SvcIds
           /\ Ids(svcActive') \subseteq Ids(svcActive)
           /\ (UNCHANGED svcPending) => TablesExclusive'
<1>1. /\ svcActive \in [SvcIds -> Served] /\ retired \in SUBSET SvcIds
      /\ sessions \in Nat /\ sessions <= maxSessions
  BY DEF SvcInv, SvcTypeOK, SlotsCounted
<1>2. svcActive' = [svcActive EXCEPT ![id] = NotServed]
  BY DEF RemoveSession
<1>3. svcActive' \in [SvcIds -> Served] /\ Ids(svcActive') \subseteq Ids(svcActive)
  BY <1>1, <1>2, NothingServed, Zenon DEF Ids
<1>4. CASE svcActive[id] # NotServed
  <2>1. sessions' = Released(1) /\ retired' = retired \cup {id}
    BY <1>4 DEF RemoveSession
  <2>2. Cardinality(Ids(svcActive')) = Cardinality(Ids(svcActive)) - 1 /\ Cardinality(Ids(svcActive')) \in Nat
    <3>1. Cardinality(Ids([svcActive EXCEPT ![id] = NotServed])) = Cardinality(Ids(svcActive)) - 1
      BY <1>1, <1>4, IdsDrops, Zenon
    <3> QED
      BY <1>2, <3>1, IdsFinite
  <2>3. sessions' = sessions - 1 /\ sessions' \in Nat
    BY <1>1, <2>1, <2>2, SlotsOf DEF Released
  <2>4. (UNCHANGED svcPending) => TablesExclusive'
    BY <1>1, <1>2, <1>4, <2>1, Zenon DEF SvcInv, TablesExclusive
  <2>5. sessions' <= maxSessions
    <3>1. sessions <= maxSessions /\ sessions \in Nat /\ maxSessions \in Nat
      BY <1>1, SvcAssumption, Zenon
    <3>2. sessions' = sessions - 1
      BY <2>3, Zenon
    <3> QED
      BY <3>1, <3>2
  <2> QED
    BY <1>1, <1>3, <2>1, <2>2, <2>3, <2>4, <2>5, SlotsOf
<1>5. CASE svcActive[id] = NotServed
  <2>1. svcActive' = svcActive /\ sessions' = sessions /\ retired' = retired
    BY <1>1, <1>2, <1>5 DEF RemoveSession
  <2> QED
    BY <1>1, <1>3, <2>1, SlotsOf, Zenon DEF SvcInv, TablesExclusive
<1> QED
  BY <1>4, <1>5

LEMMA QueuesInv ==
    ASSUME SvcInv, NEW w \in SvcWorkers, Queues(w)
    PROVE  SvcInv'
<1>1. /\ work[w].pc = "queue" /\ work' = [work EXCEPT ![w] = NoWork]
      /\ UNCHANGED <<carrier, svcPending, drained, listener>>
      /\ UNCHANGED <<sessions, svcActive, retired>> \/ RemoveSession(work[w].id)
  BY DEF Queues
<1>2. work \in [SvcWorkers -> WorkState] /\ work[w].id \in SvcIds
  BY <1>1, WorkerFacts, Zenon
<1>3. /\ sessions' \in Nat /\ sessions' <= maxSessions
      /\ sessions' = Cardinality(Busy(work)) + Cardinality(Ids(svcActive')) + Cardinality(DrainPairs(drained))
      /\ svcActive' \in [SvcIds -> Served] /\ retired' \in SUBSET SvcIds
      /\ Ids(svcActive') \subseteq Ids(svcActive)
      /\ TablesExclusive'
  <2>1. CASE RemoveSession(work[w].id)
    BY <1>1, <1>2, <2>1, RemoveSessionFacts, Zenon
  <2>2. CASE UNCHANGED <<sessions, svcActive, retired>>
    BY <1>1, <2>2, SlotsOf DEF SvcInv, SvcTypeOK, SlotsCounted, TablesExclusive
  <2> QED
    BY <1>1, <2>1, <2>2, Zenon
<1>4. Busy(work') = Busy(work)
  BY <1>1, <1>2, NothingServed, BusyStays, ZenonT(30)
<1>5. /\ work' \in [SvcWorkers -> WorkState] /\ WorkersKnown' /\ DrainsOwned' /\ ClosedIsEmpty'
      /\ SvcClosed' <=> SvcClosed
  <2>1. SvcClosed => Ids(svcActive') = {} /\ Ids(svcPending') = {}
    BY <1>1, <1>3, Zenon DEF SvcInv, ClosedIsEmpty, Ids
  <2> QED
    BY <1>1, <2>1, NothingServed, WorkerStep, Zenon
<1>6. SvcTypeOK' /\ SlotsCounted'
  BY <1>1, <1>3, <1>4, <1>5, SMTT(30) DEF SvcInv, SvcTypeOK, SlotsCounted
<1>7. HandshakesPending'
  BY <1>1, <1>5, NothingServed, HandshakesKept, Zenon
<1> QED
  BY <1>3, <1>5, <1>6, <1>7 DEF SvcInv

LEMMA SessionClosesInv ==
    ASSUME SvcInv, NEW id \in SvcIds, SessionCloses(id)
    PROVE  SvcInv'
<1>1. RemoveSession(id) /\ UNCHANGED <<carrier, work, svcPending, drained, listener>>
  BY DEF SessionCloses
<1>2. /\ sessions' \in Nat /\ sessions' <= maxSessions
      /\ sessions' = Cardinality(Busy(work)) + Cardinality(Ids(svcActive')) + Cardinality(DrainPairs(drained))
      /\ svcActive' \in [SvcIds -> Served] /\ retired' \in SUBSET SvcIds
      /\ Ids(svcActive') \subseteq Ids(svcActive)
      /\ TablesExclusive'
  BY <1>1, RemoveSessionFacts, Zenon
<1>3. SvcTypeOK' /\ SlotsCounted'
  BY <1>1, <1>2, SMTT(30) DEF SvcInv, SvcTypeOK, SlotsCounted
<1>4. WorkersKnown' /\ DrainsOwned' /\ HandshakesPending' /\ ClosedIsEmpty'
  BY <1>1, <1>2, Zenon DEF SvcInv, WorkersKnown, DrainsOwned, HandshakesPending, ClosedIsEmpty, SvcClosed, Ids
<1> QED
  BY <1>2, <1>3, <1>4, Zenon DEF SvcInv

LEMMA TombstoneExpiresInv ==
    ASSUME SvcInv, NEW id \in SvcIds, TombstoneExpires(id)
    PROVE  SvcInv'
<1>1. /\ retired' = retired \ {id}
      /\ UNCHANGED <<carrier, work, sessions, svcActive, svcPending, drained, listener>>
  BY Zenon DEF TombstoneExpires
<1>2. SvcTypeOK' /\ SlotsCounted' /\ TablesExclusive'
  BY <1>1, Zenon DEF SvcInv, SvcTypeOK, SlotsCounted, TablesExclusive, Ids
<1>3. WorkersKnown' /\ DrainsOwned' /\ HandshakesPending' /\ ClosedIsEmpty'
  BY <1>1, Zenon DEF SvcInv, WorkersKnown, DrainsOwned, HandshakesPending, ClosedIsEmpty, SvcClosed, Ids
<1> QED
  BY <1>2, <1>3, Zenon DEF SvcInv

LEMMA SvcNextInv == SvcInv /\ [SvcNext]_svcVars => SvcInv'
<1> SUFFICES ASSUME SvcInv, [SvcNext]_svcVars PROVE SvcInv'
  OBVIOUS
<1>1. CASE UNCHANGED <<carrier, work, sessions, svcActive, svcPending, retired, drained, listener>>
  BY <1>1, CarrierStep DEF SvcInv, SvcTypeOK
<1>2. CASE \E c \in SvcCarriers : Registers(c) \/ Installs(c) \/ MuxEnds(c) \/ MaintainEnds(c)
  BY <1>2, RegistersInv, Zenon
<1>3. CASE \E c \in SvcCarriers : ClearCarrier(c)
  BY <1>3, ClearCarrierInv
<1>4. CASE \E c \in SvcCarriers : DropCarrier(c)
  BY <1>4, DropCarrierInv
<1>5. CASE SvcDone \/ \E c \in SvcCarriers : CloseLooks(c) \/ CloseClosesMux(c) \/ CloseUnregisters(c)
  BY <1>5, CloseEntriesInv
<1>6. CASE \E w \in SvcWorkers : \E c \in SvcCarriers : \E id \in SvcIds : Arrives(w, c, id)
  BY <1>6, ArrivesInv, Zenon
<1>7. CASE \E w \in SvcWorkers : Admits(w)
  BY <1>7, AdmitsInv
<1>8. CASE \E w \in SvcWorkers : HandshakeFails(w)
  BY <1>8, HandshakeFailsInv
<1>9. CASE \E w \in SvcWorkers : ReleasesSlot(w)
  BY <1>9, ReleasesSlotInv
<1>10. CASE \E w \in SvcWorkers : Activates(w)
  BY <1>10, ActivatesInv
<1>11. CASE \E w \in SvcWorkers : Queues(w)
  BY <1>11, QueuesInv
<1>12. CASE \E id \in SvcIds : SessionCloses(id)
  BY <1>12, SessionClosesInv
<1>13. CASE \E id \in SvcIds : TombstoneExpires(id)
  BY <1>13, TombstoneExpiresInv
<1>14. CASE SvcAccepts
  BY <1>1, <1>14, Zenon DEF SvcAccepts
<1>15. CASE SvcCloses
  BY <1>15, SvcClosesInv
<1>16. CASE CloseDrained
  BY <1>16, CloseDrainedInv
<1>17. CASE UNCHANGED svcVars
  BY <1>1, <1>17 DEF svcVars
<1> QED
  BY <1>2, <1>3, <1>4, <1>5, <1>6, <1>7, <1>8, <1>9, <1>10, <1>11, <1>12, <1>13, <1>14, <1>15,
     <1>16, <1>17, Zenon DEF SvcNext

LEMMA ClosedWaitedInit == SvcInit => ClosedWaited
  BY DEF SvcInit, ClosedWaited

LEMMA ClosedWaitedNext == SvcInv /\ ClosedWaited /\ [SvcNext]_svcVars => ClosedWaited'
<1> SUFFICES ASSUME SvcInv, ClosedWaited, [SvcNext]_svcVars PROVE ClosedWaited'
  OBVIOUS
<1>0. work \in [SvcWorkers -> WorkState] /\ listener \in ListenerState
  BY DEF SvcInv, SvcTypeOK
<1>1. CASE UNCHANGED <<work, listener>>
  BY <1>1, Zenon DEF ClosedWaited
<1>2. CASE \E c \in SvcCarriers : \/ Registers(c) \/ Installs(c) \/ MuxEnds(c) \/ ClearCarrier(c)
                                 \/ DropCarrier(c) \/ MaintainEnds(c)
  BY <1>1, <1>2, Zenon DEF Registers, Installs, MuxEnds, ClearCarrier, DropCarrier, MaintainEnds
<1>3. CASE \E id \in SvcIds : SessionCloses(id) \/ TombstoneExpires(id)
  BY <1>1, <1>3, Zenon DEF SessionCloses, TombstoneExpires
<1>4. CASE SvcAccepts \/ UNCHANGED svcVars
  BY <1>1, <1>4, Zenon DEF SvcAccepts, svcVars
<1>5. CASE SvcDone
  BY <1>5, Zenon DEF SvcDone, ClosedWaited
<1>6. CASE SvcCloses \/ CloseDrained
  <2>1. CASE SvcCloses
    <3>1. listener' = [pc |-> "drain", left |-> SvcCarriers, entry |-> "none"]
      BY <2>1 DEF SvcCloses
    <3> QED
      BY <3>1, Zenon DEF ClosedWaited
  <2>2. CASE CloseDrained
    <3>1. listener' = [listener EXCEPT !.pc = "entries", !.left = SvcCarriers]
      BY <2>2 DEF CloseDrained
    <3>2. listener'.pc = "entries"
      BY <1>0, <3>1, Zenon DEF ListenerState
    <3> QED
      BY <3>2, Zenon DEF ClosedWaited
  <2> QED
    BY <1>6, <2>1, <2>2
<1>7. ASSUME NEW c \in SvcCarriers, CloseLooks(c) \/ CloseClosesMux(c) \/ CloseUnregisters(c)
      PROVE  ClosedWaited'
  <2>1. listener'.pc \in {listener.pc, "panic"} /\ listener.pc \in {"drain", "entries"}
    BY <1>0, <1>7, Zenon DEF CloseLooks, CloseClosesMux, CloseUnregisters, ListenerState
  <2> QED
    BY <2>1, Zenon DEF ClosedWaited
<1>8. CASE \E w \in SvcWorkers : \E c \in SvcCarriers : \E id \in SvcIds : Arrives(w, c, id)
  BY <1>8, Zenon DEF Arrives, SvcClosed, ClosedWaited
<1>9. ASSUME NEW w \in SvcWorkers, Admits(w) PROVE ClosedWaited'
  <2>1. CASE listener.pc # "closed"
    BY <1>9, <2>1, Zenon DEF Admits, ClosedWaited
  <2>2. CASE listener.pc = "closed"
    <3>1. work' = [work EXCEPT ![w] = NoWork]
      BY <1>9, <2>2, Zenon DEF Admits, Admissible, SvcClosed
    <3> QED
      BY <1>0, <2>2, <3>1 DEF ClosedWaited, NoWork
  <2> QED
    BY <2>1, <2>2
<1>10. ASSUME NEW w \in SvcWorkers, HandshakeFails(w) \/ ReleasesSlot(w) \/ Activates(w) \/ Queues(w)
       PROVE  ClosedWaited'
  <2>1. work[w].pc \in {"handshake", "release", "queue"} /\ UNCHANGED listener
    BY <1>10, Zenon DEF HandshakeFails, ReleasesSlot, Activates, Queues
  <2> QED
    BY <2>1, Zenon DEF ClosedWaited
<1> QED
  BY <1>2, <1>3, <1>4, <1>5, <1>6, <1>7, <1>8, <1>9, <1>10, Zenon DEF SvcNext

(* A slot of the sessions channel is held exactly for every connection that  *)
(* is being admitted, is active or is on its way out, and an id is served    *)
(* once at a time: acceptVirtualConnection's goroutines, removeSession, a    *)
(* carrier that is lost and Close may come in any order, for any number of   *)
(* carriers, ids and slots.                                                  *)
THEOREM SessionsAreServedOnce == SvcSpec => []SessionsServedOnce
  BY SvcInitInv, SvcNextInv, ClosedWaitedInit, ClosedWaitedNext, SvcInvImplies, PTL DEF SvcSpec

-----------------------------------------------------------------------------
(* The registrations of a listener. A registration that no goroutine is      *)
(* about to take back belongs to a carrier with a mux, which Close will      *)
(* still look at or is just looking at.                                      *)

Kept(r) == r.registered /\ r.pc \notin {"install", "drop"}

KeptIsSeen ==
    /\ \A c \in SvcCarriers : Kept(carrier[c]) =>
          /\ carrier[c].mux # 0
          /\ listener.pc \in {"entries", "closed"} => c \in listener.left \/ listener.entry = c
    /\ listener.pc = "closed" => listener.left = {} /\ listener.entry = "none"

LEMMA KeptInit == SvcInit => KeptIsSeen
  BY DEF SvcInit, KeptIsSeen

\* A step of a carrier's own goroutine that installs no mux.
LEMMA KeptStep ==
    ASSUME SvcInv, KeptIsSeen, NEW c \in SvcCarriers, NEW r,
           carrier' = [carrier EXCEPT ![c] = r], UNCHANGED listener,
           Kept(r) => Kept(carrier[c]) /\ r.mux = carrier[c].mux
    PROVE  KeptIsSeen'
<1>1. carrier \in [SvcCarriers -> CarrierState]
  BY Zenon DEF SvcInv, SvcTypeOK
<1>2. \A d \in SvcCarriers : Kept(carrier'[d]) => Kept(carrier[d]) /\ carrier'[d].mux = carrier[d].mux
  BY <1>1, Zenon
<1> QED
  BY <1>2, Zenon DEF KeptIsSeen

LEMMA KeptCarrier ==
    ASSUME SvcInv, KeptIsSeen, NEW c \in SvcCarriers,
           Registers(c) \/ MuxEnds(c) \/ ClearCarrier(c) \/ DropCarrier(c) \/ MaintainEnds(c)
    PROVE  KeptIsSeen'
<1>1. carrier \in [SvcCarriers -> CarrierState] /\ carrier[c] \in CarrierState
  BY Zenon DEF SvcInv, SvcTypeOK
<1>2. CASE Registers(c)
  <2> DEFINE r == [carrier[c] EXCEPT !.pc = "install", !.registered = TRUE]
  <2>1. carrier' = [carrier EXCEPT ![c] = r] /\ UNCHANGED listener
    BY <1>1, <1>2, Zenon DEF Registers
  <2>2. ~Kept(r)
    BY <1>1, Zenon DEF Kept, CarrierState
  <2> QED
    BY <2>1, <2>2, KeptStep, Zenon
<1>3. CASE MuxEnds(c)
  <2> DEFINE r == [carrier[c] EXCEPT !.done = TRUE]
  <2>1. carrier' = [carrier EXCEPT ![c] = r] /\ UNCHANGED listener
    BY <1>1, <1>3, Zenon DEF MuxEnds
  <2>2. Kept(r) => Kept(carrier[c]) /\ r.mux = carrier[c].mux
    BY <1>1, Zenon DEF Kept, CarrierState
  <2> QED
    BY <2>1, <2>2, KeptStep, Zenon
<1>4. CASE ClearCarrier(c)
  <2> DEFINE r == [carrier[c] EXCEPT !.pc = "drop", !.mux = 0]
  <2>1. carrier' = [carrier EXCEPT ![c] = r] /\ UNCHANGED listener
    BY <1>1, <1>4, Zenon DEF ClearCarrier
  <2>2. ~Kept(r)
    BY <1>1, Zenon DEF Kept, CarrierState
  <2> QED
    BY <2>1, <2>2, KeptStep, Zenon
<1>5. CASE DropCarrier(c)
  <2> DEFINE r == [carrier[c] EXCEPT !.pc = "retry", !.registered = FALSE]
  <2>1. carrier' = [carrier EXCEPT ![c] = r] /\ UNCHANGED listener
    BY <1>1, <1>5, Zenon DEF DropCarrier
  <2>2. ~Kept(r)
    BY <1>1, Zenon DEF Kept, CarrierState
  <2> QED
    BY <2>1, <2>2, KeptStep, Zenon
<1>6. CASE MaintainEnds(c)
  <2> DEFINE r == [carrier[c] EXCEPT !.pc = "end"]
  <2>1. /\ carrier' = [carrier EXCEPT ![c] = r] /\ UNCHANGED listener
        /\ carrier[c].pc \in {"watch", "retry"}
    BY <1>1, <1>6, Zenon DEF MaintainEnds
  <2>2. r.registered = carrier[c].registered /\ r.mux = carrier[c].mux
    BY <1>1, Zenon DEF CarrierState
  <2>3. Kept(r) => Kept(carrier[c])
    BY <2>1, <2>2 DEF Kept
  <2> HIDE DEF r
  <2> QED
    BY <2>1, <2>2, <2>3, KeptStep, Zenon
<1> QED
  BY <1>2, <1>3, <1>4, <1>5, <1>6

LEMMA KeptInstalls ==
    ASSUME SvcInv, KeptIsSeen, NEW c \in SvcCarriers, Installs(c) PROVE KeptIsSeen'
<1>1. carrier \in [SvcCarriers -> CarrierState] /\ carrier[c] \in CarrierState
  BY Zenon DEF SvcInv, SvcTypeOK
<1>2. CASE SvcClosed
  <2> DEFINE r == [carrier[c] EXCEPT !.pc = "end", !.registered = FALSE]
  <2>1. carrier' = [carrier EXCEPT ![c] = r] /\ UNCHANGED listener
    BY <1>1, <1>2, Zenon DEF Installs
  <2>2. ~Kept(r)
    BY <1>1, Zenon DEF Kept, CarrierState
  <2> QED
    BY <2>1, <2>2, KeptStep, Zenon
<1>3. CASE ~SvcClosed
  <2> DEFINE n == carrier[c].gen + 1
             r == [carrier[c] EXCEPT !.pc = "watch", !.mux = n, !.gen = @ + 1, !.done = FALSE]
  <2>1. carrier' = [carrier EXCEPT ![c] = r] /\ UNCHANGED listener
    BY <1>1, <1>3, Zenon DEF Installs
  <2>2. n # 0
    BY <1>1 DEF CarrierState
  <2> HIDE DEF n
  <2>3. r.mux # 0
    BY <1>1, <2>2, Zenon DEF CarrierState
  <2> HIDE DEF r
  <2>4. \A d \in SvcCarriers : carrier'[d] = IF d = c THEN r ELSE carrier[d]
    BY <1>1, <2>1, Zenon
  <2>5. listener.pc = "open"
    BY <1>3 DEF SvcClosed
  <2> QED
    BY <2>1, <2>3, <2>4, <2>5 DEF KeptIsSeen
<1> QED
  BY <1>2, <1>3

LEMMA KeptClose ==
    ASSUME SvcInv, KeptIsSeen, NEW c \in SvcCarriers,
           CloseLooks(c) \/ CloseClosesMux(c) \/ CloseUnregisters(c)
    PROVE  KeptIsSeen'
<1>1. carrier \in [SvcCarriers -> CarrierState] /\ carrier[c] \in CarrierState
  BY Zenon DEF SvcInv, SvcTypeOK
<1>2. listener \in ListenerState
  BY Zenon DEF SvcInv, SvcTypeOK
<1>3. c # "none"
  BY OwnersFacts, Zenon
<1>4. CASE CloseLooks(c)
  <2> DEFINE e == IF carrier[c].mux # 0 THEN c ELSE "none"
  <2>1. /\ listener.pc \in {"drain", "entries"} /\ listener.entry = "none"
        /\ listener' = [listener EXCEPT !.left = @ \ {c}, !.entry = e] /\ UNCHANGED carrier
    BY <1>4, Zenon DEF CloseLooks
  <2> HIDE DEF e
  <2>2. listener'.pc = listener.pc /\ listener'.left = listener.left \ {c} /\ listener'.entry = e
    BY <1>2, <2>1, Zenon DEF ListenerState
  <2>3. ASSUME NEW d \in SvcCarriers, Kept(carrier[d]), listener.pc \in {"entries", "closed"}
        PROVE  d \in listener'.left \/ listener'.entry = d
    <3>1. carrier[d].mux # 0 /\ d \in listener.left
      BY <2>1, <2>3, OwnersFacts, Zenon DEF KeptIsSeen
    <3>2. CASE d = c
      BY <2>2, <3>1, <3>2, Zenon DEF e
    <3>3. CASE d # c
      BY <2>2, <3>1, <3>3, Zenon
    <3> QED
      BY <3>2, <3>3
  <2>4. listener'.pc # "closed"
    BY <2>1, <2>2
  <2> QED
    BY <2>1, <2>2, <2>3, <2>4, Zenon DEF KeptIsSeen
<1>5. CASE CloseClosesMux(c)
  <2>1. listener' \in ListenerState /\ listener'.pc \in {"drain", "panic"}
    BY <1>2, <1>5, Zenon DEF CloseClosesMux, ListenerState
  <2>2. \A d \in SvcCarriers : /\ carrier'[d].registered = carrier[d].registered
                               /\ carrier'[d].pc = carrier[d].pc
                               /\ carrier'[d].mux = carrier[d].mux
    <3> DEFINE r == [carrier[c] EXCEPT !.done = TRUE]
    <3>1. UNCHANGED carrier \/ carrier' = [carrier EXCEPT ![c] = r]
      BY <1>1, <1>5, Zenon DEF CloseClosesMux
    <3>2. r.registered = carrier[c].registered /\ r.pc = carrier[c].pc /\ r.mux = carrier[c].mux
      BY <1>1, Zenon DEF CarrierState
    <3> HIDE DEF r
    <3> QED
      BY <1>1, <3>1, <3>2, Zenon
  <2>3. listener'.pc \notin {"entries", "closed"}
    BY <2>1
  <2> QED
    BY <2>2, <2>3, Zenon DEF KeptIsSeen, Kept
<1>6. CASE CloseUnregisters(c)
  <2>1. listener.pc = "entries" /\ listener.entry = c
    BY <1>6, Zenon DEF CloseUnregisters
  <2>2. CASE carrier[c].mux = 0
    <3>1. listener'.pc = "panic" /\ UNCHANGED carrier
      BY <1>2, <1>6, <2>2, Zenon DEF CloseUnregisters, ListenerState
    <3> QED
      BY <3>1 DEF KeptIsSeen
  <2>3. CASE carrier[c].mux # 0
    <3> DEFINE r == [carrier[c] EXCEPT !.registered = FALSE]
    <3>1. /\ listener' = [listener EXCEPT !.entry = "none"]
          /\ carrier' = [carrier EXCEPT ![c] = r]
      BY <1>1, <1>6, <2>3, Zenon DEF CloseUnregisters
    <3>2. listener'.pc = "entries" /\ listener'.left = listener.left
      BY <1>2, <2>1, <3>1, Zenon DEF ListenerState
    <3>3. ~Kept(r)
      BY <1>1, Zenon DEF Kept, CarrierState
    <3> HIDE DEF r
    <3>4. \A d \in SvcCarriers : Kept(carrier'[d]) => d # c /\ carrier'[d] = carrier[d]
      BY <1>1, <3>1, <3>3, Zenon
    <3>5. \A d \in SvcCarriers : Kept(carrier'[d]) => carrier'[d].mux # 0 /\ d \in listener'.left
      BY <2>1, <3>2, <3>4, Zenon DEF KeptIsSeen
    <3> QED
      BY <3>2, <3>5 DEF KeptIsSeen
  <2> QED
    BY <2>2, <2>3
<1> QED
  BY <1>4, <1>5, <1>6

LEMMA KeptNext == SvcInv /\ KeptIsSeen /\ [SvcNext]_svcVars => KeptIsSeen'
<1> SUFFICES ASSUME SvcInv, KeptIsSeen, [SvcNext]_svcVars PROVE KeptIsSeen'
  OBVIOUS
<1>0. listener \in ListenerState
  BY Zenon DEF SvcInv, SvcTypeOK
<1>1. CASE UNCHANGED <<carrier, listener>>
  BY <1>1, Zenon DEF KeptIsSeen
<1>2. CASE \E w \in SvcWorkers : \E c \in SvcCarriers : \E id \in SvcIds : Arrives(w, c, id)
  BY <1>1, <1>2, Zenon DEF Arrives
<1>3. CASE \E w \in SvcWorkers : \/ Admits(w) \/ HandshakeFails(w) \/ ReleasesSlot(w)
                                 \/ Activates(w) \/ Queues(w)
  BY <1>1, <1>3, Zenon DEF Admits, HandshakeFails, ReleasesSlot, Activates, Queues
<1>4. CASE \E id \in SvcIds : SessionCloses(id) \/ TombstoneExpires(id)
  BY <1>1, <1>4, Zenon DEF SessionCloses, TombstoneExpires
<1>5. CASE SvcAccepts \/ UNCHANGED svcVars
  BY <1>1, <1>5, Zenon DEF SvcAccepts, svcVars
<1>6. CASE \E c \in SvcCarriers : \/ Registers(c) \/ MuxEnds(c) \/ ClearCarrier(c)
                                  \/ DropCarrier(c) \/ MaintainEnds(c)
  BY <1>6, KeptCarrier, Zenon
<1>7. CASE \E c \in SvcCarriers : Installs(c)
  BY <1>7, KeptInstalls, Zenon
<1>8. CASE \E c \in SvcCarriers : CloseLooks(c) \/ CloseClosesMux(c) \/ CloseUnregisters(c)
  BY <1>8, KeptClose, Zenon
<1>9. CASE SvcCloses
  <2>1. listener' = [pc |-> "drain", left |-> SvcCarriers, entry |-> "none"] /\ UNCHANGED carrier
    BY <1>9, Zenon DEF SvcCloses
  <2> QED
    BY <2>1 DEF KeptIsSeen
<1>10. CASE CloseDrained
  <2>1. listener' = [listener EXCEPT !.pc = "entries", !.left = SvcCarriers] /\ UNCHANGED carrier
    BY <1>10, Zenon DEF CloseDrained
  <2>2. listener'.pc = "entries" /\ listener'.left = SvcCarriers
    BY <1>0, <2>1, Zenon DEF ListenerState
  <2> QED
    BY <2>1, <2>2 DEF KeptIsSeen
<1>11. CASE SvcDone
  <2>1. /\ listener.pc = "entries" /\ listener.left = {} /\ listener.entry = "none"
        /\ listener' = [listener EXCEPT !.pc = "closed"] /\ UNCHANGED carrier
    BY <1>11, Zenon DEF SvcDone
  <2>2. listener'.left = {} /\ listener'.entry = "none"
    BY <1>0, <2>1, Zenon DEF ListenerState
  <2> QED
    BY <2>1, <2>2 DEF KeptIsSeen
<1> QED
  BY <1>2, <1>3, <1>4, <1>5, <1>6, <1>7, <1>8, <1>9, <1>10, <1>11, Zenon DEF SvcNext

(* When Close has returned, a carrier that is still registered at its relay  *)
(* is one that openCarrier or clearCarrier is about to deregister: no order  *)
(* of Close, a lost mux and a carrier that is being opened leaves a          *)
(* registration behind, for any number of carriers.                          *)
THEOREM RegistrationsAreTakenBack == SvcSpec => []RegistrationsTakenBack
<1>1. KeptIsSeen => RegistrationsTakenBack
  <2> SUFFICES ASSUME KeptIsSeen, listener.pc = "closed", NEW c \in SvcCarriers, carrier[c].registered
               PROVE  carrier[c].pc \in {"install", "drop"}
    BY Zenon DEF RegistrationsTakenBack
  <2>1. ~Kept(carrier[c])
    BY OwnersFacts, Zenon DEF KeptIsSeen
  <2> QED
    BY <2>1, Zenon DEF Kept
<1> QED
  BY <1>1, SvcInitInv, SvcNextInv, KeptInit, KeptNext, PTL DEF SvcSpec

-----------------------------------------------------------------------------
(* Metering. Two counts are kept side by side. What is written, waiting to   *)
(* be written or remembered by the retransmit cache was charged at some time;*)
(* and what is written was charged without the part of acc that a failed     *)
(* write would take back.                                                    *)

Cached == {f \in Frames : cache[f] >= 0}

\* What the pumps that ended had collected and never reported.
Unreported == stops * (Threshold - 1)

MeterType ==
    /\ cache \in [Frames -> Int]
    /\ acc \in 0..(Threshold - 1)
    /\ batch \in [frames : SUBSET Frames, accounted : Nat, closed : BOOLEAN]
    /\ account \in [uplink : Nat, settled : Nat, cutoff : BOOLEAN]
    /\ loop \in [pc : {"idle", "settling", "probe"}, delta : Nat]
    /\ loop.pc = "settling" \/ loop.delta = 0
    /\ ca \in [balance : Int, used : Nat, missed : Nat]
    /\ written \in SUBSET Frames
    /\ stops \in Nat

\* A rollback takes back no more than was collected.
RollbackCovered ==
    /\ batch.accounted <= acc
    /\ batch.frames = {} => batch.accounted = 0

FramesPaid ==
    /\ Cardinality(written \cup batch.frames \cup Cached) <= account.uplink + acc + Unreported
    /\ Cardinality(written) <= account.uplink + acc - batch.accounted + Unreported

MeterInv == MeterType /\ RollbackCovered /\ FramesPaid /\ DeductedOnce

LEMMA FramesFinite ==
    ASSUME NEW S \in SUBSET Frames
    PROVE  IsFiniteSet(S) /\ Cardinality(S) \in Nat
  BY MeterAssumption, SubsetFinite

LEMMA FewerFrames ==
    ASSUME NEW T \in SUBSET Frames, NEW S \in SUBSET T
    PROVE  Cardinality(S) <= Cardinality(T)
  BY FramesFinite, FS_Subset

LEMMA OneMoreFrame ==
    ASSUME NEW S \in SUBSET Frames, NEW f \in Frames
    PROVE  Cardinality(S \cup {f}) <= Cardinality(S) + 1
  BY FramesFinite, FS_AddElement

LEMMA UnreportedType ==
    ASSUME NEW n \in Nat
    PROVE  /\ n * (Threshold - 1) \in Nat
           /\ (n + 1) * (Threshold - 1) = n * (Threshold - 1) + (Threshold - 1)
<1>1. PICK t \in Nat : t = Threshold - 1
  BY MeterAssumption
<1>2. n * t \in Nat /\ (n + 1) * t = n * t + t
  OBVIOUS
<1> QED
  BY <1>1, <1>2

\* A frame that is charged may be new to the cache; one that is not was there.
LEMMA RecordFrameFacts ==
    ASSUME cache \in [Frames -> Int], NEW f \in Frames
    PROVE  LET r == RecordFrame(f)
               after == {g \in Frames : r.cache[g] >= 0} IN
           /\ r.charged \in {0, 1} /\ r.cache \in [Frames -> Int]
           /\ after \subseteq Cached \cup {f}
           /\ r.charged = 0 => f \in Cached /\ after = Cached
<1>1. CASE cache[f] >= 0 /\ cache[f] >= MaxFreeRepeats
  BY <1>1, Zenon DEF RecordFrame, Cached
<1>2. CASE cache[f] >= 0 /\ ~(cache[f] >= MaxFreeRepeats)
  <2> DEFINE n == cache[f] + 1
  <2>1. n \in Int /\ n >= 0
    BY <1>2
  <2>2. RecordFrame(f) = [charged |-> 0, cache |-> [cache EXCEPT ![f] = n]]
    BY <1>2, Zenon DEF RecordFrame
  <2> HIDE DEF n
  <2> QED
    BY <1>2, <2>1, <2>2 DEF Cached
<1>3. CASE ~(cache[f] >= 0)
  <2>1. RecordFrame(f).charged = 1 /\ RecordFrame(f).cache \in {cache, [cache EXCEPT ![f] = 0]}
    BY <1>3, Zenon DEF RecordFrame
  <2> QED
    BY <2>1 DEF Cached
<1> QED
  BY <1>1, <1>2, <1>3, Zenon

LEMMA MeterInitInv == MeterInit => MeterInv
<1> SUFFICES ASSUME MeterInit PROVE MeterInv
  OBVIOUS
<1>0. /\ acc = 0 /\ batch.accounted = 0 /\ batch.frames = {} /\ written = {} /\ stops = 0
      /\ account.uplink = 0 /\ account.settled = 0 /\ ca.used = 0 /\ ca.missed = 0 /\ loop.delta = 0
  BY Zenon DEF MeterInit, NoBatch
<1>1. MeterType
  <2>1. 0 \in 0..(Threshold - 1) /\ 0 \in Nat /\ -1 \in Int /\ Balance \in Int
    BY MeterAssumption
  <2> QED
    BY <2>1, Zenon DEF MeterInit, NoBatch, MeterType
<1>2. RollbackCovered /\ DeductedOnce
  BY <1>0 DEF RollbackCovered, DeductedOnce
<1>3. written \cup batch.frames \cup Cached = {} /\ written = {} /\ Cardinality({}) = 0
  <2>1. \A f \in Frames : cache[f] = -1
    BY Zenon DEF MeterInit
  <2> QED
    BY <1>0, <2>1, FS_EmptySet DEF Cached
<1>4. Unreported = 0
  <2>1. PICK t \in Nat : t = Threshold - 1
    BY MeterAssumption
  <2>2. 0 * t = 0
    BY SMTT(30)
  <2> QED
    BY <1>0, <2>1, <2>2, Zenon DEF Unreported
<1>5. FramesPaid
  BY <1>0, <1>3, <1>4 DEF FramesPaid
<1> QED
  BY <1>1, <1>2, <1>5, Zenon DEF MeterInv

\* The counts as numbers.
LEMMA MeterNumbers ==
    ASSUME MeterInv
    PROVE  /\ acc \in Nat /\ acc <= Threshold - 1 /\ Threshold \in Nat /\ batch.accounted \in Nat
           /\ account.uplink \in Nat /\ stops \in Nat /\ Unreported \in Nat
           /\ batch.frames \in SUBSET Frames /\ written \in SUBSET Frames /\ Cached \in SUBSET Frames
           /\ Cardinality(written) \in Nat
           /\ Cardinality(written \cup batch.frames) \in Nat
           /\ Cardinality(written \cup batch.frames \cup Cached) \in Nat
           /\ Cardinality(written \cup batch.frames) <= Cardinality(written \cup batch.frames \cup Cached)
<1>1. /\ acc \in Nat /\ acc <= Threshold - 1 /\ Threshold \in Nat /\ batch.accounted \in Nat
      /\ account.uplink \in Nat /\ stops \in Nat
      /\ batch.frames \in SUBSET Frames /\ written \in SUBSET Frames
  BY MeterAssumption DEF MeterInv, MeterType
<1>2. Cached \in SUBSET Frames
  BY DEF Cached
<1>3. Unreported \in Nat
  BY <1>1, UnreportedType, Zenon DEF Unreported
<1>4. /\ written \cup batch.frames \in SUBSET (written \cup batch.frames \cup Cached)
      /\ written \cup batch.frames \cup Cached \in SUBSET Frames
      /\ written \cup batch.frames \in SUBSET Frames
  BY <1>1, <1>2, Zenon
<1> QED
  BY <1>1, <1>2, <1>3, <1>4, FramesFinite, FewerFrames, Zenon

\* Steps of the settlement loop and the CA: the counts of frames do not change.
LEMMA SettlingStep ==
    ASSUME MeterInv, MeterType', DeductedOnce',
           UNCHANGED <<cache, acc, batch, written, stops>>, account'.uplink = account.uplink
    PROVE  MeterInv'
  BY Zenon DEF MeterInv, RollbackCovered, FramesPaid, Cached, Unreported

LEMMA TakeFrameInv ==
    ASSUME MeterInv, NEW f \in Frames, TakeFrame(f)
    PROVE  MeterInv'
<1> DEFINE r == RecordFrame(f)
           charged == r.charged
           accounted == batch.accounted + IF Boundary THEN 0 ELSE charged
           frames == batch.frames \cup {f}
<1>1. /\ acc + charged < Threshold /\ cache' = r.cache /\ acc' = acc + charged
      /\ batch' = [frames |-> frames, closed |-> Boundary, accounted |-> accounted]
      /\ UNCHANGED <<account, loop, ca, written, stops>>
  BY Zenon DEF TakeFrame
<1>2. /\ charged \in {0, 1} /\ cache' \in [Frames -> Int]
      /\ Cached' \subseteq Cached \cup {f}
      /\ charged = 0 => f \in Cached /\ Cached' = Cached
  BY <1>1, RecordFrameFacts, Zenon DEF MeterInv, MeterType, Cached
<1> HIDE DEF r, charged
<1>3. /\ acc \in Nat /\ batch.accounted \in Nat /\ batch.accounted <= acc
      /\ Threshold \in Nat /\ account.uplink \in Nat /\ Unreported \in Nat
      /\ batch.frames \in SUBSET Frames /\ written \in SUBSET Frames /\ Cached \in SUBSET Frames
  BY MeterNumbers, Zenon DEF MeterInv, RollbackCovered
<1>4. accounted \in Nat /\ accounted <= acc + charged /\ acc - batch.accounted <= acc + charged - accounted
  BY <1>2, <1>3
<1>5. Boundary \in BOOLEAN
  BY DEF Boundary
<1> HIDE DEF accounted
<1>6. frames \in SUBSET Frames /\ frames # {}
  BY <1>3, Zenon
<1>7. /\ acc' \in 0..(Threshold - 1)
      /\ batch' \in [frames : SUBSET Frames, accounted : Nat, closed : BOOLEAN]
      /\ batch'.frames = frames /\ batch'.accounted = accounted
  <2> HIDE DEF frames
  <2>1. acc' \in 0..(Threshold - 1)
    <3>1. acc + charged < Threshold /\ acc' = acc + charged
      BY <1>1, Zenon
    <3>2. charged \in {0, 1} /\ acc \in Nat /\ Threshold \in Nat
      BY <1>2, <1>3, Zenon
    <3> QED
      BY <3>1, <3>2
  <2>2. batch' = [frames |-> frames, closed |-> Boundary, accounted |-> accounted]
    BY <1>1, Zenon
  <2> QED
    BY <2>1, <2>2, <1>4, <1>5, <1>6, Zenon
<1>8. MeterType'
  BY <1>1, <1>2, <1>7, Zenon DEF MeterInv, MeterType
<1>9. RollbackCovered' /\ DeductedOnce'
  BY <1>1, <1>4, <1>6, <1>7, Zenon DEF MeterInv, RollbackCovered, DeductedOnce
<1>10. FramesPaid'
  <2> DEFINE S == written \cup batch.frames \cup Cached
             S1 == written' \cup batch'.frames \cup Cached'
  <2>1. S \in SUBSET Frames /\ S \cup {f} \in SUBSET Frames /\ S1 \in SUBSET (S \cup {f})
    BY <1>1, <1>2, <1>3, <1>7, Zenon
  <2>2. charged = 0 => S1 \in SUBSET S
    BY <1>1, <1>2, <1>7, Zenon
  <2>3. Cardinality(S) <= account.uplink + acc + Unreported
    BY DEF MeterInv, FramesPaid
  <2> HIDE DEF S, S1
  <2>4. Cardinality(S) \in Nat /\ Cardinality(S1) \in Nat /\ Cardinality(S \cup {f}) \in Nat
    BY <2>1, FramesFinite
  <2>5. Cardinality(S1) <= Cardinality(S) + charged
    <3>1. CASE charged = 0
      BY <2>1, <2>2, <2>4, <3>1, FewerFrames
    <3>2. CASE charged = 1
      BY <2>1, <2>4, <3>2, FewerFrames, OneMoreFrame, SMTT(30)
    <3> QED
      BY <1>2, <3>1, <3>2, Zenon
  <2>6. Unreported' = Unreported /\ account'.uplink = account.uplink
    BY <1>1, Zenon DEF Unreported
  <2>7. Cardinality(S1) <= account'.uplink + acc' + Unreported'
    BY <1>1, <1>2, <1>3, <2>3, <2>4, <2>5, <2>6, SMTT(30)
  <2>8. Cardinality(written) \in Nat /\ Cardinality(written) <= account.uplink + acc - batch.accounted + Unreported
    BY MeterNumbers, Zenon DEF MeterInv, FramesPaid
  <2>9. Cardinality(written') <= account'.uplink + acc' - batch'.accounted + Unreported'
    BY <1>1, <1>2, <1>3, <1>4, <1>7, <2>6, <2>8
  <2> QED
    BY <2>7, <2>9, Zenon DEF FramesPaid, S1
<1> QED
  BY <1>8, <1>9, <1>10, Zenon DEF MeterInv

\* The hook reports the collected bytes and the frame's own together.
LEMMA TakeAndReportInv ==
    ASSUME MeterInv, NEW f \in Frames, TakeAndReport(f)
    PROVE  MeterInv'
<1> DEFINE r == RecordFrame(f)
           charged == r.charged
           uplink == account.uplink + acc + charged
<1>1. /\ batch.frames = {} /\ cache' = r.cache /\ acc' = 0
      /\ account' = [account EXCEPT !.uplink = uplink]
      /\ batch' = [frames |-> {f}, accounted |-> 0, closed |-> TRUE]
      /\ UNCHANGED <<loop, ca, written, stops>>
  BY DEF TakeAndReport
<1>2. /\ charged \in {0, 1} /\ cache' \in [Frames -> Int]
      /\ Cached' \subseteq Cached \cup {f}
      /\ charged = 0 => f \in Cached /\ Cached' = Cached
  BY <1>1, RecordFrameFacts DEF MeterInv, MeterType, Cached
<1> HIDE DEF r, charged
<1>3. /\ acc \in Nat /\ Threshold \in Nat /\ Threshold # 0 /\ account.uplink \in Nat /\ Unreported \in Nat
      /\ batch.accounted = 0 /\ written \in SUBSET Frames /\ Cached \in SUBSET Frames
      /\ Cardinality(written) \in Nat
  BY <1>1, MeterNumbers, MeterAssumption DEF MeterInv, RollbackCovered
<1>4. uplink \in Nat /\ uplink >= account.uplink
  BY <1>2, <1>3
<1> HIDE DEF uplink
<1>5. /\ account' \in [uplink : Nat, settled : Nat, cutoff : BOOLEAN]
      /\ account'.uplink = uplink /\ account'.settled = account.settled
  BY <1>1, <1>4 DEF MeterInv, MeterType
<1>6. MeterType'
  <2>1. 0 \in 0..(Threshold - 1) /\ 0 \in Nat
    BY <1>3
  <2> QED
    BY <1>1, <1>2, <1>5, <2>1, Zenon DEF MeterInv, MeterType
<1>7. RollbackCovered'
  BY <1>1 DEF RollbackCovered
<1>8. DeductedOnce'
  <2>1. /\ ca' = ca /\ loop' = loop /\ account'.settled = account.settled
        /\ ca.used + loop.delta + ca.missed = account.settled
        /\ account.settled <= account.uplink /\ account.settled \in Nat
    BY <1>1, <1>5, Zenon DEF MeterInv, MeterType, DeductedOnce
  <2>2. account'.settled <= account'.uplink
    BY <1>3, <1>4, <1>5, <2>1
  <2> QED
    BY <2>1, <2>2, Zenon DEF DeductedOnce
<1>9. FramesPaid'
  <2> DEFINE S == written \cup batch.frames \cup Cached
             S1 == written' \cup batch'.frames \cup Cached'
  <2>1. S \in SUBSET Frames /\ S \cup {f} \in SUBSET Frames /\ S1 \in SUBSET (S \cup {f})
    BY <1>1, <1>2, <1>3
  <2>2. charged = 0 => S1 \in SUBSET S
    BY <1>1, <1>2, Zenon
  <2>3. Cardinality(S) <= account.uplink + acc + Unreported
    BY DEF MeterInv, FramesPaid
  <2> HIDE DEF S, S1
  <2>4. Cardinality(S) \in Nat /\ Cardinality(S1) \in Nat /\ Cardinality(S \cup {f}) \in Nat
    BY <2>1, FramesFinite
  <2>5. Cardinality(S1) <= Cardinality(S) + charged
    <3>1. CASE charged = 0
      BY <2>1, <2>2, <2>4, <3>1, FewerFrames
    <3>2. CASE charged = 1
      BY <2>1, <2>4, <3>2, FewerFrames, OneMoreFrame
    <3> QED
      BY <1>2, <3>1, <3>2
  <2>6. Unreported' = Unreported /\ acc' = 0 /\ batch'.accounted = 0
    BY <1>1, Zenon DEF Unreported
  <2>7. Cardinality(S1) <= account'.uplink + acc' + Unreported'
    <3>1. charged \in {0, 1} /\ account.uplink \in Nat /\ acc \in Nat /\ Unreported \in Nat
      BY <1>2, <1>3, Zenon
    <3> QED
      BY <1>5, <2>3, <2>4, <2>5, <2>6, <3>1 DEF uplink
  <2>8. Cardinality(written) <= account.uplink + acc + Unreported
    BY <1>3 DEF MeterInv, FramesPaid
  <2>9. Cardinality(written') <= account'.uplink + acc' - batch'.accounted + Unreported'
    BY <1>1, <1>2, <1>3, <1>5, <2>6, <2>8 DEF uplink
  <2> QED
    BY <2>7, <2>9 DEF FramesPaid, S1
<1> QED
  BY <1>6, <1>7, <1>8, <1>9 DEF MeterInv

\* A pump that ends loses less than a threshold, and its connection's cache
\* with it.
LEMMA PumpEndsInv ==
    ASSUME MeterInv, batch.frames = {}, ForgetConnection, acc' = 0, stops' = stops + 1,
           UNCHANGED <<batch, account, loop, ca, written>>
    PROVE  MeterInv'
<1>1. /\ acc \in Nat /\ acc <= Threshold - 1 /\ Threshold \in Nat /\ Threshold # 0
      /\ account.uplink \in Nat /\ Unreported \in Nat
      /\ stops \in Nat /\ batch.accounted = 0 /\ Cardinality(written) \in Nat
  BY MeterNumbers, MeterAssumption, Zenon DEF MeterInv, RollbackCovered
<1>2. cache' \in [Frames -> Int] /\ Cached' = {}
  BY DEF ForgetConnection, Cached
<1>3. MeterType'
  <2>1. acc' \in 0..(Threshold - 1) /\ stops' \in Nat
    BY <1>1
  <2> QED
    BY <1>2, <2>1, Zenon DEF MeterInv, MeterType
<1>4. RollbackCovered' /\ DeductedOnce'
  <2>1. DeductedOnce'
    BY Zenon DEF MeterInv, DeductedOnce
  <2>2. batch'.accounted <= acc' /\ (batch'.frames = {} => batch'.accounted = 0)
    BY <1>1
  <2> QED
    BY <2>1, <2>2, Zenon DEF RollbackCovered
<1>5. Unreported' = Unreported + (Threshold - 1)
  BY <1>1, UnreportedType, Zenon DEF Unreported
<1>6. Cardinality(written) <= account.uplink + acc + Unreported
  <2>1. Cardinality(written) <= account.uplink + acc - batch.accounted + Unreported
    BY Zenon DEF MeterInv, FramesPaid
  <2> QED
    BY <1>1, <2>1
<1>7. Cardinality(written') <= account'.uplink + Unreported'
  BY <1>1, <1>5, <1>6
<1>8. Cardinality(written' \cup batch'.frames \cup Cached') = Cardinality(written')
  <2>1. written' \cup batch'.frames \cup Cached' = written'
    BY <1>2, Zenon
  <2> QED
    BY <2>1, Zenon
<1>9. FramesPaid'
  <2>1. batch'.accounted = 0 /\ Cardinality(written') \in Nat /\ account'.uplink \in Nat /\ Unreported' \in Nat
    BY <1>1, <1>5
  <2> QED
    BY <1>7, <1>8, <2>1 DEF FramesPaid
<1> QED
  BY <1>3, <1>4, <1>9, Zenon DEF MeterInv

LEMMA FlushInv ==
    ASSUME MeterInv, Flush
    PROVE  MeterInv'
<1>1. /\ written' = written \cup batch.frames
      /\ batch' = NoBatch /\ UNCHANGED <<cache, acc, account, loop, ca, stops>>
  BY Zenon DEF Flush
<1>2. batch'.frames = {} /\ batch'.accounted = 0
  BY <1>1, Zenon DEF NoBatch
<1>3. MeterType'
  BY <1>1, Zenon DEF MeterInv, MeterType, NoBatch
<1>4. RollbackCovered' /\ DeductedOnce'
  <2>1. acc' = acc /\ acc \in Nat
    BY <1>1, MeterNumbers, Zenon
  <2>2. batch'.accounted <= acc'
    BY <1>2, <2>1
  <2>3. DeductedOnce'
    BY <1>1, Zenon DEF MeterInv, DeductedOnce
  <2> QED
    BY <1>2, <2>2, <2>3, Zenon DEF RollbackCovered
<1>5. Cached' = Cached /\ Unreported' = Unreported
  BY <1>1, Zenon DEF Cached, Unreported
<1>6. written' \cup batch'.frames \cup Cached' = written \cup batch.frames \cup Cached
  BY <1>1, <1>2, <1>5, Zenon
<1>7. FramesPaid'
  <2>1. /\ Cardinality(written \cup batch.frames \cup Cached) <= account.uplink + acc + Unreported
        /\ account' = account /\ acc' = acc /\ written' = written \cup batch.frames
    BY <1>1, Zenon DEF MeterInv, FramesPaid
  <2>2. /\ acc \in Nat /\ account.uplink \in Nat /\ Unreported \in Nat
        /\ Cardinality(written \cup batch.frames) \in Nat
        /\ Cardinality(written \cup batch.frames \cup Cached) \in Nat
        /\ Cardinality(written \cup batch.frames) <= Cardinality(written \cup batch.frames \cup Cached)
    BY MeterNumbers, Zenon
  <2>3. Cardinality(written \cup batch.frames) <= account.uplink + acc - 0 + Unreported
    BY <2>1, <2>2
  <2> QED
    BY <1>2, <1>5, <1>6, <2>1, <2>3, Zenon DEF FramesPaid
<1> QED
  BY <1>3, <1>4, <1>7, Zenon DEF MeterInv

\* What the failed batch had added is taken back, and its frames will be
\* charged again.
LEMMA FlushFailsInv ==
    ASSUME MeterInv, FlushFails
    PROVE  MeterInv'
<1>1. /\ acc' = (IF acc < batch.accounted THEN 0 ELSE acc - batch.accounted) /\ batch' = NoBatch
      /\ ForgetConnection /\ UNCHANGED <<account, loop, ca, written, stops>>
  BY DEF FlushFails
<1>2. acc' = acc - batch.accounted /\ acc' \in 0..(Threshold - 1)
  <2>1. /\ acc \in Nat /\ batch.accounted \in Nat /\ batch.accounted <= acc
        /\ acc <= Threshold - 1 /\ Threshold \in Nat
    BY MeterNumbers, Zenon DEF MeterInv, RollbackCovered
  <2>2. acc' = (IF acc < batch.accounted THEN 0 ELSE acc - batch.accounted)
    BY <1>1, Zenon
  <2> QED
    BY <2>1, <2>2
<1>3. batch'.frames = {} /\ batch'.accounted = 0
  BY <1>1, Zenon DEF NoBatch
<1>4. cache' \in [Frames -> Int] /\ Cached' = {}
  BY <1>1 DEF ForgetConnection, Cached
<1>5. MeterType'
  BY <1>1, <1>2, <1>4, Zenon DEF MeterInv, MeterType, NoBatch
<1>6. RollbackCovered' /\ DeductedOnce'
  BY <1>1, <1>2, <1>3 DEF MeterInv, RollbackCovered, DeductedOnce
<1>7. Cardinality(written' \cup batch'.frames \cup Cached') = Cardinality(written)
  <2>1. written' \cup batch'.frames \cup Cached' = written
    BY <1>1, <1>3, <1>4
  <2> QED
    BY <2>1, Zenon
<1>8. Unreported' = Unreported
  BY <1>1, Zenon DEF Unreported
<1>9. FramesPaid'
  <2>1. /\ Cardinality(written) \in Nat /\ account.uplink \in Nat /\ Unreported \in Nat /\ acc \in Nat
        /\ batch.accounted \in Nat
        /\ Cardinality(written) <= account.uplink + acc - batch.accounted + Unreported
    BY MeterNumbers, Zenon DEF MeterInv, FramesPaid
  <2>2. account' = account /\ written' = written
    BY <1>1, Zenon
  <2>3. acc' = acc - batch.accounted /\ batch'.accounted = 0
    BY <1>2, <1>3, Zenon
  <2> QED
    BY <1>7, <1>8, <2>1, <2>2, <2>3 DEF FramesPaid
<1> QED
  BY <1>5, <1>6, <1>9, Zenon DEF MeterInv

\* The cache forgets more frames: those are charged again when they return.
LEMMA CacheShrinks ==
    ASSUME MeterInv, cache' \in [Frames -> Int], Cached' \subseteq Cached,
           UNCHANGED <<acc, batch, account, loop, ca, written, stops>>
    PROVE  MeterInv'
<1>1. MeterType' /\ RollbackCovered' /\ DeductedOnce'
  BY Zenon DEF MeterInv, MeterType, RollbackCovered, DeductedOnce
<1>2. /\ written' \cup batch'.frames \cup Cached' \in SUBSET (written \cup batch.frames \cup Cached)
      /\ written \cup batch.frames \cup Cached \in SUBSET Frames
  BY MeterNumbers, Zenon
<1>3. /\ Cardinality(written' \cup batch'.frames \cup Cached') <= Cardinality(written \cup batch.frames \cup Cached)
      /\ Cardinality(written' \cup batch'.frames \cup Cached') \in Nat
  BY <1>2, FewerFrames, FramesFinite
<1>4. Unreported' = Unreported
  BY Zenon DEF Unreported
<1>5. FramesPaid'
  <2>1. /\ Cardinality(written \cup batch.frames \cup Cached) <= account.uplink + acc + Unreported
        /\ Cardinality(written) <= account.uplink + acc - batch.accounted + Unreported
        /\ Cardinality(written \cup batch.frames \cup Cached) \in Nat
    BY MeterNumbers, Zenon DEF MeterInv, FramesPaid
  <2>2. account.uplink \in Nat /\ acc \in Nat /\ Unreported \in Nat
    BY MeterNumbers, Zenon
  <2>3. Cardinality(written' \cup batch'.frames \cup Cached') <= account.uplink + acc + Unreported
    BY <1>3, <2>1, <2>2
  <2> QED
    BY <1>4, <2>1, <2>3, Zenon DEF FramesPaid
<1> QED
  BY <1>1, <1>5, Zenon DEF MeterInv

LEMMA TakeUnsettledInv ==
    ASSUME MeterInv, TakeUnsettled
    PROVE  MeterInv'
<1> DEFINE delta == account.uplink - account.settled
<1>1. /\ loop.pc = "idle" /\ account.uplink > account.settled
      /\ loop' = [pc |-> "settling", delta |-> delta]
      /\ account' = [account EXCEPT !.settled = account.uplink]
      /\ UNCHANGED <<cache, acc, batch, ca, written, stops>>
  BY DEF TakeUnsettled
<1>2. account.uplink \in Nat /\ account.settled \in Nat /\ ca.used \in Nat /\ ca.missed \in Nat
      /\ delta \in Nat /\ loop.delta = 0
  BY <1>1 DEF MeterInv, MeterType
<1> HIDE DEF delta
<1>3. MeterType' /\ account'.uplink = account.uplink /\ account'.settled = account.uplink
  BY <1>1, <1>2 DEF MeterInv, MeterType
<1>4. DeductedOnce'
  <2>1. ca.used + loop.delta + ca.missed = account.settled
    BY Zenon DEF MeterInv, DeductedOnce
  <2>2. ca.used + delta + ca.missed = account.uplink
    BY <1>2, <2>1 DEF delta
  <2>3. ca' = ca /\ loop'.delta = delta
    BY <1>1, Zenon
  <2>4. account'.settled <= account'.uplink
    BY <1>2, <1>3
  <2> QED
    BY <1>3, <2>2, <2>3, <2>4, Zenon DEF DeductedOnce
<1> QED
  BY <1>1, <1>3, <1>4, SettlingStep

\* The CA deducts what is on its way, or the call fails before it does.
LEMMA SettleInv ==
    ASSUME MeterInv, SettleAnswered \/ SettleFails
    PROVE  MeterInv'
<1>1. /\ loop.pc = "settling" /\ loop' = [pc |-> "probe", delta |-> 0]
      /\ UNCHANGED <<cache, acc, batch, written, stops>>
  BY DEF SettleAnswered, SettleFails
<1>2. \/ ca' = [ca EXCEPT !.balance = @ - loop.delta, !.used = @ + loop.delta]
      \/ ca' = [ca EXCEPT !.missed = @ + loop.delta]
  BY DEF SettleAnswered, SettleFails, Deducts
<1>3. account' = account \/ account' = [account EXCEPT !.cutoff = ca'.balance <= 0]
  BY DEF SettleAnswered, SettleFails
<1>4. /\ ca \in [balance : Int, used : Nat, missed : Nat] /\ loop.delta \in Nat
      /\ account.uplink \in Nat /\ account.settled \in Nat
  BY DEF MeterInv, MeterType
<1>5. (ca'.balance <= 0) \in BOOLEAN
  BY SMTT(30)
<1>6. /\ ca' \in [balance : Int, used : Nat, missed : Nat]
      /\ ca'.used + ca'.missed = ca.used + loop.delta + ca.missed
  <2>1. ca.balance \in Int /\ ca.used \in Nat /\ ca.missed \in Nat /\ loop.delta \in Nat
    BY <1>4
  <2>2. CASE ca' = [ca EXCEPT !.balance = @ - loop.delta, !.used = @ + loop.delta]
    <3>1. ca'.used = ca.used + loop.delta /\ ca'.missed = ca.missed
      BY <1>4, <2>2, Zenon
    <3>2. ca.balance - loop.delta \in Int /\ ca.used + loop.delta \in Nat
      BY <2>1
    <3>3. ca' \in [balance : Int, used : Nat, missed : Nat]
      BY <1>4, <2>2, <3>2, Zenon
    <3> QED
      BY <2>1, <3>1, <3>3
  <2>3. CASE ca' = [ca EXCEPT !.missed = @ + loop.delta]
    <3>1. ca'.used = ca.used /\ ca'.missed = ca.missed + loop.delta
      BY <1>4, <2>3, Zenon
    <3>2. ca.missed + loop.delta \in Nat
      BY <2>1
    <3>3. ca' \in [balance : Int, used : Nat, missed : Nat]
      BY <1>4, <2>3, <3>2, Zenon
    <3> QED
      BY <2>1, <3>1, <3>3
  <2> QED
    BY <1>2, <2>2, <2>3
<1>7. /\ account' \in [uplink : Nat, settled : Nat, cutoff : BOOLEAN]
      /\ account'.uplink = account.uplink /\ account'.settled = account.settled
  BY <1>3, <1>5, Zenon DEF MeterInv, MeterType
<1>8. MeterType'
  BY <1>1, <1>6, <1>7 DEF MeterInv, MeterType
<1>9. DeductedOnce'
  <2>1. /\ loop'.delta = 0 /\ account'.uplink = account.uplink /\ account'.settled = account.settled
        /\ ca.used + loop.delta + ca.missed = account.settled /\ account.settled <= account.uplink
    BY <1>1, <1>7, Zenon DEF MeterInv, DeductedOnce
  <2>2. ca'.used \in Nat /\ ca'.missed \in Nat
    BY <1>6
  <2> QED
    BY <1>6, <2>1, <2>2 DEF DeductedOnce
<1> QED
  BY <1>1, <1>7, <1>8, <1>9, SettlingStep

LEMMA ProbingInv ==
    ASSUME MeterInv, SettleNothing \/ Probe \/ ProbeFails \/ Credit
    PROVE  MeterInv'
<1>1. UNCHANGED <<cache, acc, batch, written, stops>>
  BY DEF SettleNothing, Probe, ProbeFails, Credit
<1>2. /\ loop' = loop \/ (loop.pc # "settling" /\ loop' \in [pc : {"idle", "probe"}, delta : {0}])
      /\ ca' = ca \/ ca' = [ca EXCEPT !.balance = Balance]
      /\ account' = account \/ account' = [account EXCEPT !.cutoff = @ /\ ca.balance <= 0]
  BY DEF SettleNothing, Probe, ProbeFails, Credit
<1>3. /\ account' \in [uplink : Nat, settled : Nat, cutoff : BOOLEAN]
      /\ account'.uplink = account.uplink /\ account'.settled = account.settled
  BY <1>2, Zenon DEF MeterInv, MeterType
<1>4. ca' \in [balance : Int, used : Nat, missed : Nat] /\ ca'.used = ca.used /\ ca'.missed = ca.missed
  BY <1>2, MeterAssumption DEF MeterInv, MeterType
<1>5. /\ loop' \in [pc : {"idle", "settling", "probe"}, delta : Nat] /\ loop'.delta = loop.delta
      /\ loop'.pc = "settling" \/ loop'.delta = 0
  BY <1>2 DEF MeterInv, MeterType
<1>6. MeterType'
  BY <1>1, <1>3, <1>4, <1>5 DEF MeterInv, MeterType
<1>7. DeductedOnce'
  BY <1>2, <1>3, <1>4, <1>5, Zenon DEF MeterInv, DeductedOnce
<1> QED
  BY <1>1, <1>3, <1>6, <1>7, SettlingStep

LEMMA MeterNextInv == MeterInv /\ [MeterNext]_meterVars => MeterInv'
<1> SUFFICES ASSUME MeterInv, [MeterNext]_meterVars PROVE MeterInv'
  OBVIOUS
<1>1. ASSUME NEW f \in Frames, TakeFrame(f) PROVE MeterInv'
  BY <1>1, TakeFrameInv
<1>2. ASSUME NEW f \in Frames, TakeAndReport(f) PROVE MeterInv'
  BY <1>2, TakeAndReportInv, Zenon
<1>3. ASSUME NEW f \in Frames, TakeAndRefuse(f) PROVE MeterInv'
  BY <1>3, PumpEndsInv, Zenon DEF TakeAndRefuse
<1>4. ASSUME NEW f \in Frames, CacheDrops(f) PROVE MeterInv'
  <2>1. cache' \in [Frames -> Int] /\ Cached' \subseteq Cached
    BY <1>4 DEF CacheDrops, MeterInv, MeterType, Cached
  <2> QED
    BY <1>4, <2>1, CacheShrinks, Zenon DEF CacheDrops
<1>5. ASSUME NEW n \in 1..Cardinality(Frames), AckFrames(n) PROVE MeterInv'
  <2>1. cache' \in [Frames -> Int] /\ Cached' \subseteq Cached
    <3>1. cache \in [Frames -> Int]
      BY Zenon DEF MeterInv, MeterType
    <3> QED
      BY <1>5, <3>1 DEF AckFrames, Cached
  <2> QED
    BY <1>5, <2>1, CacheShrinks, Zenon DEF AckFrames
<1>6. CASE Flush
  BY <1>6, FlushInv
<1>7. CASE FlushFails
  BY <1>7, FlushFailsInv
<1>8. CASE PumpEnds
  BY <1>8, PumpEndsInv DEF PumpEnds
<1>9. CASE TakeUnsettled
  BY <1>9, TakeUnsettledInv
<1>10. CASE SettleAnswered \/ SettleFails
  BY <1>10, SettleInv
<1>11. CASE SettleNothing \/ Probe \/ ProbeFails \/ Credit
  BY <1>11, ProbingInv, Zenon
<1>12. CASE UNCHANGED meterVars
  BY <1>12, Zenon DEF meterVars, MeterInv, MeterType, RollbackCovered, FramesPaid, DeductedOnce, Cached, Unreported
<1> QED
  BY <1>1, <1>2, <1>3, <1>4, <1>5, <1>6, <1>7, <1>8, <1>9, <1>10, <1>11, <1>12, Zenon
  DEF MeterNext

(* A relay lets no frame through unpaid, but for what each pump that ended   *)
(* had collected below the threshold, and the CA deducts what the account    *)
(* handed over once, but for calls that failed before it did: for any number *)
(* of frames, threshold and cache, whatever the order of write errors,       *)
(* rollbacks, acknowledgements, expiries and failing settlements.            *)
THEOREM FramesArePaidOnce == MeterSpec => []PaidOnce
<1>1. MeterInv => PaidOnce
  <2> SUFFICES ASSUME MeterInv PROVE PaidOnce
    OBVIOUS
  <2>1. Cardinality(written) <= account.uplink + acc - batch.accounted + Unreported
    BY Zenon DEF MeterInv, FramesPaid
  <2>2. /\ Cardinality(written) \in Nat /\ account.uplink \in Nat /\ acc \in Nat
        /\ batch.accounted \in Nat /\ Unreported \in Nat
    BY MeterNumbers, Zenon
  <2>3. Cardinality(written) <= account.uplink + acc + Unreported
    BY <2>1, <2>2
  <2>4. MeteredWithinThreshold
    BY <2>3, Zenon DEF MeteredWithinThreshold, Unreported
  <2> QED
    BY <2>4, Zenon DEF MeterInv, PaidOnce
<1> QED
  BY <1>1, MeterInitInv, MeterNextInv, PTL DEF MeterSpec

=============================================================================
