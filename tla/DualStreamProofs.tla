--------------------------- MODULE DualStreamProofs ---------------------------
(***************************************************************************)
(* Proofs about the dialing side of a DualStream (DualStream): its leg     *)
(* table and the goroutines that dial agree, no carrier is forgotten, and  *)
(* no waiting send misses a new leg - for any number of legs, carriers,    *)
(* reconnect goroutines, senders and relays.                               *)
(***************************************************************************)
EXTENDS DualStream, WellFoundedInduction, TLAPS

-----------------------------------------------------------------------------
(* The invariant.                                                            *)

Relays == (UNION {Range(list) : list \in CandidateLists}) \cup {"none"}
Target == [relay : Relays, generation : Nat]
LegOrNone == LegIds \cup {NoLeg}
CarrierOrNone == Carriers \cup {NoCarrier}

TableState == [leg : [LegIds -> CarrierOrNone], order : Seq(LegIds), preferred : LegOrNone]
CarrierState == [state : {"up", "broken", "closed"}, relay : Relays, leg : LegOrNone, pump : BOOLEAN]
SetupState ==
    [pc : {"dialing", "extra", "finish", "failed", "ready", "enable", "established"},
     pending : SUBSET LegIds, ok : SUBSET LegIds, target : Target]
WorkerState ==
    [pc : {"off", "loop", "dial", "attach", "signal", "spent", "drop"}, id : LegOrNone,
     left : 0..MaxAttempts, forever : BOOLEAN, c : CarrierOrNone, target : Target]
WatcherState == [pc : {"wait", "migrate", "done"}, seen : Nat, todo : SUBSET (LegIds \X Carriers)]
FailState == [pc : {"idle", "detach"}, id : LegOrNone, c : CarrierOrNone, redial : BOOLEAN]
SenderState ==
    [pc : {"idle", "order", "wait", "primary", "hedged", "both", "backup", "retry"},
     moved : BOOLEAN, woken : BOOLEAN, p : LegOrNone, pk : CarrierOrNone,
     b : LegOrNone, bk : CarrierOrNone]

DualTypeOK ==
    /\ FailoverTypeOK
    /\ table \in TableState
    /\ carrier \in [Carriers -> CarrierState]
    /\ ctxDone \in BOOLEAN /\ setup \in SetupState
    /\ survival \in BOOLEAN
    /\ dialers \subseteq LegIds /\ persistent \subseteq LegIds
    /\ disabled \subseteq LegIds /\ active \subseteq LegIds
    /\ worker \in [Workers -> WorkerState]
    /\ watcher \in WatcherState
    /\ fail \in [Threads -> FailState]
    /\ sender \in [Senders -> SenderState]

\* What the set-up has reached: the legs still to be dialed are not there, and
\* a stream that lost its legs before the handshake is closed.
SetupInv ==
    /\ survival <=> setup.pc \in {"enable", "established"}
    /\ setup.pc = "dialing" => /\ setup.pending \subseteq InitialLegs
                               /\ \A id \in setup.pending : table.leg[id] = NoCarrier
    /\ setup.pc \in {"dialing", "extra"} /\ "tcp#2" \in LegIds => table.leg["tcp#2"] = NoCarrier
    /\ setup.pc = "extra" => ~SingleTCP
    /\ setup.pc = "ready" /\ Attached(table) = {} => ctxDone

\* The table of a closed stream is empty.
TableInv ==
    /\ ctxDone => Attached(table) = {}
    /\ ~ctxDone => TableConsistent(table)

\* A reconnect goroutine runs for one leg, which is marked active, and dials
\* only while the leg is missing.
WorkerInv ==
    /\ \A w \in Workers :
          /\ worker[w].pc = "off" <=> worker[w].id = NoLeg
          /\ worker[w].pc # "off" => survival /\ worker[w].id \in active
          /\ worker[w].pc \in {"dial", "attach"} =>
                /\ worker[w].forever \/ worker[w].left > 0
                /\ table.leg[worker[w].id] = NoCarrier
    /\ OneDialPerLeg

\* A dialed carrier that waits to be attached is known to its goroutine only.
HeldCarrier(w) ==
    LET c == worker[w].c
    IN /\ c \in Carriers /\ carrier[c].state # "closed" /\ ~carrier[c].pump
       /\ \A id \in LegIds : table.leg[id] # c
       /\ \A t \in Threads : fail[t].c # c
       /\ \A leg \in watcher.todo : leg[2] # c
       /\ \A v \in Workers : worker[v].pc = "attach" /\ worker[v].c = c => v = w

\* A leg's carrier is closed or has the pump of that leg; one that is being
\* failed is closed, and dialed again only once the handshake is done.
CarrierInv ==
    /\ \A w \in Workers : worker[w].pc = "attach" => HeldCarrier(w)
    /\ \A c \in Carriers : carrier[c].pump => carrier[c].leg \in LegIds
    /\ \A id \in LegIds : table.leg[id] \in Carriers =>
          LET r == carrier[table.leg[id]]
          IN r.state = "closed" \/ (r.leg = id /\ r.pump)
    /\ \A t \in Threads : fail[t].pc = "detach" =>
          fail[t].id \in LegIds /\ fail[t].c \in Carriers /\ carrier[fail[t].c].state = "closed"
    /\ \A t \in Threads : fail[t].redial => survival

\* A send runs on a stream that is set up; the legs it is at are legs.
SenderInv ==
    \A s \in Senders :
        /\ sender[s].pc # "idle" => setup.pc \in {"ready", "enable", "established"}
        /\ sender[s].pc \in {"primary", "hedged"} => sender[s].p \in LegIds /\ sender[s].pk \in Carriers
        /\ sender[s].b # NoLeg => sender[s].bk \in Carriers
        /\ sender[s].pc \in {"hedged", "both", "backup"} => sender[s].b # NoLeg

DualInv ==
    /\ DualTypeOK /\ SetupInv /\ TableInv /\ WorkerInv /\ CarrierInv /\ SenderInv
    /\ NoCarrierLeak /\ NoLostWakeup

-----------------------------------------------------------------------------
(* The leg table.                                                            *)

\* The least number principle.
LEMMA Smallest ==
    ASSUME NEW S \in SUBSET Nat, S # {}
    PROVE  \E n \in S : \A m \in S : n <= m
<1> DEFINE R == OpToRel(<, Nat)
<1>1. IsWellFoundedOn(R, Nat)
  BY NatLessThanWellFounded, Zenon
<1>2. \A a \in Nat, b \in Nat : a < b => <<a, b>> \in R
  BY DEF OpToRel
<1> HIDE DEF R
<1>3. PICK x \in S : \A y \in S : ~(<<y, x>> \in R)
  BY <1>1, WFMin, Zenon
<1>4. \A m \in S : ~(m < x)
  BY <1>2, <1>3, Zenon
<1> QED
  BY <1>4

LEMMA MinIs ==
    ASSUME NEW S \in SUBSET Nat, S # {}
    PROVE  Min(S) \in S
  BY Smallest, Zenon DEF Min

\* nextPreferredLocked and sendOrder find an attached leg, if they find one;
\* and they find one if there is one.
LEMMA FirstLegIs ==
    ASSUME NEW t \in TableState, NEW out
    PROVE  /\ FirstLeg(t, out) # NoLeg => FirstLeg(t, out) \in Attached(t)
           /\ \A id \in Range(t.order) : id # out /\ id \in Attached(t) => FirstLeg(t, out) \in Attached(t)
<1> DEFINE I == {i \in 1..Len(t.order) : t.order[i] # out /\ t.leg[t.order[i]] # NoCarrier}
           i == Min(I)
<1>2. FirstLeg(t, out) = IF I = {} THEN NoLeg ELSE t.order[i]
  BY DEF FirstLeg
<1>3. I \in SUBSET Nat /\ Len(t.order) \in Nat /\ t.order \in Seq(LegIds)
  BY DEF TableState
<1> HIDE DEF i
<1>4. I # {} => i \in I
  BY <1>3, MinIs, Zenon DEF i
<1>5. i \in I => t.order[i] \in Attached(t)
  BY <1>3 DEF Attached
<1>6. \A id \in Range(t.order) : id # out /\ id \in Attached(t) => I # {}
  BY <1>3 DEF Range, Attached
<1> HIDE DEF I
<1> QED
  BY <1>2, <1>4, <1>5, <1>6

\* removeLegOrderLocked takes one place out of the order.
LEMMA RemoveLegOrderIs ==
    ASSUME NEW s \in Seq(LegIds), NEW id \in LegIds, IsInjective(s)
    PROVE  /\ RemoveLegOrder(s, id) \in Seq(LegIds)
           /\ Range(RemoveLegOrder(s, id)) = Range(s) \ {id}
           /\ IsInjective(RemoveLegOrder(s, id))
<1> DEFINE I == {i \in 1..Len(s) : s[i] = id}
<1>1. CASE I = {}
  <2>1. RemoveLegOrder(s, id) = s
    BY <1>1 DEF RemoveLegOrder
  <2>2. id \notin Range(s)
    BY <1>1 DEF Range
  <2> QED  BY <2>1, <2>2
<1>2. CASE I # {}
  <2> DEFINE k == Min(I)
  <2>1. k \in I
    <3>1. I \in SUBSET Nat
      OBVIOUS
    <3> HIDE DEF I
    <3> QED  BY <1>2, <3>1, MinIs
  <2>2. RemoveLegOrder(s, id) = SubSeq(s, 1, k - 1) \o SubSeq(s, k + 1, Len(s))
    BY <1>2, Zenon DEF RemoveLegOrder
  <2> HIDE DEF k
  <2> DEFINE a == SubSeq(s, 1, k - 1)
             b == SubSeq(s, k + 1, Len(s))
             r == a \o b
  <2>3. k \in 1..Len(s) /\ s[k] = id /\ Len(s) \in Nat
    BY <2>1
  <2>4. a \in Seq(LegIds) /\ Len(a) = k - 1 /\ \A j \in 1..(k - 1) : a[j] = s[j]
    BY <2>3
  <2>5. b \in Seq(LegIds) /\ Len(b) = Len(s) - k /\ \A j \in 1..(Len(s) - k) : b[j] = s[k + j]
    BY <2>3
  <2> HIDE DEF a, b
  <2>6. r \in Seq(LegIds) /\ Len(r) = Len(s) - 1
    <3>1. r \in Seq(LegIds)
      BY <2>4, <2>5
    <3>2. Len(r) = Len(a) + Len(b)
      BY <2>4, <2>5
    <3> QED  BY <3>1, <3>2, <2>3, <2>4, <2>5
  <2>7. \A j \in 1..Len(r) : r[j] = IF j < k THEN s[j] ELSE s[j + 1]
    BY <2>3, <2>4, <2>5, <2>6
  <2> HIDE DEF r
  <2>8. \A i \in DOMAIN s, j \in DOMAIN s : s[i] = s[j] => i = j
    BY DEF IsInjective
  <2>9. Range(r) = Range(s) \ {id}
    <3>1. ASSUME NEW x \in Range(r) PROVE x \in Range(s) /\ x # id
      <4>1. PICK j \in 1..Len(r) : x = r[j]
        BY <2>6 DEF Range
      <4>2. CASE j < k
        <5>1. j \in 1..Len(s) /\ x = s[j] /\ j # k
          BY <4>1, <4>2, <2>3, <2>6, <2>7
        <5>2. DOMAIN s = 1..Len(s)
          OBVIOUS
        <5> QED  BY <5>1, <5>2, <2>3, <2>8, Zenon DEF Range
      <4>3. CASE ~(j < k)
        <5>1. j + 1 \in 1..Len(s) /\ x = s[j + 1] /\ j + 1 # k
          BY <4>1, <4>3, <2>3, <2>6, <2>7
        <5> QED  BY <5>1, <2>3, <2>8 DEF Range
      <4> QED  BY <4>2, <4>3
    <3>2. ASSUME NEW x \in Range(s), x # id PROVE x \in Range(r)
      <4>1. PICK j \in 1..Len(s) : x = s[j]
        BY DEF Range
      <4>2. CASE j < k
        BY <4>1, <4>2, <2>3, <2>6, <2>7 DEF Range
      <4>3. CASE j > k
        <5>1. j - 1 \in 1..Len(r) /\ r[j - 1] = s[j]
          BY <4>3, <2>3, <2>6, <2>7
        <5> QED  BY <4>1, <5>1, <2>6 DEF Range
      <4> QED  BY <3>2, <4>1, <4>2, <4>3, <2>3
    <3> QED  BY <3>1, <3>2
  <2>10. IsInjective(r)
    <3> SUFFICES ASSUME NEW i \in 1..Len(r), NEW j \in 1..Len(r), r[i] = r[j] PROVE i = j
      BY <2>6 DEF IsInjective
    <3>1. \A m \in 1..Len(r) : m \in 1..Len(s) /\ m + 1 \in 1..Len(s)
      BY <2>6, <2>3
    <3>2. r[i] = (IF i < k THEN s[i] ELSE s[i + 1]) /\ r[j] = (IF j < k THEN s[j] ELSE s[j + 1])
      BY <2>7
    <3>3. i \in Nat /\ j \in Nat /\ k \in Nat /\ DOMAIN s = 1..Len(s)
      BY <2>3, <2>6
    <3>4. (IF i < k THEN i ELSE i + 1) = (IF j < k THEN j ELSE j + 1)
      BY <3>1, <3>2, <3>3, <2>8, Zenon
    <3> QED  BY <3>3, <3>4
  <2> QED  BY <2>2, <2>6, <2>9, <2>10 DEF r, a, b
<1> QED  BY <1>1, <1>2

\* What each operator does to the table: its type, its legs, its consistency.
LEMMA AttachIs ==
    ASSUME NEW t \in TableState, NEW id \in LegIds, NEW c \in Carriers, TableConsistent(t)
    PROVE  /\ AttachLeg(t, id, c) \in TableState
           /\ AttachLeg(t, id, c).leg = [t.leg EXCEPT ![id] = c]
           /\ TableConsistent(AttachLeg(t, id, c))
<1> DEFINE u == AttachLeg(t, id, c)
<1>1. /\ u.leg = [t.leg EXCEPT ![id] = c]
      /\ u.order = IF id \in Range(t.order) THEN t.order ELSE Append(t.order, id)
      /\ u.preferred = IF t.preferred = NoLeg THEN id ELSE t.preferred
      /\ DOMAIN u = {"leg", "order", "preferred"}
  BY DEF AttachLeg
<1>2. t.leg \in [LegIds -> CarrierOrNone] /\ t.order \in Seq(LegIds) /\ t.preferred \in LegOrNone
  BY DEF TableState
<1>3. u.leg \in [LegIds -> CarrierOrNone] /\ u.order \in Seq(LegIds) /\ u.preferred \in LegOrNone
  BY <1>1, <1>2 DEF CarrierOrNone, LegOrNone
<1>4. u \in TableState
  BY <1>3 DEF TableState, AttachLeg
<1> HIDE DEF u
<1>5. Attached(u) = Attached(t) \cup {id}
  BY <1>1, <1>2, DualAssumption DEF Attached
<1>6. Range(u.order) = Attached(u) /\ IsInjective(u.order)
  <2>1. CASE id \in Range(t.order)
    <3>1. id \in Range(t.order) /\ u.order = t.order
      BY <2>1, <1>1, <1>2 DEF Range
    <3> QED  BY <3>1, <1>5 DEF TableConsistent
  <2>2. CASE id \notin Range(t.order)
    <3> DEFINE n == Len(t.order)
    <3>1. n \in Nat /\ Len(u.order) = n + 1 /\ u.order[n + 1] = id /\ \A i \in 1..n : u.order[i] = t.order[i]
      BY <2>2, <1>1, <1>2
    <3>2. \A i \in 1..n : t.order[i] # id
      BY <2>2, <1>2 DEF Range
    <3>3. DOMAIN u.order = 1..(n + 1) /\ DOMAIN t.order = 1..n
      BY <3>1, <1>2, <1>3
    <3> HIDE DEF n
    <3>4. Range(u.order) = Range(t.order) \cup {id}
      BY <3>1, <3>3 DEF Range
    <3>5. IsInjective(u.order)
      BY <3>1, <3>2, <3>3 DEF IsInjective, TableConsistent
    <3> QED  BY <3>4, <3>5, <1>5 DEF TableConsistent
  <2> QED  BY <2>1, <2>2
<1>7. u.preferred \in Attached(u)
  BY <1>1, <1>5, <1>2 DEF TableConsistent, LegOrNone
<1>8. TableConsistent(u)
  BY <1>6, <1>7 DEF TableConsistent
<1> QED
  BY <1>1, <1>4, <1>8 DEF u

LEMMA DetachIs ==
    ASSUME NEW t \in TableState, NEW id \in LegIds, TableConsistent(t)
    PROVE  /\ DetachLeg(t, id) \in TableState
           /\ DetachLeg(t, id).leg = [t.leg EXCEPT ![id] = NoCarrier]
           /\ TableConsistent(DetachLeg(t, id))
<1> DEFINE rest == [t EXCEPT !.leg[id] = NoCarrier, !.order = RemoveLegOrder(t.order, id)]
           u == DetachLeg(t, id)
<1>1. /\ t.leg \in [LegIds -> CarrierOrNone] /\ t.order \in Seq(LegIds) /\ t.preferred \in LegOrNone
      /\ IsInjective(t.order) /\ Range(t.order) = Attached(t)
  BY DEF TableState, TableConsistent
<1>2. /\ RemoveLegOrder(t.order, id) \in Seq(LegIds)
      /\ Range(RemoveLegOrder(t.order, id)) = Attached(t) \ {id}
      /\ IsInjective(RemoveLegOrder(t.order, id))
  BY <1>1, RemoveLegOrderIs
<1>3. /\ rest.leg = [t.leg EXCEPT ![id] = NoCarrier] /\ rest.order = RemoveLegOrder(t.order, id)
      /\ rest.preferred = t.preferred
  BY DEF TableState
<1>4. rest \in TableState
  BY <1>1, <1>2, Zenon DEF TableState, CarrierOrNone
<1>5. u = IF t.preferred # id THEN rest ELSE [rest EXCEPT !.preferred = NextPreferred(rest)]
  BY DEF DetachLeg
<1> HIDE DEF rest, u
<1>6. Attached(rest) = Attached(t) \ {id}
  BY <1>1, <1>3 DEF Attached
<1>7. u.leg = rest.leg /\ u.order = rest.order /\ Attached(u) = Attached(rest)
      /\ u.preferred = (IF t.preferred # id THEN t.preferred ELSE NextPreferred(rest))
  BY <1>3, <1>4, <1>5 DEF TableState, Attached
<1>8. /\ NextPreferred(rest) # NoLeg => NextPreferred(rest) \in Attached(rest)
      /\ Attached(rest) # {} => NextPreferred(rest) \in Attached(rest)
  <2>1. \A x \in Attached(rest) : x \in Range(rest.order) /\ x # NoLeg
    BY <1>2, <1>3, <1>6, DualAssumption DEF Attached
  <2> QED  BY <2>1, <1>4, FirstLegIs DEF NextPreferred
<1>9. u.preferred \in LegOrNone
  BY <1>1, <1>7, <1>8 DEF LegOrNone, Attached
<1>10. u \in TableState
  BY <1>4, <1>5, <1>7, <1>9 DEF TableState
<1>11. IF Attached(u) = {} THEN u.preferred = NoLeg ELSE u.preferred \in Attached(u)
  <2>1. CASE t.preferred # id
    BY <2>1, <1>6, <1>7 DEF TableConsistent, Attached
  <2>2. CASE t.preferred = id
    BY <2>2, <1>6, <1>7, <1>8
  <2> QED  BY <2>1, <2>2
<1>12. TableConsistent(u)
  BY <1>2, <1>3, <1>6, <1>7, <1>11 DEF TableConsistent
<1> QED
  BY <1>3, <1>7, <1>10, <1>12 DEF u

LEMMA PreferIs ==
    ASSUME NEW t \in TableState, NEW id \in LegIds
    PROVE  /\ SetPreferred(t, id) \in TableState
           /\ SetPreferred(t, id).leg = t.leg
           /\ TableConsistent(t) => TableConsistent(SetPreferred(t, id))
  BY DEF SetPreferred, TableState, TableConsistent, LegOrNone, Attached

LEMMA ClearIs ==
    ASSUME NEW t \in TableState
    PROVE  /\ ClearTable(t) \in TableState
           /\ ClearTable(t).leg = [id \in LegIds |-> NoCarrier]
           /\ Attached(ClearTable(t)) = {}
<1>1. ClearTable(t) = [leg |-> [id \in LegIds |-> NoCarrier], order |-> <<>>, preferred |-> t.preferred]
  BY DEF ClearTable, EmptyTable
<1> QED
  BY <1>1 DEF TableState, CarrierOrNone, Attached

-----------------------------------------------------------------------------
(* What steps keep.                                                          *)

\* The step attaches no leg.
LegsLost == \A id \in LegIds : table'.leg[id] \in {table.leg[id], NoCarrier}

\* No reconnect goroutine is about to attach the carrier.
NotHeld(c) == \A w \in Workers : worker[w].pc = "attach" => worker[w].c # c

LEMMA AttachedLost ==
    ASSUME LegsLost
    PROVE  Attached(table') \subseteq Attached(table)
  BY DEF LegsLost, Attached

LEMMA SetupKept ==
    ASSUME DualInv, UNCHANGED <<survival, setup>>, ctxDone => ctxDone', LegsLost,
           setup.pc = "ready" /\ Attached(table') = {} => ctxDone' \/ Attached(table) = {}
    PROVE  SetupInv'
<1>1. SetupInv /\ setup.pending \subseteq LegIds
  BY DEF DualInv, DualTypeOK, SetupState
<1> QED
  BY <1>1 DEF SetupInv, LegsLost

LEMMA WorkersKept ==
    ASSUME DualInv, UNCHANGED <<survival, active>>, LegsLost,
           \A w \in Workers : \/ worker'[w] = worker[w]
                              \/ /\ worker'[w].id = worker[w].id
                                 /\ worker'[w].pc # "off" /\ worker[w].pc # "off"
                                 /\ worker'[w].pc \in {"dial", "attach"} =>
                                       /\ worker'[w].forever \/ worker'[w].left > 0
                                       /\ table'.leg[worker[w].id] = NoCarrier
    PROVE  WorkerInv'
<1>1. WorkerInv /\ \A w \in Workers : worker[w].id \in LegIds \cup {NoLeg}
  BY DEF DualInv, DualTypeOK, WorkerState, LegOrNone
<1>2. \A w \in Workers : worker'[w].id = worker[w].id
  OBVIOUS
<1>3. OneDialPerLeg'
  BY <1>1, <1>2 DEF WorkerInv, OneDialPerLeg
<1>4. ASSUME NEW w \in Workers
      PROVE  /\ worker'[w].pc = "off" <=> worker'[w].id = NoLeg
             /\ worker'[w].pc # "off" => survival' /\ worker'[w].id \in active'
             /\ worker'[w].pc \in {"dial", "attach"} =>
                   /\ worker'[w].forever \/ worker'[w].left > 0
                   /\ table'.leg[worker'[w].id] = NoCarrier
  <2>1. CASE worker'[w] = worker[w]
    <3>1. worker[w].pc \in {"dial", "attach"} => worker[w].id \in LegIds
      BY <1>1 DEF WorkerInv
    <3> QED  BY <2>1, <3>1, <1>1 DEF WorkerInv, LegsLost
  <2>2. CASE worker'[w] # worker[w]
    BY <2>2, <1>1 DEF WorkerInv
  <2> QED  BY <2>1, <2>2
<1> QED
  BY <1>3, <1>4 DEF WorkerInv

\* A step that opens no carrier: what it closes, fails or takes out of the
\* table was nobody's dialed carrier, and an open leg it takes out is closed.
LEMMA CarriersKept ==
    ASSUME DualInv, DualTypeOK', LegsLost, survival => survival',
           \A w \in Workers : worker'[w].pc = "attach" <=> worker[w].pc = "attach",
           \A w \in Workers : worker[w].pc = "attach" => worker'[w].c = worker[w].c,
           \A c \in Carriers : \/ carrier'[c] = carrier[c]
                               \/ /\ carrier'[c].state = "closed" /\ NotHeld(c)
                                  /\ carrier'[c].pump => carrier'[c].leg \in LegIds,
           \A t \in Threads : \/ fail'[t] = fail[t]
                              \/ fail'[t] = NotFailing
                              \/ /\ fail'[t].id \in LegIds /\ fail'[t].c \in Carriers
                                 /\ carrier'[fail'[t].c].state = "closed" /\ NotHeld(fail'[t].c)
                                 /\ fail'[t].redial => survival',
           \A leg \in watcher'.todo : leg \in watcher.todo \/ NotHeld(leg[2]),
           \A id \in LegIds : table.leg[id] \in Carriers /\ carrier'[table.leg[id]].state # "closed" =>
                                 table'.leg[id] = table.leg[id] /\ ctxDone' = ctxDone
    PROVE  CarrierInv' /\ NoCarrierLeak'
<1>1. CarrierInv /\ NoCarrierLeak /\ NoCarrier \notin Carriers
  BY DualAssumption, Zenon DEF DualInv
<1>2. ASSUME NEW w \in Workers, worker'[w].pc = "attach"
      PROVE  HeldCarrier(w)'
  <2>1. worker[w].pc = "attach" /\ worker'[w].c = worker[w].c /\ HeldCarrier(w)
    BY <1>1, <1>2 DEF CarrierInv
  <2> DEFINE c == worker[w].c
  <2>2. /\ c \in Carriers /\ carrier[c].state # "closed" /\ ~carrier[c].pump
        /\ \A id \in LegIds : table.leg[id] # c
        /\ \A t \in Threads : fail[t].c # c
        /\ \A leg \in watcher.todo : leg[2] # c
        /\ \A v \in Workers : worker[v].pc = "attach" /\ worker[v].c = c => v = w
    BY <2>1 DEF HeldCarrier
  <2>3. ~NotHeld(c)
    BY <2>1 DEF NotHeld
  <2>4. carrier'[c] = carrier[c]
    BY <2>2, <2>3
  <2>5. \A id \in LegIds : table'.leg[id] # c
    BY <2>2, <1>1 DEF LegsLost
  <2>6. \A t \in Threads : fail'[t].c # c
    BY <2>2, <2>3, <1>1 DEF NotFailing
  <2>7. \A leg \in watcher'.todo : leg[2] # c
    BY <2>2, <2>3
  <2>8. \A v \in Workers : worker'[v].pc = "attach" /\ worker'[v].c = c => v = w
    BY <2>2
  <2> QED
    BY <2>1, <2>2, <2>4, <2>5, <2>6, <2>7, <2>8 DEF HeldCarrier
<1>3. \A c \in Carriers : carrier'[c].pump => carrier'[c].leg \in LegIds
  BY <1>1 DEF CarrierInv
<1>4. ASSUME NEW id \in LegIds, table'.leg[id] \in Carriers
      PROVE  \/ carrier'[table'.leg[id]].state = "closed"
             \/ carrier'[table'.leg[id]].leg = id /\ carrier'[table'.leg[id]].pump
  <2>1. table'.leg[id] = table.leg[id]
    BY <1>1, <1>4 DEF LegsLost
  <2> QED  BY <2>1, <1>1, <1>4 DEF CarrierInv
<1>5. ASSUME NEW t \in Threads, fail'[t].pc = "detach"
      PROVE  fail'[t].id \in LegIds /\ fail'[t].c \in Carriers /\ carrier'[fail'[t].c].state = "closed"
  <2>1. fail'[t] # NotFailing
    BY <1>5 DEF NotFailing
  <2>2. CASE fail'[t] = fail[t]
    BY <2>2, <1>1, <1>5 DEF CarrierInv
  <2> QED  BY <2>1, <2>2
<1>6. NoCarrierLeak'
  <2> SUFFICES ASSUME NEW c \in Carriers, carrier'[c].state \in {"up", "broken"}
               PROVE  \/ ~ctxDone' /\ \E id \in LegIds : table'.leg[id] = c
                      \/ \E w \in Workers : worker'[w].pc = "attach" /\ worker'[w].c = c
    BY DEF NoCarrierLeak
  <2>1. carrier'[c] = carrier[c]
    OBVIOUS
  <2>2. CASE \E w \in Workers : worker[w].pc = "attach" /\ worker[w].c = c
    BY <2>2
  <2>3. CASE ~ctxDone /\ \E id \in LegIds : table.leg[id] = c
    BY <2>3
  <2> QED  BY <2>1, <2>2, <2>3, <1>1 DEF NoCarrierLeak
<1>7. \A t \in Threads : fail'[t].redial => survival'
  BY <1>1 DEF CarrierInv, NotFailing
<1> QED
  BY <1>2, <1>3, <1>4, <1>5, <1>6, <1>7 DEF CarrierInv

LEMMA WakeKept ==
    ASSUME DualInv, LegsLost,
           \A w \in Workers : worker[w].pc = "signal" => worker'[w].pc = "signal",
           \A s \in Senders : sender'[s].pc = "wait" =>
               \/ sender[s].pc = "wait" /\ (sender[s].woken => sender'[s].woken)
               \/ Attached(table) = {}
    PROVE  NoLostWakeup'
  BY AttachedLost DEF DualInv, NoLostWakeup

-----------------------------------------------------------------------------
(* The relay the node dials.                                                 *)

LEMMA TargetType ==
    ASSUME FailoverTypeOK, HasTarget
    PROVE  CurrentTarget \in Target /\ CurrentRelay \in Relays
<1>1. candidates \in Seq(STRING) /\ generation \in Nat /\ current \in 1..Len(candidates)
  BY FailoverAssumption DEF FailoverTypeOK, HasTarget
<1>2. candidates[current] \in Range(candidates) /\ candidates \in CandidateLists
  BY <1>1 DEF Range, FailoverTypeOK
<1>3. candidates[current] \in Relays
  BY <1>2 DEF Relays
<1> QED
  BY <1>1, <1>3 DEF CurrentTarget, CurrentRelay, Target, HasTarget

LEMMA ReportsKeepType ==
    ASSUME FailoverTypeOK, NEW t, ReportSuccess(t) \/ ReportFailure(t)
    PROVE  FailoverTypeOK'
<1>1. Len(candidates) \in Nat
  BY FailoverAssumption DEF FailoverTypeOK
<1>2. CASE UNCHANGED failoverVars
  BY <1>2 DEF FailoverTypeOK, failoverVars
<1>3. CASE ~UNCHANGED failoverVars
  <2>1. ~Stale(t) /\ candidates' = candidates
    BY <1>3 DEF ReportSuccess, ReportFailure
  <2>2. HasTarget
    BY <2>1 DEF Stale
  <2>3. CASE ReportSuccess(t)
    BY <2>1, <2>3, FailoverAssumption DEF ReportSuccess, FailoverTypeOK
  <2>4. CASE ReportFailure(t)
    <3>1. CASE failures + 1 < RetriesPerRelay
      BY <2>1, <2>4, <3>1, FailoverAssumption DEF ReportFailure, FailoverTypeOK
    <3>2. CASE ~(failures + 1 < RetriesPerRelay)
      <4>1. /\ generation < MaxGeneration /\ failures' = 0 /\ generation' = generation + 1
            /\ current' = IF current = Len(candidates) THEN 1 ELSE current + 1
        BY <2>1, <2>4, <3>2 DEF ReportFailure
      <4>2. current' \in 1..Len(candidates) + 1
        BY <4>1, <1>1, <2>2 DEF FailoverTypeOK, HasTarget
      <4> QED  BY <4>1, <4>2, <2>1, FailoverAssumption DEF FailoverTypeOK
    <3> QED  BY <3>1, <3>2
  <2> QED  BY <2>3, <2>4
<1> QED
  BY <1>2, <1>3

\* Nothing but the relays changes.
LEMMA FailoverStep ==
    ASSUME DualInv, FailoverTypeOK',
           UNCHANGED <<table, carrier, ctxDone, setup, reconnectVars, watcher, fail, sender>>
    PROVE  DualInv'
<1> USE DEF reconnectVars
<1>1. DualTypeOK'
  BY Zenon DEF DualInv, DualTypeOK
<1>2. SetupInv' /\ TableInv' /\ WorkerInv'
  BY SMTT(30) DEF DualInv, SetupInv, TableInv, WorkerInv, OneDialPerLeg
<1>3. CarrierInv' /\ SenderInv'
  BY ZenonT(30) DEF DualInv, CarrierInv, HeldCarrier, SenderInv
<1>4. NoCarrierLeak' /\ NoLostWakeup'
  BY DEF DualInv, NoCarrierLeak, NoLostWakeup
<1> QED
  BY <1>1, <1>2, <1>3, <1>4 DEF DualInv

LEMMA DualInvOther ==
    ASSUME DualInv, OtherFailure
    PROVE  DualInv'
<1>1. FailoverTypeOK'
  BY ReportsKeepType DEF OtherFailure, DualInv, DualTypeOK
<1> QED
  BY <1>1, FailoverStep DEF OtherFailure

LEMMA DualInvCandidates ==
    ASSUME DualInv, NEW list \in CandidateLists, NewCandidates(list)
    PROVE  DualInv'
<1>1. FailoverTypeOK'
  <2>1. Len(list) \in Nat /\ FailoverTypeOK
    BY FailoverAssumption DEF DualInv, DualTypeOK
  <2> QED  BY <2>1, FailoverAssumption DEF NewCandidates, SetCandidates, FailoverTypeOK
<1> QED
  BY <1>1, FailoverStep DEF NewCandidates

LEMMA DualInvUnchanged ==
    ASSUME DualInv, UNCHANGED vars
    PROVE  DualInv'
<1>1. FailoverTypeOK'
  BY DEF DualInv, DualTypeOK, FailoverTypeOK, vars, failoverVars
<1> QED
  BY <1>1, FailoverStep DEF vars

LEMMA DualInvInit == Init => DualInv
<1> SUFFICES ASSUME Init PROVE DualInv
  OBVIOUS
<1>1. FailoverTypeOK
  <2>1. candidates \in Seq(STRING)
    BY FailoverAssumption DEF Init, FailoverInit
  <2> QED  BY <2>1, FailoverAssumption DEF Init, FailoverInit, FailoverTypeOK
<1>2. table \in TableState /\ Attached(table) = {} /\ table.leg = [id \in LegIds |-> NoCarrier]
  BY DEF Init, EmptyTable, TableState, LegOrNone, CarrierOrNone, Attached
<1>3. carrier \in [Carriers -> CarrierState] /\ fail \in [Threads -> FailState]
  BY DEF Init, Closed, CarrierState, Relays, NotFailing, FailState, LegOrNone, CarrierOrNone
<1>4. NoTarget \in Target
  BY DEF NoTarget, Target, Relays
<1>5. setup \in SetupState
  BY <1>1, <1>4, TargetType, DualAssumption, Zenon DEF Init, SetupState
<1>6. worker \in [Workers -> WorkerState] /\ sender \in [Senders -> SenderState]
  BY <1>4, DualAssumption
  DEF Init, NoWorker, WorkerState, NotSending, SenderState, LegOrNone, CarrierOrNone
<1>7. watcher \in WatcherState /\ "tcp" \in LegIds
  BY DualAssumption DEF Init, WatcherState, InitialLegs
<1>8. DualTypeOK
  BY <1>1, <1>2, <1>3, <1>5, <1>6, <1>7, DualAssumption, Zenon DEF Init, DualTypeOK
<1>9. SetupInv
  BY <1>2, DualAssumption DEF Init, SetupInv
<1>10. TableInv
  BY <1>2 DEF Init, TableInv, TableConsistent, EmptyTable, Range, IsInjective
<1>11. WorkerInv /\ SenderInv /\ NoLostWakeup
  BY <1>2, Zenon DEF Init, WorkerInv, OneDialPerLeg, NoWorker, SenderInv, NotSending, NoLostWakeup
<1>12. CarrierInv /\ NoCarrierLeak
  BY <1>2, DualAssumption DEF Init, CarrierInv, NoWorker, Closed, NotFailing, NoCarrierLeak
<1> QED
  BY <1>8, <1>9, <1>10, <1>11, <1>12 DEF DualInv

-----------------------------------------------------------------------------
(* Closing, and the pumps of carriers.                                       *)

LEMMA CloseCarrierIs ==
    ASSUME NEW r \in CarrierState
    PROVE  /\ CloseCarrier(r) \in CarrierState /\ CloseCarrier(r).state = "closed"
           /\ CloseCarrier(r).pump => r.pump /\ CloseCarrier(r).leg = r.leg
  BY Zenon DEF CloseCarrier, CarrierState, Closed, Relays, LegOrNone

\* A carrier of the table is nobody's dialed one.
LEMMA LegsNotHeld ==
    ASSUME DualInv, NEW id \in LegIds, table.leg[id] \in Carriers
    PROVE  NotHeld(table.leg[id])
  BY DEF DualInv, CarrierInv, HeldCarrier, NotHeld

LEMMA CloseIs ==
    ASSUME DualInv, Close
    PROVE  /\ carrier' \in [Carriers -> CarrierState] /\ table' \in TableState /\ ctxDone' = TRUE
           /\ LegsLost /\ Attached(table') = {} /\ TableInv'
           /\ \A c \in Carriers : \/ carrier'[c] = carrier[c]
                                  \/ /\ carrier'[c].state = "closed" /\ NotHeld(c)
                                     /\ carrier'[c].pump => carrier'[c].leg \in LegIds
           /\ \A id \in LegIds : table.leg[id] \in Carriers => carrier'[table.leg[id]].state = "closed"
<1>1. /\ table \in TableState /\ carrier \in [Carriers -> CarrierState]
      /\ \A c \in Carriers : carrier[c].pump => carrier[c].leg \in LegIds
  BY DEF DualInv, DualTypeOK, CarrierInv
<1>2. table' = ClearTable(table) /\ ctxDone' = TRUE
  BY DEF Close
<1>3. \A c \in Carriers : carrier'[c] = IF \E id \in LegIds : table.leg[id] = c THEN CloseCarrier(carrier[c])
                                        ELSE carrier[c]
  BY DEF Close
<1>4. table' \in TableState /\ Attached(table') = {} /\ table'.leg = [id \in LegIds |-> NoCarrier]
  BY <1>1, <1>2, ClearIs
<1>5. carrier' \in [Carriers -> CarrierState]
  BY <1>1, CloseCarrierIs DEF Close
<1>6. ASSUME NEW c \in Carriers
      PROVE  \/ carrier'[c] = carrier[c]
             \/ /\ carrier'[c].state = "closed" /\ NotHeld(c)
                /\ carrier'[c].pump => carrier'[c].leg \in LegIds
  <2>1. CASE \E id \in LegIds : table.leg[id] = c
    <3>1. carrier'[c] = CloseCarrier(carrier[c]) /\ NotHeld(c)
      BY <2>1, <1>3, LegsNotHeld
    <3> QED  BY <3>1, <1>1, CloseCarrierIs
  <2> QED  BY <2>1, <1>3
<1>7. \A id \in LegIds : table.leg[id] \in Carriers => carrier'[table.leg[id]].state = "closed"
  BY <1>1, <1>3, CloseCarrierIs
<1>8. LegsLost /\ TableInv'
  BY <1>2, <1>4 DEF LegsLost, TableInv
<1> QED
  BY <1>2, <1>4, <1>5, <1>6, <1>7, <1>8, Zenon

\* Close while nothing else moves.
LEMMA DualInvClose ==
    ASSUME DualInv, Close, UNCHANGED <<failoverVars, setup, reconnectVars, watcher, fail, sender>>
    PROVE  DualInv'
<1> USE DEF reconnectVars
<1>1. DualTypeOK'
  BY CloseIs, Zenon DEF DualInv, DualTypeOK, FailoverTypeOK, failoverVars
<1>2. SetupInv'
  BY CloseIs, SetupKept
<1>3. WorkerInv'
  BY CloseIs, WorkersKept, SMTT(30)
<1>4. CarrierInv' /\ NoCarrierLeak'
  BY <1>1, CloseIs, CarriersKept, Zenon
<1>5. SenderInv' /\ NoLostWakeup'
  BY CloseIs, WakeKept, Zenon DEF DualInv, SenderInv
<1> QED
  BY <1>1, <1>2, <1>3, <1>4, <1>5, CloseIs, SMTT(30) DEF DualInv

LEMMA DualInvBreak ==
    ASSUME DualInv, NEW c \in Carriers, Break(c)
    PROVE  DualInv'
<1> USE DEF reconnectVars
<1>1. carrier \in [Carriers -> CarrierState] /\ carrier[c].state = "up"
      /\ carrier' = [carrier EXCEPT ![c].state = "broken"]
  BY DEF DualInv, DualTypeOK, Break
<1>2. \A d \in Carriers : /\ carrier'[d].pump = carrier[d].pump /\ carrier'[d].leg = carrier[d].leg
                          /\ carrier'[d].state = "closed" <=> carrier[d].state = "closed"
                          /\ carrier'[d].state \in {"up", "broken"} <=> carrier[d].state \in {"up", "broken"}
  BY <1>1 DEF CarrierState
<1>3. carrier' \in [Carriers -> CarrierState]
  BY <1>1 DEF CarrierState
<1>4. DualTypeOK'
  BY <1>3 DEF DualInv, DualTypeOK, FailoverTypeOK, Break, failoverVars
<1>5. SetupInv' /\ TableInv' /\ WorkerInv' /\ SenderInv' /\ NoLostWakeup'
  BY DEF DualInv, SetupInv, TableInv, WorkerInv, OneDialPerLeg, SenderInv, NoLostWakeup, Break
<1>6. CarrierInv'
  BY <1>2 DEF DualInv, CarrierInv, HeldCarrier, Break
<1>7. NoCarrierLeak'
  BY <1>2, Zenon DEF DualInv, NoCarrierLeak, Break
<1> QED
  BY <1>4, <1>5, <1>6, <1>7 DEF DualInv

\* A step that leaves the table, the goroutines that dial and the set-up alone,
\* and closes and fails only carriers that are nobody's dialed ones.
LEMMA QuietStep ==
    ASSUME DualInv, UNCHANGED <<failoverVars, table, ctxDone, setup, reconnectVars>>,
           carrier' \in [Carriers -> CarrierState], fail' \in [Threads -> FailState],
           watcher' \in WatcherState, sender' \in [Senders -> SenderState],
           \A c \in Carriers : \/ carrier'[c] = carrier[c]
                               \/ /\ carrier'[c].state = "closed" /\ NotHeld(c)
                                  /\ carrier'[c].pump => carrier'[c].leg \in LegIds,
           \A t \in Threads : \/ fail'[t] = fail[t]
                              \/ /\ fail'[t].id \in LegIds /\ fail'[t].c \in Carriers
                                 /\ carrier'[fail'[t].c].state = "closed" /\ NotHeld(fail'[t].c)
                                 /\ fail'[t].redial => survival,
           \A leg \in watcher'.todo : leg \in watcher.todo \/ NotHeld(leg[2]),
           SenderInv',
           \A s \in Senders : sender'[s].pc = "wait" =>
               \/ sender[s].pc = "wait" /\ (sender[s].woken => sender'[s].woken)
               \/ Attached(table) = {}
    PROVE  DualInv'
<1> USE DEF reconnectVars
<1>1. DualTypeOK'
  BY Zenon DEF DualInv, DualTypeOK, FailoverTypeOK, failoverVars
<1>2. LegsLost
  BY Zenon DEF LegsLost
<1>3. SetupInv' /\ TableInv' /\ WorkerInv'
  BY Zenon DEF DualInv, SetupInv, TableInv, WorkerInv, OneDialPerLeg
<1>4. CarrierInv' /\ NoCarrierLeak'
  BY <1>1, <1>2, CarriersKept, Zenon
<1>5. NoLostWakeup'
  BY <1>2, WakeKept
<1> QED
  BY <1>1, <1>3, <1>4, <1>5, Zenon DEF DualInv

\* A pump that ends leaves a closed carrier.
LEMMA PumpsEnd ==
    ASSUME DualInv, NEW c \in Carriers, carrier[c].pump,
           ctxDone \/ (carrier[c].state # "up" /\ table.leg[carrier[c].leg] # c)
    PROVE  carrier[c].state = "closed" /\ EndPump(carrier[c]) = Closed
<1>1. NotHeld(c)
  BY DEF DualInv, CarrierInv, HeldCarrier, NotHeld
<1>2. carrier[c].state \in {"up", "broken", "closed"}
  BY DEF DualInv, DualTypeOK, CarrierState
<1>3. carrier[c].state = "closed"
  <2> SUFFICES ASSUME carrier[c].state # "closed" PROVE FALSE
    OBVIOUS
  <2>1. ~ctxDone /\ \E id \in LegIds : table.leg[id] = c
    BY <1>1, <1>2 DEF DualInv, NoCarrierLeak, NotHeld
  <2>2. PICK id \in LegIds : table.leg[id] = c
    BY <2>1, Zenon
  <2>3. carrier[c].leg = id
    BY <2>2 DEF DualInv, CarrierInv
  <2> QED  BY <2>1, <2>2, <2>3
<1> QED
  BY <1>3, Zenon DEF EndPump

LEMMA ClosedIs == Closed \in CarrierState /\ Closed.state = "closed" /\ ~Closed.pump
  BY DEF Closed, CarrierState, Relays, LegOrNone

LEMMA FailingIs ==
    ASSUME NEW id \in LegIds, NEW c \in Carriers, survival \in BOOLEAN
    PROVE  /\ Failing(id, c) \in FailState /\ Failing(id, c).id = id /\ Failing(id, c).c = c
           /\ Failing(id, c).redial => survival
  BY Zenon DEF Failing, FailState, LegOrNone, CarrierOrNone

LEMMA DualInvPump ==
    ASSUME DualInv, NEW c \in Carriers, Pump(c)
    PROVE  DualInv'
<1>1. /\ carrier \in [Carriers -> CarrierState] /\ fail \in [Threads -> FailState] /\ c \in Threads
      /\ carrier[c].pump /\ survival \in BOOLEAN /\ watcher \in WatcherState
      /\ sender \in [Senders -> SenderState] /\ SenderInv
  BY DEF DualInv, DualTypeOK, Pump, PumpError, PumpCancelled, Threads
<1>2. UNCHANGED <<failoverVars, table, ctxDone, setup, reconnectVars, watcher, sender>>
  BY Zenon DEF Pump, PumpError, PumpCancelled
<1>3. NotHeld(c) /\ carrier[c].leg \in LegIds
  BY <1>1 DEF DualInv, CarrierInv, HeldCarrier, NotHeld
<1>4. carrier' = [carrier EXCEPT ![c] = Closed]
  <2>1. CASE ctxDone \/ (carrier[c].state # "up" /\ table.leg[carrier[c].leg] # c)
    BY <2>1, <1>1, PumpsEnd DEF Pump, PumpError, PumpCancelled
  <2>2. CASE ~(ctxDone \/ (carrier[c].state # "up" /\ table.leg[carrier[c].leg] # c))
    BY <2>2 DEF Pump, PumpError, PumpCancelled
  <2> QED  BY <2>1, <2>2, Zenon
<1>5. fail' \in {fail, [fail EXCEPT ![c] = Failing(carrier[c].leg, c)]}
  BY DEF Pump, PumpError, PumpCancelled
<1>6. \A d \in Carriers : carrier'[d] = IF d = c THEN Closed ELSE carrier[d]
  BY <1>1, <1>4
<1>7. carrier' \in [Carriers -> CarrierState]
  BY <1>1, <1>4, ClosedIs, Zenon
<1>8. fail' \in [Threads -> FailState]
  BY <1>1, <1>3, <1>5, FailingIs, ZenonT(30)
<1>9. \A t \in Threads : \/ fail'[t] = fail[t]
                         \/ fail'[t].id \in LegIds /\ fail'[t].c = c /\ (fail'[t].redial => survival)
  BY <1>1, <1>3, <1>5, FailingIs
<1>10. SenderInv'
  BY <1>1, <1>2 DEF SenderInv
<1>11. \A d \in Carriers : carrier'[d] = carrier[d] \/ (carrier'[d].state = "closed" /\ NotHeld(d) /\ ~carrier'[d].pump)
  BY <1>3, <1>6, ClosedIs
<1>12. carrier'[c].state = "closed"
  BY <1>6, ClosedIs, Zenon
<1> QED
  BY <1>1, <1>2, <1>3, <1>7, <1>8, <1>9, <1>10, <1>11, <1>12, QuietStep, Zenon

-----------------------------------------------------------------------------
(* The watcher of relay changes.                                             *)

LEMMA DualInvWake ==
    ASSUME DualInv, WatchWake
    PROVE  DualInv'
<1>1. /\ carrier \in [Carriers -> CarrierState] /\ fail \in [Threads -> FailState]
      /\ watcher \in WatcherState /\ sender \in [Senders -> SenderState]
      /\ table.leg \in [LegIds -> CarrierOrNone]
  BY DEF DualInv, DualTypeOK, TableState
<1>2. UNCHANGED <<failoverVars, table, carrier, ctxDone, setup, reconnectVars, fail>>
  BY DEF WatchWake
<1>3. /\ watcher' = [watcher EXCEPT !.pc = "migrate", !.todo = {<<id, table.leg[id]>> : id \in Attached(table)}]
      /\ \A s \in Senders : \E m \in BOOLEAN : sender'[s] = [sender[s] EXCEPT !.moved = m]
      /\ DOMAIN sender' = Senders
  <2>1. \A s \in Senders : sender[s].moved \/ (s \in Billable /\ sender[s].pc # "idle") \in BOOLEAN
    BY <1>1 DEF SenderState
  <2> QED  BY <2>1, Zenon DEF WatchWake
<1>4. \A leg \in watcher'.todo : \E id \in LegIds : leg = <<id, table.leg[id]>> /\ table.leg[id] \in Carriers
  BY <1>1, <1>3 DEF Attached, CarrierOrNone, WatcherState
<1>5. watcher' \in WatcherState
  <2>1. watcher'.todo \in SUBSET (LegIds \X Carriers)
    BY <1>4
  <2> QED  BY <1>1, <1>3, <2>1, Zenon DEF WatcherState
<1>6. \A leg \in watcher'.todo : NotHeld(leg[2])
  BY <1>4, LegsNotHeld
<1>7. sender' = [s \in Senders |-> sender'[s]]
  BY DEF WatchWake
<1>8. sender' \in [Senders -> SenderState]
  BY <1>1, <1>3, <1>7 DEF SenderState
<1>9. \A s \in Senders : /\ sender'[s].pc = sender[s].pc /\ sender'[s].woken = sender[s].woken
                         /\ sender'[s].p = sender[s].p /\ sender'[s].pk = sender[s].pk
                         /\ sender'[s].b = sender[s].b /\ sender'[s].bk = sender[s].bk
  BY <1>1, <1>3 DEF SenderState
<1>10. SenderInv'
  BY <1>2, <1>9 DEF DualInv, SenderInv
<1> QED
  BY <1>1, <1>2, <1>5, <1>6, <1>8, <1>9, <1>10, QuietStep, Zenon

LEMMA DualInvMigrate ==
    ASSUME DualInv, WatchMigrate
    PROVE  DualInv'
<1>1. /\ carrier \in [Carriers -> CarrierState] /\ fail \in [Threads -> FailState]
      /\ watcher \in WatcherState /\ sender \in [Senders -> SenderState] /\ survival \in BOOLEAN
      /\ generation \in Nat /\ Watcher \in Threads
  BY DEF DualInv, DualTypeOK, FailoverTypeOK, Threads
<1>2. UNCHANGED <<failoverVars, table, ctxDone, setup, reconnectVars, sender>> /\ SenderInv'
  BY DEF WatchMigrate, DualInv, SenderInv
<1>3. CASE watcher' = [watcher EXCEPT !.pc = "wait", !.seen = generation] /\ UNCHANGED <<carrier, fail>>
  <2>1. watcher' \in WatcherState /\ watcher'.todo = watcher.todo
    BY <1>1, <1>3, Zenon DEF WatcherState
  <2> QED  BY <1>1, <1>2, <1>3, <2>1, QuietStep
<1>4. ASSUME NEW leg \in watcher.todo,
             watcher' = [watcher EXCEPT !.todo = @ \ {leg}],
             carrier' = [carrier EXCEPT ![leg[2]] = CloseCarrier(@)],
             fail' = [fail EXCEPT ![Watcher] = Failing(leg[1], leg[2])]
      PROVE  DualInv'
  <2>1. leg[1] \in LegIds /\ leg[2] \in Carriers /\ NotHeld(leg[2])
    BY <1>1 DEF WatcherState, DualInv, CarrierInv, HeldCarrier, NotHeld
  <2>2. watcher' \in WatcherState /\ watcher'.todo \subseteq watcher.todo
    BY <1>1, <1>4 DEF WatcherState
  <2>3. carrier' \in [Carriers -> CarrierState]
    BY <1>1, <1>4, <2>1, CloseCarrierIs
  <2>4. \A c \in Carriers : carrier'[c] = IF c = leg[2] THEN CloseCarrier(carrier[c]) ELSE carrier[c]
    BY <1>1, <1>4, Zenon
  <2>5. \A c \in Carriers : carrier[c].pump => carrier[c].leg \in LegIds
    BY DEF DualInv, CarrierInv
  <2>6. \A c \in Carriers : \/ carrier'[c] = carrier[c]
                            \/ /\ carrier'[c].state = "closed" /\ NotHeld(c)
                               /\ carrier'[c].pump => carrier'[c].leg \in LegIds
    BY <1>1, <2>1, <2>4, <2>5, CloseCarrierIs
  <2>7. carrier'[leg[2]].state = "closed"
    BY <1>1, <2>1, <2>4, CloseCarrierIs
  <2>8. fail' \in [Threads -> FailState]
    BY <1>1, <1>4, <2>1, FailingIs
  <2>9. \A t \in Threads : \/ fail'[t] = fail[t]
                           \/ fail'[t].id \in LegIds /\ fail'[t].c = leg[2] /\ (fail'[t].redial => survival)
    BY <1>1, <1>4, <2>1, FailingIs
  <2> QED
    BY <1>1, <1>2, <2>1, <2>2, <2>3, <2>6, <2>7, <2>8, <2>9, QuietStep, Zenon
<1> QED
  BY <1>3, <1>4 DEF WatchMigrate

LEMMA DualInvWatch ==
    ASSUME DualInv, Watch
    PROVE  DualInv'
<1>1. CASE WatchEnd
  <2>1. /\ carrier \in [Carriers -> CarrierState] /\ fail \in [Threads -> FailState]
        /\ watcher \in WatcherState /\ sender \in [Senders -> SenderState]
    BY DEF DualInv, DualTypeOK
  <2>2. watcher' \in WatcherState /\ watcher'.todo = watcher.todo
    BY <1>1, <2>1 DEF WatchEnd, WatcherState
  <2>3. UNCHANGED <<failoverVars, table, carrier, ctxDone, setup, reconnectVars, fail, sender>> /\ SenderInv'
    BY <1>1, Zenon DEF WatchEnd, DualInv, SenderInv
  <2> QED  BY <2>1, <2>2, <2>3, QuietStep, Zenon
<1> QED
  BY <1>1, DualInvWake, DualInvMigrate, Zenon DEF Watch

-----------------------------------------------------------------------------
(* Sends.                                                                    *)

\* What SenderInv says of one send.
SenderOK(r) ==
    /\ r \in SenderState
    /\ r.pc # "idle" => setup.pc \in {"ready", "enable", "established"}
    /\ r.pc \in {"primary", "hedged"} => r.p \in LegIds /\ r.pk \in Carriers
    /\ r.b # NoLeg => r.bk \in Carriers
    /\ r.pc \in {"hedged", "both", "backup"} => r.b # NoLeg

LEMMA SendersOK ==
    ASSUME DualInv, NEW s \in Senders
    PROVE  SenderOK(sender[s])
  BY DEF DualInv, DualTypeOK, SenderInv, SenderOK

LEMMA IdleOK ==
    /\ SenderOK(NotSending) /\ NotSending.pc = "idle"
    /\ \A s \in Senders : TryAgain(s) \in {NotSending, [NotSending EXCEPT !.pc = "order"]}
  BY SMTT(30) DEF SenderOK, SenderState, NotSending, TryAgain, LegOrNone, CarrierOrNone

LEMMA OrderOK ==
    ASSUME setup.pc \in {"ready", "enable", "established"}
    PROVE  /\ SenderOK([NotSending EXCEPT !.pc = "order"]) /\ [NotSending EXCEPT !.pc = "order"].pc = "order"
           /\ \A m \in BOOLEAN : LET r == [NotSending EXCEPT !.pc = "retry", !.moved = m]
                                 IN SenderOK(r) /\ r.pc = "retry"
  BY Zenon DEF SenderOK, SenderState, NotSending, LegOrNone, CarrierOrNone

LEMMA SendersKept ==
    ASSUME DualInv, UNCHANGED setup, NEW s \in Senders, NEW r, SenderOK(r),
           sender' = [sender EXCEPT ![s] = r]
    PROVE  sender' \in [Senders -> SenderState] /\ SenderInv' /\ sender'[s] = r
           /\ \A x \in Senders : x # s => sender'[x] = sender[x]
<1>1. sender \in [Senders -> SenderState]
  BY DEF DualInv, DualTypeOK
<1>2. \A x \in Senders : sender'[x] = IF x = s THEN r ELSE sender[x]
  BY <1>1, Zenon
<1> QED
  BY <1>1, <1>2 DEF DualInv, SenderInv, SenderOK

\* A send goes on without touching the legs.
LEMMA SendStep ==
    ASSUME DualInv, UNCHANGED <<sendUnchanged, table, carrier, fail>>, NEW s \in Senders, NEW r, SenderOK(r),
           r.pc = "wait" => \/ sender[s].pc = "wait" /\ (sender[s].woken => r.woken)
                            \/ Attached(table) = {},
           sender' = [sender EXCEPT ![s] = r]
    PROVE  DualInv'
<1>1. UNCHANGED <<failoverVars, ctxDone, setup, reconnectVars, watcher, table, carrier, fail>>
  BY DEF sendUnchanged
<1>2. sender' \in [Senders -> SenderState] /\ SenderInv' /\ sender'[s] = r
      /\ \A x \in Senders : x # s => sender'[x] = sender[x]
  BY <1>1, SendersKept, Zenon
<1>3. carrier \in [Carriers -> CarrierState] /\ fail \in [Threads -> FailState] /\ watcher \in WatcherState
  BY Zenon DEF DualInv, DualTypeOK
<1> QED
  BY <1>1, <1>2, <1>3, QuietStep

\* handleSendFailure.
LEMMA LoseLegStep ==
    ASSUME DualInv, NEW s \in Senders, NEW id \in LegIds, NEW c \in Carriers, NEW pc \in {"idle", "retry", "both", "backup"},
           sender[s].pc # "idle", pc \in {"both", "backup"} => sender[s].b # NoLeg,
           LoseLeg(s, id, c, pc)
    PROVE  DualInv'
<1>1. /\ carrier \in [Carriers -> CarrierState] /\ fail \in [Threads -> FailState] /\ watcher \in WatcherState
      /\ survival \in BOOLEAN /\ s \in Threads
  BY DEF DualInv, DualTypeOK, Threads
<1>2. UNCHANGED <<failoverVars, ctxDone, setup, reconnectVars, watcher, table>>
  BY Zenon DEF LoseLeg, sendUnchanged
<1>3. SenderOK(sender[s])
  BY SendersOK
<1>4. PICK r : SenderOK(r) /\ r.pc # "wait" /\ sender' = [sender EXCEPT ![s] = r]
  <2>1. CASE pc = "idle"
    BY <2>1, IdleOK, Zenon DEF LoseLeg
  <2>2. CASE pc = "retry"
    <3>1. sender' = [sender EXCEPT ![s] = [NotSending EXCEPT !.pc = "retry", !.moved = sender[s].moved]]
      BY <2>2 DEF LoseLeg
    <3>2. sender[s].moved \in BOOLEAN /\ setup.pc \in {"ready", "enable", "established"}
      BY <1>3 DEF SenderOK, SenderState
    <3> QED  BY <3>1, <3>2, OrderOK, Zenon
  <2>3. CASE pc \in {"both", "backup"}
    <3> DEFINE q == [sender[s] EXCEPT !.pc = pc, !.p = NoLeg, !.pk = NoCarrier]
    <3>1. sender' = [sender EXCEPT ![s] = q]
      BY <2>3, Zenon DEF LoseLeg
    <3>2. SenderOK(q) /\ q.pc # "wait"
      BY <1>3, <2>3, Zenon DEF SenderOK, SenderState, LegOrNone, CarrierOrNone
    <3> QED  BY <3>1, <3>2, Zenon
  <2> QED  BY <2>1, <2>2, <2>3
<1>5. sender' \in [Senders -> SenderState] /\ SenderInv' /\ sender'[s] = r
      /\ \A x \in Senders : x # s => sender'[x] = sender[x]
  BY <1>2, <1>4, SendersKept, Zenon
<1>6. \A x \in Senders : sender'[x].pc = "wait" =>
         \/ sender[x].pc = "wait" /\ (sender[x].woken => sender'[x].woken)
         \/ Attached(table) = {}
  BY <1>4, <1>5, Zenon
<1>7. CASE UNCHANGED <<carrier, fail>>
  BY <1>1, <1>2, <1>5, <1>6, <1>7, QuietStep, Zenon
<1>8. CASE ~UNCHANGED <<carrier, fail>>
  <2>1. /\ table.leg[id] = c /\ carrier' = [carrier EXCEPT ![c] = CloseCarrier(@)]
        /\ fail' = [fail EXCEPT ![s] = Failing(id, c)]
    BY <1>8, SMTT(30) DEF LoseLeg
  <2>2. NotHeld(c)
    BY <2>1, LegsNotHeld, ZenonT(30)
  <2>3. carrier' \in [Carriers -> CarrierState] /\ fail' \in [Threads -> FailState]
    BY <1>1, <2>1, CloseCarrierIs, FailingIs, Zenon
  <2>4. \A d \in Carriers : carrier'[d] = IF d = c THEN CloseCarrier(carrier[d]) ELSE carrier[d]
    BY <1>1, <2>1, Zenon
  <2>5. \A d \in Carriers : carrier[d].pump => carrier[d].leg \in LegIds
    BY Zenon DEF DualInv, CarrierInv
  <2>6. \A d \in Carriers : \/ carrier'[d] = carrier[d]
                            \/ /\ carrier'[d].state = "closed" /\ NotHeld(d)
                               /\ carrier'[d].pump => carrier'[d].leg \in LegIds
    <3> SUFFICES ASSUME NEW d \in Carriers
                 PROVE  \/ carrier'[d] = carrier[d]
                        \/ /\ carrier'[d].state = "closed" /\ NotHeld(d)
                           /\ carrier'[d].pump => carrier'[d].leg \in LegIds
      BY Zenon
    <3>1. CASE d = c
      <4>1. carrier[d] \in CarrierState /\ carrier'[d] = CloseCarrier(carrier[d])
        BY <1>1, <2>4, <3>1, Zenon
      <4> QED  BY <2>2, <2>5, <3>1, <4>1, CloseCarrierIs, Zenon
    <3>2. CASE d # c
      BY <2>4, <3>2, Zenon
    <3> QED  BY <3>1, <3>2, Zenon
  <2>7. carrier'[c].state = "closed"
    <3>1. carrier[c] \in CarrierState /\ carrier'[c] = CloseCarrier(carrier[c])
      BY <1>1, <2>4, Zenon
    <3> QED  BY <3>1, CloseCarrierIs, Zenon
  <2>8. \A t \in Threads : \/ fail'[t] = fail[t]
                           \/ fail'[t].id \in LegIds /\ fail'[t].c = c /\ (fail'[t].redial => survival)
    <3>1. \A t \in Threads : fail'[t] = IF t = s THEN Failing(id, c) ELSE fail[t]
      BY <1>1, <2>1, Zenon
    <3>2. /\ Failing(id, c).id = id /\ Failing(id, c).c = c /\ (Failing(id, c).redial => survival)
      BY <1>1, FailingIs, Zenon
    <3> QED  BY <3>1, <3>2, Zenon
  <2> QED
    BY <1>1, <1>2, <1>5, <1>6, <2>2, <2>3, <2>6, <2>7, <2>8, QuietStep, Zenon
<1> QED
  BY <1>7, <1>8, Zenon

\* sendOrder: with a leg attached there is a primary one, and a backup is one.
LEMMA SendOrderIs ==
    ASSUME DualInv, Attached(table) # {}
    PROVE  /\ ~ctxDone /\ TableConsistent(table) /\ Primary(table) = table.preferred
           /\ Primary(table) \in Attached(table) /\ LegToUse(Primary(table)) \in Carriers
           /\ Backup(table) # NoLeg => Backup(table) \in Attached(table) /\ LegToUse(Backup(table)) \in Carriers
           /\ LegToUse(NoLeg) = NoCarrier
<1>1. table \in TableState /\ TableInv /\ table.leg \in [LegIds -> CarrierOrNone]
  BY DEF DualInv, DualTypeOK, TableState
<1>2. ~ctxDone /\ TableConsistent(table)
  BY <1>1 DEF TableInv
<1>3. table.preferred \in Attached(table)
  BY <1>2 DEF TableConsistent
<1>4. Primary(table) = table.preferred
  BY <1>3, Zenon DEF Primary
<1>5. Backup(table) # NoLeg => Backup(table) \in Attached(table)
  BY <1>1, FirstLegIs, Zenon DEF Backup
<1>6. \A id \in Attached(table) : id # NoLeg /\ table.leg[id] \in Carriers
  BY <1>1, DualAssumption DEF Attached, CarrierOrNone
<1> QED
  BY <1>2, <1>3, <1>4, <1>5, <1>6, Zenon DEF LegToUse

LEMMA DualInvOrder ==
    ASSUME DualInv, NEW s \in Senders, SendOrder(s)
    PROVE  DualInv'
<1>1. SenderOK(sender[s]) /\ sender[s].pc = "order"
  BY SendersOK DEF SendOrder
<1>2. CASE Attached(table) # {}
  <2> DEFINE p == Primary(table)
             b == Backup(table)
             pk == LegToUse(p)
             bk == LegToUse(b)
             r == [sender[s] EXCEPT !.pc = "primary", !.p = p, !.pk = pk, !.b = b, !.bk = bk]
  <2>1. sender' = [sender EXCEPT ![s] = r]
    BY <1>2 DEF SendOrder
  <2>2. /\ p \in LegIds /\ pk \in Carriers /\ b \in LegOrNone /\ bk \in CarrierOrNone
        /\ b # NoLeg => bk \in Carriers
    BY <1>2, SendOrderIs DEF Attached, LegOrNone, CarrierOrNone
  <2> HIDE DEF p, b, pk, bk
  <2>3. SenderOK(r) /\ r.pc # "wait"
    BY <1>1, <2>2, Zenon DEF SenderOK, SenderState, LegOrNone, CarrierOrNone
  <2> QED  BY <2>1, <2>3, SendStep, Zenon DEF SendOrder
<1>3. CASE Attached(table) = {} /\ HasReconnectChance
  <2> DEFINE r == [sender[s] EXCEPT !.pc = "wait"]
  <2>1. sender' = [sender EXCEPT ![s] = r]
    BY <1>3 DEF SendOrder
  <2>2. SenderOK(r)
    BY <1>1 DEF SenderOK, SenderState
  <2> QED  BY <1>3, <2>1, <2>2, SendStep, Zenon DEF SendOrder
<1>4. CASE Attached(table) = {} /\ ~HasReconnectChance
  BY <1>4, IdleOK, SendStep, Zenon DEF SendOrder
<1> QED
  BY <1>2, <1>3, <1>4

\* The steps that only start, end or restart a send.
LEMMA DualInvSendEnds ==
    ASSUME DualInv, NEW s \in Senders,
           \/ SendStart(s) \/ SendWait(s) \/ SendCancelled(s) \/ SendRetry(s)
           \/ /\ sender' = [sender EXCEPT ![s] = NotSending]
              /\ UNCHANGED <<sendUnchanged, table, carrier, fail>>
    PROVE  DualInv'
<1>1. UNCHANGED <<sendUnchanged, table, carrier, fail>>
  BY DEF SendStart, SendWait, SendCancelled, SendRetry
<1>2. CASE sender' = [sender EXCEPT ![s] = NotSending]
  BY <1>1, <1>2, IdleOK, SendStep, Zenon
<1>3. CASE sender' = [sender EXCEPT ![s] = TryAgain(s)] /\ setup.pc \in {"ready", "enable", "established"}
  <2>1. SenderOK(TryAgain(s)) /\ TryAgain(s).pc # "wait"
    BY <1>3, IdleOK, OrderOK, Zenon
  <2> QED  BY <1>1, <1>3, <2>1, SendStep, ZenonT(30)
<1>4. sender[s].pc # "idle" => setup.pc \in {"ready", "enable", "established"}
  BY ZenonT(30) DEF DualInv, SenderInv
<1> QED
  BY <1>2, <1>3, <1>4, Zenon DEF SendStart, SendWait, SendCancelled, SendRetry

\* A step that changes the preferred leg and no other leg of the table.
LEMMA PreferenceStep ==
    ASSUME DualInv, UNCHANGED <<failoverVars, carrier, ctxDone, setup, survival, dialers, persistent,
                                disabled, active, watcher, fail>>,
           table' \in TableState, table'.leg = table.leg, TableConsistent(table) => TableConsistent(table'),
           worker' \in [Workers -> WorkerState],
           \A w \in Workers : \/ worker'[w] = worker[w]
                              \/ /\ worker'[w].id = worker[w].id
                                 /\ worker'[w].pc = "drop" /\ worker[w].pc = "signal",
           sender' \in [Senders -> SenderState], SenderInv', NoLostWakeup'
    PROVE  DualInv'
<1>1. DualTypeOK'
  BY Zenon DEF DualInv, DualTypeOK, FailoverTypeOK, failoverVars
<1>2. LegsLost /\ Attached(table') = Attached(table)
  BY SMTT(30) DEF LegsLost, Attached
<1>3. TableInv'
  BY <1>2, ZenonT(30) DEF DualInv, TableInv
<1>4. SetupInv'
  BY <1>2, SetupKept, Zenon
<1>5. WorkerInv'
  BY <1>2, WorkersKept, Zenon
<1>6. CarrierInv' /\ NoCarrierLeak'
  BY <1>1, <1>2, CarriersKept, Zenon
<1> QED
  BY <1>1, <1>3, <1>4, <1>5, <1>6, Zenon DEF DualInv

LEMMA DualInvHedge ==
    ASSUME DualInv, NEW s \in Senders,
           \/ SendHedge(s)
           \/ /\ sender[s].b # NoLeg
              /\ table' = SetPreferred(table, sender[s].b)
              /\ sender' = [sender EXCEPT ![s] = NotSending]
              /\ UNCHANGED <<sendUnchanged, carrier, fail>>
    PROVE  DualInv'
<1>1. SenderOK(sender[s]) /\ sender[s].b \in LegIds /\ table \in TableState /\ worker \in [Workers -> WorkerState]
  BY SendersOK DEF SendHedge, SenderOK, SenderState, LegOrNone, DualInv, DualTypeOK
<1>2. PICK r : SenderOK(r) /\ r.pc # "wait" /\ sender' = [sender EXCEPT ![s] = r]
  <2>1. CASE SendHedge(s)
    <3> DEFINE r == [sender[s] EXCEPT !.pc = "hedged"]
    <3>1. sender' = [sender EXCEPT ![s] = r] /\ sender[s].pc = "primary" /\ sender[s].b # NoLeg
      BY <2>1 DEF SendHedge
    <3>2. SenderOK(r) /\ r.pc # "wait"
      BY <1>1, <3>1 DEF SenderOK, SenderState
    <3> QED  BY <3>1, <3>2, Zenon
  <2> QED  BY <2>1, IdleOK
<1>3. UNCHANGED <<failoverVars, carrier, ctxDone, setup, reconnectVars, watcher, fail>>
      /\ table' = SetPreferred(table, sender[s].b)
  BY Zenon DEF SendHedge, sendUnchanged
<1>4. /\ table' \in TableState /\ table'.leg = table.leg
      /\ TableConsistent(table) => TableConsistent(table')
  BY <1>1, <1>3, PreferIs
<1>5. sender' \in [Senders -> SenderState] /\ SenderInv' /\ sender'[s] = r
      /\ \A x \in Senders : x # s => sender'[x] = sender[x]
  BY <1>2, <1>3, SendersKept, Zenon
<1>6. NoLostWakeup'
  <2>1. Attached(table') = Attached(table) /\ worker' = worker
    BY <1>3, <1>4 DEF Attached, reconnectVars
  <2> QED  BY <1>2, <1>5, <2>1, Zenon DEF DualInv, NoLostWakeup
<1> QED
  BY <1>1, <1>3, <1>4, <1>5, <1>6, PreferenceStep DEF reconnectVars

LEMMA DualInvHeartbeat ==
    ASSUME DualInv, HeartbeatTimeout
    PROVE  DualInv'
<1>1. /\ table \in TableState /\ worker \in [Workers -> WorkerState] /\ sender \in [Senders -> SenderState]
      /\ Backup(table) \in Attached(table)
  BY SendOrderIs DEF HeartbeatTimeout, DualInv, DualTypeOK
<1>2. UNCHANGED <<failoverVars, carrier, ctxDone, setup, reconnectVars, watcher, fail, sender>>
      /\ table' = [table EXCEPT !.preferred = Backup(table)]
  BY DEF HeartbeatTimeout, sendUnchanged
<1>3. /\ table' \in TableState /\ table'.leg = table.leg /\ Attached(table') = Attached(table)
      /\ TableConsistent(table) => TableConsistent(table')
  BY <1>1, <1>2 DEF TableState, TableConsistent, LegOrNone, Attached
<1>4. SenderInv' /\ NoLostWakeup'
  BY <1>2, <1>3 DEF DualInv, SenderInv, NoLostWakeup, reconnectVars
<1> QED
  BY <1>1, <1>2, <1>3, <1>4, PreferenceStep DEF reconnectVars

LEMMA DualInvSend ==
    ASSUME DualInv, NEW s \in Senders, SendStart(s) \/ Send(s) \/ SendCancelled(s) \/ SendHedge(s)
    PROVE  DualInv'
<1>1. SenderOK(sender[s])
  BY SendersOK, Zenon
<1>2. /\ sender[s].pc \in {"primary", "hedged"} => sender[s].p \in LegIds /\ sender[s].pk \in Carriers
      /\ sender[s].b # NoLeg => sender[s].b \in LegIds /\ sender[s].bk \in Carriers
      /\ sender[s].pc \in {"hedged", "both", "backup"} => sender[s].b # NoLeg
  BY <1>1, Zenon DEF SenderOK, SenderState, LegOrNone
<1>3. CASE SendPrimary(s)
  <2>1. CASE LoseLeg(s, sender[s].p, sender[s].pk, IF sender[s].b = NoLeg THEN "retry" ELSE "backup")
    <3> DEFINE pc == IF sender[s].b = NoLeg THEN "retry" ELSE "backup"
    <3>1. /\ pc \in {"idle", "retry", "both", "backup"}
          /\ pc \in {"both", "backup"} => sender[s].b # NoLeg
          /\ sender[s].pc = "primary" /\ LoseLeg(s, sender[s].p, sender[s].pk, pc)
      BY <1>3, <2>1, SMTT(30) DEF SendPrimary
    <3> HIDE DEF pc
    <3> QED  BY <1>2, <3>1, LoseLegStep, Zenon
  <2> QED  BY <1>3, <2>1, DualInvSendEnds, Zenon DEF SendPrimary
<1>4. CASE SendHedged(s)
  <2>1. sender[s].pc = "hedged"
    BY <1>4, Zenon DEF SendHedged
  <2>2. CASE LoseLeg(s, sender[s].b, sender[s].bk, "idle")
    BY <1>2, <2>1, <2>2, LoseLegStep, SMTT(30)
  <2>3. CASE LoseLeg(s, sender[s].p, sender[s].pk, "idle")
    BY <1>2, <2>1, <2>3, LoseLegStep, Zenon
  <2>4. CASE LoseLeg(s, sender[s].p, sender[s].pk, "both")
    BY <1>2, <2>1, <2>4, LoseLegStep, Zenon
  <2> QED  BY <1>4, <2>2, <2>3, <2>4, DualInvSendEnds, ZenonT(30) DEF SendHedged
<1>5. CASE SendBothLost(s)
  BY <1>2, <1>5, LoseLegStep, SMTT(30) DEF SendBothLost
<1>6. CASE SendBackup(s)
  <2>1. sender[s].pc = "backup"
    BY <1>6, Zenon DEF SendBackup
  <2>2. CASE LoseLeg(s, sender[s].b, sender[s].bk, "retry")
    BY <1>2, <2>1, <2>2, LoseLegStep, Zenon
  <2> QED  BY <1>2, <1>6, <2>1, <2>2, DualInvHedge, Zenon DEF SendBackup
<1> QED
  BY <1>3, <1>4, <1>5, <1>6, DualInvOrder, DualInvSendEnds, DualInvHedge, Zenon DEF Send

-----------------------------------------------------------------------------
(* Reconnect goroutines.                                                     *)

LEMMA WorkerIs ==
    ASSUME DualInv, NEW w \in Workers
    PROVE  /\ worker \in [Workers -> WorkerState] /\ worker[w] \in WorkerState
           /\ worker[w].pc # "off" => worker[w].id \in LegIds /\ survival /\ setup.pc # "ready"
           /\ worker[w].pc \in {"dial", "attach"} =>
                 (worker[w].forever \/ worker[w].left > 0) /\ table.leg[worker[w].id] = NoCarrier
<1>1. worker \in [Workers -> WorkerState] /\ active \subseteq LegIds
  BY DEF DualInv, DualTypeOK
<1> QED
  BY <1>1 DEF DualInv, WorkerInv, SetupInv

LEMMA NextAttemptIs ==
    ASSUME NEW r \in WorkerState, r.forever \/ r.left > 0
    PROVE  /\ NextAttempt(r) \in WorkerState /\ NextAttempt(r).pc = "loop" /\ NextAttempt(r).id = r.id
<1>1. r.left \in 0..MaxAttempts /\ MaxAttempts \in Nat
  BY DualAssumption DEF WorkerState
<1>2. (IF r.forever THEN 0 ELSE r.left - 1) \in 0..MaxAttempts
  BY <1>1
<1>3. NoTarget \in Target
  BY DEF NoTarget, Target, Relays
<1>4. NoCarrier \in CarrierOrNone
  BY Zenon DEF CarrierOrNone
<1> QED
  BY <1>2, <1>3, <1>4, Zenon DEF NextAttempt, WorkerState

\* A step of one reconnect goroutine that leaves the table and the carriers alone.
LEMMA WorkStep ==
    ASSUME DualInv, FailoverTypeOK', NEW w \in Workers, NEW r \in WorkerState,
           UNCHANGED <<table, carrier, ctxDone, setup, survival, dialers, persistent, active, watcher, fail, sender>>,
           disabled' \subseteq LegIds, worker' = [worker EXCEPT ![w] = r],
           r.id = worker[w].id, r.pc # "off", worker[w].pc # "off",
           r.pc # "attach", worker[w].pc \notin {"attach", "signal"},
           r.pc = "dial" => (r.forever \/ r.left > 0) /\ table.leg[worker[w].id] = NoCarrier
    PROVE  DualInv'
<1>1. worker \in [Workers -> WorkerState]
  BY WorkerIs, Zenon
<1>2. \A v \in Workers : worker'[v] = IF v = w THEN r ELSE worker[v]
  BY <1>1, Zenon
<1>3. DualTypeOK'
  BY <1>1, Zenon DEF DualInv, DualTypeOK
<1>4. LegsLost
  BY SMTT(30) DEF LegsLost
<1>5. SetupInv' /\ TableInv' /\ SenderInv'
  BY Zenon DEF DualInv, SetupInv, TableInv, SenderInv
<1>6. WorkerInv'
  BY <1>2, <1>4, WorkersKept, Zenon
<1>7. \A v \in Workers : /\ worker'[v].pc = "attach" <=> worker[v].pc = "attach"
                         /\ worker[v].pc = "attach" => worker'[v].c = worker[v].c
                         /\ worker[v].pc = "signal" => worker'[v].pc = "signal"
  BY <1>2, Zenon
<1>8. CarrierInv' /\ NoCarrierLeak'
  BY <1>3, <1>4, <1>7, CarriersKept, Zenon
<1>9. NoLostWakeup'
  BY <1>4, <1>7, WakeKept
<1> QED
  BY <1>3, <1>5, <1>6, <1>8, <1>9, Zenon DEF DualInv

LEMMA DualInvTurn ==
    ASSUME DualInv, NEW w \in Workers, WorkerTurn(w)
    PROVE  DualInv'
<1>1. /\ worker[w] \in WorkerState /\ worker[w].pc = "loop" /\ worker[w].id \in LegIds
      /\ FailoverTypeOK /\ disabled \subseteq LegIds
  BY WorkerIs DEF WorkerTurn, DualInv, DualTypeOK
<1>2. FailoverTypeOK'
  BY <1>1 DEF WorkerTurn, FailoverTypeOK, failoverVars
<1>3. PICK r : /\ worker' = [worker EXCEPT ![w] = r]
               /\ \/ r \in {[worker[w] EXCEPT !.pc = "spent"], [worker[w] EXCEPT !.pc = "drop"]}
                  \/ /\ r = [worker[w] EXCEPT !.pc = "dial", !.target = CurrentTarget]
                     /\ worker[w].forever \/ worker[w].left # 0
                     /\ ~HasStream(worker[w].id) /\ HasTarget
  BY Zenon DEF WorkerTurn
<1>4. worker[w].left \in Nat
  BY <1>1, DualAssumption DEF WorkerState
<1>5. HasTarget => CurrentTarget \in Target
  BY <1>1, TargetType
<1>6. /\ r \in WorkerState /\ r.id = worker[w].id /\ r.pc \in {"spent", "drop", "dial"}
      /\ r.pc = "dial" => (r.forever \/ r.left > 0) /\ table.leg[worker[w].id] = NoCarrier
  <2>1. CASE r \in {[worker[w] EXCEPT !.pc = "spent"], [worker[w] EXCEPT !.pc = "drop"]}
    BY <1>1, <2>1 DEF WorkerState
  <2>2. CASE /\ r = [worker[w] EXCEPT !.pc = "dial", !.target = CurrentTarget]
             /\ worker[w].forever \/ worker[w].left # 0
             /\ ~HasStream(worker[w].id) /\ HasTarget
    <3>1. r \in WorkerState /\ r.id = worker[w].id /\ r.pc = "dial"
      BY <1>1, <1>5, <2>2, Zenon DEF WorkerState
    <3>2. r.forever = worker[w].forever /\ r.left = worker[w].left
      BY <1>1, <2>2 DEF WorkerState
    <3> QED  BY <1>4, <2>2, <3>1, <3>2 DEF HasStream
  <2> QED  BY <1>3, <2>1, <2>2
<1> QED
  BY <1>1, <1>2, <1>3, <1>6, WorkStep, Zenon DEF WorkerTurn

LEMMA DualInvDialFailed ==
    ASSUME DualInv, NEW w \in Workers, WorkerDialFailed(w)
    PROVE  DualInv'
<1>1. /\ worker[w] \in WorkerState /\ worker[w].pc = "dial" /\ (worker[w].forever \/ worker[w].left > 0)
      /\ FailoverTypeOK /\ disabled \subseteq LegIds
  BY WorkerIs, Zenon DEF WorkerDialFailed, DualInv, DualTypeOK
<1>2. FailoverTypeOK'
  <2>1. CASE UNCHANGED failoverVars
    BY <1>1, <2>1, Zenon DEF FailoverTypeOK, failoverVars
  <2> QED  BY <1>1, <2>1, ReportsKeepType, Zenon DEF WorkerDialFailed
<1>3. /\ NextAttempt(worker[w]) \in WorkerState /\ NextAttempt(worker[w]).pc = "loop"
      /\ NextAttempt(worker[w]).id = worker[w].id
  BY <1>1, NextAttemptIs, SMTT(30)
<1> QED
  BY <1>1, <1>2, <1>3, WorkStep, Zenon DEF WorkerDialFailed

LEMMA FreshIs ==
    ASSUME DualInv, NEW c \in Carriers, Fresh(c)
    PROVE  /\ carrier[c].state = "closed" /\ ~carrier[c].pump
           /\ \A id \in LegIds : table.leg[id] # c
           /\ \A t \in Threads : fail[t].c # c
           /\ \A leg \in watcher.todo : leg[2] # c
           /\ NotHeld(c)
<1>1. /\ carrier[c].state = "closed" /\ ~carrier[c].pump
      /\ \A id \in LegIds : table.leg[id] # c
      /\ \A t \in Threads : fail[t].c # c
      /\ \A leg \in watcher.todo : leg[2] # c
  BY Zenon DEF Fresh
<1>2. NotHeld(c)
  BY <1>1 DEF DualInv, CarrierInv, HeldCarrier, NotHeld
<1> QED
  BY <1>1, <1>2, Zenon

LEMMA DualInvDialed ==
    ASSUME DualInv, NEW w \in Workers, NEW c \in Carriers, WorkerDialed(w, c)
    PROVE  DualInv'
<1>1. /\ worker \in [Workers -> WorkerState] /\ worker[w].pc = "dial"
      /\ worker[w].forever \/ worker[w].left > 0
      /\ table.leg[worker[w].id] = NoCarrier
      /\ carrier \in [Carriers -> CarrierState] /\ FailoverTypeOK
  BY WorkerIs DEF WorkerDialed, DualInv, DualTypeOK
<1>2. /\ carrier[c].state = "closed" /\ ~carrier[c].pump
      /\ \A id \in LegIds : table.leg[id] # c
      /\ \A t \in Threads : fail[t].c # c
      /\ \A leg \in watcher.todo : leg[2] # c
      /\ NotHeld(c)
  BY FreshIs DEF WorkerDialed
<1>3. UNCHANGED <<table, ctxDone, setup, survival, dialers, persistent, disabled, active, watcher, fail, sender>>
  BY DEF WorkerDialed
<1>4. \A v \in Workers : worker'[v] = IF v = w THEN [worker[w] EXCEPT !.pc = "attach", !.c = c] ELSE worker[v]
  BY <1>1 DEF WorkerDialed
<1>5. \A d \in Carriers : carrier'[d] = IF d = c THEN [carrier[c] EXCEPT !.state = "up"] ELSE carrier[d]
  BY <1>1 DEF WorkerDialed
<1>6. carrier' \in [Carriers -> CarrierState] /\ worker' \in [Workers -> WorkerState]
  <2>1. /\ DOMAIN carrier' = Carriers /\ carrier' = [d \in DOMAIN carrier' |-> carrier'[d]]
        /\ DOMAIN worker' = Workers /\ worker' = [v \in DOMAIN worker' |-> worker'[v]]
    BY <1>1, Zenon DEF WorkerDialed
  <2>2. [carrier[c] EXCEPT !.state = "up"] \in CarrierState
    BY <1>1 DEF CarrierState
  <2>3. [worker[w] EXCEPT !.pc = "attach", !.c = c] \in WorkerState
    BY <1>1, Zenon DEF WorkerState, CarrierOrNone
  <2>4. \A d \in Carriers : carrier'[d] \in CarrierState
    BY <1>1, <1>5, <2>2
  <2>5. \A v \in Workers : worker'[v] \in WorkerState
    BY <1>1, <1>4, <2>3
  <2> QED  BY <2>1, <2>4, <2>5
<1>7. /\ worker'[w].id = worker[w].id /\ worker'[w].pc = "attach" /\ worker'[w].c = c
      /\ worker'[w].forever = worker[w].forever /\ worker'[w].left = worker[w].left
      /\ carrier'[c].state = "up" /\ carrier'[c].pump = carrier[c].pump /\ carrier'[c].leg = carrier[c].leg
  BY <1>1, <1>4, <1>5, ZenonT(30) DEF WorkerState, CarrierState
<1>8. DualTypeOK'
  BY <1>1, <1>3, <1>6, ReportsKeepType DEF DualInv, DualTypeOK, WorkerDialed
<1>9. LegsLost
  BY <1>3 DEF LegsLost
<1>10. SetupInv' /\ TableInv' /\ SenderInv'
  BY <1>3, Zenon DEF DualInv, SetupInv, TableInv, SenderInv
<1>11. WorkerInv'
  BY <1>1, <1>3, <1>4, <1>7, <1>9, WorkersKept
<1>12. NoLostWakeup'
  BY <1>1, <1>3, <1>4, <1>9, WakeKept, SMTT(30)
<1>13. CarrierInv'
  <2>1. ASSUME NEW v \in Workers, worker'[v].pc = "attach" PROVE HeldCarrier(v)'
    <3>1. CASE v = w
      <4>1. \A u \in Workers : worker'[u].pc = "attach" /\ worker'[u].c = c => u = w
        BY <1>2, <1>4 DEF NotHeld
      <4> QED  BY <1>2, <1>3, <1>7, <3>1, <4>1, Zenon DEF HeldCarrier
    <3>2. CASE v # w
      <4>1. worker'[v] = worker[v] /\ worker[v].pc = "attach" /\ worker[v].c # c /\ HeldCarrier(v)
        BY <1>2, <1>4, <2>1, <3>2, Zenon DEF NotHeld, DualInv, CarrierInv
      <4>2. \A u \in Workers : worker'[u].pc = "attach" /\ worker'[u].c = worker[v].c => u = v
        BY <1>4, <1>7, <4>1 DEF HeldCarrier
      <4> QED  BY <1>3, <1>5, <4>1, <4>2 DEF HeldCarrier
    <3> QED  BY <3>1, <3>2, SMTT(30)
  <2>2. \A d \in Carriers : carrier'[d].pump => carrier'[d].leg \in LegIds
    BY <1>2, <1>5, <1>7, Zenon DEF DualInv, CarrierInv
  <2>3. \A id \in LegIds : table'.leg[id] \in Carriers =>
           \/ carrier'[table'.leg[id]].state = "closed"
           \/ carrier'[table'.leg[id]].leg = id /\ carrier'[table'.leg[id]].pump
    BY <1>2, <1>3, <1>5, Zenon DEF DualInv, CarrierInv
  <2>4. \A t \in Threads : fail'[t].pc = "detach" =>
           fail'[t].id \in LegIds /\ fail'[t].c \in Carriers /\ carrier'[fail'[t].c].state = "closed"
    BY <1>2, <1>3, <1>5, Zenon DEF DualInv, CarrierInv
  <2>5. \A t \in Threads : fail'[t].redial => survival'
    BY <1>3, Zenon DEF DualInv, CarrierInv
  <2> QED  BY <2>1, <2>2, <2>3, <2>4, <2>5, Zenon DEF CarrierInv
<1>14. NoCarrierLeak'
  <2> SUFFICES ASSUME NEW d \in Carriers, carrier'[d].state \in {"up", "broken"}
               PROVE  \/ ~ctxDone' /\ \E id \in LegIds : table'.leg[id] = d
                      \/ \E v \in Workers : worker'[v].pc = "attach" /\ worker'[v].c = d
    BY Zenon DEF NoCarrierLeak
  <2>1. CASE d = c
    BY <1>7, <2>1
  <2>2. CASE d # c
    <3>1. \A v \in Workers : worker[v].pc = "attach" => worker'[v] = worker[v]
      BY <1>1, <1>4, SMTT(30)
    <3> QED  BY <1>3, <1>5, <2>2, <3>1 DEF DualInv, NoCarrierLeak
  <2> QED  BY <2>1, <2>2, Zenon
<1> QED
  BY <1>8, <1>10, <1>11, <1>12, <1>13, <1>14, Zenon DEF DualInv

\* attachWithIDPolicy on an open stream: the carrier was nobody's but the
\* goroutine's that dialed it, and that one lets go of it.
LEMMA AttachStep ==
    ASSUME DualInv, UNCHANGED <<ctxDone, survival, watcher, fail>>, ~ctxDone,
           NEW id \in LegIds, NEW c \in Carriers, NEW relay \in Relays, table.leg[id] = NoCarrier,
           AttachDialed(id, c, relay),
           \A x \in LegIds : table.leg[x] # c,
           \A t \in Threads : fail[t].c # c,
           \A leg \in watcher.todo : leg[2] # c,
           \A v \in Workers : worker'[v].pc = "attach" => worker[v].c # c /\ worker'[v] = worker[v],
           \A v \in Workers : worker[v].pc = "attach" => worker[v].c = c \/ worker'[v] = worker[v]
    PROVE  /\ table' \in TableState /\ carrier' \in [Carriers -> CarrierState]
           /\ \A x \in LegIds : table'.leg[x] = IF x = id THEN c ELSE table.leg[x]
           /\ TableInv' /\ CarrierInv' /\ NoCarrierLeak'
<1>1. table \in TableState /\ carrier \in [Carriers -> CarrierState] /\ TableConsistent(table)
  BY Zenon DEF DualInv, DualTypeOK, TableInv
<1>2. table.leg \in [LegIds -> CarrierOrNone] /\ NoCarrier \notin Carriers
  BY <1>1, DualAssumption, ZenonT(30) DEF TableState
<1> DEFINE r == [state |-> IF carrier[c].state = "broken" THEN "broken" ELSE "up",
                 relay |-> relay, leg |-> id, pump |-> TRUE]
<1>3. carrier' = [carrier EXCEPT ![c] = r] /\ table' = AttachLeg(table, id, c)
  BY Zenon DEF AttachDialed
<1>4. r \in CarrierState /\ r.leg = id /\ r.pump
  BY Zenon DEF CarrierState, LegOrNone
<1> HIDE DEF r
<1>5. table' \in TableState /\ table'.leg = [table.leg EXCEPT ![id] = c] /\ TableConsistent(table')
  <2>1. AttachLeg(table, id, c) \in TableState /\ TableConsistent(AttachLeg(table, id, c))
    BY <1>1, AttachIs, Zenon
  <2>2. AttachLeg(table, id, c).leg = [table.leg EXCEPT ![id] = c]
    BY DEF AttachLeg
  <2> QED  BY <1>3, <2>1, <2>2, Zenon
<1>6. \A x \in LegIds : table'.leg[x] = IF x = id THEN c ELSE table.leg[x]
  BY <1>2, <1>5, Zenon
<1>7. \A d \in Carriers : carrier'[d] = IF d = c THEN r ELSE carrier[d]
  BY <1>1, <1>3, Zenon
<1>8. TableInv'
  BY <1>5, Zenon DEF TableInv
<1>9. ASSUME NEW v \in Workers, worker'[v].pc = "attach" PROVE HeldCarrier(v)'
  <2>1. worker'[v] = worker[v] /\ worker[v].pc = "attach" /\ worker[v].c # c /\ HeldCarrier(v)
    BY <1>9, Zenon DEF DualInv, CarrierInv
  <2>2. \A u \in Workers : worker'[u].pc = "attach" /\ worker'[u].c = worker[v].c => u = v
    BY <2>1, Zenon DEF HeldCarrier
  <2> QED  BY <1>6, <1>7, <2>1, <2>2, ZenonT(30) DEF HeldCarrier
<1>10. \A d \in Carriers : carrier'[d].pump => carrier'[d].leg \in LegIds
  BY <1>4, <1>7, Zenon DEF DualInv, CarrierInv
<1>11. \A x \in LegIds : table'.leg[x] \in Carriers =>
          \/ carrier'[table'.leg[x]].state = "closed"
          \/ carrier'[table'.leg[x]].leg = x /\ carrier'[table'.leg[x]].pump
  <2> SUFFICES ASSUME NEW x \in LegIds, table'.leg[x] \in Carriers
               PROVE  \/ carrier'[table'.leg[x]].state = "closed"
                      \/ carrier'[table'.leg[x]].leg = x /\ carrier'[table'.leg[x]].pump
    BY Zenon
  <2>1. CASE x = id
    <3>1. table'.leg[x] = c /\ carrier'[c] = r
      BY <1>6, <1>7, <2>1, Zenon
    <3> QED  BY <1>4, <2>1, <3>1, Zenon
  <2>2. CASE x # id
    <3>1. table'.leg[x] = table.leg[x] /\ table.leg[x] # c
      BY <1>6, <2>2, Zenon
    <3>2. carrier'[table.leg[x]] = carrier[table.leg[x]] /\ table.leg[x] \in Carriers
      BY <1>7, <3>1, Zenon
    <3> QED  BY <3>1, <3>2, Zenon DEF DualInv, CarrierInv
  <2> QED  BY <2>1, <2>2, Zenon
<1>12. \A t \in Threads : fail'[t].pc = "detach" =>
          fail'[t].id \in LegIds /\ fail'[t].c \in Carriers /\ carrier'[fail'[t].c].state = "closed"
  BY <1>7, Zenon DEF DualInv, CarrierInv
<1>13. \A t \in Threads : fail'[t].redial => survival'
  BY Zenon DEF DualInv, CarrierInv
<1>14. CarrierInv'
  BY <1>9, <1>10, <1>11, <1>12, <1>13, ZenonT(30) DEF CarrierInv
<1>15. NoCarrierLeak'
  <2> SUFFICES ASSUME NEW d \in Carriers, carrier'[d].state \in {"up", "broken"}
               PROVE  \/ ~ctxDone' /\ \E x \in LegIds : table'.leg[x] = d
                      \/ \E v \in Workers : worker'[v].pc = "attach" /\ worker'[v].c = d
    BY Zenon DEF NoCarrierLeak
  <2>1. CASE d = c
    BY <1>6, <2>1, Zenon
  <2>2. CASE d # c
    <3>1. CASE \E x \in LegIds : table.leg[x] = d
      BY <1>2, <1>6, <3>1, ZenonT(30)
    <3>2. CASE \E v \in Workers : worker[v].pc = "attach" /\ worker[v].c = d
      BY <2>2, <3>2, Zenon
    <3> QED  BY <1>7, <2>2, <3>1, <3>2, ZenonT(30) DEF DualInv, NoCarrierLeak
  <2> QED  BY <2>1, <2>2, ZenonT(30)
<1> QED
  BY <1>5, <1>3, <1>1, <1>4, <1>6, <1>8, <1>14, <1>15, ZenonT(30)

\* The dial returned to a closed stream: its carrier is closed.
LEMMA DualInvAttachLate ==
    ASSUME DualInv, NEW w \in Workers, WorkerAttach(w), ctxDone
    PROVE  DualInv'
<1> DEFINE c == worker[w].c
<1>1. /\ worker \in [Workers -> WorkerState] /\ worker[w] \in WorkerState /\ worker[w].pc = "attach"
      /\ worker[w].forever \/ worker[w].left > 0
      /\ carrier \in [Carriers -> CarrierState] /\ HeldCarrier(w)
  BY WorkerIs, Zenon DEF WorkerAttach, DualInv, DualTypeOK, CarrierInv
<1>2. /\ c \in Carriers /\ \A id \in LegIds : table.leg[id] # c
      /\ \A v \in Workers : worker[v].pc = "attach" /\ worker[v].c = c => v = w
  BY <1>1, Zenon DEF HeldCarrier
<1>3. UNCHANGED <<failoverVars, table, ctxDone, setup, survival, dialers, persistent, disabled, active,
                  watcher, fail, sender>>
  BY DEF WorkerAttach, AttachDialed
<1>4. /\ carrier' = [carrier EXCEPT ![c] = Closed]
      /\ worker' = [worker EXCEPT ![w] = NextAttempt(worker[w])]
  BY DEF WorkerAttach, AttachDialed
<1>5. /\ NextAttempt(worker[w]) \in WorkerState /\ NextAttempt(worker[w]).pc = "loop"
      /\ NextAttempt(worker[w]).id = worker[w].id
  BY <1>1, NextAttemptIs, Zenon
<1>6. \A v \in Workers : worker'[v] = IF v = w THEN NextAttempt(worker[w]) ELSE worker[v]
  BY <1>1, <1>4, Zenon
<1>7. \A d \in Carriers : carrier'[d] = IF d = c THEN Closed ELSE carrier[d]
  BY <1>1, <1>4
<1>8. carrier' \in [Carriers -> CarrierState] /\ worker' \in [Workers -> WorkerState]
  BY <1>1, <1>4, <1>5, ClosedIs, ZenonT(30)
<1> HIDE DEF c
<1>9. DualTypeOK'
  BY <1>3, <1>8, Zenon DEF DualInv, DualTypeOK, FailoverTypeOK, failoverVars
<1>10. LegsLost
  BY <1>3 DEF LegsLost
<1>11. SetupInv' /\ TableInv' /\ SenderInv'
  BY <1>3, ZenonT(30) DEF DualInv, SetupInv, TableInv, SenderInv
<1>12. WorkerInv'
  BY <1>1, <1>3, <1>5, <1>6, <1>10, WorkersKept, ZenonT(30)
<1>13. NoLostWakeup'
  BY <1>1, <1>3, <1>6, <1>10, WakeKept, Zenon
<1>14. CarrierInv'
  <2>1. ASSUME NEW v \in Workers, worker'[v].pc = "attach" PROVE HeldCarrier(v)'
    <3>1. v # w /\ worker'[v] = worker[v] /\ worker[v].pc = "attach" /\ worker[v].c # c /\ HeldCarrier(v)
      BY <1>2, <1>5, <1>6, <2>1, Zenon DEF DualInv, CarrierInv
    <3>2. \A u \in Workers : worker'[u].pc = "attach" /\ worker'[u].c = worker[v].c => u = v
      BY <1>5, <1>6, <3>1, Zenon DEF HeldCarrier
    <3> QED  BY <1>3, <1>7, <3>1, <3>2, Zenon DEF HeldCarrier
  <2>2. \A d \in Carriers : carrier'[d].pump => carrier'[d].leg \in LegIds
    BY <1>7, ClosedIs, Zenon DEF DualInv, CarrierInv
  <2>3. \A id \in LegIds : table'.leg[id] \in Carriers =>
           \/ carrier'[table'.leg[id]].state = "closed"
           \/ carrier'[table'.leg[id]].leg = id /\ carrier'[table'.leg[id]].pump
    BY <1>2, <1>3, <1>7, Zenon DEF DualInv, CarrierInv
  <2>4. \A t \in Threads : fail'[t].pc = "detach" =>
           fail'[t].id \in LegIds /\ fail'[t].c \in Carriers /\ carrier'[fail'[t].c].state = "closed"
    BY <1>3, <1>7, ClosedIs, SMTT(30) DEF DualInv, CarrierInv
  <2>5. \A t \in Threads : fail'[t].redial => survival'
    BY <1>3, Zenon DEF DualInv, CarrierInv
  <2> QED  BY <2>1, <2>2, <2>3, <2>4, <2>5, Zenon DEF CarrierInv
<1>15. NoCarrierLeak'
  <2> SUFFICES ASSUME NEW d \in Carriers, carrier'[d].state \in {"up", "broken"}
               PROVE  \E v \in Workers : worker'[v].pc = "attach" /\ worker'[v].c = d
    BY Zenon DEF NoCarrierLeak
  <2>1. d # c /\ carrier'[d] = carrier[d]
    BY <1>7, ClosedIs, Zenon
  <2>2. PICK v \in Workers : worker[v].pc = "attach" /\ worker[v].c = d
    BY <2>1, Zenon DEF DualInv, NoCarrierLeak
  <2> QED  BY <1>6, <2>1, <2>2, Zenon DEF c
<1> QED
  BY <1>9, <1>11, <1>12, <1>13, <1>14, <1>15, Zenon DEF DualInv

LEMMA DualInvAttach ==
    ASSUME DualInv, NEW w \in Workers, WorkerAttach(w), ~ctxDone
    PROVE  DualInv'
<1> DEFINE c == worker[w].c
           id == worker[w].id
           r == [NoWorker EXCEPT !.pc = "signal", !.id = id]
<1>1. /\ worker \in [Workers -> WorkerState] /\ worker[w] \in WorkerState /\ worker[w].pc = "attach"
      /\ id \in LegIds /\ survival /\ table.leg[id] = NoCarrier /\ HeldCarrier(w)
      /\ setup.pc \in {"enable", "established"}
  BY WorkerIs, SMTT(30) DEF WorkerAttach, DualInv, DualTypeOK, CarrierInv, SetupInv
<1>2. /\ c \in Carriers /\ \A x \in LegIds : table.leg[x] # c
      /\ \A t \in Threads : fail[t].c # c
      /\ \A leg \in watcher.todo : leg[2] # c
      /\ \A v \in Workers : worker[v].pc = "attach" /\ worker[v].c = c => v = w
  BY <1>1, Zenon DEF HeldCarrier
<1>3. UNCHANGED <<failoverVars, ctxDone, setup, survival, dialers, persistent, disabled, active,
                  watcher, fail, sender>>
  BY DEF WorkerAttach
<1>4. AttachDialed(id, c, worker[w].target.relay) /\ worker[w].target.relay \in Relays
  BY <1>1 DEF WorkerAttach, WorkerState, Target
<1>5. worker' = [worker EXCEPT ![w] = r]
  BY DEF WorkerAttach
<1>6. r \in WorkerState /\ r.pc = "signal" /\ r.id = id
  <2>1. NoTarget \in Target /\ 0 \in 0..MaxAttempts /\ NoCarrier \in CarrierOrNone
    BY DualAssumption DEF NoTarget, Target, Relays, CarrierOrNone
  <2> QED  BY <1>1, <2>1, Zenon DEF NoWorker, WorkerState, LegOrNone
<1> HIDE DEF r, c, id
<1>7. \A v \in Workers : worker'[v] = IF v = w THEN r ELSE worker[v]
  BY <1>1, <1>5, Zenon
<1>8. \A v \in Workers : worker'[v].pc = "attach" => worker[v].c # c /\ worker'[v] = worker[v]
  BY <1>2, <1>6, <1>7, Zenon
<1>9. \A v \in Workers : worker[v].pc = "attach" => worker[v].c = c \/ worker'[v] = worker[v]
  BY <1>7, SMTT(30) DEF c
<1>10. /\ table' \in TableState /\ carrier' \in [Carriers -> CarrierState]
       /\ \A x \in LegIds : table'.leg[x] = IF x = id THEN c ELSE table.leg[x]
       /\ TableInv' /\ CarrierInv' /\ NoCarrierLeak'
  BY <1>1, <1>2, <1>3, <1>4, <1>8, <1>9, AttachStep, ZenonT(30)
<1>11. worker' \in [Workers -> WorkerState]
  BY <1>1, <1>5, <1>6, Zenon
<1>12. DualTypeOK'
  BY <1>3, <1>10, <1>11, SMTT(30) DEF DualInv, DualTypeOK, FailoverTypeOK, failoverVars
<1>13. SetupInv' /\ SenderInv'
  BY <1>1, <1>3, Zenon DEF DualInv, SetupInv, SenderInv
<1>14. WorkerInv'
  <2>1. \A v \in Workers : worker'[v].id = worker[v].id
    BY <1>6, <1>7, Zenon DEF id
  <2>2. OneDialPerLeg' /\ OneDialPerLeg
    BY <2>1, Zenon DEF DualInv, WorkerInv, OneDialPerLeg
  <2>3. ASSUME NEW v \in Workers
        PROVE  /\ worker'[v].pc = "off" <=> worker'[v].id = NoLeg
               /\ worker'[v].pc # "off" => survival' /\ worker'[v].id \in active'
               /\ worker'[v].pc \in {"dial", "attach"} =>
                     /\ worker'[v].forever \/ worker'[v].left > 0
                     /\ table'.leg[worker'[v].id] = NoCarrier
    <3>1. CASE v = w
      <4>1. id \in active /\ id # NoLeg
        BY <1>1, Zenon DEF DualInv, WorkerInv, id
      <4> QED  BY <1>1, <1>3, <1>6, <1>7, <3>1, <4>1, ZenonT(30)
    <3>2. CASE v # w
      <4>1. worker'[v] = worker[v]
        BY <1>7, <3>2, Zenon
      <4>2. worker[v].pc \in {"dial", "attach"} => worker[v].id \in LegIds /\ worker[v].id # id
        BY <2>2, <3>2, WorkerIs, Zenon DEF OneDialPerLeg, DualInv, WorkerInv, id
      <4>3. worker[v].pc \in {"dial", "attach"} => table'.leg[worker[v].id] = table.leg[worker[v].id]
        BY <1>10, <4>2, Zenon
      <4> QED  BY <1>3, <4>1, <4>3, Zenon DEF DualInv, WorkerInv
    <3> QED  BY <3>1, <3>2, SMTT(30)
  <2> QED  BY <2>2, <2>3, Zenon DEF WorkerInv
<1>15. NoLostWakeup'
  BY <1>6, <1>7, Zenon DEF NoLostWakeup
<1> QED
  BY <1>10, <1>12, <1>13, <1>14, <1>15, Zenon DEF DualInv

\* signalLegAvailable wakes every send that looks for a leg or waits for one.
LEMMA DualInvSignal ==
    ASSUME DualInv, NEW w \in Workers, WorkerSignal(w)
    PROVE  DualInv'
<1>1. /\ worker \in [Workers -> WorkerState] /\ worker[w] \in WorkerState /\ worker[w].pc = "signal"
      /\ worker[w].id \in LegIds /\ table \in TableState /\ sender \in [Senders -> SenderState]
  BY WorkerIs DEF WorkerSignal, DualInv, DualTypeOK
<1>2. UNCHANGED <<failoverVars, carrier, ctxDone, setup, survival, dialers, persistent, disabled, active, watcher, fail>>
  BY DEF WorkerSignal
<1>3. /\ table' \in TableState /\ table'.leg = table.leg
      /\ TableConsistent(table) => TableConsistent(table')
  BY <1>1, PreferIs DEF WorkerSignal
<1>4. \A v \in Workers : worker'[v] = IF v = w THEN [worker[w] EXCEPT !.pc = "drop"] ELSE worker[v]
  BY <1>1 DEF WorkerSignal
<1>5. [worker[w] EXCEPT !.pc = "drop"] \in WorkerState
  BY <1>1 DEF WorkerState
<1>6. worker' \in [Workers -> WorkerState]
  BY <1>1, <1>5 DEF WorkerSignal
<1>7. /\ worker'[w].id = worker[w].id /\ worker'[w].pc = "drop"
      /\ \A v \in Workers : v # w => worker'[v] = worker[v]
  BY <1>1, <1>4 DEF WorkerState
<1>8. \A s \in Senders : \E b \in BOOLEAN : /\ sender'[s] = [sender[s] EXCEPT !.woken = b]
                                            /\ sender[s].pc = "wait" => b
  <2>1. \A s \in Senders : sender'[s] = [sender[s] EXCEPT !.woken = sender[s].woken \/ sender[s].pc \in {"order", "wait"}]
    BY DEF WorkerSignal
  <2>2. \A s \in Senders : (sender[s].woken \/ sender[s].pc \in {"order", "wait"}) \in BOOLEAN
    BY <1>1 DEF SenderState
  <2>3. \A s \in Senders : sender[s].pc = "wait" => sender[s].woken \/ sender[s].pc \in {"order", "wait"}
    OBVIOUS
  <2> QED  BY <2>1, <2>2, <2>3, Zenon
<1>9. sender' = [s \in Senders |-> sender'[s]]
  BY DEF WorkerSignal
<1>10. ASSUME NEW s \in Senders
       PROVE  /\ sender'[s] \in SenderState /\ sender'[s].pc = sender[s].pc
              /\ sender'[s].p = sender[s].p /\ sender'[s].pk = sender[s].pk
              /\ sender'[s].b = sender[s].b /\ sender'[s].bk = sender[s].bk
              /\ sender[s].pc = "wait" => sender'[s].woken
  <2>1. PICK b \in BOOLEAN : sender'[s] = [sender[s] EXCEPT !.woken = b] /\ (sender[s].pc = "wait" => b = TRUE)
    BY <1>8, Zenon
  <2>2. sender[s] \in SenderState
    BY <1>1
  <2>3. sender'[s] \in SenderState /\ sender'[s].woken = b
    BY <2>1, <2>2 DEF SenderState
  <2>4. /\ sender'[s].pc = sender[s].pc
        /\ sender'[s].p = sender[s].p /\ sender'[s].pk = sender[s].pk
        /\ sender'[s].b = sender[s].b /\ sender'[s].bk = sender[s].bk
    BY <2>1, <2>2, Zenon DEF SenderState
  <2> QED  BY <2>1, <2>3, <2>4
<1>11. sender' \in [Senders -> SenderState]
  BY <1>9, <1>10, SMTT(30)
<1>12. SenderInv' /\ NoLostWakeup'
  BY <1>2, <1>10, Zenon DEF DualInv, SenderInv, NoLostWakeup
<1> QED
  BY <1>1, <1>2, <1>3, <1>6, <1>7, <1>11, <1>12, PreferenceStep, Zenon

LEMMA DualInvGiveUp ==
    ASSUME DualInv, NEW w \in Workers, WorkerGiveUp(w)
    PROVE  DualInv'
<1> DEFINE r == [worker[w] EXCEPT !.pc = "drop"]
<1>1. /\ worker \in [Workers -> WorkerState] /\ worker[w] \in WorkerState /\ worker[w].pc = "spent"
      /\ worker[w].id \in LegIds /\ FailoverTypeOK /\ disabled \subseteq LegIds /\ setup.pc # "ready"
  BY WorkerIs DEF WorkerGiveUp, DualInv, DualTypeOK
<1>2. UNCHANGED <<failoverVars, setup, survival, dialers, persistent, active, watcher, fail, sender>>
  BY DEF WorkerGiveUp
<1>3. FailoverTypeOK' /\ disabled' \subseteq LegIds
  BY <1>1, <1>2 DEF WorkerGiveUp, FailoverTypeOK, failoverVars
<1>4. worker' = [worker EXCEPT ![w] = r]
  BY <1>1 DEF WorkerGiveUp
<1>5. r \in WorkerState /\ r.id = worker[w].id /\ r.pc = "drop"
  BY <1>1, SMTT(30) DEF WorkerState
<1> HIDE DEF r
<1>6. CASE UNCHANGED <<ctxDone, table, carrier>>
  BY <1>1, <1>2, <1>3, <1>4, <1>5, <1>6, WorkStep, ZenonT(30)
<1>7. CASE Close
  <2>1. worker' \in [Workers -> WorkerState] /\ \A v \in Workers : worker'[v] = IF v = w THEN r ELSE worker[v]
    BY <1>1, <1>4, <1>5, SMTT(30)
  <2>2. DualTypeOK'
    BY <1>2, <1>3, <1>7, <2>1, CloseIs, ZenonT(30) DEF DualInv, DualTypeOK
  <2>3. SetupInv'
    BY <1>1, <1>2, <1>7, CloseIs, SetupKept, Zenon
  <2>4. WorkerInv'
    BY <1>1, <1>2, <1>5, <1>7, <2>1, CloseIs, WorkersKept, Zenon
  <2>5. CarrierInv' /\ NoCarrierLeak'
    BY <1>1, <1>2, <1>5, <1>7, <2>1, <2>2, CloseIs, CarriersKept, ZenonT(30)
  <2>6. SenderInv' /\ NoLostWakeup'
    BY <1>1, <1>2, <1>5, <1>7, <2>1, CloseIs, WakeKept, Zenon DEF DualInv, SenderInv
  <2> QED  BY <1>7, <2>2, <2>3, <2>4, <2>5, <2>6, CloseIs, Zenon DEF DualInv
<1> QED
  BY <1>6, <1>7 DEF WorkerGiveUp

LEMMA DualInvDrop ==
    ASSUME DualInv, NEW w \in Workers, WorkerDrop(w)
    PROVE  DualInv'
<1>1. /\ worker \in [Workers -> WorkerState] /\ worker[w].pc = "drop" /\ worker[w].id \in LegIds
      /\ active \subseteq LegIds
  BY WorkerIs, Zenon DEF WorkerDrop, DualInv, DualTypeOK
<1>2. UNCHANGED <<failoverVars, table, carrier, ctxDone, setup, survival, dialers, persistent, disabled,
                  watcher, fail, sender>>
  BY Zenon DEF WorkerDrop
<1>3. NoWorker \in WorkerState /\ NoWorker.pc = "off" /\ NoWorker.id = NoLeg
  <2>1. NoTarget \in Target /\ 0 \in 0..MaxAttempts
    BY DualAssumption DEF NoTarget, Target, Relays
  <2> QED  BY <2>1, Zenon DEF NoWorker, WorkerState, LegOrNone, CarrierOrNone
<1>4. worker' \in [Workers -> WorkerState] /\ \A v \in Workers : worker'[v] = IF v = w THEN NoWorker ELSE worker[v]
  BY <1>1, <1>3, Zenon DEF WorkerDrop
<1>5. DualTypeOK'
  BY <1>1, <1>2, <1>4, Zenon DEF DualInv, DualTypeOK, FailoverTypeOK, failoverVars, WorkerDrop
<1>6. LegsLost
  BY <1>2, Zenon DEF LegsLost
<1>7. SetupInv' /\ TableInv' /\ SenderInv'
  BY <1>2, Zenon DEF DualInv, SetupInv, TableInv, SenderInv
<1>8. WorkerInv'
  <2>1. OneDialPerLeg' /\ OneDialPerLeg
    BY <1>3, <1>4, Zenon DEF DualInv, WorkerInv, OneDialPerLeg
  <2>2. \A v \in Workers : v # w /\ worker[v].pc # "off" => worker[v].id \in active'
    BY <2>1, WorkerIs, Zenon DEF OneDialPerLeg, DualInv, WorkerInv, WorkerDrop
  <2>3. ASSUME NEW v \in Workers
        PROVE  /\ worker'[v].pc = "off" <=> worker'[v].id = NoLeg
               /\ worker'[v].pc # "off" => survival' /\ worker'[v].id \in active'
               /\ worker'[v].pc \in {"dial", "attach"} =>
                     /\ worker'[v].forever \/ worker'[v].left > 0
                     /\ table'.leg[worker'[v].id] = NoCarrier
    BY <1>2, <1>3, <1>4, <2>2, ZenonT(30) DEF DualInv, WorkerInv
  <2> QED  BY <2>1, <2>3, Zenon DEF WorkerInv
<1>9. CarrierInv' /\ NoCarrierLeak'
  BY <1>1, <1>2, <1>3, <1>4, <1>5, <1>6, CarriersKept, ZenonT(30)
<1>10. NoLostWakeup'
  BY <1>1, <1>2, <1>4, <1>6, WakeKept, Zenon
<1> QED
  BY <1>5, <1>7, <1>8, <1>9, <1>10, Zenon DEF DualInv

LEMMA DualInvWork ==
    ASSUME DualInv, NEW w \in Workers, Work(w)
    PROVE  DualInv'
<1>1. CASE WorkerAttach(w)
  BY <1>1, DualInvAttachLate, DualInvAttach
<1> QED
  BY <1>1, DualInvTurn, DualInvDialFailed, DualInvDialed, DualInvSignal, DualInvGiveUp, DualInvDrop, Zenon DEF Work

-----------------------------------------------------------------------------
(* Failures, and the legs that are dialed again.                             *)

LEMMA NewWorkerIs ==
    ASSUME NEW id \in LegIds
    PROVE  NewWorker(id) \in WorkerState /\ NewWorker(id).pc = "loop" /\ NewWorker(id).id = id
<1> DEFINE fallback == Family(id) = "kcp" /\ HasUsableFamily("tcp")
           forever == id \in persistent /\ ~fallback
           left == IF forever THEN 0 ELSE IF fallback THEN 1 ELSE MaxAttempts
<1>1. NewWorker(id) = [NoWorker EXCEPT !.pc = "loop", !.id = id, !.forever = forever, !.left = left]
  BY DEF NewWorker
<1>2. forever \in BOOLEAN /\ left \in 0..MaxAttempts
  BY DualAssumption
<1> HIDE DEF fallback, forever, left
<1>3. NoTarget \in Target
  BY Zenon DEF NoTarget, Target, Relays
<1> QED
  BY <1>1, <1>2, <1>3, Zenon DEF NoWorker, WorkerState, LegOrNone, CarrierOrNone

\* scheduleReconnect starts a goroutine only for a leg that has none.
LEMMA ScheduleIs ==
    ASSUME DualInv, NEW id \in LegIds, survival, UNCHANGED survival, LegsLost,
           ScheduleReconnect(id)
    PROVE  /\ worker' \in [Workers -> WorkerState] /\ active' \subseteq LegIds /\ WorkerInv'
           /\ \A w \in Workers : /\ worker'[w].pc = "attach" <=> worker[w].pc = "attach"
                                 /\ worker[w].pc # "off" => worker'[w] = worker[w]
<1>1. worker \in [Workers -> WorkerState] /\ active \subseteq LegIds /\ WorkerInv
  BY Zenon DEF DualInv, DualTypeOK
<1>2. CASE UNCHANGED <<active, worker>>
  BY <1>1, <1>2, WorkersKept, Zenon
<1>3. CASE ~UNCHANGED <<active, worker>>
  <2>1. id \notin active /\ active' = active \cup {id}
    BY <1>3 DEF ScheduleReconnect
  <2>2. PICK w \in Workers : worker[w].pc = "off" /\ worker' = [worker EXCEPT ![w] = NewWorker(id)]
    BY <1>3 DEF ScheduleReconnect
  <2>3. NewWorker(id) \in WorkerState /\ NewWorker(id).pc = "loop" /\ NewWorker(id).id = id
    BY NewWorkerIs
  <2>4. \A v \in Workers : worker'[v] = IF v = w THEN NewWorker(id) ELSE worker[v]
    BY <1>1, <2>2
  <2>5. worker' \in [Workers -> WorkerState]
    BY <1>1, <2>2, <2>3, Zenon
  <2>6. \A v \in Workers : worker[v].id # id
    BY <1>1, <2>1, DualAssumption, SMTT(30) DEF WorkerInv
  <2>7. OneDialPerLeg'
    BY <1>1, <2>3, <2>4, <2>6, ZenonT(30) DEF WorkerInv, OneDialPerLeg
  <2>8. ASSUME NEW v \in Workers
        PROVE  /\ worker'[v].pc = "off" <=> worker'[v].id = NoLeg
               /\ worker'[v].pc # "off" => survival' /\ worker'[v].id \in active'
               /\ worker'[v].pc \in {"dial", "attach"} =>
                     /\ worker'[v].forever \/ worker'[v].left > 0
                     /\ table'.leg[worker'[v].id] = NoCarrier
    <3>1. CASE v = w
      BY <2>1, <2>3, <2>4, <3>1, DualAssumption, Zenon
    <3>2. CASE v # w
      <4>1. worker'[v] = worker[v]
        BY <2>4, <3>2, Zenon
      <4>2. worker[v].pc \in {"dial", "attach"} => worker[v].id \in LegIds /\ table.leg[worker[v].id] = NoCarrier
        BY WorkerIs, Zenon
      <4> QED  BY <1>1, <2>1, <4>1, <4>2, Zenon DEF WorkerInv, LegsLost
    <3> QED  BY <3>1, <3>2, Zenon
  <2>9. WorkerInv'
    BY <2>7, <2>8, Zenon DEF WorkerInv
  <2> QED  BY <1>1, <2>1, <2>2, <2>3, <2>4, <2>5, <2>9, Zenon
<1> QED
  BY <1>2, <1>3

\* detach, and Close when no leg is left: neither takes an open carrier out.
DetachedFrom(id, c) == IF table.leg[id] = c THEN DetachLeg(table, id) ELSE table

LEMMA DetachedIs ==
    ASSUME DualInv, NEW id \in LegIds, NEW c \in Carriers, carrier[c].state = "closed",
           NEW u, u = DetachedFrom(id, c)
    PROVE  /\ u \in TableState
           /\ \A x \in LegIds : u.leg[x] = table.leg[x] \/ (u.leg[x] = NoCarrier /\ table.leg[x] = c)
           /\ IF ctxDone THEN Attached(u) = {} ELSE TableConsistent(u)
<1>1. table \in TableState /\ TableInv /\ table.leg \in [LegIds -> CarrierOrNone]
  BY ZenonT(30) DEF DualInv, DualTypeOK, TableState
<1>2. CASE table.leg[id] = c
  <2>1. ~ctxDone /\ TableConsistent(table)
    BY <1>1, <1>2, DualAssumption, Zenon DEF TableInv, Attached
  <2>2. u \in TableState /\ u.leg = [table.leg EXCEPT ![id] = NoCarrier] /\ TableConsistent(u)
    BY <1>1, <1>2, <2>1, DetachIs, Zenon DEF DetachedFrom
  <2> QED  BY <1>1, <1>2, <2>1, <2>2, Zenon
<1>3. CASE table.leg[id] # c
  BY <1>1, <1>3, Zenon DEF TableInv, DetachedFrom
<1> QED
  BY <1>2, <1>3, Zenon

LEMMA DualInvFinish ==
    ASSUME DualInv, NEW t \in Threads, FinishFailure(t)
    PROVE  DualInv'
<1> DEFINE f == fail[t]
           u == IF table.leg[f.id] = f.c THEN DetachLeg(table, f.id) ELSE table
           closes == Attached(u) = {} /\ MustClose
<1>1. /\ f.pc = "detach" /\ f.id \in LegIds /\ f.c \in Carriers /\ carrier[f.c].state = "closed"
      /\ f.redial => survival
      /\ carrier \in [Carriers -> CarrierState] /\ fail \in [Threads -> FailState]
      /\ worker \in [Workers -> WorkerState] /\ active \subseteq LegIds
  BY ZenonT(30) DEF FinishFailure, DualInv, DualTypeOK, CarrierInv
<1>2. /\ fail' = [fail EXCEPT ![t] = NotFailing]
      /\ UNCHANGED <<failoverVars, carrier, setup, survival, dialers, persistent, disabled, watcher, sender>>
      /\ IF closes
           THEN ctxDone' = TRUE /\ table' = ClearTable(u) /\ UNCHANGED <<active, worker>>
           ELSE /\ table' = u /\ UNCHANGED ctxDone
                /\ IF f.redial THEN ScheduleReconnect(f.id) ELSE UNCHANGED <<active, worker>>
  BY Zenon DEF FinishFailure
<1> HIDE DEF f
<1>a. u = DetachedFrom(f.id, f.c)
  BY Zenon DEF DetachedFrom
<1> HIDE DEF u
<1>3. /\ u \in TableState
      /\ \A x \in LegIds : u.leg[x] = table.leg[x] \/ (u.leg[x] = NoCarrier /\ table.leg[x] = f.c)
      /\ IF ctxDone THEN Attached(u) = {} ELSE TableConsistent(u)
  <2>1. f.id \in LegIds /\ f.c \in Carriers /\ carrier[f.c].state = "closed"
    BY <1>1, Zenon
  <2> QED  BY <1>a, <2>1, DetachedIs, SMTT(30)
<1>4. /\ table' \in TableState /\ LegsLost
      /\ closes => Attached(table') = {} /\ table'.leg = [x \in LegIds |-> NoCarrier]
  <2>1. CASE closes
    <3>1. table' = ClearTable(u)
      BY <1>2, <2>1, Zenon
    <3> QED  BY <1>3, <2>1, <3>1, ClearIs, Zenon DEF LegsLost
  <2>2. CASE ~closes
    BY <1>2, <1>3, <2>2, ZenonT(30) DEF LegsLost
  <2> QED  BY <2>1, <2>2, Zenon
<1>5. TableInv' /\ (ctxDone => ctxDone') /\ (Attached(table') = {} /\ setup.pc = "ready" => ctxDone')
  <2>1. setup.pc = "ready" => MustClose
    BY Zenon DEF DualInv, SetupInv, MustClose
  <2> QED  BY <1>2, <1>3, <1>4, <2>1, Zenon DEF TableInv
<1>6. SetupInv'
  BY <1>2, <1>4, <1>5, SetupKept, Zenon
<1>7. /\ worker' \in [Workers -> WorkerState] /\ active' \subseteq LegIds /\ WorkerInv'
      /\ \A w \in Workers : /\ worker'[w].pc = "attach" <=> worker[w].pc = "attach"
                            /\ worker[w].pc # "off" => worker'[w] = worker[w]
  <2>1. CASE UNCHANGED <<active, worker>>
    BY <1>1, <1>2, <1>4, <2>1, WorkersKept, ZenonT(30)
  <2>2. CASE ~UNCHANGED <<active, worker>>
    <3>1. ScheduleReconnect(f.id) /\ survival
      BY <1>1, <1>2, <2>2, Zenon
    <3> QED  BY <1>1, <1>2, <1>4, <3>1, ScheduleIs, Zenon
  <2> QED  BY <2>1, <2>2, SMTT(30)
<1>8. fail' \in [Threads -> FailState] /\ \A x \in Threads : fail'[x] = fail[x] \/ fail'[x] = NotFailing
  BY <1>1, <1>2 DEF FailState, NotFailing, LegOrNone, CarrierOrNone
<1>9. ctxDone' \in BOOLEAN
  BY <1>2, ZenonT(30) DEF DualInv, DualTypeOK
<1>10. DualTypeOK'
  BY <1>2, <1>4, <1>7, <1>8, <1>9, Zenon DEF DualInv, DualTypeOK, FailoverTypeOK, failoverVars
<1>11. ASSUME NEW x \in LegIds, table.leg[x] \in Carriers, carrier'[table.leg[x]].state # "closed"
       PROVE  table'.leg[x] = table.leg[x] /\ ctxDone' = ctxDone
  <2>1. u.leg[x] = table.leg[x]
    BY <1>1, <1>2, <1>3, <1>11, Zenon
  <2>2. x \in Attached(u)
    BY <1>11, <2>1, DualAssumption, SMTT(30) DEF Attached
  <2> QED  BY <1>2, <2>1, <2>2, ZenonT(30)
<1>12. CarrierInv' /\ NoCarrierLeak'
  BY <1>1, <1>2, <1>4, <1>7, <1>8, <1>10, <1>11, CarriersKept, ZenonT(30)
<1>13. SenderInv' /\ NoLostWakeup'
  BY <1>2, <1>4, <1>7, WakeKept, ZenonT(30) DEF DualInv, SenderInv
<1> QED
  BY <1>5, <1>6, <1>7, <1>10, <1>12, <1>13, Zenon DEF DualInv

-----------------------------------------------------------------------------
(* The initial dial and the end of the handshake.                            *)

\* Until the stream is set up nothing is sent and nothing is dialed again.
LEMMA EarlyIs ==
    ASSUME DualInv, setup.pc \in {"dialing", "extra", "finish"}
    PROVE  /\ ~survival
           /\ \A w \in Workers : worker[w].pc = "off" /\ worker[w].id = NoLeg
           /\ \A s \in Senders : sender[s].pc = "idle"
  BY ZenonT(30) DEF DualInv, SetupInv, WorkerInv, SenderInv

\* One result of the initial dial: leg id is attached, or it is not.
LEMMA EarlyStep ==
    ASSUME DualInv, setup.pc \in {"dialing", "extra"}, FailoverTypeOK',
           UNCHANGED <<ctxDone, survival, disabled, active, worker, watcher, fail, sender>>,
           dialers' \subseteq LegIds, persistent' \subseteq LegIds,
           NEW id \in LegIds, table.leg[id] = NoCarrier,
           \/ UNCHANGED <<table, carrier>>
           \/ \E c \in Carriers : Fresh(c) /\ \E relay \in Relays : AttachDialed(id, c, relay),
           setup' \in SetupState, setup'.pc \in {"dialing", "extra", "finish"},
           setup'.pc = "dialing" => setup.pc = "dialing" /\ setup'.pending \subseteq setup.pending \ {id},
           setup'.pc \in {"dialing", "extra"} => id # "tcp#2",
           setup'.pc = "extra" => ~SingleTCP
    PROVE  DualInv'
<1>1. /\ table \in TableState /\ carrier \in [Carriers -> CarrierState]
      /\ table.leg \in [LegIds -> CarrierOrNone] /\ setup.pending \subseteq LegIds
  BY ZenonT(30) DEF DualInv, DualTypeOK, TableState, SetupState
<1>2. /\ table' \in TableState /\ carrier' \in [Carriers -> CarrierState]
      /\ \A x \in LegIds : x # id => table'.leg[x] = table.leg[x]
      /\ TableInv'
      /\ LegsLost \/ (CarrierInv' /\ NoCarrierLeak')
      /\ LegsLost => (\A c \in Carriers : carrier'[c] = carrier[c] \/ (carrier'[c] = Closed /\ NotHeld(c)))
                     /\ UNCHANGED table
  <2>1. CASE UNCHANGED <<table, carrier>>
    BY <1>1, <2>1, ZenonT(30) DEF DualInv, TableInv, LegsLost
  <2>2. ASSUME NEW c \in Carriers, NEW relay \in Relays, Fresh(c), AttachDialed(id, c, relay), ctxDone
        PROVE  /\ table' = table /\ carrier' \in [Carriers -> CarrierState]
               /\ TableInv' /\ \A d \in Carriers : carrier'[d] = carrier[d] \/ (carrier'[d] = Closed /\ NotHeld(d))
    <3>1. table' = table /\ carrier' = [carrier EXCEPT ![c] = Closed]
      BY <2>2, ZenonT(30) DEF AttachDialed
    <3> QED  BY <1>1, <2>2, <3>1, FreshIs, ClosedIs, ZenonT(30) DEF DualInv, TableInv
  <2>3. ASSUME NEW c \in Carriers, NEW relay \in Relays, Fresh(c), AttachDialed(id, c, relay), ~ctxDone
        PROVE  /\ table' \in TableState /\ carrier' \in [Carriers -> CarrierState]
               /\ \A x \in LegIds : table'.leg[x] = IF x = id THEN c ELSE table.leg[x]
               /\ TableInv' /\ CarrierInv' /\ NoCarrierLeak'
    <3>1. \A v \in Workers : worker'[v].pc # "attach" /\ worker[v].pc # "attach"
      BY EarlyIs, ZenonT(30)
    <3> QED  BY <2>3, <3>1, FreshIs, AttachStep, ZenonT(30)
  <2>4. CASE ctxDone /\ ~UNCHANGED <<table, carrier>>
    BY <1>1, <2>2, <2>4, ZenonT(30) DEF LegsLost
  <2>5. CASE ~ctxDone /\ ~UNCHANGED <<table, carrier>>
    <3>1. PICK c \in Carriers :
             /\ table' \in TableState /\ carrier' \in [Carriers -> CarrierState]
             /\ \A x \in LegIds : table'.leg[x] = IF x = id THEN c ELSE table.leg[x]
             /\ TableInv' /\ CarrierInv' /\ NoCarrierLeak'
      BY <2>3, <2>5, ZenonT(30)
    <3>2. ~LegsLost
      BY <3>1, DualAssumption, ZenonT(30) DEF LegsLost
    <3> QED  BY <3>1, <3>2, Zenon
  <2> QED  BY <2>1, <2>4, <2>5, ZenonT(30)
<1>3. DualTypeOK'
  BY <1>2, ZenonT(30) DEF DualInv, DualTypeOK
<1>4. SetupInv'
  BY <1>1, <1>2, EarlyIs, ZenonT(30) DEF DualInv, SetupInv
<1>5. WorkerInv'
  BY EarlyIs, ZenonT(30) DEF WorkerInv, OneDialPerLeg
<1>6. SenderInv' /\ NoLostWakeup'
  BY EarlyIs, ZenonT(30) DEF DualInv, SenderInv, NoLostWakeup
<1>7. CarrierInv' /\ NoCarrierLeak'
  <2>1. CASE LegsLost
    BY <1>2, <1>3, <2>1, ClosedIs, CarriersKept, Zenon
  <2> QED  BY <1>2, <2>1, ZenonT(30)
<1> QED
  BY <1>2, <1>3, <1>4, <1>5, <1>6, <1>7, ZenonT(30) DEF DualInv

LEMMA AfterResultIs ==
    ASSUME DualInv, NEW id \in setup.pending, setup.pc = "dialing", NEW ok \in BOOLEAN
    PROVE  /\ AfterResult(id, ok) \in SetupState
           /\ AfterResult(id, ok).pc \in {"dialing", "extra", "finish"}
           /\ AfterResult(id, ok).pending = setup.pending \ {id}
           /\ AfterResult(id, ok).pc = "extra" => ~SingleTCP
           /\ id \in LegIds /\ id # "tcp#2" /\ table.leg[id] = NoCarrier
<1>1. setup \in SetupState /\ setup.pending \subseteq InitialLegs /\ table.leg[id] = NoCarrier
  BY Zenon DEF DualInv, DualTypeOK, SetupInv
<1>2. id \in LegIds /\ id # "tcp#2"
  BY <1>1, DualAssumption DEF InitialLegs
<1> DEFINE left == setup.pending \ {id}
           good == IF ok THEN setup.ok \cup {id} ELSE setup.ok
           pc == IF left # {} THEN "dialing" ELSE IF good = {"tcp"} /\ ~SingleTCP THEN "extra" ELSE "finish"
<1>3. AfterResult(id, ok) = [setup EXCEPT !.pending = left, !.ok = good, !.pc = pc]
  BY Zenon DEF AfterResult
<1>4. left \subseteq LegIds /\ good \subseteq LegIds /\ pc \in {"dialing", "extra", "finish"} /\ (pc = "extra" => ~SingleTCP)
  BY <1>1, <1>2 DEF SetupState
<1> HIDE DEF left, good, pc
<1>5. [setup EXCEPT !.pending = left, !.ok = good, !.pc = pc] \in SetupState
  BY <1>1, <1>4, Zenon DEF SetupState
<1>6. AfterResult(id, ok).pc = pc /\ AfterResult(id, ok).pending = left
  BY <1>1, <1>3 DEF SetupState
<1> QED
  BY <1>1, <1>2, <1>3, <1>4, <1>5, <1>6, Zenon DEF left

LEMMA DualInvInitial ==
    ASSUME DualInv, NEW id \in InitialLegs, InitialFailed(id) \/ \E c \in Carriers : InitialDialed(id, c)
    PROVE  DualInv'
<1>1. /\ setup.pc = "dialing" /\ id \in setup.pending /\ setup.target.relay \in Relays
      /\ FailoverTypeOK /\ dialers \subseteq LegIds /\ persistent \subseteq LegIds /\ ctxDone \in BOOLEAN
  BY ZenonT(30) DEF InitialFailed, InitialDialed, DualInv, DualTypeOK, SetupState, Target
<1>2. UNCHANGED <<ctxDone, reconnectVars, watcher, fail, sender>>
  BY Zenon DEF InitialFailed, InitialDialed
<1>3. FailoverTypeOK'
  <2>1. CASE UNCHANGED failoverVars
    BY <1>1, <2>1 DEF FailoverTypeOK, failoverVars
  <2> QED  BY <1>1, <2>1, ReportsKeepType, ZenonT(30) DEF InitialFailed, InitialDialed
<1>4. PICK ok \in BOOLEAN : setup' = AfterResult(id, ok)
  BY <1>1, Zenon DEF InitialFailed, InitialDialed
<1>5. /\ setup' \in SetupState /\ setup'.pc \in {"dialing", "extra", "finish"}
      /\ setup'.pending = setup.pending \ {id}
      /\ setup'.pc = "extra" => ~SingleTCP
      /\ id \in LegIds /\ id # "tcp#2" /\ table.leg[id] = NoCarrier
  BY <1>1, <1>4, AfterResultIs, ZenonT(30)
<1>6. \/ UNCHANGED <<table, carrier>>
      \/ \E c \in Carriers : Fresh(c) /\ \E relay \in Relays : AttachDialed(id, c, relay)
  BY <1>1, Zenon DEF InitialFailed, InitialDialed
<1> QED
  BY <1>1, <1>2, <1>3, <1>5, <1>6, EarlyStep, Zenon DEF reconnectVars

LEMMA DualInvExtra ==
    ASSUME DualInv, ExtraFailed \/ \E c \in Carriers : ExtraDialed(c)
    PROVE  DualInv'
<1>1. /\ setup.pc = "extra" /\ FailoverTypeOK /\ dialers \subseteq LegIds /\ persistent \subseteq LegIds
      /\ setup \in SetupState /\ "tcp#2" \in LegIds /\ table.leg["tcp#2"] = NoCarrier
  BY DualAssumption, Zenon DEF ExtraFailed, ExtraDialed, DualInv, DualTypeOK, SetupInv
<1>2. UseSecondTCP
  BY SMTT(30) DEF ExtraFailed, ExtraDialed
<1>3. FailoverTypeOK'
  <2>1. CASE UNCHANGED failoverVars
    BY <1>1, <2>1 DEF FailoverTypeOK, failoverVars
  <2> QED  BY <1>1, <2>1, ReportsKeepType, Zenon DEF ExtraFailed, ExtraDialed
<1>4. setup' \in SetupState /\ setup'.pc = "finish"
  BY <1>1, <1>2, Zenon DEF UseSecondTCP, SetupState
<1>5. \/ UNCHANGED <<table, carrier>>
      \/ \E c \in Carriers : Fresh(c) /\ \E relay \in Relays : AttachDialed("tcp#2", c, relay)
  BY <1>1, TargetType DEF ExtraFailed, ExtraDialed
<1> QED
  BY <1>1, <1>2, <1>3, <1>4, <1>5, EarlyStep, Zenon DEF UseSecondTCP

LEMMA DualInvFinishSetup ==
    ASSUME DualInv, FinishSetup
    PROVE  DualInv'
<1>1. setup.pc = "finish" /\ setup \in SetupState
  BY DEF FinishSetup, DualInv, DualTypeOK
<1>2. UNCHANGED <<failoverVars, reconnectVars, watcher, fail, sender>>
  BY SMTT(30) DEF FinishSetup
<1>3. setup' \in SetupState /\ setup'.pc = IF Attached(table) = {} THEN "failed" ELSE "ready"
  <2>1. NoTarget \in Target
    BY Zenon DEF NoTarget, Target, Relays
  <2> QED  BY <1>1, <2>1, Zenon DEF FinishSetup, SetupState
<1>4. CASE Close
  <2>1. DualTypeOK'
    BY <1>2, <1>3, <1>4, CloseIs, ZenonT(30) DEF DualInv, DualTypeOK, FailoverTypeOK, failoverVars, reconnectVars
  <2>2. SetupInv'
    BY <1>1, <1>2, <1>3, <1>4, EarlyIs, CloseIs, ZenonT(30) DEF SetupInv, reconnectVars
  <2>3. WorkerInv'
    BY <1>2, <1>4, CloseIs, WorkersKept, Zenon DEF reconnectVars
  <2>4. CarrierInv' /\ NoCarrierLeak'
    BY <1>2, <1>4, <2>1, CloseIs, CarriersKept, ZenonT(30) DEF reconnectVars
  <2>5. SenderInv' /\ NoLostWakeup'
    BY <1>1, <1>2, <1>4, EarlyIs, Zenon DEF DualInv, SenderInv, NoLostWakeup
  <2> QED  BY <1>4, <2>1, <2>2, <2>3, <2>4, <2>5, CloseIs, Zenon DEF DualInv
<1>5. CASE Attached(table) # {} /\ UNCHANGED <<ctxDone, table, carrier>>
  <2>1. DualTypeOK'
    BY <1>2, <1>3, <1>5, Zenon DEF DualInv, DualTypeOK, FailoverTypeOK, failoverVars, reconnectVars
  <2>2. SetupInv' /\ TableInv' /\ WorkerInv'
    BY <1>1, <1>2, <1>3, <1>5, EarlyIs, ZenonT(30) DEF DualInv, SetupInv, TableInv, WorkerInv, OneDialPerLeg, reconnectVars
  <2>3. CarrierInv' /\ NoCarrierLeak'
    <3>1. UNCHANGED <<table, carrier, ctxDone, worker, fail, survival, watcher>>
      BY <1>2, <1>5, Zenon DEF reconnectVars
    <3>2. \A w \in Workers : HeldCarrier(w)' = HeldCarrier(w)
      BY <3>1, SMTT(30) DEF HeldCarrier
    <3>3. CarrierInv'
      BY <3>1, <3>2, Zenon DEF DualInv, CarrierInv
    <3> QED  BY <3>1, <3>3, Zenon DEF DualInv, NoCarrierLeak
  <2>4. SenderInv' /\ NoLostWakeup'
    BY <1>1, <1>2, EarlyIs, Zenon DEF DualInv, SenderInv, NoLostWakeup
  <2> QED  BY <2>1, <2>2, <2>3, <2>4, Zenon DEF DualInv
<1> QED
  BY <1>4, <1>5 DEF FinishSetup

LEMMA DualInvEnable ==
    ASSUME DualInv, EnableSurvival
    PROVE  DualInv'
<1>1. /\ setup.pc = "ready" /\ setup \in SetupState /\ ~survival /\ dialers \subseteq LegIds
      /\ persistent \subseteq LegIds /\ disabled \subseteq LegIds
      /\ \A w \in Workers : worker[w].pc = "off" /\ worker[w].id = NoLeg
  BY DEF EnableSurvival, DualInv, DualTypeOK, SetupInv, WorkerInv
<1>2. /\ UNCHANGED <<failoverVars, table, carrier, ctxDone, dialers, active, worker, watcher, fail, sender>>
      /\ survival' = TRUE /\ persistent' \subseteq LegIds /\ disabled' \subseteq LegIds
      /\ setup' = [setup EXCEPT !.pc = "enable", !.pending = dialers \ disabled']
  BY <1>1 DEF EnableSurvival
<1>3. setup' \in SetupState /\ setup'.pc = "enable"
  BY <1>1, <1>2, Zenon DEF SetupState
<1>4. DualTypeOK'
  BY <1>2, <1>3 DEF DualInv, DualTypeOK, FailoverTypeOK, failoverVars
<1>5. SetupInv' /\ TableInv' /\ WorkerInv'
  BY <1>1, <1>2, <1>3, Zenon DEF DualInv, SetupInv, TableInv, WorkerInv, OneDialPerLeg
<1>6. CarrierInv' /\ NoCarrierLeak'
  BY <1>2 DEF DualInv, CarrierInv, HeldCarrier, NoCarrierLeak
<1>7. SenderInv' /\ NoLostWakeup'
  BY <1>1, <1>2, <1>3, Zenon DEF DualInv, SenderInv, NoLostWakeup
<1> QED
  BY <1>4, <1>5, <1>6, <1>7 DEF DualInv

LEMMA DualInvEnableLeg ==
    ASSUME DualInv, NEW id \in LegIds, EnableLeg(id)
    PROVE  DualInv'
<1>1. setup.pc = "enable" /\ setup \in SetupState /\ survival
      /\ worker \in [Workers -> WorkerState] /\ active \subseteq LegIds
  BY DEF EnableLeg, DualInv, DualTypeOK, SetupInv
<1>2. UNCHANGED <<failoverVars, table, carrier, ctxDone, survival, dialers, persistent, disabled, watcher, fail, sender>>
  BY SMTT(30) DEF EnableLeg
<1>3. setup' \in SetupState /\ setup'.pc \in {"enable", "established"}
  <2>1. setup' = [setup EXCEPT !.pending = setup.pending \ {id},
                               !.pc = IF setup.pending = {id} THEN "established" ELSE "enable"]
    BY DEF EnableLeg
  <2> QED  BY <1>1, <2>1, Zenon DEF SetupState
<1>4. LegsLost
  BY <1>2 DEF LegsLost
<1>5. /\ worker' \in [Workers -> WorkerState] /\ active' \subseteq LegIds /\ WorkerInv'
      /\ \A w \in Workers : /\ worker'[w].pc = "attach" <=> worker[w].pc = "attach"
                            /\ worker[w].pc # "off" => worker'[w] = worker[w]
  <2>1. CASE UNCHANGED <<active, worker>>
    BY <1>1, <1>2, <1>4, <2>1, WorkersKept, Zenon
  <2> QED  BY <1>1, <1>2, <1>4, <2>1, ScheduleIs, Zenon DEF EnableLeg
<1>6. DualTypeOK'
  BY <1>2, <1>3, <1>5, Zenon DEF DualInv, DualTypeOK, FailoverTypeOK, failoverVars
<1>7. SetupInv' /\ TableInv' /\ SenderInv'
  BY <1>1, <1>2, <1>3, ZenonT(30) DEF DualInv, SetupInv, TableInv, SenderInv
<1>8. CarrierInv' /\ NoCarrierLeak'
  BY <1>2, <1>4, <1>5, <1>6, CarriersKept, ZenonT(30)
<1>9. NoLostWakeup'
  BY <1>2, <1>4, <1>5, WakeKept, Zenon
<1> QED
  BY <1>5, <1>6, <1>7, <1>8, <1>9, Zenon DEF DualInv

-----------------------------------------------------------------------------
(* The invariant holds.                                                      *)

LEMMA DualInvNext == DualInv /\ [Next]_vars => DualInv'
<1> SUFFICES ASSUME DualInv, [Next]_vars PROVE DualInv'
  OBVIOUS
<1>1. CASE InitialDial
  BY <1>1, DualInvInitial, DualInvExtra, DualInvFinishSetup, Zenon DEF InitialDial
<1>2. CASE EnableSurvival \/ \E id \in LegIds : EnableLeg(id)
  BY <1>2, DualInvEnable, DualInvEnableLeg, Zenon
<1>3. CASE AppClose
  BY <1>3, DualInvClose, Zenon DEF AppClose
<1>4. ASSUME NEW c \in Carriers, Break(c) \/ Pump(c) \/ PumpPeerClosed(c) PROVE DualInv'
  BY <1>4, DualInvBreak, DualInvPump, DualInvClose, Zenon DEF PumpPeerClosed
<1>5. ASSUME NEW t \in Threads, FinishFailure(t) PROVE DualInv'
  BY <1>5, DualInvFinish
<1>6. ASSUME NEW w \in Workers, Work(w) PROVE DualInv'
  BY <1>6, DualInvWork
<1>7. CASE Watch
  BY <1>7, DualInvWatch, Zenon
<1>8. CASE OtherFailure \/ \E list \in CandidateLists : NewCandidates(list)
  BY <1>8, DualInvOther, DualInvCandidates
<1>9. ASSUME NEW s \in Senders, SendStart(s) \/ Send(s) \/ SendCancelled(s) \/ SendHedge(s) PROVE DualInv'
  BY <1>9, DualInvSend, Zenon
<1>10. CASE HeartbeatTimeout
  BY <1>10, DualInvHeartbeat
<1>11. CASE UNCHANGED vars
  BY <1>11, DualInvUnchanged
<1> QED
  BY <1>1, <1>2, <1>3, <1>4, <1>5, <1>6, <1>7, <1>8, <1>9, <1>10, <1>11, Zenon DEF Next

\* The inductive invariant: the leg table, the goroutines that dial, the
\* carriers and the sends agree in every reachable state.
THEOREM DualInvHolds == Spec => []DualInv
  BY DualInvInit, DualInvNext, PTL DEF Spec

LEMMA DualInvLegs == DualInv => LegsConsistent
<1> SUFFICES ASSUME DualInv PROVE LegsConsistent
  BY SMTT(30)
<1>1. TypeOK
  <2>1. /\ table.leg \in [LegIds -> Carriers \cup {NoCarrier}] /\ table.order \in Seq(LegIds)
        /\ table.preferred \in LegIds \cup {NoLeg}
    BY Zenon DEF DualInv, DualTypeOK, TableState, LegOrNone, CarrierOrNone
  <2>2. Range(table.order) \subseteq LegIds
    BY <2>1 DEF Range
  <2>3. \A c \in Carriers : carrier[c].state \in {"up", "broken", "closed"} /\ carrier[c].leg \in LegIds \cup {NoLeg}
    BY DEF DualInv, DualTypeOK, CarrierState, LegOrNone
  <2>4. \A w \in Workers : worker[w].left \in 0..MaxAttempts
    BY DEF DualInv, DualTypeOK, WorkerState
  <2> QED  BY <2>1, <2>2, <2>3, <2>4, Zenon DEF DualInv, DualTypeOK, TypeOK
<1>2. LegTableConsistent
  BY Zenon DEF DualInv, TableInv, LegTableConsistent
<1>3. OneDialPerLeg /\ ClosedBeforeHandshake
  BY DEF DualInv, WorkerInv, SetupInv, ClosedBeforeHandshake
<1> QED
  BY <1>1, <1>2, <1>3 DEF LegsConsistent

\* attachWithIDPolicy, detach, handleLegFailure, scheduleReconnect and Close:
\* on an open stream the order lists the attached legs once each and the
\* preferred leg is one of them; a leg is dialed by one goroutine at a time;
\* and a stream that loses its legs before the handshake is closed.
THEOREM LegsStayConsistent == Spec => []LegsConsistent
  BY DualInvHolds, DualInvLegs, PTL

\* No interleaving of dials, attaches, failures, relay changes and Close forgets
\* an open carrier: it is a leg of the open stream, or the goroutine that
\* dialed it is about to attach it (runReconnectWithBackoff, detach, Close).
THEOREM CarriersAreNotForgotten == Spec => []NoCarrierLeak
<1>1. DualInv => NoCarrierLeak
  BY DEF DualInv
<1> QED
  BY <1>1, DualInvHolds, PTL

\* sendMessage takes the leg signal before it looks at the legs: a send that
\* waits while there is a leg has been woken, or is about to be
\* (signalLegAvailable).
THEOREM WaitingSendsAreWoken == Spec => []NoLostWakeup
<1>1. DualInv => NoLostWakeup
  BY DEF DualInv
<1> QED
  BY <1>1, DualInvHolds, PTL

=============================================================================
