------------------------- MODULE HoldbackCountProofs ------------------------
(***************************************************************************)
(* Proofs about the counters of the message holdback (Holdback): they are  *)
(* exactly what the table holds.                                           *)
(***************************************************************************)
EXTENDS RelayProofs, WellFoundedInduction

-----------------------------------------------------------------------------
(* The counters: the list of what is approved.                               *)

\* A set of numbers that is not empty has a smallest one.
LEMMA Smallest ==
    ASSUME NEW S \in SUBSET Nat, S # {}
    PROVE  \E n \in S : \A m \in S : n <= m
<1> DEFINE R == OpToRel(<, Nat)
<1>1. IsWellFoundedOn(R, Nat)
  BY NatLessThanWellFounded, Zenon
<1>2. \A a \in Nat, b \in Nat : a < b => <<a, b>> \in R
  BY DEF OpToRel
<1> HIDE DEF R
<1>3. PICK x \in S : \A y \in S : ~(<<y, x>> \in R)
  BY <1>1, WFMin, Zenon
<1>4. \A m \in S : ~(m < x)
  BY <1>2, <1>3, Zenon
<1> QED BY <1>4

\* f collects the messages of s in S up to the n-th.
Takes(s, S, f, n) ==
    f = [i \in 0..n |-> IF i = 0 THEN <<>>
                        ELSE IF s[i] \in S THEN Append(f[i - 1], s[i]) ELSE f[i - 1]]

LEMMA TakesOne ==
    ASSUME NEW s, NEW S, NEW m \in Nat \ {0}, NEW g, Takes(s, S, g, m - 1)
    PROVE  \E f : Takes(s, S, f, m)
<1> DEFINE f == [i \in 0..m |-> IF i < m THEN g[i]
                                ELSE IF s[m] \in S THEN Append(g[m - 1], s[m]) ELSE g[m - 1]]
<1>1. m - 1 \in Nat /\ 0 \in 0..m /\ 0 \in 0..(m - 1) /\ 0 < m /\ m - 1 < m /\ m - 1 \in 0..m
  OBVIOUS
<1>2. \A i \in 0..(m - 1) : g[i] = IF i = 0 THEN <<>>
                                   ELSE IF s[i] \in S THEN Append(g[i - 1], s[i]) ELSE g[i - 1]
  BY Zenon DEF Takes
<1>3. ASSUME NEW i \in 0..m
      PROVE  f[i] = IF i = 0 THEN <<>> ELSE IF s[i] \in S THEN Append(f[i - 1], s[i]) ELSE f[i - 1]
  <2>1. CASE i = 0
    <3>1. g[0] = <<>>
      BY <1>1, <1>2, Zenon
    <3> QED BY <1>1, <2>1, <3>1, Zenon
  <2>2. CASE i # 0 /\ i < m
    <3>1. i \in 0..(m - 1) /\ i - 1 \in 0..m /\ i - 1 < m
      BY <2>2
    <3>2. g[i] = IF s[i] \in S THEN Append(g[i - 1], s[i]) ELSE g[i - 1]
      BY <1>2, <2>2, <3>1, Zenon
    <3>3. f[i] = g[i] /\ f[i - 1] = g[i - 1]
      BY <2>2, <3>1, Zenon
    <3> HIDE DEF f
    <3> QED BY <2>2, <3>2, <3>3, Zenon
  <2>3. CASE i = m
    <3>1. ~(m < m) /\ m \in 0..m /\ m # 0
      OBVIOUS
    <3>2. f[m] = IF s[m] \in S THEN Append(g[m - 1], s[m]) ELSE g[m - 1]
      BY <3>1, Zenon
    <3>3. f[m - 1] = g[m - 1]
      BY <1>1, Zenon
    <3> HIDE DEF f
    <3> QED BY <2>3, <3>1, <3>2, <3>3, Zenon
  <2>4. i = 0 \/ (i # 0 /\ i < m) \/ i = m
    OBVIOUS
  <2> QED BY <2>1, <2>2, <2>3, <2>4, Zenon
<1>4. Takes(s, S, f, m)
  <2>1. f = [i \in 0..m |-> f[i]]
    OBVIOUS
  <2> HIDE DEF f
  <2> QED BY <1>3, <2>1, Zenon DEF Takes
<1> HIDE DEF f
<1> QED BY <1>4, Zenon

LEMMA AmongTakes ==
    ASSUME NEW s \in Seq(Messages), NEW S
    PROVE  \E f : Takes(s, S, f, Len(s)) /\ Among(s, S) = f[Len(s)]
<1> DEFINE bad == {n \in 0..Len(s) : ~\E f : Takes(s, S, f, n)}
<1>0. Len(s) \in Nat
  OBVIOUS
<1>1. bad = {}
  <2> SUFFICES ASSUME bad # {} PROVE FALSE
    OBVIOUS
  <2>1. bad \in SUBSET Nat
    BY <1>0
  <2>2. PICK m \in bad : \A k \in bad : m <= k
    <3> HIDE DEF bad
    <3> QED BY <2>1, Smallest, Zenon
  <2>3. m \in 0..Len(s) /\ ~\E f : Takes(s, S, f, m)
    BY <2>2, Zenon
  <2>4. m # 0
    <3>1. Takes(s, S, [i \in 0..0 |-> <<>>], 0)
      BY DEF Takes
    <3> QED BY <2>3, <3>1, Zenon
  <2>5. m \in Nat \ {0} /\ m - 1 \in 0..Len(s) /\ ~(m <= m - 1)
    BY <1>0, <2>3, <2>4
  <2>6. m - 1 \notin bad
    BY <2>2, <2>5, Zenon
  <2>7. \E g : Takes(s, S, g, m - 1)
    BY <2>5, <2>6, Zenon
  <2> QED BY <2>3, <2>5, <2>7, TakesOne, Zenon
<1>2. Len(s) \in 0..Len(s)
  BY <1>0
<1>3. \E f : Takes(s, S, f, Len(s))
  BY <1>1, <1>2, Zenon
<1> DEFINE taken == CHOOSE f : Takes(s, S, f, Len(s))
<1>4. Takes(s, S, taken, Len(s))
  BY <1>3, Zenon
<1>5. Among(s, S) = taken[Len(s)]
  BY Zenon DEF Among, Takes
<1> HIDE DEF taken
<1> QED BY <1>4, <1>5, Zenon

LEMMA AppendIs ==
    ASSUME NEW r \in Seq(Messages), NEW n \in Messages
    PROVE  /\ Append(r, n) \in Seq(Messages) /\ Len(Append(r, n)) = Len(r) + 1
           /\ Range(Append(r, n)) = Range(r) \cup {n}
<1> DEFINE t == Append(r, n)
<1>1. t \in Seq(Messages) /\ Len(t) = Len(r) + 1 /\ \A j \in 1..Len(r) : t[j] = r[j]
  OBVIOUS
<1>2. t[Len(r) + 1] = n /\ Len(r) \in Nat /\ DOMAIN t = 1..(Len(r) + 1) /\ DOMAIN r = 1..Len(r)
  OBVIOUS
<1> HIDE DEF t
<1>3. \A j \in 1..(Len(r) + 1) : j \in 1..Len(r) \/ j = Len(r) + 1
  BY <1>2
<1>4. Len(r) + 1 \in 1..(Len(r) + 1) /\ \A j \in 1..Len(r) : j \in 1..(Len(r) + 1)
  BY <1>2
<1>5. Range(t) = Range(r) \cup {n}
  BY <1>1, <1>2, <1>3, <1>4, Zenon DEF Range
<1> QED BY <1>1, <1>5, Zenon DEF t

\* What Among keeps of a list; it is shorter when the first message goes.
LEMMA AmongIs ==
    ASSUME NEW s \in Seq(Messages), NEW S
    PROVE  /\ Among(s, S) \in Seq(Messages) /\ Range(Among(s, S)) = Range(s) \cap S
           /\ Len(Among(s, S)) <= Len(s)
           /\ s # <<>> /\ s[1] \notin S => Len(Among(s, S)) <= Len(s) - 1
<1>1. PICK f : Takes(s, S, f, Len(s)) /\ Among(s, S) = f[Len(s)]
  BY AmongTakes, Zenon
<1>2. Len(s) \in Nat /\ DOMAIN s = 1..Len(s) /\ \A j \in 1..Len(s) : s[j] \in Messages
  OBVIOUS
<1>3. f[0] = <<>> /\ 0 \in 0..Len(s) /\ \A i \in 1..Len(s) : i \in 0..Len(s) /\ i # 0
  <2>1. 0 \in 0..Len(s) /\ \A i \in 1..Len(s) : i \in 0..Len(s) /\ i # 0
    BY <1>2
  <2> QED BY <1>1, <2>1, Zenon DEF Takes
<1>4. \A i \in 1..Len(s) : f[i] = IF s[i] \in S THEN Append(f[i - 1], s[i]) ELSE f[i - 1]
  BY <1>1, <1>3, Zenon DEF Takes
<1> DEFINE Upto(i) == {s[j] : j \in 1..i}
           Right(i) == /\ f[i] \in Seq(Messages) /\ Len(f[i]) <= i /\ Range(f[i]) = Upto(i) \cap S
                       /\ i # 0 /\ s[1] \notin S => Len(f[i]) <= i - 1
           bad == {i \in 0..Len(s) : ~Right(i)}
<1>5. Right(0)
  <2>1. <<>> \in Seq(Messages) /\ Len(<<>>) <= 0 /\ Range(<<>>) = {} /\ Upto(0) = {}
    BY DEF Range
  <2> QED BY <1>3, <2>1
<1>6. ASSUME NEW i \in 1..Len(s), Right(i - 1) PROVE Right(i)
  <2>1. Upto(i) = Upto(i - 1) \cup {s[i]}
    BY <1>2
  <2>2. f[i - 1] \in Seq(Messages) /\ Len(f[i - 1]) <= i - 1 /\ Range(f[i - 1]) = Upto(i - 1) \cap S
    BY <1>6, Zenon
  <2>3. i - 1 # 0 /\ s[1] \notin S => Len(f[i - 1]) <= i - 2
    BY <1>6
  <2>4. s[i] \in Messages /\ i \in Nat \ {0} /\ Len(f[i - 1]) \in Nat
    BY <1>2, <2>2
  <2> HIDE DEF Upto
  <2>5. CASE s[i] \in S
    <3>1. f[i] = Append(f[i - 1], s[i])
      BY <1>4, <2>5, Zenon
    <3>2. /\ f[i] \in Seq(Messages) /\ Len(f[i]) = Len(f[i - 1]) + 1
          /\ Range(f[i]) = Range(f[i - 1]) \cup {s[i]}
      BY <2>2, <2>4, <3>1, AppendIs, Zenon
    <3>3. Len(f[i]) <= i
      BY <2>2, <2>4, <3>2
    <3>4. s[1] \notin S => Len(f[i]) <= i - 1
      <4>1. CASE i - 1 = 0
        BY <2>4, <2>5, <4>1
      <4>2. CASE i - 1 # 0
        BY <2>3, <2>4, <3>2, <4>2
      <4> QED BY <4>1, <4>2, Zenon
    <3>5. Range(f[i]) = Upto(i) \cap S
      BY <2>1, <2>2, <2>5, <3>2, Zenon
    <3> QED BY <3>2, <3>3, <3>4, <3>5, Zenon
  <2>6. CASE s[i] \notin S
    <3>1. f[i] = f[i - 1]
      BY <1>4, <2>6, Zenon
    <3>2. Len(f[i]) <= i /\ Len(f[i]) <= i - 1
      BY <2>2, <2>4, <3>1
    <3>3. Range(f[i]) = Upto(i) \cap S
      BY <2>1, <2>2, <2>6, <3>1, Zenon
    <3> QED BY <2>2, <3>1, <3>2, <3>3, Zenon
  <2> QED BY <2>5, <2>6, Zenon
<1>7. bad = {}
  <2> SUFFICES ASSUME bad # {} PROVE FALSE
    BY Zenon
  <2> HIDE DEF Right
  <2>1. bad \in SUBSET Nat
    BY <1>2
  <2>2. PICK m \in bad : \A k \in bad : m <= k
    <3> HIDE DEF bad
    <3> QED BY <2>1, Smallest, Zenon
  <2>3. m \in 0..Len(s) /\ ~Right(m)
    BY <2>2, Zenon
  <2>4. m # 0
    BY <1>5, <2>3, Zenon
  <2>5. m \in 1..Len(s) /\ m - 1 \in 0..Len(s) /\ ~(m <= m - 1)
    BY <1>2, <2>3, <2>4
  <2>6. Right(m - 1)
    BY <2>2, <2>5, Zenon
  <2> QED BY <1>6, <2>3, <2>5, <2>6, Zenon
<1>8. Right(Len(s))
  <2> HIDE DEF Right
  <2>1. Len(s) \in 0..Len(s)
    BY <1>2
  <2> QED BY <1>7, <2>1, Zenon
<1>9. Upto(Len(s)) = Range(s)
  BY <1>2 DEF Range
<1>10. s # <<>> => Len(s) # 0
  OBVIOUS
<1> HIDE DEF Upto
<1> QED BY <1>1, <1>8, <1>9, <1>10, Zenon

-----------------------------------------------------------------------------
(* The counters: the invariant.                                              *)

ConnFields == {"known", "messages", "frames", "approved", "phase", "e2e", "timer", "late"}

PendingOf(h) == {m \in Messages : h.entries[m].status \in Pending}
ApprovedOf(h) == {m \in Messages : h.entries[m].status = "approved"}
FramesPending(h) == {f \in Messages \X Nat : f[1] \in PendingOf(h) /\ f[2] \in h.entries[f[1]].frames}
Own(c) == {m \in Messages : MsgConn[m] = c}
OwnFrames(c) == {f \in Messages \X Nat : MsgConn[f[1]] = c}

\* The frames of an entry are frames of its message, all of them once it is
\* complete.
EntryTrue(e, m) ==
    /\ e.status \in {"none", "collecting", "validating", "deferred", "approved"}
    /\ e.frames \subseteq FramesOf(m)
    /\ e.status = "none" => e.frames = {}
    /\ e.status \in {"validating", "deferred", "approved"} => e.frames = FramesOf(m)

\* The counters of a connection whose pending messages, pending frames and
\* approved messages are P, F and A.
ConnCounts(r, P, F, A) ==
    /\ DOMAIN r = ConnFields
    /\ r.messages = Cardinality(P) /\ r.frames = Cardinality(F) /\ r.approved = Cardinality(A)

\* Every counter of h is the number of what h has.
Counted(h) ==
    /\ \A m \in Messages : EntryTrue(h.entries[m], m)
    /\ IsFiniteSet(PendingOf(h)) /\ IsFiniteSet(FramesPending(h)) /\ IsFiniteSet(ApprovedOf(h))
    /\ h.pendingMessages = Cardinality(PendingOf(h)) /\ h.pendingFrames = Cardinality(FramesPending(h))
    /\ h.approved \in Seq(Messages) /\ Range(h.approved) = ApprovedOf(h)
    /\ DOMAIN h.conns = HoldConns
    /\ \A c \in HoldConns : ConnCounts(h.conns[c], PendingOf(h) \cap Own(c),
                                       FramesPending(h) \cap OwnFrames(c), ApprovedOf(h) \cap Own(c))

\* A pump that holds a live entry validates it, and is the only one.
LiveInv ==
    /\ \A p \in Pumps : pump[p].live =>
          pump[p].msg \in Messages /\ hb.entries[pump[p].msg].status = "validating"
    /\ \A p \in Pumps, q \in Pumps :
          pump[p].live /\ pump[q].live /\ pump[p].msg = pump[q].msg => p = q

CountInv == Counted(hb) /\ Len(hb.approved) <= MaxApproved /\ LiveInv

-----------------------------------------------------------------------------
(* The counters: what changes nothing that is counted.                       *)

\* g counts the same as h: the same entries are pending and approved, with the
\* same frames, and all counters are the same.
SameCounts(h, g) ==
    /\ \A m \in Messages : EntryTrue(g.entries[m], m)
    /\ PendingOf(g) = PendingOf(h) /\ ApprovedOf(g) = ApprovedOf(h)
    /\ FramesPending(g) = FramesPending(h)
    /\ g.pendingMessages = h.pendingMessages /\ g.pendingFrames = h.pendingFrames
    /\ g.approved = h.approved /\ DOMAIN g.conns = HoldConns
    /\ \A c \in HoldConns : /\ DOMAIN g.conns[c] = ConnFields
                            /\ g.conns[c].messages = h.conns[c].messages
                            /\ g.conns[c].frames = h.conns[c].frames
                            /\ g.conns[c].approved = h.conns[c].approved

LEMMA SameCounted ==
    ASSUME NEW h, NEW g, Counted(h), SameCounts(h, g)
    PROVE  Counted(g)
BY Zenon DEF Counted, SameCounts, ConnCounts

\* Entries that keep their frames, and are pending or approved as before.
Alike(e, f) ==
    /\ e.status \in Pending <=> f.status \in Pending
    /\ e.status = "approved" <=> f.status = "approved"
    /\ e.frames = f.frames

LEMMA AlikeSets ==
    ASSUME NEW h, NEW g, \A m \in Messages : Alike(g.entries[m], h.entries[m])
    PROVE  /\ PendingOf(g) = PendingOf(h) /\ ApprovedOf(g) = ApprovedOf(h)
           /\ FramesPending(g) = FramesPending(h)
<1>1. PendingOf(g) = PendingOf(h) /\ ApprovedOf(g) = ApprovedOf(h)
  BY Zenon DEF PendingOf, ApprovedOf, Alike
<1>2. \A f \in Messages \X Nat : f[1] \in Messages
  OBVIOUS
<1>3. FramesPending(g) = FramesPending(h)
  BY <1>1, <1>2, Zenon DEF FramesPending, Alike
<1> QED BY <1>1, <1>3, Zenon

\* A step that only touches one entry.
LEMMA EntryCounted ==
    ASSUME NEW h, HbOK(h), Counted(h), NEW m \in Messages, NEW e,
           Alike(e, h.entries[m]), EntryTrue(e, m)
    PROVE  Counted([h EXCEPT !.entries[m] = e])
<1> DEFINE g == [h EXCEPT !.entries[m] = e]
<1>1. /\ g.entries = [h.entries EXCEPT ![m] = e] /\ g.conns = h.conns /\ g.approved = h.approved
      /\ g.pendingMessages = h.pendingMessages /\ g.pendingFrames = h.pendingFrames
  BY DEF HbOK, HbFields
<1> HIDE DEF g
<1>2. \A k \in Messages : g.entries[k] = IF k = m THEN e ELSE h.entries[k]
  BY <1>1 DEF HbOK
<1>3. \A k \in Messages : Alike(g.entries[k], h.entries[k]) /\ EntryTrue(g.entries[k], k)
  <2>1. \A k \in Messages : EntryTrue(h.entries[k], k) /\ Alike(h.entries[k], h.entries[k])
    BY Zenon DEF Counted, Alike
  <2> QED BY <1>2, <2>1, Zenon
<1>4. SameCounts(h, g)
  <2>1. DOMAIN h.conns = HoldConns /\ \A c \in HoldConns : DOMAIN h.conns[c] = ConnFields
    BY Zenon DEF Counted, ConnCounts
  <2> QED BY <1>1, <1>3, <2>1, AlikeSets, Zenon DEF SameCounts
<1> QED BY <1>4, SameCounted, Zenon DEF g

\* A step that only touches one connection, and none of its counters.
LEMMA ConnCounted ==
    ASSUME NEW h, DOMAIN h = HbFields, Counted(h), NEW c \in HoldConns, NEW r, DOMAIN r = ConnFields,
           r.messages = h.conns[c].messages, r.frames = h.conns[c].frames,
           r.approved = h.conns[c].approved
    PROVE  Counted([h EXCEPT !.conns[c] = r])
<1> DEFINE g == [h EXCEPT !.conns[c] = r]
<1>1. /\ g.entries = h.entries /\ g.conns = [h.conns EXCEPT ![c] = r] /\ g.approved = h.approved
      /\ g.pendingMessages = h.pendingMessages /\ g.pendingFrames = h.pendingFrames
  BY DEF HbFields
<1> HIDE DEF g
<1>2. DOMAIN h.conns = HoldConns /\ \A d \in HoldConns : DOMAIN h.conns[d] = ConnFields
  BY Zenon DEF Counted, ConnCounts
<1>3. DOMAIN g.conns = HoldConns /\ \A d \in HoldConns : g.conns[d] = IF d = c THEN r ELSE h.conns[d]
  BY <1>1, <1>2
<1>4. \A m \in Messages : EntryTrue(g.entries[m], m) /\ Alike(g.entries[m], h.entries[m])
  BY <1>1, Zenon DEF Counted, Alike
<1>5. SameCounts(h, g)
  BY <1>1, <1>2, <1>3, <1>4, AlikeSets, Zenon DEF SameCounts
<1> QED BY <1>5, SameCounted, Zenon DEF g

\* A step that only touches the lock.
LEMMA LockCounted ==
    ASSUME NEW h, DOMAIN h = HbFields, Counted(h), NEW l, NEW u
    PROVE  Counted([h EXCEPT !.lock = l, !.users = u])
<1> DEFINE g == [h EXCEPT !.lock = l, !.users = u]
<1>1. /\ g.entries = h.entries /\ g.conns = h.conns /\ g.approved = h.approved
      /\ g.pendingMessages = h.pendingMessages /\ g.pendingFrames = h.pendingFrames
  BY DEF HbFields
<1> HIDE DEF g
<1>2. \A m \in Messages : EntryTrue(g.entries[m], m) /\ Alike(g.entries[m], h.entries[m])
  BY <1>1, Zenon DEF Counted, Alike
<1>3. DOMAIN h.conns = HoldConns /\ \A d \in HoldConns : DOMAIN h.conns[d] = ConnFields
  BY Zenon DEF Counted, ConnCounts
<1>4. SameCounts(h, g)
  BY <1>1, <1>2, <1>3, AlikeSets, Zenon DEF SameCounts
<1> QED BY <1>4, SameCounted, Zenon DEF g

-----------------------------------------------------------------------------
(* The counters: entries that leave the table.                               *)

LEMMA TakenOff ==
    ASSUME NEW S, IsFiniteSet(S), NEW T \in SUBSET S
    PROVE  /\ IsFiniteSet(S \ T) /\ Cardinality(S \ T) = Cardinality(S) - Cardinality(T)
           /\ IsFiniteSet(T)
<1>1. S \cap T = T
  OBVIOUS
<1> QED BY <1>1, FS_Difference, FS_Subset, Zenon

\* Of the members of S that are in O, those in T are gone.
OffBy(S, T, O) == Cardinality((S \ T) \cap O) = Cardinality(S \cap O) - Cardinality(T)

LEMMA OwnTakenOff ==
    ASSUME NEW S, IsFiniteSet(S), NEW O, NEW T \in SUBSET (S \cap O)
    PROVE  OffBy(S, T, O)
<1>1. (S \ T) \cap O = (S \cap O) \ T
  OBVIOUS
<1>2. IsFiniteSet(S \cap O)
  BY FS_Intersection, Zenon
<1> QED BY <1>1, <1>2, TakenOff, Zenon DEF OffBy

LEMMA ApartTakenOff ==
    ASSUME NEW S, NEW O, NEW T \in SUBSET (S \cap O), NEW X, X \cap O = {}
    PROVE  (S \ T) \cap X = S \cap X
BY Zenon

LEMMA IdleCounted ==
    ASSUME NEW h, DOMAIN h = HbFields, Counted(h), NEW c \in HoldConns
    PROVE  Counted(RemoveIdle(h, c)) /\ RemoveIdle(h, c).approved = h.approved
           /\ RemoveIdle(h, c).entries = h.entries
<1>1. CASE /\ h.conns[c].messages = 0 /\ h.conns[c].frames = 0
           /\ h.conns[c].approved = 0 /\ h.conns[c].phase = {}
  <2>1. RemoveIdle(h, c) = [h EXCEPT !.conns[c] = NoHeldConn]
    BY <1>1, Zenon DEF RemoveIdle
  <2>2. /\ DOMAIN NoHeldConn = ConnFields /\ NoHeldConn.messages = 0 /\ NoHeldConn.frames = 0
        /\ NoHeldConn.approved = 0
    BY DEF NoHeldConn, ConnFields
  <2>3. /\ NoHeldConn.messages = h.conns[c].messages /\ NoHeldConn.frames = h.conns[c].frames
        /\ NoHeldConn.approved = h.conns[c].approved
    BY <1>1, <2>2, Zenon
  <2>5. Counted([h EXCEPT !.conns[c] = NoHeldConn])
    BY <2>2, <2>3, ConnCounted, Zenon
  <2>4. RemoveIdle(h, c).approved = h.approved /\ RemoveIdle(h, c).entries = h.entries
    BY <2>1 DEF HbFields
  <2> QED BY <2>1, <2>4, <2>5, Zenon
<1>2. CASE ~(/\ h.conns[c].messages = 0 /\ h.conns[c].frames = 0
             /\ h.conns[c].approved = 0 /\ h.conns[c].phase = {})
  <2>1. RemoveIdle(h, c) = h
    BY <1>2, Zenon DEF RemoveIdle
  <2> QED BY <2>1, Zenon
<1> QED BY <1>1, <1>2, Zenon

\* g holds what h holds but for the messages of X.
LeftBy(h, g, X) ==
    /\ PendingOf(g) = PendingOf(h) \ {m \in X : h.entries[m].status \in Pending}
    /\ ApprovedOf(g) = ApprovedOf(h) \ {m \in X : h.entries[m].status = "approved"}
    /\ FramesPending(g) = {f \in FramesPending(h) : f[1] \notin X}

\* What g has left when the messages of X are gone from h.
LEMMA SetsLeft ==
    ASSUME NEW h, NEW g, NEW X \in SUBSET Messages,
           \A m \in Messages : g.entries[m] = IF m \in X THEN NoEntry ELSE h.entries[m]
    PROVE  LeftBy(h, g, X)
<1>1. NoEntry.status \notin Pending /\ NoEntry.status # "approved"
  BY DEF NoEntry, Pending
<1>2. \A f \in Messages \X Nat : f[1] \in Messages
  OBVIOUS
<1>3. PendingOf(g) = PendingOf(h) \ {m \in X : h.entries[m].status \in Pending}
  BY <1>1, Zenon DEF PendingOf
<1>4. ApprovedOf(g) = ApprovedOf(h) \ {m \in X : h.entries[m].status = "approved"}
  BY <1>1, Zenon DEF ApprovedOf
<1>5. \A m \in Messages : m \in PendingOf(g) <=> m \in PendingOf(h) /\ m \notin X
  BY <1>1, Zenon DEF PendingOf
<1>6. \A m \in Messages \ X : g.entries[m] = h.entries[m]
  BY Zenon
<1>7. \A f \in Messages \X Nat : f \in FramesPending(g) <=> f \in FramesPending(h) /\ f[1] \notin X
  BY <1>2, <1>5, <1>6, Zenon DEF FramesPending
<1>8. FramesPending(g) \subseteq Messages \X Nat /\ FramesPending(h) \subseteq Messages \X Nat
  BY Zenon DEF FramesPending
<1> QED BY <1>3, <1>4, <1>7, <1>8, Zenon DEF LeftBy

\* The frames of pending messages, as removeEntryLocked counts them.
LEMMA HeldIs ==
    ASSUME NEW h, Counted(h), NEW M \in SUBSET PendingOf(h)
    PROVE  FramesHeld(h, M) = {f \in FramesPending(h) : f[1] \in M}
<1>1. \A m \in Messages : h.entries[m].frames \subseteq Nat
  <2>1. \A m \in Messages : MsgFrames[m] \in Nat /\ h.entries[m].frames \subseteq FramesOf(m)
    BY HoldbackAssumption, Zenon DEF Counted, EntryTrue
  <2> QED BY <2>1 DEF FramesOf
<1>2. \A m \in M : m \in Messages
  BY Zenon DEF PendingOf
<1>3. ASSUME NEW f \in FramesHeld(h, M) PROVE f \in FramesPending(h) /\ f[1] \in M
  <2>1. PICK m \in M : f \in {m} \X h.entries[m].frames
    BY Zenon DEF FramesHeld
  <2>2. f = <<m, f[2]>> /\ f[1] = m /\ f[2] \in h.entries[m].frames
    BY <2>1
  <2>3. f \in Messages \X Nat
    BY <1>1, <1>2, <2>2
  <2> QED BY <2>2, <2>3, Zenon DEF FramesPending
<1>4. ASSUME NEW f \in FramesPending(h), f[1] \in M PROVE f \in FramesHeld(h, M)
  <2>1. f \in Messages \X Nat /\ f[2] \in h.entries[f[1]].frames
    BY Zenon DEF FramesPending
  <2>2. f \in {f[1]} \X h.entries[f[1]].frames
    BY <2>1
  <2> QED BY <1>4, <2>2, Zenon DEF FramesHeld
<1> QED BY <1>3, <1>4, Zenon

\* removeEntryLocked takes each message off every counter it is in.
LEMMA RemovedCounted ==
    ASSUME NEW h, HbOK(h), Counted(h), NEW c \in HoldConns, NEW M \in SUBSET Own(c)
    PROVE  /\ Counted(Removed(h, c, M)) /\ \A m \in M : Removed(h, c, M).entries[m].status = "none"
           /\ Len(Removed(h, c, M).approved) <= Len(h.approved)
           /\ h.approved # <<>> /\ h.approved[1] \in M =>
                  Len(Removed(h, c, M).approved) <= Len(h.approved) - 1
<1> DEFINE gone == {m \in M : h.entries[m].status # "none"}
           pend == {m \in gone : h.entries[m].status \in Pending}
           left == [m \in DOMAIN h.entries |-> IF m \in gone THEN NoEntry ELSE h.entries[m]]
           unused == (\A m \in Messages : left[m].status = "none") /\ h.lock # 0 /\ h.users[h.lock] = 0
           held == FramesHeld(h, pend)
           was == h.conns[c]
           conn == [was EXCEPT !.messages = was.messages - Cardinality(pend),
                               !.frames = was.frames - Cardinality(held),
                               !.approved = was.approved - Cardinality(gone \ pend)]
           list == Among(h.approved, Messages \ gone)
           a == [h EXCEPT
                   !.entries = left, !.lock = IF unused THEN 0 ELSE @,
                   !.pendingMessages = @ - Cardinality(pend),
                   !.pendingFrames = @ - Cardinality(held),
                   !.conns[c] = conn, !.approved = list]
           P == PendingOf(h)
           F == FramesPending(h)
           A == ApprovedOf(h)
<1>1. Removed(h, c, M) = IF gone = {} THEN h ELSE RemoveIdle(a, c)
  BY Zenon DEF Removed
<1>2. /\ DOMAIN a = HbFields /\ a.entries = left /\ a.approved = list
      /\ a.conns = [h.conns EXCEPT ![c] = conn]
      /\ a.pendingMessages = h.pendingMessages - Cardinality(pend)
      /\ a.pendingFrames = h.pendingFrames - Cardinality(held)
  <2> HIDE DEF left, unused, pend, held, conn, list
  <2> QED BY DEF HbOK, HbFields
<1>3. /\ h.approved \in Seq(Messages) /\ Range(h.approved) = A
      /\ IsFiniteSet(P) /\ IsFiniteSet(F) /\ IsFiniteSet(A)
      /\ h.pendingMessages = Cardinality(P) /\ h.pendingFrames = Cardinality(F)
      /\ \A m \in Messages : EntryTrue(h.entries[m], m)
  BY Zenon DEF Counted
<1>4. DOMAIN h.conns = HoldConns /\ \A d \in HoldConns :
          ConnCounts(h.conns[d], P \cap Own(d), F \cap OwnFrames(d), A \cap Own(d))
  BY Zenon DEF Counted
<1>5. \A m \in Messages : a.entries[m] = IF m \in gone THEN NoEntry ELSE h.entries[m]
  <2> HIDE DEF a, gone
  <2> QED BY <1>2 DEF HbOK
<1>6. gone \in SUBSET Messages /\ \A m \in gone : MsgConn[m] = c
  BY Zenon DEF Own
<1>7. /\ pend = {m \in gone : h.entries[m].status \in Pending} /\ pend \in SUBSET P
      /\ gone \ pend = {m \in gone : h.entries[m].status = "approved"}
  <2>1. \A m \in gone : h.entries[m].status \in Pending \cup {"approved"}
    BY <1>3, <1>6 DEF EntryTrue, Pending
  <2>2. "approved" \notin Pending
    BY DEF Pending
  <2> QED BY <1>6, <2>1, <2>2, Zenon DEF PendingOf
<1>8. held = {f \in F : f[1] \in pend}
  BY <1>7, HeldIs, Zenon
<1>9. {f \in F : f[1] \notin gone} = F \ held
  <2>1. \A f \in F : f[1] \in P
    BY Zenon DEF FramesPending
  <2>2. \A f \in F : f[1] \in gone <=> f[1] \in pend
    BY <2>1, Zenon DEF PendingOf
  <2> QED BY <1>8, <2>2, Zenon
<1> HIDE DEF a
<1>10. /\ PendingOf(a) = P \ pend /\ ApprovedOf(a) = A \ (gone \ pend)
       /\ FramesPending(a) = F \ held
  <2> HIDE DEF gone, pend, held, P, F, A
  <2>1. /\ PendingOf(a) = PendingOf(h) \ {m \in gone : h.entries[m].status \in Pending}
        /\ ApprovedOf(a) = ApprovedOf(h) \ {m \in gone : h.entries[m].status = "approved"}
        /\ FramesPending(a) = {f \in FramesPending(h) : f[1] \notin gone}
    <3>1. LeftBy(h, a, gone)
      BY <1>5, <1>6, SetsLeft, Zenon
    <3> QED BY <3>1, Zenon DEF LeftBy
  <2> QED BY <1>7, <1>9, <2>1, Zenon DEF P, F, A
<1>11. /\ gone \ pend \in SUBSET A /\ held \in SUBSET F
       /\ pend \subseteq Own(c) /\ gone \ pend \subseteq Own(c) /\ held \subseteq OwnFrames(c)
  <2>1. gone \ pend \in SUBSET A /\ held \in SUBSET F
    BY <1>6, <1>7, <1>8, Zenon DEF ApprovedOf
  <2>2. pend \subseteq Own(c) /\ gone \ pend \subseteq Own(c)
    BY Zenon
  <2>3. held \subseteq OwnFrames(c)
    <3>1. F \subseteq Messages \X Nat
      BY Zenon DEF FramesPending
    <3> QED BY <1>6, <1>8, <3>1, Zenon DEF OwnFrames
  <2> QED BY <2>1, <2>2, <2>3, Zenon
<1>20. /\ pend \in SUBSET (P \cap Own(c)) /\ held \in SUBSET (F \cap OwnFrames(c))
       /\ gone \ pend \in SUBSET (A \cap Own(c))
  <2> HIDE DEF gone, pend, held, P, F, A
  <2> QED BY <1>7, <1>11, Zenon
<1>12. \A m \in Messages : EntryTrue(a.entries[m], m)
  <2>1. \A m \in Messages : EntryTrue(NoEntry, m)
    BY DEF EntryTrue, NoEntry
  <2> QED BY <1>3, <1>5, <2>1, Zenon
<1>13. list \in Seq(Messages) /\ Range(list) = A \ (gone \ pend) /\ Len(list) <= Len(h.approved)
  <2>1. A \cap (Messages \ gone) = A \ (gone \ pend)
    BY <1>7, Zenon DEF ApprovedOf
  <2> HIDE DEF gone, pend
  <2> QED BY <1>3, <2>1, AmongIs, Zenon
<1>14. h.approved # <<>> /\ h.approved[1] \in M => h.approved[1] \in gone
  <2> SUFFICES ASSUME h.approved # <<>> PROVE h.approved[1] \in A
    <3>1. \A m \in A : h.entries[m].status # "none"
      BY DEF ApprovedOf
    <3> QED BY <3>1, Zenon
  <2>1. 1 \in DOMAIN h.approved
    BY <1>3
  <2> QED BY <1>3, <2>1, Zenon DEF Range
<1>15. h.approved # <<>> /\ h.approved[1] \in M => Len(list) <= Len(h.approved) - 1
  BY <1>3, <1>14, AmongIs, Zenon
<1> HIDE DEF gone, pend, held, list, left
<1>16. Counted(a)
  <2>1. /\ IsFiniteSet(P \ pend) /\ IsFiniteSet(F \ held) /\ IsFiniteSet(A \ (gone \ pend))
        /\ Cardinality(P \ pend) = Cardinality(P) - Cardinality(pend)
        /\ Cardinality(F \ held) = Cardinality(F) - Cardinality(held)
    BY <1>3, <1>7, <1>11, TakenOff, Zenon
  <2>2. DOMAIN a.conns = HoldConns /\ \A d \in HoldConns : a.conns[d] = IF d = c THEN conn ELSE h.conns[d]
    <3> HIDE DEF conn
    <3> QED BY <1>2, <1>4
  <2>3. ConnCounts(conn, (P \ pend) \cap Own(c), (F \ held) \cap OwnFrames(c), (A \ (gone \ pend)) \cap Own(c))
    <3> HIDE DEF P, F, A
    <3>1. OffBy(P, pend, Own(c)) /\ OffBy(F, held, OwnFrames(c)) /\ OffBy(A, gone \ pend, Own(c))
      BY <1>3, <1>20, OwnTakenOff, Zenon
    <3>2. DOMAIN was = ConnFields /\ was.messages = Cardinality(P \cap Own(c))
          /\ was.frames = Cardinality(F \cap OwnFrames(c)) /\ was.approved = Cardinality(A \cap Own(c))
      BY <1>4, Zenon DEF ConnCounts
    <3> HIDE DEF was
    <3>3. /\ DOMAIN conn = ConnFields /\ conn.messages = was.messages - Cardinality(pend)
          /\ conn.frames = was.frames - Cardinality(held)
          /\ conn.approved = was.approved - Cardinality(gone \ pend)
      BY <3>2 DEF ConnFields
    <3> HIDE DEF conn
    <3> QED BY <3>1, <3>2, <3>3, Zenon DEF ConnCounts, OffBy
  <2>4. ASSUME NEW d \in HoldConns, d # c
        PROVE  ConnCounts(h.conns[d], (P \ pend) \cap Own(d), (F \ held) \cap OwnFrames(d),
                          (A \ (gone \ pend)) \cap Own(d))
    <3>1. Own(d) \cap Own(c) = {} /\ OwnFrames(d) \cap OwnFrames(c) = {}
      BY <2>4, Zenon DEF Own, OwnFrames
    <3>2. /\ (P \ pend) \cap Own(d) = P \cap Own(d) /\ (F \ held) \cap OwnFrames(d) = F \cap OwnFrames(d)
          /\ (A \ (gone \ pend)) \cap Own(d) = A \cap Own(d)
      BY <1>20, <3>1, ApartTakenOff, Zenon
    <3> QED BY <1>4, <3>2, Zenon
  <2> HIDE DEF conn
  <2>5. \A d \in HoldConns : ConnCounts(a.conns[d], PendingOf(a) \cap Own(d),
                                        FramesPending(a) \cap OwnFrames(d), ApprovedOf(a) \cap Own(d))
    BY <1>10, <2>2, <2>3, <2>4, Zenon
  <2> HIDE DEF P, F, A
  <2> QED BY <1>2, <1>3, <1>10, <1>12, <1>13, <2>1, <2>2, <2>5, Zenon DEF Counted
<1>17. /\ Counted(RemoveIdle(a, c)) /\ RemoveIdle(a, c).approved = list
       /\ RemoveIdle(a, c).entries = a.entries
  BY <1>2, <1>16, IdleCounted, Zenon
<1>18. CASE gone = {}
  <2>1. \A m \in M : h.entries[m].status = "none"
    BY <1>18, Zenon DEF gone
  <2>2. Len(h.approved) <= Len(h.approved)
    BY <1>3
  <2> QED BY <1>1, <1>14, <1>18, <2>1, <2>2, Zenon
<1>19. CASE gone # {}
  <2>1. NoEntry.status = "none"
    BY DEF NoEntry
  <2>2. \A m \in M : m \in Messages /\ (m \notin gone => h.entries[m].status = "none")
    BY Zenon DEF gone, Own
  <2>3. \A m \in M : a.entries[m].status = "none"
    BY <1>5, <2>1, <2>2, Zenon
  <2> QED BY <1>1, <1>13, <1>15, <1>17, <1>19, <2>3, Zenon
<1> QED BY <1>18, <1>19, Zenon

LEMMA RemoveEntryCounted ==
    ASSUME NEW h, HbOK(h), Counted(h), NEW m \in Messages
    PROVE  /\ Counted(RemoveEntryLocked(h, m)) /\ HbOK(RemoveEntryLocked(h, m))
           /\ Len(RemoveEntryLocked(h, m).approved) <= Len(h.approved)
           /\ h.approved # <<>> /\ h.approved[1] = m =>
                  Len(RemoveEntryLocked(h, m).approved) <= Len(h.approved) - 1
<1>1. MsgConn[m] \in HoldConns /\ {m} \in SUBSET Own(MsgConn[m])
  BY HoldbackAssumption DEF Own
<1>2. RemoveEntryLocked(h, m) = Removed(h, MsgConn[m], {m})
  BY Zenon DEF RemoveEntryLocked
<1>3. HbOK(RemoveEntryLocked(h, m))
  BY RemoveEntryLost, Zenon DEF Lost
<1> QED BY <1>1, <1>2, <1>3, RemovedCounted, Zenon

\* A connection whose entries are gone counts nothing.
LEMMA EmptyConn ==
    ASSUME NEW h, Counted(h), NEW c \in HoldConns, \A m \in Own(c) : h.entries[m].status = "none"
    PROVE  h.conns[c].messages = 0 /\ h.conns[c].frames = 0 /\ h.conns[c].approved = 0
<1>1. PendingOf(h) \cap Own(c) = {} /\ ApprovedOf(h) \cap Own(c) = {}
  BY DEF PendingOf, ApprovedOf, Pending
<1>2. FramesPending(h) \cap OwnFrames(c) = {}
  <2>1. \A f \in FramesPending(h) : f[1] \in PendingOf(h) /\ f[1] \in Messages
    BY Zenon DEF FramesPending, PendingOf
  <2> QED BY <1>1, <2>1, Zenon DEF OwnFrames, Own
<1> QED BY <1>1, <1>2, FS_EmptySet, Zenon DEF Counted, ConnCounts

LEMMA RemoveAllCounted ==
    ASSUME NEW h, HbOK(h), Counted(h), NEW c \in HoldConns
    PROVE  /\ Counted(RemoveAll(h, c)) /\ HbOK(RemoveAll(h, c))
           /\ Len(RemoveAll(h, c).approved) <= Len(h.approved)
           /\ RemoveAll(h, c).conns[c].messages = 0 /\ RemoveAll(h, c).conns[c].frames = 0
           /\ RemoveAll(h, c).conns[c].approved = 0
<1>1. RemoveAll(h, c) = Removed(h, c, Own(c)) /\ Own(c) \in SUBSET Own(c)
  BY Zenon DEF RemoveAll, Own
<1>2. HbOK(RemoveAll(h, c))
  BY RemoveAllLost, Zenon DEF Lost
<1>3. /\ Counted(RemoveAll(h, c)) /\ \A m \in Own(c) : RemoveAll(h, c).entries[m].status = "none"
      /\ Len(RemoveAll(h, c).approved) <= Len(h.approved)
  <2>1. /\ Counted(Removed(h, c, Own(c))) /\ Len(Removed(h, c, Own(c)).approved) <= Len(h.approved)
        /\ \A m \in Own(c) : Removed(h, c, Own(c)).entries[m].status = "none"
    BY <1>1, RemovedCounted
  <2> QED BY <1>1, <2>1, Zenon
<1> QED BY <1>2, <1>3, EmptyConn, Zenon

\* forgetConnection and resetConnection.
LEMMA ConnGone ==
    ASSUME NEW h, HbOK(h), Counted(h), NEW c \in HoldConns
    PROVE  /\ Counted(ForgetConnection(h, c)) /\ Counted(Reset(h, c))
           /\ Len(ForgetConnection(h, c).approved) <= Len(h.approved)
           /\ Len(Reset(h, c).approved) <= Len(h.approved)
<1> DEFINE g == RemoveAll(h, c)
           a == [g EXCEPT !.conns[c] = NoHeldConn]
           r == [g.conns[c] EXCEPT !.timer = TRUE, !.late = FALSE]
           b == [g EXCEPT !.conns[c] = r]
<1>1. /\ Counted(g) /\ DOMAIN g = HbFields /\ Len(g.approved) <= Len(h.approved)
      /\ g.conns[c].messages = 0 /\ g.conns[c].frames = 0 /\ g.conns[c].approved = 0
  BY RemoveAllCounted, Zenon DEF HbOK
<1> HIDE DEF g
<1>2. DOMAIN g.conns = HoldConns /\ DOMAIN g.conns[c] = ConnFields
  BY <1>1, Zenon DEF Counted, ConnCounts
<1>3. ForgetConnection(h, c) = a /\ (Reset(h, c) = a \/ Reset(h, c) = b)
  <2>1. ForgetConnection(h, c) = a
    BY Zenon DEF ForgetConnection, g
  <2>2. [g EXCEPT !.conns[c].timer = TRUE, !.conns[c].late = FALSE] = b
    BY <1>1, <1>2, Zenon DEF HbFields, ConnFields
  <2>3. Reset(h, c) = a \/ Reset(h, c) = [g EXCEPT !.conns[c].timer = TRUE, !.conns[c].late = FALSE]
    BY Zenon DEF Reset, g
  <2> QED BY <2>1, <2>2, <2>3, Zenon
<1>4. a.approved = g.approved /\ b.approved = g.approved
  <2> HIDE DEF r
  <2> QED BY <1>1 DEF HbFields
<1>5. Counted(a)
  <2>1. /\ DOMAIN NoHeldConn = ConnFields /\ NoHeldConn.messages = 0 /\ NoHeldConn.frames = 0
        /\ NoHeldConn.approved = 0
    BY DEF NoHeldConn, ConnFields
  <2>2. /\ NoHeldConn.messages = g.conns[c].messages /\ NoHeldConn.frames = g.conns[c].frames
        /\ NoHeldConn.approved = g.conns[c].approved
    BY <1>1, <2>1, Zenon
  <2> QED BY <1>1, <2>1, <2>2, ConnCounted, Zenon
<1>6. Counted(b)
  <2>1. /\ DOMAIN r = ConnFields /\ r.messages = g.conns[c].messages /\ r.frames = g.conns[c].frames
        /\ r.approved = g.conns[c].approved
    BY <1>2 DEF ConnFields
  <2> HIDE DEF r
  <2> QED BY <1>1, <2>1, ConnCounted, Zenon
<1> HIDE DEF a, b
<1> QED BY <1>1, <1>3, <1>4, <1>5, <1>6, Zenon

\* evictApprovedLocked brings a list that is one too long back to its limit.
LEMMA EvictCounted ==
    ASSUME NEW h, HbOK(h), Counted(h), NEW c \in HoldConns, Len(h.approved) <= MaxApproved + 1
    PROVE  Counted(EvictApproved(h, c)) /\ Len(EvictApproved(h, c).approved) <= MaxApproved
<1> DEFINE g == IF Len(h.approved) > MaxApproved THEN RemoveEntryLocked(h, Head(h.approved)) ELSE h
           own == Among(g.approved, {x \in Messages : MsgConn[x] = c})
<1>1. EvictApproved(h, c) = IF g.conns[c].approved > MaxConnectionApproved
                            THEN RemoveEntryLocked(g, Head(own)) ELSE g
  BY Zenon DEF EvictApproved
<1>2. MaxApproved \in Nat /\ MaxConnectionApproved \in Nat /\ h.approved \in Seq(Messages)
  BY HoldbackAssumption, Zenon DEF Counted
<1>6. \A s \in Seq(Messages) : Len(s) \in Nat
  OBVIOUS
<1>3. Counted(g) /\ HbOK(g) /\ Len(g.approved) <= MaxApproved
  <2>1. CASE Len(h.approved) > MaxApproved
    <3>1. /\ h.approved # <<>> /\ Head(h.approved) = h.approved[1] /\ Head(h.approved) \in Messages
          /\ Len(h.approved) \in Nat
      BY <1>2, <2>1
    <3>2. Counted(g) /\ HbOK(g) /\ Len(g.approved) <= Len(h.approved) - 1
      BY <2>1, <3>1, RemoveEntryCounted, Zenon
    <3> HIDE DEF g
    <3>3. Len(g.approved) \in Nat
      BY <1>6, <3>2, Zenon DEF Counted
    <3> QED BY <1>2, <3>1, <3>2, <3>3
  <2>2. CASE ~(Len(h.approved) > MaxApproved)
    <3>1. Len(h.approved) <= MaxApproved
      BY <1>2, <2>2
    <3> QED BY <2>2, <3>1, Zenon
  <2> QED BY <2>1, <2>2, Zenon
<1> HIDE DEF g
<1>4. CASE g.conns[c].approved > MaxConnectionApproved
  <2>1. g.approved \in Seq(Messages) /\ Range(g.approved) = ApprovedOf(g) /\ IsFiniteSet(ApprovedOf(g))
        /\ g.conns[c].approved = Cardinality(ApprovedOf(g) \cap Own(c))
    BY <1>3, Zenon DEF Counted, ConnCounts
  <2>2. ApprovedOf(g) \cap Own(c) # {}
    <3>1. Cardinality({}) = 0 /\ ~(0 > MaxConnectionApproved)
      BY <1>2, FS_EmptySet
    <3> QED BY <1>4, <2>1, <3>1, Zenon
  <2>3. own \in Seq(Messages) /\ Range(own) = ApprovedOf(g) \cap Own(c)
    BY <2>1, AmongIs, Zenon DEF Own
  <2> HIDE DEF own
  <2>4. own # <<>>
    <3>1. Range(<<>>) = {}
      BY DEF Range
    <3> QED BY <2>2, <2>3, <3>1, Zenon
  <2>5. Head(own) \in Messages
    BY <2>3, <2>4
  <2>6. /\ Counted(RemoveEntryLocked(g, Head(own)))
        /\ Len(RemoveEntryLocked(g, Head(own)).approved) <= Len(g.approved)
    BY <1>3, <2>5, RemoveEntryCounted, Zenon
  <2> DEFINE f == RemoveEntryLocked(g, Head(own))
  <2> HIDE DEF f
  <2>7. Len(f.approved) \in Nat /\ Len(g.approved) \in Nat
    BY <1>6, <2>1, <2>6, Zenon DEF Counted, f
  <2>8. Len(f.approved) <= MaxApproved
    BY <1>2, <1>3, <2>6, <2>7 DEF f
  <2> QED BY <1>1, <1>4, <2>6, <2>8, Zenon DEF f
<1>5. CASE ~(g.conns[c].approved > MaxConnectionApproved)
  BY <1>1, <1>3, <1>5, Zenon
<1> QED BY <1>4, <1>5, Zenon

-----------------------------------------------------------------------------
(* The counters: entries that come in and change their counter.              *)

\* Among the members of S that are in O there are n more, with x.
OnBy(S, x, O, n) == Cardinality((S \cup {x}) \cap O) = Cardinality(S \cap O) + n

LEMMA OwnAdded ==
    ASSUME NEW S, IsFiniteSet(S), NEW O, NEW x \in O
    PROVE  /\ x \notin S => OnBy(S, x, O, 1)
           /\ x \in S => OnBy(S, x, O, 0)
<1>1. (S \cup {x}) \cap O = (S \cap O) \cup {x} /\ IsFiniteSet(S \cap O)
  BY FS_Intersection
<1>2. /\ x \notin S \cap O => Cardinality((S \cap O) \cup {x}) = Cardinality(S \cap O) + 1
      /\ x \in S \cap O => Cardinality((S \cap O) \cup {x}) = Cardinality(S \cap O)
  BY <1>1, FS_AddElement, Zenon
<1>3. Cardinality(S \cap O) + 0 = Cardinality(S \cap O)
  BY <1>1, FS_CardinalityType
<1> QED BY <1>1, <1>2, <1>3, Zenon DEF OnBy

LEMMA ApartAdded ==
    ASSUME NEW S, NEW O, NEW x \in O, NEW X, X \cap O = {}
    PROVE  (S \cup {x}) \cap X = S \cap X
BY Zenon

\* add: one more frame, and one more message if it is the first of it.
LEMMA StoredCounted ==
    ASSUME NEW h, HbOK(h), Counted(h), NEW m \in Messages, NEW s \in FramesOf(m),
           s \notin h.entries[m].frames
    PROVE  /\ Counted(Stored(h, m, s)) /\ Stored(h, m, s).approved = h.approved
           /\ h.entries[m].status \in {"none", "collecting"}
           /\ Stored(h, m, s).entries[m].status \in Pending
           /\ \A k \in Messages : k # m => Stored(h, m, s).entries[k] = h.entries[k]
<1> DEFINE e == h.entries[m]
           c == MsgConn[m]
           fresh == IF e.status = "none" THEN 1 ELSE 0
           done == e.frames \cup {s} = FramesOf(m)
           kept == [Scheduled(e) EXCEPT !.frames = e.frames \cup {s},
                                        !.status = IF done THEN "validating" ELSE "collecting"]
           new == IF done THEN Stopped(kept) ELSE kept
           was == h.conns[c]
           conn == [was EXCEPT !.known = TRUE, !.timer = FALSE,
                               !.messages = was.messages + fresh, !.frames = was.frames + 1]
           g == [h EXCEPT !.entries[m] = new, !.conns[c] = conn,
                          !.pendingMessages = @ + fresh, !.pendingFrames = @ + 1]
           P == PendingOf(h)
           F == FramesPending(h)
           A == ApprovedOf(h)
<1>1. Stored(h, m, s) = g
  BY Zenon DEF Stored
<1>2. /\ g.entries = [h.entries EXCEPT ![m] = new] /\ g.conns = [h.conns EXCEPT ![c] = conn]
      /\ g.approved = h.approved /\ g.pendingMessages = h.pendingMessages + fresh
      /\ g.pendingFrames = h.pendingFrames + 1
  <2> HIDE DEF new, conn, fresh
  <2> QED BY DEF HbOK, HbFields
<1>3. /\ h.approved \in Seq(Messages) /\ Range(h.approved) = A
      /\ IsFiniteSet(P) /\ IsFiniteSet(F) /\ IsFiniteSet(A)
      /\ h.pendingMessages = Cardinality(P) /\ h.pendingFrames = Cardinality(F)
      /\ \A k \in Messages : EntryTrue(h.entries[k], k)
  BY Zenon DEF Counted
<1>4. DOMAIN h.conns = HoldConns /\ \A d \in HoldConns :
          ConnCounts(h.conns[d], P \cap Own(d), F \cap OwnFrames(d), A \cap Own(d))
  BY Zenon DEF Counted
<1>5. e.status \in {"none", "collecting"} /\ e.frames \subseteq FramesOf(m) /\ DOMAIN e = EntryFields
  BY <1>3 DEF EntryTrue, HbOK
<1>6. new.frames = e.frames \cup {s} /\ new.status = IF done THEN "validating" ELSE "collecting"
  BY <1>5 DEF Scheduled, Stopped, EntryFields
<1>7. new.status \in Pending /\ EntryTrue(new, m)
  <2> HIDE DEF e, new
  <2> QED BY <1>5, <1>6 DEF Pending, EntryTrue
<1> HIDE DEF new, g
<1>8. \A k \in Messages : g.entries[k] = IF k = m THEN new ELSE h.entries[k]
  BY <1>2 DEF HbOK
<1>9. c \in HoldConns /\ m \in Own(c) /\ MsgFrames[m] \in Nat
  BY HoldbackAssumption DEF Own
<1>10. s \in Nat /\ <<m, s>> \in Messages \X Nat
  BY <1>9 DEF FramesOf
<1>11. /\ \A k \in Messages : EntryTrue(g.entries[k], k)
       /\ PendingOf(g) = P \cup {m} /\ ApprovedOf(g) = A
  <2>1. \A k \in Messages : EntryTrue(g.entries[k], k)
    BY <1>3, <1>7, <1>8, Zenon
  <2>2. PendingOf(g) = P \cup {m}
    BY <1>7, <1>8, Zenon DEF PendingOf
  <2>3. "none" # "approved" /\ "collecting" # "approved" /\ "approved" \notin Pending
    BY DEF Pending
  <2>4. e.status # "approved" /\ new.status # "approved"
    BY <1>5, <1>7, <2>3, Zenon
  <2>5. ApprovedOf(g) = A
    BY <1>8, <2>4, Zenon DEF ApprovedOf
  <2> QED BY <2>1, <2>2, <2>5, Zenon
<1>12. FramesPending(g) = F \cup {<<m, s>>} /\ <<m, s>> \notin F
  <2>1. \A f \in Messages \X Nat : f \in FramesPending(g) <=> f \in F \/ f = <<m, s>>
    <3> SUFFICES ASSUME NEW f \in Messages \X Nat
                 PROVE  f \in FramesPending(g) <=> f \in F \/ f = <<m, s>>
      OBVIOUS
    <3>1. f[1] \in Messages /\ (f = <<m, s>> <=> f[1] = m /\ f[2] = s)
      OBVIOUS
    <3>2. CASE f[1] # m
      BY <1>8, <1>11, <3>1, <3>2, Zenon DEF FramesPending
    <3>3. CASE f[1] = m
      <4>1. m \notin P => e.frames = {}
        BY <1>3, <1>5 DEF EntryTrue, PendingOf, Pending
      <4>2. f \in F <=> f[2] \in e.frames
        BY <3>3, <4>1, Zenon DEF FramesPending
      <4>3. f \in FramesPending(g) <=> f[2] \in e.frames \cup {s}
        BY <1>6, <1>8, <1>11, <3>3, Zenon DEF FramesPending
      <4> QED BY <3>1, <3>3, <4>2, <4>3, Zenon
    <3> QED BY <3>2, <3>3, Zenon
  <2>2. FramesPending(g) \subseteq Messages \X Nat /\ F \subseteq Messages \X Nat
    BY Zenon DEF FramesPending
  <2>3. <<m, s>> \notin F
    <3>1. <<m, s>>[1] = m /\ <<m, s>>[2] = s
      OBVIOUS
    <3> QED BY <3>1, Zenon DEF FramesPending
  <2> QED BY <1>10, <2>1, <2>2, <2>3, Zenon
<1>13. m \in P <=> e.status # "none"
  BY <1>5 DEF PendingOf, Pending
<1>14. <<m, s>> \in OwnFrames(c)
  <2>1. <<m, s>>[1] = m
    OBVIOUS
  <2> QED BY <1>10, <2>1, Zenon DEF OwnFrames
<1>15. /\ IsFiniteSet(P \cup {m}) /\ Cardinality(P \cup {m}) = Cardinality(P) + fresh
       /\ IsFiniteSet(F \cup {<<m, s>>}) /\ Cardinality(F \cup {<<m, s>>}) = Cardinality(F) + 1
  <2>1. /\ IsFiniteSet(P \cup {m})
        /\ Cardinality(P \cup {m}) = IF m \in P THEN Cardinality(P) ELSE Cardinality(P) + 1
    BY <1>3, FS_AddElement, Zenon
  <2>2. IsFiniteSet(F \cup {<<m, s>>}) /\ Cardinality(F \cup {<<m, s>>}) = Cardinality(F) + 1
    BY <1>3, <1>12, FS_AddElement, Zenon
  <2>3. Cardinality(P) + 0 = Cardinality(P)
    BY <1>3, FS_CardinalityType
  <2> HIDE DEF P, F, e
  <2> QED BY <1>13, <2>1, <2>2, <2>3, Zenon
<1>16. /\ DOMAIN was = ConnFields /\ was.messages = Cardinality(P \cap Own(c))
       /\ was.frames = Cardinality(F \cap OwnFrames(c)) /\ was.approved = Cardinality(A \cap Own(c))
  BY <1>4, <1>9, Zenon DEF ConnCounts
<1>17. /\ DOMAIN conn = ConnFields /\ conn.messages = was.messages + fresh
       /\ conn.frames = was.frames + 1 /\ conn.approved = was.approved
  <2> HIDE DEF was, fresh
  <2> QED BY <1>16 DEF ConnFields
<1>18. OnBy(P, m, Own(c), fresh) /\ OnBy(F, <<m, s>>, OwnFrames(c), 1)
  <2> HIDE DEF P, F, e
  <2>1. (m \notin P => OnBy(P, m, Own(c), 1)) /\ (m \in P => OnBy(P, m, Own(c), 0))
    BY <1>3, <1>9, OwnAdded, Zenon
  <2>2. OnBy(F, <<m, s>>, OwnFrames(c), 1)
    BY <1>3, <1>12, <1>14, OwnAdded, Zenon
  <2> QED BY <1>13, <2>1, <2>2, Zenon
<1> HIDE DEF conn, was, fresh, P, F, A
<1>19. ConnCounts(conn, (P \cup {m}) \cap Own(c), (F \cup {<<m, s>>}) \cap OwnFrames(c), A \cap Own(c))
  BY <1>16, <1>17, <1>18, Zenon DEF ConnCounts, OnBy
<1>20. ASSUME NEW d \in HoldConns, d # c
       PROVE  ConnCounts(h.conns[d], (P \cup {m}) \cap Own(d), (F \cup {<<m, s>>}) \cap OwnFrames(d),
                         A \cap Own(d))
  <2>1. Own(d) \cap Own(c) = {} /\ OwnFrames(d) \cap OwnFrames(c) = {}
    BY <1>20, Zenon DEF Own, OwnFrames
  <2>2. /\ (P \cup {m}) \cap Own(d) = P \cap Own(d)
        /\ (F \cup {<<m, s>>}) \cap OwnFrames(d) = F \cap OwnFrames(d)
    BY <1>9, <1>14, <2>1, ApartAdded, Zenon
  <2> QED BY <1>4, <2>2, Zenon
<1>21. DOMAIN g.conns = HoldConns /\ \A d \in HoldConns : g.conns[d] = IF d = c THEN conn ELSE h.conns[d]
  BY <1>2, <1>4, <1>9
<1>22. \A d \in HoldConns : ConnCounts(g.conns[d], PendingOf(g) \cap Own(d),
                                       FramesPending(g) \cap OwnFrames(d), ApprovedOf(g) \cap Own(d))
  BY <1>11, <1>12, <1>19, <1>20, <1>21, Zenon
<1>23. Counted(g)
  BY <1>2, <1>3, <1>11, <1>12, <1>15, <1>21, <1>22, Zenon DEF Counted
<1> QED BY <1>1, <1>2, <1>5, <1>7, <1>8, <1>23, Zenon

\* approve: a message and its frames are no longer pending, the message is
\* approved, and the oldest approved ones may have to go.
LEMMA ApprovedCounted ==
    ASSUME NEW h, HbOK(h), Counted(h), NEW m \in Messages, h.entries[m].status = "validating",
           Len(h.approved) <= MaxApproved
    PROVE  Counted(Approved(h, m)) /\ Len(Approved(h, m).approved) <= MaxApproved
<1> DEFINE c == MsgConn[m]
           n == Cardinality(h.entries[m].frames)
           entry == [h.entries[m] EXCEPT !.status = "approved", !.why = "none"]
           went == CASE MsgKind[m] = "noise" -> {m}
                     [] MsgKind[m] = "keepalive" -> {}
                     [] OTHER -> {MsgKind[m]}
           was == h.conns[c]
           conn == [was EXCEPT
                      !.messages = was.messages - 1, !.frames = was.frames - n,
                      !.approved = was.approved + 1, !.phase = was.phase \cup went,
                      !.e2e = IF MsgKind[m] \in {"info", "data"} THEN MsgE2E[m] ELSE was.e2e]
           list == Append(h.approved, m)
           a == [h EXCEPT
                  !.entries[m] = entry, !.conns[c] = conn,
                  !.pendingMessages = @ - 1, !.pendingFrames = @ - n, !.approved = list]
           g == EvictApproved(a, c)
           P == PendingOf(h)
           F == FramesPending(h)
           A == ApprovedOf(h)
           held == {m} \X h.entries[m].frames
<1>1. Approved(h, m) = IF g.entries[m].status = "approved"
                       THEN [g EXCEPT !.entries[m] = Scheduled(g.entries[m])] ELSE g
  BY Zenon DEF Approved
<1>2. /\ DOMAIN a = HbFields /\ a.lock = h.lock /\ a.users = h.users
      /\ a.entries = [h.entries EXCEPT ![m] = entry] /\ a.conns = [h.conns EXCEPT ![c] = conn]
      /\ a.approved = list /\ a.pendingMessages = h.pendingMessages - 1
      /\ a.pendingFrames = h.pendingFrames - n
  <2> HIDE DEF entry, conn, n, list
  <2> QED BY DEF HbOK, HbFields
<1>3. /\ h.approved \in Seq(Messages) /\ Range(h.approved) = A
      /\ IsFiniteSet(P) /\ IsFiniteSet(F) /\ IsFiniteSet(A)
      /\ h.pendingMessages = Cardinality(P) /\ h.pendingFrames = Cardinality(F)
      /\ \A k \in Messages : EntryTrue(h.entries[k], k)
  BY Zenon DEF Counted
<1>4. DOMAIN h.conns = HoldConns /\ \A d \in HoldConns :
          ConnCounts(h.conns[d], P \cap Own(d), F \cap OwnFrames(d), A \cap Own(d))
  BY Zenon DEF Counted
<1>5. c \in HoldConns /\ m \in Own(c) /\ MsgFrames[m] \in Nat
  BY HoldbackAssumption DEF Own
<1>6. h.entries[m].frames = FramesOf(m) /\ m \in P /\ m \notin A
  BY <1>3 DEF EntryTrue, PendingOf, ApprovedOf, Pending
<1>7. IsFiniteSet(h.entries[m].frames) /\ n \in Nat
  <2>1. 0 \in Int /\ MsgFrames[m] - 1 \in Int
    BY <1>5
  <2>2. IsFiniteSet(0..(MsgFrames[m] - 1))
    BY <2>1, FS_Interval, Zenon
  <2> QED BY <1>6, <2>2, FS_CardinalityType, Zenon DEF FramesOf
<1>8. held \in SUBSET (F \cap OwnFrames(c)) /\ \A f \in F : f[1] = m <=> f \in held
  <2>1. \A f \in held : f[1] = m /\ f[2] \in h.entries[m].frames /\ f \in Messages \X Nat
    BY <1>5, <1>6 DEF FramesOf
  <2>2. held \subseteq F /\ held \subseteq OwnFrames(c)
    BY <1>6, <2>1, Zenon DEF FramesPending, OwnFrames
  <2>3. ASSUME NEW f \in F, f[1] = m PROVE f \in held
    <3>1. f \in Messages \X Nat /\ f[2] \in h.entries[m].frames
      BY <2>3, Zenon DEF FramesPending
    <3> QED BY <2>3, <3>1
  <2> HIDE DEF held, F
  <2> QED BY <2>1, <2>2, <2>3, Zenon
<1>9. Cardinality(held) = n
  <2>1. Cardinality({m}) = 1 /\ IsFiniteSet({m})
    BY FS_Singleton, Zenon
  <2>2. Cardinality(held) = Cardinality({m}) * n
    BY <1>7, <2>1, FS_Product, Zenon
  <2> HIDE DEF n
  <2> QED BY <1>7, <2>1, <2>2
<1>10. DOMAIN entry = EntryFields /\ entry.status = "approved" /\ EntryTrue(entry, m)
  <2>1. DOMAIN entry = EntryFields /\ entry.status = "approved" /\ entry.frames = h.entries[m].frames
    BY DEF HbOK, EntryFields
  <2> QED BY <1>3, <1>6, <2>1 DEF EntryTrue
<1> HIDE DEF a, entry
<1>11. /\ HbOK(a) /\ \A k \in Messages : a.entries[k] = IF k = m THEN entry ELSE h.entries[k]
       /\ \A k \in Messages : EntryTrue(a.entries[k], k)
  <2>1. HbOK(a)
    BY <1>2, <1>10 DEF HbOK
  <2>2. \A k \in Messages : a.entries[k] = IF k = m THEN entry ELSE h.entries[k]
    BY <1>2 DEF HbOK
  <2> QED BY <1>3, <1>10, <2>1, <2>2, Zenon
<1>12. PendingOf(a) = P \ {m} /\ ApprovedOf(a) = A \cup {m}
  <2>1. "approved" \notin Pending
    BY DEF Pending
  <2> QED BY <1>10, <1>11, <2>1, Zenon DEF PendingOf, ApprovedOf
<1>13. FramesPending(a) = F \ held
  <2>1. \A f \in Messages \X Nat : f[1] \in Messages
    OBVIOUS
  <2>2. \A f \in Messages \X Nat : f \in FramesPending(a) <=> f \in F /\ f[1] # m
    BY <1>11, <1>12, <2>1, Zenon DEF FramesPending
  <2>3. FramesPending(a) \subseteq Messages \X Nat /\ F \subseteq Messages \X Nat
    BY Zenon DEF FramesPending
  <2> HIDE DEF F, held
  <2> QED BY <1>8, <2>2, <2>3, Zenon
<1>14. list \in Seq(Messages) /\ Len(list) = Len(h.approved) + 1 /\ Range(list) = A \cup {m}
  BY <1>3, AppendIs, Zenon
<1> HIDE DEF list, P, F, A, held, n
<1>15. Counted(a)
  <2>1. /\ DOMAIN was = ConnFields /\ was.messages = Cardinality(P \cap Own(c))
        /\ was.frames = Cardinality(F \cap OwnFrames(c)) /\ was.approved = Cardinality(A \cap Own(c))
    BY <1>4, <1>5, Zenon DEF ConnCounts
  <2>2. /\ DOMAIN conn = ConnFields /\ conn.messages = was.messages - 1
        /\ conn.frames = was.frames - n /\ conn.approved = was.approved + 1
    <3> HIDE DEF was, went
    <3> QED BY <2>1 DEF ConnFields
  <2>3. {m} \in SUBSET (P \cap Own(c)) /\ Cardinality({m}) = 1
    BY <1>5, <1>6, FS_Singleton, Zenon
  <2>4. OffBy(P, {m}, Own(c)) /\ OffBy(F, held, OwnFrames(c)) /\ OnBy(A, m, Own(c), 1)
    <3>1. OffBy(P, {m}, Own(c)) /\ OffBy(F, held, OwnFrames(c))
      BY <1>3, <1>8, <2>3, OwnTakenOff, Zenon
    <3>2. OnBy(A, m, Own(c), 1)
      BY <1>3, <1>5, <1>6, OwnAdded, Zenon
    <3> QED BY <3>1, <3>2, Zenon
  <2> HIDE DEF conn, was
  <2>5. ConnCounts(conn, (P \ {m}) \cap Own(c), (F \ held) \cap OwnFrames(c), (A \cup {m}) \cap Own(c))
    BY <1>9, <2>1, <2>2, <2>3, <2>4, Zenon DEF ConnCounts, OffBy, OnBy
  <2>6. ASSUME NEW d \in HoldConns, d # c
        PROVE  ConnCounts(h.conns[d], (P \ {m}) \cap Own(d), (F \ held) \cap OwnFrames(d),
                          (A \cup {m}) \cap Own(d))
    <3>1. Own(d) \cap Own(c) = {} /\ OwnFrames(d) \cap OwnFrames(c) = {}
      BY <2>6, Zenon DEF Own, OwnFrames
    <3>2. (F \ held) \cap OwnFrames(d) = F \cap OwnFrames(d)
      BY <1>8, <3>1, ApartTakenOff, Zenon
    <3>3. (P \ {m}) \cap Own(d) = P \cap Own(d) /\ (A \cup {m}) \cap Own(d) = A \cap Own(d)
      BY <1>5, <3>1, Zenon
    <3> QED BY <1>4, <3>2, <3>3, Zenon
  <2>7. DOMAIN a.conns = HoldConns /\ \A d \in HoldConns : a.conns[d] = IF d = c THEN conn ELSE h.conns[d]
    BY <1>2, <1>4, <1>5
  <2>8. \A d \in HoldConns : ConnCounts(a.conns[d], PendingOf(a) \cap Own(d),
                                        FramesPending(a) \cap OwnFrames(d), ApprovedOf(a) \cap Own(d))
    BY <1>12, <1>13, <2>5, <2>6, <2>7, Zenon
  <2>9. /\ IsFiniteSet(P \ {m}) /\ Cardinality(P \ {m}) = Cardinality(P) - 1
        /\ IsFiniteSet(F \ held) /\ Cardinality(F \ held) = Cardinality(F) - n
        /\ IsFiniteSet(A \cup {m})
    <3>1. {m} \in SUBSET P /\ held \in SUBSET F
      BY <1>6, <1>8, Zenon
    <3>2. IsFiniteSet(P \ {m}) /\ Cardinality(P \ {m}) = Cardinality(P) - 1
      BY <1>3, <1>6, FS_RemoveElement, Zenon
    <3>3. IsFiniteSet(F \ held) /\ Cardinality(F \ held) = Cardinality(F) - n
      <4>1. IsFiniteSet(F \ held) /\ Cardinality(F \ held) = Cardinality(F) - Cardinality(held)
        BY <1>3, <3>1, TakenOff
      <4> QED BY <1>9, <4>1, Zenon
    <3> QED BY <1>3, <3>2, <3>3, FS_AddElement, Zenon
  <2> QED BY <1>2, <1>3, <1>11, <1>12, <1>13, <1>14, <2>7, <2>8, <2>9, Zenon DEF Counted
<1>16. Len(a.approved) <= MaxApproved + 1
  <2>1. Len(h.approved) \in Nat /\ MaxApproved \in Nat
    BY <1>3, HoldbackAssumption
  <2> QED BY <1>2, <1>14, <2>1
<1>17. Counted(g) /\ Len(g.approved) <= MaxApproved /\ HbOK(g)
  BY <1>5, <1>11, <1>15, <1>16, EvictCounted, EvictLost, Zenon DEF Lost
<1> HIDE DEF g
<1>18. CASE g.entries[m].status = "approved"
  <2> DEFINE e == Scheduled(g.entries[m])
             f == [g EXCEPT !.entries[m] = e]
  <2>1. e.status = g.entries[m].status /\ e.frames = g.entries[m].frames
    BY <1>17 DEF Scheduled, HbOK, EntryFields
  <2> HIDE DEF e
  <2>2. EntryTrue(g.entries[m], m)
    BY <1>17, Zenon DEF Counted
  <2>3. EntryTrue(e, m) /\ Alike(e, g.entries[m])
    BY <2>1, <2>2, Zenon DEF EntryTrue, Alike
  <2>4. Counted(f)
    BY <1>17, <2>3, EntryCounted, Zenon
  <2>5. f.approved = g.approved
    BY <1>17 DEF HbOK, HbFields
  <2>6. Approved(h, m) = f
    BY <1>1, <1>18, Zenon DEF e
  <2> HIDE DEF f
  <2> QED BY <1>17, <2>4, <2>5, <2>6, Zenon
<1>19. CASE g.entries[m].status # "approved"
  BY <1>1, <1>17, <1>19, Zenon
<1> QED BY <1>18, <1>19, Zenon

-----------------------------------------------------------------------------
(* The counters: who validates what.                                         *)

LEMMA LiveStep ==
    ASSUME LiveInv, NEW p,
           \A q \in Pumps \ {p} : pump'[q].live =>
               /\ pump[q].live /\ pump'[q].msg = pump[q].msg
               /\ hb'.entries[pump[q].msg].status = "validating",
           p \in Pumps /\ pump'[p].live =>
               /\ pump'[p].msg \in Messages /\ hb'.entries[pump'[p].msg].status = "validating"
               /\ \/ hb.entries[pump'[p].msg].status # "validating"
                  \/ pump[p].live /\ pump'[p].msg = pump[p].msg
    PROVE  LiveInv'
<1>1. ASSUME NEW q \in Pumps, pump'[q].live
      PROVE  pump'[q].msg \in Messages /\ hb'.entries[pump'[q].msg].status = "validating"
  BY <1>1, Zenon DEF LiveInv
<1>2. ASSUME NEW q \in Pumps, NEW o \in Pumps, pump'[q].live, pump'[o].live,
             pump'[q].msg = pump'[o].msg, o # p
      PROVE  q = o
  <2>1. pump[o].live /\ pump'[o].msg = pump[o].msg /\ hb.entries[pump[o].msg].status = "validating"
    BY <1>2, Zenon DEF LiveInv
  <2>2. CASE q = p
    BY <1>2, <2>1, <2>2, Zenon DEF LiveInv
  <2>3. CASE q # p
    BY <1>2, <2>1, <2>3, Zenon DEF LiveInv
  <2> QED BY <2>2, <2>3, Zenon
<1> QED BY <1>1, <1>2, Zenon DEF LiveInv

\* A pump that goes on with what it has, or gives it up.
GoesOn(q, r) == r.live => q.live /\ r.msg = q.msg

\* No message stops being validated.
LEMMA LiveKept ==
    ASSUME HoldTypeOK, LiveInv, NEW p \in Pumps, NEW r, pump' = [pump EXCEPT ![p] = r],
           GoesOn(pump[p], r),
           \A m \in Messages : hb.entries[m].status = "validating" =>
               hb'.entries[m].status = "validating"
    PROVE  LiveInv'
<1>1. \A q \in Pumps : pump'[q] = IF q = p THEN r ELSE pump[q]
  BY DEF HoldTypeOK
<1>2. \A q \in Pumps : pump'[q].live =>
          /\ pump[q].live /\ pump'[q].msg = pump[q].msg /\ pump[q].msg \in Messages
          /\ hb'.entries[pump[q].msg].status = "validating"
  BY <1>1, Zenon DEF LiveInv, GoesOn
<1> QED BY <1>2, LiveStep, Zenon

LEMMA BecomeLive ==
    ASSUME NEW h, NEW ps, Become(h, ps), \A q \in Pumps : DOMAIN ps[q] = PumpFields
    PROVE  hb' = h /\ \A q \in Pumps :
               /\ pump'[q].msg = ps[q].msg
               /\ pump'[q].live => ps[q].live /\ h.entries[ps[q].msg].status # "none"
<1>1. hb' = h /\ pump' = StillHeld(h, ps)
  BY Zenon DEF Become
<1>2. \A q \in Pumps : pump'[q] = [ps[q] EXCEPT !.live = ps[q].live /\ h.entries[ps[q].msg].status # "none"]
  BY <1>1, Zenon DEF StillHeld
<1>3. \A q \in Pumps : /\ pump'[q].msg = ps[q].msg
                       /\ pump'[q].live = (ps[q].live /\ h.entries[ps[q].msg].status # "none")
  BY <1>2, Zenon DEF PumpFields
<1> QED BY <1>1, <1>3, Zenon

\* Messages leave: the pumps that validated them lose them.
LEMMA LiveLost ==
    ASSUME LiveInv, NEW h, NEW ps, Become(h, ps), Lost(hb, h),
           \A q \in Pumps : DOMAIN ps[q] = PumpFields /\ GoesOn(pump[q], ps[q])
    PROVE  LiveInv'
<1>1. hb' = h /\ \A q \in Pumps :
          /\ pump'[q].msg = ps[q].msg
          /\ pump'[q].live => ps[q].live /\ h.entries[ps[q].msg].status # "none"
  BY BecomeLive, Zenon
<1>2. NoEntry.status = "none"
  BY DEF NoEntry
<1>3. \A m \in Messages : h.entries[m].status = "none" \/ h.entries[m].status = hb.entries[m].status
  BY <1>2, Zenon DEF Lost
<1>4. \A q \in Pumps : pump'[q].live =>
          /\ pump[q].live /\ pump'[q].msg = pump[q].msg /\ pump[q].msg \in Messages
          /\ hb'.entries[pump[q].msg].status = "validating"
  BY <1>1, <1>3, Zenon DEF LiveInv, GoesOn
<1> QED BY <1>4, LiveStep, Zenon

\* A pump takes a message nobody validates.
LEMMA LiveTaken ==
    ASSUME LiveInv, NEW p \in Pumps, NEW m \in Messages, hb.entries[m].status # "validating",
           hb'.entries[m].status = "validating", pump'[p].msg = m,
           \A k \in Messages \ {m} : hb'.entries[k] = hb.entries[k],
           \A q \in Pumps \ {p} : pump'[q].msg = pump[q].msg /\ (pump'[q].live => pump[q].live)
    PROVE  LiveInv'
<1>1. ASSUME NEW q \in Pumps \ {p}, pump'[q].live
      PROVE  /\ pump[q].live /\ pump'[q].msg = pump[q].msg
             /\ hb'.entries[pump[q].msg].status = "validating"
  <2>1. pump[q].live /\ pump'[q].msg = pump[q].msg
    BY <1>1, Zenon
  <2>2. pump[q].msg \in Messages /\ hb.entries[pump[q].msg].status = "validating"
    BY <2>1, Zenon DEF LiveInv
  <2>3. pump[q].msg \in Messages \ {m}
    BY <2>2, Zenon
  <2> QED BY <2>1, <2>2, <2>3, Zenon
<1> QED BY <1>1, LiveStep, Zenon

\* A pump is done with its message, which nobody else validates.
LEMMA LiveDone ==
    ASSUME LiveInv, NEW p \in Pumps, pump[p].live, ~pump'[p].live,
           \A k \in Messages : k # pump[p].msg =>
               hb'.entries[k].status \in {hb.entries[k].status, "none"},
           \A q \in Pumps \ {p} : /\ pump'[q].msg = pump[q].msg
                                  /\ pump'[q].live => pump[q].live /\ hb'.entries[pump[q].msg].status # "none"
    PROVE  LiveInv'
<1>1. ASSUME NEW q \in Pumps \ {p}, pump'[q].live
      PROVE  /\ pump[q].live /\ pump'[q].msg = pump[q].msg
             /\ hb'.entries[pump[q].msg].status = "validating"
  <2>1. pump[q].live /\ pump'[q].msg = pump[q].msg /\ hb'.entries[pump[q].msg].status # "none"
    BY <1>1, Zenon
  <2>2. pump[q].msg \in Messages /\ hb.entries[pump[q].msg].status = "validating"
    BY <2>1, Zenon DEF LiveInv
  <2>3. pump[q].msg # pump[p].msg
    BY <2>1, Zenon DEF LiveInv
  <2> QED BY <2>1, <2>2, <2>3, Zenon
<1> QED BY <1>1, LiveStep, Zenon

-----------------------------------------------------------------------------
(* The counters: one lemma for each kind of step.                            *)

LEMMA CountReceiveNew ==
    ASSUME HoldTypeOK, CountInv, NEW p \in Pumps, NEW m \in Messages, NEW s \in FramesOf(m),
           ReceiveNew(p, m, s)
    PROVE  CountInv'
<1> DEFINE h == Stored(hb, m, s)
           r == [NoPump EXCEPT !.pc = "guard", !.msg = m, !.live = TRUE, !.incoming = m]
           v == IF h.entries[m].status = "validating" THEN r ELSE pump[p]
           ps == [pump EXCEPT ![p] = v]
<1>1. s \notin hb.entries[m].frames /\ Become(h, ps)
  BY Zenon DEF ReceiveNew
<1>2. Counted(hb) /\ HbOK(hb) /\ LiveInv /\ DOMAIN pump = Pumps /\ \A q \in Pumps : DOMAIN pump[q] = PumpFields
  BY Zenon DEF CountInv, HoldTypeOK, PumpOK
<1>3. /\ Counted(h) /\ h.approved = hb.approved /\ hb.entries[m].status \in {"none", "collecting"}
      /\ \A k \in Messages : k # m => h.entries[k] = hb.entries[k]
  BY <1>1, <1>2, StoredCounted, Zenon
<1> HIDE DEF h
<1>4. DOMAIN r = PumpFields /\ r.msg = m
  BY DEF NoPump, PumpFields
<1> HIDE DEF r
<1>5. \A q \in Pumps : ps[q] = IF q = p THEN v ELSE pump[q]
  <2> HIDE DEF v
  <2> QED BY <1>2
<1> HIDE DEF ps
<1>6. \A q \in Pumps : DOMAIN ps[q] = PumpFields
  BY <1>2, <1>4, <1>5, Zenon
<1>7. hb' = h /\ \A q \in Pumps :
          /\ pump'[q].msg = ps[q].msg
          /\ pump'[q].live => ps[q].live /\ h.entries[ps[q].msg].status # "none"
  BY <1>1, <1>6, BecomeLive, Zenon
<1>8. hb.entries[m].status # "validating"
  BY <1>3
<1>9. LiveInv'
  <2>1. CASE h.entries[m].status = "validating"
    <3>1. pump'[p].msg = m
      BY <1>4, <1>5, <1>7, <2>1, Zenon
    <3>2. \A q \in Pumps \ {p} : pump'[q].msg = pump[q].msg /\ (pump'[q].live => pump[q].live)
      BY <1>5, <1>7, Zenon
    <3>3. \A k \in Messages \ {m} : hb'.entries[k] = hb.entries[k]
      BY <1>3, <1>7, Zenon
    <3>4. hb'.entries[m].status = "validating"
      BY <1>7, <2>1, Zenon
    <3> QED BY <1>2, <1>8, <3>1, <3>2, <3>3, <3>4, LiveTaken, Zenon
  <2>2. CASE h.entries[m].status # "validating"
    <3>1. ASSUME NEW q \in Pumps, pump'[q].live
          PROVE  /\ pump[q].live /\ pump'[q].msg = pump[q].msg /\ pump[q].msg \in Messages
                 /\ hb'.entries[pump[q].msg].status = "validating"
      <4>1. pump[q].live /\ pump'[q].msg = pump[q].msg
        BY <1>5, <1>7, <2>2, <3>1, Zenon
      <4>2. pump[q].msg \in Messages /\ hb.entries[pump[q].msg].status = "validating"
        BY <1>2, <4>1, Zenon DEF LiveInv
      <4>3. pump[q].msg # m
        BY <1>8, <4>2, Zenon
      <4> QED BY <1>3, <1>7, <4>1, <4>2, <4>3, Zenon
    <3> QED BY <1>2, <3>1, LiveStep, Zenon
  <2> QED BY <2>1, <2>2, Zenon
<1>10. Counted(hb') /\ Len(hb'.approved) <= MaxApproved
  BY <1>3, <1>7, Zenon DEF CountInv
<1> QED BY <1>9, <1>10, Zenon DEF CountInv, Counted, PendingOf, ApprovedOf, FramesPending

\* The frame is refused or passes: no counter moves.
LEMMA CountReceivePassed ==
    ASSUME HoldTypeOK, CountInv, NEW p \in Pumps, NEW m \in Messages, NEW s,
           ReceiveOverLimit(p, m, s) \/ ReceiveConflict(p, m, s) \/ ReceiveApproved(p, m, s)
    PROVE  CountInv'
<1> DEFINE c == MsgConn[m]
           r == [NoPump EXCEPT !.pc = "reject", !.incoming = m]
           w == [NoPump EXCEPT !.pc = "write", !.incoming = m, !.out = <<<<m, {s}>>>>]
<1>1. Counted(hb) /\ HbOK(hb) /\ DOMAIN hb = HbFields /\ LiveInv
  BY Zenon DEF CountInv, HoldTypeOK, HbOK
<1>2. \E x : pump' = [pump EXCEPT ![p] = x] /\ GoesOn(pump[p], x)
  <2>1. ~r.live /\ ~w.live
    BY DEF NoPump
  <2>2. pump' = [pump EXCEPT ![p] = r] \/ pump' = [pump EXCEPT ![p] = w]
    BY Zenon DEF ReceiveOverLimit, ReceiveConflict, ReceiveApproved
  <2> HIDE DEF r, w
  <2> QED BY <2>1, <2>2, Zenon DEF GoesOn
<1>3. hb' = hb \/ hb' = [hb EXCEPT !.conns[c].timer = FALSE]
  BY Zenon DEF ReceiveOverLimit, ReceiveConflict, ReceiveApproved
<1>4. c \in HoldConns /\ DOMAIN hb.conns = HoldConns /\ DOMAIN hb.conns[c] = ConnFields
  BY <1>1, HoldbackAssumption, Zenon DEF Counted, ConnCounts
<1>5. Counted(hb') /\ hb'.approved = hb.approved /\ hb'.entries = hb.entries
  <2> DEFINE x == [hb.conns[c] EXCEPT !.timer = FALSE]
  <2>1. [hb EXCEPT !.conns[c].timer = FALSE] = [hb EXCEPT !.conns[c] = x]
    BY Zenon
  <2>2. /\ DOMAIN x = ConnFields /\ x.messages = hb.conns[c].messages /\ x.frames = hb.conns[c].frames
        /\ x.approved = hb.conns[c].approved
    BY <1>4 DEF ConnFields
  <2> HIDE DEF x
  <2>3. Counted([hb EXCEPT !.conns[c] = x])
    BY <1>1, <1>4, <2>2, ConnCounted, Zenon
  <2>4. [hb EXCEPT !.conns[c] = x].approved = hb.approved /\ [hb EXCEPT !.conns[c] = x].entries = hb.entries
    BY <1>1 DEF HbFields
  <2> QED BY <1>1, <1>3, <2>1, <2>3, <2>4, Zenon
<1>6. LiveInv'
  BY <1>1, <1>2, <1>5, LiveKept, Zenon
<1> QED BY <1>5, <1>6, Zenon DEF CountInv, Counted, PendingOf, ApprovedOf, FramesPending

\* A deferred message is validated again.
LEMMA AgainCounted ==
    ASSUME HoldTypeOK, CountInv, NEW m \in Messages, hb.entries[m].status = "deferred",
           hb' = [hb EXCEPT !.entries[m] = Again(m)]
    PROVE  /\ Counted(hb') /\ hb'.approved = hb.approved
           /\ hb.entries[m].status # "validating" /\ hb'.entries[m].status = "validating"
           /\ \A k \in Messages \ {m} : hb'.entries[k] = hb.entries[k]
<1> DEFINE e == Again(m)
<1>1. Counted(hb) /\ HbOK(hb) /\ EntryTrue(hb.entries[m], m)
  BY Zenon DEF CountInv, HoldTypeOK, Counted
<1>2. e.status = "validating" /\ e.frames = hb.entries[m].frames
  BY <1>1 DEF HbOK, EntryFields, Again, Stopped
<1> HIDE DEF e
<1>3. Alike(e, hb.entries[m]) /\ EntryTrue(e, m)
  BY <1>1, <1>2 DEF Alike, EntryTrue, Pending
<1>4. hb' = [hb EXCEPT !.entries[m] = e]
  BY Zenon DEF e
<1>8. Counted([hb EXCEPT !.entries[m] = e])
  BY <1>1, <1>3, EntryCounted, Zenon
<1>5. Counted(hb')
  BY <1>4, <1>8, Zenon
<1>6. hb'.approved = hb.approved /\ hb'.entries = [hb.entries EXCEPT ![m] = e]
  BY <1>1, <1>4 DEF HbOK, HbFields
<1>7. hb'.entries[m] = e /\ \A k \in Messages \ {m} : hb'.entries[k] = hb.entries[k]
  BY <1>1, <1>6 DEF HbOK
<1> QED BY <1>2, <1>5, <1>6, <1>7, Zenon

LEMMA CountReceiveDeferred ==
    ASSUME HoldTypeOK, CountInv, NEW p \in Pumps, NEW m \in Messages, NEW s, ReceiveDeferred(p, m, s)
    PROVE  CountInv'
<1> DEFINE r == [NoPump EXCEPT !.pc = "guard", !.msg = m, !.live = TRUE, !.incoming = m]
<1>1. /\ hb.entries[m].status = "deferred" /\ hb' = [hb EXCEPT !.entries[m] = Again(m)]
      /\ pump' = [pump EXCEPT ![p] = r]
  BY Zenon DEF ReceiveDeferred
<1>2. /\ Counted(hb') /\ hb'.approved = hb.approved
      /\ hb.entries[m].status # "validating" /\ hb'.entries[m].status = "validating"
      /\ \A k \in Messages \ {m} : hb'.entries[k] = hb.entries[k]
  BY <1>1, AgainCounted, Zenon
<1>3. r.msg = m
  BY DEF NoPump
<1> HIDE DEF r
<1>4. pump'[p] = r /\ \A q \in Pumps \ {p} : pump'[q] = pump[q]
  BY <1>1 DEF HoldTypeOK
<1>5. LiveInv
  BY Zenon DEF CountInv
<1>6. LiveInv'
  BY <1>2, <1>3, <1>4, <1>5, LiveTaken, Zenon
<1> QED BY <1>2, <1>6, Zenon DEF CountInv, Counted, PendingOf, ApprovedOf, FramesPending

LEMMA CountNextDeferred ==
    ASSUME HoldTypeOK, CountInv, NEW p \in Pumps, NextDeferred(p)
    PROVE  CountInv'
<1>1. LiveInv /\ Counted(hb)
  BY Zenon DEF CountInv
<1>2. CASE UNCHANGED hb /\ pump' = [pump EXCEPT ![p] = Returning(pump[p], FALSE)]
  <2>1. GoesOn(pump[p], Returning(pump[p], FALSE))
    BY DEF Returning, GoesOn, HoldTypeOK, PumpOK, PumpFields
  <2>2. LiveInv'
    BY <1>1, <1>2, <2>1, LiveKept, Zenon
  <2> QED BY <1>2, <2>2, Zenon DEF CountInv, Counted, PendingOf, ApprovedOf, FramesPending
<1>3. ASSUME NEW m \in Messages, hb.entries[m].status = "deferred",
             hb' = [hb EXCEPT !.entries[m] = Again(m)],
             pump' = [pump EXCEPT ![p].pc = "phase", ![p].msg = m, ![p].live = TRUE]
      PROVE  CountInv'
  <2>1. /\ Counted(hb') /\ hb'.approved = hb.approved
        /\ hb.entries[m].status # "validating" /\ hb'.entries[m].status = "validating"
        /\ \A k \in Messages \ {m} : hb'.entries[k] = hb.entries[k]
    BY <1>3, AgainCounted, Zenon
  <2>2. pump'[p].msg = m /\ \A q \in Pumps \ {p} : pump'[q] = pump[q]
    BY <1>3 DEF HoldTypeOK, PumpOK, PumpFields
  <2>3. LiveInv'
    BY <1>1, <2>1, <2>2, LiveTaken, Zenon
  <2> QED BY <2>1, <2>3, Zenon DEF CountInv, Counted, PendingOf, ApprovedOf, FramesPending
<1> QED BY <1>2, <1>3, Zenon DEF NextDeferred

\* Steps that touch neither the table nor a live message.
LEMMA CountQuiet ==
    ASSUME HoldTypeOK, CountInv, NEW p \in Pumps, NEW r, GoesOn(pump[p], r),
           pump' = [pump EXCEPT ![p] = r], UNCHANGED hb
    PROVE  CountInv'
<1>1. LiveInv
  BY Zenon DEF CountInv
<1>2. LiveInv'
  BY <1>1, LiveKept, Zenon
<1> QED BY <1>2, Zenon DEF CountInv, Counted, PendingOf, ApprovedOf, FramesPending

LEMMA ReturningGoesOn ==
    ASSUME NEW q, DOMAIN q = PumpFields, NEW b
    PROVE  GoesOn(q, Returning(q, b)) /\ ~Returning(q, b).live /\ DOMAIN Returning(q, b) = PumpFields
BY DEF Returning, GoesOn, PumpFields

LEMMA AfterWriteGoesOn ==
    ASSUME NEW q, DOMAIN q = PumpFields
    PROVE  GoesOn(q, AfterWrite(q)) /\ DOMAIN AfterWrite(q) = PumpFields
<1>1. DOMAIN NoPump = PumpFields /\ ~NoPump.live
  BY DEF NoPump, PumpFields
<1> DEFINE a == [q EXCEPT !.pc = "write"]
           b == [NoPump EXCEPT !.pc = "reject", !.incoming = q.incoming]
<1>2. AfterWrite(q) = a \/ AfterWrite(q) = b \/ AfterWrite(q) = NoPump
  BY Zenon DEF AfterWrite
<1>3. DOMAIN a = PumpFields /\ a.live = q.live /\ a.msg = q.msg
  BY DEF PumpFields
<1>4. DOMAIN b = PumpFields /\ ~b.live
  BY DEF PumpFields, NoPump
<1> HIDE DEF a, b
<1> QED BY <1>1, <1>2, <1>3, <1>4, Zenon DEF GoesOn

\* The steps of the validation that leave the table alone.
LEMMA CountPlain ==
    ASSUME HoldTypeOK, CountInv, NEW p \in Pumps,
           GuardExpired(p) \/ Acquire(p) \/ ReadPhase(p) \/ Validate(p) \/ WriteOne(p)
    PROVE  CountInv'
<1>1. DOMAIN pump = Pumps /\ DOMAIN pump[p] = PumpFields
  BY Zenon DEF HoldTypeOK, PumpOK
<1>2. UNCHANGED hb
  BY Zenon DEF GuardExpired, Acquire, ReadPhase, Validate, WriteOne
<1>3. \E r : GoesOn(pump[p], r) /\ pump' = [pump EXCEPT ![p] = r]
  <2>1. CASE GuardExpired(p)
    <3> DEFINE r == [NoPump EXCEPT !.pc = "reject", !.incoming = pump[p].incoming]
    <3>1. pump' = [pump EXCEPT ![p] = r]
      BY <2>1, Zenon DEF GuardExpired
    <3>2. ~r.live
      BY DEF NoPump
    <3> HIDE DEF r
    <3> QED BY <3>1, <3>2, Zenon DEF GoesOn
  <2>2. CASE Acquire(p)
    <3> DEFINE r == [pump[p] EXCEPT !.pc = "phase"]
    <3>1. pump' = [pump EXCEPT ![p] = r]
      BY <2>2, Zenon DEF Acquire, Goto
    <3>2. r.live = pump[p].live /\ r.msg = pump[p].msg
      BY <1>1 DEF PumpFields
    <3> HIDE DEF r
    <3> QED BY <3>1, <3>2, Zenon DEF GoesOn
  <2>3. CASE ReadPhase(p)
    <3> DEFINE c == hb.conns[MsgConn[pump[p].msg]]
               phase == c.phase \cup (IF c.e2e = "none" THEN {} ELSE {c.e2e})
               a == [pump[p] EXCEPT !.pc = "validate", !.phase = phase]
               b == Returning(pump[p], TRUE)
               r == IF pump[p].live /\ c.known THEN a ELSE b
    <3>1. pump' = [pump EXCEPT ![p] = r]
      BY <2>3, Zenon DEF ReadPhase
    <3>2. a.live = pump[p].live /\ a.msg = pump[p].msg
      <4> HIDE DEF phase
      <4> QED BY <1>1 DEF PumpFields
    <3>3. GoesOn(pump[p], b)
      BY <1>1, ReturningGoesOn, Zenon
    <3> HIDE DEF a, b
    <3>4. GoesOn(pump[p], r)
      BY <3>2, <3>3, Zenon DEF GoesOn
    <3> HIDE DEF r
    <3> QED BY <3>1, <3>4, Zenon
  <2>4. CASE Validate(p)
    <3>1. PICK v : pump' = [pump EXCEPT ![p].pc = "conclude", ![p].verdict = v, ![p].phase = {}]
      BY <2>4, Zenon DEF Validate
    <3> DEFINE r == [pump[p] EXCEPT !.pc = "conclude", !.verdict = v, !.phase = {}]
    <3>2. pump' = [pump EXCEPT ![p] = r]
      BY <1>1, <3>1, Zenon DEF PumpFields
    <3>3. r.live = pump[p].live /\ r.msg = pump[p].msg
      BY <1>1 DEF PumpFields
    <3> HIDE DEF r
    <3> QED BY <3>2, <3>3, Zenon DEF GoesOn
  <2>5. CASE WriteOne(p)
    <3> DEFINE q == [pump[p] EXCEPT !.out = Tail(pump[p].out)]
    <3>1. pump' = [pump EXCEPT ![p] = AfterWrite(q)]
      BY <2>5, Zenon DEF WriteOne
    <3>2. DOMAIN q = PumpFields /\ q.live = pump[p].live /\ q.msg = pump[p].msg
      BY <1>1 DEF PumpFields
    <3> HIDE DEF q
    <3>3. GoesOn(q, AfterWrite(q))
      BY <3>2, AfterWriteGoesOn, Zenon
    <3> QED BY <3>1, <3>2, <3>3, Zenon DEF GoesOn
  <2> QED BY <2>1, <2>2, <2>3, <2>4, <2>5, Zenon
<1> QED BY <1>2, <1>3, CountQuiet, Zenon

\* The lock object comes and goes.
LEMMA CountLock ==
    ASSUME HoldTypeOK, CountInv, NEW p \in Pumps, Guard(p) \/ Leave(p)
    PROVE  CountInv'
<1>1. /\ DOMAIN pump = Pumps /\ DOMAIN pump[p] = PumpFields /\ DOMAIN hb = HbFields
      /\ Counted(hb) /\ LiveInv
  BY Zenon DEF HoldTypeOK, PumpOK, HbOK, CountInv
<1>2. \E l, u : hb' = [hb EXCEPT !.lock = l, !.users = u]
  <2>1. CASE Guard(p)
    <3>1. PICK l : hb' = [hb EXCEPT !.lock = l, !.users[l] = @ + 1]
      BY <2>1, Zenon DEF Guard
    <3> DEFINE u == [hb.users EXCEPT ![l] = @ + 1]
    <3>2. hb' = [hb EXCEPT !.lock = l, !.users = u]
      BY <1>1, <3>1 DEF HbFields
    <3> HIDE DEF u
    <3> QED BY <3>2, Zenon
  <2>2. CASE Leave(p)
    <3>1. PICK l, gone : hb' = [hb EXCEPT !.users[l] = @ - 1, !.lock = IF gone THEN 0 ELSE @]
      BY <2>2, Zenon DEF Leave
    <3> DEFINE u == [hb.users EXCEPT ![l] = @ - 1]
               k == IF gone THEN 0 ELSE hb.lock
    <3>2. hb' = [hb EXCEPT !.lock = k, !.users = u]
      BY <1>1, <3>1, Zenon DEF HbFields
    <3> HIDE DEF u, k
    <3> QED BY <3>2, Zenon
  <2> QED BY <2>1, <2>2, Zenon
<1>3. PICK l, u : hb' = [hb EXCEPT !.lock = l, !.users = u]
  BY <1>2, Zenon
<1>4. Counted([hb EXCEPT !.lock = l, !.users = u])
  BY <1>1, LockCounted, Zenon
<1>5. hb'.entries = hb.entries /\ hb'.approved = hb.approved
  BY <1>1, <1>3 DEF HbFields
<1>6. \E r : GoesOn(pump[p], r) /\ pump' = [pump EXCEPT ![p] = r]
  <2>1. CASE Guard(p)
    <3>1. PICK k : pump' = [pump EXCEPT ![p].pc = "acquire", ![p].lock = k]
      BY <2>1, Zenon DEF Guard
    <3> DEFINE r == [pump[p] EXCEPT !.pc = "acquire", !.lock = k]
    <3>2. pump' = [pump EXCEPT ![p] = r]
      BY <1>1, <3>1, Zenon DEF PumpFields
    <3>3. r.live = pump[p].live /\ r.msg = pump[p].msg
      BY <1>1 DEF PumpFields
    <3> HIDE DEF r
    <3> QED BY <3>2, <3>3, Zenon DEF GoesOn
  <2>2. CASE Leave(p)
    <3> DEFINE q == [pump[p] EXCEPT !.lock = 0]
    <3>1. pump' = [pump EXCEPT ![p] = AfterWrite(q)]
      BY <2>2, Zenon DEF Leave
    <3>2. DOMAIN q = PumpFields /\ q.live = pump[p].live /\ q.msg = pump[p].msg
      BY <1>1 DEF PumpFields
    <3> HIDE DEF q
    <3>3. GoesOn(q, AfterWrite(q))
      BY <3>2, AfterWriteGoesOn, Zenon
    <3> QED BY <3>1, <3>2, <3>3, Zenon DEF GoesOn
  <2> QED BY <2>1, <2>2, Zenon
<1>7. LiveInv'
  BY <1>1, <1>5, <1>6, LiveKept, Zenon
<1>8. Counted(hb')
  BY <1>3, <1>4, Zenon
<1> QED BY <1>5, <1>7, <1>8, Zenon DEF CountInv, Counted, PendingOf, ApprovedOf, FramesPending

\* What leaves the table.
LEMMA CountLost ==
    ASSUME CountInv, NEW h, NEW ps, Become(h, ps), Lost(hb, h),
           \A q \in Pumps : DOMAIN ps[q] = PumpFields /\ GoesOn(pump[q], ps[q]),
           Counted(h), Len(h.approved) <= Len(hb.approved)
    PROVE  CountInv'
<1>1. Counted(hb) /\ LiveInv /\ Len(hb.approved) <= MaxApproved
  BY Zenon DEF CountInv
<1>2. LiveInv'
  BY <1>1, LiveLost, Zenon
<1>3. hb' = h
  BY Zenon DEF Become
<1>4. Len(h.approved) <= MaxApproved
  <2>1. \A s \in Seq(Messages) : Len(s) \in Nat
    OBVIOUS
  <2>2. Len(h.approved) \in Nat /\ Len(hb.approved) \in Nat /\ MaxApproved \in Nat
    BY <1>1, <2>1, HoldbackAssumption, Zenon DEF Counted
  <2> QED BY <1>1, <2>2
<1>5. Counted(hb') /\ Len(hb'.approved) <= MaxApproved
  BY <1>3, <1>4, Zenon
<1> QED BY <1>2, <1>5, Zenon DEF CountInv, Counted, PendingOf, ApprovedOf, FramesPending

\* One pump moves to r and the others stay.
LEMMA OneGoesOn ==
    ASSUME HoldTypeOK, NEW p \in Pumps, NEW r, DOMAIN r = PumpFields, GoesOn(pump[p], r)
    PROVE  LET ps == [pump EXCEPT ![p] = r] IN
           \A q \in Pumps : DOMAIN ps[q] = PumpFields /\ GoesOn(pump[q], ps[q])
<1> DEFINE ps == [pump EXCEPT ![p] = r]
<1>1. \A q \in Pumps : ps[q] = IF q = p THEN r ELSE pump[q]
  BY DEF HoldTypeOK
<1>2. \A q \in Pumps : DOMAIN pump[q] = PumpFields /\ GoesOn(pump[q], pump[q])
  BY Zenon DEF HoldTypeOK, PumpOK, GoesOn
<1> HIDE DEF ps
<1>3. \A q \in Pumps : DOMAIN ps[q] = PumpFields /\ GoesOn(pump[q], ps[q])
  BY <1>1, <1>2, Zenon
<1> QED BY <1>3, Zenon DEF ps

\* forgetConnection for whatever connection the rejected frame names.
LEMMA ForgetCounted ==
    ASSUME NEW h, HbOK(h), Counted(h), NEW c
    PROVE  Counted(ForgetConnection(h, c)) /\ Len(ForgetConnection(h, c).approved) <= Len(h.approved)
<1>1. CASE c \in HoldConns
  BY <1>1, ConnGone, Zenon
<1>2. CASE c \notin HoldConns
  <2> DEFINE g == [h EXCEPT !.conns[c] = NoHeldConn]
  <2>1. {m \in Messages : MsgConn[m] = c} = {}
    BY <1>2, HoldbackAssumption
  <2>2. ForgetConnection(h, c) = g
    <3>1. Removed(h, c, {}) = h
      BY Zenon DEF Removed
    <3> QED BY <2>1, <3>1, Zenon DEF ForgetConnection, RemoveAll
  <2>3. /\ g.entries = h.entries /\ g.conns = [h.conns EXCEPT ![c] = NoHeldConn] /\ g.approved = h.approved
        /\ g.pendingMessages = h.pendingMessages /\ g.pendingFrames = h.pendingFrames
    BY DEF HbOK, HbFields
  <2> HIDE DEF g
  <2>4. /\ DOMAIN h.conns = HoldConns /\ \A d \in HoldConns : DOMAIN h.conns[d] = ConnFields
        /\ \A m \in Messages : EntryTrue(h.entries[m], m)
    BY Zenon DEF Counted, ConnCounts
  <2>5. DOMAIN g.conns = HoldConns /\ \A d \in HoldConns : g.conns[d] = h.conns[d]
    BY <1>2, <2>3, <2>4
  <2>6. \A m \in Messages : Alike(g.entries[m], h.entries[m])
    BY <2>3, Zenon DEF Alike
  <2>7. SameCounts(h, g)
    BY <2>3, <2>4, <2>5, <2>6, AlikeSets, Zenon DEF SameCounts
  <2>8. Len(h.approved) <= Len(h.approved)
    BY DEF Counted
  <2> QED BY <2>2, <2>3, <2>7, <2>8, SameCounted, Zenon
<1> QED BY <1>1, <1>2, Zenon

LEMMA CountConcludeApprove ==
    ASSUME HoldTypeOK, CountInv, NEW p \in Pumps, ConcludeApprove(p)
    PROVE  CountInv'
<1> DEFINE m == pump[p].msg
           h == Approved(hb, m)
           r == [pump[p] EXCEPT !.pc = "next", !.live = FALSE, !.verdict = "none",
                                !.out = Append(pump[p].out, <<m, FramesOf(m)>>)]
           ps == [pump EXCEPT ![p] = r]
<1>1. /\ DOMAIN pump = Pumps /\ \A q \in Pumps : DOMAIN pump[q] = PumpFields
      /\ HbOK(hb) /\ Counted(hb) /\ LiveInv /\ Len(hb.approved) <= MaxApproved
  BY Zenon DEF HoldTypeOK, PumpOK, CountInv
<1>2. CASE pump[p].live /\ Become(h, ps)
  <2>1. m \in Messages /\ hb.entries[m].status = "validating"
    BY <1>1, <1>2, Zenon DEF LiveInv
  <2>2. Counted(h) /\ Len(h.approved) <= MaxApproved
    <3> HIDE DEF m
    <3> QED BY <1>1, <2>1, ApprovedCounted, Zenon
  <2>3. \A k \in Messages : k # m => h.entries[k] = hb.entries[k] \/ h.entries[k] = NoEntry
    <3> HIDE DEF m
    <3> QED BY <1>1, <2>1, ApprovedFacts, Zenon
  <2>4. DOMAIN r = PumpFields /\ ~r.live
    <3> DEFINE o == Append(pump[p].out, <<m, FramesOf(m)>>)
    <3> HIDE DEF o
    <3>1. r = [pump[p] EXCEPT !.pc = "next", !.live = FALSE, !.verdict = "none", !.out = o]
      BY Zenon DEF o
    <3> QED BY <1>1, <3>1 DEF PumpFields
  <2> HIDE DEF h, r
  <2>5. \A q \in Pumps : ps[q] = IF q = p THEN r ELSE pump[q]
    BY <1>1
  <2> HIDE DEF ps
  <2>6. \A q \in Pumps : DOMAIN ps[q] = PumpFields
    BY <1>1, <2>4, <2>5, Zenon
  <2>7. hb' = h /\ \A q \in Pumps :
            /\ pump'[q].msg = ps[q].msg
            /\ pump'[q].live => ps[q].live /\ h.entries[ps[q].msg].status # "none"
    BY <1>2, <2>6, BecomeLive, Zenon
  <2>8. \A k \in Messages : k # m => hb'.entries[k].status \in {hb.entries[k].status, "none"}
    <3>1. NoEntry.status = "none"
      BY DEF NoEntry
    <3> QED BY <2>3, <2>7, <3>1, Zenon
  <2>9. /\ ~pump'[p].live
        /\ \A q \in Pumps \ {p} :
              /\ pump'[q].msg = pump[q].msg
              /\ pump'[q].live => pump[q].live /\ hb'.entries[pump[q].msg].status # "none"
    BY <2>4, <2>5, <2>7, Zenon
  <2>10. LiveInv'
    BY <1>1, <1>2, <2>8, <2>9, LiveDone, Zenon
  <2>11. Counted(hb') /\ Len(hb'.approved) <= MaxApproved
    BY <2>2, <2>7, Zenon
  <2> QED BY <2>10, <2>11, Zenon DEF CountInv, Counted, PendingOf, ApprovedOf, FramesPending
<1>3. CASE pump' = [pump EXCEPT ![p] = Returning(pump[p], FALSE)] /\ UNCHANGED hb
  BY <1>1, <1>3, ReturningGoesOn, CountQuiet, Zenon
<1> QED BY <1>2, <1>3, Zenon DEF ConcludeApprove

LEMMA CountConcludeDefer ==
    ASSUME HoldTypeOK, CountInv, NEW p \in Pumps, ConcludeDefer(p)
    PROVE  CountInv'
<1> DEFINE m == pump[p].msg
           e == [Scheduled(hb.entries[m]) EXCEPT !.status = "deferred", !.why = pump[p].verdict]
<1>1. /\ DOMAIN pump = Pumps /\ DOMAIN pump[p] = PumpFields /\ HbOK(hb) /\ Counted(hb) /\ LiveInv
  BY Zenon DEF HoldTypeOK, PumpOK, CountInv
<1>2. CASE /\ pump[p].live /\ hb' = [hb EXCEPT !.entries[m] = e]
           /\ pump' = [pump EXCEPT ![p] = Returning(pump[p], FALSE)]
  <2>1. m \in Messages /\ hb.entries[m].status = "validating"
    BY <1>1, <1>2, Zenon DEF LiveInv
  <2>2. EntryTrue(hb.entries[m], m) /\ DOMAIN hb.entries[m] = EntryFields
    BY <1>1, <2>1, Zenon DEF Counted, HbOK
  <2>3. e.status = "deferred" /\ e.frames = hb.entries[m].frames
    <3> HIDE DEF m
    <3> QED BY <2>2, Zenon DEF Scheduled, EntryFields
  <2> HIDE DEF e
  <2>4. Alike(e, hb.entries[m]) /\ EntryTrue(e, m)
    BY <2>1, <2>2, <2>3 DEF Alike, EntryTrue, Pending
  <2>5. Counted([hb EXCEPT !.entries[m] = e])
    <3> HIDE DEF m
    <3> QED BY <1>1, <2>1, <2>4, EntryCounted, Zenon
  <2>6. hb'.approved = hb.approved /\ hb'.entries = [hb.entries EXCEPT ![m] = e]
    <3> HIDE DEF m
    <3> QED BY <1>1, <1>2 DEF HbOK, HbFields
  <2>7. \A k \in Messages : k # m => hb'.entries[k] = hb.entries[k]
    <3> HIDE DEF m
    <3> QED BY <1>1, <2>6 DEF HbOK
  <2>8. pump'[p] = Returning(pump[p], FALSE) /\ \A q \in Pumps \ {p} : pump'[q] = pump[q]
    BY <1>1, <1>2
  <2>9. ~pump'[p].live
    BY <1>1, <2>8, ReturningGoesOn, Zenon
  <2>10. LiveInv'
    <3>1. \A q \in Pumps \ {p} : pump[q].live => hb'.entries[pump[q].msg].status # "none"
      <4>1. ASSUME NEW q \in Pumps \ {p}, pump[q].live PROVE hb'.entries[pump[q].msg].status # "none"
        <5>1. /\ pump[q].msg \in Messages /\ hb.entries[pump[q].msg].status = "validating"
              /\ pump[q].msg # m
          BY <1>1, <1>2, <4>1, Zenon DEF LiveInv
        <5>2. hb'.entries[pump[q].msg].status = "validating"
          BY <2>7, <5>1, Zenon
        <5> QED BY <5>2
      <4> QED BY <4>1, Zenon
    <3> QED BY <1>1, <1>2, <2>7, <2>8, <2>9, <3>1, LiveDone, Zenon
  <2>11. Counted(hb') /\ Len(hb'.approved) <= MaxApproved
    BY <1>2, <2>5, <2>6, Zenon DEF CountInv
  <2> QED BY <2>10, <2>11, Zenon DEF CountInv, Counted, PendingOf, ApprovedOf, FramesPending
<1>3. CASE pump' = [pump EXCEPT ![p] = Returning(pump[p], TRUE)] /\ UNCHANGED hb
  BY <1>1, <1>3, ReturningGoesOn, CountQuiet, Zenon
<1> QED BY <1>2, <1>3, Zenon DEF ConcludeDefer

LEMMA CountConcludeReject ==
    ASSUME HoldTypeOK, CountInv, NEW p \in Pumps, ConcludeReject(p)
    PROVE  CountInv'
<1> DEFINE m == pump[p].msg
           h == IF pump[p].live THEN RemoveEntryLocked(hb, m) ELSE hb
           r == Returning(pump[p], TRUE)
<1>1. DOMAIN pump[p] = PumpFields /\ HbOK(hb) /\ Counted(hb) /\ LiveInv
  BY Zenon DEF HoldTypeOK, PumpOK, CountInv
<1>2. Become(h, [pump EXCEPT ![p] = r])
  BY Zenon DEF ConcludeReject
<1>3. GoesOn(pump[p], r) /\ DOMAIN r = PumpFields
  BY <1>1, ReturningGoesOn, Zenon
<1>4. Lost(hb, h) /\ Counted(h) /\ Len(h.approved) <= Len(hb.approved)
  <2>1. CASE pump[p].live
    <3>1. m \in Messages
      BY <1>1, <2>1, Zenon DEF LiveInv
    <3>2. h = RemoveEntryLocked(hb, m)
      BY <2>1, Zenon
    <3> HIDE DEF h, m
    <3>3. Lost(hb, RemoveEntryLocked(hb, m))
      BY <1>1, RemoveEntryLost, Zenon
    <3>4. /\ Counted(RemoveEntryLocked(hb, m))
          /\ Len(RemoveEntryLocked(hb, m).approved) <= Len(hb.approved)
      BY <1>1, <3>1, RemoveEntryCounted, Zenon
    <3> QED BY <3>2, <3>3, <3>4, Zenon
  <2>2. CASE ~pump[p].live
    <3>1. h = hb
      BY <2>2, Zenon
    <3>2. Lost(hb, hb)
      BY <1>1, Zenon DEF Lost
    <3>3. Len(hb.approved) <= Len(hb.approved)
      BY <1>1 DEF Counted
    <3> QED BY <1>1, <3>1, <3>2, <3>3, Zenon
  <2> QED BY <2>1, <2>2, Zenon
<1> HIDE DEF h, r
<1>5. LET ps == [pump EXCEPT ![p] = r] IN
      \A q \in Pumps : DOMAIN ps[q] = PumpFields /\ GoesOn(pump[q], ps[q])
  BY <1>3, OneGoesOn, Zenon
<1> DEFINE ps == [pump EXCEPT ![p] = r]
<1>6. (\A q \in Pumps : DOMAIN ps[q] = PumpFields /\ GoesOn(pump[q], ps[q])) /\ Become(h, ps)
  BY <1>2, <1>5, Zenon
<1> HIDE DEF ps
<1> QED BY <1>4, <1>6, CountLost, Zenon

LEMMA CountWriteFails ==
    ASSUME HoldTypeOK, RecordInv, CountInv, NEW p \in Pumps, WriteFails(p)
    PROVE  CountInv'
<1> DEFINE c == MsgConn[Head(pump[p].out)[1]]
           q == [pump[p] EXCEPT !.out = Tail(pump[p].out)]
           r == AfterWrite(q)
           ps == [pump EXCEPT ![p] = r]
<1>1. DOMAIN pump[p] = PumpFields /\ HbOK(hb) /\ Counted(hb)
  BY Zenon DEF HoldTypeOK, PumpOK, CountInv
<1>2. Become(Reset(hb, c), ps) /\ pump[p].out # <<>>
  BY Zenon DEF WriteFails
<1>3. c \in HoldConns
  <2>1. pump[p].out \in Seq(Messages \X (SUBSET Nat))
    BY Zenon DEF RecordInv, PumpRecord
  <2>2. Head(pump[p].out)[1] \in Messages
    BY <1>2, <2>1
  <2> QED BY <2>2, HoldbackAssumption
<1>4. DOMAIN q = PumpFields /\ q.live = pump[p].live /\ q.msg = pump[p].msg
  BY <1>1 DEF PumpFields
<1> HIDE DEF q, c
<1>5. DOMAIN r = PumpFields /\ GoesOn(pump[p], r)
  <2>1. GoesOn(q, AfterWrite(q)) /\ DOMAIN AfterWrite(q) = PumpFields
    BY <1>4, AfterWriteGoesOn, Zenon
  <2> QED BY <1>4, <2>1, Zenon DEF GoesOn
<1> HIDE DEF r
<1>6. \A o \in Pumps : DOMAIN ps[o] = PumpFields /\ GoesOn(pump[o], ps[o])
  BY <1>5, OneGoesOn, Zenon
<1> HIDE DEF ps
<1>7. Lost(hb, Reset(hb, c)) /\ Counted(Reset(hb, c)) /\ Len(Reset(hb, c).approved) <= Len(hb.approved)
  BY <1>1, <1>3, ResetLost, ConnGone, Zenon
<1> QED BY <1>2, <1>6, <1>7, CountLost, Zenon

LEMMA CountRejectConnection ==
    ASSUME HoldTypeOK, CountInv, NEW p \in Pumps, RejectConnection(p)
    PROVE  CountInv'
<1> DEFINE c == MsgConn[pump[p].incoming]
           h == ForgetConnection(hb, c)
           ps == [pump EXCEPT ![p] = NoPump]
<1>1. HbOK(hb) /\ Counted(hb)
  BY Zenon DEF HoldTypeOK, CountInv
<1>2. Become(h, ps)
  BY Zenon DEF RejectConnection
<1> HIDE DEF c
<1>3. Lost(hb, h) /\ Counted(h) /\ Len(h.approved) <= Len(hb.approved)
  BY <1>1, ForgetLost, ForgetCounted, Zenon
<1>4. DOMAIN NoPump = PumpFields /\ GoesOn(pump[p], NoPump)
  BY DEF NoPump, PumpFields, GoesOn
<1>5. \A q \in Pumps : DOMAIN ps[q] = PumpFields /\ GoesOn(pump[q], ps[q])
  BY <1>4, OneGoesOn, Zenon
<1> HIDE DEF ps, h
<1> QED BY <1>2, <1>3, <1>5, CountLost, Zenon

\* The pumps stay where they are.
LEMMA AllGoOn ==
    ASSUME HoldTypeOK
    PROVE  \A q \in Pumps : DOMAIN pump[q] = PumpFields /\ GoesOn(pump[q], pump[q])
BY Zenon DEF HoldTypeOK, PumpOK, GoesOn

\* The pumps stay and no message changes its status.
LEMMA LiveStays ==
    ASSUME LiveInv, UNCHANGED pump,
           \A m \in Messages : hb'.entries[m].status = hb.entries[m].status
    PROVE  LiveInv'
BY Zenon DEF LiveInv

LEMMA CountMessage ==
    ASSUME HoldTypeOK, CountInv, NEW m \in Messages, Acknowledge(m) \/ Expire(m) \/ TimerFires(m)
    PROVE  CountInv'
<1>1. HbOK(hb) /\ Counted(hb) /\ LiveInv
  BY Zenon DEF HoldTypeOK, CountInv
<1>2. CASE Become(RemoveEntryLocked(hb, m), pump)
  <2> DEFINE h == RemoveEntryLocked(hb, m)
  <2>1. Lost(hb, h) /\ Counted(h) /\ Len(h.approved) <= Len(hb.approved)
    BY <1>1, RemoveEntryLost, RemoveEntryCounted, Zenon
  <2> HIDE DEF h
  <2>2. Become(h, pump)
    BY <1>2, Zenon DEF h
  <2> QED BY <2>1, <2>2, AllGoOn, CountLost, Zenon
<1>3. CASE UNCHANGED <<hb, pump>>
  <2>1. LiveInv'
    BY <1>1, <1>3, LiveStays, Zenon
  <2> QED BY <1>3, <2>1, Zenon DEF CountInv, Counted, PendingOf, ApprovedOf, FramesPending
<1>4. CASE hb' = [hb EXCEPT !.entries[m].late = TRUE] /\ UNCHANGED pump
  <2> DEFINE e == [hb.entries[m] EXCEPT !.late = TRUE]
  <2>1. hb' = [hb EXCEPT !.entries[m] = e]
    BY <1>4, Zenon
  <2>2. e.status = hb.entries[m].status /\ e.frames = hb.entries[m].frames
    BY <1>1 DEF HbOK, EntryFields
  <2> HIDE DEF e
  <2>3. EntryTrue(hb.entries[m], m)
    BY <1>1, Zenon DEF Counted
  <2>4. EntryTrue(e, m) /\ Alike(e, hb.entries[m])
    BY <2>2, <2>3, Zenon DEF EntryTrue, Alike
  <2>5. Counted([hb EXCEPT !.entries[m] = e])
    BY <1>1, <2>4, EntryCounted, Zenon
  <2>6. hb'.approved = hb.approved /\ hb'.entries = [hb.entries EXCEPT ![m] = e]
    BY <1>1, <2>1, Zenon DEF HbOK, HbFields
  <2>7. \A k \in Messages : hb'.entries[k] = IF k = m THEN e ELSE hb.entries[k]
    BY <1>1, <2>6 DEF HbOK
  <2>8. LiveInv'
    BY <1>1, <1>4, <2>2, <2>7, LiveStays, Zenon
  <2>9. Counted(hb') /\ Len(hb'.approved) <= MaxApproved
    BY <2>1, <2>5, <2>6, Zenon DEF CountInv
  <2> QED BY <2>8, <2>9, Zenon DEF CountInv, Counted, PendingOf, ApprovedOf, FramesPending
<1> QED BY <1>2, <1>3, <1>4, Zenon DEF Acknowledge, Expire, TimerFires

\* A connection without pending messages has no pending frames.
LEMMA NoMessagesNoFrames ==
    ASSUME NEW h, Counted(h), NEW c \in HoldConns, h.conns[c].messages = 0
    PROVE  h.conns[c].frames = 0
<1>1. /\ h.conns[c].messages = Cardinality(PendingOf(h) \cap Own(c)) /\ IsFiniteSet(PendingOf(h))
      /\ h.conns[c].frames = Cardinality(FramesPending(h) \cap OwnFrames(c))
  BY Zenon DEF Counted, ConnCounts
<1>2. IsFiniteSet(PendingOf(h) \cap Own(c))
  BY <1>1, FS_Intersection, Zenon
<1>3. PendingOf(h) \cap Own(c) = {}
  BY <1>1, <1>2, FS_EmptySet, Zenon
<1>4. FramesPending(h) \cap OwnFrames(c) = {}
  <2>1. \A f \in FramesPending(h) : f[1] \in PendingOf(h) /\ f[1] \in Messages
    BY Zenon DEF FramesPending, PendingOf
  <2> QED BY <1>3, <2>1, Zenon DEF OwnFrames, Own
<1> QED BY <1>1, <1>4, FS_EmptySet, Zenon

LEMMA CountConnection ==
    ASSUME HoldTypeOK, CountInv, NEW c \in HoldConns,
           CloseConnection(c) \/ Resume(c) \/ RecoveryFires(c) \/ RecoveryExpires(c)
    PROVE  CountInv'
<1>1. HbOK(hb) /\ DOMAIN hb = HbFields /\ Counted(hb) /\ LiveInv
  BY Zenon DEF HoldTypeOK, HbOK, CountInv
<1>2. DOMAIN hb.conns = HoldConns /\ DOMAIN hb.conns[c] = ConnFields
  BY <1>1, Zenon DEF Counted, ConnCounts
<1>3. CASE CloseConnection(c)
  <2> DEFINE h == Reset(hb, c)
  <2>1. Become(h, pump)
    BY <1>3, Zenon DEF CloseConnection
  <2>2. Lost(hb, h) /\ Counted(h) /\ Len(h.approved) <= Len(hb.approved)
    BY <1>1, ResetLost, ConnGone, Zenon
  <2> HIDE DEF h
  <2> QED BY <2>1, <2>2, AllGoOn, CountLost, Zenon
<1>4. CASE Resume(c)
  <2>1. UNCHANGED <<hb, pump>>
    BY <1>4, Zenon DEF Resume
  <2>2. LiveInv'
    BY <1>1, <2>1, LiveStays, Zenon
  <2> QED BY <2>1, <2>2, Zenon DEF CountInv, Counted, PendingOf, ApprovedOf, FramesPending
<1>5. CASE RecoveryFires(c) \/ RecoveryExpires(c)
  <2> DEFINE a == [hb.conns[c] EXCEPT !.late = TRUE]
             b == [hb.conns[c] EXCEPT !.timer = FALSE, !.late = FALSE]
             idle == hb.conns[c].messages = 0 /\ hb.conns[c].approved = 0
  <2>1. UNCHANGED pump
    BY <1>5, Zenon DEF RecoveryFires, RecoveryExpires
  <2>2. \/ hb' = [hb EXCEPT !.conns[c] = a]
        \/ hb' = [hb EXCEPT !.conns[c] = IF idle THEN NoHeldConn ELSE b]
    BY <1>5, Zenon DEF RecoveryFires, RecoveryExpires
  <2>3. /\ DOMAIN a = ConnFields /\ a.messages = hb.conns[c].messages
        /\ a.frames = hb.conns[c].frames /\ a.approved = hb.conns[c].approved
    BY <1>2 DEF ConnFields
  <2>4. /\ DOMAIN b = ConnFields /\ b.messages = hb.conns[c].messages
        /\ b.frames = hb.conns[c].frames /\ b.approved = hb.conns[c].approved
    BY <1>2 DEF ConnFields
  <2>5. /\ DOMAIN NoHeldConn = ConnFields /\ NoHeldConn.messages = 0 /\ NoHeldConn.frames = 0
        /\ NoHeldConn.approved = 0
    BY DEF NoHeldConn, ConnFields
  <2>6. idle => hb.conns[c].frames = 0
    BY <1>1, NoMessagesNoFrames, Zenon
  <2> HIDE DEF a, b
  <2>7. PICK r : /\ hb' = [hb EXCEPT !.conns[c] = r] /\ DOMAIN r = ConnFields
                 /\ r.messages = hb.conns[c].messages
                 /\ r.frames = hb.conns[c].frames /\ r.approved = hb.conns[c].approved
    <3>1. CASE hb' = [hb EXCEPT !.conns[c] = a]
      BY <2>3, <3>1, Zenon
    <3>2. CASE hb' = [hb EXCEPT !.conns[c] = IF idle THEN NoHeldConn ELSE b]
      <4>1. CASE idle
        <5>1. hb' = [hb EXCEPT !.conns[c] = NoHeldConn]
          BY <3>2, <4>1, Zenon
        <5>2. /\ NoHeldConn.messages = hb.conns[c].messages /\ NoHeldConn.frames = hb.conns[c].frames
              /\ NoHeldConn.approved = hb.conns[c].approved
          BY <2>5, <2>6, <4>1, Zenon
        <5> QED BY <2>5, <5>1, <5>2, Zenon
      <4>2. CASE ~idle
        <5>1. hb' = [hb EXCEPT !.conns[c] = b]
          BY <3>2, <4>2, Zenon
        <5> QED BY <2>4, <5>1, Zenon
      <4> QED BY <4>1, <4>2, Zenon
    <3> QED BY <2>2, <3>1, <3>2, Zenon
  <2>8. Counted([hb EXCEPT !.conns[c] = r])
    BY <1>1, <2>7, ConnCounted, Zenon
  <2>9. hb'.approved = hb.approved /\ hb'.entries = hb.entries
    BY <1>1, <2>7 DEF HbFields
  <2>10. LiveInv'
    BY <1>1, <2>1, <2>9, LiveStays, Zenon
  <2>11. Counted(hb') /\ Len(hb'.approved) <= MaxApproved
    BY <2>7, <2>8, <2>9, Zenon DEF CountInv
  <2> QED BY <2>10, <2>11, Zenon DEF CountInv, Counted, PendingOf, ApprovedOf, FramesPending
<1> QED BY <1>3, <1>4, <1>5, Zenon

LEMMA CountInvInit ==
    ASSUME HoldInit
    PROVE  CountInv
<1>1. /\ \A m \in Messages : hb.entries[m] = NoEntry
      /\ DOMAIN hb.conns = HoldConns /\ \A c \in HoldConns : hb.conns[c] = NoHeldConn
      /\ hb.pendingMessages = 0 /\ hb.pendingFrames = 0 /\ hb.approved = <<>>
      /\ \A p \in Pumps : pump[p] = NoPump
  BY DEF HoldInit
<1>2. \A m \in Messages : EntryTrue(NoEntry, m) /\ NoEntry.status \notin Pending /\ NoEntry.status # "approved"
  BY DEF EntryTrue, NoEntry, Pending
<1>3. PendingOf(hb) = {} /\ ApprovedOf(hb) = {}
  BY <1>1, <1>2, Zenon DEF PendingOf, ApprovedOf
<1>4. FramesPending(hb) = {}
  BY <1>3, Zenon DEF FramesPending
<1>5. <<>> \in Seq(Messages) /\ Range(<<>>) = {} /\ Len(<<>>) = 0
  BY DEF Range
<1>6. \A S : {} \cap S = {}
  BY Zenon
<1>7. \A P, F, A : ConnCounts(NoHeldConn, {} \cap P, {} \cap F, {} \cap A)
  <2>1. /\ DOMAIN NoHeldConn = ConnFields /\ NoHeldConn.messages = 0 /\ NoHeldConn.frames = 0
        /\ NoHeldConn.approved = 0
    BY DEF NoHeldConn, ConnFields
  <2> QED BY <1>6, <2>1, FS_EmptySet, Zenon DEF ConnCounts
<1>8. \A c \in HoldConns : ConnCounts(hb.conns[c], PendingOf(hb) \cap Own(c),
                                      FramesPending(hb) \cap OwnFrames(c), ApprovedOf(hb) \cap Own(c))
  BY <1>1, <1>3, <1>4, <1>7, Zenon
<1>9. Counted(hb)
  BY <1>1, <1>2, <1>3, <1>4, <1>5, <1>8, FS_EmptySet, Zenon DEF Counted
<1>10. Len(hb.approved) <= MaxApproved
  <2>1. MaxApproved \in Nat
    BY HoldbackAssumption, Zenon
  <2> QED BY <1>1, <2>1
<1>11. LiveInv
  <2>1. ~NoPump.live
    BY DEF NoPump
  <2> QED BY <1>1, <2>1, Zenon DEF LiveInv
<1> QED BY <1>9, <1>10, <1>11, Zenon DEF CountInv

LEMMA CountInvNext ==
    ASSUME HoldInv, CountInv, HoldNext
    PROVE  CountInv'
<1>1. HoldTypeOK /\ RecordInv
  BY Zenon DEF HoldInv
<1>2. ASSUME NEW p \in Pumps, Receive(p) PROVE CountInv'
  BY <1>1, <1>2, CountReceiveNew, CountReceivePassed, CountReceiveDeferred, Zenon DEF Receive
<1>3. ASSUME NEW p \in Pumps, Guard(p) \/ Leave(p) PROVE CountInv'
  BY <1>1, <1>3, CountLock, Zenon
<1>4. ASSUME NEW p \in Pumps,
             GuardExpired(p) \/ Acquire(p) \/ ReadPhase(p) \/ Validate(p) \/ WriteOne(p)
      PROVE  CountInv'
  BY <1>1, <1>4, CountPlain, Zenon
<1>5. ASSUME NEW p \in Pumps,
             ConcludeApprove(p) \/ ConcludeDefer(p) \/ ConcludeReject(p) \/ NextDeferred(p)
      PROVE  CountInv'
  BY <1>1, <1>5, CountConcludeApprove, CountConcludeDefer, CountConcludeReject, CountNextDeferred, Zenon
<1>6. ASSUME NEW p \in Pumps, WriteFails(p) \/ RejectConnection(p) PROVE CountInv'
  BY <1>1, <1>6, CountWriteFails, CountRejectConnection, Zenon
<1>7. ASSUME NEW m \in Messages, Acknowledge(m) \/ TimerFires(m) \/ Expire(m) PROVE CountInv'
  BY <1>1, <1>7, CountMessage, Zenon
<1>8. ASSUME NEW c \in HoldConns,
             CloseConnection(c) \/ Resume(c) \/ RecoveryFires(c) \/ RecoveryExpires(c)
      PROVE  CountInv'
  BY <1>1, <1>8, CountConnection, Zenon
<1> QED BY <1>2, <1>3, <1>4, <1>5, <1>6, <1>7, <1>8, Zenon DEF HoldNext

\* The frames of pending messages as the property writes them.
LEMMA CountedFrames ==
    ASSUME NEW h, Counted(h), NEW M \in SUBSET PendingOf(h)
    PROVE  UNION {{m} \X h.entries[m].frames : m \in M} = {f \in FramesPending(h) : f[1] \in M}
BY HeldIs, Zenon DEF FramesHeld

LEMMA CountInvExact ==
    ASSUME CountInv
    PROVE  CountersExact
<1> DEFINE In(S) == {m \in Messages : hb.entries[m].status \in S}
           FramesIn(M) == Cardinality(UNION {{m} \X hb.entries[m].frames : m \in M})
           own(c) == {m \in Messages : MsgConn[m] = c}
<1>1. Counted(hb) /\ Len(hb.approved) <= MaxApproved
  BY Zenon DEF CountInv
<1>2. In(Pending) = PendingOf(hb) /\ In({"approved"}) = ApprovedOf(hb)
  BY Zenon DEF PendingOf, ApprovedOf
<1>3. \A c : own(c) = Own(c)
  BY Zenon DEF Own
<1>4. FramesIn(In(Pending)) = Cardinality(FramesPending(hb))
  <2>1. {f \in FramesPending(hb) : f[1] \in PendingOf(hb)} = FramesPending(hb)
    BY Zenon DEF FramesPending
  <2>2. UNION {{m} \X hb.entries[m].frames : m \in PendingOf(hb)} =
        {f \in FramesPending(hb) : f[1] \in PendingOf(hb)}
    BY <1>1, CountedFrames
  <2> HIDE DEF In
  <2> QED BY <1>2, <2>1, <2>2, Zenon
<1>5. ASSUME NEW c \in HoldConns
      PROVE  FramesIn(In(Pending) \cap own(c)) = Cardinality(FramesPending(hb) \cap OwnFrames(c))
  <2> DEFINE M == PendingOf(hb) \cap Own(c)
  <2>1. {f \in FramesPending(hb) : f[1] \in M} = FramesPending(hb) \cap OwnFrames(c)
    BY Zenon DEF FramesPending, OwnFrames, Own, PendingOf
  <2>2. M \in SUBSET PendingOf(hb)
    BY Zenon
  <2>3. In(Pending) \cap own(c) = M
    <3> HIDE DEF In, own
    <3> QED BY <1>2, <1>3, Zenon
  <2> HIDE DEF M, In, own
  <2>4. UNION {{m} \X hb.entries[m].frames : m \in M} = {f \in FramesPending(hb) : f[1] \in M}
    BY <1>1, <2>2, CountedFrames
  <2> QED BY <2>1, <2>3, <2>4, Zenon
<1>6. /\ hb.pendingMessages = Cardinality(In(Pending)) /\ hb.pendingFrames = FramesIn(In(Pending))
      /\ Range(hb.approved) = In({"approved"})
  <2> HIDE DEF In, FramesIn
  <2> QED BY <1>1, <1>2, <1>4, Zenon DEF Counted
<1>7. ASSUME NEW c \in HoldConns
      PROVE  /\ hb.conns[c].messages = Cardinality(In(Pending) \cap own(c))
             /\ hb.conns[c].frames = FramesIn(In(Pending) \cap own(c))
             /\ hb.conns[c].approved = Cardinality(In({"approved"}) \cap own(c))
  <2> HIDE DEF In, FramesIn, own
  <2> QED BY <1>1, <1>2, <1>3, <1>5, Zenon DEF Counted, ConnCounts
<1> QED BY <1>1, <1>6, <1>7, Zenon DEF CountersExact

\* Whatever mix of expiries, evictions, resets and rejections happens, the
\* counters billing_holdback.go compares with its limits are exactly what the
\* table holds, for the scope and for every connection, and the list of
\* approved messages is within its limit.
THEOREM CountersAreExact == HoldSpec => []CountersExact
<1>1. HoldInit => CountInv
  BY CountInvInit
<1>2. HoldInv /\ CountInv /\ [HoldNext]_holdVars => CountInv'
  <2>1. CASE UNCHANGED holdVars
    <3>1. UNCHANGED <<hb, pump>>
      BY <2>1 DEF holdVars
    <3>2. LiveInv => LiveInv'
      BY <3>1, Zenon DEF LiveInv
    <3> QED BY <3>1, <3>2, Zenon DEF CountInv, Counted, PendingOf, ApprovedOf, FramesPending
  <2> QED BY <2>1, CountInvNext, Zenon
<1>3. CountInv => CountersExact
  BY CountInvExact
<1> QED BY <1>1, <1>2, <1>3, HoldInvHolds, PTL DEF HoldSpec
=============================================================================
