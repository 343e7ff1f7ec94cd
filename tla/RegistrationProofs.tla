-------------------------- MODULE RegistrationProofs --------------------------
(***************************************************************************)
(* Proofs about the registrations of a hosted NAT (Registration): the      *)
(* relay publishes the node exactly while it has a group for it, and what  *)
(* it tells of business connections is true.                               *)
(*                                                                         *)
(* The invariant comes in two layers: CoverInv is about the groups of the  *)
(* node and the registration that is at work, ConnInv about the            *)
(* connections and what is handed on of them from a group to the next.     *)
(***************************************************************************)
EXTENDS Registration, FiniteSetTheorems, TLAPS

GroupState ==
    [session : Sessions \cup {"none"}, closed : BOOLEAN, torn : BOOLEAN,
     listen : {"off", "run", "stopped", "done"}, conns : [BizConns -> 0..MaxResources],
     known : SUBSET BizConns, failed : SUBSET BizConns, dormant : SUBSET BizConns]
DormantState == [session : Sessions \cup {"none"}, ids : SUBSET BizConns, failed : SUBSET BizConns]
CoverState ==
    [group : 0..MaxGroups, retired : SUBSET Sessions,
     retiredConns : SUBSET (BizConns \X Sessions), dormant : DormantState]
RegState ==
    [pc : {"idle", "verified", "retiring", "creating", "finishing"},
     session : Sessions \cup {"none"}, resume : BOOLEAN, old : 0..MaxGroups,
     inherit : SUBSET BizConns, inheritFailed : SUBSET BizConns]

CoverTypeOK ==
    /\ groups \in [1..MaxGroups -> GroupState]
    /\ cover \in CoverState
    /\ reg \in [Regs -> RegState]
    /\ hosted \in BOOLEAN /\ lifecycle \in Regs \cup {"free"}

\* The groups are numbered as they are made; one to come is as new, one that
\* was made and is open listens.
GroupsNumbered ==
    /\ \E n \in 0..MaxGroups : Created = 1..n
    /\ \A g \in 1..MaxGroups :
          /\ groups[g].session = "none" => groups[g] = NoGroup
          /\ groups[g].session # "none" /\ ~groups[g].closed => groups[g].listen = "run"
          /\ groups[g].listen = "stopped" => groups[g].torn
          /\ groups[g].torn => groups[g].closed
    /\ cover.group # 0 => cover.group \in Created

\* One registration is at work, the holder of the lifecycle lock.
OneRegistration ==
    \A r \in Regs :
        /\ reg[r].pc # "idle" => lifecycle = r /\ reg[r].session \in Sessions
        /\ lifecycle = r => reg[r].pc # "idle"
        /\ reg[r].old # 0 => reg[r].old \in Created /\ groups[reg[r].old].closed
        /\ reg[r].pc = "verified" => /\ hosted = (cover.group # 0)
                                     /\ reg[r].inherit = {} /\ reg[r].inheritFailed = {}
        /\ reg[r].pc = "retiring" => cover.group = reg[r].old /\ cover.group # 0
                                     /\ reg[r].inherit = {} /\ reg[r].inheritFailed = {}
        /\ reg[r].pc = "creating" => cover.group = 0
        /\ reg[r].pc = "finishing" => cover.group # 0

\* An open group is the one in the table, at all times.
OpenGroupHosted ==
    \A g \in Created : ~groups[g].closed => cover.group = g

CoverInv ==
    /\ CoverTypeOK /\ GroupsNumbered /\ OneRegistration /\ OpenGroupHosted
    /\ lifecycle = "free" => hosted = (cover.group # 0)

-----------------------------------------------------------------------------
(* The groups of the node.                                                   *)

\* A group that changes keeps its number, stays closed and is the holder of
\* the node if it is open.
LEMMA CoverInvGroupChanges ==
    ASSUME CoverInv, NEW g \in Created, NEW n \in GroupState,
           groups' = [groups EXCEPT ![g] = n],
           n.session = groups[g].session,
           groups[g].closed => n.closed, ~n.closed => n.listen = "run",
           n.listen = "stopped" => n.torn, n.torn => n.closed,
           UNCHANGED <<cover, reg, lifecycle, hosted>>
    PROVE  CoverInv' /\ Created' = Created
<1>1. g \in 1..MaxGroups /\ groups[g].session # "none"
  BY DEF Created
<1>2. \A h \in 1..MaxGroups : groups'[h] = IF h = g THEN n ELSE groups[h]
  BY DEF CoverInv, CoverTypeOK
<1>3. Created' = Created
  BY <1>1, <1>2 DEF Created
<1>4. CoverTypeOK'
  BY Zenon DEF CoverInv, CoverTypeOK
<1>5. GroupsNumbered'
  BY <1>1, <1>2, <1>3 DEF CoverInv, GroupsNumbered
<1>6. Created \subseteq 1..MaxGroups
  BY DEF Created
<1>7. OneRegistration'
  BY <1>2, <1>3, <1>6 DEF CoverInv, OneRegistration
<1>8. OpenGroupHosted'
  BY <1>2, <1>3, <1>6 DEF CoverInv, OpenGroupHosted
<1> QED  BY <1>3, <1>4, <1>5, <1>7, <1>8 DEF CoverInv

\* A step that leaves the groups, the table and the registrations alone.
LEMMA CoverInvKept ==
    ASSUME CoverInv, UNCHANGED <<groups, cover, reg, lifecycle, hosted>>
    PROVE  CoverInv' /\ Created' = Created
<1>1. Created' = Created
  BY DEF Created
<1> QED  BY <1>1 DEF CoverInv, CoverTypeOK, GroupsNumbered, OneRegistration, OpenGroupHosted

\* Close of a group.
LEMMA TornGroup ==
    ASSUME CoverTypeOK, NEW g \in 1..MaxGroups
    PROVE  \E n \in GroupState :
              /\ Torn(g) = [groups EXCEPT ![g] = n]
              /\ n.session = groups[g].session /\ n.listen = groups[g].listen /\ n.failed = groups[g].failed
              /\ groups[g].torn => n = groups[g]
              /\ ~groups[g].torn => /\ n.closed /\ n.torn /\ n.known = {}
                                    /\ n.dormant = ConnectionIDs(g)
                                    /\ n.conns = [c \in BizConns |-> 0]
<1> DEFINE t == [groups[g] EXCEPT !.closed = TRUE, !.torn = TRUE, !.dormant = ConnectionIDs(g),
                                  !.conns = [c \in BizConns |-> 0], !.known = {}]
           n == IF groups[g].torn THEN groups[g] ELSE t
<1>1. groups[g] \in GroupState
  BY DEF CoverTypeOK
<1>2. ConnectionIDs(g) \subseteq BizConns
  BY <1>1 DEF ConnectionIDs, GroupState
<1>3. [c \in BizConns |-> 0] \in [BizConns -> 0..MaxResources]
  BY RegAssumption
<1>4. /\ t \in GroupState /\ t.session = groups[g].session /\ t.listen = groups[g].listen
      /\ t.failed = groups[g].failed /\ t.closed /\ t.torn /\ t.known = {}
      /\ t.dormant = ConnectionIDs(g) /\ t.conns = [c \in BizConns |-> 0]
  BY <1>1, <1>2, <1>3, Zenon DEF GroupState
<1>5. Torn(g) = [groups EXCEPT ![g] = n]
  BY DEF Torn
<1> HIDE DEF t
<1>6. n \in GroupState
  BY <1>1, <1>4
<1> QED  BY <1>4, <1>5, <1>6, Zenon

LEMMA CoverInvClosed ==
    ASSUME CoverInv, NEW g \in 1..MaxGroups, GroupClosed(g)
    PROVE  CoverInv' /\ Created' = Created
<1>1. CoverTypeOK /\ g \in Created /\ groups' = Torn(g) /\ UNCHANGED <<cover, reg, lifecycle, hosted>>
  BY DEF GroupClosed, CoverInv
<1>2. PICK n \in GroupState :
         /\ Torn(g) = [groups EXCEPT ![g] = n]
         /\ n.session = groups[g].session /\ n.listen = groups[g].listen
         /\ groups[g].torn => n = groups[g]
         /\ ~groups[g].torn => n.closed /\ n.torn
  BY <1>1, TornGroup
<1>3. n.closed /\ n.torn
  BY <1>2 DEF CoverInv, GroupsNumbered
<1> QED  BY <1>1, <1>2, <1>3, CoverInvGroupChanges, Zenon

LEMMA CoverInvStops ==
    ASSUME CoverInv, NEW g \in 1..MaxGroups, GroupStops(g)
    PROVE  CoverInv' /\ Created' = Created
<1>1. /\ CoverTypeOK /\ groups[g].listen = "run" /\ groups' = [Torn(g) EXCEPT ![g].listen = "stopped"]
      /\ UNCHANGED <<cover, reg, lifecycle, hosted>>
  BY DEF GroupStops, CoverInv
<1>2. g \in Created
  BY <1>1 DEF CoverInv, GroupsNumbered, NoGroup, Created
<1>3. PICK t \in GroupState :
         /\ Torn(g) = [groups EXCEPT ![g] = t]
         /\ t.session = groups[g].session
         /\ groups[g].torn => t = groups[g]
         /\ ~groups[g].torn => t.closed /\ t.torn
  BY <1>1, TornGroup
<1>4. t.closed /\ t.torn
  BY <1>3 DEF CoverInv, GroupsNumbered
<1> DEFINE n == [t EXCEPT !.listen = "stopped"]
<1>5. n \in GroupState /\ n.session = t.session /\ n.listen = "stopped" /\ n.closed /\ n.torn
  BY <1>4 DEF GroupState
<1>6. groups' = [groups EXCEPT ![g] = n]
  BY <1>1, <1>3, Zenon DEF CoverTypeOK
<1> HIDE DEF n
<1>7. n.session = groups[g].session /\ UNCHANGED <<cover, reg, lifecycle, hosted>>
  BY <1>1, <1>3, <1>5
<1> QED  BY <1>2, <1>5, <1>6, <1>7, CoverInvGroupChanges, Zenon

\* listenGroup of a group that stopped: it leaves the table if it is there.
LEMMA CoverInvLeaves ==
    ASSUME CoverInv, NEW g \in 1..MaxGroups, GroupLeaves(g)
    PROVE  CoverInv' /\ Created' = Created
<1> DEFINE n == [groups[g] EXCEPT !.listen = "done"]
<1>1. /\ groups[g] \in GroupState /\ groups[g].listen = "stopped" /\ lifecycle = "free" /\ groups[g].torn
      /\ groups[g].closed /\ groups[g].session # "none" /\ g \in Created
  BY DEF GroupLeaves, CoverInv, CoverTypeOK, GroupsNumbered, NoGroup, Created
<1>2. /\ n \in GroupState /\ n.session = groups[g].session /\ n.listen = "done" /\ n.closed /\ n.torn
  BY <1>1 DEF GroupState
<1>3. groups' = [groups EXCEPT ![g] = n] /\ UNCHANGED <<reg, lifecycle>>
  BY DEF GroupLeaves, CoverInv, CoverTypeOK
<1> HIDE DEF n
<1>4. \A h \in 1..MaxGroups : groups'[h] = IF h = g THEN n ELSE groups[h]
  BY <1>3 DEF CoverInv, CoverTypeOK
<1>5. Created' = Created /\ Created \subseteq 1..MaxGroups
  BY <1>1, <1>2, <1>4 DEF Created
<1>6. CASE cover.group # g
  <2>1. UNCHANGED <<cover, hosted>>
    BY <1>6 DEF GroupLeaves
  <2> QED  BY <2>1, <1>1, <1>2, <1>3, CoverInvGroupChanges, Zenon
<1>7. CASE cover.group = g
  <2> DEFINE d == [session |-> groups[g].session, ids |-> groups[g].dormant, failed |-> groups[g].failed]
  <2>1. cover' = [cover EXCEPT !.group = 0, !.dormant = d] /\ hosted' = FALSE
    BY <1>7 DEF GroupLeaves
  <2>2. d \in DormantState
    BY <1>1 DEF GroupState, DormantState
  <2> HIDE DEF d
  <2>3. cover' \in CoverState /\ cover'.group = 0
    <3>1. cover \in CoverState /\ 0 \in 0..MaxGroups
      BY RegAssumption DEF CoverInv, CoverTypeOK
    <3> QED  BY <2>1, <2>2, <3>1, Zenon DEF CoverState
  <2>4. CoverTypeOK'
    BY <2>1, <2>3, <1>2, <1>3, Zenon DEF CoverInv, CoverTypeOK
  <2>5. GroupsNumbered'
    BY <2>3, <1>1, <1>2, <1>4, <1>5 DEF CoverInv, GroupsNumbered
  <2>6. \A r \in Regs : reg[r].pc = "idle"
    BY <1>1, RegAssumption DEF CoverInv, OneRegistration
  <2>7. OneRegistration'
    BY <2>6, <1>2, <1>3, <1>4, <1>5 DEF CoverInv, OneRegistration
  <2>8. OpenGroupHosted'
    BY <1>2, <1>4, <1>5, <1>7, Zenon DEF CoverInv, OpenGroupHosted
  <2> QED  BY <2>1, <2>3, <2>4, <2>5, <2>7, <2>8, <1>5, Zenon DEF CoverInv
<1> QED  BY <1>6, <1>7

-----------------------------------------------------------------------------
(* The registration at work.                                                 *)

LEMMA IdleReg ==
    /\ NoReg \in RegState /\ NoReg.pc = "idle" /\ NoReg.old = 0
    /\ NoReg.inherit = {} /\ NoReg.inheritFailed = {}
BY RegAssumption DEF NoReg, RegState

\* A registration is verified and takes the lifecycle lock.
LEMMA CoverInvVerified ==
    ASSUME CoverInv, NEW r \in Regs, NEW s \in Sessions, NEW resume \in BOOLEAN, RegVerified(r, s, resume)
    PROVE  CoverInv' /\ Created' = Created
<1> DEFINE n == [NoReg EXCEPT !.pc = "verified", !.session = s, !.resume = resume]
<1>1. /\ n \in RegState /\ n.pc = "verified" /\ n.session = s /\ n.old = 0
      /\ n.inherit = {} /\ n.inheritFailed = {}
  BY IdleReg, Zenon DEF RegState
<1>2. /\ lifecycle = "free" /\ lifecycle' = r /\ reg' = [reg EXCEPT ![r] = n]
      /\ UNCHANGED <<cover, groups, hosted>>
  BY DEF RegVerified
<1> HIDE DEF n
<1>3. \A q \in Regs : reg'[q] = IF q = r THEN n ELSE reg[q]
  BY <1>2 DEF CoverInv, CoverTypeOK
<1>4. Created' = Created
  BY <1>2 DEF Created
<1>5. \A q \in Regs : reg[q].pc = "idle"
  BY <1>2, RegAssumption DEF CoverInv, OneRegistration
<1>6. CoverTypeOK'
  BY <1>1, <1>2 DEF CoverInv, CoverTypeOK
<1>7. GroupsNumbered' /\ OpenGroupHosted'
  BY <1>2, <1>4 DEF CoverInv, GroupsNumbered, OpenGroupHosted
<1>8. OneRegistration'
  BY <1>1, <1>2, <1>3, <1>4, <1>5 DEF CoverInv, OneRegistration
<1> QED  BY <1>2, <1>4, <1>6, <1>7, <1>8, RegAssumption DEF CoverInv

\* A registration that is refused, or joins the group, releases the lock.
LEMMA CoverInvAnswered ==
    ASSUME CoverInv, NEW r \in Regs, RegStale(r) \/ RegAttach(r)
    PROVE  CoverInv' /\ Created' = Created
<1>1. /\ reg[r].pc = "verified" /\ lifecycle' = "free" /\ reg' = [reg EXCEPT ![r] = NoReg]
      /\ UNCHANGED <<cover, groups, hosted>>
  BY DEF RegStale, RegAttach
<1>2. \A q \in Regs : reg'[q] = IF q = r THEN NoReg ELSE reg[q]
  BY <1>1 DEF CoverInv, CoverTypeOK
<1>3. Created' = Created
  BY <1>1 DEF Created
<1>4. lifecycle = r /\ \A q \in Regs : q # r => reg[q].pc = "idle"
  BY <1>1 DEF CoverInv, OneRegistration
<1>5. CoverTypeOK'
  BY <1>1, IdleReg DEF CoverInv, CoverTypeOK
<1>6. GroupsNumbered' /\ OpenGroupHosted'
  BY <1>1, <1>3 DEF CoverInv, GroupsNumbered, OpenGroupHosted
<1>7. OneRegistration'
  BY <1>1, <1>2, <1>3, <1>4, IdleReg, RegAssumption DEF CoverInv, OneRegistration
<1>8. hosted' = (cover'.group # 0)
  BY <1>1 DEF CoverInv, OneRegistration
<1> QED  BY <1>3, <1>5, <1>6, <1>7, <1>8 DEF CoverInv

\* The steps of a registration that move its own record only.
LEMMA RegMoves ==
    ASSUME CoverInv, NEW r \in Regs, NEW n \in RegState, reg' = [reg EXCEPT ![r] = n],
           reg[r].pc # "idle", n.session = reg[r].session, n.pc \in {"retiring", "creating", "finishing"},
           UNCHANGED <<lifecycle, hosted>>, groups' \in [1..MaxGroups -> GroupState],
           cover' \in CoverState, GroupsNumbered', OpenGroupHosted',
           n.old # 0 => n.old \in Created' /\ groups'[n.old].closed,
           n.pc = "retiring" => cover'.group = n.old /\ cover'.group # 0 /\ n.inherit = {} /\ n.inheritFailed = {},
           n.pc = "creating" => cover'.group = 0,
           n.pc = "finishing" => cover'.group # 0,
           \A q \in Regs : q # r /\ reg[q].old # 0 => reg[q].old \in Created' /\ groups'[reg[q].old].closed
    PROVE  CoverInv'
<1>1. \A q \in Regs : reg'[q] = IF q = r THEN n ELSE reg[q]
  BY DEF CoverInv, CoverTypeOK
<1>2. lifecycle = r /\ reg[r].session \in Sessions /\ \A q \in Regs : q # r => reg[q].pc = "idle"
  BY DEF CoverInv, OneRegistration
<1>3. CoverTypeOK'
  BY DEF CoverInv, CoverTypeOK
<1>4. OneRegistration'
  BY <1>1, <1>2 DEF CoverInv, OneRegistration
<1> QED  BY <1>2, <1>3, <1>4, RegAssumption DEF CoverInv

\* The old group is stopped: its context is cancelled under t.lock.
LEMMA CoverInvRetire ==
    ASSUME CoverInv, NEW r \in Regs, RegRetire(r)
    PROVE  CoverInv' /\ Created' = Created
<1> DEFINE g == cover.group
           n == [groups[g] EXCEPT !.closed = TRUE]
           m == [reg[r] EXCEPT !.pc = "retiring", !.old = g]
<1>1. /\ reg[r].pc = "verified" /\ g \in Created /\ g \in 1..MaxGroups /\ g # 0 /\ reg[r] \in RegState
      /\ groups[g] \in GroupState
  BY DEF RegRetire, CoverInv, CoverTypeOK, GroupsNumbered, Created
<1>2. /\ n \in GroupState /\ n.session = groups[g].session /\ n.listen = groups[g].listen
      /\ n.torn = groups[g].torn /\ n.closed
  BY <1>1, Zenon DEF GroupState
<1>3. /\ m \in RegState /\ m.pc = "retiring" /\ m.old = g /\ m.session = reg[r].session
      /\ m.inherit = reg[r].inherit /\ m.inheritFailed = reg[r].inheritFailed
  <2>1. g \in 0..MaxGroups /\ reg[r] \in RegState
    BY <1>1
  <2> HIDE DEF g
  <2> QED  BY <2>1, Zenon DEF RegState
<1>4. /\ groups' = [groups EXCEPT ![g] = n] /\ reg' = [reg EXCEPT ![r] = m]
      /\ UNCHANGED <<cover, lifecycle, hosted>>
  BY Zenon DEF RegRetire, CoverInv, CoverTypeOK
<1> HIDE DEF n, m
<1>5. \A h \in 1..MaxGroups : groups'[h] = IF h = g THEN n ELSE groups[h]
  BY <1>4 DEF CoverInv, CoverTypeOK
<1>6. Created' = Created /\ Created \subseteq 1..MaxGroups
  BY <1>1, <1>2, <1>5 DEF Created
<1>7. groups' \in [1..MaxGroups -> GroupState] /\ cover' \in CoverState
  BY <1>2, <1>4, Zenon DEF CoverInv, CoverTypeOK
<1>8. GroupsNumbered'
  <2>1. \A h \in 1..MaxGroups :
          /\ groups'[h].session = "none" => groups'[h] = NoGroup
          /\ groups'[h].session # "none" /\ ~groups'[h].closed => groups'[h].listen = "run"
          /\ groups'[h].listen = "stopped" => groups'[h].torn
          /\ groups'[h].torn => groups'[h].closed
    BY <1>1, <1>2, <1>5 DEF CoverInv, GroupsNumbered, Created
  <2> QED  BY <2>1, <1>4, <1>6 DEF CoverInv, GroupsNumbered
<1>9. OpenGroupHosted'
  BY <1>2, <1>4, <1>5, <1>6 DEF CoverInv, OpenGroupHosted
<1>10. groups'[g].closed /\ reg[r].inherit = {} /\ reg[r].inheritFailed = {}
  BY <1>1, <1>2, <1>5 DEF CoverInv, OneRegistration
<1>11. \A q \in Regs : reg[q].old # 0 => reg[q].old \in Created' /\ groups'[reg[q].old].closed
  BY <1>2, <1>5, <1>6, Zenon DEF CoverInv, OneRegistration
<1>12. CoverInv'
  BY <1>1, <1>3, <1>4, <1>6, <1>7, <1>8, <1>9, <1>10, <1>11, RegMoves, Zenon
<1> QED  BY <1>6, <1>12

\* What retiring a session makes of the table.
LEMMA RetireType ==
    ASSUME NEW cv \in CoverState, NEW s \in Sessions, NEW ids \in SUBSET BizConns
    PROVE  /\ RetireSession(cv, s, ids) \in CoverState
           /\ RetireSession(cv, s, ids).group = 0
           /\ RetireSession(cv, s, ids).dormant = cv.dormant
           /\ RetireSession(cv, s, ids).retired = cv.retired \cup {s}
           /\ RetireSession(cv, s, ids).retiredConns = {p \in cv.retiredConns : p[1] \notin ids} \cup (ids \X {s})
<1> DEFINE rc == {p \in cv.retiredConns : p[1] \notin ids} \cup (ids \X {s})
<1>1. RetireSession(cv, s, ids) = [cv EXCEPT !.group = 0, !.retired = cv.retired \cup {s}, !.retiredConns = rc]
  BY DEF RetireSession
<1>2. rc \in SUBSET (BizConns \X Sessions)
  BY DEF CoverState
<1> HIDE DEF rc
<1>3. 0 \in 0..MaxGroups
  BY RegAssumption
<1>4. /\ RetireSession(cv, s, ids) \in CoverState
      /\ RetireSession(cv, s, ids).group = 0
      /\ RetireSession(cv, s, ids).dormant = cv.dormant
      /\ RetireSession(cv, s, ids).retired = cv.retired \cup {s}
      /\ RetireSession(cv, s, ids).retiredConns = rc
  BY <1>1, <1>2, <1>3, Zenon DEF CoverState
<1> QED  BY <1>4 DEF rc

\* The old group's session is retired, the table has no group.
LEMMA CoverInvSnapshot ==
    ASSUME CoverInv, NEW r \in Regs, RegSnapshot(r)
    PROVE  CoverInv' /\ Created' = Created
<1> DEFINE g == reg[r].old
           m == [reg[r] EXCEPT !.pc = "creating"]
           ids == ConnectionIDs(g)
<1>1. /\ reg[r].pc = "retiring" /\ g = cover.group /\ g \in Created /\ g \in 1..MaxGroups
      /\ reg[r] \in RegState /\ groups[g] \in GroupState /\ groups[g].session \in Sessions
  BY DEF RegSnapshot, CoverInv, CoverTypeOK, GroupsNumbered, OneRegistration, Created, GroupState
<1>2. /\ m \in RegState /\ m.pc = "creating" /\ m.old = g /\ m.session = reg[r].session
  BY <1>1 DEF RegState
<1>3. ids \in SUBSET BizConns
  BY <1>1 DEF ConnectionIDs, GroupState
<1>4. /\ cover' = RetireSession(cover, groups[g].session, ids) /\ reg' = [reg EXCEPT ![r] = m]
      /\ UNCHANGED <<groups, lifecycle, hosted>>
  BY DEF RegSnapshot, CoverInv, CoverTypeOK
<1> HIDE DEF m, ids
<1>5. cover' \in CoverState /\ cover'.group = 0
  BY <1>1, <1>3, <1>4, RetireType DEF CoverInv, CoverTypeOK
<1>6. Created' = Created
  BY <1>4 DEF Created
<1>7. groups' \in [1..MaxGroups -> GroupState]
  BY <1>4 DEF CoverInv, CoverTypeOK
<1>8. GroupsNumbered'
  BY <1>4, <1>5, <1>6 DEF CoverInv, GroupsNumbered
<1>9. groups[g].closed
  BY <1>1, RegAssumption DEF CoverInv, OneRegistration
<1>10. OpenGroupHosted'
  BY <1>1, <1>4, <1>6, <1>9 DEF CoverInv, OpenGroupHosted
<1>11. \A q \in Regs : reg[q].old # 0 => reg[q].old \in Created' /\ groups'[reg[q].old].closed
  BY <1>4, <1>6 DEF CoverInv, OneRegistration
<1>12. CoverInv'
  BY <1>1, <1>2, <1>4, <1>5, <1>6, <1>7, <1>8, <1>9, <1>10, <1>11, RegMoves, Zenon
<1> QED  BY <1>6, <1>12

\* The group in the table is closed and of the same session, or there is none.
LEMMA CoverInvInherit ==
    ASSUME CoverInv, NEW r \in Regs, RegInherit(r) \/ RegNew(r)
    PROVE  CoverInv' /\ Created' = Created
<1>1. reg[r].pc = "verified" /\ reg[r] \in RegState /\ cover \in CoverState
      /\ UNCHANGED <<groups, lifecycle, hosted>>
  BY DEF RegInherit, RegNew, CoverInv, CoverTypeOK
<1>2. cover.group # 0 => cover.group \in Created /\ groups[cover.group].closed /\ RegInherit(r)
  BY DEF RegInherit, RegNew, CoverInv, GroupsNumbered
<1>3. cover' \in CoverState /\ cover'.group = 0
  BY <1>1, RegAssumption DEF RegInherit, RegNew, CoverState
<1>4. PICK m \in RegState : /\ reg' = [reg EXCEPT ![r] = m] /\ m.pc = "creating" /\ m.session = reg[r].session
                            /\ m.old = reg[r].old
  <2>1. CASE RegInherit(r)
    <3> DEFINE i == ConnectionIDs(cover.group)
               f == groups[cover.group].failed
               m == [reg[r] EXCEPT !.pc = "creating", !.inherit = i, !.inheritFailed = f]
    <3>1. reg' = [reg EXCEPT ![r] = m]
      BY <2>1, Zenon DEF RegInherit, CoverInv, CoverTypeOK
    <3>2. groups[cover.group] \in GroupState
      BY <2>1, <1>2 DEF RegInherit, CoverInv, CoverTypeOK, Created
    <3>3. i \in SUBSET BizConns /\ f \in SUBSET BizConns
      BY <3>2 DEF ConnectionIDs, GroupState
    <3> HIDE DEF i, f
    <3>4. m \in RegState /\ m.pc = "creating" /\ m.session = reg[r].session /\ m.old = reg[r].old
      BY <3>3, <1>1, Zenon DEF RegState
    <3> HIDE DEF m
    <3> QED  BY <3>1, <3>4, Zenon
  <2>2. CASE RegNew(r)
    <3> DEFINE m == [reg[r] EXCEPT !.pc = "creating"]
    <3>1. reg' = [reg EXCEPT ![r] = m]
      BY <2>2 DEF RegNew, CoverInv, CoverTypeOK
    <3>2. m \in RegState /\ m.pc = "creating" /\ m.session = reg[r].session /\ m.old = reg[r].old
      BY <1>1 DEF RegState
    <3> HIDE DEF m
    <3> QED  BY <3>1, <3>2, Zenon
  <2> QED  BY <2>1, <2>2
<1>5. Created' = Created
  BY <1>1 DEF Created
<1>6. groups' \in [1..MaxGroups -> GroupState] /\ GroupsNumbered'
  BY <1>1, <1>3, <1>5 DEF CoverInv, CoverTypeOK, GroupsNumbered
<1>7. OpenGroupHosted'
  BY <1>1, <1>2, <1>5, RegAssumption DEF CoverInv, OpenGroupHosted, Created
<1>8. \A q \in Regs : reg[q].old # 0 => reg[q].old \in Created' /\ groups'[reg[q].old].closed
  BY <1>1, <1>5 DEF CoverInv, OneRegistration
<1>9. CoverInv'
  BY <1>1, <1>3, <1>4, <1>6, <1>7, <1>8, RegMoves, Zenon
<1> QED  BY <1>5, <1>9

\* The number of the next group.
LEMMA NextGroup ==
    ASSUME CoverInv
    PROVE  /\ Cardinality(Created) \in 0..MaxGroups
           /\ Created = 1..Cardinality(Created)
           /\ Cardinality(Created) + 1 \notin Created
<1>1. PICK n \in 0..MaxGroups : Created = 1..n
  BY DEF CoverInv, GroupsNumbered
<1>2. Cardinality(1..n) = n
  BY FS_Interval, RegAssumption
<1> QED  BY <1>1, <1>2, RegAssumption

\* The new group takes the node; nothing else is open.
LEMMA CoverInvCreate ==
    ASSUME CoverInv, NEW r \in Regs, RegCreate(r)
    PROVE  /\ CoverInv'
           /\ LET g == Cardinality(Created) + 1
                  d == cover.dormant
                  same == d.session = reg[r].session
              IN /\ g \in 1..MaxGroups /\ g \notin Created /\ Created' = Created \cup {g}
                 /\ cover'.group = g /\ cover'.dormant = NoDormant
                 /\ d.session = "none" \/ same => cover'.retiredConns = cover.retiredConns
                 /\ ~(d.session = "none" \/ same) =>
                        cover'.retiredConns = {p \in cover.retiredConns : p[1] \notin d.ids} \cup (d.ids \X {d.session})
                 /\ \A h \in 1..MaxGroups : h # g => groups'[h] = groups[h]
                 /\ groups'[g].session = reg[r].session /\ groups'[g].closed = FALSE /\ groups'[g].torn = FALSE
                 /\ groups'[g].known = reg[r].inherit \cup (IF same THEN d.ids ELSE {})
                 /\ groups'[g].failed = reg[r].inheritFailed \cup (IF same THEN d.failed ELSE {})
                 /\ groups'[g].dormant = {} /\ groups'[g].conns = [c \in BizConns |-> 0]
                 /\ \A q \in Regs : reg'[q].pc # "creating" /\ reg'[q].session = reg[q].session
                                    /\ reg'[q].inherit = reg[q].inherit /\ reg'[q].inheritFailed = reg[q].inheritFailed
<1> DEFINE g == Cardinality(Created) + 1
           d == cover.dormant
           same == d.session = reg[r].session
           cv == IF d.session = "none" \/ same THEN cover ELSE RetireSession(cover, d.session, d.ids)
           k == reg[r].inherit \cup (IF same THEN d.ids ELSE {})
           f == reg[r].inheritFailed \cup (IF same THEN d.failed ELSE {})
           n == [NoGroup EXCEPT !.session = reg[r].session, !.listen = "run", !.known = k, !.failed = f]
           m == [reg[r] EXCEPT !.pc = "finishing"]
<1>1. /\ reg[r].pc = "creating" /\ cover.group = 0 /\ g <= MaxGroups
      /\ reg[r] \in RegState /\ cover \in CoverState /\ reg[r].session \in Sessions
  BY DEF RegCreate, CoverInv, CoverTypeOK, OneRegistration
<1>2. /\ cover' = [cv EXCEPT !.group = g, !.dormant = NoDormant]
      /\ groups' = [groups EXCEPT ![g] = n] /\ reg' = [reg EXCEPT ![r] = m]
      /\ UNCHANGED <<lifecycle, hosted>>
  BY <1>1 DEF RegCreate, CoverInv, CoverTypeOK
<1>3. g \in 1..MaxGroups /\ g \notin Created /\ Created = 1..(g - 1) /\ g # 0
  BY <1>1, NextGroup, RegAssumption
<1>4. k \in SUBSET BizConns /\ f \in SUBSET BizConns
  BY <1>1 DEF RegState, CoverState, DormantState
<1>5. NoGroup \in GroupState /\ NoGroup.conns = [c \in BizConns |-> 0] /\ NoGroup.dormant = {}
      /\ NoGroup.closed = FALSE /\ NoGroup.torn = FALSE
  BY RegAssumption DEF NoGroup, GroupState
<1>6. /\ n \in GroupState /\ n.session = reg[r].session /\ n.listen = "run" /\ n.known = k /\ n.failed = f
      /\ n.closed = FALSE /\ n.torn = FALSE /\ n.dormant = {} /\ n.conns = [c \in BizConns |-> 0]
  <2> HIDE DEF k, f
  <2> QED  BY <1>1, <1>4, <1>5, Zenon DEF GroupState
<1>7. /\ m \in RegState /\ m.pc = "finishing" /\ m.session = reg[r].session /\ m.old = reg[r].old
      /\ m.inherit = reg[r].inherit /\ m.inheritFailed = reg[r].inheritFailed
  BY <1>1 DEF RegState
<1>8. /\ cv \in CoverState
      /\ d.session = "none" \/ same => cv.retiredConns = cover.retiredConns
      /\ ~(d.session = "none" \/ same) =>
           cv.retiredConns = {p \in cover.retiredConns : p[1] \notin d.ids} \cup (d.ids \X {d.session})
  <2>1. CASE d.session = "none" \/ same
    BY <2>1, <1>1
  <2>2. CASE ~(d.session = "none" \/ same)
    <3>1. d.session \in Sessions /\ d.ids \in SUBSET BizConns
      BY <2>2, <1>1 DEF CoverState, DormantState
    <3> QED  BY <2>2, <3>1, <1>1, RetireType
  <2> QED  BY <2>1, <2>2
<1>9. cover' \in CoverState /\ cover'.group = g /\ cover'.dormant = NoDormant /\ cover'.retiredConns = cv.retiredConns
  <2>1. NoDormant \in DormantState /\ g \in 0..MaxGroups
    BY <1>3 DEF NoDormant, DormantState
  <2> HIDE DEF g, cv
  <2> QED  BY <2>1, <1>2, <1>8, Zenon DEF CoverState
<1> HIDE DEF g, n, m, k, f, cv
<1>10. \A h \in 1..MaxGroups : groups'[h] = IF h = g THEN n ELSE groups[h]
  BY <1>2 DEF CoverInv, CoverTypeOK
<1>11. Created' = Created \cup {g}
  BY <1>1, <1>3, <1>6, <1>10, RegAssumption DEF Created
<1>12. groups' \in [1..MaxGroups -> GroupState]
  BY <1>2, <1>6, Zenon DEF CoverInv, CoverTypeOK
<1>13. GroupsNumbered'
  <2>1. \E j \in 0..MaxGroups : Created' = 1..j
    <3>1. Created' = 1..g /\ g \in 0..MaxGroups
      BY <1>3, <1>11
    <3> QED  BY <3>1
  <2>2. \A h \in 1..MaxGroups :
          /\ groups'[h].session = "none" => groups'[h] = NoGroup
          /\ groups'[h].session # "none" /\ ~groups'[h].closed => groups'[h].listen = "run"
          /\ groups'[h].listen = "stopped" => groups'[h].torn
          /\ groups'[h].torn => groups'[h].closed
    BY <1>1, <1>6, <1>10, RegAssumption DEF CoverInv, GroupsNumbered
  <2> QED  BY <2>1, <2>2, <1>9, <1>11 DEF GroupsNumbered
<1>14. OpenGroupHosted'
  <2>1. \A h \in Created : h # g /\ h \in 1..MaxGroups /\ h # 0 /\ groups[h].closed
    BY <1>1, <1>3 DEF CoverInv, OpenGroupHosted, Created
  <2> QED  BY <2>1, <1>9, <1>10, <1>11 DEF OpenGroupHosted
<1>15. \A q \in Regs : reg[q].old # 0 => reg[q].old \in Created' /\ groups'[reg[q].old].closed
  BY <1>3, <1>10, <1>11 DEF CoverInv, OneRegistration, Created
<1>16. CoverInv'
  BY <1>1, <1>2, <1>3, <1>7, <1>9, <1>12, <1>13, <1>14, <1>15, RegMoves, Zenon
<1>17. \A q \in Regs : reg'[q].pc # "creating" /\ reg'[q].session = reg[q].session
                       /\ reg'[q].inherit = reg[q].inherit /\ reg'[q].inheritFailed = reg[q].inheritFailed
  <2>1. \A q \in Regs : reg'[q] = IF q = r THEN m ELSE reg[q]
    BY <1>2 DEF CoverInv, CoverTypeOK
  <2>2. \A q \in Regs : q # r => reg[q].pc = "idle"
    BY <1>1 DEF CoverInv, OneRegistration
  <2> QED  BY <2>1, <2>2, <1>7
<1> QED  BY <1>3, <1>6, <1>8, <1>9, <1>10, <1>11, <1>16, <1>17 DEF g, k, f

\* The replaced group is closed, the node is published, the lock is released.
LEMMA CoverInvFinish ==
    ASSUME CoverInv, NEW r \in Regs, RegFinish(r)
    PROVE  CoverInv' /\ Created' = Created
<1>1. /\ reg[r].pc = "finishing" /\ hosted' = TRUE /\ lifecycle' = "free" /\ UNCHANGED cover
      /\ reg' = [reg EXCEPT ![r] = NoReg] /\ CoverTypeOK /\ cover.group # 0
  BY DEF RegFinish, CoverInv, OneRegistration
<1>2. \E g \in 1..MaxGroups, n \in GroupState :
         /\ groups' = [groups EXCEPT ![g] = n] /\ n.session = groups[g].session
         /\ n.listen = groups[g].listen /\ (n = groups[g] \/ (n.closed /\ n.torn /\ g \in Created))
  <2>1. CASE reg[r].old = 0
    <3>1. groups' = groups /\ cover.group \in 1..MaxGroups
      BY <2>1, <1>1 DEF RegFinish, CoverInv, GroupsNumbered, Created
    <3>2. groups' = [groups EXCEPT ![cover.group] = groups[cover.group]] /\ groups[cover.group] \in GroupState
      BY <3>1, <1>1 DEF CoverTypeOK
    <3> QED  BY <3>1, <3>2, Zenon
  <2>2. CASE reg[r].old # 0
    <3>1. groups' = Torn(reg[r].old) /\ reg[r].old \in 1..MaxGroups /\ reg[r].old \in Created
      BY <2>2 DEF RegFinish, CoverInv, OneRegistration, Created
    <3> DEFINE g == reg[r].old
    <3> HIDE DEF g
    <3>2. PICK n \in GroupState :
             /\ Torn(g) = [groups EXCEPT ![g] = n]
             /\ n.session = groups[g].session /\ n.listen = groups[g].listen
             /\ groups[g].torn => n = groups[g]
             /\ ~groups[g].torn => n.closed /\ n.torn
      BY <3>1, <1>1, TornGroup, Zenon DEF g
    <3> QED  BY <3>1, <3>2, Zenon DEF g
  <2> QED  BY <2>1, <2>2
<1>3. PICK g \in 1..MaxGroups, n \in GroupState :
         /\ groups' = [groups EXCEPT ![g] = n] /\ n.session = groups[g].session
         /\ n.listen = groups[g].listen /\ (n = groups[g] \/ (n.closed /\ n.torn /\ g \in Created))
  BY <1>2, Zenon
<1>4. \A h \in 1..MaxGroups : groups'[h] = IF h = g THEN n ELSE groups[h]
  BY <1>3, <1>1 DEF CoverTypeOK
<1>5. Created' = Created /\ Created \subseteq 1..MaxGroups
  BY <1>3, <1>4 DEF Created
<1>6. lifecycle = r /\ \A q \in Regs : q # r => reg[q].pc = "idle"
  BY <1>1 DEF CoverInv, OneRegistration
<1>7. \A q \in Regs : reg'[q] = IF q = r THEN NoReg ELSE reg[q]
  BY <1>1 DEF CoverTypeOK
<1>8. CoverTypeOK'
  BY <1>1, <1>3, IdleReg DEF CoverTypeOK
<1>9. GroupsNumbered'
  <2>1. \A h \in 1..MaxGroups :
          /\ groups'[h].session = "none" => groups'[h] = NoGroup
          /\ groups'[h].session # "none" /\ ~groups'[h].closed => groups'[h].listen = "run"
          /\ groups'[h].listen = "stopped" => groups'[h].torn
          /\ groups'[h].torn => groups'[h].closed
    BY <1>3, <1>4, <1>5 DEF CoverInv, GroupsNumbered, Created
  <2> QED  BY <2>1, <1>1, <1>5 DEF CoverInv, GroupsNumbered
<1>10. \A h \in 1..MaxGroups : groups[h].closed => groups'[h].closed
  BY <1>3, <1>4
<1>11. OneRegistration'
  <2>1. \A q \in Regs : reg'[q].pc = "idle" /\ lifecycle' # q
    BY <1>1, <1>6, <1>7, IdleReg, RegAssumption
  <2>2. \A q \in Regs : reg'[q].old # 0 => reg'[q].old \in Created' /\ groups'[reg'[q].old].closed
    BY <1>5, <1>7, <1>10, IdleReg, ZenonT(30) DEF CoverInv, OneRegistration
  <2> QED  BY <2>1, <2>2 DEF OneRegistration
<1>12. OpenGroupHosted'
  BY <1>1, <1>5, <1>10, Zenon DEF CoverInv, OpenGroupHosted
<1> QED  BY <1>1, <1>5, <1>8, <1>9, <1>11, <1>12, Zenon DEF CoverInv

-----------------------------------------------------------------------------
(* The connections of a group.                                               *)

\* StreamOn of a new connection.
LEMMA CoverInvStreamOn ==
    ASSUME CoverInv, NEW l \in Legs, LegStreamOn(l), leg[l].group \in Created, leg[l].conn \in BizConns
    PROVE  /\ CoverInv' /\ Created' = Created
           /\ LET x == Cardinality(Used) + 1  g == leg[l].group  c == leg[l].conn
              IN /\ \A h \in 1..MaxGroups : h # g => groups'[h] = groups[h]
                 /\ groups'[g].session = groups[g].session /\ groups'[g].torn = groups[g].torn
                 /\ groups'[g].closed = groups[g].closed /\ groups'[g].dormant = groups[g].dormant
                 /\ groups'[g].conns = [groups[g].conns EXCEPT ![c] = x]
                 /\ groups'[g].known = groups[g].known \cup {c}
                 /\ groups'[g].failed = groups[g].failed \ {c}
                 /\ x \in 1..MaxResources
<1> DEFINE x == Cardinality(Used) + 1
           g == leg[l].group
           c == leg[l].conn
           cs == [groups[g].conns EXCEPT ![c] = x]
           k == groups[g].known \cup {c}
           f == groups[g].failed \ {c}
           n == [groups[g] EXCEPT !.conns = cs, !.known = k, !.failed = f]
<1>1. groups[g] \in GroupState /\ g \in 1..MaxGroups /\ x <= MaxResources /\ UNCHANGED <<cover, reg, lifecycle, hosted>>
  BY DEF LegStreamOn, CoverInv, CoverTypeOK, Created
<1>2. x \in 1..MaxResources
  <2>1. Used \subseteq 1..MaxResources
    BY DEF Used
  <2>2. IsFiniteSet(1..MaxResources)
    BY FS_Interval, RegAssumption
  <2>3. IsFiniteSet(Used)
    BY <2>1, <2>2, FS_Subset, Zenon
  <2>4. Cardinality(Used) \in Nat
    BY <2>3, FS_CardinalityType
  <2> QED  BY <2>4, <1>1, RegAssumption
<1>3. groups' = [groups EXCEPT ![g] = n]
  BY <1>1, Zenon DEF LegStreamOn, CoverInv, CoverTypeOK
<1> HIDE DEF x
<1>4. cs \in [BizConns -> 0..MaxResources] /\ k \in SUBSET BizConns /\ f \in SUBSET BizConns
  BY <1>1, <1>2 DEF GroupState
<1> HIDE DEF cs, k, f
<1>5. /\ n \in GroupState /\ n.session = groups[g].session /\ n.torn = groups[g].torn
      /\ n.closed = groups[g].closed /\ n.dormant = groups[g].dormant /\ n.conns = cs /\ n.known = k
      /\ n.failed = f /\ n.listen = groups[g].listen
  BY <1>1, <1>4, Zenon DEF GroupState
<1> HIDE DEF n
<1>6. ~n.closed => n.listen = "run"
  BY <1>1, <1>5 DEF CoverInv, GroupsNumbered, Created
<1>7. (n.listen = "stopped" => n.torn) /\ (n.torn => n.closed)
  BY <1>1, <1>5 DEF CoverInv, GroupsNumbered
<1>8. CoverInv' /\ Created' = Created
  BY <1>1, <1>3, <1>5, <1>6, <1>7, CoverInvGroupChanges, Zenon
<1>9. \A h \in 1..MaxGroups : groups'[h] = IF h = g THEN n ELSE groups[h]
  BY <1>3 DEF CoverInv, CoverTypeOK
<1> QED  BY <1>1, <1>2, <1>5, <1>8, <1>9, Zenon DEF x, cs, k, f

\* The connection c of group g leaves the group's table if x is still its
\* resource, and may be barred from resuming.
ConnectionDropped(g, c, x) ==
    /\ \A h \in 1..MaxGroups : h # g => groups'[h] = groups[h]
    /\ groups'[g].session = groups[g].session /\ groups'[g].torn = groups[g].torn
    /\ groups'[g].closed = groups[g].closed /\ groups'[g].dormant = groups[g].dormant
    /\ groups'[g].known = groups[g].known
    /\ groups[g].failed \subseteq groups'[g].failed /\ groups'[g].failed \subseteq groups[g].failed \cup {c}
    /\ \A d \in BizConns :
          \/ groups'[g].conns[d] = groups[g].conns[d]
          \/ groups'[g].conns[d] = 0 /\ d = c /\ groups[g].conns[d] = x

LEMMA CoverInvDropped ==
    ASSUME CoverInv, NEW g \in Created, NEW c \in BizConns, NEW x,
           NEW f \in SUBSET BizConns, groups[g].failed \subseteq f, f \subseteq groups[g].failed \cup {c},
           NEW cs \in [BizConns -> 0..MaxResources],
           \A d \in BizConns : cs[d] = groups[g].conns[d] \/ (cs[d] = 0 /\ d = c /\ groups[g].conns[d] = x),
           groups' = [groups EXCEPT ![g] = [groups[g] EXCEPT !.conns = cs, !.failed = f]],
           UNCHANGED <<cover, reg, lifecycle, hosted>>
    PROVE  CoverInv' /\ Created' = Created /\ ConnectionDropped(g, c, x)
<1> DEFINE n == [groups[g] EXCEPT !.conns = cs, !.failed = f]
<1>1. groups[g] \in GroupState /\ g \in 1..MaxGroups /\ groups' = [groups EXCEPT ![g] = n]
  BY DEF CoverInv, CoverTypeOK, Created
<1>2. /\ n \in GroupState /\ n.session = groups[g].session /\ n.torn = groups[g].torn
      /\ n.closed = groups[g].closed /\ n.dormant = groups[g].dormant /\ n.conns = cs
      /\ n.known = groups[g].known /\ n.failed = f /\ n.listen = groups[g].listen
  BY <1>1, Zenon DEF GroupState
<1> HIDE DEF n
<1>3. ~n.closed => n.listen = "run"
  BY <1>1, <1>2 DEF CoverInv, GroupsNumbered, Created
<1>4. (n.listen = "stopped" => n.torn) /\ (n.torn => n.closed)
  BY <1>1, <1>2 DEF CoverInv, GroupsNumbered
<1>5. CoverInv' /\ Created' = Created
  BY <1>1, <1>2, <1>3, <1>4, CoverInvGroupChanges, Zenon
<1>6. \A h \in 1..MaxGroups : groups'[h] = IF h = g THEN n ELSE groups[h]
  BY <1>1 DEF CoverInv, CoverTypeOK
<1>7. ConnectionDropped(g, c, x)
  BY <1>1, <1>2, <1>6 DEF ConnectionDropped
<1> QED  BY <1>5, <1>7

\* The first message was not acknowledged.
LEMMA CoverInvFails ==
    ASSUME CoverInv, NEW g \in Created, NEW c \in BizConns, NEW x \in 1..MaxResources,
           InitializationFailed(g, c, x), UNCHANGED <<cover, reg, lifecycle, hosted>>
    PROVE  CoverInv' /\ Created' = Created /\ ConnectionDropped(g, c, x)
<1> DEFINE conn == groups[g].conns[c]
           to == IF conn = x THEN 0 ELSE conn
           barred == IF ~resources[x].resume /\ conn \in {0, x} THEN {c} ELSE {}
           cs == [groups[g].conns EXCEPT ![c] = to]
           f == groups[g].failed \cup barred
<1>1. groups[g] \in GroupState /\ g \in 1..MaxGroups /\ groups \in [1..MaxGroups -> GroupState]
  BY DEF CoverInv, CoverTypeOK, Created
<1>2. groups[g].conns \in [BizConns -> 0..MaxResources] /\ groups[g].failed \in SUBSET BizConns
  BY <1>1 DEF GroupState
<1>3. CASE groups[g].torn
  <2>1. groups' = [groups EXCEPT ![g] = groups[g]]
    BY <1>3 DEF InitializationFailed
  <2>2. groups' = groups
    BY <2>1, <1>1
  <2>3. ConnectionDropped(g, c, x)
    BY <2>2, SMTT(30) DEF ConnectionDropped
  <2> QED  BY <2>2, <2>3, CoverInvKept
<1>4. CASE ~groups[g].torn
  <2>1. groups' = [groups EXCEPT ![g] = [groups[g] EXCEPT !.conns = cs, !.failed = f]]
    BY <1>4 DEF InitializationFailed
  <2>2. to \in 0..MaxResources /\ barred \in SUBSET {c} /\ (to = conn \/ (to = 0 /\ conn = x))
    BY <1>2, RegAssumption
  <2> HIDE DEF to, barred, conn
  <2>3. f \in SUBSET BizConns /\ groups[g].failed \subseteq f /\ f \subseteq groups[g].failed \cup {c}
    BY <2>2, <1>2
  <2>4. /\ cs \in [BizConns -> 0..MaxResources]
        /\ \A d \in BizConns : cs[d] = groups[g].conns[d] \/ (cs[d] = 0 /\ d = c /\ groups[g].conns[d] = x)
    BY <2>2, <1>2 DEF conn
  <2> HIDE DEF cs, f
  <2> QED  BY <2>1, <2>3, <2>4, CoverInvDropped, Zenon
<1> QED  BY <1>3, <1>4

\* The pump of a connection ends.
LEMMA CoverInvPumpStops ==
    ASSUME CoverInv, NEW x \in 1..MaxResources, PumpStops(x),
           resources[x].group \in Created, resources[x].conn \in BizConns
    PROVE  /\ CoverInv' /\ Created' = Created /\ ConnectionDropped(resources[x].group, resources[x].conn, x)
           /\ groups'[resources[x].group].failed = groups[resources[x].group].failed
<1> DEFINE g == resources[x].group
           c == resources[x].conn
           conn == groups[g].conns[c]
           to == IF conn = x THEN 0 ELSE conn
           cs == [groups[g].conns EXCEPT ![c] = to]
           f == groups[g].failed
<1>1. groups[g] \in GroupState /\ g \in 1..MaxGroups /\ groups \in [1..MaxGroups -> GroupState]
  BY DEF CoverInv, CoverTypeOK, Created
<1>2. groups[g].conns \in [BizConns -> 0..MaxResources] /\ groups[g].failed \in SUBSET BizConns
  BY <1>1, Zenon DEF GroupState
<1>3. groups' = [groups EXCEPT ![g] = [groups[g] EXCEPT !.conns = cs]] /\ UNCHANGED <<cover, reg, lifecycle, hosted>>
  BY <1>1, <1>2, Zenon DEF PumpStops
<1>4. to \in 0..MaxResources /\ (to = conn \/ (to = 0 /\ conn = x))
  BY <1>2, RegAssumption
<1> HIDE DEF to, conn, g, c
<1>5. /\ cs \in [BizConns -> 0..MaxResources]
      /\ \A d \in BizConns : cs[d] = groups[g].conns[d] \/ (cs[d] = 0 /\ d = c /\ groups[g].conns[d] = x)
  BY <1>2, <1>4, Zenon DEF conn
<1> HIDE DEF cs
<1>6. [groups[g] EXCEPT !.conns = cs] = [groups[g] EXCEPT !.conns = cs, !.failed = f]
  BY <1>1, Zenon DEF GroupState
<1>7. /\ groups' = [groups EXCEPT ![g] = [groups[g] EXCEPT !.conns = cs, !.failed = f]]
      /\ f \in SUBSET BizConns /\ groups[g].failed \subseteq f /\ f \subseteq groups[g].failed \cup {c}
      /\ g \in Created /\ c \in BizConns
  BY <1>2, <1>3, <1>6, Zenon DEF g, c
<1>8. groups'[g].failed = groups[g].failed
  BY <1>1, <1>3 DEF GroupState, g
<1> HIDE DEF f
<1>9. CoverInv' /\ Created' = Created /\ ConnectionDropped(g, c, x)
  BY <1>3, <1>5, <1>7, CoverInvDropped, Zenon
<1> QED  BY <1>8, <1>9 DEF g, c

-----------------------------------------------------------------------------
(* The connections: the invariant.                                           *)

BizLegState ==
    [pc : {"idle", "on", "await", "gate", "up"}, conn : BizConns \cup {"none"}, resume : BOOLEAN,
     group : 0..MaxGroups, res : 0..MaxResources, sender : BOOLEAN]
ResourceState ==
    [group : 0..MaxGroups, conn : BizConns \cup {"none"}, resume : BOOLEAN, alive : BOOLEAN,
     pump : BOOLEAN, first : {"none", "sending", "ok", "err"}]

ConnTypeOK ==
    /\ resources \in [1..MaxResources -> ResourceState]
    /\ leg \in [Legs -> BizLegState]
    /\ admitted \subseteq BizConns \X Sessions

\* The resources are numbered as they are made, each for a connection of a group.
ResourcesNumbered ==
    /\ \E n \in 0..MaxResources : Used = 1..n
    /\ \A x \in 1..MaxResources :
          /\ resources[x].group = 0 => ~resources[x].alive /\ ~resources[x].pump
          /\ resources[x].group # 0 => resources[x].group \in Created /\ resources[x].conn \in BizConns

\* What a group knows of connections was admitted for its session; a
\* connection it has is known by name, one that is torn has none.
KnowsAdmitted(g) ==
    /\ \A c \in groups[g].known \cup groups[g].failed \cup groups[g].dormant :
          <<c, groups[g].session>> \in admitted
    /\ \A c \in BizConns : groups[g].conns[c] # 0 => /\ groups[g].conns[c] \in Used
                                                     /\ c \in groups[g].known
                                                     /\ ~groups[g].torn

GroupsKnowAdmitted == \A g \in Created : KnowsAdmitted(g)

\* A leg past the lookup holds a group; one that looked the group up under
\* t.lock may bring its connection as long as the group is in the table.
LookedUp(l) ==
    /\ leg[l].pc # "idle" => leg[l].group \in Created /\ leg[l].conn \in BizConns
    /\ leg[l].pc = "on" /\ cover.group = leg[l].group =>
          \A p \in cover.retiredConns : p[1] = leg[l].conn => p[2] = groups[leg[l].group].session
    /\ leg[l].pc \in {"await", "gate", "up"} =>
          <<leg[l].conn, groups[leg[l].group].session>> \in admitted
    /\ leg[l].pc \in {"gate", "up"} => leg[l].res \in Used
    /\ leg[l].pc = "up" => resources[leg[l].res].first = "ok"

LegsLookedUp == \A l \in Legs : LookedUp(l)

\* What was handed on from one group of the node to the next was admitted.
HandedOnAdmitted ==
    /\ \A c \in cover.dormant.ids \cup cover.dormant.failed : <<c, cover.dormant.session>> \in admitted
    /\ \A r \in Regs : \A c \in reg[r].inherit \cup reg[r].inheritFailed : <<c, reg[r].session>> \in admitted
    /\ cover.group # 0 => cover.dormant = NoDormant

\* The connections a group knows of.
IDs(gr) ==
    IF gr.torn THEN gr.dormant
    ELSE {c \in BizConns : gr.conns[c] # 0} \cup gr.known \cup gr.failed

\* A connection that was admitted is retired with its session, or is still
\* known: to the group in the table, to the registration that makes the next
\* group, or as one of the dormant session.
StillKnown(p, cv, gs, rs) ==
    \/ p \in cv.retiredConns
    \/ cv.group # 0 /\ gs[cv.group].session = p[2] /\ p[1] \in IDs(gs[cv.group])
    \/ \E r \in Regs : rs[r].pc = "creating" /\ rs[r].session = p[2] /\ p[1] \in rs[r].inherit
    \/ cv.dormant.session = p[2] /\ p[1] \in cv.dormant.ids

AdmittedKnown == \A p \in admitted : StillKnown(p, cover, groups, reg)

ConnInv ==
    /\ CoverInv
    /\ ConnTypeOK /\ ResourcesNumbered /\ NoOrphanConnection
    /\ GroupsKnowAdmitted /\ LegsLookedUp /\ HandedOnAdmitted /\ AdmittedKnown /\ OneServerSession

\* A registration in the making of a group stays as it is, the others inherit
\* nothing new.
RegsKept ==
    \A q \in Regs :
        /\ reg[q].pc = "creating" => reg'[q] = reg[q]
        /\ \A c \in reg'[q].inherit \cup reg'[q].inheritFailed :
              c \in reg[q].inherit \cup reg[q].inheritFailed /\ reg'[q].session = reg[q].session

\* What the connections see of a group is as before.
GroupsAlike ==
    \A h \in 1..MaxGroups :
        /\ groups'[h].session = groups[h].session /\ groups'[h].torn = groups[h].torn
        /\ groups'[h].conns = groups[h].conns /\ groups'[h].known = groups[h].known
        /\ groups'[h].failed = groups[h].failed /\ groups'[h].dormant = groups[h].dormant

-----------------------------------------------------------------------------
(* The connections: what the steps have in common.                           *)

LEMMA IdsOfGroup ==
    ASSUME NEW g
    PROVE  ConnectionIDs(g) = IDs(groups[g])
BY DEF ConnectionIDs, IDs

LEMMA IdsAdmitted ==
    ASSUME GroupsKnowAdmitted, NEW g \in Created, NEW c \in IDs(groups[g])
    PROVE  <<c, groups[g].session>> \in admitted
BY DEF GroupsKnowAdmitted, KnowsAdmitted, IDs

LEMMA HandedOnKept ==
    ASSUME HandedOnAdmitted, cover' = cover, RegsKept, admitted \subseteq admitted'
    PROVE  HandedOnAdmitted'
BY DEF HandedOnAdmitted, RegsKept

LEMMA AdmittedKnownNext ==
    ASSUME \A p \in admitted' : StillKnown(p, cover', groups', reg')
    PROVE  AdmittedKnown'
BY DEF AdmittedKnown, StillKnown, IDs

LEMMA AdmittedKept ==
    ASSUME AdmittedKnown, cover' = cover, RegsKept, admitted' = admitted,
           cover.group # 0 => /\ groups'[cover.group].session = groups[cover.group].session
                              /\ IDs(groups[cover.group]) \subseteq IDs(groups'[cover.group])
    PROVE  AdmittedKnown'
<1> SUFFICES ASSUME NEW p \in admitted
             PROVE  StillKnown(p, cover', groups', reg')
  BY AdmittedKnownNext
<1>1. \A r \in Regs : reg[r].pc = "creating" => reg'[r] = reg[r]
  BY DEF RegsKept
<1> QED  BY <1>1 DEF AdmittedKnown, StillKnown

\* A step that leaves the connections of the groups as they are, whatever it
\* does to the table of groups.
LEMMA ConnInvGroupsAlike ==
    ASSUME ConnInv, CoverInv', Created' = Created, GroupsAlike, UNCHANGED <<resources, leg, admitted>>,
           cover'.group = 0 \/ cover' = cover, HandedOnAdmitted', AdmittedKnown'
    PROVE  ConnInv'
<1>1. Created \subseteq 1..MaxGroups
  BY DEF Created
<1>2. Used' = Used
  BY DEF Used
<1>3. ConnTypeOK' /\ OneServerSession'
  BY DEF ConnInv, ConnTypeOK, OneServerSession
<1>4. ResourcesNumbered'
  BY <1>2 DEF ConnInv, ResourcesNumbered
<1>5. NoOrphanConnection'
  BY <1>1, <1>2, Zenon DEF ConnInv, NoOrphanConnection, ResourcesNumbered, GroupsAlike, Used
<1>6. GroupsKnowAdmitted'
  <2> SUFFICES ASSUME NEW g \in Created PROVE KnowsAdmitted(g)'
    BY DEF GroupsKnowAdmitted
  <2>1. KnowsAdmitted(g)
    BY DEF ConnInv, GroupsKnowAdmitted
  <2>2. /\ groups'[g].session = groups[g].session /\ groups'[g].torn = groups[g].torn
        /\ groups'[g].conns = groups[g].conns /\ groups'[g].known = groups[g].known
        /\ groups'[g].failed = groups[g].failed /\ groups'[g].dormant = groups[g].dormant
    BY <1>1, Zenon DEF GroupsAlike
  <2> QED  BY <2>1, <2>2, <1>2 DEF KnowsAdmitted
<1>7. LegsLookedUp'
  <2> SUFFICES ASSUME NEW l \in Legs PROVE LookedUp(l)'
    BY DEF LegsLookedUp
  <2>1. LookedUp(l)
    BY DEF ConnInv, LegsLookedUp
  <2> DEFINE g == leg[l].group
  <2>3. leg[l].pc # "idle" => g \in 1..MaxGroups
    BY <2>1, <1>1, Zenon DEF LookedUp
  <2> HIDE DEF g
  <2>4. leg[l].pc # "idle" => groups'[g].session = groups[g].session /\ g # 0
    BY <2>3 DEF GroupsAlike
  <2>2. leg[l].pc # "idle" => /\ groups'[leg[l].group].session = groups[leg[l].group].session
                              /\ leg[l].group # 0
    BY <2>4 DEF g
  <2> QED  BY <2>1, <2>2, <1>2 DEF LookedUp
<1> QED  BY <1>3, <1>4, <1>5, <1>6, <1>7 DEF ConnInv

\* A step of the registrations alone.
LEMMA ConnInvRegsKept ==
    ASSUME ConnInv, CoverInv', Created' = Created, GroupsAlike, RegsKept,
           UNCHANGED <<cover, resources, leg, admitted>>
    PROVE  ConnInv'
<1>1. HandedOnAdmitted'
  BY HandedOnKept DEF ConnInv
<1>2. cover.group # 0 => cover.group \in 1..MaxGroups
  BY DEF ConnInv, CoverInv, GroupsNumbered, Created
<1>3. AdmittedKnown'
  BY <1>2, AdmittedKept DEF ConnInv, GroupsAlike, IDs
<1> QED  BY <1>1, <1>3, ConnInvGroupsAlike

-----------------------------------------------------------------------------
(* The connections: the steps of the registrations.                          *)

\* One registration moves, that is not in the making of a group.
LEMMA OneRegMoves ==
    ASSUME CoverInv, NEW r \in Regs, NEW m \in RegState, reg' = [reg EXCEPT ![r] = m],
           reg[r].pc # "creating",
           \A c \in m.inherit \cup m.inheritFailed :
              c \in reg[r].inherit \cup reg[r].inheritFailed /\ m.session = reg[r].session
    PROVE  RegsKept
<1>1. \A q \in Regs : reg'[q] = IF q = r THEN m ELSE reg[q]
  BY DEF CoverInv, CoverTypeOK
<1> QED  BY <1>1 DEF RegsKept

\* A registration comes, is refused, joins the group, or finds no group.
LEMMA ConnInvRegistering ==
    ASSUME ConnInv, NEW r \in Regs,
           \/ \E s \in Sessions, resume \in BOOLEAN : RegVerified(r, s, resume)
           \/ RegStale(r) \/ RegAttach(r) \/ RegNew(r)
    PROVE  ConnInv'
<1>1. CoverInv /\ reg[r] \in RegState
  BY DEF ConnInv, CoverInv, CoverTypeOK
<1>2. CoverInv' /\ Created' = Created
  BY <1>1, CoverInvVerified, CoverInvAnswered, CoverInvInherit, SMTT(30)
<1>3. UNCHANGED <<cover, groups, resources, leg, admitted>> /\ reg[r].pc # "creating"
  BY Zenon DEF RegVerified, RegStale, RegAttach, RegNew
<1>4. GroupsAlike
  BY <1>3 DEF GroupsAlike
<1>5. RegsKept
  <2>1. CASE \E s \in Sessions, resume \in BOOLEAN : RegVerified(r, s, resume)
    <3>1. PICK s \in Sessions, resume \in BOOLEAN : RegVerified(r, s, resume)
      BY <2>1
    <3> DEFINE m == [NoReg EXCEPT !.pc = "verified", !.session = s, !.resume = resume]
    <3>2. m \in RegState /\ m.inherit = {} /\ m.inheritFailed = {}
      BY IdleReg, Zenon DEF RegState
    <3>3. reg' = [reg EXCEPT ![r] = m]
      BY <3>1, Zenon DEF RegVerified
    <3> HIDE DEF m
    <3> QED  BY <1>1, <1>3, <3>2, <3>3, OneRegMoves, Zenon
  <2>2. CASE RegStale(r) \/ RegAttach(r)
    <3>1. reg' = [reg EXCEPT ![r] = NoReg]
      BY <2>2 DEF RegStale, RegAttach
    <3> QED  BY <1>1, <1>3, <3>1, IdleReg, OneRegMoves, Zenon
  <2>3. CASE RegNew(r)
    <3> DEFINE m == [reg[r] EXCEPT !.pc = "creating"]
    <3>1. /\ m \in RegState /\ m.session = reg[r].session /\ m.inherit = reg[r].inherit
          /\ m.inheritFailed = reg[r].inheritFailed
      BY <1>1 DEF RegState
    <3>2. reg' = [reg EXCEPT ![r] = m]
      BY <2>3, <1>1 DEF RegNew, CoverInv, CoverTypeOK
    <3> HIDE DEF m
    <3> QED  BY <1>1, <1>3, <3>1, <3>2, OneRegMoves, Zenon
  <2> QED  BY <2>1, <2>2, <2>3
<1> QED  BY <1>2, <1>3, <1>4, <1>5, ConnInvRegsKept

\* The old group stops taking connections.
LEMMA ConnInvRetire ==
    ASSUME ConnInv, NEW r \in Regs, RegRetire(r)
    PROVE  ConnInv'
<1> DEFINE g == cover.group
           n == [groups[g] EXCEPT !.closed = TRUE]
           m == [reg[r] EXCEPT !.pc = "retiring", !.old = g]
<1>1. /\ CoverInv /\ reg[r] \in RegState /\ g \in 1..MaxGroups /\ g \in 0..MaxGroups
      /\ groups[g] \in GroupState /\ reg[r].pc # "creating"
  BY DEF RegRetire, ConnInv, CoverInv, CoverTypeOK, GroupsNumbered, Created, CoverState
<1>2. CoverInv' /\ Created' = Created
  BY <1>1, CoverInvRetire
<1>3. /\ UNCHANGED <<cover, resources, leg, admitted>>
      /\ groups' = [groups EXCEPT ![g] = n] /\ reg' = [reg EXCEPT ![r] = m]
  BY <1>1, Zenon DEF RegRetire, CoverInv, CoverTypeOK
<1>4. /\ m \in RegState /\ m.session = reg[r].session /\ m.inherit = reg[r].inherit
      /\ m.inheritFailed = reg[r].inheritFailed
  <2> HIDE DEF g
  <2> QED  BY <1>1, Zenon DEF RegState
<1>5. /\ n.session = groups[g].session /\ n.torn = groups[g].torn
      /\ n.conns = groups[g].conns /\ n.known = groups[g].known
      /\ n.failed = groups[g].failed /\ n.dormant = groups[g].dormant
  BY <1>1 DEF GroupState
<1> HIDE DEF n, m, g
<1>6. GroupsAlike
  <2>1. \A h \in 1..MaxGroups : groups'[h] = IF h = g THEN n ELSE groups[h]
    BY <1>1, <1>3 DEF CoverInv, CoverTypeOK
  <2> QED  BY <2>1, <1>5 DEF GroupsAlike
<1>7. RegsKept
  BY <1>1, <1>3, <1>4, OneRegMoves, Zenon
<1> QED  BY <1>2, <1>3, <1>6, <1>7, ConnInvRegsKept

\* The old group's connections are retired with its session.
LEMMA ConnInvSnapshot ==
    ASSUME ConnInv, NEW r \in Regs, RegSnapshot(r)
    PROVE  ConnInv'
<1> DEFINE g == reg[r].old
           s == groups[g].session
           ids == IDs(groups[g])
           m == [reg[r] EXCEPT !.pc = "creating"]
<1>1. /\ CoverInv /\ reg[r] \in RegState /\ cover \in CoverState
      /\ reg[r].pc = "retiring" /\ g = cover.group /\ g \in Created /\ groups[g] \in GroupState /\ s \in Sessions
  BY DEF RegSnapshot, ConnInv, CoverInv, CoverTypeOK, GroupsNumbered, OneRegistration, Created, GroupState
<1>2. CoverInv' /\ Created' = Created
  BY <1>1, CoverInvSnapshot
<1>3. ids \in SUBSET BizConns
  BY <1>1 DEF IDs, GroupState
<1>4. /\ UNCHANGED <<groups, resources, leg, admitted>> /\ reg' = [reg EXCEPT ![r] = m]
      /\ cover' = RetireSession(cover, s, ids)
  BY <1>1, IdsOfGroup DEF RegSnapshot, CoverInv, CoverTypeOK
<1>5. m \in RegState /\ m.session = reg[r].session /\ m.inherit = reg[r].inherit
      /\ m.inheritFailed = reg[r].inheritFailed
  BY <1>1 DEF RegState
<1>6. \A c \in ids : <<c, s>> \in admitted
  BY <1>1, IdsAdmitted DEF ConnInv
<1> HIDE DEF m, ids, s
<1>7. /\ cover'.group = 0 /\ cover'.dormant = cover.dormant
      /\ cover'.retiredConns = {p \in cover.retiredConns : p[1] \notin ids} \cup (ids \X {s})
  BY <1>1, <1>3, <1>4, RetireType
<1>8. GroupsAlike
  BY <1>4 DEF GroupsAlike
<1>9. RegsKept
  BY <1>1, <1>4, <1>5, OneRegMoves, Zenon
<1>10. HandedOnAdmitted'
  <2>1. \A c \in cover'.dormant.ids \cup cover'.dormant.failed : <<c, cover'.dormant.session>> \in admitted'
    BY <1>4, <1>7, Zenon DEF ConnInv, HandedOnAdmitted
  <2>2. \A q \in Regs : \A c \in reg'[q].inherit \cup reg'[q].inheritFailed :
            <<c, reg'[q].session>> \in admitted'
    <3>1. /\ \A q \in Regs : \A c \in reg[q].inherit \cup reg[q].inheritFailed :
                 <<c, reg[q].session>> \in admitted
          /\ admitted' = admitted
      BY <1>4, Zenon DEF ConnInv, HandedOnAdmitted
    <3>2. \A q \in Regs : \A c \in reg'[q].inherit \cup reg'[q].inheritFailed :
              c \in reg[q].inherit \cup reg[q].inheritFailed /\ reg'[q].session = reg[q].session
      BY <1>9, Zenon DEF RegsKept
    <3> QED  BY <3>1, <3>2, Zenon
  <2> QED  BY <1>7, <2>1, <2>2, Zenon DEF HandedOnAdmitted
<1>11. \A q \in Regs : reg[q].pc # "creating"
  BY <1>1 DEF CoverInv, OneRegistration
<1>12. AdmittedKnown'
  <2> SUFFICES ASSUME NEW p \in admitted PROVE StillKnown(p, cover', groups', reg')
    BY <1>4, AdmittedKnownNext, Zenon
  <2>1. p = <<p[1], p[2]>>
    BY DEF ConnInv, ConnTypeOK
  <2>2. p[1] \in ids => p[2] = s
    BY <1>6, Zenon DEF ConnInv, OneServerSession
  <2>3. p[1] \in ids => p \in cover'.retiredConns
    BY <1>7, <2>1, <2>2
  <2>4. StillKnown(p, cover, groups, reg)
    BY DEF ConnInv, AdmittedKnown
  <2>5. \/ p \in cover.retiredConns \/ p[1] \in ids
        \/ cover.dormant.session = p[2] /\ p[1] \in cover.dormant.ids
    BY <2>4, <1>1, <1>11 DEF StillKnown, ids
  <2> QED  BY <2>3, <2>5, <1>7 DEF StillKnown
<1> QED  BY <1>2, <1>4, <1>7, <1>8, <1>10, <1>12, ConnInvGroupsAlike, Zenon

\* The registration takes over what the closed group of its session knew.
LEMMA ConnInvInherit ==
    ASSUME ConnInv, NEW r \in Regs, RegInherit(r)
    PROVE  ConnInv'
<1> DEFINE g == cover.group
           ids == IDs(groups[g])
           f == groups[g].failed
           m == [reg[r] EXCEPT !.pc = "creating", !.inherit = ids, !.inheritFailed = f]
<1>1. /\ CoverInv /\ reg[r] \in RegState /\ cover \in CoverState /\ reg[r].pc = "verified"
      /\ groups[g].session = reg[r].session /\ g \in Created /\ groups[g] \in GroupState
  <2>1. /\ CoverInv /\ reg[r] \in RegState /\ cover \in CoverState /\ reg[r].pc = "verified"
        /\ g \in Created /\ groups[g] \in GroupState
    BY DEF RegInherit, ConnInv, CoverInv, CoverTypeOK, GroupsNumbered, Created
  <2>2. reg[r].session \in Sessions
    BY <2>1 DEF CoverInv, OneRegistration
  <2>3. reg[r].session # "none"
    BY <2>2, RegAssumption, Zenon
  <2>4. groups[g].session = reg[r].session
    BY <2>3, Zenon DEF RegInherit, Changed
  <2> QED  BY <2>1, <2>4, Zenon
<1>2. CoverInv' /\ Created' = Created
  BY <1>1, CoverInvInherit
<1>3. ids \in SUBSET BizConns /\ f \in SUBSET BizConns
  BY <1>1 DEF IDs, GroupState
<1>4. /\ UNCHANGED <<groups, resources, leg, admitted>> /\ reg' = [reg EXCEPT ![r] = m]
      /\ cover' = [cover EXCEPT !.group = 0]
  BY <1>1, IdsOfGroup, Zenon DEF RegInherit, CoverInv, CoverTypeOK
<1>5. \A c \in ids \cup f : <<c, reg[r].session>> \in admitted
  BY <1>1, IdsAdmitted DEF ConnInv, GroupsKnowAdmitted, KnowsAdmitted
<1>6. /\ m \in RegState /\ m.session = reg[r].session /\ m.inherit = ids /\ m.pc = "creating"
      /\ m.inheritFailed = f
  <2> HIDE DEF ids, f
  <2> QED  BY <1>1, <1>3, Zenon DEF RegState
<1> HIDE DEF m, f
<1>7. \A q \in Regs : reg'[q] = IF q = r THEN m ELSE reg[q]
  BY <1>1, <1>4 DEF CoverInv, CoverTypeOK
<1>8. cover'.group = 0 /\ cover'.dormant = cover.dormant /\ cover'.retiredConns = cover.retiredConns
  BY <1>1, <1>4 DEF CoverState
<1>9. GroupsAlike
  BY <1>4 DEF GroupsAlike
<1>10. HandedOnAdmitted'
  <2> HIDE DEF ids
  <2>1. \A c \in cover'.dormant.ids \cup cover'.dormant.failed : <<c, cover'.dormant.session>> \in admitted'
    <3>1. /\ \A c \in cover.dormant.ids \cup cover.dormant.failed : <<c, cover.dormant.session>> \in admitted
          /\ admitted' = admitted
      BY <1>4, Zenon DEF ConnInv, HandedOnAdmitted
    <3> QED  BY <1>8, <3>1, Zenon
  <2>2. \A q \in Regs : \A c \in reg'[q].inherit \cup reg'[q].inheritFailed :
            <<c, reg'[q].session>> \in admitted'
    <3>1. /\ \A q \in Regs : \A c \in reg[q].inherit \cup reg[q].inheritFailed :
                 <<c, reg[q].session>> \in admitted
          /\ admitted' = admitted
      BY <1>4, Zenon DEF ConnInv, HandedOnAdmitted
    <3>2. \A c \in m.inherit \cup m.inheritFailed : <<c, m.session>> \in admitted
      BY <1>5, <1>6, Zenon
    <3> QED  BY <1>7, <3>1, <3>2, Zenon
  <2> QED  BY <1>8, <2>1, <2>2, Zenon DEF HandedOnAdmitted
<1>11. \A q \in Regs : reg[q].pc # "creating"
  BY <1>1 DEF CoverInv, OneRegistration
<1>12. AdmittedKnown'
  <2> SUFFICES ASSUME NEW p \in admitted PROVE StillKnown(p, cover', groups', reg')
    BY <1>4, AdmittedKnownNext, Zenon
  <2>1. \/ p \in cover.retiredConns
        \/ reg[r].session = p[2] /\ p[1] \in ids
        \/ cover.dormant.session = p[2] /\ p[1] \in cover.dormant.ids
    BY <1>1, <1>11, Zenon DEF ConnInv, AdmittedKnown, StillKnown
  <2> HIDE DEF ids
  <2>2. CASE reg[r].session = p[2] /\ p[1] \in ids
    BY <2>2, <1>6, <1>7 DEF StillKnown
  <2> QED  BY <2>1, <2>2, <1>8 DEF StillKnown
<1> QED  BY <1>2, <1>4, <1>8, <1>9, <1>10, <1>12, ConnInvGroupsAlike, Zenon

\* The group that leaves hands its connections to the dormant session.
LEMMA ConnInvLeaves ==
    ASSUME ConnInv, NEW g \in 1..MaxGroups, GroupLeaves(g)
    PROVE  ConnInv'
<1> DEFINE n == [groups[g] EXCEPT !.listen = "done"]
           d == [session |-> groups[g].session, ids |-> groups[g].dormant, failed |-> groups[g].failed]
<1>1. /\ CoverInv /\ cover \in CoverState /\ groups[g] \in GroupState /\ groups[g].torn /\ lifecycle = "free"
      /\ groups[g].session # "none" /\ g \in Created
  BY DEF GroupLeaves, ConnInv, CoverInv, CoverTypeOK, GroupsNumbered, Created, NoGroup
<1>2. CoverInv' /\ Created' = Created
  BY <1>1, CoverInvLeaves
<1>3. /\ UNCHANGED <<resources, reg, leg, admitted>> /\ groups' = [groups EXCEPT ![g] = n]
      /\ cover.group = g => cover' = [cover EXCEPT !.group = 0, !.dormant = d]
      /\ cover.group # g => cover' = cover
  BY <1>1 DEF GroupLeaves, CoverInv, CoverTypeOK
<1>4. /\ n.session = groups[g].session /\ n.torn = groups[g].torn
      /\ n.conns = groups[g].conns /\ n.known = groups[g].known
      /\ n.failed = groups[g].failed /\ n.dormant = groups[g].dormant
  BY <1>1, Zenon DEF GroupState
<1>5. d.session = groups[g].session /\ d.ids = groups[g].dormant /\ d.failed = groups[g].failed
  BY Zenon
<1> HIDE DEF n, d
<1>6. GroupsAlike
  <2>1. \A h \in 1..MaxGroups : groups'[h] = IF h = g THEN n ELSE groups[h]
    BY <1>1, <1>3 DEF CoverInv, CoverTypeOK
  <2> QED  BY <2>1, <1>4 DEF GroupsAlike
<1>7. CASE cover.group # g
  BY <1>2, <1>3, <1>6, <1>7, ConnInvRegsKept DEF RegsKept
<1>8. CASE cover.group = g
  <2>1. cover'.group = 0 /\ cover'.dormant = d /\ cover'.retiredConns = cover.retiredConns
    BY <1>1, <1>3, <1>8, Zenon DEF CoverState
  <2>2. \A c \in d.ids \cup d.failed : <<c, d.session>> \in admitted
    BY <1>1, <1>5 DEF ConnInv, GroupsKnowAdmitted, KnowsAdmitted
  <2>3. HandedOnAdmitted'
    BY <2>1, <2>2, <1>3, Zenon DEF ConnInv, HandedOnAdmitted
  <2>4. \A q \in Regs : reg[q].pc # "creating"
    BY <1>1, RegAssumption, Zenon DEF CoverInv, OneRegistration
  <2>5. AdmittedKnown'
    <3> SUFFICES ASSUME NEW p \in admitted PROVE StillKnown(p, cover', groups', reg')
      BY <1>3, AdmittedKnownNext, Zenon
    <3>1. p[2] # "none"
      BY RegAssumption DEF ConnInv, ConnTypeOK
    <3>2. cover.group # 0
      BY <1>8
    <3>3. cover.dormant.session # p[2]
      BY <3>1, <3>2 DEF ConnInv, HandedOnAdmitted, NoDormant
    <3>4. p \in cover.retiredConns \/ (groups[g].session = p[2] /\ p[1] \in groups[g].dormant)
      BY <1>1, <1>8, <2>4, <3>3, Zenon DEF ConnInv, AdmittedKnown, StillKnown, IDs
    <3> QED  BY <3>4, <2>1, <1>5 DEF StillKnown
  <2> QED  BY <2>1, <2>3, <2>5, <1>2, <1>3, <1>6, ConnInvGroupsAlike, Zenon
<1> QED  BY <1>7, <1>8

\* The new group starts from what was handed on.
LEMMA ConnInvCreate ==
    ASSUME ConnInv, NEW r \in Regs, RegCreate(r)
    PROVE  ConnInv'
<1> DEFINE g == Cardinality(Created) + 1
           d == cover.dormant
           same == d.session = reg[r].session
<1>1. CoverInv /\ reg[r].pc = "creating" /\ cover.group = 0 /\ UNCHANGED <<resources, leg, admitted>>
  BY SMTT(30) DEF RegCreate, ConnInv, CoverInv, OneRegistration
<1>2. /\ CoverInv'
      /\ g \in 1..MaxGroups /\ g \notin Created /\ Created' = Created \cup {g}
      /\ cover'.group = g /\ cover'.dormant = NoDormant
      /\ d.session = "none" \/ same => cover'.retiredConns = cover.retiredConns
      /\ ~(d.session = "none" \/ same) =>
             cover'.retiredConns = {p \in cover.retiredConns : p[1] \notin d.ids} \cup (d.ids \X {d.session})
      /\ \A h \in 1..MaxGroups : h # g => groups'[h] = groups[h]
      /\ groups'[g].session = reg[r].session /\ groups'[g].torn = FALSE
      /\ groups'[g].known = reg[r].inherit \cup (IF same THEN d.ids ELSE {})
      /\ groups'[g].failed = reg[r].inheritFailed \cup (IF same THEN d.failed ELSE {})
      /\ groups'[g].dormant = {} /\ groups'[g].conns = [c \in BizConns |-> 0]
      /\ \A q \in Regs : reg'[q].pc # "creating" /\ reg'[q].session = reg[q].session
                         /\ reg'[q].inherit = reg[q].inherit /\ reg'[q].inheritFailed = reg[q].inheritFailed
  BY <1>1, CoverInvCreate, Zenon
<1> HIDE DEF g
<1>3. Created \subseteq 1..MaxGroups /\ \A h \in Created : h # g /\ groups'[h] = groups[h]
  BY <1>2, Zenon DEF Created
<1>4. Used' = Used
  BY <1>1 DEF Used
<1>5. ConnTypeOK' /\ OneServerSession'
  BY <1>1, Zenon DEF ConnInv, ConnTypeOK, OneServerSession
<1>6. ResourcesNumbered'
  BY <1>1, <1>2, <1>4 DEF ConnInv, ResourcesNumbered
<1>7. NoOrphanConnection'
  <2> SUFFICES ASSUME NEW x \in Used, resources[x].alive
               PROVE  groups'[resources[x].group].conns[resources[x].conn] = x
    BY <1>1, <1>4, Zenon DEF NoOrphanConnection
  <2>1. resources[x].group \in Created /\ groups[resources[x].group].conns[resources[x].conn] = x
    BY DEF ConnInv, ResourcesNumbered, NoOrphanConnection, Used
  <2> QED  BY <2>1, <1>3, Zenon
<1>8. GroupsKnowAdmitted'
  <2> SUFFICES ASSUME NEW h \in Created' PROVE KnowsAdmitted(h)'
    BY Zenon DEF GroupsKnowAdmitted
  <2>1. CASE h = g
    <3>1. \A c \in groups'[g].known \cup groups'[g].failed \cup groups'[g].dormant : <<c, reg[r].session>> \in admitted
      BY <1>2, Zenon DEF ConnInv, HandedOnAdmitted
    <3> QED  BY <2>1, <3>1, <1>1, <1>2, Zenon DEF KnowsAdmitted
  <2>2. CASE h # g
    <3>1. h \in Created /\ groups'[h] = groups[h]
      BY <2>2, <1>2, <1>3, Zenon
    <3>2. KnowsAdmitted(h)
      BY <3>1, Zenon DEF ConnInv, GroupsKnowAdmitted
    <3>3. admitted' = admitted
      BY <1>1, Zenon
    <3> HIDE DEF d, same
    <3> QED  BY <3>1, <3>2, <3>3, <1>4, SMTT(30) DEF KnowsAdmitted
  <2> QED  BY <2>1, <2>2
<1>9. LegsLookedUp'
  <2> SUFFICES ASSUME NEW l \in Legs PROVE LookedUp(l)'
    BY DEF LegsLookedUp
  <2>1. LookedUp(l)
    BY DEF ConnInv, LegsLookedUp
  <2>2. leg[l].pc # "idle" => leg[l].group \in Created
    BY <2>1, SMTT(30) DEF LookedUp
  <2>3. leg[l].pc # "idle" => /\ groups'[leg[l].group].session = groups[leg[l].group].session
                              /\ leg[l].group # cover'.group
    BY <2>2, <1>2, <1>3, Zenon
  <2> QED  BY <2>1, <2>3, <1>1, <1>2, <1>4, Zenon DEF LookedUp
<1>10. HandedOnAdmitted'
  <2>1. cover'.dormant = NoDormant
    BY <1>2, Zenon
  <2>2. cover'.dormant.ids = {} /\ cover'.dormant.failed = {}
    BY <2>1 DEF NoDormant
  <2>3. \A q \in Regs : /\ reg'[q].session = reg[q].session /\ reg'[q].inherit = reg[q].inherit
                        /\ reg'[q].inheritFailed = reg[q].inheritFailed
    BY <1>2, Zenon
  <2> QED  BY <2>1, <2>2, <2>3, <1>1, Zenon DEF ConnInv, HandedOnAdmitted
<1>11. AdmittedKnown'
  <2> SUFFICES ASSUME NEW p \in admitted PROVE StillKnown(p, cover', groups', reg')
    BY <1>1, AdmittedKnownNext
  <2>1. p = <<p[1], p[2]>> /\ p[2] # "none"
    BY RegAssumption DEF ConnInv, ConnTypeOK
  <2>2. p[1] \in d.ids => p[2] = d.session
    <3>1. \A c \in d.ids : <<c, d.session>> \in admitted
      BY DEF ConnInv, HandedOnAdmitted
    <3> QED  BY <3>1, ZenonT(30) DEF ConnInv, OneServerSession
  <2>3. \A q \in Regs : reg[q].pc = "creating" => q = r
    BY <1>1, Zenon DEF CoverInv, OneRegistration
  <2>4. \/ p \in cover.retiredConns
        \/ reg[r].session = p[2] /\ p[1] \in reg[r].inherit
        \/ p[1] \in d.ids
    BY <2>3, <1>1, Zenon DEF ConnInv, AdmittedKnown, StillKnown
  <2>5. groups'[g].session = p[2] /\ p[1] \in groups'[g].known => StillKnown(p, cover', groups', reg')
    <3>1. g # 0
      BY <1>2
    <3> QED  BY <3>1, <1>2, Zenon DEF StillKnown, IDs
  <2>6. CASE p[1] \in d.ids
    BY <2>1, <2>2, <2>5, <2>6, <1>2, SMTT(30) DEF StillKnown
  <2>7. CASE p[1] \notin d.ids /\ p \in cover.retiredConns
    BY <2>7, <1>2, Zenon DEF StillKnown
  <2>8. CASE reg[r].session = p[2] /\ p[1] \in reg[r].inherit
    BY <2>8, <2>5, <1>2, Zenon
  <2> QED  BY <2>4, <2>6, <2>7, <2>8, Zenon
<1> QED  BY <1>2, <1>5, <1>6, <1>7, <1>8, <1>9, <1>10, <1>11, Zenon DEF ConnInv

-----------------------------------------------------------------------------
(* The connections: Close of a group.                                        *)

\* The group is torn, or was: it keeps its connections by name, and none of
\* them runs on.
LEMMA ConnInvTorn ==
    ASSUME ConnInv, CoverInv', Created' = Created, RegsKept, UNCHANGED <<cover, leg, admitted>>,
           NEW g \in Created, NEW n, \A h \in 1..MaxGroups : groups'[h] = IF h = g THEN n ELSE groups[h],
           n.session = groups[g].session, n.failed = groups[g].failed,
           groups[g].torn => /\ n.torn /\ n.conns = groups[g].conns /\ n.known = groups[g].known
                             /\ n.dormant = groups[g].dormant,
           ~groups[g].torn => /\ n.torn /\ n.known = {} /\ n.dormant = IDs(groups[g])
                              /\ n.conns = [c \in BizConns |-> 0],
           resources' = ResourcesAfterClose(g)
    PROVE  ConnInv'
<1>1. Created \subseteq 1..MaxGroups /\ \A h \in Created : groups'[h] = IF h = g THEN n ELSE groups[h]
  BY Zenon DEF Created
<1>2. \A h \in Created : groups'[h].session = groups[h].session
  BY <1>1
<1>3. \A x \in 1..MaxResources :
         /\ resources'[x] \in ResourceState /\ resources'[x].group = resources[x].group
         /\ resources'[x].conn = resources[x].conn /\ resources'[x].first = resources[x].first
         /\ resources'[x].pump = resources[x].pump
         /\ resources'[x].alive => resources[x].alive /\ resources[x].group # g
  <2> SUFFICES ASSUME NEW x \in 1..MaxResources
               PROVE  /\ resources'[x] \in ResourceState /\ resources'[x].group = resources[x].group
                      /\ resources'[x].conn = resources[x].conn /\ resources'[x].first = resources[x].first
                      /\ resources'[x].pump = resources[x].pump
                      /\ resources'[x].alive => resources[x].alive /\ resources[x].group # g
    BY Zenon
  <2> DEFINE rx == [resources[x] EXCEPT !.alive = FALSE]
  <2>1. resources[x] \in ResourceState
    BY DEF ConnInv, ConnTypeOK
  <2>2. /\ rx \in ResourceState /\ rx.group = resources[x].group /\ rx.conn = resources[x].conn
        /\ rx.first = resources[x].first /\ rx.pump = resources[x].pump /\ ~rx.alive
    BY <2>1, Zenon DEF ResourceState
  <2>3. resources'[x] = IF resources[x].group = g THEN rx ELSE resources[x]
    BY Zenon DEF ResourcesAfterClose
  <2> HIDE DEF rx
  <2> QED  BY <2>1, <2>2, <2>3, Zenon
<1>4. Used' = Used
  BY <1>3 DEF Used
<1>5. ConnTypeOK' /\ OneServerSession'
  <2>1. resources' \in [1..MaxResources -> ResourceState]
    BY <1>3, Zenon DEF ResourcesAfterClose
  <2> QED  BY <2>1 DEF ConnInv, ConnTypeOK, OneServerSession
<1>6. ResourcesNumbered'
  BY <1>3, <1>4 DEF ConnInv, ResourcesNumbered
<1>7. NoOrphanConnection'
  <2> SUFFICES ASSUME NEW x \in Used, resources'[x].alive
               PROVE  groups'[resources'[x].group].conns[resources'[x].conn] = x
    BY <1>4 DEF NoOrphanConnection
  <2>1. x \in 1..MaxResources /\ resources[x].group # 0
    BY Zenon DEF Used
  <2>2. /\ resources[x].group \in Created /\ resources[x].group # g
        /\ groups[resources[x].group].conns[resources[x].conn] = x
    BY <2>1, <1>3, Zenon DEF ConnInv, ResourcesNumbered, NoOrphanConnection
  <2> QED  BY <2>1, <2>2, <1>1, <1>3, Zenon
<1>8. \A h \in Created : KnowsAdmitted(h)
  BY Zenon DEF ConnInv, GroupsKnowAdmitted
<1>9. IDs(groups[g]) = IDs(n) /\ n.torn
  BY DEF IDs
<1>10. GroupsKnowAdmitted'
  <2> SUFFICES ASSUME NEW h \in Created PROVE KnowsAdmitted(h)'
    BY DEF GroupsKnowAdmitted
  <2>1. CASE h = g
    <3>1. groups'[h] = n
      BY <2>1, <1>1, Zenon
    <3>2. \A c \in n.dormant : <<c, groups[g].session>> \in admitted
      BY <1>9, IdsAdmitted, Zenon DEF ConnInv, IDs
    <3>3. \A c \in n.known \cup n.failed : <<c, groups[g].session>> \in admitted
      BY <1>8, Zenon DEF KnowsAdmitted
    <3>4. \A c \in BizConns : n.conns[c] = 0
      BY <1>8, ZenonT(30) DEF KnowsAdmitted
    <3> QED  BY <3>1, <3>2, <3>3, <3>4, Zenon DEF KnowsAdmitted
  <2>2. CASE h # g
    BY <2>2, <1>1, <1>4, <1>8, Zenon DEF KnowsAdmitted
  <2> QED  BY <2>1, <2>2
<1>11. LegsLookedUp'
  <2> SUFFICES ASSUME NEW l \in Legs PROVE LookedUp(l)'
    BY DEF LegsLookedUp
  <2>1. LookedUp(l)
    BY Zenon DEF ConnInv, LegsLookedUp
  <2>2. leg[l].pc # "idle" => groups'[leg[l].group].session = groups[leg[l].group].session
    BY <2>1, <1>2, Zenon DEF LookedUp
  <2>3. leg[l].pc \in {"gate", "up"} => resources'[leg[l].res].first = resources[leg[l].res].first
    BY <2>1, <1>3, Zenon DEF LookedUp, Used
  <2> QED  BY <2>1, <2>2, <2>3, <1>4, Zenon DEF LookedUp
<1>12. HandedOnAdmitted'
  BY HandedOnKept, Zenon DEF ConnInv
<1>13. AdmittedKnown'
  <2>1. cover.group # 0 => cover.group \in Created
    BY DEF ConnInv, CoverInv, GroupsNumbered
  <2>2. \A h \in Created : IDs(groups[h]) = IDs(groups'[h])
    BY <1>1, <1>9, Zenon
  <2> QED  BY <2>1, <2>2, <1>2, AdmittedKept, Zenon DEF ConnInv
<1> QED  BY <1>5, <1>6, <1>7, <1>10, <1>11, <1>12, <1>13, Zenon DEF ConnInv

LEMMA ConnInvClosed ==
    ASSUME ConnInv, NEW g \in 1..MaxGroups, GroupClosed(g)
    PROVE  ConnInv'
<1>1. /\ CoverInv /\ CoverTypeOK /\ g \in Created /\ groups' = Torn(g) /\ resources' = ResourcesAfterClose(g)
      /\ UNCHANGED <<cover, reg, leg, admitted>>
  BY DEF GroupClosed, ConnInv, CoverInv
<1>2. CoverInv' /\ Created' = Created
  BY <1>1, CoverInvClosed
<1>3. RegsKept
  BY <1>1 DEF RegsKept
<1>4. PICK n \in GroupState :
         /\ Torn(g) = [groups EXCEPT ![g] = n]
         /\ n.session = groups[g].session /\ n.failed = groups[g].failed
         /\ groups[g].torn => n = groups[g]
         /\ ~groups[g].torn => /\ n.torn /\ n.known = {} /\ n.dormant = ConnectionIDs(g)
                               /\ n.conns = [c \in BizConns |-> 0]
  BY <1>1, TornGroup, Zenon
<1>5. \A h \in 1..MaxGroups : groups'[h] = IF h = g THEN n ELSE groups[h]
  BY <1>1, <1>4, Zenon DEF CoverTypeOK
<1>6. ~groups[g].torn => n.torn /\ n.known = {} /\ n.dormant = IDs(groups[g]) /\ n.conns = [c \in BizConns |-> 0]
  BY <1>4, IdsOfGroup
<1>7. /\ n.session = groups[g].session /\ n.failed = groups[g].failed
      /\ groups[g].torn => /\ n.torn /\ n.conns = groups[g].conns /\ n.known = groups[g].known
                           /\ n.dormant = groups[g].dormant
  BY <1>4
<1> QED  BY <1>1, <1>2, <1>3, <1>5, <1>6, <1>7, ConnInvTorn, Zenon

LEMMA ConnInvStops ==
    ASSUME ConnInv, NEW g \in 1..MaxGroups, GroupStops(g)
    PROVE  ConnInv'
<1>1. /\ CoverInv /\ CoverTypeOK /\ groups[g].listen = "run" /\ groups' = [Torn(g) EXCEPT ![g].listen = "stopped"]
      /\ resources' = ResourcesAfterClose(g) /\ UNCHANGED <<cover, reg, leg, admitted>>
  BY DEF GroupStops, ConnInv, CoverInv
<1>2. CoverInv' /\ Created' = Created
  BY <1>1, CoverInvStops
<1>3. RegsKept
  BY <1>1 DEF RegsKept
<1>4. g \in Created
  BY <1>1 DEF CoverInv, GroupsNumbered, NoGroup, Created
<1>5. PICK t \in GroupState :
         /\ Torn(g) = [groups EXCEPT ![g] = t]
         /\ t.session = groups[g].session /\ t.failed = groups[g].failed
         /\ groups[g].torn => t = groups[g]
         /\ ~groups[g].torn => /\ t.torn /\ t.known = {} /\ t.dormant = ConnectionIDs(g)
                               /\ t.conns = [c \in BizConns |-> 0]
  BY <1>1, TornGroup
<1> DEFINE n == [t EXCEPT !.listen = "stopped"]
<1>6. /\ n.session = t.session /\ n.failed = t.failed /\ n.torn = t.torn /\ n.known = t.known
      /\ n.dormant = t.dormant /\ n.conns = t.conns
  BY DEF GroupState
<1>7. groups' = [groups EXCEPT ![g] = n]
  BY <1>1, <1>5, Zenon DEF CoverTypeOK
<1> HIDE DEF n
<1>8. \A h \in 1..MaxGroups : groups'[h] = IF h = g THEN n ELSE groups[h]
  BY <1>1, <1>7, Zenon DEF CoverTypeOK
<1>9. ~groups[g].torn => n.torn /\ n.known = {} /\ n.dormant = IDs(groups[g]) /\ n.conns = [c \in BizConns |-> 0]
  BY <1>5, <1>6, IdsOfGroup, Zenon
<1>10. /\ n.session = groups[g].session /\ n.failed = groups[g].failed
       /\ groups[g].torn => /\ n.torn /\ n.conns = groups[g].conns /\ n.known = groups[g].known
                            /\ n.dormant = groups[g].dormant
  BY <1>5, <1>6
<1> QED  BY <1>1, <1>2, <1>3, <1>4, <1>8, <1>9, <1>10, ConnInvTorn, Zenon

LEMMA ConnInvFinish ==
    ASSUME ConnInv, NEW r \in Regs, RegFinish(r)
    PROVE  ConnInv'
<1> DEFINE g == reg[r].old
<1>1. /\ CoverInv /\ CoverTypeOK /\ reg[r].pc = "finishing" /\ reg' = [reg EXCEPT ![r] = NoReg]
      /\ UNCHANGED <<cover, leg, admitted>>
  BY DEF RegFinish, ConnInv, CoverInv
<1>2. CoverInv' /\ Created' = Created
  BY <1>1, CoverInvFinish
<1>3. RegsKept
  BY <1>1, IdleReg, OneRegMoves, ZenonT(30)
<1>4. CASE g = 0
  <2>1. UNCHANGED <<groups, resources>>
    BY <1>4, Zenon DEF RegFinish
  <2> QED  BY <2>1, <1>1, <1>2, <1>3, ConnInvRegsKept, Zenon DEF GroupsAlike
<1>5. CASE g # 0
  <2>1. groups' = Torn(g) /\ resources' = ResourcesAfterClose(g) /\ g \in Created /\ g \in 1..MaxGroups
    BY <1>5, Zenon DEF RegFinish, ConnInv, CoverInv, OneRegistration, Created
  <2> HIDE DEF g
  <2>2. PICK n \in GroupState :
           /\ Torn(g) = [groups EXCEPT ![g] = n]
           /\ n.session = groups[g].session /\ n.failed = groups[g].failed
           /\ groups[g].torn => n = groups[g]
           /\ ~groups[g].torn => /\ n.torn /\ n.known = {} /\ n.dormant = ConnectionIDs(g)
                                 /\ n.conns = [c \in BizConns |-> 0]
    BY <1>1, <2>1, TornGroup, Zenon
  <2>3. \A h \in 1..MaxGroups : groups'[h] = IF h = g THEN n ELSE groups[h]
    BY <1>1, <2>1, <2>2, Zenon DEF CoverTypeOK
  <2>4. ~groups[g].torn => n.torn /\ n.known = {} /\ n.dormant = IDs(groups[g]) /\ n.conns = [c \in BizConns |-> 0]
    BY <2>2, IdsOfGroup, Zenon
  <2>5. /\ n.session = groups[g].session /\ n.failed = groups[g].failed
        /\ groups[g].torn => /\ n.torn /\ n.conns = groups[g].conns /\ n.known = groups[g].known
                             /\ n.dormant = groups[g].dormant
    BY <2>2, Zenon
  <2> QED  BY <2>1, <2>3, <2>4, <2>5, <1>1, <1>2, <1>3, ConnInvTorn, Zenon
<1> QED  BY <1>4, <1>5

-----------------------------------------------------------------------------
(* The connections: the business legs.                                       *)

\* A leg moves, and perhaps the first message of a resource.
LEMMA ConnInvLegMoves ==
    ASSUME ConnInv, UNCHANGED <<cover, groups, reg, lifecycle, hosted, admitted>>,
           NEW l \in Legs, NEW m \in BizLegState, leg' = [leg EXCEPT ![l] = m],
           resources' \in [1..MaxResources -> ResourceState],
           \A x \in 1..MaxResources :
              /\ resources'[x].group = resources[x].group /\ resources'[x].conn = resources[x].conn
              /\ resources'[x].alive = resources[x].alive /\ resources'[x].pump = resources[x].pump
              /\ resources[x].first = "ok" => resources'[x].first = "ok",
           m.pc # "idle" => m.group \in Created /\ m.conn \in BizConns,
           m.pc = "on" /\ cover.group = m.group =>
              \A p \in cover.retiredConns : p[1] = m.conn => p[2] = groups[m.group].session,
           m.pc \in {"await", "gate", "up"} => <<m.conn, groups[m.group].session>> \in admitted,
           m.pc \in {"gate", "up"} => m.res \in Used,
           m.pc = "up" => resources'[m.res].first = "ok"
    PROVE  ConnInv'
<1>1. CoverInv' /\ Created' = Created
  BY CoverInvKept, Zenon DEF ConnInv
<1>2. Used' = Used
  BY Zenon DEF Used
<1>3. \A k \in Legs : leg'[k] = IF k = l THEN m ELSE leg[k]
  BY Zenon DEF ConnInv, ConnTypeOK
<1>4. ConnTypeOK' /\ OneServerSession'
  BY Zenon DEF ConnInv, ConnTypeOK, OneServerSession
<1>5. ResourcesNumbered'
  BY <1>1, <1>2, Zenon DEF ConnInv, ResourcesNumbered
<1>6. NoOrphanConnection'
  BY <1>2, Zenon DEF ConnInv, NoOrphanConnection, Used
<1>7. GroupsKnowAdmitted'
  BY <1>1, <1>2, Zenon DEF ConnInv, GroupsKnowAdmitted, KnowsAdmitted
<1>8. LegsLookedUp'
  <2> SUFFICES ASSUME NEW k \in Legs PROVE LookedUp(k)'
    BY Zenon DEF LegsLookedUp
  <2>1. CASE k = l
    <3>1. leg'[k] = m
      BY <2>1, <1>3, Zenon
    <3>2. leg'[k].pc # "idle" => leg'[k].group \in Created' /\ leg'[k].conn \in BizConns
      BY <3>1, <1>1
    <3>3. leg'[k].pc = "on" /\ cover'.group = leg'[k].group =>
             \A p \in cover'.retiredConns : p[1] = leg'[k].conn => p[2] = groups'[leg'[k].group].session
      BY <3>1, Zenon
    <3>4. leg'[k].pc \in {"await", "gate", "up"} =>
             <<leg'[k].conn, groups'[leg'[k].group].session>> \in admitted'
      BY <3>1
    <3>5. /\ leg'[k].pc \in {"gate", "up"} => leg'[k].res \in Used'
          /\ leg'[k].pc = "up" => resources'[leg'[k].res].first = "ok"
      <4>1. m.pc \in {"gate", "up"} => m.res \in Used'
        BY <1>2, Zenon
      <4>2. m.pc = "up" => resources'[m.res].first = "ok"
        BY Zenon
      <4> QED  BY <3>1, <4>1, <4>2, Zenon
    <3> QED  BY <3>2, <3>3, <3>4, <3>5, Zenon DEF LookedUp
  <2>2. CASE k # l
    <3>1. LookedUp(k) /\ leg'[k] = leg[k]
      BY <2>2, <1>3, Zenon DEF ConnInv, LegsLookedUp
    <3>2. leg[k].pc = "up" => resources'[leg[k].res].first = "ok"
      BY <3>1, SMTT(30) DEF LookedUp, Used
    <3> QED  BY <3>1, <3>2, <1>1, <1>2, SMTT(30) DEF LookedUp
  <2> QED  BY <2>1, <2>2, Zenon
<1>9. RegsKept
  BY Zenon DEF RegsKept
<1>10. HandedOnAdmitted' /\ AdmittedKnown'
  BY <1>9, HandedOnKept, AdmittedKept, Zenon DEF ConnInv
<1> QED  BY <1>1, <1>4, <1>5, <1>6, <1>7, <1>8, <1>10, Zenon DEF ConnInv

LEMMA IdleLeg ==
    NoLeg \in BizLegState /\ NoLeg.pc = "idle"
BY RegAssumption DEF NoLeg, BizLegState

\* A leg that is refused or whose connection ended, and the answer of the gate.
LEMMA ConnInvLegEnds ==
    ASSUME ConnInv, NEW l \in Legs, LegRefused(l) \/ LegAnswered(l) \/ LegGone(l)
    PROVE  ConnInv'
<1>1. /\ UNCHANGED <<cover, groups, resources, reg, lifecycle, hosted, admitted>>
      /\ resources \in [1..MaxResources -> ResourceState] /\ leg[l] \in BizLegState
  BY DEF LegRefused, LegAnswered, LegGone, ConnInv, ConnTypeOK
<1>2. LookedUp(l)
  BY DEF ConnInv, LegsLookedUp
<1>3. CASE LegDropped(l)
  <2>1. leg' = [leg EXCEPT ![l] = NoLeg]
    BY <1>3 DEF LegDropped
  <2> QED  BY <2>1, <1>1, IdleLeg, ConnInvLegMoves, Zenon
<1>4. CASE leg[l].pc = "gate" /\ resources[leg[l].res].first = "ok" /\ leg' = [leg EXCEPT ![l].pc = "up"]
  <2> DEFINE m == [leg[l] EXCEPT !.pc = "up"]
  <2>1. /\ m \in BizLegState /\ m.pc = "up" /\ m.conn = leg[l].conn /\ m.group = leg[l].group
        /\ m.res = leg[l].res
    BY <1>1 DEF BizLegState
  <2>2. leg' = [leg EXCEPT ![l] = m]
    BY <1>4
  <2> HIDE DEF m
  <2>3. /\ m.group \in Created /\ m.conn \in BizConns /\ <<m.conn, groups[m.group].session>> \in admitted
        /\ m.res \in Used /\ resources'[m.res].first = "ok"
    BY <2>1, <1>1, <1>2, <1>4 DEF LookedUp
  <2> QED  BY <2>1, <2>2, <2>3, <1>1, ConnInvLegMoves, Zenon
<1> QED  BY <1>3, <1>4 DEF LegRefused, LegAnswered, LegGone

LEMMA ConnInvLookup ==
    ASSUME ConnInv, NEW l \in Legs, NEW c \in BizConns, NEW resume \in BOOLEAN, LegLookup(l, c, resume)
    PROVE  ConnInv'
<1> DEFINE g == cover.group
           m == [NoLeg EXCEPT !.pc = "on", !.conn = c, !.resume = resume, !.group = g]
<1>1. /\ UNCHANGED <<cover, groups, resources, reg, lifecycle, hosted, admitted>>
      /\ resources \in [1..MaxResources -> ResourceState] /\ leg' = [leg EXCEPT ![l] = m]
      /\ \A p \in cover.retiredConns : p[1] = c => p[2] = groups[g].session
  BY DEF LegLookup, ConnInv, ConnTypeOK
<1>2. g \in Created /\ g \in 0..MaxGroups
  BY DEF LegLookup, ConnInv, CoverInv, CoverTypeOK, CoverState, GroupsNumbered
<1> HIDE DEF g
<1>3. m \in BizLegState /\ m.pc = "on" /\ m.conn = c /\ m.group = g
  BY <1>2, IdleLeg, Zenon DEF BizLegState
<1> HIDE DEF m
<1> QED  BY <1>1, <1>2, <1>3, ConnInvLegMoves, Zenon

LEMMA ConnInvJoins ==
    ASSUME ConnInv, NEW l \in Legs, LegJoins(l)
    PROVE  ConnInv'
<1> DEFINE x == groups[leg[l].group].conns[leg[l].conn]
           m == [leg[l] EXCEPT !.pc = "await", !.res = x]
<1>1. /\ UNCHANGED <<cover, groups, resources, reg, lifecycle, hosted, admitted>> /\ leg[l].pc = "on" /\ x # 0
      /\ resources \in [1..MaxResources -> ResourceState] /\ leg[l] \in BizLegState
      /\ leg' = [leg EXCEPT ![l] = m]
  BY Zenon DEF LegJoins, ConnInv, ConnTypeOK
<1>2. leg[l].group \in Created /\ leg[l].conn \in BizConns
  BY <1>1, Zenon DEF ConnInv, LegsLookedUp, LookedUp
<1>3. KnowsAdmitted(leg[l].group)
  BY <1>2, Zenon DEF ConnInv, GroupsKnowAdmitted
<1>4. x \in Used /\ <<leg[l].conn, groups[leg[l].group].session>> \in admitted
  BY <1>1, <1>2, <1>3, Zenon DEF KnowsAdmitted
<1>5. x \in 0..MaxResources
  BY <1>4 DEF Used
<1> HIDE DEF x
<1>6. m \in BizLegState /\ m.pc = "await" /\ m.conn = leg[l].conn /\ m.group = leg[l].group
  BY <1>1, <1>5, Zenon DEF BizLegState
<1> HIDE DEF m
<1> QED  BY <1>1, <1>2, <1>4, <1>6, ConnInvLegMoves, Zenon

LEMMA ConnInvAwaits ==
    ASSUME ConnInv, NEW l \in Legs, LegAwaits(l)
    PROVE  ConnInv'
<1> DEFINE x == groups[leg[l].group].conns[leg[l].conn]
           o == resources[x].first = "none"
           f == IF resources[x].first # "none" THEN resources[x].first
                ELSE IF resources[x].resume THEN "ok" ELSE "sending"
           m == [leg[l] EXCEPT !.pc = "gate", !.res = x, !.sender = o]
           rx == [resources[x] EXCEPT !.first = f]
<1>1. /\ UNCHANGED <<cover, groups, reg, lifecycle, hosted, admitted>> /\ leg[l].pc = "await"
      /\ resources \in [1..MaxResources -> ResourceState] /\ leg[l] \in BizLegState
  BY Zenon DEF LegAwaits, ConnInv, ConnTypeOK
<1>2. /\ leg[l].group \in Created /\ leg[l].conn \in BizConns
      /\ <<leg[l].conn, groups[leg[l].group].session>> \in admitted
  BY <1>1, SMTT(30) DEF ConnInv, LegsLookedUp, LookedUp
<1>3. CASE x = 0
  <2>1. leg' = [leg EXCEPT ![l] = NoLeg] /\ UNCHANGED resources
    BY <1>3 DEF LegAwaits, LegDropped
  <2> QED  BY <2>1, <1>1, IdleLeg, ConnInvLegMoves, Zenon
<1>4. CASE x # 0
  <2>1. KnowsAdmitted(leg[l].group)
    BY <1>2, Zenon DEF ConnInv, GroupsKnowAdmitted
  <2>2. x \in Used
    BY <2>1, <1>2, <1>4, Zenon DEF KnowsAdmitted
  <2>3. x \in 1..MaxResources /\ x \in 0..MaxResources /\ resources[x] \in ResourceState
    <3>1. \A y \in 1..MaxResources : y \in 0..MaxResources
      BY RegAssumption
    <3>2. x \in 1..MaxResources
      BY <2>2, Zenon DEF Used
    <3> QED  BY <3>1, <3>2, <1>1, Zenon
  <2>4. leg' = [leg EXCEPT ![l] = m] /\ resources' = [resources EXCEPT ![x] = rx]
    BY <1>1, <1>4, <2>3, ZenonT(30) DEF LegAwaits
  <2>5. /\ f \in {"none", "sending", "ok", "err"} /\ o \in BOOLEAN
        /\ resources[x].first = "ok" => f = "ok"
    BY <2>3, Zenon DEF ResourceState
  <2> HIDE DEF x, f, o
  <2>6. /\ m \in BizLegState /\ m.pc = "gate" /\ m.conn = leg[l].conn /\ m.group = leg[l].group /\ m.res = x
    BY <1>1, <2>3, <2>5, Zenon DEF BizLegState
  <2>7. /\ rx \in ResourceState /\ rx.group = resources[x].group /\ rx.conn = resources[x].conn
        /\ rx.alive = resources[x].alive /\ rx.pump = resources[x].pump /\ rx.first = f
    BY <2>3, <2>5 DEF ResourceState
  <2> HIDE DEF m, rx
  <2>8. \A y \in 1..MaxResources : resources'[y] = IF y = x THEN rx ELSE resources[y]
    BY <1>1, <2>4
  <2>9. /\ resources' \in [1..MaxResources -> ResourceState]
        /\ \A y \in 1..MaxResources :
              /\ resources'[y].group = resources[y].group /\ resources'[y].conn = resources[y].conn
              /\ resources'[y].alive = resources[y].alive /\ resources'[y].pump = resources[y].pump
              /\ resources[y].first = "ok" => resources'[y].first = "ok"
    BY <1>1, <2>4, <2>5, <2>7, <2>8, Zenon
  <2>10. leg' = [leg EXCEPT ![l] = m]
    BY <2>4
  <2> QED  BY <1>1, <1>2, <2>2, <2>6, <2>9, <2>10, ConnInvLegMoves, ZenonT(30)
<1> QED  BY <1>3, <1>4

LEMMA ConnInvFirstAcked ==
    ASSUME ConnInv, NEW l \in Legs, LegFirstAcked(l)
    PROVE  ConnInv'
<1> DEFINE x == leg[l].res
           rx == [resources[x] EXCEPT !.first = "ok"]
<1>1. /\ UNCHANGED <<cover, groups, reg, leg, lifecycle, hosted, admitted>> /\ leg[l].pc = "gate"
      /\ resources \in [1..MaxResources -> ResourceState] /\ leg[l] \in BizLegState
      /\ leg \in [Legs -> BizLegState]
  BY Zenon DEF LegFirstAcked, ConnInv, ConnTypeOK
<1>2. /\ leg[l].group \in Created /\ leg[l].conn \in BizConns /\ x \in Used
      /\ <<leg[l].conn, groups[leg[l].group].session>> \in admitted
  BY <1>1, Zenon DEF ConnInv, LegsLookedUp, LookedUp
<1>3. x \in 1..MaxResources /\ resources[x] \in ResourceState
  BY <1>1, <1>2 DEF Used
<1>4. leg' = [leg EXCEPT ![l] = leg[l]]
  BY <1>1
<1>5. resources' = [resources EXCEPT ![x] = rx]
  BY <1>3 DEF LegFirstAcked
<1> HIDE DEF x
<1>6. /\ rx \in ResourceState /\ rx.group = resources[x].group /\ rx.conn = resources[x].conn
      /\ rx.alive = resources[x].alive /\ rx.pump = resources[x].pump /\ rx.first = "ok"
  BY <1>3 DEF ResourceState
<1> HIDE DEF rx
<1>7. \A y \in 1..MaxResources : resources'[y] = IF y = x THEN rx ELSE resources[y]
  BY <1>1, <1>5
<1>8. /\ resources' \in [1..MaxResources -> ResourceState]
      /\ \A y \in 1..MaxResources :
            /\ resources'[y].group = resources[y].group /\ resources'[y].conn = resources[y].conn
            /\ resources'[y].alive = resources[y].alive /\ resources'[y].pump = resources[y].pump
            /\ resources[y].first = "ok" => resources'[y].first = "ok"
  BY <1>1, <1>5, <1>6, <1>7, Zenon
<1>9. leg[l].res \in Used
  BY <1>2 DEF x
<1> QED  BY <1>1, <1>2, <1>4, <1>8, <1>9, ConnInvLegMoves, Zenon

\* The number of the next resource.
LEMMA NextResource ==
    ASSUME ResourcesNumbered
    PROVE  Cardinality(Used) \in 0..MaxResources /\ Used = 1..Cardinality(Used)
<1>1. PICK n \in 0..MaxResources : Used = 1..n
  BY DEF ResourcesNumbered
<1>2. Cardinality(1..n) = n
  BY FS_Interval, RegAssumption
<1> QED  BY <1>1, <1>2, RegAssumption, Zenon

\* A connection that is new to its group: the group is the one in the table,
\* so an earlier session of the connection would be known.
LEMMA ConnInvStreamOn ==
    ASSUME ConnInv, NEW l \in Legs, LegStreamOn(l)
    PROVE  ConnInv'
<1> DEFINE x == Cardinality(Used) + 1
           g == leg[l].group
           c == leg[l].conn
           s == groups[g].session
           rx == [group |-> g, conn |-> c, resume |-> leg[l].resume, alive |-> TRUE, pump |-> TRUE,
                  first |-> "none"]
           m == [leg[l] EXCEPT !.pc = "await"]
<1>1. /\ CoverInv /\ leg[l].pc = "on" /\ ~groups[g].closed /\ groups[g].conns[c] = 0 /\ x <= MaxResources
      /\ UNCHANGED <<cover, reg>> /\ leg[l] \in BizLegState
      /\ resources' = [resources EXCEPT ![x] = rx] /\ admitted' = admitted \cup {<<c, s>>}
      /\ leg' = [leg EXCEPT ![l] = m]
  BY DEF LegStreamOn, ConnInv, ConnTypeOK
<1>2. LookedUp(l)
  BY DEF ConnInv, LegsLookedUp
<1>3. g \in Created /\ c \in BizConns /\ g \in 1..MaxGroups /\ s \in Sessions /\ g \in 0..MaxGroups
  <2>1. \A h \in 1..MaxGroups : h \in 0..MaxGroups
    BY RegAssumption
  <2>2. g \in Created /\ c \in BizConns
    BY <1>1, <1>2, Zenon DEF LookedUp
  <2>3. g \in 1..MaxGroups /\ s # "none"
    BY <2>2, Zenon DEF Created
  <2>4. groups[g] \in GroupState
    BY <1>1, <2>3, Zenon DEF CoverInv, CoverTypeOK
  <2>5. s \in Sessions \cup {"none"}
    BY <2>4, Zenon DEF GroupState
  <2> QED  BY <2>1, <2>2, <2>3, <2>5, Zenon
<1>4. /\ CoverInv' /\ Created' = Created
      /\ \A h \in 1..MaxGroups : h # g => groups'[h] = groups[h]
      /\ groups'[g].session = groups[g].session /\ groups'[g].torn = groups[g].torn
      /\ groups'[g].dormant = groups[g].dormant
      /\ groups'[g].conns = [groups[g].conns EXCEPT ![c] = x]
      /\ groups'[g].known = groups[g].known \cup {c}
      /\ groups'[g].failed = groups[g].failed \ {c}
      /\ x \in 1..MaxResources
  BY <1>1, <1>3, CoverInvStreamOn
<1>5. Used = 1..(x - 1) /\ x \notin Used
  BY NextResource, RegAssumption DEF ConnInv
<1>6. /\ m \in BizLegState /\ m.pc = "await" /\ m.conn = c /\ m.group = g
  BY <1>1 DEF BizLegState
<1>7. /\ rx \in ResourceState /\ rx.group = g /\ rx.conn = c /\ rx.alive /\ rx.pump
  BY <1>1, <1>3 DEF ResourceState, BizLegState
<1>8. cover.group = g /\ g # 0
  BY <1>1, <1>3 DEF CoverInv, OpenGroupHosted
<1>9. \A p \in cover.retiredConns : p[1] = c => p[2] = s
  BY <1>1, <1>2, <1>8, SMTT(30) DEF LookedUp
<1>10. \A d \in BizConns : groups'[g].conns[d] = IF d = c THEN x ELSE groups[g].conns[d]
  <2>1. groups[g].conns \in [BizConns -> 0..MaxResources]
    BY <1>1, <1>3 DEF CoverInv, CoverTypeOK, GroupState
  <2> QED  BY <2>1, <1>3, <1>4, Zenon
<1>11. ~groups[g].torn
  BY <1>1, <1>3, Zenon DEF CoverInv, GroupsNumbered
<1> HIDE DEF x, g, c, s, rx, m
<1>12. \A y \in 1..MaxResources : resources'[y] = IF y = x THEN rx ELSE resources[y]
  BY <1>1 DEF ConnInv, ConnTypeOK
<1>13. \A k \in Legs : leg'[k] = IF k = l THEN m ELSE leg[k]
  BY <1>1 DEF ConnInv, ConnTypeOK
<1>14. Used' = Used \cup {x}
  BY <1>4, <1>5, <1>7, <1>8, <1>12 DEF Used
<1>15. \A h \in Created : groups'[h].session = groups[h].session
  BY <1>4, Zenon DEF Created
<1>16. \A p \in admitted : p[1] = c => p[2] = s
  <2> SUFFICES ASSUME NEW p \in admitted, p[1] = c PROVE p[2] = s
    OBVIOUS
  <2>1. p[2] # "none"
    BY RegAssumption, Zenon DEF ConnInv, ConnTypeOK
  <2>2. \A r \in Regs : reg[r].pc # "creating"
    BY <1>1, <1>8, Zenon DEF CoverInv, OneRegistration
  <2>3. cover.dormant.session # p[2]
    BY <1>8, <2>1, SMTT(30) DEF ConnInv, HandedOnAdmitted, NoDormant
  <2> QED  BY <1>8, <1>9, <2>2, <2>3 DEF ConnInv, AdmittedKnown, StillKnown, s
<1>17. ConnTypeOK'
  <2>1. resources' \in [1..MaxResources -> ResourceState]
    BY <1>1, <1>4, <1>7, Zenon DEF ConnInv, ConnTypeOK
  <2>2. leg' \in [Legs -> BizLegState]
    BY <1>1, <1>6, Zenon DEF ConnInv, ConnTypeOK
  <2>3. <<c, s>> \in BizConns \X Sessions /\ admitted' = admitted \cup {<<c, s>>}
    BY <1>1, <1>3, Zenon
  <2>4. admitted' \subseteq BizConns \X Sessions
    BY <2>3, Zenon DEF ConnInv, ConnTypeOK
  <2> QED  BY <2>1, <2>2, <2>4, Zenon DEF ConnTypeOK
<1>18. OneServerSession'
  <2>1. admitted' = admitted \cup {<<c, s>>} /\ OneServerSession
    BY <1>1, Zenon DEF ConnInv
  <2> QED  BY <2>1, <1>16 DEF OneServerSession
<1>19. ResourcesNumbered'
  <2>1. Used' = 1..x /\ x \in 0..MaxResources
    BY <1>4, <1>5, <1>14, SMTT(30)
  <2>2. \E n \in 0..MaxResources : Used' = 1..n
    BY <2>1, Zenon
  <2> QED  BY <2>2, <1>3, <1>4, <1>7, <1>8, <1>12, Zenon DEF ConnInv, ResourcesNumbered
<1>20. NoOrphanConnection'
  <2> SUFFICES ASSUME NEW y \in Used', resources'[y].alive
               PROVE  groups'[resources'[y].group].conns[resources'[y].conn] = y
    BY DEF NoOrphanConnection
  <2>1. CASE y = x
    BY <2>1, <1>3, <1>4, <1>7, <1>10, <1>12, Zenon
  <2>2. CASE y # x
    <3>1. y \in Used /\ y \in 1..MaxResources /\ resources'[y] = resources[y] /\ y # 0
      BY <2>2, <1>12, <1>14 DEF Used
    <3>2. /\ resources[y].group \in Created /\ resources[y].conn \in BizConns /\ resources[y].group \in 1..MaxGroups
          /\ groups[resources[y].group].conns[resources[y].conn] = y
      BY <3>1 DEF ConnInv, ResourcesNumbered, NoOrphanConnection, Used, Created
    <3>3. groups[g].conns[c] = 0
      BY <1>1, Zenon
    <3>4. CASE resources[y].group = g
      BY <3>1, <3>2, <3>3, <3>4, <1>10, ZenonT(30)
    <3>5. CASE resources[y].group # g
      BY <3>1, <3>2, <3>5, <1>4, ZenonT(30)
    <3> QED  BY <3>4, <3>5
  <2> QED  BY <2>1, <2>2
<1>21. GroupsKnowAdmitted'
  <2> SUFFICES ASSUME NEW h \in Created PROVE KnowsAdmitted(h)'
    BY <1>4, Zenon DEF GroupsKnowAdmitted
  <2>1. KnowsAdmitted(h) /\ h \in 1..MaxGroups
    BY DEF ConnInv, GroupsKnowAdmitted, Created
  <2>2. CASE h = g
    <3>1. \A d \in groups'[g].known \cup groups'[g].failed \cup groups'[g].dormant : <<d, groups[g].session>> \in admitted'
      BY <2>1, <2>2, <1>1, <1>4, Zenon DEF KnowsAdmitted, s
    <3>2. \A d \in BizConns : groups'[g].conns[d] # 0 => groups'[g].conns[d] \in Used' /\ d \in groups'[g].known
      BY <2>1, <2>2, <1>4, <1>10, <1>14, Zenon DEF KnowsAdmitted
    <3> QED  BY <2>2, <3>1, <3>2, <1>4, <1>11, Zenon DEF KnowsAdmitted
  <2>3. CASE h # g
    <3>1. groups'[h] = groups[h] /\ admitted \subseteq admitted' /\ Used \subseteq Used'
      BY <2>1, <2>3, <1>1, <1>4, <1>14, Zenon
    <3> QED  BY <3>1, <2>1, Zenon DEF KnowsAdmitted
  <2> QED  BY <2>2, <2>3
<1>22. LegsLookedUp'
  <2> SUFFICES ASSUME NEW k \in Legs PROVE LookedUp(k)'
    BY Zenon DEF LegsLookedUp
  <2>1. CASE k = l
    <3>1. leg'[k] = m /\ groups'[g].session = s /\ <<c, s>> \in admitted'
      BY <2>1, <1>1, <1>4, <1>13, ZenonT(30) DEF s
    <3> QED  BY <3>1, <1>3, <1>4, <1>6, SMTT(30) DEF LookedUp
  <2>2. CASE k # l
    <3>1. LookedUp(k) /\ leg'[k] = leg[k]
      BY <2>2, <1>13, Zenon DEF ConnInv, LegsLookedUp
    <3>2. leg[k].pc # "idle" => groups'[leg[k].group].session = groups[leg[k].group].session
      BY <3>1, <1>15, Zenon DEF LookedUp
    <3>3. leg[k].pc \in {"gate", "up"} => resources'[leg[k].res] = resources[leg[k].res]
      BY <3>1, <1>5, <1>12, Zenon DEF LookedUp, Used
    <3>4. admitted \subseteq admitted' /\ Used \subseteq Used'
      BY <1>1, <1>14, Zenon
    <3>5. cover' = cover /\ Created' = Created
      BY <1>1, <1>4, Zenon
    <3>6. leg'[k].pc # "idle" => leg'[k].group \in Created' /\ leg'[k].conn \in BizConns
      BY <3>1, <3>5, Zenon DEF LookedUp
    <3>7. leg'[k].pc = "on" /\ cover'.group = leg'[k].group =>
             \A p \in cover'.retiredConns : p[1] = leg'[k].conn => p[2] = groups'[leg'[k].group].session
      BY <3>1, <3>2, <3>5, Zenon DEF LookedUp
    <3>8. leg'[k].pc \in {"await", "gate", "up"} =>
             <<leg'[k].conn, groups'[leg'[k].group].session>> \in admitted'
      BY <3>1, <3>2, <3>4, Zenon DEF LookedUp
    <3>9. /\ leg'[k].pc \in {"gate", "up"} => leg'[k].res \in Used'
          /\ leg'[k].pc = "up" => resources'[leg'[k].res].first = "ok"
      BY <3>1, <3>3, <3>4, Zenon DEF LookedUp
    <3> QED  BY <3>6, <3>7, <3>8, <3>9, Zenon DEF LookedUp
  <2> QED  BY <2>1, <2>2
<1>23. HandedOnAdmitted'
  <2>1. RegsKept
    BY <1>1, Zenon DEF RegsKept
  <2> QED  BY <2>1, <1>1, HandedOnKept, Zenon DEF ConnInv
<1>24. AdmittedKnown'
  <2> SUFFICES ASSUME NEW p \in admitted' PROVE StillKnown(p, cover', groups', reg')
    BY AdmittedKnownNext, SMTT(30)
  <2>1. IDs(groups[g]) \subseteq IDs(groups'[g]) /\ c \in IDs(groups'[g])
    <3>1. \A d \in BizConns : groups[g].conns[d] # 0 => d \in groups[g].known
      BY <1>3, Zenon DEF ConnInv, GroupsKnowAdmitted, KnowsAdmitted
    <3> QED  BY <3>1, <1>4, <1>11, Zenon DEF IDs
  <2>2. CASE p \in admitted
    <3>1. StillKnown(p, cover, groups, reg)
      BY <2>2, SMTT(30) DEF ConnInv, AdmittedKnown
    <3> QED  BY <3>1, <2>1, <1>1, <1>4, <1>8 DEF StillKnown
  <2>3. CASE p = <<c, s>>
    <3>1. groups'[g].session = p[2] /\ p[1] \in IDs(groups'[g])
      BY <2>1, <2>3, <1>4, Zenon DEF s
    <3> QED  BY <3>1, <1>1, <1>8, Zenon DEF StillKnown
  <2> QED  BY <2>2, <2>3, <1>1, Zenon
<1> QED  BY <1>4, <1>17, <1>18, <1>19, <1>20, <1>21, <1>22, <1>23, <1>24, Zenon DEF ConnInv

\* A connection is dropped by its group, and its resource is dead.
LEMMA ConnInvDropped ==
    ASSUME ConnInv, CoverInv', Created' = Created, UNCHANGED <<cover, reg, leg, admitted>>,
           NEW g \in Created, NEW c \in BizConns, NEW x \in 1..MaxResources, ConnectionDropped(g, c, x),
           <<c, groups[g].session>> \in admitted \/ groups'[g].failed = groups[g].failed,
           NEW rx \in ResourceState, resources' = [resources EXCEPT ![x] = rx],
           rx.group = resources[x].group, rx.conn = resources[x].conn, ~rx.alive,
           rx.pump => resources[x].pump, resources[x].first = "ok" => rx.first = "ok"
    PROVE  ConnInv'
<1>1. \A y \in 1..MaxResources : resources'[y] = IF y = x THEN rx ELSE resources[y]
  BY Zenon DEF ConnInv, ConnTypeOK
<1>2. Used' = Used
  <2>1. \A y \in 1..MaxResources : resources'[y].group = resources[y].group
    BY <1>1, Zenon
  <2> QED  BY <2>1, Zenon DEF Used
<1>3. Created \subseteq 1..MaxGroups /\ \A h \in Created : h # g => groups'[h] = groups[h]
  BY Zenon DEF Created, ConnectionDropped
<1>4. \A h \in Created : groups'[h].session = groups[h].session
  BY <1>3, Zenon DEF ConnectionDropped
<1>5. ConnTypeOK' /\ OneServerSession'
  BY Zenon DEF ConnInv, ConnTypeOK, OneServerSession
<1>6. ResourcesNumbered'
  BY <1>1, <1>2, SMTT(30) DEF ConnInv, ResourcesNumbered
<1>7. NoOrphanConnection'
  <2> SUFFICES ASSUME NEW y \in Used, resources'[y].alive
               PROVE  groups'[resources'[y].group].conns[resources'[y].conn] = y
    BY <1>2, Zenon DEF NoOrphanConnection
  <2>1. y \in 1..MaxResources /\ y # x /\ resources'[y] = resources[y]
    BY <1>1, SMTT(30) DEF Used
  <2>2. /\ resources[y].group \in Created /\ resources[y].conn \in BizConns
        /\ groups[resources[y].group].conns[resources[y].conn] = y
    BY <2>1, ZenonT(30) DEF ConnInv, ResourcesNumbered, NoOrphanConnection, Used
  <2>3. CASE resources[y].group = g
    BY <2>1, <2>2, <2>3, SMTT(30) DEF ConnectionDropped
  <2>4. CASE resources[y].group # g
    BY <2>1, <2>2, <2>4, <1>3, Zenon
  <2> QED  BY <2>3, <2>4, Zenon
<1>8. \A h \in Created : KnowsAdmitted(h)
  BY Zenon DEF ConnInv, GroupsKnowAdmitted
<1>9. GroupsKnowAdmitted'
  <2> SUFFICES ASSUME NEW h \in Created PROVE KnowsAdmitted(h)'
    BY Zenon DEF GroupsKnowAdmitted
  <2>1. CASE h = g
    <3>1. \A d \in groups'[g].known \cup groups'[g].failed \cup groups'[g].dormant : <<d, groups[g].session>> \in admitted
      BY <1>8, Zenon DEF KnowsAdmitted, ConnectionDropped
    <3>2. \A d \in BizConns : groups'[g].conns[d] # 0 => /\ groups'[g].conns[d] \in Used /\ d \in groups'[g].known
                                                         /\ ~groups'[g].torn
      BY <1>8, Zenon DEF KnowsAdmitted, ConnectionDropped
    <3> QED  BY <2>1, <3>1, <3>2, <1>2, <1>4, Zenon DEF KnowsAdmitted
  <2>2. CASE h # g
    BY <2>2, <1>2, <1>3, <1>8, Zenon DEF KnowsAdmitted
  <2> QED  BY <2>1, <2>2, Zenon
<1>10. LegsLookedUp'
  <2> SUFFICES ASSUME NEW k \in Legs PROVE LookedUp(k)'
    BY ZenonT(30) DEF LegsLookedUp
  <2>1. LookedUp(k)
    BY ZenonT(30) DEF ConnInv, LegsLookedUp
  <2>2. leg[k].pc # "idle" => groups'[leg[k].group].session = groups[leg[k].group].session
    BY <2>1, <1>4, ZenonT(30) DEF LookedUp
  <2>3. leg[k].pc = "up" => resources'[leg[k].res].first = "ok"
    BY <2>1, <1>1, ZenonT(30) DEF LookedUp, Used
  <2> QED  BY <2>1, <2>2, <2>3, <1>2, ZenonT(30) DEF LookedUp
<1>11. RegsKept
  BY Zenon DEF RegsKept
<1>12. AdmittedKnown'
  <2>1. cover.group # 0 => cover.group \in Created
    BY Zenon DEF ConnInv, CoverInv, GroupsNumbered
  <2>2. IDs(groups[g]) \subseteq IDs(groups'[g])
    <3>1. \A d \in BizConns : groups[g].conns[d] # 0 => d \in groups[g].known
      BY <1>8, Zenon DEF KnowsAdmitted
    <3> QED  BY <3>1, Zenon DEF IDs, ConnectionDropped
  <2>3. \A h \in Created : IDs(groups[h]) \subseteq IDs(groups'[h])
    BY <2>2, <1>3, ZenonT(30)
  <2> QED  BY <2>1, <2>3, <1>4, <1>11, AdmittedKept, Zenon DEF ConnInv
<1>13. HandedOnAdmitted'
  BY <1>11, HandedOnKept, ZenonT(30) DEF ConnInv
<1> QED  BY <1>5, <1>6, <1>7, <1>9, <1>10, <1>12, <1>13, Zenon DEF ConnInv

\* The first message of a connection is not acknowledged.
LEMMA ConnInvFirstFails ==
    ASSUME ConnInv, NEW l \in Legs, LegFirstFails(l)
    PROVE  ConnInv'
<1> DEFINE g == leg[l].group
           c == leg[l].conn
           x == leg[l].res
           rx == [resources[x] EXCEPT !.alive = FALSE, !.first = "err"]
<1>1. /\ CoverInv /\ UNCHANGED <<cover, reg, leg, admitted, lifecycle, hosted>> /\ leg[l].pc = "gate"
      /\ resources[x].first = "sending" /\ InitializationFailed(g, c, x)
  BY Zenon DEF LegFirstFails, ConnInv
<1>2. /\ g \in Created /\ c \in BizConns /\ x \in Used /\ <<c, groups[g].session>> \in admitted
  BY <1>1, Zenon DEF ConnInv, LegsLookedUp, LookedUp
<1>3. x \in 1..MaxResources /\ resources[x] \in ResourceState
  BY <1>2 DEF Used, ConnInv, ConnTypeOK
<1>4. resources' = [resources EXCEPT ![x] = rx]
  BY <1>1, <1>3, Zenon DEF InitializationFailed, ConnInv, ConnTypeOK
<1> HIDE DEF g, c, x
<1>5. CoverInv' /\ Created' = Created /\ ConnectionDropped(g, c, x)
  BY <1>1, <1>2, <1>3, CoverInvFails
<1>6. /\ rx \in ResourceState /\ rx.group = resources[x].group /\ rx.conn = resources[x].conn
      /\ ~rx.alive /\ rx.pump = resources[x].pump
  BY <1>3, Zenon DEF ResourceState
<1> HIDE DEF rx
<1>7. resources[x].first # "ok" /\ UNCHANGED <<cover, reg, leg, admitted>>
  BY <1>1
<1> QED  BY <1>2, <1>3, <1>4, <1>5, <1>6, <1>7, ConnInvDropped, Zenon

\* The pump of a connection ends.
LEMMA ConnInvPumpStops ==
    ASSUME ConnInv, NEW x \in 1..MaxResources, PumpStops(x)
    PROVE  ConnInv'
<1> DEFINE g == resources[x].group
           c == resources[x].conn
           rx == [resources[x] EXCEPT !.pump = FALSE, !.alive = FALSE]
<1>1. /\ CoverInv /\ UNCHANGED <<cover, reg, leg, admitted>> /\ resources[x].pump
      /\ resources[x] \in ResourceState
  BY Zenon DEF PumpStops, ConnInv, ConnTypeOK
<1>2. g \in Created /\ c \in BizConns
  BY <1>1 DEF ConnInv, ResourcesNumbered
<1>3. resources' = [resources EXCEPT ![x] = rx]
  BY <1>1, Zenon DEF PumpStops, ConnInv, ConnTypeOK
<1>4. CoverInv' /\ Created' = Created /\ ConnectionDropped(g, c, x) /\ groups'[g].failed = groups[g].failed
  BY <1>1, <1>2, CoverInvPumpStops
<1>5. /\ rx \in ResourceState /\ rx.group = resources[x].group /\ rx.conn = resources[x].conn
      /\ ~rx.alive /\ ~rx.pump /\ rx.first = resources[x].first
  BY <1>1, Zenon DEF ResourceState
<1> HIDE DEF rx, g, c
<1>6. UNCHANGED <<cover, reg, leg, admitted>>
  BY <1>1, Zenon
<1> QED  BY <1>2, <1>3, <1>4, <1>5, <1>6, ConnInvDropped, Zenon

-----------------------------------------------------------------------------

LEMMA ConnInvInit == RegInit => ConnInv
<1> SUFFICES ASSUME RegInit PROVE ConnInv
  BY Zenon
<1>1. /\ NoGroup \in GroupState /\ NoGroup.session = "none" /\ NoGroup.torn = FALSE /\ NoGroup.listen = "off"
      /\ NoDormant \in DormantState /\ NoDormant.ids = {} /\ NoDormant.failed = {}
      /\ NoResource \in ResourceState /\ NoResource.group = 0 /\ ~NoResource.alive /\ ~NoResource.pump
  BY RegAssumption, SMTT(30) DEF NoGroup, GroupState, NoDormant, DormantState, NoResource, ResourceState
<1>2. /\ cover \in CoverState /\ cover.group = 0 /\ cover.dormant = NoDormant
  BY <1>1, RegAssumption, SMTT(30) DEF RegInit, CoverState
<1>3. Created = {} /\ Used = {}
  BY <1>1 DEF RegInit, Created, Used
<1>4. 1..0 = {} /\ 0 \in 0..MaxGroups /\ 0 \in 0..MaxResources
  BY RegAssumption
<1>5. CoverTypeOK
  BY <1>1, <1>2, IdleReg, Zenon DEF RegInit, CoverTypeOK
<1>6. GroupsNumbered
  <2>1. \E n \in 0..MaxGroups : Created = 1..n
    BY <1>3, <1>4, Zenon
  <2> QED  BY <2>1, <1>1, <1>2, Zenon DEF RegInit, GroupsNumbered
<1>7. OneRegistration
  BY IdleReg, RegAssumption DEF RegInit, OneRegistration
<1>8. CoverInv
  BY <1>2, <1>3, <1>5, <1>6, <1>7, Zenon DEF RegInit, CoverInv, OpenGroupHosted
<1>9. ConnTypeOK
  BY <1>1, IdleLeg, Zenon DEF RegInit, ConnTypeOK
<1>10. ResourcesNumbered
  <2>1. \E n \in 0..MaxResources : Used = 1..n
    BY <1>3, <1>4, Zenon
  <2> QED  BY <2>1, <1>1 DEF RegInit, ResourcesNumbered
<1>11. LegsLookedUp
  BY IdleLeg, SMTT(30) DEF RegInit, LegsLookedUp, LookedUp
<1>12. HandedOnAdmitted
  BY <1>1, <1>2, IdleReg, Zenon DEF RegInit, HandedOnAdmitted
<1> QED  BY <1>3, <1>8, <1>9, <1>10, <1>11, <1>12, Zenon
         DEF RegInit, ConnInv, NoOrphanConnection, GroupsKnowAdmitted, AdmittedKnown, OneServerSession

LEMMA ConnInvNext == ConnInv /\ [RegNext]_regVars => ConnInv'
<1> SUFFICES ASSUME ConnInv, [RegNext]_regVars PROVE ConnInv'
  OBVIOUS
<1>1. CASE \E r \in Regs : RegStep(r)
  <2>1. PICK r \in Regs : RegStep(r)
    BY <1>1
  <2> QED  BY <2>1, ConnInvRegistering, ConnInvRetire, ConnInvSnapshot, ConnInvInherit, ConnInvCreate,
              ConnInvFinish, Zenon DEF RegStep
<1>2. CASE \E g \in 1..MaxGroups : GroupClosed(g) \/ GroupStops(g) \/ GroupLeaves(g)
  BY <1>2, ConnInvClosed, ConnInvStops, ConnInvLeaves, Zenon
<1>3. CASE \E l \in Legs : LegStep(l)
  <2>1. PICK l \in Legs : LegStep(l)
    BY <1>3
  <2> QED  BY <2>1, ConnInvLookup, ConnInvLegEnds, ConnInvJoins, ConnInvStreamOn, ConnInvAwaits,
              ConnInvFirstAcked, ConnInvFirstFails, Zenon DEF LegStep
<1>4. CASE \E x \in 1..MaxResources : PumpStops(x)
  BY <1>4, ConnInvPumpStops, Zenon
<1>5. CASE UNCHANGED regVars
  <2>1. UNCHANGED <<cover, groups, resources, reg, leg, lifecycle, hosted, admitted>>
    BY <1>5 DEF regVars
  <2>2. CoverInv' /\ Created' = Created
    BY <2>1, CoverInvKept DEF ConnInv
  <2> QED  BY <2>1, <2>2, ConnInvRegsKept, Zenon DEF GroupsAlike, RegsKept
<1> QED  BY <1>1, <1>2, <1>3, <1>4, <1>5 DEF RegNext

\* Whenever no registration and no ending group holds the lifecycle lock, the
\* relay publishes the node exactly when the table has a group for it, and an
\* open group is the one in the table (registrationLifecycle, listenGroup,
\* ListenTCPConnection): for any number of registrations, sessions, groups
\* and legs.
THEOREM NodeHostedWithGroup == RegSpec => []HostedMatchesGroup
<1>1. ConnInv => HostedMatchesGroup
  BY Zenon DEF ConnInv, CoverInv, OpenGroupHosted, HostedMatchesGroup
<1> QED  BY <1>1, ConnInvInit, ConnInvNext, PTL DEF RegSpec

\* What the relay tells of a connection is true for any number of connections
\* and groups: it runs on one session of the NAT, its group finds it by name
\* while it is alive, and a leg is up only after the server acknowledged
\* (StreamOn, AwaitFirstMessage, closeTargetConnectionIfMatch).
THEOREM ConnectionsAreKnown == RegSpec => []ConnectionsKnown
<1>1. ConnInv => ConnectionsKnown
  BY Zenon DEF ConnInv, LegsLookedUp, LookedUp, AckedByServer, ConnectionsKnown
<1> QED  BY <1>1, ConnInvInit, ConnInvNext, PTL DEF RegSpec

=============================================================================
