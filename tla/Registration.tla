---------------------------- MODULE Registration ----------------------------
(***************************************************************************)
(* One hosted NAT at a relay: TransportCover's registrations with their    *)
(* sessions (one per run of the NAT process), the StreamGroup each session *)
(* gets, and the business legs that clients attach to it, while groups     *)
(* close, are swept and are replaced.                                      *)
(*                                                                         *)
(* registrationLifecycle is held by one registration or one ending group   *)
(* at a time; t.lock covers the steps marked so, and stays held between    *)
(* the two halves of a retirement.  Retired sessions and connections are   *)
(* kept longer than the runs last (ten minutes in the code).  An empty     *)
(* session, here "none", is tested for wherever one is used; no dialer of  *)
(* the repository leaves it empty, so only the comparison keeps its test.  *)
(***************************************************************************)
EXTENDS Naturals, FiniteSets

CONSTANTS
    Sessions,        \* registration session identifiers
    Regs,            \* handlers of registration streams
    BizConns,           \* business connection identifiers
    Legs,            \* handlers of business legs
    MaxGroups,       \* bound: groups created
    MaxResources,    \* bound: connection resources created
    MaxArrivals,     \* bound: registrations and business legs that arrive
    MaxRegFaults        \* bound: carriers that die, closes, refusals, lost acks

ASSUME RegAssumption ==
    /\ MaxGroups \in Nat /\ MaxResources \in Nat
    /\ "none" \notin Sessions /\ "free" \notin Regs

VARIABLES
    cover,       \* the node's group, retired sessions and connections, dormant session
    groups,      \* the StreamGroups
    resources,   \* the connectionResources
    reg, leg,    \* the handlers
    lifecycle,   \* who holds registrationLifecycle
    hosted,      \* what onRegister and onUnregister last said of the node
    admitted,    \* <<connection, session>> pairs that had a resource
    arrivals, regBudget

regVars == <<cover, groups, resources, reg, leg, lifecycle, hosted, admitted, arrivals, regBudget>>

NoDormant == [session |-> "none", ids |-> {}, failed |-> {}]
NoGroup == [session |-> "none", closed |-> FALSE, torn |-> FALSE, listen |-> "off",
            conns |-> [c \in BizConns |-> 0], known |-> {}, failed |-> {}, dormant |-> {}]
NoResource == [group |-> 0, conn |-> "none", resume |-> FALSE, alive |-> FALSE,
               pump |-> FALSE, first |-> "none"]
NoReg == [pc |-> "idle", session |-> "none", resume |-> FALSE, old |-> 0,
          inherit |-> {}, inheritFailed |-> {}]
NoLeg == [pc |-> "idle", conn |-> "none", resume |-> FALSE, group |-> 0, res |-> 0,
          sender |-> FALSE]

RegFault == regBudget > 0 /\ regBudget' = regBudget - 1
CoverLocked == \E r \in Regs : reg[r].pc \in {"retiring", "creating"}
Changed(current, incoming) == incoming # "none" /\ current # incoming
Created == {g \in 1..MaxGroups : groups[g].session # "none"}
Used == {x \in 1..MaxResources : resources[x].group # 0}

-----------------------------------------------------------------------------
(* StreamGroup.                                                              *)

\* snapshotConnectionIDs: every connection the group knows of, those of a
\* closed group from what Close kept.
ConnectionIDs(g) ==
    IF groups[g].torn THEN groups[g].dormant
    ELSE {c \in BizConns : groups[g].conns[c] # 0} \cup groups[g].known \cup groups[g].failed

\* Close, once: the connections are kept by name and their resources closed.
Torn(g) ==
    [groups EXCEPT ![g] = IF groups[g].torn THEN groups[g] ELSE
        [groups[g] EXCEPT !.closed = TRUE, !.torn = TRUE, !.dormant = ConnectionIDs(g),
                          !.conns = [c \in BizConns |-> 0], !.known = {}]]
ResourcesAfterClose(g) ==
    [x \in 1..MaxResources |->
        IF resources[x].group = g THEN [resources[x] EXCEPT !.alive = FALSE] ELSE resources[x]]

\* failBusinessConnectionInitialization: only a fresh connection is barred
\* from resuming.
InitializationFailed(g, c, x) ==
    /\ LET conn == groups[g].conns[c]
           barred == IF ~resources[x].resume /\ conn \in {0, x} THEN {c} ELSE {}
       IN groups' = [groups EXCEPT ![g] =
             IF groups[g].torn THEN groups[g]
             ELSE [groups[g] EXCEPT !.conns[c] = IF conn = x THEN 0 ELSE conn,
                                    !.failed = groups[g].failed \cup barred]]
    /\ resources' = [resources EXCEPT ![x].alive = FALSE, ![x].first = "err"]

-----------------------------------------------------------------------------
(* A registration stream, under registrationLifecycle.                       *)

RegVerified(r, s, resume) ==
    /\ reg[r].pc = "idle" /\ lifecycle = "free" /\ arrivals > 0
    /\ lifecycle' = r /\ arrivals' = arrivals - 1
    /\ reg' = [reg EXCEPT ![r] = [NoReg EXCEPT !.pc = "verified", !.session = s,
                                               !.resume = resume]]
    /\ UNCHANGED <<cover, groups, resources, leg, hosted, admitted, regBudget>>

\* A retired session, or the resumption of a session that is not the active
\* one, is refused.
RegStale(r) ==
    /\ reg[r].pc = "verified"
    /\ \/ reg[r].session \in cover.retired
       \/ /\ cover.group # 0 /\ ~groups[cover.group].closed /\ reg[r].resume
          /\ Changed(groups[cover.group].session, reg[r].session)
    /\ reg' = [reg EXCEPT ![r] = NoReg] /\ lifecycle' = "free"
    /\ UNCHANGED <<cover, groups, resources, leg, hosted, admitted, arrivals, regBudget>>

\* retireRegistrationSessionLocked and retireBusinessConnectionsLocked.
RetireSession(cv, session, ids) ==
    [cv EXCEPT !.group = 0, !.retired = @ \cup {session},
               !.retiredConns = {p \in @ : p[1] \notin ids} \cup (ids \X {session})]

\* Mutant: the connections are listed before the group stops taking more.
RegRetireSnapshotFirst(r) ==
    /\ reg[r].pc = "verified" /\ reg[r].session \notin cover.retired /\ cover.group # 0
    /\ Changed(groups[cover.group].session, reg[r].session)
    /\ groups[cover.group].closed \/ ~reg[r].resume
    /\ cover' = RetireSession(cover, groups[cover.group].session, ConnectionIDs(cover.group))
    /\ reg' = [reg EXCEPT ![r].pc = "creating", ![r].old = cover.group]
    /\ UNCHANGED <<groups, resources, leg, lifecycle, hosted, admitted, arrivals, regBudget>>

\* retireGroupLocked begins: the old group's context is cancelled.
RegRetire(r) ==
    /\ reg[r].pc = "verified" /\ reg[r].session \notin cover.retired /\ cover.group # 0
    /\ Changed(groups[cover.group].session, reg[r].session)
    /\ groups[cover.group].closed \/ ~reg[r].resume
    /\ groups' = [groups EXCEPT ![cover.group].closed = TRUE]
    /\ reg' = [reg EXCEPT ![r].pc = "retiring", ![r].old = cover.group]
    /\ UNCHANGED <<cover, resources, leg, lifecycle, hosted, admitted, arrivals, regBudget>>

\* stopAndSnapshotConnectionIDs ends and the session is retired; t.lock is
\* still held.
RegSnapshot(r) ==
    /\ reg[r].pc = "retiring"
    /\ cover' = RetireSession(cover, groups[reg[r].old].session, ConnectionIDs(reg[r].old))
    /\ reg' = [reg EXCEPT ![r].pc = "creating"]
    /\ UNCHANGED <<groups, resources, leg, lifecycle, hosted, admitted, arrivals, regBudget>>

\* The group in the table is closed and of the same session: its
\* connections are inherited.
RegInherit(r) ==
    /\ reg[r].pc = "verified" /\ reg[r].session \notin cover.retired /\ cover.group # 0
    /\ groups[cover.group].closed /\ ~Changed(groups[cover.group].session, reg[r].session)
    /\ cover' = [cover EXCEPT !.group = 0]
    /\ reg' = [reg EXCEPT ![r].pc = "creating", ![r].inherit = ConnectionIDs(cover.group),
                          ![r].inheritFailed = groups[cover.group].failed]
    /\ UNCHANGED <<groups, resources, leg, lifecycle, hosted, admitted, arrivals, regBudget>>

RegNew(r) ==
    /\ reg[r].pc = "verified" /\ reg[r].session \notin cover.retired /\ cover.group = 0
    /\ reg' = [reg EXCEPT ![r].pc = "creating"]
    /\ UNCHANGED <<cover, groups, resources, leg, lifecycle, hosted, admitted, arrivals, regBudget>>

\* Still under t.lock: the dormant session is retired or inherited, and the
\* new group takes the node.
RegCreate(r) ==
    /\ reg[r].pc = "creating"
    /\ LET g == Cardinality(Created) + 1
           d == cover.dormant
           same == d.session = reg[r].session
           cv == IF d.session = "none" \/ same THEN cover
                 ELSE RetireSession(cover, d.session, d.ids)
       IN /\ g <= MaxGroups
          /\ cover' = [cv EXCEPT !.group = g, !.dormant = NoDormant]
          /\ groups' = [groups EXCEPT ![g] = [NoGroup EXCEPT !.session = reg[r].session,
                !.listen = "run",
                !.known = reg[r].inherit \cup (IF same THEN d.ids ELSE {}),
                !.failed = reg[r].inheritFailed \cup (IF same THEN d.failed ELSE {})]]
    /\ reg' = [reg EXCEPT ![r].pc = "finishing"]
    /\ UNCHANGED <<resources, leg, lifecycle, hosted, admitted, arrivals, regBudget>>

\* Outside t.lock: the replaced group is closed, onRegister publishes the
\* node, the lifecycle lock is released.
RegFinish(r) ==
    /\ reg[r].pc = "finishing"
    /\ IF reg[r].old # 0
       THEN groups' = Torn(reg[r].old) /\ resources' = ResourcesAfterClose(reg[r].old)
       ELSE UNCHANGED <<groups, resources>>
    /\ hosted' = TRUE /\ lifecycle' = "free"
    /\ reg' = [reg EXCEPT ![r] = NoReg]
    /\ UNCHANGED <<cover, leg, admitted, arrivals, regBudget>>

\* A further leg of the active session joins its group; attachRelayStream
\* refuses it when the group closed since.
RegAttach(r) ==
    /\ reg[r].pc = "verified" /\ reg[r].session \notin cover.retired /\ cover.group # 0
    /\ ~groups[cover.group].closed
    /\ ~Changed(groups[cover.group].session, reg[r].session)
    /\ reg' = [reg EXCEPT ![r] = NoReg] /\ lifecycle' = "free"
    /\ UNCHANGED <<cover, groups, resources, leg, hosted, admitted, arrivals, regBudget>>

-----------------------------------------------------------------------------
(* The end of a group.                                                       *)

\* The sweeper finds its carriers dead, or CloseHostedRegistration.
GroupClosed(g) ==
    /\ g \in Created /\ ~groups[g].torn /\ RegFault
    /\ groups' = Torn(g) /\ resources' = ResourcesAfterClose(g)
    /\ UNCHANGED <<cover, reg, leg, lifecycle, hosted, admitted, arrivals>>

\* StartListen returns, because the group was stopped or its carriers died,
\* and closes the group.
GroupStops(g) ==
    /\ groups[g].listen = "run"
    /\ IF groups[g].closed THEN UNCHANGED regBudget ELSE RegFault
    /\ groups' = [Torn(g) EXCEPT ![g].listen = "stopped"]
    /\ resources' = ResourcesAfterClose(g)
    /\ UNCHANGED <<cover, reg, leg, lifecycle, hosted, admitted, arrivals>>

\* Mutant: a group that ends takes the node off the table whoever owns it.
GroupLeavesAlways(g) ==
    /\ groups[g].listen = "stopped" /\ lifecycle = "free"
    /\ groups' = [groups EXCEPT ![g].listen = "done"]
    /\ hosted' = FALSE
    /\ cover' = [cover EXCEPT !.group = 0,
            !.dormant = [session |-> groups[g].session, ids |-> groups[g].dormant,
                         failed |-> groups[g].failed]]
    /\ UNCHANGED <<resources, reg, leg, lifecycle, admitted, arrivals, regBudget>>

\* listenGroup: under the lifecycle lock, and only when the table still has
\* this group, it leaves a dormant session and is unregistered.
GroupLeaves(g) ==
    /\ groups[g].listen = "stopped" /\ lifecycle = "free"
    /\ groups' = [groups EXCEPT ![g].listen = "done"]
    /\ IF cover.group = g
       THEN /\ cover' = [cover EXCEPT !.group = 0,
                 !.dormant = [session |-> groups[g].session, ids |-> groups[g].dormant,
                              failed |-> groups[g].failed]]
            /\ hosted' = FALSE
       ELSE UNCHANGED <<cover, hosted>>
    /\ UNCHANGED <<resources, reg, leg, lifecycle, admitted, arrivals, regBudget>>

-----------------------------------------------------------------------------
(* A business leg.                                                           *)

\* Under t.lock: the group and whether the connection belongs to a session
\* that was replaced.  Without a group the leg goes to the missing-group
\* handler.
LegLookup(l, c, resume) ==
    /\ leg[l].pc = "idle" /\ arrivals > 0 /\ ~CoverLocked /\ cover.group # 0
    /\ \A p \in cover.retiredConns : p[1] = c => p[2] = groups[cover.group].session
    /\ arrivals' = arrivals - 1
    /\ leg' = [leg EXCEPT ![l] = [NoLeg EXCEPT !.pc = "on", !.conn = c, !.resume = resume,
                                               !.group = cover.group]]
    /\ UNCHANGED <<cover, groups, resources, reg, lifecycle, hosted, admitted, regBudget>>

LegDropped(l) == leg' = [leg EXCEPT ![l] = NoLeg]

\* onBusinessConnect refuses the role or the deposit; StreamOn refuses a
\* closed group and a resumption of what never started.
LegRefused(l) ==
    /\ leg[l].pc = "on"
    /\ LET g == groups[leg[l].group] IN
       IF g.closed \/ (leg[l].conn \in g.failed /\ leg[l].resume)
       THEN UNCHANGED regBudget ELSE RegFault
    /\ LegDropped(l)
    /\ UNCHANGED <<cover, groups, resources, reg, lifecycle, hosted, admitted, arrivals>>

\* StreamOn, a connection the group has: the leg joins its stream.
LegJoins(l) ==
    /\ leg[l].pc = "on" /\ ~groups[leg[l].group].closed
    /\ groups[leg[l].group].conns[leg[l].conn] # 0
    /\ ~(leg[l].resume /\ leg[l].conn \in groups[leg[l].group].failed)
    /\ leg' = [leg EXCEPT ![l].pc = "await", ![l].res = groups[leg[l].group].conns[leg[l].conn]]
    /\ UNCHANGED <<cover, groups, resources, reg, lifecycle, hosted, admitted, arrivals, regBudget>>

\* StreamOn, a new connection: a resource and its pump.
LegStreamOn(l) ==
    /\ leg[l].pc = "on" /\ ~groups[leg[l].group].closed
    /\ groups[leg[l].group].conns[leg[l].conn] = 0
    /\ ~(leg[l].resume /\ leg[l].conn \in groups[leg[l].group].failed)
    /\ LET x == Cardinality(Used) + 1  g == leg[l].group  c == leg[l].conn IN
       /\ x <= MaxResources
       /\ groups' = [groups EXCEPT ![g].conns[c] = x, ![g].known = @ \cup {c},
                                   ![g].failed = @ \ {c}]
       /\ resources' = [resources EXCEPT ![x] = [group |-> g, conn |-> c,
             resume |-> leg[l].resume, alive |-> TRUE, pump |-> TRUE, first |-> "none"]]
       /\ admitted' = admitted \cup {<<c, groups[g].session>>}
    /\ leg' = [leg EXCEPT ![l].pc = "await"]
    /\ UNCHANGED <<cover, reg, lifecycle, hosted, arrivals, regBudget>>

\* AwaitFirstMessage: the resource that is in the table now; the first leg
\* to come forwards the first message, unless the connection resumes.
LegAwaits(l) ==
    /\ leg[l].pc = "await"
    /\ LET x == groups[leg[l].group].conns[leg[l].conn] IN
       IF x = 0 THEN LegDropped(l) /\ UNCHANGED resources
       ELSE /\ leg' = [leg EXCEPT ![l].pc = "gate", ![l].res = x,
                                  ![l].sender = resources[x].first = "none"]
            /\ resources' = [resources EXCEPT ![x].first =
                 IF @ # "none" THEN @ ELSE IF resources[x].resume THEN "ok" ELSE "sending"]
    /\ UNCHANGED <<cover, groups, reg, lifecycle, hosted, admitted, arrivals, regBudget>>

\* SendMessageAwaitAck: the server acknowledged the first message.
LegFirstAcked(l) ==
    /\ leg[l].pc = "gate" /\ leg[l].sender /\ resources[leg[l].res].first = "sending"
    /\ resources[leg[l].res].alive
    /\ resources' = [resources EXCEPT ![leg[l].res].first = "ok"]
    /\ UNCHANGED <<cover, groups, reg, leg, lifecycle, hosted, admitted, arrivals, regBudget>>

\* The acknowledgement did not come, or the resource was closed.
LegFirstFails(l) ==
    /\ leg[l].pc = "gate" /\ leg[l].sender /\ resources[leg[l].res].first = "sending"
    /\ IF resources[leg[l].res].alive THEN RegFault ELSE UNCHANGED regBudget
    /\ InitializationFailed(leg[l].group, leg[l].conn, leg[l].res)
    /\ UNCHANGED <<cover, reg, leg, lifecycle, hosted, admitted, arrivals>>

\* The gate opens for every leg that waits: AckFirstMessage and StartLoops,
\* or the error.
LegAnswered(l) ==
    /\ leg[l].pc = "gate" /\ resources[leg[l].res].first \in {"ok", "err"}
    /\ IF resources[leg[l].res].first = "ok"
       THEN leg' = [leg EXCEPT ![l].pc = "up"] ELSE LegDropped(l)
    /\ UNCHANGED <<cover, groups, resources, reg, lifecycle, hosted, admitted, arrivals, regBudget>>

\* The pump of a connection ends, because it was closed or its legs died:
\* closeTargetConnectionIfMatch.
PumpStops(x) ==
    /\ resources[x].pump
    /\ IF resources[x].alive THEN RegFault ELSE UNCHANGED regBudget
    /\ groups' = [groups EXCEPT ![resources[x].group].conns[resources[x].conn] =
                     IF @ = x THEN 0 ELSE @]
    /\ resources' = [resources EXCEPT ![x].pump = FALSE, ![x].alive = FALSE]
    /\ UNCHANGED <<cover, reg, leg, lifecycle, hosted, admitted, arrivals>>

\* The leg of a connection that ended is gone.
LegGone(l) ==
    /\ leg[l].pc = "up" /\ ~resources[leg[l].res].alive
    /\ LegDropped(l)
    /\ UNCHANGED <<cover, groups, resources, reg, lifecycle, hosted, admitted, arrivals, regBudget>>

-----------------------------------------------------------------------------

RegInit ==
    /\ cover = [group |-> 0, retired |-> {}, retiredConns |-> {}, dormant |-> NoDormant]
    /\ groups = [g \in 1..MaxGroups |-> NoGroup]
    /\ resources = [x \in 1..MaxResources |-> NoResource]
    /\ reg = [r \in Regs |-> NoReg] /\ leg = [l \in Legs |-> NoLeg]
    /\ lifecycle = "free" /\ hosted = FALSE /\ admitted = {}
    /\ arrivals = MaxArrivals /\ regBudget = MaxRegFaults

RegStep(r) ==
    \/ \E s \in Sessions : \E resume \in BOOLEAN : RegVerified(r, s, resume)
    \/ RegStale(r) \/ RegRetire(r) \/ RegSnapshot(r) \/ RegInherit(r) \/ RegNew(r)
    \/ RegCreate(r) \/ RegFinish(r) \/ RegAttach(r)

LegStep(l) ==
    \/ \E c \in BizConns : \E resume \in BOOLEAN : LegLookup(l, c, resume)
    \/ LegRefused(l) \/ LegJoins(l) \/ LegStreamOn(l) \/ LegAwaits(l)
    \/ LegFirstAcked(l) \/ LegFirstFails(l) \/ LegAnswered(l) \/ LegGone(l)

RegNext ==
    \/ \E r \in Regs : RegStep(r)
    \/ \E g \in 1..MaxGroups : GroupClosed(g) \/ GroupStops(g) \/ GroupLeaves(g)
    \/ \E l \in Legs : LegStep(l)
    \/ \E x \in 1..MaxResources : PumpStops(x)

RegSpec == RegInit /\ [][RegNext]_regVars

-----------------------------------------------------------------------------
(* Properties.                                                              *)

\* A business connection never runs on two registration sessions of the NAT:
\* one that the old session took, however close to its retirement, is
\* refused by the group of the new session, which lacks its keys.
OneServerSession ==
    \A p, q \in admitted : p[1] = q[1] => p[2] = q[2]

\* Whenever no registration and no ending group is at work, the relay
\* publishes the node exactly when it has a group for it, and an open group
\* it has for the node is listening: the end of a replaced group never
\* withdraws its successor.
HostedMatchesGroup ==
    lifecycle = "free" =>
        /\ hosted = (cover.group # 0)
        /\ \A g \in Created : groups[g].listen = "run" /\ ~groups[g].closed => cover.group = g

\* A connection that is alive is the one its group finds by name, so that
\* close requests reach it and nothing is left running unseen.
NoOrphanConnection ==
    \A x \in Used : resources[x].alive =>
        groups[resources[x].group].conns[resources[x].conn] = x

\* A client's first message is acknowledged only after the server
\* acknowledged it, except to a leg that resumes an established connection.
AckedByServer ==
    \A l \in Legs : leg[l].pc = "up" => resources[leg[l].res].first = "ok"

\* What the relay tells of a connection is true: which session of the NAT it
\* runs on, that it is there at all, and that the server has its first
\* message (StreamOn, AwaitFirstMessage, closeTargetConnectionIfMatch).
ConnectionsKnown == OneServerSession /\ NoOrphanConnection /\ AckedByServer
=============================================================================
