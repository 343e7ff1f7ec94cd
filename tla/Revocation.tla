------------------------------ MODULE Revocation ------------------------------
(***************************************************************************)
(* The revocation control of a relay (revocation_control.go,               *)
(* deny_runtime.go): the events of the CA's log are fetched, written to    *)
(* the state file and applied, deny decisions that arrive with other       *)
(* answers of the CA are written and applied by their own goroutine, the   *)
(* relay crashes and loads the file again, and nodes register meanwhile.   *)
(* A deny names one node; signatures are taken as checked.                 *)
(***************************************************************************)
EXTENDS Naturals, Sequences

CONSTANTS
    DenyNodes,     \* nodes that register; the CA may revoke any of them
    MaxLog,        \* bound: events in the CA's log
    MaxRevFaults   \* bound: crashes, failed writes and outages

VARIABLES
    log,           \* the CA's revocation events, the node each revokes
    revFile,          \* the state file: applied epoch and deny decisions
    state,         \* control.state
    sync,          \* syncOnce: its step, the epoch it asked after, what is left to apply
    decision,      \* applyDenyDecision: its step and its node
    denied,        \* businessDeniedScopes
    accounts,      \* nodes the account table holds a certificate of
    reg,           \* by node, its registration: "late" if hosted after its deny was recorded
    running, fresh, hardClosed,
    revBudget

revVars == <<log, revFile, state, sync, decision, denied, accounts, reg, running, fresh,
             hardClosed, revBudget>>

NoSync == [pc |-> "idle", events |-> <<>>, base |-> [epoch |-> 0, decisions |-> {}]]
NoDecision == [pc |-> "idle", node |-> "none"]
EmptyState == [epoch |-> 0, decisions |-> {}]
RevFault == revBudget > 0 /\ revBudget' = revBudget - 1
Hosted(n) == reg[n] \in {"hosted", "late"}
ScopesOf(s) == {log[i] : i \in 1..s.epoch} \cup s.decisions

-----------------------------------------------------------------------------
(* The CA.                                                                   *)

CARevokes(n) ==
    /\ Len(log) < MaxLog
    /\ log' = Append(log, n)
    /\ UNCHANGED <<revFile, state, sync, decision, denied, accounts, reg, running, fresh, hardClosed, revBudget>>

\* An answer of the CA carries a permanent deny decision about the node.
DecisionArrives(n) ==
    /\ running /\ decision = NoDecision /\ n \notin state.decisions
    /\ decision' = [pc |-> "persist", node |-> n]
    /\ UNCHANGED <<log, revFile, state, sync, denied, accounts, reg, running, fresh, hardClosed, revBudget>>

-----------------------------------------------------------------------------
(* syncOnce.                                                                 *)

\* The epoch is read, the request sent; the answer holds contiguous events
\* after that epoch, some of them if any are pending.
SyncAsks(m) ==
    /\ running /\ sync = NoSync
    /\ m \in state.epoch..Len(log) /\ (m = state.epoch => m = Len(log))
    /\ sync' = [pc |-> "answered", events |-> SubSeq(log, state.epoch + 1, m), base |-> state]
    /\ UNCHANGED <<log, revFile, state, decision, denied, accounts, reg, running, fresh, hardClosed, revBudget>>

\* Mutant: the proposed state is built on the one the request was built from.
ProposedFromRequest(s, events) == [s.base EXCEPT !.epoch = @ + Len(events)]

\* The proposed state: the events are appended to the present state.
Proposed(s, events) == [state EXCEPT !.epoch = @ + Len(events)]

\* Under the control's lock the proposed state is written and adopted.
SyncPersists ==
    /\ running /\ sync.pc = "answered"
    /\ revFile' = Proposed(sync, sync.events)
    /\ state' = Proposed(sync, sync.events)
    /\ fresh' = TRUE
    /\ sync' = IF sync.events = <<>> THEN NoSync
               ELSE [NoSync EXCEPT !.pc = "record", !.events = sync.events]
    /\ UNCHANGED <<log, decision, denied, accounts, reg, running, hardClosed, revBudget>>

\* writeState fails, before the rename or in the directory's sync after it;
\* the next sync asks again.
SyncWriteFails(renamed) ==
    /\ running /\ sync.pc = "answered" /\ RevFault
    /\ revFile' = IF renamed THEN Proposed(sync, sync.events) ELSE revFile
    /\ sync' = NoSync
    /\ UNCHANGED <<log, state, decision, denied, accounts, reg, running, fresh, hardClosed>>

-----------------------------------------------------------------------------
(* applyVerifiedDeny: a scope that is recorded already is left alone; else it *)
(* is recorded under the lock and its registrations are closed afterwards.    *)

\* CloseHostedRegistration of the node, if the account table knows it.
HostingClosed(n) ==
    IF n \in accounts /\ Hosted(n) THEN [reg EXCEPT ![n] = "none"] ELSE reg

SyncRecords ==
    /\ running /\ sync.pc = "record"
    /\ LET n == Head(sync.events)
           rest == [sync EXCEPT !.events = Tail(@)]
       IN /\ denied' = denied \cup {n}
          /\ sync' = IF n \notin denied THEN [sync EXCEPT !.pc = "close"]
                     ELSE IF Len(sync.events) = 1 THEN NoSync ELSE rest
    /\ UNCHANGED <<log, revFile, state, decision, accounts, reg, running, fresh, hardClosed, revBudget>>

SyncCloses ==
    /\ running /\ sync.pc = "close"
    /\ reg' = HostingClosed(Head(sync.events))
    /\ sync' = IF Len(sync.events) = 1 THEN NoSync
               ELSE [sync EXCEPT !.pc = "record", !.events = Tail(@)]
    /\ UNCHANGED <<log, revFile, state, decision, denied, accounts, running, fresh, hardClosed, revBudget>>

\* persistDecision.
PersistsDecision ==
    /\ running /\ decision.pc = "persist"
    /\ revFile' = [state EXCEPT !.decisions = @ \cup {decision.node}]
    /\ state' = [state EXCEPT !.decisions = @ \cup {decision.node}]
    /\ decision' = [decision EXCEPT !.pc = "record"]
    /\ UNCHANGED <<log, sync, denied, accounts, reg, running, fresh, hardClosed, revBudget>>

\* The decision is not applied when it cannot be written.
DecisionWriteFails(renamed) ==
    /\ running /\ decision.pc = "persist" /\ RevFault
    /\ revFile' = IF renamed THEN [state EXCEPT !.decisions = @ \cup {decision.node}] ELSE revFile
    /\ decision' = NoDecision
    /\ UNCHANGED <<log, state, sync, denied, accounts, reg, running, fresh, hardClosed>>

\* Mutant: the registrations are closed before the scope is recorded.
DecisionAppliesClosingFirst ==
    /\ running
    /\ \/ /\ decision.pc = "record"
          /\ reg' = HostingClosed(decision.node)
          /\ decision' = [decision EXCEPT !.pc = "close"]
          /\ UNCHANGED denied
       \/ /\ decision.pc = "close"
          /\ denied' = denied \cup {decision.node}
          /\ decision' = NoDecision
          /\ UNCHANGED reg
    /\ UNCHANGED <<log, revFile, state, sync, accounts, running, fresh, hardClosed, revBudget>>

DecisionApplies ==
    /\ running
    /\ \/ /\ decision.pc = "record"
          /\ denied' = denied \cup {decision.node}
          /\ decision' = IF decision.node \in denied THEN NoDecision ELSE [decision EXCEPT !.pc = "close"]
          /\ UNCHANGED reg
       \/ /\ decision.pc = "close"
          /\ reg' = HostingClosed(decision.node)
          /\ decision' = NoDecision
          /\ UNCHANGED denied
    /\ UNCHANGED <<log, revFile, state, sync, accounts, running, fresh, hardClosed, revBudget>>

-----------------------------------------------------------------------------
(* Registrations, outages and crashes.                                       *)

\* onRegisterVerify: refused while the revocation state is stale or the node
\* denied; else its certificate enters the account table.
RegisterVerify(n) ==
    /\ running /\ reg[n] = "none" /\ fresh /\ n \notin denied
    /\ accounts' = accounts \cup {n}
    /\ reg' = [reg EXCEPT ![n] = "verified"]
    /\ UNCHANGED <<log, revFile, state, sync, decision, denied, running, fresh, hardClosed, revBudget>>

\* The registration becomes a hosted group, without a further look.
RegisterHosts(n) ==
    /\ running /\ reg[n] = "verified"
    /\ reg' = [reg EXCEPT ![n] = IF n \in denied THEN "late" ELSE "hosted"]
    /\ UNCHANGED <<log, revFile, state, sync, decision, denied, accounts, running, fresh, hardClosed, revBudget>>

RegistrationEnds(n) ==
    /\ running /\ Hosted(n)
    /\ reg' = [reg EXCEPT ![n] = "none"]
    /\ UNCHANGED <<log, revFile, state, sync, decision, denied, accounts, running, fresh, hardClosed, revBudget>>

\* The CA cannot be reached: the state grows stale; after five minutes a
\* failed sync closes what is hosted, the first time.
CAUnreachable ==
    /\ running /\ sync = NoSync /\ RevFault
    /\ fresh' = FALSE
    /\ \/ UNCHANGED <<hardClosed, reg>>
       \/ /\ hardClosed' = TRUE
          /\ reg' = IF hardClosed THEN reg
                    ELSE [n \in DenyNodes |->
                            IF n \in accounts /\ Hosted(n) THEN "none" ELSE reg[n]]
    /\ UNCHANGED <<log, revFile, state, sync, decision, denied, accounts, running>>

RelayCrash ==
    /\ running /\ RevFault
    /\ running' = FALSE /\ fresh' = FALSE /\ hardClosed' = FALSE
    /\ state' = EmptyState /\ sync' = NoSync /\ decision' = NoDecision
    /\ denied' = {} /\ accounts' = {}
    /\ reg' = [n \in DenyNodes |-> "none"]
    /\ UNCHANGED <<log, revFile>>

\* ConfigureRevocationControl: the file is loaded and applied before the
\* first sync, without which nothing registers.
RelayStarts ==
    /\ ~running
    /\ running' = TRUE
    /\ state' = revFile
    /\ denied' = ScopesOf(revFile)
    /\ UNCHANGED <<log, revFile, sync, decision, accounts, reg, fresh, hardClosed, revBudget>>

-----------------------------------------------------------------------------

RevInit ==
    /\ log = <<>> /\ revFile = EmptyState /\ state = EmptyState
    /\ sync = NoSync /\ decision = NoDecision
    /\ denied = {} /\ accounts = {} /\ reg = [n \in DenyNodes |-> "none"]
    /\ running = FALSE /\ fresh = FALSE /\ hardClosed = FALSE
    /\ revBudget = MaxRevFaults

RevNext ==
    \/ \E n \in DenyNodes :
          \/ CARevokes(n) \/ DecisionArrives(n)
          \/ RegisterVerify(n) \/ RegisterHosts(n) \/ RegistrationEnds(n)
    \/ \E m \in 0..MaxLog : SyncAsks(m)
    \/ \E renamed \in BOOLEAN : SyncWriteFails(renamed) \/ DecisionWriteFails(renamed)
    \/ SyncPersists \/ SyncRecords \/ SyncCloses \/ PersistsDecision \/ DecisionApplies
    \/ CAUnreachable \/ RelayCrash \/ RelayStarts

RevSpec == RevInit /\ [][RevNext]_revVars

-----------------------------------------------------------------------------
(* Properties.                                                              *)

\* A deny that is in force is in the state file, whatever else is written to
\* it meanwhile and wherever a write fails: no restart lets the node in again.
DenySurvivesRestart == denied \subseteq ScopesOf(revFile)

\* A node that is hosted when its deny takes effect does not stay hosted: once
\* the deny is carried out, by the sync or by a decision, a denied node is hosted
\* only if its registration was verified before and completed after that.
DeniedHostedOnlyLate ==
    \A n \in DenyNodes :
        /\ reg[n] = "hosted" /\ n \in denied
        /\ ~(sync.pc = "close" /\ Head(sync.events) = n)
        => decision = [pc |-> "close", node |-> n]
=============================================================================
