--------------------------- MODULE ServiceListener ---------------------------
(***************************************************************************)
(* The persistent service of a NAT node.  A carrier is a registration at   *)
(* one relay with a frame mux on it; maintainCarrier reopens it when its   *)
(* mux ends.  Every virtual connection of a mux is admitted, shaken hands  *)
(* with by a goroutine of its own, made an active session and queued for   *)
(* Accept.  A slot of the sessions channel limits admitted connections of  *)
(* all carriers together.  A mux stands for its generation, 0 for none.    *)
(***************************************************************************)
EXTENDS Integers, FiniteSets, Sequences, Functions

CONSTANTS
    SvcCarriers, SvcIds,  \* carriers, connection ids
    SvcWorkers,        \* bound: virtual connections handled at a time
    maxSessions,       \* slots
    acceptQueue,       \* room for sessions nobody accepted yet
    MaxMuxes           \* bound: muxes of each carrier

\* "none" and "close" stand for no carrier and for Close.
ASSUME SvcAssumption ==
    /\ IsFiniteSet(SvcCarriers) /\ IsFiniteSet(SvcIds) /\ IsFiniteSet(SvcWorkers)
    /\ {"none", "close"} \cap SvcCarriers = {}
    /\ maxSessions \in Nat

VARIABLES
    carrier,      \* by carrier: mux and whether it ended, maintainCarrier, the relay's registration
    work,         \* acceptVirtualConnection and its goroutine
    sessions,     \* slots taken
    svcActive, svcPending,   \* by id: [c, mux] or none
    retired,      \* tombstones
    accepted,     \* the channel of Accept
    drained,      \* by owner: ids taken out of svcActive, their slots not yet released
    listener      \* Close

svcVars == <<carrier, work, sessions, svcActive, svcPending, retired, accepted, drained, listener>>

NotServed == [c |-> "none", mux |-> 0]
NoWork == [pc |-> "none", id |-> "none", s |-> NotServed]
Owners == SvcCarriers \cup {"close"}
SvcClosed == listener.pc # "open"
Ids(f) == {id \in SvcIds : f[id] # NotServed}

\* releaseSessionSlot does nothing when no slot is taken.
Released(n) == IF sessions >= n THEN sessions - n ELSE 0

-----------------------------------------------------------------------------
(* maintainCarrier.                                                         *)

\* registerServiceCarrier: refused while the node has a registration there;
\* a failure is retried.
Registers(c) ==
    /\ carrier[c].pc = "retry" /\ ~SvcClosed /\ carrier[c].gen < MaxMuxes[c]
    /\ carrier' = [carrier EXCEPT ![c].pc = "install", ![c].registered = TRUE]
    /\ UNCHANGED <<work, sessions, svcActive, svcPending, retired, accepted, drained, listener>>

\* Mutant: a listener that is closed does not undo the registration.
InstallsKeeping(c) ==
    /\ carrier[c].pc = "install"
    /\ carrier' = [carrier EXCEPT ![c] =
         IF SvcClosed THEN [carrier[c] EXCEPT !.pc = "end"]
         ELSE [carrier[c] EXCEPT !.pc = "watch", !.mux = carrier[c].gen + 1, !.gen = @ + 1, !.done = FALSE]]
    /\ UNCHANGED <<work, sessions, svcActive, svcPending, retired, accepted, drained, listener>>

\* openCarrier, after the registration: Close may have come meanwhile.
Installs(c) ==
    /\ carrier[c].pc = "install"
    /\ carrier' = [carrier EXCEPT ![c] =
         IF SvcClosed THEN [carrier[c] EXCEPT !.pc = "end", !.registered = FALSE]
         ELSE [carrier[c] EXCEPT !.pc = "watch", !.mux = carrier[c].gen + 1, !.gen = @ + 1, !.done = FALSE]]
    /\ UNCHANGED <<work, sessions, svcActive, svcPending, retired, accepted, drained, listener>>

\* The registration's stream ends.
MuxEnds(c) ==
    /\ carrier[c].mux # 0 /\ ~carrier[c].done
    /\ carrier' = [carrier EXCEPT ![c].done = TRUE]
    /\ UNCHANGED <<work, sessions, svcActive, svcPending, retired, accepted, drained, listener>>

\* clearCarrier under the lock: the carrier has no mux, its sessions are out
\* of the table and their ids retired.
ClearCarrier(c) ==
    /\ carrier[c].pc = "watch" /\ carrier[c].done
    /\ LET mine == {id \in SvcIds : svcActive[id].c = c} IN
       /\ svcActive' = [id \in SvcIds |-> IF id \in mine THEN NotServed ELSE svcActive[id]]
       /\ retired' = retired \cup mine
       /\ drained' = [drained EXCEPT ![c] = mine]
    /\ carrier' = [carrier EXCEPT ![c].pc = "drop", ![c].mux = 0]
    /\ UNCHANGED <<work, sessions, svcPending, accepted, listener>>

\* Its rest: the sessions are closed, their slots and the registration go.
DropCarrier(c) ==
    /\ carrier[c].pc = "drop"
    /\ sessions' = Released(Cardinality(drained[c]))
    /\ drained' = [drained EXCEPT ![c] = {}]
    /\ carrier' = [carrier EXCEPT ![c].pc = "retry", ![c].registered = FALSE]
    /\ UNCHANGED <<work, svcActive, svcPending, retired, accepted, listener>>

\* The context is done.
MaintainEnds(c) ==
    /\ SvcClosed /\ carrier[c].pc \in {"watch", "retry"}
    /\ carrier' = [carrier EXCEPT ![c].pc = "end"]
    /\ UNCHANGED <<work, sessions, svcActive, svcPending, retired, accepted, drained, listener>>

-----------------------------------------------------------------------------
(* acceptVirtualConnection.                                                 *)

\* A mux meets a new connection id and calls the listener (which would refuse
\* it without a trace, had it been closed before).
Arrives(w, c, id) ==
    /\ ~SvcClosed /\ work[w] = NoWork /\ carrier[c].mux # 0 /\ ~carrier[c].done
    /\ ~\E v \in SvcWorkers : work[v].id = id /\ work[v].s = [c |-> c, mux |-> carrier[c].mux]
    /\ work' = [work EXCEPT ![w] = [pc |-> "arrived", id |-> id, s |-> [c |-> c, mux |-> carrier[c].mux]]]
    /\ UNCHANGED <<carrier, sessions, svcActive, svcPending, retired, accepted, drained, listener>>

\* Mutant: the id may be active or pending.
AdmissibleTwice(id, c) ==
    /\ ~SvcClosed /\ carrier[c].mux # 0 /\ id \notin retired /\ sessions < maxSessions

\* Not closed, the carrier up (by whatever mux), the id neither retired nor
\* in use, and a slot free.
Admissible(id, c) ==
    /\ ~SvcClosed /\ carrier[c].mux # 0 /\ id \notin retired
    /\ svcActive[id] = NotServed /\ svcPending[id] = NotServed /\ sessions < maxSessions

Admits(w) ==
    /\ work[w].pc = "arrived"
    /\ IF Admissible(work[w].id, work[w].s.c)
       THEN /\ sessions' = sessions + 1
            /\ svcPending' = [svcPending EXCEPT ![work[w].id] = work[w].s]
            /\ work' = [work EXCEPT ![w].pc = "handshake"]
       ELSE work' = [work EXCEPT ![w] = NoWork] /\ UNCHANGED <<sessions, svcPending>>
    /\ UNCHANGED <<carrier, svcActive, retired, accepted, drained, listener>>

\* No first message, no handshake, no metadata: clearPending and the slot.
HandshakeFails(w) ==
    /\ work[w].pc = "handshake"
    /\ LET id == work[w].id IN
       IF svcPending[id].c = work[w].s.c
       THEN /\ svcPending' = [svcPending EXCEPT ![id] = NotServed]
            /\ retired' = retired \cup {id}
       ELSE UNCHANGED <<svcPending, retired>>
    /\ work' = [work EXCEPT ![w].pc = "release"]
    /\ UNCHANGED <<carrier, sessions, svcActive, accepted, drained, listener>>

ReleasesSlot(w) ==
    /\ work[w].pc = "release"
    /\ sessions' = Released(1) /\ work' = [work EXCEPT ![w] = NoWork]
    /\ UNCHANGED <<carrier, svcActive, svcPending, retired, accepted, drained, listener>>

\* The handshake is done: still admitted, and the carrier has a mux.
Activates(w) ==
    /\ work[w].pc = "handshake"
    /\ LET id == work[w].id IN
       /\ ~SvcClosed /\ svcPending[id].c = work[w].s.c /\ carrier[work[w].s.c].mux # 0
       /\ svcPending' = [svcPending EXCEPT ![id] = NotServed]
       /\ svcActive' = [svcActive EXCEPT ![id] = work[w].s]
    /\ work' = [work EXCEPT ![w].pc = "queue"]
    /\ UNCHANGED <<carrier, sessions, retired, accepted, drained, listener>>

\* removeSession: whoever takes the session out of the table releases it.
RemoveSession(id) ==
    /\ svcActive' = [svcActive EXCEPT ![id] = NotServed]
    /\ IF svcActive[id] # NotServed
       THEN sessions' = Released(1) /\ retired' = retired \cup {id}
       ELSE UNCHANGED <<sessions, retired>>

\* To the queue of Accept; a full queue or Close closes the session.
Queues(w) ==
    /\ work[w].pc = "queue"
    /\ IF ~SvcClosed /\ Len(accepted) < acceptQueue
       THEN accepted' = Append(accepted, work[w].id) /\ UNCHANGED <<sessions, svcActive, retired>>
       ELSE RemoveSession(work[w].id) /\ UNCHANGED accepted
    /\ work' = [work EXCEPT ![w] = NoWork]
    /\ UNCHANGED <<carrier, svcPending, drained, listener>>

SvcAccepts ==
    /\ accepted # <<>> /\ ~SvcClosed
    /\ accepted' = Tail(accepted)
    /\ UNCHANGED <<carrier, work, sessions, svcActive, svcPending, retired, drained, listener>>

\* serviceConnection.Close, by the application or after an error.
SessionCloses(id) ==
    /\ svcActive[id] # NotServed /\ id \notin Range(accepted)
    /\ ~\E w \in SvcWorkers : work[w].id = id /\ work[w].pc = "queue"
    /\ RemoveSession(id)
    /\ UNCHANGED <<carrier, work, svcPending, accepted, drained, listener>>

\* Ten minutes later.
TombstoneExpires(id) ==
    /\ id \in retired /\ \A w \in SvcWorkers : work[w].id # id
    /\ \A o \in Owners : id \notin drained[o]
    /\ retired' = retired \ {id}
    /\ UNCHANGED <<carrier, work, sessions, svcActive, svcPending, accepted, drained, listener>>

-----------------------------------------------------------------------------
(* Close.                                                                   *)

\* The sessions still in the queue are closed with the others, whether or not
\* an Accept still takes them from it.
SvcCloses ==
    /\ listener.pc = "open"
    /\ listener' = [pc |-> "drain", left |-> SvcCarriers, entry |-> "none"]
    /\ drained' = [drained EXCEPT !["close"] = Ids(svcActive)]
    /\ svcActive' = [id \in SvcIds |-> NotServed] /\ svcPending' = [id \in SvcIds |-> NotServed]
    /\ retired' = {} /\ accepted' = <<>>
    /\ UNCHANGED <<carrier, work, sessions>>

\* A carrier's mux, then its entry, is looked at without the lock and used: by
\* then clearCarrier may have taken it, and the process panics.
CloseLooks(c) ==
    /\ listener.pc \in {"drain", "entries"} /\ c \in listener.left /\ listener.entry = "none"
    /\ listener' = [listener EXCEPT !.left = @ \ {c}, !.entry = IF carrier[c].mux # 0 THEN c ELSE "none"]
    /\ UNCHANGED <<carrier, work, sessions, svcActive, svcPending, retired, accepted, drained>>

CloseClosesMux(c) ==
    /\ listener.pc = "drain" /\ listener.entry = c
    /\ IF carrier[c].mux = 0
       THEN listener' = [listener EXCEPT !.pc = "panic", !.entry = "none"] /\ UNCHANGED carrier
       ELSE /\ listener' = [listener EXCEPT !.entry = "none"]
            /\ carrier' = [carrier EXCEPT ![c].done = TRUE]
    /\ UNCHANGED <<work, sessions, svcActive, svcPending, retired, accepted, drained>>

\* Then the sessions are closed, and their slots released.
CloseDrained ==
    /\ listener.pc = "drain" /\ listener.left = {} /\ listener.entry = "none"
    /\ sessions' = Released(Cardinality(drained["close"]))
    /\ drained' = [drained EXCEPT !["close"] = {}]
    /\ listener' = [listener EXCEPT !.pc = "entries", !.left = SvcCarriers]
    /\ UNCHANGED <<carrier, work, svcActive, svcPending, retired, accepted>>

CloseUnregisters(c) ==
    /\ listener.pc = "entries" /\ listener.entry = c
    /\ IF carrier[c].mux = 0
       THEN listener' = [listener EXCEPT !.pc = "panic", !.entry = "none"] /\ UNCHANGED carrier
       ELSE /\ listener' = [listener EXCEPT !.entry = "none"]
            /\ carrier' = [carrier EXCEPT ![c].registered = FALSE]
    /\ UNCHANGED <<work, sessions, svcActive, svcPending, retired, accepted, drained>>

\* workers.Wait.
SvcDone ==
    /\ listener.pc = "entries" /\ listener.left = {} /\ listener.entry = "none"
    /\ \A w \in SvcWorkers : work[w].pc \in {"none", "arrived"}
    /\ listener' = [listener EXCEPT !.pc = "closed"]
    /\ UNCHANGED <<carrier, work, sessions, svcActive, svcPending, retired, accepted, drained>>

-----------------------------------------------------------------------------

SvcInit ==
    /\ carrier = [c \in SvcCarriers |-> [mux |-> 1, gen |-> 1, done |-> FALSE, pc |-> "watch", registered |-> TRUE]]
    /\ work = [w \in SvcWorkers |-> NoWork] /\ sessions = 0
    /\ svcActive = [id \in SvcIds |-> NotServed] /\ svcPending = [id \in SvcIds |-> NotServed]
    /\ retired = {} /\ accepted = <<>> /\ drained = [o \in Owners |-> {}]
    /\ listener = [pc |-> "open", left |-> {}, entry |-> "none"]

SvcNext ==
    \/ \E c \in SvcCarriers : Registers(c) \/ Installs(c) \/ MuxEnds(c) \/ ClearCarrier(c) \/ DropCarrier(c)
                           \/ MaintainEnds(c) \/ CloseLooks(c) \/ CloseClosesMux(c) \/ CloseUnregisters(c)
    \/ \E w \in SvcWorkers : \E c \in SvcCarriers : \E id \in SvcIds : Arrives(w, c, id)
    \/ \E w \in SvcWorkers : Admits(w) \/ HandshakeFails(w) \/ ReleasesSlot(w) \/ Activates(w) \/ Queues(w)
    \/ \E id \in SvcIds : SessionCloses(id) \/ TombstoneExpires(id)
    \/ SvcAccepts \/ SvcCloses \/ CloseDrained \/ SvcDone

SvcSpec == SvcInit /\ [][SvcNext]_svcVars

\* A slot is taken exactly for every connection being admitted, every active
\* session and every session on its way out: whichever of Close, a lost
\* carrier, a failed handshake and the application comes first, it is
\* released once.  When Close has returned, the only slots still taken are of
\* sessions that clearCarrier took out of the table of a lost carrier.
SessionSlotsExact ==
    /\ sessions = Cardinality({w \in SvcWorkers : work[w].pc \in {"handshake", "release"}})
                  + Cardinality(Ids(svcActive))
                  + Cardinality(UNION {{<<o, id>> : id \in drained[o]} : o \in Owners})
    /\ sessions <= maxSessions
    /\ listener.pc = "closed" =>
          /\ Ids(svcActive) = {} /\ drained["close"] = {}
          /\ \A w \in SvcWorkers : work[w].pc \in {"none", "arrived"}

\* A connection id is served once: never while it is being admitted and
\* active at the same time through whatever carrier, nor after it was
\* retired, until its tombstone expires.
ServedOnce ==
    \A id \in SvcIds :
        /\ svcActive[id] # NotServed => svcPending[id] = NotServed /\ id \notin retired
        /\ svcPending[id] # NotServed => id \notin retired
        /\ ~SvcClosed => Cardinality({w \in SvcWorkers : work[w].id = id /\ work[w].pc = "handshake"}) <= 1

\* Close leaves no registration behind at a relay, whatever maintainCarrier was
\* doing: what is still registered when Close has returned belongs to a carrier
\* whose own goroutine is about to take it back (openCarrier, clearCarrier,
\* Close).
RegistrationsTakenBack ==
    listener.pc = "closed" =>
        \A c \in SvcCarriers : carrier[c].registered => carrier[c].pc \in {"install", "drop"}

\* Sessions are counted and served once (acceptVirtualConnection,
\* removeSession, drainSessionsLocked).
SessionsServedOnce == SessionSlotsExact /\ ServedOnce
=============================================================================
