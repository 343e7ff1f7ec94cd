------------------------------ MODULE PeerLinks ------------------------------
(***************************************************************************)
(* The inbound control links of a relay (peer_link.go and the link tables  *)
(* of relay_node.go): physical links of a peer's sessions arrive, say      *)
(* HELLO, are activated or displaced by a newer session, break, and are    *)
(* counted up and down per peer.  A close runs through its sections one by *)
(* one, outside the node's lock in between.                                *)
(***************************************************************************)
EXTENDS Naturals, FiniteSets

CONSTANTS
    Links,         \* physical links that may arrive
    LinkSessions,  \* by link, the sessions it may belong to
    CtlSessions,   \* control sessions (peer and connection identifier)
    PeerOf,        \* the peer of a session
    AddrOf         \* the address a peer's HELLO reports

ASSUME LinkAssumption ==
    /\ IsFiniteSet(Links) /\ IsFiniteSet(CtlSessions)
    /\ LinkSessions \in [Links -> SUBSET CtlSessions]
    /\ "none" \notin CtlSessions

VARIABLES
    link,          \* by link: serve's step, the session, countedUp, the close's step
    listed,        \* inboundLinks
    current,       \* inboundByPeerID: the session each peer is served on
    gens,          \* inboundSessionGens
    active,        \* relayActiveLinks
    known,         \* peerIDToAddr
    closing,       \* by link, those its activation has still to close
    displaced      \* peers whose entries another identity at their address took

linkVars == <<link, listed, current, gens, active, known, closing, displaced>>

CtlPeers == {PeerOf[s] : s \in CtlSessions}
NoLink == [pc |-> "new", session |-> "none", counted |-> FALSE, down |-> "no"]
EndedLink == [NoLink EXCEPT !.pc = "ended"]
PeerAt(l) == PeerOf[link[l].session]
Gen(l) == gens[link[l].session]
NoSession == "none"

\* acceptControlLink: the session keeps the generation it was first seen with.
AcceptControlLink(l, s) ==
    /\ link[l].pc = "new"
    /\ link' = [link EXCEPT ![l] = [NoLink EXCEPT !.pc = "serve", !.session = s]]
    /\ gens' = IF gens[s] # 0 THEN gens
               ELSE [gens EXCEPT ![s] = 1 + Cardinality({t \in CtlSessions : gens[t] # 0})]
    /\ listed' = listed \cup {l}
    /\ UNCHANGED <<current, active, known, closing, displaced>>

-----------------------------------------------------------------------------
(* Closing a link: clearStream and close.                                    *)

\* The section under the link's lock; the stream is gone once.
Cleared(lk) ==
    [lk EXCEPT !.down = IF lk.counted THEN "down" ELSE "remove", !.counted = FALSE]

LinkBreaks(l) ==
    /\ link[l].pc \notin {"new", "ended"} /\ link[l].down = "no"
    /\ link' = [link EXCEPT ![l] = Cleared(@)]
    /\ UNCHANGED <<listed, current, gens, active, known, closing, displaced>>

\* relayLinkDown.
RelayLinkDown(l) ==
    /\ link[l].down = "down"
    /\ LET p == PeerAt(l) IN
       /\ active' = [active EXCEPT ![p] = IF @ > 1 THEN @ - 1 ELSE 0]
       /\ link' = [link EXCEPT ![l].down = IF active[p] > 1 THEN "remove" ELSE "purge"]
    /\ UNCHANGED <<listed, current, gens, known, closing, displaced>>

\* removeHostRoutesVia, of a peer that had no link left (the routes themselves
\* are in HostRoutes).
RemoveHostRoutesVia(l) ==
    /\ link[l].down = "purge"
    /\ link' = [link EXCEPT ![l].down = "remove"]
    /\ UNCHANGED <<listed, current, gens, active, known, closing, displaced>>

\* The serve loop of a removed link ends with its context; a HELLO it is
\* handling runs to its end first.
RemoveInboundLink(l) ==
    /\ link[l].down = "remove"
    /\ listed' = listed \ {l}
    /\ link' = [link EXCEPT ![l] =
                   IF @.pc \in {"hello", "activated", "refused"} THEN [@ EXCEPT !.down = "gone"]
                   ELSE EndedLink]
    /\ UNCHANGED <<current, gens, active, known, closing, displaced>>

-----------------------------------------------------------------------------
(* dispatch of HELLO on a link, with the node's tables.                      *)

\* Mutant: every HELLO counts its link up.
HelloCountsAgain(l) ==
    /\ link[l].pc \in {"serve", "member"} /\ link[l].down = "no"
    /\ active' = [active EXCEPT ![PeerAt(l)] = @ + 1]
    /\ link' = [link EXCEPT ![l].pc = "hello", ![l].counted = TRUE]
    /\ UNCHANGED <<listed, current, gens, known, closing, displaced>>

\* The link's own section: a link that was closed meanwhile is left alone, a
\* first HELLO counts it up within that section.
Hello(l) ==
    /\ link[l].pc \in {"serve", "member"} /\ link[l].down = "no"
    /\ active' = IF link[l].counted THEN active ELSE [active EXCEPT ![PeerAt(l)] = @ + 1]
    /\ link' = [link EXCEPT ![l].pc = "hello", ![l].counted = TRUE]
    /\ UNCHANGED <<listed, current, gens, known, closing, displaced>>

SessionLinks(s) == {k \in listed : link[k].session = s}

\* Whether the link's session replaces the one the peer is served on.
Supersedes(l, s) == gens[s] < Gen(l)

\* activateInboundLink, under the node's lock: the newest session serves the
\* peer; the links of the other are taken off the list and closed later.
ActivateInboundLink(l) ==
    /\ link[l].pc = "hello"
    /\ LET p == PeerAt(l)
           s == current[p]
           mine == link[l].session
           take == s = NoSession \/ s = mine \/ Supersedes(l, s)
           stale == IF s \in {NoSession, mine} THEN {}
                    ELSE IF take THEN SessionLinks(s) ELSE SessionLinks(mine)
       IN /\ current' = IF take THEN [current EXCEPT ![p] = mine] ELSE current
          /\ listed' = listed \ stale
          /\ closing' = [closing EXCEPT ![l] = stale]
          /\ link' = [link EXCEPT ![l].pc = IF take THEN "activated" ELSE "refused"]
    /\ UNCHANGED <<gens, active, known, displaced>>

\* staleLink.close of each, outside the lock; one that is closing already is
\* left to whoever closes it.
CloseStale(l, k) ==
    /\ k \in closing[l]
    /\ closing' = [closing EXCEPT ![l] = @ \ {k}]
    /\ link' = IF link[k].down = "no" THEN [link EXCEPT ![k] = Cleared(@)] ELSE link
    /\ UNCHANGED <<listed, current, gens, active, known, displaced>>

\* onPeerHello: another identity known under the same address is dropped,
\* its link count included.  The reply and syncHostRoutes follow.
OnPeerHello(l) ==
    /\ link[l].pc = "activated" /\ closing[l] = {}
    /\ LET p == PeerAt(l)
           old == {q \in known \ {p} : AddrOf[q] = AddrOf[p]}
       IN /\ known' = (known \ old) \cup {p}
          /\ active' = [q \in CtlPeers |-> IF q \in old THEN 0 ELSE active[q]]
          /\ displaced' = displaced \cup old
    /\ link' = [link EXCEPT ![l] = IF @.down = "gone" THEN EndedLink ELSE [@ EXCEPT !.pc = "member"]]
    /\ UNCHANGED <<listed, current, gens, closing>>

\* A link that was refused has closed itself with its session.
LinkRefused(l) ==
    /\ link[l].pc = "refused" /\ closing[l] = {}
    /\ link' = [link EXCEPT ![l] = IF @.down = "gone" THEN EndedLink ELSE [@ EXCEPT !.pc = "ended"]]
    /\ UNCHANGED <<listed, current, gens, active, known, closing, displaced>>

-----------------------------------------------------------------------------

LinkInit ==
    /\ link = [l \in Links |-> NoLink] /\ listed = {}
    /\ current = [p \in CtlPeers |-> NoSession]
    /\ gens = [s \in CtlSessions |-> 0]
    /\ active = [p \in CtlPeers |-> 0]
    /\ known = {}
    /\ closing = [l \in Links |-> {}] /\ displaced = {}

LinkNext ==
    \E l \in Links :
        \/ \E s \in LinkSessions[l] : AcceptControlLink(l, s)
        \/ LinkBreaks(l) \/ RelayLinkDown(l) \/ RemoveHostRoutesVia(l) \/ RemoveInboundLink(l)
        \/ Hello(l) \/ ActivateInboundLink(l) \/ OnPeerHello(l) \/ LinkRefused(l)
        \/ \E k \in Links : CloseStale(l, k)

LinkSpec == LinkInit /\ [][LinkNext]_linkVars

-----------------------------------------------------------------------------
(* Properties.                                                              *)

\* The number of control links a peer is counted with is never more than its
\* counted links and those whose count down is under way, and is exactly that
\* unless another identity took over the peer's address: a peer whose links
\* are gone is not presented as online.
LinksCounted ==
    \A p \in CtlPeers :
        LET up == {l \in Links : link[l].session # NoSession /\ PeerAt(l) = p
                                 /\ (link[l].counted \/ link[l].down = "down")}
        IN /\ active[p] <= Cardinality(up)
           /\ p \notin displaced => active[p] = Cardinality(up)

\* A peer is served on its newest session: every link that was activated and
\* is still listed belongs to it, and a late link of an older session never
\* displaces it.
NewestSessionServes ==
    \A l \in listed :
        link[l].pc \in {"activated", "member"} =>
            /\ link[l].session = current[PeerAt(l)]
            /\ \A k \in Links : link[k].pc \in {"activated", "member"} /\ PeerAt(k) = PeerAt(l)
                   => Gen(k) <= Gen(l)

\* The link tables agree with the links (serve, activateInboundLink,
\* clearStream).
LinkTablesAgree == LinksCounted /\ NewestSessionServes
=============================================================================
