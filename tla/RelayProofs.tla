----------------------------- MODULE RelayProofs ----------------------------
(***************************************************************************)
(* Proofs about a relay: the tables of the control links agree with the    *)
(* links (PeerLinks); what the message holdback (Holdback) lets through to *)
(* a client was counted, and a record that came early is not forgotten.    *)
(***************************************************************************)
EXTENDS PeerLinks, Holdback, FiniteSetTheorems, TLAPS

-----------------------------------------------------------------------------
(* The control links.                                                        *)

LinkState ==
    [pc : {"new", "serve", "hello", "activated", "refused", "member", "ended"},
     session : CtlSessions \cup {"none"}, counted : BOOLEAN,
     down : {"no", "down", "purge", "remove", "gone"}]

LinkTypeOK ==
    /\ link \in [Links -> LinkState]
    /\ listed \subseteq Links
    /\ current \in [CtlPeers -> CtlSessions \cup {"none"}]
    /\ gens \in [CtlSessions -> Nat]
    /\ active \in [CtlPeers -> Nat]
    /\ closing \in [Links -> SUBSET Links]

\* A counted link, and one whose count down is under way, has a session, and
\* so has one whose handler is past the arrival; a link to come has none.
LinksHaveSessions ==
    \A l \in Links :
        /\ link[l].pc = "new" => link[l].session = "none"
        /\ link[l].counted => link[l].down = "no"
        /\ link[l].counted \/ link[l].down = "down" \/ link[l].pc \notin {"new", "ended"}
              => link[l].session # "none"

\* A session that was seen has its generation, and a peer is served on a
\* session of its own.
SessionsNumbered ==
    /\ \A l \in Links : link[l].session # "none" => gens[link[l].session] # 0
    /\ \A p \in CtlPeers : current[p] # "none" => PeerOf[current[p]] = p /\ gens[current[p]] # 0

Activated(l) == link[l].pc \in {"activated", "member"}

\* No activated link is of a session newer than the one its peer is served
\* on, and those that are listed are of that one.
CurrentIsNewest ==
    \A l \in Links : Activated(l) =>
        /\ current[PeerAt(l)] # "none"
        /\ Gen(l) <= gens[current[PeerAt(l)]]
        /\ l \in listed => link[l].session = current[PeerAt(l)]

LinkInv ==
    /\ LinkTypeOK /\ LinksHaveSessions /\ SessionsNumbered /\ LinksCounted /\ CurrentIsNewest

\* A link that a peer is counted with, or whose count down is under way.
IsUp(lk, p) ==
    lk.session # "none" /\ PeerOf[lk.session] = p /\ (lk.counted \/ lk.down = "down")

UpLinks(lks, p) == {l \in Links : IsUp(lks[l], p)}

LEMMA CountedByUpLinks ==
    LinksCounted <=> \A p \in CtlPeers :
                        /\ active[p] <= Cardinality(UpLinks(link, p))
                        /\ p \notin displaced => active[p] = Cardinality(UpLinks(link, p))
BY DEF LinksCounted, UpLinks, IsUp, PeerAt, NoSession

LEMMA UpLinksFinite ==
    ASSUME NEW lks, NEW p
    PROVE  IsFiniteSet(UpLinks(lks, p)) /\ Cardinality(UpLinks(lks, p)) \in Nat
<1>1. UpLinks(lks, p) \subseteq Links
  BY DEF UpLinks
<1>2. IsFiniteSet(UpLinks(lks, p))
  BY <1>1, LinkAssumption, FS_Subset, Zenon
<1> QED  BY <1>2, FS_CardinalityType

\* A step that counts no link up or down keeps the count.
LEMMA CountKept ==
    ASSUME LinksCounted, UNCHANGED <<active, displaced>>,
           \A k \in Links, p \in CtlPeers : IsUp(link'[k], p) <=> IsUp(link[k], p)
    PROVE  LinksCounted'
<1>1. \A p \in CtlPeers : UpLinks(link', p) = UpLinks(link, p)
  BY Zenon DEF UpLinks
<1>2. LinksCounted' <=> \A p \in CtlPeers :
                           /\ active'[p] <= Cardinality(UpLinks(link', p))
                           /\ p \notin displaced' => active'[p] = Cardinality(UpLinks(link', p))
  BY DEF LinksCounted, UpLinks, IsUp, PeerAt, NoSession, CtlPeers
<1>3. \A p \in CtlPeers : Cardinality(UpLinks(link', p)) = Cardinality(UpLinks(link, p))
  BY <1>1, Zenon
<1> QED  BY <1>2, <1>3, CountedByUpLinks

\* What the steps of one link keep: the link changes alone, keeps its session
\* or ends, and is activated only if it was.
LEMMA LinkKeepsTables ==
    ASSUME LinkInv, NEW l \in Links, NEW r \in LinkState,
           link' = [link EXCEPT ![l] = r], UNCHANGED <<current, gens>>,
           listed' \subseteq listed,
           active' \in [CtlPeers -> Nat], closing' \in [Links -> SUBSET Links],
           r.counted => r.down = "no",
           r.counted \/ r.down = "down" \/ r.pc \notin {"new", "ended"} => r.session # "none",
           r.session # "none" => r.session = link[l].session,
           r.pc = "new" => link[l].pc = "new",
           r.pc \in {"activated", "member"} => Activated(l)
    PROVE  LinkTypeOK' /\ LinksHaveSessions' /\ SessionsNumbered' /\ CurrentIsNewest'
<1>1. \A k \in Links : link'[k] = IF k = l THEN r ELSE link[k]
  BY Zenon DEF LinkInv, LinkTypeOK
<1>2. LinkTypeOK'
  <2>1. link' \in [Links -> LinkState]
    BY Zenon DEF LinkInv, LinkTypeOK
  <2> QED  BY <2>1, Zenon DEF LinkInv, LinkTypeOK, CtlPeers
<1>3. LinksHaveSessions'
  BY <1>1, ZenonT(30) DEF LinkInv, LinksHaveSessions
<1>4. SessionsNumbered'
  BY <1>1 DEF LinkInv, SessionsNumbered, CtlPeers
<1>5. \A k \in Links : Activated(k)' => Activated(k) /\ link'[k].session = link[k].session
  BY <1>1 DEF Activated
<1>6. CurrentIsNewest'
  BY <1>5, Zenon DEF LinkInv, CurrentIsNewest, PeerAt, Gen
<1> QED  BY <1>2, <1>3, <1>4, <1>6, Zenon

\* A link breaks, alone or as a link of a session that another displaced.
LEMMA ClearedKeepsInv ==
    ASSUME LinkInv, NEW k \in Links, link[k].down = "no",
           link' = [link EXCEPT ![k] = Cleared(link[k])],
           UNCHANGED <<listed, current, gens, active, displaced>>,
           closing' \in [Links -> SUBSET Links]
    PROVE  LinkInv'
<1> DEFINE r == Cleared(link[k])
<1>1. link[k] \in LinkState /\ link \in [Links -> LinkState] /\ active \in [CtlPeers -> Nat]
  BY DEF LinkInv, LinkTypeOK
<1>2. /\ r \in LinkState /\ r.pc = link[k].pc /\ r.session = link[k].session /\ ~r.counted
      /\ r.down = (IF link[k].counted THEN "down" ELSE "remove")
  BY <1>1, Zenon DEF Cleared, LinkState
<1> HIDE DEF r
<1>3. link' = [link EXCEPT ![k] = r]
  BY DEF r
<1>4. /\ r.down = "down" \/ r.pc \notin {"new", "ended"} => r.session # "none"
      /\ r.pc \in {"activated", "member"} => Activated(k)
  BY <1>2 DEF LinkInv, LinksHaveSessions, Activated
<1>5. LinkTypeOK' /\ LinksHaveSessions' /\ SessionsNumbered' /\ CurrentIsNewest'
  BY <1>1, <1>2, <1>3, <1>4, LinkKeepsTables, ZenonT(30) DEF CtlPeers
<1>6. \A j \in Links, p \in CtlPeers : IsUp(link'[j], p) <=> IsUp(link[j], p)
  BY <1>1, <1>2, <1>3 DEF IsUp
<1>7. LinksCounted'
  BY <1>6, CountKept DEF LinkInv
<1> QED  BY <1>5, <1>7 DEF LinkInv

LEMMA LinkInvBreaks ==
    ASSUME LinkInv, NEW l \in Links, LinkBreaks(l)
    PROVE  LinkInv'
<1>1. closing \in [Links -> SUBSET Links] /\ link \in [Links -> LinkState]
  BY DEF LinkInv, LinkTypeOK
<1> QED  BY <1>1, ClearedKeepsInv, Zenon DEF LinkBreaks

LEMMA LinkInvCloseStale ==
    ASSUME LinkInv, NEW l \in Links, NEW k \in Links, CloseStale(l, k)
    PROVE  LinkInv'
<1>1. closing' \in [Links -> SUBSET Links]
  BY DEF LinkInv, LinkTypeOK, CloseStale
<1>2. CASE link[k].down = "no"
  BY <1>1, <1>2, ClearedKeepsInv, Zenon DEF CloseStale
<1>3. CASE link[k].down # "no"
  <2>1. link' = link /\ UNCHANGED <<listed, current, gens, active, displaced>>
    BY <1>3, Zenon DEF CloseStale
  <2>2. LinkTypeOK' /\ LinksHaveSessions' /\ SessionsNumbered' /\ CurrentIsNewest'
    BY <1>1, <2>1, Zenon
    DEF LinkInv, LinkTypeOK, LinksHaveSessions, SessionsNumbered, CurrentIsNewest, Activated, PeerAt, Gen, CtlPeers
  <2>3. LinksCounted'
    BY <2>1, CountKept, Zenon DEF LinkInv
  <2> QED  BY <2>2, <2>3 DEF LinkInv
<1> QED  BY <1>2, <1>3

\* A link that changes its step only, or ends when it is counted no more.
LEMMA LinkMoves ==
    ASSUME LinkInv, NEW l \in Links, NEW r \in LinkState,
           link' = [link EXCEPT ![l] = r],
           UNCHANGED <<current, gens, active, displaced, closing>>, listed' \subseteq listed,
           r.counted => link[l].counted /\ r.down = "no",
           r.pc \notin {"new", "ended"} => r.session # "none",
           r.session # "none" => r.session = link[l].session,
           r.pc = "new" => link[l].pc = "new",
           r.pc \in {"activated", "member"} => Activated(l),
           \A p \in CtlPeers : IsUp(r, p) <=> IsUp(link[l], p),
           r.counted \/ r.down = "down" => r.session # "none"
    PROVE  LinkInv'
<1>1. active' \in [CtlPeers -> Nat] /\ closing' \in [Links -> SUBSET Links] /\ link \in [Links -> LinkState]
  BY DEF LinkInv, LinkTypeOK
<1>2. LinkTypeOK' /\ LinksHaveSessions' /\ SessionsNumbered' /\ CurrentIsNewest'
  BY <1>1, LinkKeepsTables, Zenon
<1>3. \A k \in Links, p \in CtlPeers : IsUp(link'[k], p) <=> IsUp(link[k], p)
  BY <1>1, Zenon
<1>4. LinksCounted'
  BY <1>3, CountKept DEF LinkInv
<1> QED  BY <1>2, <1>4, Zenon DEF LinkInv

LEMMA EndedLinkState ==
    /\ EndedLink \in LinkState /\ EndedLink.pc = "ended" /\ EndedLink.session = "none"
    /\ ~EndedLink.counted /\ EndedLink.down = "no"
BY Zenon DEF EndedLink, NoLink, LinkState

LEMMA LinkInvRoutesRemoved ==
    ASSUME LinkInv, NEW l \in Links, RemoveHostRoutesVia(l)
    PROVE  LinkInv'
<1> DEFINE r == [link[l] EXCEPT !.down = "remove"]
<1>1. link \in [Links -> LinkState] /\ link[l] \in LinkState /\ link[l].down = "purge"
  BY DEF LinkInv, LinkTypeOK, RemoveHostRoutesVia
<1>2. /\ r \in LinkState /\ r.pc = link[l].pc /\ r.session = link[l].session
      /\ r.counted = link[l].counted /\ r.down = "remove"
  BY <1>1 DEF LinkState
<1>3. link' = [link EXCEPT ![l] = r] /\ UNCHANGED <<listed, current, gens, active, displaced, closing>>
  BY <1>1, Zenon DEF RemoveHostRoutesVia
<1> HIDE DEF r
<1>4. ~r.counted /\ (r.pc \notin {"new", "ended"} => r.session # "none")
      /\ (r.pc \in {"activated", "member"} => Activated(l))
  BY <1>1, <1>2, Zenon DEF LinkInv, LinksHaveSessions, Activated
<1>5. \A p \in CtlPeers : IsUp(r, p) <=> IsUp(link[l], p)
  BY <1>1, <1>2, <1>4 DEF IsUp
<1> QED  BY <1>2, <1>3, <1>4, <1>5, LinkMoves, Zenon

LEMMA LinkInvRemoved ==
    ASSUME LinkInv, NEW l \in Links, RemoveInboundLink(l)
    PROVE  LinkInv'
<1> DEFINE g == [link[l] EXCEPT !.down = "gone"]
           r == IF link[l].pc \in {"hello", "activated", "refused"} THEN g ELSE EndedLink
<1>1. link \in [Links -> LinkState] /\ link[l] \in LinkState /\ link[l].down = "remove" /\ ~link[l].counted
  BY DEF LinkInv, LinkTypeOK, LinksHaveSessions, RemoveInboundLink
<1>2. /\ g \in LinkState /\ g.pc = link[l].pc /\ g.session = link[l].session
      /\ g.counted = link[l].counted /\ g.down = "gone"
  BY <1>1 DEF LinkState
<1>3. link' = [link EXCEPT ![l] = r] /\ UNCHANGED <<current, gens, active, displaced, closing>>
      /\ listed' \subseteq listed
  BY <1>1, Zenon DEF RemoveInboundLink
<1> HIDE DEF g
<1>4. /\ r \in LinkState /\ ~r.counted /\ r.down # "down"
      /\ r.pc \notin {"new", "ended"} => r.session # "none"
      /\ r.session # "none" => r.session = link[l].session
      /\ r.pc = "new" => link[l].pc = "new"
      /\ r.pc \in {"activated", "member"} => Activated(l)
  BY <1>1, <1>2, EndedLinkState, Zenon DEF LinkInv, LinksHaveSessions, Activated
<1> HIDE DEF r
<1>5. \A p \in CtlPeers : IsUp(r, p) <=> IsUp(link[l], p)
  BY <1>1, <1>4 DEF IsUp
<1> QED  BY <1>3, <1>4, <1>5, LinkMoves, Zenon

LEMMA LinkInvRefused ==
    ASSUME LinkInv, NEW l \in Links, LinkRefused(l)
    PROVE  LinkInv'
<1> DEFINE m == [link[l] EXCEPT !.pc = "ended"]
           r == IF link[l].down = "gone" THEN EndedLink ELSE m
<1>1. link \in [Links -> LinkState] /\ link[l] \in LinkState
  BY DEF LinkInv, LinkTypeOK
<1>2. /\ m \in LinkState /\ m.pc = "ended" /\ m.session = link[l].session
      /\ m.counted = link[l].counted /\ m.down = link[l].down
  BY <1>1 DEF LinkState
<1>3. link' = [link EXCEPT ![l] = r] /\ UNCHANGED <<listed, current, gens, active, displaced, closing>>
  BY <1>1, Zenon DEF LinkRefused
<1> HIDE DEF m
<1>4. /\ r \in LinkState /\ r.pc = "ended"
      /\ r.counted => link[l].counted /\ r.down = "no"
      /\ r.counted \/ r.down = "down" => r.session # "none"
      /\ r.session # "none" => r.session = link[l].session
  BY <1>1, <1>2, EndedLinkState, Zenon DEF LinkInv, LinksHaveSessions
<1>5. \A p \in CtlPeers : IsUp(r, p) <=> IsUp(link[l], p)
  BY <1>1, <1>2, EndedLinkState, Zenon DEF IsUp, LinkInv, LinksHaveSessions
<1> HIDE DEF r
<1> QED  BY <1>3, <1>4, <1>5, LinkMoves, Zenon

\* onPeerHello: the peers whose address was taken are displaced, their count
\* is zero.
LEMMA LinkInvPeerHello ==
    ASSUME LinkInv, NEW l \in Links, OnPeerHello(l)
    PROVE  LinkInv'
<1> DEFINE m == [link[l] EXCEPT !.pc = "member"]
           r == IF link[l].down = "gone" THEN EndedLink ELSE m
<1>1. link \in [Links -> LinkState] /\ link[l] \in LinkState /\ link[l].pc = "activated"
  BY DEF LinkInv, LinkTypeOK, OnPeerHello
<1>2. /\ m \in LinkState /\ m.pc = "member" /\ m.session = link[l].session
      /\ m.counted = link[l].counted /\ m.down = link[l].down
  BY <1>1 DEF LinkState
<1>3. link' = [link EXCEPT ![l] = r] /\ UNCHANGED <<listed, current, gens, closing>>
  BY <1>1 DEF OnPeerHello
<1>4. PICK old : /\ active' = [q \in CtlPeers |-> IF q \in old THEN 0 ELSE active[q]]
                 /\ displaced' = displaced \cup old
  BY Zenon DEF OnPeerHello
<1> HIDE DEF m
<1>5. /\ r \in LinkState
      /\ r.counted => r.down = "no"
      /\ r.counted \/ r.down = "down" \/ r.pc \notin {"new", "ended"} => r.session # "none"
      /\ r.session # "none" => r.session = link[l].session
      /\ r.pc # "new"
      /\ r.pc \in {"activated", "member"} => Activated(l)
  BY <1>1, <1>2, EndedLinkState, Zenon DEF LinkInv, LinksHaveSessions, Activated
<1>6. \A p \in CtlPeers : IsUp(r, p) <=> IsUp(link[l], p)
  BY <1>1, <1>2, EndedLinkState, Zenon DEF IsUp, LinkInv, LinksHaveSessions
<1> HIDE DEF r
<1>7. active' \in [CtlPeers -> Nat] /\ closing' \in [Links -> SUBSET Links]
  BY <1>3, <1>4 DEF LinkInv, LinkTypeOK
<1>8. LinkTypeOK' /\ LinksHaveSessions' /\ SessionsNumbered' /\ CurrentIsNewest'
  BY <1>3, <1>5, <1>7, LinkKeepsTables, Zenon
<1>9. LinksCounted'
  <2>1. \A p \in CtlPeers : UpLinks(link', p) = UpLinks(link, p)
    BY <1>1, <1>3, <1>6, Zenon DEF UpLinks
  <2>2. LinksCounted' <=> \A p \in CtlPeers :
                             /\ active'[p] <= Cardinality(UpLinks(link', p))
                             /\ p \notin displaced' => active'[p] = Cardinality(UpLinks(link', p))
    BY DEF LinksCounted, UpLinks, IsUp, PeerAt, NoSession, CtlPeers
  <2>3. \A p \in CtlPeers : /\ Cardinality(UpLinks(link', p)) = Cardinality(UpLinks(link, p))
                            /\ Cardinality(UpLinks(link, p)) \in Nat
    BY <2>1, UpLinksFinite, Zenon
  <2> QED  BY <2>2, <2>3, <1>4, CountedByUpLinks DEF LinkInv
<1> QED  BY <1>8, <1>9 DEF LinkInv

\* relayLinkDown: a link that is counted no more leaves the count.
LEMMA LinkInvDown ==
    ASSUME LinkInv, NEW l \in Links, RelayLinkDown(l)
    PROVE  LinkInv'
<1> DEFINE p == PeerAt(l)
           d == IF active[p] > 1 THEN "remove" ELSE "purge"
           r == [link[l] EXCEPT !.down = d]
           a == IF active[p] > 1 THEN active[p] - 1 ELSE 0
<1>1. link \in [Links -> LinkState] /\ link[l] \in LinkState /\ link[l].down = "down"
      /\ link[l].session # "none" /\ ~link[l].counted /\ active \in [CtlPeers -> Nat]
  BY Zenon DEF LinkInv, LinkTypeOK, LinksHaveSessions, RelayLinkDown
<1>2. p \in CtlPeers /\ active[p] \in Nat
  BY <1>1 DEF LinkState, CtlPeers, PeerAt
<1>3. /\ r \in LinkState /\ r.pc = link[l].pc /\ r.session = link[l].session
      /\ ~r.counted /\ r.down \in {"remove", "purge"}
  BY <1>1 DEF LinkState
<1>4. a \in Nat /\ active' = [active EXCEPT ![p] = a] /\ link' = [link EXCEPT ![l] = r]
      /\ UNCHANGED <<listed, current, gens, closing, displaced>>
  BY <1>1, <1>2 DEF RelayLinkDown
<1>5. active[p] > 0 => a = active[p] - 1
  BY <1>2
<1>6. active[p] = 0 => a = 0
  BY <1>2
<1>7. IsUp(link[l], p)
  BY <1>1 DEF IsUp, PeerAt
<1> HIDE DEF d, r, a, p
<1>8. active' \in [CtlPeers -> Nat] /\ closing' \in [Links -> SUBSET Links]
  BY <1>1, <1>4, Zenon DEF LinkInv, LinkTypeOK
<1>9. /\ r.pc \notin {"new", "ended"} => r.session # "none"
      /\ r.pc \in {"activated", "member"} => Activated(l)
  BY <1>1, <1>3 DEF Activated
<1>10. LinkTypeOK' /\ LinksHaveSessions' /\ SessionsNumbered' /\ CurrentIsNewest'
  BY <1>3, <1>4, <1>8, <1>9, LinkKeepsTables, Zenon
<1>11. LinksCounted'
  <2>1. UpLinks(link', p) = UpLinks(link, p) \ {l} /\ l \in UpLinks(link, p)
    BY <1>1, <1>3, <1>4, <1>7, Zenon DEF UpLinks, IsUp
  <2>2. Cardinality(UpLinks(link', p)) = Cardinality(UpLinks(link, p)) - 1
    BY <2>1, UpLinksFinite, FS_RemoveElement, Zenon
  <2>3. ASSUME NEW q \in CtlPeers, q # p
        PROVE  UpLinks(link', q) = UpLinks(link, q) /\ active'[q] = active[q]
    BY <2>3, <1>1, <1>2, <1>3, <1>4, <1>7, Zenon DEF UpLinks, IsUp
  <2>4. \A q \in CtlPeers : q # p => Cardinality(UpLinks(link', q)) = Cardinality(UpLinks(link, q))
    BY <2>3, Zenon
  <2>5. LinksCounted' <=> \A q \in CtlPeers :
                             /\ active'[q] <= Cardinality(UpLinks(link', q))
                             /\ q \notin displaced' => active'[q] = Cardinality(UpLinks(link', q))
    BY DEF LinksCounted, UpLinks, IsUp, PeerAt, NoSession, CtlPeers
  <2>6. Cardinality(UpLinks(link, p)) \in Nat /\ Cardinality(UpLinks(link', p)) \in Nat
    BY UpLinksFinite, Zenon
  <2>7. active'[p] = a
    BY <1>1, <1>2, <1>4, Zenon
  <2>8. /\ active[p] <= Cardinality(UpLinks(link, p))
        /\ p \notin displaced => active[p] = Cardinality(UpLinks(link, p))
    BY <1>2, CountedByUpLinks, Zenon DEF LinkInv
  <2>9. /\ active'[p] <= Cardinality(UpLinks(link', p))
        /\ p \notin displaced => active'[p] = Cardinality(UpLinks(link', p))
    BY <2>2, <2>6, <2>7, <2>8, <1>2, <1>4, <1>5, <1>6
  <2> QED  BY <2>3, <2>4, <2>5, <2>9, <1>4, CountedByUpLinks, Zenon DEF LinkInv
<1> QED  BY <1>10, <1>11 DEF LinkInv

\* A HELLO counts its link up, once.
LEMMA LinkInvHello ==
    ASSUME LinkInv, NEW l \in Links, Hello(l)
    PROVE  LinkInv'
<1> DEFINE p == PeerAt(l)
           r == [link[l] EXCEPT !.pc = "hello", !.counted = TRUE]
<1>1. link \in [Links -> LinkState] /\ link[l] \in LinkState /\ link[l].down = "no"
      /\ link[l].session # "none" /\ active \in [CtlPeers -> Nat]
  BY Zenon DEF LinkInv, LinkTypeOK, LinksHaveSessions, Hello
<1>2. p \in CtlPeers /\ active[p] \in Nat
  BY <1>1 DEF LinkState, CtlPeers, PeerAt
<1>3. r \in LinkState /\ r.pc = "hello" /\ r.session = link[l].session /\ r.counted /\ r.down = "no"
  BY <1>1, Zenon DEF LinkState
<1>4. link' = [link EXCEPT ![l] = r] /\ UNCHANGED <<listed, current, gens, closing, displaced>>
  BY <1>1, Zenon DEF Hello
<1>5. active' = IF link[l].counted THEN active ELSE [active EXCEPT ![p] = active[p] + 1]
  BY DEF Hello
<1>6. \A q \in CtlPeers : IsUp(r, q) <=> q = p
  BY <1>1, <1>3, Zenon DEF IsUp, PeerAt
<1> HIDE DEF r
<1>7. active' \in [CtlPeers -> Nat] /\ closing' \in [Links -> SUBSET Links]
  BY <1>1, <1>2, <1>4, <1>5 DEF LinkInv, LinkTypeOK
<1>8. LinkTypeOK' /\ LinksHaveSessions' /\ SessionsNumbered' /\ CurrentIsNewest'
  BY <1>1, <1>3, <1>4, <1>7, LinkKeepsTables, Zenon
<1>9. CASE link[l].counted
  <2>1. \A q \in CtlPeers : IsUp(link[l], q) <=> q = p
    BY <1>1, <1>9, Zenon DEF IsUp, PeerAt
  <2>2. \A k \in Links, q \in CtlPeers : IsUp(link'[k], q) <=> IsUp(link[k], q)
    BY <2>1, <1>1, <1>4, <1>6, Zenon
  <2>3. LinksCounted'
    BY <2>2, <1>4, <1>5, <1>9, CountKept, Zenon DEF LinkInv
  <2> QED  BY <2>3, <1>8, Zenon DEF LinkInv
<1>10. CASE ~link[l].counted
  <2> HIDE DEF p
  <2>1. \A q \in CtlPeers : ~IsUp(link[l], q)
    BY <1>1, <1>10, Zenon DEF IsUp
  <2>2. UpLinks(link', p) = UpLinks(link, p) \cup {l} /\ l \notin UpLinks(link, p)
    BY <2>1, <1>1, <1>2, <1>4, <1>6, Zenon DEF UpLinks
  <2>3. Cardinality(UpLinks(link', p)) = Cardinality(UpLinks(link, p)) + 1
    BY <2>2, UpLinksFinite, FS_AddElement, Zenon
  <2>4. ASSUME NEW q \in CtlPeers, q # p
        PROVE  UpLinks(link', q) = UpLinks(link, q) /\ active'[q] = active[q]
    BY <2>1, <2>4, <1>1, <1>2, <1>4, <1>5, <1>6, <1>10, Zenon DEF UpLinks
  <2>5. \A q \in CtlPeers : q # p => Cardinality(UpLinks(link', q)) = Cardinality(UpLinks(link, q))
    BY <2>4, Zenon
  <2>6. LinksCounted' <=> \A q \in CtlPeers :
                             /\ active'[q] <= Cardinality(UpLinks(link', q))
                             /\ q \notin displaced' => active'[q] = Cardinality(UpLinks(link', q))
    BY DEF LinksCounted, UpLinks, IsUp, PeerAt, NoSession, CtlPeers
  <2>7. active'[p] = active[p] + 1 /\ Cardinality(UpLinks(link, p)) \in Nat
    BY <1>1, <1>2, <1>5, <1>10, UpLinksFinite, Zenon
  <2>8. /\ active'[p] <= Cardinality(UpLinks(link', p))
        /\ p \notin displaced => active'[p] = Cardinality(UpLinks(link', p))
    BY <2>3, <2>7, <1>2, CountedByUpLinks DEF LinkInv
  <2>9. LinksCounted'
    BY <2>4, <2>5, <2>6, <2>8, <1>4, CountedByUpLinks, Zenon DEF LinkInv
  <2> QED  BY <2>9, <1>8 DEF LinkInv
<1> QED  BY <1>9, <1>10

\* acceptControlLink: a link of a session that is new, or keeps its generation.
LEMMA LinkInvAccept ==
    ASSUME LinkInv, NEW l \in Links, NEW s \in LinkSessions[l], AcceptControlLink(l, s)
    PROVE  LinkInv'
<1> DEFINE r == [NoLink EXCEPT !.pc = "serve", !.session = s]
           n == 1 + Cardinality({t \in CtlSessions : gens[t] # 0})
<1>1. s \in CtlSessions /\ s # "none"
  BY LinkAssumption
<1>2. link \in [Links -> LinkState] /\ link[l].pc = "new" /\ gens \in [CtlSessions -> Nat]
  BY DEF LinkInv, LinkTypeOK, AcceptControlLink
<1>3. r \in LinkState /\ r.pc = "serve" /\ r.session = s /\ ~r.counted /\ r.down = "no"
  BY <1>1, Zenon DEF NoLink, LinkState
<1>4. /\ link' = [link EXCEPT ![l] = r] /\ listed' = listed \cup {l}
      /\ UNCHANGED <<current, active, closing, displaced>>
      /\ gens' = IF gens[s] # 0 THEN gens ELSE [gens EXCEPT ![s] = n]
  BY DEF AcceptControlLink
<1>5. n \in Nat \ {0}
  <2>1. IsFiniteSet({t \in CtlSessions : gens[t] # 0})
    BY LinkAssumption, FS_Subset, Zenon
  <2>2. Cardinality({t \in CtlSessions : gens[t] # 0}) \in Nat
    BY <2>1, FS_CardinalityType, Zenon
  <2> QED  BY <2>2
<1> HIDE DEF r, n
<1>6. \A k \in Links : link'[k] = IF k = l THEN r ELSE link[k]
  BY <1>2, <1>4, Zenon
<1>7. /\ gens' \in [CtlSessions -> Nat] /\ gens'[s] # 0
      /\ \A t \in CtlSessions : gens[t] # 0 => gens'[t] = gens[t]
  BY <1>1, <1>2, <1>4, <1>5, Zenon
<1>8. LinkTypeOK'
  BY <1>3, <1>4, <1>7 DEF LinkInv, LinkTypeOK, CtlPeers
<1>9. LinksHaveSessions'
  BY <1>1, <1>3, <1>6, Zenon DEF LinkInv, LinksHaveSessions
<1>10. SessionsNumbered'
  <2>1. ASSUME NEW k \in Links, link'[k].session # "none" PROVE gens'[link'[k].session] # 0
    <3>1. CASE k = l
      BY <3>1, <1>3, <1>6, <1>7, Zenon
    <3>2. CASE k # l
      <4>1. link'[k] = link[k] /\ link[k].session \in CtlSessions /\ gens[link[k].session] # 0
        BY <2>1, <3>2, <1>2, <1>6 DEF LinkInv, SessionsNumbered, LinkState
      <4> QED  BY <4>1, <1>7, Zenon
    <3> QED  BY <3>1, <3>2, Zenon
  <2>2. ASSUME NEW p \in CtlPeers, current'[p] # "none"
        PROVE  PeerOf[current'[p]] = p /\ gens'[current'[p]] # 0
    <3>1. current'[p] = current[p] /\ current[p] \in CtlSessions
      BY <2>2, <1>4, Zenon DEF LinkInv, LinkTypeOK
    <3> QED  BY <2>2, <3>1, <1>7 DEF LinkInv, SessionsNumbered
  <2> QED  BY <2>1, <2>2, Zenon DEF SessionsNumbered, CtlPeers
<1>11. CurrentIsNewest'
  <2> SUFFICES ASSUME NEW k \in Links, Activated(k)'
               PROVE  /\ current'[PeerOf[link'[k].session]] # "none"
                      /\ gens'[link'[k].session] <= gens'[current'[PeerOf[link'[k].session]]]
                      /\ k \in listed' => link'[k].session = current'[PeerOf[link'[k].session]]
    BY DEF CurrentIsNewest, PeerAt, Gen
  <2>1. k # l /\ link'[k] = link[k] /\ Activated(k)
    BY <1>3, <1>6, Zenon DEF Activated
  <2> DEFINE t == link[k].session
             p == PeerOf[t]
  <2>2. t \in CtlSessions /\ p \in CtlPeers /\ gens[t] # 0
    BY <2>1, <1>2, Zenon DEF LinkInv, LinksHaveSessions, SessionsNumbered, Activated, LinkState, CtlPeers
  <2>3. current[p] # "none" /\ gens[t] <= gens[current[p]] /\ (k \in listed => t = current[p])
    BY <2>1, Zenon DEF LinkInv, CurrentIsNewest, PeerAt, Gen
  <2>4. current[p] \in CtlSessions /\ gens[current[p]] # 0
    BY <2>2, <2>3, Zenon DEF LinkInv, LinkTypeOK, SessionsNumbered
  <2> QED  BY <2>1, <2>2, <2>3, <2>4, <1>4, <1>7, ZenonT(30)
<1>12. LinksCounted'
  <2>1. \A p \in CtlPeers : ~IsUp(r, p)
    BY <1>3, Zenon DEF IsUp
  <2>2. \A p \in CtlPeers : ~IsUp(link[l], p)
    BY <1>2, Zenon DEF IsUp, LinkInv, LinksHaveSessions
  <2>3. \A k \in Links, p \in CtlPeers : IsUp(link'[k], p) <=> IsUp(link[k], p)
    BY <2>1, <2>2, <1>6, Zenon
  <2> QED  BY <2>3, <1>4, CountKept DEF LinkInv
<1> QED  BY <1>8, <1>9, <1>10, <1>11, <1>12, Zenon DEF LinkInv

\* activateInboundLink: the newest session serves the peer, the links of the
\* other session are taken off the list.
LEMMA LinkInvActivate ==
    ASSUME LinkInv, NEW l \in Links, ActivateInboundLink(l)
    PROVE  LinkInv'
<1> DEFINE p == PeerAt(l)
           s == current[p]
           mine == link[l].session
           take == s = NoSession \/ s = mine \/ Supersedes(l, s)
           stale == IF s \in {NoSession, mine} THEN {}
                    ELSE IF take THEN SessionLinks(s) ELSE SessionLinks(mine)
           to == IF take THEN "activated" ELSE "refused"
           r == [link[l] EXCEPT !.pc = to]
<1>1. link \in [Links -> LinkState] /\ link[l] \in LinkState /\ link[l].pc = "hello" /\ mine \in CtlSessions
  BY Zenon DEF LinkInv, LinkTypeOK, LinksHaveSessions, ActivateInboundLink, LinkState
<1>2. p \in CtlPeers /\ gens \in [CtlSessions -> Nat] /\ current \in [CtlPeers -> CtlSessions \cup {"none"}]
      /\ listed \subseteq Links /\ PeerOf[mine] = p
  BY <1>1 DEF CtlPeers, PeerAt, LinkInv, LinkTypeOK
<1>3. r \in LinkState /\ r.pc = to /\ r.session = mine /\ r.counted = link[l].counted /\ r.down = link[l].down
  BY <1>1 DEF LinkState
<1>4. /\ link' = [link EXCEPT ![l] = r]
      /\ current' = IF take THEN [current EXCEPT ![p] = mine] ELSE current
      /\ listed' = listed \ stale
      /\ closing' = [closing EXCEPT ![l] = stale]
      /\ UNCHANGED <<gens, active, displaced>>
  BY <1>1, Zenon DEF ActivateInboundLink
<1>5. stale \subseteq listed
  BY DEF SessionLinks
<1>6. \A k \in Links : link'[k] = IF k = l THEN r ELSE link[k]
  BY <1>1, <1>4, Zenon
<1>7. LinkTypeOK'
  <2>1. current' \in [CtlPeers -> CtlSessions \cup {"none"}]
    BY <1>1, <1>2, <1>4
  <2>2. link' \in [Links -> LinkState] /\ closing' \in [Links -> SUBSET Links] /\ listed' \subseteq Links
    BY <1>1, <1>2, <1>3, <1>4, <1>5, Zenon DEF LinkInv, LinkTypeOK
  <2> QED  BY <2>1, <2>2, <1>4 DEF LinkInv, LinkTypeOK, CtlPeers
<1>8. LinksHaveSessions'
  <2>1. r.pc \notin {"new", "ended"}
    BY <1>3
  <2> HIDE DEF r
  <2> QED  BY <2>1, <1>1, <1>3, <1>6, Zenon DEF LinkInv, LinksHaveSessions
<1>9. SessionsNumbered'
  <2>1. gens[mine] # 0
    BY <1>1, LinkAssumption DEF LinkInv, SessionsNumbered
  <2>2. \A k \in Links : link'[k].session = link[k].session
    BY <1>3, <1>6, Zenon
  <2>3. \A q \in CtlPeers : current'[q] # "none" => PeerOf[current'[q]] = q /\ gens[current'[q]] # 0
    BY <2>1, <1>1, <1>2, <1>4, Zenon DEF LinkInv, SessionsNumbered
  <2> QED  BY <2>2, <2>3, <1>4, Zenon DEF LinkInv, SessionsNumbered, CtlPeers
<1>10. LinksCounted'
  <2>1. \A k \in Links, q \in CtlPeers : IsUp(link'[k], q) <=> IsUp(link[k], q)
    BY <1>3, <1>6, Zenon DEF IsUp
  <2> QED  BY <2>1, <1>4, CountKept DEF LinkInv
<1>11. CurrentIsNewest'
  <2> SUFFICES ASSUME NEW k \in Links, Activated(k)'
               PROVE  /\ current'[PeerOf[link'[k].session]] # "none"
                      /\ gens'[link'[k].session] <= gens'[current'[PeerOf[link'[k].session]]]
                      /\ k \in listed' => link'[k].session = current'[PeerOf[link'[k].session]]
    BY DEF CurrentIsNewest, PeerAt, Gen
  <2>1. mine # "none"
    BY <1>1, LinkAssumption
  <2>2. CASE k = l
    <3>1. take /\ link'[k].session = mine
      <4> HIDE DEF r
      <4>1. to = "activated" /\ link'[k].session = mine
        BY <2>2, <1>3, <1>6 DEF Activated
      <4> QED  BY <4>1, Zenon
    <3>2. current'[p] = mine
      BY <3>1, <1>2, <1>4, Zenon
    <3> QED  BY <2>1, <3>1, <3>2, <1>1, <1>2, <1>4
  <2>3. CASE k # l
    <3> DEFINE t == link[k].session
               q == PeerOf[t]
    <3>1. link'[k] = link[k] /\ Activated(k)
      BY <2>3, <1>6, Zenon DEF Activated
    <3>2. t \in CtlSessions /\ q \in CtlPeers
      BY <3>1, <1>1, SMTT(30) DEF LinkInv, LinksHaveSessions, Activated, LinkState, CtlPeers
    <3>3. current[q] # "none" /\ gens[t] <= gens[current[q]] /\ (k \in listed => t = current[q])
      BY <3>1, Zenon DEF LinkInv, CurrentIsNewest, PeerAt, Gen
    <3>4. CASE q # p \/ ~take
      <4>1. current'[q] = current[q]
        BY <3>4, <1>2, <1>4, <3>2, Zenon
      <4> QED  BY <4>1, <3>1, <3>3, <1>4, Zenon
    <3>5. CASE q = p /\ take
      <4>1. current'[q] = mine
        BY <3>5, <1>2, <1>4, Zenon
      <4>2. s # NoSession /\ s \in CtlSessions
        BY <3>3, <3>5, <1>2, Zenon DEF NoSession
      <4>3. gens[s] <= gens[mine]
        BY <3>5, <4>2, <1>1, <1>2 DEF Supersedes, Gen
      <4>4. gens[t] <= gens[mine]
        BY <3>2, <3>3, <3>5, <4>2, <4>3, <1>1, <1>2
      <4>5. k \in listed' => t = mine
        <5> SUFFICES ASSUME k \in listed', t # mine PROVE FALSE
          OBVIOUS
        <5>1. k \in listed /\ t = s
          BY <3>3, <3>5, <1>4, Zenon
        <5>2. k \in SessionLinks(s)
          BY <5>1, Zenon DEF SessionLinks
        <5> QED  BY <5>1, <5>2, <4>2, <3>5, <1>4, Zenon
      <4> QED  BY <2>1, <3>1, <4>1, <4>4, <4>5, <1>4, Zenon
    <3> QED  BY <3>4, <3>5, Zenon
  <2> QED  BY <2>2, <2>3, Zenon
<1> QED  BY <1>7, <1>8, <1>9, <1>10, <1>11, Zenon DEF LinkInv

\* The link tables agree with the links: a peer is counted with exactly the
\* links that said HELLO and were not counted down (unless another identity
\* took over its address), and is served on its newest session whatever the
\* order in which links of its sessions arrive, say HELLO, break and are closed
\* (serve, activateInboundLink, clearStream, relayLinkDown, onPeerHello) - for
\* any number of links, sessions and peers.
THEOREM LinkTablesAgreeWithLinks == LinkSpec => []LinkTablesAgree
<1>1. LinkInit => LinkInv
  <2> SUFFICES ASSUME LinkInit PROVE LinkInv
    OBVIOUS
  <2>1. NoLink \in LinkState /\ NoLink.pc = "new" /\ NoLink.session = "none" /\ ~NoLink.counted
        /\ NoLink.down = "no"
    BY Zenon DEF NoLink, LinkState
  <2>2. LinkTypeOK
    BY <2>1, Zenon DEF LinkInit, LinkTypeOK, NoSession
  <2>3. LinksHaveSessions /\ SessionsNumbered /\ CurrentIsNewest
    BY <2>1, Zenon DEF LinkInit, LinksHaveSessions, SessionsNumbered, CurrentIsNewest, Activated, NoSession
  <2>4. \A p \in CtlPeers : UpLinks(link, p) = {}
    BY <2>1 DEF LinkInit, UpLinks, IsUp
  <2>5. \A p \in CtlPeers : Cardinality(UpLinks(link, p)) = 0
    BY <2>4, FS_EmptySet
  <2>6. LinksCounted
    BY <2>5, CountedByUpLinks, SMTT(30) DEF LinkInit
  <2> QED  BY <2>2, <2>3, <2>6, Zenon DEF LinkInv
<1>2. LinkInv /\ [LinkNext]_linkVars => LinkInv'
  <2> SUFFICES ASSUME LinkInv, [LinkNext]_linkVars PROVE LinkInv'
    OBVIOUS
  <2>1. ASSUME UNCHANGED linkVars PROVE LinkInv'
    <3>1. LinkTypeOK' /\ LinksHaveSessions' /\ SessionsNumbered' /\ CurrentIsNewest'
      BY <2>1
      DEF linkVars, LinkInv, LinkTypeOK, LinksHaveSessions, SessionsNumbered, CurrentIsNewest, Activated, PeerAt, Gen
    <3>2. LinksCounted'
      BY <2>1, CountKept DEF linkVars, LinkInv
    <3> QED  BY <3>1, <3>2, Zenon DEF LinkInv
  <2>2. ASSUME NEW l \in Links, NEW s \in LinkSessions[l], AcceptControlLink(l, s) PROVE LinkInv'
    BY <2>2, LinkInvAccept, Zenon
  <2>3. ASSUME NEW l \in Links, LinkBreaks(l) PROVE LinkInv'
    BY <2>3, LinkInvBreaks
  <2>4. ASSUME NEW l \in Links, RelayLinkDown(l) PROVE LinkInv'
    BY <2>4, LinkInvDown
  <2>5. ASSUME NEW l \in Links, RemoveHostRoutesVia(l) PROVE LinkInv'
    BY <2>5, LinkInvRoutesRemoved
  <2>6. ASSUME NEW l \in Links, RemoveInboundLink(l) PROVE LinkInv'
    BY <2>6, LinkInvRemoved
  <2>7. ASSUME NEW l \in Links, Hello(l) PROVE LinkInv'
    BY <2>7, LinkInvHello
  <2>8. ASSUME NEW l \in Links, ActivateInboundLink(l) PROVE LinkInv'
    BY <2>8, LinkInvActivate
  <2>9. ASSUME NEW l \in Links, OnPeerHello(l) PROVE LinkInv'
    BY <2>9, LinkInvPeerHello
  <2>10. ASSUME NEW l \in Links, LinkRefused(l) PROVE LinkInv'
    BY <2>10, LinkInvRefused
  <2>11. ASSUME NEW l \in Links, NEW k \in Links, CloseStale(l, k) PROVE LinkInv'
    BY <2>11, LinkInvCloseStale, Zenon
  <2> QED  BY <2>1, <2>2, <2>3, <2>4, <2>5, <2>6, <2>7, <2>8, <2>9, <2>10, <2>11, Zenon DEF LinkNext
<1>3. LinkInv => LinkTablesAgree
  <2> SUFFICES ASSUME LinkInv PROVE NewestSessionServes
    BY Zenon DEF LinkInv, LinkTablesAgree
  <2> QED  BY DEF LinkInv, LinkTypeOK, CurrentIsNewest, NewestSessionServes, Activated, PeerAt, Gen
<1> QED  BY <1>1, <1>2, <1>3, PTL DEF LinkSpec

-----------------------------------------------------------------------------
(* The holdback: the invariant.                                              *)

EntryFields == {"frames", "status", "timer", "late", "why"}
HbFields == {"entries", "conns", "pendingMessages", "pendingFrames", "approved", "lock", "users"}
PumpFields == {"pc", "msg", "live", "incoming", "phase", "verdict", "lock", "out", "err"}

\* The parts of the state the argument is about; counters, timers and phases
\* are left free.
HbOK(h) ==
    /\ DOMAIN h = HbFields /\ DOMAIN h.entries = Messages \cup {"none"}
    /\ \A m \in Messages \cup {"none"} : DOMAIN h.entries[m] = EntryFields
    /\ h.lock \in Locks \cup {0} /\ h.users \in [Locks -> Nat]

LockPcs == {"acquire", "phase", "validate", "conclude", "next", "leave"}
InsidePcs == {"phase", "validate", "conclude", "next"}

PumpOK(q) ==
    /\ DOMAIN q = PumpFields
    /\ q.lock \in Locks \cup {0} /\ (q.pc \in LockPcs <=> q.lock # 0)
    /\ q.pc \in ({"guard"} \cup LockPcs) \ {"leave"} => q.msg \in Messages

\* The billing hook has counted the record, if the message is one.
IsCounted(m, n) == MsgKind[m] = "data" => MsgSeq[m] < n

\* What a pump holds between the hook's answer and its last write.
PumpRecord(q, n) ==
    /\ q.pc = "conclude" /\ q.verdict = "approve" => IsCounted(q.msg, n)
    /\ q.pc = "conclude" /\ q.verdict = "order" => MsgSeq[q.msg] > n
    /\ q.out \in Seq(Messages \X (SUBSET Nat))
    /\ \A i \in 1..Len(q.out) : IsCounted(q.out[i][1], n)

HoldTypeOK ==
    /\ HbOK(hb) /\ nextSeq \in Nat \ {0} /\ released \subseteq Messages
    /\ DOMAIN pump = Pumps /\ \A p \in Pumps : PumpOK(pump[p])

\* There is one lock object while a pump uses it, and one pump inside.
LockInv ==
    /\ \A p \in Pumps : pump[p].lock # 0 => pump[p].lock = hb.lock
    /\ \A l \in Locks : hb.users[l] = Cardinality({p \in Pumps : pump[p].lock = l})
    /\ \A p \in Pumps, q \in Pumps : pump[p].pc \in InsidePcs /\ pump[q].pc \in InsidePcs => p = q

\* Whatever is approved, on its way out or written was counted.
RecordInv ==
    /\ \A p \in Pumps : PumpRecord(pump[p], nextSeq)
    /\ \A m \in Messages : hb.entries[m].status = "approved" => IsCounted(m, nextSeq)
    /\ \A m \in released : IsCounted(m, nextSeq)
    /\ \A d \in delivered : d[1] \in Messages /\ IsCounted(d[1], nextSeq)

\* A pump that released a record looks for deferred ones before it leaves.
Wakes(q) == q.pc = "next" /\ MsgSeq[q.msg] # 0
Early(e) == e.status = "deferred" /\ e.why = "order"
StrandInv ==
    \A m \in Messages : Early(hb.entries[m]) =>
        /\ MsgSeq[m] # 0
        /\ \/ \E k \in Messages : MsgSeq[k] \in 1..(MsgSeq[m] - 1) /\ k \notin released
           \/ \E p \in Pumps : Wakes(pump[p])

HoldInv == HoldTypeOK /\ LockInv /\ RecordInv /\ StrandInv

LEMMA LocksAreNotZero == \A x \in Locks : x # 0
BY DEF Locks

\* A pump that is about to write one frame of a message.
LEMMA WritesOne ==
    ASSUME NEW q, q.pc = "write", NEW m \in Messages, NEW s \in Nat, q.out = <<<<m, {s}>>>>,
           NEW n, IsCounted(m, n)
    PROVE  PumpRecord(q, n)
<1>1. /\ q.out \in Seq(Messages \X (SUBSET Nat)) /\ Len(q.out) = 1
      /\ q.out[1][1] = m
  OBVIOUS
<1>2. \A i \in 1..Len(q.out) : i = 1
  BY <1>1
<1> QED BY <1>1, <1>2 DEF PumpRecord

-----------------------------------------------------------------------------
(* What leaves the table.                                                    *)

\* g is h with some entries gone, and its lock object too if nobody used it.
Lost(h, g) ==
    /\ HbOK(g) /\ g.users = h.users
    /\ g.lock = h.lock \/ (h.lock # 0 /\ h.users[h.lock] = 0 /\ g.lock = 0)
    /\ \A m \in Messages : g.entries[m] = h.entries[m] \/ g.entries[m] = NoEntry

LEMMA LostTwice ==
    ASSUME NEW f, NEW g, NEW h, Lost(f, g), Lost(g, h)
    PROVE  Lost(f, h)
BY DEF Lost

LEMMA RemoveIdleLost ==
    ASSUME NEW h, HbOK(h), NEW c
    PROVE  Lost(h, RemoveIdle(h, c))
BY DEF RemoveIdle, Lost, HbOK, HbFields

\* removeEntryLocked only takes entries away.
LEMMA RemovedLost ==
    ASSUME NEW h, HbOK(h), NEW c, NEW M
    PROVE  Lost(h, Removed(h, c, M))
<1> DEFINE gone == {m \in M : h.entries[m].status # "none"}
           pend == {m \in gone : h.entries[m].status \in Pending}
           left == [m \in DOMAIN h.entries |-> IF m \in gone THEN NoEntry ELSE h.entries[m]]
           unused == (\A m \in Messages : left[m].status = "none") /\ h.lock # 0 /\ h.users[h.lock] = 0
           was == h.conns[c]
           conn == [was EXCEPT !.messages = was.messages - Cardinality(pend),
                               !.frames = was.frames - Cardinality(FramesHeld(h, pend)),
                               !.approved = was.approved - Cardinality(gone \ pend)]
           g == [h EXCEPT
                   !.entries = left, !.lock = IF unused THEN 0 ELSE @,
                   !.pendingMessages = @ - Cardinality(pend),
                   !.pendingFrames = @ - Cardinality(FramesHeld(h, pend)),
                   !.conns[c] = conn, !.approved = Among(@, Messages \ gone)]
<1>1. Removed(h, c, M) = IF gone = {} THEN h ELSE RemoveIdle(g, c)
  BY DEF Removed
<1>2. Lost(h, h)
  BY DEF Lost
<1>3. /\ DOMAIN left = Messages \cup {"none"}
      /\ \A m \in Messages \cup {"none"} : left[m] = h.entries[m] \/ left[m] = NoEntry
  BY DEF HbOK
<1>4. unused => h.lock # 0 /\ h.users[h.lock] = 0
  OBVIOUS
<1>5. Lost(h, g)
  <2> HIDE DEF gone, pend, left, unused, conn, was
  <2>1. /\ DOMAIN g = HbFields /\ g.entries = left /\ g.users = h.users
        /\ g.lock = IF unused THEN 0 ELSE h.lock
    BY DEF HbOK, HbFields
  <2>2. DOMAIN NoEntry = EntryFields
    BY DEF NoEntry, EntryFields
  <2> QED BY <1>3, <1>4, <2>1, <2>2 DEF Lost, HbOK
<1> HIDE DEF g, gone
<1> QED BY <1>1, <1>2, <1>5, RemoveIdleLost, LostTwice DEF Lost

LEMMA RemoveEntryLost ==
    ASSUME NEW h, HbOK(h), NEW m
    PROVE  Lost(h, RemoveEntryLocked(h, m))
BY RemovedLost DEF RemoveEntryLocked

LEMMA RemoveAllLost ==
    ASSUME NEW h, HbOK(h), NEW c
    PROVE  Lost(h, RemoveAll(h, c))
BY RemovedLost DEF RemoveAll

LEMMA ForgetLost ==
    ASSUME NEW h, HbOK(h), NEW c
    PROVE  Lost(h, ForgetConnection(h, c))
<1> DEFINE g == RemoveAll(h, c)
<1>1. Lost(h, g)
  BY RemoveAllLost
<1> HIDE DEF g
<1>2. ForgetConnection(h, c) = [g EXCEPT !.conns[c] = NoHeldConn]
  BY DEF ForgetConnection, g
<1>3. Lost(g, [g EXCEPT !.conns[c] = NoHeldConn])
  BY <1>1 DEF Lost, HbOK, HbFields
<1> QED BY <1>1, <1>2, <1>3, LostTwice

LEMMA ResetLost ==
    ASSUME NEW h, HbOK(h), NEW c
    PROVE  Lost(h, Reset(h, c))
<1> DEFINE g == RemoveAll(h, c)
           a == [g EXCEPT !.conns[c].timer = TRUE, !.conns[c].late = FALSE]
           b == [g EXCEPT !.conns[c] = NoHeldConn]
<1>1. Lost(h, g)
  BY RemoveAllLost
<1>2. Reset(h, c) = a \/ Reset(h, c) = b
  BY DEF Reset
<1> HIDE DEF g
<1>3. Lost(g, a) /\ Lost(g, b)
  BY <1>1 DEF Lost, HbOK, HbFields
<1> HIDE DEF a, b
<1> QED BY <1>1, <1>2, <1>3, LostTwice

LEMMA EvictLost ==
    ASSUME NEW h, HbOK(h), NEW c
    PROVE  Lost(h, EvictApproved(h, c))
<1> DEFINE g == IF Len(h.approved) > MaxApproved THEN RemoveEntryLocked(h, Head(h.approved)) ELSE h
           own == Among(g.approved, {x \in Messages : MsgConn[x] = c})
<1>1. Lost(h, h)
  BY DEF Lost
<1>2. Lost(h, g)
  BY <1>1, RemoveEntryLost
<1>3. EvictApproved(h, c) = g \/ \E m : EvictApproved(h, c) = RemoveEntryLocked(g, m)
  BY Zenon DEF EvictApproved
<1> HIDE DEF g
<1>4. HbOK(g)
  BY <1>2 DEF Lost
<1> QED BY <1>2, <1>3, <1>4, RemoveEntryLost, LostTwice

-----------------------------------------------------------------------------
(* Steps of one pump.  The invariant does not look at the `live` flag, which *)
(* Become may drop for any pump.                                             *)

Same(a, b) ==
    /\ DOMAIN a = PumpFields
    /\ a.pc = b.pc /\ a.msg = b.msg /\ a.verdict = b.verdict /\ a.lock = b.lock /\ a.out = b.out

\* Pump p moves to r; nobody moves if p is not a pump.
Moves(p, r) ==
    /\ DOMAIN pump' = Pumps
    /\ \A q \in Pumps : Same(pump'[q], IF q = p THEN r ELSE pump[q])

LEMMA MovesByExcept ==
    ASSUME HoldTypeOK, NEW p, NEW r, DOMAIN r = PumpFields, pump' = [pump EXCEPT ![p] = r]
    PROVE  Moves(p, r)
BY DEF HoldTypeOK, Moves, Same, PumpOK

LEMMA MovesByBecome ==
    ASSUME HoldTypeOK, NEW p, NEW r, DOMAIN r = PumpFields, NEW h,
           Become(h, [pump EXCEPT ![p] = r])
    PROVE  Moves(p, r) /\ hb' = h
<1> DEFINE ps == [pump EXCEPT ![p] = r]
<1>1. \A q \in Pumps : ps[q] = (IF q = p THEN r ELSE pump[q]) /\ DOMAIN ps[q] = PumpFields
  BY DEF HoldTypeOK, PumpOK
<1>2. hb' = h /\ pump' = StillHeld(h, ps)
  BY DEF Become
<1> HIDE DEF ps
<1>3. \A q \in Pumps : Same(pump'[q], ps[q])
  BY <1>1, <1>2 DEF StillHeld, Same, PumpFields
<1>4. DOMAIN pump' = Pumps
  BY <1>2 DEF StillHeld
<1> QED BY <1>1, <1>2, <1>3, <1>4 DEF Moves

LEMMA StaysByBecome ==
    ASSUME HoldTypeOK, NEW h, Become(h, pump)
    PROVE  (\A p : Moves(p, pump[p])) /\ hb' = h
<1>1. \A q \in Pumps : DOMAIN pump[q] = PumpFields
  BY DEF HoldTypeOK, PumpOK
<1>2. hb' = h /\ pump' = StillHeld(h, pump)
  BY DEF Become
<1>3. \A q \in Pumps : Same(pump'[q], pump[q])
  BY <1>1, <1>2 DEF StillHeld, Same, PumpFields
<1>4. DOMAIN pump' = Pumps
  BY <1>2 DEF StillHeld
<1> QED BY <1>2, <1>3, <1>4 DEF Moves

LEMMA StaysUnchanged ==
    ASSUME HoldTypeOK, UNCHANGED pump
    PROVE  \A p : Moves(p, pump[p])
BY DEF HoldTypeOK, PumpOK, Moves, Same

\* What the invariant says of a pump, it says of one that looks the same.
LEMMA SameKeeps ==
    ASSUME NEW a, NEW b, Same(a, b), NEW n
    PROVE  /\ PumpOK(b) => PumpOK(a)
           /\ PumpRecord(b, n) => PumpRecord(a, n)
           /\ Wakes(b) <=> Wakes(a)
BY DEF Same, PumpOK, PumpRecord, Wakes

-----------------------------------------------------------------------------
(* Each part of the invariant, and when a step keeps it.                     *)

LEMMA TypesKept ==
    ASSUME HoldTypeOK, NEW p, NEW r, Moves(p, r), p \in Pumps => PumpOK(r),
           HbOK(hb'), nextSeq' \in Nat \ {0}, released' \subseteq Messages
    PROVE  HoldTypeOK'
<1>1. \A q \in Pumps : PumpOK(pump'[q])
  BY SameKeeps, Zenon DEF HoldTypeOK, Moves
<1> QED BY <1>1 DEF HoldTypeOK, Moves, HbOK, PumpOK

LEMMA RecordsKept ==
    ASSUME HoldTypeOK, RecordInv, NEW p, NEW r, Moves(p, r), nextSeq' = nextSeq,
           p \in Pumps => PumpRecord(r, nextSeq),
           \A m \in Messages : hb'.entries[m].status = "approved" =>
               hb.entries[m].status = "approved" \/ IsCounted(m, nextSeq),
           \A m \in released' : m \in released \/ IsCounted(m, nextSeq),
           \A d \in delivered' : d \in delivered \/ (d[1] \in Messages /\ IsCounted(d[1], nextSeq))
    PROVE  RecordInv'
<1>1. \A q \in Pumps : PumpRecord(pump'[q], nextSeq)
  BY SameKeeps DEF RecordInv, Moves
<1>2. \A m \in Messages : hb'.entries[m].status = "approved" => IsCounted(m, nextSeq)
  BY DEF RecordInv
<1>3. \A m \in released' : IsCounted(m, nextSeq)
  BY DEF RecordInv
<1>4. \A d \in delivered' : d[1] \in Messages /\ IsCounted(d[1], nextSeq)
  BY DEF RecordInv
<1> QED BY <1>1, <1>2, <1>3, <1>4, Zenon DEF RecordInv, PumpRecord, IsCounted

\* A lock object nobody uses may be dropped: no pump has it.
LEMMA UnusedLock ==
    ASSUME HoldTypeOK, LockInv, NEW l \in Locks, hb.users[l] = 0
    PROVE  \A q \in Pumps : pump[q].lock # l
<1> DEFINE S == {q \in Pumps : pump[q].lock = l}
<1>1. IsFiniteSet(S)
  BY FS_Subset, HoldbackAssumption
<1>2. Cardinality(S) = 0
  BY DEF LockInv
<1> HIDE DEF S
<1>3. S = {}
  BY <1>1, <1>2, FS_EmptySet
<1> QED BY <1>3 DEF S

LEMMA LocksKept ==
    ASSUME HoldTypeOK, LockInv, NEW p, NEW r, Moves(p, r), hb'.users = hb.users,
           p \in Pumps => r.lock = pump[p].lock /\ (r.pc \in InsidePcs => pump[p].pc \in InsidePcs),
           hb'.lock = hb.lock \/ (hb.lock # 0 /\ hb.users[hb.lock] = 0)
    PROVE  LockInv'
<1>1. \A q \in Pumps : /\ pump'[q].lock = pump[q].lock
                       /\ pump'[q].pc \in InsidePcs => pump[q].pc \in InsidePcs
  BY DEF Moves, Same
<1>2. \A q \in Pumps : pump'[q].lock # 0 => pump'[q].lock = hb'.lock
  <2>1. CASE hb'.lock = hb.lock
    BY <1>1, <2>1 DEF LockInv
  <2>2. CASE hb.lock # 0 /\ hb.users[hb.lock] = 0
    <3>1. \A q \in Pumps : pump[q].lock # hb.lock
      BY <2>2, UnusedLock DEF HoldTypeOK, HbOK
    <3> QED BY <1>1, <3>1 DEF LockInv
  <2> QED BY <2>1, <2>2
<1>3. ASSUME NEW l \in Locks
      PROVE  hb'.users[l] = Cardinality({q \in Pumps : pump'[q].lock = l})
  <2>1. {q \in Pumps : pump'[q].lock = l} = {q \in Pumps : pump[q].lock = l}
    BY <1>1
  <2> QED BY <2>1 DEF LockInv
<1>4. \A q \in Pumps, s \in Pumps : pump'[q].pc \in InsidePcs /\ pump'[s].pc \in InsidePcs => q = s
  BY <1>1 DEF LockInv
<1> QED BY <1>2, <1>3, <1>4 DEF LockInv

LEMMA StrandsKept ==
    ASSUME HoldTypeOK, StrandInv, NEW p, NEW r, Moves(p, r), released' \subseteq released,
           p \in Pumps => (Wakes(pump[p]) => Wakes(r)),
           \A m \in Messages : Early(hb'.entries[m]) => Early(hb.entries[m])
    PROVE  StrandInv'
<1>1. \A q \in Pumps : Wakes(pump[q]) => Wakes(pump'[q])
  BY SameKeeps DEF Moves
<1>2. SUFFICES ASSUME NEW m \in Messages, Early(hb'.entries[m])
               PROVE  /\ MsgSeq[m] # 0
                      /\ \/ \E k \in Messages : MsgSeq[k] \in 1..(MsgSeq[m] - 1) /\ k \notin released'
                         \/ \E q \in Pumps : Wakes(pump'[q])
  BY DEF StrandInv, Early, Wakes
<1> QED BY <1>1, <1>2 DEF StrandInv

\* A step that approves nothing, defers nothing and takes no lock.
Settles(g, h) ==
    /\ HbOK(g) /\ g.users = h.users
    /\ g.lock = h.lock \/ (h.lock # 0 /\ h.users[h.lock] = 0)
    /\ \A m \in Messages : /\ g.entries[m].status = "approved" => h.entries[m].status = "approved"
                           /\ Early(g.entries[m]) => Early(h.entries[m])

LEMMA LostSettles ==
    ASSUME NEW g, NEW h, Lost(h, g)
    PROVE  Settles(g, h)
BY DEF Lost, Settles, NoEntry, Early

PlainMove(q, r) ==
    /\ PumpOK(r) /\ PumpRecord(r, nextSeq) /\ r.lock = q.lock
    /\ r.pc \in InsidePcs => q.pc \in InsidePcs
    /\ Wakes(q) => Wakes(r)

LEMMA PlainStep ==
    ASSUME HoldInv, NEW p, NEW r, Moves(p, r), Settles(hb', hb),
           p \in Pumps => PlainMove(pump[p], r),
           UNCHANGED <<nextSeq, delivered, released>>
    PROVE  HoldInv'
<1>1. HoldTypeOK'
  BY TypesKept DEF HoldInv, Settles, PlainMove, HoldTypeOK
<1>2. RecordInv'
  BY RecordsKept DEF HoldInv, Settles, PlainMove
<1>3. LockInv'
  BY LocksKept DEF HoldInv, Settles, PlainMove
<1>4. StrandInv'
  BY StrandsKept DEF HoldInv, Settles, PlainMove
<1> QED BY <1>1, <1>2, <1>3, <1>4 DEF HoldInv

\* A step of a timer, a client or a connection.
LEMMA QuietStep ==
    ASSUME HoldInv, Settles(hb', hb), \A p : Moves(p, pump[p]),
           UNCHANGED <<nextSeq, delivered, released>>
    PROVE  HoldInv'
<1> DEFINE p == CHOOSE x : TRUE
<1>1. p \in Pumps => PlainMove(pump[p], pump[p])
  BY DEF HoldInv, HoldTypeOK, RecordInv, PlainMove
<1> HIDE DEF p
<1> QED BY <1>1, PlainStep

LEMMA EntrySettles ==
    ASSUME NEW h, HbOK(h), NEW g, NEW m \in Messages, NEW e, DOMAIN e = EntryFields,
           DOMAIN g = HbFields, g.lock = h.lock, g.users = h.users,
           g.entries = [h.entries EXCEPT ![m] = e],
           e.status = "approved" => h.entries[m].status = "approved",
           Early(e) => Early(h.entries[m])
    PROVE  Settles(g, h)
<1>1. HbOK(g)
  BY DEF HbOK
<1> QED BY <1>1 DEF Settles, HbOK

LEMMA SameEntriesSettle ==
    ASSUME NEW h, HbOK(h), NEW g, DOMAIN g = HbFields,
           g.lock = h.lock, g.users = h.users, g.entries = h.entries
    PROVE  Settles(g, h)
BY DEF Settles, HbOK

\* A pump that starts over, refuses the connection of its frame or has a
\* complete message to validate.
LEMMA FreshMove ==
    ASSUME NEW q, q.lock = 0, q.pc # "next", NEW r, DOMAIN r = PumpFields,
           r.lock = 0, r.out = <<>>, r.verdict = "none",
           r.pc \in {"idle", "reject"} \/ (r.pc = "guard" /\ r.msg \in Messages)
    PROVE  PlainMove(q, r)
BY DEF PlainMove, PumpOK, PumpRecord, Wakes, LockPcs, InsidePcs

LEMMA RejectMove ==
    ASSUME NEW q, q.lock = 0, q.pc # "next", NEW x
    PROVE  LET r == [NoPump EXCEPT !.pc = "reject", !.incoming = x]
           IN DOMAIN r = PumpFields /\ PlainMove(q, r)
<1> DEFINE r == [NoPump EXCEPT !.pc = "reject", !.incoming = x]
<1>1. DOMAIN r = PumpFields /\ r.lock = 0 /\ r.out = <<>> /\ r.verdict = "none" /\ r.pc = "reject"
  BY DEF NoPump, PumpFields
<1> HIDE DEF r
<1>2. PlainMove(q, r)
  BY <1>1, FreshMove
<1> QED BY <1>1, <1>2 DEF r

LEMMA GuardMove ==
    ASSUME NEW q, q.lock = 0, q.pc # "next", NEW m \in Messages
    PROVE  LET r == [NoPump EXCEPT !.pc = "guard", !.msg = m, !.live = TRUE, !.incoming = m]
           IN DOMAIN r = PumpFields /\ PlainMove(q, r)
<1> DEFINE r == [NoPump EXCEPT !.pc = "guard", !.msg = m, !.live = TRUE, !.incoming = m]
<1>1. /\ DOMAIN r = PumpFields /\ r.lock = 0 /\ r.out = <<>> /\ r.verdict = "none"
      /\ r.pc = "guard" /\ r.msg = m
  BY DEF NoPump, PumpFields
<1> HIDE DEF r
<1>2. PlainMove(q, r)
  BY <1>1, FreshMove
<1> QED BY <1>1, <1>2 DEF r

-----------------------------------------------------------------------------
(* The steps that read a frame.                                              *)

LEMMA HoldInvReceiveNew ==
    ASSUME HoldInv, NEW p \in Pumps, NEW m \in Messages, NEW s \in FramesOf(m), ReceiveNew(p, m, s)
    PROVE  HoldInv'
<1> DEFINE h == Stored(hb, m, s)
           r == IF h.entries[m].status = "validating"
                THEN [NoPump EXCEPT !.pc = "guard", !.msg = m, !.live = TRUE, !.incoming = m]
                ELSE pump[p]
<1>1. HbOK(hb) /\ PumpOK(pump[p]) /\ PumpRecord(pump[p], nextSeq) /\ HoldTypeOK
  BY DEF HoldInv, HoldTypeOK, RecordInv
<1>2. Settles(h, hb)
  <2> DEFINE e == hb.entries[m]
             done == e.frames \cup {s} = FramesOf(m)
             kept == [Scheduled(e) EXCEPT !.frames = e.frames \cup {s},
                                          !.status = IF done THEN "validating" ELSE "collecting"]
             new == IF done THEN Stopped(kept) ELSE kept
  <2>1. /\ DOMAIN h = HbFields /\ h.lock = hb.lock /\ h.users = hb.users
        /\ h.entries = [hb.entries EXCEPT ![m] = new]
    BY <1>1 DEF Stored, HbOK, HbFields
  <2>2. DOMAIN e = EntryFields
    BY <1>1 DEF HbOK
  <2>3. DOMAIN new = EntryFields /\ new.status \in {"validating", "collecting"}
    BY <2>2 DEF Scheduled, Stopped, EntryFields
  <2> HIDE DEF h, new
  <2> QED BY <1>1, <2>1, <2>3, EntrySettles DEF Early
<1>3. pump[p].pc = "idle" /\ pump[p].lock = 0
  BY <1>1 DEF ReceiveNew, FrameArrives, PumpOK, LockPcs
<1>4. Become(h, [pump EXCEPT ![p] = r]) /\ UNCHANGED <<nextSeq, delivered, released>>
  BY DEF ReceiveNew
<1> HIDE DEF h
<1>5. DOMAIN r = PumpFields /\ PlainMove(pump[p], r)
  <2>1. CASE h.entries[m].status = "validating"
    BY <1>3, <2>1, GuardMove, Zenon
  <2>2. CASE h.entries[m].status # "validating"
    BY <1>1, <2>2 DEF PlainMove, PumpOK
  <2> QED BY <2>1, <2>2, SMTT(30)
<1> HIDE DEF r
<1>6. Moves(p, r) /\ hb' = h
  BY <1>1, <1>4, <1>5, MovesByBecome
<1> QED BY <1>2, <1>4, <1>5, <1>6, PlainStep, Zenon

\* The frame is refused, or passes because its message was approved.
LEMMA HoldInvReceivePassed ==
    ASSUME HoldInv, NEW p \in Pumps, NEW m \in Messages, NEW s \in FramesOf(m),
           \/ ReceiveOverLimit(p, m, s) \/ ReceiveConflict(p, m, s) \/ ReceiveApproved(p, m, s)
    PROVE  HoldInv'
<1> DEFINE no == [NoPump EXCEPT !.pc = "reject", !.incoming = m]
           yes == [NoPump EXCEPT !.pc = "write", !.incoming = m, !.out = <<<<m, {s}>>>>]
<1>1. HbOK(hb) /\ PumpOK(pump[p]) /\ HoldTypeOK
  BY DEF HoldInv, HoldTypeOK
<1>2. pump[p].pc = "idle" /\ pump[p].lock = 0 /\ UNCHANGED <<nextSeq, delivered, released>>
  BY <1>1, Zenon DEF ReceiveOverLimit, ReceiveConflict, ReceiveApproved, FrameArrives, PumpOK, LockPcs
<1>3. Settles(hb', hb)
  <2>1. hb' = hb \/ hb' = [hb EXCEPT !.conns[MsgConn[m]].timer = FALSE]
    BY DEF ReceiveOverLimit, ReceiveConflict, ReceiveApproved
  <2>2. /\ DOMAIN hb' = HbFields /\ hb'.lock = hb.lock /\ hb'.users = hb.users
        /\ hb'.entries = hb.entries
    BY <1>1, <2>1 DEF HbOK, HbFields
  <2> QED BY <1>1, <2>2, SameEntriesSettle
<1>4. CASE ReceiveOverLimit(p, m, s) \/ ReceiveConflict(p, m, s)
  <2>1. pump' = [pump EXCEPT ![p] = no]
    BY <1>4 DEF ReceiveOverLimit, ReceiveConflict
  <2>2. DOMAIN no = PumpFields /\ PlainMove(pump[p], no)
    BY <1>2, RejectMove, Zenon
  <2> HIDE DEF no
  <2> QED BY <1>1, <1>2, <1>3, <2>1, <2>2, MovesByExcept, PlainStep, Zenon
<1>5. CASE ReceiveApproved(p, m, s)
  <2>1. pump' = [pump EXCEPT ![p] = yes] /\ hb.entries[m].status = "approved"
    BY <1>5 DEF ReceiveApproved
  <2>2. s \in Nat
    BY HoldbackAssumption DEF FramesOf
  <2>3. IsCounted(m, nextSeq)
    BY <2>1 DEF HoldInv, RecordInv
  <2>4. /\ DOMAIN yes = PumpFields /\ yes.lock = 0 /\ yes.pc = "write" /\ yes.verdict = "none"
        /\ yes.out = <<<<m, {s}>>>>
    BY DEF NoPump, PumpFields
  <2> HIDE DEF yes
  <2>5. PumpRecord(yes, nextSeq)
    BY <2>2, <2>3, <2>4, WritesOne, Zenon
  <2>6. PlainMove(pump[p], yes)
    BY <1>2, <2>4, <2>5 DEF PlainMove, PumpOK, Wakes, LockPcs, InsidePcs
  <2> QED BY <1>1, <1>2, <1>3, <2>1, <2>4, <2>6, MovesByExcept, PlainStep, Zenon
<1> QED BY <1>4, <1>5

LEMMA HoldInvReceiveDeferred ==
    ASSUME HoldInv, NEW p \in Pumps, NEW m \in Messages, NEW s \in FramesOf(m),
           ReceiveDeferred(p, m, s)
    PROVE  HoldInv'
<1> DEFINE r == [NoPump EXCEPT !.pc = "guard", !.msg = m, !.live = TRUE, !.incoming = m]
           new == Again(m)
<1>1. HbOK(hb) /\ PumpOK(pump[p]) /\ HoldTypeOK
  BY DEF HoldInv, HoldTypeOK
<1>2. pump[p].pc = "idle" /\ pump[p].lock = 0 /\ UNCHANGED <<nextSeq, delivered, released>>
  BY <1>1 DEF ReceiveDeferred, FrameArrives, PumpOK, LockPcs
<1>3. hb' = [hb EXCEPT !.entries[m] = new] /\ pump' = [pump EXCEPT ![p] = r]
  BY DEF ReceiveDeferred
<1>4. DOMAIN new = EntryFields /\ new.status = "validating"
  BY <1>1 DEF Again, Stopped, HbOK, EntryFields
<1>5. DOMAIN r = PumpFields /\ PlainMove(pump[p], r)
  BY <1>2, GuardMove, Zenon
<1> HIDE DEF r, new
<1>6. /\ DOMAIN hb' = HbFields /\ hb'.lock = hb.lock /\ hb'.users = hb.users
      /\ hb'.entries = [hb.entries EXCEPT ![m] = new]
  BY <1>1, <1>3, Zenon DEF HbOK, HbFields
<1>7. Settles(hb', hb)
  BY <1>1, <1>4, <1>6, EntrySettles DEF Early
<1> QED BY <1>1, <1>2, <1>3, <1>5, <1>7, MovesByExcept, PlainStep, Zenon

-----------------------------------------------------------------------------
(* The steps that end the work on a frame.                                   *)

LEMMA ReturningKeeps ==
    ASSUME NEW q, PumpOK(q), PumpRecord(q, nextSeq), q.pc \in InsidePcs, NEW x
    PROVE  /\ DOMAIN Returning(q, x) = PumpFields /\ Returning(q, x).pc = "leave"
           /\ Returning(q, x).lock = q.lock
           /\ PumpOK(Returning(q, x)) /\ PumpRecord(Returning(q, x), nextSeq)
<1> DEFINE r == Returning(q, x)
<1>1. DOMAIN r = PumpFields /\ r.pc = "leave" /\ r.lock = q.lock /\ r.out = q.out
  BY DEF Returning, PumpOK, PumpFields
<1> HIDE DEF r
<1>2. PumpOK(r)
  BY <1>1, Zenon DEF PumpOK, LockPcs, InsidePcs
<1>3. PumpRecord(r, nextSeq)
  BY <1>1 DEF PumpRecord
<1> QED BY <1>1, <1>2, <1>3 DEF r

LEMMA ReturningMove ==
    ASSUME NEW q, PumpOK(q), PumpRecord(q, nextSeq), q.pc \in InsidePcs \ {"next"}, NEW x
    PROVE  DOMAIN Returning(q, x) = PumpFields /\ PlainMove(q, Returning(q, x))
BY ReturningKeeps, Zenon DEF PlainMove, Wakes, InsidePcs

LEMMA AfterWriteKeeps ==
    ASSUME NEW q, DOMAIN q = PumpFields, q.lock = 0,
           q.out \in Seq(Messages \X (SUBSET Nat)),
           \A i \in 1..Len(q.out) : IsCounted(q.out[i][1], nextSeq)
    PROVE  /\ DOMAIN AfterWrite(q) = PumpFields /\ AfterWrite(q).lock = 0
           /\ AfterWrite(q).pc \in {"write", "reject", "idle"}
           /\ PumpOK(AfterWrite(q)) /\ PumpRecord(AfterWrite(q), nextSeq)
<1> DEFINE r == AfterWrite(q)
<1>1. /\ DOMAIN r = PumpFields /\ r.lock = 0 /\ r.pc \in {"write", "reject", "idle"}
      /\ r.out = q.out \/ r.out = <<>>
  <2>1. CASE q.out # <<>>
    BY <2>1 DEF AfterWrite, PumpFields
  <2>2. CASE q.out = <<>> /\ q.err
    BY <2>2 DEF AfterWrite, PumpFields, NoPump
  <2>3. CASE q.out = <<>> /\ ~q.err
    BY <2>3 DEF AfterWrite, PumpFields, NoPump
  <2> QED BY <2>1, <2>2, <2>3
<1> HIDE DEF r
<1>2. PumpOK(r)
  BY <1>1 DEF PumpOK, LockPcs
<1>3. CASE r.out = q.out
  <2>1. PumpRecord(r, nextSeq)
    BY <1>1, <1>3, Zenon DEF PumpRecord
  <2> QED BY <1>1, <1>2, <2>1 DEF r
<1>4. CASE r.out = <<>>
  <2>1. PumpRecord(r, nextSeq)
    BY <1>1, <1>4 DEF PumpRecord
  <2> QED BY <1>1, <1>2, <2>1 DEF r
<1> QED BY <1>1, <1>3, <1>4, Zenon

LEMMA HoldInvGuardExpired ==
    ASSUME HoldInv, NEW p \in Pumps, GuardExpired(p)
    PROVE  HoldInv'
<1> DEFINE r == [NoPump EXCEPT !.pc = "reject", !.incoming = pump[p].incoming]
<1>1. HbOK(hb) /\ PumpOK(pump[p]) /\ HoldTypeOK
  BY DEF HoldInv, HoldTypeOK
<1>2. /\ pump[p].pc = "guard" /\ pump' = [pump EXCEPT ![p] = r]
      /\ UNCHANGED <<hb, nextSeq, delivered, released>>
  BY DEF GuardExpired
<1>3. pump[p].lock = 0
  BY <1>1, <1>2 DEF PumpOK, LockPcs
<1>4. DOMAIN r = PumpFields /\ PlainMove(pump[p], r)
  BY <1>2, <1>3, RejectMove, Zenon
<1> HIDE DEF r
<1>5. Settles(hb', hb)
  BY <1>1, <1>2, SameEntriesSettle DEF HbOK
<1> QED BY <1>1, <1>2, <1>4, <1>5, MovesByExcept, PlainStep, Zenon

LEMMA HoldInvReadPhase ==
    ASSUME HoldInv, NEW p \in Pumps, ReadPhase(p)
    PROVE  HoldInv'
<1> DEFINE Reads(f) == [pump[p] EXCEPT !.pc = "validate", !.phase = f]
<1>1. HbOK(hb) /\ PumpOK(pump[p]) /\ PumpRecord(pump[p], nextSeq) /\ HoldTypeOK
  BY DEF HoldInv, HoldTypeOK, RecordInv
<1>2. /\ pump[p].pc = "phase" /\ UNCHANGED <<hb, nextSeq, delivered, released>>
      /\ \/ \E f : pump' = [pump EXCEPT ![p] = Reads(f)]
         \/ pump' = [pump EXCEPT ![p] = Returning(pump[p], TRUE)]
  <2>1. pump[p].pc = "phase" /\ UNCHANGED <<hb, nextSeq, delivered, released>>
    BY DEF ReadPhase
  <2> DEFINE c == hb.conns[MsgConn[pump[p].msg]]
             phase == c.phase \cup (IF c.e2e = "none" THEN {} ELSE {c.e2e})
  <2>2. pump' = [pump EXCEPT ![p] = IF pump[p].live /\ c.known THEN Reads(phase)
                                    ELSE Returning(pump[p], TRUE)]
    BY DEF ReadPhase
  <2> QED BY <2>1, <2>2, Zenon
<1>3. ASSUME NEW f
      PROVE  DOMAIN Reads(f) = PumpFields /\ PlainMove(pump[p], Reads(f))
  <2> DEFINE r == Reads(f)
  <2>1. /\ DOMAIN r = PumpFields /\ r.pc = "validate" /\ r.lock = pump[p].lock
        /\ r.msg = pump[p].msg /\ r.out = pump[p].out
    BY <1>1, SMTT(30) DEF PumpOK, PumpFields
  <2> HIDE DEF r
  <2>2. PumpOK(r) /\ PumpRecord(r, nextSeq)
    BY <1>1, <1>2, <2>1, ZenonT(30) DEF PumpOK, PumpRecord, LockPcs
  <2>3. PlainMove(pump[p], r)
    BY <1>2, <2>1, <2>2, ZenonT(30) DEF PlainMove, Wakes, InsidePcs
  <2> QED BY <2>1, <2>3 DEF r
<1>4. DOMAIN Returning(pump[p], TRUE) = PumpFields /\ PlainMove(pump[p], Returning(pump[p], TRUE))
  BY <1>1, <1>2, ReturningMove, Zenon DEF InsidePcs
<1> HIDE DEF Reads
<1>5. PICK r : DOMAIN r = PumpFields /\ PlainMove(pump[p], r) /\ pump' = [pump EXCEPT ![p] = r]
  BY <1>2, <1>3, <1>4, Zenon
<1>6. Settles(hb', hb)
  BY <1>1, <1>2, SameEntriesSettle DEF HbOK
<1> QED BY <1>1, <1>2, <1>5, <1>6, MovesByExcept, PlainStep, Zenon

LEMMA HoldInvConcludeReject ==
    ASSUME HoldInv, NEW p \in Pumps, ConcludeReject(p)
    PROVE  HoldInv'
<1> DEFINE r == Returning(pump[p], TRUE)
           h == IF pump[p].live THEN RemoveEntryLocked(hb, pump[p].msg) ELSE hb
<1>1. HbOK(hb) /\ PumpOK(pump[p]) /\ PumpRecord(pump[p], nextSeq) /\ HoldTypeOK
  BY DEF HoldInv, HoldTypeOK, RecordInv
<1>2. /\ pump[p].pc = "conclude" /\ Become(h, [pump EXCEPT ![p] = r])
      /\ UNCHANGED <<nextSeq, delivered, released>>
  BY DEF ConcludeReject
<1>3. DOMAIN r = PumpFields /\ PlainMove(pump[p], r)
  BY <1>1, <1>2, ReturningMove, Zenon DEF InsidePcs
<1>4. Settles(h, hb)
  <2>1. Lost(hb, RemoveEntryLocked(hb, pump[p].msg)) /\ Lost(hb, hb)
    BY <1>1, RemoveEntryLost DEF Lost
  <2> QED BY <2>1, LostSettles, Zenon
<1> HIDE DEF r, h
<1>5. Moves(p, r) /\ hb' = h
  BY <1>1, <1>2, <1>3, MovesByBecome
<1> QED BY <1>2, <1>3, <1>4, <1>5, PlainStep

LEMMA WrittenMove ==
    ASSUME NEW q, PumpOK(q), PumpRecord(q, nextSeq), q.lock = 0, q.out # <<>>, q.pc = "write"
    PROVE  LET r == AfterWrite([q EXCEPT !.out = Tail(q.out)])
           IN DOMAIN r = PumpFields /\ PlainMove(q, r)
<1> DEFINE s == Tail(q.out)
           w == [q EXCEPT !.out = s]
           r == AfterWrite(w)
<1>1. q.out \in Seq(Messages \X (SUBSET Nat))
  BY DEF PumpRecord
<1>2. /\ s \in Seq(Messages \X (SUBSET Nat)) /\ Len(s) = Len(q.out) - 1 /\ Len(q.out) \in Nat
      /\ \A i \in 1..Len(s) : s[i] = q.out[i + 1]
  BY <1>1
<1> HIDE DEF s
<1>3. \A i \in 1..Len(s) : IsCounted(s[i][1], nextSeq)
  <2>1. \A i \in 1..Len(s) : i + 1 \in 1..Len(q.out)
    BY <1>2
  <2> QED BY <1>2, <2>1 DEF PumpRecord
<1>4. DOMAIN w = PumpFields /\ w.lock = 0 /\ w.out = s
  BY DEF PumpOK, PumpFields
<1> HIDE DEF w
<1>5. /\ DOMAIN r = PumpFields /\ r.lock = 0 /\ r.pc \in {"write", "reject", "idle"}
      /\ PumpOK(r) /\ PumpRecord(r, nextSeq)
  BY <1>2, <1>3, <1>4, AfterWriteKeeps, Zenon
<1> HIDE DEF r
<1>6. PlainMove(q, r)
  BY <1>5 DEF PlainMove, Wakes, InsidePcs
<1> QED BY <1>5, <1>6 DEF r, w, s

LEMMA HoldInvWriteFails ==
    ASSUME HoldInv, NEW p \in Pumps, WriteFails(p)
    PROVE  HoldInv'
<1> DEFINE w == [pump[p] EXCEPT !.out = Tail(pump[p].out)]
           r == AfterWrite(w)
           c == MsgConn[Head(pump[p].out)[1]]
           h == Reset(hb, c)
<1>1. HbOK(hb) /\ PumpOK(pump[p]) /\ PumpRecord(pump[p], nextSeq) /\ HoldTypeOK
  BY DEF HoldInv, HoldTypeOK, RecordInv
<1>2. /\ pump[p].pc = "write" /\ pump[p].out # <<>> /\ Become(h, [pump EXCEPT ![p] = r])
      /\ UNCHANGED <<nextSeq, delivered, released>>
  BY DEF WriteFails
<1>3. pump[p].lock = 0
  BY <1>1, <1>2 DEF PumpOK, LockPcs
<1>4. DOMAIN r = PumpFields /\ PlainMove(pump[p], r)
  BY <1>1, <1>2, <1>3, WrittenMove, Zenon
<1>5. Settles(h, hb)
  BY <1>1, ResetLost, LostSettles, Zenon
<1> HIDE DEF r, h
<1>6. Moves(p, r) /\ hb' = h
  BY <1>1, <1>2, <1>4, MovesByBecome
<1> QED BY <1>2, <1>4, <1>5, <1>6, PlainStep, Zenon

LEMMA HoldInvRejectConnection ==
    ASSUME HoldInv, NEW p \in Pumps, RejectConnection(p)
    PROVE  HoldInv'
<1> DEFINE h == ForgetConnection(hb, MsgConn[pump[p].incoming])
<1>1. HbOK(hb) /\ PumpOK(pump[p]) /\ HoldTypeOK
  BY DEF HoldInv, HoldTypeOK
<1>2. /\ pump[p].pc = "reject" /\ Become(h, [pump EXCEPT ![p] = NoPump])
      /\ UNCHANGED <<nextSeq, delivered, released>>
  BY DEF RejectConnection
<1>3. pump[p].lock = 0
  BY <1>1, <1>2 DEF PumpOK, LockPcs
<1>4. /\ DOMAIN NoPump = PumpFields /\ NoPump.lock = 0 /\ NoPump.out = <<>>
      /\ NoPump.verdict = "none" /\ NoPump.pc = "idle"
  BY DEF NoPump, PumpFields
<1>5. PlainMove(pump[p], NoPump)
  BY <1>2, <1>3, <1>4, FreshMove, Zenon
<1>6. Settles(h, hb)
  BY <1>1, ForgetLost, LostSettles
<1> HIDE DEF h
<1>7. Moves(p, NoPump) /\ hb' = h
  BY <1>1, <1>2, <1>4, MovesByBecome, Zenon
<1> QED BY <1>2, <1>5, <1>6, <1>7, PlainStep, Zenon

\* The next message of a list to be written.
LEMMA FirstOut ==
    ASSUME NEW s \in Seq(Messages \X (SUBSET Nat)), s # <<>>, NEW n,
           \A i \in 1..Len(s) : IsCounted(s[i][1], n)
    PROVE  Head(s)[1] \in Messages /\ IsCounted(Head(s)[1], n)
<1>1. 1 \in 1..Len(s) /\ Head(s) = s[1] /\ s[1] \in Messages \X (SUBSET Nat)
  OBVIOUS
<1>2. s[1][1] \in Messages
  BY <1>1
<1> QED BY <1>1, <1>2, Zenon

\* Writing gives records that were counted to the client.
LEMMA HoldInvWriteOne ==
    ASSUME HoldInv, NEW p \in Pumps, WriteOne(p)
    PROVE  HoldInv'
<1> DEFINE w == [pump[p] EXCEPT !.out = Tail(pump[p].out)]
           r == AfterWrite(w)
           o == Head(pump[p].out)
<1>1. HbOK(hb) /\ PumpOK(pump[p]) /\ PumpRecord(pump[p], nextSeq) /\ HoldTypeOK
  BY DEF HoldInv, HoldTypeOK, RecordInv
<1>2. /\ pump[p].pc = "write" /\ pump[p].out # <<>> /\ pump' = [pump EXCEPT ![p] = r]
      /\ UNCHANGED <<hb, nextSeq, released>>
      /\ delivered' \subseteq delivered \cup ({o[1]} \X o[2])
  BY DEF WriteOne
<1>3. pump[p].lock = 0
  BY <1>1, <1>2 DEF PumpOK, LockPcs
<1>4. DOMAIN r = PumpFields /\ PlainMove(pump[p], r)
  BY <1>1, <1>2, <1>3, WrittenMove, Zenon
<1>5. o[1] \in Messages /\ IsCounted(o[1], nextSeq)
  BY <1>1, <1>2, FirstOut, Zenon DEF PumpRecord
<1> HIDE DEF r, o
<1>6. Moves(p, r)
  BY <1>1, <1>2, <1>4, MovesByExcept, Zenon
<1>7. \A d \in delivered' : d \in delivered \/ (d[1] \in Messages /\ IsCounted(d[1], nextSeq))
  <2>1. \A d \in {o[1]} \X o[2] : d[1] = o[1]
    OBVIOUS
  <2> QED BY <1>2, <1>5, <2>1
<1>8. HoldTypeOK'
  BY <1>1, <1>2, <1>4, <1>6, TypesKept, Zenon DEF HoldTypeOK, PlainMove
<1>9. RecordInv'
  BY <1>2, <1>4, <1>6, <1>7, RecordsKept, Zenon DEF HoldInv, PlainMove
<1>10. LockInv'
  BY <1>2, <1>4, <1>6, LocksKept, Zenon DEF HoldInv, PlainMove
<1>11. StrandInv'
  BY <1>2, <1>4, <1>6, StrandsKept, Zenon DEF HoldInv, PlainMove
<1> QED BY <1>8, <1>9, <1>10, <1>11, Zenon DEF HoldInv

-----------------------------------------------------------------------------
(* The steps of clients, timers and connections.                             *)

LEMMA HoldInvTableShrinks ==
    ASSUME HoldInv, NEW h, Lost(hb, h), Become(h, pump),
           UNCHANGED <<nextSeq, delivered, released>>
    PROVE  HoldInv'
<1>1. HoldTypeOK
  BY DEF HoldInv
<1>2. (\A p : Moves(p, pump[p])) /\ hb' = h
  BY <1>1, StaysByBecome
<1> QED BY <1>2, LostSettles, QuietStep

LEMMA HoldInvTimers ==
    ASSUME HoldInv, UNCHANGED <<pump, nextSeq, delivered, released>>, Settles(hb', hb)
    PROVE  HoldInv'
<1>1. HoldTypeOK
  BY DEF HoldInv
<1> QED BY <1>1, StaysUnchanged, QuietStep

LEMMA HoldInvMessage ==
    ASSUME HoldInv, NEW m \in Messages, Acknowledge(m) \/ TimerFires(m) \/ Expire(m)
    PROVE  HoldInv'
<1>1. HbOK(hb)
  BY DEF HoldInv, HoldTypeOK
<1>2. CASE Acknowledge(m)
  <2>1. UNCHANGED <<nextSeq, delivered, released>>
    BY <1>2 DEF Acknowledge
  <2>2. CASE Become(RemoveEntryLocked(hb, m), pump)
    BY <1>1, <2>1, <2>2, RemoveEntryLost, HoldInvTableShrinks
  <2>3. CASE UNCHANGED <<hb, pump>>
    <3>1. Settles(hb', hb)
      BY <1>1, <2>3, SameEntriesSettle DEF HbOK
    <3> QED BY <2>1, <2>3, <3>1, HoldInvTimers, Zenon
  <2> QED BY <1>2, <2>2, <2>3, Zenon DEF Acknowledge
<1>3. CASE TimerFires(m)
  <2> DEFINE e == [hb.entries[m] EXCEPT !.late = TRUE]
  <2>1. /\ hb' = [hb EXCEPT !.entries[m].late = TRUE]
        /\ UNCHANGED <<pump, nextSeq, delivered, released>>
    BY <1>3 DEF TimerFires
  <2>2. /\ DOMAIN hb' = HbFields /\ hb'.lock = hb.lock /\ hb'.users = hb.users
        /\ hb'.entries = [hb.entries EXCEPT ![m] = e]
    BY <1>1, <2>1 DEF HbOK, HbFields
  <2>3. /\ DOMAIN e = EntryFields /\ e.status = hb.entries[m].status
        /\ e.why = hb.entries[m].why
    BY <1>1 DEF HbOK, EntryFields
  <2> HIDE DEF e
  <2>4. Settles(hb', hb)
    BY <1>1, <2>2, <2>3, EntrySettles DEF Early
  <2> QED BY <2>1, <2>4, HoldInvTimers
<1>4. CASE Expire(m)
  <2>1. Become(RemoveEntryLocked(hb, m), pump) /\ UNCHANGED <<nextSeq, delivered, released>>
    BY <1>4 DEF Expire
  <2> QED BY <1>1, <2>1, RemoveEntryLost, HoldInvTableShrinks
<1> QED BY <1>2, <1>3, <1>4

LEMMA HoldInvConnection ==
    ASSUME HoldInv, NEW c \in HoldConns,
           CloseConnection(c) \/ Resume(c) \/ RecoveryFires(c) \/ RecoveryExpires(c)
    PROVE  HoldInv'
<1>1. HbOK(hb)
  BY DEF HoldInv, HoldTypeOK
<1>2. CASE CloseConnection(c)
  <2>1. Become(Reset(hb, c), pump) /\ UNCHANGED <<nextSeq, delivered, released>>
    BY <1>2 DEF CloseConnection
  <2> QED BY <1>1, <2>1, ResetLost, HoldInvTableShrinks
<1>3. CASE Resume(c) \/ RecoveryFires(c) \/ RecoveryExpires(c)
  <2>1. UNCHANGED <<pump, nextSeq, delivered, released>>
    BY <1>3 DEF Resume, RecoveryFires, RecoveryExpires
  <2>2. hb' = hb \/ hb' = [hb EXCEPT !.conns = hb'.conns]
    <3>1. CASE Resume(c)
      BY <3>1 DEF Resume
    <3>2. CASE RecoveryFires(c)
      BY <1>1, <3>2 DEF RecoveryFires, HbOK, HbFields
    <3>3. CASE RecoveryExpires(c)
      BY <1>1, <3>3 DEF RecoveryExpires, HbOK, HbFields
    <3> QED BY <1>3, <3>1, <3>2, <3>3
  <2>3. /\ DOMAIN hb' = HbFields /\ hb'.lock = hb.lock /\ hb'.users = hb.users
        /\ hb'.entries = hb.entries
    BY <1>1, <2>2 DEF HbOK, HbFields
  <2>4. Settles(hb', hb)
    BY <1>1, <2>3, SameEntriesSettle
  <2> QED BY <2>1, <2>4, HoldInvTimers
<1> QED BY <1>2, <1>3

-----------------------------------------------------------------------------
(* The steps around the validation lock.                                     *)

\* validationGuard finds a lock object that no pump uses when there is none.
LEMMA FreeLock ==
    ASSUME HoldTypeOK, LockInv, hb.lock = 0
    PROVE  \E x \in Locks : hb.users[x] = 0
<1>1. 1 \in Locks
  <2>1. Cardinality(Pumps) \in Nat
    BY HoldbackAssumption, FS_CardinalityType
  <2> QED BY <2>1 DEF Locks
<1>2. {q \in Pumps : pump[q].lock = 1} = {}
  BY DEF LockInv
<1>3. hb.users[1] = Cardinality({})
  BY <1>1, <1>2 DEF LockInv
<1> QED BY <1>1, <1>3, FS_EmptySet

LEMMA HoldInvGuard ==
    ASSUME HoldInv, NEW p \in Pumps, Guard(p)
    PROVE  HoldInv'
<1> DEFINE l == IF hb.lock # 0 THEN hb.lock ELSE CHOOSE x \in Locks : hb.users[x] = 0
           r == [pump[p] EXCEPT !.pc = "acquire", !.lock = l]
           S == {q \in Pumps : pump[q].lock = l}
<1>1. HbOK(hb) /\ PumpOK(pump[p]) /\ PumpRecord(pump[p], nextSeq) /\ HoldTypeOK /\ LockInv
  BY DEF HoldInv, HoldTypeOK, RecordInv
<1>2. /\ pump[p].pc = "guard" /\ hb' = [hb EXCEPT !.lock = l, !.users[l] = @ + 1]
      /\ pump' = [pump EXCEPT ![p].pc = "acquire", ![p].lock = l]
      /\ UNCHANGED <<nextSeq, delivered, released>>
  BY Zenon DEF Guard
<1>3. l \in Locks /\ \A q \in Pumps : pump[q].lock \in {0, l}
  BY <1>1, FreeLock, Zenon DEF LockInv, HbOK
<1> HIDE DEF l
<1>4. l # 0
  BY <1>3 DEF Locks
<1>5. /\ DOMAIN r = PumpFields /\ r.pc = "acquire" /\ r.lock = l
      /\ r.msg = pump[p].msg /\ r.out = pump[p].out
  BY <1>1 DEF PumpOK, PumpFields
<1>6. pump' = [pump EXCEPT ![p] = r]
  BY <1>1, <1>2, Zenon DEF HoldTypeOK
<1> HIDE DEF r
<1>7. Moves(p, r)
  BY <1>1, <1>5, <1>6, MovesByExcept, Zenon
<1>8. /\ DOMAIN hb' = HbFields /\ hb'.entries = hb.entries /\ hb'.lock = l
      /\ hb'.users = [hb.users EXCEPT ![l] = hb.users[l] + 1]
  BY <1>1, <1>2 DEF HbOK, HbFields
<1>9. HbOK(hb')
  BY <1>1, <1>3, <1>8 DEF HbOK
<1>10. PumpOK(r) /\ PumpRecord(r, nextSeq)
  BY <1>1, <1>2, <1>3, <1>4, <1>5 DEF PumpOK, PumpRecord, LockPcs
<1>11. HoldTypeOK'
  BY <1>1, <1>2, <1>7, <1>9, <1>10, TypesKept DEF HoldTypeOK
<1>12. RecordInv'
  BY <1>2, <1>7, <1>8, <1>10, RecordsKept DEF HoldInv
<1>13. StrandInv'
  BY <1>2, <1>7, <1>8, StrandsKept DEF HoldInv, Wakes
<1>14. LockInv'
  <2>1. \A q \in Pumps : /\ pump'[q].lock = IF q = p THEN l ELSE pump[q].lock
                         /\ pump'[q].pc = IF q = p THEN "acquire" ELSE pump[q].pc
    BY <1>5, <1>7, Zenon DEF Moves, Same
  <2>2. \A q \in Pumps : pump'[q].lock # 0 => pump'[q].lock = hb'.lock
    BY <1>3, <1>8, <2>1
  <2>3. ASSUME NEW x \in Locks
        PROVE  hb'.users[x] = Cardinality({q \in Pumps : pump'[q].lock = x})
    <3>1. CASE x # l
      <4>1. {q \in Pumps : pump'[q].lock = x} = {q \in Pumps : pump[q].lock = x}
        <5>1. pump[p].lock = 0 /\ x # 0
          BY <1>1, <1>2 DEF PumpOK, LockPcs, Locks
        <5> QED BY <2>1, <3>1, <5>1
      <4> QED BY <1>1, <1>8, <3>1, <4>1, Zenon DEF LockInv, HbOK
    <3>2. CASE x = l
      <4>1. pump[p].lock = 0
        BY <1>1, <1>2 DEF PumpOK, LockPcs
      <4>2. p \notin S /\ {q \in Pumps : pump'[q].lock = l} = S \cup {p}
        BY <1>4, <2>1, <4>1
      <4>3. IsFiniteSet(S)
        BY HoldbackAssumption, FS_Subset, Zenon
      <4>4. hb.users[l] = Cardinality(S)
        BY <1>1, <1>3 DEF LockInv
      <4> HIDE DEF S
      <4>5. Cardinality(S \cup {p}) = Cardinality(S) + 1
        BY <4>2, <4>3, FS_AddElement, Zenon
      <4> QED BY <1>1, <1>3, <1>8, <3>2, <4>2, <4>4, <4>5, Zenon DEF HbOK
    <3> QED BY <3>1, <3>2, Zenon
  <2>4. \A q \in Pumps, s \in Pumps : pump'[q].pc \in InsidePcs /\ pump'[s].pc \in InsidePcs => q = s
    BY <1>1, <2>1, Zenon DEF LockInv, InsidePcs
  <2> QED BY <2>2, <2>3, <2>4, Zenon DEF LockInv
<1> QED BY <1>11, <1>12, <1>13, <1>14, Zenon DEF HoldInv

\* The mutex of the one lock object admits one pump.
LEMMA HoldInvAcquire ==
    ASSUME HoldInv, NEW p \in Pumps, Acquire(p)
    PROVE  HoldInv'
<1> DEFINE r == [pump[p] EXCEPT !.pc = "phase"]
<1>1. HbOK(hb) /\ PumpOK(pump[p]) /\ PumpRecord(pump[p], nextSeq) /\ HoldTypeOK /\ LockInv
  BY DEF HoldInv, HoldTypeOK, RecordInv
<1>2. /\ pump[p].pc = "acquire" /\ pump' = [pump EXCEPT ![p].pc = "phase"]
      /\ released' \subseteq released /\ UNCHANGED <<hb, nextSeq, delivered>>
  BY DEF Acquire, Goto
<1>3. /\ DOMAIN r = PumpFields /\ r.pc = "phase" /\ r.lock = pump[p].lock
      /\ r.msg = pump[p].msg /\ r.out = pump[p].out
  BY <1>1 DEF PumpOK, PumpFields
<1>4. pump' = [pump EXCEPT ![p] = r]
  BY <1>1, <1>2 DEF HoldTypeOK
<1> HIDE DEF r
<1>5. Moves(p, r)
  BY <1>1, <1>3, <1>4, MovesByExcept, Zenon
<1>6. PumpOK(r) /\ PumpRecord(r, nextSeq)
  BY <1>1, <1>2, <1>3 DEF PumpOK, PumpRecord, LockPcs
<1>7. HoldTypeOK'
  BY <1>1, <1>2, <1>5, <1>6, TypesKept DEF HoldTypeOK
<1>8. RecordInv'
  BY <1>2, <1>5, <1>6, RecordsKept DEF HoldInv
<1>9. StrandInv'
  BY <1>2, <1>5, StrandsKept DEF HoldInv, Wakes
<1>10. LockInv'
  <2>1. \A q \in Pumps : /\ pump'[q].lock = pump[q].lock
                         /\ pump'[q].pc = IF q = p THEN "phase" ELSE pump[q].pc
    BY <1>3, <1>5 DEF Moves, Same
  <2>2. \A q \in Pumps : pump[q].pc \notin InsidePcs
    <3>1. \A q \in Pumps : pump[q].pc \in InsidePcs => pump[q].lock = hb.lock /\ pump[q].lock # 0
      BY <1>1 DEF HoldTypeOK, LockInv, PumpOK, LockPcs, InsidePcs
    <3>2. pump[p].lock = hb.lock
      BY <1>1, <1>2 DEF LockInv, PumpOK, LockPcs
    <3> QED BY <3>1, <3>2, Zenon DEF Acquire, Inside, InsidePcs
  <2>3. \A q \in Pumps, s \in Pumps : pump'[q].pc \in InsidePcs /\ pump'[s].pc \in InsidePcs => q = s
    BY <2>1, <2>2
  <2>4. ASSUME NEW x \in Locks
        PROVE  hb'.users[x] = Cardinality({q \in Pumps : pump'[q].lock = x})
    <3>1. {q \in Pumps : pump'[q].lock = x} = {q \in Pumps : pump[q].lock = x}
      BY <2>1
    <3> QED BY <1>1, <1>2, <3>1, Zenon DEF LockInv
  <2>5. \A q \in Pumps : pump'[q].lock # 0 => pump'[q].lock = hb'.lock
    BY <1>1, <1>2, <2>1, Zenon DEF LockInv
  <2> QED BY <2>3, <2>4, <2>5, Zenon DEF LockInv
<1> QED BY <1>7, <1>8, <1>9, <1>10 DEF HoldInv

\* releaseValidation drops the lock object only when p was its last user.
LEMMA HoldInvLeave ==
    ASSUME HoldInv, NEW p \in Pumps, Leave(p)
    PROVE  HoldInv'
<1> DEFINE l == pump[p].lock
           gone == hb.users[l] = 1 /\ hb.lock = l
                   /\ \A m \in Messages : hb.entries[m].status = "none"
           w == [pump[p] EXCEPT !.lock = 0]
           r == AfterWrite(w)
           S == {q \in Pumps : pump[q].lock = l}
<1>1. HbOK(hb) /\ PumpOK(pump[p]) /\ PumpRecord(pump[p], nextSeq) /\ HoldTypeOK /\ LockInv
  BY DEF HoldInv, HoldTypeOK, RecordInv
<1>2. /\ pump[p].pc = "leave" /\ pump' = [pump EXCEPT ![p] = r]
      /\ hb' = [hb EXCEPT !.users[l] = @ - 1, !.lock = IF gone THEN 0 ELSE @]
      /\ UNCHANGED <<nextSeq, delivered, released>>
  BY DEF Leave
<1>3. l \in Locks /\ l = hb.lock /\ l # 0
  BY <1>1, <1>2 DEF PumpOK, LockPcs, LockInv
<1>4. DOMAIN w = PumpFields /\ w.lock = 0 /\ w.out = pump[p].out
  BY <1>1, Zenon DEF PumpOK, PumpFields
<1> HIDE DEF w
<1>5. /\ DOMAIN r = PumpFields /\ r.lock = 0 /\ r.pc \in {"write", "reject", "idle"}
      /\ PumpOK(r) /\ PumpRecord(r, nextSeq)
  BY <1>1, <1>4, AfterWriteKeeps, Zenon DEF PumpRecord
<1> HIDE DEF r
<1>6. Moves(p, r)
  BY <1>1, <1>2, <1>5, MovesByExcept, Zenon
<1>7. IsFiniteSet(S) /\ p \in S /\ hb.users[l] = Cardinality(S)
  <2>1. IsFiniteSet(S)
    BY HoldbackAssumption, FS_Subset, Zenon
  <2> QED BY <1>1, <1>3, <2>1 DEF LockInv
<1>8. hb.users[l] \in Nat /\ Cardinality(S \ {p}) = hb.users[l] - 1 /\ IsFiniteSet(S \ {p})
  <2> HIDE DEF S, l
  <2>1. IsFiniteSet(S \ {p}) /\ Cardinality(S \ {p}) = Cardinality(S) - 1
    BY <1>7, FS_RemoveElement, Zenon
  <2> QED BY <1>1, <1>3, <1>7, <2>1, Zenon DEF HbOK
<1>9. hb.users[l] - 1 \in Nat
  BY <1>8, FS_CardinalityType
<1>10. /\ DOMAIN hb' = HbFields /\ hb'.entries = hb.entries
       /\ hb'.lock = (IF gone THEN 0 ELSE hb.lock)
       /\ hb'.users = [hb.users EXCEPT ![l] = hb.users[l] - 1]
  <2> HIDE DEF gone, l
  <2> QED BY <1>1, <1>2 DEF HbOK, HbFields
<1>11. HbOK(hb')
  <2> HIDE DEF gone, l
  <2> QED BY <1>1, <1>9, <1>10, Zenon DEF HbOK
<1>12. HoldTypeOK'
  BY <1>1, <1>2, <1>5, <1>6, <1>11, TypesKept, Zenon DEF HoldTypeOK
<1>13. RecordInv'
  BY <1>2, <1>5, <1>6, <1>10, RecordsKept, Zenon DEF HoldInv
<1>14. StrandInv'
  BY <1>2, <1>6, <1>10, StrandsKept, Zenon DEF HoldInv, Wakes
<1>15. LockInv'
  <2>1. \A q \in Pumps : /\ pump'[q].lock = IF q = p THEN 0 ELSE pump[q].lock
                         /\ pump'[q].pc \in InsidePcs => pump[q].pc \in InsidePcs
    BY <1>5, <1>6, Zenon DEF Moves, Same, InsidePcs
  <2>2. \A q \in Pumps : pump'[q].lock # 0 => pump'[q].lock = hb'.lock
    <3>1. CASE gone
      <4>1. S \ {p} = {}
        <5> HIDE DEF S
        <5>1. Cardinality(S \ {p}) = 0
          BY <1>8, <3>1
        <5> QED BY <1>8, <5>1, FS_EmptySet, Zenon
      <4>2. \A q \in Pumps : q # p => pump[q].lock # l
        BY <4>1, Zenon
      <4> QED BY <1>1, <1>3, <2>1, <4>2, Zenon DEF LockInv
    <3>2. CASE ~gone
      BY <1>1, <1>10, <2>1, <3>2, Zenon DEF LockInv
    <3> QED BY <3>1, <3>2, Zenon
  <2>3. ASSUME NEW x \in Locks
        PROVE  hb'.users[x] = Cardinality({q \in Pumps : pump'[q].lock = x})
    <3>1. x # 0
      BY LocksAreNotZero, Zenon
    <3>2. CASE x # l
      <4>1. {q \in Pumps : pump'[q].lock = x} = {q \in Pumps : pump[q].lock = x}
        BY <2>1, <3>1, <3>2
      <4> QED BY <1>1, <1>10, <3>2, <4>1, Zenon DEF LockInv, HbOK
    <3>3. CASE x = l
      <4>1. {q \in Pumps : pump'[q].lock = l} = S \ {p}
        BY <1>3, <2>1
      <4>2. hb'.users[l] = hb.users[l] - 1
        BY <1>1, <1>3, <1>10, Zenon DEF HbOK
      <4> QED BY <1>8, <3>3, <4>1, <4>2, Zenon
    <3> QED BY <3>2, <3>3
  <2>4. \A q \in Pumps, s \in Pumps : pump'[q].pc \in InsidePcs /\ pump'[s].pc \in InsidePcs => q = s
    BY <1>1, <2>1 DEF LockInv
  <2> QED BY <2>2, <2>3, <2>4 DEF LockInv
<1> QED BY <1>12, <1>13, <1>14, <1>15 DEF HoldInv

-----------------------------------------------------------------------------
(* The steps inside the lock.                                                *)

\* The billing hook counts the record whose turn it is and no other.
LEMMA VerdictFacts ==
    ASSUME NEW m \in Messages, NEW phase, NEW v \in Verdicts(m, phase), nextSeq \in Nat
    PROVE  /\ v = "order" => MsgSeq[m] > nextSeq
           /\ v = "approve" /\ MsgKind[m] = "data" => MsgSeq[m] <= nextSeq
<1>1. MsgSeq[m] \in Nat /\ MsgKind[m] \in HeldKinds
  BY HoldbackAssumption
<1>2. CASE MsgKind[m] = "data"
  <2>1. Verdicts(m, phase) \in {{"reject"}, IF MsgSeq[m] > nextSeq THEN {"order", "retry", "fatal"}
                                            ELSE {"approve", "retry", "fatal"}}
    BY <1>2 DEF Verdicts
  <2> QED BY <1>1, <2>1
<1>3. CASE MsgKind[m] # "data"
  <2>1. Verdicts(m, phase) \in {{"reject"}, {"approve"}}
    BY <1>1, <1>3 DEF Verdicts, HeldKinds
  <2> QED BY <1>3, <2>1
<1> QED BY <1>2, <1>3

LEMMA CountedStays ==
    ASSUME NEW m \in Messages, NEW n \in Nat, IsCounted(m, n)
    PROVE  IsCounted(m, n + 1)
BY HoldbackAssumption DEF IsCounted

\* Counting a record spoils no other pump's answer: no other pump has one
\* that says the record is early, because it would be inside the lock too.
LEMMA HoldInvValidate ==
    ASSUME HoldInv, NEW p \in Pumps, Validate(p)
    PROVE  HoldInv'
<1>1. /\ HbOK(hb) /\ PumpOK(pump[p]) /\ PumpRecord(pump[p], nextSeq) /\ HoldTypeOK /\ LockInv
      /\ nextSeq \in Nat \ {0}
  BY SMTT(30) DEF HoldInv, HoldTypeOK, RecordInv
<1>2. PICK v \in Verdicts(pump[p].msg, pump[p].phase) :
         /\ pump' = [pump EXCEPT ![p].pc = "conclude", ![p].verdict = v, ![p].phase = {}]
         /\ nextSeq' = IF /\ v = "approve" /\ MsgKind[pump[p].msg] = "data"
                          /\ MsgSeq[pump[p].msg] = nextSeq
                       THEN nextSeq + 1 ELSE nextSeq
  BY Zenon DEF Validate
<1>3. pump[p].pc = "validate" /\ UNCHANGED <<hb, delivered, released>>
  BY Zenon DEF Validate
<1> DEFINE m == pump[p].msg
           r == [pump[p] EXCEPT !.pc = "conclude", !.verdict = v, !.phase = {}]
<1>4. m \in Messages /\ MsgSeq[m] \in Nat
  BY <1>1, <1>3, HoldbackAssumption, Zenon DEF PumpOK, LockPcs
<1>5. /\ v = "order" => MsgSeq[m] > nextSeq
      /\ v = "approve" /\ MsgKind[m] = "data" => MsgSeq[m] <= nextSeq
  BY <1>1, <1>4, VerdictFacts
<1>6. /\ DOMAIN r = PumpFields /\ r.pc = "conclude" /\ r.lock = pump[p].lock
      /\ r.msg = m /\ r.out = pump[p].out /\ r.verdict = v
  BY <1>1 DEF PumpOK, PumpFields
<1>7. pump' = [pump EXCEPT ![p] = r]
  BY <1>1, <1>2, Zenon DEF HoldTypeOK
<1> HIDE DEF r
<1>8. Moves(p, r)
  BY <1>1, <1>6, <1>7, MovesByExcept, Zenon
<1>9. nextSeq' \in Nat \ {0} /\ (nextSeq' = nextSeq \/ nextSeq' = nextSeq + 1)
  BY <1>1, <1>2
<1>10. \A k \in Messages : IsCounted(k, nextSeq) => IsCounted(k, nextSeq')
  BY <1>1, <1>9, CountedStays, Zenon
<1>11. PumpOK(r)
  BY <1>1, <1>3, <1>4, <1>6, Zenon DEF PumpOK, LockPcs
<1>12. HoldTypeOK'
  BY <1>1, <1>3, <1>8, <1>9, <1>11, TypesKept, Zenon DEF HoldTypeOK
<1>13. \A q \in Pumps : /\ pump[q].out \in Seq(Messages \X (SUBSET Nat))
                        /\ \A i \in 1..Len(pump[q].out) : IsCounted(pump[q].out[i][1], nextSeq')
  BY <1>10 DEF HoldInv, RecordInv, PumpRecord
<1>14. PumpRecord(r, nextSeq')
  <2>1. v = "order" => MsgSeq[m] > nextSeq'
    BY <1>2, <1>5
  <2>2. v = "approve" => IsCounted(m, nextSeq')
    BY <1>1, <1>2, <1>4, <1>5 DEF IsCounted
  <2> HIDE DEF m
  <2> QED BY <1>6, <1>13, <2>1, <2>2 DEF PumpRecord
<1>15. ASSUME NEW q \in Pumps, q # p
       PROVE  PumpRecord(pump[q], nextSeq')
  <2>1. pump[q].pc # "conclude"
    BY <1>1, <1>3, <1>15, Zenon DEF LockInv, InsidePcs
  <2> QED BY <1>13, <1>15, <2>1, Zenon DEF PumpRecord
<1>16. RecordInv'
  <2>1. \A q \in Pumps : PumpRecord(pump'[q], nextSeq')
    BY <1>8, <1>14, <1>15, SameKeeps, Zenon DEF Moves
  <2>2. \A k \in Messages : hb'.entries[k].status = "approved" => IsCounted(k, nextSeq')
    BY <1>3, <1>10, Zenon DEF HoldInv, RecordInv
  <2>3. \A k \in released' : IsCounted(k, nextSeq')
    BY <1>3, <1>10, Zenon DEF HoldInv, RecordInv, HoldTypeOK
  <2>4. \A d \in delivered' : d[1] \in Messages /\ IsCounted(d[1], nextSeq')
    BY <1>3, <1>10, Zenon DEF HoldInv, RecordInv
  <2> QED BY <2>1, <2>2, <2>3, <2>4, Zenon DEF RecordInv, PumpRecord, IsCounted
<1>17. LockInv'
  BY <1>1, <1>3, <1>6, <1>8, LocksKept, Zenon DEF InsidePcs
<1>18. StrandInv'
  BY <1>1, <1>3, <1>8, StrandsKept, Zenon DEF HoldInv, Wakes
<1> QED BY <1>12, <1>16, <1>17, <1>18, Zenon DEF HoldInv

\* approve: one entry changes, evictApprovedLocked only takes some away.
LEMMA ApprovedFacts ==
    ASSUME NEW h, HbOK(h), NEW m \in Messages
    PROVE  LET g == Approved(h, m) IN
           /\ HbOK(g) /\ g.users = h.users
           /\ g.lock = h.lock \/ (h.lock # 0 /\ h.users[h.lock] = 0)
           /\ g.entries[m].status \in {"approved", "none"}
           /\ \A k \in Messages : k # m => g.entries[k] = h.entries[k] \/ g.entries[k] = NoEntry
<1> DEFINE c == MsgConn[m]
           n == Cardinality(h.entries[m].frames)
           entry == [h.entries[m] EXCEPT !.status = "approved", !.why = "none"]
           went == CASE MsgKind[m] = "noise" -> {m}
                     [] MsgKind[m] = "keepalive" -> {}
                     [] OTHER -> {MsgKind[m]}
           was == h.conns[c]
           conn == [was EXCEPT
                      !.messages = was.messages - 1, !.frames = was.frames - n,
                      !.approved = was.approved + 1, !.phase = was.phase \cup went,
                      !.e2e = IF MsgKind[m] \in {"info", "data"} THEN MsgE2E[m] ELSE was.e2e]
           a == [h EXCEPT
                  !.entries[m] = entry, !.conns[c] = conn,
                  !.pendingMessages = @ - 1, !.pendingFrames = @ - n, !.approved = Append(@, m)]
           g == EvictApproved(a, c)
           f == [g EXCEPT !.entries[m] = Scheduled(g.entries[m])]
<1>1. DOMAIN entry = EntryFields /\ entry.status = "approved"
  BY DEF HbOK, EntryFields
<1>2. Approved(h, m) = IF g.entries[m].status = "approved" THEN f ELSE g
  BY DEF Approved
<1>3. /\ DOMAIN a = HbFields /\ a.lock = h.lock /\ a.users = h.users
      /\ a.entries = [h.entries EXCEPT ![m] = entry]
  <2> HIDE DEF entry, conn, n
  <2> QED BY DEF HbOK, HbFields
<1> HIDE DEF entry, a
<1>4. HbOK(a)
  BY <1>1, <1>3 DEF HbOK
<1>5. Lost(a, g)
  BY <1>4, EvictLost
<1> HIDE DEF g
<1>6. /\ HbOK(g) /\ g.users = h.users
      /\ g.lock = h.lock \/ (h.lock # 0 /\ h.users[h.lock] = 0)
      /\ g.entries[m].status \in {"approved", "none"}
      /\ \A k \in Messages : k # m => g.entries[k] = h.entries[k] \/ g.entries[k] = NoEntry
  <2>1. a.entries[m] = entry /\ \A k \in Messages : k # m => a.entries[k] = h.entries[k]
    BY <1>3 DEF HbOK
  <2>2. NoEntry.status = "none"
    BY DEF NoEntry
  <2> QED BY <1>1, <1>3, <1>5, <2>1, <2>2, Zenon DEF Lost
<1>7. CASE g.entries[m].status = "approved"
  <2> DEFINE e == Scheduled(g.entries[m])
  <2>1. DOMAIN e = EntryFields /\ e.status = "approved"
    BY <1>6, <1>7 DEF Scheduled, HbOK, EntryFields
  <2> HIDE DEF e
  <2>2. f = [g EXCEPT !.entries[m] = e]
    BY DEF e
  <2>3. /\ DOMAIN f = HbFields /\ f.lock = g.lock /\ f.users = g.users
        /\ f.entries = [g.entries EXCEPT ![m] = e]
    BY <1>6, <2>2 DEF HbOK, HbFields
  <2> HIDE DEF f
  <2>4. HbOK(f)
    BY <1>6, <2>1, <2>3 DEF HbOK
  <2>5. Approved(h, m) = f
    BY <1>2, <1>7, Zenon
  <2>6. f.entries[m] = e /\ \A k \in Messages : k # m => f.entries[k] = g.entries[k]
    BY <1>6, <2>3 DEF HbOK
  <2> QED BY <1>6, <2>1, <2>3, <2>4, <2>5, <2>6, Zenon
<1>8. CASE g.entries[m].status # "approved"
  BY <1>2, <1>6, <1>8, Zenon
<1> QED BY <1>7, <1>8

\* A pump inside the lock is the only one there.
LEMMA OneInside ==
    ASSUME HoldInv, NEW p \in Pumps, pump[p].pc \in InsidePcs \ {"next"}
    PROVE  \A q \in Pumps : ~Wakes(pump[q])
BY DEF HoldInv, LockInv, Wakes, InsidePcs

\* The record that is released may be the one an early record waits for: then
\* the pump that released it looks for deferred ones next.
LEMMA HoldInvConcludeApprove ==
    ASSUME HoldInv, NEW p \in Pumps, ConcludeApprove(p)
    PROVE  HoldInv'
<1> DEFINE m == pump[p].msg
           h == Approved(hb, m)
           r == [pump[p] EXCEPT !.pc = "next", !.live = FALSE, !.verdict = "none",
                                !.out = Append(pump[p].out, <<m, FramesOf(m)>>)]
<1>1. /\ HbOK(hb) /\ PumpOK(pump[p]) /\ PumpRecord(pump[p], nextSeq) /\ HoldTypeOK /\ LockInv
      /\ StrandInv
  BY Zenon DEF HoldInv, HoldTypeOK, RecordInv
<1>2. pump[p].pc = "conclude" /\ pump[p].verdict = "approve" /\ UNCHANGED <<nextSeq, delivered>>
  BY Zenon DEF ConcludeApprove
<1>3. m \in Messages /\ IsCounted(m, nextSeq)
  BY <1>1, <1>2 DEF PumpOK, LockPcs, PumpRecord
<1>4. CASE Become(h, [pump EXCEPT ![p] = r]) /\ released' = released \cup {m}
  <2>1. FramesOf(m) \in SUBSET Nat
    <3>1. MsgFrames[m] \in Nat
      BY <1>3, HoldbackAssumption, Zenon
    <3> QED BY <3>1 DEF FramesOf
  <2> DEFINE o == Append(pump[p].out, <<m, FramesOf(m)>>)
  <2>2. /\ o \in Seq(Messages \X (SUBSET Nat))
        /\ \A i \in 1..Len(o) : IsCounted(o[i][1], nextSeq)
    <3>1. pump[p].out \in Seq(Messages \X (SUBSET Nat))
      BY <1>1 DEF PumpRecord
    <3> DEFINE e == <<m, FramesOf(m)>>
    <3>2. e \in Messages \X (SUBSET Nat) /\ e[1] = m
      BY <1>3, <2>1
    <3> HIDE DEF e
    <3>3. /\ o \in Seq(Messages \X (SUBSET Nat)) /\ Len(o) = Len(pump[p].out) + 1
          /\ \A i \in 1..Len(o) : o[i] = IF i = Len(pump[p].out) + 1 THEN e ELSE pump[p].out[i]
      BY <3>1, <3>2 DEF e
    <3>4. \A i \in 1..Len(o) : i # Len(pump[p].out) + 1 => i \in 1..Len(pump[p].out)
      BY <3>1, <3>3
    <3> HIDE DEF o
    <3> QED BY <1>1, <1>3, <3>2, <3>3, <3>4, Zenon DEF PumpRecord
  <2>3. /\ DOMAIN r = PumpFields /\ r.pc = "next" /\ r.lock = pump[p].lock
        /\ r.msg = m /\ r.out = o /\ r.verdict = "none"
    <3> HIDE DEF o
    <3>1. r = [pump[p] EXCEPT !.pc = "next", !.live = FALSE, !.verdict = "none", !.out = o]
      BY DEF o
    <3> QED BY <1>1, <3>1, Zenon DEF PumpOK, PumpFields
  <2> HIDE DEF r, o
  <2>4. Moves(p, r) /\ hb' = h
    BY <1>1, <1>4, <2>3, MovesByBecome, Zenon
  <2>5. /\ HbOK(hb') /\ hb'.users = hb.users
        /\ hb'.lock = hb.lock \/ (hb.lock # 0 /\ hb.users[hb.lock] = 0)
        /\ hb'.entries[m].status \in {"approved", "none"}
        /\ \A k \in Messages : k # m => hb'.entries[k] = hb.entries[k] \/ hb'.entries[k] = NoEntry
    <3> HIDE DEF m, h
    <3>1. hb' = Approved(hb, m)
      BY <2>4, Zenon DEF h
    <3> QED BY <1>1, <1>3, <3>1, ApprovedFacts
  <2>6. PumpOK(r) /\ PumpRecord(r, nextSeq)
    BY <1>1, <1>2, <1>3, <2>2, <2>3, Zenon DEF PumpOK, PumpRecord, LockPcs
  <2>7. \A k \in Messages : /\ hb'.entries[k].status = "approved" =>
                                  hb.entries[k].status = "approved" \/ k = m
                            /\ Early(hb'.entries[k]) => Early(hb.entries[k])
    <3> HIDE DEF m, h
    <3>1. ASSUME NEW k \in Messages
          PROVE  /\ hb'.entries[k].status = "approved" =>
                        hb.entries[k].status = "approved" \/ k = m
                 /\ Early(hb'.entries[k]) => Early(hb.entries[k])
      <4>1. CASE k = m
        BY <2>5, <4>1 DEF Early
      <4>2. CASE k # m
        <5>1. hb'.entries[k] = hb.entries[k] \/ hb'.entries[k].status = "none"
          BY <2>5, <4>2 DEF NoEntry
        <5> QED BY <5>1 DEF Early
      <4> QED BY <4>1, <4>2, Zenon
    <3> QED BY <3>1, Zenon
  <2>8. HoldTypeOK'
    <3>1. released' \subseteq Messages /\ nextSeq' \in Nat \ {0}
      BY <1>1, <1>2, <1>3, <1>4, Zenon DEF HoldTypeOK
    <3> QED BY <1>1, <2>4, <2>5, <2>6, <3>1, TypesKept, Zenon
  <2>9. RecordInv'
    <3>1. \A k \in Messages : hb'.entries[k].status = "approved" =>
              hb.entries[k].status = "approved" \/ IsCounted(k, nextSeq)
      BY <1>3, <2>7
    <3>2. \A k \in released' : k \in released \/ IsCounted(k, nextSeq)
      BY <1>3, <1>4, Zenon
    <3> QED BY <1>2, <2>4, <2>6, <3>1, <3>2, RecordsKept, Zenon DEF HoldInv
  <2>10. LockInv'
    BY <1>1, <1>2, <2>3, <2>4, <2>5, LocksKept, Zenon DEF InsidePcs
  <2>11. ASSUME NEW k \in Messages, Early(hb'.entries[k])
         PROVE  /\ MsgSeq[k] # 0
                /\ \/ \E j \in Messages : MsgSeq[j] \in 1..(MsgSeq[k] - 1) /\ j \notin released'
                   \/ \E q \in Pumps : Wakes(pump'[q])
    <3>1. MsgSeq[k] # 0 /\ \/ \E j \in Messages : MsgSeq[j] \in 1..(MsgSeq[k] - 1) /\ j \notin released
                           \/ \E q \in Pumps : Wakes(pump[q])
      BY <1>1, <2>7, <2>11, Zenon DEF StrandInv
    <3>2. PICK j \in Messages : MsgSeq[j] \in 1..(MsgSeq[k] - 1) /\ j \notin released
      BY <1>2, <3>1, OneInside, Zenon DEF InsidePcs
    <3>3. CASE j = m
      <4>1. MsgSeq[m] # 0
        BY <3>2, <3>3
      <4>2. Wakes(pump'[p])
        BY <2>3, <2>4, <4>1, Zenon DEF Wakes, Moves, Same
      <4> QED BY <3>1, <4>2
    <3>4. CASE j # m
      BY <1>4, <3>1, <3>2, <3>4, Zenon
    <3> QED BY <3>3, <3>4, Zenon
  <2>12. StrandInv'
    BY <2>11 DEF StrandInv, Early, Wakes
  <2> QED BY <2>8, <2>9, <2>10, <2>12 DEF HoldInv
<1>5. CASE pump' = [pump EXCEPT ![p] = Returning(pump[p], FALSE)] /\ UNCHANGED <<hb, released>>
  <2>1. DOMAIN Returning(pump[p], FALSE) = PumpFields /\ PlainMove(pump[p], Returning(pump[p], FALSE))
    BY <1>1, <1>2, ReturningMove, Zenon DEF InsidePcs
  <2>2. Settles(hb', hb)
    BY <1>1, <1>5, SameEntriesSettle DEF HbOK
  <2> QED BY <1>1, <1>2, <1>5, <2>1, <2>2, MovesByExcept, PlainStep, Zenon
<1> QED BY <1>4, <1>5, Zenon DEF ConcludeApprove

\* A record is early while the session waits for another one, which no
\* validation has released.
LEMMA AwaitedRecord ==
    ASSUME HoldInv, NEW m \in Messages, MsgSeq[m] > nextSeq
    PROVE  /\ MsgSeq[m] # 0
           /\ \E k \in Messages : MsgSeq[k] \in 1..(MsgSeq[m] - 1) /\ k \notin released
<1>1. nextSeq \in Nat \ {0} /\ MsgSeq[m] \in Nat
  BY HoldbackAssumption DEF HoldInv, HoldTypeOK
<1>2. nextSeq \in 1..MsgSeq[m] /\ nextSeq \in 1..(MsgSeq[m] - 1) /\ MsgSeq[m] # 0
  BY <1>1
<1>3. PICK k \in Messages : MsgSeq[k] = nextSeq
  BY <1>2, RecordsNumbered
<1>4. MsgKind[k] = "data"
  BY <1>1, <1>3, RecordsNumbered, Zenon
<1>5. k \notin released
  BY <1>1, <1>3, <1>4 DEF HoldInv, RecordInv, IsCounted
<1> QED BY <1>2, <1>3, <1>5

LEMMA HoldInvConcludeDefer ==
    ASSUME HoldInv, NEW p \in Pumps, ConcludeDefer(p)
    PROVE  HoldInv'
<1> DEFINE m == pump[p].msg
           v == pump[p].verdict
           e == [Scheduled(hb.entries[m]) EXCEPT !.status = "deferred", !.why = v]
<1>1. /\ HbOK(hb) /\ PumpOK(pump[p]) /\ PumpRecord(pump[p], nextSeq) /\ HoldTypeOK /\ LockInv
      /\ StrandInv
  BY DEF HoldInv, HoldTypeOK, RecordInv
<1>2. /\ pump[p].pc = "conclude" /\ v \in {"order", "retry"}
      /\ UNCHANGED <<nextSeq, delivered, released>>
  BY DEF ConcludeDefer
<1>3. m \in Messages
  BY <1>1, <1>2 DEF PumpOK, LockPcs
<1>4. PICK x \in {TRUE, FALSE} :
         /\ pump' = [pump EXCEPT ![p] = Returning(pump[p], x)]
         /\ hb' = [hb EXCEPT !.entries[m] = e] \/ UNCHANGED hb
  BY Zenon DEF ConcludeDefer
<1> DEFINE r == Returning(pump[p], x)
<1>5. DOMAIN r = PumpFields /\ PlainMove(pump[p], r)
  BY <1>1, <1>2, ReturningMove DEF InsidePcs
<1> HIDE DEF r
<1>6. Moves(p, r)
  BY <1>1, <1>4, <1>5, MovesByExcept, Zenon DEF r
<1>7. CASE hb' = [hb EXCEPT !.entries[m] = e]
  <2>1. DOMAIN e = EntryFields /\ e.status = "deferred" /\ e.why = v
    <3>1. DOMAIN hb.entries[m] = EntryFields
      BY <1>1, <1>3 DEF HbOK
    <3> QED BY <3>1, Zenon DEF Scheduled, EntryFields
  <2> HIDE DEF e
  <2>2. /\ DOMAIN hb' = HbFields /\ hb'.lock = hb.lock /\ hb'.users = hb.users
        /\ hb'.entries = [hb.entries EXCEPT ![m] = e]
    BY <1>1, <1>7, Zenon DEF HbOK, HbFields
  <2>3. HbOK(hb')
    BY <1>1, <1>3, <2>1, <2>2, Zenon DEF HbOK
  <2>4. \A k \in Messages : hb'.entries[k] = IF k = m THEN e ELSE hb.entries[k]
    BY <1>1, <2>2, Zenon DEF HbOK
  <2>5. HoldTypeOK'
    BY <1>1, <1>2, <1>5, <1>6, <2>3, TypesKept, Zenon DEF HoldTypeOK, PlainMove
  <2>6. RecordInv'
    BY <1>2, <1>5, <1>6, <2>1, <2>4, RecordsKept, Zenon DEF HoldInv, PlainMove
  <2>7. LockInv'
    BY <1>1, <1>5, <1>6, <2>2, LocksKept, Zenon DEF PlainMove
  <2>8. ASSUME NEW k \in Messages, Early(hb'.entries[k])
        PROVE  /\ MsgSeq[k] # 0
               /\ \E j \in Messages : MsgSeq[j] \in 1..(MsgSeq[k] - 1) /\ j \notin released
    <3>1. CASE k = m
      <4>1. v = "order"
        BY <2>1, <2>4, <2>8, <3>1, Zenon DEF Early
      <4>2. MsgSeq[m] > nextSeq
        BY <1>1, <1>2, <4>1, Zenon DEF PumpRecord
      <4> QED BY <1>3, <3>1, <4>2, AwaitedRecord
    <3>2. CASE k # m
      <4>1. \A q \in Pumps : ~Wakes(pump[q])
        BY <1>2, OneInside DEF InsidePcs
      <4> QED BY <1>1, <2>4, <2>8, <3>2, <4>1, Zenon DEF StrandInv
    <3> QED BY <3>1, <3>2
  <2>9. StrandInv'
    BY <1>2, <2>8, Zenon DEF StrandInv, Early
  <2> QED BY <2>5, <2>6, <2>7, <2>9, Zenon DEF HoldInv
<1>8. CASE UNCHANGED hb
  <2>1. Settles(hb', hb)
    BY <1>1, <1>8, SameEntriesSettle, SMTT(30) DEF HbOK
  <2> QED BY <1>2, <1>5, <1>6, <2>1, PlainStep, Zenon
<1> QED BY <1>4, <1>7, <1>8

\* nextDeferred takes the lowest of the deferred records, so the others wait
\* for it; if it finds none, none is early.
LEMMA HoldInvNextDeferred ==
    ASSUME HoldInv, NEW p \in Pumps, NextDeferred(p)
    PROVE  HoldInv'
<1> DEFINE waiting == {k \in Messages : /\ hb.entries[k].status = "deferred"
                                        /\ MsgSeq[k] # 0 /\ MsgSeq[pump[p].msg] # 0}
           back == Returning(pump[p], FALSE)
<1>1. /\ HbOK(hb) /\ PumpOK(pump[p]) /\ PumpRecord(pump[p], nextSeq) /\ HoldTypeOK /\ LockInv
      /\ StrandInv
  BY DEF HoldInv, HoldTypeOK, RecordInv
<1>2. pump[p].pc = "next" /\ UNCHANGED <<nextSeq, delivered>>
  BY Zenon DEF NextDeferred
<1>3. CASE waiting = {} /\ pump' = [pump EXCEPT ![p] = back] /\ UNCHANGED <<hb, released>>
  <2>1. /\ DOMAIN back = PumpFields /\ back.pc = "leave" /\ back.lock = pump[p].lock
        /\ PumpOK(back) /\ PumpRecord(back, nextSeq)
    BY <1>1, <1>2, ReturningKeeps, Zenon DEF InsidePcs
  <2> HIDE DEF back
  <2>2. Moves(p, back)
    BY <1>1, <1>3, <2>1, MovesByExcept, Zenon
  <2>3. HoldTypeOK'
    BY <1>1, <1>2, <1>3, <2>1, <2>2, TypesKept, Zenon DEF HoldTypeOK
  <2>4. RecordInv'
    BY <1>2, <1>3, <2>1, <2>2, RecordsKept, Zenon DEF HoldInv
  <2>5. LockInv'
    BY <1>1, <1>3, <2>1, <2>2, LocksKept, Zenon DEF InsidePcs
  <2>6. StrandInv'
    <3>1. CASE MsgSeq[pump[p].msg] = 0
      BY <1>1, <1>3, <2>2, <3>1, StrandsKept, Zenon DEF Wakes
    <3>2. CASE MsgSeq[pump[p].msg] # 0
      <4>1. \A k \in Messages : ~Early(hb'.entries[k])
        BY <1>1, <1>3, <3>2, Zenon DEF StrandInv, Early
      <4> QED BY <4>1, Zenon DEF StrandInv, Early
    <3> QED BY <3>1, <3>2, Zenon
  <2> QED BY <2>3, <2>4, <2>5, <2>6 DEF HoldInv
<1>4. ASSUME NEW m \in waiting, \A k \in waiting : MsgSeq[m] <= MsgSeq[k],
             hb' = [hb EXCEPT !.entries[m] = Again(m)],
             pump' = [pump EXCEPT ![p].pc = "phase", ![p].msg = m, ![p].live = TRUE],
             released' = released \ {m}
      PROVE  HoldInv'
  <2> DEFINE r == [pump[p] EXCEPT !.pc = "phase", !.msg = m, !.live = TRUE]
             e == Again(m)
  <2>1. m \in Messages /\ MsgSeq[m] # 0 /\ MsgSeq[pump[p].msg] # 0
    BY <1>4
  <2>2. DOMAIN e = EntryFields /\ e.status = "validating"
    BY <1>1, <2>1 DEF Again, Stopped, HbOK, EntryFields
  <2>3. /\ DOMAIN r = PumpFields /\ r.pc = "phase" /\ r.lock = pump[p].lock
        /\ r.msg = m /\ r.out = pump[p].out
    BY <1>1 DEF PumpOK, PumpFields
  <2>4. pump' = [pump EXCEPT ![p] = r]
    BY <1>1, <1>4, Zenon DEF HoldTypeOK
  <2> HIDE DEF r, e
  <2>5. Moves(p, r)
    BY <1>1, <2>3, <2>4, MovesByExcept, Zenon
  <2>6. PumpOK(r) /\ PumpRecord(r, nextSeq)
    BY <1>1, <1>2, <2>1, <2>3, Zenon DEF PumpOK, PumpRecord, LockPcs
  <2>7. /\ DOMAIN hb' = HbFields /\ hb'.lock = hb.lock /\ hb'.users = hb.users
        /\ hb'.entries = [hb.entries EXCEPT ![m] = e]
    BY <1>1, <1>4, Zenon DEF HbOK, HbFields, e
  <2>8. HbOK(hb')
    BY <1>1, <2>1, <2>2, <2>7, Zenon DEF HbOK
  <2>9. \A k \in Messages : hb'.entries[k] = IF k = m THEN e ELSE hb.entries[k]
    BY <1>1, <2>7, Zenon DEF HbOK
  <2>10. HoldTypeOK'
    <3>1. released' \subseteq Messages
      BY <1>1, <1>4 DEF HoldTypeOK
    <3> QED BY <1>1, <1>2, <2>5, <2>6, <2>8, <3>1, TypesKept, Zenon DEF HoldTypeOK
  <2>11. RecordInv'
    BY <1>2, <1>4, <2>2, <2>5, <2>6, <2>9, RecordsKept, Zenon DEF HoldInv
  <2>12. LockInv'
    BY <1>1, <1>2, <2>3, <2>5, <2>7, LocksKept, Zenon DEF InsidePcs
  <2>13. ASSUME NEW k \in Messages, Early(hb'.entries[k])
         PROVE  MsgSeq[k] # 0 /\ MsgSeq[m] \in 1..(MsgSeq[k] - 1) /\ m \notin released'
    <3>1. k # m /\ Early(hb.entries[k])
      BY <2>2, <2>9, <2>13, Zenon DEF Early
    <3>2. MsgSeq[k] # 0 /\ k \in waiting
      BY <1>1, <2>1, <3>1 DEF StrandInv, Early
    <3>3. MsgSeq[m] <= MsgSeq[k] /\ MsgSeq[m] # MsgSeq[k]
      BY <1>4, <2>1, <3>1, <3>2, RecordsNumbered, Zenon
    <3>4. MsgSeq[m] \in Nat /\ MsgSeq[k] \in Nat
      BY <2>1, HoldbackAssumption, Zenon
    <3> HIDE DEF waiting
    <3> QED BY <1>4, <2>1, <3>2, <3>3, <3>4, SMTT(30)
  <2>14. StrandInv'
    BY <2>1, <2>13 DEF StrandInv, Early
  <2> QED BY <2>10, <2>11, <2>12, <2>14 DEF HoldInv
<1> QED BY <1>3, <1>4, ZenonT(30) DEF NextDeferred

-----------------------------------------------------------------------------
(* The theorems.                                                             *)

LEMMA HoldInvInit ==
    ASSUME HoldInit
    PROVE  HoldInv
<1>1. /\ HbOK(hb) /\ hb.lock = 0 /\ \A l \in Locks : hb.users[l] = 0
      /\ \A m \in Messages : hb.entries[m].status = "none"
  BY Zenon DEF HoldInit, HbOK, HbFields, EntryFields, NoEntry
<1>2. /\ DOMAIN NoPump = PumpFields /\ NoPump.pc = "idle" /\ NoPump.lock = 0 /\ NoPump.out = <<>>
  BY Zenon DEF NoPump, PumpFields
<1>3. DOMAIN pump = Pumps /\ \A p \in Pumps : pump[p] = NoPump
  BY Zenon DEF HoldInit
<1>4. nextSeq = 1 /\ released = {} /\ delivered = {}
  BY Zenon DEF HoldInit
<1>5. PumpOK(NoPump) /\ PumpRecord(NoPump, nextSeq)
  BY <1>2 DEF PumpOK, PumpRecord, LockPcs
<1>6. HoldTypeOK
  <2>1. nextSeq \in Nat \ {0}
    BY <1>4
  <2> QED BY <1>1, <1>3, <1>4, <1>5, <2>1, Zenon DEF HoldTypeOK
<1>7. LockInv
  <2>1. \A l \in Locks : {p \in Pumps : pump[p].lock = l} = {}
    BY <1>2, <1>3 DEF Locks
  <2> QED BY <1>1, <1>2, <1>3, <2>1, FS_EmptySet, Zenon DEF LockInv, InsidePcs
<1>8. RecordInv
  BY <1>1, <1>3, <1>4, <1>5, Zenon DEF RecordInv
<1>9. StrandInv
  BY <1>1, Zenon DEF StrandInv, Early
<1> QED BY <1>6, <1>7, <1>8, <1>9, Zenon DEF HoldInv

LEMMA HoldInvNext ==
    ASSUME HoldInv, [HoldNext]_holdVars
    PROVE  HoldInv'
<1>1. CASE UNCHANGED holdVars
  BY <1>1, ZenonT(30) DEF HoldInv, HoldTypeOK, LockInv, RecordInv, StrandInv, holdVars, HbOK, PumpOK,
              PumpRecord, IsCounted, Early, Wakes
<1>2. ASSUME NEW p \in Pumps, Receive(p)
      PROVE  HoldInv'
  BY <1>2, HoldInvReceiveNew, HoldInvReceivePassed, HoldInvReceiveDeferred DEF Receive
<1>3. ASSUME NEW p \in Pumps,
             \/ Guard(p) \/ GuardExpired(p) \/ Acquire(p) \/ ReadPhase(p)
             \/ Validate(p) \/ ConcludeApprove(p) \/ ConcludeDefer(p) \/ ConcludeReject(p)
             \/ NextDeferred(p) \/ Leave(p)
             \/ WriteOne(p) \/ WriteFails(p) \/ RejectConnection(p)
      PROVE  HoldInv'
  BY <1>3, HoldInvGuard, HoldInvGuardExpired, HoldInvAcquire, HoldInvReadPhase, HoldInvValidate,
     HoldInvConcludeApprove, HoldInvConcludeDefer, HoldInvConcludeReject, HoldInvNextDeferred,
     HoldInvLeave, HoldInvWriteOne, HoldInvWriteFails, HoldInvRejectConnection, Zenon
<1> QED BY <1>1, <1>2, <1>3, HoldInvMessage, HoldInvConnection, Zenon DEF HoldNext

\* The invariant of messageHoldback and its pumps holds from newMessageHoldback
\* on: one validation lock and one pump inside it, nothing approved or on its
\* way out that the hook has not counted, no early record without a pump or a
\* predecessor that will wake it.
THEOREM HoldInvHolds == HoldSpec => []HoldInv
<1>1. HoldInit => HoldInv
  BY HoldInvInit
<1>2. HoldInv /\ [HoldNext]_holdVars => HoldInv'
  BY HoldInvNext
<1> QED BY <1>1, <1>2, PTL DEF HoldSpec

\* pumpRelayToClients never writes a frame of a billable message that the
\* billing hook has not counted, together with every record before it: what
\* framesForForward authorizes stays counted whatever expires, is evicted or
\* reset, and whichever pump validates, between the answer and the write.
THEOREM ForwardedRecordsWereCounted == HoldSpec => []ForwardedWasAccepted
<1>1. HoldInv => ForwardedWasAccepted
  BY Zenon DEF HoldInv, RecordInv, IsCounted, ForwardedWasAccepted
<1> QED BY <1>1, HoldInvHolds, PTL

\* framesForForward forgets no early record: while no pump is inside the
\* validation lock, a record that deferCompletion kept because it came early
\* has a predecessor that the last validation, if any, did not release, so
\* the release of that predecessor and its nextDeferred are still to come.
THEOREM EarlyRecordsAreNotForgotten == HoldSpec => []NoStrandedRecord
<1>1. HoldInv => NoStrandedRecord
  <2> SUFFICES ASSUME HoldInv, \A p \in Pumps : ~Inside(p)
               PROVE  NoStrandedRecord
    BY DEF NoStrandedRecord
  <2>1. \A p \in Pumps : ~Wakes(pump[p])
    BY DEF Inside, Wakes
  <2> QED BY <2>1 DEF HoldInv, StrandInv, Early, NoStrandedRecord
<1> QED BY <1>1, HoldInvHolds, PTL

=============================================================================
