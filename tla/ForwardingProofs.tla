-------------------------- MODULE ForwardingProofs --------------------------
(***************************************************************************)
(* Proofs about the way of a frame: the legs of a connection share one     *)
(* cross-relay bridge (CrossRelayBridge); no application is given a record *)
(* twice (RelayedTransfer), for any number of messages, frames and         *)
(* carriers, every workload and every size of the replay window.           *)
(*                                                                         *)
(* The inductive invariant of RelayedTransfer has two parts. TypeOK        *)
(* follows the frames: data on its way to the client, wherever it waits,   *)
(* is of a message of the callee, and the other way round; a route that is *)
(* still to be answered has a frame to replay. WindowsExact says what the  *)
(* receivers' windows have observed: exactly the records that their        *)
(* application has been given.                                             *)
(***************************************************************************)
EXTENDS RelayedTransfer, CrossRelayBridge, FiniteSetTheorems, TLAPS

-----------------------------------------------------------------------------
(* Facts about numbers, functions and sequences that the proofs use.         *)

LEMMA NumberFacts ==
    /\ \A n \in Nat : n + 1 \in Nat /\ n \in Int
    /\ 0 \in Nat /\ 0 # 1
OBVIOUS

LEMMA AddTo ==
    ASSUME NEW S, NEW f \in [S -> Nat], NEW x \in S, NEW n \in Nat
    PROVE  [f EXCEPT ![x] = @ + n] \in [S -> Nat]
OBVIOUS

LEMMA AddRank ==
    ASSUME NEW S, NEW n \in Nat, NEW rank \in [S -> 1..n], NEW c \in Nat
    PROVE  \A l \in S : c + rank[l] \in Nat
OBVIOUS

LEMMA EmptySequence == \A S : <<>> \in Seq(S)
OBVIOUS

-----------------------------------------------------------------------------
(* The cross-relay bridge.                                                   *)

\* A leg that builds the bridge of its entry.
Works(l) == bleg[l].pc \in {"find", "dial", "built"}

LegState == [pc : {"new", "splice", "wait", "find", "dial", "built", "attach", "on"}, e : 0..MaxEntries]
EntryState == [bridging : BOOLEAN, bridged : BOOLEAN, ready : BOOLEAN]
BridgeState == [state : {"none", "up", "done", "released"}, legs : SUBSET BridgeLegs, dualClosed : BOOLEAN]

BridgeTypeOK ==
    /\ bleg \in [BridgeLegs -> LegState]
    /\ entries \in [BridgeEntries -> EntryState]
    /\ bridge \in [BridgeEntries -> BridgeState]
    /\ entry \in 0..MaxEntries /\ madeEntries \in 0..MaxEntries /\ entry <= madeEntries

\* An entry that was not made yet is as new.
UnmadeEntriesNew ==
    \A e \in BridgeEntries : e > madeEntries =>
        entries[e] = NewEntry /\ bridge[e] = NoBridge

\* A leg past its arrival holds an entry that was made.
LegsHoldEntries ==
    \A l \in BridgeLegs : bleg[l].pc # "new" => bleg[l].e \in 1..madeEntries

\* The leg that builds a bridge holds the present entry, as its only builder;
\* the entry is claimed and the waiting legs are not woken.
BuilderHoldsEntry ==
    \A l \in BridgeLegs : Works(l) =>
        /\ bleg[l].e = entry
        /\ ~entries[entry].bridged /\ ~entries[entry].ready
        /\ \A k \in BridgeLegs : Works(k) => k = l
        /\ bleg[l].pc # "built" => bridge[entry].state = "none"
        /\ bleg[l].pc = "built" => /\ bridge[entry].state \in {"up", "done"}
                                   /\ l \in bridge[entry].legs
                                   /\ ~bridge[entry].dualClosed

\* The present entry is claimed; one whose waiting legs are not woken has a builder.
EntriesClaimed ==
    /\ entry # 0 => entries[entry].bridging
    /\ \A e \in 1..madeEntries : ~entries[e].ready => \E k \in BridgeLegs : bleg[k].e = e /\ Works(k)

\* A running bridge is the one of the present entry; a released one was closed.
RunningIsPresent ==
    \A e \in BridgeEntries :
        /\ bridge[e].state \in {"up", "done"} => entry = e
        /\ bridge[e].state = "released" => bridge[e].dualClosed

\* A leg that is on a bridge is one of the legs its closing will end; there
\* is a bridge where a leg is about to be attached.
AttachedLegsKnown ==
    \A l \in BridgeLegs :
        /\ bleg[l].pc = "on" => l \in bridge[bleg[l].e].legs /\ ~bridge[bleg[l].e].dualClosed
        /\ bleg[l].pc \in {"attach", "on"} => bridge[bleg[l].e].state # "none"

BridgeInv ==
    /\ BridgeTypeOK /\ UnmadeEntriesNew /\ LegsHoldEntries /\ BuilderHoldsEntry
    /\ EntriesClaimed /\ RunningIsPresent /\ AttachedLegsKnown

\* Arrival: the leg joins, waits, or claims a new entry.
LEMMA BridgeInvArrive ==
    ASSUME BridgeInv, NEW l \in BridgeLegs, FindAndBridge(l)
    PROVE  BridgeInv'
<1> DEFINE e == IF entry = 0 THEN madeEntries + 1 ELSE entry
<1>1. bleg[l].pc = "new" /\ entry' = e /\ UNCHANGED bridge
  BY DEF FindAndBridge
<1>2. e \in BridgeEntries /\ entry' # 0 /\ entry' <= madeEntries' /\ madeEntries' \in 0..MaxEntries
      /\ madeEntries <= madeEntries'
  BY BridgeAssumption DEF BridgeInv, BridgeTypeOK, FindAndBridge, BridgeEntries
<1>3. CASE entry # 0
  <2>1. entries' = entries /\ entries[e].bridging
    <3>1. entries[e].bridging /\ ~Claimable(e)
      BY <1>3 DEF BridgeInv, EntriesClaimed, Claimable
    <3>2. entries' = [entries EXCEPT ![e] = entries[e]]
      BY <1>3, <3>1 DEF FindAndBridge
    <3> QED  BY <3>1, <3>2, <1>2 DEF BridgeInv, BridgeTypeOK
  <2>2. madeEntries' = madeEntries /\ entry' = entry
    BY <1>3, <1>1 DEF FindAndBridge
  <2>3. PICK r \in {[pc |-> "splice", e |-> e], [pc |-> "wait", e |-> e]} : bleg' = [bleg EXCEPT ![l] = r]
    BY <1>3, <2>1 DEF FindAndBridge, Claimable
  <2>4. r \in LegState /\ r.e = e /\ r.pc \in {"splice", "wait"}
    BY <1>2 DEF LegState, BridgeEntries
  <2>5. BridgeTypeOK'
    BY <2>1, <2>2, <2>3, <2>4, <1>1 DEF BridgeInv, BridgeTypeOK
  <2>6. \A k \in BridgeLegs : bleg'[k] = IF k = l THEN r ELSE bleg[k]
    BY <2>3 DEF BridgeInv, BridgeTypeOK
  <2>7. UnmadeEntriesNew' /\ RunningIsPresent'
    BY <2>1, <2>2, <1>1 DEF BridgeInv, UnmadeEntriesNew, RunningIsPresent
  <2>8. LegsHoldEntries'
    BY <2>2, <2>4, <2>6, <1>1, <1>2 DEF BridgeInv, LegsHoldEntries, BridgeEntries
  <2>9. \A k \in BridgeLegs : (Works(k)' <=> Works(k)) /\ (Works(k) => bleg'[k] = bleg[k])
    BY <2>4, <2>6, <1>1 DEF Works
  <2>10. BuilderHoldsEntry'
    BY <2>1, <2>2, <2>9, <1>1 DEF BridgeInv, BuilderHoldsEntry
  <2>11. EntriesClaimed'
    BY <2>1, <2>2, <2>9 DEF BridgeInv, EntriesClaimed
  <2>12. AttachedLegsKnown'
    BY <2>4, <2>6, <1>1 DEF BridgeInv, AttachedLegsKnown
  <2> QED  BY <2>5, <2>7, <2>8, <2>10, <2>11, <2>12 DEF BridgeInv
<1>4. CASE entry = 0
  <2>1. entries[e] = NewEntry /\ bridge[e] = NoBridge /\ e = madeEntries + 1
    BY <1>2, <1>4 DEF BridgeInv, BridgeTypeOK, UnmadeEntriesNew
  <2>2. Claimable(e)
    BY <2>1 DEF Claimable, NewEntry
  <2> DEFINE r == [pc |-> "find", e |-> e]
             n == [NewEntry EXCEPT !.bridging = TRUE]
  <2>3. bleg' = [bleg EXCEPT ![l] = r] /\ madeEntries' = e /\ entry' = e
    BY <2>2, <1>4 DEF FindAndBridge, Claimable
  <2>4. entries' = [[entries EXCEPT ![e] = NewEntry] EXCEPT ![e].bridging = TRUE]
    BY <2>2, <1>4 DEF FindAndBridge, Claimable
  <2>5. \A d \in BridgeEntries : entries'[d] = IF d = e THEN n ELSE entries[d]
    BY <2>4, <1>2, Zenon DEF BridgeInv, BridgeTypeOK
  <2>6. r \in LegState /\ r.e = e /\ r.pc = "find"
    BY <1>2 DEF LegState, BridgeEntries
  <2>7. n \in EntryState /\ n.bridging /\ ~n.bridged /\ ~n.ready
    BY Zenon DEF EntryState, NewEntry
  <2>8. entries' \in [BridgeEntries -> EntryState]
    <3>1. NewEntry \in EntryState
      BY DEF EntryState, NewEntry
    <3>2. entries' = [entries EXCEPT ![e] = n]
      BY <2>4, <1>2, <3>1, Zenon DEF BridgeInv, BridgeTypeOK
    <3> QED  BY <2>7, <3>2, Zenon DEF BridgeInv, BridgeTypeOK
  <2> HIDE DEF r, n, e
  <2>9. \A k \in BridgeLegs : bleg'[k] = IF k = l THEN r ELSE bleg[k]
    BY <2>3 DEF BridgeInv, BridgeTypeOK
  <2>10. \A k \in BridgeLegs : ~Works(k)
    BY <1>4 DEF BridgeInv, BuilderHoldsEntry, LegsHoldEntries, Works, BridgeTypeOK
  <2>11. BridgeTypeOK'
    BY <2>3, <2>6, <2>8, <1>1, <1>2 DEF BridgeInv, BridgeTypeOK
  <2>12. UnmadeEntriesNew'
    BY <2>1, <2>3, <2>5, <1>1, <1>2 DEF BridgeInv, BridgeTypeOK, UnmadeEntriesNew, BridgeEntries
  <2>13. LegsHoldEntries'
    BY <2>1, <2>3, <2>6, <2>9, <1>1, <1>2 DEF BridgeInv, BridgeTypeOK, LegsHoldEntries, BridgeEntries
  <2>14. \A k \in BridgeLegs : Works(k)' <=> k = l
    BY <2>6, <2>9, <2>10 DEF Works
  <2>15. BuilderHoldsEntry'
    BY <2>1, <2>3, <2>5, <2>6, <2>7, <2>9, <2>14, <1>1, <1>2 DEF BuilderHoldsEntry, NoBridge
  <2>16. EntriesClaimed'
    <3>1. \A d \in 1..madeEntries : entries[d].ready
      BY <2>10 DEF BridgeInv, EntriesClaimed
    <3>2. \A d \in 1..madeEntries' : d # e => entries'[d].ready
      <4> SUFFICES ASSUME NEW d \in 1..madeEntries', d # e  PROVE entries'[d].ready
        OBVIOUS
      <4>1. d \in 1..madeEntries /\ d \in BridgeEntries
        BY <2>1, <2>3, <1>2, BridgeAssumption DEF BridgeInv, BridgeTypeOK, BridgeEntries
      <4> QED  BY <4>1, <2>5, <3>1
    <3>3. bleg'[l].e = e /\ Works(l)'
      BY <2>6, <2>9, <2>14
    <3> QED  BY <2>3, <2>5, <2>7, <3>2, <3>3, <1>2, Zenon DEF EntriesClaimed
  <2>17. RunningIsPresent'
    BY <2>3, <1>1, <1>2, <1>4 DEF BridgeInv, RunningIsPresent, BridgeEntries
  <2>18. AttachedLegsKnown'
    BY <2>6, <2>9, <1>1 DEF BridgeInv, AttachedLegsKnown
  <2> QED  BY <2>11, <2>12, <2>13, <2>15, <2>16, <2>17, <2>18 DEF BridgeInv
<1> QED  BY <1>3, <1>4

\* A leg that holds an entry and is not building its bridge moves on, or ends:
\* the waiting leg and the leg that looks at the bridge's context.
LEMMA BridgeInvFollow ==
    ASSUME BridgeInv, NEW l \in BridgeLegs, WaiterWakes(l) \/ SpliceChecks(l)
    PROVE  BridgeInv'
<1>1. bleg[l].pc \in {"wait", "splice"} /\ UNCHANGED <<entry, entries, bridge, find, madeEntries>>
  BY DEF WaiterWakes, SpliceChecks
<1>2. PICK r : /\ bleg' = [bleg EXCEPT ![l] = r]
               /\ r \in LegState /\ r.pc \in {"new", "splice", "attach"}
               /\ r.pc # "new" => r.e = bleg[l].e
  <2>1. NewLeg \in LegState /\ NewLeg.pc = "new"
    BY BridgeAssumption DEF NewLeg, LegState
  <2>2. ASSUME NEW pc \in {"splice", "attach"}
        PROVE  /\ [bleg[l] EXCEPT !.pc = pc] \in LegState
               /\ [bleg[l] EXCEPT !.pc = pc].pc = pc
               /\ [bleg[l] EXCEPT !.pc = pc].e = bleg[l].e
    BY DEF BridgeInv, BridgeTypeOK, LegState
  <2>3. bleg \in [BridgeLegs -> LegState]
    BY DEF BridgeInv, BridgeTypeOK
  <2>4. CASE LegEnds(l)
    BY <2>1, <2>4, Zenon DEF LegEnds
  <2>5. CASE \E pc \in {"splice", "attach"} : LegTo(l, pc)
    <3>1. PICK pc \in {"splice", "attach"} : LegTo(l, pc)
      BY <2>5
    <3>2. bleg' = [bleg EXCEPT ![l] = [bleg[l] EXCEPT !.pc = pc]]
      BY <3>1, <2>3 DEF LegTo
    <3> QED  BY <2>2, <3>2, Zenon
  <2> QED  BY <2>4, <2>5 DEF WaiterWakes, SpliceChecks
<1>3. \A k \in BridgeLegs : bleg'[k] = IF k = l THEN r ELSE bleg[k]
  BY <1>2 DEF BridgeInv, BridgeTypeOK
<1>4. \A k \in BridgeLegs : (Works(k)' <=> Works(k)) /\ (Works(k) => bleg'[k] = bleg[k])
  BY <1>1, <1>2, <1>3 DEF Works
<1>5. BridgeTypeOK'
  BY <1>1, <1>2 DEF BridgeInv, BridgeTypeOK
<1>6. UnmadeEntriesNew' /\ RunningIsPresent'
  BY <1>1 DEF BridgeInv, UnmadeEntriesNew, RunningIsPresent
<1>7. LegsHoldEntries'
  BY <1>1, <1>2, <1>3 DEF BridgeInv, LegsHoldEntries
<1>8. BuilderHoldsEntry' /\ EntriesClaimed'
  BY <1>1, <1>4 DEF BridgeInv, BuilderHoldsEntry, EntriesClaimed
<1>9. AttachedLegsKnown'
  <2>1. r.pc = "attach" => bridge[bleg[l].e].state # "none"
    <3>1. CASE WaiterWakes(l)
      BY <3>1, <1>2, <1>3 DEF WaiterWakes, LegTo, LegEnds, NewLeg, BridgeInv, BridgeTypeOK, LegState
    <3>2. CASE SpliceChecks(l)
      BY <3>2, <1>2, <1>3 DEF SpliceChecks, LegTo, LegEnds, NewLeg, BridgeInv, BridgeTypeOK, LegState
    <3> QED  BY <3>1, <3>2
  <2> QED  BY <1>1, <1>2, <1>3, <2>1 DEF BridgeInv, AttachedLegsKnown
<1> QED  BY <1>5, <1>6, <1>7, <1>8, <1>9, Zenon DEF BridgeInv

\* The claim is withdrawn: findHostRelay finds nobody, or the dial fails.
LEMMA BridgeInvCleanup ==
    ASSUME BridgeInv, NEW l \in BridgeLegs, FindFails(l) \/ DialFailsBridge(l)
    PROVE  BridgeInv'
<1> DEFINE e == bleg[l].e
<1>1. /\ bleg[l].pc \in {"find", "dial"} /\ UNCHANGED <<bridge, madeEntries>> /\ entry' = 0
      /\ entries' = [entries EXCEPT ![e].bridging = FALSE, ![e].ready = TRUE]
      /\ bleg' = [bleg EXCEPT ![l] = NewLeg]
  BY DEF FindFails, DialFailsBridge, Cleanup, LegEnds
<1>2. e = entry /\ e \in 1..madeEntries /\ e \in BridgeEntries /\ bridge[e].state = "none" /\ Works(l)
  BY <1>1, BridgeAssumption
  DEF BridgeInv, BuilderHoldsEntry, LegsHoldEntries, Works, BridgeTypeOK, BridgeEntries
<1>3. NewLeg \in LegState /\ NewLeg.pc = "new"
  BY BridgeAssumption DEF NewLeg, LegState
<1> DEFINE n == [entries[e] EXCEPT !.bridging = FALSE, !.ready = TRUE]
<1>4. entries' = [entries EXCEPT ![e] = n] /\ n \in EntryState /\ n.ready
  <2>1. entries[e] \in EntryState
    BY <1>2 DEF BridgeInv, BridgeTypeOK
  <2>2. n \in EntryState /\ n.ready
    BY <2>1, Zenon DEF EntryState
  <2>3. entries' = [entries EXCEPT ![e] = n]
    BY <1>1, <1>2, Zenon DEF BridgeInv, BridgeTypeOK
  <2> QED  BY <2>2, <2>3
<1> HIDE DEF n, e
<1>5. \A k \in BridgeLegs : bleg'[k] = IF k = l THEN NewLeg ELSE bleg[k]
  BY <1>1 DEF BridgeInv, BridgeTypeOK
<1>6. \A d \in BridgeEntries : entries'[d] = IF d = e THEN n ELSE entries[d]
  BY <1>4 DEF BridgeInv, BridgeTypeOK
<1>7. \A k \in BridgeLegs : ~Works(k)'
  BY <1>2, <1>3, <1>5 DEF BridgeInv, BuilderHoldsEntry, Works
<1>8. BridgeTypeOK'
  <2>1. bleg' \in [BridgeLegs -> LegState]
    BY <1>1, <1>3 DEF BridgeInv, BridgeTypeOK
  <2>2. entries' \in [BridgeEntries -> EntryState]
    BY <1>4, Zenon DEF BridgeInv, BridgeTypeOK
  <2> QED  BY <1>1, <2>1, <2>2, BridgeAssumption DEF BridgeInv, BridgeTypeOK
<1>9. UnmadeEntriesNew'
  BY <1>1, <1>2, <1>6 DEF BridgeInv, BridgeTypeOK, UnmadeEntriesNew
<1>10. LegsHoldEntries'
  BY <1>1, <1>3, <1>5 DEF BridgeInv, LegsHoldEntries
<1>11. BuilderHoldsEntry'
  BY <1>7 DEF BuilderHoldsEntry
<1>12. EntriesClaimed'
  <2>1. \A d \in 1..madeEntries : d # e => entries[d].ready
    BY <1>2 DEF BridgeInv, EntriesClaimed, BuilderHoldsEntry
  <2>2. 1..madeEntries \subseteq BridgeEntries
    BY BridgeAssumption DEF BridgeInv, BridgeTypeOK, BridgeEntries
  <2> QED  BY <1>1, <1>4, <1>6, <2>1, <2>2, Zenon DEF EntriesClaimed
<1>13. RunningIsPresent'
  BY <1>1, <1>2 DEF BridgeInv, RunningIsPresent
<1>14. AttachedLegsKnown'
  BY <1>1, <1>3, <1>5 DEF BridgeInv, AttachedLegsKnown
<1> QED  BY <1>8, <1>9, <1>10, <1>11, <1>12, <1>13, <1>14, Zenon DEF BridgeInv

\* Steps of the search that leave the tables alone: only `find` changes.
LEMMA BridgeInvSearch ==
    ASSUME BridgeInv, UNCHANGED <<bleg, entry, entries, bridge, madeEntries>>
    PROVE  BridgeInv'
<1>1. BridgeTypeOK' /\ UnmadeEntriesNew' /\ LegsHoldEntries'
  BY DEF BridgeInv, BridgeTypeOK, UnmadeEntriesNew, LegsHoldEntries
<1>2. BuilderHoldsEntry' /\ EntriesClaimed' /\ RunningIsPresent' /\ AttachedLegsKnown'
  BY DEF BridgeInv, BuilderHoldsEntry, EntriesClaimed, RunningIsPresent, AttachedLegsKnown, Works
<1> QED  BY <1>1, <1>2 DEF BridgeInv

\* The builder knows the host relay: a route, or the answer of a peer.
LEMMA BridgeInvHostFound ==
    ASSUME BridgeInv, NEW l \in BridgeLegs, bleg[l].pc = "find", LegTo(l, "dial"),
           UNCHANGED <<entry, entries, bridge, madeEntries>>
    PROVE  BridgeInv'
<1> DEFINE r == [bleg[l] EXCEPT !.pc = "dial"]
<1>1. bleg' = [bleg EXCEPT ![l] = r] /\ r \in LegState /\ r.pc = "dial" /\ r.e = bleg[l].e
  BY DEF LegTo, BridgeInv, BridgeTypeOK, LegState
<1> HIDE DEF r
<1>2. \A k \in BridgeLegs : bleg'[k] = IF k = l THEN r ELSE bleg[k]
  BY <1>1 DEF BridgeInv, BridgeTypeOK
<1>3. \A k \in BridgeLegs : (Works(k)' <=> Works(k)) /\ bleg'[k].e = bleg[k].e
  BY <1>1, <1>2 DEF Works
<1>4. BridgeTypeOK'
  BY <1>1 DEF BridgeInv, BridgeTypeOK
<1>5. UnmadeEntriesNew' /\ RunningIsPresent'
  BY DEF BridgeInv, UnmadeEntriesNew, RunningIsPresent
<1>6. LegsHoldEntries' /\ AttachedLegsKnown'
  BY <1>1, <1>2, Zenon DEF BridgeInv, LegsHoldEntries, AttachedLegsKnown
<1>7. BuilderHoldsEntry'
  BY <1>1, <1>2, <1>3 DEF BridgeInv, BuilderHoldsEntry, Works
<1>8. EntriesClaimed'
  BY <1>3 DEF BridgeInv, EntriesClaimed
<1> QED  BY <1>4, <1>5, <1>6, <1>7, <1>8 DEF BridgeInv

\* The dial succeeds: the bridge of the present entry runs.
LEMMA BridgeInvStart ==
    ASSUME BridgeInv, NEW l \in BridgeLegs, DialStarts(l)
    PROVE  BridgeInv'
<1> DEFINE r == [bleg[l] EXCEPT !.pc = "built"]
           b == [NoBridge EXCEPT !.state = "up", !.legs = {l}]
<1>1. bleg[l].pc = "dial" /\ UNCHANGED <<entry, entries, madeEntries>>
  BY DEF DialStarts
<1>2. bleg[l].e = entry /\ entry \in 1..madeEntries /\ entry \in BridgeEntries /\ Works(l)
      /\ bridge[entry].state = "none"
  BY <1>1, BridgeAssumption
  DEF BridgeInv, BuilderHoldsEntry, LegsHoldEntries, Works, BridgeTypeOK, BridgeEntries
<1>3. bleg' = [bleg EXCEPT ![l] = r] /\ r \in LegState /\ r.pc = "built" /\ r.e = entry
  BY <1>2 DEF DialStarts, LegTo, BridgeInv, BridgeTypeOK, LegState
<1>4. /\ bridge' = [bridge EXCEPT ![entry] = b]
      /\ b \in BridgeState /\ b.state = "up" /\ b.legs = {l} /\ ~b.dualClosed
  BY <1>2, Zenon DEF DialStarts, NoBridge, BridgeState
<1> HIDE DEF r, b
<1>5. \A k \in BridgeLegs : bleg'[k] = IF k = l THEN r ELSE bleg[k]
  BY <1>3 DEF BridgeInv, BridgeTypeOK
<1>6. \A d \in BridgeEntries : bridge'[d] = IF d = entry THEN b ELSE bridge[d]
  BY <1>4 DEF BridgeInv, BridgeTypeOK
<1>7. \A k \in BridgeLegs : (Works(k)' <=> k = l) /\ bleg'[k].e = bleg[k].e
  BY <1>2, <1>3, <1>5 DEF BridgeInv, BuilderHoldsEntry, Works
<1>8. BridgeTypeOK'
  BY <1>1, <1>3, <1>4, Zenon DEF BridgeInv, BridgeTypeOK
<1>9. UnmadeEntriesNew'
  BY <1>1, <1>2, <1>6 DEF BridgeInv, BridgeTypeOK, UnmadeEntriesNew
<1>10. LegsHoldEntries'
  BY <1>1, <1>2, <1>3, <1>5, Zenon DEF BridgeInv, LegsHoldEntries
<1>11. BuilderHoldsEntry'
  BY <1>1, <1>2, <1>3, <1>4, <1>5, <1>6, <1>7, Zenon DEF BridgeInv, BuilderHoldsEntry
<1>12. EntriesClaimed'
  <2>1. \A k \in BridgeLegs : Works(k) <=> k = l
    BY <1>2 DEF BridgeInv, BuilderHoldsEntry
  <2> QED  BY <1>1, <1>7, <2>1 DEF BridgeInv, EntriesClaimed
<1>13. RunningIsPresent'
  BY <1>1, <1>4, <1>6, Zenon DEF BridgeInv, RunningIsPresent
<1>14. AttachedLegsKnown'
  <2> SUFFICES ASSUME NEW k \in BridgeLegs, bleg'[k].pc \in {"attach", "on"}
               PROVE  /\ bleg'[k].pc = "on" => k \in bridge'[bleg'[k].e].legs /\ ~bridge'[bleg'[k].e].dualClosed
                      /\ bridge'[bleg'[k].e].state # "none"
    BY DEF AttachedLegsKnown
  <2>1. k # l /\ bleg'[k] = bleg[k]
    BY <1>3, <1>5
  <2>2. bleg[k].e \in BridgeEntries
    BY <2>1, BridgeAssumption DEF BridgeInv, LegsHoldEntries, BridgeTypeOK, BridgeEntries
  <2>3. bleg[k].e # entry
    BY <2>1, <1>2, Zenon DEF BridgeInv, AttachedLegsKnown
  <2> QED  BY <2>1, <2>2, <2>3, <1>6, Zenon DEF BridgeInv, AttachedLegsKnown
<1> QED  BY <1>8, <1>9, <1>10, <1>11, <1>12, <1>13, <1>14 DEF BridgeInv

\* doBridge publishes the bridge.
LEMMA BridgeInvPublish ==
    ASSUME BridgeInv, NEW l \in BridgeLegs, Bridged(l)
    PROVE  BridgeInv'
<1> DEFINE r == [bleg[l] EXCEPT !.pc = "on"]
           n == [entries[entry] EXCEPT !.bridged = TRUE, !.ready = TRUE]
<1>1. bleg[l].pc = "built" /\ UNCHANGED <<entry, bridge, madeEntries>>
  BY DEF Bridged
<1>2. bleg[l].e = entry /\ entry \in 1..madeEntries /\ entry \in BridgeEntries /\ Works(l)
  BY <1>1, BridgeAssumption
  DEF BridgeInv, BuilderHoldsEntry, LegsHoldEntries, Works, BridgeTypeOK, BridgeEntries
<1>3. bleg' = [bleg EXCEPT ![l] = r] /\ r \in LegState /\ r.pc = "on" /\ r.e = entry
  BY <1>2 DEF Bridged, LegTo, BridgeInv, BridgeTypeOK, LegState
<1>4. entries' = [entries EXCEPT ![entry] = n] /\ n \in EntryState /\ n.ready /\ n.bridging
  <2>1. entries[entry] \in EntryState /\ entries[entry].bridging
    BY <1>2 DEF BridgeInv, BridgeTypeOK, EntriesClaimed
  <2>2. n \in EntryState /\ n.ready /\ n.bridging
    BY <2>1, Zenon DEF EntryState
  <2>3. entries' = [entries EXCEPT ![entry] = n]
    BY <1>2 DEF Bridged
  <2> QED  BY <2>2, <2>3
<1> HIDE DEF r, n
<1>5. \A k \in BridgeLegs : bleg'[k] = IF k = l THEN r ELSE bleg[k]
  BY <1>3 DEF BridgeInv, BridgeTypeOK
<1>6. \A d \in BridgeEntries : entries'[d] = IF d = entry THEN n ELSE entries[d]
  BY <1>4 DEF BridgeInv, BridgeTypeOK
<1>7. \A k \in BridgeLegs : ~Works(k)' /\ (Works(k) <=> k = l)
  BY <1>2, <1>3, <1>5 DEF BridgeInv, BuilderHoldsEntry, Works
<1>8. BridgeTypeOK'
  BY <1>1, <1>3, <1>4, Zenon DEF BridgeInv, BridgeTypeOK
<1>9. UnmadeEntriesNew'
  BY <1>1, <1>2, <1>6 DEF BridgeInv, BridgeTypeOK, UnmadeEntriesNew
<1>10. LegsHoldEntries'
  BY <1>1, <1>2, <1>3, <1>5 DEF BridgeInv, LegsHoldEntries
<1>11. BuilderHoldsEntry'
  BY <1>7 DEF BuilderHoldsEntry
<1>12. EntriesClaimed'
  <2>1. \A d \in 1..madeEntries : d # entry => entries[d].ready
    BY <1>2, <1>7 DEF BridgeInv, EntriesClaimed
  <2>2. 1..madeEntries \subseteq BridgeEntries
    BY BridgeAssumption DEF BridgeInv, BridgeTypeOK, BridgeEntries
  <2> QED  BY <1>1, <1>2, <1>4, <1>6, <2>1, <2>2, Zenon DEF EntriesClaimed
<1>13. RunningIsPresent'
  BY <1>1 DEF BridgeInv, RunningIsPresent
<1>14. AttachedLegsKnown'
  <2>1. bridge[entry].state # "none" /\ l \in bridge[entry].legs /\ ~bridge[entry].dualClosed
    BY <1>1, <1>2 DEF BridgeInv, BuilderHoldsEntry
  <2> QED  BY <1>1, <1>3, <1>5, <2>1, Zenon DEF BridgeInv, AttachedLegsKnown
<1> QED  BY <1>8, <1>9, <1>10, <1>11, <1>12, <1>13, <1>14 DEF BridgeInv

\* A leg is attached to the local stream of the bridge, or refused by a closed one.
LEMMA BridgeInvAttach ==
    ASSUME BridgeInv, NEW l \in BridgeLegs, SpliceAttaches(l)
    PROVE  BridgeInv'
<1> DEFINE e == bleg[l].e
           b == [bridge[e] EXCEPT !.legs = bridge[e].legs \cup {l}]
           r == [bleg[l] EXCEPT !.pc = "on"]
<1>1. bleg[l].pc = "attach" /\ UNCHANGED <<entry, entries, madeEntries>>
  BY DEF SpliceAttaches
<1>2. e \in 1..madeEntries /\ e \in BridgeEntries /\ bridge[e].state # "none"
  BY <1>1, BridgeAssumption DEF BridgeInv, LegsHoldEntries, BridgeTypeOK, BridgeEntries, AttachedLegsKnown
<1>3. NewLeg \in LegState /\ NewLeg.pc = "new"
  BY BridgeAssumption DEF NewLeg, LegState
<1>4. r \in LegState /\ r.pc = "on" /\ r.e = e
  BY DEF BridgeInv, BridgeTypeOK, LegState
<1>5. /\ b \in BridgeState /\ b.state = bridge[e].state /\ b.legs = bridge[e].legs \cup {l}
      /\ b.dualClosed = bridge[e].dualClosed
  BY <1>2, Zenon DEF BridgeInv, BridgeTypeOK, BridgeState
<1>6. CASE Attachable(e)
  <2>1. bleg' = [bleg EXCEPT ![l] = r] /\ bridge' = [bridge EXCEPT ![e] = b]
    BY <1>6, <1>2 DEF SpliceAttaches, LegTo, BridgeInv, BridgeTypeOK
  <2> HIDE DEF r, b, e
  <2>2. \A k \in BridgeLegs : bleg'[k] = IF k = l THEN r ELSE bleg[k]
    BY <2>1 DEF BridgeInv, BridgeTypeOK
  <2>3. \A d \in BridgeEntries : bridge'[d] = IF d = e THEN b ELSE bridge[d]
    BY <2>1 DEF BridgeInv, BridgeTypeOK
  <2>4. \A k \in BridgeLegs : (Works(k)' <=> Works(k)) /\ (Works(k) => bleg'[k] = bleg[k])
    BY <2>2, <1>1, <1>4 DEF Works
  <2>5. BridgeTypeOK'
    BY <2>1, <1>1, <1>4, <1>5, Zenon DEF BridgeInv, BridgeTypeOK
  <2>6. UnmadeEntriesNew'
    <3>1. \A d \in BridgeEntries : d > madeEntries => d # e
      BY <1>2 DEF BridgeInv, BridgeTypeOK, BridgeEntries
    <3> QED  BY <2>3, <3>1, <1>1 DEF BridgeInv, UnmadeEntriesNew
  <2>7. LegsHoldEntries'
    BY <2>2, <1>1, <1>2, <1>4, Zenon DEF BridgeInv, LegsHoldEntries
  <2>8. BuilderHoldsEntry'
    <3>1. \A k \in BridgeLegs : Works(k) => entry \in BridgeEntries
      BY BridgeAssumption DEF BridgeInv, BuilderHoldsEntry, LegsHoldEntries, Works, BridgeTypeOK, BridgeEntries
    <3> QED  BY <2>3, <2>4, <3>1, <1>1, <1>5, ZenonT(30) DEF BridgeInv, BuilderHoldsEntry
  <2>9. EntriesClaimed'
    BY <2>4, <1>1 DEF BridgeInv, EntriesClaimed
  <2>10. RunningIsPresent'
    BY <2>3, <1>1, <1>5, Zenon DEF BridgeInv, RunningIsPresent
  <2>11. AttachedLegsKnown'
    <3> SUFFICES ASSUME NEW k \in BridgeLegs, bleg'[k].pc \in {"attach", "on"}
                 PROVE  /\ bleg'[k].pc = "on" => k \in bridge'[bleg'[k].e].legs /\ ~bridge'[bleg'[k].e].dualClosed
                        /\ bridge'[bleg'[k].e].state # "none"
      BY DEF AttachedLegsKnown
    <3>1. CASE k = l
      BY <3>1, <2>2, <2>3, <1>2, <1>4, <1>5, <1>6, ZenonT(30) DEF Attachable
    <3>2. CASE k # l
      <4>1. bleg'[k] = bleg[k] /\ bleg[k].e \in BridgeEntries
        BY <3>2, <2>2, BridgeAssumption DEF BridgeInv, LegsHoldEntries, BridgeTypeOK, BridgeEntries
      <4> QED  BY <4>1, <2>3, <1>5 DEF BridgeInv, AttachedLegsKnown
    <3> QED  BY <3>1, <3>2
  <2> QED  BY <2>5, <2>6, <2>7, <2>8, <2>9, <2>10, <2>11 DEF BridgeInv
<1>7. CASE ~Attachable(e)
  <2>1. bleg' = [bleg EXCEPT ![l] = NewLeg] /\ bridge' = bridge
    BY <1>7 DEF SpliceAttaches, LegEnds
  <2>2. \A k \in BridgeLegs : bleg'[k] = IF k = l THEN NewLeg ELSE bleg[k]
    BY <2>1 DEF BridgeInv, BridgeTypeOK
  <2>3. \A k \in BridgeLegs : (Works(k)' <=> Works(k)) /\ (Works(k) => bleg'[k] = bleg[k])
    BY <2>2, <1>1, <1>3 DEF Works
  <2>4. BridgeTypeOK'
    BY <2>1, <1>1, <1>3, Zenon DEF BridgeInv, BridgeTypeOK
  <2>5. UnmadeEntriesNew' /\ RunningIsPresent'
    BY <2>1, <1>1, Zenon DEF BridgeInv, UnmadeEntriesNew, RunningIsPresent
  <2>6. LegsHoldEntries' /\ AttachedLegsKnown'
    BY <2>1, <2>2, <1>1, <1>3, Zenon DEF BridgeInv, LegsHoldEntries, AttachedLegsKnown
  <2>7. BuilderHoldsEntry' /\ EntriesClaimed'
    BY <2>1, <2>3, <1>1 DEF BridgeInv, BuilderHoldsEntry, EntriesClaimed
  <2> QED  BY <2>4, <2>5, <2>6, <2>7 DEF BridgeInv
<1> QED  BY <1>6, <1>7

\* A pump of the running bridge ends.
LEMMA BridgeInvPumpEnds ==
    ASSUME BridgeInv, NEW e \in BridgeEntries, BridgePumpEnds(e)
    PROVE  BridgeInv'
<1> DEFINE b == [bridge[e] EXCEPT !.state = "done"]
<1>1. bridge[e].state = "up" /\ UNCHANGED <<bleg, entry, entries, madeEntries>>
  BY DEF BridgePumpEnds
<1>2. /\ b \in BridgeState /\ b.state = "done" /\ b.legs = bridge[e].legs
      /\ b.dualClosed = bridge[e].dualClosed
  BY Zenon DEF BridgeInv, BridgeTypeOK, BridgeState
<1>3. bridge' = [bridge EXCEPT ![e] = b]
  BY DEF BridgePumpEnds, BridgeInv, BridgeTypeOK
<1> HIDE DEF b
<1>4. \A d \in BridgeEntries : bridge'[d] = IF d = e THEN b ELSE bridge[d]
  BY <1>3 DEF BridgeInv, BridgeTypeOK
<1>5. BridgeTypeOK'
  BY <1>1, <1>2, <1>3, Zenon DEF BridgeInv, BridgeTypeOK
<1>6. UnmadeEntriesNew'
  BY <1>1, <1>4 DEF BridgeInv, UnmadeEntriesNew, NoBridge
<1>7. LegsHoldEntries' /\ EntriesClaimed'
  BY <1>1, Zenon DEF BridgeInv, LegsHoldEntries, EntriesClaimed, Works
<1>8. BuilderHoldsEntry'
  <2>1. \A k \in BridgeLegs : (Works(k)' <=> Works(k)) /\ (Works(k) => entry \in BridgeEntries)
    BY <1>1, BridgeAssumption
    DEF BridgeInv, BuilderHoldsEntry, LegsHoldEntries, Works, BridgeTypeOK, BridgeEntries
  <2> QED  BY <1>1, <1>2, <1>4, <2>1, Zenon DEF BridgeInv, BuilderHoldsEntry
<1>9. RunningIsPresent'
  BY <1>1, <1>2, <1>4, Zenon DEF BridgeInv, RunningIsPresent
<1>10. AttachedLegsKnown'
  <2>1. \A k \in BridgeLegs : bleg[k].pc \in {"attach", "on"} => bleg[k].e \in BridgeEntries
    BY BridgeAssumption DEF BridgeInv, LegsHoldEntries, BridgeTypeOK, BridgeEntries
  <2> QED  BY <1>1, <1>2, <1>4, <2>1 DEF BridgeInv, AttachedLegsKnown
<1> QED  BY <1>5, <1>6, <1>7, <1>8, <1>9, <1>10, Zenon DEF BridgeInv

\* The bridge that ended closes its local stream, and with it its legs.
LEMMA BridgeInvCloses ==
    ASSUME BridgeInv, NEW e \in BridgeEntries, BridgeCloses(e)
    PROVE  BridgeInv'
<1> DEFINE b == [bridge[e] EXCEPT !.dualClosed = TRUE, !.legs = {}]
<1>1. /\ bridge[e].state = "done" /\ entries[e].bridged
      /\ UNCHANGED <<entry, entries, madeEntries>>
  BY DEF BridgeCloses
<1>2. b \in BridgeState /\ b.state = "done" /\ b.dualClosed
  BY <1>1, Zenon DEF BridgeInv, BridgeTypeOK, BridgeState
<1>3. bridge' = [bridge EXCEPT ![e] = b]
  BY Zenon DEF BridgeCloses, BridgeInv, BridgeTypeOK
<1> HIDE DEF b
<1>4. \A d \in BridgeEntries : bridge'[d] = IF d = e THEN b ELSE bridge[d]
  BY <1>3 DEF BridgeInv, BridgeTypeOK
<1>5. /\ bleg' = [k \in BridgeLegs |-> IF k \in bridge[e].legs /\ bleg[k].pc = "on" THEN NewLeg ELSE bleg[k]]
      /\ NewLeg \in LegState /\ NewLeg.pc = "new"
  BY BridgeAssumption DEF BridgeCloses, NewLeg, LegState
<1>6. \A k \in BridgeLegs : (Works(k)' <=> Works(k)) /\ (bleg'[k].pc # "new" => bleg'[k] = bleg[k])
  BY <1>5 DEF Works
<1>7. BridgeTypeOK'
  <2>1. bleg' \in [BridgeLegs -> LegState]
    BY <1>5, Zenon DEF BridgeInv, BridgeTypeOK
  <2> QED  BY <1>1, <1>2, <1>3, <2>1, Zenon DEF BridgeInv, BridgeTypeOK
<1>8. UnmadeEntriesNew'
  BY <1>1, <1>4 DEF BridgeInv, UnmadeEntriesNew, NoBridge
<1>9. LegsHoldEntries'
  BY <1>1, <1>6 DEF BridgeInv, LegsHoldEntries
<1>10. EntriesClaimed'
  BY <1>1, <1>6 DEF BridgeInv, EntriesClaimed, Works
<1>11. BuilderHoldsEntry'
  <2>1. \A k \in BridgeLegs : Works(k) => entry \in BridgeEntries /\ entry # e /\ bleg'[k] = bleg[k]
    BY <1>1, <1>6, BridgeAssumption
    DEF BridgeInv, BuilderHoldsEntry, LegsHoldEntries, Works, BridgeTypeOK, BridgeEntries
  <2> QED  BY <1>1, <1>4, <1>6, <2>1 DEF BridgeInv, BuilderHoldsEntry
<1>12. RunningIsPresent'
  BY <1>1, <1>2, <1>4, Zenon DEF BridgeInv, RunningIsPresent
<1>13. AttachedLegsKnown'
  <2> SUFFICES ASSUME NEW k \in BridgeLegs, bleg'[k].pc \in {"attach", "on"}
               PROVE  /\ bleg'[k].pc = "on" => k \in bridge'[bleg'[k].e].legs /\ ~bridge'[bleg'[k].e].dualClosed
                      /\ bridge'[bleg'[k].e].state # "none"
    BY DEF AttachedLegsKnown
  <2>1. bleg'[k] = bleg[k]
    BY <1>6
  <2>2. bleg[k].e \in BridgeEntries
    BY <2>1, BridgeAssumption DEF BridgeInv, LegsHoldEntries, BridgeTypeOK, BridgeEntries
  <2>3. bleg[k].pc = "on" => bleg[k].e # e
    BY <1>5, <2>1 DEF BridgeInv, AttachedLegsKnown
  <2> QED  BY <2>1, <2>2, <2>3, <1>2, <1>4, Zenon DEF BridgeInv, AttachedLegsKnown
<1> QED  BY <1>7, <1>8, <1>9, <1>10, <1>11, <1>12, <1>13, Zenon DEF BridgeInv

\* The releaser removes the entry of the closed bridge.
LEMMA BridgeInvReleased ==
    ASSUME BridgeInv, NEW e \in BridgeEntries, BridgeReleased(e)
    PROVE  BridgeInv'
<1> DEFINE b == [bridge[e] EXCEPT !.state = "released"]
<1>1. /\ bridge[e].state = "done" /\ bridge[e].dualClosed
      /\ UNCHANGED <<bleg, entries, madeEntries>>
  BY DEF BridgeReleased
<1>2. entry = e /\ entry' = 0
  BY <1>1 DEF BridgeInv, RunningIsPresent, BridgeReleased
<1>3. b \in BridgeState /\ b.state = "released" /\ b.dualClosed /\ b.legs = bridge[e].legs
  BY <1>1 DEF BridgeInv, BridgeTypeOK, BridgeState
<1>4. bridge' = [bridge EXCEPT ![e] = b]
  BY Zenon DEF BridgeReleased, BridgeInv, BridgeTypeOK
<1> HIDE DEF b
<1>5. \A d \in BridgeEntries : bridge'[d] = IF d = e THEN b ELSE bridge[d]
  BY <1>4 DEF BridgeInv, BridgeTypeOK
<1>6. \A k \in BridgeLegs : ~Works(k) /\ (Works(k)' <=> Works(k))
  BY <1>1, <1>2 DEF BridgeInv, BuilderHoldsEntry, Works
<1>7. BridgeTypeOK'
  BY <1>1, <1>2, <1>3, <1>4, BridgeAssumption DEF BridgeInv, BridgeTypeOK
<1>8. UnmadeEntriesNew'
  BY <1>1, <1>5 DEF BridgeInv, UnmadeEntriesNew, NoBridge
<1>9. LegsHoldEntries' /\ BuilderHoldsEntry'
  BY <1>1, <1>6, Zenon DEF BridgeInv, LegsHoldEntries, BuilderHoldsEntry
<1>10. EntriesClaimed'
  BY <1>1, <1>2, <1>6, Zenon DEF BridgeInv, EntriesClaimed
<1>11. RunningIsPresent'
  BY <1>2, <1>3, <1>5, Zenon DEF BridgeInv, RunningIsPresent
<1>12. AttachedLegsKnown'
  <2>1. \A k \in BridgeLegs : bleg[k].pc \in {"attach", "on"} => bleg[k].e \in BridgeEntries
    BY BridgeAssumption DEF BridgeInv, LegsHoldEntries, BridgeTypeOK, BridgeEntries
  <2> QED  BY <1>1, <1>3, <1>5, <2>1 DEF BridgeInv, AttachedLegsKnown
<1> QED  BY <1>7, <1>8, <1>9, <1>10, <1>11, <1>12 DEF BridgeInv

\* What the invariant says of the property the runs check.
LEMMA BridgeInvImplies ==
    ASSUME BridgeInv
    PROVE  LegsShareBridge
<1>1. OneBridge
  <2> DEFINE run == {e \in BridgeEntries : bridge[e].state \in {"up", "done"}
                         \/ \E l \in BridgeLegs : bleg[l].e = e /\ bleg[l].pc \in {"find", "dial"}}
             at(e) == {l \in BridgeLegs : bleg[l].e = e /\ bleg[l].pc \in {"find", "dial", "built"}}
  <2>1. Cardinality(run) <= 1
    <3>1. run \subseteq {entry}
      BY DEF BridgeInv, RunningIsPresent, BuilderHoldsEntry, Works
    <3>2. IsFiniteSet({entry}) /\ Cardinality({entry}) = 1
      BY FS_Singleton
    <3> HIDE DEF run
    <3>3. Cardinality(run) <= Cardinality({entry})
      BY <3>1, <3>2, FS_Subset
    <3> QED  BY <3>2, <3>3, Zenon
  <2>2. ASSUME NEW e \in BridgeEntries
        PROVE  Cardinality(at(e)) <= 1
    <3>1. CASE at(e) = {}
      BY <3>1, FS_EmptySet
    <3>2. CASE at(e) # {}
      <4>1. PICK l \in BridgeLegs : l \in at(e)
        BY <3>2, Zenon
      <4>2. at(e) = {l}
        BY <4>1 DEF BridgeInv, BuilderHoldsEntry, Works
      <4> HIDE DEF at
      <4>3. Cardinality(at(e)) = 1
        BY <4>2, FS_Singleton, Zenon
      <4> QED  BY <4>3
    <3> QED  BY <3>1, <3>2
  <2> QED  BY <2>1, <2>2 DEF OneBridge
<1>2. NoWaiterStuck
  BY DEF NoWaiterStuck, BridgeInv, EntriesClaimed, LegsHoldEntries, Works
<1>3. NoLegOnReleasedBridge
  <2>1. \A l \in BridgeLegs : bleg[l].pc = "on" => bleg[l].e \in BridgeEntries
    BY BridgeAssumption DEF BridgeInv, LegsHoldEntries, BridgeTypeOK, BridgeEntries
  <2> QED  BY <2>1 DEF NoLegOnReleasedBridge, BridgeInv, AttachedLegsKnown, RunningIsPresent
<1> QED  BY <1>1, <1>2, <1>3, Zenon DEF LegsShareBridge

\* The legs of a connection that reach a relay together or one after the other
\* share one bridge: at most one is built or runs, by at most one leg
\* (findAndBridge's claim under the node's lock), a leg that waits has a leg at
\* work for it (doBridge's cleanup and kcpReady), and none stays on a bridge
\* that was released (releaseLocalBridgeWhenDone, attachStreamCoexist) - for
\* any number of legs, control links and entries.
THEOREM LegsOfConnectionShareBridge == BridgeSpec => []LegsShareBridge
<1>1. BridgeInit => BridgeInv
  <2> SUFFICES ASSUME BridgeInit PROVE BridgeInv
    OBVIOUS
  <2>1. NewLeg \in LegState /\ NewLeg.pc = "new" /\ NewEntry \in EntryState
        /\ NoBridge \in BridgeState /\ NoBridge.state = "none"
    BY BridgeAssumption DEF NewLeg, LegState, NewEntry, EntryState, NoBridge, BridgeState
  <2>2. BridgeTypeOK
    BY <2>1, BridgeAssumption DEF BridgeInit, BridgeTypeOK
  <2>3. UnmadeEntriesNew /\ RunningIsPresent
    BY <2>1, Zenon DEF BridgeInit, UnmadeEntriesNew, RunningIsPresent
  <2>4. LegsHoldEntries /\ BuilderHoldsEntry /\ AttachedLegsKnown
    BY <2>1 DEF BridgeInit, LegsHoldEntries, BuilderHoldsEntry, AttachedLegsKnown, Works
  <2>5. EntriesClaimed
    BY DEF BridgeInit, EntriesClaimed
  <2> QED  BY <2>2, <2>3, <2>4, <2>5 DEF BridgeInv
<1>2. BridgeInv /\ [BridgeNext]_bridgeVars => BridgeInv'
  <2> SUFFICES ASSUME BridgeInv, [BridgeNext]_bridgeVars PROVE BridgeInv'
    OBVIOUS
  <2>1. ASSUME NEW l \in BridgeLegs, FindAndBridge(l) PROVE BridgeInv'
    BY <2>1, BridgeInvArrive
  <2>2. ASSUME NEW l \in BridgeLegs, WaiterWakes(l) \/ SpliceChecks(l) PROVE BridgeInv'
    BY <2>2, BridgeInvFollow, Zenon
  <2>3. ASSUME NEW l \in BridgeLegs, RouteKnown(l) PROVE BridgeInv'
    BY <2>3, BridgeInvHostFound DEF RouteKnown
  <2>4. ASSUME NEW l \in BridgeLegs, FindStarts(l) PROVE BridgeInv'
    BY <2>4, BridgeInvSearch, Zenon DEF FindStarts
  <2>5. ASSUME NEW l \in BridgeLegs, FindFails(l) \/ DialFailsBridge(l) PROVE BridgeInv'
    BY <2>5, BridgeInvCleanup
  <2>6. ASSUME NEW l \in BridgeLegs, DialStarts(l) PROVE BridgeInv'
    BY <2>6, BridgeInvStart
  <2>7. ASSUME NEW l \in BridgeLegs, Bridged(l) PROVE BridgeInv'
    BY <2>7, BridgeInvPublish
  <2>8. ASSUME NEW l \in BridgeLegs, SpliceAttaches(l) PROVE BridgeInv'
    BY <2>8, BridgeInvAttach
  <2>9. ASSUME NEW l \in BridgeLegs, NEW k \in CtlLinks, FindSendFails(l, k) PROVE BridgeInv'
    BY <2>9, BridgeInvSearch DEF FindSendFails
  <2>10. ASSUME NEW l \in BridgeLegs, NEW a, FindAnswered(l, a) PROVE BridgeInv'
    BY <2>10, BridgeInvSearch, BridgeInvHostFound DEF FindAnswered
  <2>11. ASSUME NEW e \in BridgeEntries, BridgePumpEnds(e) PROVE BridgeInv'
    BY <2>11, BridgeInvPumpEnds
  <2>12. ASSUME NEW e \in BridgeEntries, BridgeCloses(e) PROVE BridgeInv'
    BY <2>12, BridgeInvCloses
  <2>13. ASSUME NEW e \in BridgeEntries, BridgeReleased(e) PROVE BridgeInv'
    BY <2>13, BridgeInvReleased
  <2>14. ASSUME NEW e \in BridgeEntries, NEW k, NEW hosts, PeerAnswers(e, k, hosts) PROVE BridgeInv'
    BY <2>14, BridgeInvSearch DEF PeerAnswers
  <2>15. ASSUME UNCHANGED bridgeVars PROVE BridgeInv'
    BY <2>15, BridgeInvSearch DEF bridgeVars
  <2> QED  BY <2>1, <2>2, <2>3, <2>4, <2>5, <2>6, <2>7, <2>8, <2>9, <2>10, <2>11, <2>12, <2>13, <2>14, <2>15, Zenon
           DEF BridgeNext
<1>3. BridgeInv => LegsShareBridge
  BY BridgeInvImplies, Zenon
<1> QED  BY <1>1, <1>2, <1>3, PTL DEF BridgeSpec

-----------------------------------------------------------------------------
(* The ring of the replay window answers as the set of the record numbers it *)
(* has observed would, for every size of the window.                         *)

Records == Nat \ {0}

(* The window holds exactly the numbers of S that are not too old. *)
Represents(window, S) ==
    /\ window \in [highest : Nat, seen : [Slots -> BOOLEAN]]
    /\ S \subseteq Records
    /\ \A n \in S : n <= window.highest
    /\ \A n \in Records :
          n <= window.highest /\ window.highest - n < WindowSize
          => (window.seen[replayWindowSlot(n)] <=> n \in S)

(* replayWindowSlot is an index of the ring. *)
LEMMA SlotType == \A n \in Nat : replayWindowSlot(n) \in Slots
  BY WindowAssumption DEF replayWindowSlot, Slots

(* Division with remainder, for the slot of a number. *)
LEMMA SlotDivision ==
    ASSUME NEW n \in Nat
    PROVE  \E q \in Int : n = q * WindowSize + replayWindowSlot(n)
<1>1. n = (n \div WindowSize) * WindowSize + (n % WindowSize) /\ n \div WindowSize \in Int
  BY WindowAssumption
<1> QED
  BY <1>1 DEF replayWindowSlot

(* Two numbers less than a window apart never share a slot. *)
LEMMA SlotsDiffer ==
    ASSUME NEW a \in Nat, NEW b \in Nat, a < b, b - a < WindowSize
    PROVE  replayWindowSlot(a) # replayWindowSlot(b)
<1>1. PICK qa \in Int : a = qa * WindowSize + replayWindowSlot(a)
  BY SlotDivision
<1>2. PICK qb \in Int : b = qb * WindowSize + replayWindowSlot(b)
  BY SlotDivision
<1> DEFINE d == qb - qa
<1>3. SUFFICES ASSUME replayWindowSlot(a) = replayWindowSlot(b) PROVE FALSE
  OBVIOUS
<1>4. b - a = d * WindowSize
  BY <1>1, <1>2, <1>3, SlotType, WindowAssumption DEF Slots
<1>5. d \in Int /\ WindowSize \in Nat \ {0}
  BY <1>1, <1>2, WindowAssumption
<1> HIDE DEF d
<1>6. CASE d <= 0
  <2>1. d * WindowSize <= 0
    BY <1>5, <1>6
  <2> QED  BY <2>1, <1>4
<1>7. CASE d >= 1
  <2>1. d * WindowSize >= WindowSize
    BY <1>5, <1>7
  <2> QED  BY <2>1, <1>4, <1>5
<1> QED
  BY <1>5, <1>6, <1>7

(* The zero value of e2eReplayWindow, with which a stream starts, has        *)
(* observed nothing.                                                         *)
THEOREM EmptyRepresents == Represents(EmptyWindow, {})
  BY WindowAssumption DEF EmptyWindow, Represents, Records

(* observe reports a record as a duplicate exactly when it has been observed *)
(* or is a window or more behind the highest number observed: no slot of the *)
(* ring answers for another record.                                          *)
THEOREM DuplicateCorrect ==
    ASSUME NEW window, NEW S, Represents(window, S), NEW n \in Records
    PROVE  duplicate(window, n) <=> n \in S \/ n + WindowSize <= window.highest
  BY WindowAssumption DEF duplicate, Represents, Records

(* The slots that advance leaves to the numbers of the new window: the old   *)
(* answer for a number that was within the old one, FALSE for a new number.  *)
LEMMA AdvanceRepresents ==
    ASSUME NEW window, NEW S, Represents(window, S),
           NEW n \in Records, n > window.highest
    PROVE  Represents(advance(window, n), S)
<1> DEFINE new == advance(window, n)
<1>1. new.highest = n /\ new \in [highest : Nat, seen : [Slots -> BOOLEAN]]
  BY DEF advance, Records, Represents
<1>2. ASSUME NEW m \in Records, m <= n, n - m < WindowSize
      PROVE  new.seen[replayWindowSlot(m)] <=> m \in S
  <2>1. replayWindowSlot(m) \in Slots
    BY SlotType DEF Records
  <2>2. CASE m <= window.highest
    <3>1. window.highest \in Nat /\ window.highest - m < WindowSize /\ n - window.highest < WindowSize
      BY <1>2, <2>2, WindowAssumption DEF Represents, Records
    <3>2. \A j \in (window.highest + 1)..n : replayWindowSlot(j) # replayWindowSlot(m)
      <4> SUFFICES ASSUME NEW j \in (window.highest + 1)..n
                   PROVE  replayWindowSlot(m) # replayWindowSlot(j)
        OBVIOUS
      <4>1. m \in Nat /\ j \in Nat /\ m < j /\ j - m < WindowSize
        BY <1>2, <2>2, <3>1, WindowAssumption DEF Records
      <4> QED
        BY <4>1, SlotsDiffer
    <3>3. window.seen[replayWindowSlot(m)] <=> m \in S
      BY <2>2, <3>1 DEF Represents
    <3> QED
      BY <2>1, <3>1, <3>2, <3>3 DEF advance, Represents
  <2>3. CASE m > window.highest
    <3>1. m \notin S
      BY <2>3 DEF Represents, Records
    <3>2. m \in (window.highest + 1)..n
      BY <1>2, <2>3 DEF Represents, Records
    <3> QED
      BY <2>1, <3>1, <3>2 DEF advance
  <2> QED
    BY <2>2, <2>3 DEF Represents, Records
<1>3. \A m \in S : m <= n
  BY DEF Represents, Records
<1> QED
  BY <1>1, <1>2, <1>3 DEF Represents

(* observe adds the record to what the window has observed, unless it is too *)
(* old to be told from a duplicate; it forgets nothing within the window.    *)
THEOREM ObserveCorrect ==
    ASSUME NEW window, NEW S, Represents(window, S), NEW n \in Records
    PROVE  Represents(observe(window, n),
                      IF n + WindowSize <= window.highest THEN S ELSE S \union {n})
<1> DEFINE too_old == n + WindowSize <= window.highest
<1>1. CASE duplicate(window, n)
  <2>1. observe(window, n) = window
    BY <1>1 DEF observe
  <2>2. ~too_old => S \union {n} = S
    BY <1>1, DuplicateCorrect
  <2> QED
    BY <2>1, <2>2
<1>2. CASE ~duplicate(window, n)
  <2> DEFINE advanced == IF n > window.highest THEN advance(window, n) ELSE window
             new == observe(window, n)
  <2>1. ~too_old
    BY <1>2, DuplicateCorrect
  <2>2. new = [advanced EXCEPT !.seen[replayWindowSlot(n)] = TRUE]
    BY <1>2 DEF observe
  <2>3. Represents(advanced, S) /\ n <= advanced.highest /\ advanced.highest - n < WindowSize
    <3>1. CASE n > window.highest
      <4>1. advanced = advance(window, n) /\ advanced.highest = n
        BY <3>1 DEF advance
      <4> QED
        BY <3>1, <4>1, AdvanceRepresents, WindowAssumption DEF Records
    <3>2. CASE ~(n > window.highest)
      BY <3>2, <2>1, WindowAssumption DEF Represents, Records
    <3> QED
      BY <3>1, <3>2
  <2> HIDE DEF advanced, new
  <2>4. replayWindowSlot(n) \in Slots
    BY SlotType DEF Records
  <2>5. /\ new \in [highest : Nat, seen : [Slots -> BOOLEAN]]
        /\ new.highest = advanced.highest
        /\ new.seen = [advanced.seen EXCEPT ![replayWindowSlot(n)] = TRUE]
    BY <2>2, <2>3, <2>4, Zenon DEF Represents
  <2>6. ASSUME NEW m \in Records, m <= new.highest, new.highest - m < WindowSize
        PROVE  new.seen[replayWindowSlot(m)] <=> m \in S \union {n}
    <3>1. CASE m = n
      BY <3>1, <2>3, <2>4, <2>5 DEF Represents
    <3>2. CASE m # n
      <4>1. replayWindowSlot(m) # replayWindowSlot(n)
        <5>1. CASE m < n
          <6>1. m \in Nat /\ n \in Nat /\ n - m < WindowSize
            BY <2>3, <2>5, <2>6, <5>1, WindowAssumption DEF Represents, Records
          <6> QED  BY <6>1, <5>1, SlotsDiffer
        <5>2. CASE n < m
          <6>1. m \in Nat /\ n \in Nat /\ m - n < WindowSize
            BY <2>3, <2>5, <2>6, <5>2, WindowAssumption DEF Represents, Records
          <6> QED  BY <6>1, <5>2, SlotsDiffer
        <5> QED  BY <5>1, <5>2, <3>2 DEF Records
      <4>2. replayWindowSlot(m) \in Slots
        BY SlotType DEF Records
      <4>3. new.seen[replayWindowSlot(m)] = advanced.seen[replayWindowSlot(m)]
        BY <2>3, <2>4, <2>5, <4>1, <4>2 DEF Represents
      <4> QED
        BY <2>3, <2>5, <2>6, <3>2, <4>3, Zenon DEF Represents
    <3> QED
      BY <3>1, <3>2
  <2>7. \A m \in S \union {n} : m \in Records /\ m <= new.highest
    BY <2>3, <2>5 DEF Represents
  <2>8. Represents(new, S \union {n})
    BY <2>5, <2>6, <2>7 DEF Represents
  <2> QED
    BY <2>1, <2>8 DEF new
<1> QED
  BY <1>1, <1>2

-----------------------------------------------------------------------------
(* The transfer. *)


DataFrame(M) == [type : {"data"}, mid : Nat, msg : M, seq : Nat]
AckFrame == [type : {"ack"}, mid : Nat, total : Nat, got : SUBSET Nat]
Frame(M) == DataFrame(M) \union AckFrame

SendState == [pc : {"none", "new", "wait", "retry", "ok", "failed"}, mid : Nat,
              acked : SUBSET Nat, tries : Nat, sends : Int,
              bound : [sends : Nat, retransmits : Nat]]

LEMMA NewSendType ==
    ASSUME NEW pc \in {"new", "none"}, NEW b \in [sends : Nat, retransmits : Nat]
    PROVE  [pc |-> pc, mid |-> 0, acked |-> {}, tries |-> b.retransmits,
            sends |-> b.sends, bound |-> b] \in SendState
BY DEF SendState

WindowState == [highest : Nat, seen : [Slots -> BOOLEAN]]

(* An acknowledgement is due only for a message that has arrived in part. *)
StreamOK(s, M) ==
    /\ s \in [gen : Nat, asm : SUBSET [mid : Nat, msg : M, seq : Nat],
              delivered : SUBSET Nat, due : SUBSET Nat]
    /\ \A mid \in s.due : Assembled(s, mid) # {}

CalleeOK(c) ==
    /\ DOMAIN c = {"open", "gen", "out", "window", "stream", "inbound", "drops"}
    /\ c.open \in BOOLEAN /\ c.gen \in Nat /\ c.drops \in Nat
    /\ c.out \in Seq(Frame(Down))
    /\ c.window \in WindowState
    /\ StreamOK(c.stream, Up)

ClientOK(c) ==
    /\ DOMAIN c = {"connected", "leg", "window", "stream", "losses"}
    /\ c.connected \in BOOLEAN /\ c.leg \in Nat /\ c.losses \in Nat
    /\ c.window \in WindowState
    /\ StreamOK(c.stream, Down)

FrameNumbers(cached) == {c[2] : c \in cached}

(* A route that data from the client took has frames to replay until it is   *)
(* complete.                                                                 *)
RouteOK(r) ==
    /\ r \in [k : Carriers, mid : Nat, source : BOOLEAN, done : BOOLEAN,
              cached : SUBSET (Up \X Nat)]
    /\ IsFiniteSet(FrameNumbers(r.cached))
    /\ r.source \/ r.done \/ r.cached # {}

JobOK(job) ==
    /\ job \in [l : Nat, k : Carriers, mid : Nat, frames : Seq(Frame(Up)),
                quality : BOOLEAN]
    /\ job.frames # <<>>

RelayOK(r) ==
    /\ DOMAIN r = {"logicalGen", "legGen", "carrierGen", "routes", "ackIDs",
                   "jobs", "evictions"}
    /\ r.logicalGen \in Nat /\ r.legGen \in Nat /\ r.evictions \in Nat
    /\ r.carrierGen \in [Carriers -> Nat]
    /\ r.routes = [l \in DOMAIN r.routes |-> r.routes[l]]
    /\ DOMAIN r.routes \subseteq Nat /\ IsFiniteSet(DOMAIN r.routes)
    /\ \A l \in DOMAIN r.routes : RouteOK(r.routes[l])
    /\ r.ackIDs \subseteq [k : Carriers, mid : Nat, l : Nat]
    /\ \A job \in r.jobs : JobOK(job)

ChannelsOK ==
    /\ up \in [Carriers -> Seq(Frame(Down))]
    /\ down \in [Carriers -> Seq(Frame(Up))]
    /\ toRelay \in Seq(Frame(Up))
    /\ toClient \in Seq(Frame(Down))
    /\ alive \subseteq Carriers

PairsOK ==
    pairs \subseteq [relayID : Nat, dir : {"down", "up"}, mid : Nat, done : BOOLEAN]

TypeOK ==
    /\ send \in [Messages -> SendState]
    /\ CalleeOK(callee) /\ ClientOK(client) /\ RelayOK(relay)
    /\ ChannelsOK /\ PairsOK

(* The numbers of the records of M that an application has been given. *)
Given(M) == {m[2] : m \in {x \in M : given[x] = 1}}

WindowsExact ==
    /\ given \in [Messages -> {0, 1}]
    /\ Represents(client.window, Given(Down))
    /\ Represents(callee.window, Given(Up))

IInv == TypeOK /\ WindowsExact

-----------------------------------------------------------------------------
(* Operators of the model.                                                   *)

(* A finite set of numbers has an i-th smallest one for every i up to its    *)
(* size: the number of members up to a member counts the set through.        *)
LEMMA NthMember ==
    ASSUME NEW S \in SUBSET Nat, IsFiniteSet(S), NEW i \in 1..Cardinality(S)
    PROVE  Nth(S, i) \in S
<1> DEFINE below(n) == {x \in S : x <= n}
           rank == [n \in S |-> Cardinality(below(n))]
           size == Cardinality(S)
<1>1. size \in Nat
  BY FS_CardinalityType
<1>2. \A n \in S : IsFiniteSet(below(n)) /\ Cardinality(below(n)) \in 1..size
  <2> SUFFICES ASSUME NEW n \in S
               PROVE  IsFiniteSet(below(n)) /\ Cardinality(below(n)) \in 1..size
    OBVIOUS
  <2>1. below(n) \in SUBSET S
    OBVIOUS
  <2>2. IsFiniteSet(below(n)) /\ Cardinality(below(n)) <= size
    BY <2>1, FS_Subset
  <2>3. Cardinality(below(n)) \in Nat /\ (Cardinality(below(n)) = 0 => below(n) = {})
    BY <2>2, FS_CardinalityType, FS_EmptySet
  <2>4. n \in below(n)
    OBVIOUS
  <2> QED
    BY <1>1, <2>2, <2>3, <2>4
<1>3. \A a, b \in S : a < b => Cardinality(below(a)) # Cardinality(below(b))
  <2> SUFFICES ASSUME NEW a \in S, NEW b \in S, a < b
               PROVE  Cardinality(below(a)) # Cardinality(below(b))
    OBVIOUS
  <2>1. below(a) \in SUBSET below(b) /\ b \in below(b) /\ b \notin below(a)
    <3>1. a \in Nat /\ b \in Nat /\ \A x \in S : x \in Nat /\ (x <= a => x <= b)
      OBVIOUS
    <3>2. ~(b <= a) /\ b <= b
      BY <3>1
    <3> QED
      BY <3>1, <3>2, Zenon
  <2>2. Cardinality(below(b)) = Cardinality(below(a)) => below(b) = below(a)
    BY <1>2, <2>1, FS_Subset
  <2> QED
    BY <2>1, <2>2
<1>4. \A a, b \in S : a # b => Cardinality(below(a)) # Cardinality(below(b))
  <2> SUFFICES ASSUME NEW a \in S, NEW b \in S, a # b
               PROVE  Cardinality(below(a)) # Cardinality(below(b))
    OBVIOUS
  <2>1. a < b \/ b < a
    OBVIOUS
  <2> QED
    BY <1>3, <2>1
<1>5. rank \in Injection(S, 1..size)
  BY <1>2, <1>4, Zenon DEF Injection, IsInjective
<1>6. IsFiniteSet(1..size) /\ Cardinality(1..size) = size
  BY <1>1, FS_Interval
<1>7. rank \in Surjection(S, 1..size)
  BY <1>5, <1>6, FS_Injection
<1>8. \E n \in S : Cardinality(below(n)) = i
  BY <1>7, Zenon DEF Surjection
<1> QED
  BY <1>8, Zenon DEF Nth

(* FramesOf gives a sequence of data frames of the message. *)
LEMMA FramesOfType ==
    ASSUME NEW M, NEW m \in M, NEW mid \in Nat, NEW S \in SUBSET Nat, IsFiniteSet(S)
    PROVE  /\ FramesOf(mid, m, S) \in Seq(Frame(M))
           /\ S # {} => FramesOf(mid, m, S) # <<>>
<1>1. Cardinality(S) \in Nat /\ (S # {} => Cardinality(S) # 0)
  BY FS_CardinalityType, FS_EmptySet
<1>2. \A i \in 1..Cardinality(S) : Data(mid, m, Nth(S, i)) \in Frame(M)
  BY NthMember, Zenon DEF Data, Frame, DataFrame
<1>3. FramesOf(mid, m, S) \in [1..Cardinality(S) -> Frame(M)]
  BY <1>2 DEF FramesOf
<1> QED
  BY <1>1, <1>3

(* The frames of a message are a finite set of numbers. *)
LEMMA AllFramesFinite ==
    ASSUME NEW m \in Messages
    PROVE  /\ Total[m] \in Nat \ {0}
           /\ \A S \in SUBSET AllFrames(m) : S \in SUBSET Nat /\ IsFiniteSet(S)
<1>1. Total[m] \in Nat \ {0}
  BY TransferAssumption
<1>2. IsFiniteSet(AllFrames(m)) /\ AllFrames(m) \in SUBSET Nat
  BY <1>1, FS_Interval, SMTT(30) DEF AllFrames
<1> QED
  BY <1>1, <1>2, FS_Subset

(* The two directions are disjoint, and a record number names one message.   *)
LEMMA MessageFacts ==
    /\ Down \subseteq Messages /\ Up \subseteq Messages /\ Down \cap Up = {}
    /\ \A m \in Messages : m[2] \in Records
    /\ \A m, n \in Down : m[2] = n[2] => m = n
    /\ \A m, n \in Up : m[2] = n[2] => m = n
<1>1. Down \subseteq Messages /\ Up \subseteq Messages
  BY DEF Messages
<1>2. Down \cap Up = {}
  BY DEF Down, Up
<1>3. \A m \in Messages : m[2] \in Records
  BY TransferAssumption DEF Messages, Down, Up, Records
<1>4. \A m, n \in Down : m[2] = n[2] => m = n
  BY DEF Down
<1>5. \A m, n \in Up : m[2] = n[2] => m = n
  BY DEF Up
<1> QED
  BY <1>1, <1>2, <1>3, <1>4, <1>5

(* handleData keeps the stream well formed: an acknowledgement is due only   *)
(* while the assembler holds a frame of the message.                         *)
LEMMA AfterDataOK ==
    ASSUME NEW M, NEW s, StreamOK(s, M), NEW f \in DataFrame(M)
    PROVE  StreamOK(AfterData(s, f), M)
<1> DEFINE t == AfterData(s, f)
           e == [mid |-> f.mid, msg |-> f.msg, seq |-> f.seq]
<1>1. e \in [mid : Nat, msg : M, seq : Nat] /\ f.mid \in Nat
  BY DEF DataFrame
<1>2. CASE Verdict(s, f) = "part"
  <2>1. t = [s EXCEPT !.asm = AddFrame(s, f), !.due = @ \union {f.mid}]
    BY <1>2 DEF AfterData
  <2>2. /\ AddFrame(s, f) \subseteq [mid : Nat, msg : M, seq : Nat]
        /\ s.asm \subseteq AddFrame(s, f)
        /\ \E x \in AddFrame(s, f) : x.mid = f.mid
    BY <1>1, Zenon DEF AddFrame, Assembled, StreamOK
  <2>3. t \in [gen : Nat, asm : SUBSET [mid : Nat, msg : M, seq : Nat],
               delivered : SUBSET Nat, due : SUBSET Nat]
        /\ t.asm = AddFrame(s, f) /\ t.due = s.due \union {f.mid}
    BY <1>1, <2>1, <2>2, Zenon DEF StreamOK
  <2> QED
    BY <2>2, <2>3 DEF StreamOK, Assembled
<1>3. CASE Verdict(s, f) = "whole"
  <2>1. t = [s EXCEPT !.asm = @ \ Assembled(s, f.mid),
                      !.delivered = @ \union {f.mid}, !.due = @ \ {f.mid}]
    BY <1>3 DEF AfterData
  <2>2. t \in [gen : Nat, asm : SUBSET [mid : Nat, msg : M, seq : Nat],
               delivered : SUBSET Nat, due : SUBSET Nat]
        /\ t.asm = s.asm \ Assembled(s, f.mid) /\ t.due = s.due \ {f.mid}
    BY <1>1, <2>1, ZenonT(30) DEF StreamOK
  <2> QED
    BY <2>2 DEF StreamOK, Assembled
<1>4. CASE Verdict(s, f) \notin {"part", "whole"}
  BY <1>4 DEF AfterData
<1> QED
  BY <1>2, <1>3, <1>4

(* The acknowledgement of a whole message is an acknowledgement frame.       *)
LEMMA AcknowledgementType ==
    ASSUME NEW M \in SUBSET Messages, NEW f \in DataFrame(M), NEW s, NEW N
    PROVE  Acknowledgement(s, f) \in Seq(Frame(N))
<1>1. f.mid \in Nat /\ f.msg \in Messages
  BY DEF DataFrame
<1>2. Total[f.msg] \in Nat /\ AllFrames(f.msg) \in SUBSET Nat
  BY <1>1, AllFramesFinite
<1>3. Ack(f.mid, Total[f.msg], AllFrames(f.msg)) \in Frame(N)
  BY <1>1, <1>2 DEF Ack, Frame, AckFrame
<1> QED
  BY <1>3 DEF Acknowledgement

(* So is what recvAckTimer sends of a message that has arrived in part.      *)
LEMMA PartialAckType ==
    ASSUME NEW M \in SUBSET Messages, NEW s, StreamOK(s, M), NEW mid \in s.due, NEW N
    PROVE  PartialAck(s, mid) \in Frame(N)
<1> DEFINE parts == Assembled(s, mid)
           first == CHOOSE e \in parts : TRUE
<1>1. mid \in Nat /\ parts # {} /\ parts \subseteq [mid : Nat, msg : M, seq : Nat]
  BY DEF StreamOK, Assembled
<1>2. first \in parts
  BY <1>1
<1>3. first.msg \in Messages /\ {e.seq : e \in parts} \subseteq Nat
  BY <1>1, <1>2
<1>4. Total[first.msg] \in Nat
  BY <1>3, AllFramesFinite
<1>5. PartialAck(s, mid) = Ack(mid, Total[first.msg], {e.seq : e \in parts})
  BY DEF PartialAck
<1> HIDE DEF parts, first
<1> QED
  BY <1>1, <1>3, <1>4, <1>5 DEF Ack, Frame, AckFrame

(* handleAck keeps the states of the sends well formed.                      *)
LEMMA AckedType ==
    ASSUME send \in [Messages -> SendState], NEW f \in AckFrame, NEW senders
    PROVE  Acked(senders, f) \in [Messages -> SendState]
<1> SUFFICES ASSUME NEW m \in Messages, m \in senders
             PROVE  LET got == send[m].acked \union f.got
                    IN [send[m] EXCEPT !.acked = got,
                          !.pc = IF Cardinality(got) >= Total[m] THEN "ok" ELSE @]
                       \in SendState
  BY Zenon DEF Acked
<1> DEFINE got == send[m].acked \union f.got
           pc == IF Cardinality(got) >= Total[m] THEN "ok" ELSE send[m].pc
<1>1. send[m] \in SendState /\ f.got \in SUBSET Nat
  BY DEF AckFrame
<1>2. got \in SUBSET Nat /\ pc \in {"none", "new", "wait", "retry", "ok", "failed"}
  BY <1>1 DEF SendState
<1> HIDE DEF got, pc
<1>3. [send[m] EXCEPT !.acked = got, !.pc = pc] \in SendState
  BY <1>1, <1>2, Zenon DEF SendState
<1> QED
  BY <1>3 DEF got, pc

(* A record is given when the window has not observed it, and then the       *)
(* window observes it: what is given stays what the window has observed.     *)
LEMMA GiveOnce ==
    ASSUME given \in [Messages -> {0, 1}],
           NEW M \in SUBSET Messages, \A m, n \in M : m[2] = n[2] => m = n,
           NEW window, Represents(window, Given(M)),
           NEW f \in DataFrame(M), Give(window, f)
    PROVE  /\ given' \in [Messages -> {0, 1}]
           /\ Represents(observe(window, f.msg[2]), Given(M)')
           /\ \A N \in SUBSET Messages : N \cap M = {} => Given(N)' = Given(N)
<1> DEFINE m == f.msg
           n == f.msg[2]
<1>1. m \in M /\ m \in Messages /\ n \in Records
  BY MessageFacts DEF DataFrame
<1>2. duplicate(window, n) <=> n \in Given(M) \/ n + WindowSize <= window.highest
  BY <1>1, DuplicateCorrect
<1>3. n \in Given(M) <=> given[m] = 1
  BY <1>1 DEF Given
<1>4. given' = [given EXCEPT ![m] = IF duplicate(window, n) THEN @ ELSE @ + 1]
  BY DEF Give
<1>5. CASE duplicate(window, n)
  <2>1. given' = given /\ observe(window, n) = window
    BY <1>4, <1>5 DEF observe
  <2>2. \A N : Given(N)' = Given(N)
    BY <2>1 DEF Given
  <2> QED
    BY <2>1, <2>2
<1>6. CASE ~duplicate(window, n)
  <2>1. given' = [given EXCEPT ![m] = 1] /\ ~(n + WindowSize <= window.highest)
    <3>1. given[m] = 0 /\ ~(n + WindowSize <= window.highest)
      BY <1>1, <1>2, <1>3, <1>6, Zenon
    <3>2. given' = [given EXCEPT ![m] = @ + 1]
      BY <1>4, <1>6
    <3> QED
      BY <3>1, <3>2
  <2>2. given' \in [Messages -> {0, 1}]
    BY <2>1, Zenon
  <2>3. Given(M)' = Given(M) \union {n}
    BY <1>1, <2>1 DEF Given
  <2>4. Represents(observe(window, n), Given(M) \union {n})
    BY <1>1, <2>1, ObserveCorrect, Zenon
  <2>5. \A N \in SUBSET Messages : N \cap M = {} => Given(N)' = Given(N)
    BY <1>1, <2>1, Zenon DEF Given
  <2> QED
    BY <2>2, <2>3, <2>4, <2>5, Zenon
<1> QED
  BY <1>5, <1>6

(* The windows and what has been given stay as they are. *)
LEMMA WindowsKept ==
    ASSUME WindowsExact, given' = given,
           client'.window = client.window, callee'.window = callee.window
    PROVE  WindowsExact'
  BY DEF WindowsExact, Given

-----------------------------------------------------------------------------
(* The actions of the callee.                                                *)

LEMMA CalleeSendInv ==
    ASSUME IInv, NEW m \in Down, CalleeSend(m)
    PROVE  IInv'
<1> USE DEF IInv, TypeOK, CalleeSend
<1>1. m \in Messages /\ callee.gen + 1 \in Nat /\ send[m] \in SendState
  BY MessageFacts DEF CalleeOK
<1>2. send' \in [Messages -> SendState]
  BY <1>1, Zenon DEF SendState
<1>3. FramesOf(callee.gen + 1, m, AllFrames(m)) \in Seq(Frame(Down))
  BY <1>1, AllFramesFinite, FramesOfType, Zenon
<1>4. CalleeOK(callee') /\ callee'.window = callee.window
  <2> DEFINE gen == callee.gen + 1
             out == callee.out \o FramesOf(callee.gen + 1, m, AllFrames(m))
  <2>1. gen \in Nat /\ out \in Seq(Frame(Down))
    BY <1>1, <1>3 DEF CalleeOK
  <2>2. callee' = [callee EXCEPT !.gen = gen, !.out = out]
    OBVIOUS
  <2> HIDE DEF gen, out
  <2> QED
    BY <2>1, <2>2, Zenon DEF CalleeOK
<1>5. ChannelsOK' /\ PairsOK' /\ ClientOK(client') /\ RelayOK(relay')
  BY DEF ChannelsOK, PairsOK
<1>6. WindowsExact'
  BY <1>4, WindowsKept DEF history
<1> QED
  BY <1>2, <1>4, <1>5, <1>6

LEMMA CalleeTimeoutInv ==
    ASSUME IInv, NEW m \in Down, CalleeTimeout(m)
    PROVE  IInv'
<1> USE DEF IInv, TypeOK
<1>1. m \in Messages /\ send[m] \in SendState
  BY MessageFacts
<1>2. send' \in [Messages -> SendState]
  <2>1. CASE send[m].tries > 0
    <3>1. send' = [send EXCEPT ![m].tries = @ - 1] /\ send[m].tries - 1 \in Nat
      BY <1>1, <2>1 DEF CalleeTimeout, SendState
    <3> QED
      BY <1>1, <3>1 DEF SendState
  <2>2. CASE ~(send[m].tries > 0)
    <3>1. send' = [send EXCEPT ![m].pc = "failed"]
      BY <2>2, Zenon DEF CalleeTimeout
    <3> QED
      BY <1>1, <3>1, Zenon DEF SendState
  <2> QED
    BY <2>1, <2>2
<1>3. FramesOf(send[m].mid, m, Missing(m)) \in Seq(Frame(Down))
  <2>1. Missing(m) \in SUBSET AllFrames(m)
    BY DEF Missing
  <2> QED
    BY <1>1, <2>1, AllFramesFinite, FramesOfType, Zenon DEF SendState
<1>4. CalleeOK(callee') /\ callee'.window = callee.window
  <2> DEFINE out == callee.out \o FramesOf(send[m].mid, m, Missing(m))
  <2>1. out \in Seq(Frame(Down))
    BY <1>3 DEF CalleeOK
  <2>2. callee' = callee \/ callee' = [callee EXCEPT !.out = out]
    BY Zenon DEF CalleeTimeout
  <2> HIDE DEF out
  <2> QED
    BY <2>1, <2>2, Zenon DEF CalleeOK
<1>5. ChannelsOK' /\ PairsOK' /\ ClientOK(client') /\ RelayOK(relay')
  BY DEF CalleeTimeout, ChannelsOK, PairsOK
<1>6. WindowsExact'
  BY <1>4, WindowsKept DEF CalleeTimeout, history
<1> QED
  BY <1>2, <1>4, <1>5, <1>6

LEMMA MuxWriteInv ==
    ASSUME IInv, NEW k \in Carriers, MuxWrite(k)
    PROVE  IInv'
<1> USE DEF IInv, TypeOK, MuxWrite
<1>1. callee.out \in Seq(Frame(Down)) /\ callee.out # <<>>
  BY DEF CalleeOK
<1>2. Head(callee.out) \in Frame(Down) /\ Tail(callee.out) \in Seq(Frame(Down))
  BY <1>1
<1>3. CalleeOK(callee') /\ callee'.window = callee.window
  BY <1>2, Zenon DEF CalleeOK
<1>4. up' \in [Carriers -> Seq(Frame(Down))]
  BY <1>2 DEF ChannelsOK
<1>5. ChannelsOK' /\ PairsOK' /\ ClientOK(client') /\ RelayOK(relay')
  BY <1>4 DEF ChannelsOK, PairsOK
<1>6. WindowsExact'
  BY <1>3, WindowsKept DEF history
<1> QED
  BY <1>3, <1>5, <1>6

LEMMA CalleePartialAckInv ==
    ASSUME IInv, NEW mid \in callee.stream.due, NEW k \in Carriers, CalleePartialAck(mid, k)
    PROVE  IInv'
<1> USE DEF IInv, TypeOK, CalleePartialAck
<1>1. StreamOK(callee.stream, Up)
  BY DEF CalleeOK
<1>2. PartialAck(callee.stream, mid) \in Frame(Down)
  BY <1>1, PartialAckType, MessageFacts
<1>3. CalleeOK(callee') /\ callee'.window = callee.window
  BY <1>1, Zenon DEF CalleeOK, StreamOK, Assembled
<1>4. up' \in [Carriers -> Seq(Frame(Down))]
  BY <1>2 DEF ChannelsOK
<1>5. ChannelsOK' /\ PairsOK' /\ ClientOK(client') /\ RelayOK(relay')
  BY <1>4 DEF ChannelsOK, PairsOK
<1>6. WindowsExact'
  BY <1>3, WindowsKept DEF history
<1> QED
  BY <1>3, <1>5, <1>6

LEMMA MuxOverflowInv ==
    ASSUME IInv, NEW k \in Carriers, MuxOverflow(k)
    PROVE  IInv'
<1> USE DEF IInv, TypeOK, MuxOverflow
<1>1. down[k] \in Seq(Frame(Up)) /\ down[k] # <<>>
  BY DEF ChannelsOK
<1>2. down' \in [Carriers -> Seq(Frame(Up))]
  BY <1>1 DEF ChannelsOK
<1>3. CalleeOK(callee') /\ callee'.window = callee.window
  <2> DEFINE drops == callee.drops - 1
  <2>1. drops \in Nat
    BY DEF CalleeOK
  <2>2. callee' = [callee EXCEPT !.drops = drops]
    OBVIOUS
  <2> HIDE DEF drops
  <2> QED
    BY <2>1, <2>2, Zenon DEF CalleeOK
<1>4. ChannelsOK' /\ PairsOK' /\ ClientOK(client') /\ RelayOK(relay')
  BY <1>2 DEF ChannelsOK, PairsOK
<1>5. WindowsExact'
  BY <1>3, WindowsKept, Zenon DEF history
<1> QED
  BY <1>3, <1>4, <1>5, Zenon

(* failAndClose and the failed sends. *)
LEMMA ConnectionFailsOK ==
    ASSUME TypeOK, ConnectionFails
    PROVE  /\ send' \in [Messages -> SendState]
           /\ CalleeOK(callee') /\ callee'.window = callee.window
<1>1. \A m \in Messages : [send[m] EXCEPT !.pc = "failed"] \in SendState
  BY Zenon DEF TypeOK, SendState
<1>2. send' \in [Messages -> SendState]
  BY <1>1 DEF TypeOK, ConnectionFails
<1>3. CalleeOK(callee') /\ callee'.window = callee.window
  BY DEF TypeOK, ConnectionFails, CalleeOK
<1> QED
  BY <1>2, <1>3

(* A frame is an acknowledgement or data of its channel's messages. *)
LEMMA FrameKinds ==
    ASSUME NEW M, NEW f \in Frame(M)
    PROVE  /\ f.type = "ack" => f \in AckFrame
           /\ f.type = "data" => f \in DataFrame(M)
           /\ \A mid \in Nat : [f EXCEPT !.mid = mid] \in Frame(M)
           /\ f.mid \in Nat
  BY DEF Frame, DataFrame, AckFrame

LEMMA CalleeReceiveInv ==
    ASSUME IInv, NEW k \in Carriers, CalleeReceive(k)
    PROVE  IInv'
<1> DEFINE f == Head(down[k])
           verdict == Verdict(callee.stream, f)
           reply == Acknowledgement(callee.stream, f)
<1>1. down[k] \in Seq(Frame(Up)) /\ down[k] # <<>>
  BY DEF CalleeReceive, ChannelsOK, IInv, TypeOK
<1>2. f \in Frame(Up) /\ down' \in [Carriers -> Seq(Frame(Up))]
  BY <1>1 DEF CalleeReceive, ChannelsOK, IInv, TypeOK
<1>3. PairsOK' /\ ClientOK(client') /\ RelayOK(relay') /\ client'.window = client.window
  BY DEF CalleeReceive, PairsOK, IInv, TypeOK
<1>4. CASE f.type = "ack"
  <2>1. send' = Acked(Down, f) /\ UNCHANGED <<callee, up, given>>
    BY <1>4, Zenon DEF CalleeReceive, history
  <2>2. send' \in [Messages -> SendState]
    BY <1>2, <1>4, <2>1, AckedType, FrameKinds, Zenon DEF IInv, TypeOK
  <2>3. ChannelsOK'
    BY <1>2, <2>1, Zenon DEF CalleeReceive, ChannelsOK, IInv, TypeOK
  <2> QED
    BY <1>3, <2>1, <2>2, <2>3, WindowsKept DEF IInv, TypeOK
<1>5. CASE f.type = "data" /\ verdict = "fail"
  <2>1. ConnectionFails /\ UNCHANGED <<up, given>>
    BY <1>5 DEF CalleeReceive
  <2>2. ChannelsOK'
    BY <1>2, <2>1 DEF CalleeReceive, ChannelsOK, IInv, TypeOK
  <2> QED
    BY <1>3, <2>1, <2>2, ConnectionFailsOK, WindowsKept, Zenon DEF IInv, TypeOK
<1>6. CASE f.type = "data" /\ verdict # "fail"
  <2> DEFINE window == IF verdict = "whole" THEN observe(callee.window, f.msg[2])
                       ELSE callee.window
             stream == AfterData(callee.stream, f)
             inbound == {i \in callee.inbound : i[1] # f.mid}
                           \union IF reply = <<>> THEN {<<f.mid, k>>} ELSE {}
  <2>1. /\ callee' = [callee EXCEPT !.stream = stream, !.window = window,
                                    !.inbound = inbound]
        /\ IF verdict = "whole" THEN Give(callee.window, f) ELSE UNCHANGED given
        /\ up' = [up EXCEPT ![k] = @ \o reply]
        /\ UNCHANGED send
    BY <1>6, Zenon DEF CalleeReceive
  <2>2. f \in DataFrame(Up) /\ StreamOK(callee.stream, Up)
    BY <1>2, <1>6, FrameKinds DEF IInv, TypeOK, CalleeOK
  <2>3. StreamOK(stream, Up) /\ reply \in Seq(Frame(Down))
    BY <2>2, AfterDataOK, AcknowledgementType, MessageFacts
  <2>4. /\ given' \in [Messages -> {0, 1}]
        /\ Represents(window, Given(Up)')
        /\ Given(Down)' = Given(Down)
    <3>1. CASE verdict = "whole"
      <4>1. Give(callee.window, f) /\ window = observe(callee.window, f.msg[2])
        BY <2>1, <3>1
      <4>2. /\ given \in [Messages -> {0, 1}] /\ Represents(callee.window, Given(Up))
            /\ Up \in SUBSET Messages /\ \A m, n \in Up : m[2] = n[2] => m = n
        BY MessageFacts, Zenon DEF IInv, WindowsExact
      <4> HIDE DEF window
      <4>3. /\ given' \in [Messages -> {0, 1}] /\ Represents(window, Given(Up)')
            /\ \A N \in SUBSET Messages : N \cap Up = {} => Given(N)' = Given(N)
        BY <2>2, <4>1, <4>2, GiveOnce, Zenon
      <4>4. Down \in SUBSET Messages /\ Down \cap Up = {}
        BY MessageFacts
      <4> QED
        BY <4>3, <4>4, Zenon
    <3>2. CASE verdict # "whole"
      BY <2>1, <3>2, Zenon DEF IInv, WindowsExact, Given
    <3> QED
      BY <3>1, <3>2, Zenon
  <2>5. window \in WindowState
    BY <2>4 DEF Represents, WindowState
  <2> HIDE DEF window, stream, reply, inbound, f
  <2>6. CalleeOK(callee') /\ callee'.window = window
    BY <2>1, <2>3, <2>5 DEF IInv, TypeOK, CalleeOK
  <2>7. WindowsExact'
    BY <1>3, <2>4, <2>6, Zenon DEF IInv, WindowsExact
  <2>8. ChannelsOK'
    BY <1>2, <2>1, <2>3 DEF CalleeReceive, ChannelsOK, IInv, TypeOK
  <2> QED
    BY <1>3, <2>1, <2>6, <2>7, <2>8 DEF IInv, TypeOK
<1>7. f.type = "ack" \/ f.type = "data"
  BY Zenon DEF CalleeReceive
<1> QED
  BY <1>4, <1>5, <1>6, <1>7, Zenon

-----------------------------------------------------------------------------
(* The actions of the client.                                                *)

LEMMA ClientSendInv ==
    ASSUME IInv, NEW m \in Up, ClientSend(m)
    PROVE  IInv'
<1> USE DEF IInv, TypeOK, ClientSend
<1> DEFINE gen == client.stream.gen + 1
<1>1. m \in Messages /\ gen \in Nat /\ send[m] \in SendState
  BY MessageFacts DEF ClientOK, StreamOK
<1>2. send' \in [Messages -> SendState]
  <2> DEFINE tries == send[m].bound.retransmits
             sends == send[m].sends - 1
  <2>1. tries \in Nat /\ sends \in Int
    BY <1>1 DEF SendState
  <2> DEFINE new == [send[m] EXCEPT !.pc = "wait", !.mid = gen, !.acked = {},
                                    !.tries = tries, !.sends = sends]
  <2>2. send' = [send EXCEPT ![m] = new]
    OBVIOUS
  <2>3. new \in SendState
    <3> HIDE DEF tries, sends, gen
    <3> QED
      BY <1>1, <2>1, Zenon DEF SendState
  <2> HIDE DEF new
  <2> QED
    BY <1>1, <2>2, <2>3
<1>3. FramesOf(gen, m, AllFrames(m)) \in Seq(Frame(Up))
  BY <1>1, AllFramesFinite, FramesOfType, Zenon
<1>4. ClientOK(client') /\ client'.window = client.window
  <2> DEFINE stream == [client.stream EXCEPT !.gen = gen]
  <2>1. client' = [client EXCEPT !.stream = stream]
    BY DEF ClientOK
  <2>2. StreamOK(stream, Down)
    <3> HIDE DEF gen
    <3> QED
      BY <1>1, Zenon DEF ClientOK, StreamOK, Assembled
  <2> HIDE DEF stream
  <2> QED
    BY <2>1, <2>2, Zenon DEF ClientOK
<1>5. ChannelsOK' /\ PairsOK' /\ CalleeOK(callee') /\ RelayOK(relay')
  BY <1>3 DEF ChannelsOK, PairsOK
<1>6. WindowsExact'
  BY <1>4, WindowsKept DEF history
<1> QED
  BY <1>2, <1>4, <1>5, <1>6

(* A send whose leg failed it. *)
LEMMA SendAgainType ==
    ASSUME NEW s \in SendState
    PROVE  SendAgain(s) \in SendState
  BY DEF SendAgain, SendState

LEMMA ClientTimeoutInv ==
    ASSUME IInv, NEW m \in Up, ClientTimeout(m)
    PROVE  IInv'
<1> USE DEF IInv, TypeOK
<1>1. m \in Messages /\ send[m] \in SendState
  BY MessageFacts
<1>2. send' \in [Messages -> SendState]
  <2>1. CASE send[m].tries > 0
    <3>1. send' = [send EXCEPT ![m].tries = @ - 1] /\ send[m].tries - 1 \in Nat
      BY <1>1, <2>1 DEF ClientTimeout, SendState
    <3> QED
      BY <1>1, <3>1 DEF SendState
  <2>2. CASE ~(send[m].tries > 0)
    <3>1. send' = [send EXCEPT ![m] = SendAgain(send[m])]
      BY <2>2 DEF ClientTimeout
    <3> QED
      BY <1>1, <3>1, SendAgainType
  <2> QED
    BY <2>1, <2>2
<1>3. FramesOf(send[m].mid, m, Missing(m)) \in Seq(Frame(Up))
  <2>1. Missing(m) \in SUBSET AllFrames(m)
    BY DEF Missing
  <2> QED
    BY <1>1, <2>1, AllFramesFinite, FramesOfType, Zenon DEF SendState
<1>4. toRelay' \in Seq(Frame(Up))
  <2> DEFINE frames == FramesOf(send[m].mid, m, Missing(m))
  <2>1. toRelay' = toRelay \/ toRelay' = toRelay \o frames
    BY DEF ClientTimeout
  <2>2. frames \in Seq(Frame(Up)) /\ toRelay \in Seq(Frame(Up))
    BY <1>3 DEF ChannelsOK
  <2> HIDE DEF frames
  <2>3. toRelay \o frames \in Seq(Frame(Up))
    BY <2>2
  <2> QED
    BY <2>1, <2>2, <2>3, Zenon
<1>5. ChannelsOK' /\ PairsOK' /\ ClientOK(client') /\ CalleeOK(callee') /\ RelayOK(relay')
  BY <1>4 DEF ClientTimeout, ChannelsOK, PairsOK
<1>6. WindowsExact'
  BY WindowsKept DEF ClientTimeout, history
<1> QED
  BY <1>2, <1>5, <1>6

LEMMA ClientReceiveInv ==
    ASSUME IInv, ClientReceive
    PROVE  IInv'
<1> DEFINE f == Head(toClient)
           verdict == Verdict(client.stream, f)
           reply == Acknowledgement(client.stream, f)
<1>1. toClient \in Seq(Frame(Down)) /\ toClient # <<>>
  BY DEF ClientReceive, ChannelsOK, IInv, TypeOK
<1>2. f \in Frame(Down) /\ toClient' \in Seq(Frame(Down))
  BY <1>1 DEF ClientReceive
<1>3. PairsOK' /\ RelayOK(relay')
  BY DEF ClientReceive, PairsOK, IInv, TypeOK
<1>4. CASE f.type = "ack"
  <2>1. send' = Acked(Up, f) /\ UNCHANGED <<callee, client, toRelay, given>>
    BY <1>4 DEF ClientReceive, history
  <2>2. send' \in [Messages -> SendState]
    BY <1>2, <1>4, <2>1, AckedType, FrameKinds DEF IInv, TypeOK
  <2>3. ChannelsOK'
    BY <1>2, <2>1 DEF ClientReceive, ChannelsOK, IInv, TypeOK
  <2> QED
    BY <1>3, <2>1, <2>2, <2>3, WindowsKept DEF IInv, TypeOK
<1>5. CASE f.type = "data" /\ verdict = "fail"
  <2>1. ConnectionFails /\ UNCHANGED <<client, toRelay, given>>
    BY <1>5 DEF ClientReceive
  <2>2. ChannelsOK'
    BY <1>2, <2>1 DEF ClientReceive, ChannelsOK, IInv, TypeOK
  <2> QED
    BY <1>3, <2>1, <2>2, ConnectionFailsOK, WindowsKept DEF IInv, TypeOK
<1>6. CASE f.type = "data" /\ verdict # "fail"
  <2> DEFINE window == IF verdict = "whole" THEN observe(client.window, f.msg[2])
                       ELSE client.window
             stream == AfterData(client.stream, f)
  <2>1. /\ client' = [client EXCEPT !.stream = stream, !.window = window]
        /\ IF verdict = "whole" THEN Give(client.window, f) ELSE UNCHANGED given
        /\ toRelay' = toRelay \o reply
        /\ UNCHANGED <<send, callee>>
    BY <1>6 DEF ClientReceive
  <2>2. f \in DataFrame(Down) /\ StreamOK(client.stream, Down)
    BY <1>2, <1>6, FrameKinds DEF IInv, TypeOK, ClientOK
  <2>3. StreamOK(stream, Down) /\ reply \in Seq(Frame(Up))
    BY <2>2, AfterDataOK, AcknowledgementType, MessageFacts, Zenon
  <2>4. /\ given' \in [Messages -> {0, 1}]
        /\ Represents(window, Given(Down)')
        /\ Given(Up)' = Given(Up)
    <3>1. CASE verdict = "whole"
      <4>1. Give(client.window, f) /\ window = observe(client.window, f.msg[2])
        BY <2>1, <3>1
      <4>2. /\ given \in [Messages -> {0, 1}] /\ Represents(client.window, Given(Down))
            /\ Down \in SUBSET Messages /\ \A m, n \in Down : m[2] = n[2] => m = n
        BY MessageFacts, Zenon DEF IInv, WindowsExact
      <4> HIDE DEF window
      <4>3. /\ given' \in [Messages -> {0, 1}] /\ Represents(window, Given(Down)')
            /\ \A N \in SUBSET Messages : N \cap Down = {} => Given(N)' = Given(N)
        BY <2>2, <4>1, <4>2, GiveOnce, Zenon
      <4>4. Up \in SUBSET Messages /\ Up \cap Down = {}
        BY MessageFacts
      <4> QED
        BY <4>3, <4>4, Zenon
    <3>2. CASE verdict # "whole"
      BY <2>1, <3>2, Zenon DEF IInv, WindowsExact, Given
    <3> QED
      BY <3>1, <3>2, Zenon
  <2>5. window \in WindowState
    BY <2>4 DEF Represents, WindowState
  <2> HIDE DEF window, stream, reply, f
  <2>6. ClientOK(client') /\ client'.window = window
    BY <2>1, <2>3, <2>5 DEF IInv, TypeOK, ClientOK
  <2>7. WindowsExact'
    BY <2>1, <2>4, <2>6 DEF IInv, WindowsExact
  <2>8. ChannelsOK'
    BY <1>2, <2>1, <2>3 DEF ClientReceive, ChannelsOK, IInv, TypeOK
  <2> QED
    BY <1>3, <2>1, <2>6, <2>7, <2>8 DEF IInv, TypeOK
<1>7. f.type = "ack" \/ f.type = "data"
  BY DEF ClientReceive
<1> QED
  BY <1>4, <1>5, <1>6, <1>7

LEMMA ClientPartialAckInv ==
    ASSUME IInv, NEW mid \in client.stream.due, ClientPartialAck(mid)
    PROVE  IInv'
<1> USE DEF IInv, TypeOK, ClientPartialAck
<1>1. StreamOK(client.stream, Down)
  BY DEF ClientOK
<1>2. PartialAck(client.stream, mid) \in Frame(Up)
  BY <1>1, PartialAckType, MessageFacts
<1>3. ClientOK(client') /\ client'.window = client.window
  BY <1>1, Zenon DEF ClientOK, StreamOK, Assembled
<1>4. toRelay' \in Seq(Frame(Up))
  BY <1>2 DEF ChannelsOK
<1>5. ChannelsOK' /\ PairsOK' /\ CalleeOK(callee') /\ RelayOK(relay')
  BY <1>4 DEF ChannelsOK, PairsOK
<1>6. WindowsExact'
  BY <1>3, WindowsKept DEF history
<1> QED
  BY <1>3, <1>5, <1>6

LEMMA LoseLegInv ==
    ASSUME IInv, LoseLeg
    PROVE  IInv'
<1> USE DEF IInv, TypeOK, LoseLeg
<1>1. send' \in [Messages -> SendState]
  BY SendAgainType
<1>2. ClientOK(client') /\ client'.window = client.window
  <2> DEFINE losses == client.losses - 1
  <2>1. losses \in Nat
    BY DEF ClientOK
  <2>2. client' = [client EXCEPT !.connected = FALSE, !.losses = losses]
    OBVIOUS
  <2> HIDE DEF losses
  <2> QED
    BY <2>1, <2>2 DEF ClientOK
<1>3. ChannelsOK' /\ PairsOK' /\ CalleeOK(callee') /\ RelayOK(relay')
  BY DEF ChannelsOK, PairsOK
<1>4. WindowsExact'
  BY <1>2, WindowsKept DEF history
<1> QED
  BY <1>1, <1>2, <1>3, <1>4

LEMMA ResumeInv ==
    ASSUME IInv, Resume
    PROVE  IInv'
<1> USE DEF IInv, TypeOK, Resume
<1>1. ClientOK(client') /\ client'.window = client.window
  <2> DEFINE leg == client.leg + 1
  <2>1. leg \in Nat /\ StreamOK(NewStream, Down)
    BY DEF ClientOK, StreamOK, NewStream
  <2>2. client' = [client EXCEPT !.connected = TRUE, !.leg = leg, !.stream = NewStream]
    OBVIOUS
  <2> HIDE DEF leg
  <2> QED
    BY <2>1, <2>2 DEF ClientOK
<1>2. RelayOK(relay')
  BY DEF RelayOK
<1>3. ChannelsOK' /\ PairsOK' /\ CalleeOK(callee')
  BY DEF ChannelsOK, PairsOK
<1>4. WindowsExact'
  BY <1>1, WindowsKept DEF history
<1> QED
  BY <1>1, <1>2, <1>3, <1>4

-----------------------------------------------------------------------------
(* The actions of the relay.                                                 *)

LEMMA EvictPairInv ==
    ASSUME IInv, NEW p \in pairs, EvictPair(p)
    PROVE  IInv'
<1> USE DEF IInv, TypeOK, EvictPair
<1>1. RelayOK(relay')
  <2> DEFINE evictions == relay.evictions - 1
  <2>1. evictions \in Nat
    BY DEF RelayOK
  <2>2. relay' = [relay EXCEPT !.evictions = evictions]
    OBVIOUS
  <2> HIDE DEF evictions
  <2> QED
    BY <2>1, <2>2 DEF RelayOK
<1>2. ChannelsOK' /\ PairsOK' /\ ClientOK(client') /\ CalleeOK(callee')
  BY DEF ChannelsOK, PairsOK
<1>3. WindowsExact'
  BY WindowsKept DEF history
<1> QED
  BY <1>1, <1>2, <1>3

(* The pair that a frame belongs to, or binds, after the frame. *)
LEMMA MarkDoneOK ==
    ASSUME PairsOK, NEW f,
           NEW p \in [relayID : Nat, dir : {"down", "up"}, mid : Nat, done : BOOLEAN],
           MarkDone(p, f)
    PROVE  PairsOK'
<1> DEFINE done == p.done \/ FullAck(f)
<1>1. done \in BOOLEAN
  OBVIOUS
<1>2. pairs' = (pairs \ {p}) \union {[p EXCEPT !.done = done]}
  BY DEF MarkDone
<1> HIDE DEF done
<1>3. [p EXCEPT !.done = done] \in [relayID : Nat, dir : {"down", "up"}, mid : Nat, done : BOOLEAN]
  BY <1>1, Zenon
<1> QED
  BY <1>2, <1>3 DEF PairsOK

(* completeRouteLocked keeps the routes well formed: a complete route needs  *)
(* no frames.                                                                *)
LEMMA CompletedOK ==
    ASSUME NEW r, RelayOK(r), NEW l, NEW f
    PROVE  RelayOK(Completed(r, l, f)) /\ Completed(r, l, f).legGen \in Nat
<1>1. CASE ~FullAck(f)
  BY <1>1 DEF Completed, RelayOK
<1>2. CASE FullAck(f) /\ l \notin DOMAIN r.routes
  <2>1. Completed(r, l, f) = [r EXCEPT !.routes = r.routes]
    BY <1>2, Zenon DEF Completed, RelayOK
  <2> QED
    BY <2>1 DEF RelayOK
<1>3. CASE FullAck(f) /\ l \in DOMAIN r.routes
  <2> DEFINE route == [r.routes[l] EXCEPT !.done = TRUE, !.cached = {}]
             routes == [r.routes EXCEPT ![l] = route]
  <2>1. Completed(r, l, f) = [r EXCEPT !.routes = routes]
    BY <1>3, Zenon DEF Completed, RelayOK
  <2>2. RouteOK(r.routes[l])
    BY <1>3 DEF RelayOK
  <2>3. FrameNumbers({}) = {} /\ IsFiniteSet({})
    BY FS_EmptySet DEF FrameNumbers
  <2>4. RouteOK(route)
    BY <2>2, <2>3, Zenon DEF RouteOK
  <2> HIDE DEF route
  <2>5. /\ DOMAIN routes = DOMAIN r.routes
        /\ routes = [i \in DOMAIN routes |-> routes[i]]
        /\ \A i \in DOMAIN routes : RouteOK(routes[i])
    BY <1>3, <2>4, Zenon DEF RelayOK
  <2> HIDE DEF routes
  <2> QED
    BY <2>1, <2>5 DEF RelayOK
<1> QED
  BY <1>1, <1>2, <1>3

(* A new route. *)
LEMMA WithRouteOK ==
    ASSUME NEW r, RelayOK(r), NEW l \in Nat, NEW route, RouteOK(route)
    PROVE  LET routes == WithRoute(r.routes, l, route)
           IN /\ routes = [i \in DOMAIN routes |-> routes[i]]
              /\ DOMAIN routes \subseteq Nat /\ IsFiniteSet(DOMAIN routes)
              /\ \A i \in DOMAIN routes : RouteOK(routes[i])
<1> DEFINE routes == WithRoute(r.routes, l, route)
<1>1. DOMAIN routes = DOMAIN r.routes \union {l}
  BY Zenon DEF WithRoute
<1>2. \A i \in DOMAIN routes : routes[i] = IF i = l THEN route ELSE r.routes[i]
  BY Zenon DEF WithRoute
<1>3. routes = [i \in DOMAIN routes |-> routes[i]]
  BY Zenon DEF WithRoute
<1>4. DOMAIN routes \subseteq Nat /\ IsFiniteSet(DOMAIN routes)
  <2>1. DOMAIN r.routes \subseteq Nat /\ IsFiniteSet(DOMAIN r.routes)
    BY Zenon DEF RelayOK
  <2>2. IsFiniteSet(DOMAIN r.routes \union {l})
    BY <2>1, FS_AddElement, Zenon
  <2> QED
    BY <1>1, <2>1, <2>2, Zenon
<1>5. \A i \in DOMAIN routes : RouteOK(routes[i])
  BY <1>1, <1>2 DEF RelayOK
<1> QED
  BY <1>3, <1>4, <1>5, Zenon

(* pumpRelayToClients writes a frame to the client as it came, under the id  *)
(* of its pair.                                                              *)
LEMMA PumpToClientOK ==
    ASSUME PairsOK, toClient \in Seq(Frame(Down)),
           NEW r, RelayOK(r), NEW l \in Nat, NEW f \in Frame(Down), NEW k,
           PumpToClient(r, l, f, k)
    PROVE  RelayOK(relay') /\ PairsOK' /\ toClient' \in Seq(Frame(Down))
<1>1. CASE ~client.connected
  BY <1>1 DEF PumpToClient, PairsOK
<1>2. CASE client.connected
  <2> DEFINE known == PairOf(l)
             Pair == [relayID : Nat, dir : {"down", "up"}, mid : Nat, done : BOOLEAN]
             p == IF known # {} THEN CHOOSE x \in known : TRUE
                  ELSE [relayID |-> l, dir |-> "down", mid |-> r.legGen + 1,
                        done |-> FALSE]
  <2>1. /\ relay' = IF known # {} THEN r ELSE [r EXCEPT !.legGen = @ + 1]
        /\ MarkDone(p, f)
        /\ toClient' = toClient \/ toClient' = Append(toClient, [f EXCEPT !.mid = p.mid])
    BY <1>2, Zenon DEF PumpToClient
  <2>2. known \subseteq Pair /\ r.legGen + 1 \in Nat
    BY DEF PairOf, PairsOK, RelayOK
  <2>3. p \in Pair
    BY <2>2
  <2>4. PairsOK'
    BY <2>1, <2>3, MarkDoneOK, Zenon
  <2>5. [f EXCEPT !.mid = p.mid] \in Frame(Down)
    BY <2>3, FrameKinds
  <2>6. toClient' \in Seq(Frame(Down))
    <3> DEFINE g == [f EXCEPT !.mid = p.mid]
    <3>1. g \in Frame(Down) /\ (toClient' = toClient \/ toClient' = Append(toClient, g))
      BY <2>1, <2>5
    <3> HIDE DEF g
    <3> QED
      BY <3>1
  <2>7. RelayOK(relay')
    <3> DEFINE gen == r.legGen + 1
    <3>1. gen \in Nat /\ (relay' = r \/ relay' = [r EXCEPT !.legGen = gen])
      BY <2>1, <2>2
    <3> HIDE DEF gen
    <3> QED
      BY <3>1, Zenon DEF RelayOK
  <2> QED
    BY <2>4, <2>6, <2>7
<1> QED
  BY <1>1, <1>2 DEF PumpToClient

LEMMA RelayToClientInv ==
    ASSUME IInv, NEW k \in Carriers, RelayToClient(k)
    PROVE  IInv'
<1> DEFINE f == Head(up[k])
<1>1. up[k] \in Seq(Frame(Down)) /\ up[k] # <<>>
  BY DEF RelayToClient, ChannelsOK, IInv, TypeOK
<1>2. f \in Frame(Down) /\ up' \in [Carriers -> Seq(Frame(Down))]
  BY <1>1 DEF RelayToClient, ChannelsOK, IInv, TypeOK
<1>3. RelayOK(relay') /\ PairsOK' /\ toClient' \in Seq(Frame(Down))
  <2>1. RelayOK(relay) /\ PairsOK /\ toClient \in Seq(Frame(Down))
    BY DEF IInv, TypeOK, ChannelsOK
  <2>2. CASE f.type = "data"
    <3> DEFINE known == IncomingIds(k, f.mid)
               l == IF known # {} THEN CHOOSE x \in known : TRUE
                    ELSE relay.logicalGen + 1
               route == [k |-> k, mid |-> f.mid, source |-> TRUE, done |-> FALSE,
                         cached |-> {}]
               routes == WithRoute(relay.routes, l, route)
               gen == relay.logicalGen + 1
               r == IF known # {} THEN relay
                    ELSE [relay EXCEPT !.logicalGen = gen, !.routes = routes]
    <3>1. PumpToClient(r, l, f, k)
      BY <2>2 DEF RelayToClient
    <3>2. l \in Nat /\ gen \in Nat
      BY <2>1, NumberFacts, Zenon DEF RelayOK, IncomingIds, RouteIds
    <3>3. RouteOK(route)
      <4>1. FrameNumbers({}) = {} /\ IsFiniteSet({}) /\ f.mid \in Nat
        BY <1>2, FrameKinds, FS_EmptySet DEF FrameNumbers
      <4> QED
        BY <4>1 DEF RouteOK
    <3>4. /\ routes = [i \in DOMAIN routes |-> routes[i]]
          /\ DOMAIN routes \subseteq Nat /\ IsFiniteSet(DOMAIN routes)
          /\ \A i \in DOMAIN routes : RouteOK(routes[i])
      <4> HIDE DEF l, route
      <4> QED
        BY <2>1, <3>2, <3>3, WithRouteOK, Zenon
    <3>5. RelayOK(r)
      <4> HIDE DEF gen, routes, known
      <4> QED
        BY <2>1, <3>2, <3>4, Zenon DEF RelayOK
    <3> QED
      BY <1>2, <2>1, <3>1, <3>2, <3>5, PumpToClientOK, Zenon
  <2>3. CASE f.type = "ack"
    <3>1. \/ UNCHANGED <<relay, pairs, toClient>>
          \/ \E l \in AckIds(k, f.mid) : PumpToClient(Completed(relay, l, f), l, f, k)
      BY <2>3 DEF RelayToClient
    <3>2. CASE UNCHANGED <<relay, pairs, toClient>>
      BY <2>1, <3>2, Zenon DEF PairsOK
    <3>3. ASSUME NEW l \in AckIds(k, f.mid), PumpToClient(Completed(relay, l, f), l, f, k)
          PROVE  RelayOK(relay') /\ PairsOK' /\ toClient' \in Seq(Frame(Down))
      <4>1. l \in Nat
        BY <2>1 DEF AckIds, RelayOK
      <4>2. RelayOK(Completed(relay, l, f))
        BY <2>1, CompletedOK
      <4> QED
        BY <1>2, <2>1, <3>3, <4>1, <4>2, PumpToClientOK, Zenon
    <3> QED
      BY <3>1, <3>2, <3>3, Zenon
  <2> QED
    BY <2>2, <2>3 DEF RelayToClient
<1>4. ChannelsOK' /\ ClientOK(client') /\ CalleeOK(callee') /\ send' = send
  BY <1>2, <1>3 DEF RelayToClient, ChannelsOK, IInv, TypeOK
<1>5. WindowsExact'
  BY WindowsKept DEF RelayToClient, IInv
<1> QED
  BY <1>3, <1>4, <1>5 DEF IInv, TypeOK

(* Data that a route caches. *)
LEMMA CachedOK ==
    ASSUME NEW r, RouteOK(r), NEW c \in Up \X Nat
    PROVE  RouteOK([r EXCEPT !.cached = @ \union {c}])
<1> DEFINE cached == r.cached \union {c}
<1>1. FrameNumbers(cached) = FrameNumbers(r.cached) \union {c[2]}
  BY DEF FrameNumbers
<1>2. IsFiniteSet(FrameNumbers(cached))
  <2>1. IsFiniteSet(FrameNumbers(r.cached))
    BY DEF RouteOK
  <2>2. IsFiniteSet(FrameNumbers(r.cached) \union {c[2]})
    BY <2>1, FS_AddElement
  <2> QED
    BY <1>1, <2>2
<1>3. cached \in SUBSET (Up \X Nat) /\ cached # {}
  BY DEF RouteOK
<1> HIDE DEF cached
<1>4. RouteOK([r EXCEPT !.cached = cached])
  BY <1>2, <1>3, SMTT(30) DEF RouteOK
<1> QED
  BY <1>4 DEF cached

(* handleFrameRun writes a frame from the client as it came, under the id of *)
(* its route.                                                                *)
LEMMA HandleFrameOK ==
    ASSUME ChannelsOK, NEW r, RelayOK(r), r.routes = relay.routes,
           NEW l \in Nat, NEW f \in Frame(Up), HandleFrame(r, l, f)
    PROVE  RelayOK(relay') /\ down' \in [Carriers -> Seq(Frame(Up))]
<1>1. CASE l \notin RouteIds /\ f.type = "ack"
  BY <1>1 DEF HandleFrame, ChannelsOK
<1>2. CASE l \notin RouteIds /\ f.type = "data"
  <2>1. PICK k \in alive :
            LET mid == r.carrierGen[k] + 1
            IN
             /\ relay' = [r EXCEPT
                    !.carrierGen[k] = mid,
                    !.routes = WithRoute(@, l, [k |-> k, mid |-> mid, source |-> FALSE,
                        done |-> FALSE, cached |-> {<<f.msg, f.seq>>}]),
                    !.ackIDs = @ \union {[k |-> k, mid |-> mid, l |-> l]}]
             /\ down' = [down EXCEPT ![k] = Append(@, [f EXCEPT !.mid = mid])]
    BY <1>2, Zenon DEF HandleFrame
  <2> DEFINE mid == r.carrierGen[k] + 1
             c == <<f.msg, f.seq>>
             route == [k |-> k, mid |-> mid, source |-> FALSE, done |-> FALSE,
                       cached |-> {c}]
             routes == WithRoute(r.routes, l, route)
             gen == [r.carrierGen EXCEPT ![k] = mid]
             ackIDs == r.ackIDs \union {[k |-> k, mid |-> mid, l |-> l]}
  <2>2. k \in Carriers /\ mid \in Nat /\ gen \in [Carriers -> Nat]
    BY DEF ChannelsOK, RelayOK
  <2>3. c \in Up \X Nat /\ [f EXCEPT !.mid = mid] \in Frame(Up)
    <3>1. f.msg \in Up /\ f.seq \in Nat
      <4>1. f \in DataFrame(Up)
        BY <1>2, <2>1, FrameKinds, Zenon
      <4> QED
        BY <4>1, Zenon DEF DataFrame
    <3>2. [f EXCEPT !.mid = mid] \in Frame(Up)
      BY <1>2, <2>2, FrameKinds, Zenon
    <3> QED
      BY <3>1, <3>2, Zenon
  <2>4. RouteOK(route)
    <3>1. {c} \in SUBSET (Up \X Nat) /\ {c} # {}
      BY <2>3
    <3> HIDE DEF c, mid
    <3>2. FrameNumbers({c}) = {c[2]}
      BY DEF FrameNumbers
    <3>3. IsFiniteSet(FrameNumbers({c}))
      BY <3>2, FS_Singleton, Zenon
    <3> QED
      BY <2>2, <3>1, <3>3 DEF RouteOK
  <2>5. /\ routes = [i \in DOMAIN routes |-> routes[i]]
        /\ DOMAIN routes \subseteq Nat /\ IsFiniteSet(DOMAIN routes)
        /\ \A i \in DOMAIN routes : RouteOK(routes[i])
    <3> HIDE DEF route
    <3> QED
      BY <2>4, WithRouteOK, Zenon
  <2>6. ackIDs \subseteq [k : Carriers, mid : Nat, l : Nat]
    BY <2>2 DEF RelayOK
  <2>7. relay' = [r EXCEPT !.carrierGen = gen, !.routes = routes, !.ackIDs = ackIDs]
    BY <2>1 DEF RelayOK
  <2>8. RelayOK(relay')
    <3> HIDE DEF gen, routes, ackIDs
    <3> QED
      BY <2>2, <2>5, <2>6, <2>7, Zenon DEF RelayOK
  <2>9. down' \in [Carriers -> Seq(Frame(Up))]
    <3> DEFINE g == [f EXCEPT !.mid = mid]
    <3>1. g \in Frame(Up) /\ down' = [down EXCEPT ![k] = Append(@, g)]
      BY <2>1, <2>3, Zenon
    <3> HIDE DEF g
    <3> QED
      BY <2>2, <3>1 DEF ChannelsOK
  <2> QED
    BY <2>8, <2>9, SMTT(30)
<1>3. CASE l \in RouteIds
  <2> DEFINE route == r.routes[l]
             kept == IF f.type = "data" /\ ~route.done
                     THEN [r EXCEPT !.routes[l].cached = @ \union {<<f.msg, f.seq>>}]
                     ELSE r
  <2>1. /\ relay' = Completed(kept, l, f)
        /\ down' = [down EXCEPT ![route.k] = Append(@, [f EXCEPT !.mid = route.mid])]
    BY <1>3, Zenon DEF HandleFrame
  <2>2. l \in DOMAIN r.routes /\ RouteOK(route)
    BY <1>3 DEF RelayOK, RouteIds
  <2>3. RelayOK(kept)
    <3>1. CASE f.type = "data" /\ ~route.done
      <4> DEFINE c == <<f.msg, f.seq>>
                 new == [route EXCEPT !.cached = @ \union {c}]
                 routes == [r.routes EXCEPT ![l] = new]
      <4>1. c \in Up \X Nat
        BY <3>1, FrameKinds DEF DataFrame
      <4>2. RouteOK(new)
        BY <2>2, <4>1, CachedOK
      <4>3. kept = [r EXCEPT !.routes = routes]
        BY <2>2, <3>1, Zenon DEF RelayOK
      <4> HIDE DEF new
      <4>4. /\ DOMAIN routes = DOMAIN r.routes
            /\ routes = [i \in DOMAIN routes |-> routes[i]]
            /\ \A i \in DOMAIN routes : RouteOK(routes[i])
        BY <2>2, <4>2, Zenon DEF RelayOK
      <4> HIDE DEF routes, kept
      <4> QED
        BY <4>3, <4>4 DEF RelayOK
    <3>2. CASE ~(f.type = "data" /\ ~route.done)
      BY <3>2, Zenon
    <3> QED
      BY <3>1, <3>2
  <2>4. RelayOK(relay')
    BY <2>1, <2>3, CompletedOK, Zenon
  <2>5. down' \in [Carriers -> Seq(Frame(Up))]
    <3> DEFINE g == [f EXCEPT !.mid = route.mid]
               k == route.k
    <3>1. g \in Frame(Up) /\ k \in Carriers /\ down' = [down EXCEPT ![k] = Append(@, g)]
      BY <2>1, <2>2, FrameKinds, Zenon DEF RouteOK
    <3> HIDE DEF g, k
    <3> QED
      BY <3>1 DEF ChannelsOK
  <2> QED
    BY <2>4, <2>5, Zenon
<1> QED
  BY <1>1, <1>2, <1>3, Zenon DEF HandleFrame

LEMMA RelayToCalleeInv ==
    ASSUME IInv, RelayToCallee
    PROVE  IInv'
<1> DEFINE f == Head(toRelay)
           Pair == [relayID : Nat, dir : {"down", "up"}, mid : Nat, done : BOOLEAN]
           known == ClientPair(IF f.type = "data" THEN "up" ELSE "down", f.mid)
<1>1. toRelay \in Seq(Frame(Up)) /\ toRelay # <<>>
  BY DEF RelayToCallee, ChannelsOK, IInv, TypeOK
<1>2. f \in Frame(Up) /\ toRelay' \in Seq(Frame(Up))
  BY <1>1 DEF RelayToCallee
<1>3. RelayOK(relay) /\ ChannelsOK /\ PairsOK
  BY DEF IInv, TypeOK
<1>4. RelayOK(relay') /\ PairsOK' /\ down' \in [Carriers -> Seq(Frame(Up))]
  <2>1. CASE UNCHANGED <<relay, pairs, down>>
    BY <1>3, <2>1, Zenon DEF PairsOK, ChannelsOK
  <2>2. CASE /\ pairs' = pairs \union {[relayID |-> relay.logicalGen + 1, dir |-> "up",
                                        mid |-> f.mid, done |-> FALSE]}
             /\ HandleFrame([relay EXCEPT !.logicalGen = relay.logicalGen + 1],
                            relay.logicalGen + 1, f)
    <3> DEFINE l == relay.logicalGen + 1
               r == [relay EXCEPT !.logicalGen = l]
    <3>1. l \in Nat /\ f.mid \in Nat
      BY <1>2, <1>3, FrameKinds DEF RelayOK
    <3>2. PairsOK'
      <4> DEFINE p == [relayID |-> l, dir |-> "up", mid |-> f.mid, done |-> FALSE]
      <4>1. p \in Pair
        <5> HIDE DEF l, f
        <5> QED
          BY <3>1
      <4>2. pairs' = pairs \union {p}
        BY <2>2
      <4> HIDE DEF p
      <4> QED
        BY <1>3, <4>1, <4>2, Zenon DEF PairsOK
    <3>3. HandleFrame(r, l, f)
      BY <2>2
    <3>4. RelayOK(r) /\ r.routes = relay.routes
      <4> HIDE DEF l
      <4> QED
        BY <1>3, <3>1, Zenon DEF RelayOK
    <3> HIDE DEF l, r, f
    <3> QED
      BY <1>2, <1>3, <3>1, <3>2, <3>3, <3>4, HandleFrameOK, Zenon
  <2>3. ASSUME NEW p \in known, MarkDone(p, f), HandleFrame(relay, p.relayID, f)
        PROVE  RelayOK(relay') /\ PairsOK' /\ down' \in [Carriers -> Seq(Frame(Up))]
    <3>1. p \in Pair /\ p.relayID \in Nat
      BY <1>3 DEF ClientPair, PairsOK
    <3> HIDE DEF f
    <3> QED
      BY <1>2, <1>3, <2>3, <3>1, MarkDoneOK, HandleFrameOK, Zenon
  <2> QED
    BY <2>1, <2>2, <2>3, Zenon DEF RelayToCallee
<1>5. ChannelsOK' /\ ClientOK(client') /\ CalleeOK(callee') /\ send' = send
  BY <1>2, <1>3, <1>4 DEF RelayToCallee, ChannelsOK, IInv, TypeOK
<1>6. WindowsExact'
  BY WindowsKept, Zenon DEF RelayToCallee, IInv
<1> QED
  BY <1>4, <1>5, <1>6, Zenon DEF IInv, TypeOK

(* The frames a route has cached are data of the client's messages, and an   *)
(* unanswered route has some.                                                *)
LEMMA JobType ==
    ASSUME RelayOK(relay), NEW l \in RouteIds, NEW k \in Carriers, NEW mid \in Nat,
           NEW quality \in BOOLEAN, ~relay.routes[l].source, ~relay.routes[l].done
    PROVE  JobOK(Job(l, k, mid, quality))
<1> DEFINE route == relay.routes[l]
           c == CHOOSE x \in route.cached : TRUE
<1>1. RouteOK(route) /\ l \in Nat
  BY Zenon DEF RelayOK, RouteIds
<1>2. route.cached # {} /\ route.cached \subseteq Up \X Nat
  BY <1>1 DEF RouteOK
<1>3. c \in Up \X Nat
  BY <1>2, Zenon
<1>4. /\ FrameNumbers(route.cached) \in SUBSET Nat
      /\ IsFiniteSet(FrameNumbers(route.cached))
      /\ FrameNumbers(route.cached) # {}
  BY <1>1, <1>2, ZenonT(30) DEF FrameNumbers, RouteOK
<1>5. Replay(route, mid) = FramesOf(mid, c[1], FrameNumbers(route.cached))
  BY <1>2 DEF Replay, FrameNumbers
<1>6. c[1] \in Up
  BY <1>3
<1> HIDE DEF c, route
<1>7. Replay(route, mid) \in Seq(Frame(Up)) /\ Replay(route, mid) # <<>>
  BY <1>4, <1>5, <1>6, FramesOfType, Zenon
<1> QED
  BY <1>1, <1>7, Zenon DEF Job, JobOK, route

LEMMA WriteJobInv ==
    ASSUME IInv, NEW job \in relay.jobs, WriteJob(job)
    PROVE  IInv'
<1>1. RelayOK(relay) /\ ChannelsOK /\ PairsOK /\ JobOK(job)
  BY Zenon DEF IInv, TypeOK, RelayOK
<1>2. /\ job.k \in Carriers /\ Head(job.frames) \in Frame(Up)
      /\ Tail(job.frames) \in Seq(Frame(Up))
      /\ Len(job.frames) # 1 => Tail(job.frames) # <<>>
  <2> DEFINE s == job.frames
  <2>1. job.k \in Carriers /\ s \in Seq(Frame(Up)) /\ s # <<>>
    BY <1>1 DEF JobOK
  <2> HIDE DEF s
  <2>2. Head(s) \in Frame(Up) /\ Tail(s) \in Seq(Frame(Up)) /\ Len(Tail(s)) = Len(s) - 1
    BY <2>1
  <2>3. Len(s) # 1 => Tail(s) # <<>>
    <3>1. Len(s) \in Nat /\ (Len(s) # 1 => Len(Tail(s)) # 0)
      BY <2>1, <2>2
    <3>2. Tail(s) = <<>> => Len(Tail(s)) = 0
      <4>1. Len(<<>>) = 0
        OBVIOUS
      <4> QED
        BY <4>1, Zenon
    <3> QED
      BY <3>1, <3>2, Zenon
  <2> QED
    BY <2>1, <2>2, <2>3, Zenon DEF s
<1>3. down' \in [Carriers -> Seq(Frame(Up))]
  <2>1. CASE Obsolete(job)
    BY <1>1, <2>1, Zenon DEF WriteJob, ChannelsOK
  <2>2. CASE ~Obsolete(job)
    <3> DEFINE g == Head(job.frames)
    <3>1. down' = [down EXCEPT ![job.k] = Append(@, g)] /\ g \in Frame(Up)
      BY <1>2, <2>2 DEF WriteJob
    <3> HIDE DEF g
    <3> QED
      BY <1>1, <1>2, <3>1 DEF ChannelsOK
  <2> QED
    BY <2>1, <2>2
<1>4. RelayOK(relay')
  <2> DEFINE rest == [job EXCEPT !.frames = Tail(@)]
  <2>1. Len(job.frames) # 1 => JobOK(rest)
    BY <1>1, <1>2, Zenon DEF JobOK
  <2>2. PICK jobs : /\ relay' = [relay EXCEPT !.jobs = jobs]
                    /\ \A j \in jobs : j \in relay.jobs \/ (j = rest /\ Len(job.frames) # 1)
    <3>1. CASE Obsolete(job)
      BY <3>1 DEF WriteJob
    <3>2. CASE ~Obsolete(job)
      BY <3>2, ZenonT(30) DEF WriteJob
    <3> QED
      BY <3>1, <3>2, Zenon
  <2>3. \A j \in jobs : JobOK(j)
    BY <1>1, <2>1, <2>2, Zenon DEF RelayOK
  <2> QED
    BY <1>1, <2>2, <2>3 DEF RelayOK
<1>5. ChannelsOK' /\ PairsOK' /\ ClientOK(client') /\ CalleeOK(callee') /\ send' = send
  BY <1>1, <1>3 DEF WriteJob, ChannelsOK, PairsOK, IInv, TypeOK
<1>6. WindowsExact'
  BY WindowsKept DEF WriteJob, history, IInv
<1> QED
  BY <1>4, <1>5, <1>6, Zenon DEF IInv, TypeOK

LEMMA QualityReplayInv ==
    ASSUME IInv, NEW l \in RouteIds, QualityReplay(l)
    PROVE  IInv'
<1> DEFINE route == relay.routes[l]
<1>1. RelayOK(relay) /\ ChannelsOK /\ PairsOK /\ RouteOK(route) /\ l \in Nat
  BY DEF IInv, TypeOK, RelayOK, RouteIds
<1>2. PICK k \in alive \ KCP :
        LET mid == relay.carrierGen[k] + 1
        IN relay' = [relay EXCEPT !.carrierGen[k] = mid,
                       !.routes[l] = [@ EXCEPT !.k = k, !.mid = mid],
                       !.ackIDs = @ \union {[k |-> k, mid |-> mid, l |-> l]},
                       !.jobs = @ \union {Job(l, k, mid, TRUE)}]
  BY Zenon DEF QualityReplay
<1>3. RelayOK(relay')
  <2> DEFINE mid == relay.carrierGen[k] + 1
             gen == [relay.carrierGen EXCEPT ![k] = mid]
             new == [route EXCEPT !.k = k, !.mid = mid]
             routes == [relay.routes EXCEPT ![l] = new]
             ackIDs == relay.ackIDs \union {[k |-> k, mid |-> mid, l |-> l]}
             jobs == relay.jobs \union {Job(l, k, mid, TRUE)}
  <2>1. k \in Carriers /\ mid \in Nat /\ gen \in [Carriers -> Nat]
    BY <1>1 DEF ChannelsOK, RelayOK
  <2>2. relay' = [relay EXCEPT !.carrierGen = gen, !.routes = routes,
                               !.ackIDs = ackIDs, !.jobs = jobs]
    BY <1>1, <1>2 DEF RelayOK, RouteIds
  <2>3. RouteOK(new)
    <3> HIDE DEF mid, route
    <3> QED
      BY <1>1, <2>1, Zenon DEF RouteOK
  <2>4. /\ DOMAIN routes = DOMAIN relay.routes
        /\ routes = [i \in DOMAIN routes |-> routes[i]]
        /\ \A i \in DOMAIN routes : RouteOK(routes[i])
    <3> HIDE DEF new
    <3> QED
      BY <1>1, <2>3, Zenon DEF RelayOK, RouteIds
  <2>5. ackIDs \subseteq [k : Carriers, mid : Nat, l : Nat]
    BY <1>1, <2>1 DEF RelayOK
  <2>6. \A j \in jobs : JobOK(j)
    <3>1. JobOK(Job(l, k, mid, TRUE))
      BY <1>1, <2>1, JobType, Zenon DEF QualityReplay
    <3> QED
      BY <1>1, <3>1, Zenon DEF RelayOK
  <2> HIDE DEF gen, routes, ackIDs, jobs
  <2> QED
    BY <1>1, <2>1, <2>2, <2>4, <2>5, <2>6, Zenon DEF RelayOK
<1>4. ChannelsOK' /\ PairsOK' /\ ClientOK(client') /\ CalleeOK(callee') /\ send' = send
  BY <1>1 DEF QualityReplay, ChannelsOK, PairsOK, IInv, TypeOK
<1>5. WindowsExact'
  BY WindowsKept, Zenon DEF QualityReplay, IInv
<1> QED
  BY <1>3, <1>4, <1>5, Zenon DEF IInv, TypeOK

LEMMA LoseCarrierInv ==
    ASSUME IInv, NEW k \in Carriers, NEW target \in Carriers, LoseCarrier(k, target)
    PROVE  IInv'
<1> DEFINE onCarrier == {l \in RouteIds : relay.routes[l].k = k}
           moved == {l \in onCarrier : ~relay.routes[l].source /\ ~relay.routes[l].done}
           left == (RouteIds \ onCarrier) \union moved
<1>1. RelayOK(relay) /\ ChannelsOK /\ PairsOK
  BY SMTT(30) DEF IInv, TypeOK
<1>2. PICK rank \in Bijection(moved, 1..Cardinality(moved)) :
        LET mid(l) == relay.carrierGen[target] + rank[l]
        IN relay' = [relay EXCEPT
                !.carrierGen[target] = @ + Cardinality(moved),
                !.routes = [l \in left |->
                    IF l \in moved
                    THEN [relay.routes[l] EXCEPT !.k = target, !.mid = mid(l)]
                    ELSE relay.routes[l]],
                !.ackIDs = {a \in @ : a.k # k /\ a.l \in left}
                    \union {[k |-> target, mid |-> mid(l), l |-> l] : l \in moved},
                !.jobs = {job \in @ : job.k # k}
                    \union {Job(l, target, mid(l), FALSE) : l \in moved}]
  BY Zenon DEF LoseCarrier
<1>3. RelayOK(relay')
  <2> DEFINE mid(l) == relay.carrierGen[target] + rank[l]
             gen == [relay.carrierGen EXCEPT ![target] = @ + Cardinality(moved)]
             new(l) == [relay.routes[l] EXCEPT !.k = target, !.mid = mid(l)]
             routes == [l \in left |-> IF l \in moved THEN new(l) ELSE relay.routes[l]]
             ackIDs == {a \in relay.ackIDs : a.k # k /\ a.l \in left}
                         \union {[k |-> target, mid |-> mid(l), l |-> l] : l \in moved}
             jobs == {job \in relay.jobs : job.k # k}
                       \union {Job(l, target, mid(l), FALSE) : l \in moved}
  <2>1. relay' = [relay EXCEPT !.carrierGen = gen, !.routes = routes,
                               !.ackIDs = ackIDs, !.jobs = jobs]
    BY <1>1, <1>2, SMTT(30) DEF RelayOK
  <2>2. /\ left \subseteq RouteIds /\ moved \subseteq RouteIds /\ moved \subseteq left
        /\ RouteIds \subseteq Nat /\ IsFiniteSet(RouteIds)
    BY <1>1, Zenon DEF RelayOK, RouteIds
  <2>3. IsFiniteSet(left) /\ IsFiniteSet(moved) /\ Cardinality(moved) \in Nat
    BY <2>2, FS_Subset, FS_CardinalityType, ZenonT(30)
  <2>4. gen \in [Carriers -> Nat]
    <3>1. relay.carrierGen \in [Carriers -> Nat]
      BY <1>1, Zenon DEF RelayOK
    <3> HIDE DEF moved
    <3> QED
      BY <2>3, <3>1, AddTo, Zenon
  <2>5. \A l \in moved : mid(l) \in Nat
    <3>1. rank \in [moved -> 1..Cardinality(moved)]
      BY DEF Bijection, Injection
    <3>2. relay.carrierGen[target] \in Nat
      BY <1>1, Zenon DEF RelayOK
    <3> HIDE DEF moved
    <3> QED
      BY <2>3, <3>1, <3>2, AddRank, Zenon
  <2>6. \A l \in moved : RouteOK(new(l))
    <3> SUFFICES ASSUME NEW l \in moved
                 PROVE  RouteOK(new(l))
      BY Zenon
    <3>1. RouteOK(relay.routes[l]) /\ mid(l) \in Nat
      BY <1>1, <2>2, <2>5, Zenon DEF RelayOK, RouteIds
    <3> HIDE DEF mid
    <3> QED
      BY <3>1, ZenonT(30) DEF RouteOK
  <2>7. /\ DOMAIN routes = left
        /\ routes = [l \in left |-> routes[l]]
        /\ \A l \in left : RouteOK(routes[l])
    <3>1. \A l \in left : RouteOK(relay.routes[l])
      BY <1>1, <2>2, Zenon DEF RelayOK, RouteIds
    <3> HIDE DEF new, left, moved
    <3> QED
      BY <2>6, <3>1, Zenon
  <2>8. ackIDs \subseteq [k : Carriers, mid : Nat, l : Nat]
    <3>1. \A l \in moved : l \in Nat
      BY <2>2
    <3> HIDE DEF mid, moved, left
    <3>2. relay.ackIDs \subseteq [k : Carriers, mid : Nat, l : Nat]
      BY <1>1, Zenon DEF RelayOK
    <3>3. \A l \in moved : [k |-> target, mid |-> mid(l), l |-> l] \in [k : Carriers, mid : Nat, l : Nat]
      BY <2>5, <3>1, Zenon
    <3> QED
      BY <3>2, <3>3, Zenon
  <2>9. \A j \in jobs : JobOK(j)
    <3>1. ASSUME NEW l \in moved
          PROVE  JobOK(Job(l, target, mid(l), FALSE))
      <4>1. l \in RouteIds /\ ~relay.routes[l].source /\ ~relay.routes[l].done
        BY Zenon
      <4>2. mid(l) \in Nat
        BY <2>5
      <4> HIDE DEF mid
      <4> QED
        BY <1>1, <4>1, <4>2, JobType, ZenonT(30)
    <3> HIDE DEF mid, moved
    <3> QED
      BY <1>1, <3>1, Zenon DEF RelayOK
  <2> HIDE DEF gen, routes, ackIDs, jobs, left
  <2> QED
    BY <1>1, <2>1, <2>2, <2>3, <2>4, <2>7, <2>8, <2>9, Zenon DEF RelayOK
<1>4. ChannelsOK'
  <2>1. <<>> \in Seq(Frame(Down)) /\ <<>> \in Seq(Frame(Up))
    OBVIOUS
  <2> QED
    BY <1>1, <2>1, Zenon DEF LoseCarrier, ChannelsOK
<1>5. CalleeOK(callee') /\ callee'.window = callee.window
  <2> DEFINE inbound == {i \in callee.inbound : i[2] # k}
  <2>1. callee' = [callee EXCEPT !.inbound = inbound]
    BY ZenonT(30) DEF LoseCarrier
  <2> HIDE DEF inbound
  <2> QED
    BY <2>1, SMTT(30) DEF IInv, TypeOK, CalleeOK
<1>6. PairsOK' /\ ClientOK(client') /\ send' = send
  BY ZenonT(30) DEF LoseCarrier, PairsOK, IInv, TypeOK
<1>7. WindowsExact'
  BY <1>5, WindowsKept, Zenon DEF LoseCarrier, IInv
<1> QED
  BY <1>3, <1>4, <1>5, <1>6, <1>7, Zenon DEF IInv, TypeOK

-----------------------------------------------------------------------------
(* The behaviours of the specification.                                      *)

LEMMA InitInv == Init => IInv
<1> SUFFICES ASSUME Init PROVE IInv
  BY SMTT(30)
<1>1. PICK w \in Workloads :
          /\ send = [m \in Messages |-> NewSend(w, m)]
          /\ callee = [open |-> TRUE, gen |-> 0, out |-> <<>>, window |-> EmptyWindow,
                       stream |-> NewStream, inbound |-> {}, drops |-> w.drops]
          /\ client = [connected |-> TRUE, leg |-> 1, window |-> EmptyWindow,
                       stream |-> NewStream, losses |-> w.losses]
          /\ relay = [logicalGen |-> 0, legGen |-> 0, carrierGen |-> [k \in Carriers |-> 0],
                      routes |-> [l \in {} |-> 0], ackIDs |-> {}, jobs |-> {},
                      evictions |-> w.evictions]
  BY Zenon DEF Init
<1>2. /\ w.drops \in Nat /\ w.losses \in Nat /\ w.evictions \in Nat
      /\ \A m \in DOMAIN w.sends : w.sends[m] \in [sends : Nat, retransmits : Nat]
  BY TransferAssumption
<1>3. Represents(EmptyWindow, {}) /\ EmptyWindow \in WindowState
  BY EmptyRepresents, Zenon DEF Represents, WindowState
<1>4. \A M : StreamOK(NewStream, M)
  BY DEF StreamOK, NewStream
<1>5. send \in [Messages -> SendState]
  <2> SUFFICES ASSUME NEW m \in Messages
               PROVE  NewSend(w, m) \in SendState
    BY <1>1
  <2> DEFINE bound == IF m \in DOMAIN w.sends THEN w.sends[m]
                      ELSE [sends |-> 0, retransmits |-> 0]
             pc == IF m \in DOMAIN w.sends THEN "new" ELSE "none"
  <2>1. bound \in [sends : Nat, retransmits : Nat] /\ pc \in {"new", "none"}
    BY <1>2, Zenon
  <2>2. NewSend(w, m) = [pc |-> pc, mid |-> 0, acked |-> {}, tries |-> bound.retransmits,
                         sends |-> bound.sends, bound |-> bound]
    BY Zenon DEF NewSend
  <2> HIDE DEF bound, pc
  <2> QED
    BY <2>1, <2>2, NewSendType, Zenon
<1>6. CalleeOK(callee)
  BY <1>1, <1>2, <1>3, <1>4, NumberFacts, EmptySequence, Zenon DEF CalleeOK
<1>7. ClientOK(client)
  BY <1>1, <1>2, <1>3, <1>4, Zenon DEF ClientOK
<1>8. RelayOK(relay)
  BY <1>1, <1>2, FS_EmptySet, Zenon DEF RelayOK
<1>9. ChannelsOK /\ PairsOK
  BY DEF Init, ChannelsOK, PairsOK
<1>10. WindowsExact
  <2>1. given = [m \in Messages |-> 0]
    BY Zenon DEF Init
  <2>2. Given(Down) = {} /\ Given(Up) = {}
    BY <2>1, MessageFacts, NumberFacts, Zenon DEF Given
  <2>3. client.window = EmptyWindow /\ callee.window = EmptyWindow
    BY <1>1, SMTT(30)
  <2> QED
    BY <1>3, <2>1, <2>2, <2>3, Zenon DEF WindowsExact
<1> QED
  BY <1>5, <1>6, <1>7, <1>8, <1>9, <1>10, Zenon DEF IInv, TypeOK

LEMMA NextInv == IInv /\ [Next]_vars => IInv'
<1> SUFFICES ASSUME IInv, [Next]_vars PROVE IInv'
  OBVIOUS
<1>1. CASE \E m \in Down : CalleeSend(m) \/ CalleeTimeout(m)
  BY <1>1, CalleeSendInv, CalleeTimeoutInv
<1>2. CASE \E k \in Carriers : \/ MuxWrite(k) \/ CalleeReceive(k) \/ MuxOverflow(k)
                               \/ RelayToClient(k)
                               \/ \E target \in Carriers : LoseCarrier(k, target)
  BY <1>2, MuxWriteInv, CalleeReceiveInv, MuxOverflowInv, RelayToClientInv, LoseCarrierInv, Zenon
<1>3. CASE \E mid \in callee.stream.due, k \in Carriers : CalleePartialAck(mid, k)
  BY <1>3, CalleePartialAckInv
<1>4. CASE \E mid \in client.stream.due : ClientPartialAck(mid)
  BY <1>4, ClientPartialAckInv
<1>5. CASE RelayToCallee \/ ClientReceive \/ LoseLeg \/ Resume
  BY <1>5, RelayToCalleeInv, ClientReceiveInv, LoseLegInv, ResumeInv, Zenon
<1>6. CASE \E p \in pairs : EvictPair(p)
  BY <1>6, EvictPairInv
<1>7. CASE \E l \in RouteIds : QualityReplay(l)
  BY <1>7, QualityReplayInv
<1>8. CASE \E job \in relay.jobs : WriteJob(job)
  BY <1>8, WriteJobInv, Zenon
<1>9. CASE \E m \in Up : ClientSend(m) \/ ClientTimeout(m)
  BY <1>9, ClientSendInv, ClientTimeoutInv
<1>10. CASE UNCHANGED vars
  <2>1. ChannelsOK' /\ PairsOK'
    BY <1>10, Zenon DEF vars, ChannelsOK, PairsOK, IInv, TypeOK
  <2>2. WindowsExact'
    BY <1>10, WindowsKept DEF vars, IInv
  <2> QED
    BY <1>10, <2>1, <2>2, Zenon DEF vars, IInv, TypeOK
<1> QED
  BY <1>1, <1>2, <1>3, <1>4, <1>5, <1>6, <1>7, <1>8, <1>9, <1>10, Zenon DEF Next

(* Frames never change their direction: whatever a carrier, a leg, a queue,  *)
(* a replay job or a route's cache holds is of the messages that travel that *)
(* way, and the windows have observed exactly the records that have been     *)
(* given (handleData, e2eReplayWindow.observe, replayRoute).                 *)
THEOREM WindowsMatchApplications == Spec => [](TypeOK /\ WindowsExact)
  BY InitInv, NextInv, PTL DEF Spec, IInv

(* No application is given a record twice, although retransmission, replay   *)
(* by the relay and the client's DualStream all send copies of a record      *)
(* under new ids (observe in the decrypting end of the stream).              *)
THEOREM RecordsGivenAtMostOnce == Spec => []AtMostOnce
<1>1. IInv => AtMostOnce
  BY DEF IInv, WindowsExact, AtMostOnce
<1> QED
  BY <1>1, InitInv, NextInv, PTL DEF Spec

=============================================================================
