---------------------------- MODULE RelayFailover ----------------------------
(***************************************************************************)
(* relayFailoverState of the NAT node: which relay candidate every stream  *)
(* of the node dials next.  TCP dial failures move on to the next          *)
(* candidate; every move, and every new candidate list, is a generation    *)
(* and closes the change channel of the generation before it.  A watcher   *)
(* that fetched its channel in generation g is woken iff generation > g.   *)
(***************************************************************************)
EXTENDS Naturals, Sequences

CONSTANTS CandidateLists,   \* the relay lists the selector may install
          RetriesPerRelay,  \* relayReconnectAttemptsPerAddress
          MaxGeneration     \* bound: generations explored

ASSUME FailoverAssumption ==
    /\ \A list \in CandidateLists : list \in Seq(STRING)
    /\ RetriesPerRelay \in Nat /\ MaxGeneration \in Nat \ {0}

VARIABLES candidates, current, failures, generation

failoverVars == <<candidates, current, failures, generation>>

FailoverInit == /\ candidates \in CandidateLists
                /\ current = 1
                /\ failures = 0
                /\ generation = 1

HasTarget == current <= Len(candidates)

\* currentTarget; meaningful when HasTarget.
CurrentTarget == [relay |-> candidates[current], generation |-> generation]

\* The relay new dials go to, "none" when there is no candidate.
CurrentRelay == IF HasTarget THEN candidates[current] ELSE "none"

Stale(target) == \/ target.generation # generation
                 \/ ~HasTarget
                 \/ candidates[current] # target.relay

ReportSuccess(target) ==
    IF Stale(target)
      THEN UNCHANGED failoverVars
      ELSE /\ failures' = 0
           /\ UNCHANGED <<candidates, current, generation>>

\* The last failure a relay is granted moves on to the next one, cyclically.
ReportFailure(target) ==
    IF Stale(target)
      THEN UNCHANGED failoverVars
      ELSE IF failures + 1 < RetriesPerRelay
        THEN /\ failures' = failures + 1
             /\ UNCHANGED <<candidates, current, generation>>
        ELSE /\ generation < MaxGeneration
             /\ current' = IF current = Len(candidates) THEN 1 ELSE current + 1
             /\ failures' = 0
             /\ generation' = generation + 1
             /\ UNCHANGED candidates

SetCandidates(list) ==
    /\ generation < MaxGeneration
    /\ candidates' = list
    /\ current' = 1
    /\ failures' = 0
    /\ generation' = generation + 1

FailoverTypeOK ==
    /\ candidates \in CandidateLists
    /\ current \in 1 .. Len(candidates) + 1
    /\ failures \in 0 .. RetriesPerRelay
    /\ generation \in 1 .. MaxGeneration
=============================================================================
