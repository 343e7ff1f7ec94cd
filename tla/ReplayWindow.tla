---------------------------- MODULE ReplayWindow ----------------------------
(* The end-to-end replay window (networkFrameWork/e2e_replay.go): a ring of  *)
(* WindowSize bits, indexed by the record number modulo the size, and the    *)
(* highest number seen. The session a record belongs to is fixed, and record *)
(* numbers are positive.                                                     *)
EXTENDS Integers

CONSTANT WindowSize

ASSUME WindowAssumption == WindowSize \in Nat \ {0}

Slots == 0..(WindowSize - 1)

replayWindowSlot(sequence) == sequence % WindowSize

EmptyWindow == [highest |-> 0, seen |-> [i \in Slots |-> FALSE]]

(* Clears the slots of the numbers between the old and the new highest one.  *)
advance(window, sequence) ==
    [highest |-> sequence,
     seen |-> [i \in Slots |->
        /\ sequence - window.highest < WindowSize
        /\ window.seen[i]
        /\ \A n \in (window.highest + 1)..sequence : replayWindowSlot(n) # i]]

(* A number that the window reports as seen: marked, or too old to be known. *)
duplicate(window, sequence) ==
    /\ sequence <= window.highest
    /\ \/ window.highest - sequence >= WindowSize
       \/ window.seen[replayWindowSlot(sequence)]

\* The record is not marked.
observeForgets(window, sequence) ==
    IF sequence > window.highest THEN advance(window, sequence) ELSE window

(* The window after the record has been observed. *)
observe(window, sequence) ==
    IF duplicate(window, sequence)
    THEN window
    ELSE LET advanced == IF sequence > window.highest
                         THEN advance(window, sequence) ELSE window
         IN [advanced EXCEPT !.seen[replayWindowSlot(sequence)] = TRUE]
=============================================================================
