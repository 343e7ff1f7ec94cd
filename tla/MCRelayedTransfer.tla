-------------------------- MODULE MCRelayedTransfer --------------------------
(* Instances of RelayedTransfer for model checking. *)
EXTENDS RelayedTransfer

(* The first message of the callee and the client's last have two frames. *)
Frames == [m \in Messages |-> IF m \in {<<"down", 1>>, <<"up", 3>>} THEN 2 ELSE 1]

Workload(messages, sends, retransmits, losses, drops, evictions) ==
    [sends |-> [m \in messages |-> [sends |-> sends, retransmits |-> retransmits]],
     losses |-> losses, drops |-> drops, evictions |-> evictions]

CalleeSends == {Workload({<<"down", 1>>}, 1, 1, 1, 0, 1)}

(* A message of the callee that is retransmitted; two of them; a record of   *)
(* the client that is sent again on a new leg; one with two frames, and one  *)
(* that is retransmitted; two messages of the client, with equal and with    *)
(* different numbers of frames; one message in each direction.               *)
AllWorkloads ==
    CalleeSends \union
    {Workload({<<"down", 1>>, <<"down", 2>>}, 1, 0, 1, 0, 1),
     Workload({<<"up", 1>>}, 2, 0, 1, 0, 1),
     Workload({<<"up", 3>>}, 1, 0, 1, 1, 1),
     Workload({<<"up", 1>>}, 1, 1, 0, 1, 1),
     Workload({<<"up", 1>>, <<"up", 2>>}, 1, 0, 1, 0, 1),
     Workload({<<"up", 2>>, <<"up", 3>>}, 1, 0, 0, 0, 0),
     Workload({<<"down", 2>>, <<"up", 1>>}, 1, 0, 1, 0, 1)}
=============================================================================
