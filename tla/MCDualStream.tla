---------------------------- MODULE MCDualStream ----------------------------
(* Instances of DualStream for model checking. *)
EXTENDS DualStream

MCLegIds == {"kcp", "tcp", "tcp#2"}
TCPOnly == {"tcp"}
TwoRelays == {<<"r1", "r2">>}
OneRelay == {<<"r1">>}

(* Bound: a send runs on an established stream, beside one reconnect worker, *)
(* and ends when the stream has moved to another relay; without a send,      *)
(* workers and generations are free.                                         *)
SendScope ==
    (\E s \in Senders : sender[s] # NotSending \/ fail[s].pc # "idle")
    => /\ setup.pc = "established"
       /\ generation = 1 \/ (watcher.seen = 1 /\ \A w \in Workers : worker[w].pc = "off")
       /\ \A w \in Workers \ {1} : worker[w].pc = "off"
=============================================================================
