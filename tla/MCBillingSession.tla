--------------------------- MODULE MCBillingSession ---------------------------
(* Small instances of BillingSession. *)
EXTENDS BillingSession

CONSTANTS m1, m2

MCBytes == [m \in Messages |-> IF m = m2 THEN 2 ELSE 1]

\* Failures of the network, and failures of the two processes and the CA.
Network == {"disconnect", "claimTimeout", "sendTimeout"}
Processes == {"natCrash", "relayCrash", "queueFull", "caFunds", "caReject", "sealError", "cancel"}
NetworkOrProcesses == {Network, Processes}
NetworkOnly == {Network}
Reconnecting == {{"disconnect", "sendTimeout"}}
===============================================================================
