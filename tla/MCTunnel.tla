------------------------------ MODULE MCTunnel ------------------------------
(* TunnelMux by itself. *)
EXTENDS TunnelMux

TunSpec == TunInit /\ [][TunNext]_tunVars
=============================================================================
