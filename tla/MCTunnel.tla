------------------------------ MODULE MCTunnel ------------------------------
(***************************************************************************)
(* Tunnel.tla for TLC.                                                     *)
(***************************************************************************)
EXTENDS Tunnel

=============================================================================
