------------------------------ MODULE MCServer ------------------------------
(***************************************************************************)
(* Supervisor.tla, and with it Server.tla, for TLC.                        *)
(***************************************************************************)
EXTENDS Supervisor

=============================================================================
