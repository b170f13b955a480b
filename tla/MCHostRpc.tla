------------------------------ MODULE MCHostRpc ------------------------------
(* Small instances of HostRpc for TLC.                                     *)
EXTENDS HostRpc
=============================================================================
