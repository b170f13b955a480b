-------------------------- MODULE MCLinkSupervisor --------------------------
(* Small instances of LinkSupervisor for TLC.                              *)
EXTENDS LinkSupervisor
=============================================================================
