----------------------------- MODULE MCSerialBridge -----------------------------
(* Small instances of SerialBridge for TLC.                                *)
EXTENDS SerialBridge
=============================================================================
