---------------------------- MODULE DeviceSession ----------------------------
(***************************************************************************)
(* What the rest of the firmware may rely on about the USB host's device   *)
(* session: the part of HOST_STATE that commands are checked against, and  *)
(* what the host application is doing.  The 21 phases of                   *)
(* src/src/usb_host.rs are reduced to four.  HostSession models the same   *)
(* state with every phase, the root-port monitor and the device-event      *)
(* queue, and implements this module.                                      *)
(***************************************************************************)
EXTENDS Naturals

VARIABLES
  generation,        \* Status::generation
  phase,             \* Status::phase, see Phases
  bridge_connected,  \* Status::bridge_connected
  mgr,               \* what the host application is doing, see MgrStates
  own                \* session_generation of the application, 0 before any

sessionVars == <<generation, phase, bridge_connected, mgr, own>>

\* "down": waiting, unsupported or in error; "ready": one of the phases in
\* which commands are accepted.
Phases == {"down", "resetting", "enumerating", "ready"}

\* "idle": a loop that rejects every command (waiting for a device, for its
\* removal or for a retry); "enumerating": commands are not received;
\* "serving": the command loop of a class driver.
MgrStates == {"idle", "enumerating", "serving"}

SessionTypeOK ==
  /\ generation \in Nat
  /\ phase \in Phases
  /\ bridge_connected \in BOOLEAN
  /\ mgr \in MgrStates
  /\ own \in Nat

SessionInit ==
  /\ generation = 1          \* power-off to waiting, before the first device
  /\ phase = "down"
  /\ bridge_connected = FALSE
  /\ mgr = "idle"
  /\ own = 0

-----------------------------------------------------------------------------
(* HOST_STATE as it is set whatever session is current.                    *)

\* set_resetting: a device attaches, or the application resets the root port
\* for another attempt.
PortReset ==
  /\ generation' = generation + 1
  /\ phase' = "resetting"
  /\ bridge_connected' = FALSE
  /\ UNCHANGED <<mgr, own>>

\* clear_device: a new generation when the phase changes.
ClearDevice ==
  /\ generation' \in {generation + 1}
                     \cup (IF phase = "down" THEN {generation} ELSE {})
  /\ phase' = "down"
  /\ bridge_connected' = FALSE

\* set_waiting: the device is gone.
PortClear ==
  /\ ClearDevice
  /\ UNCHANGED <<mgr, own>>

\* set_enumeration_error: SE1 on the port or a failed reset, an error phase in
\* the same generation.
PortError ==
  /\ phase' = "down"
  /\ bridge_connected' = FALSE
  /\ UNCHANGED <<generation, mgr, own>>

-----------------------------------------------------------------------------
(* The application.                                                        *)

\* begin_enumeration: adopt the generation of a port that has been reset.
Begin ==
  /\ mgr \in {"idle", "enumerating"}
  /\ phase = "resetting"
  /\ phase' = "enumerating"
  /\ mgr' = "enumerating"
  /\ own' = generation
  /\ UNCHANGED <<generation, bridge_connected>>

\* Mutant: the ready phase is set whatever has become of the session.
PublishUnchecked ==
  /\ mgr = "enumerating"
  /\ phase' = "ready"
  /\ mgr' = "serving"
  /\ UNCHANGED <<generation, bridge_connected, own>>

\* The class driver is set up and its ready phase published, if the session
\* is still the current one.
Publish ==
  /\ mgr = "enumerating"
  /\ own = generation
  /\ phase = "enumerating"
  /\ phase' = "ready"
  /\ mgr' = "serving"
  /\ UNCHANGED <<generation, bridge_connected, own>>

\* Enumeration or class setup ends without a served device, with an error
\* phase if the session is still the current one.
AbortSetup ==
  /\ mgr = "enumerating"
  /\ mgr' = "idle"
  /\ phase' = IF own = generation /\ phase = "enumerating" THEN "down" ELSE phase
  /\ UNCHANGED <<generation, bridge_connected, own>>

\* After its backoff a failed USBTMC setup is tried again in the same session.
ResumeSetup ==
  /\ mgr = "idle"
  /\ own = generation
  /\ phase = "down"
  /\ phase' = "enumerating"
  /\ mgr' = "enumerating"
  /\ UNCHANGED <<generation, bridge_connected, own>>

\* The test of every ..._if_current helper of the driver that serves own.
OwnSession == own = generation /\ phase = "ready"

\* A class driver reports an error of its session.  Some go on to receive
\* commands until the device is removed, the others leave their loop.
FailSession ==
  /\ mgr = "serving"
  /\ OwnSession
  /\ phase' = "down"
  /\ bridge_connected' = FALSE
  /\ mgr' \in {"serving", "idle"}
  /\ UNCHANGED <<generation, own>>

\* The class driver leaves its command loop, or ends a bridge and leaves.
StopServing ==
  /\ mgr = "serving"
  /\ mgr' = "idle"
  /\ bridge_connected' \in {bridge_connected, bridge_connected /\ ~OwnSession}
  /\ UNCHANGED <<generation, phase, own>>

\* set_waiting_if_current, once the class driver has been dropped.
ReleaseSession ==
  /\ mgr = "idle"
  /\ own = generation
  /\ ClearDevice
  /\ UNCHANGED <<mgr, own>>

\* set_bridge_connected_if_current: compare-and-set by the serving driver.
SetBridge(expected, connected) ==
  /\ mgr = "serving"
  /\ OwnSession
  /\ bridge_connected = expected
  /\ bridge_connected' = connected
  /\ UNCHANGED <<generation, phase, mgr, own>>

PortNext == PortReset \/ PortClear \/ PortError

SetupNext == Begin \/ Publish \/ AbortSetup \/ ResumeSetup

SessionNext ==
  \/ PortNext
  \/ SetupNext
  \/ FailSession
  \/ StopServing
  \/ ReleaseSession
  \/ \E connected \in BOOLEAN : SetBridge(~connected, connected)

SessionSpec == SessionInit /\ [][SessionNext]_sessionVars

-----------------------------------------------------------------------------
\* A ready phase belongs to the session the application holds, and only a
\* ready session can have a bridge: a command whose generation matches
\* HOST_STATE therefore reaches the device it was issued for.
ReadySessionIsOwned ==
  /\ phase = "ready" => own = generation /\ mgr # "enumerating"
  /\ bridge_connected => phase = "ready"
=============================================================================
