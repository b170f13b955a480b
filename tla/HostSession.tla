----------------------------- MODULE HostSession -----------------------------
(***************************************************************************)
(* The device session of the USB host manager (src/src/usb_host.rs): two   *)
(* futures joined in one task of core 1, root_port_monitor and the         *)
(* application loop of run.  They share HOST_STATE, which each helper      *)
(* locks for itself, so that the other future may act between any two      *)
(* helpers; the monitor tells the application of attach and detach through *)
(* the device events of the host stack.  Commands are in HostRpc; what     *)
(* they may assume of a session is DeviceSession, which this module        *)
(* implements.                                                             *)
(*                                                                         *)
(* The joined futures run on one core and give way only where they await,  *)
(* so that they really interleave at a contended HOST_STATE, a transfer, a *)
(* timer and an event; here they do at every helper.                       *)
(*                                                                         *)
(* Definitions marked "Mutant" are what the next definition would be with  *)
(* a plausible mistake; the specification does not use them.               *)
(***************************************************************************)
EXTENDS Naturals, Sequences

CONSTANTS
  Classes,     \* class drivers of the devices of a run, see AllClasses
  MaxAttach,   \* bound on the devices plugged in, which are 1..MaxAttach
  SlowDevices, \* the low-speed ones among them
  MaxInvalid,  \* bound on the SE1 glitches
  MaxGeneration, \* bound on the resets after a backoff
  MaxFailures, \* bound on failed resets, enumerations and class setups
  Prompt       \* whether the application keeps up with the port: see InTime

\* "serial": CDC-ACM and FTDI; "none": a device no driver takes.
AllClasses ==
  {"serial", "bleuio", "p8055", "wispy", "audio", "usbtmc", "none"}

ASSUME SessionAssumption ==
  /\ Classes \subseteq AllClasses
  /\ Classes # {}
  /\ {MaxAttach, MaxInvalid, MaxGeneration, MaxFailures} \subseteq Nat
  /\ SlowDevices \subseteq 1..MaxAttach
  /\ Prompt \in BOOLEAN

VARIABLES
  \* HOST_STATE
  generation,
  phase,
  speed,
  bridge_connected,
  \* the bus
  line,       \* number of the device on the port, 0 for none, see SE1
  attaches,   \* devices plugged in so far
  glitches,   \* SE1 glitches so far
  \* root_port_monitor
  detected,   \* line as the AttachDetector has last reported it
  connected,
  mon,        \* what the monitor is doing
  events,     \* device events of the host stack, not yet consumed
  \* the application
  app,        \* where it is in its loop
  host_speed, \* speed of its device, as the event said
  class,      \* class driver of its device
  own,        \* session_generation
  dev,        \* the device that it has enumerated
  retries,    \* reset_retries_remaining
  failures    \* failed operations so far

busVars == <<line, attaches, glitches>>
stateVars == <<generation, phase, speed, bridge_connected>>
monitorVars == <<detected, connected, mon>>
appVars == <<app, host_speed, class, own, dev, retries>>
\* What a step of the application leaves alone, but for app, as a rule.
otherVars == <<busVars, monitorVars, events, host_speed, class, own, dev, retries>>
vars == <<stateVars, busVars, monitorVars, events, appVars, failures>>

SE1 == MaxAttach + 1   \* both lines high
Present(l) == l \in 1..MaxAttach

Speeds == {"low", "full"}
SpeedOf(device) == IF device \in SlowDevices THEN "low" ELSE "full"

\* Low-speed devices are Wi-Spy, P8055 or none of ours.
Drivers(s) ==
  IF s = "low" THEN {"wispy", "p8055", "none"}
               ELSE AllClasses \ {"wispy", "p8055"}

\* DeviceEvent; Disconnected has no speed.
Connected(s) == [kind |-> "Connected", speed |-> s]
Disconnected == [kind |-> "Disconnected", speed |-> "none"]

HostPhases ==
  {"waiting", "resetting", "enumerating", "ready", "unsupported",
   "enumeration_error", "class_error"}

AppStates ==
  {"wait", "begin", "enumerate", "failed", "backoff", "reset", "bus_reset",
   "rebegin", "identify", "setup", "refused", "setup_failed", "setup_backoff",
   "resume", "publish", "serve", "bridge", "bridge_lost", "removal", "release"}

MonitorStates == {"sample", "announce", "reset", "reset_failed", "clear", "invalid"}

ENUMERATION_RESET_RETRIES == 2

Init ==
  /\ generation = 1
  /\ phase = "waiting"
  /\ speed = "none"
  /\ bridge_connected = FALSE
  /\ line = 0 /\ attaches = 0 /\ glitches = 0
  /\ detected = 0
  /\ connected = FALSE
  /\ mon = "sample"
  /\ events = <<>>
  /\ app = "wait"
  /\ host_speed = "none"
  /\ class = "none"
  /\ own = 0
  /\ dev = 0
  /\ retries = ENUMERATION_RESET_RETRIES
  /\ failures = 0

-----------------------------------------------------------------------------
(* The bus.                                                                *)

Plug ==
  /\ line \in {0, SE1}
  /\ attaches < MaxAttach
  /\ attaches' = attaches + 1
  /\ line' = attaches + 1
  /\ UNCHANGED <<stateVars, glitches, monitorVars, events, appVars, failures>>

Unplug ==
  /\ line # 0
  /\ line' = 0
  /\ UNCHANGED <<stateVars, attaches, glitches, monitorVars, events, appVars,
                 failures>>

Glitch ==
  /\ line # SE1
  /\ glitches < MaxInvalid
  /\ glitches' = glitches + 1
  /\ line' = SE1
  /\ UNCHANGED <<stateVars, attaches, monitorVars, events, appVars, failures>>

-----------------------------------------------------------------------------
(* HOST_STATE: the helpers, each under one lock of the mutex.              *)

set_resetting(s) ==
  /\ generation' = generation + 1
  /\ phase' = "resetting"
  /\ speed' = s
  /\ bridge_connected' = FALSE

clear_device ==
  /\ generation' = IF phase = "waiting" THEN generation ELSE generation + 1
  /\ phase' = "waiting"
  /\ speed' = "none"
  /\ bridge_connected' = FALSE

set_waiting_if_current ==
  IF own = generation THEN clear_device ELSE UNCHANGED stateVars

set_enumeration_error ==
  /\ phase' = "enumeration_error"
  /\ bridge_connected' = FALSE
  /\ UNCHANGED <<generation, speed>>

\* Mutant: the phase is not compared.
ExpectedAnyPhase(p) == own = generation

\* set_phase_if_current and its kin: the phase changes only if the session is
\* current and in the phase that is expected; the caller learns whether it did.
Expected(p) == own = generation /\ phase = p

SetPhase(p) ==
  /\ phase' = p
  /\ UNCHANGED <<generation, speed, bridge_connected>>

SetErrorPhase(p) ==
  /\ phase' = p
  /\ bridge_connected' = FALSE
  /\ UNCHANGED <<generation, speed>>

-----------------------------------------------------------------------------
(* root_port_monitor.                                                      *)

\* The application goes on as soon as its task is polled: HOST_STATE is free,
\* or there is a device event and no command keeps it from taking it.
Runnable ==
  \/ app \in {"begin", "failed", "reset", "rebegin", "identify", "refused",
              "setup_failed", "resume", "publish", "bridge_lost", "release"}
  \/ events # <<>> /\ app \in {"wait", "backoff", "setup_backoff", "removal"}

\* What the AttachDetector reports takes 100 ms of stable line
\* (ATTACH_DEBOUNCE_SAMPLES) and a reset of the port tens of milliseconds.  Both
\* futures are polled every millisecond, every holder of HOST_STATE keeps it for
\* a few instructions only, and a transfer ends when the host stack reports the
\* disconnect: the application that keeps up has gone on before the next event
\* of the port, and has dealt with the last device before the next one attaches.
InTime(event) ==
  Prompt => ~Runnable /\ (event = "attach" => events = <<>>)

\* The line is not sampled while the application resets the port.
Sampling ==
  /\ mon = "sample"
  /\ app # "bus_reset"
  /\ detected # line

\* BusEvent::Attached
Attached ==
  /\ Sampling
  /\ InTime("attach")
  /\ Present(line) /\ ~Present(detected)
  /\ detected' = line
  /\ mon' = "announce"
  /\ UNCHANGED <<stateVars, busVars, connected, events, appVars, failures>>

\* report_disconnected_if_not_resetting
ReportDisconnected ==
  /\ connected' = FALSE
  /\ events' = IF connected THEN Append(events, Disconnected) ELSE events

\* BusEvent::Detached.  Nobody replugs a device in less than the debounce: a
\* replug is a detach, and then an attach.
Detached ==
  /\ Sampling
  /\ InTime("detach")
  /\ line = 0 \/ (Present(line) /\ Present(detected))
  /\ detected' = 0
  /\ ReportDisconnected
  /\ mon' = "clear"
  /\ UNCHANGED <<stateVars, busVars, appVars, failures>>

\* BusEvent::Invalid
Invalid ==
  /\ Sampling
  /\ InTime("detach")
  /\ line = SE1
  /\ detected' = SE1
  /\ ReportDisconnected
  /\ mon' = "invalid"
  /\ UNCHANGED <<stateVars, busVars, appVars, failures>>

Announce ==
  /\ mon = "announce"
  /\ set_resetting(SpeedOf(detected))
  /\ mon' = "reset"
  /\ UNCHANGED <<busVars, detected, connected, events, appVars, failures>>

\* Mutant: the port is reset and the application is not told.
PortResetUnreported ==
  /\ mon = "reset"
  /\ InTime("reset")
  /\ connected' = TRUE
  /\ mon' = "sample"
  /\ UNCHANGED <<stateVars, busVars, detected, events, appVars, failures>>

\* reset_and_report_connected succeeds
PortReset ==
  /\ mon = "reset"
  /\ InTime("reset")
  /\ connected' = TRUE
  /\ events' = Append(events, Connected(SpeedOf(detected)))
  /\ mon' = "sample"
  /\ UNCHANGED <<stateVars, busVars, detected, appVars, failures>>

PortResetFails ==
  /\ mon = "reset"
  /\ InTime("reset")
  /\ failures < MaxFailures
  /\ failures' = failures + 1
  /\ connected' = FALSE
  /\ mon' = "reset_failed"
  /\ UNCHANGED <<stateVars, busVars, detected, events, appVars>>

PortError ==
  /\ mon \in {"reset_failed", "invalid"}
  /\ set_enumeration_error
  /\ mon' = "sample"
  /\ UNCHANGED <<busVars, detected, connected, events, appVars, failures>>

PortClear ==
  /\ mon = "clear"
  /\ clear_device
  /\ mon' = "sample"
  /\ UNCHANGED <<busVars, detected, connected, events, appVars, failures>>

-----------------------------------------------------------------------------
(* The application: events and enumeration.                                *)

\* Loops that wait for device events: what each does with the event.
Consume(kind) ==
  /\ events # <<>>
  /\ Head(events).kind = kind
  /\ events' = Tail(events)
  /\ UNCHANGED <<stateVars, busVars, monitorVars, class, own, dev, retries,
                 failures>>

Listening == {"wait", "backoff", "setup_backoff", "serve", "bridge", "removal"}

TakeConnected ==
  /\ app \in Listening
  /\ Consume("Connected")
  /\ IF app = "wait"
     THEN app' = "begin" /\ host_speed' = Head(events).speed
     ELSE UNCHANGED <<app, host_speed>>

TakeDisconnected ==
  /\ app \in Listening
  /\ Consume("Disconnected")
  /\ app' = CASE app = "wait" -> "wait"
              [] app = "bridge" /\ class = "serial" -> "bridge_lost"
              [] OTHER -> "release"
  /\ UNCHANGED host_speed

\* begin_enumeration, after Connected and after a reset of the application's.
BeginEnumeration ==
  /\ app \in {"begin", "rebegin"}
  /\ IF phase = "resetting" /\ speed = host_speed
     THEN /\ SetPhase("enumerating")
          /\ own' = generation
          /\ app' = "enumerate"
          /\ retries' = IF app = "begin" THEN ENUMERATION_RESET_RETRIES ELSE retries
     ELSE /\ app' = "wait"
          /\ UNCHANGED <<stateVars, own, retries>>
  /\ UNCHANGED <<busVars, monitorVars, events, host_speed, class, dev, failures>>

Enumerate ==
  /\ app = "enumerate"
  /\ Present(line)
  /\ dev' = line
  /\ app' = "identify"
  /\ UNCHANGED <<stateVars, busVars, monitorVars, events, host_speed, class, own, retries,
                 failures>>

\* An attached device may fail; without one enumeration always does.
EnumerateFails ==
  /\ app = "enumerate"
  /\ Present(line) => failures < MaxFailures
  /\ failures' = IF Present(line) THEN failures + 1 ELSE failures
  /\ app' = "failed"
  /\ UNCHANGED <<stateVars, otherVars>>

\* Mutant: the retries are counted down whether any are left or not.
SpendRetryUnchecked == retries' = retries - 1

SpendRetry == retries' = IF retries = 0 THEN 0 ELSE retries - 1

\* Mutant: the device is given up once the retries are spent.
RecordFailureGivesUp ==
  /\ app = "failed"
  /\ IF Expected("enumerating")
     THEN /\ set_enumeration_error
          /\ app' = IF retries = 0 THEN "wait" ELSE "reset"
          /\ SpendRetry
     ELSE /\ app' = "wait"
          /\ UNCHANGED <<stateVars, retries>>
  /\ UNCHANGED <<busVars, monitorVars, events, host_speed, class, own, dev, failures>>

RecordFailure ==
  /\ app = "failed"
  /\ IF Expected("enumerating")
     THEN /\ set_enumeration_error
          /\ app' = IF retries = 0 THEN "backoff" ELSE "reset"
          /\ SpendRetry
     ELSE /\ app' = "wait"
          /\ UNCHANGED <<stateVars, retries>>
  /\ UNCHANGED <<busVars, monitorVars, events, host_speed, class, own, dev, failures>>

\* The backoff timer; select3 polls the device events first.
BackoffEnds ==
  /\ app \in {"backoff", "setup_backoff"}
  /\ app = "backoff" => generation < MaxGeneration
  /\ events = <<>>
  /\ app' = IF app = "backoff" THEN "reset" ELSE "resume"
  /\ UNCHANGED <<stateVars, otherVars, failures>>

\* The application resets the port itself, whatever the monitor has seen since.
AnnounceReset ==
  /\ app = "reset"
  /\ set_resetting(host_speed)
  /\ app' = "bus_reset"
  /\ UNCHANGED <<otherVars, failures>>

BusReset ==
  /\ app = "bus_reset"
  /\ app' = "rebegin"
  /\ UNCHANGED <<stateVars, otherVars, failures>>

\* set_identity_if_current
Identify ==
  /\ app = "identify"
  /\ IF Expected("enumerating")
     THEN app' = "setup" /\ class' \in Classes \cap Drivers(host_speed)
     ELSE app' = "wait" /\ UNCHANGED class
  /\ UNCHANGED <<stateVars, busVars, monitorVars, events, host_speed, own, dev, retries,
                 failures>>

-----------------------------------------------------------------------------
(* The application: class drivers.                                         *)

\* The end of class setup: the driver is ready, the device is none of ours, or
\* an allocation or a control request has failed.
Setup ==
  /\ app = "setup"
  /\ \/ /\ class # "none"
        /\ app' = "publish"
        /\ UNCHANGED failures
     \/ /\ class = "none"
        /\ app' = "refused"
        /\ UNCHANGED failures
     \/ /\ class # "none"
        /\ failures < MaxFailures
        /\ failures' = failures + 1
        /\ app' = "setup_failed"
  /\ UNCHANGED <<stateVars, otherVars>>

\* A ..._if_current helper: what it does to HOST_STATE and where the driver
\* goes on if the session is the current one; if not, the session is released.
IfCurrent(state, expected, update, next) ==
  /\ app = state
  /\ IF Expected(expected)
     THEN update /\ app' \in next
     ELSE UNCHANGED stateVars /\ app' = "release"
  /\ UNCHANGED <<otherVars, failures>>

Refuse ==
  IfCurrent("refused", "enumerating", SetPhase("unsupported"), {"removal"})

\* Mutant: no driver waits for the removal of its device.
SetupFailsAtOnce ==
  IfCurrent("setup_failed", "enumerating", SetErrorPhase("class_error"), {"release"})

\* BleuIO returns without waiting for the removal of the dongle; USBTMC setup
\* is tried again, unless discovery has failed.
SetupFails ==
  IfCurrent("setup_failed", "enumerating", SetErrorPhase("class_error"),
    CASE class = "bleuio" -> {"release"}
      [] class = "usbtmc" -> {"removal", "setup_backoff"}
      [] OTHER            -> {"removal"})

Resume == IfCurrent("resume", "class_error", SetPhase("enumerating"), {"setup"})

\* Mutant: the ready phase is set whatever has become of the session.
PublishUnchecked ==
  /\ app = "publish"
  /\ SetPhase("ready")
  /\ app' = "serve"
  /\ UNCHANGED <<otherVars, failures>>

Publish == IfCurrent("publish", "enumerating", SetPhase("ready"), {"serve"})

\* A failed transfer of a command.  CDC, FTDI and P8055 stay in their command
\* loop until the device is removed, USBTMC waits for the removal; a transfer
\* that finds another session current changes nothing.
FailCommand ==
  /\ app = "serve"
  /\ class \in {"serial", "p8055", "usbtmc"}
  /\ IF Expected("ready") THEN SetErrorPhase("class_error")
                          ELSE UNCHANGED stateVars
  /\ app' = IF class = "usbtmc" THEN "removal" ELSE "serve"
  /\ UNCHANGED <<otherVars, failures>>

\* Wi-Spy sends a malformed report, or finds that its session is over.
FailReport ==
  /\ class = "wispy"
  /\ IfCurrent("serve", "ready", SetErrorPhase("class_error"), {"removal"})

\* A transfer that ends because the port has reported the disconnect.  Audio,
\* which counts bad packets and goes on, ends when its session is over, too.
LoseReport ==
  /\ app = "serve"
  /\ class \in {"wispy", "audio"}
  /\ ~connected \/ (class = "audio" /\ ~Expected("ready"))
  /\ app' = "release"
  /\ UNCHANGED <<stateVars, otherVars, failures>>

\* A failed transfer ends manage_bleuio, with or without a raw bridge.
FailBleuio ==
  /\ class = "bleuio"
  /\ \E state \in {"serve", "bridge"} :
       IfCurrent(state, "ready", SetErrorPhase("class_error"), {"release"})

\* set_bridge_connected_if_current
SetBridgeConnected(expected, c) ==
  IF Expected("ready") /\ bridge_connected = expected
  THEN bridge_connected' = c /\ UNCHANGED <<generation, phase, speed>>
  ELSE UNCHANGED stateVars

OpenBridge ==
  /\ app = "serve"
  /\ class \in {"serial", "bleuio"}
  /\ Expected("ready") /\ ~bridge_connected
  /\ SetBridgeConnected(FALSE, TRUE)
  /\ app' = "bridge"
  /\ UNCHANGED <<otherVars, failures>>

\* A transfer of the bridge fails the session before it ends the bridge.
FailBridge ==
  /\ app = "bridge"
  /\ class = "serial"
  /\ Expected("ready")
  /\ SetErrorPhase("class_error")
  /\ UNCHANGED <<busVars, monitorVars, events, appVars, failures>>

\* The end of run_bridge: Closed, Disconnected or Failed.
EndBridge ==
  /\ \/ app = "bridge" /\ app' = "serve"
     \/ app = "bridge_lost" /\ app' = "release"
     \/ app = "bridge" /\ class = "serial" /\ app' = "removal"
  /\ SetBridgeConnected(TRUE, FALSE)
  /\ UNCHANGED <<otherVars, failures>>

\* The driver is dropped.
Release ==
  /\ app = "release"
  /\ set_waiting_if_current
  /\ app' = "wait"
  /\ class' = "none"
  /\ dev' = 0
  /\ UNCHANGED <<busVars, monitorVars, events, host_speed, own, retries, failures>>

-----------------------------------------------------------------------------
BusNext == Plug \/ Unplug \/ Glitch

PortNext == Attached \/ Detached \/ Invalid \/ PortReset \/ PortResetFails

MonitorStep == Announce \/ PortError \/ PortClear

EnumerationNext ==
  \/ TakeConnected \/ TakeDisconnected
  \/ BeginEnumeration
  \/ Enumerate \/ EnumerateFails \/ RecordFailure
  \/ BackoffEnds \/ AnnounceReset \/ BusReset
  \/ Identify

DriverNext ==
  \/ Setup \/ Refuse \/ SetupFails \/ Resume \/ Publish
  \/ FailCommand \/ FailReport \/ LoseReport \/ FailBleuio
  \/ OpenBridge \/ FailBridge \/ EndBridge
  \/ Release

Next ==
  \/ BusNext
  \/ PortNext
  \/ MonitorStep
  \/ EnumerationNext
  \/ DriverNext

Spec == Init /\ [][Next]_vars

\* The joined task is polled every millisecond: the monitor goes on sampling, a
\* reset of the port ends, and the application takes every step that waits
\* neither for a command nor for a report of its device.
Fairness ==
  /\ WF_vars(PortNext)
  /\ WF_vars(MonitorStep)
  /\ WF_vars(EnumerationNext)
  /\ WF_vars(Setup \/ Refuse \/ SetupFails \/ Resume \/ Publish \/ LoseReport
             \/ (EndBridge /\ app = "bridge_lost") \/ Release)

FairSpec == Spec /\ Fairness

-----------------------------------------------------------------------------
TypeOK ==
  /\ generation \in Nat
  /\ phase \in HostPhases
  /\ {speed, host_speed} \subseteq Speeds \cup {"none"}
  /\ bridge_connected \in BOOLEAN
  /\ line \in 0..SE1 /\ attaches \in 0..MaxAttach /\ glitches \in 0..MaxInvalid
  /\ detected \in 0..SE1
  /\ connected \in BOOLEAN
  /\ mon \in MonitorStates
  /\ events \in Seq({Disconnected} \cup {Connected(s) : s \in Speeds})
  /\ app \in AppStates
  /\ class \in AllClasses
  /\ own \in Nat
  /\ dev \in 0..MaxAttach
  /\ retries \in 0..ENUMERATION_RESET_RETRIES
  /\ failures \in 0..MaxFailures

\* The port has settled: what is on it has been reported and acted upon.
Settled == mon = "sample" /\ detected = line

SessionPhase ==
  IF phase \in {"resetting", "enumerating", "ready"} THEN phase ELSE "down"

Manager ==
  IF app \in {"serve", "bridge", "bridge_lost"} THEN "serving"
  ELSE IF app \in {"enumerate", "failed", "identify", "setup", "refused",
                   "setup_failed", "publish"} THEN "enumerating"
  ELSE "idle"

\* Generations: what HostRpc assumes of HOST_STATE and of the application.
Session == INSTANCE DeviceSession WITH
  phase <- SessionPhase, mgr <- Manager
ImplementsSession == Session!SessionSpec

\* The session of a device that has just been announced is the monitor's until
\* the application adopts it: dropping the driver of the device before it, or
\* any other late step of the application, never takes it down.
ResetIsAdopted ==
  [][phase = "resetting" /\ phase' # "resetting"
       => mon' # mon \/ own' = generation']_vars

\* A ready phase is that of the device on the port: no session outlives its
\* device once the port has settled.
ReadyDeviceIsPresent ==
  phase = "ready" /\ Settled /\ connected => dev = line

\* No device is forgotten: while a device the monitor has announced stays on
\* the port, the application does not wait for another one.
NoForgottenDevice ==
  ~(app = "wait" /\ events = <<>> /\ connected /\ Settled)

\* apps_write_allowed: the flash may be erased and programmed, which stops both
\* cores' execution from it, only while the host reports Waiting.
MaintenanceAllowed == phase = "waiting"

\* README 1012-1016: flash maintenance is locked while a device is attached.
FlashLockedWhileAttached ==
  MaintenanceAllowed => ~(connected /\ Settled)

\* A reset of the port leads somewhere: HOST_STATE does not stay in a phase
\* that neither admits commands nor says what is wrong.
ResetEnds == phase = "resetting" ~> phase # "resetting"
=============================================================================
