-------------------------- MODULE HostSessionProofs --------------------------
(***************************************************************************)
(* What HostSession keeps true for any number of devices, glitches and     *)
(* failures.                                                               *)
(***************************************************************************)
EXTENDS HostSession, TLAPS

-----------------------------------------------------------------------------
(* Types.                                                                  *)

\* The bounds are natural numbers.
LEMMA Bounds ==
  /\ MaxAttach \in Nat /\ MaxInvalid \in Nat
  /\ MaxGeneration \in Nat /\ MaxFailures \in Nat
BY SessionAssumption

DeviceEvents == {Disconnected} \cup {Connected(s) : s \in Speeds}

\* Speeds are speeds.
LEMMA SpeedTyped == ASSUME NEW d PROVE SpeedOf(d) \in Speeds
BY DEF SpeedOf, Speeds

\* The queue of events stays one.
LEMMA AppendTyped ==
  ASSUME NEW q \in Seq(DeviceEvents), NEW e \in DeviceEvents
  PROVE  Append(q, e) \in Seq(DeviceEvents)
OBVIOUS

\* The first event and the others.
LEMMA HeadTyped ==
  ASSUME NEW q \in Seq(DeviceEvents), q # <<>>
  PROVE  Head(q) \in DeviceEvents /\ Tail(q) \in Seq(DeviceEvents)
OBVIOUS

\* An event that is a connect names a speed.
LEMMA ConnectedSpeed ==
  ASSUME NEW e \in DeviceEvents, e.kind = "Connected"
  PROVE  e.speed \in Speeds
BY DEF DeviceEvents, Connected, Disconnected

\* The port: what is on it, and what the monitor does.
PortTyped ==
  /\ line \in 0..SE1 /\ attaches \in 0..MaxAttach /\ glitches \in 0..MaxInvalid
  /\ detected \in 0..SE1
  /\ connected \in BOOLEAN
  /\ mon \in MonitorStates

\* HOST_STATE.
StateTyped ==
  /\ generation \in Nat
  /\ phase \in HostPhases
  /\ speed \in Speeds \cup {"none"}
  /\ bridge_connected \in BOOLEAN

\* The application.
AppTyped ==
  /\ host_speed \in Speeds \cup {"none"}
  /\ app \in AppStates
  /\ class \in AllClasses
  /\ own \in Nat
  /\ dev \in 0..MaxAttach
  /\ retries \in 0..ENUMERATION_RESET_RETRIES
  /\ failures \in 0..MaxFailures

EventsTyped == events \in Seq(DeviceEvents)

\* TypeOK by parts.
LEMMA Parts ==
  /\ TypeOK <=> PortTyped /\ StateTyped /\ AppTyped /\ EventsTyped
  /\ (TypeOK <=> PortTyped /\ StateTyped /\ AppTyped /\ EventsTyped)'
BY DEF TypeOK, PortTyped, StateTyped, AppTyped, EventsTyped, DeviceEvents

\* Each helper that sets HOST_STATE keeps its types.
LEMMA HelpersTyped ==
  ASSUME StateTyped, own \in Nat
  PROVE  /\ \A s \in Speeds \cup {"none"} : set_resetting(s) => StateTyped'
         /\ clear_device => StateTyped'
         /\ set_waiting_if_current => StateTyped'
         /\ set_enumeration_error => StateTyped'
         /\ \A p \in HostPhases : SetPhase(p) \/ SetErrorPhase(p) => StateTyped'
         /\ \A e, c \in BOOLEAN : SetBridgeConnected(e, c) => StateTyped'
         /\ UNCHANGED stateVars => StateTyped'
<1> USE DEF StateTyped
<1>1. generation + 1 \in Nat
  BY SMT
<1>2. ASSUME NEW s \in Speeds \cup {"none"}, set_resetting(s) PROVE StateTyped'
  BY <1>1, <1>2 DEF set_resetting, HostPhases
<1>3. clear_device => StateTyped'
  BY <1>1 DEF clear_device, HostPhases
<1>4. UNCHANGED stateVars => StateTyped'
  BY DEF stateVars
<1>5. set_waiting_if_current => StateTyped'
  BY <1>3, <1>4 DEF set_waiting_if_current
<1>6. set_enumeration_error => StateTyped'
  BY DEF set_enumeration_error, HostPhases
<1>7. ASSUME NEW p \in HostPhases, SetPhase(p) \/ SetErrorPhase(p) PROVE StateTyped'
  BY <1>7 DEF SetPhase, SetErrorPhase
<1>8. \A e, c \in BOOLEAN : SetBridgeConnected(e, c) => StateTyped'
  BY <1>4 DEF SetBridgeConnected
<1> QED
  BY <1>2, <1>3, <1>4, <1>5, <1>6, <1>7, <1>8

\* The bus keeps its types.
LEMMA BusTyped ==
  ASSUME TypeOK, BusNext
  PROVE  TypeOK'
<1>1. PortTyped'
  <2> USE Bounds DEF PortTyped, TypeOK, SE1, Present, monitorVars
  <2>1. CASE Plug BY <2>1, SMT DEF Plug
  <2>2. CASE Unplug BY <2>2, SMT DEF Unplug
  <2>3. CASE Glitch BY <2>3, SMT DEF Glitch
  <2> QED BY <2>1, <2>2, <2>3 DEF BusNext
<1>2. StateTyped' /\ AppTyped' /\ EventsTyped'
  BY Parts DEF BusNext, Plug, Unplug, Glitch, stateVars, appVars, StateTyped,
    AppTyped, EventsTyped
<1> QED BY <1>1, <1>2, Parts

\* The port keeps its types, whatever the monitor does.
LEMMA MonitorTyped ==
  ASSUME TypeOK, PortNext \/ MonitorStep
  PROVE  TypeOK'
<1>0. PortTyped /\ StateTyped /\ AppTyped /\ EventsTyped
  BY Parts
<1>1. PortTyped'
  <2> USE Bounds DEF PortTyped, SE1, Present, MonitorStates, busVars
  <2>1. CASE Attached BY <1>0, <2>1 DEF Attached
  <2>2. CASE Detached
    <3>1. detected' \in 0..SE1
      BY <2>2, SMT DEF Detached
    <3> QED BY <1>0, <2>2, <3>1 DEF Detached, ReportDisconnected
  <2>3. CASE Invalid BY <1>0, <2>3 DEF Invalid, ReportDisconnected
  <2>4. CASE PortReset BY <1>0, <2>4 DEF PortReset
  <2>5. CASE PortResetFails BY <1>0, <2>5 DEF PortResetFails
  <2>6. CASE MonitorStep
    BY <1>0, <2>6 DEF MonitorStep, Announce, PortError, PortClear
  <2> QED BY <2>1, <2>2, <2>3, <2>4, <2>5, <2>6 DEF PortNext
<1>2. StateTyped'
  <2>1. CASE PortNext
    BY <1>0, <2>1, HelpersTyped
    DEF AppTyped, PortNext, Attached, Detached, Invalid, PortReset, PortResetFails
  <2>2. CASE MonitorStep
    BY <1>0, <2>2, HelpersTyped, SpeedTyped
    DEF AppTyped, MonitorStep, Announce, PortError, PortClear
  <2> QED BY <2>1, <2>2
<1>3. AppTyped'
  <2>1. CASE PortResetFails
    <3>1. failures' \in 0..MaxFailures
      BY <1>0, <2>1, Bounds, SMT DEF PortResetFails, AppTyped
    <3> QED BY <1>0, <2>1, <3>1 DEF PortResetFails, AppTyped, appVars
  <2>2. CASE UNCHANGED <<appVars, failures>>
    BY <1>0, <2>2 DEF AppTyped, appVars
  <2> QED
    BY <2>1, <2>2
    DEF PortNext, Attached, Detached, Invalid, PortReset, MonitorStep, Announce,
      PortError, PortClear
<1>4. EventsTyped'
  <2>1. \A s \in Speeds : Connected(s) \in DeviceEvents
    BY DEF DeviceEvents
  <2>2. Disconnected \in DeviceEvents
    BY DEF DeviceEvents
  <2>3. \/ events' = events
        \/ \E e \in DeviceEvents : events' = Append(events, e)
    <3>1. CASE PortReset BY <2>1, <3>1, SpeedTyped DEF PortReset
    <3>2. CASE Detached \/ Invalid
      BY <2>2, <3>2 DEF Detached, Invalid, ReportDisconnected
    <3> QED
      BY <3>1, <3>2
      DEF PortNext, Attached, PortResetFails, MonitorStep, Announce, PortError,
        PortClear
  <2> QED BY <1>0, <2>3, AppendTyped DEF EventsTyped
<1> QED BY <1>1, <1>2, <1>3, <1>4, Parts

\* A step of the application leaves the port alone.
LEMMA AppFrame ==
  ASSUME EnumerationNext \/ DriverNext
  PROVE  UNCHANGED <<busVars, monitorVars>>
<1>2. ASSUME NEW k, Consume(k) PROVE UNCHANGED <<busVars, monitorVars>>
  BY <1>2 DEF Consume
<1>3. CASE EnumerationNext
  BY <1>2, <1>3 DEF EnumerationNext, TakeConnected, TakeDisconnected,
    BeginEnumeration, Enumerate, EnumerateFails, RecordFailure, BackoffEnds,
    AnnounceReset, BusReset, Identify, otherVars
<1>4. CASE DriverNext
  BY <1>4 DEF DriverNext, IfCurrent, Setup, Refuse, SetupFails, Resume, Publish,
    FailCommand, FailReport, LoseReport, FailBleuio, OpenBridge, FailBridge,
    EndBridge, Release, otherVars
<1> QED BY <1>3, <1>4

\* HOST_STATE keeps its types, whatever the application does.
LEMMA AppStateTyped ==
  ASSUME TypeOK, EnumerationNext \/ DriverNext
  PROVE  StateTyped'
<1>0. StateTyped /\ own \in Nat /\ host_speed \in Speeds \cup {"none"}
  BY Parts DEF AppTyped
<1>1. CASE UNCHANGED stateVars
  BY <1>0, <1>1, HelpersTyped
<1>2. CASE set_waiting_if_current \/ set_enumeration_error \/ set_resetting(host_speed)
  BY <1>0, <1>2, HelpersTyped
<1>3. CASE \E p \in HostPhases : SetPhase(p) \/ SetErrorPhase(p)
  BY <1>0, <1>3, HelpersTyped
<1>4. CASE \E e, c \in BOOLEAN : SetBridgeConnected(e, c)
  BY <1>0, <1>4, HelpersTyped
<1>5. CASE EnumerationNext
  BY <1>1, <1>2, <1>3, <1>5
  DEF EnumerationNext, TakeConnected, TakeDisconnected, Consume,
    BeginEnumeration, Enumerate, EnumerateFails, RecordFailure, BackoffEnds,
    AnnounceReset, BusReset, Identify, HostPhases
<1>6. CASE DriverNext
  BY <1>1, <1>2, <1>3, <1>4, <1>6
  DEF DriverNext, IfCurrent, Setup, Refuse, SetupFails, Resume, Publish,
    FailCommand, FailReport, LoseReport, FailBleuio, OpenBridge, FailBridge,
    EndBridge, Release, HostPhases
<1> QED BY <1>5, <1>6

\* The application keeps its own types and those of the queue.
LEMMA AppStepTyped ==
  ASSUME TypeOK, EnumerationNext \/ DriverNext
  PROVE  AppTyped' /\ EventsTyped'
<1>0. AppTyped /\ EventsTyped /\ StateTyped
  BY Parts
<1>1. CASE TakeConnected
  <2>1. events # <<>> /\ events' = Tail(events) /\ Head(events).kind = "Connected"
    BY <1>1 DEF TakeConnected, Consume
  <2>2. EventsTyped' /\ Head(events).speed \in Speeds
    BY <1>0, <2>1, HeadTyped, ConnectedSpeed DEF EventsTyped
  <2> QED BY <1>0, <1>1, <2>2 DEF TakeConnected, Consume, AppTyped, AppStates
<1>2. CASE TakeDisconnected
  <2>1. events # <<>> /\ events' = Tail(events)
    BY <1>2 DEF TakeDisconnected, Consume
  <2>2. EventsTyped'
    BY <1>0, <2>1, HeadTyped DEF EventsTyped
  <2>3. app' \in AppStates
    BY <1>2 DEF TakeDisconnected, AppStates, Listening
  <2> QED BY <1>0, <1>2, <2>2, <2>3 DEF TakeDisconnected, Consume, AppTyped
<1>3. CASE EnumerateFails \/ Setup
  <2>1. failures' \in 0..MaxFailures
    BY <1>0, <1>3, Bounds, SMT DEF EnumerateFails, Setup, AppTyped
  <2> QED
    BY <1>0, <1>3, <2>1
    DEF EnumerateFails, Setup, otherVars, AppTyped, AppStates, EventsTyped
<1>4. CASE RecordFailure
  <2>1. retries' \in 0..ENUMERATION_RESET_RETRIES
    BY <1>0, <1>4, SMT
    DEF RecordFailure, SpendRetry, AppTyped, ENUMERATION_RESET_RETRIES
  <2> QED
    BY <1>0, <1>4, <2>1 DEF RecordFailure, AppTyped, AppStates, EventsTyped
<1>5. CASE BeginEnumeration
  <2>1. retries' \in 0..ENUMERATION_RESET_RETRIES
    BY <1>0, <1>5, SMT DEF BeginEnumeration, AppTyped, ENUMERATION_RESET_RETRIES
  <2> QED
    BY <1>0, <1>5, <2>1
    DEF BeginEnumeration, AppTyped, AppStates, EventsTyped, StateTyped
<1>6. CASE Enumerate
  <2>1. dev' \in 0..MaxAttach
    BY <1>6, Bounds, SMT DEF Enumerate, Present
  <2> QED BY <1>0, <1>6, <2>1 DEF Enumerate, AppTyped, AppStates, EventsTyped
<1>7. CASE Identify
  BY <1>0, <1>7, SessionAssumption
  DEF Identify, AppTyped, AppStates, EventsTyped
<1>8. CASE Release
  <2>1. 0 \in 0..MaxAttach
    BY Bounds, SMT
  <2> QED
    BY <1>0, <1>8, <2>1 DEF Release, AppTyped, AppStates, AllClasses, EventsTyped
<1>9. CASE FailBridge
  BY <1>0, <1>9 DEF FailBridge, appVars, AppTyped, EventsTyped
<1>10. CASE \/ BackoffEnds \/ AnnounceReset \/ BusReset
            \/ Refuse \/ SetupFails \/ Resume \/ Publish
            \/ FailCommand \/ FailReport \/ LoseReport \/ FailBleuio
            \/ OpenBridge \/ EndBridge
  <2>1. UNCHANGED <<otherVars, failures>>
    BY <1>10 DEF BackoffEnds, AnnounceReset, BusReset, IfCurrent, Refuse,
      SetupFails, Resume, Publish, FailCommand, FailReport, LoseReport,
      FailBleuio, OpenBridge, EndBridge
  <2>2. app' \in AppStates
    BY <1>10 DEF BackoffEnds, AnnounceReset, BusReset, IfCurrent, Refuse,
      SetupFails, Resume, Publish, FailCommand, FailReport, LoseReport,
      FailBleuio, OpenBridge, EndBridge, AppStates
  <2> QED BY <1>0, <2>1, <2>2 DEF otherVars, AppTyped, EventsTyped
<1> QED
  BY <1>1, <1>2, <1>3, <1>4, <1>5, <1>6, <1>7, <1>8, <1>9, <1>10
  DEF EnumerationNext, DriverNext

\* The types of the state hold throughout.
THEOREM SessionTypes == Spec => []TypeOK
<1>1. Init => TypeOK
  <2> SUFFICES ASSUME Init PROVE TypeOK
    OBVIOUS
  <2>1. PortTyped
    <3>1. 0 \in 0..SE1 /\ 0 \in 0..MaxAttach /\ 0 \in 0..MaxInvalid
      BY Bounds, SMT DEF SE1
    <3> QED BY <3>1 DEF Init, PortTyped, MonitorStates
  <2>2. StateTyped
    <3>1. 1 \in Nat
      BY SMT
    <3> QED BY <3>1 DEF Init, StateTyped, HostPhases
  <2>3. AppTyped
    <3>1. 0 \in 0..MaxAttach /\ 0 \in 0..MaxFailures /\ 0 \in Nat
      BY Bounds, SMT
    <3>2. ENUMERATION_RESET_RETRIES \in 0..ENUMERATION_RESET_RETRIES
      BY SMT DEF ENUMERATION_RESET_RETRIES
    <3> QED BY <3>1, <3>2 DEF Init, AppTyped, AppStates, AllClasses
  <2>4. EventsTyped
    BY DEF Init, EventsTyped
  <2> QED BY <2>1, <2>2, <2>3, <2>4, Parts
<1>2. TypeOK /\ [Next]_vars => TypeOK'
  <2> SUFFICES ASSUME TypeOK, [Next]_vars PROVE TypeOK'
    OBVIOUS
  <2>1. CASE BusNext BY <2>1, BusTyped
  <2>2. CASE PortNext \/ MonitorStep BY <2>2, MonitorTyped
  <2>3. CASE EnumerationNext \/ DriverNext
    <3>1. PortTyped'
      BY <2>3, AppFrame, Parts DEF PortTyped, busVars, monitorVars
    <3> QED BY <2>3, <3>1, AppStateTyped, AppStepTyped, Parts
  <2>4. CASE UNCHANGED vars
    BY <2>4, Parts DEF vars, stateVars, busVars, monitorVars, appVars,
      PortTyped, StateTyped, AppTyped, EventsTyped
  <2> QED BY <2>1, <2>2, <2>3, <2>4 DEF Next
<1> QED BY <1>1, <1>2, PTL DEF Spec

-----------------------------------------------------------------------------
(* HOST_STATE and the application.                                         *)

\* The phases of a session that the application has adopted, and where the
\* application is in its loop in each.
PhaseFits ==
  /\ phase \in {"enumerating", "ready", "class_error"} => own = generation
  /\ phase = "enumerating" =>
       app \in {"enumerate", "failed", "identify", "setup", "refused",
               "setup_failed", "publish"}
  /\ phase = "ready" =>
       app \in {"serve", "bridge", "bridge_lost", "removal", "release"}
  /\ phase = "class_error" =>
       app \in {"setup_backoff", "resume", "serve", "bridge", "bridge_lost",
               "removal", "release"}

\* A session is adopted after its announcement, not before.
OwnIsPast ==
  /\ own <= generation
  /\ phase = "resetting" => own < generation

BridgeIsReady == bridge_connected => phase = "ready"

StateInv == PhaseFits /\ OwnIsPast /\ BridgeIsReady

\* A step that leaves the generations alone.
LEMMA OwnKept ==
  ASSUME OwnIsPast, UNCHANGED <<own, generation>>,
         phase' = "resetting" => phase = "resetting"
  PROVE  OwnIsPast'
BY DEF OwnIsPast

\* The monitor keeps StateInv: it never leaves an adopted phase behind.
LEMMA MonitorStateInv ==
  ASSUME TypeOK, StateInv, BusNext \/ PortNext \/ MonitorStep
  PROVE  StateInv'
<1>0. generation \in Nat /\ own \in Nat
  BY DEF TypeOK
<1>1. CASE UNCHANGED <<stateVars, app, own>>
  BY <1>1 DEF StateInv, PhaseFits, OwnIsPast, BridgeIsReady, stateVars
<1>2. CASE Announce
  <2>1. own' < generation' /\ own' <= generation'
    BY <1>0, <1>2, SMT DEF Announce, set_resetting, appVars, StateInv, OwnIsPast
  <2> QED
    BY <1>2, <2>1
    DEF Announce, set_resetting, StateInv, PhaseFits, OwnIsPast, BridgeIsReady
<1>3. CASE PortError
  BY <1>3 DEF PortError, set_enumeration_error, appVars, StateInv, PhaseFits,
    OwnIsPast, BridgeIsReady
<1>4. CASE PortClear
  <2>1. own' <= generation'
    BY <1>0, <1>4, SMT DEF PortClear, clear_device, appVars, StateInv, OwnIsPast
  <2> QED
    BY <1>4, <2>1
    DEF PortClear, clear_device, StateInv, PhaseFits, OwnIsPast, BridgeIsReady
<1> QED
  BY <1>1, <1>2, <1>3, <1>4
  DEF BusNext, Plug, Unplug, Glitch, PortNext, Attached, Detached, Invalid,
    PortReset, PortResetFails, MonitorStep, appVars

\* The application keeps StateInv.
LEMMA AppStateInv ==
  ASSUME TypeOK, StateInv, EnumerationNext \/ DriverNext
  PROVE  StateInv'
<1>0. generation \in Nat /\ own \in Nat
  BY DEF TypeOK
<1>1. CASE EnumerationNext
  <2>1. CASE TakeConnected \/ TakeDisconnected \/ BackoffEnds \/ BusReset
    BY <2>1 DEF TakeConnected, TakeDisconnected, Consume, Listening,
      BackoffEnds, BusReset, otherVars, stateVars,
      StateInv, PhaseFits, OwnIsPast, BridgeIsReady
  <2>2. CASE BeginEnumeration
    <3>1. OwnIsPast'
      BY <1>0, <2>2, SMT DEF BeginEnumeration, SetPhase, stateVars, StateInv, OwnIsPast
    <3> QED
      BY <2>2, <3>1 DEF BeginEnumeration, SetPhase, stateVars, StateInv, PhaseFits,
        BridgeIsReady
  <2>3. CASE Enumerate \/ EnumerateFails \/ Identify
    BY <2>3 DEF Enumerate, EnumerateFails, Identify, Expected, otherVars, stateVars,
      StateInv, PhaseFits, OwnIsPast, BridgeIsReady
  <2>4. CASE RecordFailure
    BY <2>4 DEF RecordFailure, Expected, set_enumeration_error, stateVars,
      StateInv, PhaseFits, OwnIsPast, BridgeIsReady
  <2>5. CASE AnnounceReset
    <3>1. own' < generation' /\ own' <= generation'
      BY <1>0, <2>5, SMT DEF AnnounceReset, set_resetting, otherVars, StateInv, OwnIsPast
    <3> QED
      BY <2>5, <3>1 DEF AnnounceReset, set_resetting, StateInv, PhaseFits,
        OwnIsPast, BridgeIsReady
  <2> QED
    BY <1>1, <2>1, <2>2, <2>3, <2>4, <2>5 DEF EnumerationNext
<1>2. CASE DriverNext
  <2> USE DEF StateInv, PhaseFits, OwnIsPast, BridgeIsReady, otherVars, stateVars
  <2>1. CASE Setup BY <2>1 DEF Setup
  <2>2. CASE Refuse BY <2>2 DEF Refuse, IfCurrent, Expected, SetPhase
  <2>3. CASE SetupFails BY <2>3 DEF SetupFails, IfCurrent, Expected, SetErrorPhase
  <2>4. CASE Resume BY <2>4 DEF Resume, IfCurrent, Expected, SetPhase
  <2>5. CASE Publish BY <2>5 DEF Publish, IfCurrent, Expected, SetPhase
  <2>6. CASE FailCommand BY <2>6 DEF FailCommand, Expected, SetErrorPhase
  <2>7. CASE FailReport BY <2>7 DEF FailReport, IfCurrent, Expected, SetErrorPhase
  <2>8. CASE LoseReport BY <2>8 DEF LoseReport
  <2>9. CASE FailBleuio BY <2>9 DEF FailBleuio, IfCurrent, Expected, SetErrorPhase
  <2>10. CASE OpenBridge BY <2>10 DEF OpenBridge, SetBridgeConnected, Expected
  <2>11. CASE FailBridge BY <2>11 DEF FailBridge, SetErrorPhase, Expected, appVars
  <2>12. CASE EndBridge BY <2>12 DEF EndBridge, SetBridgeConnected, Expected
  <2>13. CASE Release
    <3>1. OwnIsPast'
      BY <1>0, <2>13, SMT DEF Release, set_waiting_if_current, clear_device
    <3> QED
      BY <2>13, <3>1 DEF Release, set_waiting_if_current, clear_device
  <2> QED
    BY <1>2, <2>1, <2>2, <2>3, <2>4, <2>5, <2>6, <2>7, <2>8, <2>9, <2>10, <2>11,
      <2>12, <2>13 DEF DriverNext
<1> QED BY <1>1, <1>2

\* StateInv holds throughout.
LEMMA StateInvHolds == Spec => []StateInv
<1>1. Init => StateInv
  <2>1. 0 <= 1
    BY SMT
  <2> QED BY <2>1 DEF Init, StateInv, PhaseFits, OwnIsPast, BridgeIsReady
<1>2. TypeOK /\ StateInv /\ [Next]_vars => StateInv'
  <2> SUFFICES ASSUME TypeOK, StateInv, [Next]_vars PROVE StateInv'
    OBVIOUS
  <2>1. CASE BusNext \/ PortNext \/ MonitorStep BY <2>1, MonitorStateInv
  <2>2. CASE EnumerationNext \/ DriverNext BY <2>2, AppStateInv
  <2>3. CASE UNCHANGED vars
    BY <2>3 DEF vars, stateVars, appVars, StateInv, PhaseFits, OwnIsPast, BridgeIsReady
  <2> QED BY <2>1, <2>2, <2>3 DEF Next
<1> QED BY SessionTypes, <1>1, <1>2, PTL DEF Spec

\* A device that has been announced: clear_device and set_enumeration_error are
\* the monitor's, and every helper of the application compares the session
\* before it sets the phase.
THEOREM AnnouncedIsAdopted == Spec => ResetIsAdopted
<1>1. TypeOK /\ StateInv /\ [Next]_vars
        => [phase = "resetting" /\ phase' # "resetting"
              => mon' # mon \/ own' = generation']_vars
  <2> SUFFICES ASSUME TypeOK, StateInv, Next,
                      phase = "resetting", phase' # "resetting"
               PROVE  mon' # mon \/ own' = generation'
    OBVIOUS
  <2>1. own # generation
    BY SMT DEF TypeOK, StateInv, OwnIsPast
  <2>2. CASE BusNext \/ PortNext
    BY <2>2 DEF BusNext, Plug, Unplug, Glitch, PortNext, Attached, Detached, Invalid,
      PortReset, PortResetFails, stateVars
  <2>3. CASE MonitorStep
    BY <2>3 DEF MonitorStep, Announce, set_resetting, PortError, PortClear
  <2>4. CASE EnumerationNext
    BY <2>1, <2>4
    DEF EnumerationNext, TakeConnected, TakeDisconnected, Consume,
      BeginEnumeration, SetPhase, Enumerate, EnumerateFails, RecordFailure,
      Expected, BackoffEnds, AnnounceReset, set_resetting, BusReset, Identify,
      stateVars
  <2>5. CASE DriverNext
    BY <2>1, <2>5
    DEF DriverNext, IfCurrent, Expected, Setup, Refuse, SetupFails, Resume,
      Publish, FailCommand, FailReport, LoseReport, FailBleuio, OpenBridge,
      SetBridgeConnected, FailBridge, EndBridge, Release,
      set_waiting_if_current, stateVars
  <2> QED BY <2>2, <2>3, <2>4, <2>5 DEF Next
<1> QED BY SessionTypes, StateInvHolds, <1>1, PTL DEF Spec, ResetIsAdopted

-----------------------------------------------------------------------------
(* What the commands may rely on: HostSession implements DeviceSession.    *)

\* A step that neither HOST_STATE nor the place of the application shows.
LEMMA Hidden ==
  ASSUME UNCHANGED stateVars, UNCHANGED <<app, own>> \/ (Manager' = Manager /\ own' = own)
  PROVE  UNCHANGED Session!sessionVars
BY DEF stateVars, Manager, SessionPhase, Session!sessionVars

\* The bus and the monitor: the session is reset, cleared or in error.
LEMMA PortImplements ==
  ASSUME BusNext \/ PortNext \/ MonitorStep
  PROVE  [Session!SessionNext]_Session!sessionVars
<1>1. CASE BusNext \/ PortNext
  BY <1>1, Hidden DEF BusNext, Plug, Unplug, Glitch, PortNext, Attached, Detached,
    Invalid, PortReset, PortResetFails, appVars
<1>2. CASE Announce
  <2>1. Session!PortReset
    BY <1>2 DEF Announce, set_resetting, appVars, SessionPhase, Manager,
      Session!PortReset
  <2> QED BY <2>1 DEF Session!SessionNext, Session!PortNext
<1>3. CASE PortError
  <2>1. Session!PortError
    BY <1>3 DEF PortError, set_enumeration_error, appVars, SessionPhase, Manager,
      Session!PortError
  <2> QED BY <2>1 DEF Session!SessionNext, Session!PortNext
<1>4. CASE PortClear
  <2>1. Session!PortClear
    BY <1>4 DEF PortClear, clear_device, appVars, SessionPhase, Manager,
      Session!PortClear, Session!ClearDevice
  <2> QED BY <2>1 DEF Session!SessionNext, Session!PortNext
<1> QED BY <1>1, <1>2, <1>3, <1>4 DEF MonitorStep

\* Events and enumeration: a session begins, or is given up.
LEMMA EnumerationImplements ==
  ASSUME TypeOK, StateInv, EnumerationNext
  PROVE  [Session!SessionNext]_Session!sessionVars
<1>1. CASE TakeConnected \/ BackoffEnds \/ BusReset \/ Enumerate \/ EnumerateFails
  <2>1. UNCHANGED stateVars /\ own' = own /\ Manager' = Manager
    BY <1>1 DEF TakeConnected, Consume, BackoffEnds, BusReset, Enumerate,
      EnumerateFails, otherVars, Manager
  <2> QED BY <2>1, Hidden
<1>2. CASE TakeDisconnected
  <2>1. UNCHANGED stateVars /\ own' = own
    BY <1>2 DEF TakeDisconnected, Consume
  <2>2. CASE app \in {"serve", "bridge"} /\ app' = "release"
    <3>1. Session!StopServing
      BY <2>1, <2>2 DEF stateVars, Manager, SessionPhase, Session!StopServing
    <3> QED BY <3>1 DEF Session!SessionNext
  <2>3. CASE ~(app \in {"serve", "bridge"} /\ app' = "release")
    <3>1. Manager' = Manager
      BY <1>2, <2>3 DEF TakeDisconnected, Listening, Manager
    <3> QED BY <2>1, <3>1, Hidden
  <2> QED BY <2>2, <2>3
<1>3. CASE BeginEnumeration
  <2>1. CASE phase = "resetting" /\ speed = host_speed
    <3>1. Session!Begin
      BY <1>3, <2>1 DEF BeginEnumeration, SetPhase, SessionPhase, Manager,
        Session!Begin
    <3> QED BY <3>1 DEF Session!SessionNext, Session!SetupNext
  <2>2. CASE ~(phase = "resetting" /\ speed = host_speed)
    <3>1. UNCHANGED stateVars /\ own' = own /\ Manager' = Manager
      BY <1>3, <2>2 DEF BeginEnumeration, Manager
    <3> QED BY <3>1, Hidden
  <2> QED BY <2>1, <2>2
<1>4. CASE RecordFailure
  <2>1. Session!AbortSetup
    BY <1>4 DEF RecordFailure, Expected, set_enumeration_error, stateVars,
      StateInv, BridgeIsReady, TypeOK, SessionPhase, Manager, Session!AbortSetup
  <2> QED BY <2>1 DEF Session!SessionNext, Session!SetupNext
<1>5. CASE AnnounceReset
  <2>1. Session!PortReset
    BY <1>5 DEF AnnounceReset, set_resetting, otherVars, SessionPhase, Manager,
      Session!PortReset
  <2> QED BY <2>1 DEF Session!SessionNext, Session!PortNext
<1>6. CASE Identify
  <2>1. CASE Expected("enumerating")
    <3>1. UNCHANGED stateVars /\ own' = own /\ Manager' = Manager
      BY <1>6, <2>1 DEF Identify, Manager
    <3> QED BY <3>1, Hidden
  <2>2. CASE ~Expected("enumerating")
    <3>1. Session!AbortSetup
      BY <1>6, <2>2 DEF Identify, Expected, stateVars, SessionPhase, Manager,
        Session!AbortSetup
    <3> QED BY <3>1 DEF Session!SessionNext, Session!SetupNext
  <2> QED BY <2>1, <2>2
<1> QED BY <1>1, <1>2, <1>3, <1>4, <1>5, <1>6 DEF EnumerationNext

\* The class drivers: a session is published, fails, ends or is released.
LEMMA DriverImplements ==
  ASSUME TypeOK, StateInv, DriverNext
  PROVE  [Session!SessionNext]_Session!sessionVars
<1>t. bridge_connected \in BOOLEAN /\ (bridge_connected => phase = "ready")
  BY DEF TypeOK, StateInv, BridgeIsReady
<1>1. CASE Session!AbortSetup \/ Session!Publish \/ Session!ResumeSetup
  BY <1>1 DEF Session!SessionNext, Session!SetupNext
<1>2. CASE Session!FailSession \/ Session!StopServing \/ Session!ReleaseSession
  BY <1>2 DEF Session!SessionNext
<1>3. CASE \E c \in BOOLEAN : Session!SetBridge(~c, c)
  BY <1>3 DEF Session!SessionNext
<1>4. CASE UNCHANGED stateVars /\ own' = own /\ Manager' = Manager
  BY <1>4, Hidden
<1>5. CASE Setup
  BY <1>4, <1>5 DEF Setup, otherVars, Manager
<1>6. CASE Refuse
  <2>1. Session!AbortSetup
    BY <1>6, <1>t DEF Refuse, IfCurrent, Expected, SetPhase, stateVars, otherVars,
      SessionPhase, Manager, Session!AbortSetup
  <2> QED BY <1>1, <2>1
<1>7. CASE SetupFails
  <2>1. Session!AbortSetup
    BY <1>7, <1>t DEF SetupFails, IfCurrent, Expected, SetErrorPhase, stateVars,
      otherVars, SessionPhase, Manager, Session!AbortSetup
  <2> QED BY <1>1, <2>1
<1>8. CASE Resume
  <2>1. CASE Expected("class_error")
    <3>1. Session!ResumeSetup
      BY <1>8, <2>1 DEF Resume, IfCurrent, Expected, SetPhase, otherVars,
        SessionPhase, Manager, Session!ResumeSetup
    <3> QED BY <1>1, <3>1
  <2>2. CASE ~Expected("class_error")
    BY <1>4, <1>8, <2>2 DEF Resume, IfCurrent, otherVars, Manager
  <2> QED BY <2>1, <2>2
<1>9. CASE Publish
  <2>1. CASE Expected("enumerating")
    <3>1. Session!Publish
      BY <1>9, <2>1 DEF Publish, IfCurrent, Expected, SetPhase, otherVars,
        SessionPhase, Manager, Session!Publish
    <3> QED BY <1>1, <3>1
  <2>2. CASE ~Expected("enumerating")
    <3>1. Session!AbortSetup
      BY <1>9, <2>2 DEF Publish, IfCurrent, Expected, stateVars, otherVars,
        SessionPhase, Manager, Session!AbortSetup
    <3> QED BY <1>1, <3>1
  <2> QED BY <2>1, <2>2
<1>10. CASE FailCommand \/ FailReport \/ FailBleuio \/ FailBridge
  <2>1. CASE Expected("ready")
    <3>1. Session!FailSession
      BY <1>10, <2>1 DEF FailCommand, FailReport, FailBleuio, FailBridge,
        IfCurrent, Expected, SetErrorPhase, otherVars, appVars, SessionPhase,
        Manager, Session!FailSession, Session!OwnSession
    <3> QED BY <1>2, <3>1
  <2>2. CASE ~Expected("ready") /\ app' = app
    BY <1>4, <1>10, <2>2 DEF FailCommand, FailReport, FailBleuio, FailBridge,
      IfCurrent, otherVars, appVars, Manager
  <2>3. CASE ~Expected("ready") /\ app' # app
    <3>1. Session!StopServing
      BY <1>10, <2>3 DEF FailCommand, FailReport, FailBleuio, FailBridge,
        IfCurrent, stateVars, otherVars, appVars, SessionPhase, Manager,
        Session!StopServing
    <3> QED BY <1>2, <3>1
  <2> QED BY <2>1, <2>2, <2>3
<1>11. CASE LoseReport
  <2>1. Session!StopServing
    BY <1>11 DEF LoseReport, stateVars, otherVars, SessionPhase, Manager,
      Session!StopServing
  <2> QED BY <1>2, <2>1
<1>12. CASE OpenBridge
  <2>1. Session!SetBridge(~TRUE, TRUE)
    BY <1>12, <1>t DEF OpenBridge, SetBridgeConnected, Expected, otherVars,
      SessionPhase, Manager, Session!SetBridge, Session!OwnSession
  <2> QED BY <1>3, <2>1
<1>13. CASE EndBridge
  <2>1. CASE app' = "serve"
    <3>1. CASE Expected("ready") /\ bridge_connected
      <4>1. Session!SetBridge(~FALSE, FALSE)
        BY <1>13, <1>t, <2>1, <3>1 DEF EndBridge, SetBridgeConnected, Expected,
          otherVars, SessionPhase, Manager, Session!SetBridge, Session!OwnSession
      <4> QED BY <1>3, <4>1
    <3>2. CASE ~(Expected("ready") /\ bridge_connected)
      BY <1>4, <1>13, <1>t, <2>1, <3>2 DEF EndBridge, SetBridgeConnected,
        otherVars, Manager
    <3> QED BY <3>1, <3>2
  <2>2. CASE app' # "serve"
    <3>1. bridge_connected' \in {bridge_connected, bridge_connected /\ ~Session!OwnSession}
      BY <1>13, <1>t DEF EndBridge, SetBridgeConnected, Expected, stateVars,
        SessionPhase, Session!OwnSession
    <3>2. Session!StopServing
      BY <1>13, <2>2, <3>1 DEF EndBridge, SetBridgeConnected, stateVars,
        otherVars, SessionPhase, Manager, Session!StopServing
    <3> QED BY <1>2, <3>2
  <2> QED BY <2>1, <2>2
<1>14. CASE Release
  <2>1. CASE own = generation
    <3>1. Session!ReleaseSession
      BY <1>14, <2>1 DEF Release, set_waiting_if_current, clear_device,
        SessionPhase, Manager, Session!ReleaseSession, Session!ClearDevice
    <3> QED BY <1>2, <3>1
  <2>2. CASE own # generation
    BY <1>4, <1>14, <2>2 DEF Release, set_waiting_if_current, Manager
  <2> QED BY <2>1, <2>2
<1> QED
  BY <1>5, <1>6, <1>7, <1>8, <1>9, <1>10, <1>11, <1>12, <1>13, <1>14 DEF DriverNext

\* What HostRpc assumes of a session, and what its proofs rest on: the monitor
\* and the application, interleaved at every helper, do nothing to generation,
\* phase and bridge_connected that DeviceSession does not allow.
THEOREM SessionImplemented == Spec => ImplementsSession
<1>1. Init => Session!SessionInit
  BY DEF Init, SessionPhase, Manager, Session!SessionInit
<1>2. TypeOK /\ StateInv /\ [Next]_vars => [Session!SessionNext]_Session!sessionVars
  <2> SUFFICES ASSUME TypeOK, StateInv, [Next]_vars
               PROVE  [Session!SessionNext]_Session!sessionVars
    OBVIOUS
  <2>1. CASE BusNext \/ PortNext \/ MonitorStep BY <2>1, PortImplements
  <2>2. CASE EnumerationNext BY <2>2, EnumerationImplements
  <2>3. CASE DriverNext BY <2>3, DriverImplements
  <2>4. CASE UNCHANGED vars BY <2>4, Hidden DEF vars, appVars
  <2> QED BY <2>1, <2>2, <2>3, <2>4 DEF Next
<1> QED
  BY SessionTypes, StateInvHolds, <1>1, <1>2, PTL
  DEF Spec, ImplementsSession, Session!SessionSpec

-----------------------------------------------------------------------------
(* The device of a ready session.                                          *)

\* Devices are numbered as they are plugged in, and one that is gone does not
\* come back; the host stack has connected, and the monitor announces, only
\* what has been detected.
PortInv ==
  /\ {line, detected} \subseteq 0..attaches \cup {SE1}
  /\ connected \/ mon \in {"announce", "reset"} => Present(detected)

\* Past enumeration the session is that of the device on the port, until the
\* monitor has seen another or is about to take the session down.
DeviceInv ==
  /\ phase \in {"enumerating", "ready", "class_error"}
  /\ app \notin {"enumerate", "failed"}
  /\ mon \in {"sample", "reset", "reset_failed"}
  /\ detected = line /\ Present(line)
  => dev = line

\* The numbers of the devices.
LEMMA DeviceNumbers ==
  ASSUME TypeOK, PortInv
  PROVE  /\ ~Present(0) /\ ~Present(SE1)
         /\ attaches < MaxAttach => detected # attaches + 1
BY Bounds, SMT DEF TypeOK, PortInv, Present, SE1

\* The bus and the monitor keep the numbers.
LEMMA PortInvStep ==
  ASSUME TypeOK, PortInv, [Next]_vars
  PROVE  PortInv'
<1>0. attaches \in Nat
  BY DEF TypeOK
<1>1. CASE BusNext
  <2>1. {line', detected'} \subseteq 0..attaches' \cup {SE1}
    BY <1>0, <1>1, SMT DEF BusNext, Plug, Unplug, Glitch, PortInv, monitorVars
  <2> QED BY <1>1, <2>1 DEF BusNext, Plug, Unplug, Glitch, PortInv, Present, monitorVars
<1>2. CASE PortNext \/ MonitorStep
  <2>1. {line', detected'} \subseteq 0..attaches' \cup {SE1}
    BY <1>0, <1>2, SMT DEF PortNext, MonitorStep, Attached, Detached, Invalid,
      PortReset, PortResetFails, Announce, PortError, PortClear, PortInv, busVars
  <2> QED
    BY <1>2, <2>1 DEF PortNext, MonitorStep, Attached, Detached, Invalid,
      ReportDisconnected, PortReset, PortResetFails, Announce, PortError,
      PortClear, PortInv, Present
<1>3. CASE UNCHANGED <<busVars, monitorVars>>
  BY <1>3 DEF PortInv, busVars, monitorVars, Present
<1> QED BY <1>1, <1>2, <1>3, AppFrame DEF Next, vars

\* The bus and the monitor keep DeviceInv.
LEMMA PortDeviceInv ==
  ASSUME TypeOK, PortInv, DeviceInv, BusNext \/ PortNext \/ MonitorStep
  PROVE  DeviceInv'
<1>1. CASE BusNext
  BY <1>1, DeviceNumbers DEF BusNext, Plug, Unplug, Glitch, DeviceInv, stateVars,
    monitorVars, appVars, Present
<1>2. CASE Attached \/ Detached \/ Invalid
  BY <1>2 DEF Attached, Detached, Invalid, DeviceInv
<1>3. CASE PortReset \/ PortResetFails
  BY <1>3 DEF PortReset, PortResetFails, DeviceInv, stateVars, busVars, appVars,
    Present
<1>4. CASE MonitorStep
  BY <1>4 DEF MonitorStep, Announce, set_resetting, PortError,
    set_enumeration_error, PortClear, clear_device, DeviceInv
<1> QED BY <1>1, <1>2, <1>3, <1>4 DEF PortNext

\* The application keeps DeviceInv.
LEMMA AppDeviceInv ==
  ASSUME TypeOK, StateInv, DeviceInv, EnumerationNext \/ DriverNext
  PROVE  DeviceInv'
<1>0. UNCHANGED <<line, mon, detected>>
  BY AppFrame DEF busVars, monitorVars
<1> USE DEF DeviceInv, Present, StateInv, PhaseFits
<1>1. CASE EnumerationNext
  BY <1>0, <1>1
  DEF EnumerationNext, TakeConnected, TakeDisconnected, Consume,
    BeginEnumeration, SetPhase, Enumerate, EnumerateFails, RecordFailure,
    Expected, set_enumeration_error, BackoffEnds, AnnounceReset, set_resetting,
    BusReset, Identify, Listening, stateVars, otherVars
<1>2. CASE DriverNext
  <2>1. CASE Setup \/ Refuse \/ SetupFails \/ Resume \/ Publish
    BY <1>0, <2>1
    DEF IfCurrent, Expected, Setup, Refuse, SetupFails, Resume, Publish,
      SetPhase, SetErrorPhase, stateVars, otherVars
  <2>2. CASE FailCommand \/ FailReport \/ LoseReport \/ FailBleuio
    BY <1>0, <2>2
    DEF IfCurrent, Expected, FailCommand, FailReport, LoseReport, FailBleuio,
      SetErrorPhase, stateVars, otherVars
  <2>3. CASE OpenBridge \/ FailBridge \/ EndBridge
    BY <1>0, <2>3
    DEF OpenBridge, FailBridge, EndBridge, SetBridgeConnected, Expected,
      SetErrorPhase, stateVars, otherVars, appVars
  <2>4. CASE Release
    BY <1>0, <2>4 DEF Release, set_waiting_if_current, clear_device, stateVars
  <2> QED BY <1>2, <2>1, <2>2, <2>3, <2>4 DEF DriverNext
<1> QED BY <1>1, <1>2

\* No session outlives its device: the commands that a ready phase admits
\* reach the device that is on the port.
THEOREM ReadyIsPresent == Spec => []ReadyDeviceIsPresent
<1>1. Init => PortInv /\ DeviceInv
  <2>1. 0 \in 0..0
    BY SMT
  <2> QED BY <2>1 DEF Init, PortInv, DeviceInv
<1>2. TypeOK /\ StateInv /\ PortInv /\ DeviceInv /\ [Next]_vars
        => PortInv' /\ DeviceInv'
  <2> SUFFICES ASSUME TypeOK, StateInv, PortInv, DeviceInv, [Next]_vars
               PROVE  DeviceInv'
    BY PortInvStep
  <2>1. CASE BusNext \/ PortNext \/ MonitorStep BY <2>1, PortDeviceInv
  <2>2. CASE EnumerationNext \/ DriverNext BY <2>2, AppDeviceInv
  <2>3. CASE UNCHANGED vars
    BY <2>3 DEF vars, stateVars, busVars, monitorVars, appVars, DeviceInv, Present
  <2> QED BY <2>1, <2>2, <2>3 DEF Next
<1>3. PortInv /\ DeviceInv /\ StateInv => ReadyDeviceIsPresent
  BY DEF PortInv, DeviceInv, StateInv, PhaseFits, Settled, ReadyDeviceIsPresent
<1> QED BY SessionTypes, StateInvHolds, <1>1, <1>2, <1>3, PTL DEF Spec

-----------------------------------------------------------------------------
(* An application that keeps up with the port.                             *)

\* What the application does with a device that is attached: each place in its
\* loop has its phase.  None of them is the wait for a device, and none has
\* the phase of an empty port.
Attended ==
  \/ app = "wait" /\ phase = "resetting" /\ events = <<Connected(speed)>>
  \/ /\ events = <<>>
     /\ \/ app \in {"begin", "bus_reset", "rebegin"}
           /\ phase = "resetting" /\ speed = host_speed
        \/ app \in {"reset", "backoff"} /\ phase = "enumeration_error"
        \/ /\ own = generation
           /\ \/ /\ app \in {"enumerate", "failed", "identify", "setup",
                             "refused", "setup_failed", "publish"}
                 /\ phase = "enumerating"
              \/ app \in {"setup_backoff", "resume"} /\ phase = "class_error"
              \/ /\ app = "removal"
                 /\ phase \in {"ready", "class_error", "unsupported"}
              \/ /\ app \in {"serve", "bridge"}
                 /\ app = "bridge" => class = "serial"
                 /\ phase \in {"ready", "class_error"}
                 /\ class \in {"wispy", "audio"} => phase = "ready"

\* Before a device is announced the application has dropped the last one.
Following ==
  /\ class # "bleuio"
  /\ mon # "sample" => ~connected
  /\ mon \in {"announce", "reset", "reset_failed"} => app = "wait" /\ events = <<>>
  /\ mon = "reset" => phase = "resetting" /\ speed = SpeedOf(detected)
  /\ IF connected THEN Attended
     ELSE \/ events = <<>> /\ app \in {"wait", "release", "bridge_lost"}
          \/ events = <<Disconnected>>

\* The two kinds of events.
LEMMA EventKinds ==
  /\ Disconnected.kind = "Disconnected"
  /\ \A s : Connected(s).kind = "Connected" /\ Connected(s).speed = s
BY DEF Disconnected, Connected

\* The monitor waits for the application.
LEMMA MonitorFollowing ==
  ASSUME Prompt, TypeOK, PortInv, Following, BusNext \/ PortNext \/ MonitorStep
  PROVE  Following'
<1>1. CASE BusNext
  BY <1>1 DEF BusNext, Plug, Unplug, Glitch, Following, Attended, stateVars,
    monitorVars, appVars
<1>2. CASE Attached
  <2>1. ~connected /\ events = <<>> /\ app = "wait"
    BY <1>2 DEF Attached, InTime, Runnable, Following, PortInv
  <2> QED
    BY <1>2, <2>1 DEF Attached, Following, stateVars, appVars
<1>3. CASE Detached \/ Invalid
  <2>1. connected => events = <<>>
    BY <1>3 DEF Detached, Invalid, InTime, Runnable, Following, Attended
  <2>2. IF connected THEN events' = <<Disconnected>> ELSE events' = events
    BY <1>3, <2>1 DEF Detached, Invalid, ReportDisconnected
  <2> QED
    BY <1>3, <2>2 DEF Detached, Invalid, ReportDisconnected, Following, stateVars,
      appVars
<1>4. CASE PortReset
  <2>1. /\ events = <<>> /\ app = "wait" /\ phase = "resetting"
        /\ speed = SpeedOf(detected)
    BY <1>4 DEF PortReset, Following
  <2>2. events' = <<Connected(speed)>>
    BY <1>4, <2>1 DEF PortReset
  <2> QED
    BY <1>4, <2>1, <2>2 DEF PortReset, Following, Attended, stateVars, appVars
<1>5. CASE PortResetFails
  BY <1>5 DEF PortResetFails, Following, stateVars, appVars
<1>6. CASE MonitorStep
  BY <1>6 DEF MonitorStep, Announce, set_resetting, PortError, PortClear, Following,
    appVars
<1> QED BY <1>1, <1>2, <1>3, <1>4, <1>5, <1>6 DEF PortNext

\* While it has a device the application goes on with it.
LEMMA AttendedStep ==
  ASSUME TypeOK, StateInv, connected, Attended, class # "bleuio",
         "bleuio" \notin Classes, EnumerationNext \/ DriverNext
  PROVE  Attended' /\ class' # "bleuio"
<1>0. connected' = connected
  BY AppFrame DEF monitorVars
<1>1. CASE TakeConnected
  <2>1. app = "wait" /\ phase = "resetting" /\ events = <<Connected(speed)>>
    BY <1>1 DEF TakeConnected, Consume, Attended
  <2>2. events' = <<>> /\ Head(events).speed = speed
    BY <1>1, <2>1, EventKinds DEF TakeConnected, Consume
  <2> QED
    BY <1>1, <2>1, <2>2 DEF TakeConnected, Consume, Attended, stateVars
<1>2. CASE TakeDisconnected
  <2>1. app = "wait" /\ events = <<Connected(speed)>>
    BY <1>2 DEF TakeDisconnected, Consume, Attended
  <2>2. Head(events).kind = "Connected"
    BY <2>1, EventKinds
  <2> QED BY <1>2, <2>2 DEF TakeDisconnected, Consume
<1>3. CASE BeginEnumeration
  <2>1. phase = "resetting" /\ speed = host_speed /\ events = <<>>
    BY <1>3 DEF BeginEnumeration, Attended
  <2> QED BY <1>3, <2>1 DEF BeginEnumeration, SetPhase, Attended
<1> USE DEF Attended, stateVars, otherVars
<1>4. CASE Enumerate \/ EnumerateFails
  BY <1>4 DEF Enumerate, EnumerateFails
<1>5. CASE RecordFailure
  BY <1>5 DEF RecordFailure, Expected, set_enumeration_error
<1>6. CASE BackoffEnds \/ BusReset
  BY <1>6 DEF BackoffEnds, BusReset
<1>7. CASE AnnounceReset
  BY <1>7 DEF AnnounceReset, set_resetting
<1>8. CASE Identify
  BY <1>8 DEF Identify, Expected
<1>9. CASE Setup
  BY <1>9 DEF Setup
<1>10. CASE Refuse
  BY <1>10 DEF Refuse, IfCurrent, Expected, SetPhase
<1>11. CASE SetupFails
  BY <1>11 DEF SetupFails, IfCurrent, Expected, SetErrorPhase
<1>12. CASE Resume
  BY <1>12 DEF Resume, IfCurrent, Expected, SetPhase
<1>13. CASE Publish
  BY <1>13 DEF Publish, IfCurrent, Expected, SetPhase
<1>14. CASE FailCommand
  BY <1>14 DEF FailCommand, Expected, SetErrorPhase
<1>15. CASE FailReport
  BY <1>15 DEF FailReport, IfCurrent, Expected, SetErrorPhase
<1>16. CASE LoseReport
  BY <1>16 DEF LoseReport, Expected
<1>17. CASE FailBleuio
  BY <1>17 DEF FailBleuio
<1>18. CASE OpenBridge
  BY <1>18 DEF OpenBridge, SetBridgeConnected
<1>19. CASE FailBridge
  BY <1>19 DEF FailBridge, SetErrorPhase, appVars
<1>20. CASE EndBridge
  BY <1>20 DEF EndBridge, SetBridgeConnected
<1>21. CASE Release
  BY <1>21 DEF Release
<1> QED
  BY <1>1, <1>2, <1>3, <1>4, <1>5, <1>6, <1>7, <1>8, <1>9, <1>10, <1>11, <1>12,
    <1>13, <1>14, <1>15, <1>16, <1>17, <1>18, <1>19, <1>20, <1>21
  DEF EnumerationNext, DriverNext

\* Once it has lost its device the application comes back to its wait, and not
\* before it has taken the disconnect.
LEMMA LostStep ==
  ASSUME ~connected, class # "bleuio", "bleuio" \notin Classes,
         EnumerationNext \/ DriverNext,
         \/ events = <<>> /\ app \in {"wait", "release", "bridge_lost"}
         \/ events = <<Disconnected>>
  PROVE  /\ \/ events' = <<>> /\ app' \in {"wait", "release", "bridge_lost"}
            \/ events' = <<Disconnected>>
         /\ class' # "bleuio"
         /\ app = "wait" /\ events = <<>> => app' = "wait" /\ events' = <<>>
<1>1. class' # "bleuio"
  <2>1. class' = class \/ class' = "none" \/ class' \in Classes
    BY DEF EnumerationNext, TakeConnected, TakeDisconnected, Consume,
      BeginEnumeration, Enumerate, EnumerateFails, RecordFailure, BackoffEnds,
      AnnounceReset, BusReset, Identify, DriverNext, IfCurrent, Setup, Refuse,
      SetupFails, Resume, Publish, FailCommand, FailReport, LoseReport,
      FailBleuio, OpenBridge, FailBridge, EndBridge, Release, otherVars, appVars
  <2> QED BY <2>1
<1>2. CASE events = <<>>
  BY <1>1, <1>2
  DEF EnumerationNext, TakeConnected, TakeDisconnected, Consume,
    BeginEnumeration, Enumerate, EnumerateFails, RecordFailure, BackoffEnds,
    AnnounceReset, BusReset, Identify, DriverNext, IfCurrent, Setup, Refuse,
    SetupFails, Resume, Publish, FailCommand, FailReport, LoseReport,
    FailBleuio, OpenBridge, FailBridge, EndBridge, Release, otherVars, appVars
<1>3. CASE events = <<Disconnected>>
  <2>1. Head(events).kind = "Disconnected" /\ Tail(events) = <<>> /\ events # <<>>
    BY <1>3, EventKinds
  <2>2. CASE TakeConnected
    BY <2>1, <2>2 DEF TakeConnected, Consume
  <2>3. CASE TakeDisconnected
    BY <1>1, <2>1, <2>3 DEF TakeDisconnected, Consume, Listening
  <2>4. CASE events' = events
    BY <1>1, <1>3, <2>1, <2>4
  <2> QED
    BY <2>2, <2>3, <2>4
    DEF EnumerationNext, BeginEnumeration, Enumerate, EnumerateFails,
      RecordFailure, BackoffEnds, AnnounceReset, BusReset, Identify, DriverNext,
      IfCurrent, Setup, Refuse, SetupFails, Resume, Publish, FailCommand,
      FailReport, LoseReport, FailBleuio, OpenBridge, FailBridge, EndBridge,
      Release, otherVars
<1> QED BY <1>2, <1>3

\* The application keeps Following.
LEMMA AppFollowing ==
  ASSUME "bleuio" \notin Classes, TypeOK, StateInv, Following,
         EnumerationNext \/ DriverNext
  PROVE  Following'
<1>0. UNCHANGED <<detected, connected, mon>>
  BY AppFrame DEF monitorVars
<1>1. CASE connected
  <2>1. mon = "sample"
    BY <1>1 DEF Following
  <2>2. Attended' /\ class' # "bleuio"
    BY <1>1, AttendedStep DEF Following
  <2> QED BY <1>0, <1>1, <2>1, <2>2 DEF Following
<1>2. CASE ~connected
  <2>1. mon = "reset" => UNCHANGED <<phase, speed>>
    BY DEF Following, EnumerationNext, TakeConnected, TakeDisconnected, Consume,
      BeginEnumeration, Enumerate, EnumerateFails, RecordFailure, BackoffEnds,
      AnnounceReset, BusReset, Identify, DriverNext, IfCurrent, Setup, Refuse,
      SetupFails, Resume, Publish, FailCommand, FailReport, LoseReport,
      FailBleuio, OpenBridge, FailBridge, EndBridge, Release
  <2> QED BY <1>0, <1>2, <2>1, LostStep DEF Following
<1> QED BY <1>1, <1>2

\* Following holds throughout, if the application keeps up with the port and no
\* device is a BleuIO dongle.
LEMMA FollowingHolds ==
  ASSUME Prompt, "bleuio" \notin Classes
  PROVE  Spec => []Following
<1>1. Init => Following /\ PortInv
  <2>1. 0 \in 0..0
    BY SMT
  <2> QED BY <2>1 DEF Init, Following, PortInv
<1>2. TypeOK /\ StateInv /\ PortInv /\ Following /\ [Next]_vars
        => PortInv' /\ Following'
  <2> SUFFICES ASSUME TypeOK, StateInv, PortInv, Following, [Next]_vars
               PROVE  Following'
    BY PortInvStep
  <2>1. CASE BusNext \/ PortNext \/ MonitorStep BY <2>1, MonitorFollowing
  <2>2. CASE EnumerationNext \/ DriverNext BY <2>2, AppFollowing
  <2>3. CASE UNCHANGED vars
    BY <2>3 DEF vars, stateVars, busVars, monitorVars, appVars, Following, Attended
  <2> QED BY <2>1, <2>2, <2>3 DEF Next
<1> QED BY SessionTypes, StateInvHolds, <1>1, <1>2, PTL DEF Spec

\* No device is forgotten: the application that keeps up has a place in its
\* loop for every device that has been connected, and does not go back to its
\* wait before the disconnect.
THEOREM NoneForgotten ==
  ASSUME Prompt, "bleuio" \notin Classes
  PROVE  Spec => []NoForgottenDevice
<1>1. Following => NoForgottenDevice
  BY DEF Following, Attended, NoForgottenDevice
<1> QED BY FollowingHolds, <1>1, PTL

\* README 1012-1016: the flash is locked while a device is attached.
THEOREM FlashIsLocked ==
  ASSUME Prompt, "bleuio" \notin Classes
  PROVE  Spec => []FlashLockedWhileAttached
<1>1. Following => FlashLockedWhileAttached
  BY DEF Following, Attended, FlashLockedWhileAttached, MaintenanceAllowed
<1> QED BY FollowingHolds, <1>1, PTL
=============================================================================
