------------------------ MODULE LinkSupervisorProofs ------------------------
(***************************************************************************)
(* Proofs about LinkSupervisor, for every number of services, every limit  *)
(* and every bound.                                                        *)
(***************************************************************************)
EXTENDS LinkSupervisor, TLAPS

USE DEF scratch, hostVars, mainVars, mdnsVars, bounds

LEMMA FlagsInvariant == Spec => []FlagsOK
<1>1. Init => FlagsOK
  BY DEF Init, InitialMemory, FlagsOK
<1>2. FlagsOK /\ [Next]_vars => FlagsOK'
  <2> SUFFICES ASSUME FlagsOK, [Next]_vars PROVE FlagsOK'
    OBVIOUS
  <2> USE DEF FlagsOK
  <2>1. CASE HostConnects
    BY <2>1 DEF HostConnects, Running
  <2>2. CASE HostTalks
    BY <2>2 DEF HostTalks, Running
  <2>3. CASE Leased
    BY <2>3 DEF Leased, Running
  <2>4. CASE HostDisconnects
    BY <2>4 DEF HostDisconnects, Running
  <2>5. CASE Released
    BY <2>5 DEF Released, Running
  <2>6. CASE Boot
    BY <2>6 DEF Boot, take_host_silence_reset_count
  <2>7. CASE LinkUp
    BY <2>7 DEF LinkUp
  <2>8. CASE LinkTimeout
    BY <2>8 DEF LinkTimeout, MissesEnough, arm_link_watchdog_reset, Fresh
  <2>9. CASE ProbeSleep
    BY <2>9 DEF ProbeSleep
  <2>10. CASE HostAlive
    BY <2>10 DEF HostAlive, Settle, clear_host_silence_reset_count, Fresh
  <2>11. CASE SilenceReset
    BY <2>11 DEF SilenceReset, Silent, LimitReached, arm_host_silence_reset
  <2>12. CASE StayUp
    BY <2>12 DEF StayUp, Silent, LimitReached, Settle
  <2>13. CASE LinkLostInProbe
    BY <2>13 DEF LinkLostInProbe
  <2>14. CASE Register
    BY <2>14 DEF Register
  <2>15. CASE Monitor
    BY <2>15 DEF Monitor, clear_host_silence_reset_count, Fresh, ServiceReady
  <2>16. CASE LinkDown
    BY <2>16 DEF LinkDown, clear_host_silence_reset_count, Fresh
  <2>17. CASE Resume
    BY <2>17 DEF Resume
  <2>18. CASE SystemReset
    BY <2>18 DEF SystemReset, Restart
  <2>19. CASE ButtonReset
    BY <2>19 DEF ButtonReset, Restart, clear_host_silence_reset_count, Fresh
  <2>20. ASSUME NEW s \in Services, Established(s) PROVE FlagsOK'
    BY <2>20 DEF Established, Report, Running
  <2>21. ASSUME NEW s \in Services, Disputed(s) PROVE FlagsOK'
    BY <2>21 DEF Disputed, Report, Running
  <2>22. CASE UNCHANGED vars
    BY <2>22 DEF vars
  <2> QED
    BY <2>1, <2>2, <2>3, <2>4, <2>5, <2>6, <2>7, <2>8, <2>9, <2>10,
       <2>11, <2>12, <2>13, <2>14, <2>15, <2>16, <2>17, <2>18, <2>19, <2>20,
       <2>21, <2>22
       DEF Next, EnvironmentNext, HostNext, MainNext
<1> QED
  BY <1>1, <1>2, PTL DEF Spec

-----------------------------------------------------------------------------
\* The watchdog of the link has not run out while the main task waits.
MissesLeft == pc # "detach" => link_watchdog_misses < CDC_NCM_LINK_UP_RESET_MISSES

\* The count that the next boot takes over.
TakenOver == IF marker = "silence" THEN stored_count ELSE 0

\* The streak is counted in memory while the board runs, and in the scratch
\* registers from the decision to reset it until it has booted.
StreakCounted ==
  IF pc \in {"boot", "detach"} THEN streak <= TakenOver
                               ELSE streak <= host_silence_resets

Bounded ==
  /\ CountersOK
  /\ marker \in Markers
  /\ pc \in Places
  /\ MissesLeft
  /\ StreakCounted

\* Whatever resets the board, the streak is no longer than what it counts.
LEMMA BoundedInvariant == Spec => []Bounded
<1> USE LinkAssumption DEF Places, Markers
<1>1. Init => Bounded
  BY DEF Init, InitialMemory, Bounded, CountersOK, MissesLeft, StreakCounted,
         TakenOver, CDC_NCM_LINK_UP_RESET_MISSES
<1>2. Bounded /\ [Next]_vars => Bounded'
  <2> SUFFICES ASSUME Bounded, [Next]_vars PROVE Bounded'
    OBVIOUS
  <2> USE DEF Bounded, CountersOK, MissesLeft, StreakCounted, TakenOver,
              CDC_NCM_LINK_UP_RESET_MISSES
  <2>1. CASE HostConnects
    BY <2>1 DEF HostConnects, Running
  <2>2. CASE HostTalks
    BY <2>2 DEF HostTalks, Running
  <2>3. CASE Leased
    BY <2>3 DEF Leased, Running
  <2>4. CASE HostDisconnects
    BY <2>4 DEF HostDisconnects, Running
  <2>5. CASE Released
    BY <2>5 DEF Released, Running
  <2>6. CASE Boot
    BY <2>6 DEF Boot, take_host_silence_reset_count
  <2>7. CASE LinkUp
    BY <2>7 DEF LinkUp
  <2>8. CASE LinkTimeout
    BY <2>8 DEF LinkTimeout, MissesEnough, arm_link_watchdog_reset, Fresh
  <2>9. CASE ProbeSleep
    BY <2>9 DEF ProbeSleep
  <2>10. CASE HostAlive
    BY <2>10 DEF HostAlive, Settle, clear_host_silence_reset_count, Fresh
  <2>11. CASE SilenceReset
    BY <2>11 DEF SilenceReset, Silent, LimitReached, arm_host_silence_reset
  <2>12. CASE StayUp
    BY <2>12 DEF StayUp, Silent, LimitReached, Settle
  <2>13. CASE LinkLostInProbe
    BY <2>13 DEF LinkLostInProbe
  <2>14. CASE Register
    BY <2>14 DEF Register
  <2>15. CASE Monitor
    BY <2>15 DEF Monitor, clear_host_silence_reset_count, Fresh, ServiceReady
  <2>16. CASE LinkDown
    BY <2>16 DEF LinkDown, clear_host_silence_reset_count, Fresh
  <2>17. CASE Resume
    BY <2>17 DEF Resume
  <2>18. CASE SystemReset
    BY <2>18 DEF SystemReset, Restart
  <2>19. CASE ButtonReset
    BY <2>19 DEF ButtonReset, Restart, clear_host_silence_reset_count, Fresh
  <2>20. ASSUME NEW s \in Services, Established(s) PROVE Bounded'
    BY <2>20 DEF Established, Report, Running
  <2>21. ASSUME NEW s \in Services, Disputed(s) PROVE Bounded'
    <3>1. UNCHANGED <<scratch, pc, mainVars, streak, resets, drops, deaf>>
      BY <2>21 DEF Disputed, Report
    <3>2. troubles' \in 0..MaxTroubles
      BY <2>21 DEF Disputed
    <3> QED
      BY <3>1, <3>2
  <2>22. CASE UNCHANGED vars
    BY <2>22 DEF vars
  <2> QED
    BY <2>1, <2>2, <2>3, <2>4, <2>5, <2>6, <2>7, <2>8, <2>9, <2>10,
       <2>11, <2>12, <2>13, <2>14, <2>15, <2>16, <2>17, <2>18, <2>19, <2>20,
       <2>21, <2>22
       DEF Next, EnvironmentNext, HostNext, MainNext
<1> QED
  BY <1>1, <1>2, PTL DEF Spec

-----------------------------------------------------------------------------
MdnsOK ==
  /\ status \in {"busy", "ready"}
  /\ responder \in [Services -> Outcomes]
  /\ updates \in [Services -> Seq(Updates)]

LEMMA MdnsInvariant == Spec => []MdnsOK
<1> USE DEF Outcomes, Updates
<1>1. Init => MdnsOK
  BY DEF Init, InitialMemory, MdnsOK
<1>2. MdnsOK /\ [Next]_vars => MdnsOK'
  <2> SUFFICES ASSUME MdnsOK, [Next]_vars PROVE MdnsOK'
    OBVIOUS
  <2> USE DEF MdnsOK
  <2>1. CASE HostConnects
    BY <2>1 DEF HostConnects, Running
  <2>2. CASE HostTalks
    BY <2>2 DEF HostTalks, Running
  <2>3. CASE Leased
    BY <2>3 DEF Leased, Running
  <2>4. CASE HostDisconnects
    BY <2>4 DEF HostDisconnects, Running
  <2>5. CASE Released
    BY <2>5 DEF Released, Running
  <2>6. CASE Boot
    BY <2>6 DEF Boot, take_host_silence_reset_count
  <2>7. CASE LinkUp
    BY <2>7 DEF LinkUp
  <2>8. CASE LinkTimeout
    BY <2>8 DEF LinkTimeout, MissesEnough, arm_link_watchdog_reset, Fresh
  <2>9. CASE ProbeSleep
    BY <2>9 DEF ProbeSleep
  <2>10. CASE HostAlive
    BY <2>10 DEF HostAlive, Settle, clear_host_silence_reset_count, Fresh
  <2>11. CASE SilenceReset
    BY <2>11 DEF SilenceReset, Silent, LimitReached, arm_host_silence_reset
  <2>12. CASE StayUp
    BY <2>12 DEF StayUp, Silent, LimitReached, Settle
  <2>13. CASE LinkLostInProbe
    BY <2>13 DEF LinkLostInProbe
  <2>14. CASE Register
    BY <2>14 DEF Register
  <2>15. CASE Monitor
    BY <2>15 DEF Monitor, clear_host_silence_reset_count, Fresh, ServiceReady
  <2>16. CASE LinkDown
    BY <2>16 DEF LinkDown, clear_host_silence_reset_count, Fresh
  <2>17. CASE Resume
    BY <2>17 DEF Resume
  <2>18. CASE SystemReset
    BY <2>18 DEF SystemReset, Restart
  <2>19. CASE ButtonReset
    BY <2>19 DEF ButtonReset, Restart, clear_host_silence_reset_count, Fresh
  <2>20. ASSUME NEW s \in Services, Established(s) PROVE MdnsOK'
    BY <2>20 DEF Established, Report, Running
  <2>21. ASSUME NEW s \in Services, Disputed(s) PROVE MdnsOK'
    <3>1. CASE Report(s, "probing", "Renamed")
      BY <3>1 DEF Report, Running
    <3>2. CASE Report(s, "dead", "Conflict")
      BY <3>2 DEF Report, Running
    <3> QED
      BY <2>21, <3>1, <3>2 DEF Disputed
  <2>22. CASE UNCHANGED vars
    BY <2>22 DEF vars
  <2> QED
    BY <2>1, <2>2, <2>3, <2>4, <2>5, <2>6, <2>7, <2>8, <2>9, <2>10,
       <2>11, <2>12, <2>13, <2>14, <2>15, <2>16, <2>17, <2>18, <2>19, <2>20,
       <2>21, <2>22
       DEF Next, EnvironmentNext, HostNext, MainNext
<1> QED
  BY <1>1, <1>2, PTL DEF Spec

-----------------------------------------------------------------------------
\* Every variable keeps its type.
THEOREM LinkTypeCorrect == Spec => []TypeOK
<1>1. FlagsOK /\ Bounded /\ MdnsOK => TypeOK
  BY DEF Bounded, MdnsOK, TypeOK
<1> QED
  BY <1>1, FlagsInvariant, BoundedInvariant, MdnsInvariant, PTL

\* A host that never talks makes the board reset itself at most ResetLimit times
\* in a row, across reboots, whatever the link does in between.
THEOREM LinkRecoveryBounded == Spec => []SilenceResetsBounded
<1>1. Bounded => SilenceResetsBounded
  BY LinkAssumption
     DEF Bounded, CountersOK, Places, Markers, StreakCounted, TakenOver,
         SilenceResetsBounded
<1> QED
  BY <1>1, BoundedInvariant, PTL

-----------------------------------------------------------------------------
\* What the main task holds of a service, or is about to read, is what the responder
\* has made of it; from the end of a probe until the services are registered anew it
\* holds nothing.
Told ==
  /\ \A s \in Services : ServiceReady(s) => responder[s] = "established"
  /\ pc = "settle" => \A s \in Services : ~service_ready[s]

\* A report of the responder is the last update of its service.
LEMMA ReportIsLast ==
  ASSUME FlagsOK, MdnsOK, Told, NEW s \in Services,
         NEW outcome, NEW update \in Updates,
         update = "Established" => outcome = "established",
         Report(s, outcome, update)
  PROVE  Told'
<1>1. /\ responder' = [responder EXCEPT ![s] = outcome]
      /\ updates' = [updates EXCEPT ![s] = Append(@, update)]
      /\ service_ready' = service_ready /\ pc' = pc
  BY DEF Report
<1>2. ASSUME NEW t \in Services, ServiceReady(t)' PROVE responder'[t] = "established"
  <2>1. updates[t] \in Seq(Updates)
    BY DEF MdnsOK
  <2>2. CASE t = s
    <3>1. updates'[t] = Append(updates[t], update)
      BY <1>1, <2>2 DEF MdnsOK
    <3>2. updates'[t] # <<>> /\ updates'[t][Len(updates'[t])] = update
      BY <2>1, <3>1
    <3>3. update = "Established"
      BY <1>2, <3>2 DEF ServiceReady
    <3> QED
      BY <1>1, <2>2, <3>3 DEF MdnsOK
  <2>3. CASE t # s
    <3>1. updates'[t] = updates[t] /\ responder'[t] = responder[t]
      BY <1>1, <2>3 DEF MdnsOK
    <3> QED
      BY <1>1, <1>2, <3>1 DEF ServiceReady, Told
  <2> QED
    BY <2>2, <2>3
<1> QED
  BY <1>1, <1>2 DEF Told

\* The main task holds of a service what the responder has told it last.
LEMMA ToldStep == FlagsOK /\ MdnsOK /\ Told /\ [Next]_vars => Told'
<1> SUFFICES ASSUME FlagsOK, MdnsOK, Told, [Next]_vars PROVE Told'
  OBVIOUS
<1>1. CASE UNCHANGED <<mdnsVars, pc>>
  BY <1>1 DEF Told, ServiceReady
<1>2. CASE UNCHANGED mdnsVars /\ pc' # "settle"
  BY <1>2 DEF Told, ServiceReady
<1>3. CASE HostConnects \/ HostTalks \/ Leased \/ HostDisconnects \/ Released \/ ProbeSleep
  BY <1>1, <1>3
     DEF HostConnects, HostTalks, Leased, HostDisconnects, Released, ProbeSleep
<1>4. CASE Boot \/ LinkUp \/ LinkLostInProbe \/ LinkDown \/ Resume \/ SilenceReset
  BY <1>2, <1>4 DEF Boot, LinkUp, LinkLostInProbe, LinkDown, Resume, SilenceReset
<1>5. CASE LinkTimeout
  BY <1>2, <1>5 DEF LinkTimeout
<1>6. CASE HostAlive \/ StayUp
  <2>1. /\ service_ready' = [s \in Services |-> FALSE]
        /\ updates' = updates /\ responder' = responder
    BY <1>6 DEF HostAlive, StayUp, Settle
  <2>2. ASSUME NEW s \in Services, ServiceReady(s)' PROVE responder'[s] = "established"
    BY <2>1, <2>2 DEF ServiceReady, Told
  <2> QED
    BY <2>1, <2>2 DEF Told
<1>7. CASE Register
  <2>1. \A s \in Services : updates'[s] = <<>> /\ ~service_ready'[s]
    BY <1>7 DEF Register, Told
  <2>2. pc' = "serve"
    BY <1>7 DEF Register
  <2> QED
    BY <2>1, <2>2 DEF Told, ServiceReady
<1>8. CASE Monitor
  <2>1. /\ \A s \in Services : updates'[s] = <<>> /\ service_ready'[s] = ServiceReady(s)
        /\ responder' = responder /\ pc' # "settle"
    BY <1>8 DEF Monitor
  <2> QED
    BY <2>1 DEF Told, ServiceReady
<1>9. CASE SystemReset \/ ButtonReset
  <2>1. /\ \A s \in Services : updates'[s] = <<>> /\ ~service_ready'[s]
        /\ pc' = "boot"
    BY <1>9 DEF SystemReset, ButtonReset, Restart
  <2> QED
    BY <2>1 DEF Told, ServiceReady
<1>10. ASSUME NEW s \in Services, Established(s) PROVE Told'
  BY <1>10, ReportIsLast DEF Established, Updates
<1>11. ASSUME NEW s \in Services, Disputed(s) PROVE Told'
  <2>1. Report(s, "probing", "Renamed") \/ Report(s, "dead", "Conflict")
    BY <1>11 DEF Disputed
  <2> QED
    BY <2>1, ReportIsLast DEF Updates
<1>12. CASE UNCHANGED vars
  BY <1>1, <1>12 DEF vars
<1> QED
  BY <1>3, <1>4, <1>5, <1>6, <1>7, <1>8, <1>9, <1>10, <1>11, <1>12
     DEF Next, EnvironmentNext, HostNext, MainNext

\* ReadyIsEstablished: the indicator turns to ready (main.rs) only when every service
\* stands as the responder has established it since it was registered on this link,
\* however its updates and the link interleave with the passes of the monitor.
THEOREM ReadyMeansEstablished == Spec => ReadyIsEstablished
<1>1. Init => Told
  BY DEF Init, InitialMemory, Told, ServiceReady
<1>2. Told /\ [Next]_vars =>
        (status = "busy" /\ status' = "ready"
           => \A s \in Services : responder[s] = "established") \/ UNCHANGED vars
  <2> SUFFICES ASSUME Told, [Next]_vars, status = "busy", status' = "ready"
               PROVE  \A s \in Services : responder[s] = "established"
    OBVIOUS
  <2>1. Monitor
    BY DEF Next, EnvironmentNext, HostNext, MainNext, vars, HostConnects, HostTalks,
           Leased, HostDisconnects, Released, Boot, LinkUp, LinkTimeout, ProbeSleep,
           HostAlive, SilenceReset, StayUp, LinkLostInProbe, Register, LinkDown, Resume,
           SystemReset, ButtonReset, Restart, Established, Disputed, Report
  <2>2. \A s \in Services : service_ready'[s] /\ service_ready'[s] = ServiceReady(s)
    BY <2>1 DEF Monitor
  <2> QED
    BY <2>2 DEF Told
<1> QED
  BY <1>1, <1>2, ToldStep, FlagsInvariant, MdnsInvariant, PTL DEF Spec, ReadyIsEstablished
=============================================================================
