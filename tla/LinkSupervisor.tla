--------------------------- MODULE LinkSupervisor ---------------------------
(***************************************************************************)
(* The main task of the firmware (src/src/main.rs): it supervises the      *)
(* CDC-NCM link to the USB host, registers the mDNS services, shows        *)
(* readiness on the status indicator, and resets the board when the link   *)
(* does not come up or the host stays silent on it.  The number of resets  *)
(* and their reason survive a reset in the watchdog scratch registers      *)
(* (src/src/network.rs).  The NCM class, the DHCP server and the mDNS      *)
(* responder are tasks of the same executor and are modelled by what they  *)
(* report; the host is external.                                           *)
(*                                                                         *)
(* The main task runs from one await to the next without interruption, and *)
(* so does an action.                                                      *)
(***************************************************************************)
EXTENDS Naturals, Sequences

CONSTANTS
  Services,   \* mDNS services, {} for a build without mDNS
  DhcpServer, \* whether the build has a DHCP server
  ResetLimit, \* HOST_SILENCE_RESET_LIMIT
  ProbePolls, \* HOST_SILENCE_TIMEOUT / 250 ms
  Timely,     \* whether a host that hears the board talks within the probe
  MaxResets,  \* bound on presses of the reset button
  MaxDrops,   \* bound on disconnections by the host
  MaxDeaf,    \* bound on the enumerations the host misses the notification of
  MaxTroubles \* bound on mDNS failures, renames and conflicts, and DHCP releases

ASSUME LinkAssumption ==
  /\ DhcpServer \in BOOLEAN
  /\ Timely \in BOOLEAN
  /\ ResetLimit \in Nat \ {0} /\ ProbePolls \in Nat \ {0}
  /\ MaxResets \in Nat /\ MaxDrops \in Nat
  /\ MaxDeaf \in Nat /\ MaxTroubles \in Nat

VARIABLES
  \* watchdog scratch registers
  stored_count, \* count in scratch0
  marker,       \* scratch1
  \* host and link
  link,         \* whether the network stack reports the link up
  hearing,      \* whether the host knows that it is
  seen,         \* whether NET_RX_PACKETS has moved since it was last read
  lease,        \* DHCP_LEASE_ACTIVE
  \* the main task
  pc,
  host_silence_resets,
  link_ever_up,
  link_watchdog_misses,
  polls,        \* polls of the probe so far
  host_ready,
  status,       \* the indicator
  \* mDNS
  registered,   \* whether mdns_registration is there
  responder,    \* what the responder has made of each registered service
  updates,      \* its updates, not yet polled
  service_ready, \* mdns_service_ready
  \* history and bounds
  streak,       \* resets for silence without the host being heard, see Fresh
  resets, drops, deaf, troubles

scratch == <<stored_count, marker>>
hostVars == <<link, hearing, seen, lease>>
mainVars == <<host_silence_resets, link_ever_up, link_watchdog_misses, polls,
              host_ready, status>>
mdnsVars == <<registered, responder, updates, service_ready>>
bounds == <<resets, drops, deaf, troubles>>
vars == <<scratch, hostVars, pc, mainVars, mdnsVars, streak, bounds>>

CDC_NCM_LINK_UP_RESET_MISSES == 2

\* Where the main task awaits; "detach": in usb_reenumeration_reset.
Places == {"boot", "wait", "probe", "settle", "serve", "pause", "detach"}
Markers == {"none", "silence", "link"}
Updates == {"Established", "Renamed", "Conflict"}
Outcomes == {"none", "probing", "established", "dead"}

\* Memory as the reset leaves it, before and while the tasks start.
InitialMemory ==
  /\ pc = "boot"
  /\ link = FALSE /\ hearing = FALSE /\ seen = FALSE /\ lease = FALSE
  /\ host_silence_resets = 0
  /\ link_ever_up = FALSE
  /\ link_watchdog_misses = 0
  /\ polls = 0
  /\ host_ready = FALSE
  /\ status = "busy"
  /\ registered = FALSE
  /\ responder = [s \in Services |-> "none"]
  /\ updates = [s \in Services |-> <<>>]
  /\ service_ready = [s \in Services |-> FALSE]

\* Power-on: the scratch registers hold neither the magic nor a marker.
Init ==
  /\ InitialMemory
  /\ stored_count = 0 /\ marker = "none"
  /\ streak = 0
  /\ resets = 0 /\ drops = 0 /\ deaf = 0 /\ troubles = 0

-----------------------------------------------------------------------------
(* Watchdog scratch registers (network.rs).                                *)

\* Mutant: the count is not taken over.
take_nothing ==
  /\ host_silence_resets' = 0
  /\ stored_count' = 0
  /\ marker' = "none"

take_host_silence_reset_count ==
  /\ stored_count' = IF marker = "silence" THEN stored_count ELSE 0
  /\ host_silence_resets' = stored_count'
  /\ marker' = "none"

arm_host_silence_reset(count) == stored_count' = count /\ marker' = "silence"

arm_link_watchdog_reset == stored_count' = 0 /\ marker' = "link"

clear_host_silence_reset_count == stored_count' = 0 /\ marker' = "none"

\* A fresh sequence of resets begins.
Fresh == streak' = 0

-----------------------------------------------------------------------------
(* The host and the tasks that report to the main task.                    *)

Running == pc \notin {"boot", "detach"}

\* The host enables the data interface and is notified that the link is up; a
\* deaf one misses the notification.
HostConnects ==
  /\ Running /\ ~link
  /\ link' = TRUE
  /\ \/ hearing' = TRUE /\ UNCHANGED deaf
     \/ hearing' = FALSE /\ deaf < MaxDeaf /\ deaf' = deaf + 1
  /\ UNCHANGED <<scratch, seen, lease, pc, mainVars, mdnsVars, streak, resets,
                 drops, troubles>>

\* It sleeps, reconfigures the interface or is unplugged.
HostDisconnects ==
  /\ Running /\ link
  /\ drops < MaxDrops
  /\ drops' = drops + 1
  /\ link' = FALSE /\ hearing' = FALSE
  /\ UNCHANGED <<scratch, seen, lease, pc, mainVars, mdnsVars, streak, resets,
                 deaf, troubles>>

\* CountingDevice::receive hands a frame to the stack.
HostTalks ==
  /\ Running /\ link /\ hearing
  /\ ~seen
  /\ seen' = TRUE
  /\ UNCHANGED <<scratch, link, hearing, lease, pc, mainVars, mdnsVars, streak,
                 bounds>>

\* TransactionEvent::Leased
Leased ==
  /\ DhcpServer
  /\ Running /\ link /\ hearing
  /\ ~lease
  /\ lease' = TRUE /\ seen' = TRUE
  /\ UNCHANGED <<scratch, link, hearing, pc, mainVars, mdnsVars, streak, bounds>>

\* TransactionEvent::Released
Released ==
  /\ Running /\ link /\ hearing
  /\ lease
  /\ troubles < MaxTroubles
  /\ troubles' = troubles + 1
  /\ lease' = FALSE /\ seen' = TRUE
  /\ UNCHANGED <<scratch, link, hearing, pc, mainVars, mdnsVars, streak, resets,
                 drops, deaf>>

Report(s, outcome, update) ==
  /\ Running /\ registered
  /\ responder' = [responder EXCEPT ![s] = outcome]
  /\ updates' = [updates EXCEPT ![s] = Append(@, update)]
  /\ UNCHANGED <<scratch, hostVars, pc, mainVars, registered, service_ready,
                 streak, resets, drops, deaf>>

\* The responder has probed for the names of a service and announced it.
Established(s) ==
  /\ responder[s] = "probing"
  /\ Report(s, "established", "Established")
  /\ UNCHANGED troubles

\* A peer has the name: the service is probed for under another one, or, if
\* it is the host name, dropped.
Disputed(s) ==
  /\ responder[s] \in {"probing", "established"}
  /\ troubles < MaxTroubles
  /\ troubles' = troubles + 1
  /\ \/ Report(s, "probing", "Renamed")
     \/ Report(s, "dead", "Conflict")

-----------------------------------------------------------------------------
(* The main task.                                                          *)

Boot ==
  /\ pc = "boot"
  /\ take_host_silence_reset_count
  /\ pc' = "wait"
  /\ UNCHANGED <<hostVars, link_ever_up, link_watchdog_misses, polls, host_ready,
                 status, mdnsVars, streak, bounds>>

\* stack.wait_link_up: the packets are counted from here.
LinkUp ==
  /\ pc = "wait"
  /\ link
  /\ link_watchdog_misses' = IF link_ever_up THEN link_watchdog_misses ELSE 0
  /\ link_ever_up' = TRUE
  /\ seen' = FALSE
  /\ polls' = 0
  /\ pc' = "probe"
  /\ UNCHANGED <<scratch, link, hearing, lease, host_silence_resets, host_ready,
                 status, mdnsVars, streak, bounds>>

\* Mutant: the watchdog gives the link one time-out more.
MissesBeyond(misses) == misses > CDC_NCM_LINK_UP_RESET_MISSES

MissesEnough(misses) == misses >= CDC_NCM_LINK_UP_RESET_MISSES

\* CDC_NCM_LINK_UP_TIMEOUT, but only until the link has been up for once.
LinkTimeout ==
  /\ pc = "wait"
  /\ ~link /\ ~link_ever_up
  /\ link_watchdog_misses' = link_watchdog_misses + 1
  /\ IF MissesEnough(link_watchdog_misses')
     THEN arm_link_watchdog_reset /\ Fresh /\ pc' = "detach"
     ELSE UNCHANGED <<scratch, streak, pc>>
  /\ UNCHANGED <<hostVars, host_silence_resets, link_ever_up, polls, host_ready,
                 status, mdnsVars, bounds>>

\* A poll of the probe that finds no packet, and sleeps 250 ms.
ProbeSleep ==
  /\ pc = "probe"
  /\ link /\ ~seen
  /\ polls < ProbePolls
  /\ Timely /\ hearing => polls + 1 < ProbePolls
  /\ polls' = polls + 1
  /\ UNCHANGED <<scratch, hostVars, pc, host_silence_resets, link_ever_up,
                 link_watchdog_misses, host_ready, status, mdnsVars, streak,
                 bounds>>

\* The probe is over and the link stays up; the packets are counted afresh.
Settle(alive) ==
  /\ host_ready' = alive
  /\ seen' = FALSE
  /\ service_ready' = [s \in Services |-> FALSE]
  /\ pc' = IF Services = {} THEN "serve" ELSE "settle"
  /\ UNCHANGED <<link, hearing, lease>>

HostAlive ==
  /\ pc = "probe"
  /\ link /\ seen
  /\ polls < ProbePolls
  /\ clear_host_silence_reset_count
  /\ Settle(TRUE)
  /\ Fresh
  /\ UNCHANGED <<host_silence_resets, link_ever_up, link_watchdog_misses, polls,
                 status, registered, responder, updates, bounds>>

\* Mutant: one reset less than the limit.
LimitReachedEarly == host_silence_resets + 1 >= ResetLimit

LimitReached == host_silence_resets >= ResetLimit

\* The time is over, even if a packet has come during the last sleep.
Silent == pc = "probe" /\ link /\ polls = ProbePolls

SilenceReset ==
  /\ Silent
  /\ ~LimitReached
  /\ host_silence_resets' = host_silence_resets + 1
  /\ arm_host_silence_reset(host_silence_resets')
  /\ streak' = streak + 1
  /\ pc' = "detach"
  /\ UNCHANGED <<hostVars, link_ever_up, link_watchdog_misses, polls, host_ready,
                 status, mdnsVars, bounds>>

StayUp ==
  /\ Silent
  /\ LimitReached
  /\ Settle(FALSE)
  /\ UNCHANGED <<scratch, host_silence_resets, link_ever_up, link_watchdog_misses,
                 polls, status, registered, responder, updates, streak, bounds>>

LinkLostInProbe ==
  /\ pc = "probe"
  /\ ~link
  /\ pc' = "wait"
  /\ UNCHANGED <<scratch, hostVars, mainVars, mdnsVars, streak, bounds>>

\* After MDNS_HOST_SETTLE_DELAY the services are registered anew, whatever has
\* become of the link.
Register ==
  /\ pc = "settle"
  /\ \/ registered' = TRUE /\ UNCHANGED troubles
     \/ registered' = FALSE /\ troubles < MaxTroubles /\ troubles' = troubles + 1
  /\ responder' = [s \in Services |-> IF registered' THEN "probing" ELSE "none"]
  /\ updates' = [s \in Services |-> <<>>]
  /\ pc' = "serve"
  /\ UNCHANGED <<scratch, hostVars, mainVars, service_ready, streak, resets,
                 drops, deaf>>

\* Mutant: an update that is no establishment leaves the service as it is.
ServiceStaysReady(s) ==
  \/ service_ready[s]
  \/ \E i \in 1..Len(updates[s]) : updates[s][i] = "Established"

\* poll_service_update until there is none: the last update counts.
ServiceReady(s) ==
  IF updates[s] = <<>> THEN service_ready[s]
                       ELSE updates[s][Len(updates[s])] = "Established"

\* A pass of the monitor, every 500 ms.
Monitor ==
  /\ pc = "serve"
  /\ link
  /\ host_ready' = (host_ready \/ seen)
  /\ IF seen /\ ~host_ready
     THEN clear_host_silence_reset_count /\ Fresh
     ELSE UNCHANGED <<scratch, streak>>
  /\ service_ready' = [s \in Services |-> ServiceReady(s)]
  /\ updates' = [s \in Services |-> <<>>]
  /\ LET network_ready == IF DhcpServer THEN lease ELSE host_ready'
     IN status' = IF network_ready /\ \A s \in Services : service_ready'[s]
                  THEN "ready" ELSE "busy"
  /\ UNCHANGED <<hostVars, pc, host_silence_resets, link_ever_up,
                 link_watchdog_misses, polls, registered, responder, bounds>>

\* Mutant: the lease and the indicator outlive the link.
LinkDownUnnoticed ==
  /\ pc = "serve"
  /\ ~link
  /\ pc' = "pause"
  /\ UNCHANGED <<scratch, hostVars, mainVars, mdnsVars, streak, bounds>>

\* stack.wait_link_down, which is polled before the monitor.
LinkDown ==
  /\ pc = "serve"
  /\ ~link
  /\ status' = "busy"
  /\ host_silence_resets' = 0
  /\ clear_host_silence_reset_count
  /\ lease' = FALSE
  /\ Fresh
  /\ pc' = "pause"
  /\ UNCHANGED <<link, hearing, seen, link_ever_up, link_watchdog_misses, polls,
                 host_ready, mdnsVars, bounds>>

Resume ==
  /\ pc = "pause"
  /\ pc' = "wait"
  /\ UNCHANGED <<scratch, hostVars, mainVars, mdnsVars, streak, bounds>>

\* InitialMemory, as an action.
Restart ==
  /\ pc' = "boot"
  /\ link' = FALSE /\ hearing' = FALSE /\ seen' = FALSE /\ lease' = FALSE
  /\ host_silence_resets' = 0
  /\ link_ever_up' = FALSE
  /\ link_watchdog_misses' = 0
  /\ polls' = 0
  /\ host_ready' = FALSE
  /\ status' = "busy"
  /\ registered' = FALSE
  /\ responder' = [s \in Services |-> "none"]
  /\ updates' = [s \in Services |-> <<>>]
  /\ service_ready' = [s \in Services |-> FALSE]

\* usb_reenumeration_reset: the pull-up has been off for long enough.
SystemReset ==
  /\ pc = "detach"
  /\ Restart
  /\ UNCHANGED <<scratch, streak, bounds>>

\* The reset button, at any time.  Whether the scratch registers survive it is up to
\* the hardware; network.rs 155-157 says that they may.
ButtonReset ==
  /\ resets < MaxResets
  /\ resets' = resets + 1
  /\ Restart
  /\ UNCHANGED scratch \/ clear_host_silence_reset_count
  /\ Fresh
  /\ UNCHANGED <<drops, deaf, troubles>>

-----------------------------------------------------------------------------
HostNext == HostConnects \/ HostTalks \/ Leased

EnvironmentNext ==
  \/ HostNext \/ HostDisconnects \/ Released
  \/ \E s \in Services : Established(s) \/ Disputed(s)
  \/ ButtonReset

MainNext ==
  \/ Boot \/ LinkUp \/ LinkTimeout
  \/ ProbeSleep \/ HostAlive \/ SilenceReset \/ StayUp \/ LinkLostInProbe
  \/ Register \/ Monitor \/ LinkDown \/ Resume
  \/ SystemReset

Next == EnvironmentNext \/ MainNext

Spec == Init /\ [][Next]_vars

\* The executor polls the main task whenever a timer or the link wakes it.
MainSpec == Spec /\ WF_vars(MainNext)

\* And the host is there: it enumerates a device again and again as it reappears,
\* talks on a link it knows of and asks for a lease; the responder completes its
\* probing.
Fairness ==
  /\ SF_vars(HostConnects)
  /\ WF_vars(HostTalks)
  /\ WF_vars(Leased)
  /\ \A s \in Services : WF_vars(Established(s))

FairSpec == MainSpec /\ Fairness

-----------------------------------------------------------------------------
FlagsOK ==
  /\ link \in BOOLEAN /\ hearing \in BOOLEAN /\ seen \in BOOLEAN
  /\ lease \in BOOLEAN /\ host_ready \in BOOLEAN /\ link_ever_up \in BOOLEAN
  /\ registered \in BOOLEAN
  /\ service_ready \in [Services -> BOOLEAN]

CountersOK ==
  /\ stored_count \in 0..ResetLimit
  /\ host_silence_resets \in 0..ResetLimit
  /\ link_watchdog_misses \in 0..CDC_NCM_LINK_UP_RESET_MISSES
  /\ polls \in 0..ProbePolls
  /\ streak \in Nat
  /\ resets \in 0..MaxResets /\ drops \in 0..MaxDrops
  /\ deaf \in 0..MaxDeaf /\ troubles \in 0..MaxTroubles

TypeOK ==
  /\ FlagsOK
  /\ CountersOK
  /\ marker \in Markers
  /\ pc \in Places
  /\ status \in {"busy", "ready"}
  /\ responder \in [Services -> Outcomes]
  /\ updates \in [Services -> Seq(Updates)]

\* The board does not reset itself for ever because of a host that never talks:
\* across reboots, at most HOST_SILENCE_RESET_LIMIT resets in a row.
SilenceResetsBounded == streak <= ResetLimit

\* The indicator says ready only when every service stands as the responder has
\* established it on this link, not as it was on an earlier one or before a
\* conflict.
ReadyIsEstablished ==
  [][status = "busy" /\ status' = "ready"
       => \A s \in Services : responder[s] = "established"]_vars

\* Once the link is down for good, the indicator says so.
LinkLossShows == <>[]~link => <>[](status = "busy")

\* A host that misses the notification of some enumerations, as many as the
\* board has resets for, is served in the end and for good.
DeafHostHeals == <>[](status = "ready")

\* README 208-209: a real link-down starts a fresh sequence; the main task is back
\* where it waits for the link.
SequenceStartsFresh == pc = "wait" /\ link_ever_up => host_silence_resets = 0
=============================================================================
