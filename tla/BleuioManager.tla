----------------------------- MODULE BleuioManager -----------------------------
(***************************************************************************)
(* A BleuIO dongle is used in two ways: manage_bleuio lets it scan and     *)
(* reads its reports into the sensor catalog, until a TCP client opens the *)
(* serial bridge and gets the raw device (usb_host.rs 1866-2144).  The two *)
(* futures of the manager, bleuio_usb_in and bleuio_commands_and_out, share *)
(* active_session and parser_epoch; an action is what one of them does      *)
(* between two awaits.                                                      *)
(*                                                                         *)
(* A packet from the dongle is a unit: the first half of a report, its     *)
(* second half with the end of the line, or an answer to a raw client.     *)
(* The client's side is that of SerialBridge, without what it does at an   *)
(* orderly end; of a call it keeps what HostRpc shows, that an answer      *)
(* reaches its own call or nobody.                                         *)
(*                                                                         *)
(* Two facts about time are taken for granted.  A dongle hands over what   *)
(* it has buffered within the 300 ms of the quiesce, if it is read         *)
(* (Drained).  And a call gives up after 4 s, while the manager receives   *)
(* again within the 2 s that a write may take, and answers an open in      *)
(* 2.3 s: given up is an open that was dropped, a close that was dropped   *)
(* or is in hand, or a call that waits in the queue while the next dongle  *)
(* is enumerated (MayGiveUp).                                              *)
(***************************************************************************)
EXTENDS Integers, Sequences, FiniteSets

CONSTANTS
  BRIDGE_CHANNEL_CAPACITY,
  SessionLimit,      \* number of session numbers: 2^32
  MaxOutput,         \* bound on the units a dongle buffers
  MaxDongles,        \* bound on the dongles, attached one after the other
  MaxTcpClients      \* bound on the TCP clients, likewise

ASSUME BleuioAssumption ==
  /\ {BRIDGE_CHANNEL_CAPACITY, MaxOutput} \subseteq Nat \ {0}
  /\ {MaxDongles, MaxTcpClients} \subseteq Nat
  /\ SessionLimit \in Nat /\ SessionLimit > 2

VARIABLES
  \* the dongle
  attached,         \* whether it is on the port
  scan,             \* the scan it runs, 0 for none
  scans,            \* scans so far
  midline,          \* it has sent one half of a report
  output,           \* units it has buffered
  \* HOST_STATE
  dongle,           \* number of the dongle: generation
  ready,            \* the phase is BleuioReady
  bridge_connected,
  \* manage_bleuio
  manager,          \* where bleuio_commands_and_out is, see ManagerStates
  hand,             \* the command it performs
  active_session,   \* 0, QUIESCING or the session of the client
  next_bridge_session,
  parser_epoch,
  seen_epoch,       \* seen_parser_epoch of bleuio_usb_in
  parser,           \* what the line in the parser was put together from
  blocked,          \* the frame bleuio_usb_in waits to send, or NoDelivery
  published,        \* what the last line of the catalog was put together from
  \* channels and signals
  calls,            \* HOST_COMMANDS, as far as this client has filled it
  toUsb,            \* BRIDGE_TO_USB: the sessions of its frames
  toTcp,            \* USB_TO_BRIDGE
  closed,           \* BRIDGE_EVENT: the session that was closed, 0 for none
  \* usb_serial_task
  serial,           \* where it is, see SerialStates
  held,             \* the session it has opened, 0 for none
  gone,             \* the TCP client has left
  outstanding,      \* a frame has not been acknowledged
  delivered,        \* the last frame given to a client
  tcpClients,       \* clients so far
  caller            \* number of the last call and whether it waits

dongleVars == <<attached, scan, scans, midline, output>>
stateVars == <<dongle, ready, bridge_connected>>
parserVars == <<seen_epoch, parser, blocked, published>>
managerVars == <<manager, hand, active_session, next_bridge_session, parser_epoch>>
serialVars == <<serial, held, gone, outstanding, delivered, tcpClients, caller>>
bleuioVars == <<dongleVars, stateVars, parserVars, managerVars, calls, toUsb, toTcp,
                closed, serialVars>>

\* "stop" and "openQuiet" belong to an open, "restart" and "closeQuiet" to a
\* close; "failed": one of the futures has returned an error.
ManagerStates == {"none", "loop", "stop", "openQuiet", "restart", "closeQuiet",
                  "write", "failed"}
SerialStates == {"accept", "open", "stream", "close", "flush"}

QUIESCING == SessionLimit - 1
Sessions == 1..SessionLimit - 2

Units == [kind : {"scan", "raw"}, of : Nat, ends : BOOLEAN]
Owners == [kind : {"scan", "raw"}, of : Nat]
Owner(unit) == [kind |-> unit.kind, of |-> unit.of]
NoUnit == [kind |-> "raw", of |-> 0, ends |-> FALSE]
Deliveries == [session : Nat, unit : Units]
NoDelivery == [session |-> 0, unit |-> NoUnit]
Calls == [operation : {"open", "close"}, session : Nat, dongle : Nat, number : Nat]
NoCall == [operation |-> "open", session |-> 0, dongle |-> 0, number |-> 0]

BleuioInit ==
  /\ attached = FALSE /\ scan = 0 /\ scans = 0 /\ midline = FALSE /\ output = <<>>
  /\ dongle = 0 /\ ready = FALSE /\ bridge_connected = FALSE
  /\ manager = "none" /\ hand = NoCall /\ active_session = 0
  /\ next_bridge_session = 0 /\ parser_epoch = 0
  /\ seen_epoch = 0 /\ parser = {} /\ blocked = NoDelivery /\ published = {}
  /\ calls = <<>> /\ toUsb = <<>> /\ toTcp = <<>> /\ closed = 0
  /\ serial = "accept" /\ held = 0 /\ gone = TRUE /\ outstanding = FALSE
  /\ delivered = NoDelivery /\ tcpClients = 0
  /\ caller = [number |-> 0, waits |-> FALSE]

-----------------------------------------------------------------------------
(* The dongle.                                                             *)

ScanReports ==
  /\ attached /\ scan # 0
  /\ Len(output) < MaxOutput
  /\ output' = Append(output, [kind |-> "scan", of |-> scan, ends |-> midline])
  /\ midline' = ~midline
  /\ UNCHANGED <<attached, scan, scans, stateVars, parserVars, managerVars, calls,
                 toUsb, toTcp, closed, serialVars>>

\* A scan that is started from the beginning of a line.
ScanStarts ==
  /\ scans' = scans + 1
  /\ scan' = scans + 1
  /\ midline' = FALSE

\* clear_device takes the phase and the flag away at once; the manager sees the
\* disconnection later.
Detach ==
  /\ attached
  /\ attached' = FALSE /\ scan' = 0 /\ midline' = FALSE /\ output' = <<>>
  /\ ready' = FALSE /\ bridge_connected' = FALSE
  /\ UNCHANGED <<scans, dongle, parserVars, managerVars, calls, toUsb, toTcp, closed,
                 serialVars>>

\* A dongle is enumerated and initialize_bleuio succeeds.  Its failures and what
\* becomes of the session then are in HostSession.
StartManager ==
  /\ ~attached /\ manager = "none"
  /\ dongle < MaxDongles
  /\ attached' = TRUE /\ output' = <<>> /\ ScanStarts
  /\ dongle' = dongle + 1 /\ ready' = TRUE /\ bridge_connected' = FALSE
  /\ manager' = "loop" /\ hand' = NoCall
  /\ active_session' = 0 /\ parser_epoch' = 0 /\ seen_epoch' = 0
  /\ parser' = {} /\ blocked' = NoDelivery
  /\ UNCHANGED <<next_bridge_session, published, calls, toUsb, toTcp, closed,
                 serialVars>>

-----------------------------------------------------------------------------
(* bleuio_usb_in                                                           *)

Running == manager \notin {"none", "failed"}

\* Mutant: what the parser holds survives a session.
StaleParser == parser

\* parser.reset() when the epoch has changed.
FreshParser == IF parser_epoch = seen_epoch THEN parser ELSE {}

\* Parser::push: the bytes join the line, and its end empties the parser.
Line(unit) == FreshParser \cup {Owner(unit)}
Remainder(unit) == IF unit.ends THEN {} ELSE Line(unit)

\* publish_bleuio_reading_if_current for a line that is complete.
Ingest(unit) ==
  /\ parser' = Remainder(unit)
  /\ published' = IF unit.ends THEN Line(unit) ELSE published

\* A packet and all that follows it up to the next await.
ReadUnit ==
  /\ Running /\ attached /\ ready
  /\ blocked = NoDelivery
  /\ output # <<>>
  /\ output' = Tail(output)
  /\ seen_epoch' = parser_epoch
  /\ IF active_session = 0
     THEN Ingest(Head(output)) /\ UNCHANGED blocked
     ELSE /\ parser' = FreshParser
          /\ blocked' = IF active_session = QUIESCING THEN NoDelivery
                        ELSE [session |-> active_session, unit |-> Head(output)]
          /\ UNCHANGED published
  /\ UNCHANGED <<attached, scan, scans, midline, stateVars, managerVars, calls, toUsb,
                 toTcp, closed, serialVars>>

\* Mutant: the channel has no limit.
ForwardUnbounded ==
  /\ Running /\ blocked # NoDelivery
  /\ toTcp' = Append(toTcp, blocked)
  /\ blocked' = NoDelivery
  /\ UNCHANGED <<dongleVars, stateVars, seen_epoch, parser, published, managerVars,
                 calls, toUsb, closed, serialVars>>

Forward ==
  /\ Running /\ blocked # NoDelivery
  /\ Len(toTcp) < BRIDGE_CHANNEL_CAPACITY
  /\ toTcp' = Append(toTcp, blocked)
  /\ blocked' = NoDelivery
  /\ UNCHANGED <<dongleVars, stateVars, seen_epoch, parser, published, managerVars,
                 calls, toUsb, closed, serialVars>>

\* request_in fails, or its packet is no longer of this session.
ReadFails ==
  /\ Running /\ blocked = NoDelivery
  /\ manager' = "failed"
  /\ UNCHANGED <<dongleVars, stateVars, parserVars, hand, active_session,
                 next_bridge_session, parser_epoch, calls, toUsb, toTcp, closed,
                 serialVars>>

-----------------------------------------------------------------------------
(* bleuio_commands_and_out                                                 *)

\* send_reply and what usb_serial_task makes of the answer to a call that it
\* still waits for: s is the session that it has from then on.
Answer(command, s) ==
  IF caller.waits /\ command.number = caller.number
  THEN /\ caller' = [caller EXCEPT !.waits = FALSE]
       /\ held' = s
       /\ serial' = IF s # 0 THEN "stream" ELSE "flush"
  ELSE UNCHANGED <<caller, held, serial>>

Current(command) == ready /\ command.dongle = dongle
MayOpen(command) == Current(command) /\ active_session = 0 /\ ~bridge_connected
ClosesActive(command) ==
  command.operation = "close" /\ command.session = active_session

BeginOpen ==
  /\ manager = "loop" /\ calls # <<>>
  /\ Head(calls).operation = "open" /\ MayOpen(Head(calls))
  /\ hand' = Head(calls) /\ calls' = Tail(calls)
  /\ bridge_connected' = TRUE
  /\ active_session' = QUIESCING
  /\ parser_epoch' = parser_epoch + 1
  /\ manager' = "stop"
  /\ UNCHANGED <<dongleVars, dongle, ready, parserVars, next_bridge_session, toUsb,
                 toTcp, closed, serialVars>>

\* stop_bleuio_scan_bulk
StopScan ==
  /\ manager = "stop"
  /\ \/ /\ attached
        /\ scan' = 0 /\ midline' = FALSE
        /\ manager' = "openQuiet"
        /\ UNCHANGED <<hand, caller, held, serial>>
     \/ /\ manager' = "failed"
        /\ hand' = NoCall
        /\ Answer(hand, 0)
        /\ UNCHANGED <<scan, midline>>
  /\ UNCHANGED <<attached, scans, output, stateVars, parserVars, active_session,
                 next_bridge_session, parser_epoch, calls, toUsb, toTcp, closed, gone,
                 outstanding, delivered, tcpClients>>

\* bleuio_usb_in cannot go on: the channel is full and nobody takes a frame.
Stuck ==
  /\ blocked # NoDelivery /\ Len(toTcp) = BRIDGE_CHANNEL_CAPACITY
  /\ serial \in {"accept", "open"}

\* The end of the 300 ms: everything older than the scan that runs has been
\* read, unless the dongle is gone or is not read.
Drained ==
  \/ \A i \in 1..Len(output) : Owner(output[i]) = [kind |-> "scan", of |-> scan]
  \/ ~attached
  \/ Stuck

\* wrapping_add, past 0 and QUIESCING
NextSession ==
  LET next == (next_bridge_session + 1) % SessionLimit
  IN  IF next \in {0, QUIESCING} THEN 1 ELSE next

FinishOpen ==
  /\ manager = "openQuiet" /\ Drained
  /\ next_bridge_session' = NextSession
  /\ active_session' = NextSession
  /\ Answer(hand, NextSession)
  /\ hand' = NoCall
  /\ manager' = "loop"
  /\ UNCHANGED <<dongleVars, stateVars, parserVars, parser_epoch, calls, toUsb, toTcp,
                 closed, gone, outstanding, delivered, tcpClients>>

\* BridgeClose of the active session; without the phase or the flag it fails.
BeginClose ==
  /\ manager = "loop" /\ calls # <<>>
  /\ ClosesActive(Head(calls))
  /\ calls' = Tail(calls)
  /\ active_session' = QUIESCING
  /\ parser_epoch' = parser_epoch + 1
  /\ IF ready /\ bridge_connected
     THEN /\ bridge_connected' = FALSE
          /\ hand' = Head(calls)
          /\ manager' = "restart"
          /\ UNCHANGED <<caller, held, serial>>
     ELSE /\ manager' = "failed"
          /\ Answer(Head(calls), 0)
          /\ UNCHANGED <<bridge_connected, hand>>
  /\ UNCHANGED <<dongleVars, dongle, ready, parserVars, next_bridge_session, toUsb,
                 toTcp, closed, gone, outstanding, delivered, tcpClients>>

\* initialize_bleuio_bulk
RestartScan ==
  /\ manager = "restart"
  /\ \/ /\ attached
        /\ ScanStarts
        /\ manager' = "closeQuiet"
        /\ UNCHANGED <<hand, caller, held, serial>>
     \/ /\ manager' = "failed"
        /\ hand' = NoCall
        /\ Answer(hand, 0)
        /\ UNCHANGED <<scan, scans, midline>>
  /\ UNCHANGED <<attached, output, stateVars, parserVars, active_session,
                 next_bridge_session, parser_epoch, calls, toUsb, toTcp, closed, gone,
                 outstanding, delivered, tcpClients>>

FinishClose ==
  /\ manager = "closeQuiet" /\ Drained
  /\ parser_epoch' = parser_epoch + 1
  /\ active_session' = 0
  /\ Answer(hand, 0)
  /\ hand' = NoCall
  /\ manager' = "loop"
  /\ UNCHANGED <<dongleVars, stateVars, parserVars, next_bridge_session, calls, toUsb,
                 toTcp, closed, gone, outstanding, delivered, tcpClients>>

\* reject_command; without a manager the application loop does it.
RejectCall ==
  /\ manager \in {"loop", "none"} /\ calls # <<>>
  /\ manager = "loop" =>
       IF Head(calls).operation = "open" THEN ~MayOpen(Head(calls))
                                         ELSE ~ClosesActive(Head(calls))
  /\ calls' = Tail(calls)
  /\ Answer(Head(calls), 0)
  /\ UNCHANGED <<dongleVars, stateVars, parserVars, managerVars, toUsb, toTcp, closed,
                 gone, outstanding, delivered, tcpClients>>

TakeFrame ==
  /\ manager = "loop" /\ toUsb # <<>>
  /\ toUsb' = Tail(toUsb)
  /\ manager' = IF Head(toUsb) = active_session THEN "write" ELSE "loop"
  /\ UNCHANGED <<dongleVars, stateVars, parserVars, hand, active_session,
                 next_bridge_session, parser_epoch, calls, toTcp, closed, serialVars>>

\* bridge_write_frame and BRIDGE_OUT_ACK: the dongle may answer the client.
WriteFrame ==
  /\ manager = "write"
  /\ \/ /\ attached /\ ready
        /\ output' \in {output} \cup
             (IF Len(output) < MaxOutput
              THEN {Append(output, [kind |-> "raw", of |-> active_session,
                                    ends |-> TRUE])}
              ELSE {})
        /\ outstanding' = (outstanding /\ held # active_session)
        /\ manager' = "loop"
     \/ manager' = "failed" /\ UNCHANGED <<output, outstanding>>
  /\ UNCHANGED <<attached, scan, scans, midline, stateVars, parserVars, hand,
                 active_session, next_bridge_session, parser_epoch, calls, toUsb, toTcp,
                 closed, serial, held, gone, delivered, tcpClients, caller>>

\* Mutant: the client is told of a failure, not of a dongle that is removed.
EndManagerQuietly ==
  /\ manager = "failed" \/ (manager # "none" /\ ~attached)
  /\ manager' = "none" /\ hand' = NoCall
  /\ closed' = IF manager = "failed" THEN active_session ELSE closed
  /\ active_session' = 0
  /\ blocked' = NoDelivery
  /\ IF manager = "failed" THEN ready' = FALSE /\ bridge_connected' = FALSE
                           ELSE UNCHANGED <<ready, bridge_connected>>
  /\ UNCHANGED <<dongleVars, dongle, seen_epoch, parser, published, parser_epoch,
                 next_bridge_session, calls, toUsb, toTcp, serialVars>>

\* The end of the select3: a command that was in hand is dropped without an
\* answer, and what is signalled may be QUIESCING.
EndManager ==
  /\ manager = "failed" \/ (manager # "none" /\ ~attached)
  /\ manager' = "none" /\ hand' = NoCall
  /\ closed' = IF active_session # 0 THEN active_session ELSE closed
  /\ active_session' = 0
  /\ blocked' = NoDelivery
  /\ IF manager = "failed" THEN ready' = FALSE /\ bridge_connected' = FALSE
                           ELSE UNCHANGED <<ready, bridge_connected>>
  /\ UNCHANGED <<dongleVars, dongle, seen_epoch, parser, published, parser_epoch,
                 next_bridge_session, calls, toUsb, toTcp, serialVars>>

-----------------------------------------------------------------------------
(* usb_serial_task and its client.                                         *)

\* send_command: without a ready phase there is no call.
PlaceCall(operation, s, at) ==
  /\ caller' = [number |-> caller.number + 1, waits |-> ready]
  /\ calls' = IF ready
              THEN Append(calls, [operation |-> operation, session |-> s,
                                  dongle |-> dongle, number |-> caller.number + 1])
              ELSE calls
  /\ serial' = IF ready THEN at ELSE "flush"

AcceptTcp ==
  /\ serial = "accept"
  /\ tcpClients < MaxTcpClients
  /\ tcpClients' = tcpClients + 1
  /\ gone' = FALSE /\ outstanding' = FALSE
  /\ toUsb' = <<>> /\ toTcp' = <<>> /\ closed' = 0
  /\ PlaceCall("open", 0, "open")
  /\ UNCHANGED <<dongleVars, stateVars, parserVars, managerVars, held, delivered>>

ClientSends ==
  /\ serial = "stream" /\ ~gone /\ ~outstanding
  /\ Len(toUsb) < BRIDGE_CHANNEL_CAPACITY
  /\ toUsb' = Append(toUsb, held)
  /\ outstanding' = TRUE
  /\ UNCHANGED <<dongleVars, stateVars, parserVars, managerVars, calls, toTcp, closed,
                 serial, held, gone, delivered, tcpClients, caller>>

ClientLeaves ==
  /\ serial # "accept" /\ ~gone
  /\ gone' = TRUE
  /\ UNCHANGED <<dongleVars, stateVars, parserVars, managerVars, calls, toUsb, toTcp,
                 closed, serial, held, outstanding, delivered, tcpClients, caller>>

\* bridge_to_tcp, and discard_closed_bridge_output while the bridge is closed.
DeliverFrame ==
  /\ serial \in {"stream", "close"}
  /\ toTcp # <<>>
  /\ toTcp' = Tail(toTcp)
  /\ delivered' = IF serial = "stream" /\ Head(toTcp).session = held
                  THEN Head(toTcp) ELSE delivered
  /\ UNCHANGED <<dongleVars, stateVars, parserVars, managerVars, calls, toUsb, closed,
                 serial, held, gone, outstanding, tcpClients, caller>>

\* Either side has ended: BRIDGE_TO_USB is cleared, the bridge closed.
CloseBridge ==
  /\ toUsb' = <<>>
  /\ PlaceCall("close", held, "close")
  /\ held' = IF ready THEN held ELSE 0

ClientEnds ==
  /\ serial = "stream" /\ gone
  /\ CloseBridge
  /\ UNCHANGED <<dongleVars, stateVars, parserVars, managerVars, toTcp, closed, gone,
                 outstanding, delivered, tcpClients>>

\* bridge_closed takes the signal, whatever its value.
BridgeClosed ==
  /\ serial \in {"stream", "close"}
  /\ closed # 0
  /\ closed' = 0
  /\ CASE closed # held -> UNCHANGED <<serial, held, toUsb, calls, caller>>
       [] closed = held /\ serial = "stream" -> CloseBridge
       [] closed = held /\ serial = "close" ->
            /\ serial' = "flush" /\ held' = 0
            /\ caller' = [caller EXCEPT !.waits = FALSE]
            /\ UNCHANGED <<toUsb, calls>>
  /\ UNCHANGED <<dongleVars, stateVars, parserVars, managerVars, toTcp, gone,
                 outstanding, delivered, tcpClients>>

Queued == \E i \in 1..Len(calls) : calls[i].number = caller.number
MayGiveUp ==
  /\ caller.waits
  /\ Queued => manager = "none"
  /\ serial = "open" => hand.number # caller.number

GiveUp ==
  /\ MayGiveUp
  /\ caller' = [caller EXCEPT !.waits = FALSE]
  /\ serial' = "flush" /\ held' = 0
  /\ UNCHANGED <<dongleVars, stateVars, parserVars, managerVars, calls, toUsb, toTcp,
                 closed, gone, outstanding, delivered, tcpClients>>

FlushTcp ==
  /\ serial = "flush"
  /\ serial' = "accept" /\ gone' = TRUE
  /\ toUsb' = <<>> /\ toTcp' = <<>>
  /\ UNCHANGED <<dongleVars, stateVars, parserVars, managerVars, calls, closed, held,
                 outstanding, delivered, tcpClients, caller>>

-----------------------------------------------------------------------------
UsbInNext == ReadUnit \/ Forward
CommandNext ==
  \/ BeginOpen \/ StopScan \/ FinishOpen
  \/ BeginClose \/ RestartScan \/ FinishClose
  \/ RejectCall \/ TakeFrame \/ WriteFrame
SerialNext ==
  \/ DeliverFrame \/ ClientEnds \/ BridgeClosed \/ GiveUp \/ FlushTcp

BleuioNext ==
  \/ ScanReports \/ Detach \/ StartManager
  \/ UsbInNext \/ ReadFails \/ CommandNext \/ EndManager
  \/ SerialNext \/ AcceptTcp \/ ClientSends \/ ClientLeaves

BleuioSpec == BleuioInit /\ [][BleuioNext]_bleuioVars

-----------------------------------------------------------------------------
BleuioTypeOK ==
  /\ {attached, midline, ready, bridge_connected, gone, outstanding} \subseteq BOOLEAN
  /\ scans \in 0..MaxDongles + MaxTcpClients /\ scan \in 0..scans
  /\ output \in Seq(Units) /\ Len(output) <= MaxOutput
  /\ dongle \in 0..MaxDongles
  /\ manager \in ManagerStates
  /\ hand \in Calls
  /\ active_session \in Sessions \cup {0, QUIESCING}
  /\ next_bridge_session \in Sessions \cup {0}
  /\ parser_epoch \in Nat /\ seen_epoch \in 0..parser_epoch
  /\ parser \subseteq Owners /\ published \subseteq Owners
  /\ {blocked, delivered} \subseteq Deliveries
  /\ calls \in Seq(Calls)
  /\ toUsb \in Seq(Sessions) /\ Len(toUsb) <= BRIDGE_CHANNEL_CAPACITY
  /\ toTcp \in Seq(Deliveries) /\ Len(toTcp) <= BRIDGE_CHANNEL_CAPACITY
  /\ closed \in Sessions \cup {0, QUIESCING}
  /\ serial \in SerialStates
  /\ held \in Sessions \cup {0}
  /\ tcpClients \in 0..MaxTcpClients
  /\ caller \in [number : Nat, waits : BOOLEAN]

\* The raw stream and the scan do not mix (README 661-663: opening "drains
\* pending scan reports before handing the raw stream to the TCP client"): a
\* reading of the catalog comes from one line of one scan, never from halves of
\* two with a session in between, and a client gets only what the dongle
\* answered in its own session.
StreamsAreSeparate ==
  /\ Cardinality(published) <= 1
  /\ \A owner \in published : owner.kind = "scan"
  /\ delivered.unit.kind = "raw" /\ delivered.unit.of = delivered.session

\* README 656-657 and 664-665: once the client has left or the dongle is gone,
\* both sides give up the session: the connection is closed, and the dongle, if
\* it is there, scans again or has failed.  That holds although an open or a
\* close may be dropped with the manager, and although the session the manager
\* then signals as closed may be QUIESCING, which is nobody's.
SessionEndsOnBothSides ==
  (held # 0 /\ (gone \/ ~attached)) ~> (held = 0 /\ active_session = 0)
=============================================================================
