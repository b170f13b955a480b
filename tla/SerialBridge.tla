----------------------------- MODULE SerialBridge -----------------------------
(***************************************************************************)
(* The raw TCP bridge to the serial stream of a CDC-ACM or FTDI device     *)
(* (src/src/usb_host.rs): usb_serial_task on core 0, which owns the TCP    *)
(* socket, and run_bridge with bridge_usb_io on core 1, which own the bulk *)
(* pipes.  They share two channels of frames, two signals that hold one    *)
(* value each, and the commands BridgeOpen and BridgeClose.                *)
(*                                                                         *)
(* Of the commands this module keeps what HostRpc shows: an answer reaches *)
(* the call it belongs to or nobody, and a command of an earlier device    *)
(* session is rejected.  A frame stands for up to 64 bytes.                *)
(*                                                                         *)
(* Definitions marked "Mutant" are what the next definition would be with  *)
(* a plausible mistake; the specification does not use them.               *)
(***************************************************************************)
EXTENDS Naturals, Sequences

CONSTANTS
  Capacity,     \* BRIDGE_CHANNEL_CAPACITY, of both channels
  MaxClients,   \* bound on the TCP connections of a run
  MaxFrames,    \* bound on the frames a client sends
  MaxPackets,   \* bound on the packets the devices send
  MaxDetach,    \* bound on the devices that go away or fail
  Timings       \* the values of timely that a behaviour may start with

ASSUME BridgeAssumption ==
  /\ Capacity \in Nat \ {0}
  /\ {MaxClients, MaxFrames, MaxPackets, MaxDetach} \subseteq Nat
  /\ Timings \subseteq BOOLEAN

VARIABLES
  \* the TCP client
  client,    \* number of the connection, 0 before the first
  peer,      \* "none", "open", "eof" (its sending half is closed) or "gone"
  sent,      \* frames the client has sent
  got,       \* packets the client has received
  \* usb_serial_task
  task,      \* where it is, see TaskStates
  session,   \* session that it has opened, 0 when it holds none
  reader,    \* where tcp_to_bridge is: "read", "send" or "ack"
  count,     \* frames that tcp_to_bridge has read
  writer,    \* packet that bridge_to_tcp is writing, or NoPacket
  call,      \* number of the last call
  calling,   \* whether the call waits for its answer
  \* shared
  commands,        \* HOST_COMMANDS, as far as this task has filled it
  BRIDGE_TO_USB,
  USB_TO_BRIDGE,
  BRIDGE_EVENT,    \* session that is closed, 0 when the signal is not set
  BRIDGE_OUT_ACK,  \* session of the frame that is written, 0 likewise
  \* the manager
  generation,   \* of the device session
  served,       \* the device is in its command loop or in a bridge
  timely,       \* no call expires while the manager can answer it; never changes
  bridging,     \* session of the bridge that runs, 0 for none
  nextSession,  \* next_bridge_session
  started,      \* the first frame has been written: bridge_usb_in runs
  writing,      \* frame that is being written to the device, or NoFrame
  reading,      \* packet accepted from the device, not yet sent on, 0 for none
  packets,      \* packets that devices have sent so far
  written       \* history: frames written, in order

clientVars == <<client, peer, sent, got>>
taskVars == <<task, session, reader, count, writer, call, calling>>
channelVars == <<BRIDGE_TO_USB, USB_TO_BRIDGE>>
signalVars == <<BRIDGE_EVENT, BRIDGE_OUT_ACK>>
deviceVars == <<generation, served, timely>>
bridgeVars == <<bridging, nextSession, started, writing, reading, packets, written>>
vars == <<clientVars, taskVars, commands, channelVars, signalVars, deviceVars,
          bridgeVars>>

\* "stream": the select3 of both directions and bridge_closed; "drain": after
\* an orderly EOF; "close": the select3 around bridge_close; "flush": the end
\* of the loop.
TaskStates == {"accept", "open", "stream", "drain", "close", "flush"}

Frames == [session : Nat, client : 1..MaxClients, n : 1..MaxFrames]
NoFrame == [session |-> 0, client |-> 0, n |-> 0]
Packets == [session : Nat, n : 1..MaxPackets]
NoPacket == [session |-> 0, n |-> 0]
Commands ==
  [operation : {"open", "close"}, session : Nat, generation : Nat, call : Nat]

Init ==
  /\ client = 0 /\ peer = "none" /\ sent = 0 /\ got = <<>>
  /\ task = "accept" /\ session = 0 /\ reader = "read" /\ count = 0
  /\ writer = NoPacket /\ call = 0 /\ calling = FALSE
  /\ commands = <<>>
  /\ BRIDGE_TO_USB = <<>> /\ USB_TO_BRIDGE = <<>>
  /\ BRIDGE_EVENT = 0 /\ BRIDGE_OUT_ACK = 0
  /\ generation = 1 /\ served = TRUE /\ timely \in Timings
  /\ bridging = 0 /\ nextSession = 0 /\ started = FALSE
  /\ writing = NoFrame /\ reading = 0 /\ packets = 0
  /\ written = <<>>

-----------------------------------------------------------------------------
(* The TCP client.                                                         *)

ClientSends ==
  /\ peer = "open"
  /\ sent < MaxFrames
  /\ sent' = sent + 1
  /\ UNCHANGED <<client, peer, got, taskVars, commands, channelVars, signalVars,
                 deviceVars, bridgeVars>>

ClientLeaves ==
  /\ \/ peer = "open" /\ peer' \in {"eof", "gone"}
     \/ peer = "eof" /\ peer' = "gone"
  /\ UNCHANGED <<client, sent, got, taskVars, commands, channelVars, signalVars,
                 deviceVars, bridgeVars>>

-----------------------------------------------------------------------------
(* usb_serial_task: calls to the manager.                                  *)

\* send_command reads HOST_STATE under the lock; a phase that does not admit
\* the operation is its answer at once.
Call(operation, s) ==
  /\ call' = call + 1
  /\ calling' = served
  /\ commands' =
       IF served
       THEN Append(commands, [operation |-> operation, session |-> s,
                              generation |-> generation, call |-> call + 1])
       ELSE commands

\* Unless timely a call may expire at any time; with it only one that the
\* manager has dropped, see EndBridge.
MayExpire ==
  calling /\ (timely => \A i \in 1..Len(commands) : commands[i].call # call)

-----------------------------------------------------------------------------
(* usb_serial_task: one connection after the other.                        *)

Accept ==
  /\ task = "accept"
  /\ client < MaxClients
  /\ client' = client + 1
  /\ peer' = "open"
  /\ sent' = 0 /\ got' = <<>>
  /\ count' = 0 /\ reader' = "read" /\ writer' = NoPacket
  /\ BRIDGE_TO_USB' = <<>> /\ USB_TO_BRIDGE' = <<>>
  /\ BRIDGE_EVENT' = 0 /\ BRIDGE_OUT_ACK' = 0
  /\ Call("open", 0)
  /\ task' = IF served THEN "open" ELSE "flush"
  /\ UNCHANGED <<session, deviceVars, bridgeVars>>

\* tcp_to_bridge
Read ==
  /\ task = "stream"
  /\ reader = "read"
  /\ peer # "gone"
  /\ count < sent
  /\ count' = count + 1
  /\ reader' = "send"
  /\ UNCHANGED <<clientVars, task, session, writer, call, calling, commands,
                 channelVars, signalVars, deviceVars, bridgeVars>>

SendFrame ==
  /\ task = "stream"
  /\ reader = "send"
  /\ Len(BRIDGE_TO_USB) < Capacity
  /\ BRIDGE_TO_USB' = Append(BRIDGE_TO_USB,
       [session |-> session, client |-> client, n |-> count])
  /\ reader' = "ack"
  /\ UNCHANGED <<clientVars, task, session, count, writer, call, calling,
                 commands, USB_TO_BRIDGE, signalVars, deviceVars, bridgeVars>>

\* Mutant: the acknowledgement is not waited for.
AwaitNothing ==
  /\ task = "stream"
  /\ reader = "ack"
  /\ reader' = "read"
  /\ UNCHANGED <<clientVars, task, session, count, writer, call, calling,
                 commands, channelVars, signalVars, deviceVars, bridgeVars>>

\* wait takes the value of the signal, whatever it is.
AwaitAck ==
  /\ task = "stream"
  /\ reader = "ack"
  /\ BRIDGE_OUT_ACK # 0
  /\ BRIDGE_OUT_ACK' = 0
  /\ reader' = IF BRIDGE_OUT_ACK = session THEN "read" ELSE "ack"
  /\ UNCHANGED <<clientVars, task, session, count, writer, call, calling,
                 commands, channelVars, BRIDGE_EVENT, deviceVars, bridgeVars>>

\* Mutant: frames of another bridge are written, too.
TakeAnyFrame ==
  /\ task \in {"stream", "drain"}
  /\ writer = NoPacket
  /\ USB_TO_BRIDGE # <<>>
  /\ writer' = Head(USB_TO_BRIDGE)
  /\ USB_TO_BRIDGE' = Tail(USB_TO_BRIDGE)
  /\ UNCHANGED <<clientVars, task, session, reader, count, call, calling,
                 commands, BRIDGE_TO_USB, signalVars, deviceVars, bridgeVars>>

\* bridge_to_tcp, which goes on after an orderly EOF.
TakeFrame ==
  /\ task \in {"stream", "drain"}
  /\ writer = NoPacket
  /\ USB_TO_BRIDGE # <<>>
  /\ LET frame == Head(USB_TO_BRIDGE)
     IN  writer' = IF frame.session = session THEN frame ELSE NoPacket
  /\ USB_TO_BRIDGE' = Tail(USB_TO_BRIDGE)
  /\ UNCHANGED <<clientVars, task, session, reader, count, call, calling,
                 commands, BRIDGE_TO_USB, signalVars, deviceVars, bridgeVars>>

WriteTcp ==
  /\ task \in {"stream", "drain"}
  /\ writer # NoPacket
  /\ peer # "gone"
  /\ got' = Append(got, writer)
  /\ writer' = NoPacket
  /\ UNCHANGED <<client, peer, sent, task, session, reader, count, call,
                 calling, commands, channelVars, signalVars, deviceVars,
                 bridgeVars>>

\* The end of the select3: an orderly EOF is seen by a reader that has nothing
\* outstanding.
OrderlyEof == reader = "read" /\ peer = "eof" /\ count = sent

StreamEof ==
  /\ task = "stream"
  /\ OrderlyEof
  /\ task' = "drain"
  /\ writer' = NoPacket       \* bridge_to_tcp starts afresh
  /\ UNCHANGED <<clientVars, session, reader, count, call, calling, commands,
                 channelVars, signalVars, deviceVars, bridgeVars>>

\* BRIDGE_TO_USB is cleared and bridge_close called.
StartClose ==
  /\ BRIDGE_TO_USB' = <<>>
  /\ Call("close", session)
  /\ writer' = NoPacket
  /\ task' = IF served THEN "close" ELSE "flush"
  /\ session' = IF served THEN session ELSE 0

\* Mutant: a reset connection is dropped without closing the bridge.
DropBroken ==
  /\ task \in {"stream", "drain"}
  /\ peer = "gone"
  /\ (task = "stream" /\ reader = "read") \/ writer # NoPacket
  /\ task' = "flush"
  /\ session' = 0
  /\ UNCHANGED <<clientVars, reader, count, writer, call, calling, commands,
                 channelVars, signalVars, deviceVars, bridgeVars>>

\* A reset connection, seen by the reader or the writer.
StreamBroken ==
  /\ task \in {"stream", "drain"}
  /\ peer = "gone"
  /\ (task = "stream" /\ reader = "read") \/ writer # NoPacket
  /\ StartClose
  /\ UNCHANGED <<clientVars, reader, count, USB_TO_BRIDGE, signalVars,
                 deviceVars, bridgeVars>>

DrainEnds ==
  /\ task = "drain"
  /\ StartClose
  /\ UNCHANGED <<clientVars, reader, count, USB_TO_BRIDGE, signalVars,
                 deviceVars, bridgeVars>>

\* Mutant: nobody looks at BRIDGE_EVENT while the stream is open.
IgnoreClosed == FALSE

\* bridge_closed: wait takes the value, whatever it is.
StreamClosed ==
  /\ task \in {"stream", "drain"}
  /\ BRIDGE_EVENT # 0
  /\ BRIDGE_EVENT' = 0
  /\ IF BRIDGE_EVENT = session
     THEN StartClose
     ELSE UNCHANGED <<task, session, writer, call, calling, commands, BRIDGE_TO_USB>>
  /\ UNCHANGED <<clientVars, reader, count, USB_TO_BRIDGE, BRIDGE_OUT_ACK,
                 deviceVars, bridgeVars>>

\* discard_closed_bridge_output
Discard ==
  /\ task = "close"
  /\ USB_TO_BRIDGE # <<>>
  /\ USB_TO_BRIDGE' = Tail(USB_TO_BRIDGE)
  /\ UNCHANGED <<clientVars, taskVars, commands, BRIDGE_TO_USB, signalVars,
                 deviceVars, bridgeVars>>

\* bridge_close is dropped when the bridge has come to its end by itself.
CloseOvertaken ==
  /\ task = "close"
  /\ BRIDGE_EVENT # 0
  /\ BRIDGE_EVENT' = 0
  /\ IF BRIDGE_EVENT = session
     THEN task' = "flush" /\ session' = 0 /\ calling' = FALSE
     ELSE UNCHANGED <<task, session, calling>>
  /\ UNCHANGED <<clientVars, reader, count, writer, call, commands, channelVars,
                 BRIDGE_OUT_ACK, deviceVars, bridgeVars>>

\* The reply timer of send_command.
Expire ==
  /\ task \in {"open", "close"}
  /\ MayExpire
  /\ calling' = FALSE
  /\ session' = 0
  /\ task' = "flush"
  /\ UNCHANGED <<clientVars, reader, count, writer, call, commands, channelVars,
                 signalVars, deviceVars, bridgeVars>>

Flush ==
  /\ task = "flush"
  /\ BRIDGE_TO_USB' = <<>> /\ USB_TO_BRIDGE' = <<>>
  /\ peer' = "none"
  /\ task' = "accept"
  /\ UNCHANGED <<client, sent, got, session, reader, count, writer, call,
                 calling, commands, signalVars, deviceVars, bridgeVars>>

-----------------------------------------------------------------------------
(* The manager: commands.                                                  *)

\* The answer to a call that is still waiting; any other is thrown away.
Answer(command, s) ==
  IF calling /\ command.call = call
  THEN /\ calling' = FALSE
       /\ session' = s
       /\ task' = IF s # 0 THEN "stream" ELSE "flush"
  ELSE UNCHANGED <<calling, session, task>>

CommandCurrent(command) == served /\ command.generation = generation

\* Before the first frame has been written bridge_usb_io takes commands only
\* between its transfers.
Listening == bridging = 0 \/ started \/ writing = NoFrame

\* What the device has sent in answer to an earlier command, and CdcRxBuffer
\* still holds, is sent on first.
SendInitial ==
  \/ UNCHANGED <<packets, USB_TO_BRIDGE>>
  \/ /\ packets < MaxPackets
     /\ Len(USB_TO_BRIDGE) < Capacity
     /\ packets' = packets + 1
     /\ USB_TO_BRIDGE' =
          Append(USB_TO_BRIDGE, [session |-> nextSession + 1, n |-> packets + 1])

OpenBridge ==
  /\ commands # <<>>
  /\ LET command == Head(commands)
     IN  /\ bridging = 0
         /\ command.operation = "open"
         /\ CommandCurrent(command)
         /\ bridging' = nextSession + 1
         /\ nextSession' = nextSession + 1
         /\ Answer(command, nextSession + 1)
  /\ SendInitial
  /\ commands' = Tail(commands)
  /\ UNCHANGED <<clientVars, reader, count, writer, call, BRIDGE_TO_USB,
                 signalVars, deviceVars, started, writing, reading, written>>

\* Of BridgeIoEnd: the futures of both directions are dropped, and with them
\* what they hold.
StopIo ==
  /\ bridging' = 0
  /\ started' = FALSE
  /\ writing' = NoFrame
  /\ reading' = 0

CloseBridge ==
  /\ commands # <<>>
  /\ Listening
  /\ LET command == Head(commands)
     IN  /\ bridging # 0
         /\ command.operation = "close" /\ command.session = bridging
         /\ CommandCurrent(command)
         /\ Answer(command, 0)
  /\ commands' = Tail(commands)
  /\ StopIo
  /\ UNCHANGED <<clientVars, reader, count, writer, call, channelVars,
                 signalVars, deviceVars, nextSession, packets, written>>

\* reject_command: not current, no bridge to close, or the stream is taken.
RejectCommand ==
  /\ commands # <<>>
  /\ Listening
  /\ LET command == Head(commands)
     IN  /\ ~CommandCurrent(command)
            \/ (bridging = 0 /\ command.operation = "close")
            \/ (bridging # 0 /\ ~(command.operation = "close"
                                  /\ command.session = bridging))
         /\ Answer(command, 0)
  /\ commands' = Tail(commands)
  /\ UNCHANGED <<clientVars, reader, count, writer, call, channelVars,
                 signalVars, deviceVars, bridgeVars>>

-----------------------------------------------------------------------------
(* The manager: bridge_usb_io.                                             *)

StartWrite ==
  /\ bridging # 0
  /\ writing = NoFrame
  /\ BRIDGE_TO_USB # <<>>
  /\ LET frame == Head(BRIDGE_TO_USB)
     IN  writing' = IF frame.session = bridging THEN frame ELSE NoFrame
  /\ BRIDGE_TO_USB' = Tail(BRIDGE_TO_USB)
  /\ UNCHANGED <<clientVars, taskVars, commands, USB_TO_BRIDGE, signalVars,
                 deviceVars, bridging, nextSession, started, reading, packets,
                 written>>

\* Mutant: a write that is acknowledged late is done again.
RepeatWrite ==
  /\ writing # NoFrame
  /\ served
  /\ written' = Append(written, writing)
  /\ writing' \in {NoFrame, writing}
  /\ started' = TRUE
  /\ BRIDGE_OUT_ACK' = bridging
  /\ Len(written) < MaxFrames * MaxClients
  /\ UNCHANGED <<clientVars, taskVars, commands, channelVars, BRIDGE_EVENT,
                 deviceVars, bridging, nextSession, reading, packets>>

\* bridge_write_frame succeeds.
FinishWrite ==
  /\ writing # NoFrame
  /\ served
  /\ written' = Append(written, writing)
  /\ writing' = NoFrame
  /\ started' = TRUE
  /\ BRIDGE_OUT_ACK' = bridging
  /\ UNCHANGED <<clientVars, taskVars, commands, channelVars, BRIDGE_EVENT,
                 deviceVars, bridging, nextSession, reading, packets>>

\* A packet from the device, kept for up to 50 ms for more to follow.
ReadPacket ==
  /\ started
  /\ served
  /\ reading = 0
  /\ packets < MaxPackets
  /\ packets' = packets + 1
  /\ reading' = packets + 1
  /\ UNCHANGED <<clientVars, taskVars, commands, channelVars, signalVars,
                 deviceVars, bridging, nextSession, started, writing, written>>

\* Mutant: the channel has no limit.
SendPacketUnbounded ==
  /\ reading # 0
  /\ USB_TO_BRIDGE' = Append(USB_TO_BRIDGE, [session |-> bridging, n |-> reading])
  /\ reading' = 0
  /\ UNCHANGED <<clientVars, taskVars, commands, BRIDGE_TO_USB, signalVars,
                 deviceVars, bridging, nextSession, started, writing, packets,
                 written>>

SendPacket ==
  /\ reading # 0
  /\ Len(USB_TO_BRIDGE) < Capacity
  /\ USB_TO_BRIDGE' = Append(USB_TO_BRIDGE, [session |-> bridging, n |-> reading])
  /\ reading' = 0
  /\ UNCHANGED <<clientVars, taskVars, commands, BRIDGE_TO_USB, signalVars,
                 deviceVars, bridging, nextSession, started, writing, packets,
                 written>>

\* The device goes away, or a transfer fails and the session with it; a write
\* that fails may have reached the device all the same.
LoseDevice ==
  /\ served
  /\ generation <= MaxDetach
  /\ served' = FALSE
  /\ written' \in {written} \cup
       (IF writing # NoFrame THEN {Append(written, writing)} ELSE {})
  /\ UNCHANGED <<clientVars, taskVars, commands, channelVars, signalVars,
                 generation, timely, bridging, nextSession, started, writing,
                 reading, packets>>

\* The end of run_bridge after a disconnect or a failure.  The command that
\* bridge_commands had received is lost.
EndBridge ==
  /\ bridging # 0
  /\ ~served
  /\ StopIo
  /\ BRIDGE_EVENT' = bridging
  /\ commands' \in {commands} \cup
       (IF commands # <<>> THEN {Tail(commands)} ELSE {})
  /\ UNCHANGED <<clientVars, taskVars, channelVars, BRIDGE_OUT_ACK, deviceVars,
                 nextSession, packets, written>>

\* A device is attached, enumerated and served again.
Reattach ==
  /\ ~served
  /\ bridging = 0
  /\ served' = TRUE
  /\ generation' = generation + 1
  /\ UNCHANGED <<clientVars, taskVars, commands, channelVars, signalVars, timely,
                 bridgeVars>>

-----------------------------------------------------------------------------
ClientNext == ClientSends \/ ClientLeaves

TaskNext ==
  \/ Accept
  \/ Read \/ SendFrame \/ AwaitAck
  \/ TakeFrame \/ WriteTcp
  \/ StreamEof \/ StreamBroken \/ DrainEnds \/ StreamClosed
  \/ Discard \/ CloseOvertaken \/ Expire
  \/ Flush

ManagerNext ==
  \/ OpenBridge \/ CloseBridge \/ RejectCommand
  \/ StartWrite \/ FinishWrite
  \/ ReadPacket \/ SendPacket
  \/ EndBridge

DeviceNext == LoseDevice \/ Reattach

Next == ClientNext \/ TaskNext \/ ManagerNext \/ DeviceNext

Spec == Init /\ [][Next]_vars

\* usb_serial_task is woken by what it waits for and its timers run out; the
\* manager polls its channels, a write ends within two seconds one way or the
\* other, and a bridge whose device is gone ends.  Nothing is assumed of the
\* client, which need not send, read or leave, nor of the device.
Fairness ==
  /\ WF_vars(Read \/ SendFrame \/ AwaitAck)
  /\ WF_vars(StreamEof \/ StreamBroken \/ DrainEnds)
  /\ WF_vars(StreamClosed)
  /\ WF_vars(CloseOvertaken \/ Expire)
  /\ WF_vars(Flush)
  /\ WF_vars(OpenBridge \/ CloseBridge \/ RejectCommand)
  /\ WF_vars(StartWrite \/ FinishWrite)
  /\ WF_vars(EndBridge)

FairSpec == Spec /\ Fairness

-----------------------------------------------------------------------------
TypeOK ==
  /\ client \in 0..MaxClients
  /\ peer \in {"none", "open", "eof", "gone"}
  /\ sent \in 0..MaxFrames
  /\ got \in Seq(Packets)
  /\ task \in TaskStates
  /\ session \in Nat
  /\ reader \in {"read", "send", "ack"}
  /\ count \in 0..sent
  /\ writer \in Packets \cup {NoPacket}
  /\ call \in Nat
  /\ calling \in BOOLEAN
  /\ commands \in Seq(Commands)
  /\ BRIDGE_TO_USB \in Seq(Frames) /\ Len(BRIDGE_TO_USB) <= Capacity
  /\ USB_TO_BRIDGE \in Seq(Packets) /\ Len(USB_TO_BRIDGE) <= Capacity
  /\ BRIDGE_EVENT \in Nat /\ BRIDGE_OUT_ACK \in Nat
  /\ generation \in 1..MaxDetach + 2
  /\ {served, timely} \subseteq BOOLEAN
  /\ bridging \in Nat /\ nextSession \in Nat
  /\ started \in BOOLEAN
  /\ writing \in Frames \cup {NoFrame}
  /\ reading \in 0..MaxPackets /\ packets \in 0..MaxPackets
  /\ written \in Seq(Frames)

\* Numbers of the frames of connection c among the first ones written.
WrittenBy(c, first) ==
  {written[i].n : i \in {j \in 1..first : written[j].client = c}}

\* The byte stream to the device (tcp_to_bridge 4120, bridge_write_frame 1539):
\* what is written of a connection is what its client sent, in order, without
\* a gap or a repetition, whatever became of earlier connections and bridges:
\* frame n comes when the frames up to n - 1 have come, and no other.
WrittenInOrder ==
  \A i \in 1..Len(written) :
    WrittenBy(written[i].client, i - 1) = 1..written[i].n - 1

\* The byte stream to the client (bridge_usb_in 1602, bridge_to_tcp 4137): what
\* it receives comes from the bridge it has opened, in the order in which the
\* device sent it, never from a bridge that an earlier client left behind.
ReceivedInOrder ==
  \A i \in 1..Len(got) :
    /\ session # 0 => got[i].session = session
    /\ i > 1 => got[i - 1].n < got[i].n

\* An orderly EOF (usb_serial_task 4225-4227): it "cannot leave an unstarted
\* final OUT frame"; all that the client sent has been written by then.
EofIsWritten == task = "drain" => WrittenBy(client, Len(written)) = 1..sent

\* The serial stream is never left with a bridge that no client owns, so that
\* the next client and the data commands get it, if calls are answered in time.
NoOrphan == timely /\ bridging # 0 /\ served => session = bridging

\* README 656: closing the TCP connection releases the stream, if calls are
\* answered in time.
ClosingReleases == timely /\ session # 0 /\ peer \in {"eof", "gone"} ~> bridging = 0

\* README 656-657: detaching the USB device closes the TCP connection.
DetachCloses == session # 0 /\ ~served ~> peer = "none"

\* usb_serial_task 4229-4232: the close is acknowledged only when a packet that
\* was accepted from the device has been forwarded.
CloseForwardsAccepted ==
  [][task = "close" /\ served /\ bridging # 0 /\ bridging' = 0 => reading = 0]_vars
=============================================================================
