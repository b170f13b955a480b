-------------------------- MODULE SerialBridgeProofs --------------------------
(***************************************************************************)
(* Proofs about SerialBridge, for every capacity of the channels, every    *)
(* bound on what clients and devices do, and with or without time-outs.    *)
(***************************************************************************)
EXTENDS SerialBridge, TLAPS

\* The sessions that the two sides and the signals name.
SessionsOK ==
  /\ bridging \in {0, nextSession}
  /\ {session, BRIDGE_EVENT, BRIDGE_OUT_ACK} \subseteq 0..nextSession
  /\ session # 0 <=> task \in {"stream", "drain", "close"}
  /\ BRIDGE_EVENT # 0 => BRIDGE_EVENT # bridging
  /\ bridging = 0 => writing = NoFrame /\ reading = 0 /\ ~started
  /\ writing # NoFrame => writing.session = bridging

-----------------------------------------------------------------------------
(* The stream to the device.                                               *)

WrittenSoFar(c) == WrittenBy(c, Len(written))

\* The frame that tcp_to_bridge has read last.
Current == [session |-> session, client |-> client, n |-> count]

\* What has been written of the client, by where its reader is.
ReaderKnows ==
  /\ reader = "read" => WrittenSoFar(client) = 1..count
  /\ reader = "send" => WrittenSoFar(client) = 1..count - 1
  /\ reader = "ack" => WrittenSoFar(client) \in {1..count - 1, 1..count}

\* A frame in the channel is the only one, and has not been written.
Queued ==
  BRIDGE_TO_USB # <<>> =>
    /\ task = "stream" /\ reader = "ack"
    /\ BRIDGE_TO_USB = <<Current>>
    /\ WrittenSoFar(client) = 1..count - 1

\* So is a frame that is being written, be it of this client or of one before,
\* unless the device was lost in the middle.
InHand ==
  writing # NoFrame =>
    /\ writing.client <= client
    /\ writing.session = session => writing.client = client
    /\ writing.client = client =>
         reader = "ack" /\ writing.n = count /\ BRIDGE_TO_USB = <<>>
    /\ served => WrittenSoFar(writing.client) = 1..writing.n - 1

\* An acknowledgement of the session that is open is for the last frame read.
AckIsHonest ==
  session # 0 /\ BRIDGE_OUT_ACK = session =>
    /\ reader = "ack" /\ BRIDGE_TO_USB = <<>>
    /\ writing # NoFrame => writing.client # client
    /\ WrittenSoFar(client) = 1..count

NoneToCome == \A i \in 1..Len(written) : written[i].client <= client

DrainIsQuiet == task = "drain" => reader = "read" /\ count = sent /\ peer # "open"

ToDevice ==
  /\ WrittenInOrder /\ ReaderKnows /\ Queued /\ InHand /\ AckIsHonest
  /\ NoneToCome /\ DrainIsQuiet

-----------------------------------------------------------------------------
(* The stream to the client.                                               *)

\* Packets are numbered in the order in which they came from the device, and
\* keep it from one place to the next.
Below(n) ==
  /\ \A i \in 1..Len(got) : got[i].n < n
  /\ writer.n < n
  /\ \A i \in 1..Len(USB_TO_BRIDGE) : USB_TO_BRIDGE[i].n < n
Ascending ==
  /\ \A i, j \in 1..Len(got) : i < j => got[i].n < got[j].n
  /\ \A i, j \in 1..Len(USB_TO_BRIDGE) : i < j => USB_TO_BRIDGE[i].n < USB_TO_BRIDGE[j].n
  /\ \A i \in 1..Len(got), j \in 1..Len(USB_TO_BRIDGE) : got[i].n < USB_TO_BRIDGE[j].n
  /\ writer # NoPacket =>
       /\ \A i \in 1..Len(got) : got[i].n < writer.n
       /\ \A j \in 1..Len(USB_TO_BRIDGE) : writer.n < USB_TO_BRIDGE[j].n
  /\ Below(packets + 1)
  /\ reading # 0 => reading = packets /\ Below(packets)

OwnPackets ==
  /\ session # 0 => \A i \in 1..Len(got) : got[i].session = session
  /\ writer # NoPacket => task \in {"stream", "drain"} /\ writer.session = session
  /\ task = "open" => got = <<>>

ToClient == Ascending /\ OwnPackets

-----------------------------------------------------------------------------
(* The calls.                                                              *)

\* Calls are numbered in order, and the last one is that of the task.
OwnCalls ==
  /\ \A i \in 1..Len(commands) :
       /\ commands[i].call <= call
       /\ calling /\ commands[i].call = call => commands[i].operation = task
  /\ \A i, j \in 1..Len(commands) : i < j => commands[i].call < commands[j].call

\* If they are answered in time, a command to open is that of the call that
\* waits, and the call to close names the bridge that runs.
CallsInTime ==
  timely =>
    /\ \A i \in 1..Len(commands) :
         /\ commands[i].operation = "open" => commands[i].call = call /\ task = "open"
         /\ commands[i].call = call /\ task = "close" =>
              /\ commands[i].session = session
              /\ commands[i].generation # generation => bridging = 0
    /\ task = "close" /\ (\A i \in 1..Len(commands) : commands[i].call # call)
         => bridging = 0

InTime == OwnCalls /\ CallsInTime /\ NoOrphan
USE DEF clientVars, taskVars, channelVars, signalVars, deviceVars, bridgeVars

-----------------------------------------------------------------------------
(* Types.                                                                  *)

\* TypeOK, and why a frame is that of a client and a device can be counted.
Typed ==
  /\ TypeOK
  /\ ~served => generation <= MaxDetach
  /\ task # "accept" => client # 0
  /\ reader # "read" => count # 0
  /\ calling <=> task \in {"open", "close"}

\* The types hold when the task and core 1 start.
LEMMA InitTyped == Init => Typed
<1> SUFFICES ASSUME Init PROVE Typed
  OBVIOUS
<1> USE BridgeAssumption DEF Init
<1>1. {written, BRIDGE_TO_USB} \subseteq Seq(Frames)
  OBVIOUS
<1>2. {got, USB_TO_BRIDGE} \subseteq Seq(Packets)
  OBVIOUS
<1>3. commands \in Seq(Commands)
  OBVIOUS
<1>4. {call, session, BRIDGE_EVENT, BRIDGE_OUT_ACK, bridging, nextSession} \subseteq Nat
  OBVIOUS
<1>5. /\ {served, calling, started, timely} \subseteq BOOLEAN
      /\ task \in TaskStates
  BY DEF TaskStates
<1>6. /\ client \in 0..MaxClients /\ sent \in 0..MaxFrames /\ count \in 0..sent
      /\ {reading, packets} \subseteq 0..MaxPackets
      /\ generation \in 1..MaxDetach + 2
  OBVIOUS
<1>7. Len(BRIDGE_TO_USB) <= Capacity /\ Len(USB_TO_BRIDGE) <= Capacity
  OBVIOUS
<1> QED
  BY <1>1, <1>2, <1>3, <1>4, <1>5, <1>6, <1>7 DEF Typed, TypeOK

\* The constants, one by one.
LEMMA Limits ==
  /\ Capacity \in Nat /\ Capacity > 0
  /\ MaxClients \in Nat /\ MaxFrames \in Nat /\ MaxPackets \in Nat /\ MaxDetach \in Nat
BY BridgeAssumption

\* What usb_serial_task does when it calls the manager keeps the types.
LEMMA CallTyped ==
  ASSUME Typed, NEW operation \in {"open", "close"}, NEW s \in Nat, Call(operation, s)
  PROVE  /\ call' \in Nat /\ calling' \in BOOLEAN /\ commands' \in Seq(Commands)
         /\ calling' <=> served
<1>5. served \in BOOLEAN
  BY DEF Typed, TypeOK
<1> DEFINE command == [operation |-> operation, session |-> s,
                       generation |-> generation, call |-> call + 1]
<1>1. call \in Nat /\ generation \in Nat
  BY Limits DEF Typed, TypeOK
<1>2. command \in Commands
  BY <1>1 DEF Commands
<1>3. commands' = IF served THEN Append(commands, command) ELSE commands
  BY DEF Call
<1> HIDE DEF command
<1>4. commands' \in Seq(Commands)
  BY <1>2, <1>3 DEF Typed, TypeOK
<1> QED
  BY <1>1, <1>4, <1>5 DEF Call

\* So does closing the bridge.
LEMMA StartCloseTyped ==
  ASSUME Typed, StartClose
  PROVE  /\ call' \in Nat /\ calling' \in BOOLEAN /\ commands' \in Seq(Commands)
         /\ BRIDGE_TO_USB' \in Seq(Frames) /\ Len(BRIDGE_TO_USB') <= Capacity
         /\ writer' \in Packets \cup {NoPacket}
         /\ task' \in TaskStates /\ session' \in Nat
         /\ calling' <=> task' \in {"open", "close"}
<1>1. session \in Nat /\ served \in BOOLEAN
  BY DEF Typed, TypeOK
<1>2. /\ call' \in Nat /\ calling' \in BOOLEAN /\ commands' \in Seq(Commands)
      /\ calling' <=> served
  BY <1>1, CallTyped DEF StartClose
<1>3. BRIDGE_TO_USB' \in Seq(Frames) /\ Len(BRIDGE_TO_USB') <= Capacity
  BY Limits DEF StartClose
<1>4. /\ task' \in TaskStates /\ session' \in Nat
      /\ task' \in {"open", "close"} <=> served
  BY <1>1 DEF StartClose, TaskStates
<1>5. writer' = NoPacket
  BY DEF StartClose
<1> QED
  BY <1>2, <1>3, <1>4, <1>5

\* So does the end of the transfers.
LEMMA StopTyped ==
  ASSUME Typed, StopIo
  PROVE  /\ bridging' \in Nat /\ started' \in BOOLEAN
         /\ writing' \in Frames \cup {NoFrame} /\ reading' \in 0..MaxPackets
<1>1. bridging' = 0 /\ reading' = 0 /\ writing' = NoFrame
  BY DEF StopIo
<1>2. started' \in BOOLEAN
  BY DEF StopIo
<1>3. 0 \in Nat /\ 0 \in 0..MaxPackets
  BY Limits
<1> QED
  BY <1>1, <1>2, <1>3

\* So does the answer to a call.
LEMMA AnswerTyped ==
  ASSUME Typed, NEW command, NEW s \in Nat, Answer(command, s)
  PROVE  calling' \in BOOLEAN /\ session' \in Nat /\ task' \in TaskStates
BY DEF Answer, Typed, TypeOK, TaskStates

\* Every step keeps the types.
LEMMA TypedStep ==
  ASSUME Typed, [Next]_vars
  PROVE  Typed'
<1> USE Limits DEF Typed, TypeOK, TaskStates
<1>1. CASE ClientSends
  BY <1>1 DEF ClientSends
<1>2. CASE ClientLeaves
  BY <1>2 DEF ClientLeaves
<1>3. CASE Accept
  <2>1. /\ call' \in Nat /\ calling' \in BOOLEAN /\ commands' \in Seq(Commands)
        /\ calling' <=> served
    BY <1>3, CallTyped DEF Accept
  <2>2. USB_TO_BRIDGE' = <<>> /\ BRIDGE_TO_USB' = <<>> /\ got' = <<>>
    BY <1>3 DEF Accept
  <2>3. client' \in 0..MaxClients /\ count' \in 0..sent' /\ sent' \in 0..MaxFrames
    BY <1>3 DEF Accept
  <2> QED
    BY <1>3, <2>1, <2>2, <2>3 DEF Accept
<1>4. CASE Read
  BY <1>4 DEF Read
<1>5. CASE SendFrame
  <2> DEFINE frame == [session |-> session, client |-> client, n |-> count]
  <2>1. frame \in Frames
    <3>1. client \in 1..MaxClients /\ count \in 1..MaxFrames
      BY <1>5 DEF SendFrame
    <3> QED
      BY <3>1 DEF Frames
  <2>2. BRIDGE_TO_USB' = Append(BRIDGE_TO_USB, frame)
    BY <1>5 DEF SendFrame
  <2> HIDE DEF frame
  <2>3. BRIDGE_TO_USB' \in Seq(Frames) /\ Len(BRIDGE_TO_USB') <= Capacity
    BY <1>5, <2>1, <2>2 DEF SendFrame
  <2> QED
    BY <1>5, <2>3 DEF SendFrame
<1>6. CASE AwaitAck
  BY <1>6 DEF AwaitAck
<1>7. CASE TakeFrame
  BY <1>7 DEF TakeFrame
<1>8. CASE WriteTcp
  BY <1>8 DEF WriteTcp
<1>9. CASE StreamEof
  BY <1>9 DEF StreamEof, OrderlyEof
<1>10. CASE StreamBroken
  BY <1>10, StartCloseTyped DEF StreamBroken
<1>11. CASE DrainEnds
  BY <1>11, StartCloseTyped DEF DrainEnds
<1>12. CASE StreamClosed
  BY <1>12, StartCloseTyped DEF StreamClosed
<1>13. CASE Discard
  BY <1>13 DEF Discard
<1>14. CASE CloseOvertaken
  <2>1. CASE BRIDGE_EVENT = session
    <3>1. task' = "flush" /\ session' = 0 /\ calling' = FALSE
      BY <1>14, <2>1 DEF CloseOvertaken
    <3> QED
      BY <1>14, <3>1 DEF CloseOvertaken
  <2>2. CASE BRIDGE_EVENT # session
    BY <1>14, <2>2 DEF CloseOvertaken
  <2> QED
    BY <2>1, <2>2
<1>15. CASE Expire
  BY <1>15 DEF Expire, MayExpire
<1>16. CASE Flush
  BY <1>16 DEF Flush
<1>17. CASE OpenBridge
  <2>1. Tail(commands) \in Seq(Commands)
    BY <1>17 DEF OpenBridge
  <2>6. nextSession + 1 \in Nat
    OBVIOUS
  <2>2. calling' \in BOOLEAN /\ session' \in Nat /\ task' \in TaskStates
    BY <1>17, <2>6, AnswerTyped DEF OpenBridge
  <2>3. /\ USB_TO_BRIDGE' \in Seq(Packets) /\ Len(USB_TO_BRIDGE') <= Capacity
        /\ packets' \in 0..MaxPackets
    <3> DEFINE packet == [session |-> nextSession + 1, n |-> packets + 1]
    <3>1. CASE UNCHANGED <<packets, USB_TO_BRIDGE>>
      BY <3>1
    <3>2. CASE ~UNCHANGED <<packets, USB_TO_BRIDGE>>
      <4>1. packets < MaxPackets /\ packets' = packets + 1
        BY <1>17, <3>2 DEF OpenBridge, SendInitial
      <4>2. packet \in Packets
        BY <2>6, <4>1 DEF Packets
      <4>3. USB_TO_BRIDGE' = Append(USB_TO_BRIDGE, packet) /\ Len(USB_TO_BRIDGE) < Capacity
        BY <1>17, <3>2 DEF OpenBridge, SendInitial
      <4> HIDE DEF packet
      <4> QED
        BY <4>1, <4>2, <4>3
    <3> QED
      BY <3>1, <3>2
  <2>4. /\ UNCHANGED <<clientVars, reader, count, writer, call, BRIDGE_TO_USB,
                       signalVars, deviceVars, started, writing, reading, written>>
        /\ commands' = Tail(commands)
        /\ bridging' = nextSession + 1 /\ nextSession' = nextSession + 1
    BY <1>17 DEF OpenBridge
  <2>5. /\ client # 0 \/ task' = "accept"
        /\ calling' <=> task' \in {"open", "close"}
    BY <1>17 DEF OpenBridge, Answer
  <2> QED
    BY <2>1, <2>2, <2>3, <2>4, <2>5, <2>6
<1>18. CASE CloseBridge
  <2>1. Tail(commands) \in Seq(Commands)
    BY <1>18 DEF CloseBridge
  <2>2. calling' \in BOOLEAN /\ session' \in Nat /\ task' \in TaskStates
    BY <1>18, AnswerTyped DEF CloseBridge
  <2>3. /\ client # 0 \/ task' = "accept"
        /\ calling' <=> task' \in {"open", "close"}
    BY <1>18 DEF CloseBridge, Answer
  <2>4. /\ bridging' \in Nat /\ started' \in BOOLEAN
        /\ writing' \in Frames \cup {NoFrame} /\ reading' \in 0..MaxPackets
    BY <1>18, StopTyped DEF CloseBridge
  <2> QED
    BY <1>18, <2>1, <2>2, <2>3, <2>4 DEF CloseBridge
<1>19. CASE RejectCommand
  <2>1. Tail(commands) \in Seq(Commands)
    BY <1>19 DEF RejectCommand
  <2>2. calling' \in BOOLEAN /\ session' \in Nat /\ task' \in TaskStates
    BY <1>19, AnswerTyped DEF RejectCommand
  <2>3. /\ client # 0 \/ task' = "accept"
        /\ calling' <=> task' \in {"open", "close"}
    BY <1>19 DEF RejectCommand, Answer
  <2> QED
    BY <1>19, <2>1, <2>2, <2>3 DEF RejectCommand
<1>20. CASE StartWrite
  BY <1>20 DEF StartWrite
<1>21. CASE FinishWrite
  BY <1>21 DEF FinishWrite
<1>22. CASE ReadPacket
  BY <1>22 DEF ReadPacket
<1>23. CASE SendPacket
  <2> DEFINE packet == [session |-> bridging, n |-> reading]
  <2>1. packet \in Packets
    BY <1>23 DEF SendPacket, Packets
  <2>2. USB_TO_BRIDGE' = Append(USB_TO_BRIDGE, packet)
    BY <1>23 DEF SendPacket
  <2> HIDE DEF packet
  <2>3. USB_TO_BRIDGE' \in Seq(Packets) /\ Len(USB_TO_BRIDGE') <= Capacity
    BY <1>23, <2>1, <2>2 DEF SendPacket
  <2> QED
    BY <1>23, <2>3 DEF SendPacket
<1>24. CASE EndBridge
  <2>1. commands' \in Seq(Commands)
    <3>1. CASE commands' = commands
      BY <3>1
    <3>2. CASE commands' = Tail(commands) /\ commands # <<>>
      BY <3>2
    <3> QED
      BY <1>24, <3>1, <3>2 DEF EndBridge
  <2>2. /\ bridging' \in Nat /\ started' \in BOOLEAN
        /\ writing' \in Frames \cup {NoFrame} /\ reading' \in 0..MaxPackets
    BY <1>24, StopTyped DEF EndBridge
  <2> QED
    BY <1>24, <2>1, <2>2 DEF EndBridge
<1>25. CASE LoseDevice
  <2>1. written' \in Seq(Frames)
    <3>1. CASE written' = written
      BY <3>1
    <3>2. CASE written' = Append(written, writing) /\ writing # NoFrame
      BY <3>2
    <3> QED
      BY <1>25, <3>1, <3>2 DEF LoseDevice
  <2> QED
    BY <1>25, <2>1 DEF LoseDevice
<1>26. CASE Reattach
  BY <1>26 DEF Reattach
<1>27. CASE UNCHANGED vars
  BY <1>27 DEF vars
<1> QED
  BY <1>1, <1>2, <1>3, <1>4, <1>5, <1>6, <1>7, <1>8, <1>9, <1>10,
     <1>11, <1>12, <1>13, <1>14, <1>15, <1>16, <1>17, <1>18, <1>19, <1>20,
     <1>21, <1>22, <1>23, <1>24, <1>25, <1>26, <1>27
  DEF Next, ClientNext, TaskNext, ManagerNext, DeviceNext

-----------------------------------------------------------------------------
(* The sessions.                                                           *)

\* What the sessions need of the types.
LEMMA SessionTypes ==
  ASSUME Typed
  PROVE  /\ session \in Nat /\ bridging \in Nat /\ nextSession \in Nat
         /\ BRIDGE_EVENT \in Nat /\ BRIDGE_OUT_ACK \in Nat
         /\ calling <=> task \in {"open", "close"}
BY DEF Typed, TypeOK

\* No session is named at the start.
LEMMA InitSessions == Init => SessionsOK
BY DEF Init, SessionsOK

\* Session numbers are used once: a new bridge has a number that no task, signal
\* or frame bears yet.
LEMMA SessionsStep ==
  ASSUME Typed, SessionsOK, [Next]_vars
  PROVE  SessionsOK'
<1> USE SessionTypes DEF SessionsOK
<1>1. CASE ClientSends
  BY <1>1 DEF ClientSends
<1>2. CASE ClientLeaves
  BY <1>2 DEF ClientLeaves
<1>3. CASE Accept
  BY <1>3 DEF Accept, Call
<1>4. CASE Read
  BY <1>4 DEF Read
<1>5. CASE SendFrame
  BY <1>5 DEF SendFrame
<1>6. CASE AwaitAck
  BY <1>6 DEF AwaitAck
<1>7. CASE TakeFrame
  BY <1>7 DEF TakeFrame
<1>8. CASE WriteTcp
  BY <1>8 DEF WriteTcp
<1>9. CASE StreamEof
  BY <1>9 DEF StreamEof, OrderlyEof
<1>10. CASE StreamBroken
  BY <1>10 DEF StreamBroken, StartClose, Call
<1>11. CASE DrainEnds
  BY <1>11 DEF DrainEnds, StartClose, Call
<1>12. CASE StreamClosed
  BY <1>12 DEF StreamClosed, StartClose, Call
<1>13. CASE Discard
  BY <1>13 DEF Discard
<1>14. CASE CloseOvertaken
  <2>1. CASE BRIDGE_EVENT = session
    <3>1. task' = "flush" /\ session' = 0
      BY <1>14, <2>1 DEF CloseOvertaken
    <3> QED
      BY <1>14, <3>1 DEF CloseOvertaken
  <2>2. CASE BRIDGE_EVENT # session
    <3>1. UNCHANGED <<task, session>>
      BY <1>14, <2>2 DEF CloseOvertaken
    <3> QED
      BY <1>14, <3>1 DEF CloseOvertaken
  <2> QED
    BY <2>1, <2>2
<1>15. CASE Expire
  BY <1>15 DEF Expire, MayExpire
<1>16. CASE Flush
  BY <1>16 DEF Flush
<1>17. CASE OpenBridge
  BY <1>17 DEF OpenBridge, Answer, SendInitial, CommandCurrent
<1>18. CASE CloseBridge
  BY <1>18 DEF CloseBridge, Answer, StopIo, CommandCurrent, Listening
<1>19. CASE RejectCommand
  BY <1>19 DEF RejectCommand, Answer, CommandCurrent, Listening
<1>20. CASE StartWrite
  BY <1>20 DEF StartWrite
<1>21. CASE FinishWrite
  BY <1>21 DEF FinishWrite
<1>22. CASE ReadPacket
  BY <1>22 DEF ReadPacket
<1>23. CASE SendPacket
  BY <1>23 DEF SendPacket
<1>24. CASE EndBridge
  BY <1>24 DEF EndBridge, StopIo
<1>25. CASE LoseDevice
  BY <1>25 DEF LoseDevice
<1>26. CASE Reattach
  BY <1>26 DEF Reattach
<1>27. CASE UNCHANGED vars
  BY <1>27 DEF vars
<1> QED
  BY <1>1, <1>2, <1>3, <1>4, <1>5, <1>6, <1>7, <1>8, <1>9, <1>10,
     <1>11, <1>12, <1>13, <1>14, <1>15, <1>16, <1>17, <1>18, <1>19, <1>20,
     <1>21, <1>22, <1>23, <1>24, <1>25, <1>26, <1>27
  DEF Next, ClientNext, TaskNext, ManagerNext, DeviceNext

-----------------------------------------------------------------------------
(* The calls.                                                              *)

\* What the calls need of the types.
LEMMA CallTypes ==
  ASSUME Typed
  PROVE  /\ commands \in Seq(Commands) /\ call \in Nat
         /\ \A i \in 1..Len(commands) : commands[i].call \in Nat /\ commands[i].generation \in Nat
                 /\ commands[i].session \in Nat
         /\ calling <=> task \in {"open", "close"}
<1>1. commands \in Seq(Commands) /\ call \in Nat /\ (calling <=> task \in {"open", "close"})
  BY DEF Typed, TypeOK
<1>2. \A c \in Commands : c.call \in Nat /\ c.generation \in Nat /\ c.session \in Nat
  BY DEF Commands
<1> QED
  BY <1>1, <1>2

\* A new command bears a number of its own.
LEMMA CallOwn ==
  ASSUME Typed, OwnCalls, NEW operation \in {"open", "close"}, NEW s, Call(operation, s),
         task' = IF served THEN operation ELSE "flush"
  PROVE  OwnCalls'
<1> USE CallTypes DEF OwnCalls
<1>1. call' = call + 1
  BY DEF Call
<1>2. CASE ~served
  <2>1. commands' = commands /\ calling' = served
    BY <1>2 DEF Call
  <2> QED
    BY <1>1, <1>2, <2>1
<1>3. CASE served
  <2> DEFINE command == [operation |-> operation, session |-> s,
                         generation |-> generation, call |-> call + 1]
  <2>1. commands' = Append(commands, command) /\ task' = operation
    BY <1>3 DEF Call
  <2>2. command.call = call + 1 /\ command.operation = operation
    OBVIOUS
  <2> HIDE DEF command
  <2>3. \A i \in 1..Len(commands') :
          IF i <= Len(commands) THEN commands'[i] = commands[i] ELSE commands'[i] = command
    BY <2>1
  <2>4. Len(commands') = Len(commands) + 1
    BY <2>1
  <2> QED
    BY <1>1, <2>1, <2>2, <2>3, <2>4
<1> QED
  BY <1>2, <1>3

\* An older command is none of the task's.
LEMMA TailOwn ==
  ASSUME Typed, OwnCalls, commands # <<>>, commands' = Tail(commands),
         call' = call, calling' => calling /\ UNCHANGED task
  PROVE  OwnCalls'
BY CallTypes DEF OwnCalls

\* Commands that stay.
LEMMA KeepOwn ==
  ASSUME Typed, OwnCalls, UNCHANGED <<commands, call>>, calling' => calling /\ UNCHANGED task
  PROVE  OwnCalls'
BY CallTypes DEF OwnCalls

\* Every step leaves the last call to the task.
LEMMA CallsStep ==
  ASSUME Typed, OwnCalls, [Next]_vars
  PROVE  OwnCalls'
<1>1. CASE ClientSends
  BY <1>1, KeepOwn, CallTypes DEF ClientSends
<1>2. CASE ClientLeaves
  BY <1>2, KeepOwn, CallTypes DEF ClientLeaves
<1>3. CASE Accept
  BY <1>3, CallOwn DEF Accept
<1>4. CASE Read
  BY <1>4, KeepOwn, CallTypes DEF Read
<1>5. CASE SendFrame
  BY <1>5, KeepOwn, CallTypes DEF SendFrame
<1>6. CASE AwaitAck
  BY <1>6, KeepOwn, CallTypes DEF AwaitAck
<1>7. CASE TakeFrame
  BY <1>7, KeepOwn, CallTypes DEF TakeFrame
<1>8. CASE WriteTcp
  BY <1>8, KeepOwn, CallTypes DEF WriteTcp
<1>9. CASE StreamEof
  BY <1>9, KeepOwn, CallTypes DEF StreamEof
<1>10. CASE StreamBroken
  BY <1>10, CallOwn DEF StreamBroken, StartClose
<1>11. CASE DrainEnds
  BY <1>11, CallOwn DEF DrainEnds, StartClose
<1>12. CASE StreamClosed
  <2>1. CASE BRIDGE_EVENT = session
    BY <1>12, <2>1, CallOwn DEF StreamClosed, StartClose
  <2>2. CASE BRIDGE_EVENT # session
    BY <1>12, <2>2, KeepOwn DEF StreamClosed
  <2> QED
    BY <2>1, <2>2
<1>13. CASE Discard
  BY <1>13, KeepOwn, CallTypes DEF Discard
<1>14. CASE CloseOvertaken
  BY <1>14, KeepOwn, CallTypes DEF CloseOvertaken
<1>15. CASE Expire
  BY <1>15, KeepOwn, CallTypes DEF Expire
<1>16. CASE Flush
  BY <1>16, KeepOwn, CallTypes DEF Flush
<1>17. CASE OpenBridge
  BY <1>17, TailOwn DEF OpenBridge, Answer
<1>18. CASE CloseBridge
  BY <1>18, TailOwn DEF CloseBridge, Answer
<1>19. CASE RejectCommand
  BY <1>19, TailOwn DEF RejectCommand, Answer
<1>20. CASE StartWrite
  BY <1>20, KeepOwn, CallTypes DEF StartWrite
<1>21. CASE FinishWrite
  BY <1>21, KeepOwn, CallTypes DEF FinishWrite
<1>22. CASE ReadPacket
  BY <1>22, KeepOwn, CallTypes DEF ReadPacket
<1>23. CASE SendPacket
  BY <1>23, KeepOwn, CallTypes DEF SendPacket
<1>24. CASE EndBridge
  BY <1>24, TailOwn, KeepOwn DEF EndBridge
<1>25. CASE LoseDevice
  BY <1>25, KeepOwn DEF LoseDevice
<1>26. CASE Reattach
  BY <1>26, KeepOwn, CallTypes DEF Reattach
<1>27. CASE UNCHANGED vars
  BY <1>27, KeepOwn DEF vars
<1> QED
  BY <1>1, <1>2, <1>3, <1>4, <1>5, <1>6, <1>7, <1>8, <1>9, <1>10,
     <1>11, <1>12, <1>13, <1>14, <1>15, <1>16, <1>17, <1>18, <1>19, <1>20,
     <1>21, <1>22, <1>23, <1>24, <1>25, <1>26, <1>27
  DEF Next, ClientNext, TaskNext, ManagerNext, DeviceNext

-----------------------------------------------------------------------------
(* The packets on their way to the client.                                 *)

\* What the packets need of the types.
LEMMA PacketTypes ==
  ASSUME Typed
  PROVE  /\ got \in Seq(Packets) /\ USB_TO_BRIDGE \in Seq(Packets)
         /\ writer \in Packets \cup {NoPacket}
         /\ \A i \in 1..Len(got) : got[i].n \in Nat
         /\ \A i \in 1..Len(USB_TO_BRIDGE) : USB_TO_BRIDGE[i].n \in Nat
         /\ writer.n \in Nat
         /\ packets \in Nat /\ reading \in Nat /\ session \in Nat /\ nextSession \in Nat
<1>1. /\ got \in Seq(Packets) /\ USB_TO_BRIDGE \in Seq(Packets)
      /\ writer \in Packets \cup {NoPacket}
  BY DEF Typed, TypeOK
<1>2. \A p \in Packets \cup {NoPacket} : p.n \in Nat
  BY Limits DEF Packets, NoPacket
<1>3. packets \in Nat /\ reading \in Nat /\ session \in Nat /\ nextSession \in Nat
  BY Limits DEF Typed, TypeOK
<1> QED
  BY <1>1, <1>2, <1>3

\* Nothing changes for the packets.
LEMMA KeepAscending ==
  ASSUME Ascending, UNCHANGED <<got, writer, USB_TO_BRIDGE, packets, reading>>
  PROVE  Ascending'
BY DEF Ascending, Below

\* What is dropped leaves the others in order.
LEMMA DropAscending ==
  ASSUME Typed, Ascending, packets' = packets,
         got' \in {got, <<>>}, writer' \in {writer, NoPacket},
         USB_TO_BRIDGE' \in {USB_TO_BRIDGE, <<>>}, reading' \in {reading, 0}
  PROVE  Ascending'
<1> USE PacketTypes
<1>1. NoPacket.n = 0
  BY DEF NoPacket
<1>2. /\ \A i \in 1..Len(got') : i \in 1..Len(got) /\ got'[i] = got[i]
      /\ \A i \in 1..Len(USB_TO_BRIDGE') :
           i \in 1..Len(USB_TO_BRIDGE) /\ USB_TO_BRIDGE'[i] = USB_TO_BRIDGE[i]
  OBVIOUS
<1>3. \A n \in Nat \ {0} : Below(n) => Below(n)'
  BY <1>1, <1>2 DEF Below
<1>4. Below(packets + 1)' /\ (reading' # 0 => reading' = packets' /\ Below(packets)')
  BY <1>3 DEF Ascending
<1>5. writer' # NoPacket => writer' = writer /\ writer # NoPacket
  OBVIOUS
<1> HIDE DEF Below
<1>6. \A i, j \in 1..Len(got') : i < j => got'[i].n < got'[j].n
  <2>1. CASE got' = got
    BY <2>1 DEF Ascending
  <2>2. CASE got' = <<>>
    BY <2>2
  <2> QED
    BY <2>1, <2>2
<1>9. \A i, j \in 1..Len(USB_TO_BRIDGE') :
        i < j => USB_TO_BRIDGE'[i].n < USB_TO_BRIDGE'[j].n
  <2>1. CASE USB_TO_BRIDGE' = USB_TO_BRIDGE
    BY <2>1 DEF Ascending
  <2>2. CASE USB_TO_BRIDGE' = <<>>
    BY <2>2
  <2> QED
    BY <2>1, <2>2
<1>7. \A i \in 1..Len(got'), j \in 1..Len(USB_TO_BRIDGE') :
        got'[i].n < USB_TO_BRIDGE'[j].n
  BY <1>2 DEF Ascending
<1>8. writer' # NoPacket =>
        /\ \A i \in 1..Len(got') : got'[i].n < writer'.n
        /\ \A j \in 1..Len(USB_TO_BRIDGE') : writer'.n < USB_TO_BRIDGE'[j].n
  BY <1>2, <1>5 DEF Ascending
<1> QED
  BY <1>4, <1>6, <1>7, <1>8, <1>9 DEF Ascending

\* The first packet leaves the channel, and goes to the writer or nowhere.
LEMMA TakeAscending ==
  ASSUME Typed, Ascending, UNCHANGED <<packets, got, reading>>, USB_TO_BRIDGE # <<>>,
         USB_TO_BRIDGE' = Tail(USB_TO_BRIDGE),
         writer' = NoPacket \/ (writer = NoPacket /\ writer' = Head(USB_TO_BRIDGE))
  PROVE  Ascending'
<1> USE PacketTypes
<1>1. NoPacket.n = 0
  BY DEF NoPacket
<1>2. /\ Len(USB_TO_BRIDGE') = Len(USB_TO_BRIDGE) - 1
      /\ \A i \in 1..Len(USB_TO_BRIDGE') :
           i + 1 \in 1..Len(USB_TO_BRIDGE) /\ USB_TO_BRIDGE'[i] = USB_TO_BRIDGE[i + 1]
      /\ Head(USB_TO_BRIDGE) = USB_TO_BRIDGE[1] /\ 1 \in 1..Len(USB_TO_BRIDGE)
  OBVIOUS
<1>3. \A n \in Nat \ {0} : Below(n) => Below(n)'
  BY <1>1, <1>2 DEF Below
<1>4. Below(packets + 1)' /\ (reading' # 0 => reading' = packets' /\ Below(packets)')
  BY <1>3 DEF Ascending
<1> HIDE DEF Below
<1> QED
  BY <1>2, <1>4 DEF Ascending

\* A packet enters the channel that is newer than all others.
LEMMA SendAscending ==
  ASSUME Typed, Ascending, NEW p, NEW n \in Nat, p.n = n, Below(n),
         UNCHANGED <<got, writer>>, USB_TO_BRIDGE' = Append(USB_TO_BRIDGE, p),
         packets' = n, reading' = 0
  PROVE  Ascending'
<1> USE PacketTypes
<1>1. /\ Len(USB_TO_BRIDGE') = Len(USB_TO_BRIDGE) + 1
      /\ USB_TO_BRIDGE'[Len(USB_TO_BRIDGE')] = p
      /\ \A i \in 1..Len(USB_TO_BRIDGE) : USB_TO_BRIDGE'[i] = USB_TO_BRIDGE[i]
  OBVIOUS
<1>2. \A i \in 1..Len(USB_TO_BRIDGE') :
        i \in 1..Len(USB_TO_BRIDGE) \/ i = Len(USB_TO_BRIDGE')
  BY <1>1
<1>7. \A i \in 1..Len(USB_TO_BRIDGE) : USB_TO_BRIDGE[i].n < n
  BY DEF Below
<1>8. \A i \in 1..Len(USB_TO_BRIDGE') : USB_TO_BRIDGE'[i].n < n + 1
  BY <1>1, <1>2, <1>7
<1>3. Below(packets + 1)'
  BY <1>8 DEF Below
<1>4. \A i, j \in 1..Len(USB_TO_BRIDGE') : i < j => USB_TO_BRIDGE'[i].n < USB_TO_BRIDGE'[j].n
  <2> SUFFICES ASSUME NEW i \in 1..Len(USB_TO_BRIDGE'), NEW j \in 1..Len(USB_TO_BRIDGE'), i < j
               PROVE  USB_TO_BRIDGE'[i].n < USB_TO_BRIDGE'[j].n
    OBVIOUS
  <2>1. i \in 1..Len(USB_TO_BRIDGE)
    BY <1>1
  <2>2. CASE j \in 1..Len(USB_TO_BRIDGE)
    BY <1>1, <2>1, <2>2 DEF Ascending
  <2>3. CASE j = Len(USB_TO_BRIDGE')
    BY <1>1, <1>7, <2>1, <2>3
  <2> QED
    BY <1>2, <2>2, <2>3
<1>5. \A i \in 1..Len(got), j \in 1..Len(USB_TO_BRIDGE') : got[i].n < USB_TO_BRIDGE'[j].n
  BY <1>1, <1>2 DEF Below, Ascending
<1>6. writer # NoPacket => \A j \in 1..Len(USB_TO_BRIDGE') : writer.n < USB_TO_BRIDGE'[j].n
  BY <1>1, <1>2 DEF Below, Ascending
<1> QED
  BY <1>3, <1>4, <1>5, <1>6 DEF Ascending

\* The packet of the writer comes to the client.
LEMMA GotAscending ==
  ASSUME Typed, Ascending, UNCHANGED <<USB_TO_BRIDGE, packets, reading>>,
         writer # NoPacket, got' = Append(got, writer), writer' = NoPacket
  PROVE  Ascending'
<1> USE PacketTypes
<1>1. NoPacket.n = 0
  BY DEF NoPacket
<1>2. /\ Len(got') = Len(got) + 1
      /\ got'[Len(got')] = writer
      /\ \A i \in 1..Len(got) : got'[i] = got[i]
  OBVIOUS
<1>3. \A i \in 1..Len(got') : i \in 1..Len(got) \/ i = Len(got')
  BY <1>2
<1>4. \A n \in Nat \ {0} : Below(n) => Below(n)'
  BY <1>1, <1>2, <1>3 DEF Below
<1>5. Below(packets + 1)' /\ (reading' # 0 => reading' = packets' /\ Below(packets)')
  BY <1>4 DEF Ascending
<1>6. \A i, j \in 1..Len(got') : i < j => got'[i].n < got'[j].n
  BY <1>2, <1>3 DEF Ascending
<1>7. \A i \in 1..Len(got'), j \in 1..Len(USB_TO_BRIDGE) : got'[i].n < USB_TO_BRIDGE[j].n
  BY <1>2, <1>3 DEF Ascending
<1> HIDE DEF Below
<1> QED
  BY <1>5, <1>6, <1>7 DEF Ascending

\* Every step keeps the packets in order.
LEMMA AscendingStep ==
  ASSUME Typed, SessionsOK, ToClient, [Next]_vars
  PROVE  Ascending'
<1> USE DEF ToClient
<1>1. CASE ClientSends
  BY <1>1, KeepAscending DEF ClientSends
<1>2. CASE ClientLeaves
  BY <1>2, KeepAscending DEF ClientLeaves
<1>3. CASE Accept
  <2>1. /\ packets' = packets /\ got' \in {got, <<>>} /\ writer' \in {writer, NoPacket}
        /\ USB_TO_BRIDGE' \in {USB_TO_BRIDGE, <<>>} /\ reading' \in {reading, 0}
    BY <1>3 DEF Accept
  <2> QED
    BY <2>1, DropAscending
<1>4. CASE Read
  BY <1>4, KeepAscending DEF Read
<1>5. CASE SendFrame
  BY <1>5, KeepAscending DEF SendFrame
<1>6. CASE AwaitAck
  BY <1>6, KeepAscending DEF AwaitAck
<1>7. CASE TakeFrame
  <2>1. /\ USB_TO_BRIDGE # <<>> /\ USB_TO_BRIDGE' = Tail(USB_TO_BRIDGE)
        /\ UNCHANGED <<packets, got, reading>>
    BY <1>7 DEF TakeFrame
  <2>2. writer' = NoPacket \/ (writer = NoPacket /\ writer' = Head(USB_TO_BRIDGE))
    <3>1. CASE Head(USB_TO_BRIDGE).session = session
      BY <1>7, <3>1 DEF TakeFrame
    <3>2. CASE Head(USB_TO_BRIDGE).session # session
      BY <1>7, <3>2 DEF TakeFrame
    <3> QED
      BY <3>1, <3>2
  <2> QED
    BY <2>1, <2>2, TakeAscending
<1>8. CASE WriteTcp
  BY <1>8, GotAscending DEF WriteTcp
<1>9. CASE StreamEof
  <2>1. /\ packets' = packets /\ got' \in {got, <<>>} /\ writer' \in {writer, NoPacket}
        /\ USB_TO_BRIDGE' \in {USB_TO_BRIDGE, <<>>} /\ reading' \in {reading, 0}
    BY <1>9 DEF StreamEof
  <2> QED
    BY <2>1, DropAscending
<1>10. CASE StreamBroken
  <2>1. /\ packets' = packets /\ got' \in {got, <<>>} /\ writer' \in {writer, NoPacket}
        /\ USB_TO_BRIDGE' \in {USB_TO_BRIDGE, <<>>} /\ reading' \in {reading, 0}
    BY <1>10 DEF StreamBroken, StartClose
  <2> QED
    BY <2>1, DropAscending
<1>11. CASE DrainEnds
  <2>1. /\ packets' = packets /\ got' \in {got, <<>>} /\ writer' \in {writer, NoPacket}
        /\ USB_TO_BRIDGE' \in {USB_TO_BRIDGE, <<>>} /\ reading' \in {reading, 0}
    BY <1>11 DEF DrainEnds, StartClose
  <2> QED
    BY <2>1, DropAscending
<1>12. CASE StreamClosed
  <2>1. /\ packets' = packets /\ got' \in {got, <<>>} /\ writer' \in {writer, NoPacket}
        /\ USB_TO_BRIDGE' \in {USB_TO_BRIDGE, <<>>} /\ reading' \in {reading, 0}
    BY <1>12 DEF StreamClosed, StartClose
  <2> QED
    BY <2>1, DropAscending
<1>13. CASE Discard
  <2>1. writer = NoPacket
    BY <1>13 DEF Discard, OwnPackets
  <2>2. /\ USB_TO_BRIDGE # <<>> /\ USB_TO_BRIDGE' = Tail(USB_TO_BRIDGE)
        /\ UNCHANGED <<packets, got, reading>>
        /\ writer' = NoPacket
    BY <1>13, <2>1 DEF Discard
  <2> QED
    BY <2>1, <2>2, TakeAscending
<1>14. CASE CloseOvertaken
  BY <1>14, KeepAscending DEF CloseOvertaken
<1>15. CASE Expire
  BY <1>15, KeepAscending DEF Expire
<1>16. CASE Flush
  <2>1. /\ packets' = packets /\ got' \in {got, <<>>} /\ writer' \in {writer, NoPacket}
        /\ USB_TO_BRIDGE' \in {USB_TO_BRIDGE, <<>>} /\ reading' \in {reading, 0}
    BY <1>16 DEF Flush
  <2> QED
    BY <2>1, DropAscending
<1>17. CASE OpenBridge
  <2>1. CASE UNCHANGED <<packets, USB_TO_BRIDGE>>
    BY <1>17, <2>1, KeepAscending DEF OpenBridge
  <2>2. CASE ~UNCHANGED <<packets, USB_TO_BRIDGE>>
    <3> DEFINE packet == [session |-> nextSession + 1, n |-> packets + 1]
    <3>1. packets' = packets + 1 /\ USB_TO_BRIDGE' = Append(USB_TO_BRIDGE, packet)
      BY <1>17, <2>2 DEF OpenBridge, SendInitial
    <3>2. reading' = 0 /\ UNCHANGED <<got, writer>>
      BY <1>17 DEF OpenBridge, SessionsOK
    <3>3. packet.n = packets + 1 /\ packets + 1 \in Nat /\ Below(packets + 1)
      BY PacketTypes DEF Ascending
    <3> HIDE DEF packet
    <3> QED
      BY <3>1, <3>2, <3>3, SendAscending
  <2> QED
    BY <2>1, <2>2
<1>18. CASE CloseBridge
  <2>1. /\ packets' = packets /\ got' \in {got, <<>>} /\ writer' \in {writer, NoPacket}
        /\ USB_TO_BRIDGE' \in {USB_TO_BRIDGE, <<>>} /\ reading' \in {reading, 0}
    BY <1>18 DEF CloseBridge, StopIo
  <2> QED
    BY <2>1, DropAscending
<1>19. CASE RejectCommand
  BY <1>19, KeepAscending DEF RejectCommand
<1>20. CASE StartWrite
  BY <1>20, KeepAscending DEF StartWrite
<1>21. CASE FinishWrite
  BY <1>21, KeepAscending DEF FinishWrite
<1>22. CASE ReadPacket
  <2>1. /\ UNCHANGED <<got, writer, USB_TO_BRIDGE>> /\ packets' = packets + 1
        /\ reading' = packets + 1
    BY <1>22 DEF ReadPacket
  <2>2. Below(packets)' /\ Below(packets + 1)'
    BY <2>1, PacketTypes DEF Ascending, Below
  <2> QED
    BY <2>1, <2>2 DEF Ascending
<1>23. CASE SendPacket
  <2> DEFINE packet == [session |-> bridging, n |-> reading]
  <2>1. /\ UNCHANGED <<got, writer, packets>> /\ reading' = 0
        /\ USB_TO_BRIDGE' = Append(USB_TO_BRIDGE, packet)
    BY <1>23 DEF SendPacket
  <2>2. packet.n = reading /\ packets' = reading /\ reading \in Nat /\ Below(reading)
    BY <1>23, <2>1, PacketTypes DEF SendPacket, Ascending
  <2> HIDE DEF packet
  <2> QED
    BY <2>1, <2>2, SendAscending
<1>24. CASE EndBridge
  <2>1. /\ packets' = packets /\ got' \in {got, <<>>} /\ writer' \in {writer, NoPacket}
        /\ USB_TO_BRIDGE' \in {USB_TO_BRIDGE, <<>>} /\ reading' \in {reading, 0}
    BY <1>24 DEF EndBridge, StopIo
  <2> QED
    BY <2>1, DropAscending
<1>25. CASE LoseDevice
  BY <1>25, KeepAscending DEF LoseDevice
<1>26. CASE Reattach
  BY <1>26, KeepAscending DEF Reattach
<1>27. CASE UNCHANGED vars
  BY <1>27, KeepAscending DEF vars
<1> QED
  BY <1>1, <1>2, <1>3, <1>4, <1>5, <1>6, <1>7, <1>8, <1>9, <1>10,
     <1>11, <1>12, <1>13, <1>14, <1>15, <1>16, <1>17, <1>18, <1>19, <1>20,
     <1>21, <1>22, <1>23, <1>24, <1>25, <1>26, <1>27
  DEF Next, ClientNext, TaskNext, ManagerNext, DeviceNext

\* Every step keeps the packets of other bridges from the client.
LEMMA OwnPacketsStep ==
  ASSUME Typed, SessionsOK, OwnCalls, OwnPackets, [Next]_vars
  PROVE  OwnPackets'
<1> USE SessionTypes DEF OwnPackets, SessionsOK
<1>1. CASE ClientSends
  BY <1>1 DEF ClientSends
<1>2. CASE ClientLeaves
  BY <1>2 DEF ClientLeaves
<1>3. CASE Accept
  BY <1>3 DEF Accept, Call
<1>4. CASE Read
  BY <1>4 DEF Read
<1>5. CASE SendFrame
  BY <1>5 DEF SendFrame
<1>6. CASE AwaitAck
  BY <1>6 DEF AwaitAck
<1>7. CASE TakeFrame
  BY <1>7 DEF TakeFrame
<1>8. CASE WriteTcp
  <2>1. \A i \in 1..Len(got') : got'[i].session = session
    <3>1. \A i \in 1..Len(got') : (i \in 1..Len(got) /\ got'[i] = got[i]) \/ got'[i] = writer
      BY <1>8, PacketTypes DEF WriteTcp
    <3> QED
      BY <1>8, <3>1 DEF WriteTcp
  <2> QED
    BY <1>8, <2>1 DEF WriteTcp
<1>9. CASE StreamEof
  BY <1>9 DEF StreamEof, OrderlyEof
<1>10. CASE StreamBroken
  BY <1>10 DEF StreamBroken, StartClose, Call
<1>11. CASE DrainEnds
  BY <1>11 DEF DrainEnds, StartClose, Call
<1>12. CASE StreamClosed
  BY <1>12 DEF StreamClosed, StartClose, Call
<1>13. CASE Discard
  BY <1>13 DEF Discard
<1>14. CASE CloseOvertaken
  <2>1. CASE BRIDGE_EVENT = session
    <3>1. task' = "flush" /\ session' = 0
      BY <1>14, <2>1 DEF CloseOvertaken
    <3> QED
      BY <1>14, <3>1 DEF CloseOvertaken
  <2>2. CASE BRIDGE_EVENT # session
    <3>1. UNCHANGED <<task, session>>
      BY <1>14, <2>2 DEF CloseOvertaken
    <3> QED
      BY <1>14, <3>1 DEF CloseOvertaken
  <2> QED
    BY <2>1, <2>2
<1>15. CASE Expire
  BY <1>15 DEF Expire, MayExpire
<1>16. CASE Flush
  BY <1>16 DEF Flush
<1>17. CASE OpenBridge
  <2>1. CASE calling /\ Head(commands).call = call
    <3>1. task = "open" /\ task' = "stream" /\ session' = nextSession + 1
      <4>1. Head(commands) = commands[1] /\ 1 \in 1..Len(commands)
        BY <1>17, CallTypes DEF OpenBridge
      <4> QED
        BY <1>17, <2>1, <4>1, SessionTypes DEF OpenBridge, Answer, OwnCalls
    <3>2. got' = <<>> /\ writer' = NoPacket
      BY <1>17, <3>1 DEF OpenBridge
    <3> QED
      BY <3>1, <3>2
  <2>2. CASE ~(calling /\ Head(commands).call = call)
    BY <1>17, <2>2 DEF OpenBridge, Answer
  <2> QED
    BY <2>1, <2>2
<1>18. CASE CloseBridge
  BY <1>18 DEF CloseBridge, Answer, StopIo, CommandCurrent, Listening
<1>19. CASE RejectCommand
  BY <1>19 DEF RejectCommand, Answer, CommandCurrent, Listening
<1>20. CASE StartWrite
  BY <1>20 DEF StartWrite
<1>21. CASE FinishWrite
  BY <1>21 DEF FinishWrite
<1>22. CASE ReadPacket
  BY <1>22 DEF ReadPacket
<1>23. CASE SendPacket
  BY <1>23 DEF SendPacket
<1>24. CASE EndBridge
  BY <1>24 DEF EndBridge, StopIo
<1>25. CASE LoseDevice
  BY <1>25 DEF LoseDevice
<1>26. CASE Reattach
  BY <1>26 DEF Reattach
<1>27. CASE UNCHANGED vars
  BY <1>27 DEF vars
<1> QED
  BY <1>1, <1>2, <1>3, <1>4, <1>5, <1>6, <1>7, <1>8, <1>9, <1>10,
     <1>11, <1>12, <1>13, <1>14, <1>15, <1>16, <1>17, <1>18, <1>19, <1>20,
     <1>21, <1>22, <1>23, <1>24, <1>25, <1>26, <1>27
  DEF Next, ClientNext, TaskNext, ManagerNext, DeviceNext

-----------------------------------------------------------------------------
(* The frames on their way to the device.                                  *)

\* What the frames need of the types.
LEMMA FrameTypes ==
  ASSUME Typed
  PROVE  /\ written \in Seq(Frames)
         /\ \A i \in 1..Len(written) : written[i].n \in Nat \ {0} /\ written[i].client \in Nat
         /\ writing.n \in Nat /\ writing.client \in Nat /\ writing.session \in Nat
         /\ writing # NoFrame => writing.n # 0
         /\ client \in Nat /\ count \in Nat /\ sent \in Nat
<1>1. written \in Seq(Frames) /\ writing \in Frames \cup {NoFrame}
  BY DEF Typed, TypeOK
<1>2. \A f \in Frames : f.n \in Nat \ {0} /\ f.client \in Nat /\ f.session \in Nat
  BY Limits DEF Frames
<1>3. NoFrame.n \in Nat /\ NoFrame.client \in Nat /\ NoFrame.session \in Nat
  BY DEF NoFrame
<1>4. client \in Nat /\ count \in Nat /\ sent \in Nat
  BY Limits DEF Typed, TypeOK
<1> QED
  BY <1>1, <1>2, <1>3, <1>4

\* Nothing is written: nothing changes in what has been.
LEMMA NotWritten ==
  ASSUME Typed, WrittenInOrder, NoneToCome, UNCHANGED written,
         client' \in {client, client + 1}
  PROVE  /\ WrittenInOrder'
         /\ NoneToCome'
         /\ \A c \in Nat : WrittenSoFar(c)' = WrittenSoFar(c)
<1>1. WrittenInOrder' /\ \A c \in Nat : WrittenSoFar(c)' = WrittenSoFar(c)
  BY DEF WrittenSoFar, WrittenInOrder, WrittenBy
<1>2. NoneToCome'
  BY FrameTypes DEF NoneToCome
<1> QED
  BY <1>1, <1>2

\* A frame is written: its connection has one more, and no other changes.
LEMMA OneWritten ==
  ASSUME Typed, written' = Append(written, writing)
  PROVE  /\ Len(written') = Len(written) + 1
         /\ written'[Len(written) + 1] = writing
         /\ \A i \in 1..Len(written) : written'[i] = written[i]
         /\ \A c, k \in Nat : k <= Len(written) => WrittenBy(c, k)' = WrittenBy(c, k)
         /\ \A c \in Nat : WrittenSoFar(c)' =
              WrittenSoFar(c) \cup (IF c = writing.client THEN {writing.n} ELSE {})
<1> USE FrameTypes
<1>1. /\ Len(written') = Len(written) + 1
      /\ written'[Len(written) + 1] = writing
      /\ \A i \in 1..Len(written) : written'[i] = written[i]
  OBVIOUS
<1>2. ASSUME NEW c \in Nat, NEW k \in Nat, k <= Len(written)
      PROVE  WrittenBy(c, k)' = WrittenBy(c, k)
  <2>1. \A i \in 1..k : written'[i] = written[i]
    BY <1>1, <1>2
  <2> QED
    BY <2>1 DEF WrittenBy
<1>3. ASSUME NEW c \in Nat
      PROVE  WrittenSoFar(c)' =
               WrittenSoFar(c) \cup (IF c = writing.client THEN {writing.n} ELSE {})
  <2> DEFINE before == {j \in 1..Len(written) : written[j].client = c}
             after == {j \in 1..Len(written') : written'[j].client = c}
             last == Len(written) + 1
  <2>1. after = before \cup (IF c = writing.client THEN {last} ELSE {})
    BY <1>1
  <2>2. \A j \in before : written'[j].n = written[j].n
    BY <1>1
  <2>3. WrittenSoFar(c) = {written[i].n : i \in before}
    BY DEF WrittenSoFar, WrittenBy
  <2>4. WrittenSoFar(c)' = {written'[i].n : i \in after}
    BY DEF WrittenSoFar, WrittenBy
  <2>5. written'[last].n = writing.n
    BY <1>1
  <2> HIDE DEF before, after, last
  <2>6. {written'[i].n : i \in before} = {written[i].n : i \in before}
    BY <2>2
  <2>7. CASE c = writing.client
    <3>1. after = before \cup {last}
      BY <2>1, <2>7
    <3>2. {written'[i].n : i \in after} = {written'[i].n : i \in before} \cup {written'[last].n}
      BY <3>1
    <3> QED
      BY <2>3, <2>4, <2>5, <2>6, <2>7, <3>2
  <2>8. CASE c # writing.client
    <3>1. after = before
      BY <2>1, <2>8
    <3> QED
      BY <2>3, <2>4, <2>6, <2>8, <3>1
  <2> QED
    BY <2>7, <2>8
<1> QED
  BY <1>1, <1>2, <1>3

\* The frame that is written is the next one of its connection.
LEMMA NextWritten ==
  ASSUME Typed, WrittenInOrder, InHand, NoneToCome, writing # NoFrame, served,
         written' = Append(written, writing), client' = client
  PROVE  /\ WrittenInOrder'
         /\ NoneToCome'
         /\ \A c \in Nat : c # writing.client => WrittenSoFar(c)' = WrittenSoFar(c)
         /\ \A c \in Nat : c = writing.client => WrittenSoFar(c)' = 1..writing.n
<1> USE FrameTypes
<1> DEFINE who == writing.client
           n == writing.n
           last == Len(written) + 1
<1>1. who \in Nat /\ n \in Nat \ {0} /\ who <= client
  BY DEF InHand
<1>2. WrittenBy(who, Len(written)) = 1..n - 1
  BY DEF InHand, WrittenSoFar
<1>3. /\ Len(written') = last
      /\ written'[last] = writing
      /\ \A i \in 1..Len(written) : written'[i] = written[i]
      /\ \A c, k \in Nat : k <= Len(written) => WrittenBy(c, k)' = WrittenBy(c, k)
      /\ \A c \in Nat : WrittenSoFar(c)' =
           WrittenSoFar(c) \cup (IF c = writing.client THEN {writing.n} ELSE {})
  BY OneWritten
<1>4. WrittenInOrder'
  <2>1. ASSUME NEW i \in 1..last, NEW c \in Nat, c = written'[i].client
        PROVE  WrittenBy(c, i - 1)' = 1..written'[i].n - 1
    <3>1. CASE i = last
      <4>1. c = who /\ i - 1 = Len(written) /\ i - 1 \in Nat
        BY <1>3, <2>1, <3>1
      <4>2. WrittenBy(c, i - 1)' = WrittenBy(c, i - 1)
        BY <1>3, <2>1, <4>1
      <4> QED
        BY <1>2, <1>3, <3>1, <4>1, <4>2
    <3>2. CASE i # last
      <4>1. i \in 1..Len(written) /\ written'[i] = written[i] /\ i - 1 \in Nat
        BY <1>3, <3>2
      <4>2. WrittenBy(c, i - 1)' = WrittenBy(c, i - 1)
        BY <1>3, <2>1, <4>1
      <4>3. WrittenBy(c, i - 1) = 1..written[i].n - 1
        BY <2>1, <4>1 DEF WrittenInOrder
      <4> QED
        BY <4>1, <4>2, <4>3
    <3> QED
      BY <3>1, <3>2
  <2>2. \A i \in 1..last : written'[i].client \in Nat
    BY <1>1, <1>3
  <2> QED
    BY <1>3, <2>1, <2>2 DEF WrittenInOrder
<1>5. NoneToCome'
  <2> SUFFICES ASSUME NEW i \in 1..last
               PROVE  written'[i].client <= client
    BY <1>3 DEF NoneToCome
  <2> QED
    BY <1>1, <1>3 DEF NoneToCome
<1>6. ASSUME NEW c \in Nat, c = who
      PROVE  WrittenSoFar(c)' = 1..n
  <2>1. WrittenSoFar(c) = 1..n - 1
    BY <1>2, <1>6 DEF WrittenSoFar
  <2>2. WrittenSoFar(c)' = (1..n - 1) \cup {n}
    BY <1>3, <1>6, <2>1
  <2> QED
    BY <1>1, <2>2
<1>7. \A c \in Nat : c # who => WrittenSoFar(c)' = WrittenSoFar(c)
  BY <1>3
<1> QED
  BY <1>4, <1>5, <1>6, <1>7

\* The frame read last changes with what it is made of only.
LEMMA SameCurrent == UNCHANGED <<session, client, count>> => Current' = Current
BY DEF Current

\* Every step keeps the stream to the device in order: a frame is written once,
\* and the next one is read when it has been.
LEMMA ToDeviceStep ==
  ASSUME Typed, SessionsOK, ToDevice, [Next]_vars
  PROVE  ToDevice'
<1> USE FrameTypes, SessionTypes
       DEF ToDevice, ReaderKnows, Queued, InHand, AckIsHonest, DrainIsQuiet, SessionsOK
<1>1. CASE ClientSends
  BY <1>1, NotWritten, SameCurrent DEF ClientSends
<1>2. CASE ClientLeaves
  BY <1>2, NotWritten, SameCurrent DEF ClientLeaves
<1>3. CASE Accept
  <2>1. WrittenSoFar(client + 1) = {}
    <3>1. \A i \in 1..Len(written) : written[i].client # client + 1
      BY DEF NoneToCome
    <3> QED
      BY <3>1 DEF WrittenSoFar, WrittenBy
  <2>2. /\ client' = client + 1 /\ reader' = "read" /\ count' = 0
        /\ BRIDGE_TO_USB' = <<>> /\ BRIDGE_OUT_ACK' = 0
        /\ task' \in {"open", "flush"} /\ session = 0
        /\ UNCHANGED <<session, written, writing, served>>
    BY <1>3 DEF Accept
  <2>3. WrittenInOrder' /\ NoneToCome' /\ WrittenSoFar(client)' = {}
    BY <2>1, <2>2, NotWritten
  <2>4. 1..0 = {}
    OBVIOUS
  <2>5. ReaderKnows'
    BY <2>2, <2>3, <2>4
  <2>6. InHand'
    BY <2>2, NotWritten
  <2> QED
    BY <2>2, <2>3, <2>5, <2>6
<1>4. CASE Read
  <2>1. /\ task = "stream" /\ reader = "read" /\ reader' = "send" /\ count' = count + 1
        /\ UNCHANGED <<client, session, task, written, writing, served, peer,
                      BRIDGE_TO_USB, BRIDGE_OUT_ACK>>
    BY <1>4 DEF Read
  <2>2. BRIDGE_TO_USB = <<>>
    BY <2>1
  <2>3. WrittenSoFar(client) = 1..count' - 1
    BY <2>1
  <2>4. BRIDGE_OUT_ACK # session
    BY <2>1
  <2>5. /\ WrittenInOrder' /\ NoneToCome'
        /\ WrittenSoFar(client)' = WrittenSoFar(client)
    BY <2>1, NotWritten
  <2>6. InHand'
    BY <2>1, NotWritten
  <2> QED
    BY <2>1, <2>2, <2>3, <2>4, <2>5, <2>6
<1>5. CASE SendFrame
  <2>1. /\ task = "stream" /\ reader = "send" /\ reader' = "ack"
        /\ UNCHANGED <<client, count, session, task, written, writing, served, peer,
                      BRIDGE_OUT_ACK>>
    BY <1>5 DEF SendFrame
  <2>2. BRIDGE_TO_USB = <<>>
    BY <2>1
  <2>3. BRIDGE_TO_USB' = <<Current>> /\ Current' = Current
    BY <1>5, <2>1, <2>2 DEF SendFrame, Current
  <2>4. BRIDGE_OUT_ACK # session
    BY <2>1
  <2>5. /\ WrittenInOrder' /\ NoneToCome'
        /\ WrittenSoFar(client)' = WrittenSoFar(client)
        /\ WrittenSoFar(client) = 1..count - 1
    BY <2>1, NotWritten
  <2>6. InHand'
    BY <2>1, NotWritten
  <2> QED
    BY <2>1, <2>3, <2>4, <2>5, <2>6
<1>6. CASE AwaitAck
  BY <1>6, NotWritten, SameCurrent DEF AwaitAck
<1>7. CASE TakeFrame
  BY <1>7, NotWritten, SameCurrent DEF TakeFrame
<1>8. CASE WriteTcp
  BY <1>8, NotWritten, SameCurrent DEF WriteTcp
<1>9. CASE StreamEof
  BY <1>9, NotWritten, SameCurrent DEF StreamEof, OrderlyEof
<1>10. CASE StreamBroken
  BY <1>10, NotWritten, SameCurrent DEF StreamBroken, StartClose, Call
<1>11. CASE DrainEnds
  BY <1>11, NotWritten, SameCurrent DEF DrainEnds, StartClose, Call
<1>12. CASE StreamClosed
  BY <1>12, NotWritten, SameCurrent DEF StreamClosed, StartClose, Call
<1>13. CASE Discard
  BY <1>13, NotWritten, SameCurrent DEF Discard
<1>14. CASE CloseOvertaken
  BY <1>14, NotWritten, SameCurrent DEF CloseOvertaken
<1>15. CASE Expire
  BY <1>15, NotWritten, SameCurrent DEF Expire, MayExpire
<1>16. CASE Flush
  BY <1>16, NotWritten, SameCurrent DEF Flush
<1>17. CASE OpenBridge
  BY <1>17, NotWritten, SameCurrent DEF OpenBridge, Answer, SendInitial, CommandCurrent
<1>18. CASE CloseBridge
  BY <1>18, NotWritten, SameCurrent DEF CloseBridge, Answer, StopIo, CommandCurrent, Listening
<1>19. CASE RejectCommand
  <2>1. UNCHANGED <<client, count, peer, sent, reader, written, writing, served,
                    bridging, BRIDGE_TO_USB, BRIDGE_OUT_ACK>>
    BY <1>19 DEF RejectCommand
  <2>2. \/ UNCHANGED <<session, task>>
        \/ task # "stream" /\ session' = 0 /\ task' = "flush"
    BY <1>19 DEF RejectCommand, Answer
  <2> QED
    BY <2>1, <2>2, NotWritten, SameCurrent
<1>20. CASE StartWrite
  <2>1. /\ writing = NoFrame /\ BRIDGE_TO_USB # <<>> /\ BRIDGE_TO_USB = <<Current>>
        /\ UNCHANGED <<client, count, session, task, reader, written, served, peer,
                      bridging, BRIDGE_OUT_ACK>>
    BY <1>20 DEF StartWrite
  <2>2. BRIDGE_TO_USB' = <<>>
    BY <1>20, <2>1 DEF StartWrite
  <2>3. writing' \in {Current, NoFrame}
    <3>1. Head(BRIDGE_TO_USB) = Current
      BY <2>1
    <3> QED
      BY <1>20, <3>1 DEF StartWrite
  <2>4. BRIDGE_OUT_ACK # session
    BY <2>1
  <2>5. /\ WrittenInOrder' /\ NoneToCome'
        /\ WrittenSoFar(client)' = WrittenSoFar(client)
        /\ WrittenSoFar(client) = 1..count - 1
    BY <2>1, NotWritten
  <2>6. Current.client = client /\ Current.n = count
    BY DEF Current
  <2>7. InHand'
    BY <2>1, <2>2, <2>3, <2>5, <2>6, NotWritten
  <2> QED
    BY <2>1, <2>2, <2>4, <2>5, <2>7
<1>21. CASE FinishWrite
  BY <1>21, NextWritten, SameCurrent DEF FinishWrite
<1>22. CASE ReadPacket
  BY <1>22, NotWritten, SameCurrent DEF ReadPacket
<1>23. CASE SendPacket
  BY <1>23, NotWritten, SameCurrent DEF SendPacket
<1>24. CASE EndBridge
  BY <1>24, NotWritten, SameCurrent DEF EndBridge, StopIo
<1>25. CASE LoseDevice
  <2>1. CASE written' = written
    BY <1>25, <2>1, NotWritten, SameCurrent DEF LoseDevice
  <2>2. CASE written' = Append(written, writing) /\ writing # NoFrame
    BY <1>25, <2>2, NextWritten, SameCurrent DEF LoseDevice
  <2> QED
    BY <1>25, <2>1, <2>2 DEF LoseDevice
<1>26. CASE Reattach
  BY <1>26, NotWritten, SameCurrent DEF Reattach
<1>27. CASE UNCHANGED vars
  BY <1>27, NotWritten, SameCurrent DEF vars
<1> QED
  BY <1>1, <1>2, <1>3, <1>4, <1>5, <1>6, <1>7, <1>8, <1>9, <1>10,
     <1>11, <1>12, <1>13, <1>14, <1>15, <1>16, <1>17, <1>18, <1>19, <1>20,
     <1>21, <1>22, <1>23, <1>24, <1>25, <1>26, <1>27
  DEF Next, ClientNext, TaskNext, ManagerNext, DeviceNext

\* Nothing that the calls are about changes, but for a bridge that ends.
LEMMA KeepInTime ==
  ASSUME CallsInTime, NoOrphan, UNCHANGED <<commands, call, timely, session, bridging>>,
         served' => served, generation' = generation,
         task' = task \/ {task, task'} \cap {"open", "close"} = {}
  PROVE  CallsInTime' /\ NoOrphan'
<1>1. NoOrphan'
  BY DEF NoOrphan
<1>2. CASE ~timely
  <2>1. ~timely'
    BY <1>2
  <2> QED
    BY <1>1, <2>1 DEF CallsInTime
<1>3. CASE timely
  <2>1. CASE task' = task
    BY <1>1, <1>3, <2>1 DEF CallsInTime
  <2>2. CASE task' # task
    <3>1. task # "open" /\ task # "close" /\ task' # "open" /\ task' # "close"
      BY <2>2
    <3> QED
      BY <1>1, <1>3, <3>1 DEF CallsInTime
  <2> QED
    BY <2>1, <2>2
<1> QED
  BY <1>2, <1>3

\* The last call is the only one of its number.
LEMMA LastCall ==
  ASSUME Typed, OwnCalls, commands # <<>>
  PROVE  /\ Head(commands) = commands[1] /\ 1 \in 1..Len(commands)
         /\ Len(Tail(commands)) \in Nat
         /\ \A i \in 1..Len(Tail(commands)) :
              /\ i + 1 \in 1..Len(commands)
              /\ Tail(commands)[i] = commands[i + 1]
              /\ Head(commands).call # call
<1> USE CallTypes
<1>1. /\ Head(commands) = commands[1] /\ 1 \in 1..Len(commands)
      /\ Len(Tail(commands)) \in Nat
      /\ \A i \in 1..Len(Tail(commands)) :
           i + 1 \in 1..Len(commands) /\ Tail(commands)[i] = commands[i + 1]
  OBVIOUS
<1>2. ASSUME NEW i \in 1..Len(Tail(commands))
      PROVE  Head(commands).call # call
  <2>1. commands[1].call < commands[i + 1].call /\ commands[i + 1].call <= call
    BY <1>1 DEF OwnCalls
  <2> QED
    BY <1>1, <2>1
<1> QED
  BY <1>1, <1>2

\* The task calls, when there is no command to open.
LEMMA CallInTime ==
  ASSUME Typed, OwnCalls, CallsInTime, task \notin {"open", "close"},
         NEW operation \in {"open", "close"}, NEW s, Call(operation, s),
         operation = "close" => s = session,
         task' = IF served THEN operation ELSE "flush",
         session' = IF served THEN session ELSE 0,
         UNCHANGED <<bridging, generation, timely>>
  PROVE  CallsInTime'
<1> USE CallTypes
<1>1. call' = call + 1
  BY DEF Call
<1>2. timely => \A i \in 1..Len(commands) : commands[i].operation # "open"
  BY DEF CallsInTime
<1>3. CASE ~served
  <2>1. commands' = commands /\ task' = "flush"
    BY <1>3 DEF Call
  <2> QED
    BY <1>2, <2>1 DEF CallsInTime
<1>4. CASE served
  <2> DEFINE command == [operation |-> operation, session |-> s,
                         generation |-> generation, call |-> call + 1]
  <2>1. commands' = Append(commands, command) /\ task' = operation /\ session' = session
    BY <1>4 DEF Call
  <2>2. /\ command.call = call' /\ command.operation = operation
        /\ command.session = s /\ command.generation = generation
    BY <1>1
  <2> HIDE DEF command
  <2>3. /\ Len(commands') = Len(commands) + 1
        /\ commands'[Len(commands')] = command
        /\ \A i \in 1..Len(commands) : commands'[i] = commands[i]
    BY <2>1
  <2>4. \A i \in 1..Len(commands') : i \in 1..Len(commands) \/ i = Len(commands')
    BY <2>3
  <2>5. \A i \in 1..Len(commands) : commands'[i].call # call'
    BY <1>1, <2>3 DEF OwnCalls
  <2>6. ASSUME timely, NEW i \in 1..Len(commands')
        PROVE  /\ commands'[i].operation = "open" => commands'[i].call = call' /\ task' = "open"
               /\ commands'[i].call = call' /\ task' = "close" =>
                    /\ commands'[i].session = session'
                    /\ commands'[i].generation = generation
    <3>1. CASE i \in 1..Len(commands)
      BY <1>2, <2>3, <2>5, <2>6, <3>1
    <3>2. CASE i = Len(commands')
      BY <2>1, <2>2, <2>3, <3>2
    <3> QED
      BY <2>4, <3>1, <3>2
  <2>7. Len(commands') \in 1..Len(commands') /\ commands'[Len(commands')].call = call'
    BY <2>2, <2>3
  <2> QED
    BY <2>6, <2>7 DEF CallsInTime
<1> QED
  BY <1>3, <1>4

\* The manager answers the first command, and the bridge that runs then, if
\* any, is that of the task.
LEMMA AnswerInTime ==
  ASSUME Typed, OwnCalls, CallsInTime, commands # <<>>, commands' = Tail(commands),
         NEW s, Answer(Head(commands), s), UNCHANGED <<call, generation, timely>>,
         timely /\ task = "close" /\ bridging = 0 => bridging' = 0,
         bridging' \in {0, bridging} \/ Head(commands).operation = "open"
  PROVE  CallsInTime'
<1> USE LastCall, CallTypes
<1>1. CASE calling /\ Head(commands).call = call
  <2>1. \A i \in 1..Len(commands') : FALSE
    BY <1>1
  <2>2. task' \in {"stream", "flush"}
    BY <1>1 DEF Answer
  <2> QED
    BY <2>1, <2>2 DEF CallsInTime
<1>2. CASE ~(calling /\ Head(commands).call = call)
  <2>1. UNCHANGED <<calling, session, task>>
    BY <1>2 DEF Answer
  <2>2. CASE ~timely
    BY <2>2 DEF CallsInTime
  <2>3. CASE timely
    <3>1. task = "close" /\ bridging = 0 => bridging' = 0
      BY <2>3
    <3>2. Head(commands).operation # "open"
      BY <1>2, <2>3 DEF CallsInTime
    <3>3. bridging = 0 => bridging' = 0
      BY <3>2
    <3>4. \A i \in 1..Len(commands') :
            i + 1 \in 1..Len(commands) /\ commands'[i] = commands[i + 1]
      OBVIOUS
    <3>5. ASSUME task = "close", \A i \in 1..Len(commands') : commands'[i].call # call
          PROVE  \A i \in 1..Len(commands) : commands[i].call # call
      <4>1. commands[1].call # call
        BY <1>2, <3>5
      <4>2. \A i \in 1..Len(commands) : i = 1 \/ (i - 1 \in 1..Len(commands') /\ commands'[i - 1] = commands[i])
        OBVIOUS
      <4> QED
        BY <3>5, <4>1, <4>2
    <3>6. \A i \in 1..Len(commands') :
            /\ commands'[i].operation = "open" => commands'[i].call = call /\ task = "open"
            /\ commands'[i].call = call /\ task = "close" =>
                 /\ commands'[i].session = session
                 /\ commands'[i].generation # generation => bridging' = 0
      BY <2>3, <3>3, <3>4 DEF CallsInTime
    <3>7. task = "close" /\ (\A i \in 1..Len(commands') : commands'[i].call # call)
            => bridging' = 0
      BY <2>3, <3>3, <3>5 DEF CallsInTime
    <3> QED
      BY <2>1, <2>3, <3>6, <3>7 DEF CallsInTime
  <2> QED
    BY <2>2, <2>3
<1> QED
  BY <1>1, <1>2

\* Every step leaves the bridge with its owner.
LEMMA InTimeStep ==
  ASSUME Typed, SessionsOK, InTime, [Next]_vars
  PROVE  CallsInTime' /\ NoOrphan'
<1> USE DEF InTime
<1>1. CASE ClientSends
  BY <1>1, KeepInTime DEF ClientSends
<1>2. CASE ClientLeaves
  BY <1>2, KeepInTime DEF ClientLeaves
<1>3. CASE Accept
  <2>1. session' = 0 /\ session = 0
    BY <1>3 DEF Accept, SessionsOK
  <2>2. CallsInTime'
    BY <1>3, <2>1, CallInTime DEF Accept
  <2>3. NoOrphan'
    BY <1>3 DEF Accept, NoOrphan
  <2> QED
    BY <2>2, <2>3
<1>4. CASE Read
  BY <1>4, KeepInTime DEF Read
<1>5. CASE SendFrame
  BY <1>5, KeepInTime DEF SendFrame
<1>6. CASE AwaitAck
  BY <1>6, KeepInTime DEF AwaitAck
<1>7. CASE TakeFrame
  BY <1>7, KeepInTime DEF TakeFrame
<1>8. CASE WriteTcp
  BY <1>8, KeepInTime DEF WriteTcp
<1>9. CASE StreamEof
  BY <1>9, KeepInTime DEF StreamEof, OrderlyEof
<1>10. CASE StreamBroken
  <2>1. CallsInTime'
    BY <1>10, CallInTime DEF StreamBroken, StartClose
  <2>2. NoOrphan'
    BY <1>10 DEF StreamBroken, StartClose, NoOrphan
  <2> QED
    BY <2>1, <2>2
<1>11. CASE DrainEnds
  <2>1. CallsInTime'
    BY <1>11, CallInTime DEF DrainEnds, StartClose
  <2>2. NoOrphan'
    BY <1>11 DEF DrainEnds, StartClose, NoOrphan
  <2> QED
    BY <2>1, <2>2
<1>12. CASE StreamClosed
  <2>1. CASE BRIDGE_EVENT = session
    <3>1. StartClose /\ UNCHANGED <<bridging, generation, timely, served>>
      BY <1>12, <2>1 DEF StreamClosed
    <3>2. CallsInTime'
      BY <1>12, <3>1, CallInTime DEF StreamClosed, StartClose
    <3>3. NoOrphan'
      BY <3>1 DEF StartClose, NoOrphan
    <3> QED
      BY <3>2, <3>3
  <2>2. CASE BRIDGE_EVENT # session
    BY <1>12, <2>2, KeepInTime DEF StreamClosed
  <2> QED
    BY <2>1, <2>2
<1>13. CASE Discard
  BY <1>13, KeepInTime DEF Discard
<1>14. CASE CloseOvertaken
  <2>1. CASE BRIDGE_EVENT = session
    <3>1. /\ task' = "flush" /\ session' = 0 /\ session # 0
          /\ UNCHANGED <<commands, bridging, served, timely, call>>
      BY <1>14, <2>1 DEF CloseOvertaken
    <3>2. session # bridging
      BY <2>1, <3>1 DEF SessionsOK
    <3>3. NoOrphan'
      BY <3>1, <3>2 DEF NoOrphan
    <3>4. CallsInTime'
      BY <1>14, <3>1 DEF CloseOvertaken, CallsInTime
    <3> QED
      BY <3>3, <3>4
  <2>2. CASE BRIDGE_EVENT # session
    BY <1>14, <2>2, KeepInTime DEF CloseOvertaken
  <2> QED
    BY <2>1, <2>2
<1>15. CASE Expire
  <2>1. /\ task' = "flush" /\ session' = 0
        /\ UNCHANGED <<commands, bridging, served, timely, call>>
    BY <1>15 DEF Expire
  <2>2. timely => \A i \in 1..Len(commands) : commands[i].call # call
    BY <1>15 DEF Expire, MayExpire
  <2>3. CallsInTime'
    BY <2>1, <2>2 DEF CallsInTime
  <2>4. CASE task = "open"
    <3>1. session = 0
      BY <2>4 DEF SessionsOK
    <3> QED
      BY <2>1, <2>3, <3>1 DEF NoOrphan
  <2>5. CASE task = "close"
    <3>1. timely => bridging = 0
      BY <2>2, <2>5 DEF CallsInTime
    <3> QED
      BY <2>1, <2>3, <3>1 DEF NoOrphan
  <2> QED
    BY <1>15, <2>4, <2>5 DEF Expire
<1>16. CASE Flush
  BY <1>16, KeepInTime DEF Flush
<1>17. CASE OpenBridge
  <2>1. /\ commands # <<>> /\ commands' = Tail(commands) /\ Head(commands).operation = "open"
        /\ Answer(Head(commands), nextSession + 1) /\ bridging' = nextSession + 1
        /\ UNCHANGED <<call, generation, timely, served>>
    BY <1>17 DEF OpenBridge
  <2>2. timely => calling /\ Head(commands).call = call
    BY <2>1, LastCall, CallTypes DEF CallsInTime
  <2>3. NoOrphan'
    BY <2>1, <2>2 DEF NoOrphan, Answer
  <2>4. timely => task = "open"
    BY <2>1, LastCall DEF CallsInTime
  <2>5. CallsInTime'
    BY <2>1, <2>4, AnswerInTime
  <2> QED
    BY <2>3, <2>5
<1>18. CASE CloseBridge
  <2>1. /\ commands # <<>> /\ commands' = Tail(commands) /\ Answer(Head(commands), 0)
        /\ bridging' = 0 /\ UNCHANGED <<call, generation, timely>>
    BY <1>18 DEF CloseBridge, StopIo
  <2>2. CallsInTime'
    BY <2>1, AnswerInTime
  <2> QED
    BY <2>1, <2>2 DEF NoOrphan
<1>19. CASE RejectCommand
  <2>1. /\ commands # <<>> /\ commands' = Tail(commands) /\ Answer(Head(commands), 0)
        /\ UNCHANGED <<call, generation, timely, bridging, served>>
    BY <1>19 DEF RejectCommand
  <2>2. CallsInTime'
    BY <2>1, AnswerInTime
  <2>3. CASE calling /\ Head(commands).call = call
    <3> SUFFICES ASSUME timely, bridging # 0, served PROVE FALSE
      BY <2>1, <2>2 DEF NoOrphan
    <3>1. session = bridging
      BY DEF NoOrphan
    <3>2. task = "close" /\ Head(commands).operation = "close"
      <4>1. task = "close"
        BY <2>3, <3>1, CallTypes, SessionTypes DEF SessionsOK
      <4> QED
        BY <2>1, <2>3, <4>1, LastCall DEF OwnCalls
    <3>3. Head(commands).session = session /\ Head(commands).generation = generation
      BY <2>1, <2>3, <3>2, LastCall DEF CallsInTime
    <3> QED
      BY <1>19, <3>1, <3>2, <3>3 DEF RejectCommand, CommandCurrent
  <2>4. CASE ~(calling /\ Head(commands).call = call)
    <3>1. session' = session
      BY <2>1, <2>4 DEF Answer
    <3> QED
      BY <2>1, <2>2, <3>1 DEF NoOrphan
  <2> QED
    BY <2>3, <2>4
<1>20. CASE StartWrite
  BY <1>20, KeepInTime DEF StartWrite
<1>21. CASE FinishWrite
  BY <1>21, KeepInTime DEF FinishWrite
<1>22. CASE ReadPacket
  BY <1>22, KeepInTime DEF ReadPacket
<1>23. CASE SendPacket
  BY <1>23, KeepInTime DEF SendPacket
<1>24. CASE EndBridge
  <2>1. bridging' = 0 /\ UNCHANGED <<task, session, call, generation, timely>>
    BY <1>24 DEF EndBridge, StopIo
  <2>2. \A i \in 1..Len(commands') : \E j \in 1..Len(commands) : commands'[i] = commands[j]
    <3>1. CASE commands' = commands
      BY <3>1
    <3>2. CASE commands # <<>> /\ commands' = Tail(commands)
      BY <3>2, LastCall
    <3> QED
      BY <1>24, <3>1, <3>2 DEF EndBridge
  <2>3. CallsInTime'
    BY <2>1, <2>2 DEF CallsInTime
  <2> QED
    BY <2>1, <2>3 DEF NoOrphan
<1>25. CASE LoseDevice
  BY <1>25, KeepInTime DEF LoseDevice
<1>26. CASE Reattach
  BY <1>26 DEF Reattach, CallsInTime, NoOrphan
<1>27. CASE UNCHANGED vars
  BY <1>27, KeepInTime DEF vars
<1> QED
  BY <1>1, <1>2, <1>3, <1>4, <1>5, <1>6, <1>7, <1>8, <1>9, <1>10,
     <1>11, <1>12, <1>13, <1>14, <1>15, <1>16, <1>17, <1>18, <1>19, <1>20,
     <1>21, <1>22, <1>23, <1>24, <1>25, <1>26, <1>27
  DEF Next, ClientNext, TaskNext, ManagerNext, DeviceNext

-----------------------------------------------------------------------------
(* The inductive invariant, and what it implies.                           *)

Inv == Typed /\ SessionsOK /\ ToDevice /\ ToClient /\ InTime

\* The invariant holds when core 1 and the bridge task start.
LEMMA InitInv == Init => Inv
<1> SUFFICES ASSUME Init PROVE Inv
  OBVIOUS
<1>1. Typed /\ SessionsOK
  BY InitTyped, InitSessions
<1>2. WrittenSoFar(client) = {} /\ 1..0 = {}
  BY DEF Init, WrittenSoFar, WrittenBy
<1>3. ToDevice
  BY <1>2 DEF Init, ToDevice, WrittenInOrder, ReaderKnows, Queued, InHand,
              AckIsHonest, NoneToCome, DrainIsQuiet
<1>4. ToClient
  BY DEF Init, ToClient, Ascending, OwnPackets, Below, NoPacket
<1>5. InTime
  BY DEF Init, InTime, OwnCalls, CallsInTime, NoOrphan
<1> QED
  BY <1>1, <1>3, <1>4, <1>5 DEF Inv

\* Every step preserves it.
LEMMA StepInv == Inv /\ [Next]_vars => Inv'
BY TypedStep, SessionsStep, ToDeviceStep, AscendingStep, OwnPacketsStep, CallsStep,
   InTimeStep
   DEF Inv, ToClient, InTime

\* So it always holds.
LEMMA Invariant == Spec => []Inv
BY InitInv, StepInv, PTL DEF Spec

\* Variables keep their types for every capacity of the channels and every
\* bound on clients, frames, packets and detached devices: the channels never
\* hold more than BRIDGE_CHANNEL_CAPACITY.
THEOREM BridgeTypes == Spec => []TypeOK
<1>1. Inv => TypeOK
  BY DEF Inv, Typed
<1> QED
  BY <1>1, Invariant, PTL

\* What is written to the device of a connection is what its client has sent,
\* in order, with no gap and no repetition (tcp_to_bridge, bridge_write_frame).
THEOREM WritesInOrder == Spec => []WrittenInOrder
<1>1. Inv => WrittenInOrder
  BY DEF Inv, ToDevice
<1> QED
  BY <1>1, Invariant, PTL

\* After an orderly EOF nothing that the client sent is outstanding
\* (usb_serial_task 4225-4227).
THEOREM NothingUnwrittenAtEof == Spec => []EofIsWritten
<1>1. Inv => EofIsWritten
  BY DEF Inv, ToDevice, ReaderKnows, DrainIsQuiet, EofIsWritten, WrittenSoFar
<1> QED
  BY <1>1, Invariant, PTL

\* What a client receives comes from its own bridge, in the order of the device
\* (bridge_usb_in, bridge_to_tcp).
THEOREM ReceivesInOrder == Spec => []ReceivedInOrder
<1>1. Inv => ReceivedInOrder
  <2> SUFFICES ASSUME Inv, NEW i \in 1..Len(got)
               PROVE  /\ session # 0 => got[i].session = session
                      /\ i > 1 => got[i - 1].n < got[i].n
    BY DEF ReceivedInOrder
  <2>1. session # 0 => got[i].session = session
    BY DEF Inv, ToClient, OwnPackets
  <2>2. ASSUME i > 1
        PROVE  got[i - 1].n < got[i].n
    <3>1. i - 1 \in 1..Len(got) /\ i - 1 < i
      BY <2>2
    <3> QED
      BY <3>1 DEF Inv, ToClient, Ascending
  <2> QED
    BY <2>1, <2>2
<1> QED
  BY <1>1, Invariant, PTL

\* If calls are answered in time, a bridge that runs on a device that is served
\* is that of the session the task holds: none is left to block later clients.
THEOREM BridgeIsOwned == Spec => []NoOrphan
<1>1. Inv => NoOrphan
  BY DEF Inv, InTime
<1> QED
  BY <1>1, Invariant, PTL
===============================================================================
