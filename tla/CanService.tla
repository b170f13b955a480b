------------------------------- MODULE CanService -------------------------------
(***************************************************************************)
(* The CAN service (src/src/can.rs) and its WebSocket clients (/can, the   *)
(* loop in src/src/http.rs).                                               *)
(*                                                                         *)
(* Commands go the way of those of the I2C service: CAN_CMD_LOCK, replies  *)
(* emptied, a command sent, 2 s for the reply.  Frames from the bus go out *)
(* on CAN_EVENTS, a publish/subscribe channel (embassy-sync) that keeps a  *)
(* frame until every subscriber has taken it; publish_immediate drops the  *)
(* oldest frame when the channel is full.  A client does not take frames   *)
(* while it waits for a reply or for its socket.                           *)
(*                                                                         *)
(* Frames are numbered in the order the controller received them.  "age" is *)
(* history, as in I2cService: by how many calls a command or a reply is     *)
(* older than the call sent last.                                          *)
(***************************************************************************)
EXTENDS Integers, Sequences, FiniteSetsExt

CONSTANTS
  CanClients,          \* the WebSocket clients of /can
  CAN_EVENT_CAPACITY,  \* 16
  CAN_COMMAND_CAPACITY,\* 8, of commands and of replies
  BitrateInputs,       \* bit rates a client may ask for
  ModeInputs,          \* modes a client may ask for
  MaxFrames,           \* bound on the frames from the bus
  MaxCanTimeouts       \* bound on the calls that are given up

CanModes == {"normal", "listen-only", "loopback"}

ASSUME CanAssumption ==
  /\ {CAN_EVENT_CAPACITY, CAN_COMMAND_CAPACITY, MaxFrames} \subseteq Nat \ {0}
  /\ MaxCanTimeouts \in Nat
  /\ BitrateInputs \subseteq Nat \ {0} /\ ModeInputs \subseteq CanModes
  /\ "none" \notin CanClients

VARIABLES
  canStatus,      \* CAN_STATE, the task's copy included
  controller,     \* what the MCP25xx is set to, or Unset
  canCall,        \* where each client is
  CAN_CMD_LOCK,
  CAN_COMMANDS,
  CAN_REPLIES,
  canTask,        \* "commands", "receive", or "reply" with the reply
  CAN_EVENTS,     \* the frames kept, each with the clients that are to take it
  frames,         \* number of frames the controller has received
  seen,           \* the last frame each client has got, or that came before it
  canTimeouts,    \* number of calls given up
  canMisses       \* those of them whose replies have not been thrown away yet

canVars == <<canStatus, controller, canCall, CAN_CMD_LOCK, CAN_COMMANDS, CAN_REPLIES,
             canTask, CAN_EVENTS, frames, seen, canTimeouts, canMisses>>

\* can_cnf_for_bitrate
SupportedBitrates == {100000, 125000, 200000, 250000, 500000, 1000000}
CAN_DEFAULT_BITRATE == 500000
CanBusStates == {"stopped", "error", "active"}

Setting(bitrate, mode) == [bitrate |-> bitrate, mode |-> mode]
Unset == Setting(0, "unset")
Stopped == [ready |-> FALSE, state |-> "stopped",
            setting |-> Setting(CAN_DEFAULT_BITRATE, "normal")]

NoCan == "none"
NoCommand == [type |-> "none"]

\* handle_can_ws_text: the commands a client can send.
CanCommands ==
  [type : {"Status", "ConfigGet", "Tx", "TxInvalid"}]
    \cup [type : {"ConfigSet"},
          setting : {Setting(b, m) : b \in BitrateInputs, m \in ModeInputs}]

CanInit ==
  /\ canStatus = Stopped
  /\ controller = Unset
  /\ canCall = [c \in CanClients |-> "away"]
  /\ CAN_CMD_LOCK = NoCan
  /\ CAN_COMMANDS = <<>> /\ CAN_REPLIES = <<>>
  /\ canTask = [pc |-> "start", age |-> 0]
  /\ CAN_EVENTS = <<>>
  /\ frames = 0
  /\ seen = [c \in CanClients |-> 0]
  /\ canTimeouts = 0 /\ canMisses = 0

-----------------------------------------------------------------------------
(* The clients.                                                            *)

CanClientAt(c, pc) == canCall' = [canCall EXCEPT ![c] = pc]

Subscribed(c) == canCall[c] # "away"

\* CAN_EVENTS.subscriber(): the client gets the frames published from now on.
Subscribe(c) ==
  /\ ~Subscribed(c)
  /\ CanClientAt(c, "loop")
  /\ seen' = [seen EXCEPT ![c] = frames]
  /\ UNCHANGED <<canStatus, controller, CAN_CMD_LOCK, CAN_COMMANDS, CAN_REPLIES,
                 canTask, CAN_EVENTS, frames, canTimeouts, canMisses>>

\* The frames that are left when somebody has taken some: those at the front
\* that nobody is to take any more are dropped.
Kept(events) ==
  LET wanted == {i \in DOMAIN events : events[i].to # {}}
  IN  IF wanted = {} THEN <<>> ELSE SubSeq(events, Min(wanted), Len(events))

\* The subscriber is dropped with the connection, which ends between two frames
\* or while a reply is written.
Unsubscribe(c) ==
  /\ canCall[c] = "loop"
  /\ CanClientAt(c, "away")
  /\ CAN_EVENTS' = Kept([i \in DOMAIN CAN_EVENTS |->
                           [CAN_EVENTS[i] EXCEPT !.to = @ \ {c}]])
  /\ UNCHANGED <<canStatus, controller, CAN_CMD_LOCK, CAN_COMMANDS, CAN_REPLIES,
                 canTask, frames, seen, canTimeouts, canMisses>>

\* next_message_pure: the oldest frame there is for the client.
TakeEvent(c) ==
  /\ canCall[c] = "loop"
  /\ LET mine == {i \in DOMAIN CAN_EVENTS : c \in CAN_EVENTS[i].to}
     IN  /\ mine # {}
         /\ seen' = [seen EXCEPT ![c] = CAN_EVENTS[Min(mine)].frame]
         /\ CAN_EVENTS' = Kept([CAN_EVENTS EXCEPT ![Min(mine)].to = @ \ {c}])
  /\ UNCHANGED <<canStatus, controller, canCall, CAN_CMD_LOCK, CAN_COMMANDS,
                 CAN_REPLIES, canTask, frames, canTimeouts, canMisses>>

\* What is on its way when one more call is sent.
CanOlder(queue) == [i \in DOMAIN queue |-> [queue[i] EXCEPT !.age = @ + 1]]

\* A text frame with a command, and send_can_command up to its first wait: the
\* replies that came too late for their clients are thrown away.  Eight
\* commands never wait: only the holder of the lock sends, and it waits 2 s.
SendCanCommand(c) ==
  /\ canCall[c] = "loop" /\ CAN_CMD_LOCK = NoCan
  /\ Len(CAN_COMMANDS) < CAN_COMMAND_CAPACITY
  /\ CAN_CMD_LOCK' = c
  /\ CAN_REPLIES' = <<>>
  /\ canMisses' = canMisses - Len(CAN_REPLIES)
  /\ \E command \in CanCommands :
       CAN_COMMANDS' = Append(CanOlder(CAN_COMMANDS), [age |-> 0, command |-> command])
  /\ canTask' = IF canTask.pc = "reply" THEN [canTask EXCEPT !.age = @ + 1] ELSE canTask
  /\ CanClientAt(c, "receive")
  /\ UNCHANGED <<canStatus, controller, CAN_EVENTS, frames, seen, canTimeouts>>

\* The reply is passed on to the client, whatever command it is for.
ReceiveCanReply(c) ==
  /\ canCall[c] = "receive" /\ CAN_REPLIES # <<>>
  /\ CanClientAt(c, "loop")
  /\ CAN_REPLIES' = Tail(CAN_REPLIES)
  /\ CAN_CMD_LOCK' = NoCan
  /\ UNCHANGED <<canStatus, controller, CAN_COMMANDS, canTask, CAN_EVENTS, frames, seen,
                 canTimeouts, canMisses>>

\* The 2 s are over: the executor had no time for the task meanwhile.
GiveUpCan(c) ==
  /\ canCall[c] = "receive" /\ CAN_REPLIES = <<>>
  /\ canTimeouts < MaxCanTimeouts
  /\ canTimeouts' = canTimeouts + 1
  /\ canMisses' = canMisses + 1
  /\ CanClientAt(c, "loop")
  /\ CAN_CMD_LOCK' = NoCan
  /\ UNCHANGED <<canStatus, controller, CAN_COMMANDS, CAN_REPLIES, canTask, CAN_EVENTS,
                 frames, seen>>

-----------------------------------------------------------------------------
(* can_task.                                                               *)

\* A configuration that fails leaves the controller anywhere in between.
Fail == canStatus' = [canStatus EXCEPT !.ready = FALSE, !.state = "error"]

\* apply_can_config for the first time.
StartCan ==
  /\ canTask.pc = "start"
  /\ \/ /\ controller' = Setting(CAN_DEFAULT_BITRATE, "normal")
        /\ canStatus' = [canStatus EXCEPT !.ready = TRUE, !.state = "active"]
     \/ controller' = Unset /\ Fail
  /\ canTask' = [canTask EXCEPT !.pc = "commands"]
  /\ UNCHANGED <<canCall, CAN_CMD_LOCK, CAN_COMMANDS, CAN_REPLIES, CAN_EVENTS, frames,
                 seen, canTimeouts, canMisses>>

\* The ConfigSet arm of handle_can_command.
ConfigSet(setting) ==
  \/ /\ setting.bitrate \notin SupportedBitrates
     /\ UNCHANGED <<canStatus, controller>>
  \/ /\ setting.bitrate \in SupportedBitrates
     /\ \/ /\ controller' = setting
           /\ canStatus' = [ready |-> TRUE, state |-> "active", setting |-> setting]
        \/ controller' = Unset /\ Fail

\* The Tx arm: not ready, an invalid frame or no free buffer change nothing.
Transmit(valid) ==
  /\ \/ UNCHANGED canStatus
     \/ canStatus.ready /\ valid /\ Fail
  /\ UNCHANGED controller

\* One turn of the inner loop, up to the reply.
HandleCanCommand ==
  /\ canTask.pc = "commands" /\ CAN_COMMANDS # <<>>
  /\ LET command == Head(CAN_COMMANDS).command
     IN  \/ command.type \in {"Status", "ConfigGet"} /\ UNCHANGED <<canStatus, controller>>
         \/ command.type = "ConfigSet" /\ ConfigSet(command.setting)
         \/ command.type \in {"Tx", "TxInvalid"} /\ Transmit(command.type = "Tx")
  /\ canTask' = [pc |-> "reply", age |-> Head(CAN_COMMANDS).age]
  /\ CAN_COMMANDS' = Tail(CAN_COMMANDS)
  /\ UNCHANGED <<canCall, CAN_CMD_LOCK, CAN_REPLIES, CAN_EVENTS, frames,
                 seen, canTimeouts, canMisses>>

SendCanReply ==
  /\ canTask.pc = "reply" /\ Len(CAN_REPLIES) < CAN_COMMAND_CAPACITY
  /\ CAN_REPLIES' = Append(CAN_REPLIES, [age |-> canTask.age])
  /\ canTask' = [pc |-> "commands", age |-> 0]
  /\ UNCHANGED <<canStatus, controller, canCall, CAN_CMD_LOCK, CAN_COMMANDS, CAN_EVENTS,
                 frames, seen, canTimeouts, canMisses>>

Subscribers == {c \in CanClients : Subscribed(c)}

\* Mutant: a full channel refuses the new frame (try_publish).
TryPublish(events, frame) ==
  IF Subscribers = {} \/ Len(events) = CAN_EVENT_CAPACITY THEN events
  ELSE Append(events, [frame |-> frame, to |-> Subscribers])

\* publish_immediate: a full channel loses its oldest frame, and without a
\* subscriber nothing is kept.
Publish(events, frame) ==
  IF Subscribers = {} THEN events
  ELSE Append(IF Len(events) = CAN_EVENT_CAPACITY THEN Tail(events) ELSE events,
              [frame |-> frame, to |-> Subscribers])

\* The look at the controller once the commands are done.
ReceiveFrame ==
  /\ canTask.pc = "commands" /\ CAN_COMMANDS = <<>> /\ canStatus.ready
  /\ \/ /\ frames < MaxFrames
        /\ frames' = frames + 1
        /\ CAN_EVENTS' = Publish(CAN_EVENTS, frames')
        /\ UNCHANGED canStatus
     \/ Fail /\ UNCHANGED <<frames, CAN_EVENTS>>
  /\ UNCHANGED <<controller, canCall, CAN_CMD_LOCK, CAN_COMMANDS, CAN_REPLIES, canTask,
                 seen, canTimeouts, canMisses>>

-----------------------------------------------------------------------------
CanClientNext ==
  \E c \in CanClients :
    \/ Subscribe(c) \/ Unsubscribe(c) \/ TakeEvent(c)
    \/ SendCanCommand(c) \/ ReceiveCanReply(c) \/ GiveUpCan(c)

CanTaskNext == StartCan \/ HandleCanCommand \/ SendCanReply \/ ReceiveFrame

CanNext == CanClientNext \/ CanTaskNext

CanSpec == CanInit /\ [][CanNext]_canVars

-----------------------------------------------------------------------------
CanTypeOK ==
  /\ canStatus \in [ready : BOOLEAN, state : CanBusStates,
                    setting : [bitrate : SupportedBitrates, mode : CanModes]]
  /\ controller.bitrate \in SupportedBitrates \cup {0}
  /\ \A c \in CanClients :
       /\ canCall[c] \in {"away", "loop", "receive"}
       /\ (CAN_CMD_LOCK = c) <=> canCall[c] = "receive"
       /\ seen[c] \in 0..frames
  /\ Len(CAN_COMMANDS) <= CAN_COMMAND_CAPACITY
  /\ Len(CAN_REPLIES) <= CAN_COMMAND_CAPACITY
  /\ Len(CAN_EVENTS) <= CAN_EVENT_CAPACITY
  /\ frames \in 0..MaxFrames /\ canTimeouts \in 0..MaxCanTimeouts
  /\ canMisses \in 0..canTimeouts

\* The reply a client is about to take answers its own command, or one that is
\* older by no more calls than have been given up and not yet had their replies
\* thrown away (can.rs 255); and once nothing is on its way, nobody is set back.
CanKeepsStep ==
  /\ \A c \in CanClients :
       canCall[c] = "receive" /\ CAN_REPLIES # <<>> => Head(CAN_REPLIES).age <= canMisses
  /\ CAN_COMMANDS = <<>> /\ CAN_REPLIES = <<>> /\ canTask.pc # "reply" => canMisses = 0

\* A client gets every frame since it subscribed, in order, as long as it is at
\* most a full channel behind: a client that does not take its frames costs the
\* others none (can.rs 355).  The frames that wait for it are those it is due,
\* the oldest first.
FramesReachClients ==
  /\ \A i, j \in 1..Len(CAN_EVENTS) : i < j => CAN_EVENTS[i].frame < CAN_EVENTS[j].frame
  /\ \A c \in CanClients : Subscribed(c) =>
       {CAN_EVENTS[i].frame : i \in {j \in 1..Len(CAN_EVENTS) : c \in CAN_EVENTS[j].to}}
         = {f \in 1..frames : f > seen[c] /\ f > frames - CAN_EVENT_CAPACITY}
================================================================================
