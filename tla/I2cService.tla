------------------------------- MODULE I2cService -------------------------------
(***************************************************************************)
(* The I2C service (src/src/i2c.rs): callers hand a command to the task    *)
(* that owns the bus and wait for its reply.  The callers are the SCPI     *)
(* server, which uses the device registry, and the WebSocket clients of    *)
(* /i2c, which use the bus directly.                                       *)
(*                                                                         *)
(* I2C_CMD_LOCK lets one caller in at a time; it empties I2C_REPLIES,      *)
(* sends its command without a time-out and waits 5 s for a reply.  The    *)
(* replies carry no sequence number: the reply to a command that was given *)
(* up is taken for that of the next caller.  A bus transfer may take any   *)
(* time, since nothing in the service bounds it.                           *)
(*                                                                         *)
(* "age" is history, which the code does not keep: by how many calls a     *)
(* command or a reply is older than the call sent last.                    *)
(***************************************************************************)
EXTENDS DeviceRegistry, Sequences

CONSTANTS
  WebSockets,             \* the WebSocket clients of /i2c
  I2C_COMMAND_CAPACITY,   \* capacity of both channels
  AddInputs,              \* the [slot, kind, address] a client may ask to add
  SlotInputs,             \* the slots a client may name
  MeasureInputs,          \* the measurements a client may ask for
  RawAddresses,           \* the addresses a WebSocket client may name
  MaxI2cTimeouts          \* bound on the calls that are given up

ASSUME I2cAssumption ==
  /\ {I2C_COMMAND_CAPACITY, MaxI2cTimeouts} \subseteq Nat \ {0}
  /\ AddInputs \subseteq [slot : Nat, kind : DeviceKinds, address : Nat]
  /\ SlotInputs \subseteq Nat
  /\ MeasureInputs \subseteq DOMAIN MeasuredKinds
  /\ "scpi" \notin WebSockets /\ "nobody" \notin WebSockets

VARIABLES
  board,          \* the registry and the sensors
  i2cCall,        \* the call of each caller
  I2C_CMD_LOCK,   \* who holds it, or Nobody
  I2C_COMMANDS,
  I2C_REPLIES,
  i2cWorker,      \* run_i2c: "receive", or the command it is at
  i2cTimeouts,    \* number of calls given up
  i2cMisses       \* those of them whose replies have not been thrown away yet

i2cVars == <<board, i2cCall, I2C_CMD_LOCK, I2C_COMMANDS, I2C_REPLIES,
             i2cWorker, i2cTimeouts, i2cMisses>>

Nobody == "nobody"

I2cCallers == {"scpi"} \cup WebSockets

\* The commands of the SCPI handlers for the registry.
RegistryRequests ==
  [type : {"DeviceAdd"}, slot : {a.slot : a \in AddInputs}, add : AddInputs]
    \cup [type : {"DeviceGet", "DeviceRemove", "BatteryCapacityGet"}, slot : SlotInputs]
    \cup [type : {"DeviceList", "DeviceCount", "DeviceClear"}]

CapacityRequests ==
  [type : {"BatteryCapacitySet"}, slot : SlotInputs, capacity : CapacityInputs]

\* The commands of the SCPI handlers that measure.  MEASure:TEMPerature:EXTernal?
\* begins with a DeviceGet, see Continued.
MeasureRequests == [type : MeasureInputs \ {"MeasureExternalTemperature"},
                    slot : SlotInputs]

ExternalRequests == [type : {"DeviceGet"}, slot : SlotInputs, external : {TRUE}]

\* parse_command: what a WebSocket client may ask for.
RawRequests ==
  [type : {"Status", "Scan"}] \cup
  [type : {"Read", "Write", "WriteRead"}, address : RawAddresses \cap DeviceAddresses]

Requests(c) ==
  IF c = "scpi"
  THEN RegistryRequests \cup CapacityRequests \cup MeasureRequests \cup ExternalRequests
  ELSE RawRequests

(* execute_command: everything a command can do and answer.  The counters   *)
(* of transactions and errors, which Status reports, are left out.         *)

RawExecutions(b, command) ==
  CASE command.type \in {"Write", "WriteRead"} -> RawWrite(b, command.address)
    [] command.type = "Read" ->
         {Done(b, "Read", "none"), Done(b, "Error", "i2c_nack")}
    [] OTHER -> {Done(b, command.type, "none")}

RegistryExecutions(b, command) ==
  CASE command.type = "DeviceAdd" ->
         DeviceAdd(b, command.add.slot, command.add.kind, command.add.address)
    [] command.type = "DeviceGet" ->
         IF SlotError(b, command.slot) # "none"
         THEN {Failed(b, SlotError(b, command.slot))}
         ELSE {Done(b, "DeviceConfig", b.entries[command.slot].kind)}
    [] command.type = "DeviceRemove" -> DeviceRemove(b, command.slot)
    [] command.type = "DeviceClear" -> DeviceClear(b)
    [] OTHER -> {Done(b, command.type, "none")}

Executions(b, command) ==
  CASE command.type \in {"Status", "Scan", "Read", "Write", "WriteRead"} ->
         RawExecutions(b, command)
    [] command.type \in {"DeviceAdd", "DeviceGet", "DeviceList", "DeviceCount",
                         "DeviceRemove", "DeviceClear"} ->
         RegistryExecutions(b, command)
    [] command.type = "BatteryCapacitySet" ->
         BatteryCapacitySet(b, command.slot, command.capacity)
    [] command.type = "BatteryCapacityGet" -> BatteryCapacityGet(b, command.slot)
    [] OTHER -> Measure(b, command.type, command.slot)

\* The type of reply each of the callers' functions takes for an answer.
ExpectedReply(type) ==
  CASE type \in {"DeviceAdd", "DeviceGet"} -> "DeviceConfig"
    [] type = "DeviceRemove" -> "DeviceRemoved"
    [] type = "DeviceClear" -> "DeviceCleared"
    [] type \in {"BatteryCapacitySet", "BatteryCapacityGet"} -> "BatteryCapacity"
    [] OTHER -> MeasureReply(type)

I2cTimeout == [type |-> "Error", value |-> "i2c_timeout"]

\* device_add to measure_battery_soc: a reply of another type is a bus error;
\* a WebSocket client is sent whatever reply of the raw commands there is.
ResultOf(c, command, reply) ==
  IF c = "scpi"
  THEN IF reply.type = "DeviceError" THEN reply.value
       ELSE IF reply.type = ExpectedReply(command.type) THEN "ok" ELSE "Bus"
  ELSE IF reply.type \in {"Status", "Scan", "Read", "Write", "WriteRead"} THEN "ok"
       ELSE IF reply.type = "Error" THEN reply.value ELSE "internal_error"

NoRequestYet == [type |-> "none"]

Call(pc, command) == [pc |-> pc, command |-> command]
NoCall == Call("idle", NoRequestYet)

Worker(pc, age, command, reply) ==
  [pc |-> pc, age |-> age, command |-> command, reply |-> reply]
IdleWorker == Worker("receive", 0, NoRequestYet, I2cTimeout)

I2cInit ==
  /\ board = FreshBoard
  /\ i2cCall = [c \in I2cCallers |-> NoCall]
  /\ I2C_CMD_LOCK = Nobody
  /\ I2C_COMMANDS = <<>>
  /\ I2C_REPLIES = <<>>
  /\ i2cWorker = IdleWorker
  /\ i2cTimeouts = 0 /\ i2cMisses = 0

\* Mutant: the replies to calls given up are left there.
Undrained(replies) == replies

\* Emptying I2C_REPLIES.
Drained(replies) == <<>>

\* What is on its way when one more call is sent.
Older(queue) == [i \in DOMAIN queue |-> [queue[i] EXCEPT !.age = @ + 1]]

\* I2C_COMMANDS.send, with room in the channel.
Send(c, command, replies) ==
  /\ Len(I2C_COMMANDS) < I2C_COMMAND_CAPACITY
  /\ i2cCall' = [i2cCall EXCEPT ![c] = Call("receive", command)]
  /\ I2C_COMMANDS' = Append(Older(I2C_COMMANDS), [age |-> 0, command |-> command])
  /\ I2C_REPLIES' = Older(replies)
  /\ i2cWorker' = IF i2cWorker.pc = "receive" THEN i2cWorker
                  ELSE [i2cWorker EXCEPT !.age = @ + 1]

\* And without room: the caller waits for it, with the lock.
WaitToSend(c, command, replies) ==
  /\ Len(I2C_COMMANDS) = I2C_COMMAND_CAPACITY
  /\ i2cCall' = [i2cCall EXCEPT ![c] = Call("send", command)]
  /\ I2C_REPLIES' = replies
  /\ UNCHANGED <<I2C_COMMANDS, i2cWorker>>

\* A caller with a command takes the lock when it is free ("idle" stands for the
\* wait for it, too; "again" for that of the second half of a request).
\* send_command up to its first wait: the lock, the replies emptied, and the
\* command sent if there is room for it.  A reply that is there came too late for
\* its caller, and is one less that a later caller can take for its own.
SendCommand(c) ==
  /\ i2cCall[c].pc \in {"idle", "again"} /\ I2C_CMD_LOCK = Nobody
  /\ I2C_CMD_LOCK' = c
  /\ i2cMisses' = i2cMisses - Len(I2C_REPLIES)
  /\ \E command \in IF i2cCall[c].pc = "idle" THEN Requests(c) ELSE {i2cCall[c].command} :
       Send(c, command, Drained(I2C_REPLIES)) \/ WaitToSend(c, command, Drained(I2C_REPLIES))
  /\ UNCHANGED <<board, i2cTimeouts>>

\* The wait for room in I2C_COMMANDS, which nothing ends but room.
SendWaiting(c) ==
  /\ i2cCall[c].pc = "send"
  /\ Send(c, i2cCall[c].command, I2C_REPLIES)
  /\ UNCHANGED <<board, I2C_CMD_LOCK, i2cTimeouts, i2cMisses>>

\* measure_external_temperature asks for the kind first, then measures.
Continued(command, reply, result) ==
  IF "external" \in DOMAIN command /\ result = "ok"
  THEN Call("again",
            [type |-> IF reply.value = "BME688" THEN "MeasureEnvironment"
                      ELSE "MeasureExternalTemperature",
             slot |-> command.slot])
  ELSE NoCall

\* The select of send_command takes a reply that is there, whatever it answers.
ReceiveReply(c) ==
  /\ i2cCall[c].pc = "receive" /\ I2C_REPLIES # <<>>
  /\ LET command == i2cCall[c].command
         reply == Head(I2C_REPLIES).reply
     IN  i2cCall' = [i2cCall EXCEPT ![c] =
                       Continued(command, reply, ResultOf(c, command, reply))]
  /\ I2C_REPLIES' = Tail(I2C_REPLIES)
  /\ I2C_CMD_LOCK' = Nobody
  /\ UNCHANGED <<board, I2C_COMMANDS, i2cWorker, i2cTimeouts, i2cMisses>>

\* The 5 s are over and there is no reply.
GiveUp(c) ==
  /\ i2cCall[c].pc = "receive" /\ I2C_REPLIES = <<>>
  /\ i2cTimeouts < MaxI2cTimeouts
  /\ i2cTimeouts' = i2cTimeouts + 1
  /\ i2cMisses' = i2cMisses + 1
  /\ i2cCall' = [i2cCall EXCEPT ![c] =
       Continued(i2cCall[c].command, I2cTimeout, ResultOf(c, i2cCall[c].command, I2cTimeout))]
  /\ I2C_CMD_LOCK' = Nobody
  /\ UNCHANGED <<board, I2C_COMMANDS, I2C_REPLIES, i2cWorker>>

\* run_i2c takes a command from the channel.
TakeCommand ==
  /\ i2cWorker.pc = "receive" /\ I2C_COMMANDS # <<>>
  /\ i2cWorker' = Worker("execute", Head(I2C_COMMANDS).age, Head(I2C_COMMANDS).command,
                         I2cTimeout)
  /\ I2C_COMMANDS' = Tail(I2C_COMMANDS)
  /\ UNCHANGED <<board, i2cCall, I2C_CMD_LOCK, I2C_REPLIES, i2cTimeouts,
                 i2cMisses>>

\* execute_command comes to its end.
ExecuteCommand ==
  /\ i2cWorker.pc = "execute"
  /\ \E end \in Executions(board, i2cWorker.command) :
       /\ board' = end.board
       /\ i2cWorker' = Worker("reply", i2cWorker.age, NoRequestYet, end.reply)
  /\ UNCHANGED <<i2cCall, I2C_CMD_LOCK, I2C_COMMANDS, I2C_REPLIES, i2cTimeouts,
                 i2cMisses>>

\* Mutant: the reply is queued whether or not there is room.
SendReplyUnbounded ==
  /\ i2cWorker.pc = "reply"
  /\ I2C_REPLIES' = Append(I2C_REPLIES,
                           [age |-> i2cWorker.age, reply |-> i2cWorker.reply])
  /\ i2cWorker' = IdleWorker
  /\ UNCHANGED <<board, i2cCall, I2C_CMD_LOCK, I2C_COMMANDS, i2cTimeouts, i2cMisses>>

\* The reply is sent as soon as I2C_REPLIES has room.
SendReply ==
  /\ i2cWorker.pc = "reply" /\ Len(I2C_REPLIES) < I2C_COMMAND_CAPACITY
  /\ I2C_REPLIES' = Append(I2C_REPLIES,
                           [age |-> i2cWorker.age, reply |-> i2cWorker.reply])
  /\ i2cWorker' = IdleWorker
  /\ UNCHANGED <<board, i2cCall, I2C_CMD_LOCK, I2C_COMMANDS, i2cTimeouts, i2cMisses>>

I2cCallerNext ==
  \E c \in I2cCallers :
    SendCommand(c) \/ SendWaiting(c) \/ ReceiveReply(c) \/ GiveUp(c)

I2cWorkerNext == TakeCommand \/ ExecuteCommand \/ SendReply

I2cNext == I2cCallerNext \/ I2cWorkerNext

I2cSpec == I2cInit /\ [][I2cNext]_i2cVars

\* Every queue within its capacity, the lock with a caller that waits for its
\* answer, and the registry well formed.
I2cTypeOK ==
  /\ board \in Boards
  /\ DOMAIN i2cCall = I2cCallers
  /\ \A c \in I2cCallers :
       /\ i2cCall[c].pc \in {"idle", "again", "send", "receive"}
       /\ (I2C_CMD_LOCK = c) <=> i2cCall[c].pc \in {"send", "receive"}
  /\ Len(I2C_COMMANDS) <= I2C_COMMAND_CAPACITY
  /\ Len(I2C_REPLIES) <= I2C_COMMAND_CAPACITY
  /\ i2cWorker.pc \in {"receive", "execute", "reply"}
  /\ i2cTimeouts \in 0..MaxI2cTimeouts /\ i2cMisses \in 0..i2cTimeouts

\* The reply a caller is about to take answers its own call, or one that is older
\* by no more calls than have been given up and not yet had their replies thrown
\* away (i2c.rs 357): every call given up sets the callers that follow it back by one
\* reply, for as long as they come without a pause, and never by more.  And once
\* nothing is on its way, nobody is set back any longer.
I2cKeepsStep ==
  /\ \A c \in I2cCallers :
       i2cCall[c].pc = "receive" /\ I2C_REPLIES # <<>>
         => Head(I2C_REPLIES).age <= i2cMisses
  /\ I2C_COMMANDS = <<>> /\ I2C_REPLIES = <<>> /\ i2cWorker.pc = "receive"
       => i2cMisses = 0

\* A registered sensor has not been sent to sleep: whatever adds, removals and
\* clears do, in whatever order and wherever the bus fails them.
RegisteredIsAwake ==
  \A s \in DeviceSlots :
    board.entries[s].address \in DOMAIN Sensors
      => board.power[board.entries[s].address] # "asleep"

\* What is kept for a slot is of the device that is in it now: a calibration
\* for the BME688s alone, and a battery capacity that has been written to the
\* gauge, unless a later attempt to write one was broken off.
SettingsBelongToDevice ==
  \A s \in DeviceSlots :
    /\ board.calibration[s] <=> board.entries[s].kind = "BME688"
    /\ board.capacity[s] # NoCapacity =>
         /\ board.entries[s].kind = "LC709203F"
         /\ board.entries[s].address \in DOMAIN Sensors
         /\ board.profile[board.entries[s].address] \in {board.capacity[s], Torn}
================================================================================
