------------------------------- MODULE HostRpc -------------------------------
(***************************************************************************)
(* Commands from the network tasks on core 0 to the USB host manager on    *)
(* core 1: send_command, the HOST_COMMANDS and HOST_REPLIES channels, and  *)
(* the command loops of the manager (src/src/usb_host.rs).  A caller may   *)
(* give up while its command is still queued or being performed, and the   *)
(* device may go away at any moment; the sequence number has to keep the   *)
(* late replies away from the callers that follow.                         *)
(*                                                                         *)
(* Clients stand for the SCPI, HTTP and USBTMC tasks; Bridge for           *)
(* usb_serial_task, the only one that opens and closes the raw bridge and  *)
(* the only one whose call may be dropped before its timeout.              *)
(*                                                                         *)
(* The manager is that of the CDC-ACM and FTDI drivers, which have every   *)
(* kind of command; those of P8055, Wi-Spy, audio and USBTMC have fewer.   *)
(* manage_bleuio runs its bridge beside its scan, in a different way, and  *)
(* is not modelled here.                                                   *)
(*                                                                         *)
(* Definitions marked "Mutant" are what the next definition would be with  *)
(* a plausible mistake; the specification does not use them.               *)
(***************************************************************************)
EXTENDS DeviceSession, Sequences

CONSTANTS
  Clients,    \* tasks that send data commands
  Bridge,     \* usb_serial_task
  NoCaller,   \* HOST_COMMAND_LOCK is free
  Capacity,   \* COMMAND_CAPACITY, of both channels
  SeqMod,     \* 2^32, the range of the sequence number
  MaxCalls,   \* bound on the calls of a run
  MaxGeneration \* bound on the attach and detach events of a run

Callers == Clients \cup {Bridge}

\* The sequence numbers outnumber the calls that can be in flight with the
\* one being sent: see Window.
ASSUME RpcAssumption ==
  /\ Bridge \notin Clients
  /\ NoCaller \notin Callers
  /\ Capacity \in Nat \ {0}
  /\ SeqMod \in Nat
  /\ SeqMod > 2 * Capacity + 2
  /\ MaxCalls \in Nat
  /\ MaxGeneration \in Nat

VARIABLES
  lock,         \* the caller that holds HOST_COMMAND_LOCK
  pc,           \* where each caller is in send_command
  op,           \* the operation of each caller's call
  sequence,     \* HOST_COMMAND_SEQUENCE
  snapshot,     \* generation read by the lock holder
  commands,     \* HOST_COMMANDS
  replies,      \* HOST_REPLIES
  hand,         \* the command the manager has received
  stage,        \* how far it has got with it
  bridging,     \* session of the bridge the manager runs, 0 when it runs none
  nextSession,  \* next_bridge_session
  session,      \* session held by usb_serial_task, 0 when it holds none
  closed,       \* session in BRIDGE_EVENT, 0 when the signal is not set
  admitted,     \* history: sequence numbers given out so far
  performed,    \* history: calls the device was asked to perform
  rejected,     \* history: calls the manager rejected
  answer        \* history: the last answer of each caller

callerVars == <<lock, pc, op, sequence, snapshot>>
managerVars == <<hand, stage, bridging, nextSession>>
bridgeVars == <<session, closed>>
historyVars == <<admitted, performed, rejected, answer>>
vars == <<sessionVars, callerVars, commands, replies, managerVars,
          bridgeVars, historyVars>>

\* "data": an operation the served device performs; "other": one that passes
\* is_ready_in but belongs to another class; the bridge operations.
Operations == {"data", "other", "open", "close"}

CallerStates == {"idle", "lock", "check", "drain", "send", "wait"}
InCall == {"check", "drain", "send", "wait"}   \* holding the lock
Pending == {"drain", "send", "wait"}           \* a sequence number is taken

\* call is history: the number of the call, never looked at by the code.
Commands ==
  [sequence : 0..SeqMod - 1, generation : Nat, operation : Operations,
   session : Nat, call : Nat]

ReplyKinds == {"ok", "failed", "rejected"}
Replies ==
  [sequence : 0..SeqMod - 1, operation : Operations, kind : ReplyKinds,
   session : Nat, call : Nat]

NoCommand ==
  [sequence |-> 0, generation |-> 0, operation |-> "data", session |-> 0,
   call |-> 0]

-----------------------------------------------------------------------------
Init ==
  /\ SessionInit
  /\ lock = NoCaller
  /\ pc = [c \in Callers |-> "idle"]
  /\ op = [c \in Callers |-> "data"]
  /\ sequence = 0
  /\ snapshot = 0
  /\ commands = <<>>
  /\ replies = <<>>
  /\ hand = NoCommand
  /\ stage = "none"
  /\ bridging = 0
  /\ nextSession = 0
  /\ session = 0
  /\ closed = 0
  /\ admitted = 0
  /\ performed = {}
  /\ rejected = {}
  /\ answer = [c \in Callers |-> [call |-> 0, kind |-> "none"]]

-----------------------------------------------------------------------------
(* send_command on core 0.                                                 *)

\* The operations a task may ask for: the raw bridge is opened first and
\* closed once it has been opened.
MayCall(c, o) ==
  IF c = Bridge THEN o = IF session = 0 THEN "open" ELSE "close"
                ELSE o \in {"data", "other"}

\* BRIDGE_EVENT is reset before an open; before a close it has been consumed
\* if it is what ended the stream.
StartCall(c, o) ==
  /\ pc[c] = "idle"
  /\ admitted < MaxCalls
  /\ MayCall(c, o)
  /\ pc' = [pc EXCEPT ![c] = "lock"]
  /\ op' = [op EXCEPT ![c] = o]
  /\ closed' \in CASE o = "open"  -> {0}
                   [] o = "close" -> {closed} \cup
                                     (IF closed = session THEN {0} ELSE {})
                   [] OTHER       -> {closed}
  /\ UNCHANGED <<sessionVars, lock, sequence, snapshot, commands, replies,
                 managerVars, session, historyVars>>

\* Mutant: the mutex is not taken.
AcquireUnlocked(c) ==
  /\ pc[c] = "lock"
  /\ lock' = c
  /\ pc' = [pc EXCEPT ![c] = "check"]
  /\ UNCHANGED <<sessionVars, op, sequence, snapshot, commands, replies,
                 managerVars, bridgeVars, historyVars>>

Acquire(c) ==
  /\ pc[c] = "lock"
  /\ lock = NoCaller
  /\ lock' = c
  /\ pc' = [pc EXCEPT ![c] = "check"]
  /\ UNCHANGED <<sessionVars, op, sequence, snapshot, commands, replies,
                 managerVars, bridgeVars, historyVars>>

\* Leaving send_command drops the guard.
Return(c) ==
  /\ lock' = NoCaller
  /\ pc' = [pc EXCEPT ![c] = "idle"]

\* What usb_serial_task keeps of an answer: the session it has opened, until
\* the answer to its close, whatever that is.
SessionAfter(c, kind, opened) ==
  IF c # Bridge THEN session
  ELSE IF op[c] = "open" /\ kind = "ok" THEN opened
  ELSE 0

\* The two early returns: NotReady, and ResourceBusy while a bridge holds the
\* serial stream.
Admissible(c) == phase = "ready" /\ ~(bridge_connected /\ op[c] \in {"data", "other"})

Refuse(c) ==
  /\ pc[c] = "check"
  /\ ~Admissible(c)
  /\ Return(c)
  /\ session' = SessionAfter(c, "rejected", 0)
  /\ UNCHANGED <<sessionVars, op, sequence, snapshot, commands, replies,
                 managerVars, closed, historyVars>>

\* Mutant: a counter of too few bits.
NarrowAdd(n) == (n + 1) % 2

WrappingAdd(n) == (n + 1) % SeqMod

Admit(c) ==
  /\ pc[c] = "check"
  /\ Admissible(c)
  /\ snapshot' = generation
  /\ sequence' = WrappingAdd(sequence)
  /\ admitted' = admitted + 1
  /\ pc' = [pc EXCEPT ![c] = "drain"]
  /\ UNCHANGED <<sessionVars, lock, op, commands, replies, managerVars,
                 bridgeVars, performed, rejected, answer>>

\* Replies to calls that were given up are thrown away before the command is
\* sent, but more of them may still come.
Drain(c) ==
  /\ pc[c] = "drain"
  /\ replies' = <<>>
  /\ pc' = [pc EXCEPT ![c] = "send"]
  /\ UNCHANGED <<sessionVars, lock, op, sequence, snapshot, commands,
                 managerVars, bridgeVars, historyVars>>

\* Mutant: the command is stamped with the number before the increment.
SendPreviousSequence(c) ==
  /\ pc[c] = "send"
  /\ Len(commands) < Capacity
  /\ commands' = Append(commands,
       [sequence |-> (sequence + SeqMod - 1) % SeqMod, generation |-> snapshot,
        operation |-> op[c], session |-> session, call |-> admitted])
  /\ pc' = [pc EXCEPT ![c] = "wait"]
  /\ UNCHANGED <<sessionVars, lock, op, sequence, snapshot, replies,
                 managerVars, bridgeVars, historyVars>>

\* The send waits, without a timeout, for room in the channel.
Send(c) ==
  /\ pc[c] = "send"
  /\ Len(commands) < Capacity
  /\ commands' = Append(commands,
       [sequence |-> sequence, generation |-> snapshot, operation |-> op[c],
        session |-> session, call |-> admitted])
  /\ pc' = [pc EXCEPT ![c] = "wait"]
  /\ UNCHANGED <<sessionVars, lock, op, sequence, snapshot, replies,
                 managerVars, bridgeVars, historyVars>>

\* A reply with another sequence number is dropped.
DropReply(c) ==
  /\ pc[c] = "wait"
  /\ replies # <<>>
  /\ Head(replies).sequence # sequence
  /\ replies' = Tail(replies)
  /\ UNCHANGED <<sessionVars, callerVars, commands, managerVars, bridgeVars,
                 historyVars>>

\* Mutant: the first reply is taken for the answer.
TakeAnyReply(c) ==
  /\ pc[c] = "wait"
  /\ replies # <<>>
  /\ LET reply == Head(replies)
     IN  /\ answer' = [answer EXCEPT ![c] =
                         [call |-> reply.call, kind |-> reply.kind]]
         /\ session' = SessionAfter(c, reply.kind, reply.session)
  /\ replies' = Tail(replies)
  /\ Return(c)
  /\ UNCHANGED <<sessionVars, op, sequence, snapshot, commands, managerVars,
                 closed, admitted, performed, rejected>>

TakeReply(c) ==
  /\ pc[c] = "wait"
  /\ replies # <<>>
  /\ LET reply == Head(replies)
     IN  /\ reply.sequence = sequence
         /\ answer' = [answer EXCEPT ![c] =
                         [call |-> reply.call, kind |-> reply.kind]]
         /\ session' = SessionAfter(c, reply.kind, reply.session)
  /\ replies' = Tail(replies)
  /\ Return(c)
  /\ UNCHANGED <<sessionVars, op, sequence, snapshot, commands, managerVars,
                 closed, admitted, performed, rejected>>

\* Mutant: the reply is awaited without a timer.
ExpireNever(c) == FALSE

\* The reply timer.
Expire(c) ==
  /\ pc[c] = "wait"
  /\ answer' = [answer EXCEPT ![c] = [call |-> admitted, kind |-> "timeout"]]
  /\ session' = SessionAfter(c, "timeout", 0)
  /\ Return(c)
  /\ UNCHANGED <<sessionVars, op, sequence, snapshot, commands, replies,
                 managerVars, closed, admitted, performed, rejected>>

\* select3 in usb_serial_task drops bridge_close, wherever it has got to,
\* when BRIDGE_EVENT says that the session is already closed.
Abandon ==
  /\ pc[Bridge] # "idle"
  /\ op[Bridge] = "close"
  /\ closed = session
  /\ closed' = 0
  /\ session' = 0
  /\ pc' = [pc EXCEPT ![Bridge] = "idle"]
  /\ lock' = IF lock = Bridge THEN NoCaller ELSE lock
  /\ answer' = IF pc[Bridge] \in Pending
               THEN [answer EXCEPT ![Bridge] =
                       [call |-> admitted, kind |-> "timeout"]]
               ELSE answer
  /\ UNCHANGED <<sessionVars, op, sequence, snapshot, commands, replies,
                 managerVars, admitted, performed, rejected>>

-----------------------------------------------------------------------------
(* The manager on core 1.                                                  *)

\* Mutant: the phase alone decides.
CurrentPhase(command) == phase = "ready"

\* command_is_current
Current(command) == command.generation = generation /\ phase = "ready"

\* Mutant: the reply is sent whether there is room for it or not.
SendReplyUnbounded(command, kind, opened) ==
  replies' = Append(replies,
               [sequence |-> command.sequence,
                operation |-> command.operation, kind |-> kind,
                session |-> opened, call |-> command.call])

\* send_reply: a reply that finds HOST_REPLIES full is dropped.
SendReply(command, kind, opened) ==
  replies' = IF Len(replies) < Capacity
             THEN Append(replies,
                    [sequence |-> command.sequence,
                     operation |-> command.operation, kind |-> kind,
                     session |-> opened, call |-> command.call])
             ELSE replies

RejectCommand(command) ==
  /\ SendReply(command, "rejected", 0)
  /\ rejected' = rejected \cup {command.call}

\* The loops outside a class driver, wait_for_removal among them, answer
\* every command at once with NotReady.
RejectIdle ==
  /\ mgr = "idle"
  /\ commands # <<>>
  /\ commands' = Tail(commands)
  /\ RejectCommand(Head(commands))
  /\ UNCHANGED <<sessionVars, callerVars, managerVars, bridgeVars, admitted,
                 performed, answer>>

Receive ==
  /\ mgr = "serving"
  /\ stage = "none"
  /\ commands # <<>>
  /\ hand' = Head(commands)
  /\ commands' = Tail(commands)
  /\ stage' = "received"
  /\ UNCHANGED <<sessionVars, callerVars, replies, bridging, nextSession,
                 bridgeVars, historyVars>>

\* The manager is free for the next command.
Finish ==
  /\ hand' = NoCommand
  /\ stage' = "none"

\* What the command loop, or bridge_commands while a bridge runs, goes on
\* with if the command is current.
Serves(command) ==
  IF bridging = 0
  THEN command.operation \in {"data", "open"}
  ELSE command.operation = "close" /\ command.session = bridging

RejectReceived ==
  /\ stage = "received"
  /\ ~(Serves(hand) /\ Current(hand))
  /\ RejectCommand(hand)
  /\ Finish
  /\ UNCHANGED <<sessionVars, callerVars, commands, bridging, nextSession,
                 bridgeVars, admitted, performed, answer>>

\* A data command goes straight from the check to the transfer.
Transfer ==
  /\ stage = "received"
  /\ hand.operation = "data"
  /\ Serves(hand) /\ Current(hand)
  /\ stage' = "transfer"
  /\ performed' = performed \cup {hand.call}
  /\ UNCHANGED <<sessionVars, callerVars, commands, replies, hand, bridging,
                 nextSession, bridgeVars, admitted, rejected, answer>>

\* The transfer is over.  Its success counts only if the session is still
\* current; a pipe error fails the session, a deadline or a disconnect leaves
\* it as it is.
Complete ==
  /\ stage = "transfer"
  /\ \/ /\ SendReply(hand, IF OwnSession THEN "ok" ELSE "failed", 0)
        /\ UNCHANGED sessionVars
     \/ /\ SendReply(hand, "failed", 0)
        /\ UNCHANGED sessionVars
     \/ /\ SendReply(hand, "failed", 0)
        /\ FailSession
  /\ Finish
  /\ UNCHANGED <<callerVars, commands, bridging, nextSession, bridgeVars,
                 historyVars>>

\* The compare-and-set of bridge_connected comes after the check.
CheckBridgeCommand ==
  /\ stage = "received"
  /\ hand.operation \in {"open", "close"}
  /\ Serves(hand) /\ Current(hand)
  /\ stage' = "current"
  /\ UNCHANGED <<sessionVars, callerVars, commands, replies, hand, bridging,
                 nextSession, bridgeVars, historyVars>>

OpenBridge ==
  /\ stage = "current"
  /\ hand.operation = "open"
  /\ SetBridge(FALSE, TRUE)
  /\ nextSession' = nextSession + 1
  /\ bridging' = nextSession + 1
  /\ performed' = performed \cup {hand.call}
  /\ SendReply(hand, "ok", nextSession + 1)
  /\ Finish
  /\ UNCHANGED <<callerVars, commands, bridgeVars, admitted, rejected, answer>>

RefuseOpen ==
  /\ stage = "current"
  /\ hand.operation = "open"
  /\ ~OwnSession \/ bridge_connected
  /\ RejectCommand(hand)
  /\ Finish
  /\ UNCHANGED <<sessionVars, callerVars, commands, bridging, nextSession,
                 bridgeVars, admitted, performed, answer>>

\* The end of run_bridge after a close: the stream is released, the close is
\* answered, and the command loop goes on.
CloseBridge ==
  /\ stage = "current"
  /\ hand.operation = "close"
  /\ bridging' = 0
  /\ performed' = performed \cup {hand.call}
  /\ \/ /\ SetBridge(TRUE, FALSE)
        /\ SendReply(hand, "ok", 0)
     \/ /\ ~(OwnSession /\ bridge_connected)
        /\ UNCHANGED sessionVars
        /\ SendReply(hand, "failed", 0)
  /\ Finish
  /\ UNCHANGED <<callerVars, commands, nextSession, bridgeVars, admitted,
                 rejected, answer>>

\* Mutant: the bridge ends, its flag in HOST_STATE stays.
EndBridgeKeepsFlag ==
  /\ bridging # 0
  /\ stage \in {"none", "received"}
  /\ StopServing
  /\ UNCHANGED bridge_connected
  /\ bridging' = 0
  /\ closed' = bridging
  /\ Finish
  /\ UNCHANGED <<callerVars, commands, replies, nextSession, session,
                 historyVars>>

\* The end of run_bridge after a disconnect or a failed transfer.  A command
\* that bridge_commands has received but not yet dealt with is lost.
EndBridge ==
  /\ bridging # 0
  /\ stage \in {"none", "received"}
  /\ StopServing
  /\ bridge_connected' = (bridge_connected /\ ~OwnSession)
  /\ bridging' = 0
  /\ closed' = bridging
  /\ Finish
  /\ UNCHANGED <<callerVars, commands, replies, nextSession, session,
                 historyVars>>

-----------------------------------------------------------------------------
\* The device session goes on beside the commands; the application part of it
\* only while no command is in hand.
SessionStep ==
  /\ \/ (PortReset \/ PortClear) /\ generation < MaxGeneration
     \/ PortError
     \/ SetupNext
     \/ ReleaseSession
     \/ FailSession /\ stage \in {"none", "received"} /\ mgr' = "serving"
     \/ (FailSession \/ StopServing) /\ stage = "none" /\ bridging = 0
  /\ UNCHANGED <<callerVars, commands, replies, managerVars, bridgeVars,
                 historyVars>>

CallerNext(c) ==
  \/ \E o \in Operations : StartCall(c, o)
  \/ Acquire(c)
  \/ Refuse(c)
  \/ Admit(c)
  \/ Drain(c)
  \/ Send(c)
  \/ DropReply(c)
  \/ TakeReply(c)
  \/ Expire(c)

ManagerNext ==
  \/ RejectIdle
  \/ Receive
  \/ RejectReceived
  \/ Transfer
  \/ Complete
  \/ CheckBridgeCommand
  \/ OpenBridge
  \/ RefuseOpen
  \/ CloseBridge
  \/ EndBridge

Next ==
  \/ \E c \in Callers : CallerNext(c)
  \/ Abandon
  \/ ManagerNext
  \/ SessionStep

Spec == Init /\ [][Next]_vars

\* Every step of send_command that does not wait for the lock is taken, the
\* reply timer included, because the executor of core 0 polls every woken
\* task.  A manager that has a command in hand goes on, because every transfer
\* and every enumeration has a deadline.  A manager that comes back to its
\* command loops again and again receives, because their select polls
\* HOST_COMMANDS before any timer.  Nothing is assumed of devices and of TCP
\* clients.
Fairness ==
  /\ \A c \in Callers :
       WF_vars(Refuse(c) \/ Admit(c) \/ Drain(c) \/ Send(c) \/ DropReply(c)
               \/ TakeReply(c) \/ Expire(c))
  /\ SF_vars(RejectIdle \/ Receive)
  /\ WF_vars(RejectReceived \/ Transfer \/ Complete \/ CheckBridgeCommand
             \/ OpenBridge \/ RefuseOpen \/ CloseBridge)
  /\ WF_vars(SessionStep /\ mgr = "enumerating" /\ mgr' # "enumerating")

FairSpec == Spec /\ Fairness

-----------------------------------------------------------------------------
TypeOK ==
  /\ SessionTypeOK
  /\ lock \in Callers \cup {NoCaller}
  /\ pc \in [Callers -> CallerStates]
  /\ op \in [Callers -> Operations]
  /\ sequence \in 0..SeqMod - 1
  /\ snapshot \in Nat
  /\ commands \in Seq(Commands)
  /\ Len(commands) <= Capacity
  /\ replies \in Seq(Replies)
  /\ Len(replies) <= Capacity
  /\ hand \in Commands
  /\ stage \in {"none", "received", "current", "transfer"}
  /\ bridging \in Nat
  /\ nextSession \in Nat
  /\ session \in Nat
  /\ closed \in Nat
  /\ admitted \in Nat
  /\ performed \subseteq Nat
  /\ rejected \subseteq Nat
  /\ answer \in [Callers -> [call : Nat, kind : ReplyKinds \cup {"none", "timeout"}]]

\* Where the lock holder is.
HolderAt == IF lock = NoCaller THEN "idle" ELSE pc[lock]

\* Calls admitted after the last command that was sent: the holder's own until
\* it is sent, and a close that was dropped before it was sent.  Another close
\* takes an open in between, which is sent.
Unsent ==
  IF HolderAt = "wait" THEN 0
  ELSE (IF session = 0 THEN 1 ELSE 0)
       + (IF HolderAt \in {"drain", "send"} THEN 1 ELSE 0)

\* A command, or its reply, carries the sequence number of its call; only the
\* command of the holder's own call can be as young as that call.
Traced(message) ==
  /\ message.sequence = message.call % SeqMod
  /\ message.call <= admitted
  /\ HolderAt \in {"drain", "send"} => message.call < admitted
  /\ HolderAt = "wait" /\ message.call = admitted
       => message.operation = op[lock]

\* Sequence numbers (send_command 886, 896-907): of the calls that were given
\* up, only so many can still be answered, every second one at most having
\* been dropped unsent.  They are fewer than the sequence numbers, so that none
\* of them has the number of the call that is waited for.
Window ==
  /\ sequence = admitted % SeqMod
  /\ \A i \in 1..Len(commands) :
       /\ Traced(commands[i])
       /\ commands[i].call + Unsent + 2 * (Len(commands) - i) >= admitted
  /\ stage # "none" =>
       /\ Traced(hand)
       /\ hand.call + Unsent + 2 * Len(commands) >= admitted
  /\ \A i \in 1..Len(replies) :
       /\ Traced(replies[i])
       /\ HolderAt \in {"send", "wait"}
            => replies[i].call + 2 * Capacity + 2 >= admitted
  /\ pc[Bridge] # "idle" /\ op[Bridge] = "close" => session # 0

\* HOST_COMMAND_LOCK: at most one caller is between the check and its answer.
OneCaller == \A c \in Callers : pc[c] \in InCall <=> lock = c

\* Correlation of replies and calls (send_command, 900-907): whatever was
\* given up before, a reply with the sequence number the lock holder waits for
\* is the reply to the holder's own command.
RepliesMatchCalls ==
  \A c \in Callers : pc[c] \in {"send", "wait"} =>
    \A i \in 1..Len(replies) :
      replies[i].sequence = sequence =>
        /\ replies[i].call = admitted
        /\ replies[i].operation = op[c]

\* Generations (send_command, command_is_current): the device session that
\* performs a command is the one that was current when the call was admitted.
PerformedInOwnSession ==
  stage \in {"transfer", "current"} => hand.generation = own

\* The serial stream (send_command 881, run_bridge 1846): while HOST_STATE
\* says that a raw bridge holds the stream there is a bridge to hold it, so
\* that data commands are not refused for ever.
BridgeFlagIsHonest == bridge_connected => bridging # 0

\* Calls (send_command): the lock holder comes back, however the device, the
\* bridge and the other tasks behave.
HolderReturns == \A c \in Callers : lock = c ~> lock # c

\* The calls as their callers see them: Rpc.
Calls == INSTANCE Rpc WITH
  pending <- [c \in Callers |-> IF pc[c] \in Pending THEN admitted ELSE 0]
ImplementsRpc == Calls!Spec
=============================================================================
