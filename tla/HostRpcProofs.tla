---------------------------- MODULE HostRpcProofs ----------------------------
(***************************************************************************)
(* What HostRpc keeps true for any number of callers, any channel capacity *)
(* and any range of the sequence number.                                   *)
(***************************************************************************)
EXTENDS HostRpc, ModularArithmetic

-----------------------------------------------------------------------------
(* The device session.                                                     *)

\* The device session keeps its type, whatever step it takes.
LEMMA SessionTyped ==
  ASSUME SessionTypeOK, [SessionNext]_sessionVars
  PROVE  SessionTypeOK'
<1> USE DEF SessionTypeOK, Phases, MgrStates
<1>1. CASE PortReset
  <2>1. generation' \in Nat BY <1>1, SMT DEF PortReset
  <2> QED BY <1>1, <2>1 DEF PortReset
<1>2. CASE PortClear
  <2>1. generation' \in Nat BY <1>2, SMT DEF PortClear, ClearDevice
  <2> QED BY <1>2, <2>1 DEF PortClear, ClearDevice
<1>3. CASE PortError BY <1>3 DEF PortError
<1>4. CASE Begin BY <1>4 DEF Begin
<1>5. CASE Publish BY <1>5 DEF Publish
<1>6. CASE AbortSetup BY <1>6 DEF AbortSetup
<1>7. CASE ResumeSetup BY <1>7 DEF ResumeSetup
<1>8. CASE FailSession BY <1>8 DEF FailSession, OwnSession
<1>9. CASE StopServing BY <1>9 DEF StopServing, OwnSession
<1>10. CASE ReleaseSession
  <2>1. generation' \in Nat BY <1>10, SMT DEF ReleaseSession, ClearDevice
  <2> QED BY <1>10, <2>1 DEF ReleaseSession, ClearDevice
<1>11. CASE \E connected \in BOOLEAN : SetBridge(~connected, connected)
  BY <1>11 DEF SetBridge, OwnSession
<1>12. CASE UNCHANGED sessionVars BY <1>12 DEF sessionVars
<1> QED
  BY <1>1, <1>2, <1>3, <1>4, <1>5, <1>6, <1>7, <1>8, <1>9, <1>10, <1>11, <1>12
  DEF SessionNext, PortNext, SetupNext

\* The initial state is well typed.
LEMMA InitTyped == Init => TypeOK
<1> SUFFICES ASSUME Init PROVE TypeOK
  OBVIOUS
<1> USE DEF Init
<1>1. SessionTypeOK BY DEF SessionInit, SessionTypeOK, Phases, MgrStates
<1>2. /\ lock \in Callers \cup {NoCaller}
      /\ pc \in [Callers -> CallerStates]
      /\ op \in [Callers -> Operations]
      /\ answer \in [Callers -> [call : Nat, kind : ReplyKinds \cup {"none", "timeout"}]]
  BY DEF CallerStates, Operations
<1>3. sequence \in 0..SeqMod - 1
  BY RpcAssumption
<1>4. /\ commands \in Seq(Commands) /\ Len(commands) <= Capacity
      /\ replies \in Seq(Replies) /\ Len(replies) <= Capacity
  BY RpcAssumption
<1>5. hand \in Commands
  BY RpcAssumption DEF NoCommand, Commands, Operations
<1> QED BY <1>1, <1>2, <1>3, <1>4, <1>5 DEF TypeOK

\* A step of send_command keeps the types.
LEMMA CallerTyped ==
  ASSUME TypeOK, NEW c \in Callers, CallerNext(c)
  PROVE  TypeOK'
<1> USE DEF TypeOK
<1>0. sessionVars' = sessionVars => SessionTypeOK'
  BY DEF SessionTypeOK, sessionVars
<1>1. CASE \E o \in Operations : StartCall(c, o)
  BY <1>0, <1>1 DEF StartCall, CallerStates, managerVars, historyVars
<1>2. CASE Acquire(c)
  BY <1>0, <1>2 DEF Acquire, CallerStates, managerVars, bridgeVars, historyVars
<1>3. CASE Refuse(c)
  BY <1>0, <1>3
  DEF Refuse, Return, SessionAfter, CallerStates, managerVars, historyVars
<1>4. CASE Admit(c)
  <2>1. sequence' \in 0..SeqMod - 1
    BY <1>4, RpcAssumption, Div, SMT DEF Admit, WrappingAdd
  <2>2. snapshot' \in Nat /\ admitted' \in Nat
    BY <1>4, SMT DEF Admit, SessionTypeOK
  <2> QED
    BY <1>0, <1>4, <2>1, <2>2
    DEF Admit, CallerStates, managerVars, bridgeVars
<1>5. CASE Drain(c)
  BY <1>0, <1>5, RpcAssumption
  DEF Drain, CallerStates, managerVars, bridgeVars, historyVars
<1>6. CASE Send(c)
  <2>1. [sequence |-> sequence, generation |-> snapshot, operation |-> op[c],
         session |-> session, call |-> admitted] \in Commands
    BY DEF Commands
  <2>2. commands' \in Seq(Commands) /\ Len(commands') <= Capacity
    BY <1>6, <2>1, RpcAssumption DEF Send
  <2>3. pc' \in [Callers -> CallerStates]
    BY <1>6 DEF Send, CallerStates
  <2> QED
    BY <1>0, <1>6, <2>2, <2>3 DEF Send, managerVars, bridgeVars, historyVars
<1>7. CASE DropReply(c)
  BY <1>0, <1>7, RpcAssumption
  DEF DropReply, CallerStates, callerVars, managerVars, bridgeVars, historyVars
<1>8. CASE TakeReply(c)
  <2>1. /\ Head(replies) \in Replies
        /\ Tail(replies) \in Seq(Replies)
        /\ Len(Tail(replies)) <= Capacity
    BY <1>8, RpcAssumption, SMT DEF TakeReply
  <2>2. session' \in Nat
    BY <1>8, <2>1, SMT DEF TakeReply, SessionAfter, Replies
  <2>3. answer' \in [Callers -> [call : Nat, kind : ReplyKinds \cup {"none", "timeout"}]]
    BY <1>8, <2>1, SMT DEF TakeReply, Replies
  <2> QED
    BY <1>0, <1>8, <2>1, <2>2, <2>3
    DEF TakeReply, Return, CallerStates, managerVars
<1>9. CASE Expire(c)
  BY <1>0, <1>9
  DEF Expire, SessionAfter, Return, CallerStates, managerVars
<1> QED
  BY <1>1, <1>2, <1>3, <1>4, <1>5, <1>6, <1>7, <1>8, <1>9 DEF CallerNext

\* Dropping bridge_close keeps the types.
LEMMA AbandonTyped ==
  ASSUME TypeOK, Abandon
  PROVE  TypeOK'
<1>1. SessionTypeOK'
  BY DEF TypeOK, Abandon, SessionTypeOK, sessionVars
<1>2. Bridge \in Callers
  BY DEF Callers
<1>3. pc' \in [Callers -> CallerStates] /\ lock' \in Callers \cup {NoCaller}
  BY DEF TypeOK, Abandon, CallerStates
<1>4. answer' \in [Callers -> [call : Nat, kind : ReplyKinds \cup {"none", "timeout"}]]
  BY <1>2, SMT DEF TypeOK, Abandon
<1> QED
  BY <1>1, <1>3, <1>4 DEF TypeOK, Abandon, managerVars

\* send_reply keeps the bound of HOST_REPLIES.
LEMMA ReplySent ==
  ASSUME TypeOK, NEW command \in Commands, NEW kind \in ReplyKinds,
         NEW opened \in Nat, SendReply(command, kind, opened)
  PROVE  replies' \in Seq(Replies) /\ Len(replies') <= Capacity
<1> DEFINE r == [sequence |-> command.sequence,
                 operation |-> command.operation, kind |-> kind,
                 session |-> opened, call |-> command.call]
<1>1. r \in Replies
  BY DEF Commands, Replies
<1> HIDE DEF r
<1>2. replies' = IF Len(replies) < Capacity THEN Append(replies, r) ELSE replies
  BY DEF SendReply, r
<1> QED
  BY <1>1, <1>2, RpcAssumption, SMT DEF TypeOK

\* So does reject_command, whatever command it answers.
LEMMA RejectionTyped ==
  ASSUME TypeOK, NEW command \in Commands, RejectCommand(command)
  PROVE  /\ replies' \in Seq(Replies) /\ Len(replies') <= Capacity
         /\ rejected' \subseteq Nat
<1>1. "rejected" \in ReplyKinds /\ 0 \in Nat
  BY DEF ReplyKinds
<1>2. SendReply(command, "rejected", 0) /\ command.call \in Nat
  BY DEF RejectCommand, Commands
<1> QED
  BY <1>1, <1>2, ReplySent DEF RejectCommand, TypeOK

\* A step of the manager keeps the types.
LEMMA ManagerTyped ==
  ASSUME TypeOK, ManagerNext
  PROVE  TypeOK'
<1> USE DEF TypeOK
<1>0. sessionVars' = sessionVars => SessionTypeOK'
  BY DEF SessionTypeOK, sessionVars
<1>a. Finish => hand' \in Commands /\ stage' \in {"none", "received", "current", "transfer"}
  BY RpcAssumption DEF Finish, NoCommand, Commands, Operations
<1>b. {"ok", "failed"} \subseteq ReplyKinds /\ 0 \in Nat /\ nextSession + 1 \in Nat
  BY SMT DEF ReplyKinds
<1>c. hand.call \in Nat
  BY DEF Commands
<1>1. CASE RejectIdle
  <2>1. /\ Head(commands) \in Commands
        /\ Tail(commands) \in Seq(Commands)
        /\ Len(Tail(commands)) <= Capacity
    BY <1>1, RpcAssumption, SMT DEF RejectIdle
  <2> QED
    BY <1>0, <1>1, <2>1, RejectionTyped
    DEF RejectIdle, callerVars, managerVars, bridgeVars
<1>2. CASE Receive
  <2>1. /\ Head(commands) \in Commands
        /\ Tail(commands) \in Seq(Commands)
        /\ Len(Tail(commands)) <= Capacity
    BY <1>2, RpcAssumption, SMT DEF Receive
  <2> QED
    BY <1>0, <1>2, <2>1 DEF Receive, callerVars, bridgeVars, historyVars
<1>3. CASE RejectReceived
  BY <1>0, <1>a, <1>3, RejectionTyped DEF RejectReceived, callerVars, bridgeVars
<1>4. CASE Transfer
  BY <1>0, <1>c, <1>4 DEF Transfer, callerVars, bridgeVars
<1>5. CASE Complete
  <2>1. PICK kind \in ReplyKinds : SendReply(hand, kind, 0)
    BY <1>5, <1>b DEF Complete
  <2>2. SessionTypeOK'
    BY <1>0, <1>5, SessionTyped DEF Complete, SessionNext
  <2> QED
    BY <1>a, <1>b, <1>5, <2>1, <2>2, ReplySent
    DEF Complete, callerVars, bridgeVars, historyVars
<1>6. CASE CheckBridgeCommand
  BY <1>0, <1>6 DEF CheckBridgeCommand, callerVars, bridgeVars, historyVars
<1>7. CASE OpenBridge
  <2>1. SessionTypeOK'
    BY <1>7, SessionTyped DEF OpenBridge, SessionNext
  <2> QED
    BY <1>a, <1>b, <1>c, <1>7, <2>1, ReplySent
    DEF OpenBridge, callerVars, bridgeVars
<1>8. CASE RefuseOpen
  BY <1>0, <1>a, <1>8, RejectionTyped DEF RefuseOpen, callerVars, bridgeVars
<1>9. CASE CloseBridge
  <2>1. PICK kind \in ReplyKinds : SendReply(hand, kind, 0)
    BY <1>9, <1>b DEF CloseBridge
  <2>2. SessionTypeOK'
    BY <1>0, <1>9, SessionTyped DEF CloseBridge, SessionNext
  <2> QED
    BY <1>a, <1>b, <1>c, <1>9, <2>1, <2>2, ReplySent
    DEF CloseBridge, callerVars, bridgeVars
<1>10. CASE EndBridge
  <2>1. SessionTypeOK'
    BY <1>10, SessionTyped DEF EndBridge, SessionNext
  <2> QED
    BY <1>a, <1>10, <2>1 DEF EndBridge, callerVars, historyVars
<1> QED
  BY <1>1, <1>2, <1>3, <1>4, <1>5, <1>6, <1>7, <1>8, <1>9, <1>10
  DEF ManagerNext

\* Type correctness of the command channels, the callers and the manager.
THEOREM TypeCorrect == Spec => []TypeOK
<1>1. TypeOK /\ [Next]_vars => TypeOK'
  <2> SUFFICES ASSUME TypeOK, [Next]_vars PROVE TypeOK'
    OBVIOUS
  <2>1. CASE \E c \in Callers : CallerNext(c)
    BY <2>1, CallerTyped
  <2>2. CASE Abandon
    BY <2>2, AbandonTyped
  <2>3. CASE ManagerNext
    BY <2>3, ManagerTyped
  <2>4. CASE SessionStep
    <3>1. SessionTypeOK'
      BY <2>4, SessionTyped DEF SessionStep, SessionNext, PortNext, TypeOK
    <3> QED
      BY <2>4, <3>1
      DEF SessionStep, TypeOK, callerVars, managerVars, bridgeVars, historyVars
  <2>5. CASE UNCHANGED vars
    BY <2>5 DEF TypeOK, SessionTypeOK, vars, sessionVars, callerVars,
                managerVars, bridgeVars, historyVars
  <2> QED
    BY <2>1, <2>2, <2>3, <2>4, <2>5 DEF Next
<1> QED
  BY InitTyped, <1>1, PTL DEF Spec

-----------------------------------------------------------------------------
(* Mutual exclusion of the callers.                                        *)

\* HOST_COMMAND_LOCK serializes send_command: whoever is between the check of
\* HOST_STATE and the answer holds the lock, alone.
THEOREM Exclusion == Spec => []OneCaller
<1>1. Init => OneCaller
  BY RpcAssumption DEF Init, OneCaller, InCall
<1>2. TypeOK /\ OneCaller /\ [Next]_vars => OneCaller'
  <2> SUFFICES ASSUME TypeOK, OneCaller, [Next]_vars PROVE OneCaller'
    OBVIOUS
  <2>0. pc \in [Callers -> CallerStates] /\ NoCaller \notin Callers
    BY RpcAssumption DEF TypeOK
  <2> USE <2>0 DEF OneCaller, InCall
  <2>1. ASSUME NEW c \in Callers, CallerNext(c) PROVE OneCaller'
    <3>1. CASE \E o \in Operations : StartCall(c, o) BY <3>1 DEF StartCall
    <3>2. CASE Acquire(c) BY <3>2 DEF Acquire
    <3>3. CASE Refuse(c) BY <3>3 DEF Refuse, Return
    <3>4. CASE Admit(c) BY <3>4 DEF Admit
    <3>5. CASE Drain(c) BY <3>5 DEF Drain
    <3>6. CASE Send(c) BY <3>6 DEF Send
    <3>7. CASE DropReply(c) BY <3>7 DEF DropReply, callerVars
    <3>8. CASE TakeReply(c) BY <3>8 DEF TakeReply, Return
    <3>9. CASE Expire(c) BY <3>9 DEF Expire, Return
    <3> QED
      BY <2>1, <3>1, <3>2, <3>3, <3>4, <3>5, <3>6, <3>7, <3>8, <3>9
      DEF CallerNext
  <2>2. CASE Abandon BY <2>2 DEF Abandon, Callers
  <2>3. CASE ManagerNext
    BY <2>3 DEF ManagerNext, RejectIdle, Receive, RejectReceived, Transfer,
      Complete, CheckBridgeCommand, OpenBridge, RefuseOpen, CloseBridge,
      EndBridge, callerVars
  <2>4. CASE SessionStep BY <2>4 DEF SessionStep, callerVars
  <2>5. CASE UNCHANGED vars BY <2>5 DEF vars, callerVars
  <2> QED BY <2>1, <2>2, <2>3, <2>4, <2>5 DEF Next
<1> QED
  BY TypeCorrect, <1>1, <1>2, PTL DEF Spec

-----------------------------------------------------------------------------
(* The device session a command is performed in.                           *)

\* A ready phase stays the phase of the session that the application holds.
LEMMA SessionOwned ==
  ASSUME ReadySessionIsOwned, [SessionNext]_sessionVars
  PROVE  ReadySessionIsOwned'
<1> USE DEF ReadySessionIsOwned
<1>1. CASE PortReset BY <1>1 DEF PortReset
<1>2. CASE PortClear BY <1>2 DEF PortClear, ClearDevice
<1>3. CASE PortError BY <1>3 DEF PortError
<1>4. CASE Begin BY <1>4 DEF Begin
<1>5. CASE Publish BY <1>5 DEF Publish
<1>6. CASE AbortSetup BY <1>6 DEF AbortSetup
<1>7. CASE ResumeSetup BY <1>7 DEF ResumeSetup
<1>8. CASE FailSession BY <1>8 DEF FailSession, OwnSession
<1>9. CASE StopServing BY <1>9 DEF StopServing, OwnSession
<1>10. CASE ReleaseSession BY <1>10 DEF ReleaseSession, ClearDevice
<1>11. CASE \E connected \in BOOLEAN : SetBridge(~connected, connected)
  BY <1>11 DEF SetBridge, OwnSession
<1>12. CASE UNCHANGED sessionVars BY <1>12 DEF sessionVars
<1> QED
  BY <1>1, <1>2, <1>3, <1>4, <1>5, <1>6, <1>7, <1>8, <1>9, <1>10, <1>11, <1>12
  DEF SessionNext, PortNext, SetupNext

\* While a command is in hand or a bridge runs the manager stays in the class
\* driver, and with it in the session it has adopted.
BusyManagerServes ==
  /\ stage # "none" \/ bridging # 0 => mgr = "serving"
  /\ stage = "transfer" => bridging = 0

SessionInv ==
  /\ ReadySessionIsOwned
  /\ BusyManagerServes
  /\ PerformedInOwnSession
  /\ BridgeFlagIsHonest

\* SessionInv is inductive, given the types.
LEMMA SessionInvStep ==
  ASSUME TypeOK, SessionInv, [Next]_vars
  PROVE  SessionInv'
<1> USE DEF SessionInv
<1>0. /\ sessionVars' = sessionVars => ReadySessionIsOwned'
      /\ bridging \in Nat /\ nextSession \in Nat
  BY DEF ReadySessionIsOwned, sessionVars, TypeOK
<1>1. CASE UNCHANGED <<sessionVars, managerVars>>
  BY <1>0, <1>1 DEF sessionVars, managerVars, BusyManagerServes,
    PerformedInOwnSession, BridgeFlagIsHonest
<1>2. CASE ManagerNext
  <2>1. CASE RejectIdle
    BY <1>1, <2>1 DEF RejectIdle
  <2>2. CASE Receive
    BY <1>0, <2>2 DEF Receive, sessionVars, BusyManagerServes,
      PerformedInOwnSession, BridgeFlagIsHonest
  <2>3. CASE RejectReceived
    BY <1>0, <2>3 DEF RejectReceived, Finish, sessionVars, BusyManagerServes,
      PerformedInOwnSession, BridgeFlagIsHonest
  <2>4. CASE Transfer
    BY <1>0, <2>4 DEF Transfer, Serves, Current, sessionVars,
      BusyManagerServes, ReadySessionIsOwned, PerformedInOwnSession, BridgeFlagIsHonest
  <2>5. CASE Complete
    <3>1. ReadySessionIsOwned'
      BY <1>0, <2>5, SessionOwned DEF Complete, SessionNext
    <3> QED
      BY <2>5, <3>1 DEF Complete, Finish, FailSession, sessionVars,
        BusyManagerServes, PerformedInOwnSession, BridgeFlagIsHonest
  <2>6. CASE CheckBridgeCommand
    BY <1>0, <2>6 DEF CheckBridgeCommand, Current, sessionVars,
      BusyManagerServes, ReadySessionIsOwned, PerformedInOwnSession,
      BridgeFlagIsHonest
  <2>7. CASE OpenBridge
    <3>1. ReadySessionIsOwned'
      BY <2>7, SessionOwned DEF OpenBridge, SessionNext
    <3>2. bridging' # 0
      BY <1>0, <2>7, SMT DEF OpenBridge
    <3> QED
      BY <2>7, <3>1, <3>2 DEF OpenBridge, Finish, SetBridge,
        BusyManagerServes, PerformedInOwnSession, BridgeFlagIsHonest
  <2>8. CASE RefuseOpen
    BY <1>0, <2>8 DEF RefuseOpen, Finish, sessionVars, BusyManagerServes,
      PerformedInOwnSession, BridgeFlagIsHonest
  <2>9. CASE CloseBridge
    <3>1. ReadySessionIsOwned'
      BY <1>0, <2>9, SessionOwned DEF CloseBridge, SessionNext
    <3>2. ~bridge_connected'
      BY <2>9 DEF CloseBridge, SetBridge, OwnSession, sessionVars,
        ReadySessionIsOwned
    <3> QED
      BY <2>9, <3>1, <3>2 DEF CloseBridge, Finish, BusyManagerServes,
        PerformedInOwnSession, BridgeFlagIsHonest
  <2>10. CASE EndBridge
    BY <2>10 DEF EndBridge, StopServing, Finish, OwnSession,
      ReadySessionIsOwned, BusyManagerServes, PerformedInOwnSession, BridgeFlagIsHonest
  <2> QED
    BY <1>2, <2>1, <2>2, <2>3, <2>4, <2>5, <2>6, <2>7, <2>8, <2>9, <2>10
    DEF ManagerNext
<1>3. CASE SessionStep
  <2>1. ReadySessionIsOwned'
    BY <1>3, SessionOwned DEF SessionStep, SessionNext, PortNext
  <2>2. BusyManagerServes'
    BY <1>3 DEF SessionStep, BusyManagerServes, managerVars,
      PortReset, PortClear, PortError, SetupNext, Begin, Publish, AbortSetup,
      ResumeSetup, ReleaseSession, FailSession, StopServing
  <2>3. PerformedInOwnSession'
    BY <1>3 DEF SessionStep, BusyManagerServes, PerformedInOwnSession,
      managerVars, PortReset, PortClear, PortError, SetupNext, Begin,
      Publish, AbortSetup, ResumeSetup, ReleaseSession, FailSession, StopServing
  <2>4. BridgeFlagIsHonest'
    BY <1>3 DEF SessionStep, BridgeFlagIsHonest, managerVars,
      PortReset, PortClear, PortError, SetupNext, Begin, Publish, AbortSetup,
      ResumeSetup, ReleaseSession, ClearDevice, FailSession, StopServing
  <2> QED
    BY <2>1, <2>2, <2>3, <2>4
<1>4. CASE \E c \in Callers : CallerNext(c)
  BY <1>1, <1>4 DEF CallerNext, StartCall, Acquire, Refuse, Admit, Drain, Send,
    DropReply, TakeReply, Expire
<1>5. CASE Abandon
  BY <1>1, <1>5 DEF Abandon
<1>6. CASE UNCHANGED vars
  BY <1>1, <1>6 DEF vars
<1> QED
  BY <1>2, <1>3, <1>4, <1>5, <1>6 DEF Next

\* SessionInv holds throughout.
LEMMA SessionInvHolds == Spec => []SessionInv
<1>1. Init => SessionInv
  BY DEF Init, SessionInit, SessionInv, ReadySessionIsOwned,
    BusyManagerServes, PerformedInOwnSession, BridgeFlagIsHonest
<1> QED
  BY TypeCorrect, SessionInvStep, <1>1, PTL DEF Spec

\* A phase in which commands are accepted belongs to the session that the
\* application has adopted, and only then can a bridge hold the stream.
THEOREM ReadyIsOwned == Spec => []ReadySessionIsOwned
BY SessionInvHolds, PTL DEF SessionInv

\* send_command's snapshot of the generation and command_is_current: a command
\* never reaches the device of a later session.
THEOREM OwnDevice == Spec => []PerformedInOwnSession
BY SessionInvHolds, PTL DEF SessionInv

\* bridge_connected is never left behind by a bridge that has ended.
THEOREM NoStaleBridgeFlag == Spec => []BridgeFlagIsHonest
BY SessionInvHolds, PTL DEF SessionInv

-----------------------------------------------------------------------------
(* Sequence numbers.                                                       *)

\* The position of the lock holder is that of the one caller in the call.
LEMMA HolderState ==
  ASSUME TypeOK, OneCaller, NEW c \in Callers
  PROVE  /\ pc[c] \in InCall => lock = c /\ HolderAt = pc[c]
         /\ lock = NoCaller => HolderAt = "idle"
         /\ pc[c] \notin InCall => lock # c
BY RpcAssumption DEF OneCaller, HolderAt

\* A step that leaves the messages, or throws the replies away, and does not
\* make the holder's position stricter.
LEMMA WindowKept ==
  ASSUME TypeOK, Window,
         UNCHANGED <<commands, hand, stage, sequence, admitted>>,
         replies' = replies \/ replies' = <<>>,
         Unsent <= Unsent',
         HolderAt' \in {"drain", "send"} => HolderAt \in {"drain", "send"},
         HolderAt' = "wait" => HolderAt = "wait" /\ op'[lock'] = op[lock],
         HolderAt' \in {"send", "wait"}
           => HolderAt \in {"send", "wait"} \/ replies' = <<>>,
         (pc[Bridge] # "idle" /\ op[Bridge] = "close" => session # 0)'
  PROVE  Window'
<1> DEFINE Kept(m) ==
       /\ m.sequence = m.call % SeqMod
       /\ m.call <= admitted'
       /\ HolderAt' \in {"drain", "send"} => m.call < admitted'
       /\ HolderAt' = "wait" /\ m.call = admitted' => m.operation = op'[lock']
<1>1. \A m : Traced(m) => Kept(m)
  BY DEF Traced
<1>2. Unsent \in 0..2 /\ Unsent' \in 0..2
  BY DEF Unsent
<1>3. sequence' = admitted' % SeqMod
  BY DEF Window
<1>4. ASSUME NEW i \in 1..Len(commands)
      PROVE  /\ Kept(commands[i])
             /\ commands[i].call + Unsent' + 2 * (Len(commands) - i) >= admitted
  <2>1. /\ Kept(commands[i])
        /\ commands[i].call + Unsent + 2 * (Len(commands) - i) >= admitted
    BY <1>1 DEF Window
  <2>2. commands[i] \in Commands /\ Len(commands) \in Nat /\ admitted \in Nat
    BY <1>4 DEF TypeOK
  <2>3. commands[i].call \in Nat
    BY <2>2 DEF Commands
  <2> HIDE DEF Kept
  <2> QED BY <1>2, <2>1, <2>2, <2>3, SMT
<1>5. ASSUME stage # "none"
      PROVE  Kept(hand) /\ hand.call + Unsent' + 2 * Len(commands) >= admitted
  <2>1. Kept(hand) /\ hand.call + Unsent + 2 * Len(commands) >= admitted
    BY <1>1, <1>5 DEF Window
  <2>2. hand.call \in Nat /\ Len(commands) \in Nat /\ admitted \in Nat
    BY DEF TypeOK, Commands
  <2> HIDE DEF Kept
  <2> QED BY <1>2, <2>1, <2>2, SMT
<1>6. ASSUME NEW i \in 1..Len(replies')
      PROVE  /\ Kept(replies'[i])
             /\ HolderAt' \in {"send", "wait"}
                  => replies'[i].call + 2 * Capacity + 2 >= admitted
  <2>1. replies' = replies
    BY <1>6
  <2> QED BY <1>1, <2>1 DEF Window
<1> QED
  BY <1>3, <1>4, <1>5, <1>6 DEF Window, Traced

\* A caller's own position after a step that moves it while it holds the lock.
LEMMA HolderMoves ==
  ASSUME TypeOK, OneCaller, NEW c \in Callers, lock = c, lock' = lock,
         NEW p, pc' = [pc EXCEPT ![c] = p]
  PROVE  HolderAt' = p /\ (op' = op => op'[lock'] = op[c])
BY RpcAssumption DEF HolderAt, TypeOK

\* A caller that returns leaves the lock free.
LEMMA HolderReturned ==
  ASSUME NEW c \in Callers, Return(c)
  PROVE  HolderAt' = "idle"
BY DEF Return, HolderAt

\* usb_serial_task is a caller.
LEMMA BridgeIsCaller == Bridge \in Callers
BY DEF Callers

\* Taking a number: the window moves by one, and so may what is unsent.
LEMMA AdmitWindow ==
  ASSUME TypeOK, OneCaller, Window, NEW c \in Callers, Admit(c)
  PROVE  Window'
<1>1. HolderAt = "check" /\ HolderAt' = "drain" /\ lock' = lock
  BY HolderState, HolderMoves DEF Admit, InCall
<1>2. admitted \in Nat /\ admitted' = admitted + 1
  BY DEF Admit, TypeOK
<1>3. Unsent \in 0..1 /\ Unsent' = Unsent + 1
  BY <1>1 DEF Unsent, Admit, bridgeVars
<1>4. sequence' = admitted' % SeqMod
  <2>1. SeqMod \in Nat /\ SeqMod > 1
    BY RpcAssumption, SMT
  <2>2. sequence' = ((admitted % SeqMod) + 1) % SeqMod
    BY DEF Admit, WrappingAdd, Window
  <2>3. ((admitted % SeqMod) + 1) % SeqMod = (admitted + 1) % SeqMod
    BY <1>2, <2>1, ModStep
  <2> QED BY <1>2, <2>2, <2>3
<1> DEFINE Old(m) == m.sequence = m.call % SeqMod /\ m.call < admitted'
<1>5. ASSUME NEW m, m.call \in Nat, Traced(m) PROVE Old(m)
  BY <1>2, <1>5, SMT DEF Traced
<1>6. ASSUME NEW i \in 1..Len(commands)
      PROVE  /\ Old(commands[i])
             /\ commands[i].call \in Nat
             /\ commands[i].call + Unsent' + 2 * (Len(commands) - i) >= admitted'
  <2>1. commands[i] \in Commands /\ Len(commands) \in Nat
    BY <1>6 DEF TypeOK
  <2>2. commands[i].call \in Nat
    BY <2>1 DEF Commands
  <2>3. Old(commands[i])
    BY <1>5, <2>2 DEF Window
  <2>4. commands[i].call + Unsent + 2 * (Len(commands) - i) >= admitted
    BY DEF Window
  <2> QED BY <1>2, <1>3, <2>1, <2>2, <2>3, <2>4, SMT
<1>7. ASSUME stage # "none"
      PROVE  /\ Old(hand)
             /\ hand.call \in Nat
             /\ hand.call + Unsent' + 2 * Len(commands) >= admitted'
  <2>1. hand.call \in Nat /\ Len(commands) \in Nat
    BY DEF TypeOK, Commands
  <2>2. Old(hand)
    BY <1>5, <1>7, <2>1 DEF Window
  <2>3. hand.call + Unsent + 2 * Len(commands) >= admitted
    BY <1>7 DEF Window
  <2> QED BY <1>2, <1>3, <2>1, <2>2, <2>3, SMT
<1>8. ASSUME NEW i \in 1..Len(replies)
      PROVE  Old(replies[i]) /\ replies[i].call \in Nat
  <2>1. replies[i] \in Replies
    BY <1>8 DEF TypeOK
  <2> QED BY <1>5, <1>8, <2>1 DEF Window, Replies
<1>9. (pc[Bridge] # "idle" /\ op[Bridge] = "close" => session # 0)'
  BY BridgeIsCaller DEF Window, Admit, TypeOK, bridgeVars
<1>10. ASSUME NEW m, m.call \in Nat, Old(m)
       PROVE  /\ m.call <= admitted'
              /\ HolderAt' \in {"drain", "send"} => m.call < admitted'
              /\ HolderAt' = "wait" /\ m.call = admitted' => m.operation = op'[lock']
  BY <1>1, <1>2, <1>10, SMT
<1> QED
  BY <1>1, <1>4, <1>6, <1>7, <1>8, <1>9, <1>10
  DEF Window, Traced, Admit, managerVars

\* Sending: the holder's own call is the youngest in the channel.
LEMMA SendWindow ==
  ASSUME TypeOK, OneCaller, Window, NEW c \in Callers, Send(c)
  PROVE  Window'
<1> DEFINE new == [sequence |-> sequence, generation |-> snapshot,
                   operation |-> op[c], session |-> session, call |-> admitted]
<1>1. HolderAt = "send" /\ HolderAt' = "wait" /\ lock' = lock /\ op'[lock'] = op[c]
  BY HolderState, HolderMoves DEF Send, InCall
<1>2. admitted \in Nat /\ Len(commands) \in Nat /\ Unsent \in 0..2 /\ Unsent' = 0
  BY <1>1 DEF Unsent, TypeOK
<1>3. /\ commands' = Append(commands, new)
      /\ Len(commands') = Len(commands) + 1
      /\ \A i \in 1..Len(commands) : commands'[i] = commands[i]
      /\ commands'[Len(commands) + 1] = new
  BY DEF Send, TypeOK
<1>4. new.sequence = new.call % SeqMod /\ new.call = admitted /\ new.operation = op[c]
  BY DEF Window
<1>5. ASSUME NEW i \in 1..Len(commands)
      PROVE  /\ commands[i].sequence = commands[i].call % SeqMod
             /\ commands[i].call < admitted
             /\ commands[i].call \in Nat
             /\ commands[i].call + 2 * (Len(commands') - i) >= admitted
  <2>1. commands[i] \in Commands
    BY <1>5 DEF TypeOK
  <2>2. commands[i].call \in Nat
    BY <2>1 DEF Commands
  <2>3. /\ commands[i].sequence = commands[i].call % SeqMod
        /\ commands[i].call < admitted
        /\ commands[i].call + Unsent + 2 * (Len(commands) - i) >= admitted
    BY <1>1, <1>5 DEF Window, Traced
  <2> QED BY <1>2, <1>3, <2>2, <2>3, SMT
<1>6. ASSUME stage # "none"
      PROVE  /\ hand.sequence = hand.call % SeqMod
             /\ hand.call < admitted
             /\ hand.call \in Nat
             /\ hand.call + 2 * Len(commands') >= admitted
  <2>1. hand.call \in Nat
    BY DEF TypeOK, Commands
  <2>2. /\ hand.sequence = hand.call % SeqMod
        /\ hand.call < admitted
        /\ hand.call + Unsent + 2 * Len(commands) >= admitted
    BY <1>1, <1>6 DEF Window, Traced
  <2> QED BY <1>2, <1>3, <2>1, <2>2, SMT
<1>7. ASSUME NEW i \in 1..Len(replies)
      PROVE  /\ replies[i].sequence = replies[i].call % SeqMod
             /\ replies[i].call < admitted
             /\ replies[i].call \in Nat
             /\ replies[i].call + 2 * Capacity + 2 >= admitted
  <2>1. replies[i] \in Replies
    BY <1>7 DEF TypeOK
  <2> QED BY <1>1, <1>7, <2>1 DEF Window, Traced, Replies
<1>8. (pc[Bridge] # "idle" /\ op[Bridge] = "close" => session # 0)'
  BY BridgeIsCaller DEF Window, Send, TypeOK, bridgeVars
<1>9. ASSUME NEW m, m.call \in Nat, m.call < admitted
      PROVE  m.call <= admitted /\ m.call # admitted
  BY <1>2, <1>9, SMT
<1>10. ASSUME NEW i \in 1..Len(commands')
       PROVE  /\ commands'[i].sequence = commands'[i].call % SeqMod
              /\ commands'[i].call <= admitted
              /\ commands'[i].call = admitted => commands'[i].operation = op[c]
              /\ commands'[i].call + 2 * (Len(commands') - i) >= admitted
  <2>1. CASE i \in 1..Len(commands)
    BY <1>3, <1>5, <1>9, <2>1
  <2>2. CASE i = Len(commands) + 1
    <3>1. commands'[i] = new
      BY <1>3, <2>2
    <3> HIDE DEF new
    <3> QED BY <1>2, <1>3, <1>4, <2>2, <3>1, SMT
  <2> QED BY <1>2, <1>3, <2>1, <2>2, SMT
<1>11. \A i \in 1..Len(commands') : commands'[i].call \in Nat
  <2> SUFFICES ASSUME NEW i \in 1..Len(commands') PROVE commands'[i].call \in Nat
    OBVIOUS
  <2> QED BY <1>2, <1>3, <1>4, <1>5, SMT
<1>12. /\ UNCHANGED <<admitted, stage, hand, replies, sequence>>
       /\ HolderAt' \notin {"drain", "send"}
  BY <1>1 DEF Send, managerVars, historyVars
<1>13. ASSUME NEW n \in Nat PROVE n + Unsent' = n
  BY <1>2, SMT
<1> HIDE DEF new
<1> QED
  BY <1>1, <1>2, <1>6, <1>7, <1>8, <1>9, <1>10, <1>11, <1>12, <1>13
  DEF Window, Traced

\* A reply taken from the channel, and a position that is no longer, or still,
\* waiting for the same call.
LEMMA ReplyTaken ==
  ASSUME TypeOK, OneCaller, Window, NEW c \in Callers, pc[c] = "wait",
         replies # <<>>, replies' = Tail(replies),
         UNCHANGED <<commands, hand, stage, sequence, admitted, op>>,
         \/ UNCHANGED <<lock, pc, session>>
         \/ Return(c),
         (pc[Bridge] # "idle" /\ op[Bridge] = "close" => session # 0)'
  PROVE  Window'
<1>1. HolderAt = "wait" /\ lock = c /\ Unsent = 0
  BY HolderState DEF InCall, Unsent
<1>2. Unsent' \in 0..2
  BY DEF Unsent
<1>3. \/ HolderAt' = "idle"
      \/ HolderAt' = "wait" /\ lock' = lock
  BY <1>1, HolderReturned DEF HolderAt
<1> DEFINE Kept(m) ==
       /\ m.sequence = m.call % SeqMod
       /\ m.call <= admitted'
       /\ HolderAt' \in {"drain", "send"} => m.call < admitted'
       /\ HolderAt' = "wait" /\ m.call = admitted' => m.operation = op'[lock']
<1>4. \A m : Traced(m) => Kept(m)
  BY <1>1, <1>3 DEF Traced
<1> HIDE DEF Kept
<1>5. ASSUME NEW i \in 1..Len(commands)
      PROVE  /\ Kept(commands[i])
             /\ commands[i].call + Unsent' + 2 * (Len(commands) - i) >= admitted
  <2>1. commands[i] \in Commands /\ Len(commands) \in Nat /\ admitted \in Nat
    BY <1>5 DEF TypeOK
  <2>2. commands[i].call \in Nat
    BY <2>1 DEF Commands
  <2>3. /\ Kept(commands[i])
        /\ commands[i].call + Unsent + 2 * (Len(commands) - i) >= admitted
    BY <1>4, <1>5 DEF Window
  <2> QED BY <1>1, <1>2, <2>1, <2>2, <2>3, SMT
<1>6. ASSUME stage # "none"
      PROVE  Kept(hand) /\ hand.call + Unsent' + 2 * Len(commands) >= admitted
  <2>1. hand.call \in Nat /\ Len(commands) \in Nat /\ admitted \in Nat
    BY DEF TypeOK, Commands
  <2>2. Kept(hand) /\ hand.call + Unsent + 2 * Len(commands) >= admitted
    BY <1>4, <1>6 DEF Window
  <2> QED BY <1>1, <1>2, <2>1, <2>2, SMT
<1>7. ASSUME NEW i \in 1..Len(replies')
      PROVE  /\ Kept(replies'[i])
             /\ HolderAt' \in {"send", "wait"}
                  => replies'[i].call + 2 * Capacity + 2 >= admitted
  <2>1. i + 1 \in 1..Len(replies) /\ replies'[i] = replies[i + 1]
    BY <1>7, SMT DEF TypeOK
  <2> QED BY <1>1, <1>4, <2>1 DEF Window
<1> QED
  BY <1>5, <1>6, <1>7 DEF Window, Traced, Kept

\* A step of send_command keeps the window.
LEMMA CallerWindow ==
  ASSUME TypeOK, OneCaller, Window, NEW c \in Callers, CallerNext(c)
  PROVE  Window'
<1>0. /\ pc \in [Callers -> CallerStates]
      /\ op \in [Callers -> Operations]
      /\ NoCaller \notin Callers
  BY RpcAssumption DEF TypeOK
<1>b. pc[Bridge] # "idle" /\ op[Bridge] = "close" => session # 0
  BY DEF Window
<1>1. CASE \E o \in Operations : StartCall(c, o)
  <2>1. PICK o \in Operations : StartCall(c, o)
    BY <1>1
  <2>2. lock # c
    BY <2>1, HolderState DEF StartCall, InCall
  <2>3. HolderAt' = HolderAt /\ op'[lock'] = op[lock] /\ Unsent' = Unsent
    BY <1>0, <2>1, <2>2 DEF StartCall, HolderAt, Unsent, TypeOK
  <2>4. (pc[Bridge] # "idle" /\ op[Bridge] = "close" => session # 0)'
    BY <1>0, <1>b, <2>1, BridgeIsCaller DEF StartCall, MayCall
  <2>5. Unsent <= Unsent'
    BY <2>3 DEF Unsent
  <2> QED
    BY <2>1, <2>3, <2>4, <2>5, WindowKept DEF StartCall, managerVars, historyVars
<1>2. CASE Acquire(c)
  <2>1. HolderAt = "idle" /\ HolderAt' = "check"
    BY <1>0, <1>2, HolderState DEF Acquire, HolderAt
  <2>2. Unsent <= Unsent'
    BY <1>2, <2>1 DEF Unsent, Acquire, bridgeVars
  <2>3. (pc[Bridge] # "idle" /\ op[Bridge] = "close" => session # 0)'
    BY <1>0, <1>2, <1>b, BridgeIsCaller DEF Acquire, bridgeVars
  <2> QED
    BY <1>2, <2>1, <2>2, <2>3, WindowKept DEF Acquire, managerVars, historyVars
<1>3. CASE Refuse(c)
  <2>1. HolderAt = "check" /\ HolderAt' = "idle"
    BY <1>3, HolderState, HolderReturned DEF Refuse, InCall
  <2>2. Unsent <= Unsent'
    BY <1>3, <2>1 DEF Unsent, Refuse, SessionAfter
  <2>3. (pc[Bridge] # "idle" /\ op[Bridge] = "close" => session # 0)'
    BY <1>0, <1>3, <1>b, BridgeIsCaller DEF Refuse, Return, SessionAfter
  <2> QED
    BY <1>3, <2>1, <2>2, <2>3, WindowKept DEF Refuse, managerVars, historyVars
<1>4. CASE Admit(c)
  BY <1>4, AdmitWindow
<1>5. CASE Drain(c)
  <2>1. HolderAt = "drain" /\ HolderAt' = "send"
    BY <1>5, HolderState, HolderMoves DEF Drain, InCall
  <2>2. Unsent <= Unsent'
    BY <1>5, <2>1 DEF Unsent, Drain, bridgeVars
  <2>3. (pc[Bridge] # "idle" /\ op[Bridge] = "close" => session # 0)'
    BY <1>0, <1>5, <1>b, BridgeIsCaller DEF Drain, bridgeVars
  <2> QED
    BY <1>5, <2>1, <2>2, <2>3, WindowKept DEF Drain, managerVars, historyVars
<1>6. CASE Send(c)
  BY <1>6, SendWindow
<1>7. CASE DropReply(c)
  BY <1>7, <1>b, ReplyTaken
  DEF DropReply, callerVars, managerVars, bridgeVars, historyVars
<1>8. CASE TakeReply(c)
  <2>1. (pc[Bridge] # "idle" /\ op[Bridge] = "close" => session # 0)'
    BY <1>0, <1>8, <1>b, BridgeIsCaller DEF TakeReply, Return, SessionAfter
  <2> QED
    BY <1>8, <2>1, ReplyTaken DEF TakeReply, managerVars
<1>9. CASE Expire(c)
  <2>1. HolderAt = "wait" /\ HolderAt' = "idle"
    BY <1>9, HolderState, HolderReturned DEF Expire, InCall
  <2>2. Unsent <= Unsent'
    BY <2>1 DEF Unsent
  <2>3. (pc[Bridge] # "idle" /\ op[Bridge] = "close" => session # 0)'
    BY <1>0, <1>9, <1>b, BridgeIsCaller DEF Expire, Return, SessionAfter
  <2> QED
    BY <1>9, <2>1, <2>2, <2>3, WindowKept DEF Expire, managerVars
<1> QED
  BY <1>1, <1>2, <1>3, <1>4, <1>5, <1>6, <1>7, <1>8, <1>9 DEF CallerNext

\* A close dropped before it was sent is the one call that may be missing
\* from the channel; the session it belonged to is given up with it.
LEMMA AbandonWindow ==
  ASSUME TypeOK, OneCaller, Window, Abandon
  PROVE  Window'
<1>0. pc \in [Callers -> CallerStates] /\ Bridge \in Callers /\ NoCaller \notin Callers
  BY RpcAssumption, BridgeIsCaller DEF TypeOK
<1>1. session # 0 /\ session' = 0
  BY DEF Window, Abandon
<1>2. CASE lock = Bridge
  <2>1. HolderAt' = "idle"
    BY <1>2 DEF Abandon, HolderAt
  <2>2. Unsent <= Unsent'
    BY <1>1, <2>1 DEF Unsent
  <2>3. (pc[Bridge] # "idle" /\ op[Bridge] = "close" => session # 0)'
    BY <1>0 DEF Abandon
  <2> QED
    BY <2>1, <2>2, <2>3, WindowKept DEF Abandon, managerVars
<1>3. CASE lock # Bridge
  <2>1. HolderAt' = HolderAt /\ lock' = lock
    BY <1>0, <1>3 DEF Abandon, HolderAt, TypeOK
  <2>2. Unsent <= Unsent'
    BY <1>1, <2>1 DEF Unsent
  <2>3. (pc[Bridge] # "idle" /\ op[Bridge] = "close" => session # 0)'
    BY <1>0 DEF Abandon
  <2> QED
    BY <2>1, <2>2, <2>3, WindowKept DEF Abandon, managerVars
<1> QED BY <1>2, <1>3

\* A reply to a command that has been in the window.
LEMMA ReplyWindow ==
  ASSUME TypeOK, Window, NEW command \in Commands, NEW kind, NEW opened,
         Traced(command),
         command.call + Unsent + 2 * Capacity >= admitted,
         SendReply(command, kind, opened)
  PROVE  \A i \in 1..Len(replies') :
           /\ Traced(replies'[i])
           /\ HolderAt \in {"send", "wait"}
                => replies'[i].call + 2 * Capacity + 2 >= admitted
<1> DEFINE new == [sequence |-> command.sequence,
                   operation |-> command.operation, kind |-> kind,
                   session |-> opened, call |-> command.call]
<1>1. Traced(new)
  BY DEF Traced
<1>2. command.call + 2 * Capacity + 2 >= admitted
  <2>1. command.call \in Nat /\ admitted \in Nat /\ 2 * Capacity \in Nat
    BY RpcAssumption DEF Commands, TypeOK
  <2>2. Unsent \in {0, 1, 2}
    BY DEF Unsent
  <2> QED
    BY <2>1, <2>2, SMT
<1>3. new.call = command.call
  OBVIOUS
<1>4. replies' = replies \/ replies' = Append(replies, new)
  BY DEF SendReply
<1> HIDE DEF new
<1>5. CASE replies' = replies
  BY <1>5 DEF Window
<1>6. CASE replies' = Append(replies, new)
  <2> SUFFICES ASSUME NEW i \in 1..Len(replies')
               PROVE  /\ Traced(replies'[i])
                      /\ HolderAt \in {"send", "wait"}
                           => replies'[i].call + 2 * Capacity + 2 >= admitted
    OBVIOUS
  <2>1. \/ i \in 1..Len(replies) /\ replies'[i] = replies[i]
        \/ replies'[i] = new
    BY <1>6, SMT DEF TypeOK
  <2> QED BY <1>1, <1>2, <1>3, <2>1 DEF Window
<1> QED BY <1>4, <1>5, <1>6

\* The first command leaves the channel.
LEMMA HeadWindow ==
  ASSUME TypeOK, Window, commands # <<>>
  PROVE  /\ Head(commands) \in Commands
         /\ Traced(Head(commands))
         /\ Head(commands).call + Unsent + 2 * Len(Tail(commands)) >= admitted
         /\ Head(commands).call + Unsent + 2 * Capacity >= admitted
         /\ \A i \in 1..Len(Tail(commands)) :
              /\ Traced(Tail(commands)[i])
              /\ Tail(commands)[i].call + Unsent
                   + 2 * (Len(Tail(commands)) - i) >= admitted
<1>1. /\ Head(commands) = commands[1] /\ 1 \in 1..Len(commands)
      /\ Len(Tail(commands)) = Len(commands) - 1
      /\ Len(commands) \in Nat /\ Len(commands) <= Capacity
      /\ Capacity \in Nat /\ admitted \in Nat
      /\ commands[1] \in Commands
  BY RpcAssumption, SMT DEF TypeOK
<1>2. /\ Traced(commands[1])
      /\ commands[1].call + Unsent + 2 * (Len(commands) - 1) >= admitted
  BY <1>1 DEF Window
<1>3. commands[1].call \in Nat /\ Unsent \in 0..2
  BY <1>1 DEF Commands, Unsent
<1>4. commands[1].call + Unsent + 2 * Capacity >= admitted
  BY <1>1, <1>2, <1>3, SMT
<1>5. ASSUME NEW i \in 1..Len(Tail(commands))
      PROVE  /\ Traced(Tail(commands)[i])
             /\ Tail(commands)[i].call + Unsent
                  + 2 * (Len(Tail(commands)) - i) >= admitted
  <2>1. i + 1 \in 1..Len(commands) /\ Tail(commands)[i] = commands[i + 1]
    BY <1>1, <1>5, SMT DEF TypeOK
  <2>2. Len(commands) - (i + 1) = Len(Tail(commands)) - i
    BY <1>1, <1>5, SMT
  <2>3. /\ Traced(commands[i + 1])
        /\ commands[i + 1].call + Unsent + 2 * (Len(commands) - (i + 1)) >= admitted
    BY <2>1 DEF Window
  <2> QED BY <2>1, <2>2, <2>3
<1> QED BY <1>1, <1>2, <1>4, <1>5

\* The command in hand is in the window.
LEMMA HandWindow ==
  ASSUME TypeOK, Window, stage # "none"
  PROVE  /\ hand \in Commands
         /\ Traced(hand)
         /\ hand.call + Unsent + 2 * Capacity >= admitted
<1>1. hand \in Commands /\ Traced(hand) /\ hand.call + Unsent + 2 * Len(commands) >= admitted
  BY DEF TypeOK, Window
<1>2. /\ hand.call \in Nat /\ Unsent \in 0..2
      /\ Len(commands) \in Nat /\ Len(commands) <= Capacity
      /\ Capacity \in Nat /\ admitted \in Nat
  BY RpcAssumption DEF TypeOK, Commands, Unsent
<1>3. hand.call + Unsent + 2 * Capacity >= admitted
  BY <1>1, <1>2, SMT
<1> QED BY <1>1, <1>3

\* The manager does not move the callers: what is traced stays traced.
LEMMA ManagerFrame ==
  ASSUME Window, UNCHANGED <<callerVars, session, admitted>>,
         \A i \in 1..Len(commands') :
           /\ Traced(commands'[i])
           /\ commands'[i].call + Unsent + 2 * (Len(commands') - i) >= admitted,
         stage' # "none" =>
           Traced(hand') /\ hand'.call + Unsent + 2 * Len(commands') >= admitted,
         \A i \in 1..Len(replies') :
           /\ Traced(replies'[i])
           /\ HolderAt \in {"send", "wait"}
                => replies'[i].call + 2 * Capacity + 2 >= admitted
  PROVE  Window'
<1>1. /\ HolderAt' = HolderAt /\ Unsent' = Unsent
      /\ sequence' = admitted' % SeqMod
      /\ (pc[Bridge] # "idle" /\ op[Bridge] = "close" => session # 0)'
  BY DEF Window, callerVars, HolderAt, Unsent
<1> QED BY <1>1 DEF Window, Traced, callerVars

\* A step of the manager keeps the window.
LEMMA ManagerWindow ==
  ASSUME TypeOK, SessionInv, Window, ManagerNext
  PROVE  Window'
<1>0. UNCHANGED <<callerVars, session, admitted>>
  BY DEF ManagerNext, RejectIdle, Receive, RejectReceived, Transfer, Complete,
    CheckBridgeCommand, OpenBridge, RefuseOpen, CloseBridge, EndBridge,
    bridgeVars, historyVars
<1>c. \A i \in 1..Len(commands) :
        /\ Traced(commands[i])
        /\ commands[i].call + Unsent + 2 * (Len(commands) - i) >= admitted
  BY DEF Window
<1>h. stage # "none" =>
        Traced(hand) /\ hand.call + Unsent + 2 * Len(commands) >= admitted
  BY DEF Window
<1>r. \A i \in 1..Len(replies) :
        /\ Traced(replies[i])
        /\ HolderAt \in {"send", "wait"}
             => replies[i].call + 2 * Capacity + 2 >= admitted
  BY DEF Window
<1>1. CASE RejectIdle
  <2>1. commands # <<>> /\ commands' = Tail(commands)
        /\ SendReply(Head(commands), "rejected", 0)
    BY <1>1 DEF RejectIdle, RejectCommand
  <2>2. stage' = "none"
    BY <1>1 DEF RejectIdle, managerVars, SessionInv, BusyManagerServes
  <2> QED
    BY <1>0, <2>1, <2>2, HeadWindow, ReplyWindow, ManagerFrame
<1>2. CASE Receive
  <2>1. commands # <<>> /\ commands' = Tail(commands)
        /\ hand' = Head(commands) /\ replies' = replies
    BY <1>2 DEF Receive
  <2> QED
    BY <1>0, <1>r, <2>1, HeadWindow, ManagerFrame
<1>3. CASE RejectReceived \/ Complete \/ OpenBridge \/ RefuseOpen \/ CloseBridge
  <2>1. stage # "none" /\ commands' = commands /\ stage' = "none"
    BY <1>3 DEF RejectReceived, Complete, OpenBridge, RefuseOpen, CloseBridge,
      Finish
  <2>2. PICK kind, opened : SendReply(hand, kind, opened)
    BY <1>3 DEF RejectReceived, RejectCommand, Complete, OpenBridge,
      RefuseOpen, CloseBridge
  <2> QED
    BY <1>0, <1>c, <2>1, <2>2, HandWindow, ReplyWindow, ManagerFrame
<1>4. CASE Transfer \/ CheckBridgeCommand
  <2>1. stage # "none" /\ UNCHANGED <<commands, replies, hand>>
    BY <1>4 DEF Transfer, CheckBridgeCommand
  <2> QED
    BY <1>0, <1>c, <1>h, <1>r, <2>1, ManagerFrame
<1>5. CASE EndBridge
  <2>1. stage' = "none" /\ UNCHANGED <<commands, replies>>
    BY <1>5 DEF EndBridge, Finish
  <2> QED
    BY <1>0, <1>c, <1>r, <2>1, ManagerFrame
<1> QED BY <1>1, <1>2, <1>3, <1>4, <1>5 DEF ManagerNext

\* What leaves the callers, the channels and the manager alone keeps it too.
LEMMA SessionStepWindow ==
  ASSUME TypeOK, Window, UNCHANGED <<callerVars, commands, replies, managerVars,
                                     bridgeVars, historyVars>>
  PROVE  Window'
BY DEF Window, Traced, HolderAt, Unsent, callerVars, managerVars, bridgeVars,
  historyVars

\* The window is empty at first.
LEMMA InitWindow == Init => Window
<1> SUFFICES ASSUME Init PROVE Window
  OBVIOUS
<1>1. SeqMod \in Nat /\ SeqMod > 0
  BY RpcAssumption, SMT
<1>2. 0 % SeqMod = 0
  BY <1>1, SMT
<1>3. pc[Bridge] = "idle"
  BY BridgeIsCaller DEF Init
<1> QED BY <1>2, <1>3 DEF Init, Window

\* No more calls than there are sequence numbers are ever in flight.
THEOREM InFlightWindow == Spec => []Window
<1>1. TypeOK /\ OneCaller /\ SessionInv /\ Window /\ [Next]_vars => Window'
  <2> SUFFICES ASSUME TypeOK, OneCaller, SessionInv, Window, [Next]_vars
               PROVE  Window'
    OBVIOUS
  <2>1. CASE \E c \in Callers : CallerNext(c) BY <2>1, CallerWindow
  <2>2. CASE Abandon BY <2>2, AbandonWindow
  <2>3. CASE ManagerNext BY <2>3, ManagerWindow
  <2>4. CASE SessionStep BY <2>4, SessionStepWindow DEF SessionStep
  <2>5. CASE UNCHANGED vars BY <2>5, SessionStepWindow DEF vars
  <2> QED BY <2>1, <2>2, <2>3, <2>4, <2>5 DEF Next
<1> QED
  BY InitWindow, TypeCorrect, Exclusion, SessionInvHolds, <1>1, PTL DEF Spec

\* Whatever was given up before, a reply with the sequence number the holder
\* waits for answers the holder's own command.
THEOREM Correlation == Spec => []RepliesMatchCalls
<1>1. TypeOK /\ OneCaller /\ Window => RepliesMatchCalls
  <2> SUFFICES ASSUME TypeOK, OneCaller, Window, NEW c \in Callers,
                      pc[c] \in {"send", "wait"}, NEW i \in 1..Len(replies),
                      replies[i].sequence = sequence
               PROVE  /\ replies[i].call = admitted
                      /\ replies[i].operation = op[c]
    BY DEF RepliesMatchCalls
  <2>1. lock = c /\ HolderAt = pc[c]
    BY HolderState DEF InCall
  <2>2. replies[i].call \in Nat /\ admitted \in Nat
    <3>1. replies[i] \in Replies
      BY DEF TypeOK
    <3> QED BY <3>1 DEF Replies, TypeOK
  <2>3. /\ Traced(replies[i])
        /\ replies[i].call + 2 * Capacity + 2 >= admitted
        /\ sequence = admitted % SeqMod
    BY <2>1 DEF Window
  <2>4. /\ replies[i].call <= admitted
        /\ replies[i].call % SeqMod = admitted % SeqMod
    BY <2>3 DEF Traced
  <2>5. SeqMod \in Nat /\ SeqMod > 0 /\ admitted - replies[i].call < SeqMod
    BY <2>2, <2>3, RpcAssumption, SMT
  <2>6. replies[i].call = admitted
    BY <2>2, <2>4, <2>5, ModInj
  <2>7. pc[c] = "wait"
    BY <2>1, <2>2, <2>3, <2>6, SMT DEF Traced
  <2> QED BY <2>1, <2>3, <2>6, <2>7 DEF Traced
<1> QED
  BY TypeCorrect, Exclusion, InFlightWindow, <1>1, PTL
-----------------------------------------------------------------------------
(* The calls as their callers see them.                                    *)

\* A command the device has not been asked for, and that was not turned away.
Unasked(n) == n \in 1..admitted /\ n \notin performed \cup rejected

\* A reply says what has become of its call.
Truthful(reply) ==
  /\ reply.kind \in {"ok", "failed"} => reply.call \in performed
  /\ reply.kind = "rejected" => reply.call \in rejected

RepliesTruthful == \A i \in 1..Len(replies) : Truthful(replies[i])

\* Every command on its way is of a call of its own that is still to be dealt
\* with, and every reply of one that has been.
CommandsUnasked ==
  /\ \A i \in 1..Len(commands) : Unasked(commands[i].call)
  /\ \A i, j \in 1..Len(commands) :
       i # j => commands[i].call # commands[j].call

HandUnasked ==
  /\ stage \in {"received", "current"} =>
       /\ Unasked(hand.call)
       /\ \A i \in 1..Len(commands) : commands[i].call # hand.call
  /\ stage = "transfer" => hand.call \in performed

Accounted ==
  /\ performed \cup rejected \subseteq 1..admitted
  /\ HolderAt \in Pending => admitted # 0
  /\ HolderAt \in {"drain", "send"} => Unasked(admitted)
  /\ CommandsUnasked
  /\ HandUnasked
  /\ RepliesTruthful

\* A step that moves no command, and does not make the holder's position
\* stricter.
LEMMA AccountKept ==
  ASSUME TypeOK, Accounted,
         UNCHANGED <<commands, hand, stage, performed, rejected, admitted>>,
         \/ replies' = replies
         \/ replies' = <<>>
         \/ replies # <<>> /\ replies' = Tail(replies),
         HolderAt' \in Pending => HolderAt \in Pending,
         HolderAt' \in {"drain", "send"} => HolderAt \in {"drain", "send"}
  PROVE  Accounted'
<1>1. ASSUME NEW i \in 1..Len(replies')
      PROVE  Truthful(replies[i])'
  <2>1. CASE replies' = replies
    BY <1>1, <2>1 DEF Accounted, RepliesTruthful, Truthful
  <2>2. CASE replies # <<>> /\ replies' = Tail(replies)
    <3>1. i + 1 \in 1..Len(replies) /\ replies'[i] = replies[i + 1]
      BY <1>1, <2>2, SMT DEF TypeOK
    <3> QED BY <3>1 DEF Accounted, RepliesTruthful, Truthful
  <2>3. CASE replies' = <<>>
    BY <1>1, <2>3
  <2> QED BY <2>1, <2>2, <2>3
<1> QED
  BY <1>1 DEF Accounted, RepliesTruthful, CommandsUnasked, HandUnasked, Unasked

\* A new call is of a number that has not been used.
LEMMA AdmitAccount ==
  ASSUME TypeOK, Accounted, NEW c \in Callers, Admit(c)
  PROVE  Accounted'
<1>1. admitted \in Nat /\ admitted' = admitted + 1
  BY DEF Admit, TypeOK
<1>2. /\ performed \cup rejected \subseteq 1..admitted
      /\ UNCHANGED <<performed, rejected, commands, hand, stage, replies>>
  BY DEF Admit, Accounted, managerVars
<1>3. \A n : Unasked(n) => Unasked(n)'
  BY <1>1, <1>2, SMT DEF Unasked
<1>4. Unasked(admitted)'
  BY <1>1, <1>2, SMT DEF Unasked
<1>5. (performed \cup rejected \subseteq 1..admitted)' /\ admitted' # 0
  BY <1>1, <1>2, SMT
<1>6. CommandsUnasked' /\ HandUnasked'
  BY <1>2, <1>3 DEF Accounted, CommandsUnasked, HandUnasked
<1>7. RepliesTruthful'
  BY <1>2 DEF Accounted, RepliesTruthful, Truthful
<1> QED BY <1>4, <1>5, <1>6, <1>7 DEF Accounted

\* The holder's call is younger than every command on its way.
LEMMA HolderIsYoungest ==
  ASSUME TypeOK, Window, HolderAt \in {"drain", "send"}
  PROVE  /\ admitted \in Nat
         /\ \A i \in 1..Len(commands) : commands[i].call # admitted
         /\ stage # "none" => hand.call # admitted
<1>1. ASSUME NEW n \in Nat, n < admitted PROVE n # admitted
  BY <1>1, SMT DEF TypeOK
<1>2. ASSUME NEW i \in 1..Len(commands)
      PROVE  commands[i].call \in Nat /\ commands[i].call < admitted
  <2>1. commands[i] \in Commands
    BY <1>2 DEF TypeOK
  <2> QED BY <1>2, <2>1 DEF Window, Traced, Commands
<1>3. hand.call \in Nat /\ (stage # "none" => hand.call < admitted)
  BY DEF Window, Traced, TypeOK, Commands
<1> QED BY <1>1, <1>2, <1>3 DEF TypeOK

\* A command is sent once.
LEMMA SendAccount ==
  ASSUME TypeOK, OneCaller, Window, Accounted, NEW c \in Callers, Send(c)
  PROVE  Accounted'
<1> DEFINE new == [sequence |-> sequence, generation |-> snapshot,
                   operation |-> op[c], session |-> session, call |-> admitted]
<1>1. HolderAt = "send" /\ HolderAt' = "wait"
  BY HolderState, HolderMoves DEF Send, InCall
<1>2. /\ UNCHANGED <<performed, rejected, admitted, hand, stage, replies>>
      /\ commands' = Append(commands, new)
  BY DEF Send, managerVars, historyVars
<1>3. new.call = admitted
  OBVIOUS
<1> HIDE DEF new
<1>4. /\ Len(commands) \in Nat /\ Len(commands') = Len(commands) + 1
      /\ \A i \in 1..Len(commands) : commands'[i] = commands[i]
      /\ commands'[Len(commands) + 1] = new
  BY <1>2 DEF TypeOK
<1>5. \A n : Unasked(n)' <=> Unasked(n)
  BY <1>2 DEF Unasked
<1>6. ASSUME NEW i \in 1..Len(commands')
      PROVE  i \in 1..Len(commands) \/ i = Len(commands) + 1
  BY <1>4, <1>6, SMT
<1>7. /\ Unasked(admitted)
      /\ \A i \in 1..Len(commands) : commands[i].call # admitted
      /\ stage # "none" => hand.call # admitted
  BY <1>1, HolderIsYoungest DEF Accounted
<1>8. CommandsUnasked'
  BY <1>3, <1>4, <1>5, <1>6, <1>7 DEF Accounted, CommandsUnasked
<1>9. HandUnasked'
  BY <1>2, <1>3, <1>4, <1>5, <1>6, <1>7 DEF Accounted, HandUnasked
<1>10. RepliesTruthful'
  BY <1>2 DEF Accounted, RepliesTruthful, Truthful
<1> QED BY <1>1, <1>2, <1>8, <1>9, <1>10 DEF Accounted, Pending

\* A step of send_command keeps the account.
LEMMA CallerAccount ==
  ASSUME TypeOK, OneCaller, Window, Accounted, NEW c \in Callers, CallerNext(c)
  PROVE  Accounted'
<1>0. /\ pc \in [Callers -> CallerStates]
      /\ NoCaller \notin Callers
  BY RpcAssumption DEF TypeOK
<1>1. CASE \E o \in Operations : StartCall(c, o)
  <2>1. lock # c
    BY <1>1, HolderState DEF StartCall, InCall
  <2>2. HolderAt' = HolderAt
    BY <1>0, <1>1, <2>1 DEF StartCall, HolderAt, TypeOK
  <2> QED
    BY <1>1, <2>2, AccountKept DEF StartCall, managerVars, historyVars
<1>2. CASE Acquire(c)
  <2>1. HolderAt' = "check"
    BY <1>0, <1>2 DEF Acquire, HolderAt
  <2> QED
    BY <1>2, <2>1, AccountKept DEF Pending, Acquire, managerVars, historyVars
<1>3. CASE Refuse(c)
  BY <1>3, HolderReturned, AccountKept DEF Pending, Refuse, managerVars, historyVars
<1>4. CASE Admit(c)
  BY <1>4, AdmitAccount
<1>5. CASE Drain(c)
  <2>1. HolderAt = "drain"
    BY <1>5, HolderState DEF Drain, InCall
  <2> QED
    BY <1>5, <2>1, AccountKept DEF Drain, Pending, managerVars, historyVars
<1>6. CASE Send(c)
  BY <1>6, SendAccount
<1>7. CASE DropReply(c)
  <2>1. HolderAt' = HolderAt
    BY <1>7 DEF DropReply, callerVars, HolderAt
  <2> QED
    BY <1>7, <2>1, AccountKept DEF DropReply, managerVars, historyVars
<1>8. CASE TakeReply(c)
  BY <1>8, HolderReturned, AccountKept DEF Pending, TakeReply, managerVars
<1>9. CASE Expire(c)
  BY <1>9, HolderReturned, AccountKept DEF Pending, Expire, managerVars
<1> QED
  BY <1>1, <1>2, <1>3, <1>4, <1>5, <1>6, <1>7, <1>8, <1>9 DEF CallerNext

\* A close that is given up leaves its command where it is.
LEMMA AbandonAccount ==
  ASSUME TypeOK, Accounted, Abandon
  PROVE  Accounted'
<1>1. /\ HolderAt' \in Pending => HolderAt \in Pending
      /\ HolderAt' \in {"drain", "send"} => HolderAt \in {"drain", "send"}
  <2>1. CASE lock = Bridge
    BY <2>1 DEF Abandon, HolderAt, Pending
  <2>2. CASE lock # Bridge
    BY <2>2 DEF Abandon, HolderAt, TypeOK
  <2> QED BY <2>1, <2>2
<1> QED BY <1>1, AccountKept DEF Abandon, managerVars

\* What has become of a call does not change any more.
LEMMA ReplyTruthful ==
  ASSUME TypeOK, Accounted, NEW command, NEW kind, NEW opened,
         SendReply(command, kind, opened),
         performed \subseteq performed', rejected \subseteq rejected',
         kind \in {"ok", "failed"} => command.call \in performed',
         kind = "rejected" => command.call \in rejected'
  PROVE  RepliesTruthful'
<1> DEFINE new == [sequence |-> command.sequence,
                   operation |-> command.operation, kind |-> kind,
                   session |-> opened, call |-> command.call]
<1>1. Truthful(new)'
  BY DEF Truthful
<1>2. \A m : Truthful(m) => Truthful(m)'
  BY DEF Truthful
<1>3. replies' = replies \/ replies' = Append(replies, new)
  BY DEF SendReply
<1> HIDE DEF new
<1>4. ASSUME NEW i \in 1..Len(replies')
      PROVE  (i \in 1..Len(replies) /\ replies'[i] = replies[i]) \/ replies'[i] = new
  BY <1>3, <1>4, SMT DEF TypeOK
<1> QED BY <1>1, <1>2, <1>4 DEF Accounted, RepliesTruthful

\* The command in hand has been dealt with, one way or the other.
LEMMA HandDealtWith ==
  ASSUME TypeOK, Window, Accounted, stage \in {"received", "current"},
         UNCHANGED <<callerVars, admitted, commands>>,
         \/ performed' = performed \cup {hand.call} /\ rejected' = rejected
         \/ performed' = performed /\ rejected' = rejected \cup {hand.call},
         \/ stage' = "none"
         \/ stage' = "transfer" /\ hand' = hand /\ hand.call \in performed',
         RepliesTruthful'
  PROVE  Accounted'
<1>1. HolderAt' = HolderAt
  BY DEF callerVars, HolderAt
<1>2. /\ Unasked(hand.call)
      /\ \A i \in 1..Len(commands) : commands[i].call # hand.call
  BY DEF Accounted, HandUnasked
<1>3. \A n : Unasked(n) /\ n # hand.call => Unasked(n)'
  BY DEF Unasked
<1>4. HolderAt' \in {"drain", "send"} => Unasked(admitted)'
  BY <1>1, <1>3, HolderIsYoungest DEF Accounted
<1>5. CommandsUnasked'
  BY <1>2, <1>3 DEF Accounted, CommandsUnasked
<1>6. HandUnasked'
  BY DEF HandUnasked
<1>7. (performed \cup rejected \subseteq 1..admitted)'
  BY <1>2 DEF Accounted, Unasked
<1> QED BY <1>1, <1>4, <1>5, <1>6, <1>7 DEF Accounted

\* The first command leaves the channel.
LEMMA HeadUnasked ==
  ASSUME TypeOK, Window, Accounted, commands # <<>>
  PROVE  /\ Unasked(Head(commands).call)
         /\ HolderAt \in {"drain", "send"} => Head(commands).call # admitted
         /\ stage \in {"received", "current"} => Head(commands).call # hand.call
         /\ \A i \in 1..Len(Tail(commands)) :
              /\ Unasked(Tail(commands)[i].call)
              /\ Tail(commands)[i].call # Head(commands).call
              /\ stage \in {"received", "current"}
                   => Tail(commands)[i].call # hand.call
         /\ \A i, j \in 1..Len(Tail(commands)) :
              i # j => Tail(commands)[i].call # Tail(commands)[j].call
<1>1. Head(commands) = commands[1] /\ 1 \in 1..Len(commands)
  BY SMT DEF TypeOK
<1>2. ASSUME NEW i \in 1..Len(Tail(commands))
      PROVE  /\ i + 1 \in 1..Len(commands) /\ i + 1 # 1
             /\ Tail(commands)[i] = commands[i + 1]
  BY <1>2, SMT DEF TypeOK
<1>3. ASSUME NEW i \in 1..Len(Tail(commands)), NEW j \in 1..Len(Tail(commands)),
             i # j
      PROVE  i + 1 # j + 1
  BY <1>3, SMT
<1> QED
  BY <1>1, <1>2, <1>3, HolderIsYoungest
  DEF Accounted, CommandsUnasked, HandUnasked

\* A step of the manager keeps the account.
LEMMA ManagerAccount ==
  ASSUME TypeOK, SessionInv, Window, Accounted, ManagerNext
  PROVE  Accounted'
<1>1. CASE RejectIdle
  <2>1. /\ UNCHANGED <<callerVars, hand, stage, performed, admitted>>
        /\ commands # <<>> /\ commands' = Tail(commands)
        /\ rejected' = rejected \cup {Head(commands).call}
        /\ SendReply(Head(commands), "rejected", 0)
    BY <1>1 DEF RejectIdle, RejectCommand, managerVars
  <2>2. HolderAt' = HolderAt
    BY <2>1 DEF callerVars, HolderAt
  <2>3. \A n : Unasked(n) /\ n # Head(commands).call => Unasked(n)'
    BY <2>1 DEF Unasked
  <2>4. RepliesTruthful'
    BY <2>1, ReplyTruthful
  <2>5. CommandsUnasked'
    BY <2>1, <2>3, HeadUnasked DEF CommandsUnasked
  <2>6. HandUnasked'
    BY <2>1, <2>3, HeadUnasked DEF Accounted, HandUnasked
  <2>7. HolderAt' \in {"drain", "send"} => Unasked(admitted)'
    BY <2>1, <2>2, <2>3, HeadUnasked DEF Accounted
  <2>8. (performed \cup rejected \subseteq 1..admitted)'
    BY <2>1, HeadUnasked DEF Accounted, Unasked
  <2> QED BY <2>1, <2>2, <2>4, <2>5, <2>6, <2>7, <2>8 DEF Accounted
<1>2. CASE Receive
  <2>1. /\ UNCHANGED <<callerVars, performed, rejected, admitted, replies>>
        /\ commands # <<>> /\ commands' = Tail(commands)
        /\ hand' = Head(commands) /\ stage' = "received"
    BY <1>2 DEF Receive, historyVars
  <2>2. HolderAt' = HolderAt
    BY <2>1 DEF callerVars, HolderAt
  <2>3. \A n : Unasked(n)' <=> Unasked(n)
    BY <2>1 DEF Unasked
  <2>4. CommandsUnasked' /\ HandUnasked'
    BY <2>1, <2>3, HeadUnasked DEF CommandsUnasked, HandUnasked
  <2> QED BY <2>1, <2>2, <2>3, <2>4 DEF Accounted, RepliesTruthful, Truthful
<1>3. CASE RejectReceived \/ RefuseOpen
  <2>1. /\ UNCHANGED <<callerVars, admitted, commands, performed>>
        /\ stage \in {"received", "current"} /\ stage' = "none"
        /\ rejected' = rejected \cup {hand.call}
        /\ SendReply(hand, "rejected", 0)
    BY <1>3 DEF RejectReceived, RefuseOpen, RejectCommand, Finish
  <2>2. RepliesTruthful'
    BY <2>1, ReplyTruthful
  <2> QED BY <2>1, <2>2, HandDealtWith
<1>4. CASE OpenBridge \/ CloseBridge
  <2>1. /\ UNCHANGED <<callerVars, admitted, commands, rejected>>
        /\ stage = "current" /\ stage' = "none"
        /\ performed' = performed \cup {hand.call}
    BY <1>4 DEF OpenBridge, CloseBridge, Finish
  <2>2. PICK kind \in {"ok", "failed"}, opened \in {0, nextSession + 1} : SendReply(hand, kind, opened)
    BY <1>4 DEF OpenBridge, CloseBridge
  <2>3. RepliesTruthful'
    BY <2>1, <2>2, ReplyTruthful
  <2> QED BY <2>1, <2>3, HandDealtWith
<1>5. CASE Transfer
  <2>1. /\ UNCHANGED <<callerVars, admitted, commands, rejected, replies, hand>>
        /\ stage = "received" /\ stage' = "transfer"
        /\ performed' = performed \cup {hand.call}
    BY <1>5 DEF Transfer
  <2>2. RepliesTruthful'
    BY <2>1 DEF Accounted, RepliesTruthful, Truthful
  <2> QED BY <2>1, <2>2, HandDealtWith
<1>6. CASE Complete \/ EndBridge \/ CheckBridgeCommand
  <2>1. /\ UNCHANGED <<callerVars, admitted, commands, performed, rejected>>
        /\ \/ stage' = "none"
           \/ stage = "received" /\ stage' = "current" /\ hand' = hand
    BY <1>6 DEF Complete, EndBridge, CheckBridgeCommand, Finish, historyVars
  <2>2. HolderAt' = HolderAt
    BY <2>1 DEF callerVars, HolderAt
  <2>3. \A n : Unasked(n)' <=> Unasked(n)
    BY <2>1 DEF Unasked
  <2>4. RepliesTruthful'
    <3>1. CASE replies' = replies
      BY <2>1, <3>1 DEF Accounted, RepliesTruthful, Truthful
    <3>2. CASE Complete
      <4>1. PICK kind \in {"ok", "failed"} : SendReply(hand, kind, 0)
        BY <3>2 DEF Complete
      <4>2. hand.call \in performed
        BY <3>2 DEF Complete, Accounted, HandUnasked
      <4> QED BY <2>1, <4>1, <4>2, ReplyTruthful
    <3> QED BY <1>6, <3>1, <3>2 DEF EndBridge, CheckBridgeCommand
  <2>5. CommandsUnasked' /\ HandUnasked'
    BY <2>1, <2>3 DEF Accounted, CommandsUnasked, HandUnasked
  <2> QED BY <2>1, <2>2, <2>3, <2>4, <2>5 DEF Accounted
<1> QED
  BY <1>1, <1>2, <1>3, <1>4, <1>5, <1>6 DEF ManagerNext

\* Accounted holds throughout.
LEMMA AccountedHolds == Spec => []Accounted
<1>1. Init => Accounted
  BY DEF Init, Accounted, CommandsUnasked, HandUnasked, RepliesTruthful, HolderAt,
    Pending
<1>2. TypeOK /\ OneCaller /\ SessionInv /\ Window /\ Accounted /\ [Next]_vars
        => Accounted'
  <2> SUFFICES ASSUME TypeOK, OneCaller, SessionInv, Window, Accounted,
                      [Next]_vars
               PROVE  Accounted'
    OBVIOUS
  <2>1. CASE \E c \in Callers : CallerNext(c) BY <2>1, CallerAccount
  <2>2. CASE Abandon BY <2>2, AbandonAccount
  <2>3. CASE ManagerNext BY <2>3, ManagerAccount
  <2>4. CASE UNCHANGED <<callerVars, commands, replies, managerVars, historyVars>>
    BY <2>4, AccountKept DEF callerVars, managerVars, historyVars, HolderAt
  <2> QED
    BY <2>1, <2>2, <2>3, <2>4 DEF Next, SessionStep, vars
<1> QED
  BY TypeCorrect, Exclusion, SessionInvHolds, InFlightWindow, <1>1, <1>2, PTL
  DEF Spec

\* The call each caller waits for.
Waiting == [c \in Callers |-> IF pc[c] \in Pending THEN admitted ELSE 0]

\* A step that neither begins nor ends a call.
LEMMA WaitingKept ==
  ASSUME \/ UNCHANGED <<pc, admitted>>
         \/ /\ UNCHANGED admitted
            /\ pc \in [Callers -> CallerStates]
            /\ \E c \in Callers, p \in CallerStates :
                 /\ pc' = [pc EXCEPT ![c] = p]
                 /\ pc[c] \in Pending <=> p \in Pending
  PROVE  Waiting' = Waiting
BY DEF Waiting

\* The answer of the one caller that waits for the call.
LEMMA AnswerImplements ==
  ASSUME TypeOK, Accounted, NEW c \in Callers, NEW kind,
         kind \in {"ok", "failed", "rejected", "timeout"},
         pc[c] \in Pending, HolderAt = pc[c],
         admitted \in Nat \ {0},
         pc' = [pc EXCEPT ![c] = "idle"],
         kind \in {"ok", "failed"} => admitted \in performed,
         kind = "rejected" => admitted \in rejected,
         answer' = [answer EXCEPT ![c] = [call |-> admitted, kind |-> kind]],
         UNCHANGED <<admitted, performed, rejected>>
  PROVE  Calls!Next
<1>1. Waiting[c] = admitted /\ Waiting' = [Waiting EXCEPT ![c] = 0]
  BY DEF Waiting, TypeOK, Pending
<1>2. Calls!Answer(c, kind)
  BY <1>1 DEF Calls!Answer, Waiting
<1> QED BY <1>2 DEF Calls!Next, Calls!AnswerKinds

\* A caller that waits for a call is the lock holder, and has made one.
LEMMA PendingIsCall ==
  ASSUME TypeOK, OneCaller, Accounted, NEW c \in Callers, pc[c] \in Pending
  PROVE  HolderAt = pc[c] /\ admitted \in Nat \ {0}
BY HolderState DEF Accounted, TypeOK, Pending, InCall

\* A step of send_command begins a call, answers one, or is hidden.
LEMMA CallerImplements ==
  ASSUME TypeOK, OneCaller, Window, RepliesMatchCalls, Accounted,
         NEW c \in Callers, CallerNext(c)
  PROVE  [Calls!Next]_Calls!rpcVars
<1>0. pc \in [Callers -> CallerStates]
  BY DEF TypeOK
<1>1. CASE UNCHANGED historyVars /\ Waiting' = Waiting
  BY <1>1 DEF historyVars, Waiting, Calls!rpcVars
<1>2. CASE \/ \E o \in Operations : StartCall(c, o)
           \/ Acquire(c) \/ Refuse(c) \/ Drain(c) \/ Send(c)
  <2>1. UNCHANGED historyVars
    BY <1>2 DEF StartCall, Acquire, Refuse, Drain, Send
  <2>2. \E p \in CallerStates :
          /\ pc' = [pc EXCEPT ![c] = p]
          /\ pc[c] \in Pending <=> p \in Pending
    BY <1>2 DEF StartCall, Acquire, Refuse, Return, Drain, Send, Pending,
      CallerStates
  <2> QED BY <1>0, <1>1, <2>1, <2>2, WaitingKept DEF historyVars
<1>3. CASE DropReply(c)
  BY <1>1, <1>3, WaitingKept DEF DropReply, callerVars, historyVars
<1>4. CASE Admit(c)
  <2>1. \A d \in Callers \ {c} : pc[d] \notin Pending
    BY <1>4 DEF Admit, OneCaller, InCall, Pending
  <2>2. Waiting[c] = 0 /\ Waiting' = [Waiting EXCEPT ![c] = admitted + 1]
    BY <1>0, <1>4, <2>1 DEF Admit, Waiting, Pending
  <2>3. Calls!Admit(c)
    BY <1>4, <2>2 DEF Admit, Waiting, Calls!Admit
  <2> QED BY <2>3 DEF Calls!Next
<1>5. CASE TakeReply(c)
  <2> DEFINE reply == Head(replies)
  <2>1. reply = replies[1] /\ 1 \in 1..Len(replies) /\ reply \in Replies
    BY <1>5, SMT DEF TakeReply, TypeOK
  <2>2. reply.call = admitted /\ Truthful(reply)
    BY <1>5, <2>1 DEF TakeReply, RepliesMatchCalls, Accounted, RepliesTruthful
  <2>3. reply.kind \in {"ok", "failed", "rejected"}
    BY <2>1 DEF Replies, ReplyKinds
  <2>4. pc[c] \in Pending
    BY <1>5 DEF TakeReply, Pending
  <2> QED
    BY <1>5, <2>2, <2>3, <2>4, PendingIsCall, AnswerImplements
    DEF TakeReply, Return, Truthful
<1>6. CASE Expire(c)
  <2>1. pc[c] \in Pending
    BY <1>6 DEF Expire, Pending
  <2> QED
    BY <1>6, <2>1, PendingIsCall, AnswerImplements DEF Expire, Return
<1> QED
  BY <1>2, <1>3, <1>4, <1>5, <1>6 DEF CallerNext

\* A close that is given up once it has its number is timed out for its caller.
LEMMA AbandonImplements ==
  ASSUME TypeOK, OneCaller, Accounted, Abandon
  PROVE  [Calls!Next]_Calls!rpcVars
<1>1. CASE pc[Bridge] \in Pending
  BY <1>1, BridgeIsCaller, PendingIsCall, AnswerImplements DEF Abandon
<1>2. CASE pc[Bridge] \notin Pending
  <2>1. Waiting' = Waiting
    <3>1. "idle" \in CallerStates \ Pending
      BY DEF CallerStates, Pending
    <3> QED BY <1>2, <3>1, BridgeIsCaller, WaitingKept DEF Abandon, TypeOK
  <2> QED BY <1>2, <2>1 DEF Abandon, Waiting, Calls!rpcVars
<1> QED BY <1>1, <1>2

\* The device is asked for a call, or the call is turned away, once.
LEMMA DealImplements ==
  ASSUME NEW n, Unasked(n), UNCHANGED <<pc, admitted, answer>>,
         \/ performed' = performed \cup {n} /\ rejected' = rejected
         \/ performed' = performed /\ rejected' = rejected \cup {n}
  PROVE  Calls!Next
<1>1. Waiting' = Waiting
  BY WaitingKept
<1>2. Calls!Perform(n) \/ Calls!Reject(n)
  BY <1>1 DEF Unasked, Waiting, Calls!Perform, Calls!Reject
<1> QED BY <1>2 DEF Unasked, Calls!Next

\* A step of the manager deals with a call, or is hidden.
LEMMA ManagerImplements ==
  ASSUME TypeOK, Window, Accounted, ManagerNext
  PROVE  [Calls!Next]_Calls!rpcVars
<1>1. CASE RejectIdle
  BY <1>1, HeadUnasked, DealImplements DEF RejectIdle, RejectCommand, callerVars
<1>2. CASE RejectReceived \/ Transfer \/ OpenBridge \/ RefuseOpen \/ CloseBridge
  <2>1. Unasked(hand.call)
    BY <1>2 DEF RejectReceived, Transfer, OpenBridge, RefuseOpen, CloseBridge,
      Accounted, HandUnasked
  <2> QED
    BY <1>2, <2>1, DealImplements
    DEF RejectReceived, RejectCommand, Transfer, OpenBridge, RefuseOpen,
      CloseBridge, callerVars
<1>3. CASE Receive \/ Complete \/ CheckBridgeCommand \/ EndBridge
  <2>1. UNCHANGED <<pc, historyVars>>
    BY <1>3 DEF Receive, Complete, CheckBridgeCommand, EndBridge, callerVars
  <2> QED BY <2>1, WaitingKept DEF historyVars, Waiting, Calls!rpcVars
<1> QED BY <1>1, <1>2, <1>3 DEF ManagerNext

\* What a caller of send_command is promised: its call is performed at most
\* once, or is turned away and then never performed, and the answer it gets is
\* that of its own call.
THEOREM CallsAreAnswered == Spec => ImplementsRpc
<1>1. Init => Calls!Init
  <2> SUFFICES ASSUME Init PROVE Calls!Init
    OBVIOUS
  <2>1. Waiting = [c \in Callers |-> 0]
    BY DEF Init, Waiting, Pending
  <2> QED BY <2>1 DEF Init, Waiting, Calls!Init
<1>2. /\ TypeOK /\ OneCaller /\ Window /\ RepliesMatchCalls /\ Accounted
      /\ [Next]_vars
      => [Calls!Next]_Calls!rpcVars
  <2> SUFFICES ASSUME TypeOK, OneCaller, Window, RepliesMatchCalls, Accounted,
                      [Next]_vars
               PROVE  [Calls!Next]_Calls!rpcVars
    OBVIOUS
  <2>1. CASE \E c \in Callers : CallerNext(c)
    BY <2>1, CallerImplements
  <2>2. CASE Abandon
    BY <2>2, AbandonImplements
  <2>3. CASE ManagerNext
    BY <2>3, ManagerImplements
  <2>4. CASE UNCHANGED <<pc, historyVars>>
    BY <2>4, WaitingKept DEF historyVars, Waiting, Calls!rpcVars
  <2> QED
    BY <2>1, <2>2, <2>3, <2>4 DEF Next, SessionStep, vars, callerVars
<1> QED
  BY TypeCorrect, Exclusion, InFlightWindow, Correlation, AccountedHolds,
    <1>1, <1>2, PTL DEF Spec, ImplementsRpc, Calls!Spec
=============================================================================
