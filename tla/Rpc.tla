--------------------------------- MODULE Rpc ---------------------------------
(***************************************************************************)
(* What a caller of usb_host::send_command is promised.  A call that has   *)
(* been admitted is performed by the attached device at most once, or is   *)
(* rejected and then never performed.  The answer its caller gets is its   *)
(* own: "ok" and "failed" say that the device was asked, "rejected" that   *)
(* it never will be, "timeout" nothing at all, because a call that was     *)
(* given up may still be performed later.                                  *)
(***************************************************************************)
EXTENDS Naturals

CONSTANT Callers

VARIABLES
  admitted,   \* number of calls admitted so far; calls are 1..admitted
  pending,    \* the call each caller waits for, 0 when it waits for none
  performed,  \* calls the device was asked to perform
  rejected,   \* calls the host manager turned away
  answer      \* the last answer each caller got

rpcVars == <<admitted, pending, performed, rejected, answer>>

AnswerKinds == {"none", "ok", "failed", "rejected", "timeout"}

Init ==
  /\ admitted = 0
  /\ pending = [c \in Callers |-> 0]
  /\ performed = {}
  /\ rejected = {}
  /\ answer = [c \in Callers |-> [call |-> 0, kind |-> "none"]]

Admit(c) ==
  /\ pending[c] = 0
  /\ admitted' = admitted + 1
  /\ pending' = [pending EXCEPT ![c] = admitted + 1]
  /\ UNCHANGED <<performed, rejected, answer>>

Perform(n) ==
  /\ n \in 1..admitted
  /\ n \notin performed \cup rejected
  /\ performed' = performed \cup {n}
  /\ UNCHANGED <<admitted, pending, rejected, answer>>

Reject(n) ==
  /\ n \in 1..admitted
  /\ n \notin performed \cup rejected
  /\ rejected' = rejected \cup {n}
  /\ UNCHANGED <<admitted, pending, performed, answer>>

Answer(c, kind) ==
  /\ pending[c] # 0
  /\ kind \in {"ok", "failed"} => pending[c] \in performed
  /\ kind = "rejected" => pending[c] \in rejected
  /\ answer' = [answer EXCEPT ![c] = [call |-> pending[c], kind |-> kind]]
  /\ pending' = [pending EXCEPT ![c] = 0]
  /\ UNCHANGED <<admitted, performed, rejected>>

Next ==
  \/ \E c \in Callers : Admit(c)
  \/ \E n \in 1..admitted : Perform(n) \/ Reject(n)
  \/ \E c \in Callers, kind \in AnswerKinds \ {"none"} : Answer(c, kind)

Spec == Init /\ [][Next]_rpcVars
=============================================================================
