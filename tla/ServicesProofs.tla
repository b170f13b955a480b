--------------------------- MODULE ServicesProofs ----------------------------
(***************************************************************************)
(* Proofs about the services of core 0: the sensor bus with its registry, the *)
(* CAN bus, and the composition with the web apps.                         *)
(*                                                                         *)
(* The channels: what is on its way answers consecutive calls, the last one *)
(* included if somebody waits for it, and is as much as the calls given up *)
(* and the one waited for.  The registry: a device is wired, awake and alone *)
(* at its address, its settings are its own.  The frames: the channel holds *)
(* the last ones, and what waits for a subscriber is exactly what came after *)
(* the last one it got.                                                    *)
(***************************************************************************)
EXTENDS MCServices, AppStoreProofs, WellFoundedInduction

-----------------------------------------------------------------------------
(* Queues.                                                                 *)

\* A queue is a sequence of something.
IsQueue(q) == \E S : q \in Seq(S)

\* The empty queue.
LEMMA QueueEmpty ==
  IsQueue(<<>>) /\ Len(<<>>) = 0
BY DEF IsQueue

\* The length of a queue is a number, and its places go from 1 to its length.
LEMMA QueueLen ==
  ASSUME NEW q, IsQueue(q)
  PROVE  Len(q) \in Nat /\ (Len(q) = 0 <=> q = <<>>) /\ DOMAIN q = 1..Len(q)
BY DEF IsQueue

\* A queue with one more element.
LEMMA QueueAppend ==
  ASSUME NEW q, IsQueue(q), NEW x
  PROVE  LET r == Append(q, x)
         IN  /\ IsQueue(r) /\ Len(r) = Len(q) + 1
             /\ \A i \in 1..Len(q) : r[i] = q[i]
             /\ r[Len(q) + 1] = x
             /\ \A i \in 1..Len(r) : i \in 1..Len(q) \/ i = Len(q) + 1
<1>1. PICK S : q \in Seq(S)
  BY DEF IsQueue
<1> DEFINE T == S \cup {x}
           r == Append(q, x)
<1>2. q \in Seq(T) /\ x \in T
  BY <1>1
<1> HIDE DEF T
<1>3. /\ r \in Seq(T) /\ Len(r) = Len(q) + 1 /\ r[Len(q) + 1] = x
      /\ \A i \in 1..Len(q) : r[i] = q[i]
  BY <1>2
<1>4. Len(q) \in Nat
  BY <1>1
<1> QED
  BY <1>3, <1>4 DEF IsQueue

\* A queue without its first element.
LEMMA QueueTail ==
  ASSUME NEW q, IsQueue(q), q # <<>>
  PROVE  LET r == Tail(q)
         IN  /\ IsQueue(r) /\ Len(r) = Len(q) - 1 /\ Len(q) >= 1
             /\ \A i \in 1..Len(r) : r[i] = q[i + 1] /\ i + 1 \in 1..Len(q)
             /\ Head(q) = q[1]
<1>1. PICK S : q \in Seq(S)
  BY DEF IsQueue
<1>2. Len(q) \in Nat /\ Len(q) >= 1
  BY <1>1
<1> DEFINE r == Tail(q)
<1>3. r \in Seq(S) /\ Len(r) = Len(q) - 1
  BY <1>1
<1>4. \A i \in 1..Len(r) : r[i] = q[i + 1] /\ i + 1 \in 1..Len(q)
  BY <1>1, <1>2, <1>3
<1>5. Head(q) = q[1]
  BY <1>1
<1> QED
  BY <1>2, <1>3, <1>4, <1>5 DEF IsQueue

\* A queue whose elements are changed in their places.
LEMMA QueueMap ==
  ASSUME NEW q, IsQueue(q), NEW r, r = [i \in DOMAIN q |-> r[i]]
  PROVE  IsQueue(r) /\ Len(r) = Len(q)
<1>1. Len(q) \in Nat /\ DOMAIN q = 1..Len(q)
  BY QueueLen
<1> DEFINE T == {r[i] : i \in 1..Len(q)}
<1>2. r \in [1..Len(q) -> T]
  BY <1>1
<1>3. r \in Seq(T) /\ Len(r) = Len(q)
  BY <1>1, <1>2
<1> QED
  BY <1>3 DEF IsQueue

\* Who may hold the lock.
I2cHolders == I2cCallers \cup {Nobody}

\* A command the executor knows what to do with.
WellFormed(command) ==
  /\ command.type = "DeviceAdd" =>
       command.add.slot \in Nat /\ command.add.kind \in DeviceKinds /\ command.add.address \in Nat
  /\ command.type = "BatteryCapacitySet" => command.capacity \in CapacityInputs

\* A command and a reply as they wait.
Item(age, command) == [age |-> age, command |-> command]
Answer(age, reply) == [age |-> age, reply |-> reply]

\* A call in one of its states.
CallOK(call) ==
  /\ call = Call(call.pc, call.command)
  /\ call.pc \in {"idle", "again", "send", "receive"}
  /\ WellFormed(call.command)

\* The worker in one of its states.
WorkerOK(worker) ==
  /\ worker = Worker(worker.pc, worker.age, worker.command, worker.reply)
  /\ worker.pc \in {"receive", "execute", "reply"}
  /\ WellFormed(worker.command)

\* The calls, the lock and the worker: the lock is held by the caller that sends or
\* waits.
I2cShapes ==
  /\ DOMAIN i2cCall = I2cCallers
  /\ I2C_CMD_LOCK \in I2cHolders
  /\ \A c \in I2cCallers :
       /\ CallOK(i2cCall[c])
       /\ (I2C_CMD_LOCK = c) <=> i2cCall[c].pc \in {"send", "receive"}
  /\ WorkerOK(i2cWorker)
  /\ i2cTimeouts \in 0..MaxI2cTimeouts
  /\ i2cMisses \in 0..i2cTimeouts

\* The queues, by their elements.
I2cQueues ==
  /\ Len(I2C_COMMANDS) \in 0..I2C_COMMAND_CAPACITY
  /\ Len(I2C_REPLIES) \in 0..I2C_COMMAND_CAPACITY
  /\ IsQueue(I2C_COMMANDS) /\ IsQueue(I2C_REPLIES)
  /\ \A i \in 1..Len(I2C_COMMANDS) :
       /\ I2C_COMMANDS[i] = Item(I2C_COMMANDS[i].age, I2C_COMMANDS[i].command)
       /\ WellFormed(I2C_COMMANDS[i].command)
  /\ \A i \in 1..Len(I2C_REPLIES) :
       I2C_REPLIES[i] = Answer(I2C_REPLIES[i].age, I2C_REPLIES[i].reply)

\* What is on its way: the calls that are not answered yet, and the replies that
\* nobody has taken.
Working == IF i2cWorker.pc = "receive" THEN 0 ELSE 1
Underway == Len(I2C_COMMANDS) + Working + Len(I2C_REPLIES)

\* It is in order: every call is older by one than the next, without a gap.
I2cAges ==
  /\ \A i \in 1..Len(I2C_COMMANDS) : I2C_COMMANDS[i].age = Len(I2C_COMMANDS) - i
  /\ i2cWorker.pc # "receive" => i2cWorker.age = Len(I2C_COMMANDS)
  /\ \A i \in 1..Len(I2C_REPLIES) : I2C_REPLIES[i].age = Underway - i

\* And it is the call that somebody waits for, and those that nobody waits for any
\* more.
Awaited == IF \E c \in I2cCallers : i2cCall[c].pc = "receive" THEN 1 ELSE 0
I2cCount == Underway = i2cMisses + Awaited

\* The inductive invariant of the channel to the I2C worker.
I2cInv == I2cShapes /\ I2cQueues /\ I2cAges /\ I2cCount

-----------------------------------------------------------------------------
(* The channel to the I2C worker.                                          *)

\* The bounds are numbers.
LEMMA I2cLimits ==
  /\ I2C_COMMAND_CAPACITY \in Nat \ {0} /\ MaxI2cTimeouts \in Nat
  /\ Nobody \notin I2cCallers
BY I2cAssumption DEF I2cCallers, Nobody

\* The lengths of the queues and the counters are numbers.
LEMMA I2cNumbers ==
  ASSUME I2cInv
  PROVE  /\ Len(I2C_COMMANDS) \in Nat /\ Len(I2C_REPLIES) \in Nat
         /\ Working \in {0, 1} /\ Awaited \in {0, 1}
         /\ i2cMisses \in Nat /\ i2cTimeouts \in Nat
BY I2cLimits DEF I2cInv, I2cQueues, I2cShapes, Working, Awaited

\* A call that is put together is one.
LEMMA NewCall ==
  ASSUME NEW pc \in {"idle", "again", "send", "receive"}, NEW command, WellFormed(command)
  PROVE  CallOK(Call(pc, command)) /\ Call(pc, command).pc = pc
<1> DEFINE call == Call(pc, command)
<1>1. call.pc = pc /\ call.command = command
  BY DEF Call
<1> HIDE DEF call
<1>2. call = Call(call.pc, call.command)
  BY <1>1 DEF call
<1>3. CallOK(call)
  BY <1>1, <1>2 DEF CallOK
<1> QED
  BY <1>1, <1>3 DEF call

\* A worker that is put together is one.
LEMMA NewWorker ==
  ASSUME NEW pc \in {"receive", "execute", "reply"}, NEW age, NEW command, NEW reply,
         WellFormed(command)
  PROVE  LET w == Worker(pc, age, command, reply)
         IN  WorkerOK(w) /\ w.pc = pc /\ w.age = age /\ w.command = command
<1> DEFINE w == Worker(pc, age, command, reply)
<1>1. w.pc = pc /\ w.age = age /\ w.command = command /\ w.reply = reply
  BY DEF Worker
<1> HIDE DEF w
<1>2. w = Worker(w.pc, w.age, w.command, w.reply)
  BY <1>1 DEF w
<1>3. WorkerOK(w)
  BY <1>1, <1>2 DEF WorkerOK
<1> QED
  BY <1>1, <1>3 DEF w

\* What is on its way gets older by one, and stays what it is.
LEMMA OneOlder ==
  /\ \A age, command :
       LET x == Item(age, command) IN [x EXCEPT !.age = @ + 1] = Item(age + 1, command)
  /\ \A age, reply :
       LET x == Answer(age, reply) IN [x EXCEPT !.age = @ + 1] = Answer(age + 1, reply)
  /\ \A age, command : Item(age, command).age = age /\ Item(age, command).command = command
  /\ \A age, reply : Answer(age, reply).age = age /\ Answer(age, reply).reply = reply
BY DEF Item, Answer

\* A queue that gets older keeps its length and its order.
LEMMA OlderQueue ==
  ASSUME NEW q, IsQueue(q)
  PROVE  LET r == Older(q)
         IN  /\ IsQueue(r) /\ Len(r) = Len(q)
             /\ \A i \in 1..Len(q) : r[i] = [q[i] EXCEPT !.age = @ + 1]
<1> DEFINE r == Older(q)
<1>1. DOMAIN q = 1..Len(q)
  BY QueueLen
<1>2. \A i \in DOMAIN q : r[i] = [q[i] EXCEPT !.age = @ + 1]
  BY DEF Older
<1>3. r = [i \in DOMAIN q |-> r[i]]
  BY DEF Older
<1> HIDE DEF r
<1>4. IsQueue(r) /\ Len(r) = Len(q)
  BY <1>3, QueueMap
<1> QED
  BY <1>1, <1>2, <1>4 DEF r

\* Every command a caller may send is well formed.
LEMMA RequestsWellFormed ==
  ASSUME NEW c, NEW command \in Requests(c)
  PROVE  WellFormed(command)
<1>1. ASSUME command \in RegistryRequests PROVE WellFormed(command)
  <2>1. CASE command \in [type : {"DeviceAdd"}, slot : {a.slot : a \in AddInputs}, add : AddInputs]
    BY <2>1, I2cAssumption DEF WellFormed
  <2>2. CASE command \in [type : {"DeviceGet", "DeviceRemove", "BatteryCapacityGet"}, slot : SlotInputs]
    BY <2>2 DEF WellFormed
  <2>3. CASE command \in [type : {"DeviceList", "DeviceCount", "DeviceClear"}]
    BY <2>3 DEF WellFormed
  <2> QED
    BY <1>1, <2>1, <2>2, <2>3 DEF RegistryRequests
<1>2. ASSUME command \in CapacityRequests PROVE WellFormed(command)
  BY <1>2 DEF CapacityRequests, WellFormed
<1>3. ASSUME command \in MeasureRequests PROVE WellFormed(command)
  <2>1. command.type \in DOMAIN MeasuredKinds
    BY <1>3, I2cAssumption DEF MeasureRequests
  <2> QED
    BY <2>1 DEF WellFormed, MeasuredKinds
<1>4. ASSUME command \in ExternalRequests PROVE WellFormed(command)
  BY <1>4 DEF ExternalRequests, WellFormed
<1>5. ASSUME command \in RawRequests PROVE WellFormed(command)
  BY <1>5 DEF RawRequests, WellFormed
<1> QED
  BY <1>1, <1>2, <1>3, <1>4, <1>5 DEF Requests

\* A caller that has its answer is idle, or asks again.
LEMMA ContinuedOK ==
  ASSUME NEW command, NEW reply, NEW result
  PROVE  LET call == Continued(command, reply, result)
         IN  CallOK(call) /\ call.pc \in {"idle", "again"}
<1> DEFINE next == [type |-> IF reply.value = "BME688" THEN "MeasureEnvironment"
                             ELSE "MeasureExternalTemperature",
                    slot |-> command.slot]
<1>1. WellFormed(next) /\ WellFormed(NoRequestYet)
  BY DEF WellFormed, NoRequestYet
<1>2. Continued(command, reply, result) = Call("again", next)
      \/ Continued(command, reply, result) = Call("idle", NoRequestYet)
  BY DEF Continued, NoCall
<1> HIDE DEF next
<1>3. CallOK(Call("again", next)) /\ Call("again", next).pc = "again"
  BY <1>1, NewCall
<1>4. CallOK(Call("idle", NoRequestYet)) /\ Call("idle", NoRequestYet).pc = "idle"
  BY <1>1, NewCall
<1> QED
  BY <1>2, <1>3, <1>4

\* The invariant of the channel holds at first.
LEMMA I2cStart == I2cInit => I2cInv
<1> SUFFICES ASSUME I2cInit PROVE I2cInv
  OBVIOUS
<1>1. WellFormed(NoRequestYet)
  BY DEF WellFormed, NoRequestYet
<1>2. CallOK(NoCall) /\ NoCall.pc = "idle"
  BY <1>1, NewCall DEF NoCall
<1>3. WorkerOK(i2cWorker) /\ i2cWorker.pc = "receive"
  BY <1>1, NewWorker DEF I2cInit, IdleWorker
<1>4. /\ i2cCall = [c \in I2cCallers |-> NoCall] /\ I2C_CMD_LOCK = Nobody
      /\ I2C_COMMANDS = <<>> /\ I2C_REPLIES = <<>> /\ i2cTimeouts = 0 /\ i2cMisses = 0
  BY DEF I2cInit
<1>5. I2cShapes
  BY <1>2, <1>3, <1>4, I2cLimits DEF I2cShapes, I2cHolders
<1>6. I2cQueues
  BY <1>4, QueueEmpty, I2cLimits DEF I2cQueues
<1>7. I2cAges /\ I2cCount
  BY <1>2, <1>3, <1>4, QueueEmpty DEF I2cAges, I2cCount, Underway, Working, Awaited
<1> QED
  BY <1>5, <1>6, <1>7 DEF I2cInv

\* The call of client c changes; the lock is as the new state asks for.
LEMMA CallChanges ==
  ASSUME I2cInv, NEW c \in I2cCallers, NEW call, CallOK(call),
         i2cCall' = [i2cCall EXCEPT ![c] = call],
         I2C_CMD_LOCK' = (IF call.pc \in {"send", "receive"} THEN c ELSE Nobody),
         I2C_CMD_LOCK = c \/ I2C_CMD_LOCK = Nobody,
         i2cTimeouts' \in 0..MaxI2cTimeouts, i2cMisses' \in 0..i2cTimeouts',
         WorkerOK(i2cWorker')
  PROVE  /\ I2cShapes'
         /\ Awaited = IF i2cCall[c].pc = "receive" THEN 1 ELSE 0
         /\ Awaited' = IF call.pc = "receive" THEN 1 ELSE 0
<1>1. /\ DOMAIN i2cCall = I2cCallers
      /\ \A b \in I2cCallers \ {c} : i2cCall[b].pc \notin {"send", "receive"}
      /\ \A b \in I2cCallers : CallOK(i2cCall[b])
  BY I2cLimits DEF I2cInv, I2cShapes
<1>2. /\ DOMAIN i2cCall' = I2cCallers /\ i2cCall'[c] = call
      /\ \A b \in I2cCallers \ {c} : i2cCall'[b] = i2cCall[b]
  BY <1>1
<1>3. I2C_CMD_LOCK' \in I2cHolders
  BY DEF I2cHolders
<1>4. \A b \in I2cCallers : (I2C_CMD_LOCK' = b) <=> i2cCall'[b].pc \in {"send", "receive"}
  BY <1>1, <1>2, I2cLimits
<1>5. \A b \in I2cCallers : CallOK(i2cCall'[b])
  BY <1>1, <1>2
<1>6. I2cShapes'
  BY <1>2, <1>3, <1>4, <1>5 DEF I2cShapes
<1>7. Awaited = IF i2cCall[c].pc = "receive" THEN 1 ELSE 0
  BY <1>1 DEF Awaited
<1>8. Awaited' = IF call.pc = "receive" THEN 1 ELSE 0
  <2>1. (\E b \in I2cCallers : i2cCall'[b].pc = "receive") <=> call.pc = "receive"
    BY <1>1, <1>2
  <2> QED
    BY <2>1 DEF Awaited
<1> QED
  BY <1>6, <1>7, <1>8

\* A command joins the queue: what is on its way already is older by one, and the
\* order is kept.
LEMMA SendKeepsOrder ==
  ASSUME I2cInv, NEW c, NEW command, WellFormed(command),
         NEW replies, replies = I2C_REPLIES \/ replies = <<>>, Send(c, command, replies)
  PROVE  /\ I2cQueues' /\ I2cAges' /\ WorkerOK(i2cWorker')
         /\ Underway' = Len(I2C_COMMANDS) + 1 + Working + Len(replies)
<1> DEFINE q == I2C_COMMANDS
           older == Older(q)
           r == I2C_COMMANDS'
           old == replies
           held == I2C_REPLIES'
           x == Item(0, command)
           w == i2cWorker
           v == i2cWorker'
           n == Len(q)
           k == Len(old)
<1>1. /\ r = Append(older, x) /\ held = Older(old) /\ n < I2C_COMMAND_CAPACITY
      /\ v = IF w.pc = "receive" THEN w ELSE [w EXCEPT !.age = @ + 1]
  BY DEF Send, Item
<1>2. /\ IsQueue(q) /\ n \in 0..I2C_COMMAND_CAPACITY
      /\ \A i \in 1..n : q[i] = Item(q[i].age, q[i].command) /\ WellFormed(q[i].command)
      /\ \A i \in 1..n : q[i].age = n - i
  BY DEF I2cInv, I2cQueues, I2cAges
<1>3. /\ IsQueue(old) /\ k \in 0..I2C_COMMAND_CAPACITY
      /\ \A i \in 1..k : old[i] = Answer(old[i].age, old[i].reply)
      /\ \A i \in 1..k : old[i].age = n + Working + k - i
  <2>1. CASE replies = I2C_REPLIES
    <3>1. Underway = n + Working + k
      BY <2>1 DEF Underway
    <3>2. /\ IsQueue(I2C_REPLIES) /\ Len(I2C_REPLIES) \in 0..I2C_COMMAND_CAPACITY
          /\ \A i \in 1..Len(I2C_REPLIES) :
               I2C_REPLIES[i] = Answer(I2C_REPLIES[i].age, I2C_REPLIES[i].reply)
          /\ \A i \in 1..Len(I2C_REPLIES) : I2C_REPLIES[i].age = Underway - i
      BY DEF I2cInv, I2cQueues, I2cAges
    <3>3. n \in Nat /\ k \in Nat /\ Working \in {0, 1}
      BY <2>1, I2cNumbers
    <3> HIDE DEF n
    <3> QED
      BY <2>1, <3>1, <3>2, <3>3
  <2>2. CASE replies = <<>>
    BY <2>2, QueueEmpty, I2cLimits
  <2> QED
    BY <2>1, <2>2
<1>4. /\ WorkerOK(w) /\ (w.pc # "receive" => w.age = n)
      /\ Working \in {0, 1}
  BY DEF I2cInv, I2cShapes, I2cAges, Working
<1>5. n \in Nat /\ k \in Nat
  BY <1>2, <1>3, I2cLimits
<1>6. /\ IsQueue(older) /\ Len(older) = n
      /\ \A i \in 1..n : older[i] = [q[i] EXCEPT !.age = @ + 1]
  <2> HIDE DEF q
  <2> QED
    BY <1>2, OlderQueue
<1>7. \A i \in 1..n : /\ older[i] = Item(n + 1 - i, q[i].command)
                      /\ older[i].age = n + 1 - i
                      /\ older[i].command = q[i].command
  <2> SUFFICES ASSUME NEW i \in 1..n
               PROVE  /\ older[i] = Item(n + 1 - i, q[i].command)
                      /\ older[i].age = n + 1 - i
                      /\ older[i].command = q[i].command
    OBVIOUS
  <2> HIDE DEF q, older, n
  <2>1. q[i] = Item(n - i, q[i].command)
    BY <1>2
  <2>2. older[i] = Item(n - i + 1, q[i].command)
    BY <1>6, <2>1, OneOlder
  <2>3. n - i + 1 = n + 1 - i
    BY <1>5
  <2> QED
    BY <2>2, <2>3, OneOlder
<1>8. /\ IsQueue(r) /\ Len(r) = n + 1
      /\ \A i \in 1..n : r[i] = older[i]
      /\ r[n + 1] = x
      /\ \A i \in 1..Len(r) : i \in 1..n \/ i = n + 1
  <2> HIDE DEF older, r, x, n
  <2> QED
    BY <1>1, <1>6, QueueAppend
<1>9. x.age = 0 /\ x.command = command /\ x = Item(x.age, x.command)
  BY OneOlder
<1>10. \A i \in 1..Len(r) : /\ r[i] = Item(r[i].age, r[i].command)
                            /\ WellFormed(r[i].command)
                            /\ r[i].age = Len(r) - i
  <2> SUFFICES ASSUME NEW i \in 1..Len(r)
               PROVE  /\ r[i] = Item(r[i].age, r[i].command)
                      /\ WellFormed(r[i].command)
                      /\ r[i].age = Len(r) - i
    OBVIOUS
  <2> HIDE DEF q, older, r, x, n
  <2>1. CASE i \in 1..n
    <3>1. r[i] = Item(n + 1 - i, q[i].command) /\ r[i].age = n + 1 - i
          /\ r[i].command = q[i].command
      BY <1>7, <1>8, <2>1
    <3>2. WellFormed(r[i].command)
      BY <1>2, <2>1, <3>1
    <3>3. r[i] = Item(r[i].age, r[i].command)
      BY <3>1
    <3>4. r[i].age = Len(r) - i
      BY <1>5, <1>8, <3>1
    <3> QED
      BY <3>2, <3>3, <3>4, Zenon
  <2>2. CASE i = n + 1
    BY <1>5, <1>8, <1>9, <2>2
  <2> QED
    BY <1>8, <2>1, <2>2
<1>11. /\ IsQueue(held) /\ Len(held) = k
       /\ \A i \in 1..k : held[i] = [old[i] EXCEPT !.age = @ + 1]
  <2> HIDE DEF old
  <2> QED
    BY <1>1, <1>3, OlderQueue
<1>12. \A i \in 1..k : /\ held[i] = Answer(held[i].age, held[i].reply)
                       /\ held[i].age = n + 1 + Working + k - i
  <2> SUFFICES ASSUME NEW i \in 1..k
               PROVE  /\ held[i] = Answer(held[i].age, held[i].reply)
                      /\ held[i].age = n + 1 + Working + k - i
    OBVIOUS
  <2> DEFINE a == n + Working + k - i
  <2>1. a + 1 = n + 1 + Working + k - i
    BY <1>4, <1>5
  <2> HIDE DEF q, old, held, n, k
  <2>2. old[i] = Answer(a, old[i].reply)
    BY <1>3
  <2> HIDE DEF a
  <2>3. held[i] = Answer(a + 1, old[i].reply)
    BY <1>11, <2>2, OneOlder
  <2>4. held[i].age = a + 1 /\ held[i] = Answer(held[i].age, held[i].reply)
    BY <2>3, OneOlder
  <2> QED
    BY <2>1, <2>4
<1>13. /\ WorkerOK(v) /\ v.pc = w.pc
       /\ v.pc # "receive" => v.age = n + 1
  <2>1. CASE w.pc = "receive"
    BY <1>1, <1>4, <2>1
  <2>2. CASE w.pc # "receive"
    <3> DEFINE u == Worker(w.pc, n + 1, w.command, w.reply)
    <3> HIDE DEF w, v, n, u
    <3>1. v = u
      BY <1>1, <1>4, <2>2 DEF WorkerOK, Worker, u
    <3>2. w.pc \in {"receive", "execute", "reply"} /\ WellFormed(w.command)
      BY <1>4 DEF WorkerOK
    <3>3. WorkerOK(u) /\ u.pc = w.pc /\ u.age = n + 1
      BY <3>2, NewWorker DEF u
    <3> QED
      BY <3>1, <3>3
  <2> QED
    BY <2>1, <2>2
<1>14. Working' = Working
  BY <1>13 DEF Working
<1>15. Underway' = n + 1 + Working + k
  BY <1>8, <1>11, <1>14 DEF Underway
<1>16. I2cQueues'
  <2>1. Len(r) \in 0..I2C_COMMAND_CAPACITY
    BY <1>1, <1>2, <1>8, I2cLimits
  <2> QED
    BY <1>3, <1>8, <1>10, <1>11, <1>12, <2>1 DEF I2cQueues
<1>17. I2cAges'
  <2>1. i2cWorker'.pc # "receive" => i2cWorker'.age = Len(I2C_COMMANDS')
    BY <1>8, <1>13
  <2>2. \A i \in 1..Len(I2C_COMMANDS') : I2C_COMMANDS'[i].age = Len(I2C_COMMANDS') - i
    BY <1>10
  <2>3. ASSUME NEW i \in 1..Len(I2C_REPLIES') PROVE I2C_REPLIES'[i].age = Underway' - i
    <3>1. i \in 1..k /\ held[i].age = n + 1 + Working + k - i
      BY <1>11, <1>12
    <3> HIDE DEF n, k
    <3>2. held[i].age = Underway' - i
      BY <1>4, <1>5, <1>15, <3>1
    <3> QED
      BY <3>2
  <2> QED
    BY <2>1, <2>2, <2>3 DEF I2cAges
<1> QED
  BY <1>13, <1>15, <1>16, <1>17

\* A caller takes the lock, empties the replies and sends, or waits to send.
LEMMA SendCommandInv ==
  ASSUME I2cInv, NEW c \in I2cCallers, SendCommand(c) PROVE I2cInv'
<1>1. PICK command \in IF i2cCall[c].pc = "idle" THEN Requests(c) ELSE {i2cCall[c].command} :
        Send(c, command, <<>>) \/ WaitToSend(c, command, <<>>)
  BY DEF SendCommand, Drained
<1>2. WellFormed(command)
  BY RequestsWellFormed DEF I2cInv, I2cShapes, CallOK
<1>3. /\ i2cCall[c].pc # "receive"
      /\ I2C_CMD_LOCK = Nobody /\ I2C_CMD_LOCK' = c
      /\ i2cTimeouts' = i2cTimeouts /\ i2cTimeouts \in 0..MaxI2cTimeouts
      /\ i2cMisses' = i2cMisses - Len(I2C_REPLIES) /\ i2cMisses \in 0..i2cTimeouts
      /\ WorkerOK(i2cWorker)
  BY DEF SendCommand, I2cInv, I2cShapes
<1>4. Awaited = 0
  <2>1. \A b \in I2cCallers : i2cCall[b].pc # "receive"
    BY <1>3, I2cLimits DEF I2cInv, I2cShapes
  <2> QED
    BY <2>1 DEF Awaited
<1>5. /\ i2cMisses = Len(I2C_COMMANDS) + Working + Len(I2C_REPLIES)
      /\ i2cMisses' = Len(I2C_COMMANDS) + Working
      /\ i2cMisses' \in 0..i2cTimeouts'
  <2>1. i2cMisses = Len(I2C_COMMANDS) + Working + Len(I2C_REPLIES)
    BY <1>4, I2cNumbers DEF I2cInv, I2cCount, Underway
  <2> QED
    BY <1>3, <2>1, I2cNumbers
<1>6. CASE Send(c, command, <<>>)
  <2> DEFINE call == Call("receive", command)
  <2>1. CallOK(call) /\ call.pc = "receive"
    BY <1>2, NewCall
  <2>2. i2cCall' = [i2cCall EXCEPT ![c] = call]
    BY <1>6 DEF Send
  <2> HIDE DEF call
  <2>3. /\ I2cQueues' /\ I2cAges' /\ WorkerOK(i2cWorker')
        /\ Underway' = Len(I2C_COMMANDS) + 1 + Working + 0
    BY <1>2, <1>6, SendKeepsOrder, QueueEmpty
  <2>4. I2cShapes' /\ Awaited' = 1
    BY <1>3, <1>5, <2>1, <2>2, <2>3, CallChanges
  <2>5. I2cCount'
    BY <1>5, <2>3, <2>4, I2cNumbers DEF I2cCount
  <2> QED
    BY <2>3, <2>4, <2>5 DEF I2cInv
<1>7. CASE WaitToSend(c, command, <<>>)
  <2> DEFINE call == Call("send", command)
  <2>1. CallOK(call) /\ call.pc = "send"
    BY <1>2, NewCall
  <2>2. i2cCall' = [i2cCall EXCEPT ![c] = call]
    BY <1>7 DEF WaitToSend
  <2> HIDE DEF call
  <2>3. I2C_REPLIES' = <<>> /\ UNCHANGED <<I2C_COMMANDS, i2cWorker>>
    BY <1>7 DEF WaitToSend
  <2>4. I2cShapes' /\ Awaited' = 0
    BY <1>3, <1>5, <2>1, <2>2, <2>3, CallChanges
  <2>5. Working' = Working /\ Underway' = Len(I2C_COMMANDS) + Working
    BY <2>3, QueueEmpty, I2cNumbers DEF Underway, Working
  <2>6. I2cQueues'
    BY <2>3, QueueEmpty, I2cLimits DEF I2cInv, I2cQueues
  <2>7. I2cAges'
    BY <2>3, QueueEmpty DEF I2cInv, I2cAges
  <2>8. I2cCount'
    BY <1>5, <2>4, <2>5, I2cNumbers DEF I2cCount
  <2> QED
    BY <2>4, <2>6, <2>7, <2>8 DEF I2cInv
<1> QED
  BY <1>1, <1>6, <1>7

\* A caller that waited sends its command.
LEMMA SendWaitingInv ==
  ASSUME I2cInv, NEW c \in I2cCallers, SendWaiting(c) PROVE I2cInv'
<1> DEFINE command == i2cCall[c].command
           call == Call("receive", command)
<1>1. /\ i2cCall[c].pc = "send" /\ Send(c, command, I2C_REPLIES)
      /\ UNCHANGED <<I2C_CMD_LOCK, i2cTimeouts, i2cMisses>>
  BY DEF SendWaiting
<1>2. WellFormed(command) /\ I2C_CMD_LOCK = c
      /\ i2cTimeouts \in 0..MaxI2cTimeouts /\ i2cMisses \in 0..i2cTimeouts
  BY <1>1 DEF I2cInv, I2cShapes, CallOK
<1>3. CallOK(call) /\ call.pc = "receive"
  BY <1>2, NewCall
<1>4. i2cCall' = [i2cCall EXCEPT ![c] = call]
  BY <1>1 DEF Send
<1> HIDE DEF command, call
<1>5. /\ I2cQueues' /\ I2cAges' /\ WorkerOK(i2cWorker')
      /\ Underway' = Len(I2C_COMMANDS) + 1 + Working + Len(I2C_REPLIES)
  BY <1>1, <1>2, SendKeepsOrder
<1>6. I2cShapes' /\ Awaited = 0 /\ Awaited' = 1
  BY <1>1, <1>2, <1>3, <1>4, <1>5, CallChanges
<1>7. I2cCount'
  BY <1>1, <1>5, <1>6, I2cNumbers DEF I2cInv, I2cCount, Underway
<1> QED
  BY <1>5, <1>6, <1>7 DEF I2cInv

\* A caller takes the oldest reply there is.
LEMMA ReceiveReplyInv ==
  ASSUME I2cInv, NEW c \in I2cCallers, ReceiveReply(c) PROVE I2cInv'
<1> DEFINE command == i2cCall[c].command
           reply == Head(I2C_REPLIES).reply
           call == Continued(command, reply, ResultOf(c, command, reply))
           q == I2C_REPLIES
           r == I2C_REPLIES'
<1>1. /\ i2cCall[c].pc = "receive" /\ I2C_CMD_LOCK = c
      /\ i2cTimeouts \in 0..MaxI2cTimeouts /\ i2cMisses \in 0..i2cTimeouts
      /\ WorkerOK(i2cWorker)
  BY DEF ReceiveReply, I2cInv, I2cShapes
<1>2. CallOK(call) /\ call.pc \in {"idle", "again"}
  BY ContinuedOK
<1>3. /\ i2cCall' = [i2cCall EXCEPT ![c] = call]
      /\ I2C_CMD_LOCK' = Nobody /\ r = Tail(q) /\ q # <<>>
      /\ UNCHANGED <<I2C_COMMANDS, i2cWorker, i2cTimeouts, i2cMisses>>
  BY DEF ReceiveReply
<1> HIDE DEF call
<1>4. I2cShapes' /\ Awaited = 1 /\ Awaited' = 0
  BY <1>1, <1>2, <1>3, CallChanges
<1>5. /\ IsQueue(q) /\ Len(q) \in 0..I2C_COMMAND_CAPACITY
      /\ \A i \in 1..Len(q) : q[i] = Answer(q[i].age, q[i].reply)
      /\ \A i \in 1..Len(q) : q[i].age = Underway - i
  BY DEF I2cInv, I2cQueues, I2cAges
<1>6. /\ IsQueue(r) /\ Len(r) = Len(q) - 1 /\ Len(q) >= 1
      /\ \A i \in 1..Len(r) : r[i] = q[i + 1] /\ i + 1 \in 1..Len(q)
  <2> HIDE DEF q, r
  <2> QED
    BY <1>3, <1>5, QueueTail
<1>7. Working' = Working /\ Underway' = Underway - 1 /\ Underway \in Nat
  BY <1>3, <1>6, I2cNumbers DEF Underway, Working
<1>8. I2cQueues'
  <2>1. Len(r) \in 0..I2C_COMMAND_CAPACITY
    BY <1>5, <1>6, I2cLimits
  <2>2. \A i \in 1..Len(r) : r[i] = Answer(r[i].age, r[i].reply)
    BY <1>5, <1>6
  <2> QED
    BY <1>3, <1>6, <2>1, <2>2 DEF I2cInv, I2cQueues
<1>9. I2cAges'
  <2>1. ASSUME NEW i \in 1..Len(r) PROVE r[i].age = Underway' - i
    <3>1. r[i] = q[i + 1] /\ q[i + 1].age = Underway - (i + 1)
      BY <1>5, <1>6
    <3> QED
      BY <1>7, <3>1
  <2> QED
    BY <1>3, <2>1 DEF I2cInv, I2cAges
<1>10. I2cCount'
  BY <1>3, <1>4, <1>7, I2cNumbers DEF I2cInv, I2cCount
<1> QED
  BY <1>4, <1>8, <1>9, <1>10 DEF I2cInv

\* A call is given up, and what it left on its way is nobody's.
LEMMA GiveUpInv ==
  ASSUME I2cInv, NEW c \in I2cCallers, GiveUp(c) PROVE I2cInv'
<1> DEFINE command == i2cCall[c].command
           call == Continued(command, I2cTimeout, ResultOf(c, command, I2cTimeout))
<1>1. /\ i2cCall[c].pc = "receive" /\ I2C_CMD_LOCK = c
      /\ i2cTimeouts \in 0..MaxI2cTimeouts /\ i2cMisses \in 0..i2cTimeouts
      /\ WorkerOK(i2cWorker)
  BY DEF GiveUp, I2cInv, I2cShapes
<1>2. CallOK(call) /\ call.pc \in {"idle", "again"}
  BY ContinuedOK
<1>3. /\ i2cCall' = [i2cCall EXCEPT ![c] = call]
      /\ I2C_CMD_LOCK' = Nobody
      /\ UNCHANGED <<I2C_COMMANDS, I2C_REPLIES, i2cWorker>>
      /\ i2cTimeouts < MaxI2cTimeouts
      /\ i2cTimeouts' = i2cTimeouts + 1 /\ i2cMisses' = i2cMisses + 1
  BY DEF GiveUp
<1> HIDE DEF call
<1>4. i2cTimeouts' \in 0..MaxI2cTimeouts /\ i2cMisses' \in 0..i2cTimeouts'
  BY <1>1, <1>3, I2cLimits
<1>5. I2cShapes' /\ Awaited = 1 /\ Awaited' = 0
  BY <1>1, <1>2, <1>3, <1>4, CallChanges
<1>6. Underway' = Underway
  BY <1>3 DEF Underway, Working
<1>7. I2cQueues' /\ I2cAges'
  BY <1>3, <1>6 DEF I2cInv, I2cQueues, I2cAges
<1>8. I2cCount'
  BY <1>3, <1>5, <1>6, I2cNumbers DEF I2cInv, I2cCount
<1> QED
  BY <1>5, <1>7, <1>8 DEF I2cInv

\* The worker takes a command.
LEMMA TakeCommandInv ==
  ASSUME I2cInv, TakeCommand PROVE I2cInv'
<1> DEFINE q == I2C_COMMANDS
           r == I2C_COMMANDS'
           w == Worker("execute", Head(q).age, Head(q).command, I2cTimeout)
<1>1. /\ IsQueue(q) /\ q # <<>> /\ Len(q) \in 0..I2C_COMMAND_CAPACITY
      /\ \A i \in 1..Len(q) : q[i] = Item(q[i].age, q[i].command) /\ WellFormed(q[i].command)
      /\ \A i \in 1..Len(q) : q[i].age = Len(q) - i
  BY DEF I2cInv, I2cQueues, I2cAges, TakeCommand
<1>2. r = Tail(q) /\ i2cWorker.pc = "receive" /\ i2cWorker' = w
      /\ UNCHANGED <<i2cCall, I2C_CMD_LOCK, I2C_REPLIES, i2cTimeouts, i2cMisses>>
  BY DEF TakeCommand
<1>3. /\ IsQueue(r) /\ Len(r) = Len(q) - 1 /\ Len(q) >= 1
      /\ \A i \in 1..Len(r) : r[i] = q[i + 1] /\ i + 1 \in 1..Len(q)
      /\ Head(q) = q[1] /\ 1 \in 1..Len(q)
  <2> HIDE DEF q, r
  <2>1. /\ IsQueue(r) /\ Len(r) = Len(q) - 1 /\ Len(q) >= 1
        /\ \A i \in 1..Len(r) : r[i] = q[i + 1] /\ i + 1 \in 1..Len(q)
        /\ Head(q) = q[1]
    BY <1>1, <1>2, QueueTail
  <2> QED
    BY <1>1, <2>1
<1>4. WorkerOK(w) /\ w.pc = "execute" /\ w.age = Len(r)
  <2>1. WellFormed(Head(q).command) /\ Head(q).age = Len(r)
    BY <1>1, <1>3
  <2> HIDE DEF q, r
  <2> QED
    BY <2>1, NewWorker
<1> HIDE DEF w
<1>5. Working = 0 /\ Working' = 1 /\ Underway' = Underway /\ Awaited' = Awaited
  BY <1>2, <1>3, <1>4, I2cNumbers DEF Working, Underway, Awaited
<1>6. I2cShapes'
  BY <1>2, <1>4 DEF I2cInv, I2cShapes
<1>7. I2cQueues'
  <2>1. Len(r) \in 0..I2C_COMMAND_CAPACITY
    BY <1>1, <1>3, I2cLimits
  <2>2. \A i \in 1..Len(r) : r[i] = Item(r[i].age, r[i].command) /\ WellFormed(r[i].command)
    BY <1>1, <1>3
  <2> QED
    BY <1>2, <1>3, <2>1, <2>2 DEF I2cInv, I2cQueues
<1>8. I2cAges'
  <2>1. ASSUME NEW i \in 1..Len(r) PROVE r[i].age = Len(r) - i
    <3>1. r[i] = q[i + 1] /\ q[i + 1].age = Len(q) - (i + 1)
      BY <1>1, <1>3
    <3> QED
      BY <1>1, <1>3, <3>1
  <2> QED
    BY <1>2, <1>4, <1>5, <2>1 DEF I2cInv, I2cAges
<1>9. I2cCount'
  BY <1>2, <1>5 DEF I2cInv, I2cCount
<1> QED
  BY <1>6, <1>7, <1>8, <1>9 DEF I2cInv

\* The worker executes a command.
LEMMA ExecuteCommandInv ==
  ASSUME I2cInv, ExecuteCommand PROVE I2cInv'
<1>1. PICK reply : i2cWorker' = Worker("reply", i2cWorker.age, NoRequestYet, reply)
  BY DEF ExecuteCommand
<1> DEFINE w == Worker("reply", i2cWorker.age, NoRequestYet, reply)
<1>2. WellFormed(NoRequestYet)
  BY DEF WellFormed, NoRequestYet
<1>3. WorkerOK(w) /\ w.pc = "reply" /\ w.age = i2cWorker.age
  BY <1>2, NewWorker
<1>4. UNCHANGED <<i2cCall, I2C_CMD_LOCK, I2C_COMMANDS, I2C_REPLIES, i2cTimeouts, i2cMisses>>
      /\ i2cWorker.pc = "execute" /\ i2cWorker' = w
  BY <1>1 DEF ExecuteCommand
<1> HIDE DEF w
<1>5. Underway' = Underway /\ Awaited' = Awaited
  BY <1>3, <1>4 DEF Underway, Working, Awaited
<1>6. I2cShapes' /\ I2cQueues'
  BY <1>3, <1>4 DEF I2cInv, I2cShapes, I2cQueues
<1>7. I2cAges' /\ I2cCount'
  BY <1>3, <1>4, <1>5 DEF I2cInv, I2cAges, I2cCount
<1> QED
  BY <1>6, <1>7 DEF I2cInv

\* The worker replies.
LEMMA SendReplyInv ==
  ASSUME I2cInv, SendReply PROVE I2cInv'
<1> DEFINE q == I2C_REPLIES
           r == I2C_REPLIES'
           x == Answer(i2cWorker.age, i2cWorker.reply)
<1>1. /\ r = Append(q, x) /\ Len(q) < I2C_COMMAND_CAPACITY
      /\ i2cWorker.pc = "reply" /\ i2cWorker' = IdleWorker
      /\ UNCHANGED <<i2cCall, I2C_CMD_LOCK, I2C_COMMANDS, i2cTimeouts, i2cMisses>>
  BY DEF SendReply, Answer
<1>2. /\ IsQueue(q) /\ Len(q) \in 0..I2C_COMMAND_CAPACITY
      /\ \A i \in 1..Len(q) : q[i] = Answer(q[i].age, q[i].reply)
      /\ \A i \in 1..Len(q) : q[i].age = Underway - i
  BY DEF I2cInv, I2cQueues, I2cAges
<1>3. x = Answer(x.age, x.reply) /\ x.age = Len(I2C_COMMANDS)
  BY <1>1, OneOlder DEF I2cInv, I2cAges
<1>4. /\ IsQueue(r) /\ Len(r) = Len(q) + 1
      /\ \A i \in 1..Len(q) : r[i] = q[i]
      /\ r[Len(q) + 1] = x
      /\ \A i \in 1..Len(r) : i \in 1..Len(q) \/ i = Len(q) + 1
  <2> HIDE DEF q, r, x
  <2> QED
    BY <1>1, <1>2, QueueAppend
<1>5. WorkerOK(IdleWorker) /\ IdleWorker.pc = "receive"
  <2>1. WellFormed(NoRequestYet)
    BY DEF WellFormed, NoRequestYet
  <2> QED
    BY <2>1, NewWorker DEF IdleWorker
<1>6. /\ Working = 1 /\ Working' = 0 /\ Underway' = Underway /\ Awaited' = Awaited
      /\ Underway = Len(I2C_COMMANDS) + 1 + Len(q)
  BY <1>1, <1>4, <1>5, I2cNumbers DEF Working, Underway, Awaited
<1>7. I2cShapes'
  BY <1>1, <1>5 DEF I2cInv, I2cShapes
<1>8. I2cQueues'
  <2>1. Len(r) \in 0..I2C_COMMAND_CAPACITY
    BY <1>1, <1>2, <1>4, I2cLimits
  <2>2. \A i \in 1..Len(r) : r[i] = Answer(r[i].age, r[i].reply)
    BY <1>2, <1>3, <1>4
  <2> QED
    BY <1>1, <1>4, <2>1, <2>2 DEF I2cInv, I2cQueues
<1>9. I2cAges'
  <2>1. ASSUME NEW i \in 1..Len(r) PROVE r[i].age = Underway' - i
    <3> HIDE DEF q, r, x
    <3>1. CASE i \in 1..Len(q)
      BY <1>2, <1>4, <1>6, <3>1
    <3>2. CASE i = Len(q) + 1
      BY <1>2, <1>3, <1>4, <1>6, <3>2, I2cNumbers
    <3> QED
      BY <1>4, <3>1, <3>2
  <2> QED
    BY <1>1, <1>5, <2>1 DEF I2cInv, I2cAges
<1>10. I2cCount'
  BY <1>1, <1>6 DEF I2cInv, I2cCount
<1> QED
  BY <1>7, <1>8, <1>9, <1>10 DEF I2cInv

\* Every step of the service keeps the invariant of the channel.
LEMMA I2cStep == I2cInv /\ [I2cNext]_i2cVars => I2cInv'
<1> SUFFICES ASSUME I2cInv, [I2cNext]_i2cVars PROVE I2cInv'
  OBVIOUS
<1>1. CASE UNCHANGED i2cVars
  <2>1. I2cShapes' /\ I2cQueues'
    BY <1>1 DEF i2cVars, I2cInv, I2cShapes, I2cQueues
  <2>2. I2cAges' /\ I2cCount'
    BY <1>1 DEF i2cVars, I2cInv, I2cAges, I2cCount, Underway, Working, Awaited
  <2> QED
    BY <2>1, <2>2 DEF I2cInv
<1>2. ASSUME NEW c \in I2cCallers, SendCommand(c) PROVE I2cInv'
  BY <1>2, SendCommandInv
<1>3. ASSUME NEW c \in I2cCallers, SendWaiting(c) PROVE I2cInv'
  BY <1>3, SendWaitingInv
<1>4. ASSUME NEW c \in I2cCallers, ReceiveReply(c) PROVE I2cInv'
  BY <1>4, ReceiveReplyInv
<1>5. ASSUME NEW c \in I2cCallers, GiveUp(c) PROVE I2cInv'
  BY <1>5, GiveUpInv
<1>6. CASE I2cWorkerNext
  BY <1>6, TakeCommandInv, ExecuteCommandInv, SendReplyInv DEF I2cWorkerNext
<1> QED
  BY <1>1, <1>2, <1>3, <1>4, <1>5, <1>6 DEF I2cNext, I2cCallerNext

\* The oldest of what is on its way is older than the last call by as many calls as
\* nobody waits for any more.
LEMMA I2cInvKeepsStep == I2cInv => I2cKeepsStep
<1> SUFFICES ASSUME I2cInv PROVE I2cKeepsStep
  OBVIOUS
<1>1. ASSUME NEW c \in I2cCallers, i2cCall[c].pc = "receive", I2C_REPLIES # <<>>
      PROVE  Head(I2C_REPLIES).age <= i2cMisses
  <2>1. Awaited = 1
    BY <1>1 DEF Awaited
  <2>2. IsQueue(I2C_REPLIES)
    BY DEF I2cInv, I2cQueues
  <2>3. Head(I2C_REPLIES) = I2C_REPLIES[1] /\ Len(I2C_REPLIES) >= 1
    BY <1>1, <2>2, QueueTail
  <2>4. Head(I2C_REPLIES).age = Underway - 1
    BY <2>3, I2cNumbers DEF I2cInv, I2cAges
  <2> QED
    BY <2>1, <2>4, I2cNumbers DEF I2cInv, I2cCount
<1>2. ASSUME I2C_COMMANDS = <<>>, I2C_REPLIES = <<>>, i2cWorker.pc = "receive"
      PROVE  i2cMisses = 0
  <2>1. Underway = 0
    BY <1>2, QueueEmpty DEF Underway, Working
  <2> QED
    BY <2>1, I2cNumbers DEF I2cInv, I2cCount
<1> QED
  BY <1>1, <1>2 DEF I2cKeepsStep

\* I2cKeepsStep, of the I2C service.
LEMMA I2cAnswers == I2cSpec => []I2cKeepsStep
<1>1. I2cInit => I2cInv
  BY I2cStart
<1>2. I2cInv /\ [I2cNext]_i2cVars => I2cInv'
  BY I2cStep
<1>3. I2cInv => I2cKeepsStep
  BY I2cInvKeepsStep
<1> QED
  BY <1>1, <1>2, <1>3, PTL DEF I2cSpec

-----------------------------------------------------------------------------
(* Boards.                                                                 *)

\* A board, by what it consists of.
IsBoard(b) ==
  /\ DOMAIN b = {"entries", "capacity", "calibration", "power", "profile"}
  /\ b = [f \in DOMAIN b |-> b[f]]

\* A board with a device in one more slot.
LEMMA InsertFields ==
  ASSUME NEW b \in Boards, NEW slot \in DeviceSlots, NEW kind, NEW address
  PROVE  LET n == Insert(b, slot, kind, address)
         IN  /\ n.entries = [b.entries EXCEPT ![slot] = [kind |-> kind, address |-> address]]
             /\ n.capacity = b.capacity
             /\ n.calibration = [b.calibration EXCEPT ![slot] = (kind = "BME688")]
             /\ n.power = b.power /\ n.profile = b.profile
             /\ IsBoard(n)
BY DEF Insert, Boards, IsBoard

\* A board that has forgotten the devices of some slots.
LEMMA ForgetFields ==
  ASSUME NEW b \in Boards, NEW slots
  PROVE  LET n == Forget(b, slots)
         IN  /\ n.entries = Reset(b.entries, slots, EmptyEntry)
             /\ n.capacity = Reset(b.capacity, slots, NoCapacity)
             /\ n.calibration = Reset(b.calibration, slots, FALSE)
             /\ n.power = b.power /\ n.profile = b.profile
             /\ IsBoard(n)
BY DEF Forget, Boards, IsBoard

\* A board whose devices in some slots sleep.
LEMMA AsleepFields ==
  ASSUME NEW b \in Boards, NEW slots
  PROVE  LET n == Asleep(b, slots)
         IN  /\ n.entries = b.entries /\ n.capacity = b.capacity
             /\ n.calibration = b.calibration /\ n.profile = b.profile
             /\ n.power = Reset(b.power, {b.entries[s].address : s \in slots}, "asleep")
             /\ IsBoard(n)
BY DEF Asleep, Boards, IsBoard

\* A board with one sensor in another state.
LEMMA PowerFields ==
  ASSUME NEW b \in Boards, NEW a, NEW state
  PROVE  LET n == [b EXCEPT !.power[a] = state]
         IN  /\ n.entries = b.entries /\ n.capacity = b.capacity
             /\ n.calibration = b.calibration /\ n.profile = b.profile
             /\ n.power = [b.power EXCEPT ![a] = state]
             /\ IsBoard(n)
BY DEF Boards, IsBoard

\* A board with another profile in one gauge.
LEMMA ProfileFields ==
  ASSUME NEW b \in Boards, NEW a, NEW value
  PROVE  LET n == [b EXCEPT !.profile[a] = value]
         IN  /\ n.entries = b.entries /\ n.capacity = b.capacity
             /\ n.calibration = b.calibration /\ n.power = b.power
             /\ n.profile = [b.profile EXCEPT ![a] = value]
             /\ IsBoard(n)
BY DEF Boards, IsBoard

\* A board with another capacity for one slot.
LEMMA CapacityFields ==
  ASSUME NEW b \in Boards, NEW s, NEW value
  PROVE  LET n == [b EXCEPT !.capacity[s] = value]
         IN  /\ n.entries = b.entries /\ n.profile = b.profile
             /\ n.calibration = b.calibration /\ n.power = b.power
             /\ n.capacity = [b.capacity EXCEPT ![s] = value]
             /\ IsBoard(n)
BY DEF Boards, IsBoard

\* A board after a raw write.
LEMMA RawFields ==
  ASSUME NEW b \in Boards, NEW a
  PROVE  LET n == [b EXCEPT !.power[a] = "unknown", !.profile[a] = Torn]
         IN  /\ n.entries = b.entries /\ n.capacity = b.capacity
             /\ n.calibration = b.calibration
             /\ n.power = [b.power EXCEPT ![a] = "unknown"]
             /\ n.profile = [b.profile EXCEPT ![a] = Torn]
             /\ IsBoard(n)
BY DEF Boards, IsBoard

\* The entries of the registry.
Entries == {EmptyEntry} \cup [kind : DeviceKinds, address : DeviceAddresses]

\* The boards are the records with these fields.
LEMMA BoardsByFields ==
  ASSUME NEW n
  PROVE  n \in Boards <=> 
           /\ IsBoard(n)
           /\ n.entries \in [DeviceSlots -> Entries]
           /\ n.capacity \in [DeviceSlots -> {NoCapacity} \cup CapacityInputs]
           /\ n.calibration \in [DeviceSlots -> BOOLEAN]
           /\ n.power \in [DOMAIN Sensors -> {"asleep", "started", "unknown"}]
           /\ n.profile \in [DOMAIN Sensors -> {NoCapacity, -1} \cup CapacityInputs]
<1>1. ASSUME n \in Boards
      PROVE  /\ IsBoard(n)
             /\ n.entries \in [DeviceSlots -> Entries]
             /\ n.capacity \in [DeviceSlots -> {NoCapacity} \cup CapacityInputs]
             /\ n.calibration \in [DeviceSlots -> BOOLEAN]
             /\ n.power \in [DOMAIN Sensors -> {"asleep", "started", "unknown"}]
             /\ n.profile \in [DOMAIN Sensors -> {NoCapacity, -1} \cup CapacityInputs]
  BY <1>1 DEF Boards, IsBoard, Entries
<1>2. ASSUME IsBoard(n),
             n.entries \in [DeviceSlots -> Entries],
             n.capacity \in [DeviceSlots -> {NoCapacity} \cup CapacityInputs],
             n.calibration \in [DeviceSlots -> BOOLEAN],
             n.power \in [DOMAIN Sensors -> {"asleep", "started", "unknown"}],
             n.profile \in [DOMAIN Sensors -> {NoCapacity, -1} \cup CapacityInputs]
      PROVE  n \in Boards
  BY <1>2 DEF Boards, IsBoard, Entries
<1> QED
  BY <1>1, <1>2

\* There is a device in the slot.
Occupied(b, s) == b.entries[s] # EmptyEntry

\* A device is wired to the bus and awake, and alone at its address.
DeviceOK(b, s) ==
  Occupied(b, s) =>
    /\ b.entries[s].address \in DOMAIN Sensors
    /\ b.power[b.entries[s].address] # "asleep"
    /\ \A t \in DeviceSlots \ {s} : b.entries[t].address # b.entries[s].address

\* What is kept for a slot is of its device.
SettingsOK(b, s) ==
  /\ b.calibration[s] <=> b.entries[s].kind = "BME688"
  /\ b.capacity[s] # NoCapacity =>
       /\ b.entries[s].kind = "LC709203F"
       /\ b.profile[b.entries[s].address] \in {b.capacity[s], Torn}

\* The inductive invariant of the registry and of the sensors.
BoardOK(b) ==
  /\ b \in Boards
  /\ \A s \in DeviceSlots : DeviceOK(b, s) /\ SettingsOK(b, s)

\* An entry is empty in its kind and in its address, or in neither.
LEMMA EntryFacts ==
  ASSUME NEW e \in Entries
  PROVE  /\ e = EmptyEntry <=> e.kind = "NONE"
         /\ e = EmptyEntry <=> e.address = 0
         /\ e # EmptyEntry => e.kind \in DeviceKinds /\ e.address \in DeviceAddresses
BY DEF Entries, EmptyEntry, DeviceKinds, DeviceAddresses

\* Sensors are wired at addresses of devices.
LEMMA WiredAddress ==
  ASSUME NEW a \in DOMAIN Sensors
  PROVE  a \in DeviceAddresses
BY RegistryAssumption

\* The empty entry, and no sensor at its address.
LEMMA EmptyFacts ==
  /\ EmptyEntry.kind = "NONE" /\ EmptyEntry.address = 0 /\ EmptyEntry \in Entries
  /\ 0 \notin DOMAIN Sensors /\ DOMAIN Sensors \subseteq DeviceAddresses
<1>1. EmptyEntry.kind = "NONE" /\ EmptyEntry.address = 0
  BY DEF EmptyEntry
<1>2. EmptyEntry \in Entries
  BY DEF Entries
<1>3. DOMAIN Sensors \subseteq DeviceAddresses
  <2>1. ASSUME NEW a \in DOMAIN Sensors PROVE a \in DeviceAddresses
    BY WiredAddress
  <2> QED
    BY <2>1
<1>4. 0 \notin DeviceAddresses
  BY DEF DeviceAddresses
<1> QED
  BY <1>1, <1>2, <1>3, <1>4

\* The board of a start is well kept.
LEMMA FreshOK == BoardOK(FreshBoard)
<1> DEFINE b == FreshBoard
<1>1. /\ b.entries = [s \in DeviceSlots |-> EmptyEntry]
      /\ b.capacity = [s \in DeviceSlots |-> NoCapacity]
      /\ b.calibration = [s \in DeviceSlots |-> FALSE]
      /\ b.power = [a \in DOMAIN Sensors |-> "asleep"]
      /\ b.profile = [a \in DOMAIN Sensors |-> NoCapacity]
      /\ IsBoard(b)
  BY DEF FreshBoard, IsBoard
<1> HIDE DEF b
<1>2. b \in Boards
  <2>1. b.entries \in [DeviceSlots -> Entries]
    BY <1>1, EmptyFacts
  <2>2. b.capacity \in [DeviceSlots -> {NoCapacity} \cup CapacityInputs]
    BY <1>1
  <2>3. b.calibration \in [DeviceSlots -> BOOLEAN]
    BY <1>1
  <2>4. b.power \in [DOMAIN Sensors -> {"asleep", "started", "unknown"}]
    BY <1>1
  <2>5. b.profile \in [DOMAIN Sensors -> {NoCapacity, -1} \cup CapacityInputs]
    BY <1>1
  <2> QED
    BY <1>1, <2>1, <2>2, <2>3, <2>4, <2>5, BoardsByFields
<1>3. \A s \in DeviceSlots : DeviceOK(b, s) /\ SettingsOK(b, s)
  BY <1>1, EmptyFacts DEF DeviceOK, SettingsOK, Occupied
<1> QED
  BY <1>2, <1>3 DEF BoardOK, b

\* A board with a sensor less or more awake, or a profile torn.
LEMMA PowerOK ==
  ASSUME NEW b, BoardOK(b), NEW a, NEW state \in {"started", "unknown"}
  PROVE  BoardOK([b EXCEPT !.power[a] = state])
<1> DEFINE n == [b EXCEPT !.power[a] = state]
<1>1. /\ n.entries = b.entries /\ n.capacity = b.capacity
      /\ n.calibration = b.calibration /\ n.profile = b.profile
      /\ n.power = [b.power EXCEPT ![a] = state]
      /\ IsBoard(n) /\ b \in Boards
  BY PowerFields DEF BoardOK
<1> HIDE DEF n
<1>2. n \in Boards
  BY <1>1, BoardsByFields
<1>3. \A s \in DeviceSlots : DeviceOK(n, s) /\ SettingsOK(n, s)
  <2> SUFFICES ASSUME NEW s \in DeviceSlots PROVE DeviceOK(n, s) /\ SettingsOK(n, s)
    OBVIOUS
  <2>1. DeviceOK(b, s) /\ SettingsOK(b, s)
    BY DEF BoardOK
  <2>2. b.power \in [DOMAIN Sensors -> {"asleep", "started", "unknown"}]
    BY <1>1, BoardsByFields
  <2>3. DeviceOK(n, s)
    BY <1>1, <2>1, <2>2 DEF DeviceOK, Occupied
  <2>4. SettingsOK(n, s)
    BY <1>1, <2>1 DEF SettingsOK
  <2> QED
    BY <2>3, <2>4
<1> QED
  BY <1>2, <1>3 DEF BoardOK, n

\* A profile that is torn leaves the board well kept.
LEMMA TornOK ==
  ASSUME NEW b, BoardOK(b), NEW a
  PROVE  BoardOK([b EXCEPT !.profile[a] = Torn])
<1> DEFINE n == [b EXCEPT !.profile[a] = Torn]
<1>1. /\ n.entries = b.entries /\ n.capacity = b.capacity
      /\ n.calibration = b.calibration /\ n.power = b.power
      /\ n.profile = [b.profile EXCEPT ![a] = Torn]
      /\ IsBoard(n) /\ b \in Boards
  BY ProfileFields DEF BoardOK
<1> HIDE DEF n
<1>2. n \in Boards
  BY <1>1, BoardsByFields DEF Torn
<1>3. \A s \in DeviceSlots : DeviceOK(n, s) /\ SettingsOK(n, s)
  <2> SUFFICES ASSUME NEW s \in DeviceSlots PROVE DeviceOK(n, s) /\ SettingsOK(n, s)
    OBVIOUS
  <2>1. DeviceOK(b, s) /\ SettingsOK(b, s)
    BY DEF BoardOK
  <2>2. DeviceOK(n, s)
    BY <1>1, <2>1 DEF DeviceOK, Occupied
  <2>3. n.profile[b.entries[s].address] \in {b.profile[b.entries[s].address], Torn}
    BY <1>1, BoardsByFields
  <2>4. SettingsOK(n, s)
    BY <1>1, <2>1, <2>3 DEF SettingsOK
  <2> QED
    BY <2>2, <2>4
<1> QED
  BY <1>2, <1>3 DEF BoardOK, n

\* A raw write leaves the board well kept.
LEMMA RawOK ==
  ASSUME NEW b, BoardOK(b), NEW a
  PROVE  BoardOK([b EXCEPT !.power[a] = "unknown", !.profile[a] = Torn])
<1> DEFINE m == [b EXCEPT !.power[a] = "unknown"]
           n == [m EXCEPT !.profile[a] = Torn]
<1>1. BoardOK(m)
  BY PowerOK
<1>2. BoardOK(n)
  <2> HIDE DEF m
  <2> QED
    BY <1>1, TornOK
<1>3. n = [b EXCEPT !.power[a] = "unknown", !.profile[a] = Torn]
  BY DEF BoardOK, Boards
<1> QED
  BY <1>2, <1>3

\* A function that is reset on some elements, by its values.
LEMMA ResetAt ==
  ASSUME NEW f, NEW elements, NEW value, NEW x \in DOMAIN f
  PROVE  /\ DOMAIN Reset(f, elements, value) = DOMAIN f
         /\ x \in elements => Reset(f, elements, value)[x] = value
         /\ x \notin elements => Reset(f, elements, value)[x] = f[x]
BY DEF Reset

\* A function that is reset is of the type it was.
LEMMA ResetIn ==
  ASSUME NEW D, NEW S, NEW f \in [D -> S], NEW elements, NEW value \in S
  PROVE  Reset(f, elements, value) \in [D -> S]
BY DEF Reset

\* Sending the devices of some slots to sleep and forgetting them.
LEMMA ForgottenOK ==
  ASSUME NEW b, BoardOK(b), NEW slots \in SUBSET DeviceSlots,
         \A s \in slots : Occupied(b, s)
  PROVE  BoardOK(Forget(Asleep(b, slots), slots))
<1> DEFINE m == Asleep(b, slots)
           n == Forget(m, slots)
           addresses == {b.entries[s].address : s \in slots}
<1>0. b \in Boards /\ \A s \in DeviceSlots : DeviceOK(b, s) /\ SettingsOK(b, s)
  BY DEF BoardOK
<1>1. /\ m.entries = b.entries /\ m.capacity = b.capacity
      /\ m.calibration = b.calibration /\ m.profile = b.profile
      /\ m.power = Reset(b.power, addresses, "asleep")
      /\ IsBoard(m)
  BY <1>0, AsleepFields
<1>2. /\ b.entries \in [DeviceSlots -> Entries]
      /\ b.capacity \in [DeviceSlots -> {NoCapacity} \cup CapacityInputs]
      /\ b.calibration \in [DeviceSlots -> BOOLEAN]
      /\ b.power \in [DOMAIN Sensors -> {"asleep", "started", "unknown"}]
      /\ b.profile \in [DOMAIN Sensors -> {NoCapacity, -1} \cup CapacityInputs]
  BY <1>0, BoardsByFields
<1> HIDE DEF m
<1>3. m.power \in [DOMAIN Sensors -> {"asleep", "started", "unknown"}]
  <2> DEFINE P == {"asleep", "started", "unknown"}
  <2>1. b.power \in [DOMAIN Sensors -> P] /\ "asleep" \in P
    BY <1>2
  <2> HIDE DEF P
  <2>2. Reset(b.power, addresses, "asleep") \in [DOMAIN Sensors -> P]
    BY <2>1, ResetIn
  <2> QED
    BY <1>1, <2>2 DEF P
<1>4. m \in Boards
  BY <1>1, <1>2, <1>3, BoardsByFields
<1>5. /\ n.entries = Reset(b.entries, slots, EmptyEntry)
      /\ n.capacity = Reset(b.capacity, slots, NoCapacity)
      /\ n.calibration = Reset(b.calibration, slots, FALSE)
      /\ n.power = m.power /\ n.profile = b.profile /\ IsBoard(n)
  BY <1>1, <1>4, ForgetFields
<1> HIDE DEF n
<1>6. /\ n.entries \in [DeviceSlots -> Entries]
      /\ n.capacity \in [DeviceSlots -> {NoCapacity} \cup CapacityInputs]
      /\ n.calibration \in [DeviceSlots -> BOOLEAN]
  <2>1. Reset(b.entries, slots, EmptyEntry) \in [DeviceSlots -> Entries]
    BY <1>2, EmptyFacts, ResetIn
  <2> DEFINE C == {NoCapacity} \cup CapacityInputs
  <2>2. b.capacity \in [DeviceSlots -> C] /\ NoCapacity \in C
    BY <1>2
  <2> HIDE DEF C
  <2>3. Reset(b.capacity, slots, NoCapacity) \in [DeviceSlots -> C]
    BY <2>2, ResetIn
  <2>4. n.calibration \in [DeviceSlots -> BOOLEAN]
    <3> DEFINE B == BOOLEAN
    <3>1. b.calibration \in [DeviceSlots -> B] /\ FALSE \in B
      BY <1>2
    <3> HIDE DEF B
    <3>2. Reset(b.calibration, slots, FALSE) \in [DeviceSlots -> B]
      BY <3>1, ResetIn
    <3> QED
      BY <1>5, <3>2 DEF B
  <2> QED
    BY <1>5, <2>1, <2>3, <2>4 DEF C
<1>7. n \in Boards
  BY <1>2, <1>3, <1>5, <1>6, BoardsByFields
<1>8. \A s \in DeviceSlots : DeviceOK(n, s) /\ SettingsOK(n, s)
  <2> SUFFICES ASSUME NEW s \in DeviceSlots PROVE DeviceOK(n, s) /\ SettingsOK(n, s)
    OBVIOUS
  <2>1. CASE s \in slots
    <3>1. n.entries[s] = EmptyEntry /\ n.capacity[s] = NoCapacity /\ n.calibration[s] = FALSE
      <4>1. s \in DOMAIN b.entries /\ s \in DOMAIN b.capacity /\ s \in DOMAIN b.calibration
        BY <1>2
      <4>2. /\ Reset(b.entries, slots, EmptyEntry)[s] = EmptyEntry
            /\ Reset(b.capacity, slots, NoCapacity)[s] = NoCapacity
        BY <2>1, <4>1, ResetAt
      <4>3. n.calibration[s] = FALSE
        BY <1>2, <1>5, <2>1 DEF Reset
      <4> QED
        BY <1>5, <4>2, <4>3
    <3> QED
      BY <3>1, EmptyFacts DEF DeviceOK, SettingsOK, Occupied
  <2>2. CASE s \notin slots
    <3>1. /\ n.entries[s] = b.entries[s] /\ n.capacity[s] = b.capacity[s]
          /\ n.calibration[s] = b.calibration[s]
      <4>1. s \in DOMAIN b.entries /\ s \in DOMAIN b.capacity /\ s \in DOMAIN b.calibration
        BY <1>2
      <4>2. /\ Reset(b.entries, slots, EmptyEntry)[s] = b.entries[s]
            /\ Reset(b.capacity, slots, NoCapacity)[s] = b.capacity[s]
        BY <2>2, <4>1, ResetAt
      <4>3. n.calibration[s] = b.calibration[s]
        BY <1>2, <1>5, <2>2 DEF Reset
      <4> QED
        BY <1>5, <4>2, <4>3
    <3>2. SettingsOK(n, s)
      BY <1>0, <1>5, <3>1 DEF SettingsOK
    <3>3. DeviceOK(n, s)
      <4> SUFFICES ASSUME Occupied(b, s)
                   PROVE  /\ n.entries[s].address \in DOMAIN Sensors
                          /\ n.power[n.entries[s].address] # "asleep"
                          /\ \A t \in DeviceSlots \ {s} :
                               n.entries[t].address # n.entries[s].address
        BY <3>1 DEF DeviceOK, Occupied
      <4> DEFINE a == b.entries[s].address
      <4>1. /\ a \in DOMAIN Sensors /\ b.power[a] # "asleep"
            /\ \A t \in DeviceSlots \ {s} : b.entries[t].address # a
        BY <1>0 DEF DeviceOK
      <4>2. a \notin addresses
        BY <2>2, <4>1
      <4>3. n.power[a] = b.power[a]
        BY <1>1, <1>2, <1>5, <4>1, <4>2, ResetAt
      <4>4. ASSUME NEW t \in DeviceSlots \ {s} PROVE n.entries[t].address # a
        <5>1. n.entries[t] = b.entries[t] \/ n.entries[t] = EmptyEntry
          BY <1>2, <1>5, ResetAt
        <5> QED
          BY <4>1, <5>1, EmptyFacts
      <4> QED
        BY <3>1, <4>1, <4>3, <4>4
    <3> QED
      BY <3>2, <3>3
  <2> QED
    BY <2>1, <2>2
<1> QED
  BY <1>7, <1>8 DEF BoardOK, n, m

-----------------------------------------------------------------------------
(* The commands of the registry.                                           *)

\* What a command leaves behind is a board that is well kept.
Keeps(ends) == \A end \in ends : BoardOK(end.board)

\* A command that is done, or fails at once, leaves the board it was given.
LEMMA DoneOK ==
  ASSUME NEW b, BoardOK(b), NEW type, NEW value
  PROVE  BoardOK(Done(b, type, value).board) /\ BoardOK(Failed(b, type).board)
<1>1. Done(b, type, value).board = b /\ Failed(b, type).board = b
  BY DEF Done, Failed
<1> QED
  BY <1>1

\* What an attempt that the bus broke off may leave is well kept.
LEMMA GivenUpOK ==
  ASSUME NEW b, BoardOK(b), NEW a
  PROVE  \A left \in GivenUp(b, a) : BoardOK(left)
<1>1. BoardOK([b EXCEPT !.power[a] = "unknown"])
  BY PowerOK
<1> QED
  BY <1>1 DEF GivenUp

\* A device that is awake, at an address of its own, may be inserted.
LEMMA InsertOK ==
  ASSUME NEW b, BoardOK(b), NEW slot \in DeviceSlots, NEW kind \in DeviceKinds,
         NEW address, ~Occupied(b, slot), address \in DOMAIN Sensors,
         \A s \in DeviceSlots : b.entries[s].address # address,
         b.power[address] # "asleep"
  PROVE  BoardOK(Insert(b, slot, kind, address))
<1> DEFINE n == Insert(b, slot, kind, address)
           e == [kind |-> kind, address |-> address]
<1>0. b \in Boards /\ \A s \in DeviceSlots : DeviceOK(b, s) /\ SettingsOK(b, s)
  BY DEF BoardOK
<1>1. /\ n.entries = [b.entries EXCEPT ![slot] = e]
      /\ n.capacity = b.capacity
      /\ n.calibration = [b.calibration EXCEPT ![slot] = (kind = "BME688")]
      /\ n.power = b.power /\ n.profile = b.profile
      /\ IsBoard(n)
  BY <1>0, InsertFields
<1>2. /\ b.entries \in [DeviceSlots -> Entries]
      /\ b.capacity \in [DeviceSlots -> {NoCapacity} \cup CapacityInputs]
      /\ b.calibration \in [DeviceSlots -> BOOLEAN]
      /\ b.power \in [DOMAIN Sensors -> {"asleep", "started", "unknown"}]
      /\ b.profile \in [DOMAIN Sensors -> {NoCapacity, -1} \cup CapacityInputs]
  BY <1>0, BoardsByFields
<1>3. e \in Entries /\ e.kind = kind /\ e.address = address /\ e # EmptyEntry
  <2>1. e.kind = kind /\ e.address = address /\ e \in Entries
    BY EmptyFacts DEF Entries
  <2>2. address # 0
    BY EmptyFacts
  <2> HIDE DEF e
  <2> QED
    BY <2>1, <2>2, EmptyFacts
<1> HIDE DEF n, e
<1>4. n.entries \in [DeviceSlots -> Entries] /\ n.calibration \in [DeviceSlots -> BOOLEAN]
  BY <1>1, <1>2, <1>3
<1>5. n \in Boards
  BY <1>1, <1>2, <1>4, BoardsByFields
<1>6. b.capacity[slot] = NoCapacity
  <2>1. b.entries[slot].kind = "NONE"
    BY EmptyFacts DEF Occupied
  <2> QED
    BY <1>0, <2>1 DEF SettingsOK
<1>7. \A s \in DeviceSlots : DeviceOK(n, s) /\ SettingsOK(n, s)
  <2> SUFFICES ASSUME NEW s \in DeviceSlots PROVE DeviceOK(n, s) /\ SettingsOK(n, s)
    OBVIOUS
  <2>0. \A t \in DeviceSlots : n.entries[t] = IF t = slot THEN e ELSE b.entries[t]
    BY <1>1, <1>2
  <2>1. CASE s = slot
    <3>1. n.entries[s] = e
      BY <2>0, <2>1
    <3>2. n.calibration[s] = (kind = "BME688")
      BY <1>1, <1>2, <2>1
    <3>3. SettingsOK(n, s)
      BY <1>1, <1>3, <1>6, <2>1, <3>1, <3>2 DEF SettingsOK
    <3>4. DeviceOK(n, s)
      BY <1>1, <1>3, <2>0, <2>1, <3>1 DEF DeviceOK
    <3> QED
      BY <3>3, <3>4
  <2>2. CASE s # slot
    <3>1. n.entries[s] = b.entries[s] /\ n.calibration[s] = b.calibration[s]
      BY <1>1, <1>2, <2>2
    <3>2. SettingsOK(n, s)
      BY <1>0, <1>1, <3>1 DEF SettingsOK
    <3>3. DeviceOK(n, s)
      BY <1>0, <1>1, <1>3, <2>0, <3>1 DEF DeviceOK, Occupied
    <3> QED
      BY <3>2, <3>3
  <2> QED
    BY <2>1, <2>2
<1> QED
  BY <1>5, <1>7 DEF BoardOK, n

\* A sensor that is initialised is wired and awake.
LEMMA InitializedOK ==
  ASSUME NEW b, BoardOK(b), NEW kind, NEW address,
         NEW i \in InitializedBoards(b, kind, address)
  PROVE  /\ BoardOK(i) /\ address \in DOMAIN Sensors /\ i.power[address] # "asleep"
         /\ i.entries = b.entries
<1>1. address \in DOMAIN Sensors
  BY DEF InitializedBoards
<1>2. PICK state \in {"started", "unknown"} : i = [b EXCEPT !.power[address] = state]
  BY DEF InitializedBoards
<1>3. BoardOK(i)
  BY <1>2, PowerOK
<1>4. i.entries = b.entries /\ i.power = [b.power EXCEPT ![address] = state]
  BY <1>2, PowerFields DEF BoardOK
<1>5. b.power \in [DOMAIN Sensors -> {"asleep", "started", "unknown"}]
  BY BoardsByFields DEF BoardOK
<1>6. i.power[address] = state
  BY <1>1, <1>4, <1>5
<1> QED
  BY <1>1, <1>3, <1>4, <1>6

\* Adding a device keeps the board, wherever the bus fails it.
LEMMA AddKeeps ==
  ASSUME NEW b, BoardOK(b), NEW slot, NEW kind \in DeviceKinds, NEW address
  PROVE  Keeps(DeviceAdd(b, slot, kind, address))
<1> DEFINE error == AddError(b, slot, kind, address)
<1>1. CASE error # "none"
  BY <1>1, DoneOK DEF DeviceAdd, Keeps
<1>2. CASE error = "none"
  <2>1. /\ slot \in DeviceSlots /\ ~Occupied(b, slot)
        /\ \A s \in DeviceSlots : b.entries[s].address # address
    BY <1>2 DEF AddError, Occupied
  <2>2. ASSUME NEW i \in InitializedBoards(b, kind, address)
        PROVE  BoardOK(Done(Insert(i, slot, kind, address), "DeviceConfig", kind).board)
    <3>1. /\ BoardOK(i) /\ address \in DOMAIN Sensors /\ i.power[address] # "asleep"
          /\ i.entries = b.entries
      BY InitializedOK
    <3>2. BoardOK(Insert(i, slot, kind, address))
      BY <2>1, <3>1, InsertOK DEF Occupied
    <3> QED
      BY <3>2, DoneOK
  <2>3. ASSUME NEW end \in FailedInitBoards(b, kind, address)
        PROVE  BoardOK(end.board)
    <3>1. PICK left, e : end = Failed(left, e) /\ left \in {b} \cup GivenUp(b, address)
      BY DEF FailedInitBoards
    <3> QED
      BY <3>1, GivenUpOK, DoneOK
  <2> QED
    BY <1>2, <2>2, <2>3 DEF DeviceAdd, Keeps
<1> QED
  BY <1>1, <1>2

\* A device that does not go to sleep is not forgotten.
LEMMA SleepFailuresKeep ==
  ASSUME NEW b, BoardOK(b), NEW slot
  PROVE  Keeps(SleepFailures(b, slot))
<1> SUFFICES ASSUME NEW end \in SleepFailures(b, slot) PROVE BoardOK(end.board)
  BY DEF Keeps
<1>1. PICK left : end = Failed(left, "Bus") /\ left \in {b} \cup GivenUp(b, b.entries[slot].address)
  BY DEF SleepFailures
<1> QED
  BY <1>1, GivenUpOK, DoneOK

\* Removing a device keeps the board: it sleeps only when it is forgotten.
LEMMA RemoveKeeps ==
  ASSUME NEW b, BoardOK(b), NEW slot
  PROVE  Keeps(DeviceRemove(b, slot))
<1>1. CASE SlotError(b, slot) # "none"
  BY <1>1, DoneOK DEF DeviceRemove, Keeps
<1>2. CASE SlotError(b, slot) = "none"
  <2>1. slot \in DeviceSlots /\ Occupied(b, slot)
    BY <1>2 DEF SlotError, Occupied
  <2>2. BoardOK(Forget(Asleep(b, {slot}), {slot}))
    BY <2>1, ForgottenOK
  <2> QED
    BY <1>2, <2>2, DoneOK, SleepFailuresKeep DEF DeviceRemove, Keeps
<1> QED
  BY <1>1, <1>2

\* Clearing the registry keeps the board.
LEMMA ClearKeeps ==
  ASSUME NEW b, BoardOK(b)
  PROVE  Keeps(DeviceClear(b))
<1> DEFINE used == {s \in DeviceSlots : b.entries[s] # EmptyEntry}
           without(slots) == Forget(Asleep(b, slots), slots)
<1>1. \A slots \in SUBSET used : BoardOK(without(slots))
  BY ForgottenOK DEF Occupied
<1>2. BoardOK(without(used))
  BY <1>1
<1>3. \A f \in used : BoardOK(without({s \in used : s < f}))
  BY <1>1
<1> HIDE DEF without
<1>4. \A f \in used : Keeps(SleepFailures(without({s \in used : s < f}), f))
  BY <1>3, SleepFailuresKeep
<1>5. BoardOK(Done(without(used), "DeviceCleared", "none").board)
  BY <1>2, DoneOK
<1>6. DeviceClear(b) = {Done(without(used), "DeviceCleared", "none")} \cup
        UNION {SleepFailures(without({s \in used : s < f}), f) : f \in used}
  BY DEF DeviceClear, without
<1> QED
  BY <1>4, <1>5, <1>6 DEF Keeps

\* Setting a battery capacity keeps the board: it is stored once it is written.
LEMMA CapacitySetKeeps ==
  ASSUME NEW b, BoardOK(b), NEW slot, NEW capacity \in CapacityInputs
  PROVE  Keeps(BatteryCapacitySet(b, slot, capacity))
<1> DEFINE address == b.entries[slot].address
           written == [b EXCEPT !.profile[address] = capacity]
           n == [written EXCEPT !.capacity[slot] = capacity]
           torn == [b EXCEPT !.profile[address] = Torn]
<1>1. BoardOK(torn)
  BY TornOK
<1>2. ASSUME slot \in DeviceSlots, Occupied(b, slot), b.entries[slot].kind = "LC709203F"
      PROVE  BoardOK(n)
  <2>0. b \in Boards /\ \A s \in DeviceSlots : DeviceOK(b, s) /\ SettingsOK(b, s)
    BY DEF BoardOK
  <2>1. /\ b.entries \in [DeviceSlots -> Entries]
        /\ b.capacity \in [DeviceSlots -> {NoCapacity} \cup CapacityInputs]
        /\ b.calibration \in [DeviceSlots -> BOOLEAN]
        /\ b.power \in [DOMAIN Sensors -> {"asleep", "started", "unknown"}]
        /\ b.profile \in [DOMAIN Sensors -> {NoCapacity, -1} \cup CapacityInputs]
    BY <2>0, BoardsByFields
  <2>2. /\ written.entries = b.entries /\ written.capacity = b.capacity
        /\ written.calibration = b.calibration /\ written.power = b.power
        /\ written.profile = [b.profile EXCEPT ![address] = capacity]
        /\ IsBoard(written)
    BY <2>0, ProfileFields
  <2> HIDE DEF written, address
  <2>3. written.profile \in [DOMAIN Sensors -> {NoCapacity, -1} \cup CapacityInputs]
    BY <2>1, <2>2
  <2>4. written \in Boards
    BY <2>1, <2>2, <2>3, BoardsByFields
  <2>5. /\ n.entries = b.entries /\ n.profile = written.profile
        /\ n.calibration = b.calibration /\ n.power = b.power
        /\ n.capacity = [b.capacity EXCEPT ![slot] = capacity]
        /\ IsBoard(n)
    <3>1. /\ n.entries = written.entries /\ n.profile = written.profile
          /\ n.calibration = written.calibration /\ n.power = written.power
          /\ n.capacity = [written.capacity EXCEPT ![slot] = capacity]
          /\ IsBoard(n)
      BY <2>4, CapacityFields
    <3> HIDE DEF n
    <3> QED
      BY <2>2, <3>1
  <2> HIDE DEF n
  <2>6. n.capacity \in [DeviceSlots -> {NoCapacity} \cup CapacityInputs]
    BY <2>1, <2>5
  <2>7. n \in Boards
    BY <2>1, <2>3, <2>5, <2>6, BoardsByFields
  <2>8. \A s \in DeviceSlots : DeviceOK(n, s) /\ SettingsOK(n, s)
    <3> SUFFICES ASSUME NEW s \in DeviceSlots PROVE DeviceOK(n, s) /\ SettingsOK(n, s)
      OBVIOUS
    <3>1. DeviceOK(n, s)
      BY <2>0, <2>5 DEF DeviceOK, Occupied
    <3>2. address \in DOMAIN Sensors /\ \A t \in DeviceSlots \ {slot} : b.entries[t].address # address
      BY <1>2, <2>0 DEF DeviceOK, address
    <3>3. CASE s = slot
      <4>1. n.capacity[s] = capacity
        BY <2>1, <2>5, <3>3
      <4>2. n.profile[n.entries[s].address] = capacity
        BY <2>1, <2>2, <2>5, <3>2, <3>3 DEF address
      <4> QED
        BY <1>2, <2>0, <2>5, <3>1, <3>3, <4>1, <4>2 DEF SettingsOK
    <3>4. CASE s # slot
      <4>1. n.capacity[s] = b.capacity[s]
        BY <2>1, <2>5, <3>4
      <4>2. n.profile[n.entries[s].address] = b.profile[b.entries[s].address]
        BY <2>1, <2>2, <2>5, <3>2, <3>4
      <4> QED
        BY <2>0, <2>5, <3>1, <4>1, <4>2 DEF SettingsOK
    <3> QED
      BY <3>3, <3>4
  <2> QED
    BY <2>7, <2>8 DEF BoardOK
<1>3. BoardOK(Done(torn, "DeviceError", "Bus").board)
  BY <1>1, DoneOK
<1>4. BoardOK(Failed(torn, "Bus").board)
  BY <1>1, DoneOK
<1> HIDE DEF n, torn
<1>5. CASE ~(slot \in DeviceSlots /\ Occupied(b, slot) /\ b.entries[slot].kind = "LC709203F")
  BY <1>5, DoneOK DEF BatteryCapacitySet, Keeps, SlotError, Occupied
<1>6. CASE slot \in DeviceSlots /\ Occupied(b, slot) /\ b.entries[slot].kind = "LC709203F"
  <2>1. BoardOK(Done(n, "BatteryCapacity", "none").board)
    BY <1>2, <1>6, DoneOK
  <2>2. BatteryCapacitySet(b, slot, capacity) \subseteq
          {Failed(b, "InvalidCapacity"), Failed(b, "Bus"), Failed(torn, "Bus"),
           Done(n, "BatteryCapacity", "none")}
    BY <1>6 DEF BatteryCapacitySet, SlotError, Occupied, n, torn
  <2> QED
    BY <1>4, <2>1, <2>2, DoneOK DEF Keeps
<1> QED
  BY <1>5, <1>6

\* A raw write keeps the board.
LEMMA RawKeeps ==
  ASSUME NEW b, BoardOK(b), NEW address
  PROVE  Keeps(RawWrite(b, address))
<1> DEFINE n == [b EXCEPT !.power[address] = "unknown", !.profile[address] = Torn]
<1>1. BoardOK(n)
  BY RawOK
<1> HIDE DEF n
<1>2. RawWrite(b, address) \subseteq
        {Done(b, "Error", "i2c_nack"), Done(n, "Write", "none"), Done(b, "Write", "none"),
         Done(b, "Error", "i2c_bus_error")}
  BY DEF RawWrite, n
<1> QED
  BY <1>1, <1>2, DoneOK DEF Keeps

\* A command that only asks leaves the board as it is.
Asks(b, ends) == \A end \in ends : end.board = b

\* A command that is done at once leaves the board as it is.
LEMMA DoneAsks ==
  ASSUME NEW b, NEW type, NEW value
  PROVE  Done(b, type, value).board = b /\ Failed(b, type).board = b
BY DEF Done, Failed

\* Every command keeps the board.
LEMMA ExecutionsKeep ==
  ASSUME NEW b, BoardOK(b), NEW command, WellFormed(command)
  PROVE  Keeps(Executions(b, command))
<1>1. Keeps(RawExecutions(b, command))
  BY RawKeeps, DoneOK DEF RawExecutions, Keeps
<1>2. Keeps(RegistryExecutions(b, command))
  <2>1. CASE command.type = "DeviceAdd"
    <3>1. Keeps(DeviceAdd(b, command.add.slot, command.add.kind, command.add.address))
      BY <2>1, AddKeeps DEF WellFormed
    <3> QED
      BY <2>1, <3>1 DEF RegistryExecutions
  <2>2. CASE command.type = "DeviceRemove"
    BY <2>2, RemoveKeeps DEF RegistryExecutions
  <2>3. CASE command.type = "DeviceClear"
    BY <2>3, ClearKeeps DEF RegistryExecutions
  <2>4. CASE command.type \notin {"DeviceAdd", "DeviceRemove", "DeviceClear"}
    <3>1. \A end \in RegistryExecutions(b, command) : \E type, value : end = Done(b, type, value)
      BY <2>4 DEF RegistryExecutions, Failed
    <3> QED
      BY <3>1, DoneOK DEF Keeps
  <2> QED
    BY <2>1, <2>2, <2>3, <2>4
<1>3. Keeps(BatteryCapacityGet(b, command.slot))
  <2>1. \A end \in BatteryCapacityGet(b, command.slot) : \E type, value : end = Done(b, type, value)
    BY DEF BatteryCapacityGet, Failed
  <2> QED
    BY <2>1, DoneOK DEF Keeps
<1>4. Keeps(Measure(b, command.type, command.slot))
  <2>1. \A end \in Measure(b, command.type, command.slot) :
          \E type, value : end = Done(b, type, value)
    BY DEF Measure, Failed
  <2> QED
    BY <2>1, DoneOK DEF Keeps
<1>5. CASE command.type = "BatteryCapacitySet"
  <2>1. Keeps(BatteryCapacitySet(b, command.slot, command.capacity))
    BY <1>5, CapacitySetKeeps DEF WellFormed
  <2> QED
    BY <1>5, <2>1 DEF Executions
<1>6. CASE command.type # "BatteryCapacitySet"
  BY <1>1, <1>2, <1>3, <1>4, <1>6 DEF Executions
<1> QED
  BY <1>5, <1>6

\* The board is well kept at first.
LEMMA BoardInit == I2cInit => BoardOK(board)
BY FreshOK DEF I2cInit

\* Every step of the service keeps the board.
LEMMA BoardStep == I2cInv /\ BoardOK(board) /\ [I2cNext]_i2cVars => BoardOK(board')
<1> SUFFICES ASSUME I2cInv, BoardOK(board), [I2cNext]_i2cVars PROVE BoardOK(board')
  OBVIOUS
<1>1. CASE ExecuteCommand
  <2>1. WellFormed(i2cWorker.command)
    BY DEF I2cInv, I2cShapes, WorkerOK
  <2>2. Keeps(Executions(board, i2cWorker.command))
    BY <2>1, ExecutionsKeep
  <2> QED
    BY <1>1, <2>2 DEF ExecuteCommand, Keeps
<1>2. CASE ~ExecuteCommand
  <2>1. board' = board
    BY <1>2 DEF I2cNext, I2cCallerNext, I2cWorkerNext, i2cVars, SendCommand, SendWaiting,
                ReceiveReply, GiveUp, TakeCommand, SendReply
  <2> QED
    BY <2>1
<1> QED
  BY <1>1, <1>2

\* The invariant of the I2C service.
LEMMA BoardInvariant == I2cSpec => [](I2cInv /\ BoardOK(board))
<1>1. I2cInit => I2cInv /\ BoardOK(board)
  BY I2cStart, BoardInit
<1>2. I2cInv /\ BoardOK(board) /\ [I2cNext]_i2cVars => I2cInv' /\ BoardOK(board)'
  <2>1. BoardOK(board)' <=> BoardOK(board')
    OBVIOUS
  <2> QED
    BY <2>1, I2cStep, BoardStep
<1> QED
  BY <1>1, <1>2, PTL DEF I2cSpec

\* RegisteredIsAwake for any number of slots and sensors: a registered sensor has
\* not been sent to sleep, whatever is added, removed and cleared and wherever the
\* bus fails (devices.rs).
THEOREM RegisteredStaysAwake == I2cSpec => []RegisteredIsAwake
<1>1. BoardOK(board) => RegisteredIsAwake
  <2> SUFFICES ASSUME BoardOK(board), NEW s \in DeviceSlots,
                      board.entries[s].address \in DOMAIN Sensors
               PROVE  board.power[board.entries[s].address] # "asleep"
    BY DEF RegisteredIsAwake
  <2>1. Occupied(board, s)
    BY EmptyFacts DEF Occupied
  <2> QED
    BY <2>1 DEF BoardOK, DeviceOK
<1> QED
  BY <1>1, BoardInvariant, PTL

\* SettingsBelongToDevice for any number of slots and sensors: the calibration and
\* the capacity kept for a slot are of the device in it (devices.rs).
THEOREM SettingsStayWithDevice == I2cSpec => []SettingsBelongToDevice
<1>1. BoardOK(board) => SettingsBelongToDevice
  <2> SUFFICES ASSUME BoardOK(board), NEW s \in DeviceSlots
               PROVE  /\ board.calibration[s] <=> board.entries[s].kind = "BME688"
                      /\ board.capacity[s] # NoCapacity =>
                           /\ board.entries[s].kind = "LC709203F"
                           /\ board.entries[s].address \in DOMAIN Sensors
                           /\ board.profile[board.entries[s].address] \in {board.capacity[s], Torn}
    BY DEF SettingsBelongToDevice
  <2>1. DeviceOK(board, s) /\ SettingsOK(board, s)
    BY DEF BoardOK
  <2>2. board.entries[s].kind = "LC709203F" => Occupied(board, s)
    BY EmptyFacts DEF Occupied
  <2> QED
    BY <2>1, <2>2 DEF DeviceOK, SettingsOK
<1> QED
  BY <1>1, BoardInvariant, PTL

\* The type invariant of the I2C service.
LEMMA I2cTypesFollow == I2cInv /\ BoardOK(board) => I2cTypeOK
<1> SUFFICES ASSUME I2cInv, BoardOK(board) PROVE I2cTypeOK
  OBVIOUS
<1>1. /\ DOMAIN i2cCall = I2cCallers
      /\ \A c \in I2cCallers :
           /\ i2cCall[c].pc \in {"idle", "again", "send", "receive"}
           /\ (I2C_CMD_LOCK = c) <=> i2cCall[c].pc \in {"send", "receive"}
      /\ i2cTimeouts \in 0..MaxI2cTimeouts /\ i2cMisses \in 0..i2cTimeouts
  BY DEF I2cInv, I2cShapes, CallOK
<1>2. i2cWorker.pc \in {"receive", "execute", "reply"}
  BY DEF I2cInv, I2cShapes, WorkerOK
<1>3. Len(I2C_COMMANDS) <= I2C_COMMAND_CAPACITY /\ Len(I2C_REPLIES) <= I2C_COMMAND_CAPACITY
  BY I2cLimits DEF I2cInv, I2cQueues
<1>4. board \in Boards
  BY DEF BoardOK
<1> QED
  BY <1>1, <1>2, <1>3, <1>4 DEF I2cTypeOK

-----------------------------------------------------------------------------
(* The channel to the CAN task.                                            *)

\* Who may hold the lock.
CanHolders == CanClients \cup {NoCan}

\* The task in one of its states, and a reply as it waits.
Task(pc, age) == [pc |-> pc, age |-> age]
CanAnswer(age) == [age |-> age]

TaskOK(task) ==
  /\ task = Task(task.pc, task.age)
  /\ task.pc \in {"start", "commands", "reply"}

\* The calls, the lock and the task: the lock is held by the client that waits.
CanShapes ==
  /\ canCall \in [CanClients -> {"away", "loop", "receive"}]
  /\ CAN_CMD_LOCK \in CanHolders
  /\ \A c \in CanClients : (CAN_CMD_LOCK = c) <=> canCall[c] = "receive"
  /\ TaskOK(canTask)
  /\ canTimeouts \in 0..MaxCanTimeouts
  /\ canMisses \in 0..canTimeouts

\* The queues, by their elements.
CanQueues ==
  /\ IsQueue(CAN_COMMANDS) /\ Len(CAN_COMMANDS) \in 0..CAN_COMMAND_CAPACITY
  /\ IsQueue(CAN_REPLIES) /\ Len(CAN_REPLIES) \in 0..CAN_COMMAND_CAPACITY
  /\ \A i \in 1..Len(CAN_COMMANDS) :
       /\ CAN_COMMANDS[i] = Item(CAN_COMMANDS[i].age, CAN_COMMANDS[i].command)
       /\ CAN_COMMANDS[i].command \in CanCommands
  /\ \A i \in 1..Len(CAN_REPLIES) : CAN_REPLIES[i] = CanAnswer(CAN_REPLIES[i].age)

\* The state that is reported, and what the controller is set to.
CanController ==
  /\ canStatus \in [ready : BOOLEAN, state : CanBusStates,
                    setting : [bitrate : SupportedBitrates, mode : CanModes]]
  /\ controller.bitrate \in SupportedBitrates \cup {0}

\* What is on its way: the commands that are not answered yet, and the replies that
\* nobody has taken.
CanWorking == IF canTask.pc = "reply" THEN 1 ELSE 0
CanUnderway == Len(CAN_COMMANDS) + CanWorking + Len(CAN_REPLIES)

\* It is in order: every call is older by one than the next, without a gap.
CanAges ==
  /\ \A i \in 1..Len(CAN_COMMANDS) : CAN_COMMANDS[i].age = Len(CAN_COMMANDS) - i
  /\ canTask.pc = "reply" => canTask.age = Len(CAN_COMMANDS)
  /\ \A i \in 1..Len(CAN_REPLIES) : CAN_REPLIES[i].age = CanUnderway - i

\* And it is the call that somebody waits for, and those that nobody waits for any
\* more.
CanAwaited == IF \E c \in CanClients : canCall[c] = "receive" THEN 1 ELSE 0
CanCount == CanUnderway = canMisses + CanAwaited

\* The inductive invariant of the channel to the CAN task.
CanInv == CanShapes /\ CanQueues /\ CanController /\ CanAges /\ CanCount

\* The bounds are numbers.
LEMMA CanLimits ==
  /\ CAN_EVENT_CAPACITY \in Nat \ {0} /\ CAN_COMMAND_CAPACITY \in Nat \ {0}
  /\ MaxFrames \in Nat /\ MaxCanTimeouts \in Nat
  /\ NoCan \notin CanClients
BY CanAssumption DEF NoCan

\* The lengths of the queues and the counters are numbers.
LEMMA CanNumbers ==
  ASSUME CanInv
  PROVE  /\ Len(CAN_COMMANDS) \in Nat /\ Len(CAN_REPLIES) \in Nat
         /\ CanWorking \in {0, 1} /\ CanAwaited \in {0, 1}
         /\ canMisses \in Nat /\ canTimeouts \in Nat
BY CanLimits DEF CanInv, CanQueues, CanShapes, CanWorking, CanAwaited

\* A task that is put together is one, and so is a reply.
LEMMA NewTask ==
  /\ \A pc, age : pc \in {"start", "commands", "reply"} =>
       LET t == Task(pc, age) IN TaskOK(t) /\ t.pc = pc /\ t.age = age
  /\ \A age : LET x == CanAnswer(age) IN /\ x = CanAnswer(x.age) /\ x.age = age
                                         /\ [x EXCEPT !.age = @ + 1] = CanAnswer(age + 1)
BY DEF Task, TaskOK, CanAnswer

\* The invariant of the channel holds at first.
LEMMA CanStart == CanInit => CanInv
<1> SUFFICES ASSUME CanInit PROVE CanInv
  OBVIOUS
<1>1. canCall = [c \in CanClients |-> "away"] /\ CAN_CMD_LOCK = NoCan
      /\ CAN_COMMANDS = <<>> /\ CAN_REPLIES = <<>> /\ canTimeouts = 0 /\ canMisses = 0
  BY DEF CanInit
<1>2. TaskOK(canTask) /\ canTask.pc = "start"
  BY NewTask DEF CanInit, Task
<1>3. CanShapes
  BY <1>1, <1>2, CanLimits DEF CanShapes, CanHolders
<1>4. CanQueues
  BY <1>1, QueueEmpty, CanLimits DEF CanQueues
<1>5. CanController
  BY DEF CanInit, CanController, Stopped, Setting, Unset, CanBusStates, CanModes,
         SupportedBitrates, CAN_DEFAULT_BITRATE
<1>6. CanAges /\ CanCount
  BY <1>1, <1>2, QueueEmpty DEF CanAges, CanCount, CanUnderway, CanWorking, CanAwaited
<1> QED
  BY <1>3, <1>4, <1>5, <1>6 DEF CanInv

\* The call of client c changes; the lock is as the new state asks for.
LEMMA CanCallChanges ==
  ASSUME CanInv, NEW c \in CanClients, NEW pc \in {"away", "loop", "receive"},
         canCall' = [canCall EXCEPT ![c] = pc],
         CAN_CMD_LOCK' = (IF pc = "receive" THEN c ELSE NoCan),
         CAN_CMD_LOCK = c \/ CAN_CMD_LOCK = NoCan,
         canTimeouts' \in 0..MaxCanTimeouts, canMisses' \in 0..canTimeouts',
         TaskOK(canTask')
  PROVE  /\ CanShapes'
         /\ CanAwaited = IF canCall[c] = "receive" THEN 1 ELSE 0
         /\ CanAwaited' = IF pc = "receive" THEN 1 ELSE 0
<1>1. /\ canCall \in [CanClients -> {"away", "loop", "receive"}]
      /\ \A b \in CanClients \ {c} : canCall[b] # "receive"
  BY CanLimits DEF CanInv, CanShapes
<1>2. /\ canCall' \in [CanClients -> {"away", "loop", "receive"}] /\ canCall'[c] = pc
      /\ \A b \in CanClients \ {c} : canCall'[b] = canCall[b]
  BY <1>1
<1>3. CAN_CMD_LOCK' \in CanHolders
  BY DEF CanHolders
<1>4. \A b \in CanClients : (CAN_CMD_LOCK' = b) <=> canCall'[b] = "receive"
  BY <1>1, <1>2, CanLimits
<1>5. CanShapes'
  BY <1>2, <1>3, <1>4 DEF CanShapes
<1>6. (\E b \in CanClients : canCall[b] = "receive") <=> canCall[c] = "receive"
  BY <1>1
<1>7. (\E b \in CanClients : canCall'[b] = "receive") <=> pc = "receive"
  BY <1>1, <1>2
<1> QED
  BY <1>5, <1>6, <1>7 DEF CanAwaited

\* What the invariant says of one client.
LEMMA CanCallFields ==
  ASSUME CanInv, NEW c \in CanClients
  PROVE  /\ canCall[c] \in {"away", "loop", "receive"}
         /\ (CAN_CMD_LOCK = c) <=> canCall[c] = "receive"
         /\ TaskOK(canTask)
         /\ canTimeouts \in 0..MaxCanTimeouts /\ canMisses \in 0..canTimeouts
BY DEF CanInv, CanShapes

\* A client that comes or goes leaves the channel alone.
LEMMA SubscriptionInv ==
  ASSUME CanInv, NEW c \in CanClients, Subscribe(c) \/ Unsubscribe(c) PROVE CanInv'
<1>1. PICK pc \in {"away", "loop"} : canCall' = [canCall EXCEPT ![c] = pc]
  BY DEF Subscribe, Unsubscribe, CanClientAt
<1>2. /\ UNCHANGED <<canStatus, controller, CAN_COMMANDS, CAN_REPLIES, canTask, canTimeouts,
                     canMisses, CAN_CMD_LOCK>>
      /\ canCall[c] # "receive"
  BY DEF Subscribe, Unsubscribe, Subscribed
<1>3. canCall \in [CanClients -> {"away", "loop", "receive"}]
  BY DEF CanInv, CanShapes
<1>4. /\ canCall' \in [CanClients -> {"away", "loop", "receive"}] /\ canCall'[c] = pc
      /\ \A b \in CanClients \ {c} : canCall'[b] = canCall[b]
  BY <1>1, <1>3
<1>5. \A b \in CanClients : canCall'[b] = "receive" <=> canCall[b] = "receive"
  BY <1>2, <1>4
<1>6. CanShapes'
  BY <1>2, <1>4, <1>5 DEF CanInv, CanShapes
<1>7. CanQueues' /\ CanController'
  BY <1>2 DEF CanInv, CanQueues, CanController
<1>8. CanAwaited' = CanAwaited
  BY <1>5 DEF CanAwaited
<1>9. CanAges' /\ CanCount'
  BY <1>2, <1>8 DEF CanInv, CanAges, CanCount, CanUnderway, CanWorking
<1> QED
  BY <1>6, <1>7, <1>9 DEF CanInv

\* A client sends a command, and what is on its way already is older by one.
LEMMA SendCanCommandInv ==
  ASSUME CanInv, NEW c \in CanClients, SendCanCommand(c) PROVE CanInv'
<1> DEFINE q == CAN_COMMANDS
           older == CanOlder(q)
           r == CAN_COMMANDS'
           n == Len(q)
           t == canTask
           u == canTask'
<1>1. PICK command \in CanCommands : r = Append(older, [age |-> 0, command |-> command])
  BY DEF SendCanCommand
<1> DEFINE x == Item(0, command)
<1>2. r = Append(older, x) /\ x.age = 0 /\ x.command = command /\ x = Item(x.age, x.command)
  BY <1>1 DEF Item
<1>3. /\ canCall' = [canCall EXCEPT ![c] = "receive"] /\ canCall[c] = "loop"
      /\ CAN_CMD_LOCK = NoCan /\ CAN_CMD_LOCK' = c /\ CAN_REPLIES' = <<>>
      /\ u = IF t.pc = "reply" THEN [t EXCEPT !.age = @ + 1] ELSE t
      /\ canTimeouts' = canTimeouts /\ canMisses' = canMisses - Len(CAN_REPLIES)
      /\ UNCHANGED <<canStatus, controller>>
      /\ n < CAN_COMMAND_CAPACITY
  BY DEF SendCanCommand, CanClientAt
<1>4. /\ IsQueue(q) /\ n \in 0..CAN_COMMAND_CAPACITY
      /\ \A i \in 1..n : q[i] = Item(q[i].age, q[i].command) /\ q[i].command \in CanCommands
      /\ \A i \in 1..n : q[i].age = n - i
  BY DEF CanInv, CanQueues, CanAges
<1>5. /\ TaskOK(t) /\ (t.pc = "reply" => t.age = n)
      /\ canTimeouts \in 0..MaxCanTimeouts /\ canMisses \in 0..canTimeouts
  BY DEF CanInv, CanShapes, CanAges
<1>6. n \in Nat
  BY <1>4, CanLimits
<1>7. /\ IsQueue(older) /\ Len(older) = n
      /\ \A i \in 1..n : older[i] = [q[i] EXCEPT !.age = @ + 1]
  <2>1. older = Older(q)
    BY DEF Older, CanOlder
  <2> HIDE DEF q, older
  <2> QED
    BY <1>4, <2>1, OlderQueue
<1>8. \A i \in 1..n : /\ older[i] = Item(n + 1 - i, q[i].command)
                      /\ older[i].age = n + 1 - i
                      /\ older[i].command = q[i].command
  <2> SUFFICES ASSUME NEW i \in 1..n
               PROVE  /\ older[i] = Item(n + 1 - i, q[i].command)
                      /\ older[i].age = n + 1 - i
                      /\ older[i].command = q[i].command
    OBVIOUS
  <2> HIDE DEF q, older, n
  <2>1. q[i] = Item(n - i, q[i].command)
    BY <1>4
  <2>2. older[i] = Item(n - i + 1, q[i].command)
    BY <1>7, <2>1, OneOlder
  <2>3. n - i + 1 = n + 1 - i
    BY <1>6
  <2> QED
    BY <2>2, <2>3, OneOlder
<1>9. /\ IsQueue(r) /\ Len(r) = n + 1
      /\ \A i \in 1..n : r[i] = older[i]
      /\ r[n + 1] = x
      /\ \A i \in 1..Len(r) : i \in 1..n \/ i = n + 1
  <2> HIDE DEF older, r, x, n
  <2> QED
    BY <1>2, <1>7, QueueAppend
<1>10. \A i \in 1..Len(r) : /\ r[i] = Item(r[i].age, r[i].command)
                            /\ r[i].command \in CanCommands
                            /\ r[i].age = Len(r) - i
  <2> SUFFICES ASSUME NEW i \in 1..Len(r)
               PROVE  /\ r[i] = Item(r[i].age, r[i].command)
                      /\ r[i].command \in CanCommands
                      /\ r[i].age = Len(r) - i
    OBVIOUS
  <2> HIDE DEF q, older, r, x, n
  <2>1. CASE i \in 1..n
    <3>1. r[i] = Item(n + 1 - i, q[i].command) /\ r[i].age = n + 1 - i
          /\ r[i].command = q[i].command
      BY <1>8, <1>9, <2>1
    <3>2. r[i] = Item(r[i].age, r[i].command)
      BY <3>1
    <3> QED
      BY <1>4, <1>9, <2>1, <3>1, <3>2
  <2>2. CASE i = n + 1
    BY <1>2, <1>6, <1>9, <2>2
  <2> QED
    BY <1>9, <2>1, <2>2
<1>11. /\ TaskOK(u) /\ u.pc = t.pc
       /\ u.pc = "reply" => u.age = n + 1
  <2>1. CASE t.pc # "reply"
    BY <1>3, <1>5, <2>1
  <2>2. CASE t.pc = "reply"
    <3> HIDE DEF t, u, n
    <3>1. u = Task("reply", n + 1)
      BY <1>3, <1>5, <2>2 DEF TaskOK, Task
    <3> QED
      BY <2>2, <3>1, NewTask
  <2> QED
    BY <2>1, <2>2
<1>12. CanUnderway' = n + 1 + CanWorking
  <2>1. CanWorking' = CanWorking
    BY <1>11 DEF CanWorking
  <2> QED
    BY <1>3, <1>9, <2>1, QueueEmpty, CanNumbers DEF CanUnderway
<1>13. canMisses = n + CanWorking + Len(CAN_REPLIES)
  <2>1. \A b \in CanClients : canCall[b] # "receive"
    BY <1>3, CanLimits DEF CanInv, CanShapes
  <2>2. CanAwaited = 0
    BY <2>1 DEF CanAwaited
  <2> QED
    BY <2>2, CanNumbers DEF CanInv, CanCount, CanUnderway
<1>14. canMisses' \in 0..canTimeouts' /\ canMisses' = n + CanWorking
  BY <1>3, <1>5, <1>13, CanNumbers
<1>15. CanShapes' /\ CanAwaited' = 1
  BY <1>3, <1>5, <1>11, <1>14, CanCallChanges
<1>16. CanQueues'
  <2>1. Len(r) \in 0..CAN_COMMAND_CAPACITY
    BY <1>3, <1>4, <1>9, CanLimits
  <2> QED
    BY <1>3, <1>9, <1>10, <2>1, QueueEmpty, CanLimits DEF CanQueues
<1>17. CanController'
  BY <1>3 DEF CanInv, CanController
<1>18. CanAges'
  BY <1>3, <1>9, <1>10, <1>11, QueueEmpty DEF CanAges
<1>19. CanCount'
  BY <1>6, <1>12, <1>14, <1>15, CanNumbers DEF CanCount
<1> QED
  BY <1>15, <1>16, <1>17, <1>18, <1>19 DEF CanInv

\* A client takes the oldest reply there is.
LEMMA ReceiveCanReplyInv ==
  ASSUME CanInv, NEW c \in CanClients, ReceiveCanReply(c) PROVE CanInv'
<1> DEFINE q == CAN_REPLIES
           r == CAN_REPLIES'
<1>1. /\ canCall' = [canCall EXCEPT ![c] = "loop"] /\ canCall[c] = "receive"
      /\ r = Tail(q) /\ q # <<>> /\ CAN_CMD_LOCK' = NoCan
      /\ UNCHANGED <<canStatus, controller, CAN_COMMANDS, canTask, canTimeouts, canMisses>>
  BY DEF ReceiveCanReply, CanClientAt
<1>2. CanShapes' /\ CanAwaited = 1 /\ CanAwaited' = 0
  BY <1>1, CanCallFields, CanCallChanges
<1>3. /\ IsQueue(q) /\ Len(q) \in 0..CAN_COMMAND_CAPACITY
      /\ \A i \in 1..Len(q) : q[i] = CanAnswer(q[i].age)
      /\ \A i \in 1..Len(q) : q[i].age = CanUnderway - i
  BY DEF CanInv, CanQueues, CanAges
<1>4. /\ IsQueue(r) /\ Len(r) = Len(q) - 1 /\ Len(q) >= 1
      /\ \A i \in 1..Len(r) : r[i] = q[i + 1] /\ i + 1 \in 1..Len(q)
  <2> HIDE DEF q, r
  <2> QED
    BY <1>1, <1>3, QueueTail
<1>5. CanWorking' = CanWorking /\ CanUnderway' = CanUnderway - 1 /\ CanUnderway \in Nat
  BY <1>1, <1>4, CanNumbers DEF CanUnderway, CanWorking
<1>6. CanQueues' /\ CanController'
  <2>1. Len(r) \in 0..CAN_COMMAND_CAPACITY
    BY <1>3, <1>4, CanLimits
  <2>2. \A i \in 1..Len(r) : r[i] = CanAnswer(r[i].age)
    BY <1>3, <1>4
  <2> QED
    BY <1>1, <1>4, <2>1, <2>2 DEF CanInv, CanQueues, CanController
<1>7. CanAges'
  <2>1. ASSUME NEW i \in 1..Len(r) PROVE r[i].age = CanUnderway' - i
    <3>1. r[i] = q[i + 1] /\ q[i + 1].age = CanUnderway - (i + 1)
      BY <1>3, <1>4
    <3> QED
      BY <1>5, <3>1
  <2> QED
    BY <1>1, <2>1 DEF CanInv, CanAges
<1>8. CanCount'
  BY <1>1, <1>2, <1>5, CanNumbers DEF CanInv, CanCount
<1> QED
  BY <1>2, <1>6, <1>7, <1>8 DEF CanInv

\* A call is given up, and what it left on its way is nobody's.
LEMMA GiveUpCanInv ==
  ASSUME CanInv, NEW c \in CanClients, GiveUpCan(c) PROVE CanInv'
<1>1. /\ canCall' = [canCall EXCEPT ![c] = "loop"] /\ canCall[c] = "receive"
      /\ CAN_CMD_LOCK' = NoCan /\ canTimeouts < MaxCanTimeouts
      /\ canTimeouts' = canTimeouts + 1 /\ canMisses' = canMisses + 1
      /\ UNCHANGED <<canStatus, controller, CAN_COMMANDS, CAN_REPLIES, canTask>>
  BY DEF GiveUpCan, CanClientAt
<1>2. canTimeouts' \in 0..MaxCanTimeouts /\ canMisses' \in 0..canTimeouts'
  BY <1>1, CanCallFields, CanLimits
<1>3. CanShapes' /\ CanAwaited = 1 /\ CanAwaited' = 0
  BY <1>1, <1>2, CanCallFields, CanCallChanges
<1>4. CanUnderway' = CanUnderway
  BY <1>1 DEF CanUnderway, CanWorking
<1>5. CanQueues' /\ CanController' /\ CanAges'
  BY <1>1, <1>4 DEF CanInv, CanQueues, CanController, CanAges
<1>6. CanCount'
  BY <1>1, <1>3, <1>4, CanNumbers DEF CanInv, CanCount
<1> QED
  BY <1>3, <1>5, <1>6 DEF CanInv

\* Steps that leave the calls alone, the queues, and whether the task is to reply.
LEMMA TaskOnly ==
  ASSUME CanInv, UNCHANGED <<canCall, CAN_CMD_LOCK, CAN_COMMANDS, CAN_REPLIES, canTimeouts,
                             canMisses>>,
         TaskOK(canTask'), canTask' = canTask \/ "reply" \notin {canTask.pc, canTask'.pc},
         CanController'
  PROVE  CanInv'
<1>1. CanShapes' /\ CanQueues'
  BY DEF CanInv, CanShapes, CanQueues
<1>2. CanUnderway' = CanUnderway /\ CanAwaited' = CanAwaited
  BY DEF CanUnderway, CanWorking, CanAwaited
<1>3. CanAges' /\ CanCount'
  BY <1>2 DEF CanInv, CanAges, CanCount
<1> QED
  BY <1>1, <1>3 DEF CanInv

\* What the task reports of the controller.
Statuses == [ready : BOOLEAN, state : CanBusStates,
             setting : [bitrate : SupportedBitrates, mode : CanModes]]

\* A failure is reported as one.
LEMMA FailsWell ==
  ASSUME canStatus \in Statuses, Fail PROVE canStatus' \in Statuses
<1> DEFINE s == [canStatus EXCEPT !.ready = FALSE]
           t == [s EXCEPT !.state = "error"]
<1>1. s \in Statuses
  BY DEF Statuses
<1> HIDE DEF s
<1>2. t \in Statuses
  BY <1>1 DEF Statuses, CanBusStates
<1>3. canStatus' = t
  BY DEF Fail, s, Statuses
<1> QED
  BY <1>2, <1>3

\* The controller is configured for the first time.
LEMMA StartCanInv ==
  ASSUME CanInv, StartCan PROVE CanInv'
<1>1. canStatus \in Statuses /\ TaskOK(canTask) /\ canTask.pc = "start"
  BY DEF CanInv, CanShapes, CanController, Statuses, StartCan
<1>2. ASSUME controller' = Setting(CAN_DEFAULT_BITRATE, "normal"),
             canStatus' = [canStatus EXCEPT !.ready = TRUE, !.state = "active"]
      PROVE  CanController'
  <2> DEFINE s == [canStatus EXCEPT !.ready = TRUE]
             t == [s EXCEPT !.state = "active"]
  <2>1. s \in Statuses
    BY <1>1 DEF Statuses
  <2>2. canStatus' = t
    BY <1>1, <1>2 DEF Statuses
  <2> HIDE DEF s
  <2>3. t \in Statuses
    BY <2>1 DEF Statuses, CanBusStates
  <2>4. controller'.bitrate \in SupportedBitrates
    BY <1>2 DEF Setting, CAN_DEFAULT_BITRATE, SupportedBitrates
  <2>5. canStatus' \in Statuses
    BY <2>2, <2>3
  <2>6. controller'.bitrate \in SupportedBitrates \cup {0}
    BY <2>4
  <2>7. canStatus' \in [ready : BOOLEAN, state : CanBusStates,
                        setting : [bitrate : SupportedBitrates, mode : CanModes]]
    BY <2>5 DEF Statuses
  <2> HIDE DEF t
  <2> QED
    BY <2>6, <2>7, Zenon DEF CanController
<1>4. TaskOK(canTask') /\ canTask'.pc = "commands"
  <2>1. canTask' = Task("commands", canTask.age)
    BY <1>1 DEF StartCan, TaskOK, Task
  <2> QED
    BY <2>1, NewTask
<1>5. CanController' => CanInv'
  BY <1>1, <1>4, TaskOnly DEF StartCan
<1>6. (/\ controller' = Setting(CAN_DEFAULT_BITRATE, "normal")
       /\ canStatus' = [canStatus EXCEPT !.ready = TRUE, !.state = "active"])
      \/ (controller' = Unset /\ Fail)
  BY DEF StartCan
<1>7. (controller' = Unset /\ Fail) => CanController'
  BY <1>1, FailsWell DEF CanController, Unset, Setting, Statuses
<1> QED
  BY <1>2, <1>5, <1>6, <1>7

\* The task handles a command.
LEMMA HandleCanCommandInv ==
  ASSUME CanInv, HandleCanCommand PROVE CanInv'
<1> DEFINE q == CAN_COMMANDS
           r == CAN_COMMANDS'
           command == Head(q).command
<1>1. /\ IsQueue(q) /\ q # <<>> /\ Len(q) \in 0..CAN_COMMAND_CAPACITY
      /\ \A i \in 1..Len(q) : q[i] = Item(q[i].age, q[i].command) /\ q[i].command \in CanCommands
      /\ \A i \in 1..Len(q) : q[i].age = Len(q) - i
      /\ r = Tail(q)
  BY DEF CanInv, CanQueues, CanAges, HandleCanCommand
<1>2. /\ IsQueue(r) /\ Len(r) = Len(q) - 1 /\ Len(q) >= 1
      /\ \A i \in 1..Len(r) : r[i] = q[i + 1] /\ i + 1 \in 1..Len(q)
      /\ Head(q) = q[1]
  <2> HIDE DEF q, r
  <2> QED
    BY <1>1, QueueTail
<1>3. 1 \in 1..Len(q)
  BY <1>1, <1>2
<1>4. command \in CanCommands /\ Head(q).age = Len(r)
  BY <1>1, <1>2, <1>3
<1>5. canStatus \in Statuses
      /\ controller.bitrate \in SupportedBitrates \cup {0}
  BY DEF CanInv, CanShapes, CanController, Statuses
<1>6. /\ canTask' = Task("reply", Head(q).age)
      /\ UNCHANGED <<canCall, CAN_CMD_LOCK, CAN_REPLIES, canTimeouts, canMisses>>
      /\ canTask.pc = "commands"
  BY DEF HandleCanCommand, Task
<1>7. TaskOK(canTask') /\ canTask'.pc = "reply" /\ canTask'.age = Len(r)
  <2> HIDE DEF q, r
  <2> QED
    BY <1>4, <1>6, NewTask
<1>8. CanController'
  <2>1. CASE UNCHANGED <<canStatus, controller>>
    BY <2>1 DEF CanInv, CanController
  <2>2. CASE canStatus' = canStatus /\ controller' = controller
    BY <2>2 DEF CanInv, CanController
  <2>3. CASE Fail /\ (controller' = controller \/ controller' = Unset)
    BY <1>5, <2>3, FailsWell DEF CanController, Unset, Setting, Statuses
  <2>4. CASE /\ command.type = "ConfigSet"
             /\ command.setting.bitrate \in SupportedBitrates
             /\ controller' = command.setting
             /\ canStatus' = [ready |-> TRUE, state |-> "active", setting |-> command.setting]
    <3> DEFINE s == command.setting
    <3>1. s \in [bitrate : SupportedBitrates, mode : CanModes]
      <4>1. PICK b \in BitrateInputs, m \in ModeInputs : s = Setting(b, m)
        BY <1>4, <2>4 DEF CanCommands
      <4>2. m \in CanModes
        BY CanAssumption
      <4>3. s.bitrate = b
        BY <4>1 DEF Setting
      <4> QED
        BY <2>4, <4>1, <4>2, <4>3 DEF Setting
    <3>2. controller' = s /\ canStatus' = [ready |-> TRUE, state |-> "active", setting |-> s]
      BY <2>4
    <3> HIDE DEF s
    <3>3. canStatus' \in Statuses
      BY <3>1, <3>2 DEF Statuses, CanBusStates
    <3> QED
      BY <3>1, <3>2, <3>3 DEF CanController, Statuses
  <2>5. \/ command.type \in {"Status", "ConfigGet"} /\ UNCHANGED <<canStatus, controller>>
        \/ command.type = "ConfigSet" /\ ConfigSet(command.setting)
        \/ command.type \in {"Tx", "TxInvalid"} /\ Transmit(command.type = "Tx")
    BY DEF HandleCanCommand
  <2> HIDE DEF command
  <2> QED
    BY <2>1, <2>2, <2>3, <2>4, <2>5 DEF ConfigSet, Transmit
<1>9. CanShapes'
  BY <1>6, <1>7 DEF CanInv, CanShapes
<1>10. CanQueues'
  <2>1. Len(r) \in 0..CAN_COMMAND_CAPACITY
    BY <1>1, <1>2, CanLimits
  <2>2. \A i \in 1..Len(r) : r[i] = Item(r[i].age, r[i].command) /\ r[i].command \in CanCommands
    BY <1>1, <1>2
  <2> QED
    BY <1>2, <1>6, <2>1, <2>2 DEF CanInv, CanQueues
<1>11. /\ CanWorking = 0 /\ CanWorking' = 1
       /\ CanUnderway' = CanUnderway /\ CanAwaited' = CanAwaited
  BY <1>2, <1>6, <1>7, CanNumbers DEF CanWorking, CanUnderway, CanAwaited
<1>12. CanAges'
  <2>1. ASSUME NEW i \in 1..Len(r) PROVE r[i].age = Len(r) - i
    <3>1. r[i] = q[i + 1] /\ q[i + 1].age = Len(q) - (i + 1)
      BY <1>1, <1>2
    <3> QED
      BY <1>1, <1>2, <3>1
  <2> QED
    BY <1>6, <1>7, <1>11, <2>1 DEF CanInv, CanAges
<1>13. CanCount'
  BY <1>6, <1>11 DEF CanInv, CanCount
<1> QED
  BY <1>8, <1>9, <1>10, <1>12, <1>13 DEF CanInv

\* The task replies.
LEMMA SendCanReplyInv ==
  ASSUME CanInv, SendCanReply PROVE CanInv'
<1> DEFINE q == CAN_REPLIES
           r == CAN_REPLIES'
           x == CanAnswer(canTask.age)
<1>1. /\ r = Append(q, x) /\ Len(q) < CAN_COMMAND_CAPACITY
      /\ canTask.pc = "reply" /\ canTask' = Task("commands", 0)
      /\ UNCHANGED <<canStatus, controller, canCall, CAN_CMD_LOCK, CAN_COMMANDS, canTimeouts,
                     canMisses>>
  BY DEF SendCanReply, CanAnswer, Task
<1>2. /\ IsQueue(q) /\ Len(q) \in 0..CAN_COMMAND_CAPACITY
      /\ \A i \in 1..Len(q) : q[i] = CanAnswer(q[i].age)
      /\ \A i \in 1..Len(q) : q[i].age = CanUnderway - i
  BY DEF CanInv, CanQueues, CanAges
<1>3. x = CanAnswer(x.age) /\ x.age = Len(CAN_COMMANDS)
  BY <1>1, NewTask DEF CanInv, CanAges
<1>4. /\ IsQueue(r) /\ Len(r) = Len(q) + 1
      /\ \A i \in 1..Len(q) : r[i] = q[i]
      /\ r[Len(q) + 1] = x
      /\ \A i \in 1..Len(r) : i \in 1..Len(q) \/ i = Len(q) + 1
  <2> HIDE DEF q, r, x
  <2> QED
    BY <1>1, <1>2, QueueAppend
<1>5. TaskOK(canTask') /\ canTask'.pc = "commands"
  BY <1>1, NewTask
<1>6. /\ CanWorking = 1 /\ CanWorking' = 0
      /\ CanUnderway' = CanUnderway /\ CanAwaited' = CanAwaited
      /\ CanUnderway = Len(CAN_COMMANDS) + 1 + Len(q)
  <2>1. CanWorking = 1 /\ CanWorking' = 0 /\ CanAwaited' = CanAwaited
    BY <1>1, <1>5 DEF CanWorking, CanAwaited
  <2>2. CanUnderway = Len(CAN_COMMANDS) + 1 + Len(q)
    BY <2>1 DEF CanUnderway
  <2>3. CanUnderway' = Len(CAN_COMMANDS) + 0 + Len(r)
    BY <1>1, <2>1 DEF CanUnderway
  <2> QED
    BY <1>4, <2>1, <2>2, <2>3, CanNumbers
<1>7. CanShapes' /\ CanController'
  BY <1>1, <1>5 DEF CanInv, CanShapes, CanController
<1>8. CanQueues'
  <2>1. Len(r) \in 0..CAN_COMMAND_CAPACITY
    BY <1>1, <1>2, <1>4, CanLimits
  <2>2. \A i \in 1..Len(r) : r[i] = CanAnswer(r[i].age)
    BY <1>2, <1>3, <1>4
  <2> QED
    BY <1>1, <1>4, <2>1, <2>2 DEF CanInv, CanQueues
<1>9. CanAges'
  <2>1. ASSUME NEW i \in 1..Len(r) PROVE r[i].age = CanUnderway' - i
    <3> HIDE DEF q, r, x
    <3>1. CASE i \in 1..Len(q)
      BY <1>2, <1>4, <1>6, <3>1
    <3>2. CASE i = Len(q) + 1
      BY <1>2, <1>3, <1>4, <1>6, <3>2, CanNumbers
    <3> QED
      BY <1>4, <3>1, <3>2
  <2> QED
    BY <1>1, <1>5, <2>1 DEF CanInv, CanAges
<1>10. CanCount'
  BY <1>1, <1>6 DEF CanInv, CanCount
<1> QED
  BY <1>7, <1>8, <1>9, <1>10 DEF CanInv

\* The task looks at the controller.
LEMMA ReceiveFrameInv ==
  ASSUME CanInv, ReceiveFrame PROVE CanInv'
<1>1. canStatus \in Statuses /\ TaskOK(canTask)
  BY DEF CanInv, CanShapes, CanController, Statuses
<1>2. canStatus' \in Statuses /\ controller' = controller
  BY <1>1, FailsWell DEF ReceiveFrame
<1>3. CanController'
  BY <1>2 DEF CanInv, CanController, Statuses
<1> QED
  BY <1>1, <1>3, TaskOnly DEF ReceiveFrame

\* Every step of the service keeps the invariant of the channel.
LEMMA CanStep == CanInv /\ [CanNext]_canVars => CanInv'
<1> SUFFICES ASSUME CanInv, [CanNext]_canVars PROVE CanInv'
  OBVIOUS
<1>1. CASE UNCHANGED canVars
  <2>1. CanController' /\ TaskOK(canTask')
    BY <1>1 DEF canVars, CanInv, CanShapes, CanController
  <2> QED
    BY <1>1, <2>1, TaskOnly DEF canVars
<1>2. ASSUME NEW c \in CanClients, Subscribe(c) \/ Unsubscribe(c) PROVE CanInv'
  BY <1>2, SubscriptionInv
<1>3. ASSUME NEW c \in CanClients, TakeEvent(c) PROVE CanInv'
  <2>1. CanController' /\ TaskOK(canTask')
    BY <1>3 DEF TakeEvent, CanInv, CanShapes, CanController
  <2> QED
    BY <1>3, <2>1, TaskOnly DEF TakeEvent
<1>4. ASSUME NEW c \in CanClients, SendCanCommand(c) PROVE CanInv'
  BY <1>4, SendCanCommandInv
<1>5. ASSUME NEW c \in CanClients, ReceiveCanReply(c) PROVE CanInv'
  BY <1>5, ReceiveCanReplyInv
<1>6. ASSUME NEW c \in CanClients, GiveUpCan(c) PROVE CanInv'
  BY <1>6, GiveUpCanInv
<1>7. CASE CanTaskNext
  BY <1>7, StartCanInv, HandleCanCommandInv, SendCanReplyInv, ReceiveFrameInv DEF CanTaskNext
<1> QED
  BY <1>1, <1>2, <1>3, <1>4, <1>5, <1>6, <1>7 DEF CanNext, CanClientNext

\* The oldest of what is on its way is older than the last call by as many calls as
\* nobody waits for any more.
LEMMA CanInvKeepsStep == CanInv => CanKeepsStep
<1> SUFFICES ASSUME CanInv PROVE CanKeepsStep
  OBVIOUS
<1>1. ASSUME NEW c \in CanClients, canCall[c] = "receive", CAN_REPLIES # <<>>
      PROVE  Head(CAN_REPLIES).age <= canMisses
  <2>1. CanAwaited = 1
    BY <1>1 DEF CanAwaited
  <2>2. IsQueue(CAN_REPLIES)
    BY DEF CanInv, CanQueues
  <2>3. Head(CAN_REPLIES) = CAN_REPLIES[1] /\ Len(CAN_REPLIES) >= 1
    BY <1>1, <2>2, QueueTail
  <2>4. Head(CAN_REPLIES).age = CanUnderway - 1
    BY <2>3, CanNumbers DEF CanInv, CanAges
  <2> QED
    BY <2>1, <2>4, CanNumbers DEF CanInv, CanCount
<1>2. ASSUME CAN_COMMANDS = <<>>, CAN_REPLIES = <<>>, canTask.pc # "reply"
      PROVE  canMisses = 0
  <2>1. CanUnderway = 0
    BY <1>2, QueueEmpty DEF CanUnderway, CanWorking
  <2> QED
    BY <2>1, CanNumbers DEF CanInv, CanCount
<1> QED
  BY <1>1, <1>2 DEF CanKeepsStep

\* CanKeepsStep, of the CAN service.
LEMMA CanAnswers == CanSpec => []CanKeepsStep
<1>1. CanInit => CanInv
  BY CanStart
<1>2. CanInv /\ [CanNext]_canVars => CanInv'
  BY CanStep
<1>3. CanInv => CanKeepsStep
  BY CanInvKeepsStep
<1> QED
  BY <1>1, <1>2, <1>3, PTL DEF CanSpec

-----------------------------------------------------------------------------
(* The frames.                                                             *)

\* A set of numbers has a least one.
LEMMA MinOfNaturals ==
  ASSUME NEW T, T \subseteq Nat, T # {}
  PROVE  Min(T) \in T /\ \A y \in T : Min(T) <= y
<1>1. PICK x \in T : \A y \in T : ~ (<<y, x>> \in OpToRel(<, Nat))
  BY NatLessThanWellFounded, WFMin
<1>2. \A y \in T : x <= y
  <2> SUFFICES ASSUME NEW y \in T PROVE x <= y
    OBVIOUS
  <2>1. ~ (y < x)
    BY <1>1 DEF OpToRel
  <2> QED
    BY <2>1
<1> QED
  BY <1>2 DEF Min

\* A queue from one of its places on.
LEMMA QueueFrom ==
  ASSUME NEW q, IsQueue(q), NEW m \in 1..Len(q)
  PROVE  LET r == SubSeq(q, m, Len(q))
         IN  /\ IsQueue(r) /\ Len(r) = Len(q) - m + 1
             /\ \A i \in 1..Len(r) : r[i] = q[m + i - 1] /\ m + i - 1 \in 1..Len(q)
<1>1. PICK S : q \in Seq(S)
  BY DEF IsQueue
<1> DEFINE n == Len(q)
           r == SubSeq(q, m, n)
<1>2. n \in Nat /\ m \in Int /\ n \in Int /\ m <= n /\ 1 <= m
  BY <1>1
<1>3. \A i \in m..n : q[i] \in S
  BY <1>1, <1>2
<1>4. /\ r \in Seq(S) /\ Len(r) = (IF m <= n THEN n - m + 1 ELSE 0)
      /\ \A i \in 1..(n - m + 1) : r[i] = q[m + i - 1]
  BY <1>2, <1>3, SubSeqProperties
<1>5. IsQueue(r)
  BY <1>4 DEF IsQueue
<1> HIDE DEF r, n
<1>6. Len(r) = n - m + 1
  BY <1>2, <1>4
<1>7. \A i \in 1..Len(r) : r[i] = q[m + i - 1] /\ m + i - 1 \in 1..n
  BY <1>2, <1>4, <1>6
<1> QED
  BY <1>5, <1>6, <1>7 DEF r, n

\* The frames of the channel.
CanEvents == [frame : Nat, to : SUBSET CanClients]

\* The channel holds the last frames of n; what waits for each of the clients is
\* what comes after the last frame it got, and nothing is lost before the channel
\* is full.
Backlog(events, n, got, clients) ==
  /\ IsQueue(events)
  /\ Len(events) <= CAN_EVENT_CAPACITY /\ Len(events) <= n
  /\ \A i \in 1..Len(events) :
       /\ events[i] \in CanEvents
       /\ events[i].frame = n - Len(events) + i
       /\ events[i].to \subseteq clients
  /\ \A c \in clients :
       /\ got[c] \in 0..n
       /\ got[c] >= n - Len(events) \/ Len(events) = CAN_EVENT_CAPACITY
       /\ \A i \in 1..Len(events) : c \in events[i].to <=> events[i].frame > got[c]

\* Dropping the frames nobody is to take any more: everybody has got them.
LEMMA KeptBacklog ==
  ASSUME NEW q, NEW n \in Nat, NEW got, NEW clients, Backlog(q, n, got, clients)
  PROVE  /\ Backlog(Kept(q), n, got, clients)
         /\ Len(Kept(q)) > 0 => clients # {}
<1> DEFINE wanted == {i \in DOMAIN q : q[i].to # {}}
           m == Min(wanted)
           r == SubSeq(q, m, Len(q))
<1>1. IsQueue(q) /\ Len(q) \in Nat /\ DOMAIN q = 1..Len(q)
  BY QueueLen DEF Backlog
<1>2. CASE wanted = {}
  <2>1. Kept(q) = <<>>
    BY <1>2 DEF Kept
  <2>2. ASSUME NEW c \in clients PROVE got[c] >= n /\ got[c] \in 0..n
    <3>1. CASE Len(q) = 0
      BY <3>1, CanLimits DEF Backlog
    <3>2. CASE Len(q) # 0
      <4>1. Len(q) \in 1..Len(q)
        BY <1>1, <3>2
      <4>2. q[Len(q)].to = {}
        BY <1>1, <1>2, <4>1
      <4>3. q[Len(q)].frame = n - Len(q) + Len(q) /\ got[c] \in 0..n
            /\ (c \in q[Len(q)].to <=> q[Len(q)].frame > got[c])
        BY <4>1 DEF Backlog
      <4> QED
        BY <1>1, <4>2, <4>3
    <3> QED
      BY <3>1, <3>2
  <2>3. Backlog(<<>>, n, got, clients)
    BY <2>2, QueueEmpty, CanLimits DEF Backlog
  <2> QED
    BY <2>1, <2>3, QueueEmpty
<1>3. CASE wanted # {}
  <2>1. Kept(q) = r
    BY <1>3 DEF Kept
  <2>2. m \in wanted /\ \A i \in wanted : m <= i
    <3>1. wanted \subseteq Nat
      BY <1>1
    <3> HIDE DEF wanted
    <3> QED
      BY <1>3, <3>1, MinOfNaturals
  <2>3. m \in 1..Len(q) /\ q[m].to # {}
    BY <1>1, <2>2
  <2>4. \A i \in 1..Len(q) : i < m => q[i].to = {}
    <3> SUFFICES ASSUME NEW i \in 1..Len(q), q[i].to # {} PROVE ~(i < m)
      OBVIOUS
    <3>1. i \in wanted
      BY <1>1
    <3>2. m <= i
      BY <2>2, <3>1
    <3> HIDE DEF wanted, m
    <3> QED
      BY <1>1, <2>3, <3>2
  <2> HIDE DEF wanted, m
  <2>5. /\ IsQueue(r) /\ Len(r) = Len(q) - m + 1
        /\ \A i \in 1..Len(r) : r[i] = q[m + i - 1] /\ m + i - 1 \in 1..Len(q)
    BY <1>1, <2>3, QueueFrom
  <2> HIDE DEF r
  <2>6. Len(r) <= CAN_EVENT_CAPACITY /\ Len(r) <= n
    <3>1. Len(q) <= CAN_EVENT_CAPACITY /\ Len(q) <= n
      BY DEF Backlog
    <3> QED
      BY <1>1, <2>3, <2>5, <3>1, CanLimits
  <2>7. ASSUME NEW i \in 1..Len(r)
        PROVE  /\ r[i] \in CanEvents /\ r[i].frame = n - Len(r) + i
               /\ r[i].to \subseteq clients
    <3>1. /\ q[m + i - 1] \in CanEvents /\ q[m + i - 1].to \subseteq clients
          /\ q[m + i - 1].frame = n - Len(q) + (m + i - 1)
      BY <2>5 DEF Backlog
    <3>2. r[i] = q[m + i - 1]
      BY <2>5
    <3>3. n - Len(q) + (m + i - 1) = n - Len(r) + i
      BY <1>1, <2>3, <2>5
    <3> QED
      BY <3>1, <3>2, <3>3
  <2>8. ASSUME NEW c \in clients
        PROVE  /\ got[c] \in 0..n
               /\ got[c] >= n - Len(r) \/ Len(r) = CAN_EVENT_CAPACITY
               /\ \A i \in 1..Len(r) : c \in r[i].to <=> r[i].frame > got[c]
    <3>1. /\ got[c] \in 0..n
          /\ got[c] >= n - Len(q) \/ Len(q) = CAN_EVENT_CAPACITY
          /\ \A i \in 1..Len(q) : c \in q[i].to <=> q[i].frame > got[c]
      BY DEF Backlog
    <3>2. \A i \in 1..Len(r) : c \in r[i].to <=> r[i].frame > got[c]
      BY <2>5, <3>1
    <3>3. CASE m = 1
      BY <1>1, <2>5, <3>1, <3>2, <3>3
    <3>4. CASE m # 1
      <4>1. m - 1 \in 1..Len(q) /\ m - 1 < m
        BY <1>1, <2>3, <3>4
      <4>2. q[m - 1].to = {} /\ q[m - 1].frame = n - Len(q) + (m - 1)
        BY <2>4, <4>1 DEF Backlog
      <4>3. ~ (q[m - 1].frame > got[c])
        BY <3>1, <4>1, <4>2
      <4>4. got[c] >= n - Len(r)
        BY <1>1, <2>3, <2>5, <3>1, <4>2, <4>3
      <4> QED
        BY <3>1, <3>2, <4>4
    <3> QED
      BY <3>3, <3>4
  <2>9. Backlog(r, n, got, clients)
    BY <2>5, <2>6, <2>7, <2>8 DEF Backlog
  <2>10. clients # {}
    BY <2>3 DEF Backlog
  <2> QED
    BY <2>1, <2>9, <2>10
<1> QED
  BY <1>2, <1>3

\* A frame is received: the channel takes it for every subscriber.
LEMMA PublishBacklog ==
  ASSUME NEW n \in Nat, NEW q, NEW got,
         Backlog(q, n, got, Subscribers), Len(q) > 0 => Subscribers # {}
  PROVE  /\ Backlog(Publish(q, n + 1), n + 1, got, Subscribers)
         /\ Len(Publish(q, n + 1)) > 0 => Subscribers # {}
<1>1. IsQueue(q) /\ Len(q) \in Nat
  BY QueueLen DEF Backlog
<1>2. CASE Subscribers = {}
  <2>1. Publish(q, n + 1) = q /\ Len(q) = 0
    BY <1>1, <1>2 DEF Publish
  <2>2. Backlog(q, n + 1, got, Subscribers)
    BY <1>1, <1>2, <2>1, CanLimits DEF Backlog
  <2> QED
    BY <2>1, <2>2
<1>3. CASE Subscribers # {}
  <2> DEFINE x == [frame |-> n + 1, to |-> Subscribers]
             t == IF Len(q) = CAN_EVENT_CAPACITY THEN Tail(q) ELSE q
             r == Append(t, x)
             d == IF Len(q) = CAN_EVENT_CAPACITY THEN 1 ELSE 0
  <2>1. Publish(q, n + 1) = r
    BY <1>3 DEF Publish
  <2>2. /\ x \in CanEvents /\ x.frame = n + 1 /\ x.to = Subscribers
    BY DEF CanEvents, Subscribers
  <2>3. d \in {0, 1} /\ (Len(q) = CAN_EVENT_CAPACITY <=> d = 1)
    OBVIOUS
  <2>4. /\ IsQueue(t) /\ Len(t) = Len(q) - d /\ Len(t) \in Nat
        /\ \A i \in 1..Len(t) : t[i] = q[i + d] /\ i + d \in 1..Len(q)
    <3>1. CASE Len(q) = CAN_EVENT_CAPACITY
      <4>1. t = Tail(q) /\ d = 1 /\ q # <<>>
        BY <3>1, QueueEmpty, CanLimits
      <4>2. LET u == Tail(q)
            IN /\ IsQueue(u) /\ Len(u) = Len(q) - 1 /\ Len(q) >= 1
               /\ \A i \in 1..Len(u) : u[i] = q[i + 1] /\ i + 1 \in 1..Len(q)
        BY <1>1, <4>1, QueueTail
      <4> HIDE DEF t, d
      <4> QED
        BY <1>1, <4>1, <4>2
    <3>2. CASE Len(q) # CAN_EVENT_CAPACITY
      BY <1>1, <3>2
    <3> QED
      BY <3>1, <3>2
  <2> HIDE DEF x, t, d
  <2>5. /\ IsQueue(r) /\ Len(r) = Len(t) + 1
        /\ \A i \in 1..Len(t) : r[i] = t[i]
        /\ r[Len(t) + 1] = x
        /\ \A i \in 1..Len(r) : i \in 1..Len(t) \/ i = Len(t) + 1
    BY <2>4, QueueAppend
  <2> HIDE DEF r
  <2>6. /\ Len(r) = Len(q) - d + 1 /\ Len(r) <= CAN_EVENT_CAPACITY /\ Len(r) <= n + 1
        /\ Len(q) <= CAN_EVENT_CAPACITY
    BY <1>1, <2>3, <2>4, <2>5, CanLimits DEF Backlog
  <2>7. ASSUME NEW i \in 1..Len(r)
        PROVE  /\ r[i] \in CanEvents /\ r[i].frame = (n + 1) - Len(r) + i
               /\ r[i].to \subseteq Subscribers
               /\ \A c \in Subscribers : got[c] \in 0..n =>
                    (c \in r[i].to <=> r[i].frame > got[c])
    <3>1. CASE i \in 1..Len(t)
      <4>1. r[i] = q[i + d] /\ i + d \in 1..Len(q)
        BY <2>4, <2>5, <3>1
      <4>2. /\ q[i + d] \in CanEvents /\ q[i + d].to \subseteq Subscribers
            /\ q[i + d].frame = n - Len(q) + (i + d)
            /\ \A c \in Subscribers : c \in q[i + d].to <=> q[i + d].frame > got[c]
        BY <4>1 DEF Backlog
      <4>3. n - Len(q) + (i + d) = (n + 1) - Len(r) + i
        BY <1>1, <2>3, <2>6
      <4> QED
        BY <4>1, <4>2, <4>3
    <3>2. CASE i = Len(t) + 1
      <4>1. r[i] = x /\ n + 1 = (n + 1) - Len(r) + i
        BY <2>4, <2>5, <3>2
      <4> QED
        BY <2>2, <4>1
    <3> QED
      BY <2>5, <3>1, <3>2
  <2>8. ASSUME NEW c \in Subscribers
        PROVE  /\ got[c] \in 0..n /\ got[c] \in 0..(n + 1)
               /\ got[c] >= (n + 1) - Len(r) \/ Len(r) = CAN_EVENT_CAPACITY
    <3>1. got[c] \in 0..n /\ (got[c] >= n - Len(q) \/ Len(q) = CAN_EVENT_CAPACITY)
      BY DEF Backlog
    <3> QED
      BY <1>1, <2>3, <2>6, <3>1, CanLimits
  <2>9. Backlog(r, n + 1, got, Subscribers)
    BY <2>5, <2>6, <2>7, <2>8 DEF Backlog
  <2> QED
    BY <1>3, <2>1, <2>9
<1> QED
  BY <1>2, <1>3

\* The inductive invariant of the frames.
FramesInv ==
  /\ frames \in 0..MaxFrames
  /\ seen \in [CanClients -> Nat] /\ \A c \in CanClients : seen[c] <= frames
  /\ Backlog(CAN_EVENTS, frames, seen, Subscribers)
  /\ Len(CAN_EVENTS) > 0 => Subscribers # {}

\* The invariant of the frames holds at first.
LEMMA FramesStart == CanInit => FramesInv
<1> SUFFICES ASSUME CanInit PROVE FramesInv
  OBVIOUS
<1>1. frames = 0 /\ CAN_EVENTS = <<>> /\ seen = [c \in CanClients |-> 0]
  BY DEF CanInit
<1>2. \A c \in CanClients : ~Subscribed(c)
  BY DEF CanInit, Subscribed
<1>3. Backlog(CAN_EVENTS, frames, seen, Subscribers)
  BY <1>1, <1>2, QueueEmpty, CanLimits DEF Backlog, Subscribers
<1> QED
  BY <1>1, <1>3, QueueEmpty, CanLimits DEF FramesInv

\* Who is subscribed, once the call of a client has changed.
LEMMA SubscribersAfter ==
  ASSUME DOMAIN canCall = CanClients, NEW c \in CanClients, NEW pc,
         canCall' = [canCall EXCEPT ![c] = pc]
  PROVE  Subscribers' = IF pc = "away" THEN Subscribers \ {c} ELSE Subscribers \cup {c}
<1>1. canCall'[c] = pc /\ \A b \in CanClients \ {c} : canCall'[b] = canCall[b]
  OBVIOUS
<1>2. \A b \in CanClients : Subscribed(b)' <=> IF b = c THEN pc # "away" ELSE Subscribed(b)
  BY <1>1 DEF Subscribed
<1>3. Subscribers = {b \in CanClients : Subscribed(b)}
      /\ Subscribers' = {b \in CanClients : Subscribed(b)'}
  BY DEF Subscribers
<1> QED
  BY <1>2, <1>3

\* A client that subscribes is due the frames that come from now on.
LEMMA SubscribeFrames ==
  ASSUME CanInv, FramesInv, NEW c \in CanClients, Subscribe(c) PROVE FramesInv'
<1> DEFINE q == CAN_EVENTS
           n == frames
<1>1. /\ ~Subscribed(c) /\ seen' = [seen EXCEPT ![c] = n]
      /\ canCall' = [canCall EXCEPT ![c] = "loop"]
      /\ frames' = n /\ CAN_EVENTS' = q
  BY DEF Subscribe, CanClientAt
<1>2. DOMAIN canCall = CanClients
  BY DEF CanInv, CanShapes
<1>3. Subscribers' = Subscribers \cup {c} /\ c \notin Subscribers
  BY <1>1, <1>2, SubscribersAfter DEF Subscribers
<1>4. /\ n \in Nat /\ n \in 0..MaxFrames /\ seen \in [CanClients -> Nat]
      /\ \A b \in CanClients : seen[b] <= n
  BY CanLimits DEF FramesInv
<1>5. /\ seen' \in [CanClients -> Nat] /\ seen'[c] = n
      /\ \A b \in CanClients : seen'[b] <= n
      /\ \A b \in CanClients \ {c} : seen'[b] = seen[b]
  BY <1>1, <1>4
<1>6. /\ IsQueue(q) /\ Len(q) \in Nat /\ Backlog(q, n, seen, Subscribers)
      /\ Len(q) > 0 => Subscribers # {}
  BY QueueLen DEF FramesInv, Backlog
<1>7. \A i \in 1..Len(q) : c \notin q[i].to /\ ~(q[i].frame > n)
  <2> SUFFICES ASSUME NEW i \in 1..Len(q) PROVE c \notin q[i].to /\ ~(q[i].frame > n)
    OBVIOUS
  <2>1. q[i].to \subseteq Subscribers /\ q[i].frame = n - Len(q) + i
    BY <1>6 DEF Backlog
  <2> HIDE DEF q, n
  <2> QED
    BY <1>3, <1>4, <1>6, <2>1
<1>8. Subscribers \subseteq CanClients
  BY DEF Subscribers
<1> HIDE DEF q, n
<1>9. \A b \in Subscribers \cup {c} :
       /\ seen'[b] \in 0..n
       /\ seen'[b] >= n - Len(q) \/ Len(q) = CAN_EVENT_CAPACITY
       /\ \A i \in 1..Len(q) : b \in q[i].to <=> q[i].frame > seen'[b]
  <2> SUFFICES ASSUME NEW b \in Subscribers \cup {c}
               PROVE  /\ seen'[b] \in 0..n
                      /\ seen'[b] >= n - Len(q) \/ Len(q) = CAN_EVENT_CAPACITY
                      /\ \A i \in 1..Len(q) : b \in q[i].to <=> q[i].frame > seen'[b]
    OBVIOUS
  <2>1. CASE b = c
    BY <1>4, <1>5, <1>6, <1>7, <2>1
  <2>2. CASE b # c
    <3>1. seen'[b] = seen[b] /\ b \in Subscribers
      BY <1>5, <1>8, <2>2
    <3> QED
      BY <1>6, <3>1 DEF Backlog
  <2> QED
    BY <2>1, <2>2
<1>10. Backlog(q, n, seen', Subscribers \cup {c})
  BY <1>6, <1>9 DEF Backlog
<1> QED
  BY <1>1, <1>3, <1>4, <1>5, <1>10 DEF FramesInv, q, n

\* A client that is gone keeps no frame back.
LEMMA UnsubscribeFrames ==
  ASSUME CanInv, FramesInv, NEW c \in CanClients, Unsubscribe(c) PROVE FramesInv'
<1> DEFINE q == CAN_EVENTS
           n == frames
           r == [i \in DOMAIN q |-> [q[i] EXCEPT !.to = @ \ {c}]]
<1>1. /\ canCall' = [canCall EXCEPT ![c] = "away"]
      /\ frames' = n /\ seen' = seen /\ CAN_EVENTS' = Kept(r)
  BY DEF Unsubscribe, CanClientAt
<1>2. DOMAIN canCall = CanClients
  BY DEF CanInv, CanShapes
<1>4. Subscribers' = Subscribers \ {c}
  BY <1>1, <1>2, SubscribersAfter
<1>5. IsQueue(q) /\ Len(q) \in Nat /\ Backlog(q, n, seen, Subscribers) /\ DOMAIN q = 1..Len(q)
  BY QueueLen DEF FramesInv, Backlog
<1>6. \A i \in 1..Len(q) : q[i] \in CanEvents
  BY <1>5 DEF Backlog
<1>7. \A i \in 1..Len(q) : r[i] \in CanEvents /\ r[i].frame = q[i].frame /\ r[i].to = q[i].to \ {c}
  BY <1>5, <1>6 DEF CanEvents
<1>8. r = [i \in DOMAIN q |-> r[i]]
  BY <1>5
<1> HIDE DEF r, q, n
<1>9. IsQueue(r) /\ Len(r) = Len(q)
  BY <1>5, <1>8, QueueMap
<1>10. Backlog(r, n, seen, Subscribers \ {c})
  BY <1>5, <1>7, <1>9 DEF Backlog
<1>11. n \in Nat
  BY CanLimits DEF FramesInv, n
<1>12. /\ Backlog(Kept(r), n, seen, Subscribers \ {c})
       /\ Len(Kept(r)) > 0 => Subscribers \ {c} # {}
  BY <1>10, <1>11, KeptBacklog
<1> QED
  BY <1>1, <1>4, <1>12 DEF FramesInv, n

\* The frame a client takes is the oldest it is due.
LEMMA TakeEventFrames ==
  ASSUME FramesInv, NEW c \in CanClients, TakeEvent(c) PROVE FramesInv'
<1> DEFINE q == CAN_EVENTS
           n == frames
           mine == {i \in DOMAIN q : c \in q[i].to}
           m == Min(mine)
           x == [q[m] EXCEPT !.to = @ \ {c}]
           r == [q EXCEPT ![m] = x]
           got == [seen EXCEPT ![c] = q[m].frame]
<1>1. IsQueue(q) /\ Len(q) \in Nat /\ Backlog(q, n, seen, Subscribers) /\ DOMAIN q = 1..Len(q)
  BY QueueLen DEF FramesInv, Backlog
<1>2. m \in mine /\ \A i \in mine : m <= i
  <2>1. mine \subseteq Nat /\ mine # {}
    BY <1>1 DEF TakeEvent
  <2> HIDE DEF mine
  <2> QED
    BY <2>1, MinOfNaturals
<1>3. /\ seen' = got /\ CAN_EVENTS' = Kept([q EXCEPT ![m].to = @ \ {c}])
      /\ frames' = frames /\ canCall' = canCall
  BY DEF TakeEvent
<1>4. [q EXCEPT ![m].to = @ \ {c}] = r
  OBVIOUS
<1>5. Subscribers' = Subscribers
  BY <1>3 DEF Subscribers, Subscribed
<1>6. m \in 1..Len(q) /\ c \in q[m].to
  BY <1>1, <1>2
<1>7. \A i \in 1..Len(q) : i < m => c \notin q[i].to
  <2> SUFFICES ASSUME NEW i \in 1..Len(q), c \in q[i].to PROVE ~(i < m)
    OBVIOUS
  <2>1. i \in mine
    BY <1>1
  <2>2. m <= i
    BY <1>2, <2>1
  <2> HIDE DEF mine, m
  <2> QED
    BY <1>1, <1>6, <2>2
<1>8. q[m] \in CanEvents /\ c \in Subscribers
  BY <1>1, <1>6 DEF Backlog
<1> HIDE DEF mine, m, q, n
<1>9. x \in CanEvents /\ x.frame = q[m].frame /\ x.to = q[m].to \ {c}
  BY <1>8 DEF CanEvents
<1> HIDE DEF x
<1>10. /\ r = [i \in DOMAIN q |-> r[i]]
       /\ r[m] = x /\ \A i \in 1..Len(q) : i # m => r[i] = q[i]
  <2>1. \E S : q \in Seq(S)
    BY <1>1 DEF IsQueue
  <2> QED
    BY <1>1, <1>6, <2>1
<1> HIDE DEF r
<1>11. IsQueue(r) /\ Len(r) = Len(q)
  BY <1>1, <1>10, QueueMap
<1>12. /\ n \in Nat /\ seen \in [CanClients -> Nat]
       /\ \A b \in CanClients : seen[b] <= n
  BY CanLimits DEF FramesInv, n
<1>13. q[m].frame = n - Len(q) + m /\ q[m].frame \in 0..n
  BY <1>1, <1>6, <1>12 DEF Backlog
<1>14. /\ got \in [CanClients -> Nat] /\ got[c] = q[m].frame
       /\ \A b \in CanClients : got[b] <= n
       /\ \A b \in CanClients \ {c} : got[b] = seen[b]
  BY <1>12, <1>13
<1> HIDE DEF got
<1>15. \A i \in 1..Len(r) :
         /\ r[i] \in CanEvents /\ r[i].frame = n - Len(r) + i
         /\ r[i].to \subseteq Subscribers /\ r[i].frame = q[i].frame
         /\ r[i].to = IF i = m THEN q[i].to \ {c} ELSE q[i].to
  BY <1>1, <1>9, <1>10, <1>11 DEF Backlog
<1>16. \A b \in Subscribers :
         /\ got[b] \in 0..n
         /\ got[b] >= n - Len(r) \/ Len(r) = CAN_EVENT_CAPACITY
         /\ \A i \in 1..Len(r) : b \in r[i].to <=> r[i].frame > got[b]
  <2> SUFFICES ASSUME NEW b \in Subscribers
               PROVE  /\ got[b] \in 0..n
                      /\ got[b] >= n - Len(r) \/ Len(r) = CAN_EVENT_CAPACITY
                      /\ \A i \in 1..Len(r) : b \in r[i].to <=> r[i].frame > got[b]
    OBVIOUS
  <2>1. CASE b = c
    <3>1. ASSUME NEW i \in 1..Len(r) PROVE c \in r[i].to <=> r[i].frame > got[c]
      <4>1. i \in 1..Len(q) /\ q[i].frame = n - Len(q) + i
            /\ (c \in q[i].to <=> q[i].frame > seen[c])
            /\ (c \in q[m].to <=> q[m].frame > seen[c])
        BY <1>1, <1>6, <1>8, <1>11 DEF Backlog
      <4>2. c \in q[i].to <=> i >= m
        <5>1. seen[c] \in Nat /\ q[m].frame > seen[c]
          BY <1>6, <1>12, <4>1
        <5>2. CASE i < m
          BY <1>7, <4>1, <5>2, <1>1, <1>6
        <5>3. CASE i >= m
          <6>1. q[i].frame > seen[c]
            BY <1>1, <1>6, <1>12, <1>13, <4>1, <5>1, <5>3
          <6> QED
            BY <4>1, <5>3, <6>1
        <5> QED
          BY <1>1, <1>6, <5>2, <5>3
      <4>3. c \in r[i].to <=> i >= m /\ i # m
        BY <1>15, <4>2
      <4>4. r[i].frame = n - Len(q) + i /\ got[c] = n - Len(q) + m
        BY <1>13, <1>14, <1>15, <4>1
      <4>5. r[i].frame > got[c] <=> i >= m /\ i # m
        BY <1>1, <1>6, <1>12, <4>4
      <4> QED
        BY <4>3, <4>5
    <3>2. got[c] >= n - Len(r)
      BY <1>1, <1>6, <1>11, <1>12, <1>13, <1>14
    <3> QED
      BY <1>13, <1>14, <2>1, <3>1, <3>2
  <2>2. CASE b # c
    <3>1. b \in CanClients
      BY DEF Subscribers
    <3>2. got[b] = seen[b]
      BY <1>14, <2>2, <3>1
    <3> QED
      BY <1>1, <1>11, <1>15, <2>2, <3>2 DEF Backlog
  <2> QED
    BY <2>1, <2>2
<1>17. Backlog(r, n, got, Subscribers)
  BY <1>1, <1>11, <1>15, <1>16 DEF Backlog
<1>18. /\ Backlog(Kept(r), n, got, Subscribers)
       /\ Len(Kept(r)) > 0 => Subscribers # {}
  BY <1>12, <1>17, KeptBacklog
<1>19. CAN_EVENTS' = Kept(r)
  BY <1>3, <1>4
<1> QED
  BY <1>3, <1>5, <1>14, <1>18, <1>19 DEF FramesInv, n

\* Steps of the calls: who is subscribed does not change.
LEMMA CallFrames ==
  ASSUME CanInv, FramesInv, UNCHANGED <<CAN_EVENTS, frames, seen>>,
         NEW c \in CanClients, Subscribed(c), NEW pc, pc # "away",
         canCall' = [canCall EXCEPT ![c] = pc]
  PROVE  FramesInv'
<1>1. DOMAIN canCall = CanClients
  BY DEF CanInv, CanShapes
<1>2. Subscribers' = Subscribers \cup {c}
  BY <1>1, SubscribersAfter
<1>3. Subscribers' = Subscribers
  BY <1>2 DEF Subscribers
<1> QED
  BY <1>3 DEF FramesInv

\* Every step of the service keeps the invariant of the frames.
LEMMA FramesStep == CanInv /\ FramesInv /\ [CanNext]_canVars => FramesInv'
<1> SUFFICES ASSUME CanInv, FramesInv, [CanNext]_canVars PROVE FramesInv'
  OBVIOUS
<1>1. ASSUME UNCHANGED <<CAN_EVENTS, frames, seen, canCall>> PROVE FramesInv'
  <2>1. Subscribers' = Subscribers
    BY <1>1 DEF Subscribers, Subscribed
  <2> QED
    BY <1>1, <2>1 DEF FramesInv
<1>2. ASSUME NEW c \in CanClients, SendCanCommand(c) PROVE FramesInv'
  <2>1. canCall' = [canCall EXCEPT ![c] = "receive"] /\ Subscribed(c)
        /\ UNCHANGED <<CAN_EVENTS, frames, seen>>
    BY <1>2 DEF SendCanCommand, CanClientAt, Subscribed
  <2> QED
    BY <2>1, CallFrames
<1>3. ASSUME NEW c \in CanClients, ReceiveCanReply(c) PROVE FramesInv'
  <2>1. canCall' = [canCall EXCEPT ![c] = "loop"] /\ Subscribed(c)
        /\ UNCHANGED <<CAN_EVENTS, frames, seen>>
    BY <1>3 DEF ReceiveCanReply, CanClientAt, Subscribed
  <2> QED
    BY <2>1, CallFrames
<1>4. ASSUME NEW c \in CanClients, GiveUpCan(c) PROVE FramesInv'
  <2>1. canCall' = [canCall EXCEPT ![c] = "loop"] /\ Subscribed(c)
        /\ UNCHANGED <<CAN_EVENTS, frames, seen>>
    BY <1>4 DEF GiveUpCan, CanClientAt, Subscribed
  <2> QED
    BY <2>1, CallFrames
<1>5. ASSUME ReceiveFrame PROVE FramesInv'
  <2>1. CASE UNCHANGED <<frames, CAN_EVENTS>>
    BY <1>1, <1>5, <2>1 DEF ReceiveFrame
  <2>2. CASE /\ frames < MaxFrames /\ frames' = frames + 1
             /\ CAN_EVENTS' = Publish(CAN_EVENTS, frames')
    <3>1. Subscribers' = Subscribers /\ seen' = seen
      BY <1>5 DEF ReceiveFrame, Subscribers, Subscribed
    <3>2. /\ frames \in Nat /\ frames' \in 0..MaxFrames
          /\ \A c \in CanClients : seen[c] <= frames'
      BY <2>2, CanLimits DEF FramesInv
    <3>3. /\ Backlog(Publish(CAN_EVENTS, frames + 1), frames + 1, seen, Subscribers)
          /\ Len(Publish(CAN_EVENTS, frames + 1)) > 0 => Subscribers # {}
      BY <3>2, PublishBacklog DEF FramesInv
    <3> QED
      BY <2>2, <3>1, <3>2, <3>3 DEF FramesInv
  <2> QED
    BY <1>5, <2>1, <2>2 DEF ReceiveFrame
<1>6. CASE UNCHANGED canVars
  BY <1>1, <1>6 DEF canVars
<1>7. CASE CanTaskNext
  BY <1>1, <1>5, <1>7 DEF CanTaskNext, StartCan, HandleCanCommand, SendCanReply
<1>8. CASE CanClientNext
  BY <1>2, <1>3, <1>4, <1>8, SubscribeFrames, UnsubscribeFrames, TakeEventFrames
     DEF CanClientNext
<1> QED
  BY <1>6, <1>7, <1>8 DEF CanNext

\* The invariant says which frames wait for each client.
LEMMA FramesFollow == FramesInv => FramesReachClients
<1> SUFFICES ASSUME FramesInv PROVE FramesReachClients
  OBVIOUS
<1> DEFINE q == CAN_EVENTS
           n == frames
<1>1. /\ IsQueue(q) /\ Len(q) \in Nat /\ n \in Nat /\ Backlog(q, n, seen, Subscribers)
      /\ CAN_EVENT_CAPACITY \in Nat
  BY QueueLen, CanLimits DEF FramesInv, Backlog
<1>2. \A i \in 1..Len(q) : q[i].frame = n - Len(q) + i
  BY <1>1 DEF Backlog
<1>3. Len(q) <= CAN_EVENT_CAPACITY /\ Len(q) <= n
  BY <1>1 DEF Backlog
<1>4. \A i, j \in 1..Len(q) : i < j => q[i].frame < q[j].frame
  BY <1>1, <1>2
<1>5. ASSUME NEW c \in CanClients, Subscribed(c)
      PROVE  {q[i].frame : i \in {j \in 1..Len(q) : c \in q[j].to}}
               = {f \in 1..n : f > seen[c] /\ f > n - CAN_EVENT_CAPACITY}
  <2>1. /\ seen[c] \in 0..n
        /\ seen[c] >= n - Len(q) \/ Len(q) = CAN_EVENT_CAPACITY
        /\ \A i \in 1..Len(q) : c \in q[i].to <=> q[i].frame > seen[c]
    BY <1>1, <1>5 DEF Backlog, Subscribers
  <2>2. ASSUME NEW i \in 1..Len(q), c \in q[i].to
        PROVE  q[i].frame \in 1..n /\ q[i].frame > seen[c]
               /\ q[i].frame > n - CAN_EVENT_CAPACITY
    <3>1. q[i].frame = n - Len(q) + i /\ q[i].frame > seen[c]
      BY <1>2, <2>1, <2>2
    <3> HIDE DEF q, n
    <3> QED
      BY <1>1, <1>3, <3>1
  <2>3. ASSUME NEW f \in 1..n, f > seen[c], f > n - CAN_EVENT_CAPACITY
        PROVE  \E i \in 1..Len(q) : c \in q[i].to /\ q[i].frame = f
    <3> DEFINE i == f - (n - Len(q))
    <3>1. i \in 1..Len(q) /\ n - Len(q) + i = f
      <4> HIDE DEF q, n
      <4> QED
        BY <1>1, <1>3, <2>1, <2>3
    <3> HIDE DEF i
    <3>2. q[i].frame = f
      BY <1>2, <3>1
    <3> QED
      BY <2>1, <2>3, <3>1, <3>2
  <2> HIDE DEF q, n
  <2> QED
    BY <2>2, <2>3
<1> QED
  BY <1>4, <1>5 DEF FramesReachClients

\* The invariant of the CAN service.
LEMMA FramesInvariant == CanSpec => [](CanInv /\ FramesInv)
<1>1. CanInit => CanInv /\ FramesInv
  BY CanStart, FramesStart
<1>2. CanInv /\ FramesInv /\ [CanNext]_canVars => (CanInv /\ FramesInv)'
  BY CanStep, FramesStep
<1> QED
  BY <1>1, <1>2, PTL DEF CanSpec

\* FramesReachClients for any number of clients and any capacity: a subscriber gets
\* every frame, in order, unless it is more than a full channel behind, whatever the
\* other clients do or leave undone (can.rs 355).
THEOREM FramesReach == CanSpec => []FramesReachClients
BY FramesInvariant, FramesFollow, PTL

\* The type invariant of the CAN service.
LEMMA CanTypesFollow == CanInv /\ FramesInv => CanTypeOK
<1> SUFFICES ASSUME CanInv, FramesInv PROVE CanTypeOK
  OBVIOUS
<1>1. CanController /\ frames \in 0..MaxFrames /\ canTimeouts \in 0..MaxCanTimeouts
      /\ canMisses \in 0..canTimeouts /\ Len(CAN_EVENTS) <= CAN_EVENT_CAPACITY
  BY DEF CanInv, CanShapes, FramesInv, Backlog
<1>2. \A c \in CanClients :
        /\ canCall[c] \in {"away", "loop", "receive"}
        /\ (CAN_CMD_LOCK = c) <=> canCall[c] = "receive"
  BY CanCallFields
<1>3. \A c \in CanClients : seen[c] \in 0..frames
  BY CanLimits DEF FramesInv
<1>4. Len(CAN_COMMANDS) <= CAN_COMMAND_CAPACITY /\ Len(CAN_REPLIES) <= CAN_COMMAND_CAPACITY
  BY CanLimits DEF CanInv, CanQueues
<1> QED
  BY <1>1, <1>2, <1>3, <1>4, Zenon DEF CanTypeOK, CanController

-----------------------------------------------------------------------------
(* The services together.                                                  *)

\* The services do not disturb each other: a run of all of them is one of each.
LEMMA ServicesAreSeparate == ServicesSpec => I2cSpec /\ CanSpec /\ AppSpec
<1>1. ServicesInit => I2cInit /\ CanInit /\ AppInit
  BY DEF ServicesInit
<1>2. [ServicesNext]_servicesVars =>
        [I2cNext]_i2cVars /\ [CanNext]_canVars /\ [AppNext]_appVars
  BY DEF ServicesNext, servicesVars, OfI2c, OfCan, OfApps
<1> QED
  BY <1>1, <1>2, PTL DEF ServicesSpec, I2cSpec, CanSpec, AppSpec

\* AnswersKeepStep for any number of callers, slots, time-outs and capacities: the
\* reply a caller of the I2C or of the CAN service takes is to its own call, or to one
\* that is older by at most as many calls as have been given up without their replies
\* having been thrown away (i2c.rs 354, can.rs 252); and when nothing is on its way,
\* the next caller gets its own.
THEOREM AnswersStayInStep == ServicesSpec => []AnswersKeepStep
<1>1. I2cKeepsStep /\ CanKeepsStep => AnswersKeepStep
  BY DEF AnswersKeepStep
<1> QED
  BY <1>1, ServicesAreSeparate, I2cAnswers, CanAnswers, PTL

\* ServicesTypeOK: the type invariants of the three services.
THEOREM ServicesTypes == ServicesSpec => []ServicesTypeOK
<1>1. I2cInv /\ BoardOK(board) => I2cTypeOK
  BY I2cTypesFollow
<1>2. CanInv /\ FramesInv => CanTypeOK
  BY CanTypesFollow
<1>3. AppInv /\ InTime => AppTypeOK
  BY AppTypesFollow
<1>4. ServicesSpec => [](I2cInv /\ BoardOK(board))
  BY ServicesAreSeparate, BoardInvariant, PTL
<1>5. ServicesSpec => [](CanInv /\ FramesInv)
  BY ServicesAreSeparate, FramesInvariant, PTL
<1>6. ServicesSpec => [](AppInv /\ InTime)
  BY ServicesAreSeparate, AppInvariant, InTimeInvariant, PTL
<1>7. I2cTypeOK /\ CanTypeOK /\ AppTypeOK => ServicesTypeOK
  BY DEF ServicesTypeOK
<1> QED
  BY <1>1, <1>2, <1>3, <1>4, <1>5, <1>6, <1>7, PTL
==============================================================================
