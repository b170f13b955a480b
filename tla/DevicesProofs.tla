---------------------------- MODULE DevicesProofs ----------------------------
(***************************************************************************)
(* Proofs about two drivers that hand data from core 1 to a client of      *)
(* core 0, the audio stream and the BleuIO dongle with its serial bridge.  *)
(*                                                                         *)
(* The audio stream.  A slot belongs to the core that has marked it.  The  *)
(* blocks a client can still get lie so close together that the comparison *)
(* of their wrapping sequence numbers is that of their numbers; a scan     *)
(* knows of each slot it has passed that what is there comes after the     *)
(* oldest it has found; and a copy comes after what was copied before.     *)
(*                                                                         *)
(* The dongle.  What it has buffered is an answer of the session, or a     *)
(* report of the scan that runs, or, while it changes over, about to be    *)
(* drained.  A client gets the answers of its own session, and the catalog *)
(* the lines of one scan.                                                  *)
(***************************************************************************)
EXTENDS MCDevices, ModularArithmetic, FiniteSetTheorems

-----------------------------------------------------------------------------
ProducerSteps == {"fill", "phase", "store", "claim", "write", "ready", "signal",
                  "clear", "unsignal"}
ListenerSteps == {"none", "acquire", "idle", "wait", "load", "peek", "take", "copy",
                  "clear", "unsignal"}

\* Where the cores are, and that they are at a slot that exists.
ProducerOK ==
  /\ producer \in [at : ProducerSteps, slot : 0..SLOT_COUNT, phase : Nat]
  /\ producer.at \in {"claim", "write", "ready", "clear"} => producer.slot \in SlotIds
ListenerOK ==
  /\ listener \in [at : ListenerSteps, slot : 0..SLOT_COUNT,
                   oldest : 0..SLOT_COUNT, sequence : 0..SequenceLimit - 1]
  /\ listener.at \in {"load", "peek", "take", "copy", "clear"} =>
       listener.slot \in SlotIds
Slots == [SlotIds -> [state : SlotStates, block : Blocks]]
SlotsOK ==
  /\ slots \in Slots
  /\ {capture, number, SNAPSHOT_PHASE} \subseteq Nat

\* A slot that is written or copied is marked so, and belongs to one core.
Marked ==
  /\ producer.at \in {"write", "ready"} => slots[producer.slot].state = "writing"
  /\ listener.at = "copy" => slots[listener.slot].state = "reading"

\* The look at a sequence number comes before any mark.  The slot was ready
\* when core 0 began; if it no longer is, core 1 has restarted the stream
\* meanwhile, and has nothing else to do until core 0 has finished.
Peeked ==
  /\ listener.at = "peek" =>
       \/ slots[listener.slot].state = "ready"
       \/ overlap /\ producer.at \in {"clear", "unsignal", "fill"}
  /\ Taking /\ ~overlap => producer.at = "fill"

SlotInv == ProducerOK /\ ListenerOK /\ SlotsOK /\ Marked /\ Peeked

\* An exchange or store of a slot's state keeps the type of the slots.
LEMMA StateChanges ==
  ASSUME slots \in Slots, NEW s \in SlotIds, NEW state \in SlotStates
  PROVE  [slots EXCEPT ![s].state = state] \in Slots
BY DEF Slots

\* So does the copy of a block into a slot.
LEMMA BlockChanges ==
  ASSUME slots \in Slots, NEW s \in SlotIds, NEW block \in Blocks
  PROVE  [slots EXCEPT ![s].block = block] \in Slots
BY DEF Slots

\* What the proofs need of the constants: there is a first slot, and a loop over
\* the slots goes from one that exists to one that exists.
LEMMA PositiveLimits ==
  /\ {SLOT_COUNT, SNAPSHOT_BLOCKS, SNAPSHOT_PERIOD_BLOCKS, SequenceLimit} \subseteq Nat
  /\ {MaxBlocks, MaxCaptures, MaxListeners} \subseteq Nat
  /\ 0 < SNAPSHOT_BLOCKS /\ 0 < SNAPSHOT_PERIOD_BLOCKS /\ 0 < SequenceLimit
  /\ 1 \in SlotIds
  /\ \A s \in SlotIds : s \in 0..SLOT_COUNT /\ (s < SLOT_COUNT => s + 1 \in SlotIds)
BY AudioAssumption DEF SlotIds

\* A sequence number read from a slot is a remainder.
LEMMA SequenceInRange == \A block \in Blocks : Sequence(block) \in 0..SequenceLimit - 1
<1> SUFFICES ASSUME NEW block \in Blocks PROVE Sequence(block) \in 0..SequenceLimit - 1
  OBVIOUS
<1>1. block.number \in Nat
  BY DEF Blocks
<1> QED
  BY <1>1, PositiveLimits, Div DEF Sequence

\* The scan goes on to a slot that exists, or ends.
LEMMA NextSlotExists ==
  ASSUME listener.slot \in SlotIds, NEW oldest \in 0..SLOT_COUNT, NEW sequence \in 0..SequenceLimit - 1,
         NextSlot(oldest, sequence)
  PROVE  ListenerOK' /\ listener'.at \in {"load", "wait", "take"}
<1> USE PositiveLimits DEF NextSlot, ListenerRests, ListenerOK, ListenerSteps
<1>1. CASE listener.slot < SLOT_COUNT
  BY <1>1
<1>2. CASE ~(listener.slot < SLOT_COUNT) /\ oldest = 0
  BY <1>2
<1>3. CASE ~(listener.slot < SLOT_COUNT) /\ oldest # 0
  BY <1>3 DEF SlotIds
<1> QED
  BY <1>1, <1>2, <1>3

\* The marks and the pace of the cores hold whatever they do, one step each.
LEMMA SlotInvariant == AudioSpec => []SlotInv
<1> USE PositiveLimits DEF ProducerSteps, ListenerSteps, Taking, ProducerRests, ListenerRests
<1>1. AudioInit => SlotInv
  <2> SUFFICES ASSUME AudioInit PROVE SlotInv
    OBVIOUS
  <2> USE DEF AudioInit
  <2>1. NoBlock \in Blocks
    BY DEF NoBlock, Blocks
  <2>2. ProducerOK
    BY DEF ProducerOK
  <2>3. ListenerOK
    BY DEF ListenerOK
  <2>4. SlotsOK
    <3>1. slots \in Slots
      BY <2>1 DEF Slots, SlotStates
    <3> QED
      BY <3>1 DEF SlotsOK
  <2> QED
    BY <2>2, <2>3, <2>4 DEF SlotInv, Marked, Peeked
<1>2. SlotInv /\ [AudioNext]_audioVars => SlotInv'
  <2> SUFFICES ASSUME SlotInv, [AudioNext]_audioVars PROVE SlotInv'
    OBVIOUS
  <2> USE DEF SlotInv, ProducerOK, ListenerOK, SlotsOK, Marked, Peeked
  <2>1. CASE Fill
    <3> USE <2>1 DEF Fill, ProducerGoes, Paced
    <3>1. ProducerOK'
      OBVIOUS
    <3>2. ListenerOK'
      OBVIOUS
    <3>3. SlotsOK'
      OBVIOUS
    <3>4. Marked' /\ Peeked'
      OBVIOUS
    <3> QED
      BY <3>1, <3>2, <3>3, <3>4
  <2>2. CASE FetchPhase
    <3> USE <2>2 DEF FetchPhase
    <3>1. ProducerOK'
      OBVIOUS
    <3>2. ListenerOK'
      OBVIOUS
    <3>3. SlotsOK'
      OBVIOUS
    <3>4. Marked' /\ Peeked'
      OBVIOUS
    <3> QED
      BY <3>1, <3>2, <3>3, <3>4
  <2>3. CASE StorePhase
    <3> USE <2>3 DEF StorePhase, ProducerGoes
    <3>1. ProducerOK'
      <4>1. CASE producer.phase >= SNAPSHOT_BLOCKS
        BY <4>1
      <4>2. CASE ~(producer.phase >= SNAPSHOT_BLOCKS)
        BY <4>2
      <4> QED
        BY <4>1, <4>2
    <3>2. ListenerOK'
      OBVIOUS
    <3>3. SlotsOK'
      OBVIOUS
    <3>4. Marked' /\ Peeked'
      OBVIOUS
    <3> QED
      BY <3>1, <3>2, <3>3, <3>4
  <2>4. CASE Claim
    <3> USE <2>4 DEF Claim, Exchange
    <3>1. slots' \in Slots
      BY StateChanges DEF SlotStates
    <3>2. ProducerOK' /\ ListenerOK'
      OBVIOUS
    <3>3. \A s \in SlotIds :
            slots'[s].state = IF s = producer.slot /\ slots[s].state = "free"
                              THEN "writing" ELSE slots[s].state
      BY DEF Slots
    <3>4. Marked'
      BY <3>2, <3>3
    <3>5. Peeked'
      BY <3>2, <3>3
    <3> QED
      BY <3>1, <3>2, <3>4, <3>5
  <2>5. CASE Write
    <3> USE <2>5 DEF Write, ProducerGoes
    <3>1. slots' \in Slots
      BY BlockChanges DEF Blocks
    <3>2. ProducerOK' /\ ListenerOK'
      OBVIOUS
    <3>3. \A s \in SlotIds : slots'[s].state = slots[s].state
      BY DEF Slots
    <3> QED
      BY <3>1, <3>2, <3>3
  <2>6. CASE StoreReady
    <3> USE <2>6 DEF StoreReady, ProducerGoes
    <3>1. slots' \in Slots
      BY StateChanges DEF SlotStates
    <3>2. ProducerOK' /\ ListenerOK'
      OBVIOUS
    <3>3. \A s \in SlotIds :
            slots'[s].state = IF s = producer.slot
                              THEN "ready" ELSE slots[s].state
      BY DEF Slots
    <3>4. Marked'
      BY <3>2, <3>3
    <3>5. Peeked'
      BY <3>2, <3>3
    <3> QED
      BY <3>1, <3>2, <3>4, <3>5
  <2>7. CASE Raise
    BY <2>7 DEF Raise, ProducerGoes
  <2>8. CASE Restart
    <3> USE <2>8 DEF Restart, Paced
    <3>1. ProducerOK'
      OBVIOUS
    <3>2. ListenerOK'
      OBVIOUS
    <3>3. SlotsOK'
      OBVIOUS
    <3>4. Marked' /\ Peeked'
      OBVIOUS
    <3> QED
      BY <3>1, <3>2, <3>3, <3>4
  <2>9. CASE RestartClears
    <3> USE <2>9 DEF RestartClears, ClearReady, Exchange
    <3>1. slots' \in Slots
      BY StateChanges DEF SlotStates
    <3>2. ProducerOK' /\ ListenerOK'
      OBVIOUS
    <3>3. \A s \in SlotIds :
            slots'[s].state = IF s = producer.slot /\ slots[s].state = "ready"
                              THEN "free" ELSE slots[s].state
      BY DEF Slots
    <3>4. Marked'
      BY <3>2, <3>3
    <3>5. Peeked'
      BY <3>2, <3>3
    <3> QED
      BY <3>1, <3>2, <3>4, <3>5
  <2>10. CASE RestartEnds
    BY <2>10 DEF RestartEnds, ProducerGoes
  <2>11. CASE Acquire
    BY <2>11 DEF Acquire, ListenerGoes
  <2>12. CASE AcquirePhase
    BY <2>12 DEF AcquirePhase, ListenerGoes
  <2>13. CASE BeginTake
    <3> USE <2>13 DEF BeginTake, ScanFrom
    <3>1. ProducerOK'
      OBVIOUS
    <3>2. ListenerOK'
      OBVIOUS
    <3>3. SlotsOK'
      OBVIOUS
    <3>4. Marked' /\ Peeked'
      OBVIOUS
    <3> QED
      BY <3>1, <3>2, <3>3, <3>4
  <2>14. CASE Interrupted
    BY <2>14 DEF Interrupted, ListenerGoes
  <2>15. CASE LoadState
    <3> USE <2>15 DEF LoadState, ListenerGoes
    <3>1. CASE slots[listener.slot].state = "ready"
      BY <3>1
    <3>2. CASE slots[listener.slot].state # "ready"
      <4>1. ListenerOK' /\ listener'.at \in {"load", "wait", "take"}
        BY <3>2, NextSlotExists
      <4> QED
        BY <3>2, <4>1
    <3> QED
      BY <3>1, <3>2
  <2>16. CASE ReadSequence
    <3> USE <2>16 DEF ReadSequence
    <3>1. Sequence(slots[listener.slot].block) \in 0..SequenceLimit - 1
      BY SequenceInRange DEF Slots
    <3>2. ListenerOK' /\ listener'.at \in {"load", "wait", "take"}
      BY <3>1, NextSlotExists
    <3> QED
      BY <3>2
  <2>17. CASE TakeSlot
    <3> USE <2>17 DEF TakeSlot, Exchange, ListenerGoes
    <3>1. slots' \in Slots
      BY StateChanges DEF SlotStates
    <3>2. ProducerOK' /\ ListenerOK'
      OBVIOUS
    <3>3. \A s \in SlotIds :
            slots'[s].state = IF s = listener.slot /\ slots[s].state = "ready"
                              THEN "reading" ELSE slots[s].state
      BY DEF Slots
    <3>4. Marked'
      BY <3>2, <3>3
    <3>5. Peeked'
      BY <3>2, <3>3
    <3> QED
      BY <3>1, <3>2, <3>4, <3>5
  <2>18. CASE CopyBlock
    <3> USE <2>18 DEF CopyBlock, ListenerGoes
    <3>1. slots' \in Slots
      BY StateChanges DEF SlotStates
    <3>2. ProducerOK' /\ ListenerOK'
      OBVIOUS
    <3>3. \A s \in SlotIds :
            slots'[s].state = IF s = listener.slot
                              THEN "free" ELSE slots[s].state
      BY DEF Slots
    <3>4. Marked'
      BY <3>2, <3>3
    <3>5. Peeked'
      BY <3>2, <3>3
    <3> QED
      BY <3>1, <3>2, <3>4, <3>5
  <2>19. CASE Leave
    <3> USE <2>19 DEF Leave
    <3>1. ProducerOK'
      OBVIOUS
    <3>2. ListenerOK'
      OBVIOUS
    <3>3. SlotsOK'
      OBVIOUS
    <3>4. Marked' /\ Peeked'
      OBVIOUS
    <3> QED
      BY <3>1, <3>2, <3>3, <3>4
  <2>20. CASE LeaveClears
    <3> USE <2>20 DEF LeaveClears, ClearReady, Exchange
    <3>1. slots' \in Slots
      BY StateChanges DEF SlotStates
    <3>2. ProducerOK' /\ ListenerOK'
      OBVIOUS
    <3>3. \A s \in SlotIds :
            slots'[s].state = IF s = listener.slot /\ slots[s].state = "ready"
                              THEN "free" ELSE slots[s].state
      BY DEF Slots
    <3>4. Marked'
      BY <3>2, <3>3
    <3>5. Peeked'
      BY <3>2, <3>3
    <3> QED
      BY <3>1, <3>2, <3>4, <3>5
  <2>21. CASE LeaveEnds
    BY <2>21 DEF LeaveEnds, ListenerGoes
  <2>22. CASE UNCHANGED audioVars
    BY <2>22 DEF audioVars
  <2> QED
    BY <2>1, <2>2, <2>3, <2>4, <2>5, <2>6, <2>7, <2>8, <2>9, <2>10,
       <2>11, <2>12, <2>13, <2>14, <2>15, <2>16, <2>17, <2>18, <2>19, <2>20,
       <2>21, <2>22
       DEF AudioNext, PublishNext, TakeNext
<1> QED
  BY <1>1, <1>2, PTL DEF AudioSpec

\* The counters, the flags and the last block.  The phase is at its period only
\* between the two accesses of core 1 to it.
CountersOK ==
  /\ capture \in 0..MaxCaptures /\ number \in 0..MaxBlocks
  /\ listeners \in 0..MaxListeners
  /\ SNAPSHOT_PHASE \in 0..SNAPSHOT_PERIOD_BLOCKS
  /\ producer.phase < SNAPSHOT_PERIOD_BLOCKS
  /\ producer.at # "store" => SNAPSHOT_PHASE < SNAPSHOT_PERIOD_BLOCKS
FlagsOK ==
  /\ CLIENT_CONNECTED \in BOOLEAN /\ BLOCK_READY \in BOOLEAN /\ overlap \in BOOLEAN
  /\ last \in Blocks

\* The counters keep their bounds.
LEMMA CountersInvariant == AudioSpec => [](SlotInv /\ CountersOK /\ FlagsOK)
<1> USE PositiveLimits DEF ProducerRests
<1>1. AudioInit => CountersOK /\ FlagsOK
  <2> SUFFICES ASSUME AudioInit PROVE CountersOK /\ FlagsOK
    OBVIOUS
  <2>1. CountersOK
    BY DEF AudioInit, CountersOK
  <2>2. NoBlock \in Blocks
    BY DEF NoBlock, Blocks
  <2>3. FlagsOK
    BY <2>2 DEF AudioInit, FlagsOK
  <2> QED
    BY <2>1, <2>3
<1>2. SlotInv /\ SlotInv' /\ CountersOK /\ [AudioNext]_audioVars => CountersOK'
  <2> SUFFICES ASSUME SlotInv, SlotInv', CountersOK, [AudioNext]_audioVars
               PROVE  CountersOK'
    OBVIOUS
  <2>1. CASE Fill
    BY <2>1 DEF Fill, ProducerGoes, CountersOK, SlotInv, ProducerOK
  <2>2. CASE FetchPhase
    BY <2>2 DEF FetchPhase, CountersOK, SlotInv, ProducerOK
  <2>3. CASE StorePhase
    BY <2>3 DEF StorePhase, CountersOK, SlotInv, ProducerOK
  <2>4. CASE Claim
    BY <2>4 DEF Claim, CountersOK, SlotInv, ProducerOK
  <2>5. CASE Write \/ StoreReady
    BY <2>5 DEF Write, StoreReady, ProducerGoes, CountersOK, SlotInv, ProducerOK
  <2>6. CASE Raise
    BY <2>6 DEF Raise, CountersOK, SlotInv, ProducerOK
  <2>7. CASE Restart
    BY <2>7 DEF Restart, CountersOK, SlotInv, ProducerOK
  <2>8. CASE RestartClears \/ RestartEnds
    BY <2>8 DEF RestartClears, RestartEnds, CountersOK, SlotInv, ProducerOK
  <2>9. CASE Acquire \/ AcquirePhase
    BY <2>9 DEF Acquire, AcquirePhase, CountersOK
  <2>10. CASE TakeNext \/ Interrupted
    BY <2>10 DEF TakeNext, BeginTake, LoadState, ReadSequence, TakeSlot, CopyBlock,
                 Interrupted, CountersOK
  <2>11. CASE Leave \/ LeaveClears \/ LeaveEnds
    BY <2>11 DEF Leave, LeaveClears, LeaveEnds, CountersOK
  <2>12. CASE UNCHANGED audioVars
    BY <2>12 DEF audioVars, CountersOK
  <2> QED
    BY <2>1, <2>2, <2>3, <2>4, <2>5, <2>6, <2>7, <2>8, <2>9, <2>10, <2>11, <2>12
       DEF AudioNext, PublishNext
<1>3. SlotInv /\ FlagsOK /\ [AudioNext]_audioVars => FlagsOK'
  <2> SUFFICES ASSUME SlotInv, FlagsOK, [AudioNext]_audioVars PROVE FlagsOK'
    OBVIOUS
  <2> USE DEF FlagsOK
  <2>1. CASE Fill \/ Restart
    <3>2. Taking \in BOOLEAN
      BY DEF Taking
    <3>1. overlap' \in BOOLEAN
      <4> HIDE DEF Taking
      <4>1. overlap' = Taking
        BY <2>1, Zenon DEF Fill, Restart
      <4> QED
        BY <3>2, <4>1, Zenon
    <3> QED
      BY <2>1, <3>1 DEF Fill, Restart
  <2>7. CASE PublishNext
    BY <2>7 DEF PublishNext, FetchPhase, StorePhase, Claim, Write, StoreReady, Raise,
                RestartClears, RestartEnds
  <2>2. CASE Acquire \/ AcquirePhase \/ Interrupted
    <3>1. NoBlock \in Blocks
      BY DEF NoBlock, Blocks
    <3> QED
      BY <2>2, <3>1 DEF Acquire, AcquirePhase, Interrupted
  <2>3. CASE BeginTake \/ LoadState \/ ReadSequence \/ TakeSlot
    BY <2>3 DEF BeginTake, LoadState, ReadSequence, TakeSlot
  <2>4. CASE CopyBlock
    BY <2>4 DEF CopyBlock, SlotInv, ListenerOK, SlotsOK, Slots
  <2>5. CASE Leave \/ LeaveClears \/ LeaveEnds
    BY <2>5 DEF Leave, LeaveClears, LeaveEnds
  <2>6. CASE UNCHANGED audioVars
    BY <2>6 DEF audioVars
  <2> QED
    BY <2>1, <2>2, <2>3, <2>4, <2>5, <2>6, <2>7 DEF AudioNext, TakeNext
<1> QED
  BY <1>1, <1>2, <1>3, SlotInvariant, PTL DEF AudioSpec

\* The cores never access a slot at the same time, although core 0 reads the
\* sequence numbers before it marks a slot (audio_stream.rs 48-50, 130).
THEOREM SlotsAreExclusive == AudioSpec => []SlotAccessIsExclusive
<1>1. SlotInv => SlotAccessIsExclusive
  BY DEF SlotInv, Marked, Peeked, SlotAccessIsExclusive
<1> QED
  BY <1>1, SlotInvariant, PTL

-----------------------------------------------------------------------------
\* The blocks core 0 may still get: those that are ready, those its scan has found
\* and the one it copies.
BlockOf(s) == slots[s].block
Ready == {s \in SlotIds : slots[s].state = "ready"}
Found == {s \in SlotIds : \/ listener.at \in {"peek", "take"} /\ s = listener.slot
                          \/ listener.at \in {"load", "peek"} /\ s = listener.oldest}
Copied == {s \in SlotIds : listener.at = "copy" /\ s = listener.slot}

Half == (SequenceLimit - 1) \div 2
Publishing == {"phase", "store", "claim", "write", "ready"}
Restarting == {"clear", "unsignal", "fill"}
\* The capture of the blocks that are ready; reset has begun a new one when it
\* starts to clear the slots.
OnPort == IF producer.at = "clear" THEN capture - 1 ELSE capture

\* Relations between blocks, and of a block to what core 1 is doing.
Near(b, c) ==
  /\ b.capture = c.capture
  /\ b.number # c.number
  /\ b.number - c.number < Half
After(b, c) ==
  /\ Later(b, c)
  /\ b.capture = c.capture => b.number - c.number < Half
Recent(b) ==
  b.capture = capture =>
    /\ b.number <= number
    /\ producer.at \in Publishing => b.number < number
    /\ number - b.number < Half

\* A slot that is marked belongs to the core that marked it.
Owned == \A s \in SlotIds :
  /\ slots[s].state = "writing" => producer.at \in {"write", "ready"} /\ s = producer.slot
  /\ slots[s].state = "reading" => s \in Copied

\* What a reset has done so far, and what a block to be published is.
ResetOK ==
  /\ producer.at \in {"clear", "unsignal"} =>
       number = 0 /\ SNAPSHOT_PHASE = 0 /\ capture > 0
  /\ producer.at = "clear" => \A s \in Ready : s >= producer.slot
Unstarted == capture = 0 => number = 0
PublishOK ==
  /\ producer.at \in Publishing => capture > 0
  /\ producer.at = "ready" =>
       /\ BlockOf(producer.slot).capture = capture
       /\ BlockOf(producer.slot).number = number

\* What is ready is of one capture and not too old.
ReadyOK == \A s \in Ready :
  /\ BlockOf(s).capture = OnPort
  /\ BlockOf(s).capture > 0
  /\ Recent(BlockOf(s))

\* So is what core 0 has found; a slot that is no longer ready was cleared by a
\* reset in the meantime, and nothing is published before the scan has ended.
NearOK == \A s, t \in Ready \cup Found : s # t => Near(BlockOf(s), BlockOf(t))
FoundOK == \A s \in Found : s \notin Ready => overlap /\ producer.at \in Restarting

\* The oldest slot the scan knows is older than the ready ones it has passed.  If
\* it knows none, those it has passed were published behind its back, and so they
\* are later than whatever it will find.
ScanKnows ==
  listener.at \in {"load", "peek"} /\ listener.oldest # 0 =>
    /\ listener.oldest < listener.slot
    /\ listener.sequence = Sequence(BlockOf(listener.oldest))
    /\ \A t \in Ready : t < listener.slot /\ t # listener.oldest =>
         BlockOf(t).number > BlockOf(listener.oldest).number
ScanKnowsNone ==
  listener.at \in {"load", "peek"} /\ listener.oldest = 0 =>
    \A t \in Ready : t < listener.slot =>
      /\ overlap /\ producer.at \in {"signal", "fill"}
      /\ \A s \in Ready \cup Found : s >= listener.slot =>
           BlockOf(t).number > BlockOf(s).number
ScanEnds ==
  listener.at = "take" => \A t \in Ready : t # listener.slot =>
    BlockOf(t).number > BlockOf(listener.slot).number

\* What is copied comes after the last block and before every ready one.
CopyOK == \A s \in Copied :
  /\ BlockOf(s).capture <= OnPort
  /\ BlockOf(s).capture > 0
  /\ Recent(BlockOf(s))
  /\ After(BlockOf(s), last)
  /\ \A t \in Ready : After(BlockOf(t), BlockOf(s))
\* When it is of a device that is gone nothing of the next one is there yet.
CopyOfPast == \A s \in Copied : BlockOf(s).capture < capture =>
  /\ overlap /\ producer.at \in Restarting
  /\ number = 0 /\ SNAPSHOT_PHASE = 0
  /\ producer.at # "clear" => Ready = {}
LastOK ==
  /\ last.capture <= OnPort
  /\ Recent(last)
  /\ \A t \in Ready : After(BlockOf(t), last)
  /\ listener.at = "acquire" => last = NoBlock

\* The first block of a new device that a client gets is the start of a snapshot:
\* either it is still to come or it is there and the oldest.
Attending == listener.at \in {"idle", "wait", "load", "peek", "take", "copy"}
CurrentBlocks == {s \in Ready \cup Copied : BlockOf(s).capture = capture}
StartComes ==
  /\ producer.at \in {"fill", "unsignal", "phase"} => SNAPSHOT_PHASE = 0
  /\ producer.at \in {"store", "claim", "write"} => producer.phase = 0
  /\ producer.at = "ready" => BlockOf(producer.slot).start
  /\ producer.at # "signal"
StartIsOldest ==
  \E s \in CurrentBlocks :
    /\ BlockOf(s).start
    /\ \A t \in CurrentBlocks : t # s => BlockOf(t).number > BlockOf(s).number
Connected == listener.at \notin {"none", "clear", "unsignal"} => CLIENT_CONNECTED = TRUE
AtNewDevice ==
  Attending /\ last # NoBlock /\ last.capture < capture /\ producer.at # "clear"
FirstOK == AtNewDevice => (CurrentBlocks = {} /\ StartComes) \/ StartIsOldest

Stream ==
  /\ Owned /\ ResetOK /\ Unstarted /\ PublishOK /\ ReadyOK /\ NearOK /\ FoundOK
  /\ ScanKnows /\ ScanKnowsNone /\ ScanEnds
  /\ CopyOK /\ CopyOfPast /\ LastOK /\ Connected /\ FirstOK
Ranges == SlotInv /\ CountersOK /\ FlagsOK

\* Half of the sequence numbers, rounded down.
LEMMA HalfIsHalf == Half \in Nat /\ 0 < Half /\ 2 * Half < SequenceLimit
<1>1. SequenceLimit - 1 \in Nat
  BY PositiveLimits
<1>2. /\ (SequenceLimit - 1) % 2 \in 0..1
      /\ (SequenceLimit - 1) \div 2 \in Nat
      /\ SequenceLimit - 1 = 2 * ((SequenceLimit - 1) \div 2) + ((SequenceLimit - 1) % 2)
  BY <1>1, Div
<1> DEFINE h == (SequenceLimit - 1) \div 2
           r == (SequenceLimit - 1) % 2
<1>3. h \in Nat /\ r \in 0..1 /\ SequenceLimit - 1 = 2 * h + r
  BY <1>2
<1> HIDE DEF h, r
<1>4. 0 < h /\ 2 * h < SequenceLimit
  BY <1>3, AudioAssumption, SMT
<1> QED
  BY <1>3, <1>4 DEF Half, h

\* The blocks and the counters are what they should be.
LEMMA BlockTypes ==
  ASSUME Ranges
  PROVE  /\ \A s \in SlotIds : /\ BlockOf(s) \in Blocks
                               /\ BlockOf(s).capture \in Nat /\ BlockOf(s).number \in Nat
         /\ last \in Blocks /\ last.capture \in Nat /\ last.number \in Nat
         /\ capture \in Nat /\ number \in Nat
BY PositiveLimits DEF Ranges, SlotInv, SlotsOK, Slots, FlagsOK, CountersOK, BlockOf, Blocks

\* What each step does to the slots that are ready, and to the blocks.
LEMMA ClaimSlots ==
  ASSUME Ranges, Claim
  PROVE  Ready' = Ready /\ \A s \in SlotIds : BlockOf(s)' = BlockOf(s)
<1>1. producer.slot \in SlotIds /\ slots \in Slots
  BY DEF Claim, Ranges, SlotInv, ProducerOK, SlotsOK
<1> QED
  BY <1>1 DEF Claim, Exchange, Slots, Ready, BlockOf

LEMMA WriteSlots ==
  ASSUME Ranges, Write
  PROVE  /\ Ready' = Ready /\ producer.slot \notin Ready /\ producer.slot \in SlotIds
         /\ \A s \in SlotIds :
              BlockOf(s)' = IF s = producer.slot
                            THEN [capture |-> capture, number |-> number,
                                  start |-> producer.phase = 0]
                            ELSE BlockOf(s)
<1>1. producer.slot \in SlotIds /\ slots \in Slots
      /\ slots[producer.slot].state = "writing"
  BY DEF Write, Ranges, SlotInv, ProducerOK, SlotsOK, Marked
<1> QED
  BY <1>1 DEF Write, Slots, Ready, BlockOf

LEMMA StoreReadySlots ==
  ASSUME Ranges, StoreReady
  PROVE  /\ Ready' = Ready \cup {producer.slot} /\ producer.slot \in SlotIds \ Ready
         /\ \A s \in SlotIds : BlockOf(s)' = BlockOf(s)
<1>1. producer.slot \in SlotIds /\ slots \in Slots
      /\ slots[producer.slot].state = "writing"
  BY DEF StoreReady, Ranges, SlotInv, ProducerOK, SlotsOK, Marked
<1> QED
  BY <1>1 DEF StoreReady, Slots, Ready, BlockOf

LEMMA ClearSlots ==
  ASSUME Ranges, NEW k \in SlotIds, ClearReady(k)
  PROVE  Ready' = Ready \ {k} /\ \A s \in SlotIds : BlockOf(s)' = BlockOf(s)
<1>1. slots \in Slots
  BY DEF Ranges, SlotInv, SlotsOK
<1> QED
  BY <1>1 DEF ClearReady, Exchange, Slots, Ready, BlockOf

LEMMA TakeSlots ==
  ASSUME Ranges, TakeSlot
  PROVE  /\ listener.slot \in SlotIds /\ Ready' = Ready \ {listener.slot}
         /\ \A s \in SlotIds : BlockOf(s)' = BlockOf(s)
<1>1. listener.slot \in SlotIds /\ slots \in Slots
  BY DEF TakeSlot, Ranges, SlotInv, ListenerOK, SlotsOK
<1> QED
  BY <1>1 DEF TakeSlot, Exchange, Slots, Ready, BlockOf

LEMMA CopySlots ==
  ASSUME Ranges, CopyBlock
  PROVE  /\ listener.slot \in SlotIds /\ Ready' = Ready
         /\ \A s \in SlotIds : BlockOf(s)' = BlockOf(s)
<1>1. listener.slot \in SlotIds /\ slots \in Slots
      /\ slots[listener.slot].state = "reading"
  BY DEF CopyBlock, Ranges, SlotInv, ListenerOK, SlotsOK, Marked
<1> QED
  BY <1>1 DEF CopyBlock, Slots, Ready, BlockOf

\* The steps that leave the slots alone.
Aside ==
  \/ Fill \/ FetchPhase \/ StorePhase \/ Raise \/ Restart \/ RestartEnds
  \/ Acquire \/ AcquirePhase \/ BeginTake \/ Interrupted \/ LoadState \/ ReadSequence
  \/ Leave \/ LeaveEnds \/ UNCHANGED audioVars

LEMMA AsideSlots ==
  ASSUME Aside
  PROVE  Ready' = Ready /\ \A s \in SlotIds : BlockOf(s)' = BlockOf(s)
<1>1. slots' = slots
  BY DEF Aside, Fill, FetchPhase, StorePhase, Raise, Restart, RestartEnds, Acquire,
         AcquirePhase, BeginTake, Interrupted, LoadState, ReadSequence, Leave,
         LeaveEnds, audioVars
<1> QED
  BY <1>1 DEF Ready, BlockOf

LEMMA StepCases ==
  ASSUME [AudioNext]_audioVars
  PROVE  \/ Aside \/ Claim \/ Write \/ StoreReady \/ RestartClears
         \/ TakeSlot \/ CopyBlock \/ LeaveClears
BY DEF AudioNext, PublishNext, TakeNext, Aside

\* Only the publication of a block makes a slot ready.
LEMMA ReadyStep ==
  ASSUME Ranges, [AudioNext]_audioVars
  PROVE  /\ ~StoreReady => Ready' \subseteq Ready
         /\ ~Write => \A s \in SlotIds : BlockOf(s)' = BlockOf(s)
<1>1. RestartClears => Ready' \subseteq Ready /\ \A s \in SlotIds : BlockOf(s)' = BlockOf(s)
  <2> SUFFICES ASSUME RestartClears
               PROVE  Ready' \subseteq Ready /\ \A s \in SlotIds : BlockOf(s)' = BlockOf(s)
    OBVIOUS
  <2>1. PICK k \in SlotIds : k = producer.slot
    BY DEF RestartClears, Ranges, SlotInv, ProducerOK
  <2>2. ClearReady(k)
    BY <2>1 DEF RestartClears
  <2> QED
    BY <2>2, ClearSlots
<1>2. LeaveClears => Ready' \subseteq Ready /\ \A s \in SlotIds : BlockOf(s)' = BlockOf(s)
  <2> SUFFICES ASSUME LeaveClears
               PROVE  Ready' \subseteq Ready /\ \A s \in SlotIds : BlockOf(s)' = BlockOf(s)
    OBVIOUS
  <2>1. PICK k \in SlotIds : k = listener.slot
    BY DEF LeaveClears, Ranges, SlotInv, ListenerOK
  <2>2. ClearReady(k)
    BY <2>1 DEF LeaveClears
  <2> QED
    BY <2>2, ClearSlots
<1>3. Aside \/ Claim \/ TakeSlot \/ CopyBlock =>
        Ready' \subseteq Ready /\ \A s \in SlotIds : BlockOf(s)' = BlockOf(s)
  BY AsideSlots, ClaimSlots, TakeSlots, CopySlots
<1>4. Write => Ready' \subseteq Ready
  BY WriteSlots
<1>5. StoreReady => \A s \in SlotIds : BlockOf(s)' = BlockOf(s)
  BY StoreReadySlots
<1> QED
  BY <1>1, <1>2, <1>3, <1>4, <1>5, StepCases

-----------------------------------------------------------------------------
\* Marks stay with their owner.
LEMMA OwnedStep == Ranges /\ Owned /\ [AudioNext]_audioVars => Owned'
<1> SUFFICES ASSUME Ranges, Owned, [AudioNext]_audioVars, NEW s \in SlotIds
             PROVE  /\ slots'[s].state = "writing" =>
                         producer'.at \in {"write", "ready"} /\ s = producer'.slot
                    /\ slots'[s].state = "reading" =>
                         listener'.at = "copy" /\ s = listener'.slot
  BY DEF Owned, Copied
<1>0. /\ slots \in Slots
      /\ slots[s].state = "writing" => producer.at \in {"write", "ready"} /\ s = producer.slot
      /\ slots[s].state = "reading" => listener.at = "copy" /\ s = listener.slot
      /\ producer \in [at : ProducerSteps, slot : 0..SLOT_COUNT, phase : Nat]
      /\ listener \in [at : ListenerSteps, slot : 0..SLOT_COUNT,
                       oldest : 0..SLOT_COUNT, sequence : 0..SequenceLimit - 1]
  BY DEF Owned, Copied, Ranges, SlotInv, SlotsOK, ProducerOK, ListenerOK
<1> USE <1>0 DEF Slots, ProducerRests, ListenerRests, ProducerGoes, ListenerGoes, Exchange
<1>1. CASE Claim
  BY <1>1 DEF Claim
<1>2. CASE Write \/ StoreReady
  BY <1>2 DEF Write, StoreReady
<1>3. CASE RestartClears
  BY <1>3 DEF RestartClears, ClearReady
<1>4. CASE LeaveClears
  BY <1>4 DEF LeaveClears, ClearReady
<1>5. CASE TakeSlot
  BY <1>5 DEF TakeSlot
<1>6. CASE CopyBlock
  BY <1>6 DEF CopyBlock
<1>7. CASE Aside
  <2>1. slots' = slots
    BY <1>7 DEF Aside, Fill, FetchPhase, StorePhase, Raise, Restart, RestartEnds,
           Acquire, AcquirePhase, BeginTake, Interrupted, LoadState, ReadSequence, Leave,
           LeaveEnds, audioVars
  <2>2. producer.at \in {"write", "ready"} => producer' = producer
    BY <1>7 DEF Aside, Fill, FetchPhase, StorePhase, Raise, Restart, RestartEnds,
           Acquire, AcquirePhase, BeginTake, Interrupted, LoadState, ReadSequence, Leave,
           LeaveEnds, audioVars
  <2>3. listener.at = "copy" => listener' = listener
    BY <1>7 DEF Aside, Fill, FetchPhase, StorePhase, Raise, Restart, RestartEnds,
           Acquire, AcquirePhase, BeginTake, Interrupted, LoadState, ReadSequence, Leave,
           LeaveEnds, audioVars
  <2> QED
    BY <2>1, <2>2, <2>3
<1> QED
  BY <1>1, <1>2, <1>3, <1>4, <1>5, <1>6, <1>7, StepCases

\* What core 0 finds was ready or found before; what it copies it has found ready.
LEMMA FoundStep ==
  ASSUME Ranges, [AudioNext]_audioVars
  PROVE  /\ Found' \subseteq Found \cup Ready
         /\ Found' \subseteq Found \/ LoadState
         /\ ~TakeSlot => Copied' \subseteq Copied
         /\ TakeSlot => Copied' \subseteq Ready \cap Found
<1>0. /\ slots \in Slots
      /\ listener \in [at : ListenerSteps, slot : 0..SLOT_COUNT,
                       oldest : 0..SLOT_COUNT, sequence : 0..SequenceLimit - 1]
      /\ listener.at \in {"load", "peek", "take", "copy"} => listener.slot \in SlotIds
      /\ 0 \notin SlotIds
  BY DEF Ranges, SlotInv, SlotsOK, ListenerOK, SlotIds
<1> USE <1>0 DEF Found, Copied, ListenerRests, ListenerGoes
<1>1. CASE listener' = listener
  <2>1. Found' = Found /\ Copied' = Copied
    BY <1>1
  <2>2. ~TakeSlot
    BY <1>1 DEF TakeSlot
  <2> QED
    BY <2>1, <2>2
<1>2. CASE LoadState
  <2>1. ~TakeSlot
    BY <1>2 DEF TakeSlot, LoadState
  <2>2. CASE slots[listener.slot].state = "ready"
    <3>1. listener' = [listener EXCEPT !.at = "peek"]
      BY <1>2, <2>2 DEF LoadState
    <3> QED
      BY <1>2, <2>1, <2>2, <3>1 DEF Ready, LoadState
  <2>3. CASE slots[listener.slot].state # "ready"
    <3>1. NextSlot(listener.oldest, listener.sequence)
      BY <1>2, <2>3 DEF LoadState
    <3>2. Found' \subseteq Found /\ Copied' = {}
      BY <1>2, <3>1 DEF NextSlot, LoadState
    <3> QED
      BY <2>1, <1>2, <3>2
  <2> QED
    BY <2>2, <2>3
<1>3. CASE ReadSequence
  <2>1. ~TakeSlot
    BY <1>3 DEF TakeSlot, ReadSequence
  <2>2. PICK oldest \in {listener.slot, listener.oldest},
             sequence \in {Sequence(slots[listener.slot].block), listener.sequence} :
          NextSlot(oldest, sequence)
    BY <1>3 DEF ReadSequence
  <2>3. Found' \subseteq Found /\ Copied' = {}
    BY <1>3, <2>2 DEF NextSlot, ReadSequence
  <2> QED
    BY <2>1, <2>3
<1>4. CASE TakeSlot
  BY <1>4 DEF TakeSlot, Ready
<1>5. CASE Acquire \/ AcquirePhase \/ BeginTake \/ Interrupted \/ CopyBlock
           \/ Leave \/ LeaveClears \/ LeaveEnds
  <2>1. ~TakeSlot
    BY <1>5 DEF TakeSlot, Acquire, AcquirePhase, BeginTake, Interrupted, CopyBlock, Leave,
                LeaveClears, LeaveEnds
  <2>2. \/ listener'.at \in {"acquire", "idle", "clear", "unsignal", "none"}
        \/ listener'.at = "load" /\ listener'.oldest = 0
    <3>1. CASE Acquire \/ AcquirePhase \/ Interrupted
      BY <3>1 DEF Acquire, AcquirePhase, Interrupted
    <3>2. CASE BeginTake
      BY <3>2 DEF BeginTake, ScanFrom
    <3>3. CASE CopyBlock \/ LeaveEnds
      BY <3>3 DEF CopyBlock, LeaveEnds
    <3>4. CASE Leave
      BY <3>4 DEF Leave
    <3>5. CASE LeaveClears
      BY <3>5 DEF LeaveClears
    <3> QED
      BY <1>5, <3>1, <3>2, <3>3, <3>4, <3>5
  <2>3. Found' = {} /\ Copied' = {}
    BY <2>2
  <2> QED
    BY <2>1, <2>3
<1> QED
  BY <1>1, <1>2, <1>3, <1>4, <1>5
     DEF AudioNext, PublishNext, TakeNext, Fill, FetchPhase, StorePhase, Claim, Write,
         StoreReady, Raise, Restart, RestartClears, RestartEnds, audioVars

-----------------------------------------------------------------------------
\* Where core 1 goes, step by step.
LEMMA ProducerPath ==
  ASSUME Ranges
  PROVE  /\ Fill => producer.at = "fill" /\ producer'.at \in {"fill", "phase"}
         /\ FetchPhase => producer.at = "phase" /\ producer'.at = "store"
         /\ StorePhase => producer.at = "store" /\ producer'.at \in {"claim", "fill"}
         /\ Claim => producer.at = "claim" /\ producer'.at \in {"claim", "write", "fill"}
         /\ Write => producer.at = "write" /\ producer'.at = "ready"
         /\ StoreReady => producer.at = "ready" /\ producer'.at = "signal"
         /\ Raise => producer.at = "signal" /\ producer'.at = "fill"
         /\ Restart => producer.at = "fill" /\ producer'.at = "clear"
         /\ RestartClears => producer.at = "clear" /\ producer'.at \in {"clear", "unsignal"}
         /\ RestartEnds => producer.at = "unsignal" /\ producer'.at = "fill"
<1>0. producer \in [at : ProducerSteps, slot : 0..SLOT_COUNT, phase : Nat]
  BY DEF Ranges, SlotInv, ProducerOK
<1> USE <1>0 DEF ProducerGoes, ProducerRests
<1>1. Fill => producer.at = "fill" /\ producer'.at \in {"fill", "phase"}
  BY DEF Fill
<1>2. FetchPhase => producer.at = "phase" /\ producer'.at = "store"
  BY DEF FetchPhase
<1>3. StorePhase => producer.at = "store" /\ producer'.at \in {"claim", "fill"}
  BY DEF StorePhase
<1>4. Claim => producer.at = "claim" /\ producer'.at \in {"claim", "write", "fill"}
  BY DEF Claim
<1>5. /\ Write => producer.at = "write" /\ producer'.at = "ready"
      /\ StoreReady => producer.at = "ready" /\ producer'.at = "signal"
      /\ Raise => producer.at = "signal" /\ producer'.at = "fill"
  BY DEF Write, StoreReady, Raise
<1>6. Restart => producer.at = "fill" /\ producer'.at = "clear"
  BY DEF Restart
<1>8. RestartEnds => producer.at = "unsignal" /\ producer'.at = "fill"
  BY DEF RestartEnds
<1>7. RestartClears => producer.at = "clear" /\ producer'.at \in {"clear", "unsignal"}
  BY DEF RestartClears
<1> QED
  BY <1>1, <1>2, <1>3, <1>4, <1>5, <1>6, <1>7, <1>8

\* Only core 1 changes its place and its counters.
LEMMA OfCore1 ==
  ASSUME [AudioNext]_audioVars, producer' # producer \/ capture' # capture \/ number' # number
  PROVE  Fill \/ PublishNext \/ Restart
BY DEF AudioNext, TakeNext, Acquire, AcquirePhase, BeginTake, LoadState, ReadSequence,
       TakeSlot, CopyBlock, Interrupted, Leave, LeaveClears, LeaveEnds, audioVars

\* A reset has put the counters back before it clears a slot, and it has cleared
\* the slots it has passed.
LEMMA ResetStep == Ranges /\ ResetOK /\ [AudioNext]_audioVars => ResetOK'
<1> SUFFICES ASSUME Ranges, ResetOK, [AudioNext]_audioVars PROVE ResetOK'
  OBVIOUS
<1>0. /\ producer \in [at : ProducerSteps, slot : 0..SLOT_COUNT, phase : Nat]
      /\ producer.at = "clear" => producer.slot \in SlotIds
      /\ capture \in Nat
      /\ \A s \in SlotIds : s \in Nat /\ 1 <= s
  BY DEF Ranges, SlotInv, ProducerOK, SlotsOK, SlotIds
<1> USE DEF ResetOK
<1>r. Ready \subseteq SlotIds /\ Ready' \subseteq SlotIds
  BY DEF Ready
<1>1. CASE Restart
  BY <1>1, <1>0, <1>r DEF Restart
<1>2. CASE RestartClears
  <2>1. PICK k \in SlotIds : k = producer.slot
    BY <1>0, <1>2 DEF RestartClears
  <2>2. Ready' = Ready \ {k}
    BY <1>2, <2>1, ClearSlots DEF RestartClears
  <2>3. \A s \in Ready' : s >= k /\ s # k
    BY <1>2, <2>1, <2>2 DEF RestartClears
  <2>4. producer'.at = "clear" => producer'.slot = k + 1
    BY <1>0, <1>2, <2>1 DEF RestartClears
  <2>5. producer'.at = "clear" => \A s \in Ready' : s >= producer'.slot
    BY <1>0, <1>r, <2>1, <2>3, <2>4
  <2> QED
    BY <1>2, <2>5 DEF RestartClears
<1>3. CASE producer'.at \notin {"clear", "unsignal"}
  BY <1>3
<1>4. CASE producer' = producer
  <2>1. Ready' \subseteq Ready
    <3>1. ~StoreReady
      BY <1>0, <1>4 DEF StoreReady, ProducerGoes
    <3> QED
      BY <3>1, ReadyStep
  <2>2. CASE producer.at \in {"clear", "unsignal"}
    <3>1. number' = number /\ capture' = capture /\ SNAPSHOT_PHASE' \in {SNAPSHOT_PHASE, 0}
      BY <2>2, <1>4
         DEF AudioNext, PublishNext, TakeNext, Fill, FetchPhase, StorePhase, Claim, Write,
             StoreReady, Raise, Restart, RestartClears, RestartEnds, Acquire, AcquirePhase,
             BeginTake, LoadState, ReadSequence, TakeSlot, CopyBlock, Interrupted, Leave,
             LeaveClears, LeaveEnds, audioVars
    <3> QED
      BY <1>4, <2>1, <3>1
  <2> QED
    BY <1>4, <2>2
<1>5. CASE Fill \/ FetchPhase \/ StorePhase \/ Claim \/ Write \/ StoreReady \/ Raise
           \/ RestartEnds
  <2>1. producer'.at \notin {"clear", "unsignal"}
    BY <1>5, ProducerPath
  <2> QED
    BY <1>3, <2>1
<1> QED
  BY <1>1, <1>2, <1>4, <1>5, OfCore1 DEF PublishNext

\* Blocks are published of the capture that is on the port.
LEMMA PublishStep == Ranges /\ PublishOK /\ [AudioNext]_audioVars => PublishOK'
<1> SUFFICES ASSUME Ranges, PublishOK, [AudioNext]_audioVars PROVE PublishOK'
  OBVIOUS
<1>0. producer \in [at : ProducerSteps, slot : 0..SLOT_COUNT, phase : Nat]
  BY DEF Ranges, SlotInv, ProducerOK
<1> USE <1>0 DEF PublishOK, Publishing, ProducerGoes, ProducerRests
<1>1. CASE Fill
  BY <1>1 DEF Fill
<1>2. CASE FetchPhase \/ StorePhase
  <2>1. producer'.at # "ready" /\ producer.at \in Publishing /\ capture' = capture
    BY <1>2, ProducerPath DEF FetchPhase, StorePhase
  <2> QED
    BY <2>1
<1>3. CASE Claim
  BY <1>3 DEF Claim
<1>4. CASE Write
  <2>1. PICK k \in SlotIds : k = producer.slot
    BY <1>4, WriteSlots
  <2>2. BlockOf(k)' = [capture |-> capture, number |-> number, start |-> producer.phase = 0]
    BY <1>4, <2>1, WriteSlots
  <2>3. producer'.slot = k /\ capture' = capture /\ number' = number
        /\ producer.at = "write" /\ producer'.at = "ready"
    BY <1>4, <2>1 DEF Write
  <2>4. BlockOf(producer.slot)' = BlockOf(k)'
    BY <2>3 DEF BlockOf
  <2> QED
    BY <2>2, <2>3, <2>4
<1>5. CASE StoreReady \/ Raise \/ Restart \/ RestartClears \/ RestartEnds
  <2>1. producer'.at \notin Publishing
    BY <1>5, ProducerPath
  <2> QED
    BY <2>1
<1>6. CASE producer' = producer /\ capture' = capture /\ number' = number
  <2>1. ~Write
    BY <1>6 DEF Write
  <2>2. CASE producer.at = "ready"
    <3>1. PICK k \in SlotIds : k = producer.slot
      BY <2>2 DEF Ranges, SlotInv, ProducerOK
    <3>2. BlockOf(k)' = BlockOf(k)
      BY <2>1, ReadyStep
    <3>3. BlockOf(producer.slot)' = BlockOf(k)'
      BY <1>6, <3>1 DEF BlockOf
    <3> QED
      BY <1>6, <3>1, <3>2, <3>3
  <2> QED
    BY <1>6, <2>2
<1> QED
  BY <1>1, <1>2, <1>3, <1>4, <1>5, <1>6, OfCore1 DEF PublishNext

\* The capture of what is ready never goes back, and it goes on only when nothing
\* is ready.
LEMMA CaptureStep ==
  ASSUME Ranges, ResetOK, [AudioNext]_audioVars
  PROVE  /\ OnPort \in Nat /\ OnPort' \in Nat
         /\ OnPort <= OnPort' /\ OnPort <= capture /\ capture <= capture'
         /\ OnPort' # OnPort => Ready' = {}
<1>0. /\ producer \in [at : ProducerSteps, slot : 0..SLOT_COUNT, phase : Nat]
      /\ producer.at = "clear" => producer.slot \in SlotIds /\ capture > 0
      /\ capture \in Nat
      /\ \A s \in SlotIds : s \in Nat /\ 1 <= s /\ s <= SLOT_COUNT
  BY DEF Ranges, SlotInv, ProducerOK, SlotsOK, SlotIds, ResetOK
<1>1. OnPort \in Nat /\ OnPort <= capture
  BY <1>0 DEF OnPort
<1>2. CASE Restart
  <2>1. OnPort' = capture + 1 - 1 /\ capture' = capture + 1 /\ OnPort = capture
    BY <1>0, <1>2, ProducerPath DEF Restart, OnPort
  <2>2. OnPort' = OnPort
    BY <1>0, <2>1
  <2> QED
    BY <1>0, <1>1, <2>1, <2>2
<1>3. CASE RestartClears
  <2>1. PICK k \in SlotIds : k = producer.slot
    BY <1>0, <1>3 DEF RestartClears
  <2>2. Ready' = Ready \ {k}
    BY <1>3, <2>1, ClearSlots DEF RestartClears
  <2>3. \A s \in Ready : s \in SlotIds /\ s >= k
    BY <1>3, <2>1 DEF RestartClears, ResetOK, Ready
  <2>4. capture' = capture /\ OnPort = capture - 1 /\ capture - 1 \in Nat
    BY <1>0, <1>3 DEF RestartClears, OnPort
  <2>5. CASE k < SLOT_COUNT
    <3>1. producer'.at = "clear"
      BY <1>0, <1>3, <2>1, <2>5 DEF RestartClears
    <3>2. OnPort' = OnPort
      BY <2>4, <3>1 DEF OnPort
    <3> QED
      BY <1>0, <1>1, <2>4, <3>2
  <2>6. CASE ~(k < SLOT_COUNT)
    <3>1. producer'.at = "unsignal"
      BY <1>0, <1>3, <2>1, <2>6 DEF RestartClears
    <3>2. \A s \in Ready : s = k
      <4>1. SUFFICES ASSUME NEW s \in SlotIds, s >= k PROVE s = k
        BY <2>3
      <4>2. s \in Nat /\ s <= SLOT_COUNT /\ k \in Nat /\ SLOT_COUNT \in Nat
        BY <1>0, PositiveLimits
      <4> QED
        BY <2>6, <4>1, <4>2
    <3>3. Ready' = {}
      BY <2>2, <3>2
    <3>4. OnPort' = capture
      BY <2>4, <3>1 DEF OnPort
    <3> QED
      BY <1>0, <1>1, <2>4, <3>3, <3>4
  <2> QED
    BY <2>5, <2>6
<1>4. ASSUME capture' = capture, producer'.at = "clear" <=> producer.at = "clear"
      PROVE  OnPort' = OnPort /\ capture <= capture'
  BY <1>0, <1>4 DEF OnPort
<1>5. CASE producer' = producer /\ capture' = capture /\ number' = number
  BY <1>1, <1>4, <1>5
<1>6. CASE Fill \/ FetchPhase \/ StorePhase \/ Claim \/ Write \/ StoreReady \/ Raise
           \/ RestartEnds
  <2>1. producer'.at # "clear" /\ producer.at # "clear"
    BY <1>6, ProducerPath
  <2>2. capture' = capture
    BY <1>6
       DEF Fill, FetchPhase, StorePhase, Claim, Write, StoreReady, Raise, RestartEnds
  <2> QED
    BY <1>1, <1>4, <2>1, <2>2
<1> QED
  BY <1>2, <1>3, <1>5, <1>6, OfCore1 DEF PublishNext

\* A block stays recent: core 1 does not fill more of them than it may.
LEMMA RecentStep ==
  ASSUME Ranges, [AudioNext]_audioVars, NEW b \in Blocks, Recent(b), b.capture <= capture,
         Fill => (b.capture = capture => number + 1 - b.number < Half)
  PROVE  Recent(b)'
<1>0. /\ producer \in [at : ProducerSteps, slot : 0..SLOT_COUNT, phase : Nat]
      /\ capture \in Nat /\ number \in Nat /\ b.capture \in Nat /\ b.number \in Nat
      /\ Half \in Nat
  BY HalfIsHalf DEF Ranges, SlotInv, ProducerOK, SlotsOK, Blocks
<1> USE DEF Recent, Publishing
<1>1. CASE Fill
  <2>1. number' = number + 1 /\ capture' = capture
    BY <1>1 DEF Fill
  <2> QED
    BY <1>0, <1>1, <2>1
<1>2. CASE Restart
  <2>1. capture' = capture + 1
    BY <1>2 DEF Restart
  <2> QED
    BY <1>0, <2>1
<1>3. CASE PublishNext
  <2>1. number' = number /\ capture' = capture
    BY <1>3 DEF PublishNext, FetchPhase, StorePhase, Claim, Write, StoreReady, Raise,
                RestartClears, RestartEnds
  <2>2. producer'.at \in Publishing => producer.at \in Publishing
    BY <1>3, ProducerPath DEF PublishNext
  <2> QED
    BY <2>1, <2>2
<1>4. CASE producer' = producer /\ capture' = capture /\ number' = number
  BY <1>4
<1> QED
  BY <1>1, <1>2, <1>3, <1>4, OfCore1

-----------------------------------------------------------------------------
\* A block that core 0 may still get is not overwritten.
LEMMA LiveBlocks ==
  ASSUME Ranges, FoundOK, [AudioNext]_audioVars
  PROVE  \A s \in Ready \cup Found \cup Copied : BlockOf(s)' = BlockOf(s)
<1>0. Ready \cup Found \cup Copied \subseteq SlotIds
  BY DEF Ready, Found, Copied
<1>1. CASE Write
  <2>1. producer.slot \notin Ready
    BY <1>1, WriteSlots
  <2>2. producer.slot \notin Found
    BY <1>1, <2>1, ProducerPath DEF FoundOK, Restarting
  <2>3. producer.slot \notin Copied
    BY <1>1 DEF Copied, Ranges, SlotInv, Marked, Write
  <2> QED
    BY <1>0, <1>1, <2>1, <2>2, <2>3, WriteSlots
<1> QED
  BY <1>0, <1>1, ReadyStep

\* What was found ready stays ready, but for a reset that goes on meanwhile.
LEMMA FoundStays == Ranges /\ FoundOK /\ [AudioNext]_audioVars => FoundOK'
<1> SUFFICES ASSUME Ranges, FoundOK, [AudioNext]_audioVars,
                    NEW s \in Found', s \notin Ready'
             PROVE  overlap' /\ producer'.at \in Restarting
  BY DEF FoundOK
<1>0. s \in Found \cup Ready
  BY FoundStep
<1>1. Found # {} => Taking
  BY DEF Found, Taking
<1>2. CASE Fill \/ Restart
  <2>1. Ready' = Ready
    BY <1>2, AsideSlots DEF Aside
  <2>2. s \in Found \ Ready
    BY <1>0, <2>1
  <2>3. overlap /\ Taking
    BY <1>1, <2>2 DEF FoundOK
  <2> QED
    BY <1>2, <2>3 DEF Fill, Restart, Paced
<1>3. CASE FetchPhase \/ StorePhase \/ Claim \/ Write \/ StoreReady \/ Raise
  <2>1. producer.at \notin Restarting
    BY <1>3, ProducerPath DEF Restarting
  <2>2. s \in Ready
    BY <1>0, <2>1 DEF FoundOK
  <2>3. Ready \subseteq Ready'
    BY <1>3, AsideSlots, ClaimSlots, WriteSlots, StoreReadySlots DEF Aside
  <2> QED
    BY <2>2, <2>3
<1>4. CASE RestartClears \/ RestartEnds
  <2>1. producer.at \in {"clear", "unsignal"} /\ producer'.at \in Restarting
    BY <1>4, ProducerPath DEF Restarting
  <2>2. listener' = listener /\ overlap' = overlap
    BY <1>4 DEF RestartClears, RestartEnds
  <2>3. Taking
    BY <2>2 DEF Found, Taking
  <2> QED
    BY <2>1, <2>2, <2>3 DEF Ranges, SlotInv, Peeked
<1>5. CASE LoadState \/ ReadSequence \/ UNCHANGED audioVars
  <2>1. Ready' = Ready /\ overlap' = overlap /\ producer' = producer
    BY <1>5, AsideSlots DEF Aside, LoadState, ReadSequence, audioVars
  <2> QED
    BY <1>0, <2>1 DEF FoundOK
<1>6. CASE Acquire \/ AcquirePhase \/ BeginTake \/ Interrupted \/ TakeSlot \/ CopyBlock
           \/ Leave \/ LeaveClears \/ LeaveEnds
  <2>1. Found' \subseteq Found
    BY <1>6, FoundStep
       DEF LoadState, Acquire, AcquirePhase, BeginTake, Interrupted, TakeSlot, CopyBlock,
           Leave, LeaveClears, LeaveEnds
  <2>2. CASE TakeSlot
    <3>1. listener'.at \in {"copy", "wait"}
      BY <2>2 DEF TakeSlot, ListenerGoes, ListenerRests, Ranges, SlotInv, ListenerOK
    <3> QED
      BY <3>1 DEF Found
  <2>3. CASE ~TakeSlot
    <3>1. Found = {}
      BY <1>6, <2>3
         DEF Found, Acquire, AcquirePhase, BeginTake, Interrupted, CopyBlock,
             Leave, LeaveClears, LeaveEnds
    <3> QED
      BY <2>1, <3>1
  <2> QED
    BY <2>2, <2>3
<1> QED
  BY <1>2, <1>3, <1>4, <1>5, <1>6 DEF AudioNext, PublishNext, TakeNext

\* The block that is published is later than all that are there, but not by much.
LEMMA NewBlockIsLast ==
  ASSUME Ranges, PublishOK, ReadyOK, FoundOK, StoreReady
  PROVE  /\ Found \subseteq Ready /\ OnPort = capture
         /\ BlockOf(producer.slot).capture = capture /\ capture > 0
         /\ BlockOf(producer.slot).number = number
         /\ \A t \in Ready : /\ BlockOf(t).capture = capture
                             /\ BlockOf(t).number < number
                             /\ number - BlockOf(t).number < Half
<1>1. producer.at = "ready"
  BY ProducerPath
<1>2. OnPort = capture
  BY <1>1 DEF OnPort
<1>3. Found \subseteq Ready
  BY <1>1 DEF FoundOK, Restarting
<1> QED
  BY <1>1, <1>2, <1>3 DEF PublishOK, ReadyOK, Recent, Publishing

\* What core 0 may still get lies close together.
LEMMA NearStep ==
  Ranges /\ PublishOK /\ ReadyOK /\ FoundOK /\ NearOK /\ [AudioNext]_audioVars => NearOK'
<1> SUFFICES ASSUME Ranges, PublishOK, ReadyOK, FoundOK, NearOK, [AudioNext]_audioVars,
                    NEW s \in (Ready \cup Found)', NEW t \in (Ready \cup Found)', s # t
             PROVE  Near(BlockOf(s), BlockOf(t))'
  BY DEF NearOK
<1>0. Found' \subseteq Found \cup Ready
  BY FoundStep
<1>1. CASE ~StoreReady
  <2>1. s \in Ready \cup Found /\ t \in Ready \cup Found
    BY <1>0, <1>1, ReadyStep
  <2>2. BlockOf(s)' = BlockOf(s) /\ BlockOf(t)' = BlockOf(t)
    BY <2>1, LiveBlocks
  <2>3. Near(BlockOf(s), BlockOf(t))
    BY <2>1 DEF NearOK
  <2> QED
    BY <2>2, <2>3 DEF Near
<1>2. CASE StoreReady
  <2>1. PICK k \in SlotIds : k = producer.slot
    BY <1>2, StoreReadySlots
  <2>2. Ready' = Ready \cup {k}
    BY <1>2, <2>1, StoreReadySlots
  <2>3. /\ Found \subseteq Ready
        /\ BlockOf(k).capture = capture /\ BlockOf(k).number = number
        /\ \A u \in Ready : /\ BlockOf(u).capture = capture
                            /\ BlockOf(u).number < number
                            /\ number - BlockOf(u).number < Half
    BY <1>2, <2>1, NewBlockIsLast
  <2>4. s \in Ready \cup {k} /\ t \in Ready \cup {k}
    BY <1>0, <2>2, <2>3
  <2>5. s \in SlotIds /\ t \in SlotIds
    BY <2>4 DEF Ready
  <2>6. BlockOf(s)' = BlockOf(s) /\ BlockOf(t)' = BlockOf(t)
    BY <1>2, <2>5, StoreReadySlots
  <2>7. Near(BlockOf(s), BlockOf(t))
    <3>1. CASE s \in Ready /\ t \in Ready
      BY <3>1 DEF NearOK
    <3>2. CASE s = k /\ t \in Ready
      BY <2>3, <2>5, <3>2, BlockTypes DEF Near
    <3>3. CASE t = k /\ s \in Ready
      <4>1. BlockOf(s).number \in Nat /\ number \in Nat /\ Half \in Nat
        BY <2>5, BlockTypes, HalfIsHalf
      <4>2. BlockOf(s).number < number
        BY <2>3, <3>3
      <4>3. BlockOf(s).number # number /\ BlockOf(s).number - number < Half
        BY <4>1, <4>2
      <4> QED
        BY <2>3, <3>3, <4>3 DEF Near
    <3> QED
      BY <2>4, <3>1, <3>2, <3>3
  <2> QED
    BY <2>6, <2>7 DEF Near
<1> QED
  BY <1>1, <1>2

\* The guard of Fill, for a slot in use and for the last block.
LEMMA AttentiveSlots ==
  ASSUME Fill
  PROVE  /\ \A s \in SlotIds :
              slots[s].state # "free" /\ BlockOf(s).capture = capture =>
                number + 1 - BlockOf(s).number < Half
         /\ last.capture = capture => number + 1 - last.number < Half
BY DEF Fill, Attentive, Half, BlockOf

LEMMA ReadyStays ==
  ASSUME Ranges, ResetOK, PublishOK, ReadyOK, FoundOK, [AudioNext]_audioVars
  PROVE  ReadyOK'
<1> SUFFICES ASSUME NEW s \in Ready'
             PROVE  /\ BlockOf(s)'.capture = OnPort' /\ BlockOf(s)'.capture > 0
                    /\ Recent(BlockOf(s))'
  BY DEF ReadyOK
<1>0. s \in SlotIds
  BY DEF Ready
<1>1. CASE s \in Ready
  <2>1. BlockOf(s)' = BlockOf(s)
    BY <1>1, LiveBlocks
  <2>2. OnPort' = OnPort
    BY CaptureStep
  <2>3. PICK b \in Blocks : b = BlockOf(s)
    BY <1>0, BlockTypes
  <2>4. b.capture = OnPort /\ b.capture > 0 /\ Recent(b)
    BY <1>1, <2>3 DEF ReadyOK
  <2>5. Fill => (b.capture = capture => number + 1 - b.number < Half)
    BY <1>0, <1>1, <2>3, AttentiveSlots DEF Ready
  <2>6. b.capture <= capture
    BY <2>4, CaptureStep
  <2>7. Recent(b)'
    BY <2>4, <2>5, <2>6, RecentStep
  <2>8. Recent(BlockOf(s))'
    BY <2>1, <2>3, <2>7 DEF Recent
  <2> QED
    BY <2>1, <2>2, <2>3, <2>4, <2>8
<1>2. CASE s \notin Ready
  <2>1. StoreReady /\ s = producer.slot
    BY <1>2, ReadyStep, StoreReadySlots
  <2>2. BlockOf(s)' = BlockOf(s)
    BY <1>0, <2>1, StoreReadySlots
  <2>3. BlockOf(s).capture = capture /\ capture > 0 /\ BlockOf(s).number = number
    BY <2>1, NewBlockIsLast
  <2>4. capture' = capture /\ number' = number
    BY <2>1 DEF StoreReady
  <2>5. producer'.at = "signal"
    BY <2>1, ProducerPath
  <2>6. OnPort' = capture
    BY <2>4, <2>5 DEF OnPort
  <2>7. number <= number /\ number - number < Half
    BY BlockTypes, HalfIsHalf
  <2>8. Recent(BlockOf(s))'
    BY <2>2, <2>3, <2>4, <2>5, <2>7 DEF Recent, Publishing
  <2> QED
    BY <2>2, <2>3, <2>6, <2>8
<1> QED
  BY <1>1, <1>2

-----------------------------------------------------------------------------
\* The comparison of the sequence numbers of two blocks that lie close together.
LEMMA OlderIsEarlier ==
  ASSUME NEW b \in Blocks, NEW c \in Blocks, Near(b, c), Near(c, b)
  PROVE  OlderThan(Sequence(b), Sequence(c)) <=> b.number < c.number
<1>1. PICK x \in Nat, y \in Nat : x = b.number /\ y = c.number
  BY DEF Blocks
<1>2. x # y /\ x - y < Half /\ y - x < Half
  BY <1>1 DEF Near
<1>3. SequenceLimit \in Nat /\ SequenceLimit > 0 /\ Half \in Nat /\ 2 * Half < SequenceLimit
  BY PositiveLimits, HalfIsHalf
<1>4. ((y % SequenceLimit) - (x % SequenceLimit)) % SequenceLimit < Half <=> x < y
  BY <1>2, <1>3, EarlierByRemainder
<1> QED
  BY <1>1, <1>4 DEF OlderThan, NotNewer, Sequence, Half

\* What the scan may know: a slot that is found, earlier than what is ready up to
\* some slot.
Oldest(k, j) ==
  /\ k \in Found /\ k <= j
  /\ \A t \in Ready : t <= j /\ t # k => BlockOf(t).number > BlockOf(k).number

ScanOK == Ranges /\ PublishOK /\ ReadyOK /\ NearOK /\ FoundOK
           /\ ScanKnows /\ ScanKnowsNone /\ ScanEnds

LEMMA ScanTypes ==
  ASSUME Ranges
  PROVE  /\ listener \in [at : ListenerSteps, slot : 0..SLOT_COUNT,
                          oldest : 0..SLOT_COUNT, sequence : 0..SequenceLimit - 1]
         /\ listener.at \in {"load", "peek", "take", "copy", "clear"} =>
              listener.slot \in SlotIds
         /\ listener.oldest # 0 => listener.oldest \in SlotIds
         /\ \A s \in SlotIds : s \in Nat /\ 1 <= s /\ s <= SLOT_COUNT
         /\ Ready \subseteq SlotIds /\ Found \subseteq SlotIds /\ Copied \subseteq SlotIds
<1>1. \A s \in SlotIds : s \in Nat /\ 1 <= s /\ s <= SLOT_COUNT
  BY PositiveLimits DEF SlotIds
<1>2. listener.oldest # 0 => listener.oldest \in SlotIds
  BY PositiveLimits DEF Ranges, SlotInv, ListenerOK, SlotIds
<1> QED
  BY <1>1, <1>2 DEF Ranges, SlotInv, ListenerOK, Ready, Found, Copied

\* A slot that is not ready is passed.
LEMMA LoadChoice ==
  ASSUME ScanOK, LoadState, slots[listener.slot].state # "ready"
  PROVE  /\ NextSlot(listener.oldest, listener.sequence)
         /\ listener.oldest # 0 =>
              /\ listener.sequence = Sequence(BlockOf(listener.oldest))
              /\ Oldest(listener.oldest, listener.slot)
<1>1. listener.at = "load" /\ NextSlot(listener.oldest, listener.sequence)
  BY DEF LoadState
<1>2. listener.slot \in SlotIds /\ listener.slot \notin Ready
  BY <1>1, ScanTypes DEF ScanOK, Ready
<1>3. ASSUME listener.oldest # 0
      PROVE  /\ listener.sequence = Sequence(BlockOf(listener.oldest))
             /\ Oldest(listener.oldest, listener.slot)
  <2>1. /\ listener.oldest \in SlotIds /\ listener.oldest \in Nat /\ listener.slot \in Nat
        /\ Ready \subseteq Nat
    BY <1>2, <1>3, ScanTypes DEF ScanOK
  <2>2. listener.oldest \in Found
    BY <1>1, <2>1 DEF Found
  <2>3. /\ listener.oldest < listener.slot
        /\ listener.sequence = Sequence(BlockOf(listener.oldest))
        /\ \A t \in Ready : t < listener.slot /\ t # listener.oldest =>
             BlockOf(t).number > BlockOf(listener.oldest).number
    BY <1>1, <1>3 DEF ScanOK, ScanKnows
  <2>4. \A t \in Ready : t <= listener.slot => t < listener.slot
    <3> SUFFICES ASSUME NEW t \in Ready, t <= listener.slot PROVE t < listener.slot
      OBVIOUS
    <3>1. t # listener.slot
      BY <1>2
    <3>2. t \in Nat /\ listener.slot \in Nat
      BY <2>1
    <3> QED
      BY <3>1, <3>2
  <2>5. listener.oldest <= listener.slot
    BY <2>1, <2>3
  <2> QED
    BY <2>2, <2>3, <2>4, <2>5 DEF Oldest
<1> QED
  BY <1>1, <1>3

\* The slot whose number is read replaces the oldest known if it is older.
LEMMA ReadChoice ==
  ASSUME ScanOK, ReadSequence
  PROVE  \E k \in SlotIds : /\ NextSlot(k, Sequence(BlockOf(k)))
                            /\ Oldest(k, listener.slot)
<1> DEFINE j == listener.slot
           o == listener.oldest
<1>1. listener.at = "peek" /\ j \in SlotIds /\ j \in Found
  BY ScanTypes DEF ScanOK, ReadSequence, Found
<1>2. /\ \A s \in SlotIds : /\ s \in Nat /\ BlockOf(s) \in Blocks
                            /\ BlockOf(s).number \in Nat
      /\ Ready \subseteq SlotIds /\ j \in Nat
  BY <1>1, ScanTypes, BlockTypes DEF ScanOK
<1>3. CASE o = 0
  <2>1. NextSlot(j, Sequence(BlockOf(j)))
    BY <1>3 DEF ReadSequence, BlockOf
  <2>2. \A t \in Ready : t < j => BlockOf(t).number > BlockOf(j).number
    <3> SUFFICES ASSUME NEW t \in Ready, t < j PROVE BlockOf(t).number > BlockOf(j).number
      OBVIOUS
    <3>1. \A s \in Ready \cup Found : s >= j => BlockOf(t).number > BlockOf(s).number
      BY <1>1, <1>3 DEF ScanOK, ScanKnowsNone
    <3>2. j >= j
      BY <1>2
    <3> QED
      BY <1>1, <3>1, <3>2
  <2>3. \A t \in Ready : t <= j /\ t # j => t < j
    BY <1>2
  <2>4. Oldest(j, j)
    BY <1>1, <1>2, <2>2, <2>3 DEF Oldest
  <2> QED
    BY <1>1, <2>1, <2>4
<1>4. CASE o # 0
  <2>1. o \in SlotIds /\ o \in Nat
    BY <1>2, <1>4, ScanTypes DEF ScanOK
  <2>2. o \in Found
    BY <1>1, <2>1 DEF Found
  <2>3. /\ o < j
        /\ listener.sequence = Sequence(BlockOf(o))
        /\ \A t \in Ready : t < j /\ t # o => BlockOf(t).number > BlockOf(o).number
    BY <1>1, <1>4 DEF ScanOK, ScanKnows
  <2>4. j # o
    BY <1>2, <2>1, <2>3
  <2>5. Near(BlockOf(j), BlockOf(o)) /\ Near(BlockOf(o), BlockOf(j))
    BY <1>1, <2>2, <2>4 DEF ScanOK, NearOK
  <2>6. OlderThan(Sequence(BlockOf(j)), Sequence(BlockOf(o)))
          <=> BlockOf(j).number < BlockOf(o).number
    BY <1>1, <1>2, <2>1, <2>5, OlderIsEarlier
  <2>7. BlockOf(j).number # BlockOf(o).number
    BY <2>5 DEF Near
  <2>8. CASE OlderThan(Sequence(BlockOf(j)), Sequence(BlockOf(o)))
    <3>1. NextSlot(j, Sequence(BlockOf(j)))
      BY <2>3, <2>8 DEF ReadSequence, BlockOf
    <3>2. \A t \in Ready : t <= j /\ t # j => BlockOf(t).number > BlockOf(j).number
      <4> SUFFICES ASSUME NEW t \in Ready, t <= j, t # j
                   PROVE  BlockOf(t).number > BlockOf(j).number
        OBVIOUS
      <4>1. t < j
        BY <1>2
      <4>2. t = o \/ BlockOf(t).number > BlockOf(o).number
        BY <2>3, <4>1
      <4>3. BlockOf(t).number \in Nat /\ BlockOf(j).number \in Nat
            /\ BlockOf(o).number \in Nat
        BY <1>1, <1>2, <2>1
      <4> QED
        BY <2>6, <2>8, <4>2, <4>3
    <3>3. Oldest(j, j)
      BY <1>1, <1>2, <3>2 DEF Oldest
    <3> QED
      BY <1>1, <3>1, <3>3
  <2>9. CASE ~OlderThan(Sequence(BlockOf(j)), Sequence(BlockOf(o)))
    <3>1. NextSlot(o, Sequence(BlockOf(o)))
      BY <1>4, <2>3, <2>9 DEF ReadSequence, BlockOf
    <3>2. \A t \in Ready : t <= j /\ t # o => BlockOf(t).number > BlockOf(o).number
      <4> SUFFICES ASSUME NEW t \in Ready, t <= j, t # o
                   PROVE  BlockOf(t).number > BlockOf(o).number
        OBVIOUS
      <4>1. t < j \/ t = j
        BY <1>2
      <4>2. BlockOf(j).number \in Nat /\ BlockOf(o).number \in Nat
        BY <1>1, <1>2, <2>1
      <4>3. BlockOf(j).number > BlockOf(o).number
        BY <2>6, <2>7, <2>9, <4>2
      <4> QED
        BY <2>3, <4>1, <4>3
    <3>3. o <= j
      BY <1>2, <2>1, <2>3
    <3>4. Oldest(o, j)
      BY <2>2, <3>2, <3>3 DEF Oldest
    <3> QED
      BY <2>1, <3>1, <3>4
  <2> QED
    BY <2>8, <2>9
<1> QED
  BY <1>3, <1>4

-----------------------------------------------------------------------------
\* Where the scan goes on: to the next slot, or to take the oldest, or to wait.
LEMMA NextSlotPath ==
  ASSUME Ranges, listener.slot \in SlotIds, NEW k \in SlotIds \cup {0}, NEW sequence,
         NextSlot(k, sequence)
  PROVE  \/ /\ listener'.at = "load" /\ listener'.slot = listener.slot + 1
            /\ listener'.oldest = k /\ listener'.sequence = sequence
         \/ listener'.at = "take" /\ listener'.slot = k /\ listener.slot = SLOT_COUNT
         \/ listener'.at = "wait"
<1>1. listener.slot < SLOT_COUNT \/ listener.slot = SLOT_COUNT
  BY ScanTypes, PositiveLimits
<1>2. CASE listener.slot < SLOT_COUNT
  BY <1>2 DEF NextSlot
<1>3. CASE listener.slot = SLOT_COUNT /\ k = 0
  <2>1. ~(listener.slot < SLOT_COUNT)
    BY <1>3, PositiveLimits
  <2> QED
    BY <1>3, <2>1 DEF NextSlot, ListenerRests
<1>4. CASE listener.slot = SLOT_COUNT /\ k # 0
  <2>1. ~(listener.slot < SLOT_COUNT)
    BY <1>4, PositiveLimits
  <2> QED
    BY <1>4, <2>1 DEF NextSlot, ListenerRests
<1> QED
  BY <1>1, <1>2, <1>3, <1>4

\* Other steps of core 0 are not part of a scan, or begin one.
LEMMA NoScan ==
  ASSUME Ranges, [AudioNext]_audioVars, ~LoadState, ~ReadSequence, listener' # listener
  PROVE  /\ listener'.at \notin {"peek", "take"}
         /\ listener'.at = "load" => listener'.oldest = 0 /\ listener'.slot = 1
<1>0. listener \in [at : ListenerSteps, slot : 0..SLOT_COUNT,
                    oldest : 0..SLOT_COUNT, sequence : 0..SequenceLimit - 1]
  BY ScanTypes
<1> USE <1>0 DEF ListenerGoes, ListenerRests
<1>1. CASE Acquire \/ AcquirePhase \/ Interrupted
  BY <1>1 DEF Acquire, AcquirePhase, Interrupted
<1>2. CASE BeginTake
  BY <1>2 DEF BeginTake, ScanFrom
<1>3. CASE TakeSlot
  BY <1>3 DEF TakeSlot
<1>4. CASE CopyBlock \/ LeaveEnds
  BY <1>4 DEF CopyBlock, LeaveEnds
<1>5. CASE Leave
  BY <1>5 DEF Leave
<1>6. CASE LeaveClears
  BY <1>6 DEF LeaveClears
<1>7. CASE Fill \/ PublishNext \/ Restart \/ UNCHANGED audioVars
  BY <1>7 DEF PublishNext, Fill, FetchPhase, StorePhase, Claim, Write, StoreReady, Raise,
              Restart, RestartClears, RestartEnds, audioVars
<1> QED
  BY <1>1, <1>2, <1>3, <1>4, <1>5, <1>6, <1>7 DEF AudioNext, TakeNext

\* A step that leaves the scan where it is makes at most one slot ready, whose
\* block is the latest.
LEMMA ReadyGrows ==
  ASSUME Ranges, PublishOK, ReadyOK, FoundOK, [AudioNext]_audioVars, NEW t \in Ready'
  PROVE  /\ t \in SlotIds /\ BlockOf(t)' = BlockOf(t)
         /\ t \notin Ready => /\ StoreReady /\ Found \subseteq Ready
                              /\ \A s \in Ready : BlockOf(t).number > BlockOf(s).number
<1>0. t \in SlotIds
  BY DEF Ready
<1>1. CASE t \in Ready
  BY <1>0, <1>1, LiveBlocks
<1>2. CASE t \notin Ready
  <2>1. StoreReady /\ t = producer.slot
    BY <1>2, ReadyStep, StoreReadySlots
  <2>2. BlockOf(t)' = BlockOf(t)
    BY <1>0, <2>1, StoreReadySlots
  <2>3. /\ Found \subseteq Ready /\ BlockOf(t).number = number
        /\ \A s \in Ready : BlockOf(s).number < number
    BY <2>1, NewBlockIsLast
  <2>4. number \in Nat /\ \A s \in Ready : BlockOf(s).number \in Nat
    BY BlockTypes, ScanTypes
  <2>5. \A s \in Ready : BlockOf(t).number > BlockOf(s).number
    BY <2>3, <2>4
  <2> QED
    BY <1>0, <2>1, <2>2, <2>3, <2>5
<1> QED
  BY <1>1, <1>2

\* What the scan knows after a slot.
LEMMA KnowsAfter ==
  ASSUME ScanOK, [AudioNext]_audioVars, LoadState \/ ReadSequence,
         NEW k \in SlotIds, NextSlot(k, Sequence(BlockOf(k))), Oldest(k, listener.slot)
  PROVE  ScanKnows' /\ ScanKnowsNone' /\ ScanEnds'
<1>1. Ready' = Ready /\ \A s \in SlotIds : BlockOf(s)' = BlockOf(s)
  BY AsideSlots DEF Aside
<1>2. Ranges /\ listener.slot \in SlotIds
  BY ScanTypes DEF ScanOK, LoadState, ReadSequence
<1>3. /\ \A s \in SlotIds : s \in Nat /\ 1 <= s /\ s <= SLOT_COUNT
      /\ Ready \subseteq SlotIds /\ k \in Nat /\ listener.slot \in Nat /\ k # 0
  BY <1>2, ScanTypes
<1>4. CASE listener'.at = "load" /\ listener'.slot = listener.slot + 1
           /\ listener'.oldest = k /\ listener'.sequence = Sequence(BlockOf(k))
  <2>1. k < listener.slot + 1
    BY <1>3 DEF Oldest
  <2>2. \A t \in Ready : t < listener.slot + 1 /\ t # k =>
          BlockOf(t).number > BlockOf(k).number
    <3>1. \A t \in Ready : t < listener.slot + 1 => t <= listener.slot
      BY <1>3
    <3> QED
      BY <3>1 DEF Oldest
  <2>3. BlockOf(listener.oldest)' = BlockOf(k)
    BY <1>1, <1>4 DEF BlockOf
  <2>4. ScanKnows'
    BY <1>1, <1>3, <1>4, <2>1, <2>2, <2>3 DEF ScanKnows, Sequence
  <2> QED
    BY <1>3, <1>4, <2>4 DEF ScanKnowsNone, ScanEnds
<1>5. CASE listener'.at = "take" /\ listener'.slot = k /\ listener.slot = SLOT_COUNT
  <2>1. \A t \in Ready : t # k => BlockOf(t).number > BlockOf(k).number
    BY <1>3, <1>5 DEF Oldest
  <2>2. BlockOf(listener.slot)' = BlockOf(k)
    BY <1>1, <1>5 DEF BlockOf
  <2>3. ScanEnds'
    BY <1>1, <1>3, <1>5, <2>1, <2>2 DEF ScanEnds
  <2> QED
    BY <1>5, <2>3 DEF ScanKnows, ScanKnowsNone
<1>6. CASE listener'.at = "wait"
  BY <1>6 DEF ScanKnows, ScanKnowsNone, ScanEnds
<1> QED
  BY <1>2, <1>4, <1>5, <1>6, NextSlotPath

-----------------------------------------------------------------------------
\* What the scan knows is not made false by anything that happens meanwhile.
LEMMA ScanStep ==
  ScanOK /\ [AudioNext]_audioVars => ScanKnows' /\ ScanKnowsNone' /\ ScanEnds'
<1> SUFFICES ASSUME ScanOK, [AudioNext]_audioVars
             PROVE  ScanKnows' /\ ScanKnowsNone' /\ ScanEnds'
  OBVIOUS
<1>0. Ranges /\ PublishOK /\ ReadyOK /\ FoundOK /\ NearOK
  BY DEF ScanOK
<1>1. CASE LoadState
  <2>1. CASE slots[listener.slot].state = "ready"
    <3>1. /\ listener.at = "load" /\ listener'.at = "peek" /\ listener'.slot = listener.slot
          /\ listener'.oldest = listener.oldest /\ listener'.sequence = listener.sequence
      BY <1>0, <1>1, <2>1, ScanTypes DEF LoadState, ListenerGoes
    <3>2. /\ Ready' = Ready /\ \A s \in SlotIds : BlockOf(s)' = BlockOf(s)
          /\ producer' = producer /\ overlap' = overlap
      BY <1>1, AsideSlots DEF Aside, LoadState
    <3>3. Found' \subseteq Found \cup Ready
      BY <1>0, FoundStep
    <3>4. ScanKnows'
      <4>1. listener.oldest # 0 => BlockOf(listener.oldest)' = BlockOf(listener.oldest)
        BY <1>0, <3>1, <3>2, ScanTypes DEF BlockOf
      <4> QED
        BY <1>0, <3>1, <3>2, <4>1, ScanTypes DEF ScanOK, ScanKnows, Sequence
    <3>5. ScanKnowsNone'
      BY <1>0, <3>1, <3>2, <3>3, ScanTypes DEF ScanOK, ScanKnowsNone
    <3> QED
      BY <3>1, <3>4, <3>5 DEF ScanEnds
  <2>2. CASE slots[listener.slot].state # "ready" /\ listener.oldest # 0
    <3>1. PICK k \in SlotIds : k = listener.oldest
      BY <1>0, <2>2, ScanTypes
    <3> QED
      BY <1>1, <2>2, <3>1, LoadChoice, KnowsAfter
  <2>3. CASE slots[listener.slot].state # "ready" /\ listener.oldest = 0
    <3>1. NextSlot(0, listener.sequence) /\ listener.slot \in SlotIds /\ listener.at = "load"
          /\ listener.slot \notin Ready
      BY <1>0, <1>1, <2>3, LoadChoice, ScanTypes DEF LoadState, Ready
    <3>2. \/ /\ listener'.at = "load" /\ listener'.slot = listener.slot + 1
             /\ listener'.oldest = 0
          \/ listener'.at = "take" /\ listener'.slot = 0
          \/ listener'.at = "wait"
      BY <1>0, <3>1, NextSlotPath
    <3>3. listener'.at # "take"
      <4>1. listener'.at = "take" => listener'.slot \in SlotIds
        BY <1>0, <1>1, <2>3, <3>1, NextSlotExists, PositiveLimits DEF NextSlot, ListenerRests
      <4> QED
        BY <3>2, <4>1 DEF SlotIds
    <3>4. CASE listener'.at = "load" /\ listener'.slot = listener.slot + 1
               /\ listener'.oldest = 0
      <4>1. /\ Ready' = Ready /\ \A s \in SlotIds : BlockOf(s)' = BlockOf(s)
            /\ producer' = producer /\ overlap' = overlap
        BY <1>1, AsideSlots DEF Aside, LoadState
      <4>2. Found' \subseteq Found \cup Ready
        BY <1>0, FoundStep
      <4>3. /\ \A t \in Ready : t \in Nat /\ t # listener.slot
            /\ \A t \in Ready \cup Found : t \in SlotIds /\ t \in Nat
            /\ listener.slot \in Nat
        BY <1>0, <3>1, ScanTypes
      <4>4. ASSUME NEW t \in Ready, t < listener.slot + 1
            PROVE  /\ overlap /\ producer.at \in {"signal", "fill"}
                   /\ \A s \in Ready \cup Found : s >= listener.slot + 1 =>
                        BlockOf(t).number > BlockOf(s).number
        <5>1. t < listener.slot
          BY <4>3, <4>4
        <5>2. \A s \in Ready \cup Found : s >= listener.slot + 1 => s >= listener.slot
          BY <4>3
        <5> QED
          BY <2>3, <3>1, <5>1, <5>2 DEF ScanOK, ScanKnowsNone
      <4>5. ScanKnowsNone'
        BY <3>4, <4>1, <4>2, <4>3, <4>4 DEF ScanKnowsNone
      <4> QED
        BY <3>4, <4>5 DEF ScanKnows, ScanEnds
    <3>5. CASE listener'.at = "wait"
      BY <3>5 DEF ScanKnows, ScanKnowsNone, ScanEnds
    <3> QED
      BY <3>2, <3>3, <3>4, <3>5
  <2> QED
    BY <2>1, <2>2, <2>3
<1>2. CASE ReadSequence
  BY <1>2, ReadChoice, KnowsAfter
<1>3. CASE listener' # listener /\ ~LoadState /\ ~ReadSequence
  <2>1. /\ listener'.at \notin {"peek", "take"}
        /\ listener'.at = "load" => listener'.oldest = 0 /\ listener'.slot = 1
    BY <1>0, <1>3, NoScan
  <2>2. \A t \in Ready' : ~(t < 1)
    BY PositiveLimits DEF Ready, SlotIds
  <2> QED
    BY <2>1, <2>2 DEF ScanKnows, ScanKnowsNone, ScanEnds
<1>4. CASE listener' = listener /\ ~LoadState /\ ~ReadSequence
  <2>1. Found' = Found
    BY <1>4 DEF Found
  <2>2. \A s \in Ready \cup Found : BlockOf(s)' = BlockOf(s)
    BY <1>0, LiveBlocks
  <2>3. \A t \in Ready' :
          /\ t \in SlotIds /\ BlockOf(t)' = BlockOf(t)
          /\ t \notin Ready => /\ StoreReady /\ Found \subseteq Ready
                               /\ \A s \in Ready : BlockOf(t).number > BlockOf(s).number
    BY <1>0, ReadyGrows
  <2>4. ScanKnows'
    <3> SUFFICES ASSUME listener.at \in {"load", "peek"}, listener.oldest # 0
                 PROVE  /\ listener.oldest < listener.slot
                        /\ listener.sequence = Sequence(BlockOf(listener.oldest))'
                        /\ \A t \in Ready' : t < listener.slot /\ t # listener.oldest =>
                             BlockOf(t)'.number > BlockOf(listener.oldest)'.number
      BY <1>4 DEF ScanKnows, BlockOf
    <3>1. listener.oldest \in Found
      BY <1>0, ScanTypes DEF Found
    <3>2. BlockOf(listener.oldest)' = BlockOf(listener.oldest)
      BY <1>4, <2>2, <3>1 DEF BlockOf
    <3> QED
      BY <2>2, <2>3, <3>1, <3>2 DEF ScanOK, ScanKnows, Sequence
  <2>5. ScanKnowsNone'
    <3> SUFFICES ASSUME listener.at \in {"load", "peek"}, listener.oldest = 0,
                        NEW t \in Ready', t < listener.slot
                 PROVE  /\ overlap' /\ producer'.at \in {"signal", "fill"}
                        /\ \A s \in (Ready \cup Found)' : s >= listener.slot =>
                             BlockOf(t)'.number > BlockOf(s)'.number
      BY <1>4 DEF ScanKnowsNone
    <3>1. Taking
      BY DEF Taking
    <3>2. CASE t \in Ready
      <4>1. /\ overlap /\ producer.at \in {"signal", "fill"}
            /\ \A s \in Ready \cup Found : s >= listener.slot =>
                 BlockOf(t).number > BlockOf(s).number
        BY <3>2 DEF ScanOK, ScanKnowsNone
      <4>2. ~StoreReady /\ ~Fill /\ ~Restart
        BY <1>0, <3>1, <4>1, ProducerPath DEF Fill, Restart, Paced
      <4>3. overlap' = overlap
        BY <1>0, <1>4, <3>1, <4>1, <4>2
           DEF AudioNext, PublishNext, TakeNext, FetchPhase, StorePhase, Claim, Write,
               Raise, RestartClears, RestartEnds, Acquire, AcquirePhase, BeginTake,
               TakeSlot, CopyBlock, Interrupted, Leave, LeaveClears, LeaveEnds, audioVars,
               Taking
      <4>4. producer' = producer \/ Raise
        <5>1. CASE Fill \/ PublishNext \/ Restart
          BY <1>0, <4>1, <4>2, <5>1, ProducerPath DEF PublishNext
        <5> QED
          BY <5>1, OfCore1
      <4>5. producer'.at \in {"signal", "fill"}
        BY <1>0, <4>1, <4>4, ProducerPath
      <4>6. (Ready \cup Found)' \subseteq Ready \cup Found
        BY <2>1, <4>2, <1>0, ReadyStep
      <4> QED
        BY <2>2, <3>2, <4>1, <4>3, <4>5, <4>6
    <3>3. CASE t \notin Ready
      <4>1. /\ StoreReady /\ Found \subseteq Ready
            /\ \A s \in Ready : BlockOf(t).number > BlockOf(s).number
        BY <2>3, <3>3
      <4>2. producer.at = "ready" /\ producer'.at = "signal"
        BY <1>0, <4>1, ProducerPath
      <4>3. overlap' = overlap /\ overlap
        BY <1>0, <3>1, <4>1, <4>2 DEF StoreReady, Ranges, SlotInv, Peeked
      <4>4. \A s \in Ready : ~(s < listener.slot)
        BY <4>2 DEF ScanOK, ScanKnowsNone
      <4>5. Ready' = Ready \cup {producer.slot} /\ t = producer.slot
        BY <1>0, <3>3, <4>1, StoreReadySlots
      <4>6. \A s \in (Ready \cup Found)' : s >= listener.slot => s \in Ready
        <5> SUFFICES ASSUME NEW s \in (Ready \cup Found)', s >= listener.slot PROVE s \in Ready
          OBVIOUS
        <5>1. s \in Ready \/ s = t
          BY <2>1, <4>1, <4>5
        <5>2. t \in Nat /\ listener.slot \in Nat
          BY <1>0, <2>3, ScanTypes
        <5>3. s # t
          BY <5>2
        <5> QED
          BY <5>1, <5>3
      <4> QED
        BY <2>2, <2>3, <4>1, <4>2, <4>3, <4>6
    <3> QED
      BY <3>2, <3>3
  <2>6. ScanEnds'
    <3> SUFFICES ASSUME listener.at = "take", NEW t \in Ready', t # listener.slot
                 PROVE  BlockOf(t)'.number > BlockOf(listener.slot)'.number
      BY <1>4 DEF ScanEnds, BlockOf
    <3>1. listener.slot \in Found
      BY <1>0, ScanTypes DEF Found
    <3>2. BlockOf(listener.slot)' = BlockOf(listener.slot)
      BY <1>4, <2>2, <3>1 DEF BlockOf
    <3> QED
      BY <2>2, <2>3, <3>1, <3>2 DEF ScanOK, ScanEnds
  <2> QED
    BY <2>4, <2>5, <2>6
<1> QED
  BY <1>1, <1>2, <1>3, <1>4

-----------------------------------------------------------------------------
\* A block that is published comes after each one that is recent.
LEMMA NewBlockIsAfter ==
  ASSUME Ranges, PublishOK, ReadyOK, FoundOK, StoreReady,
         NEW b \in Blocks, Recent(b), b.capture <= capture
  PROVE  After(BlockOf(producer.slot), b)
<1>1. BlockOf(producer.slot).capture = capture /\ BlockOf(producer.slot).number = number
  BY NewBlockIsLast
<1>2. producer.at \in Publishing
  BY ProducerPath DEF Publishing
<1>3. b.capture \in Nat /\ b.number \in Nat /\ capture \in Nat /\ number \in Nat
  BY BlockTypes DEF Blocks
<1>4. b.capture = capture => b.number < number /\ number - b.number < Half
  BY <1>2 DEF Recent
<1> QED
  BY <1>1, <1>3, <1>4 DEF After, Later

\* If a block comes before what is ready it still does after a step.
LEMMA AfterStays ==
  ASSUME Ranges, PublishOK, ReadyOK, FoundOK, [AudioNext]_audioVars,
         NEW b \in Blocks, Recent(b), b.capture <= capture,
         \A t \in Ready : After(BlockOf(t), b),
         NEW t \in Ready'
  PROVE  After(BlockOf(t)', b)
<1>1. t \in SlotIds /\ BlockOf(t)' = BlockOf(t) /\ (t \notin Ready => StoreReady)
  BY ReadyGrows
<1>2. CASE t \in Ready
  BY <1>1, <1>2
<1>3. CASE t \notin Ready
  <2>1. t = producer.slot /\ StoreReady
    BY <1>1, <1>3, StoreReadySlots
  <2> QED
    BY <1>1, <2>1, NewBlockIsAfter
<1> QED
  BY <1>2, <1>3

\* The order of the last block, the one that is copied and those that are ready.
LEMMA CopyStep ==
  ScanOK /\ Ranges' /\ ResetOK /\ CopyOK /\ LastOK /\ [AudioNext]_audioVars => CopyOK'
<1> SUFFICES ASSUME ScanOK, Ranges', ResetOK, CopyOK, LastOK, [AudioNext]_audioVars, NEW s \in Copied'
             PROVE  /\ BlockOf(s)'.capture <= OnPort'
                    /\ BlockOf(s)'.capture > 0
                    /\ Recent(BlockOf(s))'
                    /\ After(BlockOf(s), last)'
                    /\ \A t \in Ready' : After(BlockOf(t), BlockOf(s))'
  BY DEF CopyOK
<1>0. Ranges /\ PublishOK /\ ReadyOK /\ FoundOK /\ NearOK /\ s \in SlotIds
  BY DEF ScanOK, Copied
<1>1. s \in Copied \/ (TakeSlot /\ s \in Ready \cap Found)
  <2>1. CASE TakeSlot
    BY <1>0, <2>1, FoundStep
  <2>2. CASE ~TakeSlot
    BY <1>0, <2>2, FoundStep
  <2> QED
    BY <2>1, <2>2
<1>2. BlockOf(s)' = BlockOf(s)
  BY <1>0, <1>1, LiveBlocks
<1>3. PICK b \in Blocks : b = BlockOf(s)
  BY <1>0, BlockTypes
<1>4. last' = last
  <2>1. ~CopyBlock /\ ~Acquire
    BY <1>0, ScanTypes DEF CopyBlock, Acquire, Copied, ListenerGoes, ListenerRests
  <2> QED
    BY <2>1
       DEF AudioNext, PublishNext, TakeNext, Fill, FetchPhase, StorePhase, Claim, Write,
           StoreReady, Raise, Restart, RestartClears, RestartEnds, AcquirePhase, BeginTake,
           LoadState, ReadSequence, TakeSlot, Interrupted, Leave, LeaveClears, LeaveEnds,
           audioVars
<1>5. /\ b.capture <= OnPort /\ b.capture > 0 /\ Recent(b) /\ After(b, last)
      /\ \A t \in Ready : t # s => After(BlockOf(t), b)
  <2>1. CASE s \in Copied
    BY <1>3, <2>1 DEF CopyOK
  <2>2. CASE TakeSlot /\ s \in Ready \cap Found
    <3>1. b.capture = OnPort /\ b.capture > 0 /\ Recent(b) /\ After(b, last) /\ b.capture \in Nat
      BY <1>0, <1>3, <2>2, BlockTypes DEF ReadyOK, LastOK
    <3>2. ASSUME NEW t \in Ready, t # s PROVE After(BlockOf(t), b)
      <4>1. listener.at = "take" /\ s = listener.slot
        BY <2>2 DEF TakeSlot, Found
      <4>2. BlockOf(t).number > b.number
        BY <1>3, <3>2, <4>1 DEF ScanOK, ScanEnds
      <4>3. Near(BlockOf(t), b)
        BY <1>0, <1>3, <2>2, <3>2 DEF NearOK
      <4> QED
        BY <4>2, <4>3 DEF After, Later, Near
    <3> QED
      BY <3>1, <3>2
  <2> QED
    BY <1>1, <2>1, <2>2
<1>6. s \notin Ready'
  BY DEF Ranges, SlotInv, Marked, Copied, Ready
<1>7. b.capture <= OnPort' /\ b.capture <= capture
  <2>1. b.capture \in Nat /\ capture \in Nat
    BY <1>0, BlockTypes DEF Blocks
  <2>2. /\ OnPort \in Nat /\ OnPort' \in Nat
        /\ OnPort <= OnPort' /\ OnPort <= capture
    BY <1>0, CaptureStep
  <2> QED
    BY <1>5, <2>1, <2>2
<1>8. Recent(BlockOf(s))'
  <2>1. slots[s].state # "free"
    BY <1>0, <1>1 DEF Ranges, SlotInv, Marked, Copied, Ready
  <2>2. Fill => (b.capture = capture => number + 1 - b.number < Half)
    BY <1>0, <1>3, <2>1, AttentiveSlots
  <2>3. Recent(b)'
    BY <1>0, <1>5, <1>7, <2>2, RecentStep
  <2> QED
    BY <1>2, <1>3, <2>3 DEF Recent
<1>9. After(BlockOf(s), last)'
  BY <1>2, <1>3, <1>4, <1>5 DEF After, Later
<1>10. ASSUME NEW t \in Ready' PROVE After(BlockOf(t), BlockOf(s))'
  <2>1. t # s /\ t \in SlotIds
    BY <1>6, <1>10 DEF Ready
  <2>2. CASE t \in Ready
    <3>1. BlockOf(t)' = BlockOf(t)
      BY <1>0, <2>2, LiveBlocks
    <3>2. After(BlockOf(t), b)
      BY <1>5, <2>1, <2>2
    <3> QED
      BY <1>2, <1>3, <3>1, <3>2 DEF After, Later
  <2>3. CASE t \notin Ready
    <3>1. StoreReady /\ t = producer.slot
      BY <1>0, <2>3, ReadyStep, StoreReadySlots
    <3>2. After(BlockOf(t), b)
      BY <1>0, <1>5, <1>7, <3>1, NewBlockIsAfter
    <3>3. BlockOf(t)' = BlockOf(t)
      BY <1>0, <2>1, <3>1, StoreReadySlots
    <3> QED
      BY <1>2, <1>3, <3>2, <3>3 DEF After, Later
  <2> QED
    BY <2>2, <2>3
<1> QED
  BY <1>2, <1>3, <1>5, <1>7, <1>8, <1>9, <1>10

-----------------------------------------------------------------------------
\* Nothing is captured before the first device.
LEMMA UnstartedStep == Ranges /\ Unstarted /\ [AudioNext]_audioVars => Unstarted'
<1> SUFFICES ASSUME Ranges, Unstarted, [AudioNext]_audioVars PROVE Unstarted'
  OBVIOUS
<1>0. capture \in Nat
  BY BlockTypes
<1> USE DEF Unstarted
<1>1. CASE Fill
  BY <1>1 DEF Fill
<1>2. CASE Restart
  BY <1>0, <1>2 DEF Restart
<1>3. CASE PublishNext
  BY <1>3 DEF PublishNext, FetchPhase, StorePhase, Claim, Write, StoreReady, Raise,
              RestartClears, RestartEnds
<1>4. CASE capture' = capture /\ number' = number
  BY <1>4
<1> QED
  BY <1>1, <1>2, <1>3, <1>4, OfCore1

\* The steps that change the last block.
LEMMA LastChanges ==
  ASSUME Ranges, [AudioNext]_audioVars
  PROVE  /\ \/ last' = last
            \/ Acquire /\ last' = NoBlock
            \/ CopyBlock /\ last' = BlockOf(listener.slot)
         /\ listener'.at = "acquire" => Acquire \/ listener' = listener
<1>0. listener \in [at : ListenerSteps, slot : 0..SLOT_COUNT,
                    oldest : 0..SLOT_COUNT, sequence : 0..SequenceLimit - 1]
  BY ScanTypes
<1>1. \/ last' = last
      \/ Acquire /\ last' = NoBlock
      \/ CopyBlock /\ last' = BlockOf(listener.slot)
  <2>1. CASE Acquire
    BY <2>1 DEF Acquire
  <2>2. CASE CopyBlock
    BY <2>2 DEF CopyBlock, BlockOf
  <2>3. CASE ~Acquire /\ ~CopyBlock
    <3>1. last' = last
      BY <2>3
         DEF AudioNext, PublishNext, TakeNext, Fill, FetchPhase, StorePhase, Claim, Write,
             StoreReady, Raise, Restart, RestartClears, RestartEnds, AcquirePhase,
             BeginTake, LoadState, ReadSequence, TakeSlot, Interrupted, Leave,
             LeaveClears, LeaveEnds, audioVars
    <3> QED
      BY <3>1
  <2> QED
    BY <2>1, <2>2, <2>3
<1>2. ASSUME listener'.at = "acquire", ~Acquire PROVE listener' = listener
  <2> USE <1>0, <1>2 DEF ListenerGoes, ListenerRests
  <2>1. CASE AcquirePhase \/ Interrupted
    BY <2>1 DEF AcquirePhase, Interrupted
  <2>2. CASE BeginTake
    BY <2>2 DEF BeginTake, ScanFrom
  <2>3. CASE LoadState \/ ReadSequence
    <3>1. /\ \A k, q : NextSlot(k, q) => listener'.at \in {"load", "wait", "take"}
          /\ ListenerGoes("peek") => listener'.at = "peek"
      BY DEF NextSlot
    <3> QED
      BY <2>3, <3>1 DEF LoadState, ReadSequence
  <2>4. CASE TakeSlot
    BY <2>4 DEF TakeSlot
  <2>5. CASE CopyBlock \/ LeaveEnds
    BY <2>5 DEF CopyBlock, LeaveEnds
  <2>6. CASE Leave
    BY <2>6 DEF Leave
  <2>7. CASE LeaveClears
    BY <2>7 DEF LeaveClears
  <2>8. CASE Fill \/ PublishNext \/ Restart \/ UNCHANGED audioVars
    BY <2>8 DEF PublishNext, Fill, FetchPhase, StorePhase, Claim, Write, StoreReady, Raise,
                Restart, RestartClears, RestartEnds, audioVars
  <2> QED
    BY <1>2, <2>1, <2>2, <2>3, <2>4, <2>5, <2>6, <2>7, <2>8 DEF AudioNext, TakeNext
<1> QED
  BY <1>1, <1>2

LEMMA LastStep ==
  ScanOK /\ Ranges' /\ Unstarted' /\ PublishOK' /\ ReadyOK' /\ ResetOK /\ CopyOK /\ LastOK
    /\ [AudioNext]_audioVars => LastOK'
<1> SUFFICES ASSUME ScanOK, Ranges', Unstarted', PublishOK', ReadyOK', ResetOK, CopyOK,
                    LastOK, [AudioNext]_audioVars
             PROVE  LastOK'
  OBVIOUS
<1>0. Ranges /\ PublishOK /\ ReadyOK /\ FoundOK
  BY DEF ScanOK
<1>1. /\ OnPort \in Nat /\ OnPort' \in Nat
      /\ OnPort <= OnPort' /\ OnPort <= capture
      /\ capture \in Nat /\ number' \in Nat
  BY <1>0, CaptureStep, BlockTypes DEF Ranges, CountersOK
<1>2. ASSUME NEW b \in Blocks, b.capture <= OnPort, Recent(b),
             \A t \in Ready : After(BlockOf(t), b),
             Fill => (b.capture = capture => number + 1 - b.number < Half),
             last' = b
      PROVE  last'.capture <= OnPort' /\ Recent(last)' /\ \A t \in Ready' : After(BlockOf(t), last)'
  <2>1. b.capture \in Nat
    BY DEF Blocks
  <2>2. b.capture <= capture /\ b.capture <= OnPort'
    BY <1>1, <1>2, <2>1
  <2>3. Recent(b)'
    BY <1>0, <1>2, <2>2, RecentStep
  <2>4. \A t \in Ready' : After(BlockOf(t)', b)
    BY <1>0, <1>2, <2>2, AfterStays
  <2> QED
    BY <1>2, <2>2, <2>3, <2>4 DEF Recent, After, Later
<1>3. CASE last' = last
  <2>1. PICK b \in Blocks : b = last
    BY <1>0, BlockTypes
  <2>2. Fill => (b.capture = capture => number + 1 - b.number < Half)
    BY <2>1, AttentiveSlots
  <2>3. last'.capture <= OnPort' /\ Recent(last)' /\ \A t \in Ready' : After(BlockOf(t), last)'
    BY <1>2, <1>3, <2>1, <2>2 DEF LastOK
  <2>4. listener'.at = "acquire" => last' = NoBlock
    BY <1>0, <1>3, LastChanges DEF LastOK, Acquire
  <2> QED
    BY <2>3, <2>4 DEF LastOK
<1>4. CASE Acquire /\ last' = NoBlock
  <2>1. last'.capture = 0 /\ last'.number = 0
    BY <1>4 DEF NoBlock
  <2>2. last'.capture <= OnPort'
    BY <1>1, <2>1
  <2>3. capture' = 0 => number' = 0 /\ producer'.at \notin Publishing
    <3>1. PublishOK' => (producer'.at \in Publishing => capture' > 0)
      BY DEF PublishOK
    <3> QED
      BY <3>1 DEF Unstarted
  <2>4. Recent(last)'
    BY <2>1, <2>3, HalfIsHalf DEF Recent
  <2>5. ASSUME NEW t \in Ready' PROVE After(BlockOf(t), last)'
    <3>1. BlockOf(t)'.capture > 0
      BY DEF ReadyOK
    <3> QED
      BY <2>1, <3>1 DEF After, Later
  <2> QED
    BY <1>4, <2>2, <2>4, <2>5 DEF LastOK
<1>5. CASE CopyBlock /\ last' = BlockOf(listener.slot)
  <2>1. PICK s \in SlotIds : s = listener.slot
    BY <1>0, <1>5, CopySlots
  <2>2. s \in Copied
    BY <1>5, <2>1 DEF Copied, CopyBlock
  <2>3. PICK b \in Blocks : b = BlockOf(s)
    BY <1>0, BlockTypes
  <2>4. ~Fill
    BY <1>5 DEF Fill, CopyBlock, ListenerRests
  <2>5. last'.capture <= OnPort' /\ Recent(last)' /\ \A t \in Ready' : After(BlockOf(t), last)'
    BY <1>2, <1>5, <2>1, <2>2, <2>3, <2>4 DEF CopyOK
  <2>6. listener'.at # "acquire"
    BY <1>5 DEF CopyBlock, ListenerRests
  <2> QED
    BY <2>5, <2>6 DEF LastOK
<1> QED
  BY <1>0, <1>3, <1>4, <1>5, LastChanges

\* While a block of a device that is gone is copied, the next one waits.
LEMMA CopyOfPastStep ==
  ScanOK /\ Owned /\ ResetOK /\ ResetOK' /\ CopyOK /\ CopyOfPast /\ [AudioNext]_audioVars
    => CopyOfPast'
<1> SUFFICES ASSUME ScanOK, Owned, ResetOK, ResetOK', CopyOK, CopyOfPast,
                    [AudioNext]_audioVars,
                    NEW s \in Copied', BlockOf(s)'.capture < capture'
             PROVE  /\ overlap' /\ producer'.at \in Restarting
                    /\ number' = 0 /\ SNAPSHOT_PHASE' = 0
                    /\ producer'.at # "clear" => Ready' = {}
  BY DEF CopyOfPast
<1>0. Ranges /\ PublishOK /\ ReadyOK /\ FoundOK /\ NearOK /\ s \in SlotIds
  BY DEF ScanOK, Copied
<1>1. s \in Copied \/ (TakeSlot /\ s \in Ready \cap Found)
  <2>1. CASE TakeSlot
    BY <1>0, <2>1, FoundStep
  <2>2. CASE ~TakeSlot
    BY <1>0, <2>2, FoundStep
  <2> QED
    BY <2>1, <2>2
<1>2. BlockOf(s)' = BlockOf(s)
  BY <1>0, <1>1, LiveBlocks
<1>3. Taking
  BY <1>1 DEF Copied, TakeSlot, Taking
<1>4. CASE s \in Copied /\ BlockOf(s).capture < capture
  <2>1. /\ overlap /\ producer.at \in Restarting /\ number = 0 /\ SNAPSHOT_PHASE = 0
        /\ producer.at # "clear" => Ready = {}
    BY <1>4 DEF CopyOfPast
  <2>2. ~Fill /\ ~Restart
    BY <1>3, <2>1 DEF Fill, Restart, Paced
  <2>3. CASE RestartClears
    <3>1. producer.at = "clear" /\ producer'.at \in {"clear", "unsignal"}
      BY <1>0, <2>3, ProducerPath
    <3>2. overlap' = overlap /\ capture' = capture
      BY <2>3 DEF RestartClears
    <3>3. producer'.at # "clear" => OnPort' = capture /\ OnPort = capture - 1
      BY <3>1, <3>2 DEF OnPort
    <3>4. producer'.at # "clear" => OnPort' # OnPort
      BY <1>0, <3>3, BlockTypes
    <3>5. producer'.at # "clear" => Ready' = {}
      BY <1>0, <3>4, CaptureStep
    <3> QED
      BY <2>1, <2>3, <3>1, <3>2, <3>5 DEF RestartClears, Restarting
  <2>4. CASE RestartEnds
    <3>1. producer.at = "unsignal" /\ producer'.at = "fill"
      BY <1>0, <2>4, ProducerPath
    <3>2. Ready' = Ready
      BY <2>4, AsideSlots DEF Aside
    <3> QED
      BY <2>1, <2>4, <3>1, <3>2 DEF RestartEnds, Restarting
  <2>5. CASE producer' = producer /\ capture' = capture /\ number' = number
    <3>1. ~StoreReady
      BY <1>0, <2>1, ProducerPath DEF Restarting
    <3>2. Ready' \subseteq Ready
      BY <1>0, <3>1, ReadyStep
    <3>3. overlap' = overlap /\ SNAPSHOT_PHASE' = SNAPSHOT_PHASE
      BY <1>0, <1>4, <2>1, <2>2, ProducerPath
         DEF AudioNext, PublishNext, TakeNext, FetchPhase, StorePhase, Claim, Write,
             StoreReady, Raise, RestartClears, RestartEnds, Acquire, AcquirePhase,
             BeginTake, LoadState, ReadSequence, TakeSlot, CopyBlock, Interrupted, Leave,
             LeaveClears, LeaveEnds, audioVars, Copied, Restarting
    <3> QED
      BY <2>1, <2>5, <3>2, <3>3
  <2>6. ~FetchPhase /\ ~StorePhase /\ ~Claim /\ ~Write /\ ~StoreReady /\ ~Raise
    BY <1>0, <2>1, ProducerPath DEF Restarting
  <2> QED
    BY <2>2, <2>3, <2>4, <2>5, <2>6, OfCore1 DEF PublishNext
<1>5. CASE s \in Copied /\ ~(BlockOf(s).capture < capture)
  <2>1. BlockOf(s).capture \in Nat /\ capture \in Nat
    BY <1>0, BlockTypes
  <2>2. capture' # capture
    BY <1>2, <1>5, <2>1
  <2>3. Restart
    BY <2>2, OfCore1
       DEF Fill, PublishNext, FetchPhase, StorePhase, Claim, Write, StoreReady, Raise,
           RestartClears, RestartEnds
  <2>4. producer'.at = "clear"
    BY <1>0, <2>3, ProducerPath
  <2>5. overlap'
    BY <1>3, <2>3 DEF Restart
  <2> QED
    BY <2>3, <2>4, <2>5 DEF Restart, Restarting
<1>6. CASE TakeSlot /\ s \in Ready \cap Found
  <2>1. /\ capture' = capture /\ number' = number /\ producer' = producer
        /\ overlap' = overlap /\ SNAPSHOT_PHASE' = SNAPSHOT_PHASE
    BY <1>6 DEF TakeSlot
  <2>2. BlockOf(s).capture = OnPort
    BY <1>0, <1>6 DEF ReadyOK
  <2>3. producer.at = "clear"
    BY <1>0, <1>2, <2>1, <2>2, BlockTypes DEF OnPort
  <2>4. overlap
    BY <1>0, <1>3, <2>3 DEF Ranges, SlotInv, Peeked
  <2> QED
    BY <2>1, <2>3, <2>4 DEF ResetOK, Restarting
<1> QED
  BY <1>1, <1>4, <1>5, <1>6

-----------------------------------------------------------------------------
\* Who is served is connected.
LEMMA ConnectedStep == Ranges /\ Connected /\ [AudioNext]_audioVars => Connected'
<1> SUFFICES ASSUME Ranges, Connected, [AudioNext]_audioVars PROVE Connected'
  OBVIOUS
<1>0. listener \in [at : ListenerSteps, slot : 0..SLOT_COUNT,
                    oldest : 0..SLOT_COUNT, sequence : 0..SequenceLimit - 1]
  BY ScanTypes
<1> USE <1>0 DEF Connected, ListenerGoes, ListenerRests
<1>1. CASE Acquire
  BY <1>1 DEF Acquire
<1>2. CASE Leave
  BY <1>2 DEF Leave
<1>3. CASE LeaveClears
  BY <1>3 DEF LeaveClears
<1>4. CASE LeaveEnds
  BY <1>4 DEF LeaveEnds
<1>5. CASE Fill \/ PublishNext \/ Restart \/ UNCHANGED audioVars
  BY <1>5 DEF PublishNext, Fill, FetchPhase, StorePhase, Claim, Write, StoreReady, Raise,
              Restart, RestartClears, RestartEnds, audioVars
<1>6. CASE AcquirePhase \/ TakeNext \/ Interrupted
  BY <1>6 DEF AcquirePhase, Interrupted, TakeNext, BeginTake, LoadState, ReadSequence,
              TakeSlot, CopyBlock
<1> QED
  BY <1>1, <1>2, <1>3, <1>4, <1>5, <1>6 DEF AudioNext

\* A block that is ready or copied stays so until it is delivered or thrown away.
LEMMA LiveSlots ==
  ASSUME Ranges, [AudioNext]_audioVars, ~RestartClears, ~LeaveClears, ~CopyBlock
  PROVE  /\ Ready \cup Copied \subseteq Ready' \cup Copied'
         /\ ~StoreReady => Ready' \cup Copied' = Ready \cup Copied
<1>0. /\ listener \in [at : ListenerSteps, slot : 0..SLOT_COUNT,
                       oldest : 0..SLOT_COUNT, sequence : 0..SequenceLimit - 1]
      /\ slots \in Slots
  BY ScanTypes DEF Ranges, SlotInv, SlotsOK
<1>1. CASE TakeSlot
  <2>1. PICK k \in SlotIds : k = listener.slot
    BY <1>1, TakeSlots
  <2>2. Copied = {} /\ Ready' = Ready \ {k}
    BY <1>1, <2>1, TakeSlots DEF Copied, TakeSlot
  <2>3. CASE k \in Ready
    <3>1. listener'.at = "copy" /\ listener'.slot = k
      BY <1>0, <1>1, <2>1, <2>3 DEF TakeSlot, ListenerGoes, Ready
    <3>2. Copied' = {k}
      BY <3>1 DEF Copied
    <3> QED
      BY <2>2, <2>3, <3>2
  <2>4. CASE k \notin Ready
    <3>1. listener'.at = "wait"
      BY <1>0, <1>1, <2>1, <2>4 DEF TakeSlot, ListenerRests, Ready
    <3>2. Copied' = {}
      BY <3>1 DEF Copied
    <3> QED
      BY <2>2, <2>4, <3>2
  <2> QED
    BY <2>3, <2>4
<1>2. CASE ~TakeSlot
  <2>1. Copied' \subseteq Copied
    BY <1>2, FoundStep
  <2>2. listener.at = "copy" => listener' = listener
    BY <1>2
       DEF AudioNext, PublishNext, TakeNext, Fill, FetchPhase, StorePhase, Claim, Write,
           StoreReady, Raise, Restart, RestartEnds, Acquire, AcquirePhase,
           BeginTake, LoadState, ReadSequence, Interrupted, Leave, LeaveEnds, audioVars
  <2>3. Copied' = Copied
    BY <2>1, <2>2 DEF Copied
  <2>4. CASE StoreReady
    BY <2>3, <2>4, StoreReadySlots
  <2>5. CASE ~StoreReady
    <3>1. Ready' = Ready
      BY <1>2, <2>5, StepCases, AsideSlots, ClaimSlots, WriteSlots
    <3> QED
      BY <2>3, <3>1
  <2> QED
    BY <2>4, <2>5
<1> QED
  BY <1>1, <1>2

\* The slot core 1 claims for the first block of a device is free.
LEMMA FirstClaim ==
  ASSUME Ranges, Owned, ReadyOK, CopyOK, CopyOfPast, CurrentBlocks = {}, Claim
  PROVE  slots[producer.slot].state = "free"
<1>1. producer.at = "claim" /\ producer.slot \in SlotIds
  BY DEF Claim, Ranges, SlotInv, ProducerOK
<1>2. slots[producer.slot].state \in SlotStates
  BY <1>1 DEF Ranges, SlotInv, SlotsOK, Slots
<1>3. slots[producer.slot].state # "writing"
  BY <1>1 DEF Owned
<1>4. producer.slot \notin Ready
  BY <1>1 DEF ReadyOK, CurrentBlocks, OnPort
<1>5. producer.slot \notin Copied
  <2> SUFFICES ASSUME NEW s \in Copied PROVE FALSE
    OBVIOUS
  <2>1. s \in SlotIds /\ BlockOf(s).capture # capture
    BY DEF CurrentBlocks, Copied
  <2>2. BlockOf(s).capture <= capture
    BY <1>1 DEF CopyOK, OnPort
  <2>3. BlockOf(s).capture < capture
    BY <2>1, <2>2, BlockTypes
  <2>4. producer.at \in Restarting
    BY <2>3 DEF CopyOfPast
  <2> QED
    BY <1>1, <2>4 DEF Restarting
<1> QED
  BY <1>1, <1>2, <1>3, <1>4, <1>5 DEF Owned, Ready, SlotStates

\* The start of a snapshot keeps coming until it is there.
LEMMA StartStep ==
  ASSUME Ranges, Owned, ReadyOK, CopyOK, CopyOfPast, [AudioNext]_audioVars,
         CurrentBlocks = {}, StartComes, Attending, Connected, producer.at # "clear",
         ~StoreReady, ~Restart, listener.at # "acquire"
  PROVE  StartComes'
<1>0. producer \in [at : ProducerSteps, slot : 0..SLOT_COUNT, phase : Nat]
  BY DEF Ranges, SlotInv, ProducerOK
<1> USE <1>0 DEF StartComes
<1>1. CASE Fill
  BY <1>1, ProducerPath DEF Fill
<1>2. CASE FetchPhase
  <2>1. producer.at = "phase" /\ producer'.at = "store" /\ producer'.phase = SNAPSHOT_PHASE
    BY <1>2 DEF FetchPhase
  <2> QED
    BY <2>1
<1>3. CASE StorePhase
  <2>1. producer.phase = 0 /\ ~(producer.phase >= SNAPSHOT_BLOCKS)
    BY <1>3, PositiveLimits DEF StorePhase
  <2>2. producer'.at = "claim" /\ producer'.phase = 0
    BY <1>3, <2>1 DEF StorePhase
  <2> QED
    BY <2>2
<1>4. CASE Claim
  <2>1. producer'.at = "write" /\ producer'.phase = 0
    BY <1>4, FirstClaim DEF Claim
  <2> QED
    BY <2>1
<1>5. CASE Write
  <2>1. PICK k \in SlotIds : k = producer.slot
    BY <1>5, WriteSlots
  <2>2. BlockOf(k)' = [capture |-> capture, number |-> number, start |-> producer.phase = 0]
    BY <1>5, <2>1, WriteSlots
  <2>3. producer'.slot = k /\ producer.at = "write" /\ producer'.at = "ready"
    BY <1>5, <2>1, ProducerPath DEF Write, ProducerGoes
  <2>4. BlockOf(producer.slot)' = BlockOf(k)'
    BY <2>3 DEF BlockOf
  <2>5. producer.phase = 0
    BY <2>3
  <2>6. BlockOf(k)'.start
    <3> DEFINE b == [capture |-> capture, number |-> number, start |-> producer.phase = 0]
    <3>1. b.start
      BY <2>5, Zenon
    <3>2. BlockOf(k)' = b
      BY <2>2
    <3> HIDE DEF b
    <3> QED
      BY <3>1, <3>2, Zenon
  <2>7. BlockOf(producer.slot)'.start
    BY <2>4, <2>6, Zenon
  <2> QED
    BY <2>3, <2>7
<1>6. CASE Raise
  BY <1>6 DEF Raise
<1>7. CASE RestartClears
  BY <1>7 DEF RestartClears
<1>8. CASE RestartEnds
  BY <1>8, ProducerPath DEF RestartEnds
<1>9. CASE producer' = producer /\ capture' = capture /\ number' = number
  <2>1. ~Write /\ ~FetchPhase /\ ~StorePhase
    BY <1>9, ProducerPath
  <2>2. SNAPSHOT_PHASE' = SNAPSHOT_PHASE
    BY <1>9, <2>1
       DEF AudioNext, PublishNext, TakeNext, Fill, Claim, StoreReady, Raise,
           RestartClears, RestartEnds, Acquire, AcquirePhase, BeginTake, LoadState,
           ReadSequence, TakeSlot, CopyBlock, Interrupted, Leave, LeaveClears, LeaveEnds,
           audioVars
  <2>3. CASE producer.at = "ready"
    <3>1. PICK k \in SlotIds : k = producer.slot
      BY <2>3 DEF Ranges, SlotInv, ProducerOK
    <3>2. BlockOf(k)' = BlockOf(k)
      BY <2>1, ReadyStep
    <3>3. BlockOf(producer.slot)' = BlockOf(k)'
      BY <1>9, <3>1 DEF BlockOf
    <3> QED
      BY <1>9, <2>3, <3>1, <3>2, <3>3
  <2> QED
    BY <1>9, <2>2, <2>3
<1> QED
  BY <1>1, <1>2, <1>3, <1>4, <1>5, <1>6, <1>7, <1>8, <1>9, OfCore1 DEF PublishNext

-----------------------------------------------------------------------------
\* Once it is there nothing comes before it.
LEMMA OldestStep ==
  ASSUME Ranges, PublishOK, ReadyOK, FoundOK, CopyOK, [AudioNext]_audioVars,
         ~RestartClears, ~LeaveClears, ~CopyBlock, capture' = capture, StartIsOldest
  PROVE  StartIsOldest'
<1>1. PICK s \in CurrentBlocks :
        /\ BlockOf(s).start
        /\ \A t \in CurrentBlocks : t # s => BlockOf(t).number > BlockOf(s).number
  BY DEF StartIsOldest
<1>2. /\ Ready \cup Copied \subseteq SlotIds /\ CurrentBlocks \subseteq Ready \cup Copied
      /\ Ready \cup Copied \subseteq Ready' \cup Copied'
      /\ \A u \in Ready \cup Copied : BlockOf(u)' = BlockOf(u)
  BY LiveBlocks, LiveSlots DEF CurrentBlocks, Ready, Copied
<1>3. s \in CurrentBlocks'
  BY <1>2 DEF CurrentBlocks
<1>4. ASSUME NEW t \in CurrentBlocks', t # s PROVE BlockOf(t)'.number > BlockOf(s)'.number
  <2>1. CASE t \in Ready \cup Copied
    <3>1. t \in CurrentBlocks
      BY <1>2, <1>4, <2>1 DEF CurrentBlocks
    <3> QED
      BY <1>1, <1>2, <1>4, <2>1, <3>1
  <2>2. CASE t \notin Ready \cup Copied
    <3>1. StoreReady
      BY <1>4, <2>2, LiveSlots DEF CurrentBlocks
    <3>2. Copied' = Copied
      BY <3>1 DEF StoreReady, Copied
    <3>3. t \in Ready' /\ t = producer.slot /\ t \in SlotIds
      BY <1>4, <2>2, <3>1, <3>2, StoreReadySlots DEF CurrentBlocks
    <3>4. BlockOf(t)' = BlockOf(t) /\ BlockOf(t).number = number
      BY <3>1, <3>3, StoreReadySlots, NewBlockIsLast
    <3>5. Recent(BlockOf(s)) /\ BlockOf(s).capture = capture
      BY DEF ReadyOK, CopyOK, CurrentBlocks
    <3>6. BlockOf(s).number < number
      BY <3>1, <3>5, ProducerPath DEF Recent, Publishing
    <3>7. BlockOf(s).number \in Nat /\ number \in Nat
      BY <1>2, BlockTypes
    <3> QED
      BY <1>2, <3>4, <3>6, <3>7
  <2> QED
    BY <2>1, <2>2
<1> QED
  BY <1>1, <1>2, <1>3, <1>4 DEF StartIsOldest

LEMMA FirstStep ==
  Stream /\ Ranges /\ Ranges' /\ [AudioNext]_audioVars => FirstOK'
<1> SUFFICES ASSUME Stream, Ranges, Ranges', [AudioNext]_audioVars, AtNewDevice'
             PROVE  (CurrentBlocks' = {} /\ StartComes') \/ StartIsOldest'
  BY DEF FirstOK
<1>0. /\ ResetOK /\ PublishOK /\ ReadyOK /\ FoundOK /\ CopyOK /\ CopyOfPast /\ LastOK
      /\ Owned /\ Connected
  BY DEF Stream
<1>1. /\ listener'.at \in {"idle", "wait", "load", "peek", "take", "copy"}
      /\ last' # NoBlock /\ last'.capture < capture' /\ producer'.at # "clear"
  BY DEF AtNewDevice, Attending
<1>2. CASE CopyBlock
  <2>1. PICK s \in SlotIds : s = listener.slot /\ s \in Copied
    BY <1>2, CopySlots DEF Copied, CopyBlock
  <2>2. /\ producer' = producer /\ SNAPSHOT_PHASE' = SNAPSHOT_PHASE /\ capture' = capture
        /\ last' = BlockOf(s)
    BY <1>2, <2>1 DEF CopyBlock, BlockOf
  <2>3. producer.at \in {"unsignal", "fill"} /\ SNAPSHOT_PHASE = 0 /\ Ready = {}
    BY <1>0, <1>1, <2>1, <2>2 DEF CopyOfPast, Restarting
  <2>4. Ready' = {}
    BY <1>2, <2>3, CopySlots
  <2>5. Copied' = {}
    BY <1>2 DEF CopyBlock, ListenerRests, Copied
  <2>6. CurrentBlocks' = {}
    BY <2>4, <2>5 DEF CurrentBlocks
  <2> QED
    BY <2>2, <2>3, <2>6 DEF StartComes
<1>3. CASE RestartClears
  <2>1. producer.at = "clear" /\ producer'.at = "unsignal" /\ capture' = capture
        /\ SNAPSHOT_PHASE' = SNAPSHOT_PHASE /\ SNAPSHOT_PHASE = 0
    BY <1>0, <1>1, <1>3, ProducerPath DEF RestartClears, ResetOK
  <2>2. OnPort = capture - 1 /\ OnPort' = capture /\ capture \in Nat
    BY <2>1, BlockTypes DEF OnPort
  <2>3. Ready' = {}
    BY <1>0, <2>2, CaptureStep
  <2>4. ASSUME NEW s \in Copied' PROVE BlockOf(s)'.capture # capture'
    <3>1. s \in Copied /\ s \in SlotIds
      BY <1>3, <2>4 DEF RestartClears, Copied
    <3>2. BlockOf(s)' = BlockOf(s)
      BY <1>0, <3>1, LiveBlocks
    <3>3. BlockOf(s).capture <= OnPort /\ BlockOf(s).capture \in Nat
      BY <1>0, <3>1, BlockTypes DEF CopyOK
    <3> QED
      BY <2>1, <2>2, <3>2, <3>3
  <2>5. CurrentBlocks' = {}
    BY <2>3, <2>4 DEF CurrentBlocks
  <2> QED
    BY <2>1, <2>5 DEF StartComes
<1>4. CASE ~CopyBlock /\ ~RestartClears
  <2>1. ~Acquire /\ ~AcquirePhase /\ ~Leave /\ ~LeaveClears /\ ~LeaveEnds /\ ~Restart
    <3>1. ~Acquire
      BY <1>1 DEF Acquire
    <3>2. ~AcquirePhase
      BY <1>0, <1>1 DEF AcquirePhase, LastOK
    <3>3. ~Leave /\ ~LeaveClears
      BY <1>1, ScanTypes DEF Leave, LeaveClears
    <3>4. ~LeaveEnds
      BY <1>1 DEF LeaveEnds, ListenerRests
    <3>5. ~Restart
      BY <1>1, ProducerPath
    <3> QED
      BY <3>1, <3>2, <3>3, <3>4, <3>5
  <2>2. last' = last /\ capture' = capture
    BY <1>4, <2>1
       DEF AudioNext, PublishNext, TakeNext, Fill, FetchPhase, StorePhase, Claim, Write,
           StoreReady, Raise, RestartEnds, BeginTake, LoadState, ReadSequence, TakeSlot,
           Interrupted, audioVars
  <2>3. producer.at # "clear"
    <3>1. producer' = producer \/ producer.at # "clear"
      BY <1>4, <2>1, ProducerPath, OfCore1 DEF PublishNext
    <3> QED
      BY <1>1, <3>1
  <2>4. Attending
    BY <1>1, <1>4, <2>1
       DEF AudioNext, PublishNext, TakeNext, Fill, FetchPhase, StorePhase, Claim, Write,
           StoreReady, Raise, RestartEnds, BeginTake, LoadState, ReadSequence, TakeSlot,
           Interrupted, audioVars, Attending
  <2>5. AtNewDevice
    BY <1>1, <2>2, <2>3, <2>4 DEF AtNewDevice
  <2>6. CASE StartIsOldest
    BY <1>0, <1>4, <2>1, <2>2, <2>6, OldestStep
  <2>7. CASE CurrentBlocks = {} /\ StartComes /\ StoreReady
    <3>1. PICK k \in SlotIds : k = producer.slot
      BY <2>7, StoreReadySlots
    <3>2. /\ Ready' = Ready \cup {k} /\ BlockOf(k)' = BlockOf(k)
          /\ BlockOf(k).capture = capture /\ BlockOf(k).start
      BY <1>0, <2>7, <3>1, StoreReadySlots, NewBlockIsLast, ProducerPath DEF StartComes
    <3>3. Copied' = Copied
      BY <2>7 DEF StoreReady, Copied
    <3>4. k \in CurrentBlocks'
      BY <2>2, <3>2 DEF CurrentBlocks
    <3>5. ASSUME NEW t \in CurrentBlocks', t # k PROVE FALSE
      <4>1. t \in Ready \cup Copied
        BY <3>2, <3>3, <3>5 DEF CurrentBlocks
      <4>2. BlockOf(t)' = BlockOf(t)
        BY <1>0, <4>1, LiveBlocks
      <4> QED
        BY <2>2, <2>7, <3>5, <4>1, <4>2 DEF CurrentBlocks
    <3> QED
      BY <3>2, <3>4, <3>5 DEF StartIsOldest
  <2>8. CASE CurrentBlocks = {} /\ StartComes /\ ~StoreReady
    <3>1. StartComes'
      <4>1. listener.at # "acquire"
        BY <2>4 DEF Attending
      <4> QED
        BY <1>0, <2>1, <2>3, <2>4, <2>8, <4>1, StartStep
    <3>2. Ready' \cup Copied' = Ready \cup Copied
      BY <1>4, <2>1, <2>8, LiveSlots
    <3>3. \A t \in Ready \cup Copied : BlockOf(t)' = BlockOf(t)
      BY <1>0, LiveBlocks
    <3>4. CurrentBlocks' = {}
      BY <2>2, <2>8, <3>2, <3>3 DEF CurrentBlocks
    <3> QED
      BY <3>1, <3>4
  <2> QED
    BY <2>5, <2>6, <2>7, <2>8 DEF Stream, FirstOK
<1> QED
  BY <1>2, <1>3, <1>4

\* The order of the blocks.
LEMMA StreamInvariant == AudioSpec => [](Ranges /\ Stream)
<1>1. AudioInit => Stream
  <2> SUFFICES ASSUME AudioInit PROVE Stream
    OBVIOUS
  <2> USE DEF AudioInit, ListenerRests, ProducerRests
  <2>1. Ready = {} /\ Found = {} /\ Copied = {}
    BY DEF Ready, Found, Copied
  <2>2. \A s \in SlotIds : slots[s].state = "free"
    OBVIOUS
  <2>3. LastOK
    BY <2>1, HalfIsHalf DEF LastOK, OnPort, Recent, NoBlock, Publishing
  <2>4. Owned /\ ResetOK /\ Unstarted /\ PublishOK
    BY <2>1, <2>2 DEF Owned, ResetOK, Unstarted, PublishOK, Publishing
  <2>5. ReadyOK /\ NearOK /\ FoundOK /\ CopyOK /\ CopyOfPast
    BY <2>1 DEF ReadyOK, NearOK, FoundOK, CopyOK, CopyOfPast
  <2>6. ScanKnows /\ ScanKnowsNone /\ ScanEnds /\ Connected /\ FirstOK
    BY DEF ScanKnows, ScanKnowsNone, ScanEnds, Connected, FirstOK, AtNewDevice
  <2> QED
    BY <2>3, <2>4, <2>5, <2>6 DEF Stream
<1>2. Ranges /\ Ranges' /\ Stream /\ [AudioNext]_audioVars => Stream'
  <2> SUFFICES ASSUME Ranges, Ranges', Stream, [AudioNext]_audioVars PROVE Stream'
    OBVIOUS
  <2>0. /\ Owned /\ ResetOK /\ Unstarted /\ PublishOK /\ ReadyOK /\ NearOK /\ FoundOK
        /\ ScanKnows /\ ScanKnowsNone /\ ScanEnds
        /\ CopyOK /\ CopyOfPast /\ LastOK /\ Connected /\ FirstOK
        /\ ScanOK
    BY DEF Stream, ScanOK
  <2>1. Owned' /\ ResetOK' /\ Unstarted' /\ PublishOK'
    BY <2>0, OwnedStep, ResetStep, UnstartedStep, PublishStep
  <2>2. ReadyOK' /\ NearOK' /\ FoundOK'
    BY <2>0, ReadyStays, NearStep, FoundStays
  <2>3. ScanKnows' /\ ScanKnowsNone' /\ ScanEnds'
    BY <2>0, ScanStep
  <2>4. CopyOK' /\ CopyOfPast'
    BY <2>0, <2>1, CopyStep, CopyOfPastStep
  <2>5. LastOK'
    BY <2>0, <2>1, <2>2, LastStep
  <2>6. Connected' /\ FirstOK'
    BY <2>0, ConnectedStep, FirstStep
  <2> QED
    BY <2>1, <2>2, <2>3, <2>4, <2>5, <2>6 DEF Stream
<1> QED
  BY <1>1, <1>2, CountersInvariant, PTL DEF AudioSpec, Ranges

THEOREM StreamsAreHonest == AudioSpec => StreamIsHonest
<1>1. ASSUME Ranges, Stream, [AudioNext]_audioVars,
             last # NoBlock, last' \notin {last, NoBlock}
      PROVE  /\ Later(last', last)
             /\ Follows(last', last) /\ ~last'.start /\ last'.capture \in {last.capture, capture}
                  => Adjacent(last', last)
  <2>0. ReadyOK /\ CopyOK /\ LastOK /\ FirstOK
    BY <1>1 DEF Stream
  <2>1. PICK s \in SlotIds : s \in Copied /\ last' = BlockOf(s) /\ listener.at = "copy"
    <3>1. CopyBlock /\ last' = BlockOf(listener.slot)
      BY <1>1, LastChanges
    <3> QED
      BY <1>1, <3>1, CopySlots DEF Copied, CopyBlock
  <2>2. PICK b \in Blocks : b = BlockOf(s) /\ b = last'
    BY <1>1, <2>1, BlockTypes
  <2>3. /\ b.capture <= OnPort /\ After(b, last)
        /\ \A t \in Ready : After(BlockOf(t), b)
    BY <2>0, <2>1, <2>2 DEF CopyOK
  <2>4. /\ b.capture \in Nat /\ b.number \in Nat /\ last.capture \in Nat
        /\ last.number \in Nat /\ capture \in Nat
    BY <1>1, BlockTypes DEF Blocks
  <2>5. ASSUME Follows(b, last), b.capture = last.capture PROVE Adjacent(b, last)
    <3>1. b.number > last.number /\ b.number - last.number < Half
      BY <2>3, <2>4, <2>5 DEF After, Later
    <3>2. PICK x \in Nat, y \in Nat : x = last.number + 1 /\ y = b.number
      BY <2>4
    <3>3. x <= y /\ y - x < SequenceLimit
      BY <2>4, <3>1, <3>2, HalfIsHalf, PositiveLimits
    <3>4. ((last.number % SequenceLimit) + 1) % SequenceLimit = x % SequenceLimit
      BY <2>4, <3>2, ModStep, AudioAssumption
    <3>5. x % SequenceLimit = y % SequenceLimit
      BY <2>5, <3>2, <3>4 DEF Follows, Sequence
    <3>6. x = y
      BY <3>3, <3>5, ModInj, PositiveLimits
    <3> QED
      BY <2>5, <3>2, <3>6 DEF Adjacent
  <2>6. ASSUME ~b.start, b.capture = capture, b.capture # last.capture PROVE FALSE
    <3>1. last.capture < capture
      BY <2>3, <2>4, <2>6 DEF After, Later
    <3>2. producer.at # "clear"
      BY <2>3, <2>4, <2>6 DEF OnPort
    <3>3. AtNewDevice
      BY <1>1, <2>1, <3>1, <3>2 DEF AtNewDevice, Attending
    <3>4. s \in CurrentBlocks
      BY <2>1, <2>2, <2>6 DEF CurrentBlocks
    <3>5. PICK w \in CurrentBlocks :
            /\ BlockOf(w).start
            /\ \A t \in CurrentBlocks : t # w => BlockOf(t).number > BlockOf(w).number
      BY <2>0, <3>3, <3>4 DEF FirstOK, StartIsOldest
    <3>6. s # w
      BY <2>2, <2>6, <3>5
    <3>7. w \in Ready
      BY <2>1, <3>6 DEF CurrentBlocks, Copied
    <3>8. BlockOf(w).capture = b.capture /\ w \in SlotIds
      BY <2>6, <3>7 DEF CurrentBlocks, Ready
    <3>9. BlockOf(w).number > b.number
      BY <2>3, <2>4, <3>7, <3>8 DEF After, Later
    <3>10. b.number > BlockOf(w).number
      BY <2>2, <3>4, <3>5, <3>6
    <3> QED
      BY <1>1, <2>4, <3>8, <3>9, <3>10, BlockTypes
  <2>7. Later(b, last)
    BY <2>3 DEF After
  <2> QED
    BY <2>2, <2>5, <2>6, <2>7
<1>2. Ranges /\ Stream /\ [AudioNext]_audioVars =>
        [last # NoBlock /\ last' \notin {last, NoBlock} =>
           /\ Later(last', last)
           /\ Follows(last', last) /\ ~last'.start
                /\ last'.capture \in {last.capture, capture}
                => Adjacent(last', last)]_audioVars
  BY <1>1
<1> QED
  BY <1>2, StreamInvariant, PTL DEF AudioSpec, StreamIsHonest

-----------------------------------------------------------------------------
\* The numbers of the bridge: nobody has session 0 or QUIESCING.
LEMMA SessionNumbers ==
  /\ Sessions \subseteq Nat
  /\ QUIESCING \in Nat /\ QUIESCING # 0 /\ QUIESCING \notin Sessions /\ 0 \notin Sessions
  /\ 1 \in Sessions
BY BleuioAssumption DEF Sessions, QUIESCING

\* A new session is one that a client can have.
LEMMA NextSessionIsOne ==
  ASSUME next_bridge_session \in Sessions \cup {0}
  PROVE  NextSession \in Sessions
<1> DEFINE next == (next_bridge_session + 1) % SessionLimit
<1>1. SessionLimit \in Nat /\ SessionLimit > 2 /\ next_bridge_session + 1 \in Nat
  BY SessionNumbers, BleuioAssumption
<1>2. next \in 0..SessionLimit - 1
  BY <1>1, Div
<1> HIDE DEF next
<1>3. next \notin {0, QUIESCING} => next \in Sessions
  BY <1>1, <1>2 DEF Sessions, QUIESCING
<1> QED BY <1>3, SessionNumbers DEF next, NextSession

\* The bounds are numbers.
LEMMA BleuioLimits ==
  /\ BRIDGE_CHANNEL_CAPACITY \in Nat /\ BRIDGE_CHANNEL_CAPACITY >= 1
  /\ MaxOutput \in Nat /\ MaxDongles \in Nat /\ MaxTcpClients \in Nat
BY BleuioAssumption

\* The first element of a queue, and the rest.
LEMMA TailOf ==
  ASSUME NEW S, NEW q \in Seq(S), q # <<>>
  PROVE  /\ Len(q) \in Nat /\ Len(q) >= 1
         /\ Head(q) \in S /\ Head(q) = q[1]
         /\ Tail(q) \in Seq(S) /\ Len(Tail(q)) = Len(q) - 1
         /\ \A i \in 1..Len(Tail(q)) : i + 1 \in 1..Len(q) /\ Tail(q)[i] = q[i + 1]
OBVIOUS

\* A queue with one more element.
LEMMA AppendOf ==
  ASSUME NEW S, NEW q \in Seq(S), NEW e \in S
  PROVE  /\ Append(q, e) \in Seq(S) /\ Len(Append(q, e)) = Len(q) + 1
         /\ \A i \in 1..Len(Append(q, e)) :
              \/ i \in 1..Len(q) /\ Append(q, e)[i] = q[i]
              \/ i = Len(q) + 1 /\ Append(q, e)[i] = e
         /\ Len(q) \in Nat
OBVIOUS

-----------------------------------------------------------------------------
DongleTyped ==
  /\ attached \in BOOLEAN /\ midline \in BOOLEAN
  /\ scans \in Nat /\ scan \in 0..scans
  /\ output \in Seq(Units) /\ Len(output) <= MaxOutput
StateTyped ==
  /\ ready \in BOOLEAN /\ bridge_connected \in BOOLEAN /\ dongle \in 0..MaxDongles
ManagerTyped ==
  /\ manager \in ManagerStates /\ hand \in Calls
  /\ active_session \in Sessions \cup {0, QUIESCING}
  /\ next_bridge_session \in Sessions \cup {0}
ParserTyped ==
  /\ parser_epoch \in Nat /\ seen_epoch \in 0..parser_epoch
  /\ parser \subseteq Owners /\ published \subseteq Owners
  /\ blocked \in Deliveries
ChannelsTyped ==
  /\ calls \in Seq(Calls)
  /\ toUsb \in Seq(Sessions) /\ Len(toUsb) <= BRIDGE_CHANNEL_CAPACITY
  /\ toTcp \in Seq(Deliveries) /\ Len(toTcp) <= BRIDGE_CHANNEL_CAPACITY
  /\ closed \in Sessions \cup {0, QUIESCING}
SerialTyped ==
  /\ gone \in BOOLEAN /\ outstanding \in BOOLEAN
  /\ serial \in SerialStates
  /\ held \in Sessions \cup {0}
  /\ delivered \in Deliveries
  /\ tcpClients \in 0..MaxTcpClients
  /\ caller \in [number : Nat, waits : BOOLEAN]
  /\ serial \in {"stream", "close"} => held # 0
Typed ==
  /\ DongleTyped /\ StateTyped /\ ManagerTyped /\ ParserTyped /\ ChannelsTyped
  /\ SerialTyped

LEMMA ConstantsTyped ==
  /\ NoUnit \in Units /\ NoDelivery \in Deliveries /\ NoCall \in Calls
  /\ \A u \in Units : Owner(u) \in Owners
  /\ \A s \in Nat, u \in Units : [session |-> s, unit |-> u] \in Deliveries
  /\ \A k \in {"scan", "raw"}, n \in Nat, b \in BOOLEAN :
       [kind |-> k, of |-> n, ends |-> b] \in Units
  /\ \A o \in {"open", "close"}, s \in Nat, d \in Nat, n \in Nat :
       [operation |-> o, session |-> s, dongle |-> d, number |-> n] \in Calls
BY DEF NoUnit, Units, NoDelivery, Deliveries, NoCall, Calls, Owner, Owners

\* An answer ends the wait of its caller, or is for nobody.
LEMMA AnswerEffect ==
  ASSUME SerialTyped, NEW command, NEW s \in Sessions \cup {0}, Answer(command, s)
  PROVE  /\ caller' \in [number : Nat, waits : BOOLEAN]
         /\ caller'.number = caller.number
         /\ \/ /\ caller.waits /\ command.number = caller.number
               /\ ~caller'.waits
               /\ held' = s /\ serial' = IF s # 0 THEN "stream" ELSE "flush"
            \/ /\ ~(caller.waits /\ command.number = caller.number)
               /\ caller' = caller /\ held' = held /\ serial' = serial
         /\ held' \in Sessions \cup {0}
         /\ serial' \in SerialStates
         /\ serial' \in {"stream", "close"} => held' # 0
BY SessionNumbers DEF Answer, SerialTyped, SerialStates

\* A call is placed if there is a manager to take it.
LEMMA PlaceEffect ==
  ASSUME Typed, NEW operation \in {"open", "close"}, NEW s \in Sessions \cup {0},
         NEW at \in SerialStates, PlaceCall(operation, s, at)
  PROVE  /\ caller' \in [number : Nat, waits : BOOLEAN]
         /\ caller'.number = caller.number + 1 /\ caller'.waits = ready
         /\ calls' \in Seq(Calls)
         /\ serial' \in SerialStates
<1>1. caller.number + 1 \in Nat /\ s \in Nat /\ dongle \in Nat
  BY SessionNumbers, BleuioLimits DEF Typed, SerialTyped, StateTyped
<1>2. [operation |-> operation, session |-> s, dongle |-> dongle,
       number |-> caller.number + 1] \in Calls
  BY <1>1, ConstantsTyped
<1>3. calls' \in Seq(Calls)
  BY <1>2, AppendOf DEF PlaceCall, Typed, ChannelsTyped
<1>4. caller' = [number |-> caller.number + 1, waits |-> ready] /\ ready \in BOOLEAN
  BY DEF PlaceCall, Typed, StateTyped
<1> QED BY <1>1, <1>3, <1>4 DEF PlaceCall, SerialStates

USE DEF dongleVars, stateVars, parserVars, managerVars, serialVars

\* The types of each step of the dongle and of the one that attaches it.
LEMMA DongleKeepsTypes ==
  ASSUME Typed, ScanReports \/ Detach \/ StartManager
  PROVE  DongleTyped' /\ StateTyped' /\ ManagerTyped' /\ ParserTyped' /\ ChannelsTyped'
         /\ SerialTyped'
<1> USE DEF Typed
<1>0. 0 \in Nat /\ 0 \in 0..0 /\ <<>> \in Seq(Units) /\ Len(<<>>) = 0 /\ 0 \in 0..scans
  BY BleuioLimits DEF DongleTyped
<1>1. CASE ScanReports
  <2> USE <1>1 DEF ScanReports
  <2>1. [kind |-> "scan", of |-> scan, ends |-> midline] \in Units
    BY ConstantsTyped DEF DongleTyped
  <2>2. output' \in Seq(Units) /\ Len(output') <= MaxOutput
    BY <2>1, AppendOf, BleuioLimits DEF DongleTyped
  <2>3. DongleTyped'
    BY <2>2 DEF DongleTyped
  <2> QED
    BY <2>3 DEF StateTyped, ManagerTyped, ParserTyped, ChannelsTyped, SerialTyped
<1>2. CASE Detach
  <2> USE <1>2 DEF Detach
  <2>0. 0 \in 0..scans /\ Len(<<>>) <= MaxOutput
    BY <1>0, BleuioLimits
  <2>1. DongleTyped'
    BY <1>0, <2>0 DEF DongleTyped
  <2>2. StateTyped'
    BY DEF StateTyped
  <2> QED
    BY <2>1, <2>2 DEF ManagerTyped, ParserTyped, ChannelsTyped, SerialTyped
<1>3. CASE StartManager
  <2> USE <1>3 DEF StartManager, ScanStarts
  <2>0. /\ scans + 1 \in Nat /\ scans + 1 \in 0..scans + 1 /\ Len(<<>>) <= MaxOutput
        /\ dongle + 1 \in 0..MaxDongles
    BY <1>0, BleuioLimits DEF DongleTyped, StateTyped
  <2>1. DongleTyped'
    BY <1>0, <2>0 DEF DongleTyped
  <2>2. StateTyped'
    BY <2>0 DEF StateTyped
  <2>3. ManagerTyped' /\ ParserTyped'
    BY <1>0, ConstantsTyped DEF ManagerTyped, ParserTyped, ManagerStates
  <2> QED
    BY <2>1, <2>2, <2>3 DEF ChannelsTyped, SerialTyped
<1> QED BY <1>1, <1>2, <1>3

\* The types of each step of bleuio_usb_in.
LEMMA UsbInKeepsTypes ==
  ASSUME Typed, UsbInNext \/ ReadFails
  PROVE  DongleTyped' /\ StateTyped' /\ ManagerTyped' /\ ParserTyped' /\ ChannelsTyped'
         /\ SerialTyped'
<1> USE DEF Typed
<1>1. CASE ReadUnit
  <2> USE <1>1 DEF ReadUnit
  <2>1. Head(output) \in Units /\ Tail(output) \in Seq(Units) /\ Len(Tail(output)) <= MaxOutput
    BY TailOf, BleuioLimits DEF DongleTyped
  <2>2. DongleTyped' /\ StateTyped'
    BY <2>1 DEF DongleTyped, StateTyped
  <2>3. FreshParser \subseteq Owners /\ Line(Head(output)) \subseteq Owners
    BY <2>1, ConstantsTyped DEF FreshParser, Line, ParserTyped
  <2>4. parser_epoch' \in Nat /\ seen_epoch' \in 0..parser_epoch'
    BY DEF ParserTyped
  <2>5. active_session # 0 => [session |-> active_session, unit |-> Head(output)] \in Deliveries
    BY <2>1, ConstantsTyped, SessionNumbers DEF ManagerTyped
  <2>6. ParserTyped'
    <3>1. CASE active_session = 0
      BY <2>3, <2>4, <3>1 DEF ParserTyped, Ingest, Remainder
    <3>2. CASE active_session # 0
      BY <2>3, <2>4, <2>5, <3>2, ConstantsTyped DEF ParserTyped
    <3> QED BY <3>1, <3>2
  <2> QED
    BY <2>2, <2>6 DEF ManagerTyped, ChannelsTyped, SerialTyped
<1>2. CASE Forward
  <2> USE <1>2 DEF Forward
  <2>1. toTcp' \in Seq(Deliveries) /\ Len(toTcp') <= BRIDGE_CHANNEL_CAPACITY
    BY AppendOf, BleuioLimits DEF ChannelsTyped, ParserTyped
  <2>2. ChannelsTyped'
    BY <2>1 DEF ChannelsTyped
  <2>3. ParserTyped'
    BY ConstantsTyped DEF ParserTyped
  <2> QED
    BY <2>2, <2>3 DEF DongleTyped, StateTyped, ManagerTyped, SerialTyped
<1>3. CASE ReadFails
  <2> USE <1>3 DEF ReadFails
  <2>1. ManagerTyped'
    BY DEF ManagerTyped, ManagerStates
  <2> QED
    BY <2>1 DEF DongleTyped, StateTyped, ParserTyped, ChannelsTyped, SerialTyped
<1> QED BY <1>1, <1>2, <1>3 DEF UsbInNext

\* The types of each step of bleuio_commands_and_out, and of the end of it.
LEMMA CommandKeepsTypes ==
  ASSUME Typed, CommandNext \/ EndManager
  PROVE  DongleTyped' /\ StateTyped' /\ ManagerTyped' /\ ParserTyped' /\ ChannelsTyped'
         /\ SerialTyped'
<1> USE DEF Typed
<1>0. QUIESCING \in Sessions \cup {0, QUIESCING} /\ 0 \in Sessions \cup {0, QUIESCING}
      /\ 0 \in Sessions \cup {0}
  OBVIOUS
<1>1. calls # <<>> => Head(calls) \in Calls /\ Tail(calls) \in Seq(Calls)
  BY TailOf DEF ChannelsTyped
<1>2. parser_epoch + 1 \in Nat /\ seen_epoch \in 0..parser_epoch + 1
  BY DEF ParserTyped
<1>3. NextSession \in Sessions
  BY NextSessionIsOne DEF ManagerTyped
<1>4. CASE BeginOpen
  <2> USE <1>4 DEF BeginOpen
  <2>1. ManagerTyped' /\ ChannelsTyped'
    BY <1>0, <1>1 DEF ManagerTyped, ChannelsTyped, ManagerStates
  <2>2. StateTyped' /\ ParserTyped'
    BY <1>2 DEF StateTyped, ParserTyped
  <2> QED BY <2>1, <2>2 DEF DongleTyped, SerialTyped
<1>5. CASE StopScan
  <2> USE <1>5 DEF StopScan
  <2>0. 0 \in 0..scans
    BY DEF DongleTyped
  <2>1. DongleTyped'
    BY <2>0 DEF DongleTyped
  <2>2. ManagerTyped'
    BY ConstantsTyped DEF ManagerTyped, ManagerStates
  <2>3. SerialTyped'
    BY <1>0, AnswerEffect DEF SerialTyped
  <2> QED BY <2>1, <2>2, <2>3 DEF StateTyped, ParserTyped, ChannelsTyped
<1>6. CASE FinishOpen
  <2> USE <1>6 DEF FinishOpen
  <2>1. ManagerTyped'
    BY <1>3, ConstantsTyped DEF ManagerTyped, ManagerStates
  <2>2. SerialTyped'
    BY <1>3, AnswerEffect DEF SerialTyped
  <2> QED BY <2>1, <2>2 DEF DongleTyped, StateTyped, ParserTyped, ChannelsTyped
<1>7. CASE BeginClose
  <2> USE <1>7 DEF BeginClose
  <2>1. ManagerTyped' /\ ChannelsTyped'
    BY <1>0, <1>1 DEF ManagerTyped, ChannelsTyped, ManagerStates
  <2>2. StateTyped' /\ ParserTyped'
    BY <1>2 DEF StateTyped, ParserTyped
  <2>3. SerialTyped'
    BY <1>0, AnswerEffect DEF SerialTyped
  <2> QED BY <2>1, <2>2, <2>3 DEF DongleTyped
<1>8. CASE RestartScan
  <2> USE <1>8 DEF RestartScan, ScanStarts
  <2>0. scans + 1 \in Nat /\ scans + 1 \in 0..scans + 1
    BY DEF DongleTyped
  <2>1. DongleTyped'
    BY <2>0 DEF DongleTyped
  <2>2. ManagerTyped'
    BY ConstantsTyped DEF ManagerTyped, ManagerStates
  <2>3. SerialTyped'
    BY <1>0, AnswerEffect DEF SerialTyped
  <2> QED BY <2>1, <2>2, <2>3 DEF StateTyped, ParserTyped, ChannelsTyped
<1>9. CASE FinishClose
  <2> USE <1>9 DEF FinishClose
  <2>1. ManagerTyped' /\ ParserTyped'
    BY <1>0, <1>2, ConstantsTyped DEF ManagerTyped, ParserTyped, ManagerStates
  <2>2. SerialTyped'
    BY <1>0, AnswerEffect DEF SerialTyped
  <2> QED BY <2>1, <2>2 DEF DongleTyped, StateTyped, ChannelsTyped
<1>10. CASE RejectCall
  <2> USE <1>10 DEF RejectCall
  <2>1. ChannelsTyped'
    BY <1>1 DEF ChannelsTyped
  <2>2. SerialTyped'
    BY <1>0, AnswerEffect DEF SerialTyped
  <2> QED BY <2>1, <2>2 DEF DongleTyped, StateTyped, ManagerTyped, ParserTyped
<1>11. CASE TakeFrame
  <2> USE <1>11 DEF TakeFrame
  <2>1. toUsb' \in Seq(Sessions) /\ Len(toUsb') <= BRIDGE_CHANNEL_CAPACITY
    BY TailOf, BleuioLimits DEF ChannelsTyped
  <2>2. ChannelsTyped' /\ ManagerTyped'
    BY <2>1 DEF ChannelsTyped, ManagerTyped, ManagerStates
  <2> QED BY <2>2 DEF DongleTyped, StateTyped, ParserTyped, SerialTyped
<1>12. CASE WriteFrame
  <2> USE <1>12 DEF WriteFrame
  <2>1. [kind |-> "raw", of |-> active_session, ends |-> TRUE] \in Units
    BY SessionNumbers, ConstantsTyped DEF ManagerTyped
  <2>2. output' \in Seq(Units) /\ Len(output') <= MaxOutput
    BY <2>1, AppendOf, BleuioLimits DEF DongleTyped
  <2>3. DongleTyped'
    BY <2>2 DEF DongleTyped
  <2>4. ManagerTyped'
    BY DEF ManagerTyped, ManagerStates
  <2>5. outstanding' \in BOOLEAN
    BY DEF SerialTyped
  <2>6. SerialTyped'
    BY <2>5 DEF SerialTyped
  <2> QED BY <2>3, <2>4, <2>6 DEF StateTyped, ParserTyped, ChannelsTyped
<1>13. CASE EndManager
  <2> USE <1>13 DEF EndManager
  <2>1. ManagerTyped' /\ ParserTyped'
    BY <1>0, ConstantsTyped DEF ManagerTyped, ParserTyped, ManagerStates
  <2>2. StateTyped'
    BY DEF StateTyped
  <2>3. ChannelsTyped'
    BY DEF ChannelsTyped, ManagerTyped
  <2> QED BY <2>1, <2>2, <2>3 DEF DongleTyped, SerialTyped
<1> QED
  BY <1>4, <1>5, <1>6, <1>7, <1>8, <1>9, <1>10, <1>11, <1>12, <1>13 DEF CommandNext

\* The types of each step of usb_serial_task and of its client.
LEMMA SerialKeepsTypes ==
  ASSUME Typed, SerialNext \/ AcceptTcp \/ ClientSends \/ ClientLeaves
  PROVE  DongleTyped' /\ StateTyped' /\ ManagerTyped' /\ ParserTyped' /\ ChannelsTyped'
         /\ SerialTyped'
<1> USE DEF Typed
<1>0. /\ <<>> \in Seq(Sessions) /\ <<>> \in Seq(Deliveries) /\ Len(<<>>) = 0
      /\ 0 <= BRIDGE_CHANNEL_CAPACITY /\ 0 \in Sessions \cup {0}
  BY BleuioLimits
<1>1. CloseBridge /\ serial \in {"stream", "close"} =>
        /\ toUsb' = <<>> /\ calls' \in Seq(Calls)
        /\ serial' \in SerialStates
        /\ caller' \in [number : Nat, waits : BOOLEAN]
        /\ held' \in Sessions \cup {0}
        /\ serial' \in {"stream", "close"} => held' # 0
  <2> SUFFICES ASSUME CloseBridge, serial \in {"stream", "close"}
      PROVE /\ toUsb' = <<>> /\ calls' \in Seq(Calls)
            /\ serial' \in SerialStates
            /\ caller' \in [number : Nat, waits : BOOLEAN]
            /\ held' \in Sessions \cup {0}
            /\ serial' \in {"stream", "close"} => held' # 0
    OBVIOUS
  <2>1. PlaceCall("close", held, "close") /\ held \in Sessions \cup {0} /\ "close" \in SerialStates
    BY DEF CloseBridge, SerialTyped, SerialStates
  <2>2. /\ caller' \in [number : Nat, waits : BOOLEAN]
        /\ calls' \in Seq(Calls) /\ serial' \in SerialStates
    BY <2>1, PlaceEffect
  <2> QED BY <2>1, <2>2 DEF CloseBridge, PlaceCall, SerialTyped
<1>2. CASE DeliverFrame
  <2> USE <1>2 DEF DeliverFrame
  <2>1. Head(toTcp) \in Deliveries /\ toTcp' \in Seq(Deliveries) /\ Len(toTcp') <= BRIDGE_CHANNEL_CAPACITY
    BY TailOf, BleuioLimits DEF ChannelsTyped
  <2>2. ChannelsTyped' /\ SerialTyped'
    BY <2>1 DEF ChannelsTyped, SerialTyped
  <2> QED BY <2>2 DEF DongleTyped, StateTyped, ManagerTyped, ParserTyped
<1>3. CASE ClientEnds
  <2> USE <1>3, <1>1 DEF ClientEnds
  <2>1. ChannelsTyped' /\ SerialTyped'
    BY <1>0 DEF ChannelsTyped, SerialTyped
  <2> QED BY <2>1 DEF DongleTyped, StateTyped, ManagerTyped, ParserTyped
<1>4. CASE BridgeClosed
  <2> USE <1>4, <1>1 DEF BridgeClosed
  <2>1. CASE closed # held
    BY <2>1 DEF ChannelsTyped, SerialTyped, DongleTyped, StateTyped, ManagerTyped, ParserTyped
  <2>2. CASE closed = held /\ serial = "stream"
    <3>1. ChannelsTyped' /\ SerialTyped'
      BY <1>0, <2>2 DEF ChannelsTyped, SerialTyped
    <3> QED BY <3>1 DEF DongleTyped, StateTyped, ManagerTyped, ParserTyped
  <2>3. CASE closed = held /\ serial = "close"
    <3>1. ChannelsTyped' /\ SerialTyped'
      BY <1>0, <2>3 DEF ChannelsTyped, SerialTyped, SerialStates
    <3> QED BY <3>1 DEF DongleTyped, StateTyped, ManagerTyped, ParserTyped
  <2> QED BY <2>1, <2>2, <2>3
<1>5. CASE GiveUp
  <2> USE <1>5 DEF GiveUp
  <2>1. caller' \in [number : Nat, waits : BOOLEAN]
    BY DEF SerialTyped
  <2>2. SerialTyped'
    BY <1>0, <2>1 DEF SerialTyped, SerialStates
  <2> QED
    BY <2>2 DEF DongleTyped, StateTyped, ManagerTyped, ParserTyped, ChannelsTyped
<1>6. CASE FlushTcp
  BY <1>0, <1>6 DEF FlushTcp, DongleTyped, StateTyped, ManagerTyped, ParserTyped,
     ChannelsTyped, SerialTyped, SerialStates
<1>7. CASE AcceptTcp
  <2> USE <1>7 DEF AcceptTcp
  <2>1. "open" \in SerialStates /\ PlaceCall("open", 0, "open")
    BY DEF SerialStates
  <2>2. /\ caller' \in [number : Nat, waits : BOOLEAN]
        /\ calls' \in Seq(Calls) /\ serial' \in SerialStates
    BY <1>0, <2>1, PlaceEffect
  <2>3. serial' \in {"open", "flush"}
    BY DEF PlaceCall
  <2>4. tcpClients + 1 \in 0..MaxTcpClients
    BY BleuioLimits DEF SerialTyped
  <2>5. ChannelsTyped' /\ SerialTyped'
    BY <1>0, <2>2, <2>3, <2>4 DEF ChannelsTyped, SerialTyped
  <2> QED BY <2>5 DEF DongleTyped, StateTyped, ManagerTyped, ParserTyped
<1>8. CASE ClientSends
  <2> USE <1>8 DEF ClientSends
  <2>1. held \in Sessions
    BY DEF SerialTyped
  <2>2. toUsb' \in Seq(Sessions) /\ Len(toUsb') <= BRIDGE_CHANNEL_CAPACITY
    BY <2>1, AppendOf, BleuioLimits DEF ChannelsTyped
  <2> QED BY <2>2 DEF DongleTyped, StateTyped, ManagerTyped, ParserTyped, ChannelsTyped, SerialTyped
<1>9. CASE ClientLeaves
  BY <1>9 DEF ClientLeaves, DongleTyped, StateTyped, ManagerTyped, ParserTyped,
     ChannelsTyped, SerialTyped
<1> QED BY <1>2, <1>3, <1>4, <1>5, <1>6, <1>7, <1>8, <1>9 DEF SerialNext

-----------------------------------------------------------------------------
InHand == {"stop", "openQuiet", "restart", "closeQuiet"}

\* Where the manager is, and what the dongle and the session are then.
ManagerOK ==
  /\ ready <=> attached /\ manager # "none"
  /\ ~attached => output = <<>> /\ scan = 0
  /\ manager = "none" => active_session = 0
  /\ manager \in InHand => active_session = QUIESCING /\ hand.number <= caller.number
  /\ manager = "write" => active_session \in Sessions
  /\ active_session \in Sessions \/ manager = "openQuiet" => scan = 0
  /\ active_session # 0 => closed = 0
  /\ manager \in {"stop", "openQuiet"} =>
       serial = "open" /\ hand.number = caller.number /\ calls = <<>>

\* The calls that wait are the last ones.  An open that can still be performed
\* is that of the task, which waits for it.
FreshOpen(command) ==
  manager # "none" /\ command.operation = "open" /\ command.dongle = dongle
CallOK(command) ==
  /\ command.number <= caller.number
  /\ command.dongle <= dongle
  /\ command.operation = "close" => command.session \in Sessions
  /\ FreshOpen(command) =>
       serial = "open" /\ command.number = caller.number /\ closed = 0
  /\ manager \in InHand => hand.number < command.number
QueueOK ==
  /\ \A i \in 1..Len(calls) : CallOK(calls[i])
  /\ \A i, j \in 1..Len(calls) : i < j => calls[i].number < calls[j].number

WaitsOK ==
  /\ caller.waits <=> serial \in {"open", "close"}
  /\ serial \notin {"stream", "close"} => held = 0

\* The session of a dongle that is there has its client, which has at most asked
\* to close it.
SessionOK ==
  attached /\ active_session \in Sessions =>
    /\ held = active_session
    /\ \/ serial = "stream" /\ calls = <<>>
       \/ /\ serial = "close" /\ Len(calls) = 1
          /\ calls[1].operation = "close" /\ calls[1].session = held
          /\ calls[1].number = caller.number

ControlOK == ManagerOK /\ QueueOK /\ WaitsOK /\ SessionOK

\* The queue stays as it is.
LEMMA KeepQueue ==
  ASSUME Typed, QueueOK, calls' = calls, \A c \in Calls : CallOK(c) => CallOK(c)'
  PROVE  QueueOK'
<1>1. \A i \in 1..Len(calls) : calls[i] \in Calls
  BY DEF Typed, ChannelsTyped
<1>2. ASSUME NEW i \in 1..Len(calls) PROVE CallOK(calls[i])'
  BY <1>1, <1>2 DEF QueueOK
<1> QED BY <1>2 DEF QueueOK

\* The first call is taken.
LEMMA DropCall ==
  ASSUME Typed, QueueOK, calls # <<>>, calls' = Tail(calls),
         \A c \in Calls : CallOK(c) /\ Head(calls).number < c.number => CallOK(c)'
  PROVE  QueueOK'
<1>1. /\ calls \in Seq(Calls) /\ Head(calls) = calls[1] /\ 1 \in 1..Len(calls)
      /\ \A i \in 1..Len(calls') : i + 1 \in 1..Len(calls) /\ calls'[i] = calls[i + 1]
      /\ \A i \in 1..Len(calls) : calls[i] \in Calls
  BY TailOf DEF Typed, ChannelsTyped
<1>2. ASSUME NEW i \in 1..Len(calls') PROVE CallOK(calls[i])'
  <2>1. i + 1 \in 1..Len(calls) /\ calls'[i] = calls[i + 1] /\ 1 < i + 1
    BY <1>1
  <2>2. CallOK(calls[i + 1]) /\ Head(calls).number < calls[i + 1].number
        /\ calls[i + 1] \in Calls
    BY <1>1, <2>1 DEF QueueOK
  <2>3. \A c : c = calls[i + 1] => CallOK(c)'
    BY <2>2
  <2> QED BY <2>1, <2>3
<1>3. ASSUME NEW i \in 1..Len(calls'), NEW j \in 1..Len(calls'), i < j
      PROVE  calls'[i].number < calls'[j].number
  BY <1>1, <1>3 DEF QueueOK
<1> QED BY <1>2, <1>3 DEF QueueOK

\* A call is placed.
LEMMA AddCall ==
  ASSUME Typed, QueueOK, NEW e \in Calls, calls' = Append(calls, e),
         caller.number < e.number, CallOK(e)',
         \A c \in Calls : CallOK(c) => CallOK(c)'
  PROVE  QueueOK'
<1>1. /\ \A i \in 1..Len(calls') : \/ i \in 1..Len(calls) /\ calls'[i] = calls[i]
                                   \/ i = Len(calls) + 1 /\ calls'[i] = e
      /\ Len(calls) \in Nat
      /\ \A i \in 1..Len(calls) : calls[i] \in Calls
  BY AppendOf DEF Typed, ChannelsTyped
<1>2. ASSUME NEW i \in 1..Len(calls') PROVE CallOK(calls[i])'
  <2>1. CASE i \in 1..Len(calls) /\ calls'[i] = calls[i]
    <3>1. \A c : c = calls[i] => CallOK(c)'
      BY <1>1, <2>1 DEF QueueOK
    <3> QED BY <2>1, <3>1
  <2>2. CASE calls'[i] = e
    BY <2>2
  <2> QED BY <1>1, <2>1, <2>2
<1>3. ASSUME NEW i \in 1..Len(calls'), NEW j \in 1..Len(calls'), i < j
      PROVE  calls'[i].number < calls'[j].number
  <2>1. i \in 1..Len(calls) /\ calls'[i] = calls[i]
    BY <1>1, <1>3
  <2>2. CASE j \in 1..Len(calls) /\ calls'[j] = calls[j]
    BY <1>3, <2>1, <2>2 DEF QueueOK
  <2>3. CASE calls'[j] = e
    <3>1. calls[i].number <= caller.number
      BY <2>1 DEF QueueOK, CallOK
    <3>2. calls[i].number \in Nat /\ caller.number \in Nat /\ e.number \in Nat
      BY <1>1, <2>1 DEF Calls, Typed, SerialTyped
    <3> QED BY <2>1, <2>3, <3>1, <3>2
  <2> QED BY <1>1, <2>2, <2>3
<1> QED BY <1>2, <1>3 DEF QueueOK

\* The numbers of the calls, and the first call.
LEMMA NumbersTyped ==
  ASSUME Typed
  PROVE  /\ caller.number \in Nat /\ hand.number \in Nat /\ dongle \in Nat
         /\ \A c \in Calls : c.number \in Nat /\ c.dongle \in Nat
         /\ calls # <<>> => Head(calls) \in Calls /\ Head(calls) = calls[1] /\ 1 \in 1..Len(calls)
<1>1. caller.number \in Nat /\ hand.number \in Nat
  BY DEF Typed, SerialTyped, ManagerTyped, Calls
<1>2. dongle \in Nat
  BY BleuioLimits DEF Typed, StateTyped
<1>3. calls # <<>> => Head(calls) \in Calls /\ Head(calls) = calls[1] /\ 1 \in 1..Len(calls)
  BY TailOf DEF Typed, ChannelsTyped
<1> QED BY <1>1, <1>2, <1>3 DEF Calls

\* The dongle, and a new one.
LEMMA DongleControl ==
  ASSUME Typed, ControlOK, ScanReports \/ Detach \/ StartManager
  PROVE  ControlOK'
<1> USE DEF ControlOK
<1>1. CASE ScanReports
  <2> USE <1>1 DEF ScanReports
  <2>1. ManagerOK'
    BY DEF ManagerOK
  <2>2. QueueOK'
    BY KeepQueue DEF CallOK, FreshOpen
  <2> QED BY <2>1, <2>2 DEF WaitsOK, SessionOK
<1>2. CASE Detach
  <2> USE <1>2 DEF Detach
  <2>1. ManagerOK'
    BY DEF ManagerOK
  <2>2. QueueOK'
    BY KeepQueue DEF CallOK, FreshOpen
  <2> QED BY <2>1, <2>2 DEF WaitsOK, SessionOK
<1>3. CASE StartManager
  <2> USE <1>3 DEF StartManager, ScanStarts
  <2>1. ManagerOK'
    BY SessionNumbers DEF ManagerOK, InHand
  <2>2. \A c \in Calls : CallOK(c) => CallOK(c)'
    BY NumbersTyped DEF CallOK, FreshOpen, InHand
  <2>3. QueueOK'
    BY <2>2, KeepQueue
  <2> QED BY <2>1, <2>3, SessionNumbers DEF WaitsOK, SessionOK
<1> QED BY <1>1, <1>2, <1>3

\* bleuio_usb_in.
LEMMA UsbInControl ==
  ASSUME Typed, ControlOK, UsbInNext \/ ReadFails
  PROVE  ControlOK'
<1> USE DEF ControlOK
<1>1. CASE ReadUnit
  <2> USE <1>1 DEF ReadUnit
  <2>1. ManagerOK'
    BY DEF ManagerOK
  <2>2. QueueOK'
    BY KeepQueue DEF CallOK, FreshOpen
  <2> QED BY <2>1, <2>2 DEF WaitsOK, SessionOK
<1>2. CASE Forward
  <2> USE <1>2 DEF Forward
  <2>1. ManagerOK'
    BY DEF ManagerOK
  <2>2. QueueOK'
    BY KeepQueue DEF CallOK, FreshOpen
  <2> QED BY <2>1, <2>2 DEF WaitsOK, SessionOK
<1>3. CASE ReadFails
  <2> USE <1>3 DEF ReadFails
  <2>1. ManagerOK'
    BY DEF ManagerOK, InHand, Running
  <2>2. \A c \in Calls : CallOK(c) => CallOK(c)'
    BY DEF CallOK, FreshOpen, InHand, Running
  <2>3. QueueOK'
    BY <2>2, KeepQueue
  <2> QED BY <2>1, <2>3 DEF WaitsOK, SessionOK
<1> QED BY <1>1, <1>2, <1>3 DEF UsbInNext

\* bleuio_commands_and_out: an open.
LEMMA OpenControl ==
  ASSUME Typed, ControlOK, BeginOpen \/ StopScan \/ FinishOpen
  PROVE  ControlOK'
<1> USE DEF ControlOK
<1>1. CASE BeginOpen
  <2> USE <1>1 DEF BeginOpen
  <2>1. /\ serial = "open" /\ Head(calls).number = caller.number /\ closed = 0
        /\ Head(calls).number <= caller.number
    BY NumbersTyped DEF MayOpen, Current, QueueOK, CallOK, FreshOpen
  <2>2. calls' = <<>>
    <3>1. ASSUME Len(calls) >= 2 PROVE FALSE
      <4>1. Len(calls) \in Nat /\ 2 \in 1..Len(calls) /\ calls[2] \in Calls
        BY <3>1 DEF Typed, ChannelsTyped
      <4>2. calls[1].number < calls[2].number /\ calls[2].number <= caller.number
        BY <4>1 DEF QueueOK, CallOK
      <4> QED BY <2>1, <4>1, <4>2, NumbersTyped
    <3> QED BY <3>1 DEF Typed, ChannelsTyped
  <2>3. ManagerOK'
    BY <2>1, <2>2, SessionNumbers DEF ManagerOK, InHand
  <2>4. QueueOK'
    <3>1. 1..Len(calls') = {}
      BY <2>2
    <3> QED BY <3>1 DEF QueueOK
  <2> QED BY <2>3, <2>4, SessionNumbers DEF WaitsOK, SessionOK
<1>2. CASE StopScan
  <2> USE <1>2 DEF StopScan
  <2>1. serial = "open" /\ hand.number = caller.number /\ calls = <<>>
        /\ active_session = QUIESCING
    BY DEF ManagerOK, InHand
  <2>2. SerialTyped /\ 0 \in Sessions \cup {0}
    BY DEF Typed
  <2>3. ManagerOK'
    BY <2>1, SessionNumbers DEF ManagerOK, InHand
  <2>4. QueueOK'
    BY <2>1 DEF QueueOK
  <2>5. WaitsOK'
    BY <2>2, AnswerEffect DEF WaitsOK
  <2> QED BY <2>1, <2>3, <2>4, <2>5, SessionNumbers DEF SessionOK
<1>3. CASE FinishOpen
  <2> USE <1>3 DEF FinishOpen
  <2>1. serial = "open" /\ hand.number = caller.number /\ calls = <<>>
        /\ active_session = QUIESCING /\ scan = 0 /\ closed = 0 /\ caller.waits
    BY SessionNumbers DEF ManagerOK, InHand, WaitsOK
  <2>2. NextSession \in Sessions /\ SerialTyped /\ NextSession # 0
    BY NextSessionIsOne, SessionNumbers DEF Typed, ManagerTyped
  <2>3. held' = NextSession /\ serial' = "stream" /\ ~caller'.waits
    BY <2>1, <2>2, AnswerEffect
  <2>4. ManagerOK'
    BY <2>1, <2>2, SessionNumbers DEF ManagerOK, InHand
  <2>5. QueueOK'
    BY <2>1 DEF QueueOK
  <2> QED BY <2>1, <2>3, <2>4, <2>5 DEF WaitsOK, SessionOK
<1> QED BY <1>1, <1>2, <1>3

\* An answer leaves a call alone that has been placed after the one it answers.
LEMMA AnswerKeepsCall ==
  ASSUME Typed, WaitsOK, NEW command \in Calls, Answer(command, 0), NEW c \in Calls,
         CallOK(c), command.number < c.number,
         UNCHANGED <<dongle, closed>>,
         manager' # "none" => manager # "none",
         manager' \in InHand => hand'.number < c.number
  PROVE  CallOK(c)'
<1>1. SerialTyped /\ 0 \in Sessions \cup {0}
  BY DEF Typed
<1>2. caller'.number = caller.number
  BY <1>1, AnswerEffect
<1>3. FreshOpen(c) => serial' = serial
  BY <1>1, AnswerEffect, NumbersTyped DEF CallOK
<1> QED BY <1>2, <1>3 DEF CallOK, FreshOpen

\* bleuio_commands_and_out: a close.
LEMMA CloseControl ==
  ASSUME Typed, ControlOK, BeginClose \/ RestartScan \/ FinishClose
  PROVE  ControlOK'
<1> USE DEF ControlOK
<1>0. SerialTyped /\ 0 \in Sessions \cup {0}
  BY DEF Typed
<1>1. CASE BeginClose
  <2> USE <1>1 DEF BeginClose
  <2>1. /\ Head(calls) \in Calls /\ Head(calls).number <= caller.number
        /\ active_session \in Sessions /\ active_session # 0 /\ closed = 0
        /\ active_session' = QUIESCING
    BY NumbersTyped, SessionNumbers DEF QueueOK, CallOK, ClosesActive, ManagerOK
  <2>2. CASE ready /\ bridge_connected
    <3>1. ManagerOK'
      BY <2>1, <2>2, SessionNumbers DEF ManagerOK, InHand
    <3>2. \A c \in Calls : CallOK(c) /\ Head(calls).number < c.number => CallOK(c)'
      BY <2>1, <2>2 DEF CallOK, FreshOpen, InHand
    <3>3. QueueOK'
      BY <3>2, DropCall
    <3> QED BY <2>1, <2>2, <3>1, <3>3, SessionNumbers DEF WaitsOK, SessionOK
  <2>3. CASE ~(ready /\ bridge_connected)
    <3>1. ManagerOK'
      BY <2>1, <2>3, SessionNumbers DEF ManagerOK, InHand
    <3>2. \A c \in Calls : CallOK(c) /\ Head(calls).number < c.number => CallOK(c)'
      BY <2>1, <2>3, AnswerKeepsCall DEF InHand
    <3>3. QueueOK'
      BY <3>2, DropCall
    <3>4. WaitsOK'
      BY <1>0, <2>3, AnswerEffect DEF WaitsOK
    <3> QED BY <2>1, <3>1, <3>3, <3>4, SessionNumbers DEF SessionOK
  <2> QED BY <2>2, <2>3
<1>2. CASE RestartScan
  <2> USE <1>2 DEF RestartScan
  <2>1. active_session = QUIESCING /\ hand \in Calls
    BY DEF ManagerOK, InHand, Typed, ManagerTyped
  <2>2. caller'.number = caller.number
    BY <1>0, AnswerEffect
  <2>3. ManagerOK'
    BY <2>1, <2>2, SessionNumbers DEF ManagerOK, InHand
  <2>4. \A c \in Calls : CallOK(c) => CallOK(c)'
    <3>1. CASE manager' = "closeQuiet" /\ UNCHANGED <<hand, caller, held, serial>>
      BY <3>1 DEF CallOK, FreshOpen, InHand
    <3>2. CASE manager' = "failed" /\ Answer(hand, 0)
      <4>1. \A c \in Calls : CallOK(c) => hand.number < c.number
        BY DEF CallOK, InHand
      <4> QED BY <2>1, <3>2, <4>1, AnswerKeepsCall DEF InHand
    <3> QED BY <3>1, <3>2
  <2>5. QueueOK'
    BY <2>4, KeepQueue
  <2>6. WaitsOK'
    BY <1>0, AnswerEffect DEF WaitsOK
  <2> QED BY <2>1, <2>3, <2>5, <2>6, SessionNumbers DEF SessionOK
<1>3. CASE FinishClose
  <2> USE <1>3 DEF FinishClose
  <2>1. active_session = QUIESCING /\ hand \in Calls
    BY DEF ManagerOK, InHand, Typed, ManagerTyped
  <2>2. ManagerOK'
    BY <2>1, SessionNumbers DEF ManagerOK, InHand
  <2>3. \A c \in Calls : CallOK(c) => hand.number < c.number
    BY DEF CallOK, InHand
  <2>4. \A c \in Calls : CallOK(c) => CallOK(c)'
    BY <2>1, <2>3, AnswerKeepsCall DEF InHand
  <2>5. QueueOK'
    BY <2>4, KeepQueue
  <2>6. WaitsOK'
    BY <1>0, AnswerEffect DEF WaitsOK
  <2> QED BY <2>2, <2>5, <2>6, SessionNumbers DEF SessionOK
<1> QED BY <1>1, <1>2, <1>3

\* The other steps of bleuio_commands_and_out, and the end of the manager.
LEMMA OtherControl ==
  ASSUME Typed, ControlOK, RejectCall \/ TakeFrame \/ WriteFrame \/ EndManager
  PROVE  ControlOK'
<1> USE DEF ControlOK
<1>0. SerialTyped /\ 0 \in Sessions \cup {0}
  BY DEF Typed
<1>1. CASE RejectCall
  <2> USE <1>1 DEF RejectCall
  <2>1. Head(calls) \in Calls /\ caller'.number = caller.number
        /\ manager \notin InHand
    BY <1>0, NumbersTyped, AnswerEffect DEF InHand
  <2>2. ManagerOK'
    BY <2>1 DEF ManagerOK, InHand
  <2>3. \A c \in Calls : CallOK(c) /\ Head(calls).number < c.number => CallOK(c)'
    BY <2>1, AnswerKeepsCall
  <2>4. QueueOK'
    BY <2>3, DropCall
  <2>5. WaitsOK'
    BY <1>0, AnswerEffect DEF WaitsOK
  <2>6. ~(attached /\ active_session \in Sessions)
    BY NumbersTyped, SessionNumbers DEF SessionOK, ManagerOK, ClosesActive
  <2> QED BY <2>2, <2>4, <2>5, <2>6 DEF SessionOK
<1>2. CASE TakeFrame
  <2> USE <1>2 DEF TakeFrame
  <2>1. Head(toUsb) \in Sessions
    BY TailOf DEF Typed, ChannelsTyped
  <2>2. ManagerOK'
    BY <2>1 DEF ManagerOK, InHand
  <2>3. \A c \in Calls : CallOK(c) => CallOK(c)'
    BY DEF CallOK, FreshOpen, InHand
  <2>4. QueueOK'
    BY <2>3, KeepQueue
  <2> QED BY <2>2, <2>4 DEF WaitsOK, SessionOK
<1>3. CASE WriteFrame
  <2> USE <1>3 DEF WriteFrame
  <2>1. ManagerOK'
    BY DEF ManagerOK, InHand
  <2>2. \A c \in Calls : CallOK(c) => CallOK(c)'
    BY DEF CallOK, FreshOpen, InHand
  <2>3. QueueOK'
    BY <2>2, KeepQueue
  <2> QED BY <2>1, <2>3 DEF WaitsOK, SessionOK
<1>4. CASE EndManager
  <2> USE <1>4 DEF EndManager
  <2>1. ManagerOK'
    BY SessionNumbers DEF ManagerOK, InHand
  <2>2. \A c \in Calls : CallOK(c) => CallOK(c)'
    BY DEF CallOK, FreshOpen, InHand
  <2>3. QueueOK'
    BY <2>2, KeepQueue
  <2> QED BY <2>1, <2>3, SessionNumbers DEF WaitsOK, SessionOK
<1> QED BY <1>1, <1>2, <1>3, <1>4

\* usb_serial_task and its client: what it does without a call.
LEMMA SerialControl ==
  ASSUME Typed, ControlOK,
         DeliverFrame \/ GiveUp \/ FlushTcp \/ ClientSends \/ ClientLeaves
  PROVE  ControlOK'
<1> USE DEF ControlOK
<1>1. CASE DeliverFrame
  <2> USE <1>1 DEF DeliverFrame
  <2>1. ManagerOK'
    BY DEF ManagerOK
  <2>2. QueueOK'
    BY KeepQueue DEF CallOK, FreshOpen
  <2> QED BY <2>1, <2>2 DEF WaitsOK, SessionOK
<1>2. CASE ClientSends
  <2> USE <1>2 DEF ClientSends
  <2>1. ManagerOK'
    BY DEF ManagerOK
  <2>2. QueueOK'
    BY KeepQueue DEF CallOK, FreshOpen
  <2> QED BY <2>1, <2>2 DEF WaitsOK, SessionOK
<1>3. CASE ClientLeaves
  <2> USE <1>3 DEF ClientLeaves
  <2>1. ManagerOK'
    BY DEF ManagerOK
  <2>2. QueueOK'
    BY KeepQueue DEF CallOK, FreshOpen
  <2> QED BY <2>1, <2>2 DEF WaitsOK, SessionOK
<1>4. CASE FlushTcp
  <2> USE <1>4 DEF FlushTcp
  <2>1. ManagerOK'
    BY DEF ManagerOK
  <2>2. QueueOK'
    BY KeepQueue DEF CallOK, FreshOpen
  <2> QED BY <2>1, <2>2 DEF WaitsOK, SessionOK
<1>5. CASE GiveUp
  <2> USE <1>5 DEF GiveUp
  <2>1. caller.waits /\ caller'.number = caller.number /\ ~caller'.waits
    BY DEF MayGiveUp, Typed, SerialTyped
  <2>2. manager \notin {"stop", "openQuiet"}
    BY DEF ManagerOK, MayGiveUp
  <2>3. ManagerOK'
    BY <2>1, <2>2 DEF ManagerOK
  <2>4. QueueOK'
    <3>1. CASE Queued
      <4>1. \A c \in Calls : CallOK(c) => CallOK(c)'
        BY <2>1, <3>1 DEF MayGiveUp, CallOK, FreshOpen
      <4> QED BY <4>1, KeepQueue
    <3>2. CASE ~Queued
      <4>1. ASSUME NEW i \in 1..Len(calls) PROVE CallOK(calls[i])'
        <5>1. CallOK(calls[i]) /\ calls[i].number # caller.number
          BY <3>2, <4>1 DEF Queued, QueueOK
        <5>2. \A c : CallOK(c) /\ c.number # caller.number => CallOK(c)'
          BY <2>1 DEF CallOK, FreshOpen
        <5>3. \A c : c = calls[i] => CallOK(c)'
          BY <5>1, <5>2
        <5> QED BY <5>3
      <4> QED BY <4>1 DEF QueueOK
    <3> QED BY <3>1, <3>2
  <2>5. ~(attached /\ active_session \in Sessions)
    <3>1. ASSUME attached, active_session \in Sessions PROVE FALSE
      <4>1. manager # "none" /\ serial = "close" /\ 1 \in 1..Len(calls)
            /\ calls[1].number = caller.number
        BY <2>1, <3>1, SessionNumbers DEF ManagerOK, SessionOK, WaitsOK
      <4> QED BY <4>1 DEF MayGiveUp, Queued
    <3> QED BY <3>1
  <2> QED BY <2>1, <2>3, <2>4, <2>5 DEF WaitsOK, SessionOK
<1> QED BY <1>1, <1>2, <1>3, <1>4, <1>5

\* usb_serial_task closes the bridge.
LEMMA CloseBridgeControl ==
  ASSUME Typed, ControlOK, serial = "stream", CloseBridge,
         UNCHANGED <<dongleVars, stateVars, managerVars>>,
         closed' = 0 \/ closed' = closed, calls' = calls \/ ready
  PROVE  ControlOK'
<1> USE DEF ControlOK
<1>0. held \in Sessions /\ held \in Nat /\ held \in Sessions \cup {0} /\ "close" \in SerialStates
  BY SessionNumbers DEF Typed, SerialTyped, SerialStates
<1>1. PlaceCall("close", held, "close")
  BY DEF CloseBridge
<1>2. caller'.number = caller.number + 1 /\ caller'.waits = ready
  BY <1>0, <1>1, PlaceEffect
<1>3. manager \notin {"stop", "openQuiet"}
  BY DEF ManagerOK
<1>4. ManagerOK'
  BY <1>2, <1>3, NumbersTyped DEF ManagerOK
<1>5. \A c \in Calls : CallOK(c) => CallOK(c)'
  BY <1>2, NumbersTyped DEF CallOK, FreshOpen
<1>6. QueueOK'
  <2>1. CASE ready
    <3>0. [operation |-> "close", session |-> held, dongle |-> dongle,
           number |-> caller.number + 1] \in Calls
      BY <1>0, NumbersTyped DEF Calls
    <3>1. PICK e \in Calls : e = [operation |-> "close", session |-> held,
                                   dongle |-> dongle, number |-> caller.number + 1]
      BY <3>0, Zenon
    <3>2. /\ e.operation = "close" /\ e.session = held /\ e.dongle = dongle
          /\ e.number = caller.number + 1
          /\ calls' = Append(calls, e) /\ caller.number < e.number
      BY <1>1, <2>1, <3>1, NumbersTyped DEF PlaceCall
    <3>3. manager \in InHand => hand.number < e.number
      BY <3>2, NumbersTyped DEF ManagerOK
    <3>4. CallOK(e)'
      BY <1>0, <1>2, <3>2, <3>3, NumbersTyped DEF CallOK, FreshOpen
    <3> QED BY <1>5, <3>2, <3>4, AddCall
  <2>2. CASE ~ready
    BY <1>1, <1>5, <2>2, KeepQueue DEF PlaceCall
  <2> QED BY <2>1, <2>2
<1>7. WaitsOK'
  BY <1>1, <1>2 DEF WaitsOK, CloseBridge, PlaceCall
<1>8. SessionOK'
  <2> SUFFICES ASSUME attached, active_session \in Sessions PROVE SessionOK'
    BY DEF SessionOK
  <2>1. ready /\ calls = <<>> /\ held = active_session
    BY SessionNumbers DEF ManagerOK, SessionOK
  <2>2. /\ calls' = Append(<<>>, [operation |-> "close", session |-> held,
                                  dongle |-> dongle, number |-> caller.number + 1])
        /\ serial' = "close" /\ held' = held
    BY <1>1, <2>1 DEF PlaceCall, CloseBridge
  <2> QED BY <1>2, <2>1, <2>2 DEF SessionOK
<1> QED BY <1>4, <1>6, <1>7, <1>8

\* usb_serial_task opens and closes the bridge.
LEMMA CallControl ==
  ASSUME Typed, ControlOK, ClientEnds \/ BridgeClosed \/ AcceptTcp
  PROVE  ControlOK'
<1>1. CASE ClientEnds
  BY <1>1, CloseBridgeControl DEF ClientEnds, CloseBridge, PlaceCall
<1>2. CASE BridgeClosed
  <2> USE <1>2 DEF BridgeClosed
  <2>1. active_session = 0
    BY DEF ControlOK, ManagerOK
  <2>2. CASE closed # held
    <3>1. ManagerOK'
      BY <2>2 DEF ControlOK, ManagerOK
    <3>2. QueueOK'
      BY <2>2, KeepQueue DEF ControlOK, CallOK, FreshOpen
    <3> QED BY <2>2, <3>1, <3>2 DEF ControlOK, WaitsOK, SessionOK
  <2>3. CASE closed = held /\ serial = "stream"
    BY <2>3, CloseBridgeControl DEF CloseBridge, PlaceCall
  <2>4. CASE closed = held /\ serial = "close"
    <3> USE <2>4 DEF ControlOK
    <3>1. caller'.number = caller.number /\ ~caller'.waits
      BY DEF Typed, SerialTyped
    <3>2. ManagerOK'
      BY <3>1 DEF ManagerOK
    <3>3. QueueOK'
      BY <3>1, KeepQueue DEF CallOK, FreshOpen
    <3> QED BY <2>1, <3>1, <3>2, <3>3, SessionNumbers DEF WaitsOK, SessionOK
  <2> QED BY <2>2, <2>3, <2>4
<1>3. CASE AcceptTcp
  <2> USE <1>3 DEF AcceptTcp, ControlOK
  <2>0. 0 \in Sessions \cup {0} /\ "open" \in SerialStates /\ 0 \in Nat
    BY DEF SerialStates
  <2>1. PlaceCall("open", 0, "open")
    OBVIOUS
  <2>2. caller'.number = caller.number + 1 /\ caller'.waits = ready
    BY <2>0, <2>1, PlaceEffect
  <2>3. manager \notin {"stop", "openQuiet"}
    BY DEF ManagerOK
  <2>4. ManagerOK'
    BY <2>2, <2>3, NumbersTyped DEF ManagerOK
  <2>5. \A c \in Calls : CallOK(c) => CallOK(c)'
    BY <2>2, NumbersTyped DEF CallOK, FreshOpen
  <2>6. QueueOK'
    <3>1. CASE ready
      <4>0. [operation |-> "open", session |-> 0, dongle |-> dongle,
             number |-> caller.number + 1] \in Calls
        BY <2>0, NumbersTyped DEF Calls
      <4>1. PICK e \in Calls : e = [operation |-> "open", session |-> 0,
                                     dongle |-> dongle, number |-> caller.number + 1]
        BY <4>0, Zenon
      <4>2. serial' = "open"
        BY <2>1, <3>1 DEF PlaceCall
      <4>3. /\ e.operation = "open" /\ e.dongle = dongle
            /\ e.number = caller.number + 1
            /\ calls' = Append(calls, e) /\ caller.number < e.number
        BY <2>1, <3>1, <4>1, NumbersTyped DEF PlaceCall
      <4>4. manager \in InHand => hand.number < e.number
        BY <4>3, NumbersTyped DEF ManagerOK
      <4>5. CallOK(e)'
        BY <2>2, <4>2, <4>3, <4>4, NumbersTyped DEF CallOK, FreshOpen
      <4> QED BY <2>5, <4>3, <4>5, AddCall
    <3>2. CASE ~ready
      BY <2>1, <2>5, <3>2, KeepQueue DEF PlaceCall
    <3> QED BY <3>1, <3>2
  <2>7. WaitsOK'
    BY <2>1, <2>2 DEF WaitsOK, PlaceCall
  <2>8. ~(attached /\ active_session \in Sessions)
    BY DEF SessionOK
  <2> QED BY <2>4, <2>6, <2>7, <2>8 DEF SessionOK
<1> QED BY <1>1, <1>2, <1>3

-----------------------------------------------------------------------------
\* A unit is known by its owner: the scan that reported it, or the session that
\* it is an answer to.
Scanned(n) == [kind |-> "scan", of |-> n]
Answered(s) == [kind |-> "raw", of |-> s]

\* What a client is given is an answer of its own session.
Honest(delivery) == delivery.unit.kind = "raw" /\ delivery.unit.of = delivery.session
HonestFrames ==
  /\ Honest(blocked) /\ Honest(delivered)
  /\ \A i \in 1..Len(toTcp) : Honest(toTcp[i])

\* A frame that waits for room does not wait for a client that is not there.
NotStuck == serial \in {"accept", "open"} => blocked = NoDelivery \/ toTcp = <<>>

\* What the dongle has buffered: the answers of the session, or reports of the
\* scan that runs, or, while it changes over, anything.
UnitOK(unit) ==
  /\ unit.kind = "scan" => unit.of # 0
  /\ active_session \in Sessions => Owner(unit) = Answered(active_session)
  /\ active_session = 0 /\ ready => Owner(unit) = Scanned(scan)
OutputOK == \A i \in 1..Len(output) : UnitOK(output[i])

\* What the parser holds belongs to the scan that runs.
ParserOK == active_session = 0 /\ ready => FreshParser \subseteq {Scanned(scan)}
CatalogOK == \E n \in Nat : published \subseteq {Scanned(n)}

StreamOK == HonestFrames /\ NotStuck /\ OutputOK /\ ParserOK /\ CatalogOK

\* The units that stay are as good as they were.
LEMMA KeepOutput ==
  ASSUME Typed, OutputOK, output' = output, \A u \in Units : UnitOK(u) => UnitOK(u)'
  PROVE  OutputOK'
<1>1. ASSUME NEW i \in 1..Len(output) PROVE UnitOK(output[i])'
  <2>1. output[i] \in Units /\ UnitOK(output[i])
    BY <1>1 DEF Typed, DongleTyped, OutputOK
  <2>2. \A u : u = output[i] => UnitOK(u)'
    BY <2>1
  <2> QED BY <2>2
<1> QED BY <1>1 DEF OutputOK

\* A unit is buffered.
LEMMA AddUnit ==
  ASSUME Typed, OutputOK, NEW e \in Units, output' = Append(output, e), UnitOK(e),
         UNCHANGED <<scan, ready, active_session>>
  PROVE  OutputOK'
<1>1. \A i \in 1..Len(output') : \/ i \in 1..Len(output) /\ output'[i] = output[i]
                                 \/ i = Len(output) + 1 /\ output'[i] = e
  BY AppendOf DEF Typed, DongleTyped
<1>2. \A u : UnitOK(u) => UnitOK(u)'
  BY DEF UnitOK
<1>3. ASSUME NEW i \in 1..Len(output') PROVE UnitOK(output[i])'
  <2>1. UnitOK(output'[i])
    BY <1>1, <1>3 DEF OutputOK
  <2>2. \A u : u = output'[i] => UnitOK(u)'
    BY <1>2, <2>1
  <2> QED BY <2>2
<1> QED BY <1>3 DEF OutputOK

\* There is nothing to say of a dongle that has buffered nothing.
LEMMA NoOutput ==
  ASSUME output' = <<>> PROVE OutputOK'
<1>1. 1..Len(output') = {}
  OBVIOUS
<1> QED BY <1>1 DEF OutputOK

\* The frames on their way stay where they are.
LEMMA KeepFrames ==
  ASSUME HonestFrames, UNCHANGED <<blocked, delivered, toTcp>>
  PROVE  HonestFrames'
BY DEF HonestFrames, Honest

\* Nothing is read.
LEMMA KeepParser ==
  ASSUME ParserOK, CatalogOK,
         UNCHANGED <<scan, parser, seen_epoch, parser_epoch, published>>,
         active_session' = 0 /\ ready' => active_session = 0 /\ ready
  PROVE  ParserOK' /\ CatalogOK'
<1>1. CatalogOK'
  BY DEF CatalogOK, Scanned
<1> QED BY <1>1 DEF ParserOK, FreshParser, Scanned

\* No bridge is full and without a client while the dongle changes over.
LEMMA DrainedOutput ==
  ASSUME Typed, NotStuck, Drained, attached
  PROVE  \A i \in 1..Len(output) : Owner(output[i]) = Scanned(scan)
<1>1. ~Stuck
  <2>1. toTcp = <<>> => Len(toTcp) = 0
    OBVIOUS
  <2> QED BY <2>1, BleuioLimits DEF NotStuck, Stuck
<1> QED BY <1>1 DEF Drained, Scanned

\* The dongle, and a new one.
LEMMA DongleStream ==
  ASSUME Typed, ControlOK, StreamOK, ScanReports \/ Detach \/ StartManager
  PROVE  StreamOK'
<1> USE DEF StreamOK
<1>1. CASE ScanReports
  <2> USE <1>1 DEF ScanReports
  <2>1. PICK e \in Units : e = [kind |-> "scan", of |-> scan, ends |-> midline]
    BY ConstantsTyped DEF Typed, DongleTyped
  <2>2. UnitOK(e)
    BY <2>1, SessionNumbers DEF UnitOK, Owner, Scanned, ControlOK, ManagerOK
  <2>3. OutputOK'
    BY <2>1, <2>2, AddUnit
  <2> QED BY <2>3, KeepFrames, KeepParser DEF NotStuck
<1>2. CASE Detach
  <2> USE <1>2 DEF Detach
  <2>1. ParserOK' /\ CatalogOK'
    BY DEF ParserOK, CatalogOK, Scanned
  <2> QED BY <2>1, NoOutput, KeepFrames DEF NotStuck
<1>3. CASE StartManager
  <2> USE <1>3 DEF StartManager
  <2>1. ParserOK' /\ CatalogOK'
    BY DEF ParserOK, CatalogOK, FreshParser, Scanned
  <2>2. HonestFrames' /\ NotStuck'
    BY DEF HonestFrames, Honest, NoDelivery, NoUnit, NotStuck
  <2> QED BY <2>1, <2>2, NoOutput
<1> QED BY <1>1, <1>2, <1>3

\* bleuio_usb_in.
LEMMA UsbInStream ==
  ASSUME Typed, ControlOK, StreamOK, UsbInNext \/ ReadFails
  PROVE  StreamOK'
<1> USE DEF StreamOK
<1>1. CASE ReadUnit
  <2> USE <1>1 DEF ReadUnit
  <2>1. /\ Head(output) \in Units /\ UnitOK(Head(output))
        /\ \A i \in 1..Len(output') : i + 1 \in 1..Len(output) /\ output'[i] = output[i + 1]
    <3>1. output \in Seq(Units) /\ output # <<>>
      BY DEF Typed, DongleTyped
    <3>2. Len(output) >= 1 /\ Head(output) \in Units /\ Head(output) = output[1]
      BY <3>1, TailOf
    <3>3. 1 \in 1..Len(output)
      BY <3>1, <3>2
    <3> QED BY <3>1, <3>2, <3>3, TailOf DEF OutputOK
  <2>2. OutputOK'
    <3>1. ASSUME NEW i \in 1..Len(output') PROVE UnitOK(output[i])'
      <4>1. UnitOK(output'[i])
        BY <2>1, <3>1 DEF OutputOK
      <4>2. \A u : u = output'[i] => UnitOK(u)'
        BY <4>1 DEF UnitOK
      <4> QED BY <4>2
    <3> QED BY <3>1 DEF OutputOK
  <2>3. FreshParser' = parser'
    BY DEF FreshParser
  <2>4. HonestFrames'
    <3>1. active_session \notin {0, QUIESCING} =>
            Honest([session |-> active_session, unit |-> Head(output)])
      BY <2>1 DEF Honest, UnitOK, Owner, Answered, Typed, ManagerTyped
    <3>2. Honest(NoDelivery)
      BY DEF Honest, NoDelivery, NoUnit
    <3>3. Honest(blocked)'
      <4>1. \A d : Honest(d) <=> Honest(d)'
        BY DEF Honest
      <4>2. blocked' = NoDelivery \/
              /\ active_session \notin {0, QUIESCING}
              /\ blocked' = [session |-> active_session, unit |-> Head(output)]
        OBVIOUS
      <4>3. Honest(blocked')
        BY <3>1, <3>2, <4>2
      <4> QED BY <4>3 DEF Honest
    <3> QED BY <3>3 DEF HonestFrames, Honest
  <2>5. NotStuck'
    BY SessionNumbers DEF NotStuck, ControlOK, SessionOK, Typed, ManagerTyped
  <2>6. ParserOK' /\ CatalogOK'
    <3>1. CASE active_session = 0
      <4>1. FreshParser \subseteq {Scanned(scan)} /\ Owner(Head(output)) = Scanned(scan)
        BY <2>1, <3>1 DEF ParserOK, UnitOK
      <4>2. Line(Head(output)) \subseteq {Scanned(scan)}
        BY <4>1 DEF Line
      <4>3. parser' \subseteq {Scanned(scan)}
            /\ (published' = published \/ published' \subseteq {Scanned(scan)})
        BY <3>1, <4>2 DEF Ingest, Remainder
      <4>4. scan \in Nat
        BY DEF Typed, DongleTyped
      <4> QED BY <2>3, <4>3, <4>4 DEF ParserOK, CatalogOK, Scanned
    <3>2. CASE active_session # 0
      BY <3>2 DEF ParserOK, CatalogOK, Scanned
    <3> QED BY <3>1, <3>2
  <2> QED BY <2>2, <2>4, <2>5, <2>6
<1>2. CASE Forward
  <2> USE <1>2 DEF Forward
  <2>1. HonestFrames'
    <3>1. \A i \in 1..Len(toTcp') : \/ i \in 1..Len(toTcp) /\ toTcp'[i] = toTcp[i]
                                    \/ toTcp'[i] = blocked
      BY AppendOf DEF Typed, ChannelsTyped, ParserTyped
    <3> QED BY <3>1 DEF HonestFrames, Honest, NoDelivery, NoUnit
  <2>2. OutputOK'
    BY KeepOutput DEF UnitOK
  <2> QED BY <2>1, <2>2, KeepParser DEF NotStuck
<1>3. CASE ReadFails
  <2> USE <1>3 DEF ReadFails
  <2>1. OutputOK'
    BY KeepOutput DEF UnitOK
  <2> QED BY <2>1, KeepFrames, KeepParser DEF NotStuck
<1> QED BY <1>1, <1>2, <1>3 DEF UsbInNext

\* A task that is answered has no client any more, or still has it.
LEMMA AnswerNotStuck ==
  ASSUME Typed, NotStuck, UNCHANGED <<blocked, toTcp>>,
         serial' = serial \/ serial' \notin {"accept", "open"}
  PROVE  NotStuck'
BY DEF NotStuck

\* bleuio_commands_and_out.
LEMMA CommandStream ==
  ASSUME Typed, ControlOK, StreamOK, CommandNext \/ EndManager
  PROVE  StreamOK'
<1> USE DEF StreamOK
<1>0. SerialTyped /\ 0 \in Sessions \cup {0} /\ NextSession \in Sessions
  BY NextSessionIsOne DEF Typed, ManagerTyped
<1>1. CASE BeginOpen
  <2> USE <1>1 DEF BeginOpen
  <2>1. OutputOK'
    BY KeepOutput, SessionNumbers DEF UnitOK
  <2>2. ParserOK' /\ CatalogOK'
    BY SessionNumbers DEF ParserOK, CatalogOK, Scanned
  <2> QED BY <2>1, <2>2, KeepFrames DEF NotStuck
<1>2. CASE StopScan
  <2> USE <1>2 DEF StopScan
  <2>1. active_session = QUIESCING
    BY DEF ControlOK, ManagerOK, InHand
  <2>2. OutputOK'
    BY <2>1, KeepOutput, SessionNumbers DEF UnitOK
  <2>3. ParserOK' /\ CatalogOK'
    BY <2>1, SessionNumbers DEF ParserOK, CatalogOK, Scanned
  <2>4. NotStuck'
    BY <1>0, AnswerEffect, AnswerNotStuck
  <2> QED BY <2>2, <2>3, <2>4, KeepFrames
<1>3. CASE FinishOpen
  <2> USE <1>3 DEF FinishOpen
  <2>1. active_session' \in Sessions /\ active_session' # 0 /\ scan = 0
    BY <1>0, SessionNumbers DEF ControlOK, ManagerOK
  <2>2. 1..Len(output) = {}
    <3>1. CASE attached
      <4>1. ASSUME NEW i \in 1..Len(output) PROVE FALSE
        <5>1. Owner(output[i]) = Scanned(0) /\ UnitOK(output[i])
          BY <2>1, <3>1, DrainedOutput DEF OutputOK
        <5> QED BY <5>1 DEF Owner, Scanned, UnitOK
      <4> QED BY <4>1
    <3>2. CASE ~attached
      BY <3>2 DEF ControlOK, ManagerOK
    <3> QED BY <3>1, <3>2
  <2>3. OutputOK'
    BY <2>2 DEF OutputOK
  <2>4. ParserOK' /\ CatalogOK'
    BY <2>1 DEF ParserOK, CatalogOK, Scanned
  <2>5. NotStuck'
    BY <1>0, AnswerEffect, AnswerNotStuck
  <2> QED BY <2>3, <2>4, <2>5, KeepFrames
<1>4. CASE BeginClose
  <2> USE <1>4 DEF BeginClose
  <2>1. OutputOK'
    BY KeepOutput, SessionNumbers DEF UnitOK
  <2>2. ParserOK' /\ CatalogOK'
    BY SessionNumbers DEF ParserOK, CatalogOK, Scanned
  <2>3. NotStuck'
    BY <1>0, AnswerEffect, AnswerNotStuck
  <2> QED BY <2>1, <2>2, <2>3, KeepFrames
<1>5. CASE RestartScan
  <2> USE <1>5 DEF RestartScan
  <2>1. active_session = QUIESCING
    BY DEF ControlOK, ManagerOK, InHand
  <2>2. OutputOK'
    BY <2>1, KeepOutput, SessionNumbers DEF UnitOK
  <2>3. ParserOK' /\ CatalogOK'
    BY <2>1, SessionNumbers DEF ParserOK, CatalogOK, Scanned
  <2>4. NotStuck'
    BY <1>0, AnswerEffect, AnswerNotStuck
  <2> QED BY <2>2, <2>3, <2>4, KeepFrames
<1>6. CASE FinishClose
  <2> USE <1>6 DEF FinishClose
  <2>1. OutputOK'
    <3>1. ASSUME NEW i \in 1..Len(output) PROVE UnitOK(output[i])'
      <4>1. UnitOK(output[i])
        BY <3>1 DEF OutputOK
      <4>2. ready => Owner(output[i]) = Scanned(scan)
        BY <3>1, DrainedOutput DEF ControlOK, ManagerOK
      <4>3. \A u : u = output[i] => UnitOK(u)'
        BY <4>1, <4>2, SessionNumbers DEF UnitOK, Scanned
      <4> QED BY <4>3
    <3> QED BY <3>1 DEF OutputOK
  <2>2. FreshParser' = {}
    BY DEF FreshParser, Typed, ParserTyped
  <2>3. ParserOK' /\ CatalogOK'
    BY <2>2 DEF ParserOK, CatalogOK, Scanned
  <2>4. NotStuck'
    BY <1>0, AnswerEffect, AnswerNotStuck
  <2> QED BY <2>1, <2>3, <2>4, KeepFrames
<1>7. CASE RejectCall
  <2> USE <1>7 DEF RejectCall
  <2>1. OutputOK'
    BY KeepOutput DEF UnitOK
  <2>2. NotStuck'
    BY <1>0, AnswerEffect, AnswerNotStuck
  <2> QED BY <2>1, <2>2, KeepFrames, KeepParser
<1>8. CASE TakeFrame
  <2> USE <1>8 DEF TakeFrame
  <2>1. OutputOK'
    BY KeepOutput DEF UnitOK
  <2> QED BY <2>1, KeepFrames, KeepParser DEF NotStuck
<1>9. CASE WriteFrame
  <2> USE <1>9 DEF WriteFrame
  <2>1. active_session \in Sessions /\ active_session \in Nat
    BY SessionNumbers DEF ControlOK, ManagerOK
  <2>2. PICK e \in Units : e = [kind |-> "raw", of |-> active_session, ends |-> TRUE]
    BY <2>1, ConstantsTyped
  <2>3. UnitOK(e)
    BY <2>1, <2>2, SessionNumbers DEF UnitOK, Owner, Answered
  <2>4. OutputOK'
    <3>1. CASE output' = output
      BY <3>1, KeepOutput DEF UnitOK
    <3>2. CASE output' = Append(output, e)
      BY <2>3, <3>2, AddUnit
    <3> QED BY <2>2, <3>1, <3>2
  <2> QED BY <2>4, KeepFrames, KeepParser DEF NotStuck
<1>10. CASE EndManager
  <2> USE <1>10 DEF EndManager
  <2>1. ~ready'
    BY DEF ControlOK, ManagerOK
  <2>2. OutputOK'
    BY <2>1, KeepOutput, SessionNumbers DEF UnitOK
  <2>3. ParserOK' /\ CatalogOK'
    BY <2>1 DEF ParserOK, CatalogOK, Scanned
  <2>4. HonestFrames' /\ NotStuck'
    BY DEF HonestFrames, Honest, NoDelivery, NoUnit, NotStuck
  <2> QED BY <2>2, <2>3, <2>4
<1> QED
  BY <1>1, <1>2, <1>3, <1>4, <1>5, <1>6, <1>7, <1>8, <1>9, <1>10 DEF CommandNext

\* usb_serial_task and its client.
LEMMA SerialStream ==
  ASSUME Typed, ControlOK, StreamOK,
         SerialNext \/ AcceptTcp \/ ClientSends \/ ClientLeaves
  PROVE  StreamOK'
<1> USE DEF StreamOK
<1>1. OutputOK' /\ ParserOK' /\ CatalogOK'
  <2>1. UNCHANGED <<dongleVars, stateVars, parserVars, managerVars>>
    BY DEF SerialNext, DeliverFrame, ClientEnds, BridgeClosed, GiveUp, FlushTcp, AcceptTcp,
       ClientSends, ClientLeaves
  <2> QED BY <2>1, KeepOutput, KeepParser DEF UnitOK
<1>2. CASE DeliverFrame
  <2> USE <1>2 DEF DeliverFrame
  <2>1. /\ toTcp \in Seq(Deliveries) /\ Head(toTcp) = toTcp[1] /\ 1 \in 1..Len(toTcp)
        /\ \A i \in 1..Len(toTcp') : i + 1 \in 1..Len(toTcp) /\ toTcp'[i] = toTcp[i + 1]
    BY TailOf DEF Typed, ChannelsTyped
  <2>2. HonestFrames'
    BY <2>1 DEF HonestFrames, Honest
  <2> QED BY <1>1, <2>2 DEF NotStuck
<1>3. CASE FlushTcp \/ AcceptTcp
  <2>1. toTcp' = <<>> /\ UNCHANGED <<blocked, delivered>>
    BY <1>3 DEF FlushTcp, AcceptTcp
  <2>2. 1..Len(toTcp') = {}
    BY <2>1
  <2> QED BY <1>1, <2>1, <2>2 DEF HonestFrames, Honest, NotStuck
<1>4. CASE ClientEnds \/ BridgeClosed \/ GiveUp \/ ClientSends \/ ClientLeaves
  <2>1. UNCHANGED <<toTcp, blocked, delivered>>
    BY <1>4 DEF ClientEnds, BridgeClosed, GiveUp, ClientSends, ClientLeaves
  <2>2. serial' = serial \/ serial' \notin {"accept", "open"}
    BY <1>4 DEF ClientEnds, BridgeClosed, CloseBridge, PlaceCall, GiveUp, ClientSends,
       ClientLeaves
  <2> QED BY <1>1, <2>1, <2>2, KeepFrames, AnswerNotStuck
<1> QED BY <1>2, <1>3, <1>4 DEF SerialNext

-----------------------------------------------------------------------------
(* A client has a scan started again at most once.                         *)

InSession == active_session \in Sessions \/ manager \in {"stop", "openQuiet", "restart"}
OpenWaits == \E i \in 1..Len(calls) : FreshOpen(calls[i])
ToRestart == IF InSession THEN 1 ELSE 0
ToOpen == IF OpenWaits THEN 1 ELSE 0
ScansOK == scans + ToRestart + ToOpen <= dongle + tcpClients

BleuioInv == Typed /\ ControlOK /\ StreamOK /\ ScansOK

\* Nothing is asked of the dongle that has not been counted.
LEMMA KeepScans ==
  ASSUME Typed, ScansOK, UNCHANGED <<scans, dongle, tcpClients>>,
         InSession' => InSession, OpenWaits' => OpenWaits
  PROVE  ScansOK'
<1>1. scans \in Nat /\ dongle \in Nat /\ tcpClients \in Nat
  BY BleuioLimits DEF Typed, DongleTyped, StateTyped, SerialTyped
<1>2. ToRestart' <= ToRestart /\ ToOpen' <= ToOpen
      /\ ToRestart \in 0..1 /\ ToOpen \in 0..1 /\ ToRestart' \in 0..1 /\ ToOpen' \in 0..1
  BY DEF ToRestart, ToOpen
<1>3. \A a, b, c, d \in 0..1, n, m, k \in Nat :
        c <= a /\ d <= b /\ n + a + b <= m + k => n + c + d <= m + k
  BY SMT
<1>4. ScansOK' = (scans + ToRestart' + ToOpen' <= dongle + tcpClients)
  BY DEF ScansOK
<1> QED BY <1>1, <1>2, <1>3, <1>4 DEF ScansOK

\* An open that waits does so until it is taken.
LEMMA KeepOpens ==
  ASSUME Typed, UNCHANGED dongle, manager' # "none" => manager # "none",
         calls' = calls \/ (calls # <<>> /\ calls' = Tail(calls))
  PROVE  OpenWaits' => OpenWaits
<1>1. ASSUME NEW i \in 1..Len(calls'), FreshOpen(calls[i])' PROVE OpenWaits
  <2>1. PICK j \in 1..Len(calls) : calls'[i] = calls[j]
    <3>1. CASE calls' = calls
      BY <1>1, <3>1
    <3>2. CASE calls # <<>> /\ calls' = Tail(calls)
      BY <1>1, <3>2, TailOf DEF Typed, ChannelsTyped
    <3> QED BY <3>1, <3>2
  <2>2. FreshOpen(calls[j])
    BY <1>1, <2>1 DEF FreshOpen
  <2> QED BY <2>2 DEF OpenWaits
<1> QED BY <1>1 DEF OpenWaits

\* Each step that has a scan started, or may have one started, is paid for by a
\* dongle or a client.
LEMMA ScansCounted ==
  ASSUME Typed, ControlOK, ScansOK, [BleuioNext]_bleuioVars
  PROVE  ScansOK'
<1>0. /\ scans \in Nat /\ dongle \in Nat /\ tcpClients \in Nat
      /\ ToRestart \in 0..1 /\ ToOpen \in 0..1 /\ ToRestart' \in 0..1 /\ ToOpen' \in 0..1
  BY BleuioLimits DEF Typed, DongleTyped, StateTyped, SerialTyped, ToRestart, ToOpen
<1>1. CASE StartManager
  <2> USE <1>1 DEF StartManager, ScanStarts
  <2>1. ~InSession'
    BY SessionNumbers DEF InSession
  <2>2. ~OpenWaits'
    BY NumbersTyped DEF OpenWaits, FreshOpen, ControlOK, QueueOK, CallOK, Typed, ChannelsTyped
  <2>3. ToRestart' = 0 /\ ToOpen' = 0 /\ scans' = scans + 1 /\ dongle' = dongle + 1
    BY <2>1, <2>2 DEF ToRestart, ToOpen
  <2>4. scans + 1 + 0 + 0 <= dongle + 1 + tcpClients
    BY <1>0, SMT DEF ScansOK
  <2> QED BY <2>3, <2>4 DEF ScansOK
<1>2. CASE BeginOpen
  <2> USE <1>2 DEF BeginOpen
  <2>1. OpenWaits
    BY NumbersTyped DEF OpenWaits, FreshOpen, MayOpen, Current
  <2>2. InSession' /\ ~InSession
    BY SessionNumbers DEF InSession, MayOpen
  <2>3. ~OpenWaits'
    <3>1. calls' = <<>>
      BY <1>2, OpenControl DEF ControlOK, ManagerOK
    <3>2. 1..Len(calls') = {}
      BY <3>1
    <3> QED BY <3>2 DEF OpenWaits
  <2>4. /\ ToRestart' = 1 /\ ToOpen' = 0 /\ ToRestart = 0 /\ ToOpen = 1
        /\ scans' = scans /\ dongle' = dongle /\ tcpClients' = tcpClients
    BY <2>1, <2>2, <2>3 DEF ToRestart, ToOpen
  <2>5. scans + 1 + 0 <= dongle + tcpClients
    BY <1>0, <2>4, SMT DEF ScansOK
  <2> QED BY <2>4, <2>5 DEF ScansOK
<1>3. CASE RestartScan
  <2> USE <1>3 DEF RestartScan, ScanStarts
  <2>1. InSession /\ ~InSession'
    BY SessionNumbers DEF InSession, ControlOK, ManagerOK, InHand
  <2>2. OpenWaits' => OpenWaits
    BY KeepOpens
  <2>3. /\ ToRestart' = 0 /\ ToRestart = 1 /\ ToOpen' <= ToOpen
        /\ scans' \in {scans, scans + 1} /\ dongle' = dongle /\ tcpClients' = tcpClients
    BY <2>1, <2>2 DEF ToRestart, ToOpen
  <2>4. \A p \in 0..1, n \in {scans, scans + 1} :
          p <= ToOpen => n + 0 + p <= dongle + tcpClients
    <3>1. ToRestart = 1
      BY <2>3
    <3> QED BY <1>0, <3>1, SMT DEF ScansOK
  <2> QED BY <1>0, <2>3, <2>4 DEF ScansOK
<1>4. CASE AcceptTcp
  <2> USE <1>4 DEF AcceptTcp
  <2>1. InSession' <=> InSession
    BY DEF InSession
  <2>2. ~OpenWaits
    BY NumbersTyped DEF OpenWaits, ControlOK, QueueOK, CallOK
  <2>3. /\ ToRestart' = ToRestart /\ ToOpen = 0 /\ tcpClients' = tcpClients + 1
        /\ scans' = scans /\ dongle' = dongle
    BY <2>1, <2>2 DEF ToRestart, ToOpen
  <2>4. \A p \in 0..1 : scans + ToRestart + p <= dongle + (tcpClients + 1)
    <3>1. ToOpen = 0
      BY <2>3
    <3> QED BY <1>0, <3>1, SMT DEF ScansOK
  <2> QED BY <1>0, <2>3, <2>4 DEF ScansOK
<1>5. CASE ClientEnds \/ BridgeClosed
  <2>1. UNCHANGED <<scans, dongle, tcpClients, active_session, manager>>
    BY <1>5 DEF ClientEnds, BridgeClosed
  <2>2. OpenWaits' => OpenWaits
    <3>1. CASE calls' = calls
      BY <2>1, <3>1, KeepOpens
    <3>2. CASE calls' = Append(calls, [operation |-> "close", session |-> held,
                              dongle |-> dongle, number |-> caller.number + 1])
      <4>0. [operation |-> "close", session |-> held, dongle |-> dongle,
             number |-> caller.number + 1] \in Calls
        BY NumbersTyped, SessionNumbers DEF Calls, Typed, SerialTyped
      <4>1. \A i \in 1..Len(calls') :
              \/ i \in 1..Len(calls) /\ calls'[i] = calls[i]
              \/ calls'[i].operation = "close"
        BY <3>2, <4>0, AppendOf DEF Typed, ChannelsTyped
      <4> QED BY <2>1, <4>1 DEF OpenWaits, FreshOpen
    <3> QED
      BY <1>5, <3>1, <3>2 DEF ClientEnds, BridgeClosed, CloseBridge, PlaceCall
  <2> QED BY <2>1, <2>2, KeepScans DEF InSession
<1>6. CASE \/ ScanReports \/ Detach \/ UsbInNext \/ StopScan \/ FinishOpen \/ FinishClose
           \/ WriteFrame \/ TakeFrame \/ DeliverFrame \/ GiveUp \/ FlushTcp
           \/ ClientSends \/ ClientLeaves \/ ReadFails \/ EndManager
           \/ RejectCall \/ BeginClose \/ UNCHANGED bleuioVars
  <2>1. /\ UNCHANGED <<scans, dongle, tcpClients>>
        /\ manager' # "none" => manager # "none"
        /\ calls' = calls \/ (calls # <<>> /\ calls' = Tail(calls))
    <3>1. CASE ScanReports \/ Detach \/ UsbInNext \/ ReadFails
      BY <3>1 DEF ScanReports, Detach, UsbInNext, ReadUnit, Forward, ReadFails, Running
    <3>2. CASE StopScan \/ FinishOpen \/ FinishClose \/ WriteFrame \/ TakeFrame \/ EndManager
      BY <3>2 DEF StopScan, FinishOpen, FinishClose, WriteFrame, TakeFrame, EndManager
    <3>3. CASE RejectCall \/ BeginClose
      BY <3>3 DEF RejectCall, BeginClose
    <3>4. CASE DeliverFrame \/ GiveUp \/ FlushTcp \/ ClientSends \/ ClientLeaves
      BY <3>4 DEF DeliverFrame, GiveUp, FlushTcp, ClientSends, ClientLeaves
    <3>5. CASE UNCHANGED bleuioVars
      BY <3>5 DEF bleuioVars
    <3> QED BY <1>6, <3>1, <3>2, <3>3, <3>4, <3>5
  <2>2. InSession' => InSession
    <3>1. CASE ScanReports \/ Detach \/ UsbInNext \/ ReadFails
      BY <3>1 DEF ScanReports, Detach, UsbInNext, ReadUnit, Forward, ReadFails, InSession
    <3>2. CASE StopScan \/ FinishOpen \/ FinishClose
      BY <3>2, SessionNumbers DEF StopScan, FinishOpen, FinishClose, InSession
    <3>3. CASE WriteFrame \/ TakeFrame \/ EndManager
      BY <3>3, SessionNumbers DEF WriteFrame, TakeFrame, EndManager, InSession
    <3>4. CASE RejectCall
      BY <3>4 DEF RejectCall, InSession
    <3>5. CASE BeginClose
      BY <3>5, NumbersTyped, SessionNumbers
      DEF BeginClose, InSession, ClosesActive, ControlOK, QueueOK, CallOK
    <3>6. CASE DeliverFrame \/ GiveUp \/ FlushTcp \/ ClientSends \/ ClientLeaves
      BY <3>6 DEF DeliverFrame, GiveUp, FlushTcp, ClientSends, ClientLeaves, InSession
    <3>7. CASE UNCHANGED bleuioVars
      BY <3>7 DEF bleuioVars, InSession
    <3> QED BY <1>6, <3>1, <3>2, <3>3, <3>4, <3>5, <3>6, <3>7
  <2> QED BY <2>1, <2>2, KeepOpens, KeepScans
<1> QED
  BY <1>1, <1>2, <1>3, <1>4, <1>5, <1>6 DEF BleuioNext, CommandNext, SerialNext

-----------------------------------------------------------------------------
\* The inductive invariant of the dongle, its manager and the serial task.
LEMMA BleuioInvariant == BleuioSpec => []BleuioInv
<1>1. BleuioInit => BleuioInv
  <2> SUFFICES ASSUME BleuioInit PROVE BleuioInv
    OBVIOUS
  <2> USE DEF BleuioInit
  <2>0. /\ 0 \in Nat /\ 0 \in 0..0 /\ 0 \in 0..MaxDongles /\ 0 \in 0..MaxTcpClients
        /\ Len(<<>>) = 0 /\ 0 <= MaxOutput /\ 0 <= BRIDGE_CHANNEL_CAPACITY /\ 1..0 = {}
        /\ 0 + 0 + 0 <= 0 + 0
    BY BleuioLimits
  <2>1. DongleTyped /\ StateTyped
    <3>1. Len(output) <= MaxOutput /\ output \in Seq(Units) /\ scan \in 0..scans
      BY <2>0
    <3> QED BY <2>0, <3>1, Zenon DEF DongleTyped, StateTyped
  <2>2. ManagerTyped /\ ParserTyped
    BY <2>0, ConstantsTyped DEF ManagerTyped, ParserTyped, ManagerStates
  <2>3. ChannelsTyped
    BY <2>0 DEF ChannelsTyped
  <2>4. SerialTyped
    BY <2>0, ConstantsTyped DEF SerialTyped, SerialStates
  <2>5. ControlOK
    BY <2>0, SessionNumbers DEF ControlOK, ManagerOK, QueueOK, WaitsOK, SessionOK, InHand
  <2>6. StreamOK
    BY <2>0 DEF StreamOK, HonestFrames, Honest, NoDelivery, NoUnit, NotStuck, OutputOK,
       ParserOK, CatalogOK
  <2>7. ToRestart = 0 /\ ToOpen = 0
    BY <2>0, SessionNumbers DEF ToRestart, ToOpen, InSession, OpenWaits
  <2>8. ScansOK
    BY <2>0, <2>7 DEF ScansOK
  <2> QED BY <2>1, <2>2, <2>3, <2>4, <2>5, <2>6, <2>8 DEF BleuioInv, Typed
<1>2. BleuioInv /\ [BleuioNext]_bleuioVars => BleuioInv'
  <2> SUFFICES ASSUME BleuioInv, [BleuioNext]_bleuioVars PROVE BleuioInv'
    OBVIOUS
  <2> USE DEF BleuioInv
  <2>1. ScansOK'
    BY ScansCounted
  <2>2. CASE ScanReports \/ Detach \/ StartManager
    BY <2>1, <2>2, DongleKeepsTypes, DongleControl, DongleStream DEF Typed
  <2>3. CASE UsbInNext \/ ReadFails
    BY <2>1, <2>3, UsbInKeepsTypes, UsbInControl, UsbInStream DEF Typed
  <2>4. CASE CommandNext \/ EndManager
    BY <2>1, <2>4, CommandKeepsTypes, OpenControl, CloseControl, OtherControl, CommandStream
    DEF Typed, CommandNext
  <2>5. CASE SerialNext \/ AcceptTcp \/ ClientSends \/ ClientLeaves
    BY <2>1, <2>5, SerialKeepsTypes, SerialControl, CallControl, SerialStream
    DEF Typed, SerialNext
  <2>6. CASE UNCHANGED bleuioVars
    <3> USE <2>6 DEF bleuioVars
    <3>1. Typed'
      BY DEF Typed, DongleTyped, StateTyped, ManagerTyped, ParserTyped, ChannelsTyped,
         SerialTyped
    <3>2. ControlOK'
      BY DEF ControlOK, ManagerOK, QueueOK, CallOK, FreshOpen, WaitsOK, SessionOK
    <3>3. StreamOK'
      BY DEF StreamOK, HonestFrames, Honest, NotStuck, OutputOK, UnitOK, ParserOK,
         FreshParser, CatalogOK, Scanned
    <3> QED BY <2>1, <3>1, <3>2, <3>3
  <2> QED BY <2>2, <2>3, <2>4, <2>5, <2>6 DEF BleuioNext
<1> QED BY <1>1, <1>2, PTL DEF BleuioSpec

\* The raw stream and the scan do not mix: a change of use leaves the dongle and
\* the parser with nothing of the use before.
THEOREM SeparateStreams == BleuioSpec => []StreamsAreSeparate
<1>1. BleuioInv => StreamsAreSeparate
  <2> SUFFICES ASSUME BleuioInv PROVE StreamsAreSeparate
    OBVIOUS
  <2>1. PICK n \in Nat : published \subseteq {Scanned(n)}
    BY DEF BleuioInv, StreamOK, CatalogOK
  <2>2. published = {} \/ published = {Scanned(n)}
    BY <2>1
  <2>3. Cardinality(published) <= 1
    <3>1. CASE published = {}
      BY <3>1, FS_EmptySet
    <3>2. CASE published = {Scanned(n)}
      <4>1. Cardinality(published) = 1
        BY <3>2, FS_Singleton
      <4> QED BY <4>1
    <3> QED BY <2>2, <3>1, <3>2
  <2>4. \A owner \in published : owner.kind = "scan"
    BY <2>1 DEF Scanned
  <2> QED BY <2>3, <2>4 DEF StreamsAreSeparate, BleuioInv, StreamOK, HonestFrames, Honest
<1> QED BY <1>1, BleuioInvariant, PTL

-----------------------------------------------------------------------------
\* The drivers do not disturb each other: a run of both is one of each.
LEMMA DriversAreSeparate == DevicesSpec => AudioSpec /\ BleuioSpec
<1>1. DevicesInit => AudioInit /\ BleuioInit
  BY DEF DevicesInit
<1>2. [DevicesNext]_devicesVars => [AudioNext]_audioVars /\ [BleuioNext]_bleuioVars
  BY DEF DevicesNext, devicesVars, OfAudio, OfBleuio
<1> QED
  BY <1>1, <1>2, PTL DEF DevicesSpec, AudioSpec, BleuioSpec

\* The types of the audio stream follow from its ranges.
LEMMA AudioTypesFollow == Ranges => AudioTypeOK
<1> SUFFICES ASSUME Ranges PROVE AudioTypeOK
  OBVIOUS
<1> USE PositiveLimits DEF Ranges, SlotInv
<1>1. slots \in [SlotIds -> [state : SlotStates, block : Blocks]]
  BY DEF SlotsOK, Slots
<1>2. {CLIENT_CONNECTED, BLOCK_READY, overlap} \subseteq BOOLEAN /\ last \in Blocks
  BY DEF FlagsOK
<1>3. /\ SNAPSHOT_PHASE \in 0..SNAPSHOT_PERIOD_BLOCKS
      /\ capture \in 0..MaxCaptures /\ number \in 0..MaxBlocks
      /\ producer.phase \in 0..SNAPSHOT_PERIOD_BLOCKS
      /\ listeners \in 0..MaxListeners
  BY DEF CountersOK, SlotsOK, ProducerOK
<1>4. producer \in [at : ProducerSteps, slot : 0..SLOT_COUNT,
                    phase : 0..SNAPSHOT_PERIOD_BLOCKS]
  BY <1>3 DEF ProducerOK
<1>5. listener \in [at : ListenerSteps, slot : 0..SLOT_COUNT,
                    oldest : 0..SLOT_COUNT, sequence : 0..SequenceLimit - 1]
  BY DEF ListenerOK
<1> QED
  BY <1>1, <1>2, <1>3, <1>4, <1>5 DEF AudioTypeOK, ProducerSteps, ListenerSteps

\* The types of the dongle and its bridge follow from its invariant: the scans have
\* been counted.
LEMMA BleuioTypesFollow == BleuioInv => BleuioTypeOK
<1> SUFFICES ASSUME BleuioInv PROVE BleuioTypeOK
  OBVIOUS
<1> USE DEF BleuioInv, Typed
<1>1. scans \in 0..MaxDongles + MaxTcpClients
  <2>1. /\ scans \in Nat /\ dongle \in 0..MaxDongles /\ tcpClients \in 0..MaxTcpClients
        /\ scans + ToRestart + ToOpen <= dongle + tcpClients
    BY DEF DongleTyped, StateTyped, SerialTyped, ScansOK
  <2>2. ToRestart \in Nat /\ ToOpen \in Nat
    BY DEF ToRestart, ToOpen
  <2> QED
    BY <2>1, <2>2, BleuioLimits
<1>2. {attached, midline, ready, bridge_connected, gone, outstanding} \subseteq BOOLEAN
  BY DEF DongleTyped, StateTyped, SerialTyped
<1>3. {blocked, delivered} \subseteq Deliveries
  BY DEF ParserTyped, SerialTyped
<1> QED
  BY <1>1, <1>2, <1>3
  DEF BleuioTypeOK, DongleTyped, StateTyped, ManagerTyped, ParserTyped, ChannelsTyped,
      SerialTyped

\* DevicesTypeOK: the type invariants of the two drivers.
THEOREM DevicesTypes == DevicesSpec => []DevicesTypeOK
<1>1. Ranges /\ BleuioInv => DevicesTypeOK
  BY AudioTypesFollow, BleuioTypesFollow DEF DevicesTypeOK
<1> QED
  BY <1>1, DriversAreSeparate, CountersInvariant, BleuioInvariant, PTL DEF Ranges
==============================================================================
