------------------------------ MODULE AudioStream ------------------------------
(***************************************************************************)
(* The PCM snapshots that core 1 hands to the one audio client of core 0   *)
(* (src/src/audio_stream.rs, the audio loops of usb_host.rs and http.rs).  *)
(* There is no lock: a slot goes FREE -> WRITING -> READY -> READING ->    *)
(* FREE by compare-and-exchange, and a signal wakes the client.            *)
(*                                                                         *)
(* An action is one atomic access of one core, so that the two cores       *)
(* interleave as the hardware lets them.  A block is known by the capture  *)
(* it belongs to and its number in it; the sequence number that the code   *)
(* sends is that number modulo SequenceLimit.                              *)
(*                                                                         *)
(* Time enters in two places. A block is 10 ms of sound and a reset of the *)
(* port takes longer, a scan of three slots takes microseconds: core 1     *)
(* starts at most one of them while core 0 is taking a block (Paced).  And *)
(* a client that does not read is given up by the time-out of its socket   *)
(* long before half of the sequence numbers are used (Attentive).          *)
(***************************************************************************)
EXTENDS Integers

CONSTANTS
  SLOT_COUNT,
  SNAPSHOT_BLOCKS,
  SNAPSHOT_PERIOD_BLOCKS,
  SequenceLimit,   \* number of sequence numbers: 2^32
  MaxBlocks,       \* bound on the blocks of a capture
  MaxCaptures,     \* bound on the resets of the port
  MaxListeners     \* bound on the clients, which come one after the other

ASSUME AudioAssumption ==
  /\ {SLOT_COUNT, SNAPSHOT_BLOCKS, SNAPSHOT_PERIOD_BLOCKS} \subseteq Nat \ {0}
  /\ SNAPSHOT_BLOCKS <= SNAPSHOT_PERIOD_BLOCKS
  /\ SequenceLimit \in Nat /\ SequenceLimit > 2
  /\ {MaxBlocks, MaxCaptures, MaxListeners} \subseteq Nat \ {0}

VARIABLES
  slots,             \* SLOTS: state and block of each
  CLIENT_CONNECTED,
  SNAPSHOT_PHASE,
  BLOCK_READY,       \* whether the signal is raised
  capture,           \* the capture of the device on the port
  number,            \* blocks it has filled: block_sequence without wrapping
  producer,          \* core 1: where it is, in which slot, phase it has read
  listener,          \* core 0: where it is, in which slot, oldest found so far
  listeners,         \* clients so far
  last,              \* last block the client has got, or NoBlock
  overlap            \* whether core 1 was at work during the present take

audioVars == <<slots, CLIENT_CONNECTED, SNAPSHOT_PHASE, BLOCK_READY, capture,
               number, producer, listener, listeners, last, overlap>>

SlotIds == 1..SLOT_COUNT
SlotStates == {"free", "writing", "ready", "reading"}
Blocks == [capture : Nat, number : Nat, start : BOOLEAN]
NoBlock == [capture |-> 0, number |-> 0, start |-> FALSE]
Sequence(block) == block.number % SequenceLimit

\* oldest_sequence.wrapping_sub(sequence) < u32::MAX / 2
NotNewer(sequence, oldest) ==
  (oldest - sequence) % SequenceLimit < (SequenceLimit - 1) \div 2

\* Mutant: compared as plain numbers.
LowestFirst(sequence, oldest) == sequence < oldest

OlderThan(sequence, oldest) == NotNewer(sequence, oldest)

\* A call has returned and its local variables are gone.
ProducerRests == [at |-> "fill", slot |-> 0, phase |-> 0]
ListenerRests(at) == [at |-> at, slot |-> 0, oldest |-> 0, sequence |-> 0]

AudioInit ==
  /\ slots = [s \in SlotIds |-> [state |-> "free", block |-> NoBlock]]
  /\ CLIENT_CONNECTED = FALSE
  /\ SNAPSHOT_PHASE = 0
  /\ BLOCK_READY = FALSE
  /\ capture = 0 /\ number = 0
  /\ producer = ProducerRests
  /\ listener = ListenerRests("none")
  /\ listeners = 0
  /\ last = NoBlock
  /\ overlap = FALSE

-----------------------------------------------------------------------------
\* compare_exchange of a slot's state; the caller says what becomes of it.
Exchange(s, from, to) ==
  slots' = IF slots[s].state = from THEN [slots EXCEPT ![s].state = to] ELSE slots

ProducerGoes(at) == producer' = [producer EXCEPT !.at = at]
ListenerGoes(at) == listener' = [listener EXCEPT !.at = at]

-----------------------------------------------------------------------------
(* Core 1: the audio loop fills blocks and publishes them.                 *)

Taking == listener.at \in {"load", "peek", "take", "copy"}
Paced == Taking => ~overlap

Attentive ==
  \A block \in {slots[s].block : s \in {t \in SlotIds : slots[t].state # "free"}}
              \cup {last} :
    block.capture = capture =>
      number + 1 - block.number < (SequenceLimit - 1) \div 2

Fill ==
  /\ producer.at = "fill"
  /\ capture > 0
  /\ number < MaxBlocks
  /\ Paced /\ Attentive
  /\ overlap' = Taking
  /\ number' = number + 1
  /\ ProducerGoes(IF CLIENT_CONNECTED THEN "phase" ELSE "fill")
  /\ UNCHANGED <<slots, CLIENT_CONNECTED, SNAPSHOT_PHASE, BLOCK_READY, capture,
                 listener, listeners, last>>

\* fetch_add, then a store: another core may write in between.
FetchPhase ==
  /\ producer.at = "phase"
  /\ producer' = [producer EXCEPT !.at = "store", !.phase = SNAPSHOT_PHASE]
  /\ SNAPSHOT_PHASE' = SNAPSHOT_PHASE + 1
  /\ UNCHANGED <<slots, CLIENT_CONNECTED, BLOCK_READY, capture, number, listener,
                 listeners, last, overlap>>

StorePhase ==
  /\ producer.at = "store"
  /\ SNAPSHOT_PHASE' =
       IF producer.phase + 1 >= SNAPSHOT_PERIOD_BLOCKS THEN 0 ELSE producer.phase + 1
  /\ producer' = IF producer.phase >= SNAPSHOT_BLOCKS THEN ProducerRests
                 ELSE [producer EXCEPT !.at = "claim", !.slot = 1]
  /\ UNCHANGED <<slots, CLIENT_CONNECTED, BLOCK_READY, capture, number, listener,
                 listeners, last, overlap>>

\* Mutant: a block that has not been taken yet is overwritten.
ClaimUnread ==
  /\ producer.at = "claim"
  /\ IF slots[producer.slot].state = "ready"
     THEN Exchange(producer.slot, "ready", "writing") /\ ProducerGoes("write")
     ELSE Exchange(producer.slot, "free", "writing") /\
          ProducerGoes(IF slots[producer.slot].state = "free" THEN "write" ELSE "fill")
  /\ UNCHANGED <<CLIENT_CONNECTED, SNAPSHOT_PHASE, BLOCK_READY, capture, number,
                 listener, listeners, last, overlap>>

\* The first free slot; when there is none the block is dropped.
Claim ==
  /\ producer.at = "claim"
  /\ Exchange(producer.slot, "free", "writing")
  /\ producer' =
       IF slots[producer.slot].state = "free" THEN [producer EXCEPT !.at = "write"]
       ELSE IF producer.slot < SLOT_COUNT THEN [producer EXCEPT !.slot = @ + 1]
       ELSE ProducerRests
  /\ UNCHANGED <<CLIENT_CONNECTED, SNAPSHOT_PHASE, BLOCK_READY, capture, number,
                 listener, listeners, last, overlap>>

Write ==
  /\ producer.at = "write"
  /\ slots' = [slots EXCEPT ![producer.slot].block =
                 [capture |-> capture, number |-> number,
                  start |-> producer.phase = 0]]
  /\ ProducerGoes("ready")
  /\ UNCHANGED <<CLIENT_CONNECTED, SNAPSHOT_PHASE, BLOCK_READY, capture, number,
                 listener, listeners, last, overlap>>

StoreReady ==
  /\ producer.at = "ready"
  /\ slots' = [slots EXCEPT ![producer.slot].state = "ready"]
  /\ ProducerGoes("signal")
  /\ UNCHANGED <<CLIENT_CONNECTED, SNAPSHOT_PHASE, BLOCK_READY, capture, number,
                 listener, listeners, last, overlap>>

\* Mutant: a notification that only a client already waiting gets.
RaiseIfWaiting ==
  /\ producer.at = "signal"
  /\ BLOCK_READY' = (listener.at = "wait")
  /\ ProducerGoes("fill")
  /\ UNCHANGED <<slots, CLIENT_CONNECTED, SNAPSHOT_PHASE, capture, number, listener,
                 listeners, last, overlap>>

Raise ==
  /\ producer.at = "signal"
  /\ BLOCK_READY' = TRUE
  /\ producer' = ProducerRests
  /\ UNCHANGED <<slots, CLIENT_CONNECTED, SNAPSHOT_PHASE, capture, number, listener,
                 listeners, last, overlap>>

\* reset(), which set_resetting calls before every device.
Restart ==
  /\ producer.at = "fill"
  /\ capture < MaxCaptures
  /\ Paced
  /\ overlap' = Taking
  /\ SNAPSHOT_PHASE' = 0
  /\ capture' = capture + 1 /\ number' = 0
  /\ producer' = [producer EXCEPT !.at = "clear", !.slot = 1]
  /\ UNCHANGED <<slots, CLIENT_CONNECTED, BLOCK_READY, listener, listeners, last>>

\* One turn of the loop of clear_ready.
ClearReady(s) == Exchange(s, "ready", "free")

RestartClears ==
  /\ producer.at = "clear"
  /\ ClearReady(producer.slot)
  /\ producer' = IF producer.slot < SLOT_COUNT
                 THEN [producer EXCEPT !.slot = @ + 1]
                 ELSE [producer EXCEPT !.at = "unsignal"]
  /\ UNCHANGED <<CLIENT_CONNECTED, SNAPSHOT_PHASE, BLOCK_READY, capture, number,
                 listener, listeners, last, overlap>>

RestartEnds ==
  /\ producer.at = "unsignal"
  /\ BLOCK_READY' = FALSE
  /\ producer' = ProducerRests
  /\ UNCHANGED <<slots, CLIENT_CONNECTED, SNAPSHOT_PHASE, capture, number, listener,
                 listeners, last, overlap>>

-----------------------------------------------------------------------------
(* Core 0: a WebSocket client.  A second one is refused and changes        *)
(* nothing.                                                                *)

Acquire ==
  /\ listener.at = "none"
  /\ listeners < MaxListeners
  /\ CLIENT_CONNECTED' = TRUE
  /\ listeners' = listeners + 1
  /\ last' = NoBlock
  /\ ListenerGoes("acquire")
  /\ UNCHANGED <<slots, SNAPSHOT_PHASE, BLOCK_READY, capture, number, producer,
                 overlap>>

AcquirePhase ==
  /\ listener.at = "acquire"
  /\ SNAPSHOT_PHASE' = 0
  /\ ListenerGoes("idle")
  /\ UNCHANGED <<slots, CLIENT_CONNECTED, BLOCK_READY, capture, number, producer,
                 listeners, last, overlap>>

ScanFrom == [at |-> "load", slot |-> 1, oldest |-> 0, sequence |-> 0]

\* next_block calls take_oldest, and again when the signal has woken it.
BeginTake ==
  /\ \/ listener.at = "idle"
     \/ listener.at = "wait" /\ BLOCK_READY
  /\ BLOCK_READY' = IF listener.at = "wait" THEN FALSE ELSE BLOCK_READY
  /\ listener' = ScanFrom
  /\ overlap' = (producer.at # "fill")
  /\ UNCHANGED <<slots, CLIENT_CONNECTED, SNAPSHOT_PHASE, capture, number, producer,
                 listeners, last>>

\* A frame of the client has come: next_block is dropped and called again.
Interrupted ==
  /\ listener.at = "wait"
  /\ ListenerGoes("idle")
  /\ UNCHANGED <<slots, CLIENT_CONNECTED, SNAPSHOT_PHASE, BLOCK_READY, capture,
                 number, producer, listeners, last, overlap>>

\* What the scan does after a slot, given the oldest it knows by then.
NextSlot(oldest, sequence) ==
  listener' =
    IF listener.slot < SLOT_COUNT
    THEN [at |-> "load", slot |-> listener.slot + 1, oldest |-> oldest,
          sequence |-> sequence]
    ELSE IF oldest = 0 THEN ListenerRests("wait")
    ELSE [ListenerRests("take") EXCEPT !.slot = oldest]

LoadState ==
  /\ listener.at = "load"
  /\ IF slots[listener.slot].state = "ready"
     THEN ListenerGoes("peek")
     ELSE NextSlot(listener.oldest, listener.sequence)
  /\ UNCHANGED <<slots, CLIENT_CONNECTED, SNAPSHOT_PHASE, BLOCK_READY, capture,
                 number, producer, listeners, last, overlap>>

ReadSequence ==
  /\ listener.at = "peek"
  /\ LET sequence == Sequence(slots[listener.slot].block) IN
     IF listener.oldest = 0 \/ OlderThan(sequence, listener.sequence)
     THEN NextSlot(listener.slot, sequence)
     ELSE NextSlot(listener.oldest, listener.sequence)
  /\ UNCHANGED <<slots, CLIENT_CONNECTED, SNAPSHOT_PHASE, BLOCK_READY, capture,
                 number, producer, listeners, last, overlap>>

TakeSlot ==
  /\ listener.at = "take"
  /\ Exchange(listener.slot, "ready", "reading")
  /\ IF slots[listener.slot].state = "ready" THEN ListenerGoes("copy")
     ELSE listener' = ListenerRests("wait")
  /\ UNCHANGED <<CLIENT_CONNECTED, SNAPSHOT_PHASE, BLOCK_READY, capture, number,
                 producer, listeners, last, overlap>>

\* The copy, the store of FREE and the frame that is sent.
CopyBlock ==
  /\ listener.at = "copy"
  /\ last' = slots[listener.slot].block
  /\ slots' = [slots EXCEPT ![listener.slot].state = "free"]
  /\ listener' = ListenerRests("idle")
  /\ UNCHANGED <<CLIENT_CONNECTED, SNAPSHOT_PHASE, BLOCK_READY, capture, number,
                 producer, listeners, overlap>>

\* The connection ends at an await; ClientGuard is dropped.
Leave ==
  /\ listener.at \in {"idle", "wait"}
  /\ CLIENT_CONNECTED' = FALSE
  /\ listener' = [listener EXCEPT !.at = "clear", !.slot = 1]
  /\ UNCHANGED <<slots, SNAPSHOT_PHASE, BLOCK_READY, capture, number, producer,
                 listeners, last, overlap>>

LeaveClears ==
  /\ listener.at = "clear"
  /\ ClearReady(listener.slot)
  /\ listener' = IF listener.slot < SLOT_COUNT
                 THEN [listener EXCEPT !.slot = @ + 1]
                 ELSE [listener EXCEPT !.at = "unsignal"]
  /\ UNCHANGED <<CLIENT_CONNECTED, SNAPSHOT_PHASE, BLOCK_READY, capture, number,
                 producer, listeners, last, overlap>>

LeaveEnds ==
  /\ listener.at = "unsignal"
  /\ BLOCK_READY' = FALSE
  /\ listener' = ListenerRests("none")
  /\ UNCHANGED <<slots, CLIENT_CONNECTED, SNAPSHOT_PHASE, capture, number, producer,
                 listeners, last, overlap>>

-----------------------------------------------------------------------------
PublishNext ==
  \/ FetchPhase \/ StorePhase \/ Claim \/ Write \/ StoreReady \/ Raise
  \/ RestartClears \/ RestartEnds

TakeNext ==
  \/ BeginTake \/ LoadState \/ ReadSequence \/ TakeSlot \/ CopyBlock

AudioNext ==
  \/ Fill \/ PublishNext \/ Restart
  \/ Acquire \/ AcquirePhase \/ TakeNext \/ Interrupted
  \/ Leave \/ LeaveClears \/ LeaveEnds

AudioSpec == AudioInit /\ [][AudioNext]_audioVars

-----------------------------------------------------------------------------
AudioTypeOK ==
  /\ slots \in [SlotIds -> [state : SlotStates, block : Blocks]]
  /\ {CLIENT_CONNECTED, BLOCK_READY, overlap} \subseteq BOOLEAN
  /\ SNAPSHOT_PHASE \in 0..SNAPSHOT_PERIOD_BLOCKS
  /\ capture \in 0..MaxCaptures /\ number \in 0..MaxBlocks
  /\ producer \in [at : {"fill", "phase", "store", "claim", "write", "ready",
                         "signal", "clear", "unsignal"},
                   slot : 0..SLOT_COUNT, phase : 0..SNAPSHOT_PERIOD_BLOCKS]
  /\ listener \in [at : {"none", "acquire", "idle", "wait", "load", "peek", "take",
                         "copy", "clear", "unsignal"},
                   slot : 0..SLOT_COUNT, oldest : 0..SLOT_COUNT,
                   sequence : 0..SequenceLimit - 1]
  /\ listeners \in 0..MaxListeners
  /\ last \in Blocks

\* "Its UnsafeCell is never accessed concurrently from the two RP2040 cores"
\* (audio_stream.rs 48-50): no block is read while it is written, neither by the
\* copy nor by the look at its sequence number, which comes before READING.
SlotAccessIsExclusive ==
  ~(/\ producer.at = "write"
    /\ listener.at \in {"peek", "copy"}
    /\ producer.slot = listener.slot)

\* A client gets the blocks in the order in which they were captured, also
\* across a change of the device, and "the sequence gap tells the browser" (61)
\* of every block it has missed: within a snapshot two numbers follow each other
\* only if the blocks do.  A block of a device that is gone, taken while reset
\* empties the slots, shows a gap only to the blocks of that device.
Later(b, c) ==
  \/ b.capture > c.capture
  \/ b.capture = c.capture /\ b.number > c.number
Adjacent(b, c) == b.capture = c.capture /\ b.number = c.number + 1
Follows(b, c) == Sequence(b) = (Sequence(c) + 1) % SequenceLimit
StreamIsHonest ==
  [][last # NoBlock /\ last' \notin {last, NoBlock} =>
       /\ Later(last', last)
       /\ Follows(last', last) /\ ~last'.start /\ last'.capture \in {last.capture, capture}
            => Adjacent(last', last)]_audioVars

\* No wake-up is lost: a client that waits while a block is ready goes on, and
\* does not wait for the next block (or, once the device is silent, for ever).
BlockWakesListener ==
  (listener.at = "wait" /\ \E s \in SlotIds : slots[s].state = "ready")
    ~> (listener.at # "wait" \/ \A s \in SlotIds : slots[s].state # "ready")
=============================================================================
