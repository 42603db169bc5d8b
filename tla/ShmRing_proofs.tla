--------------------------- MODULE ShmRing_proofs ---------------------------
(***************************************************************************)
(* Proofs about ShmRing for every ring size, transfer size and chunk size. *)
(* IInv is inductive (one lemma per action below, one step per conjunct);  *)
(* every safety property and the refinement of Transfer follow from it.    *)
(***************************************************************************)
EXTENDS ShmRingInv, TLAPS

USE DEF callerVars, producerVars, consumerVars, sharedVars, Return, Abandon, Exit, Alive,
        ConsumerMay, NoCode, WaitFailed, KilledCode, Everything

-----------------------------------------------------------------------------
(* Arithmetic of the ring and of the chunks.                               *)

\* An index of the ring is its own remainder, and Advance goes round
\* (hdr->head and hdr->tail, shm_ring_ipc.c:711-716 and 973-978).
LEMMA RingIndex ==
  \A i \in Slot : /\ i % RingSlots = i
                  /\ Advance(i) = IF i = RingSlots - 1 THEN 0 ELSE i + 1
                  /\ Advance(i) \in Slot
BY RingAssumption DEF Slot, Advance

\* The sizes of a call are natural numbers.
LEMMA CallTypes == ASSUME TypeOK PROVE call.total \in Nat /\ call.chunk \in Nat
BY CallAssumption DEF TypeOK

\* Where the chunks of a transfer start.
LEMMA StartFacts ==
  ASSUME TypeOK, NEW k \in Nat
  PROVE  /\ StartOf(k) \in Nat
         /\ StartOf(k + 1) = StartOf(k) + call.chunk
BY CallTypes DEF StartOf

\* A side that has moved k chunks has moved BytesOf(k) bytes, and moves the
\* next chunk by adding the length it computes from that number alone.
LEMMA ChunkFacts ==
  ASSUME TypeOK, call.chunk > 0, NEW k \in Nat
  PROVE  /\ BytesOf(k) \in Nat /\ BytesOf(k) =< call.total
         /\ BytesOf(k) < call.total =>
               /\ BytesOf(k) = StartOf(k)
               /\ ChunkLength(BytesOf(k)) \in Nat \ {0}
               /\ BytesOf(k + 1) = BytesOf(k) + ChunkLength(BytesOf(k))
<1>1. StartOf(k) \in Nat /\ StartOf(k + 1) = StartOf(k) + call.chunk
  BY StartFacts
<1> QED
  BY <1>1, CallTypes DEF BytesOf, ChunkLength

\* When the consumer moves on, every other slot is one step nearer.
LEMMA AheadFacts ==
  ASSUME TypeOK, NEW i \in Slot
  PROVE  /\ Ahead(i) \in 0..(RingSlots - 1)
         /\ Ahead(i) = 0 <=> i = tail
         /\ tail' = Advance(tail) =>
              Ahead(i)' = IF i = tail THEN RingSlots - 1 ELSE Ahead(i) - 1
<1>1. tail \in Slot /\ tail \in 0..(RingSlots - 1) /\ i \in 0..(RingSlots - 1) /\ RingSlots \in Nat \ {0}
  BY RingAssumption DEF TypeOK, Slot
<1>2. ASSUME tail' = Advance(tail)
      PROVE  tail' = IF tail = RingSlots - 1 THEN 0 ELSE tail + 1
  BY <1>1, <1>2, RingIndex
<1> QED
  BY <1>1, <1>2 DEF Ahead

-----------------------------------------------------------------------------
(* IInv holds initially and is preserved by every action.                  *)

LEMMA InitInv == Init => IInv
<1> SUFFICES ASSUME Init PROVE IInv
  OBVIOUS
<1>1. TypeOK
  BY RingAssumption DEF Init, TypeOK, Slot, Blank, Lives, ExitCodes, ProducerPlaces, ConsumerPlaces
<1>2. SemaphoreInv /\ IndexInv /\ SlotInv
  BY <1>1, RingAssumption, AheadFacts DEF Init, SemaphoreInv, IndexInv, SlotInv, InFlight, ProducerHolds,
         ConsumerFreeing, ConsumerReading, RingReady, Looping
<1>3. ByteInv
  BY <1>1, CallTypes DEF Init, ByteInv, BytesOf, StartOf, Looping
<1>4. LifeInv /\ CallerInv
  BY DEF Init, LifeInv, CallerInv, HeldAt, BeforeFork, WithChild, Looping
<1> QED BY <1>1, <1>2, <1>3, <1>4 DEF IInv

LEMMA CheckArgumentsInv == ASSUME IInv, CheckArguments PROVE IInv'
<1>1. TypeOK'
  BY DEF IInv, TypeOK, Lives, ExitCodes, ProducerPlaces, ConsumerPlaces, Slot,
         CheckArguments
<1>2. (SemaphoreInv /\ IndexInv)'
  BY DEF IInv, LifeInv, SemaphoreInv, IndexInv, InFlight, ProducerHolds, ConsumerFreeing,
         ConsumerReading, BeforeFork, Looping, WithChild, RingReady, CheckArguments
<1>3. SlotInv'
  BY DEF IInv, SlotInv, InFlight, Ahead, ChunkNumber, StartOf, ChunkLength, CheckArguments
<1>4. ByteInv'
  BY CallTypes DEF IInv, LifeInv, ByteInv, BytesOf, StartOf, BeforeFork, Looping, WithChild,
         RingReady, CheckArguments
<1>5. LifeInv'
  BY CallTypes DEF IInv, LifeInv, TypeOK, ByteInv, BeforeFork, Looping, WithChild,
         RingReady, CheckArguments
<1>6. CallerInv'
  BY DEF IInv, CallerInv, TypeOK, LifeInv, ByteInv, HeldAt, AbandonCleanup, BeforeFork,
         Looping, WithChild, RingReady, CheckArguments
<1> QED BY <1>1, <1>2, <1>3, <1>4, <1>5, <1>6 DEF IInv

LEMMA SetupStepInv == ASSUME NEW s \in DOMAIN SetupNext, IInv, SetupStep(s) PROVE IInv'
<1> USE DEF SetupNext, SetupAcquires, SetupCleanup, InitialEmpty, InitialFilled
<1>0. s \in {"getaffinity", "shm_open", "ftruncate", "mmap", "sem_empty", "sem_filled"}
  OBVIOUS
<1>a. /\ ppc = s /\ ppc' \in ProducerPlaces /\ held' \subseteq Everything
      /\ answer' \in {"pending", "failed"}
  <2>1. answer = "pending" /\ held \subseteq Everything /\ ppc = s
    BY <1>0 DEF IInv, TypeOK, CallerInv, SetupStep
  <2>2. ppc' \in ProducerPlaces /\ answer' \in {"pending", "failed"}
    BY <1>0, <2>1 DEF SetupStep, ProducerPlaces
  <2>3. SetupAcquires[s] \subseteq Everything
    BY <1>0
  <2>4. held' = held \cup SetupAcquires[s] \/ held' = held \ SetupCleanup[s]
    BY DEF SetupStep
  <2>5. held' \subseteq Everything
    BY <2>1, <2>3, <2>4
  <2> QED BY <2>1, <2>2, <2>5
<1>b. /\ filled = 0 /\ InFlight = 0 /\ ConsumerReading = 0 /\ ConsumerFreeing = 0
      /\ s = "sem_filled" => empty = RingSlots
  BY <1>0, <1>a, RingAssumption DEF IInv, TypeOK, SemaphoreInv, LifeInv, InFlight, ConsumerReading, ConsumerFreeing,
     ProducerHolds, RingReady, BeforeFork
<1>c. /\ filled' = 0 /\ empty' \in 0..RingSlots
      /\ ppc' \in {"sem_filled", "fork"} => empty' = RingSlots
  BY <1>0, <1>a, <1>b, RingAssumption DEF IInv, TypeOK, SetupStep
<1>1. TypeOK'
  BY <1>a, <1>c, RingAssumption DEF IInv, TypeOK, SetupStep, Lives, ExitCodes, ConsumerPlaces, Slot
<1>2. (SemaphoreInv /\ IndexInv)'
  <2>1. /\ UNCHANGED <<produced, consumed, cpc, head, tail>>
        /\ ppc' \in {"returned", "shm_open", "ftruncate", "mmap", "sem_empty", "sem_filled", "fork"}
    BY <1>0, <1>a DEF SetupStep
  <2>2. cpc = "malloc" /\ produced = 0 /\ consumed = 0 /\ head = 0 /\ tail = 0
    BY <1>0, <1>a DEF IInv, LifeInv, BeforeFork
  <2>3. /\ produced' = 0 /\ consumed' = 0 /\ filled' = 0 /\ cpc' = "malloc"
        /\ head' = 0 /\ tail' = 0 /\ empty' \in 0..RingSlots
    BY <1>c, <2>1, <2>2
  <2>4. ppc' \in {"sem_filled", "fork"} \cup {"malloc", "pin", "waitpid", "restore", "finish"} \cup Looping =>
          ppc' \in {"sem_filled", "fork"}
    BY <2>1 DEF Looping
  <2>5. ppc' \notin {"write", "post"}
    BY <2>1
  <2>6. SemaphoreInv'
    <3>1. InFlight' = 0 /\ ProducerHolds' = 0 /\ ConsumerFreeing' = 0 /\ ConsumerReading' = 0
      BY <2>3, <2>5 DEF InFlight, ProducerHolds, ConsumerFreeing, ConsumerReading
    <3>2. ppc' \in RingReady => empty' = RingSlots
      BY <1>c, <2>4 DEF RingReady
    <3>3. \A e \in 0..RingSlots : e + 0 + 0 =< RingSlots /\ e + 0 + 0 + 0 = e
      BY RingAssumption
    <3> QED BY <2>3, <3>1, <3>2, <3>3 DEF SemaphoreInv
  <2>7. IndexInv'
    BY <2>3 DEF IndexInv, InFlight
  <2> QED BY <2>6, <2>7
<1>3. SlotInv'
  BY <1>0 DEF IInv, SlotInv, InFlight, Ahead, ChunkNumber, StartOf, ChunkLength, SetupStep
<1>4. ByteInv'
  <2>1. /\ ppc' \in {"returned", "shm_open", "ftruncate", "mmap", "sem_empty", "sem_filled", "fork"}
        /\ UNCHANGED <<call, sent, received, produced, consumed, child, cpc>>
    BY <1>0 DEF SetupStep
  <2> QED BY <2>1 DEF IInv, ByteInv, BytesOf, StartOf, Looping
<1>5. LifeInv'
  BY <1>0 DEF IInv, LifeInv, SetupStep, BeforeFork, Looping, WithChild
<1>6. CallerInv'
  <2>1. held' = HeldAt(ppc)'
    BY <1>0 DEF IInv, CallerInv, HeldAt, SetupStep
  <2> QED BY <1>0, <2>1 DEF IInv, CallerInv, LifeInv, SetupStep, BeforeFork, Looping
<1> QED BY <1>1, <1>2, <1>3, <1>4, <1>5, <1>6 DEF IInv

LEMMA ForkInv == ASSUME IInv, Fork PROVE IInv'
<1>a. held' \subseteq Everything /\ child' \in Lives
  BY DEF IInv, TypeOK, Lives, ProducerPlaces, Fork
<1>1. TypeOK'
  BY <1>a DEF IInv, TypeOK, Lives, ExitCodes, ProducerPlaces, ConsumerPlaces, Slot, Fork
<1>2. (SemaphoreInv /\ IndexInv)'
  BY DEF IInv, LifeInv, SemaphoreInv, IndexInv, InFlight, ProducerHolds, ConsumerFreeing,
         ConsumerReading, BeforeFork, Looping, WithChild, RingReady, Fork
<1>3. SlotInv'
  BY DEF IInv, SlotInv, InFlight, Ahead, ChunkNumber, StartOf, ChunkLength, Fork
<1>4. ByteInv'
  BY CallTypes DEF IInv, LifeInv, ByteInv, BytesOf, StartOf, BeforeFork, Looping, WithChild,
         RingReady, Fork
<1>5. LifeInv'
  BY DEF IInv, LifeInv, TypeOK, ByteInv, BeforeFork, Looping, WithChild, RingReady, Fork
<1>6. CallerInv'
  BY DEF IInv, CallerInv, TypeOK, LifeInv, ByteInv, HeldAt, AbandonCleanup, BeforeFork,
         Looping, WithChild, RingReady, Fork
<1> QED BY <1>1, <1>2, <1>3, <1>4, <1>5, <1>6 DEF IInv

LEMMA MallocProducerInv == ASSUME IInv, MallocProducer PROVE IInv'
<1>a. held' \subseteq Everything
  BY DEF IInv, TypeOK, Lives, ProducerPlaces, MallocProducer
<1>1. TypeOK'
  BY <1>a DEF IInv, TypeOK, Lives, ExitCodes, ProducerPlaces, ConsumerPlaces, Slot,
         MallocProducer
<1>2. (SemaphoreInv /\ IndexInv)'
  BY DEF IInv, LifeInv, SemaphoreInv, IndexInv, InFlight, ProducerHolds, ConsumerFreeing,
         ConsumerReading, BeforeFork, Looping, WithChild, RingReady, MallocProducer
<1>3. SlotInv'
  BY DEF IInv, SlotInv, InFlight, Ahead, ChunkNumber, StartOf, ChunkLength, MallocProducer
<1>4. ByteInv'
  BY CallTypes DEF IInv, LifeInv, ByteInv, BytesOf, StartOf, BeforeFork, Looping, WithChild,
         RingReady, MallocProducer
<1>5. LifeInv'
  BY DEF IInv, LifeInv, TypeOK, ByteInv, BeforeFork, Looping, WithChild, RingReady,
         MallocProducer
<1>6. CallerInv'
  BY DEF IInv, CallerInv, TypeOK, LifeInv, ByteInv, HeldAt, AbandonCleanup, BeforeFork,
         Looping, WithChild, RingReady, MallocProducer
<1> QED BY <1>1, <1>2, <1>3, <1>4, <1>5, <1>6 DEF IInv

LEMMA PinProducerInv == ASSUME IInv, PinProducer PROVE IInv'
<1>1. TypeOK'
  BY DEF IInv, TypeOK, Lives, ExitCodes, ProducerPlaces, ConsumerPlaces, Slot, PinProducer
<1>2. (SemaphoreInv /\ IndexInv)'
  BY DEF IInv, LifeInv, SemaphoreInv, IndexInv, InFlight, ProducerHolds, ConsumerFreeing,
         ConsumerReading, BeforeFork, Looping, WithChild, RingReady, PinProducer
<1>3. SlotInv'
  BY DEF IInv, SlotInv, InFlight, Ahead, ChunkNumber, StartOf, ChunkLength, PinProducer
<1>4. ByteInv'
  BY CallTypes DEF IInv, LifeInv, ByteInv, BytesOf, StartOf, BeforeFork, Looping, WithChild,
         RingReady, PinProducer
<1>5. LifeInv'
  BY DEF IInv, LifeInv, TypeOK, ByteInv, BeforeFork, Looping, WithChild, RingReady,
         PinProducer
<1>6. CallerInv'
  BY DEF IInv, CallerInv, TypeOK, LifeInv, ByteInv, HeldAt, AbandonCleanup, BeforeFork,
         Looping, WithChild, RingReady, PinProducer
<1> QED BY <1>1, <1>2, <1>3, <1>4, <1>5, <1>6 DEF IInv

LEMMA WaitEmptyInv == ASSUME IInv, WaitEmpty PROVE IInv'
<1>1. TypeOK'
  BY RingAssumption DEF IInv, TypeOK, WaitEmpty, Lives, ExitCodes, ProducerPlaces, ConsumerPlaces, Slot
<1>2. (SemaphoreInv /\ IndexInv)'
  BY DEF IInv, TypeOK, WaitEmpty, SemaphoreInv, IndexInv, InFlight, ProducerHolds, ConsumerFreeing,
     ConsumerReading, RingReady, Looping
<1>3. SlotInv'
  BY DEF IInv, SlotInv, InFlight, Ahead, ChunkNumber, StartOf, ChunkLength, WaitEmpty
<1>4. ByteInv'
  BY DEF IInv, ByteInv, BytesOf, StartOf, Looping, WaitEmpty
<1>5. LifeInv'
  BY DEF IInv, LifeInv, BeforeFork, Looping, WithChild, WaitEmpty
<1>6. CallerInv'
  BY DEF IInv, CallerInv, HeldAt, AbandonCleanup, Looping, WaitEmpty
<1> QED BY <1>1, <1>2, <1>3, <1>4, <1>5, <1>6 DEF IInv

LEMMA WriteSlotInv == ASSUME IInv, WriteSlot PROVE IInv'
<1>0. /\ head % RingSlots = head /\ head \in Slot /\ tail \in Slot
      /\ sent < call.total /\ call.chunk > 0
      /\ produced \in Nat /\ InFlight \in 0..(RingSlots - 1)
      /\ head = tail + InFlight \/ head = tail + InFlight - RingSlots
  <2>1. head \in Slot /\ tail \in Slot /\ sent < call.total /\ call.chunk > 0
    BY DEF IInv, TypeOK, ByteInv, LifeInv, Looping, WriteSlot
  <2>2. /\ produced \in Nat /\ InFlight \in 0..(RingSlots - 1)
        /\ head = tail + InFlight \/ head = tail + InFlight - RingSlots
    BY RingAssumption DEF IInv, TypeOK, SemaphoreInv, IndexInv, ConsumerFreeing, ConsumerReading,
       ProducerHolds, InFlight, RingReady, Looping, WriteSlot
  <2> QED BY <2>1, <2>2, RingIndex
<1>a. [chunk |-> produced, len |-> ChunkLength(sent)] = ChunkNumber(produced)
  BY <1>0, ChunkFacts DEF IInv, ByteInv, ChunkNumber
<1>b. slots' = [slots EXCEPT ![head] = ChunkNumber(produced)]
  BY <1>0, <1>a DEF WriteSlot
<1>1. TypeOK'
  <2>1. ChunkLength(sent) \in Nat
    BY <1>0, ChunkFacts DEF IInv, ByteInv
  <2>2. slots' \in [Slot -> [chunk : Nat \cup {-1}, len : Nat]]
    BY <1>0, <2>1 DEF IInv, TypeOK, WriteSlot
  <2> QED BY <2>2 DEF IInv, TypeOK, WriteSlot, Lives, ExitCodes, ProducerPlaces, ConsumerPlaces
<1>2. (SemaphoreInv /\ IndexInv)'
  BY DEF IInv, SemaphoreInv, IndexInv, InFlight, ProducerHolds, ConsumerFreeing,
     ConsumerReading, RingReady, Looping, WriteSlot
<1>3. SlotInv'
  <2>1. Ahead(head) = InFlight
    BY <1>0, RingAssumption DEF Ahead, Slot
  <2>2. ASSUME NEW i \in Slot, Ahead(i) < InFlight
        PROVE  slots'[i] = ChunkNumber(consumed + Ahead(i))
    <3>1. i # head
      BY <1>0, <2>1, <2>2
    <3> QED BY <1>b, <2>2, <3>1 DEF IInv, TypeOK, SlotInv
  <2>3. slots'[head] = ChunkNumber(produced)
    BY <1>0, <1>b DEF IInv, TypeOK
  <2>4. UNCHANGED <<call, tail, produced, consumed, head>>
    BY DEF WriteSlot
  <2> QED BY <2>2, <2>3, <2>4 DEF SlotInv, Ahead, InFlight, ChunkNumber, StartOf, ChunkLength
<1>4. ByteInv'
  BY DEF IInv, ByteInv, BytesOf, StartOf, Looping, WriteSlot
<1>5. LifeInv'
  BY DEF IInv, LifeInv, BeforeFork, Looping, WithChild, WriteSlot
<1>6. CallerInv'
  BY DEF IInv, CallerInv, HeldAt, Looping, WriteSlot
<1> QED BY <1>1, <1>2, <1>3, <1>4, <1>5, <1>6 DEF IInv

LEMMA PostFilledInv == ASSUME IInv, PostFilled PROVE IInv'
<1>0. /\ head' = Advance(head) /\ head \in Slot /\ tail \in Slot
      /\ sent < call.total /\ call.chunk > 0
      /\ produced \in Nat /\ consumed \in Nat
      /\ InFlight \in 0..(RingSlots - 1)
      /\ empty + InFlight + 1 + ConsumerFreeing = RingSlots
      /\ head = tail + InFlight \/ head = tail + InFlight - RingSlots
  BY DEF IInv, TypeOK, ByteInv, LifeInv, SemaphoreInv, IndexInv, ConsumerFreeing, ConsumerReading,
     ProducerHolds, InFlight, RingReady, Looping, PostFilled
<1>a. CASE ppc' = "abort"
  <2>0. UNCHANGED <<call, sent, produced, filled, empty, slots, consumed, received, tail, child, cpc,
                    code, held, affinity, answer, status>> /\ site' = "sem_post"
    BY <1>a DEF PostFilled
  <2>1. TypeOK'
    BY <1>a, <1>0, <2>0, RingIndex DEF IInv, TypeOK, ProducerPlaces
  <2>2. (SemaphoreInv /\ IndexInv)'
    BY <1>a, <2>0 DEF IInv, SemaphoreInv, IndexInv, InFlight, ProducerHolds, ConsumerFreeing, ConsumerReading,
       RingReady, Looping
  <2>3. SlotInv'
    BY <1>a, <2>0 DEF IInv, SlotInv, InFlight, Ahead, ChunkNumber, StartOf, ChunkLength
  <2>4. ByteInv'
    BY <1>a, <2>0 DEF IInv, ByteInv, BytesOf, StartOf, Looping
  <2>5. LifeInv'
    BY <1>a, <2>0 DEF IInv, LifeInv, BeforeFork, Looping, WithChild, PostFilled
  <2>6. CallerInv'
    BY <1>a, <2>0 DEF IInv, CallerInv, HeldAt, AbandonCleanup, Looping, PostFilled
  <2> QED BY <2>1, <2>2, <2>3, <2>4, <2>5, <2>6 DEF IInv
<1>b. CASE ppc' # "abort"
  <2>0. /\ UNCHANGED <<call, site, empty, slots, consumed, received, tail, child, cpc, code, held,
                       affinity, answer, status>>
        /\ ppc = "post" /\ ppc' = (IF sent' < call.total THEN "wait" ELSE "waitpid")
        /\ filled' = filled + 1 /\ produced' = produced + 1
        /\ sent' = sent + ChunkLength(sent)
    BY <1>b DEF PostFilled
  <2>a. /\ sent = BytesOf(produced) /\ sent = StartOf(produced)
        /\ ChunkLength(sent) \in Nat \ {0}
        /\ sent' = BytesOf(produced + 1)
        /\ sent' \in Nat /\ sent' =< call.total
    BY <1>0, <2>0, ChunkFacts DEF IInv, ByteInv
  <2>1. TypeOK'
    <3>1. filled' \in 0..RingSlots
      <4>1. filled =< InFlight /\ filled \in Nat
        BY <1>0 DEF IInv, TypeOK, SemaphoreInv, ConsumerReading
      <4> QED BY <1>0, <2>0, <4>1, RingAssumption
    <3> QED BY <1>0, <2>0, <2>a, <3>1, RingIndex DEF IInv, TypeOK, ProducerPlaces
  <2>2. SemaphoreInv'
    BY <1>0, <2>0 DEF IInv, TypeOK, SemaphoreInv, InFlight, ProducerHolds, ConsumerFreeing, ConsumerReading,
       RingReady, Looping
  <2>3. IndexInv'
    BY <1>0, <2>0, RingIndex, RingAssumption DEF IndexInv, InFlight, RingReady, Looping, Slot
  <2>4. SlotInv'
    <3>1. ASSUME NEW i \in Slot, Ahead(i) < InFlight + 1
          PROVE  slots[i] = ChunkNumber(consumed + Ahead(i))
      <4>1. CASE Ahead(i) < InFlight
        BY <4>1 DEF IInv, SlotInv
      <4>2. CASE ~ (Ahead(i) < InFlight)
        <5>1. Ahead(i) = InFlight
          BY <1>0, <3>1, <4>2, AheadFacts DEF IInv
        <5>2. i = head
          BY <1>0, <5>1, RingAssumption DEF Ahead, Slot
        <5>3. consumed + Ahead(i) = produced
          BY <1>0, <5>1 DEF InFlight
        <5> QED BY <2>0, <5>2, <5>3 DEF IInv, SlotInv
      <4> QED BY <4>1, <4>2
    <3>2. InFlight' = InFlight + 1
      BY <1>0, <2>0 DEF InFlight
    <3> QED BY <2>0, <3>1, <3>2 DEF SlotInv, Ahead, ChunkNumber, StartOf, ChunkLength
  <2>5. ByteInv'
    BY <2>0, <2>a, CallTypes DEF IInv, ByteInv, BytesOf, StartOf, Looping
  <2>6. LifeInv'
    BY <2>0 DEF IInv, LifeInv, BeforeFork, Looping, WithChild
  <2>7. CallerInv'
    BY <2>0, <1>0, <2>a DEF IInv, CallerInv, HeldAt, Looping
  <2> QED BY <2>1, <2>2, <2>3, <2>4, <2>5, <2>6, <2>7 DEF IInv
<1> QED BY <1>a, <1>b

LEMMA WaitConsumerInv == ASSUME IInv, WaitConsumer PROVE IInv'
<1>1. TypeOK'
  BY DEF IInv, TypeOK, Lives, ExitCodes, ProducerPlaces, ConsumerPlaces, Slot, WaitConsumer
<1>2. (SemaphoreInv /\ IndexInv)'
  BY DEF IInv, LifeInv, SemaphoreInv, IndexInv, InFlight, ProducerHolds, ConsumerFreeing,
         ConsumerReading, BeforeFork, Looping, WithChild, RingReady, WaitConsumer
<1>3. SlotInv'
  BY DEF IInv, SlotInv, InFlight, Ahead, ChunkNumber, StartOf, ChunkLength, WaitConsumer
<1>4. ByteInv'
  BY CallTypes DEF IInv, LifeInv, ByteInv, BytesOf, StartOf, BeforeFork, Looping, WithChild,
         RingReady, WaitConsumer
<1>5. LifeInv'
  BY DEF IInv, LifeInv, TypeOK, ByteInv, BeforeFork, Looping, WithChild, RingReady,
         WaitConsumer
<1>6. CallerInv'
  BY DEF IInv, CallerInv, TypeOK, LifeInv, ByteInv, HeldAt, AbandonCleanup, BeforeFork,
         Looping, WithChild, RingReady, WaitConsumer
<1> QED BY <1>1, <1>2, <1>3, <1>4, <1>5, <1>6 DEF IInv

LEMMA RestoreInv == ASSUME IInv, Restore PROVE IInv'
<1>a. held' \subseteq Everything /\ affinity' \in {"original", "pinned", "stuck"}
  BY DEF IInv, TypeOK, Lives, ProducerPlaces, Restore, RestoreAffinity
<1>1. TypeOK'
  BY <1>a DEF IInv, TypeOK, Lives, ExitCodes, ProducerPlaces, ConsumerPlaces, Slot, Restore
<1>2. (SemaphoreInv /\ IndexInv)'
  BY DEF IInv, LifeInv, SemaphoreInv, IndexInv, InFlight, ProducerHolds, ConsumerFreeing,
         ConsumerReading, BeforeFork, Looping, WithChild, RingReady, Restore
<1>3. SlotInv'
  BY DEF IInv, SlotInv, InFlight, Ahead, ChunkNumber, StartOf, ChunkLength, Restore
<1>4. ByteInv'
  BY CallTypes DEF IInv, LifeInv, ByteInv, BytesOf, StartOf, BeforeFork, Looping, WithChild,
         RingReady, Restore
<1>5. LifeInv'
  BY DEF IInv, LifeInv, TypeOK, ByteInv, BeforeFork, Looping, WithChild, RingReady, Restore
<1>6. CallerInv'
  BY DEF IInv, CallerInv, TypeOK, LifeInv, ByteInv, HeldAt, AbandonCleanup, BeforeFork,
         Looping, WithChild, RingReady, Restore, RestoreAffinity
<1> QED BY <1>1, <1>2, <1>3, <1>4, <1>5, <1>6 DEF IInv

LEMMA FinishInv == ASSUME IInv, Finish PROVE IInv'
<1>1. TypeOK'
  BY DEF IInv, TypeOK, Lives, ExitCodes, ProducerPlaces, ConsumerPlaces, Slot, Finish
<1>2. (SemaphoreInv /\ IndexInv)'
  BY DEF IInv, LifeInv, SemaphoreInv, IndexInv, InFlight, ProducerHolds, ConsumerFreeing,
         ConsumerReading, BeforeFork, Looping, WithChild, RingReady, Finish
<1>3. SlotInv'
  BY DEF IInv, SlotInv, InFlight, Ahead, ChunkNumber, StartOf, ChunkLength, Finish
<1>4. ByteInv'
  BY CallTypes DEF IInv, LifeInv, ByteInv, BytesOf, StartOf, BeforeFork, Looping, WithChild,
         RingReady, Finish
<1>5. LifeInv'
  BY DEF IInv, LifeInv, TypeOK, ByteInv, BeforeFork, Looping, WithChild, RingReady, Finish
<1>6. CallerInv'
  BY DEF IInv, CallerInv, TypeOK, LifeInv, ByteInv, HeldAt, AbandonCleanup, BeforeFork,
         Looping, WithChild, RingReady, Finish
<1> QED BY <1>1, <1>2, <1>3, <1>4, <1>5, <1>6 DEF IInv

LEMMA AbortInv == ASSUME IInv, Abort PROVE IInv'
<1>a. held' \subseteq Everything /\ affinity' \in {"original", "pinned", "stuck"} /\ child' \in Lives
  BY DEF IInv, TypeOK, Lives, ProducerPlaces, Abort, RestoreAffinity, RestoringSites
<1>1. TypeOK'
  BY <1>a DEF IInv, TypeOK, Lives, ExitCodes, ProducerPlaces, ConsumerPlaces, Slot, Abort
<1>2. (SemaphoreInv /\ IndexInv)'
  BY DEF IInv, LifeInv, SemaphoreInv, IndexInv, InFlight, ProducerHolds, ConsumerFreeing,
         ConsumerReading, BeforeFork, Looping, WithChild, RingReady, Abort
<1>3. SlotInv'
  BY DEF IInv, SlotInv, InFlight, Ahead, ChunkNumber, StartOf, ChunkLength, Abort
<1>4. ByteInv'
  BY CallTypes DEF IInv, LifeInv, ByteInv, BytesOf, StartOf, BeforeFork, Looping, WithChild,
         RingReady, Abort
<1>5. LifeInv'
  BY DEF IInv, LifeInv, TypeOK, ByteInv, BeforeFork, Looping, WithChild, RingReady, Abort
<1>6. CallerInv'
  BY DEF IInv, CallerInv, TypeOK, LifeInv, ByteInv, HeldAt, AbandonCleanup, BeforeFork,
         Looping, WithChild, RingReady, Abort, RestoreAffinity, RestoringSites
<1> QED BY <1>1, <1>2, <1>3, <1>4, <1>5, <1>6 DEF IInv

LEMMA MallocConsumerInv == ASSUME IInv, MallocConsumer PROVE IInv'
<1>1. TypeOK'
  BY DEF IInv, TypeOK, Lives, ExitCodes, ProducerPlaces, ConsumerPlaces, Slot,
         MallocConsumer
<1>2. (SemaphoreInv /\ IndexInv)'
  BY DEF IInv, LifeInv, SemaphoreInv, IndexInv, InFlight, ProducerHolds, ConsumerFreeing,
         ConsumerReading, BeforeFork, Looping, WithChild, RingReady, MallocConsumer
<1>3. SlotInv'
  BY DEF IInv, SlotInv, InFlight, Ahead, ChunkNumber, StartOf, ChunkLength, MallocConsumer
<1>4. ByteInv'
  BY CallTypes DEF IInv, LifeInv, ByteInv, BytesOf, StartOf, BeforeFork, Looping, WithChild,
         RingReady, MallocConsumer
<1>5. LifeInv'
  BY DEF IInv, LifeInv, TypeOK, ByteInv, BeforeFork, Looping, WithChild, RingReady,
         MallocConsumer
<1>6. CallerInv'
  BY DEF IInv, CallerInv, TypeOK, LifeInv, ByteInv, HeldAt, AbandonCleanup, BeforeFork,
         Looping, WithChild, RingReady, MallocConsumer
<1> QED BY <1>1, <1>2, <1>3, <1>4, <1>5, <1>6 DEF IInv

LEMMA PinConsumerInv == ASSUME IInv, PinConsumer PROVE IInv'
<1>1. TypeOK'
  BY DEF IInv, TypeOK, Lives, ExitCodes, ProducerPlaces, ConsumerPlaces, Slot, PinConsumer
<1>2. (SemaphoreInv /\ IndexInv)'
  BY DEF IInv, LifeInv, SemaphoreInv, IndexInv, InFlight, ProducerHolds, ConsumerFreeing,
         ConsumerReading, BeforeFork, Looping, WithChild, RingReady, PinConsumer
<1>3. SlotInv'
  BY DEF IInv, SlotInv, InFlight, Ahead, ChunkNumber, StartOf, ChunkLength, PinConsumer
<1>4. ByteInv'
  BY CallTypes DEF IInv, LifeInv, ByteInv, BytesOf, StartOf, BeforeFork, Looping, WithChild,
         RingReady, PinConsumer
<1>5. LifeInv'
  BY DEF IInv, LifeInv, TypeOK, ByteInv, BeforeFork, Looping, WithChild, RingReady,
         PinConsumer
<1>6. CallerInv'
  BY DEF IInv, CallerInv, TypeOK, LifeInv, ByteInv, HeldAt, AbandonCleanup, BeforeFork,
         Looping, WithChild, RingReady, PinConsumer
<1> QED BY <1>1, <1>2, <1>3, <1>4, <1>5, <1>6 DEF IInv

LEMMA WaitFilledInv == ASSUME IInv, WaitFilled PROVE IInv'
<1>1. TypeOK'
  BY RingAssumption DEF IInv, TypeOK, WaitFilled, Lives, ExitCodes, ConsumerPlaces
<1>2. (SemaphoreInv /\ IndexInv)'
  BY DEF IInv, TypeOK, WaitFilled, SemaphoreInv, IndexInv, InFlight, ProducerHolds, ConsumerFreeing,
     ConsumerReading, RingReady, Looping
<1>3. SlotInv'
  BY DEF IInv, SlotInv, InFlight, Ahead, ChunkNumber, StartOf, ChunkLength, WaitFilled
<1>4. ByteInv'
  BY DEF IInv, ByteInv, BytesOf, StartOf, Looping, WaitFilled
<1>5. LifeInv'
  BY DEF IInv, LifeInv, BeforeFork, Looping, WithChild, WaitFilled
<1>6. CallerInv'
  BY DEF IInv, CallerInv, LifeInv, HeldAt, AbandonCleanup, Looping, WaitFilled
<1> QED BY <1>1, <1>2, <1>3, <1>4, <1>5, <1>6 DEF IInv

LEMMA ReadSlotInv == ASSUME IInv, ReadSlot PROVE IInv'
<1>0. /\ tail' = Advance(tail) /\ tail \in Slot
      /\ received < call.total /\ call.chunk > 0
      /\ produced \in Nat /\ consumed \in Nat
      /\ InFlight \in 1..RingSlots
      /\ consumed' = consumed + 1 /\ cpc' = "post" /\ cpc = "read"
      /\ received' = received + ChunkLength(received)
      /\ child = "running" /\ child' = "running"
      /\ UNCHANGED <<callerVars, ppc, producerVars, code, sharedVars>>
  <2>1. tail \in Slot /\ received < call.total /\ call.chunk > 0
    BY DEF IInv, TypeOK, ByteInv, LifeInv, ReadSlot
  <2>2. produced \in Nat /\ consumed \in Nat /\ InFlight \in 1..RingSlots
    BY RingAssumption DEF IInv, TypeOK, SemaphoreInv, ConsumerReading, ConsumerFreeing, InFlight, ReadSlot
  <2> QED BY <2>1, <2>2 DEF ReadSlot
<1>a. /\ ChunkLength(received) \in Nat \ {0}
      /\ received' = BytesOf(consumed + 1)
      /\ received' \in Nat /\ received' =< call.total
  BY <1>0, ChunkFacts DEF IInv, ByteInv
<1>b. InFlight' = InFlight - 1
  BY <1>0 DEF InFlight
<1>1. TypeOK'
  BY <1>0, <1>a, RingIndex DEF IInv, TypeOK, Lives, ConsumerPlaces
<1>2. SemaphoreInv'
  BY <1>0, <1>b DEF IInv, TypeOK, SemaphoreInv, ProducerHolds, ConsumerFreeing, ConsumerReading,
     RingReady, Looping
<1>3. IndexInv'
  <2>1. head \in Slot
    BY DEF IInv, TypeOK
  <2> QED BY <1>0, <1>b, <2>1, RingIndex, RingAssumption DEF IInv, IndexInv, RingReady, Looping, Slot
<1>4. SlotInv'
  <2>1. ASSUME NEW i \in Slot, Ahead(i)' < InFlight'
        PROVE  slots[i] = ChunkNumber(consumed + 1 + Ahead(i)')
    <3>1. i # tail /\ Ahead(i)' = Ahead(i) - 1 /\ Ahead(i) \in Int
      <4>1. /\ Ahead(i) \in 0..(RingSlots - 1)
            /\ Ahead(i)' = IF i = tail THEN RingSlots - 1 ELSE Ahead(i) - 1
        BY <1>0, <2>1, AheadFacts DEF IInv
      <4> QED BY <1>0, <1>b, <2>1, <4>1, RingAssumption
    <3>2. slots[i] = ChunkNumber(consumed + Ahead(i))
      BY <1>b, <1>0, <2>1, <3>1 DEF IInv, SlotInv
    <3>3. consumed + 1 + Ahead(i)' = consumed + Ahead(i)
      BY <1>0, <3>1
    <3> QED BY <3>2, <3>3
  <2> QED BY <1>0, <2>1 DEF IInv, SlotInv, ChunkNumber, StartOf, ChunkLength
<1>5. ByteInv'
  BY <1>0, <1>a DEF IInv, ByteInv, BytesOf, StartOf, Looping
<1>6. LifeInv'
  BY <1>0 DEF IInv, LifeInv, BeforeFork, Looping, WithChild
<1>7. CallerInv'
  BY <1>0 DEF IInv, CallerInv, HeldAt, AbandonCleanup, Looping
<1> QED BY <1>1, <1>2, <1>3, <1>4, <1>5, <1>6, <1>7 DEF IInv

LEMMA PostEmptyInv == ASSUME IInv, PostEmpty PROVE IInv'
<1>0. /\ child = "running" /\ cpc = "post" /\ code = NoCode
      /\ empty + InFlight + 1 =< RingSlots /\ InFlight \in Nat /\ filled = InFlight
  BY DEF IInv, TypeOK, LifeInv, SemaphoreInv, ConsumerReading, ConsumerFreeing, InFlight, PostEmpty
<1>1. TypeOK'
  BY <1>0, RingAssumption DEF IInv, TypeOK, PostEmpty, Lives, ExitCodes, ConsumerPlaces
<1>2. (SemaphoreInv /\ IndexInv)'
  BY <1>0 DEF IInv, TypeOK, SemaphoreInv, IndexInv, InFlight, ProducerHolds, ConsumerFreeing, ConsumerReading,
     RingReady, Looping, PostEmpty
<1>3. SlotInv'
  BY DEF IInv, SlotInv, InFlight, Ahead, ChunkNumber, StartOf, ChunkLength, PostEmpty
<1>4. ByteInv'
  <2>1. received =< call.total /\ received \in Nat /\ call.total \in Nat
    BY <1>0, ChunkFacts, CallTypes DEF IInv, ByteInv, LifeInv, SemaphoreInv
  <2> QED BY <2>1 DEF IInv, ByteInv, BytesOf, StartOf, Looping, PostEmpty
<1>5. LifeInv'
  BY <1>0 DEF IInv, LifeInv, BeforeFork, Looping, WithChild, PostEmpty
<1>6. CallerInv'
  BY <1>0 DEF IInv, CallerInv, LifeInv, HeldAt, AbandonCleanup, Looping, PostEmpty
<1> QED BY <1>1, <1>2, <1>3, <1>4, <1>5, <1>6 DEF IInv

LEMMA ExitConsumerInv == ASSUME IInv, ExitConsumer PROVE IInv'
<1>1. TypeOK'
  BY DEF IInv, TypeOK, Lives, ExitCodes, ProducerPlaces, ConsumerPlaces, Slot, ExitConsumer
<1>2. (SemaphoreInv /\ IndexInv)'
  BY DEF IInv, LifeInv, SemaphoreInv, IndexInv, InFlight, ProducerHolds, ConsumerFreeing,
         ConsumerReading, BeforeFork, Looping, WithChild, RingReady, ExitConsumer
<1>3. SlotInv'
  BY DEF IInv, SlotInv, InFlight, Ahead, ChunkNumber, StartOf, ChunkLength, ExitConsumer
<1>4. ByteInv'
  BY CallTypes DEF IInv, LifeInv, ByteInv, BytesOf, StartOf, BeforeFork, Looping, WithChild,
         RingReady, ExitConsumer
<1>5. LifeInv'
  BY DEF IInv, LifeInv, TypeOK, ByteInv, BeforeFork, Looping, WithChild, RingReady,
         ExitConsumer
<1>6. CallerInv'
  BY DEF IInv, CallerInv, TypeOK, LifeInv, ByteInv, HeldAt, AbandonCleanup, BeforeFork,
         Looping, WithChild, RingReady, ExitConsumer
<1> QED BY <1>1, <1>2, <1>3, <1>4, <1>5, <1>6 DEF IInv

LEMMA ConsumerTerminatedInv == ASSUME IInv, ConsumerTerminated PROVE IInv'
<1>1. TypeOK'
  BY DEF IInv, TypeOK, Lives, ExitCodes, ProducerPlaces, ConsumerPlaces, Slot,
         ConsumerTerminated
<1>2. (SemaphoreInv /\ IndexInv)'
  BY DEF IInv, LifeInv, SemaphoreInv, IndexInv, InFlight, ProducerHolds, ConsumerFreeing,
         ConsumerReading, BeforeFork, Looping, WithChild, RingReady, ConsumerTerminated
<1>3. SlotInv'
  BY DEF IInv, SlotInv, InFlight, Ahead, ChunkNumber, StartOf, ChunkLength,
         ConsumerTerminated
<1>4. ByteInv'
  BY CallTypes DEF IInv, LifeInv, ByteInv, BytesOf, StartOf, BeforeFork, Looping, WithChild,
         RingReady, ConsumerTerminated
<1>5. LifeInv'
  BY DEF IInv, LifeInv, TypeOK, ByteInv, BeforeFork, Looping, WithChild, RingReady,
         ConsumerTerminated
<1>6. CallerInv'
  BY DEF IInv, CallerInv, TypeOK, LifeInv, ByteInv, HeldAt, AbandonCleanup, BeforeFork,
         Looping, WithChild, RingReady, ConsumerTerminated
<1> QED BY <1>1, <1>2, <1>3, <1>4, <1>5, <1>6 DEF IInv

LEMMA KillConsumerInv == ASSUME IInv, KillConsumer PROVE IInv'
<1>1. TypeOK'
  BY DEF IInv, TypeOK, Lives, ExitCodes, ProducerPlaces, ConsumerPlaces, Slot, KillConsumer
<1>2. (SemaphoreInv /\ IndexInv)'
  BY DEF IInv, LifeInv, SemaphoreInv, IndexInv, InFlight, ProducerHolds, ConsumerFreeing,
         ConsumerReading, BeforeFork, Looping, WithChild, RingReady, KillConsumer
<1>3. SlotInv'
  BY DEF IInv, SlotInv, InFlight, Ahead, ChunkNumber, StartOf, ChunkLength, KillConsumer
<1>4. ByteInv'
  BY CallTypes DEF IInv, LifeInv, ByteInv, BytesOf, StartOf, BeforeFork, Looping, WithChild,
         RingReady, KillConsumer
<1>5. LifeInv'
  BY DEF IInv, LifeInv, TypeOK, ByteInv, BeforeFork, Looping, WithChild, RingReady,
         KillConsumer
<1>6. CallerInv'
  BY DEF IInv, CallerInv, TypeOK, LifeInv, ByteInv, HeldAt, AbandonCleanup, BeforeFork,
         Looping, WithChild, RingReady, KillConsumer
<1> QED BY <1>1, <1>2, <1>3, <1>4, <1>5, <1>6 DEF IInv

LEMMA KillProducerInv == ASSUME IInv, KillProducer PROVE IInv'
<1>1. TypeOK'
  BY DEF IInv, TypeOK, Lives, ExitCodes, ProducerPlaces, ConsumerPlaces, Slot, KillProducer
<1>2. (SemaphoreInv /\ IndexInv)'
  BY DEF IInv, LifeInv, SemaphoreInv, IndexInv, InFlight, ProducerHolds, ConsumerFreeing,
         ConsumerReading, BeforeFork, Looping, WithChild, RingReady, KillProducer
<1>3. SlotInv'
  BY DEF IInv, SlotInv, InFlight, Ahead, ChunkNumber, StartOf, ChunkLength, KillProducer
<1>4. ByteInv'
  BY CallTypes DEF IInv, LifeInv, ByteInv, BytesOf, StartOf, BeforeFork, Looping, WithChild,
         RingReady, KillProducer
<1>5. LifeInv'
  BY DEF IInv, LifeInv, TypeOK, ByteInv, BeforeFork, Looping, WithChild, RingReady,
         KillProducer
<1>6. CallerInv'
  BY DEF IInv, CallerInv, TypeOK, LifeInv, ByteInv, HeldAt, AbandonCleanup, BeforeFork,
         Looping, WithChild, RingReady, KillProducer
<1> QED BY <1>1, <1>2, <1>3, <1>4, <1>5, <1>6 DEF IInv


-----------------------------------------------------------------------------
(* The theorems.                                                           *)

LEMMA NextInv == ASSUME IInv, [Next]_vars PROVE IInv'
<1>1. CASE UNCHANGED vars
  BY <1>1 DEF vars, IInv, TypeOK, SemaphoreInv, IndexInv, SlotInv, ByteInv, LifeInv, CallerInv, InFlight,
     ProducerHolds, ConsumerFreeing, ConsumerReading, Ahead, ChunkNumber, StartOf, ChunkLength, BytesOf,
     HeldAt, AbandonCleanup
<1>2. CASE Producer
  BY <1>2, CheckArgumentsInv, SetupStepInv, ForkInv, MallocProducerInv, PinProducerInv, WaitEmptyInv,
     WriteSlotInv, PostFilledInv, WaitConsumerInv, RestoreInv, FinishInv, AbortInv DEF Producer
<1>3. CASE Consumer
  BY <1>3, MallocConsumerInv, PinConsumerInv, WaitFilledInv, ReadSlotInv, PostEmptyInv, ExitConsumerInv
     DEF Consumer
<1> QED BY <1>1, <1>2, <1>3, ConsumerTerminatedInv, KillConsumerInv, KillProducerInv DEF Next

\* The invariant holds in every reachable state, whatever the ring, the
\* sizes and the faults.
THEOREM InvariantHolds == Spec => []IInv
<1>1. IInv /\ [Next]_vars => IInv'
  BY NextInv
<1> QED BY <1>1, InitInv, PTL DEF Spec

\* Every variable keeps its type.
THEOREM TypeCorrect == Spec => []TypeOK
<1>1. IInv => TypeOK
  BY DEF IInv
<1> QED BY <1>1, InvariantHolds, PTL

\* The producer and the consumer are never inside the same slot.
THEOREM SlotsAreExclusive == Spec => []SlotsExclusive
<1>1. IInv => SlotsExclusive
  BY RingAssumption DEF IInv, TypeOK, Slot, SlotsExclusive, SemaphoreInv, IndexInv, InFlight, ProducerHolds,
     ConsumerFreeing, ConsumerReading, RingReady, Looping
<1> QED BY <1>1, InvariantHolds, PTL

\* The consumer copies the chunks in order, each with its own length.
THEOREM ReadsInOrder == Spec => []ReadsNextChunk
<1>1. IInv => ReadsNextChunk
  <2> SUFFICES ASSUME IInv, child = "running", cpc = "read"
               PROVE  slots[tail % RingSlots] = [chunk |-> consumed, len |-> ChunkLength(received)]
    BY DEF ReadsNextChunk
  <2>1. /\ tail \in Slot /\ tail % RingSlots = tail
        /\ consumed \in Nat /\ call.chunk > 0 /\ received < call.total
    BY RingIndex DEF IInv, TypeOK, LifeInv, ByteInv
  <2>2. 0 < InFlight
    BY DEF IInv, TypeOK, SemaphoreInv, ConsumerReading, InFlight
  <2>3. Ahead(tail) = 0
    BY <2>1, AheadFacts DEF IInv
  <2>4. slots[tail] = ChunkNumber(consumed)
    BY <2>1, <2>2, <2>3 DEF IInv, SlotInv
  <2>5. received = StartOf(consumed)
    BY <2>1, ChunkFacts DEF IInv, ByteInv
  <2> QED BY <2>1, <2>4, <2>5 DEF ChunkNumber
<1> QED BY <1>1, InvariantHolds, PTL

\* "ok" is only answered for a complete transfer.
THEOREM OkMeansComplete == Spec => []OkIsComplete
<1>1. IInv => OkIsComplete
  BY DEF IInv, CallerInv, OkIsComplete
<1> QED BY <1>1, InvariantHolds, PTL

\* No way out of the call leaks.
THEOREM NoLeaks == Spec => []NothingLeaks
<1>1. IInv => NothingLeaks
  BY DEF IInv, CallerInv, LifeInv, HeldAt, NothingLeaks
<1> QED BY <1>1, InvariantHolds, PTL

\* No call returns with the caller pinned.
THEOREM AffinityRestored == Spec => []NeverReturnsPinned
<1>1. IInv => NeverReturnsPinned
  BY DEF IInv, CallerInv, Looping, NeverReturnsPinned
<1> QED BY <1>1, InvariantHolds, PTL

\* The ring is not torn down under the consumer.
THEOREM RingOutlives == Spec => []RingOutlivesConsumer
<1>1. IInv => RingOutlivesConsumer
  BY DEF IInv, CallerInv, RingOutlivesConsumer
<1> QED BY <1>1, InvariantHolds, PTL

-----------------------------------------------------------------------------
(* The refinement of Transfer.                                             *)

\* Bytes under way fit the ring.
LEMMA WindowHolds ==
  ASSUME IInv, call.chunk > 0
  PROVE  /\ sent \in Nat /\ received \in Nat
         /\ received =< sent /\ sent =< call.total
         /\ InFlight < RingSlots /\ sent < call.total =>
              sent + ChunkLength(sent) =< received + RingSlots * call.chunk
<1>1. /\ produced \in Nat /\ consumed \in Nat /\ consumed =< produced
      /\ produced - consumed = InFlight
      /\ sent = BytesOf(produced) /\ received = BytesOf(consumed)
      /\ call.total \in Nat /\ call.chunk \in Nat \ {0} /\ RingSlots \in Nat
  BY CallTypes, RingAssumption DEF IInv, TypeOK, SemaphoreInv, ConsumerReading, InFlight, ByteInv
<1>2. StartOf(consumed) =< StartOf(produced)
  BY <1>1 DEF StartOf
<1>3. ASSUME produced + 1 =< consumed + RingSlots
      PROVE  StartOf(produced) + call.chunk =< StartOf(consumed) + RingSlots * call.chunk
  <2>1. (produced + 1) * call.chunk =< (consumed + RingSlots) * call.chunk
    BY <1>1, <1>3
  <2> QED BY <1>1, <2>1 DEF StartOf
<1>4. StartOf(produced) \in Nat /\ StartOf(consumed) \in Nat
  BY <1>1, StartFacts DEF IInv
<1>5. sent \in Nat /\ received \in Nat /\ received =< sent /\ sent =< call.total
  BY <1>1, <1>2, <1>4 DEF BytesOf
<1>6. ASSUME InFlight < RingSlots, sent < call.total
      PROVE  sent + ChunkLength(sent) =< received + RingSlots * call.chunk
  <2>1. sent = StartOf(produced) /\ received = StartOf(consumed)
    BY <1>1, <1>2, <1>4, <1>6 DEF BytesOf
  <2>2. produced + 1 =< consumed + RingSlots
    BY <1>1, <1>6
  <2>3. ChunkLength(sent) =< call.chunk /\ ChunkLength(sent) \in Int
    BY <1>1, <1>5 DEF ChunkLength
  <2>4. RingSlots * call.chunk \in Nat
    BY <1>1
  <2> QED BY <1>1, <1>3, <1>4, <2>1, <2>2, <2>3, <2>4
<1> QED BY <1>5, <1>6

\* A step that changes none of the four mapped variables is a stutter.
LEMMA QuietStep ==
  ASSUME UNCHANGED <<call, sent, received, answer>> PROVE [T!Next]_(T!vars)
BY DEF T!vars

\* A step that only answers "failed".
LEMMA FailStep ==
  ASSUME IInv, UNCHANGED <<call, sent, received>>, ppc # "returned",
         answer' \in {"failed", answer}
  PROVE  [T!Next]_(T!vars)
<1>1. answer = "pending"
  BY DEF IInv, TypeOK, CallerInv
<1> QED BY <1>1 DEF T!vars, T!Next, T!Fail

LEMMA FinishRefines == ASSUME IInv, Finish PROVE [T!Next]_(T!vars)
<1>1. CASE status = 0
  <2>1. /\ sent = call.total /\ received = call.total /\ call.total > 0 /\ answer = "pending"
    BY <1>1 DEF IInv, TypeOK, LifeInv, ByteInv, CallerInv, Finish
  <2> QED BY <1>1, <2>1 DEF Finish, T!Next, T!Succeed, T!vars
<1>2. CASE status # 0
  BY <1>2, FailStep DEF Finish
<1> QED BY <1>1, <1>2

LEMMA PostFilledRefines == ASSUME IInv, PostFilled PROVE [T!Next]_(T!vars)
<1>1. CASE ppc' = "abort"
  BY <1>1, QuietStep DEF PostFilled
<1>2. CASE ppc' # "abort"
  <2>1. /\ sent' = sent + ChunkLength(sent) /\ UNCHANGED <<call, received, answer>>
        /\ sent < call.total /\ call.chunk > 0 /\ answer = "pending" /\ ppc = "post"
    BY <1>2 DEF IInv, TypeOK, ByteInv, LifeInv, CallerInv, Looping, PostFilled
  <2>2. InFlight < RingSlots
    BY <2>1, RingAssumption DEF IInv, TypeOK, SemaphoreInv, ConsumerFreeing, ProducerHolds, InFlight, RingReady,
       Looping
  <2>3. /\ sent \in Nat /\ call.total \in Nat /\ call.chunk \in Nat
        /\ sent + ChunkLength(sent) =< received + RingSlots * call.chunk
    BY <2>1, <2>2, WindowHolds, CallTypes DEF IInv
  <2>4. ChunkLength(sent) \in 1..(call.total - sent)
    BY <2>1, <2>3 DEF ChunkLength
  <2> QED BY <2>1, <2>3, <2>4 DEF T!Next, T!HandOver
<1> QED BY <1>1, <1>2

LEMMA ReadSlotRefines == ASSUME IInv, ReadSlot PROVE [T!Next]_(T!vars)
<1>1. /\ received' = received + ChunkLength(received) /\ UNCHANGED <<call, sent, answer>>
      /\ received < call.total /\ call.chunk > 0 /\ answer # "ok" /\ cpc = "read"
  BY DEF IInv, TypeOK, ByteInv, LifeInv, CallerInv, ReadSlot
<1>2. /\ consumed \in Nat /\ produced \in Nat /\ consumed + 1 =< produced
  BY <1>1 DEF IInv, TypeOK, SemaphoreInv, ConsumerReading, InFlight
<1>3. /\ received = BytesOf(consumed) /\ sent = BytesOf(produced)
      /\ received' = BytesOf(consumed + 1) /\ ChunkLength(received) \in Nat \ {0}
  BY <1>1, <1>2, ChunkFacts DEF IInv, ByteInv
<1>4. BytesOf(consumed + 1) =< BytesOf(produced)
  <2>1. StartOf(consumed + 1) =< StartOf(produced)
    BY <1>2, CallTypes DEF IInv, StartOf
  <2>2. StartOf(consumed + 1) \in Nat /\ StartOf(produced) \in Nat /\ call.total \in Nat
    BY <1>2, StartFacts, CallTypes DEF IInv
  <2> QED BY <2>1, <2>2 DEF BytesOf
<1>5. received \in Nat /\ sent \in Nat
  BY DEF IInv, TypeOK
<1>6. ChunkLength(received) \in 1..(sent - received)
  BY <1>1, <1>3, <1>4, <1>5
<1> QED BY <1>1, <1>6 DEF T!Next, T!Take

LEMMA StepRefines == ASSUME IInv, [Next]_vars PROVE [T!Next]_(T!vars)
<1>1. CASE UNCHANGED vars
  BY <1>1, QuietStep DEF vars
<1>2. CASE CheckArguments \/ Fork \/ Restore \/ Abort \/ \E s \in DOMAIN SetupNext : SetupStep(s)
  <2>1. /\ UNCHANGED <<call, sent, received>> /\ ppc # "returned"
        /\ answer' \in {"failed", answer}
    BY <1>2 DEF CheckArguments, Fork, Restore, Abort, SetupStep, SetupNext
  <2> QED BY <2>1, FailStep
<1>3. CASE \/ MallocProducer \/ PinProducer \/ WaitEmpty \/ WriteSlot \/ WaitConsumer \/ MallocConsumer
           \/ PinConsumer \/ WaitFilled \/ PostEmpty \/ ExitConsumer \/ ConsumerTerminated
           \/ KillConsumer \/ KillProducer
  <2>1. UNCHANGED <<call, sent, received, answer>>
    BY <1>3 DEF MallocProducer, PinProducer, WaitEmpty, WriteSlot, WaitConsumer, MallocConsumer,
       PinConsumer, WaitFilled, PostEmpty, ExitConsumer, ConsumerTerminated, KillConsumer, KillProducer
  <2> QED BY <2>1, QuietStep
<1> QED
  BY <1>1, <1>2, <1>3, FinishRefines, PostFilledRefines, ReadSlotRefines DEF Next, Producer, Consumer

LEMMA InitRefines == ASSUME Init PROVE T!Init
<1>1. call.total \in Nat /\ call.chunk \in Nat
  BY CallAssumption DEF Init
<1> QED BY <1>1, RingAssumption DEF Init, T!Init

\* SHM-RING implements a transfer: bytes in order, never more than the ring
\* under way, "ok" only when everything has arrived.
THEOREM RingImplementsTransfer == Spec => IsTransfer
<1>1. Init => T!Init
  BY InitRefines
<1>2. IInv /\ [Next]_vars => [T!Next]_(T!vars)
  BY StepRefines
<1> QED BY <1>1, <1>2, InvariantHolds, PTL DEF Spec, IsTransfer, T!Spec
=============================================================================
