--------------------------- MODULE ShmSlot_proofs ---------------------------
(***************************************************************************)
(* Proofs about ShmSlot for every total, every chunk size, zero included,  *)
(* and every set of faults.  A single credit passes between the two        *)
(* semaphores and the two processes; whoever has it knows what is in the   *)
(* slot.  IInv says so and is inductive; the two safety properties and the *)
(* refinement of Transfer follow from it.                                  *)
(***************************************************************************)
EXTENDS ShmSlot, TLAPS

\* Places of the producer by what it has reached.
BeforeSem == {"shm_open", "ftruncate", "mmap", "sem_empty"}
BeforeFork == BeforeSem \cup {"sem_full", "fork"}
Looping == {"wait", "write", "post"}
WithChild == {"malloc", "waitpid", "abort"} \cup Looping
ProducerPlaces == BeforeFork \cup WithChild \cup {"finish", "returned", "killed"}

\* The slot belongs to whoever is between its wait and its post; a process
\* that ends there keeps it for ever.
ProducerHolds == IF ppc \in {"write", "post"} THEN 1 ELSE 0
ConsumerHolds == IF cpc \in {"read", "post"} THEN 1 ELSE 0

\* A chunk was published and not copied yet.
Unread == full = 1 \/ cpc = "read"

\* What the caller holds at each place.
HeldAt(p) ==
  CASE p \in {"shm_open", "returned", "abort"} -> {}
    [] p \in {"ftruncate", "mmap"} -> {"name", "fd"}
    [] p = "sem_empty" -> {"name", "fd", "map"}
    [] p = "sem_full" -> {"name", "fd", "map", "empty"}
    [] p \in {"fork", "malloc"} -> Region
    [] OTHER -> Everything

\* The types but for the two semaphores' bounds, which CreditInv gives.
Types ==
  /\ call \in [total : Totals, chunk : Chunks]
  /\ ppc \in ProducerPlaces
  /\ status \in {0, 2, 3, 4, KilledCode} /\ statusLost \in BOOLEAN
  /\ answer \in {"pending", "ok", "failed"}
  /\ sent \in Nat /\ produced \in Nat
  /\ cpc \in {"malloc", "wait", "read", "post", "exit"}
  /\ child \in {"none", "running", "zombie", "reaped", "escaped"}
  /\ code \in {0, 2, 3, 4, KilledCode, NoCode}
  /\ received \in Nat /\ consumed \in Nat
  /\ empty \in Nat /\ full \in Nat
  /\ valid \in Nat /\ buffer \in Nat \cup {-1}

\* There is at most one credit.
CreditInv ==
  /\ empty + full + ProducerHolds + ConsumerHolds =< 1
  /\ ppc \in BeforeSem => empty = 0
  /\ ppc \in BeforeFork => full = 0

\* What the slot holds, and how far apart the two sides are.
SlotInv ==
  /\ Unread => /\ received + valid = sent
               /\ valid > 0 => buffer = consumed /\ produced = consumed + 1
               /\ valid = 0 => produced = consumed
               /\ call.chunk > 0 => valid > 0
  /\ ~Unread => received = sent /\ consumed = produced
  /\ ppc = "post" => buffer = produced /\ valid = Amount

\* How far each side is at each place.
ByteInv ==
  /\ sent =< call.total
  /\ ppc \in BeforeFork \cup {"malloc"} => sent = 0 /\ produced = 0
  /\ ppc \in Looping => sent < call.total
  /\ ppc \in {"waitpid", "finish"} => sent = call.total
  /\ cpc = "malloc" => received = 0 /\ consumed = 0
  /\ cpc \in {"wait", "read"} => received < call.total
  /\ cpc = "exit" => received = call.total

\* Which states of parent and child go together.
LifeInv ==
  /\ ppc \in BeforeFork => child = "none" /\ cpc = "malloc"
  /\ ppc \in WithChild => child \in {"running", "zombie", "escaped"}
  /\ ppc = "finish" => child = "reaped"
  /\ ppc = "returned" => child \in {"none", "reaped"} \/ (produced = 0 /\ sent = 0)
  /\ code = NoCode <=> child \in {"none", "running", "escaped"}
  /\ code = 0 => cpc = "exit"
  /\ ppc = "finish" => status = code \/ statusLost

CallerInv ==
  /\ ppc # "killed" => held = HeldAt(ppc)
  /\ held \subseteq Everything
  /\ answer # "pending" => ppc = "returned"
  /\ answer = "ok" => /\ child = "reaped" /\ sent = call.total
                      /\ statusLost \/ code = 0

IInv == Types /\ CreditInv /\ SlotInv /\ ByteInv /\ LifeInv /\ CallerInv

USE DEF callerVars, producerVars, consumerVars, sharedVars, Return, Abandon, Exit, Alive,
        ConsumerMay, NoCode, KilledCode, CallerCode, Region, Everything, BeforeSem, BeforeFork,
        Looping, WithChild, ProducerPlaces

-----------------------------------------------------------------------------
(* Facts used by several actions.                                          *)

\* The sizes of a call are natural numbers.
LEMMA CallTypes == ASSUME Types PROVE call.total \in Nat /\ call.chunk \in Nat
BY CallAssumption DEF Types

\* The next chunk fits into what is left, and is empty only if chunks are
\* (shm_ipc.c:157-168).
LEMMA AmountFacts ==
  ASSUME Types, sent < call.total
  PROVE  /\ Amount \in Nat /\ Amount =< call.chunk /\ sent + Amount =< call.total
         /\ call.chunk > 0 => Amount > 0
<1> USE CallTypes
<1>1. sent \in Nat
  BY DEF Types
<1> QED BY <1>1 DEF Amount

\* Whoever has the credit is alone with the slot.
LEMMA OneCredit ==
  ASSUME Types, CreditInv
  PROVE  /\ empty \in 0..1 /\ full \in 0..1
         /\ empty = 1 => full = 0 /\ ppc \notin {"write", "post"} /\ cpc \notin {"read", "post"}
         /\ full = 1 => empty = 0 /\ ppc \notin {"write", "post"} /\ cpc \notin {"read", "post"}
         /\ ppc \in {"write", "post"} => empty = 0 /\ full = 0 /\ cpc \notin {"read", "post"}
         /\ cpc \in {"read", "post"} => empty = 0 /\ full = 0 /\ ppc \notin {"write", "post"}
BY DEF Types, CreditInv, ProducerHolds, ConsumerHolds

\* The consumer finds in the slot what the producer counts, so that the
\* clamp against total_bytes changes nothing (shm_ipc.c:121-127).
LEMMA WantedFacts ==
  ASSUME IInv, Unread
  PROVE  Wanted = valid /\ received + Wanted = sent
<1>1. /\ received + valid = sent /\ sent =< call.total
      /\ sent \in Nat /\ valid \in Nat /\ received \in Nat /\ call.total \in Nat
  BY CallTypes DEF IInv, SlotInv, ByteInv, Types
<1> QED BY <1>1 DEF Wanted

-----------------------------------------------------------------------------
(* IInv holds initially and is preserved by every action.                  *)

LEMMA InitInv == Init => IInv
<1> SUFFICES ASSUME Init PROVE IInv
  OBVIOUS
<1>1. Types
  BY DEF Init, Types
<1>2. CreditInv
  BY DEF Init, CreditInv, ProducerHolds, ConsumerHolds
<1>3. SlotInv /\ ByteInv
  BY <1>1, CallTypes DEF Init, SlotInv, ByteInv, Unread
<1>4. LifeInv /\ CallerInv
  BY DEF Init, LifeInv, CallerInv, HeldAt
<1> QED BY <1>1, <1>2, <1>3, <1>4 DEF IInv

LEMMA SetupStepInv == ASSUME NEW s \in DOMAIN SetupNext, IInv, SetupStep(s) PROVE IInv'
<1> USE DEF SetupNext
<1>0. /\ s \in {"shm_open", "ftruncate", "mmap", "sem_empty", "sem_full"} /\ ppc = s
      /\ ppc' \in {"returned", "ftruncate", "mmap", "sem_empty", "sem_full", "fork"}
      /\ UNCHANGED <<call, status, statusLost, sent, produced, cpc, child, code, received,
                     consumed, full, valid, buffer>>
  BY DEF SetupStep
<1>a. /\ held' = HeldAt(ppc') /\ held' \subseteq Everything
      /\ answer' = "failed" => ppc' = "returned"
      /\ answer' \in {"pending", "failed"}
      /\ ppc' = "returned" \/ answer' = "pending"
  <2>1. held = HeldAt(s) /\ answer = "pending"
    BY <1>0 DEF IInv, Types, CallerInv
  <2>2. CASE answer' = "failed" /\ ppc' = "returned" /\ held' = held \ SetupCleanup[s]
    BY <1>0, <2>1, <2>2 DEF SetupCleanup, HeldAt
  <2>3. CASE ppc' = SetupNext[s] /\ held' = held \cup SetupAcquires[s] /\ UNCHANGED answer
    BY <1>0, <2>1, <2>3 DEF SetupAcquires, HeldAt
  <2> QED BY <2>2, <2>3 DEF SetupStep
<1>b. /\ empty' \in 0..1
      /\ ppc' \in BeforeSem => empty' = 0
  <2>1. empty \in 0..1 /\ (s \in BeforeSem => empty = 0)
    BY <1>0, OneCredit DEF IInv, CreditInv
  <2>2. empty' = empty \/ (s = "sem_empty" /\ empty' = 1 /\ ppc' = "sem_full")
    BY <1>0 DEF SetupStep, InitialEmpty
  <2>3. s = "sem_full" => ppc' \in {"fork", "returned"}
    BY <1>0 DEF SetupStep
  <2> QED BY <1>0, <2>1, <2>2, <2>3
<1>c. full = 0 /\ child = "none" /\ cpc = "malloc" /\ sent = 0 /\ produced = 0
  BY <1>0 DEF IInv, CreditInv, LifeInv, ByteInv
<1>1. Types'
  BY <1>0, <1>a, <1>b DEF IInv, Types
<1>2. CreditInv'
  <2>1. ProducerHolds' = 0 /\ ConsumerHolds' = 0 /\ full' = 0
    BY <1>0, <1>c DEF ProducerHolds, ConsumerHolds
  <2>2. \A e \in 0..1 : e + 0 + 0 + 0 =< 1
    OBVIOUS
  <2> QED BY <1>b, <2>1, <2>2 DEF CreditInv
<1>3. SlotInv'
  BY <1>0 DEF IInv, SlotInv, Unread
<1>4. ByteInv'
  BY <1>0, <1>c DEF IInv, ByteInv
<1>5. LifeInv'
  BY <1>0, <1>c DEF IInv, LifeInv
<1>6. CallerInv'
  BY <1>0, <1>a DEF CallerInv
<1> QED BY <1>1, <1>2, <1>3, <1>4, <1>5, <1>6 DEF IInv

LEMMA ForkInv == ASSUME IInv, Fork PROVE IInv'
<1>0. /\ ppc = "fork" /\ ppc' \in {"malloc", "returned"}
      /\ UNCHANGED <<call, status, statusLost, sent, produced, cpc, code, received, consumed,
                     empty, full, valid, buffer>>
      /\ ppc' = "malloc" => child' = "running" /\ UNCHANGED <<held, answer>>
      /\ ppc' = "returned" => child' = child /\ held' = held \ Region /\ answer' = "failed"
  BY DEF Fork
<1>a. held = Region /\ answer = "pending"
  BY <1>0 DEF IInv, CallerInv, HeldAt
<1>1. Types'
  BY <1>0 DEF IInv, Types
<1>2. CreditInv'
  BY <1>0 DEF IInv, CreditInv, ProducerHolds, ConsumerHolds
<1>3. SlotInv'
  BY <1>0 DEF IInv, SlotInv, Unread
<1>4. ByteInv'
  BY <1>0 DEF IInv, ByteInv
<1>5. LifeInv'
  BY <1>0 DEF IInv, LifeInv
<1>6. CallerInv'
  BY <1>0, <1>a DEF CallerInv, HeldAt
<1> QED BY <1>1, <1>2, <1>3, <1>4, <1>5, <1>6 DEF IInv

LEMMA MallocProducerInv == ASSUME IInv, MallocProducer PROVE IInv'
<1>0. /\ ppc = "malloc" /\ ppc' \in {"wait", "waitpid", "returned"}
      /\ UNCHANGED <<call, status, statusLost, sent, produced, cpc, child, code, received,
                     consumed, empty, full, valid, buffer>>
      /\ ppc' # "returned" => /\ ppc' = Loop(0) /\ held' = held \cup {"local_buf"}
                              /\ UNCHANGED answer
      /\ ppc' = "returned" => held' = held \ Region /\ answer' = "failed"
  BY DEF MallocProducer, Loop
<1>a. held = Region /\ answer = "pending" /\ sent = 0 /\ produced = 0 /\ call.total \in Nat
  BY <1>0, CallTypes DEF IInv, CallerInv, ByteInv, HeldAt
<1>1. Types'
  BY <1>0, <1>a DEF IInv, Types
<1>2. CreditInv'
  BY <1>0 DEF IInv, CreditInv, ProducerHolds, ConsumerHolds
<1>3. SlotInv'
  BY <1>0 DEF IInv, SlotInv, Unread
<1>4. ByteInv'
  BY <1>0, <1>a DEF IInv, ByteInv, Loop
<1>5. LifeInv'
  BY <1>0, <1>a DEF IInv, LifeInv
<1>6. CallerInv'
  BY <1>0, <1>a DEF CallerInv, HeldAt
<1> QED BY <1>1, <1>2, <1>3, <1>4, <1>5, <1>6 DEF IInv

LEMMA WaitEmptyInv == ASSUME IInv, WaitEmpty PROVE IInv'
<1>0. /\ ppc = "wait" /\ ppc' \in {"write", "abort"}
      /\ UNCHANGED <<call, status, statusLost, answer, sent, produced, cpc, child, code, received,
                     consumed, full, valid, buffer>>
      /\ ppc' = "write" => empty > 0 /\ empty' = empty - 1 /\ held' = held
      /\ ppc' = "abort" => empty' = empty /\ held' = held \ Everything
  BY DEF WaitEmpty
<1>a. empty \in 0..1 /\ (empty = 1 => full = 0 /\ cpc \notin {"read", "post"})
  BY OneCredit DEF IInv
<1>1. Types'
  BY <1>0, <1>a DEF IInv, Types
<1>2. CreditInv'
  <2>1. CASE ppc' = "write"
    BY <1>0, <1>a, <2>1 DEF CreditInv, ProducerHolds, ConsumerHolds
  <2>2. CASE ppc' = "abort"
    BY <1>0, <2>2 DEF IInv, CreditInv, ProducerHolds, ConsumerHolds
  <2> QED BY <1>0, <2>1, <2>2
<1>3. SlotInv'
  BY <1>0 DEF IInv, SlotInv, Unread
<1>4. ByteInv'
  BY <1>0 DEF IInv, ByteInv
<1>5. LifeInv'
  BY <1>0 DEF IInv, LifeInv
<1>6. CallerInv'
  BY <1>0 DEF IInv, CallerInv, HeldAt
<1> QED BY <1>1, <1>2, <1>3, <1>4, <1>5, <1>6 DEF IInv

LEMMA WriteSlotInv == ASSUME IInv, WriteSlot PROVE IInv'
<1>0. /\ ppc = "write" /\ ppc' = "post" /\ buffer' = produced /\ valid' = Amount
      /\ UNCHANGED <<call, held, status, statusLost, answer, sent, produced, cpc, child, code,
                     received, consumed, empty, full>>
  BY DEF WriteSlot
<1>a. ~Unread /\ Amount \in Nat
  BY <1>0, OneCredit, AmountFacts DEF IInv, ByteInv, Unread
<1>1. Types'
  BY <1>0, <1>a DEF IInv, Types
<1>2. CreditInv'
  BY <1>0 DEF IInv, CreditInv, ProducerHolds, ConsumerHolds
<1>3. SlotInv'
  BY <1>0, <1>a DEF IInv, SlotInv, Unread, Amount
<1>4. ByteInv'
  BY <1>0 DEF IInv, ByteInv
<1>5. LifeInv'
  BY <1>0 DEF IInv, LifeInv
<1>6. CallerInv'
  BY <1>0 DEF IInv, CallerInv, HeldAt
<1> QED BY <1>1, <1>2, <1>3, <1>4, <1>5, <1>6 DEF IInv

LEMMA PostFullInv == ASSUME IInv, PostFull PROVE IInv'
<1>0. /\ ppc = "post"
      /\ UNCHANGED <<call, status, statusLost, answer, cpc, child, code, received, consumed,
                     empty, valid, buffer>>
  BY DEF PostFull
<1>1. CASE ppc' = "abort"
  <2>0. UNCHANGED <<full, sent, produced>> /\ held' = held \ Everything
    BY <1>1 DEF PostFull, Loop
  <2>1. Types' /\ CreditInv'
    BY <1>0, <1>1, <2>0 DEF IInv, Types, CreditInv, ProducerHolds, ConsumerHolds
  <2>2. SlotInv' /\ ByteInv'
    BY <1>0, <1>1, <2>0 DEF IInv, SlotInv, Unread, ByteInv
  <2>3. LifeInv'
    BY <1>0, <1>1, <2>0 DEF IInv, LifeInv
  <2>4. CallerInv'
    BY <1>0, <1>1, <2>0 DEF IInv, CallerInv, HeldAt
  <2> QED BY <2>1, <2>2, <2>3, <2>4 DEF IInv
<1>2. CASE ppc' # "abort"
  <2>0. /\ full' = full + 1 /\ sent' = sent + Amount /\ held' = held
        /\ produced' = IF Amount > 0 THEN produced + 1 ELSE produced
        /\ ppc' = (IF sent' < call.total THEN "wait" ELSE "waitpid")
    BY <1>2 DEF PostFull, Loop
  <2>a. /\ full = 0 /\ empty = 0 /\ cpc \notin {"read", "post"}
        /\ received = sent /\ consumed = produced /\ buffer = produced /\ valid = Amount
    BY <1>0, OneCredit DEF IInv, SlotInv, Unread
  <2>b. /\ Amount \in Nat /\ sent + Amount =< call.total /\ call.total \in Nat
        /\ call.chunk > 0 => Amount > 0
    BY <1>0, AmountFacts, CallTypes DEF IInv, ByteInv
  <2>c. sent \in Nat /\ produced \in Nat /\ sent' \in Nat /\ sent' =< call.total
    BY <2>0, <2>b DEF IInv, Types
  <2>1. Types'
    BY <1>0, <2>0, <2>a, <2>c DEF IInv, Types
  <2>2. CreditInv'
    BY <1>0, <2>0, <2>a DEF CreditInv, ProducerHolds, ConsumerHolds
  <2>3. SlotInv'
    <3>1. Unread' /\ ppc' # "post"
      BY <2>0, <2>a DEF Unread
    <3>2. valid' = Amount /\ sent' = received + valid' /\ consumed = produced /\ buffer' = consumed
      BY <1>0, <2>0, <2>a
    <3> QED BY <1>0, <2>0, <2>b, <2>c, <3>1, <3>2 DEF SlotInv
  <2>4. ByteInv'
    BY <1>0, <2>0, <2>b, <2>c DEF IInv, ByteInv
  <2>5. LifeInv'
    BY <1>0, <2>0 DEF IInv, LifeInv
  <2>6. CallerInv'
    BY <1>0, <2>0 DEF IInv, CallerInv, HeldAt
  <2> QED BY <2>1, <2>2, <2>3, <2>4, <2>5, <2>6 DEF IInv
<1> QED BY <1>1, <1>2

LEMMA WaitConsumerInv == ASSUME IInv, WaitConsumer PROVE IInv'
<1>0. /\ ppc = "waitpid" /\ ppc' = "finish" /\ child = "zombie" /\ child' = "reaped"
      /\ status' = code \/ (status' = status /\ statusLost' = TRUE)
      /\ statusLost' \in {statusLost, TRUE}
      /\ UNCHANGED <<call, held, answer, sent, produced, cpc, code, received, consumed, empty,
                     full, valid, buffer>>
  BY DEF WaitConsumer
<1>a. code \in {0, 2, 3, 4, KilledCode}
  BY <1>0 DEF IInv, Types, LifeInv
<1>1. Types'
  BY <1>0, <1>a DEF IInv, Types
<1>2. CreditInv'
  BY <1>0 DEF IInv, CreditInv, ProducerHolds, ConsumerHolds
<1>3. SlotInv'
  BY <1>0 DEF IInv, SlotInv, Unread
<1>4. ByteInv'
  BY <1>0 DEF IInv, ByteInv
<1>5. LifeInv'
  BY <1>0, <1>a DEF IInv, LifeInv
<1>6. CallerInv'
  BY <1>0 DEF IInv, CallerInv, HeldAt
<1> QED BY <1>1, <1>2, <1>3, <1>4, <1>5, <1>6 DEF IInv

LEMMA AbortInv == ASSUME IInv, Abort PROVE IInv'
<1>0. /\ ppc = "abort" /\ ppc' = "returned" /\ answer' = "failed"
      /\ child = "zombie" /\ child' = "reaped"
      /\ UNCHANGED <<call, held, status, statusLost, sent, produced, cpc, code, received, consumed,
                     empty, full, valid, buffer>>
  BY DEF Abort
<1>1. Types'
  BY <1>0 DEF IInv, Types
<1>2. CreditInv'
  BY <1>0 DEF IInv, CreditInv, ProducerHolds, ConsumerHolds
<1>3. SlotInv' /\ ByteInv'
  BY <1>0 DEF IInv, SlotInv, Unread, ByteInv
<1>4. LifeInv'
  BY <1>0 DEF IInv, LifeInv
<1>5. CallerInv'
  BY <1>0 DEF IInv, CallerInv, HeldAt
<1> QED BY <1>1, <1>2, <1>3, <1>4, <1>5 DEF IInv

LEMMA FinishInv == ASSUME IInv, Finish PROVE IInv'
<1>0. /\ ppc = "finish" /\ ppc' = "returned" /\ held' = held \ Everything
      /\ answer' = IF status = 0 THEN "ok" ELSE "failed"
      /\ UNCHANGED <<call, status, statusLost, sent, produced, cpc, child, code, received, consumed,
                     empty, full, valid, buffer>>
  BY DEF Finish
<1>a. child = "reaped" /\ sent = call.total /\ (status = code \/ statusLost) /\ held = Everything
  BY <1>0 DEF IInv, LifeInv, ByteInv, CallerInv, HeldAt
<1>1. Types'
  BY <1>0, <1>a DEF IInv, Types
<1>2. CreditInv'
  BY <1>0 DEF IInv, CreditInv, ProducerHolds, ConsumerHolds
<1>3. SlotInv' /\ ByteInv'
  BY <1>0 DEF IInv, SlotInv, Unread, ByteInv
<1>4. LifeInv'
  BY <1>0, <1>a DEF IInv, LifeInv
<1>5. CallerInv'
  BY <1>0, <1>a DEF CallerInv, HeldAt
<1> QED BY <1>1, <1>2, <1>3, <1>4, <1>5 DEF IInv

LEMMA MallocConsumerInv == ASSUME IInv, MallocConsumer PROVE IInv'
<1>0. /\ cpc = "malloc" /\ child = "running"
      /\ \/ child' = "running" /\ code' = code /\ cpc' = ConsumerLoop(0)
         \/ child' = "escaped" /\ code' = code /\ cpc' = cpc
      /\ UNCHANGED <<call, ppc, held, status, statusLost, answer, sent, produced, received, consumed,
                     empty, full, valid, buffer>>
  BY DEF MallocConsumer
<1>a. /\ cpc' \in {"malloc", "wait", "exit"} /\ received = 0 /\ call.total \in Nat
      /\ cpc' = "wait" => 0 < call.total
      /\ cpc' = "exit" => 0 = call.total
  BY <1>0, CallTypes DEF IInv, ByteInv, ConsumerLoop
<1>1. Types'
  BY <1>0, <1>a DEF IInv, Types
<1>2. CreditInv'
  BY <1>0, <1>a DEF IInv, CreditInv, ProducerHolds, ConsumerHolds
<1>3. SlotInv'
  BY <1>0, <1>a DEF IInv, SlotInv, Unread, Amount
<1>4. ByteInv'
  BY <1>0, <1>a DEF IInv, ByteInv
<1>5. LifeInv'
  BY <1>0, <1>a DEF IInv, LifeInv
<1>6. CallerInv'
  BY <1>0 DEF IInv, CallerInv, HeldAt
<1> QED BY <1>1, <1>2, <1>3, <1>4, <1>5, <1>6 DEF IInv

\* A consumer that ends early, or that a signal ends, changes nothing but
\* its own life.
LEMMA EndsEarly ==
  ASSUME IInv, child \in {"running", "escaped"}, child' = "zombie", code' \in {2, 3, KilledCode},
         UNCHANGED <<call, ppc, held, status, statusLost, answer, sent, produced, cpc, received,
                     consumed, empty, full, valid, buffer>>
  PROVE  IInv'
<1>1. Types'
  BY DEF IInv, Types
<1>2. CreditInv'
  BY DEF IInv, CreditInv, ProducerHolds, ConsumerHolds
<1>3. SlotInv' /\ ByteInv'
  BY DEF IInv, SlotInv, Unread, Amount, ByteInv
<1>4. LifeInv'
  BY DEF IInv, LifeInv
<1>5. CallerInv'
  BY DEF IInv, CallerInv, HeldAt
<1> QED BY <1>1, <1>2, <1>3, <1>4, <1>5 DEF IInv

LEMMA WaitFullInv == ASSUME IInv, WaitFull PROVE IInv'
<1>0. /\ cpc = "wait" /\ child = "running"
      /\ UNCHANGED <<call, ppc, held, status, statusLost, answer, sent, produced, received, consumed,
                     empty, valid, buffer>>
  BY DEF WaitFull
<1>1. CASE child' = "zombie"
  <2>1. code' = 2 /\ UNCHANGED <<full, cpc>>
    BY <1>0, <1>1 DEF WaitFull
  <2> QED BY <1>0, <1>1, <2>1, EndsEarly
<1>2. CASE child' # "zombie"
  <2>0. full > 0 /\ full' = full - 1 /\ cpc' = "read" /\ child' = child /\ code' = code
    BY <1>2 DEF WaitFull
  <2>a. full = 1 /\ empty = 0 /\ ppc \notin {"write", "post"} /\ received < call.total
    BY <1>0, <2>0, OneCredit DEF IInv, ByteInv
  <2>1. Types'
    BY <1>0, <2>0, <2>a DEF IInv, Types
  <2>2. CreditInv'
    BY <1>0, <2>0, <2>a DEF CreditInv, ProducerHolds, ConsumerHolds
  <2>3. SlotInv'
    BY <1>0, <2>0, <2>a DEF IInv, SlotInv, Unread
  <2>4. ByteInv'
    BY <1>0, <2>0, <2>a DEF IInv, ByteInv
  <2>5. LifeInv' /\ CallerInv'
    BY <1>0, <2>0 DEF IInv, LifeInv, CallerInv, HeldAt
  <2> QED BY <2>1, <2>2, <2>3, <2>4, <2>5 DEF IInv
<1> QED BY <1>1, <1>2

LEMMA ReadSlotInv == ASSUME IInv, ReadSlot PROVE IInv'
<1>0. /\ cpc = "read" /\ cpc' = "post" /\ child = "running" /\ received' = received + Wanted
      /\ consumed' = IF valid > 0 THEN consumed + 1 ELSE consumed
      /\ UNCHANGED <<call, ppc, held, status, statusLost, answer, sent, produced, child, code,
                     empty, full, valid, buffer>>
  BY DEF ReadSlot
<1>a. /\ Unread /\ received' = sent /\ full = 0 /\ empty = 0 /\ ppc \notin {"write", "post"}
      /\ consumed' = produced
  <2>1. Unread /\ full = 0 /\ empty = 0 /\ ppc \notin {"write", "post"}
    BY <1>0, OneCredit DEF IInv, Unread
  <2>2. received' = sent
    BY <1>0, <2>1, WantedFacts
  <2>3. consumed' = produced
    BY <1>0, <2>1 DEF IInv, SlotInv, Types
  <2> QED BY <2>1, <2>2, <2>3
<1>1. Types'
  BY <1>0, <1>a DEF IInv, Types
<1>2. CreditInv'
  BY <1>0, <1>a DEF IInv, CreditInv, ProducerHolds, ConsumerHolds
<1>3. SlotInv'
  <2>1. ~Unread'
    BY <1>0, <1>a DEF Unread
  <2> QED BY <1>0, <1>a, <2>1 DEF SlotInv
<1>4. ByteInv'
  BY <1>0, <1>a DEF IInv, ByteInv
<1>5. LifeInv' /\ CallerInv'
  BY <1>0 DEF IInv, LifeInv, CallerInv, HeldAt
<1> QED BY <1>1, <1>2, <1>3, <1>4, <1>5 DEF IInv

LEMMA PostEmptyInv == ASSUME IInv, PostEmpty PROVE IInv'
<1>0. /\ cpc = "post" /\ child = "running"
      /\ UNCHANGED <<call, ppc, held, status, statusLost, answer, sent, produced, received, consumed,
                     full, valid, buffer>>
  BY DEF PostEmpty
<1>1. CASE child' = "zombie"
  <2>1. code' = 3 /\ UNCHANGED <<empty, cpc>>
    BY <1>0, <1>1 DEF PostEmpty
  <2> QED BY <1>0, <1>1, <2>1, EndsEarly
<1>2. CASE child' # "zombie"
  <2>0. /\ empty' = empty + 1 /\ child' = child /\ code' = code
        /\ cpc' = IF received < call.total THEN "wait" ELSE "exit"
    BY <1>2 DEF PostEmpty, ConsumerLoop
  <2>a. /\ full = 0 /\ empty = 0 /\ ppc \notin {"write", "post"} /\ ~Unread
        /\ received = sent /\ sent =< call.total /\ sent \in Nat /\ call.total \in Nat
    BY <1>0, OneCredit, CallTypes DEF IInv, Types, SlotInv, ByteInv, Unread
  <2>b. /\ cpc' \in {"wait", "exit"}
        /\ cpc' = "wait" => received < call.total
        /\ cpc' = "exit" => received = call.total
    BY <2>0, <2>a
  <2>1. Types'
    BY <1>0, <2>0, <2>a, <2>b DEF IInv, Types
  <2>2. CreditInv'
    <3>1. ProducerHolds' = 0 /\ ConsumerHolds' = 0 /\ full' = 0 /\ empty' = 1
      BY <1>0, <2>0, <2>a, <2>b DEF ProducerHolds, ConsumerHolds
    <3>2. ppc' \notin BeforeSem
      BY <1>0 DEF IInv, LifeInv
    <3> QED BY <3>1, <3>2 DEF CreditInv
  <2>3. SlotInv'
    BY <1>0, <2>a, <2>b DEF IInv, SlotInv, Unread, Amount
  <2>4. ByteInv'
    BY <1>0, <2>b DEF IInv, ByteInv
  <2>5. LifeInv' /\ CallerInv'
    BY <1>0, <2>0, <2>b DEF IInv, LifeInv, CallerInv, HeldAt
  <2> QED BY <2>1, <2>2, <2>3, <2>4, <2>5 DEF IInv
<1> QED BY <1>1, <1>2

LEMMA ExitConsumerInv == ASSUME IInv, ExitConsumer PROVE IInv'
<1>0. /\ cpc = "exit" /\ child = "running" /\ child' = "zombie" /\ code' = 0
      /\ UNCHANGED <<call, ppc, held, status, statusLost, answer, sent, produced, cpc, received,
                     consumed, empty, full, valid, buffer>>
  BY DEF ExitConsumer, IInv, ByteInv
<1>1. Types'
  BY <1>0 DEF IInv, Types
<1>2. CreditInv'
  BY <1>0 DEF IInv, CreditInv, ProducerHolds, ConsumerHolds
<1>3. SlotInv' /\ ByteInv'
  BY <1>0 DEF IInv, SlotInv, Unread, Amount, ByteInv
<1>4. LifeInv'
  BY <1>0 DEF IInv, LifeInv
<1>5. CallerInv'
  BY <1>0 DEF IInv, CallerInv, HeldAt
<1> QED BY <1>1, <1>2, <1>3, <1>4, <1>5 DEF IInv

LEMMA EscapedExitsInv == ASSUME IInv, EscapedExits PROVE IInv'
<1>1. /\ child = "escaped" /\ child' = "zombie" /\ code' = 2
      /\ UNCHANGED <<call, ppc, held, status, statusLost, answer, sent, produced, cpc, received,
                     consumed, empty, full, valid, buffer>>
  BY DEF EscapedExits
<1> QED BY <1>1, EndsEarly

LEMMA KillConsumerInv == ASSUME IInv, KillConsumer PROVE IInv'
<1>1. /\ child = "running" /\ child' = "zombie" /\ code' = KilledCode
      /\ UNCHANGED <<call, ppc, held, status, statusLost, answer, sent, produced, cpc, received,
                     consumed, empty, full, valid, buffer>>
  BY DEF KillConsumer
<1> QED BY <1>1, EndsEarly

LEMMA KillProducerInv == ASSUME IInv, KillProducer PROVE IInv'
<1>0. /\ ppc # "returned" /\ ppc' = "killed"
      /\ UNCHANGED <<call, held, status, statusLost, answer, sent, produced, cpc, child, code, received,
                     consumed, empty, full, valid, buffer>>
  BY DEF KillProducer
<1>1. Types'
  BY <1>0 DEF IInv, Types
<1>2. CreditInv'
  BY <1>0 DEF IInv, Types, CreditInv, ProducerHolds, ConsumerHolds
<1>3. SlotInv' /\ ByteInv'
  BY <1>0 DEF IInv, SlotInv, Unread, ByteInv
<1>4. LifeInv'
  BY <1>0 DEF IInv, LifeInv
<1>5. CallerInv'
  BY <1>0 DEF IInv, Types, CallerInv
<1> QED BY <1>1, <1>2, <1>3, <1>4, <1>5 DEF IInv

\* A step of nobody changes nothing IInv speaks about.
LEMMA StutterInv == ASSUME IInv, UNCHANGED vars PROVE IInv'
<1>1. UNCHANGED <<call, held, status, statusLost, answer, ppc, sent, produced, cpc, child, code,
                  received, consumed, empty, full, valid, buffer>>
  BY DEF vars
<1>2. Types' /\ CreditInv'
  BY <1>1 DEF IInv, Types, CreditInv, ProducerHolds, ConsumerHolds
<1>3. SlotInv' /\ ByteInv'
  BY <1>1 DEF IInv, SlotInv, Unread, Amount, ByteInv
<1>4. LifeInv' /\ CallerInv'
  BY <1>1 DEF IInv, LifeInv, CallerInv, HeldAt
<1> QED BY <1>2, <1>3, <1>4 DEF IInv

LEMMA NextInv == IInv /\ [Next]_vars => IInv'
BY SetupStepInv, ForkInv, MallocProducerInv, WaitEmptyInv, WriteSlotInv, PostFullInv,
   WaitConsumerInv, AbortInv, FinishInv, MallocConsumerInv, WaitFullInv, ReadSlotInv, PostEmptyInv,
   ExitConsumerInv, EscapedExitsInv, KillConsumerInv, KillProducerInv, StutterInv
   DEF Next, Producer, Consumer

LEMMA SlotInvariant == Spec => []IInv
BY InitInv, NextInv, PTL DEF Spec

-----------------------------------------------------------------------------
(* What follows from IInv.                                                 *)

\* The consumer is let into the slot only while the producer is outside, and
\* finds the next chunk at the length the producer gave it.
LEMMA HandsOverFromInv == IInv => HandsOverNextChunk
<1> SUFFICES ASSUME IInv PROVE HandsOverNextChunk
  OBVIOUS
<1>1. TypeOK
  <2>1. empty \in 0..1 /\ full \in 0..1
    BY OneCredit DEF IInv
  <2> QED BY <2>1 DEF IInv, Types, CallerInv, TypeOK, SetupNext
<1>2. ASSUME cpc = "read"
      PROVE  /\ ppc # "write"
             /\ call.chunk > 0 => buffer = consumed
             /\ received + valid =< call.total
  BY <1>2, OneCredit DEF IInv, SlotInv, ByteInv, Unread
<1> QED BY <1>1, <1>2 DEF HandsOverNextChunk

\* The slot of the baseline never shows the consumer anything but the next
\* chunk (run_shm_benchmark, shm_ipc.c:97-200).
THEOREM HandsOver == Spec => []HandsOverNextChunk
BY SlotInvariant, HandsOverFromInv, PTL

\* A call gives everything back, and leaves a child only before the first
\* chunk.
THEOREM OnlyOrphans == Spec => []LeavesOnlyAnOrphan
<1>1. IInv => LeavesOnlyAnOrphan
  BY DEF IInv, CallerInv, LifeInv, HeldAt, LeavesOnlyAnOrphan
<1> QED BY <1>1, SlotInvariant, PTL

-----------------------------------------------------------------------------
(* The refinement of Transfer.                                             *)

\* A step that changes none of the mapped variables is a stutter.
LEMMA QuietStep ==
  ASSUME UNCHANGED <<call, sent, received, answer>>, answer = "ok" => statusLost' = statusLost
  PROVE  [T!Next]_(T!vars)
BY DEF T!vars

\* A step that at most answers "failed", or "ok" although the status of the
\* child was lost.
LEMMA FailStep ==
  ASSUME IInv, UNCHANGED <<call, sent, received>>, ppc # "returned",
         answer' \in {"failed", answer} \/ (answer' = "ok" /\ statusLost')
  PROVE  [T!Next]_(T!vars)
<1>1. answer = "pending"
  BY DEF IInv, Types, CallerInv
<1> QED BY <1>1 DEF T!vars, T!Next, T!Fail

\* "ok" with a status of 0 that came from the child: it read everything.
LEMMA FinishRefines == ASSUME IInv, Finish PROVE [T!Next]_(T!vars)
<1>0. /\ ppc = "finish" /\ UNCHANGED <<call, sent, received, statusLost>>
      /\ answer' = IF status = 0 THEN "ok" ELSE "failed"
  BY DEF Finish
<1>1. CASE status = 0 /\ ~statusLost
  <2>1. /\ code = 0 /\ answer = "pending" /\ sent = call.total
    BY <1>0, <1>1 DEF IInv, Types, LifeInv, ByteInv, CallerInv
  <2>2. received = call.total
    BY <2>1 DEF IInv, LifeInv, ByteInv
  <2> QED BY <1>0, <1>1, <2>1, <2>2 DEF T!Next, T!Succeed, T!vars
<1>2. CASE status # 0 \/ statusLost
  <2>1. answer' = "failed" \/ (answer' = "ok" /\ statusLost')
    BY <1>0, <1>2
  <2> QED BY <1>0, <2>1, FailStep
<1> QED BY <1>1, <1>2 DEF IInv, Types

\* A post publishes one chunk, of length 0 if chunks are.
LEMMA PostFullRefines == ASSUME IInv, PostFull PROVE [T!Next]_(T!vars)
<1>0. ppc = "post" /\ UNCHANGED <<call, received, answer, statusLost>>
  BY DEF PostFull
<1>1. CASE sent' = sent
  BY <1>0, <1>1, QuietStep
<1>2. CASE sent' # sent
  <2>1. sent' = sent + Amount
    BY <1>2 DEF PostFull
  <2>2. /\ Amount \in Nat /\ Amount =< call.chunk /\ sent + Amount =< call.total
        /\ received = sent /\ sent \in Nat /\ call.total \in Nat /\ call.chunk \in Nat
    BY <1>0, OneCredit, AmountFacts, CallTypes DEF IInv, Types, SlotInv, ByteInv, Unread
  <2>3. Amount \in 1..(call.total - sent) /\ sent + Amount =< received + call.chunk
    BY <1>2, <2>1, <2>2
  <2>4. answer = "pending"
    BY <1>0 DEF IInv, Types, CallerInv
  <2> QED BY <1>0, <2>1, <2>3, <2>4 DEF T!Next, T!HandOver
<1> QED BY <1>1, <1>2

\* A copy takes that chunk, while the call has not succeeded.
LEMMA ReadSlotRefines == ASSUME IInv, ReadSlot PROVE [T!Next]_(T!vars)
<1>0. /\ cpc = "read" /\ child = "running" /\ received' = received + Wanted
      /\ UNCHANGED <<call, sent, answer, statusLost>>
  BY DEF ReadSlot
<1>1. Wanted = valid /\ received + Wanted = sent
  BY <1>0, WantedFacts DEF Unread
<1>2. CASE valid = 0
  <2>1. received' = received
    BY <1>0, <1>1, <1>2 DEF IInv, Types
  <2> QED BY <1>0, <2>1, QuietStep
<1>3. CASE valid # 0
  <2>1. Wanted \in 1..(sent - received)
    BY <1>1, <1>3 DEF IInv, Types
  <2>2. answer # "ok"
    BY <1>0 DEF IInv, CallerInv
  <2> QED BY <1>0, <2>1, <2>2 DEF T!Next, T!Take
<1> QED BY <1>2, <1>3

LEMMA StepRefines == ASSUME IInv, [Next]_vars PROVE [T!Next]_(T!vars)
<1>1. CASE UNCHANGED vars
  BY <1>1, QuietStep DEF vars
<1>2. CASE Fork \/ MallocProducer \/ Abort \/ \E s \in DOMAIN SetupNext : SetupStep(s)
  <2>1. /\ UNCHANGED <<call, sent, received>> /\ ppc # "returned"
        /\ answer' \in {"failed", answer}
    BY <1>2 DEF Fork, MallocProducer, Abort, SetupStep, SetupNext
  <2> QED BY <2>1, FailStep
<1>3. CASE WaitConsumer
  <2>1. UNCHANGED <<call, sent, received, answer>> /\ ppc # "returned"
    BY <1>3 DEF WaitConsumer
  <2> QED BY <2>1, FailStep
<1>4. CASE \/ WaitEmpty \/ WriteSlot \/ MallocConsumer \/ WaitFull \/ PostEmpty \/ ExitConsumer
           \/ EscapedExits \/ KillConsumer \/ KillProducer
  <2>1. UNCHANGED <<call, sent, received, answer, statusLost>>
    BY <1>4 DEF WaitEmpty, WriteSlot, MallocConsumer, WaitFull, PostEmpty, ExitConsumer,
       EscapedExits, KillConsumer, KillProducer
  <2> QED BY <2>1, QuietStep
<1> QED
  BY <1>1, <1>2, <1>3, <1>4, FinishRefines, PostFullRefines, ReadSlotRefines
     DEF Next, Producer, Consumer

LEMMA InitRefines == ASSUME Init PROVE T!Init
<1>1. call.total \in Nat /\ call.chunk \in Nat
  BY CallAssumption DEF Init
<1> QED BY <1>1 DEF Init, T!Init

\* The baseline implements a transfer with a window of one chunk; only a call
\* whose waitpid failed may say "ok" wrongly (shm_ipc.c:97-200).
THEOREM SlotImplementsTransfer == Spec => IsTransfer
<1>1. Init => T!Init
  BY InitRefines
<1>2. IInv /\ [Next]_vars => [T!Next]_(T!vars)
  BY StepRefines
<1> QED BY <1>1, <1>2, SlotInvariant, PTL DEF Spec, IsTransfer, T!Spec
=============================================================================
