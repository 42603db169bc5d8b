------------------------------ MODULE ShmRing -------------------------------
(***************************************************************************)
(* One call of run_shm_ring_internal: the SHM-RING transport.              *)
(*                                                                         *)
(* The caller becomes the producer, a forked child the consumer.  They     *)
(* share a mapping with two process-shared semaphores and RingSlots slots; *)
(* the producer alone moves `head`, the consumer alone moves `tail`, no    *)
(* lock protects a slot and no length travels with it: the consumer works  *)
(* out for itself how many bytes the next slot holds.                      *)
(*                                                                         *)
(* Bytes are counted, not stored.  A slot holds the number of the chunk    *)
(* that was copied into it last and the length that was copied.            *)
(* The other process may run between any two steps below; what a process   *)
(* does alone between two accesses to shared state is one step.            *)
(***************************************************************************)
EXTENDS Integers

CONSTANTS RingSlots,    \* RING_SLOTS
          Totals,       \* the values of total_bytes that are tried
          Chunks,       \* the values of chunk_size that are tried
          Faults        \* what may go wrong, a subset of FaultKinds

FaultKinds == {"setup", "malloc", "pin", "sem", "waitpid", "restore",
               "kill_consumer", "kill_producer"}

ASSUME RingAssumption == RingSlots \in Nat \ {0}
ASSUME CallAssumption == Totals \subseteq Nat /\ Chunks \subseteq Nat
ASSUME FaultAssumption == Faults \subseteq FaultKinds

VARIABLES
  call,       \* the arguments: total, chunk, and whether either side is pinned
  ppc,        \* where the producer is
  site,       \* which failure the producer is cleaning up after
  held,       \* what the producer holds and has to give back
  affinity,   \* CPU mask of the calling process
  status,     \* what waitpid stored, WaitFailed when it failed
  answer,     \* what the call returned
  sent,       \* bytes the producer has published
  produced,   \* chunks the producer has published
  cpc,        \* where the consumer is, or was when it ended
  child,      \* life of the consumer process
  code,       \* its exit code
  received,   \* bytes the consumer has copied out
  consumed,   \* chunks the consumer has copied out
  empty,      \* hdr->empty_slots
  filled,     \* hdr->filled_slots
  head,       \* hdr->head
  tail,       \* hdr->tail
  slots       \* the slot area

callerVars == <<call, site, held, affinity, status, answer>>
producerVars == <<sent, produced, head>>
consumerVars == <<cpc, child, code, received, consumed, tail>>
sharedVars == <<empty, filled, slots>>
vars == <<callerVars, ppc, producerVars, consumerVars, sharedVars>>

Slot == 0..(RingSlots - 1)
Blank == [chunk |-> -1, len |-> 0]
WaitFailed == -1
NoCode == -2
KilledCode == 15

Init ==
  /\ call \in [total : Totals, chunk : Chunks, pinProducer : BOOLEAN, pinConsumer : BOOLEAN]
  /\ ppc = "args"
  /\ site = "none"
  /\ held = {}
  /\ affinity = "original"
  /\ status = NoCode
  /\ answer = "pending"
  /\ sent = 0 /\ produced = 0 /\ head = 0
  /\ cpc = "malloc" /\ child = "none" /\ code = NoCode
  /\ received = 0 /\ consumed = 0 /\ tail = 0
  /\ empty = 0 /\ filled = 0
  /\ slots = [i \in Slot |-> Blank]

-----------------------------------------------------------------------------
(* The caller sets the transfer up.                                        *)

Return(a) == ppc' = "returned" /\ answer' = a

CheckArguments ==
  /\ ppc = "args"
  /\ IF call.total = 0 \/ call.chunk = 0
     THEN Return("failed")
     ELSE ppc' = "getaffinity" /\ UNCHANGED answer
  /\ UNCHANGED <<call, site, held, affinity, status, producerVars, consumerVars, sharedVars>>

\* The system calls before the fork, what each acquires and, when it fails,
\* what its error branch gives back.
SetupNext == [getaffinity |-> "shm_open", shm_open |-> "ftruncate", ftruncate |-> "mmap",
              mmap |-> "sem_empty", sem_empty |-> "sem_filled", sem_filled |-> "fork"]

SetupAcquires == [getaffinity |-> {}, shm_open |-> {"name", "fd"}, ftruncate |-> {},
                  mmap |-> {"map"}, sem_empty |-> {"empty"}, sem_filled |-> {"filled"}]

SetupCleanupForgetsName ==
  [getaffinity |-> {}, shm_open |-> {}, ftruncate |-> {"name", "fd"},
   mmap |-> {"fd"}, sem_empty |-> {"map", "name", "fd"},
   sem_filled |-> {"empty", "map", "name", "fd"}]

SetupCleanup ==
  [getaffinity |-> {}, shm_open |-> {}, ftruncate |-> {"name", "fd"},
   mmap |-> {"name", "fd"}, sem_empty |-> {"map", "name", "fd"},
   sem_filled |-> {"empty", "map", "name", "fd"}]

\* What sem_init stores in empty_slots and filled_slots.
InitialEmptyOneTooMany == RingSlots + 1
InitialEmpty == RingSlots
InitialFilled == 0

SetupStep(s) ==
  /\ ppc = s
  /\ \/ /\ held' = held \cup SetupAcquires[s]
        /\ ppc' = SetupNext[s]
        /\ empty' = IF s = "sem_empty" THEN InitialEmpty ELSE empty
        /\ filled' = IF s = "sem_filled" THEN InitialFilled ELSE filled
        /\ UNCHANGED answer
     \/ /\ "setup" \in Faults
        /\ held' = held \ SetupCleanup[s]
        /\ Return("failed")
        /\ UNCHANGED <<empty, filled>>
  /\ UNCHANGED <<call, site, affinity, status, producerVars, consumerVars, slots>>

Fork ==
  /\ ppc = "fork"
  /\ \/ /\ child' = "running"
        /\ ppc' = "malloc"
        /\ UNCHANGED <<held, answer>>
     \/ /\ "setup" \in Faults
        /\ held' = held \ {"empty", "filled", "map", "name", "fd"}
        /\ Return("failed")
        /\ UNCHANGED child
  /\ UNCHANGED <<call, site, affinity, status, producerVars, cpc, code, received, consumed,
                 tail, sharedVars>>

-----------------------------------------------------------------------------
(* The producer.                                                           *)

\* The first half of an error branch after the fork: SIGTERM is sent.  The
\* child dies when the signal reaches it (ConsumerTerminated).
Abandon(s) == ppc' = "abort" /\ site' = s

MallocProducer ==
  /\ ppc = "malloc"
  /\ \/ /\ ppc' = "pin"
        /\ held' = held \cup {"buffer"}
        /\ UNCHANGED site
     \/ /\ "malloc" \in Faults
        /\ Abandon("malloc")
        /\ UNCHANGED held
  /\ UNCHANGED <<call, affinity, status, answer, producerVars, consumerVars, sharedVars>>

PinProducer ==
  /\ ppc = "pin"
  /\ \/ /\ ppc' = "wait"
        /\ affinity' = IF call.pinProducer THEN "pinned" ELSE affinity
        /\ UNCHANGED site
     \/ /\ "pin" \in Faults
        /\ call.pinProducer
        /\ Abandon("pin")
        /\ UNCHANGED affinity
  /\ UNCHANGED <<call, held, status, answer, producerVars, consumerVars, sharedVars>>

WaitEmpty ==
  /\ ppc = "wait"
  /\ \/ /\ empty > 0
        /\ empty' = empty - 1
        /\ ppc' = "write"
        /\ UNCHANGED site
     \/ /\ "sem" \in Faults
        /\ Abandon("sem_wait")
        /\ UNCHANGED empty
  /\ UNCHANGED <<call, held, affinity, status, answer, producerVars, consumerVars, filled, slots>>

\* Bytes of the chunk that starts `done` bytes into the transfer; the two
\* sides compute it from their own counters.
ChunkLength(done) ==
  IF call.total - done < call.chunk THEN call.total - done ELSE call.chunk

AdvanceNoWrap(i) == IF i = RingSlots - 1 THEN i ELSE i + 1
Advance(i) == (i + 1) % RingSlots

WriteSlot ==
  /\ ppc = "write"
  /\ slots' = [slots EXCEPT ![head % RingSlots] = [chunk |-> produced, len |-> ChunkLength(sent)]]
  /\ ppc' = "post"
  /\ UNCHANGED <<callerVars, producerVars, consumerVars, empty, filled>>

PostFilledForgotten ==
  /\ ppc = "post"
  /\ head' = Advance(head)
  /\ sent' = sent + ChunkLength(sent)
  /\ produced' = produced + 1
  /\ ppc' = IF sent' < call.total THEN "wait" ELSE "waitpid"
  /\ UNCHANGED <<callerVars, consumerVars, sharedVars>>

PostFilled ==
  /\ ppc = "post"
  /\ head' = Advance(head)
  /\ \/ /\ filled' = filled + 1
        /\ sent' = sent + ChunkLength(sent)
        /\ produced' = produced + 1
        /\ ppc' = IF sent' < call.total THEN "wait" ELSE "waitpid"
        /\ UNCHANGED site
     \/ /\ "sem" \in Faults
        /\ Abandon("sem_post")
        /\ UNCHANGED <<filled, sent, produced>>
  /\ UNCHANGED <<call, held, affinity, status, answer, consumerVars, empty, slots>>

WaitConsumer ==
  /\ ppc = "waitpid"
  /\ child = "zombie"
  /\ child' = "reaped"
  /\ ppc' = "restore"
  /\ \/ status' = code
     \/ "waitpid" \in Faults /\ status' = WaitFailed
  /\ UNCHANGED <<call, site, held, affinity, answer, producerVars, cpc, code, received,
                 consumed, tail, sharedVars>>

-----------------------------------------------------------------------------
(* The ways out, after the fork.                                           *)

Everything == {"buffer", "empty", "filled", "map", "name", "fd"}

\* restore_affinity: "stuck" when sched_setaffinity refuses.
RestoreAffinity ==
  IF affinity = "pinned"
  THEN affinity' = "original" \/ ("restore" \in Faults /\ affinity' = "stuck")
  ELSE UNCHANGED affinity

\* The branches that restore the mask before they give up.
RestoringOnlyOnWait == {"sem_wait"}
RestoringSites == {"sem_wait", "sem_post"}

\* The second half of an error branch: terminate_child has reaped the child.
AbandonCleanup(s) == IF s = "malloc" THEN Everything \ {"buffer"} ELSE Everything

AbortWithoutReaping ==
  /\ ppc = "abort"
  /\ UNCHANGED child
  /\ IF site \in RestoringSites THEN RestoreAffinity ELSE UNCHANGED affinity
  /\ held' = held \ AbandonCleanup(site)
  /\ Return("failed")
  /\ UNCHANGED <<call, site, status, producerVars, cpc, code, received, consumed, tail, sharedVars>>

Abort ==
  /\ ppc = "abort"
  /\ child = "zombie"
  /\ child' = "reaped"
  /\ IF site \in RestoringSites THEN RestoreAffinity ELSE UNCHANGED affinity
  /\ held' = held \ AbandonCleanup(site)
  /\ Return("failed")
  /\ UNCHANGED <<call, site, status, producerVars, cpc, code, received, consumed, tail, sharedVars>>

Restore ==
  /\ ppc = "restore"
  /\ RestoreAffinity
  /\ IF affinity' = "stuck"
     THEN held' = held \ Everything /\ Return("failed")
     ELSE ppc' = "finish" /\ UNCHANGED <<held, answer>>
  /\ UNCHANGED <<call, site, status, producerVars, consumerVars, sharedVars>>

FinishIgnoringStatus ==
  /\ ppc = "finish"
  /\ held' = held \ Everything
  /\ Return("ok")
  /\ UNCHANGED <<call, site, affinity, status, producerVars, consumerVars, sharedVars>>

Finish ==
  /\ ppc = "finish"
  /\ held' = held \ Everything
  /\ Return(IF status = 0 THEN "ok" ELSE "failed")
  /\ UNCHANGED <<call, site, affinity, status, producerVars, consumerVars, sharedVars>>

-----------------------------------------------------------------------------
(* The consumer.  Its memory and descriptors go with the process, so only  *)
(* what it does to the ring and its exit code are kept.                    *)

ConsumerMay(p) == child = "running" /\ cpc = p
Exit(c) == child' = "zombie" /\ code' = c
Alive == UNCHANGED <<child, code>>

MallocConsumer ==
  /\ ConsumerMay("malloc")
  /\ \/ cpc' = "pin" /\ Alive
     \/ "malloc" \in Faults /\ Exit(7) /\ UNCHANGED cpc
  /\ UNCHANGED <<callerVars, ppc, producerVars, received, consumed, tail, sharedVars>>

PinConsumer ==
  /\ ConsumerMay("pin")
  /\ \/ cpc' = "wait" /\ Alive
     \/ "pin" \in Faults /\ call.pinConsumer /\ Exit(6) /\ UNCHANGED cpc
  /\ UNCHANGED <<callerVars, ppc, producerVars, received, consumed, tail, sharedVars>>

WaitFilled ==
  /\ ConsumerMay("wait")
  /\ \/ /\ filled > 0
        /\ filled' = filled - 1
        /\ cpc' = "read" /\ Alive
     \/ /\ "sem" \in Faults
        /\ Exit(2)
        /\ UNCHANGED <<filled, cpc>>
  /\ UNCHANGED <<callerVars, ppc, producerVars, received, consumed, tail, empty, slots>>

ReadSlot ==
  /\ ConsumerMay("read")
  /\ received' = received + ChunkLength(received)
  /\ consumed' = consumed + 1
  /\ tail' = Advance(tail)
  /\ cpc' = "post"
  /\ UNCHANGED <<callerVars, ppc, producerVars, child, code, sharedVars>>

PostEmptyForgotten ==
  /\ ConsumerMay("post")
  /\ cpc' = (IF received < call.total THEN "wait" ELSE "exit")
  /\ UNCHANGED <<callerVars, ppc, producerVars, child, code, received, consumed, tail, sharedVars>>

PostEmpty ==
  /\ ConsumerMay("post")
  /\ \/ /\ empty' = empty + 1
        /\ cpc' = (IF received < call.total THEN "wait" ELSE "exit")
        /\ Alive
     \/ /\ "sem" \in Faults
        /\ Exit(4)
        /\ UNCHANGED <<empty, cpc>>
  /\ UNCHANGED <<callerVars, ppc, producerVars, received, consumed, tail, filled, slots>>

ExitConsumer ==
  /\ ConsumerMay("exit")
  /\ Exit(IF received = call.total THEN 0 ELSE 5)
  /\ UNCHANGED <<callerVars, ppc, producerVars, cpc, received, consumed, tail, sharedVars>>

\* The SIGTERM of terminate_child is delivered.
ConsumerTerminated ==
  /\ ppc = "abort"
  /\ child = "running"
  /\ Exit(KilledCode)
  /\ UNCHANGED <<callerVars, ppc, producerVars, cpc, received, consumed, tail, sharedVars>>

-----------------------------------------------------------------------------
(* The surroundings: either process may be killed from outside; the        *)
(* dashboard does so to the producer when a command exceeds its timeout.   *)

KillConsumer ==
  /\ "kill_consumer" \in Faults
  /\ child = "running"
  /\ Exit(KilledCode)
  /\ UNCHANGED <<callerVars, ppc, producerVars, cpc, received, consumed, tail, sharedVars>>

KillProducer ==
  /\ "kill_producer" \in Faults
  /\ ppc \notin {"returned", "killed"}
  /\ ppc' = "killed"
  /\ UNCHANGED <<callerVars, producerVars, consumerVars, sharedVars>>

Producer ==
  \/ CheckArguments
  \/ \E s \in DOMAIN SetupNext : SetupStep(s)
  \/ Fork \/ MallocProducer \/ PinProducer
  \/ WaitEmpty \/ WriteSlot \/ PostFilled
  \/ WaitConsumer \/ Restore \/ Finish \/ Abort

Consumer ==
  \/ MallocConsumer \/ PinConsumer \/ WaitFilled \/ ReadSlot \/ PostEmpty \/ ExitConsumer

Next == Producer \/ Consumer \/ ConsumerTerminated \/ KillConsumer \/ KillProducer

Spec == Init /\ [][Next]_vars

\* The kernel runs both processes and delivers the signal.  Nothing has to
\* go wrong: no call has to fail, so a sem_wait that is never answered may
\* wait for ever, and nobody has to kill anything.
Fairness == /\ WF_vars(Producer /\ ppc' # "abort")
            /\ WF_vars(Consumer /\ (cpc = "exit" \/ child' = child))
            /\ WF_vars(ConsumerTerminated)

FairSpec == Spec /\ Fairness

-----------------------------------------------------------------------------
(* What has to hold.                                                       *)

ProducerPlaces == {"args", "getaffinity", "shm_open", "ftruncate", "mmap", "sem_empty",
                   "sem_filled", "fork", "malloc", "pin", "wait", "write", "post",
                   "waitpid", "restore", "finish", "abort", "returned", "killed"}
ConsumerPlaces == {"malloc", "pin", "wait", "read", "post", "exit"}
Lives == {"none", "running", "zombie", "reaped"}
ExitCodes == {0, 2, 4, 5, 6, 7, KilledCode, NoCode}

\* Types of all variables.
TypeOK ==
  /\ call \in [total : Totals, chunk : Chunks, pinProducer : BOOLEAN, pinConsumer : BOOLEAN]
  /\ ppc \in ProducerPlaces
  /\ site \in {"none", "malloc", "pin", "sem_wait", "sem_post"}
  /\ held \subseteq Everything
  /\ affinity \in {"original", "pinned", "stuck"}
  /\ status \in ExitCodes \cup {WaitFailed}
  /\ answer \in {"pending", "ok", "failed"}
  /\ sent \in Nat /\ produced \in Nat /\ head \in Slot
  /\ cpc \in ConsumerPlaces
  /\ child \in Lives
  /\ code \in ExitCodes
  /\ received \in Nat /\ consumed \in Nat /\ tail \in Slot
  /\ empty \in 0..RingSlots /\ filled \in 0..RingSlots
  /\ slots \in [Slot -> [chunk : Nat \cup {-1}, len : Nat]]

\* Without a lock, the two processes never copy into and out of the same
\* slot at the same time (shm_ring_ipc.c:660-686 against 911-923).
SlotsExclusive ==
  ~ (ppc = "write" /\ child = "running" /\ cpc = "read" /\ head = tail)

\* When the consumer is let into a slot, the slot holds the next chunk of
\* the transfer, with exactly as many bytes as the consumer, which gets no
\* length from the producer, is about to copy (shm_ring_ipc.c:666-686).
ReadsNextChunk ==
  child = "running" /\ cpc = "read" =>
    slots[tail % RingSlots] = [chunk |-> consumed, len |-> ChunkLength(received)]

\* A call that answers "ok" moved all its bytes, through a consumer that
\* exited with 0, and left the caller on its own CPUs
\* (shm_ring_ipc.c:1168-1240).
OkIsComplete ==
  answer = "ok" => /\ sent = call.total /\ received = call.total
                   /\ code = 0 /\ child = "reaped"
                   /\ affinity = "original"

\* Whatever branch a call leaves through, it leaves neither the name, the
\* mapping, the descriptor, a semaphore nor the buffer behind, nor a child
\* that nobody waits for.
NothingLeaks ==
  ppc = "returned" => held = {} /\ child \in {"none", "reaped"}

\* No call returns with the caller still pinned unless the kernel refused
\* to restore the mask ("one affinity trial would contaminate every
\* experiment that runs after it", shm_ring_ipc.c:1075-1079).
NeverReturnsPinned == ppc = "returned" => affinity # "pinned"

\* Neither semaphore is destroyed, nor the mapping given up, under a
\* consumer that may still use it.
RingOutlivesConsumer ==
  child = "running" => {"empty", "filled", "map"} \subseteq held

\* The call returns, or is killed, unless the consumer died early and the
\* producer is left in sem_wait(empty_slots) on a ring that nobody will
\* ever drain: there is no timeout there (shm_ring_ipc.c:852).
Stranded == ppc = "wait" /\ empty = 0 /\ child = "zombie" /\ code # 0
EndsUnlessStranded == <>[](ppc \in {"returned", "killed"} \/ Stranded)

\* The ring is a transfer with a window of RingSlots chunks.
T == INSTANCE Transfer WITH goal <- call.total, window <- RingSlots * call.chunk
IsTransfer == T!Spec
=============================================================================
