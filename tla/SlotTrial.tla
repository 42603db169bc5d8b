----------------------------- MODULE SlotTrial ------------------------------
(***************************************************************************)
(* One timed trial of the ring slot optimizer: run_ring_trial moves        *)
(* total_bytes through a ring with the number of slots under test.         *)
(*                                                                         *)
(* The child is held at a start gate until the parent has taken its first  *)
(* clock and resource readings, a slot of length 0 ends the transfer, the  *)
(* last readings are taken after the child was reaped, and a parent that   *)
(* fails kills the child before it waits for it.                           *)
(***************************************************************************)
EXTENDS Integers

CONSTANTS SlotCounts,   \* the numbers of slots that are tried
          Totals,       \* the values of total_bytes that are tried
          Chunks,       \* the values of chunk_size that are tried
          Faults        \* what may go wrong, a subset of FaultKinds

FaultKinds == {"setup", "reading", "sem", "waitpid", "kill_consumer", "kill_producer"}

\* run_ring_trial refuses 0 for each of them.
ASSUME CallAssumption == /\ SlotCounts \subseteq Nat \ {0}
                         /\ Totals \subseteq Nat \ {0} /\ Chunks \subseteq Nat \ {0}
ASSUME FaultAssumption == Faults \subseteq FaultKinds

VARIABLES
  call,           \* the arguments: total, chunk and slots
  ppc, held, ok,  \* the parent: where it is, what it holds, its verdict so far
  clock,          \* its readings: none, the first or both
  answer,         \* what the call returned
  transferred, produced, writeIndex,
  cpc, child, code, childOk,
  consumed, length, readIndex,
  start, empty, filled,   \* the semaphores
  lengths,        \* the length of what each slot holds
  chunks          \* and its number in the transfer

parentVars == <<ppc, held, ok, clock, answer>>
producerVars == <<transferred, produced, writeIndex>>
childVars == <<cpc, child, code, childOk>>
consumerVars == <<consumed, length, readIndex>>
ringVars == <<start, empty, filled, lengths, chunks>>
vars == <<call, parentVars, producerVars, childVars, consumerVars, ringVars>>

NoCode == -1
KilledCode == 9
Slot == 0..(call.slots - 1)

Init ==
  /\ call \in [total : Totals, chunk : Chunks, slots : SlotCounts]
  /\ ppc = "malloc" /\ held = {} /\ ok = TRUE /\ clock = "none" /\ answer = "pending"
  /\ transferred = 0 /\ produced = 0 /\ writeIndex = 0
  /\ cpc = "gate" /\ child = "none" /\ code = NoCode /\ childOk = TRUE
  /\ consumed = 0 /\ length = 0 /\ readIndex = 0
  /\ start = 0 /\ empty = 0 /\ filled = 0
  /\ lengths = [i \in Slot |-> 0] /\ chunks = [i \in Slot |-> -1]

-----------------------------------------------------------------------------
(* Setting up.                                                             *)

Return(a) == ppc' = "returned" /\ answer' = a

SetupNext == [malloc |-> "shm_open", shm_open |-> "ftruncate", ftruncate |-> "mmap",
              mmap |-> "sem_start", sem_start |-> "sem_empty", sem_empty |-> "sem_filled",
              sem_filled |-> "fork"]

SetupHoldsForgetsName ==
  [malloc |-> {"source"}, shm_open |-> {"source", "name", "fd"},
   ftruncate |-> {"source", "name", "fd"}, mmap |-> {"source", "map", "name"},
   sem_start |-> {"source", "map", "name", "start"},
   sem_empty |-> {"source", "map", "name", "start", "empty"},
   sem_filled |-> {"source", "map", "name", "start", "empty", "filled"}]

\* What is held after each step; a failing step gives back all there was.
\* The name and the descriptor go as soon as the object is mapped.
SetupHolds ==
  [malloc |-> {"source"}, shm_open |-> {"source", "name", "fd"},
   ftruncate |-> {"source", "name", "fd"}, mmap |-> {"source", "map"},
   sem_start |-> {"source", "map", "start"},
   sem_empty |-> {"source", "map", "start", "empty"},
   sem_filled |-> {"source", "map", "start", "empty", "filled"}]

SetupStep(s) ==
  /\ ppc = s
  /\ \/ /\ held' = SetupHolds[s]
        /\ ppc' = SetupNext[s]
        /\ empty' = IF s = "sem_empty" THEN call.slots ELSE empty
        /\ UNCHANGED answer
     \/ "setup" \in Faults /\ held' = {} /\ Return("failed") /\ UNCHANGED empty
  /\ UNCHANGED <<call, ok, clock, producerVars, childVars, consumerVars, start, filled, lengths,
                 chunks>>

Fork ==
  /\ ppc = "fork"
  /\ \/ child' = "running" /\ ppc' = "measure" /\ UNCHANGED <<held, answer>>
     \/ "setup" \in Faults /\ held' = {} /\ Return("failed") /\ UNCHANGED child
  /\ UNCHANGED <<call, ok, clock, producerVars, cpc, code, childOk, consumerVars, ringVars>>

-----------------------------------------------------------------------------
(* The parent.                                                             *)

Fails == ok' = FALSE /\ ppc' = "stop"

MeasureAfterStart ==
  /\ ppc = "measure"
  /\ start' = start + 1
  /\ ppc' = "wait"
  /\ UNCHANGED <<call, held, ok, clock, answer, producerVars, childVars, consumerVars, empty,
                 filled, lengths, chunks>>

\* getrusage and clock_gettime.
Measure ==
  /\ ppc = "measure"
  /\ \/ clock' = "started" /\ ppc' = "start" /\ UNCHANGED ok
     \/ "reading" \in Faults /\ Fails /\ UNCHANGED clock
  /\ UNCHANGED <<call, held, answer, producerVars, childVars, consumerVars, ringVars>>

Start ==
  /\ ppc = "start"
  /\ \/ start' = start + 1 /\ ppc' = "wait" /\ UNCHANGED ok
     \/ "sem" \in Faults /\ Fails /\ UNCHANGED start
  /\ UNCHANGED <<call, held, clock, answer, producerVars, childVars, consumerVars, empty, filled,
                 lengths, chunks>>

\* The next chunk; the one of length 0 is the terminator.
Current == IF call.total - transferred < call.chunk THEN call.total - transferred ELSE call.chunk

WaitEmpty ==
  /\ ppc = "wait"
  /\ \/ empty > 0 /\ empty' = empty - 1 /\ ppc' = "write" /\ UNCHANGED ok
     \/ "sem" \in Faults /\ Fails /\ UNCHANGED empty
  /\ UNCHANGED <<call, held, clock, answer, producerVars, childVars, consumerVars, start, filled,
                 lengths, chunks>>

AdvanceNoWrap(i) == i + 1
Advance(i) == (i + 1) % call.slots

WriteSlot ==
  /\ ppc = "write"
  /\ lengths' = [lengths EXCEPT ![writeIndex] = Current]
  /\ chunks' = [chunks EXCEPT ![writeIndex] = produced]
  /\ writeIndex' = Advance(writeIndex)
  /\ ppc' = "post"
  /\ UNCHANGED <<call, held, ok, clock, answer, transferred, produced, childVars, consumerVars,
                 start, empty, filled>>

PostFilledNoTerminator ==
  /\ ppc = "post"
  /\ filled' = filled + 1
  /\ transferred' = transferred + Current
  /\ produced' = produced + 1
  /\ ppc' = IF transferred' = call.total THEN "stop" ELSE "wait"
  /\ UNCHANGED <<call, held, ok, clock, answer, writeIndex, childVars, consumerVars, start, empty,
                 lengths, chunks>>

PostFilled ==
  /\ ppc = "post"
  /\ \/ /\ filled' = filled + 1
        /\ transferred' = transferred + Current
        /\ produced' = produced + 1
        /\ ppc' = IF Current = 0 THEN "stop" ELSE "wait"
        /\ UNCHANGED ok
     \/ "sem" \in Faults /\ Fails /\ UNCHANGED <<filled, transferred, produced>>
  /\ UNCHANGED <<call, held, clock, answer, writeIndex, childVars, consumerVars, start, empty,
                 lengths, chunks>>

\* After a failure the child is killed, whatever it is doing.
StopWithoutKill ==
  /\ ppc = "stop"
  /\ ppc' = "waitpid"
  /\ UNCHANGED <<call, held, ok, clock, answer, producerVars, childVars, consumerVars, ringVars>>

Stop ==
  /\ ppc = "stop"
  /\ ppc' = "waitpid"
  /\ IF ~ ok /\ child = "running"
     THEN child' = "zombie" /\ code' = KilledCode
     ELSE UNCHANGED <<child, code>>
  /\ UNCHANGED <<call, held, ok, clock, answer, producerVars, cpc, childOk, consumerVars, ringVars>>

WaitChildIgnoringStatus ==
  /\ ppc = "waitpid"
  /\ child = "zombie"
  /\ child' = "reaped"
  /\ ppc' = "finish"
  /\ UNCHANGED <<call, held, ok, clock, answer, producerVars, cpc, code, childOk, consumerVars,
                 ringVars>>

WaitChild ==
  /\ ppc = "waitpid"
  /\ child = "zombie"
  /\ child' = "reaped"
  /\ ppc' = "finish"
  /\ ok' \in {ok /\ code = 0, ok /\ code = 0 /\ "waitpid" \notin Faults}
  /\ UNCHANGED <<call, held, clock, answer, producerVars, cpc, code, childOk, consumerVars,
                 ringVars>>

\* The last readings and the cleanup.
Finish ==
  /\ ppc = "finish"
  /\ held' = {}
  /\ \/ clock' = "both" /\ Return(IF ok THEN "ok" ELSE "failed")
     \/ "reading" \in Faults /\ UNCHANGED clock /\ Return("failed")
  /\ UNCHANGED <<call, ok, producerVars, childVars, consumerVars, ringVars>>

-----------------------------------------------------------------------------
(* The child.                                                              *)

ChildMay(p) == child = "running" /\ cpc = p
Exit(c) == child' = "zombie" /\ code' = c
Alive == UNCHANGED <<child, code>>

WaitStart ==
  /\ ChildMay("gate")
  /\ \/ start > 0 /\ start' = start - 1 /\ cpc' = "wait" /\ Alive
     \/ "sem" \in Faults /\ Exit(2) /\ UNCHANGED <<start, cpc>>
  /\ UNCHANGED <<call, parentVars, producerVars, childOk, consumerVars, empty, filled, lengths,
                 chunks>>

WaitFilled ==
  /\ ChildMay("wait")
  /\ \/ filled > 0 /\ filled' = filled - 1 /\ cpc' = "read" /\ UNCHANGED childOk
     \/ "sem" \in Faults /\ cpc' = "exit" /\ childOk' = FALSE /\ UNCHANGED filled
  /\ UNCHANGED <<call, parentVars, producerVars, child, code, consumerVars, start, empty, lengths,
                 chunks>>

ReadSlot ==
  /\ ChildMay("read")
  /\ length' = lengths[readIndex]
  /\ consumed' = consumed + 1
  /\ readIndex' = Advance(readIndex)
  /\ cpc' = "post"
  /\ UNCHANGED <<call, parentVars, producerVars, child, code, childOk, ringVars>>

PostEmpty ==
  /\ ChildMay("post")
  /\ \/ /\ empty' = empty + 1
        /\ cpc' = IF length = 0 THEN "exit" ELSE "wait"
        /\ UNCHANGED childOk
     \/ "sem" \in Faults /\ cpc' = "exit" /\ childOk' = FALSE /\ UNCHANGED empty
  /\ UNCHANGED <<call, parentVars, producerVars, child, code, consumerVars, start, filled, lengths,
                 chunks>>

ExitChild ==
  /\ ChildMay("exit")
  /\ Exit(IF childOk THEN 0 ELSE 3)
  /\ UNCHANGED <<call, parentVars, producerVars, cpc, childOk, consumerVars, ringVars>>

KillConsumer ==
  /\ "kill_consumer" \in Faults
  /\ child = "running"
  /\ Exit(KilledCode)
  /\ UNCHANGED <<call, parentVars, producerVars, cpc, childOk, consumerVars, ringVars>>

KillProducer ==
  /\ "kill_producer" \in Faults
  /\ ppc \notin {"returned", "killed"}
  /\ ppc' = "killed" /\ held' = held \cap {"name"}
  /\ UNCHANGED <<call, ok, clock, answer, producerVars, childVars, consumerVars, ringVars>>

Parent == \/ \E s \in DOMAIN SetupNext : SetupStep(s)
          \/ Fork \/ Measure \/ Start \/ WaitEmpty \/ WriteSlot \/ PostFilled
          \/ Stop \/ WaitChild \/ Finish

Child == WaitStart \/ WaitFilled \/ ReadSlot \/ PostEmpty \/ ExitChild

Next == Parent \/ Child \/ KillConsumer \/ KillProducer

Spec == Init /\ [][Next]_vars

\* The kernel runs both processes; no sem_wait has to fail, so that one
\* that is never answered may wait for ever.
FairSpec == /\ Spec
            /\ WF_vars(Parent /\ (ppc = "wait" => ok'))
            /\ WF_vars(Child /\ (cpc \in {"gate", "wait"} => cpc' \in {"wait", "read"}))

-----------------------------------------------------------------------------
(* What has to hold.                                                       *)

\* Types of all variables.
TypeOK ==
  /\ call \in [total : Totals, chunk : Chunks, slots : SlotCounts]
  /\ ppc \in DOMAIN SetupNext \cup {"fork", "measure", "start", "wait", "write", "post", "stop",
                                    "waitpid", "finish", "returned", "killed"}
  /\ held \subseteq {"source", "name", "fd", "map", "start", "empty", "filled"}
  /\ ok \in BOOLEAN /\ childOk \in BOOLEAN
  /\ clock \in {"none", "started", "both"} /\ answer \in {"pending", "ok", "failed"}
  /\ transferred \in 0..call.total /\ produced \in Nat /\ consumed \in Nat
  /\ length \in 0..call.chunk
  /\ writeIndex \in Slot /\ readIndex \in Slot
  /\ cpc \in {"gate", "wait", "read", "post", "exit"}
  /\ child \in {"none", "running", "zombie", "reaped"} /\ code \in {0, 2, 3, KilledCode, NoCode}
  /\ start \in 0..1 /\ empty \in 0..call.slots /\ filled \in 0..call.slots
  /\ lengths \in [Slot -> 0..call.chunk] /\ chunks \in [Slot -> Nat \cup {-1}]

\* Well-typed; and a trial that counts moved everything, chunk by chunk in order and none
\* overwritten, and its first reading comes before, its last one after, all
\* of it (shm_ring_slot_optimizer.c:826-860, 1022-1061).
TrialIsSound ==
  /\ TypeOK
  /\ ChildMay("read") => chunks[readIndex] = consumed /\ clock = "started"
  /\ answer = "ok" => /\ transferred = call.total /\ consumed = produced
                      /\ clock = "both" /\ code = 0

\* The trial leaves nothing behind, and once there are two processes the
\* name of the object is gone whatever happens to them
\* (shm_ring_slot_optimizer.c:557-563, 1140-1159).
NothingLeaks ==
  /\ ppc = "returned" => held = {} /\ child \in {"none", "reaped"}
  /\ child # "none" => "name" \notin held

\* The trial ends, also when the parent fails with the child at the gate or
\* at an empty ring, unless the child died and left the ring full: the
\* parent is then in sem_wait for good (shm_ring_slot_optimizer.c:901, 1010).
RoomNeverComes == ppc = "wait" /\ empty = 0 /\ child = "zombie"
TrialEnds == <>[](ppc \in {"returned", "killed"} \/ RoomNeverComes)
=============================================================================
