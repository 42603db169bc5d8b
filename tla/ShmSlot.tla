------------------------------ MODULE ShmSlot -------------------------------
(***************************************************************************)
(* One call of run_shm_benchmark: the baseline SHM transport, a single     *)
(* slot handed back and forth between the calling process (producer) and a *)
(* forked child (consumer) by the semaphores `empty` and `full`.  Unlike   *)
(* in the ring the length travels with the data, in region->valid.         *)
(*                                                                         *)
(* The slot holds the number of the chunk that was copied into it last;    *)
(* bytes are counted.  The error branches are those of the code: they give *)
(* the region up before they wait for the child, never signal it, and a    *)
(* child that cannot allocate its buffer returns into its caller's code.   *)
(***************************************************************************)
EXTENDS Integers

CONSTANTS Totals,       \* the values of total_bytes that are tried
          Chunks,       \* the values of chunk_size that are tried
          Faults        \* what may go wrong, a subset of FaultKinds

FaultKinds == {"setup", "malloc", "sem", "waitpid", "kill_consumer", "kill_producer"}

ASSUME CallAssumption == Totals \subseteq Nat /\ Chunks \subseteq Nat
ASSUME FaultAssumption == Faults \subseteq FaultKinds

VARIABLES
  call,       \* the arguments: total and chunk
  ppc,        \* where the producer is
  held,       \* what the producer holds and has to give back
  status,     \* its copy of the child's exit status, 0 until waitpid stores one
  statusLost, \* waitpid failed and stored nothing
  answer,     \* what the call returned in the calling process
  sent,       \* bytes the producer has published
  produced,   \* chunks the producer has published, empty ones not counted
  cpc,        \* where the consumer is, or was when it ended
  child,      \* life of the consumer process
  code,       \* its exit code
  received,   \* bytes the consumer has copied out
  consumed,   \* chunks the consumer has copied out
  empty, full,\* the two semaphores
  valid,      \* region->valid
  buffer      \* number of the chunk in region->buffer

callerVars == <<call, held, status, statusLost, answer>>
producerVars == <<sent, produced>>
consumerVars == <<cpc, child, code, received, consumed>>
sharedVars == <<empty, full, valid, buffer>>
vars == <<callerVars, ppc, producerVars, consumerVars, sharedVars>>

NoCode == -1
KilledCode == 15
CallerCode == 2     \* what every command of main exits with after a -1

Init ==
  /\ call \in [total : Totals, chunk : Chunks]
  /\ ppc = "shm_open"
  /\ held = {} /\ status = 0 /\ statusLost = FALSE /\ answer = "pending"
  /\ sent = 0 /\ produced = 0
  /\ cpc = "malloc" /\ child = "none" /\ code = NoCode
  /\ received = 0 /\ consumed = 0
  /\ empty = 0 /\ full = 0 /\ valid = 0 /\ buffer = -1

-----------------------------------------------------------------------------
(* Setting up.                                                             *)

Return(a) == ppc' = "returned" /\ answer' = a

SetupNext == [shm_open |-> "ftruncate", ftruncate |-> "mmap", mmap |-> "sem_empty",
              sem_empty |-> "sem_full", sem_full |-> "fork"]

SetupAcquires == [shm_open |-> {"name", "fd"}, ftruncate |-> {}, mmap |-> {"map"},
                  sem_empty |-> {"empty"}, sem_full |-> {"full"}]

SetupCleanupForgetsMap ==
  [shm_open |-> {}, ftruncate |-> {"name", "fd"}, mmap |-> {"name", "fd"},
   sem_empty |-> {"name", "fd"}, sem_full |-> {"empty", "map", "name", "fd"}]

SetupCleanup ==
  [shm_open |-> {}, ftruncate |-> {"name", "fd"}, mmap |-> {"name", "fd"},
   sem_empty |-> {"map", "name", "fd"}, sem_full |-> {"empty", "map", "name", "fd"}]

\* What sem_init stores in empty.
InitialEmptyTwo == 2
InitialEmpty == 1

SetupStep(s) ==
  /\ ppc = s
  /\ \/ /\ held' = held \cup SetupAcquires[s]
        /\ ppc' = SetupNext[s]
        /\ empty' = IF s = "sem_empty" THEN InitialEmpty ELSE empty
        /\ UNCHANGED answer
     \/ /\ "setup" \in Faults
        /\ held' = held \ SetupCleanup[s]
        /\ Return("failed")
        /\ UNCHANGED empty
  /\ UNCHANGED <<call, status, statusLost, producerVars, consumerVars, full, valid, buffer>>

Region == {"empty", "full", "map", "name", "fd"}

Fork ==
  /\ ppc = "fork"
  /\ \/ child' = "running" /\ ppc' = "malloc" /\ UNCHANGED <<held, answer>>
     \/ "setup" \in Faults /\ held' = held \ Region /\ Return("failed") /\ UNCHANGED child
  /\ UNCHANGED <<call, status, statusLost, producerVars, cpc, code, received, consumed, sharedVars>>

-----------------------------------------------------------------------------
(* The producer.                                                           *)

Loop(done) == IF done < call.total THEN "wait" ELSE "waitpid"

\* The failing branch leaves the child alone: it is neither signalled nor
\* waited for.
MallocProducer ==
  /\ ppc = "malloc"
  /\ \/ ppc' = Loop(0) /\ held' = held \cup {"local_buf"} /\ UNCHANGED answer
     \/ "malloc" \in Faults /\ held' = held \ Region /\ Return("failed")
  /\ UNCHANGED <<call, status, statusLost, producerVars, consumerVars, sharedVars>>

\* A semaphore failed: everything is given up, then the child is awaited.
Abandon == ppc' = "abort" /\ held' = held \ (Region \cup {"local_buf"})

WaitEmpty ==
  /\ ppc = "wait"
  /\ \/ empty > 0 /\ empty' = empty - 1 /\ ppc' = "write" /\ UNCHANGED held
     \/ "sem" \in Faults /\ Abandon /\ UNCHANGED empty
  /\ UNCHANGED <<call, status, statusLost, answer, producerVars, consumerVars, full, valid, buffer>>

Amount == IF call.total - sent < call.chunk THEN call.total - sent ELSE call.chunk

WriteSlotWithFullLength ==
  /\ ppc = "write"
  /\ ppc' = "post"
  /\ buffer' = produced
  /\ valid' = call.chunk
  /\ UNCHANGED <<callerVars, producerVars, consumerVars, empty, full>>

WriteSlot ==
  /\ ppc = "write"
  /\ ppc' = "post"
  /\ buffer' = produced
  /\ valid' = Amount
  /\ UNCHANGED <<callerVars, producerVars, consumerVars, empty, full>>

PostFull ==
  /\ ppc = "post"
  /\ \/ /\ full' = full + 1
        /\ sent' = sent + Amount
        /\ produced' = IF Amount > 0 THEN produced + 1 ELSE produced
        /\ ppc' = Loop(sent')
        /\ UNCHANGED held
     \/ /\ "sem" \in Faults
        /\ Abandon
        /\ UNCHANGED <<full, sent, produced>>
  /\ UNCHANGED <<call, status, statusLost, answer, consumerVars, empty, valid, buffer>>

\* waitpid's own result is not looked at: when it fails, `status` keeps its
\* initial value, which reads as a normal exit with code 0.
WaitConsumer ==
  /\ ppc = "waitpid"
  /\ child = "zombie"
  /\ child' = "reaped"
  /\ ppc' = "finish"
  /\ \/ status' = code /\ UNCHANGED statusLost
     \/ "waitpid" \in Faults /\ UNCHANGED status /\ statusLost' = TRUE
  /\ UNCHANGED <<call, held, answer, producerVars, cpc, code, received, consumed, sharedVars>>

AbortWithoutWaiting ==
  /\ ppc = "abort"
  /\ Return("failed")
  /\ UNCHANGED <<call, held, status, statusLost, producerVars, consumerVars, sharedVars>>

Abort ==
  /\ ppc = "abort"
  /\ child = "zombie"
  /\ child' = "reaped"
  /\ Return("failed")
  /\ UNCHANGED <<call, held, status, statusLost, producerVars, cpc, code, received, consumed, sharedVars>>

FinishIgnoringStatus ==
  /\ ppc = "finish"
  /\ held' = {}
  /\ Return("ok")
  /\ UNCHANGED <<call, status, statusLost, producerVars, consumerVars, sharedVars>>

Finish ==
  /\ ppc = "finish"
  /\ held' = held \ (Region \cup {"local_buf"})
  /\ Return(IF status = 0 THEN "ok" ELSE "failed")
  /\ UNCHANGED <<call, status, statusLost, producerVars, consumerVars, sharedVars>>

-----------------------------------------------------------------------------
(* The consumer.                                                           *)

ConsumerMay(p) == child = "running" /\ cpc = p
Exit(c) == child' = "zombie" /\ code' = c
Alive == UNCHANGED <<child, code>>
ConsumerLoop(done) == IF done < call.total THEN "wait" ELSE "exit"

\* The failing branch has no _exit: the child goes on in its caller's code.
MallocConsumer ==
  /\ ConsumerMay("malloc")
  /\ \/ cpc' = ConsumerLoop(0) /\ Alive
     \/ "malloc" \in Faults /\ child' = "escaped" /\ UNCHANGED <<cpc, code>>
  /\ UNCHANGED <<callerVars, ppc, producerVars, received, consumed, sharedVars>>

WaitFull ==
  /\ ConsumerMay("wait")
  /\ \/ full > 0 /\ full' = full - 1 /\ cpc' = "read" /\ Alive
     \/ "sem" \in Faults /\ Exit(2) /\ UNCHANGED <<full, cpc>>
  /\ UNCHANGED <<callerVars, ppc, producerVars, received, consumed, empty, valid, buffer>>

Wanted == IF received + valid > call.total THEN call.total - received ELSE valid

ReadSlot ==
  /\ ConsumerMay("read")
  /\ received' = received + Wanted
  /\ consumed' = IF valid > 0 THEN consumed + 1 ELSE consumed
  /\ cpc' = "post"
  /\ UNCHANGED <<callerVars, ppc, producerVars, child, code, sharedVars>>

PostEmptyForgotten ==
  /\ ConsumerMay("post")
  /\ cpc' = ConsumerLoop(received)
  /\ UNCHANGED <<callerVars, ppc, producerVars, child, code, received, consumed, sharedVars>>

PostEmpty ==
  /\ ConsumerMay("post")
  /\ \/ empty' = empty + 1 /\ cpc' = ConsumerLoop(received) /\ Alive
     \/ "sem" \in Faults /\ Exit(3) /\ UNCHANGED <<empty, cpc>>
  /\ UNCHANGED <<callerVars, ppc, producerVars, received, consumed, full, valid, buffer>>

ExitConsumer ==
  /\ ConsumerMay("exit")
  /\ Exit(IF received = call.total THEN 0 ELSE 4)
  /\ UNCHANGED <<callerVars, ppc, producerVars, cpc, received, consumed, sharedVars>>

\* The escaped child reports a failed benchmark as if it were the caller
\* and leaves main.
EscapedExits ==
  /\ child = "escaped"
  /\ Exit(CallerCode)
  /\ UNCHANGED <<callerVars, ppc, producerVars, cpc, received, consumed, sharedVars>>

KillConsumer ==
  /\ "kill_consumer" \in Faults
  /\ child = "running"
  /\ Exit(KilledCode)
  /\ UNCHANGED <<callerVars, ppc, producerVars, cpc, received, consumed, sharedVars>>

KillProducer ==
  /\ "kill_producer" \in Faults
  /\ ppc \notin {"returned", "killed"}
  /\ ppc' = "killed"
  /\ UNCHANGED <<callerVars, producerVars, consumerVars, sharedVars>>

Producer ==
  \/ \E s \in DOMAIN SetupNext : SetupStep(s)
  \/ Fork \/ MallocProducer \/ WaitEmpty \/ WriteSlot \/ PostFull
  \/ WaitConsumer \/ Abort \/ Finish

Consumer ==
  \/ MallocConsumer \/ WaitFull \/ ReadSlot \/ PostEmpty \/ ExitConsumer \/ EscapedExits

Next == Producer \/ Consumer \/ KillConsumer \/ KillProducer

Spec == Init /\ [][Next]_vars

\* The kernel runs both processes; nothing has to go wrong, so that a
\* sem_wait that is never answered may wait for ever.
FairSpec == /\ Spec
            /\ WF_vars(Producer /\ ppc' # "abort")
            /\ WF_vars(Consumer /\ (cpc = "exit" \/ child = "escaped" \/ child' = child))

-----------------------------------------------------------------------------
(* What has to hold.                                                       *)

Everything == Region \cup {"local_buf"}

\* Types of all variables.
TypeOK ==
  /\ call \in [total : Totals, chunk : Chunks]
  /\ ppc \in DOMAIN SetupNext \cup {"fork", "malloc", "wait", "write", "post", "waitpid",
                                    "finish", "abort", "returned", "killed"}
  /\ held \subseteq Everything
  /\ status \in {0, 2, 3, 4, KilledCode} /\ statusLost \in BOOLEAN
  /\ answer \in {"pending", "ok", "failed"}
  /\ sent \in Nat /\ produced \in Nat
  /\ cpc \in {"malloc", "wait", "read", "post", "exit"}
  /\ child \in {"none", "running", "zombie", "reaped", "escaped"}
  /\ code \in {0, 2, 3, 4, KilledCode, NoCode}
  /\ received \in Nat /\ consumed \in Nat
  /\ empty \in 0..1 /\ full \in 0..1
  /\ valid \in Nat /\ buffer \in Nat \cup {-1}

\* Well-typed; and when the consumer is let into the slot it finds the next chunk, with the
\* length the producer gave it, none of it lost to the clamp against
\* total_bytes, and the producer is outside (shm_ipc.c:121-127).
HandsOverNextChunk ==
  /\ TypeOK
  /\ child = "running" /\ cpc = "read" =>
       /\ ppc # "write"
       /\ call.chunk > 0 => buffer = consumed
       /\ received + valid =< call.total

\* A call leaves a child behind only through the branch of the failed
\* malloc, and leaves the name, the region and the descriptor in no case;
\* the buffer is all that a failed malloc does not have (shm_ipc.c:97-108).
LeavesOnlyAnOrphan ==
  ppc = "returned" => /\ held = {}
                      /\ child \in {"none", "reaped"} \/ (produced = 0 /\ sent = 0)

\* Why a call may not return: the consumer ended early or escaped and the
\* slot stays full; the producer gave up and waits for a consumer nobody
\* will wake; or a chunk size of 0 never moves a byte.
ConsumerGone == child = "zombie" /\ code # 0
SlotStaysFull == ppc = "wait" /\ empty = 0 /\ ConsumerGone
AwaitsSleeper == ppc = "abort" /\ child = "running" /\ cpc = "wait" /\ full = 0
Spinning == call.chunk = 0 /\ call.total > 0
EndsUnlessStuck ==
  <>[](ppc \in {"returned", "killed"} \/ SlotStaysFull \/ AwaitsSleeper \/ Spinning)

\* The slot is a transfer with a window of one chunk, so that an "ok" means
\* that everything was written and read; a call that lost its child's status,
\* which the unchecked waitpid takes for success, is the one that may say it
\* wrongly, and is left out (shm_ipc.c:178-193).
T == INSTANCE Transfer WITH
       goal <- call.total, window <- call.chunk,
       answer <- IF answer = "ok" /\ statusLost THEN "failed" ELSE answer
IsTransfer == T!Spec
=============================================================================
