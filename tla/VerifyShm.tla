----------------------------- MODULE VerifyShm ------------------------------
(***************************************************************************)
(* The `verify` command over shared memory: run_integrity_verification     *)
(* with verify_shm (a slot) or verify_shm_ring (VERIFY_RING_SLOTS slots).  *)
(*                                                                         *)
(* Unlike the benchmarks, the consumer does not know how much will come: a *)
(* slot of length 0 ends the stream.  Both sides compute a checksum of the *)
(* bytes as they see them; the child sends its own through a report pipe   *)
(* before it exits, and the parent compares.                               *)
(*                                                                         *)
(* A byte is its offset in the payload, which is what fill_pattern makes   *)
(* it depend on; the checksum of some bytes is the sequence of these bytes *)
(* (FNV-1a with no collision).                                             *)
(***************************************************************************)
EXTENDS Integers, Sequences

CONSTANTS Kinds,        \* "shm", "ring"
          RingSlots,    \* VERIFY_RING_SLOTS
          Payloads,     \* the values of payload_bytes that are tried
          Chunks,       \* the values of chunk_bytes that are tried
          Faults        \* what may go wrong, a subset of FaultKinds

FaultKinds == {"setup", "malloc", "sem", "waitpid", "kill_consumer", "kill_producer", "corrupt"}

ASSUME KindAssumption == Kinds \subseteq {"shm", "ring"}
ASSUME RingAssumption == RingSlots \in Nat \ {0}
\* run_integrity_verification refuses 0 for both.
ASSUME CallAssumption == Payloads \subseteq Nat \ {0} /\ Chunks \subseteq Nat \ {0}
ASSUME FaultAssumption == Faults \subseteq FaultKinds

VARIABLES
  kind, call,     \* the method, and its payload and chunk
  ppc,            \* where the parent, the producer, is
  held,           \* what it has to give back
  producerOk,     \* producer_ok
  total, hash,    \* bytes it has published and the checksum of its bytes
  reported,       \* what it has read from the report pipe
  answer,         \* "pass" or "fail", or "error" when the transfer failed
  cpc,            \* where the child, the consumer, is
  child, code,    \* its life and exit code
  success,        \* what it thinks of the transfer
  childTotal, childHash,
  length,         \* the length it found in the slot
  report,         \* what is in the report pipe
  empty, full,    \* the two semaphores
  writeIndex, readIndex,
  slots,          \* what the slots hold
  corrupted       \* the surroundings have changed a byte in a slot

args == <<kind, call>>
parentVars == <<ppc, held, producerOk, reported, answer>>
producerVars == <<total, hash, writeIndex>>
childVars == <<cpc, child, code, success, report>>
consumerVars == <<childTotal, childHash, length, readIndex>>
sharedVars == <<empty, full, slots, corrupted>>
vars == <<args, parentVars, producerVars, childVars, consumerVars, sharedVars>>

NoReport == [bytes |-> 0, hash |-> <<>>, success |-> FALSE, sent |-> FALSE]
NoCode == -1
KilledCode == 9
Slots == IF kind = "ring" THEN RingSlots ELSE 1
BadByte == -1

Init ==
  /\ kind \in Kinds /\ call \in [payload : Payloads, chunk : Chunks]
  /\ ppc = "shm_open" /\ held = {} /\ producerOk = TRUE
  /\ reported = NoReport /\ answer = "pending"
  /\ total = 0 /\ hash = <<>> /\ writeIndex = 0
  /\ cpc = "wait" /\ child = "none" /\ code = NoCode /\ success = TRUE
  /\ report = NoReport
  /\ childTotal = 0 /\ childHash = <<>> /\ length = 0 /\ readIndex = 0
  /\ empty = 0 /\ full = 0
  /\ slots = [i \in 0..(Slots - 1) |-> [data |-> <<>>, len |-> 0]]
  /\ corrupted = FALSE

-----------------------------------------------------------------------------
(* Setting up.  The object loses its name, and the descriptor is closed,   *)
(* as soon as it is mapped: before any other process exists.               *)

Return(a) == ppc' = "returned" /\ answer' = a

SetupNext == [shm_open |-> "ftruncate", ftruncate |-> "mmap", mmap |-> "sem_empty",
              sem_empty |-> "sem_full", sem_full |-> "pipe", pipe |-> "fork"]

SetupHoldsForgetsName ==
  [shm_open |-> {"name", "fd"}, ftruncate |-> {"name", "fd"}, mmap |-> {"map", "name"},
   sem_empty |-> {"map", "empty", "name"}, sem_full |-> {"map", "empty", "full", "name"},
   pipe |-> {"map", "empty", "full", "report", "name"}]

\* What is held after each step; a failing step gives back all there was.
SetupHolds ==
  [shm_open |-> {"name", "fd"}, ftruncate |-> {"name", "fd"}, mmap |-> {"map"},
   sem_empty |-> {"map", "empty"}, sem_full |-> {"map", "empty", "full"},
   pipe |-> {"map", "empty", "full", "report"}]

SetupStep(s) ==
  /\ ppc = s
  /\ \/ /\ held' = SetupHolds[s]
        /\ ppc' = SetupNext[s]
        /\ empty' = IF s = "sem_empty" THEN Slots ELSE empty
        /\ UNCHANGED answer
     \/ /\ "setup" \in Faults
        /\ held' = {}
        /\ Return("error")
        /\ UNCHANGED empty
  /\ UNCHANGED <<args, producerOk, reported, producerVars, childVars, consumerVars, full, slots,
                 corrupted>>

Fork ==
  /\ ppc = "fork"
  /\ \/ child' = "running" /\ ppc' = "malloc" /\ UNCHANGED <<held, answer>>
     \/ "setup" \in Faults /\ held' = {} /\ Return("error") /\ UNCHANGED child
  /\ UNCHANGED <<args, producerOk, reported, producerVars, cpc, code, success, report,
                 consumerVars, sharedVars>>

-----------------------------------------------------------------------------
(* The parent.                                                             *)

\* The failing branch closes its end of the report pipe and awaits a child
\* that nobody has told to stop.
MallocParent ==
  /\ ppc = "malloc"
  /\ \/ ppc' = "wait" /\ UNCHANGED held
     \/ "malloc" \in Faults /\ ppc' = "abort" /\ held' = held \ {"report"}
  /\ UNCHANGED <<args, producerOk, reported, answer, producerVars, childVars, consumerVars,
                 sharedVars>>

AdvanceNoWrap(i) == i + 1
Advance(i) == (i + 1) % Slots

\* The next chunk; the one of length 0 is the terminator.
Current == IF call.payload - total < call.chunk THEN call.payload - total ELSE call.chunk
Pattern(offset, n) == [i \in 1..n |-> offset + i - 1]

ProducerFails == ppc' = "report" /\ producerOk' = FALSE

WaitEmpty ==
  /\ ppc = "wait"
  /\ \/ empty > 0 /\ empty' = empty - 1 /\ ppc' = "write" /\ UNCHANGED producerOk
     \/ "sem" \in Faults /\ ProducerFails /\ UNCHANGED empty
  /\ UNCHANGED <<args, held, reported, answer, producerVars, childVars, consumerVars, full, slots,
                 corrupted>>

\* The terminator leaves the old bytes where they are.
WriteSlot ==
  /\ ppc = "write"
  /\ slots' = [slots EXCEPT
       ![writeIndex].data = IF Current > 0 THEN Pattern(total, Current) ELSE @,
       ![writeIndex].len = Current]
  /\ hash' = hash \o Pattern(total, Current)
  /\ writeIndex' = Advance(writeIndex)
  /\ ppc' = "post"
  /\ UNCHANGED <<args, held, producerOk, reported, answer, total, childVars, consumerVars, empty,
                 full, corrupted>>

PostFullNoTerminator ==
  /\ ppc = "post"
  /\ full' = full + 1
  /\ total' = total + Current
  /\ ppc' = IF total' = call.payload THEN "report" ELSE "wait"
  /\ UNCHANGED <<args, held, producerOk, reported, answer, hash, writeIndex, childVars,
                 consumerVars, empty, slots, corrupted>>

PostFull ==
  /\ ppc = "post"
  /\ \/ /\ full' = full + 1
        /\ total' = total + Current
        /\ ppc' = IF Current = 0 THEN "report" ELSE "wait"
        /\ UNCHANGED producerOk
     \/ "sem" \in Faults /\ ProducerFails /\ UNCHANGED <<full, total>>
  /\ UNCHANGED <<args, held, reported, answer, hash, writeIndex, childVars, consumerVars, empty,
                 slots, corrupted>>

\* read_all on the report pipe: the report, or the end of the file once the
\* child is gone.
ReadReport ==
  /\ ppc = "report"
  /\ report.sent \/ child = "zombie"
  /\ reported' = report
  /\ ppc' = "reap"
  /\ held' = held \ {"report"}
  /\ UNCHANGED <<args, producerOk, answer, producerVars, childVars, consumerVars, sharedVars>>

Passed == /\ total = call.payload
          /\ reported.bytes = call.payload
          /\ hash = reported.hash

\* wait_child_success, the cleanup, and the verdict.
VerdictIgnoringChild ==
  /\ ppc = "reap"
  /\ child = "zombie"
  /\ child' = "reaped"
  /\ held' = {}
  /\ Return(IF ~ producerOk THEN "error" ELSE IF Passed THEN "pass" ELSE "fail")
  /\ UNCHANGED <<args, producerOk, reported, producerVars, cpc, code, success, report,
                 consumerVars, sharedVars>>

Verdict ==
  /\ ppc = "reap"
  /\ child = "zombie"
  /\ child' = "reaped"
  /\ held' = {}
  /\ \/ /\ producerOk /\ reported.sent /\ reported.success /\ code = 0
        /\ Return(IF Passed THEN "pass" ELSE "fail")
     \/ /\ "waitpid" \in Faults \/ ~ (producerOk /\ reported.sent /\ reported.success /\ code = 0)
        /\ Return("error")
  /\ UNCHANGED <<args, producerOk, reported, producerVars, cpc, code, success, report,
                 consumerVars, sharedVars>>

Abort ==
  /\ ppc = "abort"
  /\ child = "zombie"
  /\ child' = "reaped"
  /\ held' = {}
  /\ Return("error")
  /\ UNCHANGED <<args, producerOk, reported, producerVars, cpc, code, success, report,
                 consumerVars, sharedVars>>

-----------------------------------------------------------------------------
(* The child.                                                              *)

ChildMay(p) == child = "running" /\ cpc = p
ChildFails == cpc' = "report" /\ success' = FALSE

WaitFull ==
  /\ ChildMay("wait")
  /\ \/ full > 0 /\ full' = full - 1 /\ cpc' = "read" /\ UNCHANGED success
     \/ "sem" \in Faults /\ ChildFails /\ UNCHANGED full
  /\ UNCHANGED <<args, parentVars, producerVars, child, code, report, consumerVars, empty, slots,
                 corrupted>>

ReadSlotWithoutLength ==
  /\ ChildMay("read")
  /\ length' = slots[readIndex].len
  /\ childHash' = childHash \o slots[readIndex].data
  /\ childTotal' = childTotal + length'
  /\ readIndex' = Advance(readIndex)
  /\ cpc' = "post"
  /\ UNCHANGED <<args, parentVars, producerVars, child, code, success, report, sharedVars>>

ReadSlot ==
  /\ ChildMay("read")
  /\ length' = slots[readIndex].len
  /\ childHash' = childHash \o (IF length' > 0 THEN slots[readIndex].data ELSE <<>>)
  /\ childTotal' = childTotal + length'
  /\ readIndex' = Advance(readIndex)
  /\ cpc' = "post"
  /\ UNCHANGED <<args, parentVars, producerVars, child, code, success, report, sharedVars>>

\* The single slot's child ignores a sem_post that fails on the terminator.
PostEmpty ==
  /\ ChildMay("post")
  /\ \/ /\ empty' = empty + 1
        /\ cpc' = IF length = 0 THEN "report" ELSE "wait"
        /\ UNCHANGED success
     \/ /\ "sem" \in Faults
        /\ cpc' = "report"
        /\ success' = (kind = "shm" /\ length = 0)
        /\ UNCHANGED empty
  /\ UNCHANGED <<args, parentVars, producerVars, child, code, report, consumerVars, full, slots,
                 corrupted>>

\* Nobody reads the report of a child whose parent has given up or is dead:
\* writing it then raises SIGPIPE.
Report ==
  /\ ChildMay("report")
  /\ IF ppc \in {"abort", "killed"}
     THEN child' = "zombie" /\ code' = KilledCode /\ UNCHANGED <<cpc, report>>
     ELSE /\ report' = [bytes |-> childTotal, hash |-> childHash, success |-> success, sent |-> TRUE]
          /\ cpc' = "exit"
          /\ UNCHANGED <<child, code>>
  /\ UNCHANGED <<args, parentVars, producerVars, success, consumerVars, sharedVars>>

ExitChild ==
  /\ ChildMay("exit")
  /\ child' = "zombie"
  /\ code' = IF success THEN 0 ELSE 1
  /\ UNCHANGED <<args, parentVars, producerVars, cpc, success, report, consumerVars, sharedVars>>

-----------------------------------------------------------------------------
(* The surroundings.                                                       *)

\* What the command exists to notice: a byte in a slot, written and not yet
\* read, is not what was written.
Corrupt ==
  /\ "corrupt" \in Faults /\ ~ corrupted
  /\ full > 0
  /\ slots[readIndex].len > 0
  /\ slots' = [slots EXCEPT ![readIndex].data[1] = BadByte]
  /\ corrupted' = TRUE
  /\ UNCHANGED <<args, parentVars, producerVars, childVars, consumerVars, empty, full>>

KillConsumer ==
  /\ "kill_consumer" \in Faults
  /\ child = "running"
  /\ child' = "zombie" /\ code' = KilledCode
  /\ UNCHANGED <<args, parentVars, producerVars, cpc, success, report, consumerVars, sharedVars>>

\* What is mapped and open goes with the process, the name does not.
KillProducer ==
  /\ "kill_producer" \in Faults
  /\ ppc \notin {"returned", "killed"}
  /\ ppc' = "killed"
  /\ held' = held \cap {"name"}
  /\ UNCHANGED <<args, producerOk, reported, answer, producerVars, childVars, consumerVars,
                 sharedVars>>

Parent == \/ \E s \in DOMAIN SetupNext : SetupStep(s)
          \/ Fork \/ MallocParent \/ WaitEmpty \/ WriteSlot \/ PostFull
          \/ ReadReport \/ Verdict \/ Abort

Child == WaitFull \/ ReadSlot \/ PostEmpty \/ Report \/ ExitChild

Next == Parent \/ Child \/ Corrupt \/ KillConsumer \/ KillProducer

Spec == Init /\ [][Next]_vars

\* The kernel runs both processes; no sem_wait has to fail, so that one
\* that is never answered may wait for ever.
FairSpec == /\ Spec
            /\ WF_vars(Parent /\ (ppc = "wait" => producerOk'))
            /\ WF_vars(Child /\ (cpc = "wait" => success'))

-----------------------------------------------------------------------------
(* What has to hold.                                                       *)

Bytes == Nat \cup {BadByte}

\* Types of all variables.
TypeOK ==
  /\ kind \in Kinds /\ call \in [payload : Payloads, chunk : Chunks]
  /\ ppc \in DOMAIN SetupNext \cup {"fork", "malloc", "wait", "write", "post", "report", "reap",
                                    "abort", "returned", "killed"}
  /\ held \subseteq {"name", "fd", "map", "empty", "full", "report"}
  /\ producerOk \in BOOLEAN /\ success \in BOOLEAN /\ corrupted \in BOOLEAN
  /\ total \in 0..call.payload /\ childTotal \in Nat /\ length \in Nat
  /\ hash \in Seq(Bytes) /\ childHash \in Seq(Bytes)
  /\ \A r \in {report, reported} : /\ r.bytes \in Nat /\ r.hash \in Seq(Bytes)
                                   /\ r.success \in BOOLEAN /\ r.sent \in BOOLEAN
  /\ answer \in {"pending", "pass", "fail", "error"}
  /\ cpc \in {"wait", "read", "post", "report", "exit"}
  /\ child \in {"none", "running", "zombie", "reaped"} /\ code \in {0, 1, KilledCode, NoCode}
  /\ empty \in 0..Slots /\ full \in 0..Slots
  /\ writeIndex \in 0..(Slots - 1) /\ readIndex \in 0..(Slots - 1)
  /\ \A i \in 0..(Slots - 1) : slots[i].data \in Seq(Bytes) /\ slots[i].len \in 0..call.chunk

\* Well-typed; and a PASS vouches for the very bytes of the payload, in
\* order, on both sides, and for a consumer that ended well: nothing stopped
\* early, nothing was read twice, nothing was changed.  A FAIL is never the
\* protocol's own doing: somebody changed a byte, and a transfer that broke
\* off is an error (integrity_verifier.c:2287-2314).
VerdictIsTrue ==
  /\ TypeOK
  /\ answer = "pass" => /\ childHash = Pattern(0, call.payload)
                        /\ hash = childHash
                        /\ child = "reaped" /\ code = 0
                        /\ ~ corrupted
  /\ answer = "fail" => corrupted

\* The call leaves nothing behind, and the name of the region survives not
\* even a kill once a second process exists (integrity_verifier.c:1616).
NothingLeaks ==
  /\ ppc = "returned" => held = {} /\ child \in {"none", "reaped"}
  /\ child # "none" => "name" \notin held

\* The call ends unless the two processes wait for each other: a producer
\* that gave up awaits a child that awaits a terminator, or a producer
\* awaits room that a dead child will not make
\* (integrity_verifier.c:1828-1836, 1984-1992, 1889).
GaveUp == ppc = "abort" \/ (ppc = "report" /\ ~ producerOk)
Embraced == GaveUp /\ ChildMay("wait") /\ full = 0
RoomNeverComes == ppc = "wait" /\ empty = 0 /\ child = "zombie"
EndsUnlessEmbraced ==
  <>[](ppc \in {"returned", "killed"} \/ Embraced \/ RoomNeverComes)
=============================================================================
