----------------------------- MODULE PageTrial ------------------------------
(***************************************************************************)
(* One trial of the memory optimizer: run_one_memory_trial writes every    *)
(* byte of a fresh shared mapping once, chunk by chunk, after preparing it *)
(* in one of three ways, and counts the page faults of the preparation and *)
(* of the writing apart.                                                   *)
(*                                                                         *)
(* A page is mapped at the first write to it, which is one minor fault.    *)
(* Nothing is swapped out, and only the faults of the mapping are counted. *)
(***************************************************************************)
EXTENDS Integers, FiniteSets

CONSTANTS PageSize, \* sysconf(_SC_PAGESIZE)
          Totals,   \* the values of total_bytes that are tried
          Chunks,   \* the values of chunk_size that are tried
          Faults    \* what may go wrong, a subset of FaultKinds

MemoryModes == {"DEMAND", "PREFAULT", "WILLNEED"}
FaultKinds == {"create", "unlink", "usage", "madvise", "destroy", "kill"}

\* What whoever takes an instance of this module has to assume.
PageAssumption ==
  /\ PageSize \in Nat \ {0}
  /\ Totals \subseteq Nat \ {0} /\ Chunks \subseteq Nat \ {0}
  /\ Faults \subseteq FaultKinds

VARIABLES
  call,       \* the arguments: mode, total and chunk
  pc, held, answer,
  offset,     \* of prefault_pages
  completed,  \* of run_memory_workload
  mapped,     \* the pages that are mapped
  hinted,     \* those of them that the kernel mapped on its own
  minflt,     \* the process's count of minor faults
  usage,      \* the three snapshots of it
  written     \* how often the workload wrote each byte

vars == <<call, pc, held, answer, offset, completed, mapped, hinted, minflt, usage, written>>

Bytes == 0..(call.total - 1)
PageOf(byte) == byte \div PageSize
Pages(bytes) == {PageOf(b) : b \in bytes}

\* What run_memory_optimizer expects there to be.
PageCount == (call.total + PageSize - 1) \div PageSize

NoUsage == [before |-> 0, afterSetup |-> 0, afterTimed |-> 0]

Init ==
  /\ call \in [mode : MemoryModes, total : Totals, chunk : Chunks]
  /\ pc = "shm_open" /\ held = {} /\ answer = "pending"
  /\ offset = 0 /\ completed = 0
  /\ mapped = {} /\ hinted = {} /\ minflt = 0 /\ usage = NoUsage
  /\ written = [b \in Bytes |-> 0]

Fault(f) == f \in Faults
Return(a) == pc' = "returned" /\ answer' = a
Goto(place) == pc' = place /\ UNCHANGED answer

-----------------------------------------------------------------------------
(* create_shared_mapping: the name goes as soon as there is a mapping, and  *)
(* also with every failure after shm_open, unless it is shm_unlink itself.  *)

CreateNext == [shm_open |-> "ftruncate", ftruncate |-> "mmap", mmap |-> "unlink"]
CreateHolds == [shm_open |-> {"name", "fd"}, ftruncate |-> {"name", "fd"},
                mmap |-> {"name", "fd", "map"}]

CreateStep(s) ==
  /\ pc = s
  /\ \/ Goto(CreateNext[s]) /\ held' = CreateHolds[s]
     \/ Fault("create") /\ Return("failed") /\ held' = {}
  /\ UNCHANGED <<call, offset, completed, mapped, hinted, minflt, usage, written>>

Unlink ==
  /\ pc = "unlink"
  /\ \/ Goto("before") /\ held' = {"fd", "map"}
     \/ Fault("unlink") /\ Return("failed") /\ held' = {"name"}
  /\ UNCHANGED <<call, offset, completed, mapped, hinted, minflt, usage, written>>

-----------------------------------------------------------------------------
(* The trial.                                                              *)

FailForgetsDestroy == Return("failed") /\ UNCHANGED held
Fail == Return("failed") /\ held' = {}

Snapshot(s, next) ==
  \/ usage' = [usage EXCEPT ![s] = minflt] /\ Goto(next) /\ UNCHANGED held
  \/ Fault("usage") /\ Fail /\ UNCHANGED usage

TakeBefore ==
  /\ pc = "before"
  /\ Snapshot("before", CASE call.mode = "DEMAND" -> "afterSetup"
                          [] call.mode = "PREFAULT" -> "prefault"
                          [] call.mode = "WILLNEED" -> "madvise")
  /\ UNCHANGED <<call, offset, completed, mapped, hinted, minflt, written>>

Write(bytes) ==
  /\ minflt' = minflt + Cardinality(Pages(bytes) \ mapped)
  /\ mapped' = mapped \cup Pages(bytes)

\* The loop goes on as long as its offset is in the mapping.
PrefaultPageWholeOnly ==
  /\ pc = "prefault"
  /\ IF offset + PageSize =< call.total
     THEN Write({offset}) /\ offset' = offset + PageSize /\ UNCHANGED <<pc, answer>>
     ELSE Goto("afterSetup") /\ UNCHANGED <<offset, mapped, minflt>>
  /\ UNCHANGED <<call, held, completed, hinted, usage, written>>

PrefaultPage ==
  /\ pc = "prefault"
  /\ IF offset < call.total
     THEN Write({offset}) /\ offset' = offset + PageSize /\ UNCHANGED <<pc, answer>>
     ELSE Goto("afterSetup") /\ UNCHANGED <<offset, mapped, minflt>>
  /\ UNCHANGED <<call, held, completed, hinted, usage, written>>

\* A hint: the kernel may map any of the pages, with no fault, or none.
Willneed ==
  /\ pc = "madvise"
  /\ \/ /\ hinted' \in SUBSET Pages(Bytes) /\ mapped' = mapped \cup hinted'
        /\ Goto("afterSetup") /\ UNCHANGED held
     \/ Fault("madvise") /\ Fail /\ UNCHANGED <<hinted, mapped>>
  /\ UNCHANGED <<call, offset, completed, minflt, usage, written>>

TakeAfterSetup ==
  /\ pc = "afterSetup"
  /\ Snapshot("afterSetup", "workload")
  /\ UNCHANGED <<call, offset, completed, mapped, hinted, minflt, written>>

Amount == IF call.total - completed < call.chunk THEN call.total - completed ELSE call.chunk
Chunk == completed..(completed + Amount - 1)

WriteChunk ==
  /\ pc = "workload"
  /\ IF completed < call.total
     THEN /\ Write(Chunk)
          /\ written' = [b \in Bytes |-> IF b \in Chunk THEN written[b] + 1 ELSE written[b]]
          /\ completed' = completed + Amount
          /\ UNCHANGED <<pc, answer>>
     ELSE Goto("afterTimed") /\ UNCHANGED <<mapped, minflt, written, completed>>
  /\ UNCHANGED <<call, held, offset, hinted, usage>>

TakeAfterTimed ==
  /\ pc = "afterTimed"
  /\ Snapshot("afterTimed", "destroy")
  /\ UNCHANGED <<call, offset, completed, mapped, hinted, minflt, written>>

\* Whatever munmap and close cannot give back stays.
Destroy ==
  /\ pc = "destroy"
  /\ \/ held' = {} /\ Return("ok")
     \/ Fault("destroy") /\ held' \in {{"fd"}, {"map"}, {"fd", "map"}} /\ Return("failed")
  /\ UNCHANGED <<call, offset, completed, mapped, hinted, minflt, usage, written>>

\* A process that is killed keeps nothing but names.
Kill ==
  /\ Fault("kill")
  /\ pc # "returned"
  /\ Return("killed") /\ held' = held \cap {"name"}
  /\ UNCHANGED <<call, offset, completed, mapped, hinted, minflt, usage, written>>

Next == \/ \E s \in DOMAIN CreateNext : CreateStep(s)
        \/ Unlink \/ TakeBefore \/ PrefaultPage \/ Willneed \/ TakeAfterSetup
        \/ WriteChunk \/ TakeAfterTimed \/ Destroy \/ Kill

Spec == Init /\ [][Next]_vars

-----------------------------------------------------------------------------
(* What has to hold.                                                       *)

SetupFaults == usage.afterSetup - usage.before
TimedFaults == usage.afterTimed - usage.afterSetup

\* Types of all variables.
TypeOK ==
  /\ call \in [mode : MemoryModes, total : Totals, chunk : Chunks]
  /\ pc \in DOMAIN CreateNext \cup {"unlink", "before", "prefault", "madvise", "afterSetup",
                                    "workload", "afterTimed", "destroy", "returned"}
  /\ held \subseteq {"name", "fd", "map"} /\ answer \in {"pending", "ok", "failed", "killed"}
  /\ offset \in Nat /\ completed \in 0..call.total
  /\ mapped \subseteq Pages(Bytes) /\ hinted \subseteq mapped
  /\ minflt \in Nat
  /\ usage \in [{"before", "afterSetup", "afterTimed"} -> Nat]
  /\ written \in [Bytes -> Nat]

\* A preparation that maps every page leaves none for the timed pass to
\* fault on, also not a last one that is only partly used.
PrefaultIsComplete == call.mode = "PREFAULT" => TimedFaults = 0

\* Every byte is written once by the workload, whatever the preparation.
SameWorkload == \A b \in Bytes : written[b] = 1

\* Well-typed; and of a trial that counts, the modes did the same work, and
\* the faults of its timed pass are those the preparation did not save, page
\* by page of the number the report is about (memory_optimizer.c:379-455,
\* 964-985, 1093).
FaultsAddUp ==
  /\ TypeOK
  /\ answer = "ok" =>
       /\ SameWorkload
       /\ PrefaultIsComplete
       /\ SetupFaults + TimedFaults + Cardinality(hinted) = PageCount
       /\ call.mode # "PREFAULT" => SetupFaults = 0

\* A trial that ends well or breaks off in the middle gives all back, but for
\* a name that shm_unlink refused to remove; and from the first byte on no
\* kill can leave one behind (memory_optimizer.c:540-626, 763-890).
NothingLeaks ==
  /\ answer = "ok" => held = {}
  /\ answer = "failed" /\ completed < call.total => held \subseteq {"name"}
  /\ mapped # {} \/ completed > 0 => "name" \notin held
=============================================================================
