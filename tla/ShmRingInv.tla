----------------------------- MODULE ShmRingInv -----------------------------
(***************************************************************************)
(* The inductive invariant of ShmRing: what ties the semaphores, the two   *)
(* indices, the slots and the two byte counters together in every          *)
(* reachable state.  TLC checks it on a small ring, ShmRing_proofs proves  *)
(* it for every ring, size and chunk.                                      *)
(***************************************************************************)
EXTENDS ShmRing

\* Places by what the caller has reached.
BeforeFork == {"args", "getaffinity", "shm_open", "ftruncate", "mmap", "sem_empty",
               "sem_filled", "fork"}
Looping == {"wait", "write", "post"}
WithChild == {"malloc", "pin", "waitpid", "abort"} \cup Looping
RingReady == {"sem_filled", "fork", "malloc", "pin", "waitpid", "restore", "finish"} \cup Looping

\* Published chunks the consumer has not copied yet, and the credits each
\* side holds.
InFlight == produced - consumed
ProducerHolds == IF ppc \in {"write", "post"} THEN 1 ELSE 0
ConsumerFreeing == IF cpc = "post" THEN 1 ELSE 0
ConsumerReading == IF cpc = "read" THEN 1 ELSE 0

\* How many slots after the consumer's a slot comes.
Ahead(i) == IF i >= tail THEN i - tail ELSE i - tail + RingSlots

\* Chunk k of the transfer starts here, and is this long.
StartOf(k) == k * call.chunk
ChunkNumber(k) == [chunk |-> k, len |-> ChunkLength(StartOf(k))]
BytesOf(k) == IF StartOf(k) < call.total THEN StartOf(k) ELSE call.total

\* What the caller holds at each place.
HeldAt(p) ==
  CASE p \in {"args", "getaffinity", "shm_open", "returned"} -> {}
    [] p \in {"ftruncate", "mmap"} -> {"name", "fd"}
    [] p = "sem_empty" -> {"name", "fd", "map"}
    [] p = "sem_filled" -> {"name", "fd", "map", "empty"}
    [] p \in {"fork", "malloc"} -> {"name", "fd", "map", "empty", "filled"}
    [] p = "abort" -> AbandonCleanup(site)
    [] OTHER -> Everything

SemaphoreInv ==
  /\ produced \in Nat /\ consumed \in Nat
  /\ filled = InFlight - ConsumerReading
  /\ filled >= 0
  /\ empty >= 0
  /\ empty + InFlight + ConsumerFreeing =< RingSlots
  /\ ppc \in RingReady => empty + InFlight + ProducerHolds + ConsumerFreeing = RingSlots

IndexInv ==
  ppc \in RingReady => head = tail + InFlight \/ head = tail + InFlight - RingSlots

SlotInv ==
  /\ \A i \in Slot : Ahead(i) < InFlight => slots[i] = ChunkNumber(consumed + Ahead(i))
  /\ ppc = "post" => slots[head] = ChunkNumber(produced)

ByteInv ==
  /\ sent = BytesOf(produced)
  /\ received = BytesOf(consumed)
  /\ ppc \in Looping => sent < call.total
  /\ ppc \in {"waitpid", "restore", "finish"} => sent = call.total
  /\ child = "running" /\ cpc \in {"malloc", "pin", "wait", "read"} => received < call.total
  /\ cpc = "exit" => received = call.total

LifeInv ==
  /\ ppc \in BeforeFork =>
       /\ child = "none" /\ cpc = "malloc"
       /\ produced = 0 /\ consumed = 0 /\ head = 0 /\ tail = 0
  /\ ppc \notin {"args", "returned", "killed"} => call.total > 0 /\ call.chunk > 0
  /\ child # "none" => call.total > 0 /\ call.chunk > 0
  /\ ppc \in BeforeFork \cup {"malloc", "pin"} => produced = 0
  /\ cpc \in {"malloc", "pin"} => consumed = 0
  /\ ppc \in WithChild => child \in {"running", "zombie"}
  /\ ppc \in {"restore", "finish"} => child = "reaped"
  /\ ppc = "returned" => child \in {"none", "reaped"}
  /\ child \in {"none", "running"} => code = NoCode
  /\ code = 0 => cpc = "exit"
  /\ ppc \in {"restore", "finish"} => status \in {code, WaitFailed}

CallerInv ==
  /\ ppc # "killed" => held = HeldAt(ppc)
  /\ child = "running" => {"empty", "filled", "map"} \subseteq held
  /\ ppc = "abort" => site # "none"
  /\ ppc = "abort" /\ site \in {"malloc", "pin"} => affinity = "original"
  /\ affinity = "pinned" => ppc \in Looping \cup {"waitpid", "restore", "abort", "killed"}
  /\ affinity = "stuck" => ppc = "returned" /\ answer = "failed"
  /\ answer # "pending" => ppc = "returned"
  /\ answer = "ok" => /\ sent = call.total /\ received = call.total
                      /\ code = 0 /\ child = "reaped" /\ affinity = "original"

\* The inductive invariant; every safety property of ShmRing follows from it
\* (shm_ring_ipc.c:233-1241).
IInv == /\ TypeOK
        /\ SemaphoreInv
        /\ IndexInv
        /\ SlotInv
        /\ ByteInv
        /\ LifeInv
        /\ CallerInv
=============================================================================
