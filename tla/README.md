# FastIPC-X: formal models and proofs

FastIPC-X (`src/`) measures ways for two Linux processes to move bytes, improves
one of them, verifies the bytes, and keeps the results as CSV evidence that a
summary and a dashboard present. These are TLA+ models of the parts in which
something can go wrong that a test would hardly reach: the two-process
transports and verifiers, the trials and series of trials built on them, the
choices made from their results, and the files and arguments that pass from one
command to another. Each model is checked by TLC on small instances. Every transport, both
verifiers, the timed slot trial, the series of trials with their results, the
memory trial, the evidence files, the command line, the selector, the profilers
and the chunk sweeps are also proved, for every size, with TLAPS.

Paths below are relative to the repository; `src/x.c` is `src/src/x.c` in
`PROJECT.json`, which maps every modelling definition to its lines.

## 1. The system

| Component | State it keeps | Operations | What makes it correct |
|---|---|---|---|
| **SHM-RING transport** `shm_ring_ipc.c` | a mapping with two semaphores, `head`, `tail`, 8 slots; the caller's CPU mask | set up, fork, produce, consume, wait, clean up; terminate the child on failure | no slot in two hands; chunks in order at the right length; "ok" only for a complete transfer; nothing leaks, the mask is restored |
| **SHM baseline** `shm_ipc.c` | a mapping with two semaphores, one slot, `valid` | the same with one slot | the same, as far as its error branches allow |
| **Pipe, FIFO, socket** `pipe_ipc.c`, `fifo_ipc.c`, `socket_ipc.c` | a kernel stream, a path, a listener | create, meet, write, read, close, wait | everything written is read; the path goes; both processes end |
| **Integrity verifier** `integrity_verifier.c` | as the transports, and a report pipe and two checksums | `verify <method>` | PASS only for identical bytes; FAIL only for changed ones; ends |
| **Ring slot optimizer** `shm_ring_slot_optimizer.c` | a ring with lengths and a start gate; clocks; results per slot count | timed trials, medians, best count | a trial times exactly one whole transfer |
| **Benchmark suite, chunk optimizer** `benchmark_suite.c`, `optimizer.c` | trial buffers, a temporary CSV per chunk size, rows | sweep, parse, mark the best, publish | every row is a measurement of its method and size; the best is the best |
| **SHM optimizer, CPU affinity, memory** `shm_optimizer.c`, `cpu_affinity_analyzer.c`, `memory_optimizer.c` | arrays of results, trials file and summary file; for memory a fresh mapping per trial and the page-fault counts around it | a series of trials of several modes, medians, selection | no mode is favoured by the order; a row is of one trial; the selection is the best; the modes did the same work |
| **Final summary** `final_summary.c` | two result files, a count of missing sections | reads all evidence | COMPLETE exactly when everything was found |
| **Run manifests** `run_manifest.c` | a text and a CSV per command | record | an exit code of 0 is about a finished command |
| **Command line** `main.c` | none | parse, convert to bytes, run, record, exit | the bytes that are moved, the names of the results and the recorded names mean the same sizes |
| **Dashboard** `dashboard/backend/app.py`, `dashboard/frontend` | presets; no lock | runs commands in request threads, kills after 300 s | demos never touch canonical evidence |
| **Adaptive selector** `adaptive_selector.c` | one profile per payload | reuse a profile, or choose from measurements and save; `auto` runs what was chosen | the best of real measurements; stale only when reused; what runs is what was reported |
| **Workload profiler** `workload_profiler.c` | one row per payload | reuse a profile or have it measured and built, read it back | the same |
| **Syscall profiler** `syscall_profiler.c` | the file of a strace, a CSV per method and per comparison | run strace, wait, parse, save, compare | a profile is that of the run that was started |
| **Environment profiler** `environment_profiler.c` | one CSV row | read the machine, save | the row is read back as it was written |

How they interact. A command runs in one process; a transport forks one child
and talks to it through shared memory and semaphores, or through a kernel
stream. The suite and the optimizers call the transports. Commands talk to each
other only through files under `results/`, and nothing serialises them: two
shells, or two requests to the dashboard, run at the same time. The adaptive
selector reads what the chunk and SHM optimizers wrote, the workload profiler
has all three run, the final summary reads everything. The dashboard kills the
command, not its child, and not a strace.

What is hard: two processes on unlocked memory; error branches after `fork`,
where two processes have to agree on who cleans up; blocking calls without
timeout (`sem_wait`, `open` of a FIFO, `accept`); partial reads and writes;
SIGPIPE, which is nowhere ignored; kills at any point; files rewritten while
read. `PROJECT.json` lists the hazards line by line.

## 2. The modules

```
Transfer  <---- implemented by ----  ShmRing --- ShmRingInv    ShmRing_proofs
(abstract)                           ShmSlot                   ShmSlot_proofs
                                     StreamIpc                 Streams_proofs
VerifyStream  verdicts over streams                            Streams_proofs
VerifyShm     verdicts over the slot and the ring              VerifyShm_proofs
SlotTrial     a timed trial with a start gate                  SlotTrial_proofs
TrialSeries  <-- implemented by --  MemorySeries               MemorySeries_proofs
(the loops over trials)             = TrialSeries x PageTrial
                                    (a memory trial page by page)
Evidence      all commands + result files + summary            Evidence_proofs
              + manifests
Commands      five parts side by side:                         Commands_proofs
  CommandLine     main with its arguments
  Selector        adaptive profiles
  Syscalls        fastipc beside strace
  EnvironmentCsv  a row written and read
  ChunkSweep      optimizer + suite + shared temporary files
```

Each `MC...` module with its `.cfg` instantiates one of them. A name with a
suffix such as `...Forgotten` or `...IgnoringStatus` is a faulty variant of the
definition that follows it, kept to show that a property notices the fault; no
specification uses it.

**Transfer** is what every benchmark transport promises: bytes are handed over
and taken in order, at most `window` are under way, and "ok" is answered only
for a complete transfer.

**ShmRing** is `run_shm_ring_internal`. `ppc` and `cpc` are the places of
producer and consumer, one action per stretch of code between two accesses to
shared state: `WaitEmpty` (the wait), `WriteSlot` (the copy into the slot),
`PostFilled` (`head`, the post, `sent`), and so on; the setup calls are one
action per call (`SetupStep`) with a table of what each acquires and what its
error branch gives back. `held` is what the caller still has to release: buffer,
the two semaphores, mapping, name, descriptor. `terminate_child` is split
(`Abandon`, `ConsumerTerminated`, `Abort`) because the child runs on until the
signal arrives. The model leaves the size arithmetic of the mapping, the clocks
and `fill_usage` out.

**ShmSlot** is `run_shm_benchmark`. Its error branches differ and are modelled as
they are: the producer's failed `malloc` returns without signalling or awaiting
the child; the child's failed `malloc` returns -1 into the code of its caller
(`child = "escaped"`, until `main` exits with 2); a failed semaphore gives the
region up before it waits for the child; the result of `waitpid` is not looked
at (`statusLost`).

**StreamIpc** is the three stream transports, told apart by `kind`. A stream is
two counters, bytes written and read. `readers` and `writers` are the processes
that have an end open: they decide between data, end of file and SIGPIPE. A FIFO
`open` is entered and returns in two steps, because each side waits for the
other (`met`).

**VerifyShm** is `verify_shm` and `verify_shm_ring` with the verdict of
`run_integrity_verification`; **VerifyStream** is `verify_pipe`, `verify_fifo`,
`verify_socket`. A checksum is the sequence of the bytes that went into it, over
streams their number and whether one was changed: FNV-1a without collision.
`Corrupt` changes one byte on the way, which is what the command exists to notice.

**SlotTrial** is `run_ring_trial`: as the ring, with lengths in the slots, a
terminator, a start semaphore and the clock readings around it.

**ChunkSweep** is `run_chunk_optimizer` and the part of `run_benchmark_suite` it
relies on, for several sweeps at once. The trials of a method are one step that
yields a median; the CSV between suite and optimizer is a shared file that a
suite opens, closes, and an optimizer parses and unlinks.

**Evidence** is the results directory under commands from shells, the dashboard
and its demo presets. A command is: open its trials file (affinity and memory
only), measure, open and close a file beside the result (`LateKinds`: the rows of the
chunk optimizer, the trials of the two ring optimizers, the report of the environment),
open the result file, close it, record its manifest; or final-summary, section by
section (`read` is the set of kinds it has looked for). What becomes of a file that
cannot be opened differs: most commands fail at once; `verify`, `compare-syscalls` and
`optimize-shm` do not look (`IndifferentKinds`); `optimize-ring-slots` writes the other
file and fails at its end (`rc`). The two files of trials of `optimize-shm` are one.

**TrialSeries** is the loop over trials that four commands have. `Mode` and `Trial` are
what the two counters `outer` and `inner` mean in each: `analyze-affinity` and
`optimize-memory` turn the order of the modes by one per trial (`TurnedMode`),
`optimize-ring-slots` finishes one mode after the other, `optimize-shm` alternates. A
trial yields two numbers or fails. What is kept of it (`data`, at `Cell`), what goes to
disk while the series runs or after it (`rows`), the medians, the selected mode and every
lost file or allocation are as in each command; `Sort` is the `qsort` of
`shm_optimizer.c`, in place. Medians are kept at `2 * trials` times their value, so that
all is integer. `measured` is what happened, which the code does not keep.

**PageTrial** is `run_one_memory_trial`: creation of the mapping with its failing
branches, the three preparations (nothing, one write per page, `madvise`), the timed
pass chunk by chunk, the three readings of the fault count. A page faults once, at its
first write; a hint may map any pages (`hinted`) without a fault. **MemorySeries** puts
such a trial between two results of a memory series. The count of faults is that of the
process and goes on from trial to trial.

**CommandLine** is one run of `main`: `Commands` says what arguments each of the fifteen
commands takes and after what it names its results. An argument is a minus or none, a
number or none, and something after it or not. Integers are modulo `Modulus`.

**Selector** is `adaptive_recommend`, `adaptive_auto` and `generate_workload_profile` for one
payload, beside `optimize-chunk` and `optimize-shm`. A row carries what it was measured
for and when (`from`, `stamp`), which the code does not know: that is how staleness is
seen. **Syscalls** is `profile` and `compare-syscalls` with the `strace` each starts as
a process of its own. **EnvironmentCsv** is `csv_write_field` against `split_csv`, character
by character, since what the two do to commas and quotes is the point. `CommaFrom` is the
`strchr` of the splitter, and `Begin` where it is after so many of them.

**Commands** puts `CommandLine`, `ChunkSweep`, `Selector`, `Syscalls` and `EnvironmentCsv`
side by side and chooses one of the five at the start; they share no state, so that each is
checked, and proved, only while it is the one chosen.

### Abstractions they share

* Bytes are counted; a slot keeps the number of the chunk it holds. Every
  property about content is about which chunk, which length, changed or not.
* A `size_t` has a width only in `CommandLine`, where a product may wrap; elsewhere
  counters never exceed the total.
* A step that touches no shared state is merged into the next one.
* Evidence files and the temporary CSVs are shorter than one stdio buffer (4096
  bytes): they are empty from `fopen("w")` to `fclose`, then complete (files beside a
  result may be longer; no command reads them, and only whose bytes they have is kept). The
  children leave with `_exit`, which flushes nothing twice. Two commands that
  have the same file open write over each other from its start; the shorter text
  leaves the end of the longer. In `Evidence` such a file is the work of both; in
  `ChunkSweep` the parser stops after the four rows, which are the last writer's.
* A failing `sem_destroy`, `munmap`, `unlink` or `close` is a message in the code
  and nothing in the models, but for the memory trial, which fails with it. `waitpid` failing means that its result is lost.

## 3. The runs

| Run | Bounds | What it shows |
|---|---|---|
| `shm_ring` | 3 slots, totals 0, 1, 4, 7, chunks 0, 1, 2, pinning on either side, all 8 fault kinds | the ring's safety, its inductive invariant, its liveness, and that it implements `Transfer` |
| `shm_slot` | totals 0, 1, 3, 5, chunks 0, 1, 2, all faults | the baseline hands over chunk after chunk; exactly which failures leave a child, a wrong "ok" or a waiting process behind; implements `Transfer` but for a lost `waitpid` |
| `stream_ipc` | three kinds, capacity 3, totals 0, 1, 5, chunks 1, 2, 4, all faults | no byte lost or repeated over partial reads and writes; ends unless one side never reaches the meeting point |
| `verify_shm` | slot and 2-slot ring, payloads 1, 3, 5, chunks 1, 2, all faults and a changed byte | verdicts are true; the call ends unless one side gives up while the other waits |
| `verify_stream` | three kinds, capacity 3, payloads 1, 5, chunks 1, 2, 4, all faults and a changed byte | the same over streams; the path is there as long as the child needs it |
| `slot_trial` | 1, 2, 3 slots, totals 1, 5, chunks 1, 2, all faults | the time of a trial is that of the whole transfer; it ends after a failure; nothing is left |
| `evidence` | 2 commands from a shell or a demo preset, five experiments, any subset of canonical files from before, all faults and kills | evidence is replaced only by finished measurements, demos stay away from it, status and manifests are true: exit code 0 means that the files were written, but for the commands that do not look |
| `memory_series` | 3 modes (2 for SHM); 4 trials for affinity, 2 for memory, 1 to 3 for slots, 2 and 3 for SHM; latencies 1, 2; pages of 3 bytes, payloads 3 and 8, chunks 2 and 10; all faults | rows and medians are those of the trials, the rotation is fair, every memory trial did the same work and its faults add up, and the detailed series implements `TrialSeries` |
| `commands` | see below | arguments and names agree; recommendations are the best of real measurements; a profile is of its own run; a row is read back; published sweeps are real, their best is best, and files are left only by sweeps that failed |
| `evidence_canonical` | as `evidence`, also from the dashboard's page, no faults | **violation**: see 6 |
| `chunk_sweep_own` | as the sweeps of `commands`, no faults | **violation**: see 6 |

The bounds of `commands`: integers modulo 64 with 8 bytes to a megabyte and 4 to a
kilobyte, numbers 0, 1, 8 (wraps to 0), 9 (wraps to 1) and 64 (out of range); for the
selector one stream beside the ring, two chunk sizes the ring is measured at, two
commands and two measurements, latencies 1, 2; for the profiler two methods, one system
call that an output lists or not, two commands; for the environment a number between two
texts, each any sequence of up to three of `x`, comma, quote and space; two sweeps over two
chunk sizes and two methods, medians 1, 2, with all faults and kills.

Why the bounds are enough. A transfer shows everything it can do with more chunks
than slots, so that both indices wrap around more than once (7 bytes in chunks of
1 over 3 slots, 5 over 2), with a short last chunk (7 and 5 in chunks of 2), with
an exact one, with a single one and with none; the interesting lengths of a stream
are below, at and above its capacity. All counters are bounded by the total, so
that the state spaces are finite without a constraint. Where section 4 has a theorem, the
proof removes the bounds, also those on the number of commands and sweeps and on the
length of a series and of a text. Two commands suffice for every interference of `Evidence` and
`ChunkSweep`, as each property speaks of one reader or writer and whoever disturbs
it; the five experiments of `evidence` stand for the ways to write: a file beside the
result that has to be there (`environment`, as `chunk`), is ignored (`shm`), is
remembered (`slots`) or is opened before the first trial (`affinity`, as `memory`), and
no such file, with results that are found by name (`verify`). A command the dashboard's
page starts is one a shell may start as well (`MayStart`), so that `evidence` has only
shells and presets; `Evidence_proofs` is about any of them.

A rotation of three modes is back where it began in the fourth trial, which is where an
error in it would show; medians differ in kind for odd and even numbers of trials, and
both occur. A payload of 8 in pages of 3 has a last page that is partly used, and chunks of
2 that lie across two pages; one of 3 is a single full page; a chunk of 10 exceeds both.
The selector's property is about one reader and whoever measures or builds between two
of its reads: one measurement before and one after. The kinds of text that matter to
quoting are empty, plain, with blanks at either end, with a quote and with a comma at
each place; three characters have all of them.

Each type invariant is a conjunct of one of the invariants of its module (of `IInv`,
`VerdictIsTrue`, `ResultsAreTrue`, `FaultsAddUp` and so on) and is checked as such. Deadlock is not checked, since calls end and, as the liveness properties say
precisely, some wait for ever.

### Fairness

Both processes are scheduled by the kernel: weak fairness for each, and for the
delivery of a signal that was sent. Nothing *has* to fail: fairness is taken of the
actions without the failing outcome of a blocking call, e.g.
`WF_vars(Producer /\ ppc' # "abort")`. Otherwise a `sem_wait` that is never
answered would be forced to fail, and every deadlock would be assumed away. Kills
are never fair. `Evidence`, `ChunkSweep`, the series and the parts of `commands` state
safety only and assume none.

The liveness properties name the states in which the code does wait for ever:

* `EndsUnlessStranded`: the producer of the ring in `sem_wait(empty_slots)` after
  its consumer died early with the ring full (`shm_ring_ipc.c:852`).
* `EndsUnlessStuck`: the same for the slot; a failed producer that waits for a
  consumer nobody wakes (`shm_ipc.c:147-155`); and a chunk size of 0, which moves
  nothing for ever (`main` refuses it).
* `EndsUnlessUnanswered`: `open` of a FIFO or `accept` when the other side failed
  before it; for the benchmarks and for the verifier.
* `EndsUnlessEmbraced`: the verifier's parent gave up and awaits a child that
  awaits the terminator.
* `TrialEnds`: only the full ring of a dead child; on any failure of its own the
  trial kills the child.

## 4. The proofs

In every module of proofs the argument has one shape. None of the properties is
inductive; a conjunction `IInv` (`BenchInv`, `PInv`, `SeriesInv`, `ResultInv`, `CInv` where a module has
more than one) of named parts is, was checked by TLC on the run's instance first, and
implies them. There is one lemma per action that it preserves `IInv`, with a step for each
part that the action can disturb, and the facts about indices, lengths and counts that
several of them need are lemmas of their own. The theorems assume only what their modules
assume of their constants (`RingAssumption`, `CallAssumption`, `CapacityAssumption`,
`KindAssumption`, `KindsAssumption`, `BoundAssumption` and so on: sizes are natural numbers,
positive where the code refuses 0), which TLC evaluates in the runs. Nothing is assumed of
`Faults`: they hold when anything modelled may go wrong.

### The ring

`ShmRing_proofs` proves, for every `RingSlots` in `Nat \ {0}`, every set of totals and
chunks in `Nat` and every set of faults (the assumptions `RingAssumption`,
`CallAssumption`, `FaultAssumption` of `ShmRing`, which TLC evaluates in the run):

| Theorem | Statement |
|---|---|
| `InvariantHolds` | `Spec => []IInv` |
| `TypeCorrect` | `Spec => []TypeOK` |
| `SlotsAreExclusive` | producer and consumer are never in the same slot |
| `ReadsInOrder` | the consumer always finds the next chunk at the length it works out itself |
| `OkMeansComplete` | "ok" means all bytes moved, exit code 0, child reaped, mask restored |
| `NoLeaks` | whatever way the call returns, it holds nothing and left no child |
| `AffinityRestored` | it does not return pinned unless the kernel refused the old mask |
| `RingOutlives` | mapping and semaphores exist as long as the consumer runs |
| `RingImplementsTransfer` | `Spec => T!Spec`, the abstract transfer with a window of `RingSlots * chunk` |

The argument. None of the safety properties is inductive: that both sides are never
in one slot depends on how many credits are where. `ShmRingInv!IInv` adds

* `SemaphoreInv`: `empty`, the chunks in flight, and the credit each side holds while it
  is between its wait and its post add up to `RingSlots`; `filled` is the chunks in
  flight without the one being read;
* `IndexInv`: `head` is `tail` plus the chunks in flight, modulo the ring;
* `SlotInv`: the i-th slot after `tail` holds the i-th chunk in flight;
* `ByteInv`: each byte counter is determined by its chunk counter, which makes both
  sides compute the same length for the short last chunk;
* `LifeInv`, `CallerInv`: which places of parent and child go together, and what the
  caller holds at each.

There is one lemma per action (`...Inv`), with arithmetic lemmas on indices and chunk
lengths (`RingIndex`, `AheadFacts`, `ChunkFacts`) stated once. `NextInv` combines them.
The refinement uses `IInv` to show that `PostFilled` is a `HandOver` within the window
(`WindowHolds`), `ReadSlot` a `Take`, `Finish` a `Succeed` or `Fail`, and that all else
stutters or fails.

### The baseline slot

| Theorem (`ShmSlot_proofs`) | Statement |
|---|---|
| `HandsOver` | the child finds in the slot the chunk it is about to count, whole, and the producer is not in it (`HandsOverNextChunk`) |
| `OnlyOrphans` | whatever way the call returns, it holds nothing, and has left a child only where it sent nothing (`LeavesOnlyAnOrphan`) |
| `SlotImplementsTransfer` | `Spec => IsTransfer`, a window of one chunk |

The invariant is about one credit: `CreditInv` says that the two semaphores and the two
processes have at most one between them, `SlotInv` what its owner knows of `valid` and of the
chunk in the slot. A chunk size of 0 is in: then chunks of length 0 pass for ever, which is
why `SlotInv` tells `valid = 0` apart. `LifeInv` and `CallerInv` follow the error branches, the
escaped child included. That `status` may be a lie (`statusLost`) is what keeps "ok" from being
true by itself; the refinement mapping answers "failed" for it.

### The streams

`Streams_proofs` is about `VerifyStream` and, through the instance `Bench`, about `StreamIpc`,
whose totals may be 0 (`Bench!CallAssumption` is a hypothesis of its theorems).

| Theorem | Statement |
|---|---|
| `VerdictsAreTrue` | PASS only for the whole payload, unchanged, and a child that ended well; FAIL only for a changed byte (`VerdictIsTrue`) |
| `PathOutlives` | the path is there for every child that may open it, and nothing is left at the return (`PathOutlivesChild`) |
| `StreamsLeaveOnlyOrphans` | `LeavesOnlyAnOrphan` of the benchmarks |
| `StreamsImplementTransfer` | `IsTransfer` of the benchmarks, the window being the kernel's buffer |

A receiver takes the end of the file for the end of the payload, so that a verdict is only
as good as this: when the child sees the end, nothing will be sent any more. `EndsInv` says
that the parent has the write end from the meeting to its last write, `MeetingInv` that no one
reads before the meeting; hence `DataInv`: a content child has read all that will *ever* be
sent. The stream may still have been cut short, but then the sender knows that it failed.
`HeldInv` has to say where the listener may be open, because a child that connects makes the
parent a writer. For the benchmarks `BenchBytes` says that an exit code of 0 means all was
read; the rest is that partial writes and reads fit (`BenchWriteFits`, `BenchReadFits`).

### The verifier over shared memory

| Theorem (`VerifyShm_proofs`) | Statement |
|---|---|
| `VerdictsAreTrue` | PASS only for identical bytes, FAIL only for changed ones (`VerdictIsTrue`) |
| `VerifierLeaksNothing` | no way out leaves a child or a resource (`NothingLeaks`) |

`CreditInv` places the writer `Unread + Filled` slots ahead of the reader, by index arithmetic
as in the ring. `DataInv` says that what the child has read and what the slots between the two
carry is a prefix of the payload (`Carries`, the terminator being the chunk of length 0);
`HashInv` and `ContentInv` relate the two checksums to it: the parent's is `Pattern(0, total)`
(`PatternJoins` adds a chunk to it), and a byte that was changed is in the child's checksum or
in a slot the child will read, and never leaves. `ReportInv` is needed because the report is
read when the child may have died since.

### The slot trial

| Theorem (`SlotTrial_proofs`) | Statement |
|---|---|
| `TrialSound` | chunks are read in order, none is overwritten, and a trial that counts moved all bytes between its two clock readings (`TrialIsSound`) |
| `TrialLeaksNothing` | `NothingLeaks` |

Here a failed post loses a credit for good, so that credits add up to at most the slots
(`CreditInv`). `SlotInv` is that of the ring with lengths in the slots: only the last one can
be the terminator, and after it nothing comes, so that a child that ends well has read
everything (`ChildInv`). `LifeInv` orders the start gate and the readings of the clock.

### The evidence

| Theorem (`Evidence_proofs`) | Statement |
|---|---|
| `EvidenceEarned` | a complete file is the work of commands that finished their measurement, or was there before (`EvidenceIsEarned`) |
| `SummariesHonest` | a summary counts what it did not find, and is COMPLETE only if it found everything (`SummaryIsHonest`) |
| `ManifestsTrue` | a manifest with exit code 0 is about a measurement that was made and passed, and, but for `verify`, `compare-syscalls` and `optimize-shm`, its result file and the one beside it were written (`ManifestsAreTrue`) |
| `DemosKeep` | `Spec => DemosKeepEvidence`, an action property: no step of a demo touches a canonical file |

for any number of commands (`BoundAssumption`), any experiments, ways to start them and faults. `FileInv` is about files
that several commands may have open at once: an empty one is somebody's who has not closed
it, a full one the work of commands that have all measured. `TrialInv` and `CodeInv` carry the
exit code: a command that comes to its result file with 0 has the file beside it, and one past
it with 0 has both, since a file that has bytes of some command never loses them all. `SummaryInv` is about what a
summary *saw*, since the files may change between two of its sections; that `missing` counts
the kinds it read and did not see is the one argument with cardinalities.

### The series

`MemorySeries_proofs` proves, for any number of modes and trials, any payload, chunk and
page size in `Nat \ {0}`, any latencies and any faults (`ModeAssumption`,
`PageTrialAssumption`, `ThreeMemoryModes`):

| Theorem | Statement |
|---|---|
| `RotationFair` | no mode runs twice in one trial, nor at the same place of the order again before every other mode was there |
| `TrialIsFaithful` | of a memory trial that counts, every byte was written once, the faults add up to the pages, and a prefaulted one left none to the timed pass; what is held at each way out |
| `TrialsComparable` | the same of every trial of a series, each of which starts with nothing held |
| `SeriesImplementsTrialSeries` | `SeriesSpec => Spec` of `TrialSeries` |
| `ResultsTrue` | the rows on disk are those of the trials, a median that is not lost is that of what was measured, the selected mode is the first of the lowest (`ResultsAreTrue`) |
| `SeriesResultsTrue` | the same of `SeriesSpec` |

`RotationInv` says that what was measured lies before the two counters and that its mode is
`(trial + order) % Modes`; fairness then is a fact about remainders (`SameRemainder`: equal
ones are equal or `Modes` apart).

`PInv` is the invariant of one trial. The claim about the final counts is not inductive: it
needs, at every place, which pages are mapped (`MappedInv`: those of all bytes below
`offset` or `completed`) and that mapped pages, faults since the first reading and hints
balance (`CountInv`). The prefault loop covers the last page because `offset` is a multiple
of the page size (`ProgressInv`); that quotients below a bound have no gaps is
`QuotientsBelow`. `WriteFaults` is the one lemma about cardinalities, used by both loops.

`SeriesInv` joins both: a kept result makes the next trial `Fresh`, whatever the fault count
of the process is by then, and that is all `PInv` needs to start again. The proofs speak of
`Page`, the instance of the trial that the specification of the series is made of.

`ResultsAreTrue` says of four commands with three orders of loops what they leave on disk. Its
invariant `ResultInv` follows a number from the trial to the selection:

* `LoopInv`: where the two counters are at each place;
* `MeasuredInv`: there is exactly one measurement for each place before the counters, and
  its mode and trial are those of the place (`ModeAt`, `TrialAt`);
* `DataInv`: each cell of the arrays has its measurement. This needs that two measurements
  never share a cell (`PlacesDiffer`, `CellsDiffer`, and `EveryRemainder` for the modes in
  turn). After the sort of `optimize-shm` only `SortedHolds` is left of it: the time in a cell
  is that of some trial of the mode, the other number that of the cell's own;
* `RowsInv`: what is on disk is all trials so far, or nothing yet, or, for `optimize-shm`,
  rows mixed in that way (`IsMixed`);
* `MedianInv`: each median kept so far is that of all trials of its mode (`MediansHold`), and
  how many there are at each place (`MedianCount`);
* `SummaryInv`: a summary has a line for each mode and marks the first of the lowest.

That the median the code takes from the sorted values is the one that `IsMedian` defines by
counting is shown once (`MedianIs`). `SortedIs` says that `Sorted` returns the values in
order, none lost and none twice: counting the values at or before each gives every place
exactly once (`CountsDiffer`). `RankOf` and `Halves` then count what lies on either side of
the middle, for odd and even numbers of trials. That the loop over the modes stops at the
first of the lowest is `ScanIsFirstLowest`, by the induction described below.

### The parts of `Commands`

`Commands_proofs` proves, for any number of commands and sweeps and any faults
(`WidthAssumption`, `DigitsAssumption`, `SelectorInstance`, `SyscallsInstance`,
`EnvironmentInstance`, `SweepInstance`: counts and times are natural numbers, chunk sizes
and methods are not empty, rows have no more columns than the reader takes):

| Theorem | Statement |
|---|---|
| `OutputsNamed` | what a command moves is what it was asked to, and the manifest names what it wrote (`OutputsAreNamed`) |
| `RecommendationsAreBest` | a recommendation is the first of the fastest of what was published, and stale only if taken over (`RecommendationIsBest`) |
| `UndisturbedAreConsistent` | a command that no other disturbs executes what it reported (`UndisturbedIsConsistent`) |
| `ProfilesAreOwn` | a profile whose raw file no other strace touched is of its own run (`ProfileIsOwn`) |
| `RowsAreReadBack` | the environment's row is read back, up to the first text with a comma (`RowIsReadBack`) |
| `SweepsAreSound` | a published sweep has all its rows, each of a suite that measured it, and marks the smallest chunk size with the lowest median (`SweepIsSound`) |
| `SweepsLeaveNoFile` | only a sweep that did not get to its end leaves a file (`NoFileLeft`) |

`CommandsInv` says of the chosen part what its own invariant is.

* `CInv`: what has happened by each place of `main` (`InOrder`), and that calls and names are
  formed from the parsed values (`FromValues`). A product that did not wrap divides back to
  its factor (`UnitsCountBack`).
* `SelectorInv`: every file holds rows that were measured, with stamps up to the clock
  (`FilesHold`, `FilesAreNew`); what a command holds at each place follows from the file it
  read it from, whatever others wrote since (`CommandHolds`); and a command beside which
  nothing ran still finds there what it put (`OwnHolds`, which is about `Alone` only).
  `BestOfIsFirst` says that the loop over the candidates finds the first of the lowest.
* `SyscallsInv`: each profiler has as many profiles as it has done methods (`Counts`), and the
  strace it waits for, or the file it reads, is of its own run unless another touched that
  file (`Traces`). A killed command's strace goes on and counts as another.
* `EnvironmentInv` is short; the work is in the text. `RowIsLaid`: where each column of the
  row begins and ends; `RowInPieces`: as long as no text before it has a comma, the splitter
  finds that place; `QuotesComeOff`: the reader, always at or before the character that it
  reads, turns doubled quotes back and takes the outer ones off.
* `SweepInv`: a row that is there is of a suite of this chunk size (`SweepHolds`); a
  temporary file is absent, empty while somebody has it open, or holds a whole suite
  (`TmpHolds`), and while it exists a sweep that has not ended or has failed is behind it
  (`TmpIsOwned`). `BestChunkIsFirst` is the loop over the rows.

The loops (`BestOf`, `BestChunk`, `Begin`, the concatenation of the columns) are recursive
functions. That such a function exists, and what it computes, is shown from the
well-foundedness of the natural numbers: a set of numbers has a least one (`LeastNumber`), so
that a set with 0 and every successor is all of `Nat` (`Induction`), and the sets are of those
numbers up to which the recursion has a solution (`RecursionExists`) or up to which the claim
holds (`ScanIsFirstLowest`). No operator is a parameter there.

### What is only model-checked

The liveness properties (`EndsUnlessStranded`, `EndsUnlessStuck`, `EndsUnlessUnanswered`,
`EndsUnlessEmbraced`, `TrialEnds`): fairness and ENABLED are outside the prover. Every safety
property of the passing runs, and every refinement they check, is proved.

## 5. What is checked of each part

* **Ring**: `SlotsExclusive`, `ReadsNextChunk`, `OkIsComplete`, `NothingLeaks`,
  `NeverReturnsPinned`, `RingOutlivesConsumer`, `EndsUnlessStranded`, `IsTransfer`.
* **Slot**: `HandsOverNextChunk`, `LeavesOnlyAnOrphan`, `EndsUnlessStuck`, `IsTransfer`, which
  includes that "ok" means complete. A call that lost its child's status is taken out of the
  refinement: it is the one way to a wrong "ok".
* **Streams**: `LeavesOnlyAnOrphan`, `EndsUnlessUnanswered`, `IsTransfer`, which includes
  that "ok" means complete.
* **Verifier**: `VerdictIsTrue` (PASS only for identical bytes, FAIL only for changed ones),
  `NothingLeaks`, `EndsUnlessEmbraced`, `PathOutlivesChild`, `EndsUnlessUnanswered`. A
  receiver of a stream that is cut short reports success; what keeps that from becoming
  a verdict is that the sender knows it failed.
* **Slot trial**: `TrialIsSound`, `NothingLeaks`, `TrialEnds`.
* **Chunk sweep**: `SweepIsSound`, `NoFileLeft`. A failed trial of one of the first three
  methods frees pointers that were never set (`benchmark_suite.c:172`); the model has an
  abort as one of the outcomes.
* **Evidence**: `EvidenceIsEarned`, `DemosKeepEvidence`, `SummaryIsHonest`,
  `ManifestsAreTrue`. Three commands answer 0 without a result file, and their manifests name
  it all the same (`integrity_verifier.c:2377`, `syscall_profiler.c:919`,
  `shm_optimizer.c:164`).
* **Series**: `ResultsAreTrue` (rows, medians, selection, against definitions by counting and
  not by sorting), `RotationIsFair`, `TrialsAreComparable`, `IsSeries`.
* **Command line**: `OutputsAreNamed`.
* **Selector and workload profiler**: `RecommendationIsBest`, `UndisturbedIsConsistent`.
* **Syscall profiler**: `ProfileIsOwn`, of a command whose file no other strace has touched;
  after a kill the strace of the killed command is such another one.
* **Environment**: `RowIsReadBack`, up to the first text with a comma.

## 6. Where code and documentation disagree

* `evidence_canonical`: `final-summary` is documented to consolidate *canonical* evidence
  (`README.md:127`), but it takes every `results/integrity_*.csv`
  (`final_summary.c:1770`), so that the integrity demo of the dashboard changes the
  ratio it reports.
* `chunk_sweep_own`: the temporary CSV of the chunk optimizer is named after the chunk
  size alone (`optimizer.c:79`), so that of two sweeps for different payloads one can
  publish what the other measured.

The following are stated as predicates at the end of their modules and have no run of their
own; adding one to a `.cfg` as an invariant shows it violated.

| Predicate | What the source says | What it does |
|---|---|---|
| `TrialSeries!RowsAreOfOneTrial` | heading `trial,elapsed_ms,throughput_mbps,...` (`shm_optimizer.c:150`) | the elapsed times are sorted in place before the rows are written (`:126`) |
| `TrialSeries!SecondIsMedian` | `median_throughput_mbps` (`shm_optimizer.c:166`) | writes the mean |
| `TrialSeries!BestIsMeasured` | "Best measured mode" (`cpu_affinity_analyzer.c:1537`) | selects a median of 0.0 that stands for a failed allocation (`:644`) |
| `CommandLine!AcceptsOnlyPositive` | "must be a positive integer" (`main.c:328`) | takes `-1`, as `strtoull` does (`:187`) |
| `CommandLine!RecordsItsOutputs` | the manifest records outputs (`README.md:126`) | names files after the argument although a wrapped size named them |
| `Selector!ValidMeansFourRows` | "exactly four candidates" (`adaptive_selector.c:724`) | also takes a file with the end of a longer one behind them |
| `Selector!SourceIsNamed` | names the synchronization optimization as source (`:1037`) | also when the ring's row is the baseline of SHM |
| `Selector!RunsWhatItGenerated` | loads the newly generated profile (`:1120`) | loads whatever profile is there by then |
| `Syscalls!ParsesCompleteOutput` | "Parse complete strace output" (`syscall_profiler.c:325`) | skips `restart_syscall`, whose name has the word of the heading (`:354`); needs it among `Names` |
| `EnvironmentCsv!ColumnsAreKept` | no embedded commas (`final_summary.c:324`) | the name of a processor or system may have one |

## 7. Not modelled

* The dashboard frontend: presentation. The read-only endpoints of the backend.
* The choice of CPUs from `/sys` and the affinity mask (`cpu_affinity_analyzer.c:370-586`) and
  what the environment profiler reads from `/proc`, `uname` and the compiler: computations on
  what the machine says, between whose steps nothing can come.
* The texts of reports, manifests, summaries and usage messages; clocks and resource
  counters, of which a trial has one or two numbers.
* That the workload profiler does several payloads in turn: their files have nothing in
  common.

Vendored and generated files are left aside.

## 8. Plan

Every part with state that more than one step or process touches is modelled, and its
safety is proved. What could be added are the parts of section 7, and the stronger claims of
section 6 once the code keeps them.

The ring came first because it is the project's own contribution and the least guarded
code; the transports and verifiers because every measurement rests on them; evidence and
sweeps because everything published goes through them; then the series and the choices,
which turn measurements into conclusions.
