----------------------------- MODULE StreamIpc ------------------------------
(***************************************************************************)
(* One call of run_pipe_benchmark, run_fifo_benchmark or                   *)
(* run_socket_benchmark: a forked child reads from the kernel what the     *)
(* calling process writes.  The three differ in how the two ends find each *)
(* other, in what is cleaned up when, and in nothing else.                 *)
(*                                                                         *)
(* A byte stream is kept as two counters, the bytes written and the bytes  *)
(* read; the kernel holds the difference, never more than Capacity.  Which *)
(* processes have an end open decides between data, end of file and a      *)
(* broken pipe.  SIGPIPE is nowhere ignored: a broken pipe kills.          *)
(***************************************************************************)
EXTENDS Integers

CONSTANTS Kinds,        \* the transports that are tried
          Capacity,     \* bytes the kernel buffers for a stream
          Totals,       \* the values of total_bytes that are tried
          Chunks,       \* the values of chunk_size; main refuses 0
          Faults        \* what may go wrong, a subset of FaultKinds

FaultKinds == {"setup", "malloc", "open", "io", "waitpid", "kill_consumer", "kill_producer"}

ASSUME KindAssumption == Kinds \subseteq {"pipe", "fifo", "socket"}
ASSUME CapacityAssumption == Capacity \in Nat \ {0}
ASSUME CallAssumption == Totals \subseteq Nat /\ Chunks \subseteq Nat \ {0}
ASSUME FaultAssumption == Faults \subseteq FaultKinds

VARIABLES
  kind, call, \* the transport and its arguments, total and chunk
  ppc,        \* where the writing process is
  held,       \* what it has to give back: name, listener, buffer
  statusLost, \* waitpid failed: `status` kept its 0
  answer,     \* what the call returned in the calling process
  sent,       \* bytes written into the stream
  cpc,        \* where the reading process is, or was when it ended
  child,      \* life of the reading process
  code,       \* its exit code
  received,   \* bytes read from the stream
  readers,    \* the processes with the read end open
  writers,    \* the processes with the write end open
  met         \* fifo: both opens were under way at once; socket: connected

args == <<kind, call>>
parentVars == <<ppc, held, statusLost, answer>>
childVars == <<cpc, child, code>>
vars == <<args, parentVars, sent, childVars, received, readers, writers, met>>

NoCode == -1
KilledCode == 15
CallerCode == 2     \* what every command of main exits with after a -1

Init ==
  /\ kind \in Kinds /\ call \in [total : Totals, chunk : Chunks]
  /\ ppc = "create" /\ held = {} /\ statusLost = FALSE /\ answer = "pending"
  /\ sent = 0 /\ received = 0
  /\ cpc = "malloc" /\ child = "none" /\ code = NoCode
  /\ readers = {} /\ writers = {} /\ met = FALSE

InFlight == sent - received
Least(a, b) == IF a < b THEN a ELSE b

\* What is left of the chunk that write_all, or read_all, is busy with.
\* The reader of a pipe has no read_all: every read asks for a new chunk.
RestOfChunk(done) == Least(call.total - done, call.chunk - (done % call.chunk))
Wanted == IF kind = "pipe" THEN Least(call.total - received, call.chunk) ELSE RestOfChunk(received)

-----------------------------------------------------------------------------
(* The writing process.                                                    *)

Return(a) == ppc' = "returned" /\ answer' = a
ParentCloses == /\ readers' = readers \ {"parent"}
                /\ writers' = writers \ {"parent"}

\* pipe(); mkfifo(); socket() and bind().  Nothing is left when they fail.
Create ==
  /\ ppc = "create"
  /\ \/ /\ held' = CASE kind = "pipe" -> {} [] kind = "fifo" -> {"name"}
                     [] kind = "socket" -> {"name", "listener"}
        /\ ppc' = IF kind = "socket" THEN "listen" ELSE "fork"
        /\ readers' = IF kind = "pipe" THEN {"parent"} ELSE {}
        /\ writers' = readers'
        /\ UNCHANGED answer
     \/ "setup" \in Faults /\ Return("failed") /\ UNCHANGED <<held, readers, writers>>
  /\ UNCHANGED <<args, statusLost, sent, childVars, received, met>>

Listen ==
  /\ ppc = "listen"
  /\ \/ ppc' = "fork" /\ UNCHANGED <<held, answer>>
     \/ "setup" \in Faults /\ held' = {} /\ Return("failed")
  /\ UNCHANGED <<args, statusLost, sent, childVars, received, readers, writers, met>>

Fork ==
  /\ ppc = "fork"
  /\ \/ /\ child' = "running" /\ ppc' = "malloc"
        /\ readers' = IF kind = "pipe" THEN {"parent", "child"} ELSE {}
        /\ writers' = readers'
        /\ UNCHANGED <<held, answer>>
     \/ /\ "setup" \in Faults
        /\ held' = {} /\ ParentCloses /\ Return("failed")
        /\ UNCHANGED child
  /\ UNCHANGED <<args, statusLost, sent, cpc, code, received, met>>

Loop(done) == IF done < call.total THEN "write" ELSE "close"

\* On success a pipe's parent closes its read end and is connected.  The
\* failing branch neither stops nor awaits the child.
MallocParent ==
  /\ ppc = "malloc"
  /\ \/ /\ ppc' = CASE kind = "pipe" -> Loop(0) [] kind = "fifo" -> "open" [] kind = "socket" -> "meet"
        /\ held' = held \cup {"buffer"}
        /\ readers' = readers \ {"parent"}
        /\ UNCHANGED <<writers, answer>>
     \/ "malloc" \in Faults /\ held' = {} /\ ParentCloses /\ Return("failed")
  /\ UNCHANGED <<args, statusLost, sent, childVars, received, met>>

\* The failing branches after that give up everything, then await the child.
Abandon == ppc' = "abort" /\ held' = {} /\ ParentCloses

\* open(O_WRONLY) is entered: it waits for a reader.
OpenFifo ==
  /\ ppc = "open"
  /\ \/ /\ ppc' = "meet"
        /\ writers' = {"parent"}
        /\ met' = (readers # {})
        /\ UNCHANGED <<held, readers>>
     \/ "open" \in Faults /\ Abandon /\ UNCHANGED met
  /\ UNCHANGED <<args, statusLost, answer, sent, childVars, received>>

\* open(O_WRONLY) or accept() returns; a server closes its listener.
Meet ==
  /\ ppc = "meet"
  /\ \/ met /\ ppc' = Loop(0) /\ held' = held \ {"listener"} /\ UNCHANGED <<readers, writers>>
     \/ "open" \in Faults /\ Abandon
  /\ UNCHANGED <<args, statusLost, answer, sent, childVars, received, met>>

\* One write() of write_all: as many bytes as the kernel has room for, or an
\* error, or SIGPIPE when the reader is gone.
Write ==
  /\ ppc = "write"
  /\ \/ /\ readers # {}
        /\ \E n \in 1..Least(Capacity - InFlight, RestOfChunk(sent)) : sent' = sent + n
        /\ ppc' = Loop(sent')
        /\ UNCHANGED <<held, readers, writers>>
     \/ readers # {} /\ "io" \in Faults /\ Abandon /\ UNCHANGED sent
     \/ /\ readers = {}
        /\ ppc' = "killed" /\ held' = held \cap {"name"} /\ ParentCloses
        /\ UNCHANGED sent
  /\ UNCHANGED <<args, statusLost, answer, childVars, received, met>>

\* The write end is closed before the child is awaited; only a socket's
\* path is removed by then as well.
CloseEnd ==
  /\ ppc = "close"
  /\ ppc' = "waitpid"
  /\ writers' = writers \ {"parent"}
  /\ held' = IF kind = "socket" THEN held \ {"name"} ELSE held
  /\ UNCHANGED <<args, statusLost, answer, sent, childVars, received, readers, met>>

\* waitpid's result is not looked at.
WaitChild ==
  /\ ppc = "waitpid"
  /\ child = "zombie"
  /\ child' = "reaped"
  /\ ppc' = "finish"
  /\ statusLost' \in {FALSE, "waitpid" \in Faults}
  /\ UNCHANGED <<args, held, answer, sent, cpc, code, received, readers, writers, met>>

FinishIgnoringStatus ==
  /\ ppc = "finish"
  /\ held' = {}
  /\ Return("ok")
  /\ UNCHANGED <<args, statusLost, sent, childVars, received, readers, writers, met>>

Finish ==
  /\ ppc = "finish"
  /\ held' = {}
  /\ Return(IF statusLost \/ code = 0 THEN "ok" ELSE "failed")
  /\ UNCHANGED <<args, statusLost, sent, childVars, received, readers, writers, met>>

AbortWithoutWaiting ==
  /\ ppc = "abort"
  /\ Return("failed")
  /\ UNCHANGED <<args, held, statusLost, sent, childVars, received, readers, writers, met>>

Abort ==
  /\ ppc = "abort"
  /\ child = "zombie"
  /\ child' = "reaped"
  /\ Return("failed")
  /\ UNCHANGED <<args, held, statusLost, sent, cpc, code, received, readers, writers, met>>

-----------------------------------------------------------------------------
(* The reading process.                                                    *)

ChildMay(p) == child = "running" /\ cpc = p
ChildCloses == /\ readers' = readers \ {"child"}
               /\ writers' = writers \ {"child"}
Exit(c) == child' = "zombie" /\ code' = c /\ ChildCloses
Alive == UNCHANGED <<child, code>>
ChildLoop(done) == IF done < call.total THEN "read" ELSE "exit"

\* Exit codes after a failed open or connect, a failed read, an early end.
Codes == [pipe |-> [open |-> {}, read |-> 2, short |-> 3],
          fifo |-> [open |-> {2}, read |-> 3, short |-> 4],
          socket |-> [open |-> {2, 3}, read |-> 4, short |-> 5]]

\* On success a pipe's child closes its write end.  On failure it closes
\* what it inherited, a socket's child even removes the path, and the child
\* returns -1 into the code of its caller.
MallocChildKeepsWriteEnd ==
  /\ ChildMay("malloc")
  /\ cpc' = (IF kind = "pipe" THEN ChildLoop(0) ELSE "open") /\ Alive
  /\ UNCHANGED <<args, parentVars, sent, received, readers, writers, met>>

MallocChild ==
  /\ ChildMay("malloc")
  /\ \/ /\ cpc' = (IF kind = "pipe" THEN ChildLoop(0) ELSE "open") /\ Alive
        /\ writers' = writers \ {"child"}
        /\ UNCHANGED <<held, readers>>
     \/ /\ "malloc" \in Faults
        /\ child' = "escaped" /\ ChildCloses
        /\ held' = IF kind = "socket" THEN held \ {"name"} ELSE held
        /\ UNCHANGED <<cpc, code>>
  /\ UNCHANGED <<args, ppc, statusLost, answer, sent, received, met>>

\* open(O_RDONLY) is entered, or connect() succeeds: a connection waits in
\* the listener's queue even before it is accepted.
Reachable == IF kind = "fifo" THEN {"name"} ELSE {"name", "listener"}

OpenChild ==
  /\ ChildMay("open")
  /\ \/ /\ Reachable \subseteq held
        /\ readers' = {"child"}
        /\ IF kind = "fifo"
           THEN met' = (writers # {}) /\ cpc' = "meet" /\ UNCHANGED writers
           ELSE met' = TRUE /\ cpc' = ChildLoop(0) /\ writers' = {"parent"}
        /\ Alive
     \/ /\ "open" \in Faults \/ ~ (Reachable \subseteq held)
        /\ \E c \in Codes[kind].open : Exit(c)
        /\ UNCHANGED <<cpc, met>>
  /\ UNCHANGED <<args, parentVars, sent, received>>

MeetChild ==
  /\ ChildMay("meet")
  /\ met
  /\ cpc' = ChildLoop(0)
  /\ UNCHANGED <<args, parentVars, sent, child, code, received, readers, writers, met>>

ReadCountsWhatItAsked ==
  /\ ChildMay("read")
  /\ InFlight > 0
  /\ received' = received + Wanted
  /\ cpc' = ChildLoop(received')
  /\ UNCHANGED <<args, parentVars, sent, child, code, readers, writers, met>>

\* One read(): some of what is there, the end of the file, or an error.
Read ==
  /\ ChildMay("read")
  /\ \/ /\ \E n \in 1..Least(InFlight, Wanted) : received' = received + n
        /\ cpc' = ChildLoop(received')
        /\ Alive /\ UNCHANGED <<readers, writers>>
     \/ /\ InFlight = 0 /\ writers = {}
        /\ cpc' = "exit"
        /\ Alive /\ UNCHANGED <<received, readers, writers>>
     \/ "io" \in Faults /\ Exit(Codes[kind].read) /\ UNCHANGED <<cpc, received>>
  /\ UNCHANGED <<args, parentVars, sent, met>>

ExitChild ==
  /\ ChildMay("exit")
  /\ Exit(IF received = call.total THEN 0 ELSE Codes[kind].short)
  /\ UNCHANGED <<args, parentVars, sent, cpc, received, met>>

EscapedExits ==
  /\ child = "escaped"
  /\ Exit(CallerCode)
  /\ UNCHANGED <<args, parentVars, sent, cpc, received, met>>

-----------------------------------------------------------------------------
KillConsumer ==
  /\ "kill_consumer" \in Faults
  /\ child = "running"
  /\ Exit(KilledCode)
  /\ UNCHANGED <<args, parentVars, sent, cpc, received, met>>

KillProducer ==
  /\ "kill_producer" \in Faults
  /\ ppc \notin {"returned", "killed"}
  /\ ppc' = "killed" /\ held' = held \cap {"name"} /\ ParentCloses
  /\ UNCHANGED <<args, statusLost, answer, sent, childVars, received, met>>

Parent == \/ Create \/ Listen \/ Fork \/ MallocParent \/ OpenFifo \/ Meet
          \/ Write \/ CloseEnd \/ WaitChild \/ Finish \/ Abort

Child == MallocChild \/ OpenChild \/ MeetChild \/ Read \/ ExitChild \/ EscapedExits

Next == Parent \/ Child \/ KillConsumer \/ KillProducer

Spec == Init /\ [][Next]_vars

\* The kernel runs both processes; no call has to fail by itself, so that
\* one that is never answered may wait for ever.
FairSpec == /\ Spec
            /\ WF_vars(Parent /\ ppc' # "abort")
            /\ WF_vars(Child /\ (cpc = "read" => child' = child))

-----------------------------------------------------------------------------
(* What has to hold.                                                       *)

\* Types of all variables.
TypeOK ==
  /\ kind \in Kinds /\ call \in [total : Totals, chunk : Chunks]
  /\ ppc \in {"create", "listen", "fork", "malloc", "open", "meet", "write", "close",
              "waitpid", "finish", "abort", "returned", "killed"}
  /\ held \subseteq {"name", "listener", "buffer"}
  /\ statusLost \in BOOLEAN
  /\ answer \in {"pending", "ok", "failed"}
  /\ sent \in Nat /\ received \in Nat /\ InFlight \in 0..Capacity
  /\ cpc \in {"malloc", "open", "meet", "read", "exit"}
  /\ child \in {"none", "running", "zombie", "reaped", "escaped"}
  /\ code \in {0, 2, 3, 4, 5, KilledCode, NoCode}
  /\ readers \subseteq {"parent", "child"} /\ writers \subseteq {"parent", "child"}
  /\ met \in BOOLEAN

\* Well-typed; and a call that returns leaves no path, listener, buffer or descriptor, and
\* no child except the one that a failed malloc lets run on
\* (pipe_ipc.c:43-49, fifo_ipc.c:66-71, socket_ipc.c:89-95).
LeavesOnlyAnOrphan ==
  /\ TypeOK
  /\ ppc = "returned" => /\ held = {}
                         /\ "parent" \notin readers \cup writers
                         /\ child \in {"none", "reaped"} \/ sent = 0

\* Both processes come to an end, except that the first to arrive at the
\* meeting point (open of the FIFO, accept) waits for ever when the other
\* one never comes (fifo_ipc.c:77-84 and 109-118, socket_ipc.c:143-153).
ParentUnanswered == ppc = "meet" /\ ~ met /\ child = "zombie"
ChildUnanswered == ChildMay("meet") /\ ~ met /\ ppc \in {"returned", "abort", "killed"}
EndsUnlessUnanswered ==
  <>[](\/ ppc \in {"returned", "killed"} /\ child \in {"none", "zombie", "reaped"}
       \/ ParentUnanswered \/ ChildUnanswered)

\* A stream is a transfer whose window is what the kernel buffers: "ok" means
\* that every byte was written and read, unless the child's status was lost,
\* which the unchecked waitpid takes for success (pipe_ipc.c:99-109,
\* fifo_ipc.c:140-151, socket_ipc.c:179-188).
T == INSTANCE Transfer WITH
       goal <- call.total, window <- Capacity,
       answer <- IF answer = "ok" /\ statusLost THEN "failed" ELSE answer
IsTransfer == T!Spec
=============================================================================
