---------------------------- MODULE VerifyStream ----------------------------
(***************************************************************************)
(* The `verify` command over a byte stream: verify_pipe, verify_fifo and   *)
(* verify_socket.  Unlike the benchmarks of StreamIpc, the child does not  *)
(* know how much will come: the end of the file ends the stream.  It       *)
(* reports what it counted through a second pipe, and the parent compares. *)
(*                                                                         *)
(* The kernel keeps the order of a stream, so that counters stand for its  *)
(* bytes; `bad` is the position of a byte that the surroundings changed    *)
(* under way.  A checksum is the number of bytes that went into it and     *)
(* whether one of them was changed (FNV-1a with no collision).  SIGPIPE is *)
(* nowhere ignored: writing what nobody can read any more kills.           *)
(***************************************************************************)
EXTENDS Integers

CONSTANTS Kinds,        \* the streams that are tried
          Capacity,     \* bytes the kernel buffers for a stream
          Payloads,     \* the values of payload_bytes that are tried
          Chunks,       \* the values of chunk_bytes that are tried
          Faults        \* what may go wrong, a subset of FaultKinds

FaultKinds == {"setup", "malloc", "open", "io", "waitpid", "kill_consumer", "kill_producer",
               "corrupt"}

ASSUME KindAssumption == Kinds \subseteq {"pipe", "fifo", "socket"}
ASSUME CapacityAssumption == Capacity \in Nat \ {0}
\* run_integrity_verification refuses 0 for both.
ASSUME CallAssumption == Payloads \subseteq Nat \ {0} /\ Chunks \subseteq Nat \ {0}
ASSUME FaultAssumption == Faults \subseteq FaultKinds

VARIABLES
  kind, call,   \* the method, and its payload and chunk
  ppc,          \* where the parent, the sender, is
  held,         \* what it has to give back: name, listener, report
  sendOk,       \* send_rc = 0
  reported,     \* what it has read from the report pipe
  answer,       \* "pass" or "fail", or "error" when the transfer failed
  sent,         \* bytes written into the stream
  cpc,          \* where the child, the receiver, is
  child, code,  \* its life and exit code
  success,      \* rc = 0
  received,     \* bytes it has read from the stream
  report,       \* what is in the report pipe
  readers,      \* the processes with the read end of the stream open
  writers,      \* the processes with the write end open
  met,          \* fifo: both opens were under way at once; socket: connected
  bad           \* position of a changed byte

args == <<kind, call>>
parentVars == <<ppc, held, sendOk, reported, answer>>
childVars == <<cpc, child, code, success, report>>
stream == <<sent, received, bad>>
ends == <<readers, writers, met>>
vars == <<args, parentVars, childVars, stream, ends>>

NoReport == [bytes |-> 0, altered |-> FALSE, success |-> FALSE, arrived |-> FALSE]
NoCode == -1
KilledCode == 15
NoByte == -1

Init ==
  /\ kind \in Kinds /\ call \in [payload : Payloads, chunk : Chunks]
  /\ ppc = "create" /\ held = {} /\ sendOk = TRUE
  /\ reported = NoReport /\ answer = "pending"
  /\ cpc = "malloc" /\ child = "none" /\ code = NoCode /\ success = TRUE /\ report = NoReport
  /\ sent = 0 /\ received = 0 /\ bad = NoByte
  /\ readers = {} /\ writers = {} /\ met = FALSE

InFlight == sent - received
Least(a, b) == IF a < b THEN a ELSE b

-----------------------------------------------------------------------------
(* Setting up.                                                             *)

Return(a) == ppc' = "returned" /\ answer' = a
ParentCloses == /\ readers' = readers \ {"parent"}
                /\ writers' = writers \ {"parent"}
GiveUp == "setup" \in Faults /\ held' = {} /\ ParentCloses /\ Return("error")

\* pipe(); mkfifo(); socket() and bind(), after a leftover of the same name
\* has been removed.
Create ==
  /\ ppc = "create"
  /\ \/ /\ held' = CASE kind = "pipe" -> {} [] kind = "fifo" -> {"name"}
                     [] kind = "socket" -> {"name", "listener"}
        /\ ppc' = IF kind = "socket" THEN "listen" ELSE "report_pipe"
        /\ readers' = IF kind = "pipe" THEN {"parent"} ELSE {}
        /\ writers' = readers'
        /\ UNCHANGED answer
     \/ GiveUp
  /\ UNCHANGED <<args, sendOk, reported, childVars, stream, met>>

Listen ==
  /\ ppc = "listen"
  /\ \/ ppc' = "report_pipe" /\ UNCHANGED <<held, answer, readers, writers>>
     \/ GiveUp
  /\ UNCHANGED <<args, sendOk, reported, childVars, stream, met>>

ReportPipe ==
  /\ ppc = "report_pipe"
  /\ \/ ppc' = "fork" /\ held' = held \cup {"report"} /\ UNCHANGED <<answer, readers, writers>>
     \/ GiveUp
  /\ UNCHANGED <<args, sendOk, reported, childVars, stream, met>>

\* Both processes have both ends of a pipe until each has closed the one it
\* does not use.
Fork ==
  /\ ppc = "fork"
  /\ \/ /\ child' = "running"
        /\ cpc' = IF kind = "pipe" THEN "malloc" ELSE "open"
        /\ ppc' = CASE kind = "pipe" -> "malloc" [] kind = "fifo" -> "open"
                    [] kind = "socket" -> "meet"
        /\ readers' = IF kind = "pipe" THEN {"parent", "child"} ELSE {}
        /\ writers' = readers'
        /\ UNCHANGED <<held, answer>>
     \/ GiveUp /\ UNCHANGED <<cpc, child>>
  /\ UNCHANGED <<args, sendOk, reported, code, success, report, stream, met>>

-----------------------------------------------------------------------------
(* The parent.                                                             *)

\* Its open or accept failed: the listener and the report pipe are closed,
\* then the child is awaited, and only then is the path removed.
Abandon == ppc' = "abort" /\ held' = held \ {"listener", "report"} /\ ParentCloses

\* open(O_WRONLY) is entered: it waits for a reader.
OpenFifo ==
  /\ ppc = "open"
  /\ \/ /\ ppc' = "meet"
        /\ writers' = {"parent"}
        /\ met' = (readers # {})
        /\ UNCHANGED <<held, readers>>
     \/ "open" \in Faults /\ Abandon /\ UNCHANGED met
  /\ UNCHANGED <<args, sendOk, reported, answer, childVars, stream>>

\* open(O_WRONLY) or accept() returns; a server closes its listener.
Meet ==
  /\ ppc = "meet"
  /\ \/ met /\ ppc' = "malloc" /\ held' = held \ {"listener"} /\ UNCHANGED <<readers, writers>>
     \/ "open" \in Faults /\ Abandon
  /\ UNCHANGED <<args, sendOk, reported, answer, childVars, stream, met>>

SendFails == ppc' = "close" /\ sendOk' = FALSE

\* send_stream begins; a pipe's parent has closed its read end before.
MallocParent ==
  /\ ppc = "malloc"
  /\ readers' = readers \ {"parent"}
  /\ \/ ppc' = "write" /\ UNCHANGED sendOk
     \/ "malloc" \in Faults /\ SendFails
  /\ UNCHANGED <<args, held, reported, answer, childVars, stream, writers, met>>

\* One write() of write_all within a chunk: as many bytes as the kernel has
\* room for, or an error, or SIGPIPE when the receiver is gone.
RestOfChunk == Least(call.payload - sent, call.chunk - (sent % call.chunk))

Write ==
  /\ ppc = "write"
  /\ \/ /\ readers # {}
        /\ \E n \in 1..Least(Capacity - InFlight, RestOfChunk) : sent' = sent + n
        /\ ppc' = IF sent' < call.payload THEN "write" ELSE "close"
        /\ UNCHANGED <<held, sendOk, readers, writers>>
     \/ /\ readers # {} /\ "io" \in Faults
        /\ SendFails
        /\ UNCHANGED <<held, sent, readers, writers>>
     \/ /\ readers = {}
        /\ ppc' = "killed" /\ held' = held \cap {"name"} /\ ParentCloses
        /\ UNCHANGED <<sent, sendOk>>
  /\ UNCHANGED <<args, reported, answer, childVars, received, bad, met>>

\* Closing the write end is what tells the child that this was all.
CloseEndTooLate ==
  /\ ppc = "close"
  /\ ppc' = "report"
  /\ UNCHANGED <<args, held, sendOk, reported, answer, childVars, stream, ends>>

CloseEnd ==
  /\ ppc = "close"
  /\ ppc' = "report"
  /\ writers' = writers \ {"parent"}
  /\ UNCHANGED <<args, held, sendOk, reported, answer, childVars, stream, readers, met>>

UnlinkBeforeReaping ==
  /\ ppc = "report"
  /\ report.arrived \/ child = "zombie"
  /\ ppc' = "reap"
  /\ held' = {}
  /\ reported' = report
  /\ UNCHANGED <<args, sendOk, answer, childVars, stream, ends>>

\* read_all on the report pipe: the report, or the end of the file once the
\* child is gone without one.
ReadReport ==
  /\ ppc = "report"
  /\ report.arrived \/ child = "zombie"
  /\ ppc' = "reap"
  /\ held' = held \ {"report"}
  /\ \/ reported' = report
     \/ "io" \in Faults /\ reported' = NoReport
  /\ UNCHANGED <<args, sendOk, answer, childVars, stream, ends>>

\* The sender's checksum is of sent bytes as they were meant to be.
Passed == /\ sent = call.payload
          /\ reported.bytes = call.payload
          /\ ~ reported.altered

VerdictIgnoringChild ==
  /\ ppc = "reap"
  /\ child = "zombie"
  /\ child' = "reaped"
  /\ held' = {}
  /\ IF sendOk THEN Return(IF Passed THEN "pass" ELSE "fail") ELSE Return("error")
  /\ UNCHANGED <<args, sendOk, reported, cpc, code, success, report, stream, ends>>

\* wait_child_success; only then does the path go; and the verdict.
Verdict ==
  /\ ppc = "reap"
  /\ child = "zombie"
  /\ child' = "reaped"
  /\ held' = {}
  /\ LET good == sendOk /\ reported.arrived /\ reported.success /\ code = 0
     IN \/ good /\ Return(IF Passed THEN "pass" ELSE "fail")
        \/ (~ good \/ "waitpid" \in Faults) /\ Return("error")
  /\ UNCHANGED <<args, sendOk, reported, cpc, code, success, report, stream, ends>>

Abort ==
  /\ ppc = "abort"
  /\ child = "zombie"
  /\ child' = "reaped"
  /\ held' = {}
  /\ Return("error")
  /\ UNCHANGED <<args, sendOk, reported, cpc, code, success, report, stream, ends>>

-----------------------------------------------------------------------------
(* The child.                                                              *)

ChildMay(p) == child = "running" /\ cpc = p
ChildCloses == /\ readers' = readers \ {"child"}
               /\ writers' = writers \ {"child"}
Exit(c) == child' = "zombie" /\ code' = c
Alive == UNCHANGED <<child, code>>

\* Closing the stream precedes the report, whatever became of it.
ChildEnds(ok) == cpc' = "report" /\ success' = ok /\ ChildCloses

\* open(O_RDONLY) is entered, or connect() succeeds: a connection waits in
\* the listener's queue even before it is accepted.
Reachable == IF kind = "fifo" THEN {"name"} ELSE {"name", "listener"}

OpenChild ==
  /\ ChildMay("open")
  /\ \/ /\ Reachable \subseteq held
        /\ readers' = {"child"}
        /\ IF kind = "fifo"
           THEN met' = (writers # {}) /\ cpc' = "meet" /\ UNCHANGED writers
           ELSE met' = TRUE /\ cpc' = "malloc" /\ writers' = {"parent"}
        /\ UNCHANGED success
     \/ /\ "open" \in Faults \/ ~ (Reachable \subseteq held)
        /\ ChildEnds(FALSE)
        /\ UNCHANGED met
  /\ UNCHANGED <<args, parentVars, child, code, report, stream>>

MeetChild ==
  /\ ChildMay("meet")
  /\ met
  /\ cpc' = "malloc"
  /\ UNCHANGED <<args, parentVars, child, code, success, report, stream, ends>>

\* receive_stream begins; a pipe's child has closed its write end before.
MallocChild ==
  /\ ChildMay("malloc")
  /\ \/ /\ cpc' = "read"
        /\ writers' = writers \ {"child"}
        /\ UNCHANGED <<success, readers>>
     \/ "malloc" \in Faults /\ ChildEnds(FALSE)
  /\ UNCHANGED <<args, parentVars, child, code, report, stream, met>>

ReadCountsWhatItAsked ==
  /\ ChildMay("read")
  /\ InFlight > 0
  /\ received' = received + call.chunk
  /\ UNCHANGED <<args, parentVars, childVars, sent, bad, ends>>

\* One read(): some of what is there, the end of the file, or an error.
Read ==
  /\ ChildMay("read")
  /\ \/ /\ \E n \in 1..Least(InFlight, call.chunk) : received' = received + n
        /\ UNCHANGED <<cpc, success, readers, writers>>
     \/ /\ InFlight = 0 /\ writers = {}
        /\ ChildEnds(TRUE)
        /\ UNCHANGED received
     \/ /\ "io" \in Faults
        /\ ChildEnds(FALSE)
        /\ UNCHANGED received
  /\ UNCHANGED <<args, parentVars, child, code, report, sent, bad, met>>

Findings ==
  IF success
  THEN [bytes |-> received, altered |-> bad \in 0..(received - 1), success |-> TRUE, arrived |-> TRUE]
  ELSE [NoReport EXCEPT !.arrived = TRUE]

\* Nobody reads the report of a child whose parent has given up or is dead.
\* When writing it fails, only a pipe's child makes that its exit code.
Report ==
  /\ ChildMay("report")
  /\ IF "report" \notin held
     THEN Exit(KilledCode) /\ UNCHANGED <<cpc, report, success>>
     ELSE /\ cpc' = "exit"
          /\ Alive
          /\ \/ report' = Findings /\ UNCHANGED success
             \/ "io" \in Faults /\ success' = (success /\ kind # "pipe") /\ UNCHANGED report
  /\ UNCHANGED <<args, parentVars, stream, ends>>

ExitChild ==
  /\ ChildMay("exit")
  /\ Exit(IF success THEN 0 ELSE 1)
  /\ UNCHANGED <<args, parentVars, cpc, success, report, stream, ends>>

-----------------------------------------------------------------------------
(* The surroundings.                                                       *)

\* What the command exists to notice: a byte under way is changed.
Corrupt ==
  /\ "corrupt" \in Faults /\ bad = NoByte
  /\ bad' \in received..(sent - 1)
  /\ UNCHANGED <<args, parentVars, childVars, sent, received, ends>>

KillConsumer ==
  /\ "kill_consumer" \in Faults
  /\ child = "running"
  /\ Exit(KilledCode) /\ ChildCloses
  /\ UNCHANGED <<args, parentVars, cpc, success, report, stream, met>>

\* What is open goes with the process, the path does not.
KillProducer ==
  /\ "kill_producer" \in Faults
  /\ ppc \notin {"returned", "killed"}
  /\ ppc' = "killed" /\ held' = held \cap {"name"} /\ ParentCloses
  /\ UNCHANGED <<args, sendOk, reported, answer, childVars, stream, met>>

Parent == \/ Create \/ Listen \/ ReportPipe \/ Fork \/ OpenFifo \/ Meet \/ MallocParent
          \/ Write \/ CloseEnd \/ ReadReport \/ Verdict \/ Abort

Child == OpenChild \/ MeetChild \/ MallocChild \/ Read \/ Report \/ ExitChild

Next == Parent \/ Child \/ Corrupt \/ KillConsumer \/ KillProducer

Spec == Init /\ [][Next]_vars

\* The kernel runs both processes.  No blocking call has to fail by itself,
\* so that one that is never answered may wait for ever.
FairSpec == /\ Spec
            /\ WF_vars(Parent /\ ppc' # "abort" /\ (ppc = "write" => sendOk'))
            /\ WF_vars(Child /\ (cpc = "read" => success'))

-----------------------------------------------------------------------------
(* What has to hold.                                                       *)

\* Types of all variables.
TypeOK ==
  /\ kind \in Kinds /\ call \in [payload : Payloads, chunk : Chunks]
  /\ ppc \in {"create", "listen", "report_pipe", "fork", "open", "meet", "malloc", "write",
              "close", "report", "reap", "abort", "returned", "killed"}
  /\ held \subseteq {"name", "listener", "report"}
  /\ sendOk \in BOOLEAN /\ success \in BOOLEAN /\ met \in BOOLEAN
  /\ {report, reported} \subseteq
       [bytes : 0..call.payload, altered : BOOLEAN, success : BOOLEAN, arrived : BOOLEAN]
  /\ answer \in {"pending", "pass", "fail", "error"}
  /\ sent \in 0..call.payload /\ received \in 0..sent /\ InFlight =< Capacity
  /\ bad \in {NoByte} \cup 0..(sent - 1)
  /\ cpc \in {"open", "meet", "malloc", "read", "report", "exit"}
  /\ child \in {"none", "running", "zombie", "reaped"} /\ code \in {0, 1, KilledCode, NoCode}
  /\ readers \subseteq {"parent", "child"} /\ writers \subseteq {"parent", "child"}

\* Well-typed; and a PASS vouches for the whole payload, unchanged, and for a child that
\* ended well; a FAIL is never the protocol's own doing: a stream cut short
\* on either side is an error (integrity_verifier.c:447-474, 597-616,
\* 2287-2314).
VerdictIsTrue ==
  /\ TypeOK
  /\ answer = "pass" => /\ sent = call.payload /\ received = call.payload
                        /\ bad = NoByte
                        /\ child = "reaped" /\ code = 0
  /\ answer = "fail" => bad # NoByte

\* The path is there as long as a child may want to open it, and gone, with
\* everything else, when the call returns (integrity_verifier.c:744-750,
\* 775-783, 1012-1018, 1050-1052).
PathOutlivesChild ==
  /\ child = "running" /\ kind # "pipe" => "name" \in held
  /\ ppc = "returned" => /\ held = {}
                         /\ "parent" \notin readers \cup writers
                         /\ child \in {"none", "reaped"}

\* Both processes come to an end, except that the first to arrive at the
\* meeting point waits for ever when the other one never comes: a child
\* that could not connect reports to a parent that is still in accept or
\* open (integrity_verifier.c:688-701, 734-738, 948-967, 999-1004).
ParentUnanswered == ppc = "meet" /\ ~ met /\ child = "zombie"
ChildUnanswered == ChildMay("meet") /\ ~ met /\ ppc \in {"abort", "killed"}
EndsUnlessUnanswered ==
  <>[](\/ ppc \in {"returned", "killed"} /\ child \in {"none", "zombie", "reaped"}
       \/ ParentUnanswered \/ ChildUnanswered)
=============================================================================
