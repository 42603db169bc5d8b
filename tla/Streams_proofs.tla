---------------------------- MODULE Streams_proofs ---------------------------
(***************************************************************************)
(* Proofs about the streams, for every kind, capacity, payload or total    *)
(* and chunk, and under every fault: VerifyStream, the verifier over them, *)
(* and StreamIpc, the benchmarks.                                          *)
(*                                                                         *)
(* The argument about a verdict is about who has the write end: the child  *)
(* finds the end of the file only once the parent is past its last write,  *)
(* so that what it reports of a stream that ended is what was sent.  A     *)
(* benchmark's child knows the total instead, and an exit code of 0 says   *)
(* that it has read that much.                                             *)
(***************************************************************************)
EXTENDS VerifyStream, TLAPS

-----------------------------------------------------------------------------
(* The invariant of a verification.                                        *)

BeforeFork == {"create", "listen", "report_pipe", "fork"}
WithChild == {"open", "meet", "malloc", "write", "close", "report", "reap", "abort"}
Past == {"report", "reap", "abort", "returned", "killed"}

\* The types, of where everything is and of the stream with what is known of it.
PlaceTypes ==
  /\ kind \in {"pipe", "fifo", "socket"} /\ kind \in Kinds
  /\ ppc \in BeforeFork \cup WithChild \cup {"returned", "killed"}
  /\ held \subseteq {"name", "listener", "report"}
  /\ answer \in {"pending", "pass", "fail", "error"}
  /\ cpc \in {"open", "meet", "malloc", "read", "report", "exit"}
  /\ child \in {"none", "running", "zombie", "reaped"} /\ code \in {0, 1, KilledCode, NoCode}
  /\ readers \subseteq {"parent", "child"} /\ writers \subseteq {"parent", "child"}

FlagTypes == sendOk \in BOOLEAN /\ success \in BOOLEAN /\ met \in BOOLEAN

DataTypes ==
  /\ call \in [payload : Payloads, chunk : Chunks]
  /\ sent \in 0..call.payload /\ received \in 0..sent /\ sent - received =< Capacity
  /\ bad \in {NoByte} \cup 0..(sent - 1)

\* Which states of parent and child go together.
LifeInv ==
  /\ ppc \in BeforeFork => child = "none"
  /\ ppc \in WithChild => child \in {"running", "zombie"}
  /\ ppc = "returned" => child \in {"none", "reaped"}
  /\ child = "none" => cpc = "malloc"

\* The two have met before either uses the stream, but over a pipe, which
\* needs no meeting.
MeetingInv ==
  /\ kind = "pipe" => ppc \notin {"listen", "open", "meet"}
  /\ met => ppc \notin BeforeFork \cup {"open"}
  /\ cpc \in {"malloc", "read"} /\ child # "none" => kind = "pipe" \/ met

\* From the meeting on to its last write the parent has the write end, and
\* never after that.
EndsInv ==
  /\ ppc \in {"malloc", "write", "close"} \/ (ppc = "meet" /\ met) => "parent" \in writers
  /\ "parent" \in writers => ppc \in {"report_pipe", "fork", "meet", "malloc", "write", "close"}
  /\ "parent" \in readers => ppc \in {"report_pipe", "fork", "malloc"}
  /\ "child" \in writers => kind = "pipe"

\* The path is kept for the child; whoever returns keeps nothing.
HeldInv ==
  /\ "listener" \in held => kind = "socket" /\ ppc \in {"listen", "report_pipe", "fork", "meet"}
  /\ kind # "pipe" /\ ppc \notin {"create", "returned", "killed"} => "name" \in held
  /\ child = "running" /\ kind # "pipe" => "name" \in held
  /\ ppc = "returned" => held = {}

\* A sender that is content has sent everything, and a child that is content
\* at its end has read all that will ever be sent.
DataInv ==
  /\ sendOk /\ ppc \in {"close", "report", "reap"} => sent = call.payload
  /\ cpc \in {"report", "exit"} /\ success => received = sent /\ ppc \in Past

Found == [bytes |-> received, altered |-> bad \in 0..(received - 1),
          success |-> TRUE, arrived |-> TRUE]
Failure == [NoReport EXCEPT !.arrived = TRUE]

\* The report is still what the child knows, and the parent has it or nothing.
FindingsInv ==
  /\ cpc # "exit" => report = NoReport
  /\ report \in {NoReport, Failure, Found}
  /\ report.success => success
  /\ reported \in {NoReport, report}

\* What was answered stays true, since both processes have ended.
AnswerInv ==
  /\ answer # "pending" => ppc = "returned"
  /\ answer \in {"pass", "fail"} => /\ child = "reaped" /\ code = 0
                                    /\ cpc = "exit" /\ success
                                    /\ sent = call.payload
                                    /\ answer = "pass" <=> bad = NoByte

IInv ==
  /\ PlaceTypes /\ FlagTypes /\ DataTypes
  /\ LifeInv /\ MeetingInv /\ EndsInv /\ HeldInv
  /\ DataInv /\ FindingsInv /\ AnswerInv

USE DEF args, parentVars, childVars, stream, ends, Return, ParentCloses, ChildCloses, GiveUp,
        Abandon, SendFails, ChildMay, ChildEnds, Exit, Alive, NoCode, KilledCode, NoByte,
        BeforeFork, WithChild, Past

-----------------------------------------------------------------------------
(* Facts used by several actions.                                          *)

\* The sizes of a call are positive.
LEMMA CallTypes == ASSUME DataTypes PROVE call.payload \in Nat \ {0} /\ call.chunk \in Nat \ {0}
BY CallAssumption DEF DataTypes

\* What one write() puts into the stream fits into the payload and the kernel.
LEMMA WriteFits ==
  ASSUME DataTypes, NEW n \in 1..Least(Capacity - InFlight, RestOfChunk)
  PROVE  /\ n \in Nat \ {0} /\ sent + n \in 0..call.payload
         /\ sent + n - received =< Capacity /\ received \in 0..(sent + n)
<1>1. /\ call.payload \in Nat /\ call.chunk \in Nat \ {0} /\ Capacity \in Nat
      /\ sent \in 0..call.payload /\ received \in 0..sent
  BY CallTypes, CapacityAssumption DEF DataTypes
<1>2. call.chunk - (sent % call.chunk) \in Int
  BY <1>1
<1>3. n =< Capacity - (sent - received) /\ n =< call.payload - sent /\ n \in Nat \ {0}
  BY <1>1, <1>2 DEF Least, RestOfChunk, InFlight
<1> QED
  BY <1>1, <1>3

\* What one read() takes out was there.
LEMMA ReadFits ==
  ASSUME DataTypes, NEW n \in 1..Least(InFlight, call.chunk)
  PROVE  received + n \in 0..sent /\ n > 0
<1>1. call.chunk \in Nat \ {0} /\ sent \in Nat /\ received \in 0..sent
  BY CallTypes DEF DataTypes
<1> QED
  BY <1>1 DEF Least, InFlight

LEMMA CreateInv == ASSUME IInv, Create PROVE IInv'
<1>1. PlaceTypes'
  BY DEF IInv, Create, PlaceTypes
<1>2. FlagTypes' /\ DataTypes'
  BY DEF IInv, Create, FlagTypes, PlaceTypes, DataTypes
<1>3. /\ LifeInv' /\ MeetingInv' /\ EndsInv' /\ HeldInv'
      /\ DataInv' /\ FindingsInv' /\ AnswerInv'
  BY DEF IInv, Create, LifeInv, PlaceTypes, MeetingInv, EndsInv, HeldInv, DataInv,
     FindingsInv, Found, Failure, NoReport, AnswerInv
<1> QED
  BY <1>1, <1>2, <1>3 DEF IInv

LEMMA ListenInv == ASSUME IInv, Listen PROVE IInv'
<1>1. PlaceTypes'
  BY DEF IInv, Listen, PlaceTypes
<1>2. FlagTypes' /\ DataTypes'
  BY DEF IInv, Listen, FlagTypes, DataTypes
<1>3. /\ LifeInv' /\ MeetingInv' /\ EndsInv' /\ HeldInv'
      /\ DataInv' /\ FindingsInv' /\ AnswerInv'
  BY DEF IInv, Listen, LifeInv, PlaceTypes, MeetingInv, EndsInv, HeldInv, DataInv,
     FindingsInv, Found, Failure, NoReport, AnswerInv
<1> QED
  BY <1>1, <1>2, <1>3 DEF IInv

LEMMA ReportPipeInv == ASSUME IInv, ReportPipe PROVE IInv'
<1>1. PlaceTypes'
  BY DEF IInv, ReportPipe, PlaceTypes
<1>2. FlagTypes' /\ DataTypes'
  BY DEF IInv, ReportPipe, FlagTypes, DataTypes
<1>3. /\ LifeInv' /\ MeetingInv' /\ EndsInv' /\ HeldInv'
      /\ DataInv' /\ FindingsInv' /\ AnswerInv'
  BY DEF IInv, ReportPipe, LifeInv, PlaceTypes, MeetingInv, EndsInv, HeldInv, DataInv,
     FindingsInv, Found, Failure, NoReport, AnswerInv
<1> QED
  BY <1>1, <1>2, <1>3 DEF IInv

LEMMA ForkInv == ASSUME IInv, Fork PROVE IInv'
<1>1. PlaceTypes'
  BY DEF IInv, Fork, PlaceTypes
<1>2. FlagTypes' /\ DataTypes'
  BY DEF IInv, Fork, FlagTypes, PlaceTypes, DataTypes
<1>3. /\ LifeInv' /\ MeetingInv' /\ EndsInv' /\ HeldInv'
      /\ DataInv' /\ FindingsInv' /\ AnswerInv'
  BY DEF IInv, Fork, LifeInv, PlaceTypes, MeetingInv, EndsInv, HeldInv, DataInv,
     FindingsInv, DataTypes, Found, Failure, NoReport, AnswerInv
<1> QED
  BY <1>1, <1>2, <1>3 DEF IInv

LEMMA OpenFifoInv == ASSUME IInv, OpenFifo PROVE IInv'
<1>1. PlaceTypes'
  BY DEF IInv, OpenFifo, PlaceTypes
<1>2. FlagTypes' /\ DataTypes'
  BY DEF IInv, OpenFifo, FlagTypes, DataTypes
<1>3. /\ LifeInv' /\ MeetingInv' /\ EndsInv' /\ HeldInv'
      /\ DataInv' /\ FindingsInv' /\ AnswerInv'
  BY DEF IInv, OpenFifo, LifeInv, PlaceTypes, MeetingInv, EndsInv, HeldInv, DataInv,
     FindingsInv, Found, Failure, NoReport, AnswerInv
<1> QED
  BY <1>1, <1>2, <1>3 DEF IInv

LEMMA MeetInv == ASSUME IInv, Meet PROVE IInv'
<1>1. PlaceTypes'
  BY DEF IInv, Meet, PlaceTypes
<1>2. FlagTypes' /\ DataTypes'
  BY DEF IInv, Meet, FlagTypes, DataTypes
<1>3. /\ LifeInv' /\ MeetingInv' /\ EndsInv' /\ HeldInv'
      /\ DataInv' /\ FindingsInv' /\ AnswerInv'
  BY DEF IInv, Meet, LifeInv, PlaceTypes, MeetingInv, EndsInv, HeldInv, DataInv,
     FindingsInv, Found, Failure, NoReport, AnswerInv
<1> QED
  BY <1>1, <1>2, <1>3 DEF IInv

LEMMA MallocParentInv == ASSUME IInv, MallocParent PROVE IInv'
<1>1. PlaceTypes'
  BY DEF IInv, MallocParent, PlaceTypes
<1>2. FlagTypes' /\ DataTypes'
  BY DEF IInv, MallocParent, FlagTypes, DataTypes
<1>3. /\ LifeInv' /\ MeetingInv' /\ EndsInv' /\ HeldInv'
      /\ DataInv' /\ FindingsInv' /\ AnswerInv'
  BY DEF IInv, MallocParent, LifeInv, PlaceTypes, MeetingInv, EndsInv, HeldInv, DataInv,
     FindingsInv, Found, Failure, NoReport, AnswerInv
<1> QED
  BY <1>1, <1>2, <1>3 DEF IInv

LEMMA WriteInv == ASSUME IInv, Write PROVE IInv'
<1>1. PlaceTypes'
  BY DEF IInv, Write, PlaceTypes
<1>2. FlagTypes'
  BY DEF IInv, Write, FlagTypes
<1>3. DataTypes'
  <2>1. CASE sent' = sent
    BY <2>1 DEF IInv, Write, DataTypes
  <2>2. CASE sent' # sent
    <3>1. PICK n \in 1..Least(Capacity - InFlight, RestOfChunk) : sent' = sent + n
      BY <2>2 DEF Write
    <3>2. /\ n \in Nat \ {0} /\ sent + n \in 0..call.payload
          /\ sent + n - received =< Capacity /\ received \in 0..(sent + n)
      BY WriteFits DEF IInv
    <3>3. UNCHANGED <<call, received, bad>> /\ sent \in Nat
      BY DEF Write, IInv, DataTypes
    <3>4. bad \in {NoByte} \cup 0..(sent + n - 1)
      BY <3>2, <3>3 DEF IInv, DataTypes
    <3> QED
      BY <3>1, <3>2, <3>3, <3>4 DEF IInv, DataTypes
  <2> QED
    BY <2>1, <2>2
<1>4. LifeInv' /\ MeetingInv' /\ EndsInv' /\ HeldInv'
  BY DEF IInv, Write, LifeInv, PlaceTypes, MeetingInv, EndsInv, HeldInv
<1>5. DataInv'
  <2>1. ppc = "write" /\ UNCHANGED <<call, cpc, success, received>>
    BY DEF Write
  <2>2. ~ (cpc \in {"report", "exit"} /\ success)
    BY <2>1 DEF IInv, DataInv
  <2>3. CASE sent' # sent
    <3>1. /\ ppc' = (IF sent' < call.payload THEN "write" ELSE "close")
          /\ \E n \in 1..Least(Capacity - InFlight, RestOfChunk) : sent' = sent + n
      BY <2>3 DEF Write
    <3>2. sent' \in 0..call.payload /\ call.payload \in Nat
      BY <3>1, WriteFits, CallTypes DEF IInv
    <3> QED
      BY <2>1, <2>2, <3>1, <3>2 DEF DataInv
  <2>4. CASE sent' = sent
    <3>1. ~ sendOk' \/ ppc' = "killed" \/ ppc' \in {"write", "close"}
      BY DEF Write
    <3>2. sendOk' /\ ppc' = "close" => sent' = call.payload
      <4>1. SUFFICES ASSUME sendOk', ppc' = "close" PROVE FALSE
        OBVIOUS
      <4>2. PICK n \in 1..Least(Capacity - InFlight, RestOfChunk) : sent' = sent + n
        BY <4>1 DEF Write
      <4>3. n \in Nat \ {0} /\ sent \in Int
        BY WriteFits DEF IInv, DataTypes
      <4> QED
        BY <2>4, <4>2, <4>3
    <3> QED
      BY <2>1, <2>2, <3>1, <3>2 DEF DataInv
  <2> QED
    BY <2>3, <2>4
<1>6. FindingsInv' /\ AnswerInv'
  BY DEF IInv, Write, FindingsInv, Found, Failure, NoReport, AnswerInv
<1> QED
  BY <1>1, <1>2, <1>3, <1>4, <1>5, <1>6 DEF IInv

LEMMA CloseEndInv == ASSUME IInv, CloseEnd PROVE IInv'
<1>1. PlaceTypes'
  BY DEF IInv, CloseEnd, PlaceTypes
<1>2. FlagTypes' /\ DataTypes'
  BY DEF IInv, CloseEnd, FlagTypes, DataTypes
<1>3. /\ LifeInv' /\ MeetingInv' /\ EndsInv' /\ HeldInv'
      /\ DataInv' /\ FindingsInv' /\ AnswerInv'
  BY DEF IInv, CloseEnd, LifeInv, PlaceTypes, MeetingInv, EndsInv, HeldInv, DataInv,
     FindingsInv, Found, Failure, NoReport, AnswerInv
<1> QED
  BY <1>1, <1>2, <1>3 DEF IInv

LEMMA ReadReportInv == ASSUME IInv, ReadReport PROVE IInv'
<1>1. PlaceTypes'
  BY DEF IInv, ReadReport, PlaceTypes
<1>2. FlagTypes' /\ DataTypes'
  BY DEF IInv, ReadReport, FlagTypes, DataTypes
<1>3. /\ LifeInv' /\ MeetingInv' /\ EndsInv' /\ HeldInv'
      /\ DataInv' /\ FindingsInv' /\ AnswerInv'
  BY DEF IInv, ReadReport, LifeInv, PlaceTypes, MeetingInv, EndsInv, HeldInv, DataInv,
     FindingsInv, Found, Failure, NoReport, AnswerInv
<1> QED
  BY <1>1, <1>2, <1>3 DEF IInv

LEMMA VerdictInv == ASSUME IInv, Verdict PROVE IInv'
<1>1. PlaceTypes'
  BY DEF IInv, Verdict, PlaceTypes
<1>2. FlagTypes' /\ DataTypes'
  BY DEF IInv, Verdict, FlagTypes, DataTypes
<1>3. LifeInv' /\ MeetingInv' /\ EndsInv' /\ HeldInv' /\ DataInv' /\ FindingsInv'
  BY DEF IInv, Verdict, LifeInv, PlaceTypes, MeetingInv, EndsInv, HeldInv, DataInv,
     FindingsInv, Found, Failure, NoReport
<1>4. AnswerInv'
  <2>1. /\ ppc = "reap" /\ child' = "reaped" /\ ppc' = "returned"
        /\ UNCHANGED <<call, sent, bad, code, cpc, success>>
    BY DEF Verdict
  <2>2. CASE answer' = "error"
    BY <2>1, <2>2 DEF AnswerInv
  <2>3. CASE answer' # "error"
    <3>1. /\ sendOk /\ reported.arrived /\ reported.success /\ code = 0
          /\ answer' = IF Passed THEN "pass" ELSE "fail"
      BY <2>3 DEF Verdict
    <3>2. reported = report /\ report = Found
      BY <3>1 DEF IInv, FindingsInv, NoReport, Failure
    <3>3. success /\ cpc = "exit"
      BY <3>1, <3>2 DEF IInv, FindingsInv, NoReport
    <3>4. received = sent /\ sent = call.payload
      BY <2>1, <3>1, <3>3 DEF IInv, DataInv
    <3>5. bad \in {NoByte} \cup 0..(received - 1) /\ received \in Nat
      BY <3>4 DEF IInv, DataTypes
    <3>6. reported.bytes = received /\ reported.altered = (bad \in 0..(received - 1))
      BY <3>2 DEF Found
    <3>7. Passed <=> bad = NoByte
      <4>1. bad = NoByte <=> ~ (bad \in 0..(received - 1))
        BY <3>5
      <4>2. sent = call.payload /\ reported.bytes = call.payload
        BY <3>4, <3>6
      <4> QED
        BY <3>6, <4>1, <4>2, Zenon DEF Passed
    <3> QED
      BY <2>1, <3>1, <3>3, <3>4, <3>7 DEF AnswerInv
  <2> QED
    BY <2>2, <2>3
<1> QED
  BY <1>1, <1>2, <1>3, <1>4 DEF IInv

LEMMA AbortInv == ASSUME IInv, Abort PROVE IInv'
<1>1. PlaceTypes'
  BY DEF IInv, Abort, PlaceTypes
<1>2. FlagTypes' /\ DataTypes'
  BY DEF IInv, Abort, FlagTypes, DataTypes
<1>3. /\ LifeInv' /\ MeetingInv' /\ EndsInv' /\ HeldInv'
      /\ DataInv' /\ FindingsInv' /\ AnswerInv'
  BY DEF IInv, Abort, LifeInv, PlaceTypes, MeetingInv, EndsInv, HeldInv, DataInv,
     FindingsInv, Found, Failure, NoReport, AnswerInv
<1> QED
  BY <1>1, <1>2, <1>3 DEF IInv

LEMMA OpenChildInv == ASSUME IInv, OpenChild PROVE IInv'
<1>1. PlaceTypes'
  BY DEF IInv, OpenChild, PlaceTypes
<1>2. FlagTypes' /\ DataTypes'
  BY DEF IInv, OpenChild, FlagTypes, PlaceTypes, DataTypes
<1>3. LifeInv'
  BY DEF IInv, OpenChild, LifeInv, PlaceTypes
<1>4. MeetingInv'
  <2>1. child = "running" /\ ppc \notin BeforeFork /\ UNCHANGED <<kind, ppc, child>>
    BY DEF IInv, LifeInv, OpenChild
  <2>2. cpc' \in {"meet", "malloc", "report"} /\ (cpc' = "malloc" => met')
    BY DEF OpenChild
  <2>3. met' /\ ~ met => ppc # "open"
    <3>1. CASE kind = "fifo"
      <4>1. SUFFICES ASSUME writers # {} PROVE ppc # "open"
        BY <3>1 DEF OpenChild
      <4>2. "parent" \in writers
        BY <3>1, <4>1 DEF IInv, PlaceTypes, EndsInv
      <4> QED
        BY <4>2 DEF IInv, EndsInv
    <3>2. CASE kind # "fifo"
      BY <3>2 DEF OpenChild, Reachable, IInv, HeldInv
    <3> QED
      BY <3>1, <3>2
  <2> QED
    BY <2>1, <2>2, <2>3 DEF IInv, MeetingInv
<1>5. EndsInv'
  <2>1. child = "running" /\ ppc \notin BeforeFork /\ UNCHANGED <<kind, ppc>>
    BY DEF IInv, LifeInv, OpenChild
  <2>2. CASE UNCHANGED writers \/ writers' = writers \ {"child"}
    <3>1. "parent" \in readers' => "parent" \in readers
      BY DEF OpenChild
    <3>2. ppc = "meet" /\ met' => met \/ "parent" \in writers
      BY <2>2 DEF OpenChild, IInv, PlaceTypes, EndsInv
    <3> QED
      BY <2>1, <2>2, <3>1, <3>2 DEF IInv, EndsInv
  <2>3. CASE /\ kind # "fifo" /\ Reachable \subseteq held
             /\ writers' = {"parent"} /\ readers' = {"child"}
    <3>1. ppc = "meet"
      BY <2>1, <2>3 DEF Reachable, IInv, HeldInv
    <3> QED
      BY <2>1, <2>3, <3>1 DEF EndsInv
  <2> QED
    BY <2>2, <2>3 DEF OpenChild
<1>6. HeldInv' /\ DataInv' /\ FindingsInv' /\ AnswerInv'
  BY DEF IInv, OpenChild, HeldInv, PlaceTypes, DataInv, FindingsInv, Found, Failure,
     NoReport, AnswerInv
<1> QED
  BY <1>1, <1>2, <1>3, <1>4, <1>5, <1>6 DEF IInv

LEMMA MeetChildInv == ASSUME IInv, MeetChild PROVE IInv'
<1>1. PlaceTypes'
  BY DEF IInv, MeetChild, PlaceTypes
<1>2. FlagTypes' /\ DataTypes'
  BY DEF IInv, MeetChild, FlagTypes, DataTypes
<1>3. /\ LifeInv' /\ MeetingInv' /\ EndsInv' /\ HeldInv'
      /\ DataInv' /\ FindingsInv' /\ AnswerInv'
  BY DEF IInv, MeetChild, LifeInv, PlaceTypes, MeetingInv, EndsInv, HeldInv, DataInv,
     FindingsInv, Found, Failure, NoReport, AnswerInv
<1> QED
  BY <1>1, <1>2, <1>3 DEF IInv

LEMMA MallocChildInv == ASSUME IInv, MallocChild PROVE IInv'
<1>1. PlaceTypes'
  BY DEF IInv, MallocChild, PlaceTypes
<1>2. FlagTypes' /\ DataTypes'
  BY DEF IInv, MallocChild, FlagTypes, DataTypes
<1>3. /\ LifeInv' /\ MeetingInv' /\ EndsInv' /\ HeldInv'
      /\ DataInv' /\ FindingsInv' /\ AnswerInv'
  BY DEF IInv, MallocChild, LifeInv, PlaceTypes, MeetingInv, EndsInv, HeldInv, DataInv,
     FindingsInv, Found, Failure, NoReport, AnswerInv
<1> QED
  BY <1>1, <1>2, <1>3 DEF IInv

LEMMA ReadInv == ASSUME IInv, Read PROVE IInv'
<1>1. PlaceTypes'
  BY DEF IInv, Read, PlaceTypes
<1>2. FlagTypes'
  BY DEF IInv, Read, FlagTypes
<1>3. DataTypes'
  <2>1. CASE received' = received
    BY <2>1 DEF IInv, Read, DataTypes
  <2>2. CASE received' # received
    <3>1. PICK n \in 1..Least(InFlight, call.chunk) : received' = received + n
      BY <2>2 DEF Read
    <3>2. received' \in 0..sent /\ n > 0 /\ n \in Int
      BY <3>1, ReadFits DEF IInv
    <3>3. sent - received' =< Capacity
      BY <3>1, <3>2, CapacityAssumption DEF IInv, DataTypes
    <3> QED
      BY <3>2, <3>3 DEF IInv, Read, DataTypes
  <2> QED
    BY <2>1, <2>2
<1>4. LifeInv' /\ MeetingInv' /\ EndsInv' /\ HeldInv'
  BY DEF IInv, Read, LifeInv, PlaceTypes, MeetingInv, EndsInv, HeldInv
<1>5. DataInv'
  <2>1. ppc' = ppc /\ UNCHANGED <<call, sendOk, sent>> /\ child = "running" /\ cpc = "read"
    BY DEF Read
  <2>2. cpc' = "read" \/ ~ success' \/ (InFlight = 0 /\ writers = {} /\ received' = received)
    BY <2>1 DEF Read
  <2>3. writers = {} => ppc \in Past
    BY <2>1 DEF IInv, PlaceTypes, LifeInv, MeetingInv, EndsInv
  <2>4. InFlight = 0 => received = sent
    BY DEF IInv, DataTypes, InFlight
  <2> QED
    BY <2>1, <2>2, <2>3, <2>4 DEF IInv, DataInv
<1>6. FindingsInv' /\ AnswerInv'
  BY DEF IInv, Read, FindingsInv, Found, Failure, NoReport, AnswerInv
<1> QED
  BY <1>1, <1>2, <1>3, <1>4, <1>5, <1>6 DEF IInv

LEMMA ReportInv == ASSUME IInv, Report PROVE IInv'
<1>1. PlaceTypes'
  BY DEF IInv, Report, PlaceTypes
<1>2. FlagTypes' /\ DataTypes'
  BY DEF IInv, Report, FlagTypes, DataTypes
<1>3. LifeInv' /\ MeetingInv' /\ EndsInv' /\ HeldInv' /\ DataInv'
  BY DEF IInv, Report, LifeInv, PlaceTypes, MeetingInv, EndsInv, HeldInv, DataInv
<1>4. FindingsInv' /\ AnswerInv'
  BY DEF IInv, Report, FindingsInv, Findings, DataTypes, Found, Failure, NoReport, AnswerInv
<1> QED
  BY <1>1, <1>2, <1>3, <1>4 DEF IInv

LEMMA ExitChildInv == ASSUME IInv, ExitChild PROVE IInv'
<1>1. PlaceTypes'
  BY DEF IInv, ExitChild, PlaceTypes
<1>2. FlagTypes' /\ DataTypes'
  BY DEF IInv, ExitChild, FlagTypes, DataTypes
<1>3. /\ LifeInv' /\ MeetingInv' /\ EndsInv' /\ HeldInv'
      /\ DataInv' /\ FindingsInv' /\ AnswerInv'
  BY DEF IInv, ExitChild, LifeInv, PlaceTypes, MeetingInv, EndsInv, HeldInv, DataInv,
     FindingsInv, Found, Failure, NoReport, AnswerInv
<1> QED
  BY <1>1, <1>2, <1>3 DEF IInv

LEMMA CorruptInv == ASSUME IInv, Corrupt PROVE IInv'
<1>1. PlaceTypes'
  BY DEF IInv, Corrupt, PlaceTypes
<1>2. FlagTypes' /\ DataTypes'
  BY DEF IInv, Corrupt, FlagTypes, DataTypes
<1>3. /\ LifeInv' /\ MeetingInv' /\ EndsInv' /\ HeldInv'
      /\ DataInv' /\ FindingsInv' /\ AnswerInv'
  BY DEF IInv, Corrupt, LifeInv, PlaceTypes, MeetingInv, EndsInv, HeldInv, DataInv,
     FindingsInv, DataTypes, Found, Failure, NoReport, AnswerInv
<1> QED
  BY <1>1, <1>2, <1>3 DEF IInv

LEMMA KillConsumerInv == ASSUME IInv, KillConsumer PROVE IInv'
<1>1. PlaceTypes'
  BY DEF IInv, KillConsumer, PlaceTypes
<1>2. FlagTypes' /\ DataTypes'
  BY DEF IInv, KillConsumer, FlagTypes, DataTypes
<1>3. /\ LifeInv' /\ MeetingInv' /\ EndsInv' /\ HeldInv'
      /\ DataInv' /\ FindingsInv' /\ AnswerInv'
  BY DEF IInv, KillConsumer, LifeInv, PlaceTypes, MeetingInv, EndsInv, HeldInv, DataInv,
     FindingsInv, Found, Failure, NoReport, AnswerInv
<1> QED
  BY <1>1, <1>2, <1>3 DEF IInv

LEMMA KillProducerInv == ASSUME IInv, KillProducer PROVE IInv'
<1>1. PlaceTypes'
  BY DEF IInv, KillProducer, PlaceTypes
<1>2. FlagTypes' /\ DataTypes'
  BY DEF IInv, KillProducer, FlagTypes, DataTypes
<1>3. /\ LifeInv' /\ MeetingInv' /\ EndsInv' /\ HeldInv'
      /\ DataInv' /\ FindingsInv' /\ AnswerInv'
  BY DEF IInv, KillProducer, LifeInv, PlaceTypes, MeetingInv, EndsInv, HeldInv, DataInv,
     FindingsInv, Found, Failure, NoReport, AnswerInv
<1> QED
  BY <1>1, <1>2, <1>3 DEF IInv

-----------------------------------------------------------------------------
(* What holds of a verification.                                           *)

LEMMA InitInv == Init => IInv
<1> SUFFICES ASSUME Init PROVE IInv
  OBVIOUS
<1>1. PlaceTypes /\ FlagTypes
  BY KindAssumption DEF Init, PlaceTypes, FlagTypes
<1>2. DataTypes
  <2>1. call \in [payload : Payloads, chunk : Chunks] /\ call.payload \in Nat
    BY CallAssumption DEF Init
  <2> QED
    BY <2>1, CapacityAssumption DEF Init, DataTypes
<1>3. LifeInv /\ MeetingInv /\ EndsInv /\ HeldInv
  BY DEF Init, LifeInv, MeetingInv, EndsInv, HeldInv
<1>4. DataInv /\ FindingsInv /\ AnswerInv
  BY DEF Init, DataInv, FindingsInv, NoReport, AnswerInv
<1> QED
  BY <1>1, <1>2, <1>3, <1>4 DEF IInv

LEMMA StutterInv == ASSUME IInv, UNCHANGED vars PROVE IInv'
BY DEF vars, IInv, PlaceTypes, FlagTypes, DataTypes, LifeInv, MeetingInv, EndsInv, HeldInv, DataInv,
       FindingsInv, Found, AnswerInv

LEMMA NextInv == IInv /\ [Next]_vars => IInv'
<1> SUFFICES ASSUME IInv, [Next]_vars PROVE IInv'
  OBVIOUS
<1>1. CASE Parent
  BY <1>1, CreateInv, ListenInv, ReportPipeInv, ForkInv, OpenFifoInv, MeetInv, MallocParentInv,
     WriteInv, CloseEndInv, ReadReportInv, VerdictInv, AbortInv DEF Parent
<1>2. CASE Child
  BY <1>2, OpenChildInv, MeetChildInv, MallocChildInv, ReadInv, ReportInv, ExitChildInv DEF Child
<1>3. CASE Corrupt
  BY <1>3, CorruptInv
<1>4. CASE KillConsumer
  BY <1>4, KillConsumerInv
<1>5. CASE KillProducer
  BY <1>5, KillProducerInv
<1> QED
  BY <1>1, <1>2, <1>3, <1>4, <1>5, StutterInv DEF Next

\* The invariant holds of every call, for every stream, payload and chunk,
\* whatever fails.
LEMMA StreamInvariant == Spec => []IInv
BY InitInv, NextInv, PTL DEF Spec

\* The records that are reported are well-typed, and so is all else.
LEMMA TypesFollow == ASSUME IInv PROVE TypeOK
<1> DEFINE Reports == [bytes : 0..call.payload,
                       altered : BOOLEAN, success : BOOLEAN, arrived : BOOLEAN]
<1>1. {report, reported} \subseteq Reports
  <2>1. received \in 0..call.payload /\ 0 \in 0..call.payload
    BY CallTypes DEF IInv, DataTypes
  <2>2. NoReport \in Reports
    BY <2>1 DEF NoReport
  <2>3. Failure \in Reports
    BY <2>1 DEF NoReport, Failure
  <2>4. Found \in Reports
    <3>1. (bad \in 0..(received - 1)) \in BOOLEAN
      OBVIOUS
    <3> QED
      BY <2>1, <3>1 DEF Found
  <2> QED
    BY <2>2, <2>3, <2>4 DEF IInv, FindingsInv
<1>2. InFlight =< Capacity
  BY DEF IInv, DataTypes, InFlight
<1> QED
  BY <1>1, <1>2 DEF IInv, PlaceTypes, FlagTypes, DataTypes, TypeOK

\* However the stream is cut, filled and read: a PASS is about the whole
\* payload, unchanged, and a child that ended well, and a FAIL about a changed
\* byte (integrity_verifier.c:447-474, 597-616, 2287-2314).
THEOREM VerdictsAreTrue == Spec => []VerdictIsTrue
<1>1. IInv => VerdictIsTrue
  <2> SUFFICES ASSUME IInv PROVE VerdictIsTrue
    OBVIOUS
  <2>1. answer \in {"pass", "fail"} => /\ child = "reaped" /\ code = 0 /\ sent = call.payload
                                      /\ received = sent /\ (answer = "pass" <=> bad = NoByte)
    BY DEF IInv, AnswerInv, DataInv
  <2> QED
    BY <2>1, TypesFollow DEF VerdictIsTrue
<1> QED
  BY <1>1, StreamInvariant, PTL

\* The path outlives every child that may want to open it, and nothing is left
\* when the call returns (integrity_verifier.c:744-783, 1012-1052).
THEOREM PathOutlives == Spec => []PathOutlivesChild
<1>1. IInv => PathOutlivesChild
  BY DEF IInv, LifeInv, EndsInv, HeldInv, PathOutlivesChild
<1> QED
  BY <1>1, StreamInvariant, PTL

-----------------------------------------------------------------------------
(* The benchmarks over the same streams.  Their variables are those of the *)
(* verifier and `statusLost`; their totals may be 0, so that they have     *)
(* assumptions of their own.                                               *)
CONSTANT Totals
VARIABLE statusLost

Bench == INSTANCE StreamIpc

\* Where no child is yet, and where one is not reaped yet.
BenchBefore == {"create", "listen", "fork"}
BenchWithChild == {"malloc", "open", "meet", "write", "close", "waitpid", "abort"}

\* The types, of where everything is, of the flags and of the stream.
BenchPlaces ==
  /\ kind \in {"pipe", "fifo", "socket"} /\ kind \in Kinds
  /\ ppc \in BenchBefore \cup BenchWithChild \cup {"finish", "returned", "killed"}
  /\ held \subseteq {"name", "listener", "buffer"}
  /\ answer \in {"pending", "ok", "failed"}
  /\ cpc \in {"malloc", "open", "meet", "read", "exit"}
  /\ child \in {"none", "running", "zombie", "reaped", "escaped"}
  /\ code \in {0, 2, 3, 4, 5, Bench!KilledCode, Bench!NoCode}
  /\ readers \subseteq {"parent", "child"} /\ writers \subseteq {"parent", "child"}

BenchFlags == statusLost \in BOOLEAN /\ met \in BOOLEAN

BenchData ==
  /\ call \in [total : Totals, chunk : Chunks]
  /\ sent \in 0..call.total /\ received \in 0..sent /\ sent - received =< Capacity

\* Which states of parent and child go together.
BenchLife ==
  /\ ppc \in BenchBefore => child = "none"
  /\ ppc \in BenchWithChild => child \in {"running", "zombie", "escaped"}
  /\ ppc = "finish" => child = "reaped"
  /\ ppc = "returned" => child \in {"none", "reaped"} \/ sent = 0

\* What has been sent at each place, and an exit code of 0 is that of a
\* child that read everything.
BenchBytes ==
  /\ ppc \in BenchBefore \cup {"malloc", "open", "meet"} => sent = 0
  /\ ppc \in {"close", "waitpid", "finish"} => sent = call.total
  /\ code = 0 => child \in {"zombie", "reaped"} /\ received = call.total

\* The parent's ends of the stream, and what it has to give back.
BenchEnds ==
  /\ "parent" \in readers => ppc \in {"fork", "malloc"}
  /\ "parent" \in writers => \/ ppc \in {"meet", "write", "close"}
                             \/ kind # "fifo" /\ ppc \in {"fork", "malloc"}
  /\ "listener" \in held => kind = "socket" /\ ppc \in {"listen", "fork", "malloc", "meet"}
  /\ ppc \in {"create", "abort", "returned"} => held = {}

\* The call answers once, and "ok" on the word of a child that read
\* everything, or on nothing.
BenchAnswer ==
  /\ ppc # "returned" => answer = "pending"
  /\ answer = "ok" => statusLost \/ code = 0

BenchInv ==
  /\ BenchPlaces /\ BenchFlags /\ BenchData
  /\ BenchLife /\ BenchBytes /\ BenchEnds /\ BenchAnswer

\* What a write() finds room for.
Room == Bench!Least(Capacity - Bench!InFlight, Bench!RestOfChunk(sent))

USE DEF Room, Bench!args, Bench!parentVars, Bench!childVars, Bench!Return, Bench!ParentCloses,
        Bench!Abandon, Bench!ChildMay, Bench!ChildCloses,
        Bench!Exit, Bench!Alive, Bench!NoCode, Bench!KilledCode, BenchBefore, BenchWithChild

\* The total is a number, and the chunk not 0.
LEMMA BenchCallTypes ==
  ASSUME Bench!CallAssumption, BenchData PROVE call.total \in Nat /\ call.chunk \in Nat \ {0}
BY DEF Bench!CallAssumption, BenchData

\* What one write() puts into the stream fits into the total and the kernel.
LEMMA BenchWriteFits ==
  ASSUME Bench!CallAssumption, BenchData, NEW n \in 1..Room
  PROVE  /\ n \in Nat \ {0} /\ sent + n \in 0..call.total
         /\ sent + n - received =< Capacity /\ received \in 0..(sent + n)
<1>1. /\ call.total \in Nat /\ call.chunk \in Nat \ {0} /\ Capacity \in Nat
      /\ sent \in 0..call.total /\ received \in 0..sent
  BY BenchCallTypes, CapacityAssumption DEF BenchData
<1>2. call.chunk - (sent % call.chunk) \in Int
  BY <1>1
<1>3. n =< Capacity - (sent - received) /\ n =< call.total - sent /\ n \in Nat \ {0}
  BY <1>1, <1>2 DEF Bench!Least, Bench!RestOfChunk, Bench!InFlight
<1> QED
  BY <1>1, <1>3

\* What one read() takes out was there.
LEMMA BenchReadFits ==
  ASSUME Bench!CallAssumption, BenchData, NEW n \in 1..Bench!Least(Bench!InFlight, Bench!Wanted)
  PROVE  n \in Nat \ {0} /\ received + n \in 0..sent /\ n =< sent - received
<1>1. /\ call.total \in Nat /\ call.chunk \in Nat \ {0}
      /\ sent \in Nat /\ received \in 0..sent
  BY BenchCallTypes DEF BenchData
<1>2. Bench!Wanted \in Int
  BY <1>1 DEF Bench!Wanted, Bench!RestOfChunk, Bench!Least
<1> QED
  BY <1>1, <1>2 DEF Bench!Least, Bench!InFlight

LEMMA BenchCreate == ASSUME Bench!CallAssumption, BenchInv, Bench!Create PROVE BenchInv'
<1>1. BenchPlaces'
  BY DEF BenchInv, Bench!Create, BenchPlaces
<1>2. BenchFlags' /\ BenchData'
  BY DEF BenchInv, Bench!Create, BenchFlags, BenchData
<1>3. BenchLife' /\ BenchBytes' /\ BenchEnds' /\ BenchAnswer'
  BY DEF BenchInv, Bench!Create, BenchLife, BenchPlaces, BenchBytes, BenchEnds, BenchData,
     BenchAnswer
<1> QED
  BY <1>1, <1>2, <1>3 DEF BenchInv

LEMMA BenchListen == ASSUME Bench!CallAssumption, BenchInv, Bench!Listen PROVE BenchInv'
<1>1. BenchPlaces'
  BY DEF BenchInv, Bench!Listen, BenchPlaces
<1>2. BenchFlags' /\ BenchData'
  BY DEF BenchInv, Bench!Listen, BenchFlags, BenchData
<1>3. BenchLife' /\ BenchBytes' /\ BenchEnds' /\ BenchAnswer'
  BY DEF BenchInv, Bench!Listen, BenchLife, BenchPlaces, BenchBytes, BenchEnds, BenchAnswer
<1> QED
  BY <1>1, <1>2, <1>3 DEF BenchInv

LEMMA BenchFork == ASSUME Bench!CallAssumption, BenchInv, Bench!Fork PROVE BenchInv'
<1>1. BenchPlaces'
  BY DEF BenchInv, Bench!Fork, BenchPlaces
<1>2. BenchFlags' /\ BenchData'
  BY DEF BenchInv, Bench!Fork, BenchFlags, BenchData
<1>3. BenchLife' /\ BenchBytes' /\ BenchEnds' /\ BenchAnswer'
  BY DEF BenchInv, Bench!Fork, BenchLife, BenchPlaces, BenchBytes, BenchEnds, BenchAnswer
<1> QED
  BY <1>1, <1>2, <1>3 DEF BenchInv

LEMMA BenchMallocParent == ASSUME Bench!CallAssumption, BenchInv, Bench!MallocParent PROVE BenchInv'
<1>1. BenchPlaces'
  BY DEF BenchInv, Bench!MallocParent, BenchPlaces, Bench!Loop
<1>2. BenchFlags' /\ BenchData'
  BY DEF BenchInv, Bench!MallocParent, BenchFlags, BenchData
<1>3. BenchLife' /\ BenchAnswer'
  BY DEF BenchInv, Bench!MallocParent, BenchLife, Bench!Loop, BenchPlaces, BenchBytes, BenchAnswer
<1>4. BenchBytes'
  <2>1. Bench!Loop(0) = IF call.total = 0 THEN "close" ELSE "write"
    BY BenchCallTypes DEF BenchInv, Bench!Loop
  <2>2. UNCHANGED <<call, sent, child, code, received>> /\ sent = 0
    BY DEF Bench!MallocParent, BenchInv, BenchBytes
  <2>3. ppc' \in {"open", "meet", "returned", Bench!Loop(0)}
    BY DEF Bench!MallocParent, BenchInv, BenchPlaces
  <2> QED
    BY <2>1, <2>2, <2>3 DEF BenchInv, BenchBytes
<1>5. BenchEnds'
  <2>1. \/ ppc' = "returned"
        \/ ppc' \in {"write", "close"} /\ kind = "pipe"
        \/ ppc' = "open" /\ kind = "fifo"
        \/ ppc' = "meet" /\ kind = "socket"
    BY DEF Bench!MallocParent, Bench!Loop, BenchInv, BenchPlaces
  <2>2. ppc' # "returned" => held' = held \cup {"buffer"} /\ writers' = writers
    BY DEF Bench!MallocParent
  <2>3. ppc' = "returned" => held' = {} /\ writers' = writers \ {"parent"}
    BY DEF Bench!MallocParent, Bench!Loop, BenchInv, BenchPlaces
  <2>4. ppc = "malloc" /\ readers' = readers \ {"parent"} /\ UNCHANGED kind
    BY DEF Bench!MallocParent
  <2> HIDE DEF Bench!Return, Bench!ParentCloses
  <2> QED
    BY <2>1, <2>2, <2>3, <2>4 DEF BenchInv, BenchEnds
<1> QED
  BY <1>1, <1>2, <1>3, <1>4, <1>5 DEF BenchInv

LEMMA BenchOpenFifo == ASSUME Bench!CallAssumption, BenchInv, Bench!OpenFifo PROVE BenchInv'
<1>1. BenchPlaces'
  BY DEF BenchInv, Bench!OpenFifo, BenchPlaces
<1>2. BenchFlags' /\ BenchData'
  BY DEF BenchInv, Bench!OpenFifo, BenchFlags, BenchData
<1>3. BenchLife' /\ BenchBytes' /\ BenchEnds' /\ BenchAnswer'
  BY DEF BenchInv, Bench!OpenFifo, BenchLife, BenchPlaces, BenchBytes, BenchEnds, BenchAnswer
<1> QED
  BY <1>1, <1>2, <1>3 DEF BenchInv

LEMMA BenchMeet == ASSUME Bench!CallAssumption, BenchInv, Bench!Meet PROVE BenchInv'
<1>1. BenchPlaces'
  BY DEF BenchInv, Bench!Meet, BenchPlaces, Bench!Loop
<1>2. BenchFlags' /\ BenchData'
  BY DEF BenchInv, Bench!Meet, BenchFlags, BenchData
<1>3. BenchLife' /\ BenchEnds' /\ BenchAnswer'
  BY DEF BenchInv, Bench!Meet, BenchLife, Bench!Loop, BenchPlaces, BenchEnds, BenchAnswer
<1>4. BenchBytes'
  <2>1. Bench!Loop(0) = IF call.total = 0 THEN "close" ELSE "write"
    BY BenchCallTypes DEF BenchInv, Bench!Loop
  <2>2. UNCHANGED <<call, sent, child, code, received>> /\ sent = 0
    BY DEF Bench!Meet, BenchInv, BenchBytes
  <2>3. ppc' \in {"abort", Bench!Loop(0)}
    BY DEF Bench!Meet
  <2> QED
    BY <2>1, <2>2, <2>3 DEF BenchInv, BenchBytes
<1> QED
  BY <1>1, <1>2, <1>3, <1>4 DEF BenchInv

LEMMA BenchWrite == ASSUME Bench!CallAssumption, BenchInv, Bench!Write PROVE BenchInv'
<1>1. BenchPlaces'
  BY DEF BenchInv, Bench!Write, BenchPlaces, Bench!Loop
<1>2. BenchFlags'
  BY DEF BenchInv, Bench!Write, BenchFlags
<1>3. BenchData'
  <2>1. UNCHANGED <<call, received>>
    BY DEF Bench!Write
  <2>2. CASE sent' = sent
    BY <2>1, <2>2 DEF BenchInv, BenchData
  <2>3. CASE sent' # sent
    <3>1. PICK n \in 1..Room : sent' = sent + n
      BY <2>3 DEF Bench!Write
    <3> QED
      BY <2>1, <3>1, BenchWriteFits DEF BenchInv, BenchData
  <2> QED
    BY <2>2, <2>3
<1>4. BenchLife' /\ BenchEnds' /\ BenchAnswer'
  BY DEF BenchInv, Bench!Write, BenchLife, Bench!Loop, BenchPlaces, BenchEnds, BenchAnswer
<1>5. BenchBytes'
  <2>1. ppc = "write" /\ UNCHANGED <<call, child, code, received>>
    BY DEF Bench!Write
  <2>2. ppc' = "close" => sent' = call.total
    <3>1. CASE sent' # sent
      <4>1. PICK n \in 1..Room : sent' = sent + n
        BY <3>1 DEF Bench!Write
      <4>2. sent' \in 0..call.total /\ call.total \in Nat
        BY <4>1, BenchWriteFits, BenchCallTypes DEF BenchInv
      <4> QED
        BY <3>1, <4>2 DEF Bench!Write, Bench!Loop
    <3>2. CASE sent' = sent
      <4>1. SUFFICES ASSUME ppc' = "close" PROVE FALSE
        OBVIOUS
      <4>2. PICK n \in 1..Room : sent' = sent + n
        BY <4>1 DEF Bench!Write
      <4>3. n \in Nat \ {0} /\ sent \in Int
        BY BenchWriteFits DEF BenchInv, BenchData
      <4> QED
        BY <3>2, <4>2, <4>3
    <3> QED
      BY <3>1, <3>2
  <2>3. ppc' \in {"write", "close", "abort", "killed"}
    BY DEF Bench!Write, Bench!Loop
  <2> QED
    BY <2>1, <2>2, <2>3 DEF BenchInv, BenchBytes
<1> QED
  BY <1>1, <1>2, <1>3, <1>4, <1>5 DEF BenchInv

LEMMA BenchCloseEnd == ASSUME Bench!CallAssumption, BenchInv, Bench!CloseEnd PROVE BenchInv'
<1>1. BenchPlaces'
  BY DEF BenchInv, Bench!CloseEnd, BenchPlaces
<1>2. BenchFlags' /\ BenchData'
  BY DEF BenchInv, Bench!CloseEnd, BenchFlags, BenchData
<1>3. BenchLife' /\ BenchBytes' /\ BenchEnds' /\ BenchAnswer'
  BY DEF BenchInv, Bench!CloseEnd, BenchLife, BenchPlaces, BenchBytes, BenchEnds, BenchAnswer
<1> QED
  BY <1>1, <1>2, <1>3 DEF BenchInv

LEMMA BenchWaitChild == ASSUME Bench!CallAssumption, BenchInv, Bench!WaitChild PROVE BenchInv'
<1>1. BenchPlaces'
  BY DEF BenchInv, Bench!WaitChild, BenchPlaces
<1>2. BenchFlags'
  <2>1. ("waitpid" \in Faults) \in BOOLEAN
    OBVIOUS
  <2>2. met' = met /\ statusLost' \in {FALSE, "waitpid" \in Faults}
    BY DEF Bench!WaitChild
  <2> QED
    BY <2>1, <2>2 DEF BenchInv, BenchFlags
<1>3. BenchData'
  BY DEF BenchInv, Bench!WaitChild, BenchData
<1>4. BenchLife' /\ BenchBytes' /\ BenchEnds' /\ BenchAnswer'
  BY DEF BenchInv, Bench!WaitChild, BenchLife, BenchPlaces, BenchBytes, BenchEnds, BenchAnswer
<1> QED
  BY <1>1, <1>2, <1>3, <1>4 DEF BenchInv

LEMMA BenchFinish == ASSUME Bench!CallAssumption, BenchInv, Bench!Finish PROVE BenchInv'
<1>1. BenchPlaces'
  BY DEF BenchInv, Bench!Finish, BenchPlaces
<1>2. BenchFlags' /\ BenchData'
  BY DEF BenchInv, Bench!Finish, BenchFlags, BenchData
<1>3. BenchLife' /\ BenchBytes' /\ BenchEnds' /\ BenchAnswer'
  BY DEF BenchInv, Bench!Finish, BenchLife, BenchPlaces, BenchBytes, BenchEnds, BenchAnswer,
     BenchFlags
<1> QED
  BY <1>1, <1>2, <1>3 DEF BenchInv

LEMMA BenchAbort == ASSUME Bench!CallAssumption, BenchInv, Bench!Abort PROVE BenchInv'
<1>1. BenchPlaces'
  BY DEF BenchInv, Bench!Abort, BenchPlaces
<1>2. BenchFlags' /\ BenchData'
  BY DEF BenchInv, Bench!Abort, BenchFlags, BenchData
<1>3. BenchLife' /\ BenchBytes' /\ BenchEnds' /\ BenchAnswer'
  BY DEF BenchInv, Bench!Abort, BenchLife, BenchPlaces, BenchBytes, BenchEnds, BenchAnswer
<1> QED
  BY <1>1, <1>2, <1>3 DEF BenchInv

LEMMA BenchMallocChild == ASSUME Bench!CallAssumption, BenchInv, Bench!MallocChild PROVE BenchInv'
<1>1. BenchPlaces'
  BY DEF BenchInv, Bench!MallocChild, BenchPlaces, Bench!ChildLoop
<1>2. BenchFlags' /\ BenchData'
  BY DEF BenchInv, Bench!MallocChild, BenchFlags, BenchData
<1>3. BenchLife' /\ BenchBytes' /\ BenchEnds' /\ BenchAnswer'
  BY DEF BenchInv, Bench!MallocChild, BenchLife, BenchPlaces, BenchBytes, BenchEnds, BenchAnswer
<1> QED
  BY <1>1, <1>2, <1>3 DEF BenchInv

LEMMA BenchOpenChild == ASSUME Bench!CallAssumption, BenchInv, Bench!OpenChild PROVE BenchInv'
<1>1. BenchPlaces'
  <2>1. Bench!Codes[kind].open \subseteq {2, 3}
    BY DEF BenchInv, BenchPlaces, Bench!Codes
  <2>2. UNCHANGED <<kind, ppc, held, answer>> /\ child' \in {"running", "zombie"}
        /\ code' \in {code} \cup Bench!Codes[kind].open
    BY DEF Bench!OpenChild
  <2>3. /\ cpc' \in {"open", "meet", "read", "exit"}
        /\ readers' \subseteq {"parent", "child"} /\ writers' \subseteq {"parent", "child"}
    BY DEF Bench!OpenChild, Bench!ChildLoop, BenchInv, BenchPlaces
  <2> QED
    BY <2>1, <2>2, <2>3 DEF BenchInv, BenchPlaces
<1>2. BenchFlags' /\ BenchData'
  BY DEF BenchInv, Bench!OpenChild, BenchFlags, BenchData
<1>3. BenchLife'
  BY DEF BenchInv, Bench!OpenChild, BenchLife, BenchPlaces
<1>4. BenchBytes'
  <2>1. Bench!Codes[kind].open \subseteq {2, 3}
    BY DEF BenchInv, BenchPlaces, Bench!Codes
  <2>2. UNCHANGED <<call, ppc, sent, received>> /\ child = "running"
    BY DEF Bench!OpenChild
  <2>3. code' \in {code} \cup Bench!Codes[kind].open
    BY DEF Bench!OpenChild
  <2> QED
    BY <2>1, <2>2, <2>3 DEF BenchInv, BenchBytes
<1>5. BenchEnds'
  <2>1. /\ UNCHANGED <<kind, ppc, held>> /\ child = "running"
        /\ ppc \notin BenchBefore
    BY DEF Bench!OpenChild, BenchInv, BenchLife
  <2>2. "parent" \in readers' => "parent" \in readers
    BY DEF Bench!OpenChild
  <2>3. CASE "parent" \in writers' => "parent" \in writers
    BY <2>1, <2>2, <2>3 DEF BenchInv, BenchEnds
  <2>4. CASE ~ ("parent" \in writers' => "parent" \in writers)
    <3>1. kind # "fifo" /\ Bench!Reachable \subseteq held
      BY <2>4 DEF Bench!OpenChild
    <3>2. ppc \in {"malloc", "meet"}
      BY <2>1, <3>1 DEF Bench!Reachable, BenchInv, BenchEnds
    <3> QED
      BY <2>1, <2>2, <3>1, <3>2 DEF BenchInv, BenchEnds
  <2> QED
    BY <2>3, <2>4
<1>6. BenchAnswer'
  <2>1. UNCHANGED <<ppc, answer, statusLost>> /\ child = "running"
    BY DEF Bench!OpenChild
  <2>2. code # 0
    BY <2>1 DEF BenchInv, BenchBytes
  <2> QED
    BY <2>1, <2>2 DEF BenchInv, BenchAnswer
<1> QED
  BY <1>1, <1>2, <1>3, <1>4, <1>5, <1>6 DEF BenchInv

LEMMA BenchMeetChild == ASSUME Bench!CallAssumption, BenchInv, Bench!MeetChild PROVE BenchInv'
<1>1. BenchPlaces'
  BY DEF BenchInv, Bench!MeetChild, BenchPlaces, Bench!ChildLoop
<1>2. BenchFlags' /\ BenchData'
  BY DEF BenchInv, Bench!MeetChild, BenchFlags, BenchData
<1>3. BenchLife' /\ BenchBytes' /\ BenchEnds' /\ BenchAnswer'
  BY DEF BenchInv, Bench!MeetChild, BenchLife, BenchPlaces, BenchBytes, BenchEnds, BenchAnswer
<1> QED
  BY <1>1, <1>2, <1>3 DEF BenchInv

LEMMA BenchRead == ASSUME Bench!CallAssumption, BenchInv, Bench!Read PROVE BenchInv'
<1>1. BenchPlaces'
  <2>1. Bench!Codes[kind].read \in {2, 3, 4}
    BY DEF BenchInv, BenchPlaces, Bench!Codes
  <2>2. UNCHANGED <<kind, ppc, held, answer>> /\ child' \in {"running", "zombie"}
        /\ code' \in {code, Bench!Codes[kind].read}
    BY DEF Bench!Read
  <2>3. /\ cpc' \in {"read", "exit"}
        /\ readers' \subseteq {"parent", "child"} /\ writers' \subseteq {"parent", "child"}
    BY DEF Bench!Read, Bench!ChildLoop, BenchInv, BenchPlaces
  <2> QED
    BY <2>1, <2>2, <2>3 DEF BenchInv, BenchPlaces
<1>2. BenchFlags'
  BY DEF BenchInv, Bench!Read, BenchFlags
<1>3. BenchData'
  <2>1. UNCHANGED <<call, sent>>
    BY DEF Bench!Read
  <2>2. CASE received' = received
    BY <2>1, <2>2 DEF BenchInv, BenchData
  <2>3. CASE received' # received
    <3>1. PICK n \in 1..Bench!Least(Bench!InFlight, Bench!Wanted) : received' = received + n
      BY <2>3 DEF Bench!Read
    <3>2. n \in Nat \ {0} /\ received + n \in 0..sent
      BY BenchReadFits DEF BenchInv
    <3>3. /\ call.total \in Nat /\ sent \in 0..call.total /\ received \in 0..sent
          /\ sent - received =< Capacity /\ Capacity \in Nat
      BY CapacityAssumption, BenchCallTypes DEF BenchInv, BenchData
    <3>4. sent - received' =< Capacity
      BY <3>1, <3>2, <3>3
    <3> QED
      BY <2>1, <3>1, <3>2, <3>4 DEF BenchInv, BenchData
  <2> QED
    BY <2>2, <2>3
<1>4. BenchLife' /\ BenchEnds'
  BY DEF BenchInv, Bench!Read, BenchLife, BenchPlaces, BenchEnds
<1>5. BenchBytes'
  <2>1. Bench!Codes[kind].read \in {2, 3, 4}
    BY DEF BenchInv, BenchPlaces, Bench!Codes
  <2>2. UNCHANGED <<call, ppc, sent>> /\ child = "running"
    BY DEF Bench!Read
  <2>3. code' \in {code, Bench!Codes[kind].read}
    BY DEF Bench!Read
  <2> QED
    BY <2>1, <2>2, <2>3 DEF BenchInv, BenchBytes
<1>6. BenchAnswer'
  <2>1. UNCHANGED <<ppc, answer, statusLost>> /\ child = "running"
    BY DEF Bench!Read
  <2>2. code # 0
    BY <2>1 DEF BenchInv, BenchBytes
  <2> QED
    BY <2>1, <2>2 DEF BenchInv, BenchAnswer
<1> QED
  BY <1>1, <1>2, <1>3, <1>4, <1>5, <1>6 DEF BenchInv

LEMMA BenchExitChild == ASSUME Bench!CallAssumption, BenchInv, Bench!ExitChild PROVE BenchInv'
<1>1. BenchPlaces'
  BY DEF BenchInv, Bench!ExitChild, BenchPlaces, Bench!Codes
<1>2. BenchFlags' /\ BenchData'
  BY DEF BenchInv, Bench!ExitChild, BenchFlags, BenchData
<1>3. BenchLife' /\ BenchBytes' /\ BenchEnds'
  BY DEF BenchInv, Bench!ExitChild, BenchLife, BenchPlaces, BenchBytes, BenchAnswer, Bench!Codes,
     BenchEnds
<1>4. BenchAnswer'
  <2>1. UNCHANGED <<ppc, answer, statusLost>> /\ child = "running"
    BY DEF Bench!ExitChild
  <2>2. code # 0
    BY <2>1 DEF BenchInv, BenchBytes
  <2> QED
    BY <2>1, <2>2 DEF BenchInv, BenchAnswer
<1> QED
  BY <1>1, <1>2, <1>3, <1>4 DEF BenchInv

LEMMA BenchEscapedExits == ASSUME Bench!CallAssumption, BenchInv, Bench!EscapedExits PROVE BenchInv'
<1>1. BenchPlaces'
  BY DEF BenchInv, Bench!EscapedExits, BenchPlaces, Bench!CallerCode
<1>2. BenchFlags' /\ BenchData'
  BY DEF BenchInv, Bench!EscapedExits, BenchFlags, BenchData
<1>3. BenchLife' /\ BenchBytes' /\ BenchEnds'
  BY DEF BenchInv, Bench!EscapedExits, BenchLife, BenchPlaces, BenchBytes, Bench!CallerCode,
     BenchEnds
<1>4. BenchAnswer'
  <2>1. UNCHANGED <<ppc, answer, statusLost>> /\ child = "escaped"
    BY DEF Bench!EscapedExits
  <2>2. code # 0
    BY <2>1 DEF BenchInv, BenchBytes
  <2> QED
    BY <2>1, <2>2 DEF BenchInv, BenchAnswer
<1> QED
  BY <1>1, <1>2, <1>3, <1>4 DEF BenchInv

LEMMA BenchKillConsumer == ASSUME Bench!CallAssumption, BenchInv, Bench!KillConsumer PROVE BenchInv'
<1>1. BenchPlaces'
  BY DEF BenchInv, Bench!KillConsumer, BenchPlaces
<1>2. BenchFlags' /\ BenchData'
  BY DEF BenchInv, Bench!KillConsumer, BenchFlags, BenchData
<1>3. BenchLife' /\ BenchBytes' /\ BenchEnds'
  BY DEF BenchInv, Bench!KillConsumer, BenchLife, BenchPlaces, BenchBytes, BenchEnds
<1>4. BenchAnswer'
  <2>1. UNCHANGED <<ppc, answer, statusLost>> /\ child = "running"
    BY DEF Bench!KillConsumer
  <2>2. code # 0
    BY <2>1 DEF BenchInv, BenchBytes
  <2> QED
    BY <2>1, <2>2 DEF BenchInv, BenchAnswer
<1> QED
  BY <1>1, <1>2, <1>3, <1>4 DEF BenchInv

LEMMA BenchKillProducer == ASSUME Bench!CallAssumption, BenchInv, Bench!KillProducer PROVE BenchInv'
<1>1. BenchPlaces'
  BY DEF BenchInv, Bench!KillProducer, BenchPlaces
<1>2. BenchFlags' /\ BenchData'
  BY DEF BenchInv, Bench!KillProducer, BenchFlags, BenchData
<1>3. BenchLife' /\ BenchBytes' /\ BenchEnds' /\ BenchAnswer'
  BY DEF BenchInv, Bench!KillProducer, BenchLife, BenchPlaces, BenchBytes, BenchEnds, BenchAnswer
<1> QED
  BY <1>1, <1>2, <1>3 DEF BenchInv

-----------------------------------------------------------------------------
(* What holds of a benchmark.                                              *)

LEMMA BenchInit == ASSUME Bench!CallAssumption PROVE Bench!Init => BenchInv
<1> SUFFICES ASSUME Bench!Init PROVE BenchInv
  OBVIOUS
<1>1. BenchPlaces /\ BenchFlags
  BY KindAssumption DEF Bench!Init, BenchPlaces, BenchFlags
<1>2. BenchData
  <2>1. call \in [total : Totals, chunk : Chunks] /\ call.total \in Nat
    BY DEF Bench!Init, Bench!CallAssumption
  <2> QED
    BY <2>1, CapacityAssumption DEF Bench!Init, BenchData
<1>3. BenchLife /\ BenchBytes /\ BenchEnds /\ BenchAnswer
  BY DEF Bench!Init, BenchLife, BenchBytes, BenchEnds, BenchAnswer
<1> QED
  BY <1>1, <1>2, <1>3 DEF BenchInv

LEMMA BenchStutter == ASSUME BenchInv, UNCHANGED Bench!vars PROVE BenchInv'
BY DEF Bench!vars, BenchInv, BenchPlaces, BenchFlags, BenchData, BenchLife, BenchBytes, BenchEnds,
   BenchAnswer

LEMMA BenchNext ==
  ASSUME Bench!CallAssumption
  PROVE  BenchInv /\ [Bench!Next]_(Bench!vars) => BenchInv'
<1> SUFFICES ASSUME BenchInv, [Bench!Next]_(Bench!vars) PROVE BenchInv'
  OBVIOUS
<1>1. CASE Bench!Parent
  BY <1>1, BenchCreate, BenchListen, BenchFork, BenchMallocParent, BenchOpenFifo, BenchMeet,
     BenchWrite, BenchCloseEnd, BenchWaitChild, BenchFinish, BenchAbort DEF Bench!Parent
<1>2. CASE Bench!Child
  BY <1>2, BenchMallocChild, BenchOpenChild, BenchMeetChild, BenchRead, BenchExitChild,
     BenchEscapedExits DEF Bench!Child
<1>3. CASE Bench!KillConsumer
  BY <1>3, BenchKillConsumer
<1>4. CASE Bench!KillProducer
  BY <1>4, BenchKillProducer
<1> QED
  BY <1>1, <1>2, <1>3, <1>4, BenchStutter DEF Bench!Next

\* The invariant holds of every benchmark over a stream, whatever fails.
LEMMA BenchInvariant == ASSUME Bench!CallAssumption PROVE Bench!Spec => []BenchInv
BY BenchInit, BenchNext, PTL DEF Bench!Spec

\* However a benchmark over a pipe, FIFO or socket returns, it holds nothing,
\* and the one child it may leave has been sent nothing (pipe_ipc.c:43-49,
\* fifo_ipc.c:66-71, socket_ipc.c:89-95).
THEOREM StreamsLeaveOnlyOrphans ==
  ASSUME Bench!CallAssumption
  PROVE  Bench!Spec => []Bench!LeavesOnlyAnOrphan
<1>1. BenchInv => Bench!LeavesOnlyAnOrphan
  <2> SUFFICES ASSUME BenchInv PROVE Bench!LeavesOnlyAnOrphan
    OBVIOUS
  <2>1. sent \in Nat /\ received \in Nat /\ Bench!InFlight \in 0..Capacity
    BY CapacityAssumption, BenchCallTypes DEF BenchInv, BenchData, Bench!InFlight
  <2>2. Bench!TypeOK
    BY <2>1 DEF BenchInv, BenchPlaces, BenchFlags, BenchData, Bench!TypeOK
  <2> QED
    BY <2>2 DEF BenchInv, BenchLife, BenchEnds, Bench!LeavesOnlyAnOrphan
<1> QED
  BY <1>1, BenchInvariant, PTL

-----------------------------------------------------------------------------
(* A benchmark implements the abstract transfer.                           *)

\* A step that leaves the bytes and the answer alone is invisible, unless it
\* loses the status of a child after the answer.
LEMMA QuietStep ==
  ASSUME UNCHANGED <<call, sent, received, answer>>, answer = "ok" => statusLost' = statusLost
  PROVE  [Bench!T!Next]_(Bench!T!vars)
BY DEF Bench!T!vars

\* A step that at most answers "failed", or "ok" although the status of the
\* child was lost.
LEMMA FailStep ==
  ASSUME BenchInv, UNCHANGED <<call, sent, received>>, ppc # "returned",
         answer' \in {"failed", answer} \/ (answer' = "ok" /\ statusLost')
  PROVE  [Bench!T!Next]_(Bench!T!vars)
<1>1. answer = "pending"
  BY DEF BenchInv, BenchAnswer
<1> QED
  BY <1>1 DEF Bench!T!vars, Bench!T!Next, Bench!T!Fail

\* "ok" on an exit code of 0: the child read everything.
LEMMA FinishRefines == ASSUME BenchInv, Bench!Finish PROVE [Bench!T!Next]_(Bench!T!vars)
<1>1. /\ ppc = "finish" /\ UNCHANGED <<call, sent, received, statusLost>>
      /\ answer' = IF statusLost \/ code = 0 THEN "ok" ELSE "failed"
  BY DEF Bench!Finish
<1>2. CASE code = 0 /\ ~ statusLost
  <2>1. answer = "pending" /\ sent = call.total /\ received = call.total
    BY <1>1, <1>2 DEF BenchInv, BenchBytes, BenchAnswer
  <2> QED
    BY <1>1, <1>2, <2>1 DEF Bench!T!Next, Bench!T!Succeed, Bench!T!vars
<1>3. CASE code # 0 \/ statusLost
  <2>1. answer' = "failed" \/ (answer' = "ok" /\ statusLost')
    BY <1>1, <1>3
  <2> QED
    BY <1>1, <2>1, FailStep
<1> QED
  BY <1>2, <1>3

\* A write hands over at most what the kernel has room for.
LEMMA WriteRefines ==
  ASSUME Bench!CallAssumption, BenchInv, Bench!Write
  PROVE  [Bench!T!Next]_(Bench!T!vars)
<1>1. ppc = "write" /\ UNCHANGED <<call, received, answer, statusLost>>
  BY DEF Bench!Write
<1>2. CASE sent' = sent
  BY <1>1, <1>2, QuietStep
<1>3. CASE sent' # sent
  <2>1. PICK n \in 1..Room : sent' = sent + n
    BY <1>3 DEF Bench!Write
  <2>2. /\ n \in Nat \ {0} /\ sent + n =< call.total /\ sent + n - received =< Capacity
        /\ sent \in Nat /\ received \in Nat /\ call.total \in Nat /\ Capacity \in Nat
    BY BenchWriteFits, BenchCallTypes, CapacityAssumption DEF BenchInv, BenchData
  <2>3. n \in 1..(call.total - sent) /\ sent + n =< received + Capacity
    BY <2>2
  <2>4. answer = "pending"
    BY <1>1 DEF BenchInv, BenchAnswer
  <2> QED
    BY <1>1, <2>1, <2>3, <2>4 DEF Bench!T!Next, Bench!T!HandOver
<1> QED
  BY <1>2, <1>3

\* A read takes some of what is under way, while the call has not succeeded.
LEMMA ReadRefines ==
  ASSUME Bench!CallAssumption, BenchInv, Bench!Read
  PROVE  [Bench!T!Next]_(Bench!T!vars)
<1>1. child = "running" /\ UNCHANGED <<call, sent, answer, statusLost>>
  BY DEF Bench!Read
<1>2. CASE received' = received
  BY <1>1, <1>2, QuietStep
<1>3. CASE received' # received
  <2>1. PICK n \in 1..Bench!Least(Bench!InFlight, Bench!Wanted) : received' = received + n
    BY <1>3 DEF Bench!Read
  <2>2. n \in 1..(sent - received)
    BY BenchReadFits DEF BenchInv, BenchData
  <2>3. answer = "ok" => statusLost
    BY <1>1 DEF BenchInv, BenchBytes, BenchAnswer
  <2> QED
    BY <1>1, <2>1, <2>2, <2>3 DEF Bench!T!Next, Bench!T!Take
<1> QED
  BY <1>2, <1>3

LEMMA StepRefines ==
  ASSUME Bench!CallAssumption, BenchInv, [Bench!Next]_(Bench!vars)
  PROVE  [Bench!T!Next]_(Bench!T!vars)
<1>1. CASE UNCHANGED Bench!vars
  BY <1>1, QuietStep DEF Bench!vars
<1>2. CASE \/ Bench!Create \/ Bench!Listen \/ Bench!Fork
           \/ Bench!MallocParent \/ Bench!Abort \/ Bench!WaitChild
  <2>1. /\ UNCHANGED <<call, sent, received>> /\ ppc # "returned"
        /\ answer' \in {"failed", answer}
    BY <1>2 DEF Bench!Create, Bench!Listen, Bench!Fork, Bench!MallocParent, Bench!Abort,
       Bench!WaitChild
  <2> QED
    BY <2>1, FailStep
<1>3. CASE \/ Bench!OpenFifo \/ Bench!Meet \/ Bench!CloseEnd 
           \/ Bench!MallocChild \/ Bench!OpenChild \/ Bench!MeetChild
           \/ Bench!ExitChild \/ Bench!EscapedExits \/ Bench!KillConsumer \/ Bench!KillProducer
  <2>1. UNCHANGED <<call, sent, received, answer, statusLost>>
    BY <1>3 DEF Bench!OpenFifo, Bench!Meet, Bench!CloseEnd, Bench!MallocChild, Bench!OpenChild,
       Bench!MeetChild, Bench!ExitChild,
       Bench!EscapedExits, Bench!KillConsumer, Bench!KillProducer
  <2> QED
    BY <2>1, QuietStep
<1> QED
  BY <1>1, <1>2, <1>3, FinishRefines, WriteRefines, ReadRefines DEF Bench!Next, Bench!Parent,
     Bench!Child

LEMMA InitRefines == ASSUME Bench!CallAssumption, Bench!Init PROVE Bench!T!Init
<1>1. call.total \in Nat /\ Capacity \in Nat
  BY CapacityAssumption DEF Bench!Init, Bench!CallAssumption
<1> QED
  BY <1>1 DEF Bench!Init, Bench!T!Init

\* Every stream implements a transfer whose window is what the kernel buffers;
\* only a call whose waitpid failed may say "ok" wrongly (pipe_ipc.c:99-109,
\* fifo_ipc.c:140-151, socket_ipc.c:179-188).
THEOREM StreamsImplementTransfer ==
  ASSUME Bench!CallAssumption
  PROVE  Bench!Spec => Bench!IsTransfer
<1>1. Bench!Init => Bench!T!Init
  BY InitRefines
<1>2. BenchInv /\ [Bench!Next]_(Bench!vars) => [Bench!T!Next]_(Bench!T!vars)
  BY StepRefines
<1> QED
  BY <1>1, <1>2, BenchInvariant, PTL DEF Bench!Spec, Bench!IsTransfer, Bench!T!Spec
=============================================================================
