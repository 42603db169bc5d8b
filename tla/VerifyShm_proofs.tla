-------------------------- MODULE VerifyShm_proofs --------------------------
(***************************************************************************)
(* Proofs about VerifyShm for every payload, chunk and ring size and every *)
(* set of faults: a verdict is true, and a call leaves nothing behind.     *)
(* The slots between the reader and the writer carry the chunks that       *)
(* follow what the child has read; a byte changed on the way is in one of  *)
(* them or in the child's checksum, for ever.                              *)
(***************************************************************************)
EXTENDS VerifyShm, SequenceTheorems, TLAPS

BeforeSem == {"shm_open", "ftruncate", "mmap", "sem_empty"}
BeforeFork == BeforeSem \cup {"sem_full", "pipe", "fork"}
Looping == {"wait", "write", "post"}
WithChild == {"malloc", "report", "reap", "abort"} \cup Looping
ParentPlaces == BeforeFork \cup WithChild \cup {"returned", "killed"}

\* Slots that belong to a process that is between its wait and its post.
ParentHolds == IF ppc \in {"write", "post"} THEN 1 ELSE 0
ChildHolds == IF cpc \in {"read", "post"} THEN 1 ELSE 0

\* Slots that were posted and not read, and how many of them the parent has
\* filled beyond those.
Unread == full + IF cpc = "read" THEN 1 ELSE 0
Filled == IF ppc = "post" THEN 1 ELSE 0

\* The i-th slot from the one the child reads next.
At(i) == IF readIndex + i < Slots THEN readIndex + i ELSE readIndex + i - Slots

\* Where the i-th chunk after offset b starts, and how long the chunk at
\* offset o is: 0, a terminator, at the end of the payload.
StartFrom(b, i) ==
  IF b + i * call.chunk < call.payload THEN b + i * call.chunk ELSE call.payload
LengthAt(o) == IF call.payload - o < call.chunk THEN call.payload - o ELSE call.chunk

\* A slot carries the chunk at offset o, its first byte possibly changed.
Carries(slot, o) ==
  /\ slot.len = LengthAt(o)
  /\ slot.len > 0 => \/ slot.data = Pattern(o, slot.len)
                     \/ corrupted /\ slot.data = [Pattern(o, slot.len) EXCEPT ![1] = BadByte]

ShowsBadByte(slot) == slot.len > 0 /\ slot.data[1] = BadByte

HeldAt(p) ==
  CASE p \in {"shm_open", "returned"} -> {}
    [] p \in {"ftruncate", "mmap"} -> {"name", "fd"}
    [] p = "sem_empty" -> {"map"}
    [] p = "sem_full" -> {"map", "empty"}
    [] p \in {"pipe", "reap", "abort"} -> {"map", "empty", "full"}
    [] OTHER -> {"map", "empty", "full", "report"}

Reports == [bytes : Nat, hash : Seq(Bytes), success : BOOLEAN, sent : BOOLEAN]

\* The types, but for the bounds that CreditInv and DataInv give.
Types ==
  /\ kind \in Kinds /\ call \in [payload : Payloads, chunk : Chunks]
  /\ ppc \in ParentPlaces
  /\ held \subseteq {"name", "fd", "map", "empty", "full", "report"}
  /\ producerOk \in BOOLEAN /\ success \in BOOLEAN /\ corrupted \in BOOLEAN
  /\ total \in Nat /\ childTotal \in Nat /\ length \in Nat
  /\ hash \in Seq(Bytes) /\ childHash \in Seq(Bytes)
  /\ report \in Reports /\ reported \in Reports
  /\ answer \in {"pending", "pass", "fail", "error"}
  /\ cpc \in {"wait", "read", "post", "report", "exit"}
  /\ child \in {"none", "running", "zombie", "reaped"} /\ code \in {0, 1, KilledCode, NoCode}
  /\ empty \in Nat /\ full \in Nat
  /\ writeIndex \in 0..(Slots - 1) /\ readIndex \in 0..(Slots - 1)
  /\ slots \in [0..(Slots - 1) -> [data : Seq(Bytes), len : 0..call.chunk]]

\* No more credits than slots; the writer is as far ahead of the reader as
\* there are slots between them.
CreditInv ==
  /\ empty + full + ParentHolds + ChildHolds =< Slots
  /\ ppc \in BeforeSem => empty = 0
  /\ ppc \in BeforeFork \cup {"malloc"} => Unread = 0 /\ writeIndex = readIndex
  /\ ppc \in Looping => writeIndex = At(Unread + Filled)

\* What the child has read, what is between the two and what the parent has
\* published add up to a prefix of the payload.
DataInv ==
  /\ childTotal =< call.payload
  /\ total = StartFrom(childTotal, Unread)
  /\ \A i \in 0..(Unread + Filled - 1) : Carries(slots[At(i)], StartFrom(childTotal, i))
  /\ cpc = "post" /\ length = 0 => childTotal = call.payload
  /\ cpc \in {"report", "exit"} /\ success => childTotal = call.payload

\* The parent's checksum.
HashInv ==
  /\ producerOk /\ ppc # "killed" =>
       hash = Pattern(0, total + IF ppc = "post" THEN Current ELSE 0)
  /\ producerOk /\ ppc \in {"report", "reap"} => total = call.payload

\* The child's checksum, and where a changed byte is.
ContentInv ==
  /\ ~ corrupted => childHash = Pattern(0, childTotal)
  /\ corrupted => \/ \E k \in 1..Len(childHash) : childHash[k] = BadByte
                  \/ \E i \in 0..(Unread - 1) : ShowsBadByte(slots[At(i)])

\* The report is what the child knew when it was done; the parent has it or
\* nothing.
ReportInv ==
  /\ cpc = "exit" => report = [bytes |-> childTotal, hash |-> childHash,
                               success |-> success, sent |-> TRUE]
  /\ cpc # "exit" => report = NoReport
  /\ reported \in {NoReport, report}
  /\ cpc \in {"wait", "read", "post"} => success
  /\ code = 0 => cpc = "exit" /\ success

LifeInv ==
  /\ ppc \in BeforeFork => child = "none" /\ cpc = "wait" /\ total = 0
  /\ ppc = "malloc" => total = 0
  /\ ppc \in WithChild => child \in {"running", "zombie"}
  /\ ppc = "returned" => child \in {"none", "reaped"}
  /\ child \in {"none", "running"} => code = NoCode
  /\ ppc # "killed" => held = HeldAt(ppc)
  /\ child # "none" => "name" \notin held

AnswerInv ==
  /\ answer # "pending" => ppc = "returned"
  /\ answer \in {"pass", "fail"} => /\ child = "reaped" /\ code = 0
                                    /\ producerOk /\ total = call.payload
  /\ answer = "pass" => hash = childHash
  /\ answer = "fail" => corrupted

IInv == /\ Types
        /\ CreditInv
        /\ DataInv
        /\ HashInv
        /\ ContentInv
        /\ ReportInv
        /\ LifeInv
        /\ AnswerInv

USE DEF args, parentVars, producerVars, childVars, consumerVars, sharedVars, Return,
        ProducerFails, ChildMay, ChildFails, NoCode, KilledCode, BadByte, BeforeSem, BeforeFork,
        Looping, WithChild, ParentPlaces

-----------------------------------------------------------------------------
(* Arithmetic of the slots and of the chunks.                              *)

LEMMA CallTypes ==
  ASSUME Types
  PROVE  call.payload \in Nat \ {0} /\ call.chunk \in Nat \ {0} /\ Slots \in Nat \ {0}
<1>1. call.payload \in Nat \ {0} /\ call.chunk \in Nat \ {0}
  BY CallAssumption DEF Types
<1>2. Slots \in Nat \ {0}
  BY RingAssumption DEF Slots
<1> QED BY <1>1, <1>2

\* Going round the slots.
LEMMA AtFacts ==
  ASSUME Types
  PROVE  /\ \A i \in 0..Slots : At(i) \in 0..(Slots - 1)
         /\ At(0) = readIndex
         /\ \A i \in 0..(Slots - 1) : Advance(At(i)) = At(i + 1)
         /\ \A i, j \in 0..(Slots - 1) : At(i) = At(j) => i = j
<1> USE CallTypes
<1>1. readIndex \in 0..(Slots - 1)
  BY DEF Types
<1>2. \A j \in 0..(Slots - 1) : Advance(j) = IF j + 1 = Slots THEN 0 ELSE j + 1
  BY DEF Advance
<1> HIDE DEF Slots
<1> QED BY <1>1, <1>2 DEF At

\* When the child moves on, every other slot is one step nearer.
LEMMA AtMoves ==
  ASSUME Types, readIndex' = Advance(readIndex), kind' = kind, NEW i \in 0..(Slots - 1)
  PROVE  At(i)' = At(i + 1)
<1>1. Slots' = Slots /\ Slots \in Nat \ {0} /\ readIndex \in 0..(Slots - 1)
  BY CallTypes DEF Slots, Types
<1>2. readIndex' = IF readIndex + 1 = Slots THEN 0 ELSE readIndex + 1
  BY <1>1 DEF Advance
<1> QED BY <1>1, <1>2 DEF At

\* Where chunks start and end.
LEMMA StartFacts ==
  ASSUME Types, NEW b \in 0..call.payload
  PROVE  /\ StartFrom(b, 0) = b
         /\ \A i \in Nat : StartFrom(b, i) \in b..call.payload
         /\ \A i \in Nat : StartFrom(b, i + 1) = StartFrom(b, i) + LengthAt(StartFrom(b, i))
         /\ \A i \in Nat : StartFrom(StartFrom(b, 1), i) = StartFrom(b, i + 1)
<1>1. call.payload \in Nat /\ call.chunk \in Nat \ {0} /\ b \in Nat /\ b =< call.payload
  BY CallTypes
<1>2. \A i \in Nat : i * call.chunk \in Nat /\ (i + 1) * call.chunk = i * call.chunk + call.chunk
  BY <1>1
<1>3. 0 * call.chunk = 0 /\ 1 * call.chunk = call.chunk
  BY <1>1
<1>4. StartFrom(b, 0) = b
  BY <1>1, <1>3 DEF StartFrom
<1>5. ASSUME NEW i \in Nat
      PROVE  /\ StartFrom(b, i) \in b..call.payload
             /\ StartFrom(b, i + 1) = StartFrom(b, i) + LengthAt(StartFrom(b, i))
             /\ StartFrom(StartFrom(b, 1), i) = StartFrom(b, i + 1)
  <2> DEFINE m == i * call.chunk
             n == (i + 1) * call.chunk
  <2>1. m \in Nat /\ n = m + call.chunk /\ n \in Nat
    BY <1>2
  <2>2. /\ StartFrom(b, i) = IF b + m < call.payload THEN b + m ELSE call.payload
        /\ StartFrom(b, i + 1) = IF b + n < call.payload THEN b + n ELSE call.payload
        /\ StartFrom(b, 1) = IF b + call.chunk < call.payload THEN b + call.chunk ELSE call.payload
        /\ StartFrom(StartFrom(b, 1), i) =
             IF StartFrom(b, 1) + m < call.payload THEN StartFrom(b, 1) + m ELSE call.payload
    BY <1>3 DEF StartFrom
  <2> HIDE DEF m, n
  <2> QED BY <1>1, <2>1, <2>2 DEF LengthAt
<1> QED BY <1>4, <1>5

\* The length of a chunk, and that only the end of the payload has none.
LEMMA LengthFacts ==
  ASSUME Types, NEW o \in 0..call.payload
  PROVE  /\ LengthAt(o) \in 0..call.chunk /\ o + LengthAt(o) =< call.payload
         /\ LengthAt(o) = 0 <=> o = call.payload
BY CallTypes DEF LengthAt

LEMMA CurrentIs == Current = LengthAt(total)
BY DEF Current, LengthAt

-----------------------------------------------------------------------------
(* Bytes and checksums.                                                    *)

LEMMA PatternFacts ==
  ASSUME NEW o \in Nat, NEW n \in Nat
  PROVE  /\ Pattern(o, n) \in Seq(Bytes) /\ Len(Pattern(o, n)) = n
         /\ \A i \in 1..n : Pattern(o, n)[i] = o + i - 1
<1>1. \A i \in 1..n : o + i - 1 \in Bytes
  BY DEF Bytes
<1>2. Pattern(o, n) \in [1..n -> Bytes]
  BY <1>1 DEF Pattern
<1>3. Pattern(o, n) \in Seq(Bytes)
  BY <1>2
<1> QED BY <1>2, <1>3 DEF Pattern

LEMMA EmptyPattern == ASSUME NEW o \in Nat PROVE Pattern(o, 0) = <<>>
BY PatternFacts, EmptySeq

\* Checksums of adjoining pieces join.
LEMMA PatternJoins ==
  ASSUME NEW m \in Nat, NEW n \in Nat
  PROVE  Pattern(0, m) \o Pattern(m, n) = Pattern(0, m + n)
<1> DEFINE p == Pattern(0, m)
           q == Pattern(m, n)
           r == Pattern(0, m + n)
<1>1. /\ p \in Seq(Bytes) /\ Len(p) = m /\ \A i \in 1..m : p[i] = 0 + i - 1
      /\ q \in Seq(Bytes) /\ Len(q) = n /\ \A i \in 1..n : q[i] = m + i - 1
      /\ r \in Seq(Bytes) /\ Len(r) = m + n /\ \A i \in 1..(m + n) : r[i] = 0 + i - 1
  <2>1. 0 \in Nat /\ m + n \in Nat
    OBVIOUS
  <2> QED BY <2>1, PatternFacts, Zenon
<1> HIDE DEF p, q, r
<1>2. /\ p \o q \in Seq(Bytes) /\ Len(p \o q) = m + n
      /\ \A i \in 1..(m + n) : (p \o q)[i] = IF i =< m THEN p[i] ELSE q[i - m]
  BY <1>1, ConcatProperties
<1>3. \A i \in 1..(m + n) : (p \o q)[i] = r[i]
  <2> SUFFICES ASSUME NEW i \in 1..(m + n) PROVE (p \o q)[i] = i - 1
    BY <1>1
  <2>1. CASE i =< m
    BY <1>1, <1>2, <2>1
  <2>2. CASE ~ (i =< m)
    <3>1. i - m \in 1..n /\ q[i - m] = m + (i - m) - 1
      BY <1>1, <2>2
    <3>2. m + (i - m) - 1 = i - 1
      OBVIOUS
    <3>3. (p \o q)[i] = q[i - m]
      BY <1>2, <2>2
    <3> QED BY <3>1, <3>2, <3>3
  <2> QED BY <2>1, <2>2
<1>4. p \o q = r
  BY <1>1, <1>2, <1>3, SeqEqual
<1> QED BY <1>4 DEF p, q, r

\* The pattern has no changed byte in it.
LEMMA PatternIsClean ==
  ASSUME NEW o \in Nat, NEW n \in Nat, NEW i \in 1..n PROVE Pattern(o, n)[i] # BadByte
<1>1. Pattern(o, n)[i] = o + i - 1
  BY PatternFacts
<1>2. o + i - 1 # -1
  OBVIOUS
<1> QED BY <1>1, <1>2

-----------------------------------------------------------------------------
(* Facts used by several actions.                                          *)

\* Every credit is somewhere.
LEMMA CreditFacts ==
  ASSUME Types, CreditInv
  PROVE  /\ empty \in 0..Slots /\ full \in 0..Slots
         /\ Unread \in 0..Slots /\ Filled \in 0..1 /\ Unread + Filled \in 0..Slots
         /\ ppc \in {"write", "post"} => Unread =< Slots - 1
         /\ ppc = "wait" /\ empty > 0 => Unread =< Slots - 1
         /\ full > 0 => Unread > 0
         /\ cpc = "read" => Unread > 0
<1>1. Slots \in Nat \ {0} /\ empty \in Nat /\ full \in Nat
  BY CallTypes DEF Types
<1> HIDE DEF Slots
<1> QED BY <1>1 DEF CreditInv, ParentHolds, ChildHolds, Unread, Filled

\* A step that leaves the slots in flight and what was read alone.
LEMMA SameContents ==
  ASSUME IInv,
         UNCHANGED <<kind, call, total, childTotal, childHash, readIndex, slots, corrupted>>,
         Unread' = Unread, Filled' =< Filled,
         cpc' = "post" /\ length' = 0 => childTotal = call.payload,
         cpc' \in {"report", "exit"} /\ success' => childTotal = call.payload
  PROVE  DataInv' /\ ContentInv'
<1>1. \A i \in Nat : /\ At(i)' = At(i)
                     /\ StartFrom(childTotal, i)' = StartFrom(childTotal, i)
  BY DEF At, Slots, StartFrom
<1>2. \A slot, o : Carries(slot, o)' <=> Carries(slot, o)
  BY DEF Carries, LengthAt, Pattern
<1>3. Unread \in Nat /\ Filled \in 0..1 /\ Filled' \in 0..1
  BY CreditFacts DEF IInv, Filled
<1>4. ASSUME NEW i \in 0..(Unread + Filled' - 1)
      PROVE  Carries(slots[At(i)], StartFrom(childTotal, i))
  <2>1. \A u \in Nat, f, g \in 0..1 : f =< g => \A k \in 0..(u + f - 1) : k \in 0..(u + g - 1)
    OBVIOUS
  <2>2. i \in 0..(Unread + Filled - 1)
    BY <1>3, <2>1
  <2> QED BY <2>2 DEF IInv, DataInv
<1>5. DataInv'
  <2>1. \A i \in 0..(Unread' + Filled' - 1) :
          Carries(slots[At(i)], StartFrom(childTotal, i))'
    <3> SUFFICES ASSUME NEW i \in 0..(Unread + Filled' - 1)
                 PROVE  Carries(slots[At(i)], StartFrom(childTotal, i))'
      OBVIOUS
    <3>1. i \in Nat
      BY <1>3
    <3>2. slots'[At(i)'] = slots[At(i)] /\ StartFrom(childTotal, i)' = StartFrom(childTotal, i)
      BY <1>1, <3>1
    <3> QED BY <1>2, <1>4, <3>2
  <2>2. StartFrom(childTotal, Unread)' = StartFrom(childTotal, Unread)
    BY <1>1, <1>3
  <2> QED BY <2>1, <2>2 DEF IInv, DataInv
<1>6. ContentInv'
  <2>1. \A i \in 0..(Unread - 1) : ShowsBadByte(slots[At(i)])' <=> ShowsBadByte(slots[At(i)])
    BY <1>1, <1>3 DEF ShowsBadByte
  <2> QED BY <2>1 DEF IInv, ContentInv, Pattern
<1> QED BY <1>5, <1>6

\* A step of the parent outside its loop: slots, semaphores and child run on.
LEMMA ParentAside ==
  ASSUME IInv,
         UNCHANGED <<kind, call, total, hash, childTotal, childHash, length, readIndex, writeIndex,
                     slots, corrupted, full, cpc, success, report>>,
         empty' = empty, ppc' \notin BeforeSem \cup {"sem_full", "write", "post"},
         ppc' \in {"pipe", "fork", "malloc", "wait"} => ppc \in BeforeFork \cup {"malloc"}
  PROVE  CreditInv' /\ DataInv' /\ ContentInv'
<1>1. Unread' = Unread /\ Filled' = 0 /\ Filled \in 0..1
  BY DEF Unread, Filled
<1>2. DataInv' /\ ContentInv'
  <2>1. Filled' =< Filled
    BY <1>1
  <2> QED BY <1>1, <2>1, SameContents DEF IInv, DataInv
<1>3. CreditInv'
  <2>1. Slots' = Slots /\ At(0)' = readIndex /\ Slots \in Nat
    BY AtFacts, CallTypes DEF IInv, Slots, At
  <2>2. empty' + full' + ParentHolds' + ChildHolds' =< Slots'
    <3>1. ParentHolds \in 0..1 /\ ParentHolds' = 0 /\ ChildHolds' = ChildHolds /\ ChildHolds \in 0..1
      BY DEF ParentHolds, ChildHolds
    <3>2. empty + full + ParentHolds + ChildHolds =< Slots /\ empty \in Nat /\ full \in Nat
      BY DEF IInv, Types, CreditInv
    <3>3. empty + full + 0 + ChildHolds =< Slots
      BY <2>1, <3>1, <3>2
    <3> QED BY <2>1, <3>1, <3>3
  <2>3. ppc' \in BeforeFork \cup {"malloc"} => Unread' = 0 /\ writeIndex' = readIndex'
    BY <1>1 DEF IInv, CreditInv
  <2>4. ppc' \in Looping => writeIndex' = At(Unread + Filled)'
    <3>1. ppc' \in Looping => ppc' = "wait"
      OBVIOUS
    <3>2. ppc' = "wait" => Unread' = 0 /\ writeIndex' = readIndex
      BY <1>1 DEF IInv, CreditInv
    <3> QED BY <1>1, <2>1, <3>1, <3>2
  <2> QED BY <2>2, <2>3, <2>4 DEF CreditInv
<1> QED BY <1>2, <1>3

-----------------------------------------------------------------------------
(* IInv holds initially and is preserved by every action.                  *)

LEMMA InitInv == Init => IInv
<1> SUFFICES ASSUME Init PROVE IInv
  OBVIOUS
<1>1. Types
  <2>1. Slots \in Nat \ {0}
    BY RingAssumption DEF Slots
  <2>2. call.chunk \in Nat \ {0} /\ NoReport \in Reports
    BY CallAssumption, EmptySeq DEF Init, NoReport, Reports
  <2>3. 0 \in 0..(Slots - 1)
    BY <2>1
  <2>4. slots \in [0..(Slots - 1) -> [data : Seq(Bytes), len : 0..call.chunk]]
    BY <2>2, EmptySeq DEF Init
  <2> QED BY <2>2, <2>3, <2>4, EmptySeq DEF Init, Types
<1>2. Unread = 0 /\ Filled = 0 /\ call.payload \in Nat \ {0} /\ Slots \in Nat \ {0}
  BY <1>1, CallTypes DEF Init, Unread, Filled
<1>3. CreditInv
  BY <1>2 DEF Init, CreditInv, ParentHolds, ChildHolds
<1>4. DataInv
  BY <1>1, <1>2, StartFacts DEF Init, DataInv
<1>5. HashInv /\ ContentInv
  BY EmptyPattern DEF Init, HashInv, ContentInv
<1>6. ReportInv /\ LifeInv /\ AnswerInv
  BY DEF Init, ReportInv, LifeInv, AnswerInv, HeldAt
<1> QED BY <1>1, <1>3, <1>4, <1>5, <1>6 DEF IInv

LEMMA ForkInv == ASSUME IInv, Fork PROVE IInv'
<1>0. /\ ppc = "fork" /\ ppc' \in {"malloc", "returned"}
      /\ UNCHANGED <<kind, call, producerOk, reported, total, hash, writeIndex, cpc, code, success,
                     report, childTotal, childHash, length, readIndex, empty, full, slots, corrupted>>
      /\ ppc' = "malloc" => child' = "running" /\ UNCHANGED <<held, answer>>
      /\ ppc' = "returned" => child' = child /\ held' = {} /\ answer' = "error"
  BY DEF Fork
<1>1. Types'
  BY <1>0 DEF IInv, Types, Slots
<1>2. CreditInv' /\ DataInv' /\ ContentInv'
  BY <1>0, ParentAside
<1>3. HashInv'
  BY <1>0 DEF IInv, HashInv, Pattern, Current
<1>4. ReportInv'
  BY <1>0 DEF IInv, ReportInv
<1>5. LifeInv'
  BY <1>0 DEF IInv, LifeInv, HeldAt
<1>6. AnswerInv'
  BY <1>0 DEF IInv, Types, AnswerInv
<1> QED BY <1>1, <1>2, <1>3, <1>4, <1>5, <1>6 DEF IInv

LEMMA MallocParentInv == ASSUME IInv, MallocParent PROVE IInv'
<1>0. /\ ppc = "malloc" /\ ppc' \in {"wait", "abort"}
      /\ UNCHANGED <<kind, call, producerOk, reported, answer, total, hash, writeIndex, cpc, child,
                     code, success, report, childTotal, childHash, length, readIndex, empty, full,
                     slots, corrupted>>
      /\ ppc' = "wait" => held' = held
      /\ ppc' = "abort" => held' = held \ {"report"}
  BY DEF MallocParent
<1>1. Types'
  BY <1>0 DEF IInv, Types, Slots
<1>2. CreditInv' /\ DataInv' /\ ContentInv'
  BY <1>0, ParentAside
<1>3. HashInv'
  BY <1>0 DEF IInv, HashInv, Pattern, Current
<1>4. ReportInv'
  BY <1>0 DEF IInv, ReportInv
<1>5. LifeInv'
  BY <1>0 DEF IInv, LifeInv, HeldAt
<1>6. AnswerInv'
  BY <1>0 DEF IInv, Types, AnswerInv
<1> QED BY <1>1, <1>2, <1>3, <1>4, <1>5, <1>6 DEF IInv

LEMMA ReadReportInv == ASSUME IInv, ReadReport PROVE IInv'
<1>0. /\ ppc = "report" /\ ppc' = "reap" /\ reported' = report /\ held' = held \ {"report"}
      /\ UNCHANGED <<kind, call, producerOk, answer, total, hash, writeIndex, cpc, child, code, success,
                     report, childTotal, childHash, length, readIndex, empty, full, slots, corrupted>>
  BY DEF ReadReport
<1>1. Types'
  BY <1>0 DEF IInv, Types, Slots
<1>2. CreditInv' /\ DataInv' /\ ContentInv'
  BY <1>0, ParentAside
<1>3. HashInv'
  BY <1>0 DEF IInv, HashInv, Pattern, Current
<1>4. ReportInv'
  BY <1>0 DEF IInv, ReportInv
<1>5. LifeInv'
  BY <1>0 DEF IInv, LifeInv, HeldAt
<1>6. AnswerInv'
  BY <1>0 DEF IInv, Types, AnswerInv
<1> QED BY <1>1, <1>2, <1>3, <1>4, <1>5, <1>6 DEF IInv

LEMMA AbortInv == ASSUME IInv, Abort PROVE IInv'
<1>0. /\ ppc = "abort" /\ ppc' = "returned" /\ answer' = "error" /\ held' = {}
      /\ child = "zombie" /\ child' = "reaped"
      /\ UNCHANGED <<kind, call, producerOk, reported, total, hash, writeIndex, cpc, code, success,
                     report, childTotal, childHash, length, readIndex, empty, full, slots, corrupted>>
  BY DEF Abort
<1>1. Types'
  BY <1>0 DEF IInv, Types, Slots
<1>2. CreditInv' /\ DataInv' /\ ContentInv'
  BY <1>0, ParentAside
<1>3. HashInv'
  BY <1>0 DEF IInv, HashInv, Pattern, Current
<1>4. ReportInv'
  BY <1>0 DEF IInv, ReportInv
<1>5. LifeInv'
  BY <1>0 DEF IInv, LifeInv, HeldAt
<1>6. AnswerInv'
  BY <1>0 DEF IInv, Types, AnswerInv
<1> QED BY <1>1, <1>2, <1>3, <1>4, <1>5, <1>6 DEF IInv

LEMMA SetupStepInv == ASSUME NEW s \in DOMAIN SetupNext, IInv, SetupStep(s) PROVE IInv'
<1>0. /\ s \in {"shm_open", "ftruncate", "mmap", "sem_empty", "sem_full", "pipe"} /\ ppc = s
      /\ ppc' \in {"returned", "ftruncate", "mmap", "sem_empty", "sem_full", "pipe", "fork"}
      /\ UNCHANGED <<kind, call, producerOk, reported, total, hash, writeIndex, cpc, child, code,
                     success, report, childTotal, childHash, length, readIndex, full, slots,
                     corrupted>>
  BY DEF SetupStep, SetupNext
<1>a. /\ held' = HeldAt(ppc') /\ held' \subseteq {"name", "fd", "map", "empty", "full", "report"}
      /\ answer' = "pending" \/ (answer' = "error" /\ ppc' = "returned")
  <2>1. answer = "pending"
    BY <1>0 DEF IInv, Types, AnswerInv
  <2>2. CASE answer' = "error" /\ ppc' = "returned" /\ held' = {}
    BY <2>2 DEF HeldAt
  <2>3. CASE ppc' = SetupNext[s] /\ held' = SetupHolds[s] /\ UNCHANGED answer
    BY <1>0, <2>1, <2>3 DEF SetupNext, SetupHolds, HeldAt
  <2> QED BY <2>2, <2>3 DEF SetupStep
<1>b. empty' = empty \/ (s = "sem_empty" /\ ppc' = "sem_full" /\ empty' = Slots)
  BY <1>0 DEF SetupStep, SetupNext
<1>c. /\ Unread = 0 /\ child = "none" /\ cpc = "wait" /\ total = 0 /\ writeIndex = readIndex
      /\ Slots \in Nat /\ Slots' = Slots /\ full \in Nat /\ empty \in 0..Slots
      /\ ppc \in BeforeSem => empty = 0
      /\ answer = "pending"
  BY <1>0, CallTypes, CreditFacts DEF IInv, Types, CreditInv, LifeInv, AnswerInv, Slots
<1>d. Unread' = Unread /\ Filled' = 0 /\ Filled = 0 /\ ParentHolds' = 0 /\ ChildHolds' = 0 /\ full = 0
  BY <1>0, <1>c DEF Unread, Filled, ParentHolds, ChildHolds
<1>e. empty' \in 0..Slots /\ (ppc' \in BeforeSem => empty' = 0)
  <2>1. empty' \in 0..Slots
    BY <1>b, <1>c
  <2>2. ppc' \in BeforeSem => ppc \in BeforeSem /\ empty' = empty
    BY <1>0, <1>b DEF SetupStep, SetupNext
  <2> QED BY <1>c, <2>1, <2>2
<1>1. Types'
  <2>1. empty' \in Nat
    BY <1>c, <1>e
  <2> QED BY <1>0, <1>a, <1>c, <2>1 DEF IInv, Types
<1>2. CreditInv'
  <2>1. \A n \in Nat : \A e \in 0..n : e + 0 + 0 + 0 =< n
    OBVIOUS
  <2> QED BY <1>0, <1>c, <1>d, <1>e, <2>1 DEF CreditInv
<1>3. DataInv' /\ ContentInv'
  BY <1>0, <1>d, SameContents DEF IInv, DataInv
<1>4. HashInv'
  BY <1>0 DEF IInv, HashInv, Pattern
<1>5. ReportInv'
  BY <1>0 DEF IInv, ReportInv
<1>6. LifeInv'
  BY <1>0, <1>a, <1>c DEF IInv, LifeInv
<1>7. AnswerInv'
  BY <1>a DEF AnswerInv
<1> QED BY <1>1, <1>2, <1>3, <1>4, <1>5, <1>6, <1>7 DEF IInv

LEMMA KillProducerInv == ASSUME IInv, KillProducer PROVE IInv'
<1>0. /\ ppc # "returned" /\ ppc' = "killed" /\ held' = held \cap {"name"}
      /\ UNCHANGED <<kind, call, producerOk, reported, answer, total, hash, writeIndex, cpc, child, code,
                     success, report, childTotal, childHash, length, readIndex, empty, full, slots,
                     corrupted>>
  BY DEF KillProducer
<1>1. Types'
  BY <1>0 DEF IInv, Types, Slots
<1>2. CreditInv' /\ DataInv' /\ ContentInv'
  BY <1>0, ParentAside
<1>3. HashInv' /\ ReportInv'
  BY <1>0 DEF IInv, HashInv, ReportInv
<1>5. LifeInv'
  BY <1>0 DEF IInv, LifeInv
<1>6. AnswerInv'
  BY <1>0 DEF IInv, AnswerInv
<1> QED BY <1>1, <1>2, <1>3, <1>5, <1>6 DEF IInv

\* What a parent that got a good report knows.
LEMMA GoodReport ==
  ASSUME IInv, code = 0
  PROVE  /\ cpc = "exit" /\ childTotal = call.payload
         /\ report = [bytes |-> childTotal, hash |-> childHash, success |-> TRUE, sent |-> TRUE]
BY DEF IInv, ReportInv, DataInv, Types

\* Once the child has read the whole payload no slot on the way has a byte
\* in it.
LEMMA NothingOnTheWay ==
  ASSUME IInv, childTotal = call.payload, NEW i \in 0..(Unread - 1)
  PROVE  slots[At(i)].len = 0
<1>1. i \in Nat /\ i \in 0..(Unread + Filled - 1) /\ childTotal \in 0..call.payload
  BY CreditFacts, CallTypes DEF IInv, Types, DataInv, Filled
<1>2. StartFrom(childTotal, i) = call.payload /\ call.payload \in 0..call.payload
  <2>1. StartFrom(childTotal, i) \in childTotal..call.payload
    BY <1>1, StartFacts DEF IInv
  <2> QED BY <1>1, <2>1, CallTypes DEF IInv
<1>3. LengthAt(call.payload) = 0
  BY <1>2, LengthFacts DEF IInv
<1> QED BY <1>1, <1>2, <1>3 DEF IInv, DataInv, Carries

LEMMA VerdictInv == ASSUME IInv, Verdict PROVE IInv'
<1>0. /\ ppc = "reap" /\ ppc' = "returned" /\ held' = {}
      /\ child = "zombie" /\ child' = "reaped"
      /\ answer' \in {"pass", "fail", "error"}
      /\ UNCHANGED <<kind, call, producerOk, reported, total, hash, writeIndex, cpc, code, success,
                     report, childTotal, childHash, length, readIndex, empty, full, slots, corrupted>>
  BY DEF Verdict
<1>1. Types'
  BY <1>0 DEF IInv, Types, Slots
<1>2. CreditInv' /\ DataInv' /\ ContentInv'
  BY <1>0, ParentAside
<1>3. HashInv'
  BY <1>0 DEF IInv, HashInv, Pattern, Current
<1>4. ReportInv'
  BY <1>0 DEF IInv, ReportInv
<1>5. LifeInv'
  BY <1>0 DEF IInv, LifeInv, HeldAt
<1>6. ASSUME answer' \in {"pass", "fail"}
      PROVE  /\ code = 0 /\ producerOk /\ total = call.payload
             /\ answer' = "pass" => hash = childHash
             /\ answer' = "fail" => corrupted
  <2>1. /\ producerOk /\ reported.sent /\ code = 0
        /\ answer' = IF Passed THEN "pass" ELSE "fail"
    BY <1>6 DEF Verdict
  <2>2. /\ reported = [bytes |-> childTotal, hash |-> childHash, success |-> TRUE, sent |-> TRUE]
        /\ childTotal = call.payload
    <3>1. reported = report
      BY <2>1 DEF IInv, ReportInv, NoReport
    <3> QED BY <2>1, <3>1, GoodReport
  <2>3. total = call.payload /\ hash = Pattern(0, total + 0)
    BY <1>0, <2>1 DEF IInv, HashInv
  <2>4. ~ corrupted => Passed
    <3>1. hash = Pattern(0, call.payload)
      BY <2>3, CallTypes DEF IInv
    <3>2. ~ corrupted => childHash = Pattern(0, call.payload)
      BY <2>2 DEF IInv, ContentInv
    <3> QED BY <2>2, <2>3, <3>1, <3>2 DEF Passed
  <2>5. Passed => hash = childHash
    BY <2>2 DEF Passed
  <2> QED BY <2>1, <2>3, <2>4, <2>5
<1>7. AnswerInv'
  BY <1>0, <1>6 DEF AnswerInv
<1> QED BY <1>1, <1>2, <1>3, <1>4, <1>5, <1>7 DEF IInv

LEMMA WaitEmptyInv == ASSUME IInv, WaitEmpty PROVE IInv'
<1>0. /\ ppc = "wait"
      /\ UNCHANGED <<kind, call, held, reported, answer, total, hash, writeIndex, cpc, child, code,
                     success, report, childTotal, childHash, length, readIndex, full, slots, corrupted>>
      /\ \/ empty > 0 /\ empty' = empty - 1 /\ ppc' = "write" /\ producerOk' = producerOk
         \/ empty' = empty /\ ppc' = "report" /\ producerOk' = FALSE
  BY DEF WaitEmpty
<1>1. Types'
  <2>1. empty' \in Nat
    BY <1>0 DEF IInv, Types
  <2>2. ppc' \in {"write", "report"} /\ producerOk' \in BOOLEAN
    BY <1>0 DEF IInv, Types
  <2> QED BY <1>0, <2>1, <2>2 DEF IInv, Types, Slots
<1>a. Unread' = Unread /\ Filled' = 0 /\ Filled = 0
  BY <1>0 DEF Unread, Filled
<1>2. CreditInv'
  <2>1. Slots' = Slots /\ Slots \in Nat /\ At(Unread + Filled)' = At(Unread + Filled)
    BY <1>0, <1>a, CallTypes DEF IInv, Slots, At
  <2>2. /\ ParentHolds = 0 /\ ChildHolds \in 0..1 /\ ChildHolds' = ChildHolds
        /\ ppc' = "write" => ParentHolds' = 1
        /\ ppc' = "report" => ParentHolds' = 0
    BY <1>0 DEF ParentHolds, ChildHolds
  <2>3. empty' + full' + ParentHolds' + ChildHolds' =< Slots'
    <3>1. empty + full + 0 + ChildHolds =< Slots /\ empty \in Nat /\ full \in Nat
      BY <2>2 DEF IInv, Types, CreditInv
    <3> QED BY <1>0, <2>1, <2>2, <3>1
  <2> QED BY <1>0, <2>1, <2>3 DEF IInv, CreditInv
<1>3. DataInv' /\ ContentInv'
  BY <1>0, <1>a, SameContents DEF IInv, DataInv
<1>4. HashInv'
  BY <1>0 DEF IInv, HashInv, Pattern
<1>5. ReportInv'
  BY <1>0 DEF IInv, ReportInv
<1>6. LifeInv'
  BY <1>0 DEF IInv, LifeInv, HeldAt
<1>7. AnswerInv'
  BY <1>0 DEF IInv, AnswerInv
<1> QED BY <1>1, <1>2, <1>3, <1>4, <1>5, <1>6, <1>7 DEF IInv

\* The producer fills the slot after those in flight; none of them changes.
LEMMA WriteSlotInv == ASSUME IInv, WriteSlot PROVE IInv'
<1>0. /\ ppc = "write" /\ ppc' = "post"
      /\ hash' = hash \o Pattern(total, Current) /\ writeIndex' = Advance(writeIndex)
      /\ UNCHANGED <<kind, call, held, producerOk, reported, answer, total, cpc, child, code, success,
                     report, childTotal, childHash, length, readIndex, empty, full, corrupted>>
  BY DEF WriteSlot
<1>a. /\ Unread' = Unread /\ Filled' = 1 /\ Filled = 0 /\ Unread \in 0..(Slots - 1)
      /\ Slots' = Slots /\ Slots \in Nat \ {0}
  BY <1>0, CreditFacts, CallTypes DEF IInv, Unread, Filled, Slots
<1>b. /\ writeIndex = At(Unread) /\ writeIndex' = At(Unread + 1)
      /\ writeIndex \in 0..(Slots - 1) /\ writeIndex' \in 0..(Slots - 1)
      /\ \A i \in 0..(Unread - 1) : At(i) # writeIndex /\ At(i) \in 0..(Slots - 1)
  <2>1. writeIndex = At(Unread + 0)
    BY <1>0, <1>a DEF IInv, CreditInv
  <2>2. writeIndex = At(Unread)
    BY <1>a, <2>1
  <2>3. writeIndex' = At(Unread + 1)
    BY <1>0, <1>a, <2>2, AtFacts DEF IInv
  <2>4. \A i \in 0..(Unread - 1) : i \in 0..(Slots - 1) /\ i # Unread /\ i \in 0..Slots
    BY <1>a
  <2>5. Unread \in 0..Slots /\ Unread + 1 \in 0..Slots
    BY <1>a
  <2> QED BY <1>a, <2>2, <2>3, <2>4, <2>5, AtFacts DEF IInv
<1>c. /\ total \in 0..call.payload /\ total = StartFrom(childTotal, Unread)
      /\ Current = LengthAt(total) /\ Current \in 0..call.chunk /\ Current \in Nat /\ total \in Nat
      /\ childTotal \in 0..call.payload /\ call.payload \in Nat
  <2>1. childTotal \in 0..call.payload /\ total = StartFrom(childTotal, Unread) /\ Unread \in Nat
    BY <1>a, CallTypes DEF IInv, Types, DataInv
  <2>2. total \in childTotal..call.payload
    BY <2>1, StartFacts DEF IInv
  <2>3. total \in 0..call.payload
    BY <2>1, <2>2, CallTypes DEF IInv
  <2> QED BY <2>1, <2>3, LengthFacts, CurrentIs, CallTypes DEF IInv
<1>d. /\ slots'[writeIndex].len = Current
      /\ Current > 0 => slots'[writeIndex].data = Pattern(total, Current)
      /\ \A j \in 0..(Slots - 1) : j # writeIndex => slots'[j] = slots[j]
      /\ slots' \in [0..(Slots - 1) -> [data : Seq(Bytes), len : 0..call.chunk]]
  <2>1. slots \in [0..(Slots - 1) -> [data : Seq(Bytes), len : 0..call.chunk]]
    BY DEF IInv, Types
  <2> DEFINE d == IF Current > 0 THEN Pattern(total, Current) ELSE slots[writeIndex].data
  <2>2. d \in Seq(Bytes)
    BY <1>b, <1>c, <2>1, PatternFacts
  <2>3. slots' = [slots EXCEPT ![writeIndex].data = d, ![writeIndex].len = Current]
    BY DEF WriteSlot
  <2> HIDE DEF d
  <2>4. /\ slots'[writeIndex].len = Current /\ slots'[writeIndex].data = d
        /\ \A j \in 0..(Slots - 1) : j # writeIndex => slots'[j] = slots[j]
    BY <1>b, <2>1, <2>3
  <2>5. slots' \in [0..(Slots - 1) -> [data : Seq(Bytes), len : 0..call.chunk]]
    BY <1>b, <1>c, <2>1, <2>2, <2>3
  <2> QED BY <2>4, <2>5 DEF d
<1>1. Types'
  <2>1. hash' \in Seq(Bytes)
    BY <1>0, <1>c, PatternFacts, ConcatProperties DEF IInv, Types
  <2> QED BY <1>0, <1>a, <1>b, <1>d, <2>1 DEF IInv, Types
<1>2. CreditInv'
  <2>1. At(Unread + Filled)' = At(Unread + 1)
    BY <1>0, <1>a DEF At
  <2>2. ParentHolds' = ParentHolds /\ ChildHolds' = ChildHolds
    BY <1>0 DEF ParentHolds, ChildHolds
  <2> QED BY <1>0, <1>a, <1>b, <2>1, <2>2 DEF IInv, CreditInv
<1>3. \A i \in Nat : At(i)' = At(i) /\ StartFrom(childTotal, i)' = StartFrom(childTotal, i)
  BY <1>0 DEF At, Slots, StartFrom
<1>4. \A slot, o : Carries(slot, o)' <=> Carries(slot, o)
  BY <1>0 DEF Carries, LengthAt, Pattern
<1>5. DataInv'
  <2>1. ASSUME NEW i \in 0..(Unread + 1 - 1) PROVE Carries(slots'[At(i)], StartFrom(childTotal, i))
    <3>1. CASE i = Unread
      BY <1>b, <1>c, <1>d, <3>1 DEF Carries
    <3>2. CASE i # Unread
      <4>1. i \in 0..(Unread - 1) /\ i \in 0..(Unread + Filled - 1)
        BY <1>a, <3>2
      <4> QED BY <1>b, <1>d, <4>1 DEF IInv, DataInv
    <3> QED BY <3>1, <3>2
  <2>2. \A i \in 0..(Unread' + Filled' - 1) : Carries(slots[At(i)], StartFrom(childTotal, i))'
    <3> SUFFICES ASSUME NEW i \in 0..(Unread + 1 - 1)
                 PROVE  Carries(slots[At(i)], StartFrom(childTotal, i))'
      BY <1>a
    <3>1. i \in Nat
      BY <1>a
    <3> QED BY <1>3, <1>4, <2>1, <3>1
  <2>3. StartFrom(childTotal, Unread)' = StartFrom(childTotal, Unread)
    BY <1>3, <1>a
  <2> QED BY <1>0, <2>2, <2>3 DEF IInv, DataInv
<1>6. HashInv'
  <2>1. producerOk => hash = Pattern(0, total)
    BY <1>0, <1>c DEF IInv, HashInv
  <2>2. Pattern(0, total) \o Pattern(total, Current) = Pattern(0, total + Current)
    BY <1>c, PatternJoins
  <2>3. Current' = Current /\ Pattern(0, total + Current)' = Pattern(0, total + Current)
    BY <1>0 DEF Current, Pattern
  <2>4. producerOk' => hash' = Pattern(0, total' + Current')
    BY <1>0, <2>1, <2>2, <2>3
  <2> QED BY <1>0, <2>4 DEF HashInv, Pattern
<1>7. ContentInv'
  <2>1. \A i \in 0..(Unread - 1) : ShowsBadByte(slots[At(i)])' <=> ShowsBadByte(slots[At(i)])
    <3> SUFFICES ASSUME NEW i \in 0..(Unread - 1)
                 PROVE  slots'[At(i)'] = slots[At(i)]
      BY DEF ShowsBadByte
    <3>1. i \in Nat
      BY <1>a
    <3> QED BY <1>3, <1>b, <1>d, <3>1
  <2> QED BY <1>0, <1>a, <2>1 DEF IInv, ContentInv, Pattern
<1>8. ReportInv' /\ LifeInv' /\ AnswerInv'
  BY <1>0 DEF IInv, ReportInv, LifeInv, AnswerInv, HeldAt
<1> QED BY <1>1, <1>2, <1>5, <1>6, <1>7, <1>8 DEF IInv

\* A post hands the filled slot over; the post of a terminator is the last.
LEMMA PostFullInv == ASSUME IInv, PostFull PROVE IInv'
<1>0. /\ ppc = "post" /\ ppc' \in {"wait", "report"}
      /\ UNCHANGED <<kind, call, held, reported, answer, hash, writeIndex, cpc, child, code, success,
                     report, childTotal, childHash, length, readIndex, empty, slots, corrupted>>
      /\ \/ /\ full' = full + 1 /\ total' = total + Current /\ producerOk' = producerOk
            /\ ppc' = IF Current = 0 THEN "report" ELSE "wait"
         \/ UNCHANGED <<full, total>> /\ producerOk' = FALSE /\ ppc' = "report"
  BY DEF PostFull
<1>a. /\ Filled' = 0 /\ Filled = 1 /\ Unread \in 0..(Slots - 1)
      /\ Slots' = Slots /\ Slots \in Nat \ {0} /\ full \in Nat /\ empty \in Nat
      /\ ParentHolds = 1 /\ ParentHolds' = 0 /\ ChildHolds \in 0..1 /\ ChildHolds' = ChildHolds
      /\ empty + full + 1 + ChildHolds =< Slots
  <2>1. Filled' = 0 /\ Filled = 1 /\ ParentHolds = 1 /\ ParentHolds' = 0
    BY <1>0 DEF Filled, ParentHolds
  <2>2. ChildHolds \in 0..1 /\ ChildHolds' = ChildHolds /\ Slots' = Slots
    BY <1>0 DEF ChildHolds, Slots
  <2> QED BY <1>0, <2>1, <2>2, CreditFacts, CallTypes DEF IInv, Types, CreditInv
<1>b. /\ \A i \in Nat : At(i)' = At(i) /\ StartFrom(childTotal, i)' = StartFrom(childTotal, i)
      /\ \A slot, o : Carries(slot, o)' <=> Carries(slot, o)
  BY <1>0 DEF At, Slots, StartFrom, Carries, LengthAt, Pattern
<1>1. ReportInv' /\ LifeInv' /\ AnswerInv'
  BY <1>0 DEF IInv, ReportInv, LifeInv, AnswerInv, HeldAt
<1>2. CASE producerOk' = FALSE /\ UNCHANGED <<full, total>> /\ ppc' = "report"
  <2>1. Types'
    BY <1>0, <1>2 DEF IInv, Types, Slots
  <2>2. Unread' = Unread /\ Filled' =< Filled
    BY <1>0, <1>2, <1>a DEF Unread
  <2>3. CreditInv'
    <3>1. empty' + full' + ParentHolds' + ChildHolds' =< Slots'
      BY <1>0, <1>2, <1>a
    <3> QED BY <1>2, <3>1 DEF CreditInv
  <2>4. DataInv' /\ ContentInv'
    BY <1>0, <1>2, <2>2, SameContents DEF IInv, DataInv
  <2>5. HashInv'
    BY <1>2 DEF HashInv
  <2> QED BY <1>1, <2>1, <2>3, <2>4, <2>5 DEF IInv
<1>3. CASE /\ full' = full + 1 /\ total' = total + Current /\ producerOk' = producerOk
           /\ ppc' = IF Current = 0 THEN "report" ELSE "wait"
  <2>a. Unread' = Unread + 1 /\ Unread \in Nat
    BY <1>0, <1>3, <1>a DEF Unread
  <2>b. /\ childTotal \in 0..call.payload /\ total = StartFrom(childTotal, Unread)
        /\ total \in 0..call.payload /\ total \in Nat
        /\ Current = LengthAt(total) /\ Current \in Nat
        /\ total' = StartFrom(childTotal, Unread + 1)
        /\ Current = 0 => total' = call.payload
    <3>1. childTotal \in 0..call.payload /\ total = StartFrom(childTotal, Unread)
      BY CallTypes DEF IInv, Types, DataInv
    <3>2. total \in 0..call.payload /\ total \in Nat
      <4>1. total \in childTotal..call.payload
        BY <3>1, <2>a, StartFacts DEF IInv
      <4> QED BY <3>1, <4>1, CallTypes DEF IInv
    <3>3. Current = LengthAt(total) /\ Current \in Nat /\ (Current = 0 => total = call.payload)
      BY <3>2, LengthFacts, CurrentIs, CallTypes DEF IInv
    <3>4. total' = StartFrom(childTotal, Unread + 1)
      BY <1>3, <2>a, <3>1, <3>3, StartFacts DEF IInv
    <3>5. Current = 0 => total' = call.payload
      BY <1>3, <3>2, <3>3
    <3> QED BY <3>1, <3>2, <3>3, <3>4, <3>5
  <2>1. Types'
    <3>1. full' \in Nat /\ total' \in Nat
      BY <1>3, <1>a, <2>b
    <3> QED BY <1>0, <1>3, <3>1 DEF IInv, Types, Slots
  <2>2. CreditInv'
    <3>1. empty' + full' + ParentHolds' + ChildHolds' =< Slots'
      BY <1>0, <1>3, <1>a
    <3>2. writeIndex' = At(Unread + Filled)'
      <4>1. writeIndex = At(Unread + 1)
        BY <1>0, <1>a DEF IInv, CreditInv
      <4>2. At(Unread + Filled)' = At(Unread + 1)
        BY <1>0, <1>a, <2>a DEF At
      <4> QED BY <1>0, <4>1, <4>2
    <3> QED BY <1>0, <3>1, <3>2 DEF CreditInv
  <2>3. DataInv'
    <3>1. \A i \in 0..(Unread' + Filled' - 1) : Carries(slots[At(i)], StartFrom(childTotal, i))'
      <4> SUFFICES ASSUME NEW i \in 0..(Unread + Filled - 1)
                   PROVE  Carries(slots[At(i)], StartFrom(childTotal, i))'
        BY <1>a, <2>a
      <4>1. i \in Nat
        BY <1>a, <2>a
      <4>2. Carries(slots[At(i)], StartFrom(childTotal, i))
        BY DEF IInv, DataInv
      <4> QED BY <1>0, <1>b, <4>1, <4>2
    <3>2. StartFrom(childTotal, Unread)' = StartFrom(childTotal, Unread + 1)
      BY <1>0, <2>a DEF StartFrom
    <3> QED BY <1>0, <2>b, <3>1, <3>2 DEF IInv, DataInv
  <2>4. HashInv'
    <3>1. producerOk => hash = Pattern(0, total + Current)
      BY <1>0 DEF IInv, HashInv
    <3>2. total' = total' + 0 /\ total' \in Nat
      BY <1>3, <2>b
    <3>3. producerOk' => hash' = Pattern(0, total' + 0)
      BY <1>0, <1>3, <3>1, <3>2
    <3>4. ppc' = "report" => total' = call'.payload
      BY <1>0, <1>3, <2>b
    <3>5. (IF ppc' = "post" THEN Current' ELSE 0) = 0
      BY <1>0
    <3>6. producerOk' => hash' = Pattern(0, total' + IF ppc' = "post" THEN Current' ELSE 0)
      BY <3>3, <3>5, Zenon
    <3> QED BY <1>0, <3>4, <3>6 DEF HashInv
  <2>5. ContentInv'
    <3>1. \A i \in 0..(Unread - 1) : i \in 0..(Unread' - 1) /\ i \in Nat
      BY <2>a
    <3>2. \A i \in 0..(Unread - 1) : ShowsBadByte(slots[At(i)]) => ShowsBadByte(slots[At(i)])'
      BY <1>0, <1>b, <3>1 DEF ShowsBadByte
    <3> QED BY <1>0, <3>1, <3>2 DEF IInv, ContentInv, Pattern
  <2> QED BY <1>1, <2>1, <2>2, <2>3, <2>4, <2>5 DEF IInv
<1> QED BY <1>0, <1>2, <1>3

\* A step of the child that leaves the slots in flight alone, and at most
\* gives a credit back or keeps it for ever.
LEMMA ChildAside ==
  ASSUME IInv,
         UNCHANGED <<kind, call, ppc, held, producerOk, reported, answer, total, hash, writeIndex,
                     childTotal, childHash, length, readIndex, slots, corrupted>>,
         cpc' = "post" => cpc = "post",
         empty' \in Nat, full' \in Nat, Unread' = Unread,
         empty' + full' + ChildHolds' =< empty + full + ChildHolds,
         cpc' \in {"report", "exit"} /\ success' => childTotal = call.payload,
         child # "none"
  PROVE  CreditInv' /\ DataInv' /\ HashInv' /\ ContentInv'
<1>1. Filled' = Filled /\ ParentHolds' = ParentHolds /\ ParentHolds \in 0..1 /\ Slots' = Slots
  BY DEF Filled, ParentHolds, Slots
<1>2. CreditInv'
  <2>1. ChildHolds \in 0..1 /\ ChildHolds' \in 0..1
    BY DEF ChildHolds
  <2>2. empty + full + ParentHolds + ChildHolds =< Slots /\ empty \in Nat /\ full \in Nat /\ Slots \in Nat
    BY CallTypes DEF IInv, Types, CreditInv
  <2>3. empty' + full' + ParentHolds' + ChildHolds' =< Slots'
    <3> DEFINE e == empty'
               f == full'
               h == ParentHolds
               c == ChildHolds'
    <3>1. e \in Nat /\ f \in Nat /\ h \in 0..1 /\ c \in 0..1
      BY <1>1, <2>1
    <3>2. e + f + c =< empty + full + ChildHolds
      OBVIOUS
    <3> HIDE DEF e, f, h, c
    <3>3. e + f + h + c =< Slots
      <4>1. empty + full + h + ChildHolds =< Slots
        BY <2>2 DEF h
      <4> QED BY <2>1, <2>2, <3>1, <3>2, <4>1
    <3> QED BY <1>1, <3>3 DEF e, f, h, c
  <2>4. ppc' \notin BeforeFork
    BY DEF IInv, LifeInv
  <2>5. At(Unread + Filled)' = At(Unread + Filled)
    BY <1>1 DEF At
  <2> QED BY <1>1, <2>3, <2>4, <2>5 DEF IInv, CreditInv
<1>3. DataInv' /\ ContentInv'
  <2>1. Filled' =< Filled
    BY <1>1 DEF Filled
  <2>2. cpc' = "post" /\ length' = 0 => childTotal = call.payload
    BY DEF IInv, DataInv
  <2> QED BY <2>1, <2>2, SameContents
<1>4. HashInv'
  BY DEF IInv, HashInv, Pattern, Current
<1> QED BY <1>2, <1>3, <1>4

LEMMA WaitFullInv == ASSUME IInv, WaitFull PROVE IInv'
<1>0. /\ cpc = "wait" /\ child = "running"
      /\ UNCHANGED <<kind, call, ppc, held, producerOk, reported, answer, total, hash, writeIndex,
                     child, code, report, childTotal, childHash, length, readIndex, empty, slots,
                     corrupted>>
      /\ \/ full > 0 /\ full' = full - 1 /\ cpc' = "read" /\ success' = success
         \/ full' = full /\ cpc' = "report" /\ success' = FALSE
  BY DEF WaitFull
<1>a. full \in Nat /\ empty \in Nat /\ success \in BOOLEAN
  BY DEF IInv, Types
<1>b. success' \in BOOLEAN /\ cpc' \in {"read", "report"}
  BY <1>0, <1>a
<1>d. full' \in Nat /\ Unread' = Unread
  BY <1>0, <1>a DEF Unread
<1>c. empty' + full' + ChildHolds' =< empty + full + ChildHolds
  BY <1>0, <1>a DEF ChildHolds
<1>1. CreditInv' /\ DataInv' /\ HashInv' /\ ContentInv'
  BY <1>0, <1>a, <1>b, <1>c, <1>d, ChildAside
<1>2. Types'
  BY <1>0, <1>b, <1>d DEF IInv, Types, Slots
<1>3. ReportInv' /\ LifeInv' /\ AnswerInv'
  BY <1>0 DEF IInv, ReportInv, LifeInv, AnswerInv, HeldAt
<1> QED BY <1>1, <1>2, <1>3 DEF IInv

LEMMA PostEmptyInv == ASSUME IInv, PostEmpty PROVE IInv'
<1>0. /\ cpc = "post" /\ child = "running"
      /\ UNCHANGED <<kind, call, ppc, held, producerOk, reported, answer, total, hash, writeIndex,
                     child, code, report, childTotal, childHash, length, readIndex, full, slots,
                     corrupted>>
      /\ \/ /\ empty' = empty + 1 /\ success' = success
            /\ cpc' = IF length = 0 THEN "report" ELSE "wait"
         \/ empty' = empty /\ cpc' = "report" /\ success' = (kind = "shm" /\ length = 0)
  BY DEF PostEmpty
<1>a. full \in Nat /\ empty \in Nat /\ success \in BOOLEAN /\ length \in Nat
  BY DEF IInv, Types
<1>b. /\ success' \in BOOLEAN /\ cpc' \in {"wait", "report"}
      /\ cpc' = "report" /\ success' => length = 0
  BY <1>0, <1>a
<1>e. empty' \in Nat /\ Unread' = Unread
  BY <1>0, <1>a, <1>b DEF Unread
<1>c. empty' + full' + ChildHolds' =< empty + full + ChildHolds
  <2>1. ChildHolds = 1 /\ ChildHolds' = 0
    BY <1>0, <1>b DEF ChildHolds
  <2>2. (empty' = empty \/ empty' = empty + 1) /\ full' = full
    BY <1>0
  <2>3. empty' + full + 0 =< empty + full + 1
    BY <1>a, <2>2
  <2> QED BY <2>1, <2>2, <2>3
<1>d. cpc' \in {"report", "exit"} /\ success' => childTotal = call.payload
  BY <1>0, <1>b DEF IInv, DataInv
<1>1. CreditInv' /\ DataInv' /\ HashInv' /\ ContentInv'
  BY <1>0, <1>a, <1>b, <1>c, <1>d, <1>e, ChildAside
<1>2. Types'
  BY <1>0, <1>b, <1>e DEF IInv, Types, Slots
<1>3. ReportInv' /\ LifeInv' /\ AnswerInv'
  BY <1>0 DEF IInv, ReportInv, LifeInv, AnswerInv, HeldAt
<1> QED BY <1>1, <1>2, <1>3 DEF IInv

LEMMA ReportStepInv == ASSUME IInv, Report PROVE IInv'
<1>0. /\ cpc = "report" /\ child = "running"
      /\ UNCHANGED <<kind, call, ppc, held, producerOk, reported, answer, total, hash, writeIndex,
                     success, childTotal, childHash, length, readIndex, empty, full, slots,
                     corrupted>>
      /\ \/ child' = "zombie" /\ code' = KilledCode /\ UNCHANGED <<cpc, report>>
         \/ /\ report' = [bytes |-> childTotal, hash |-> childHash, success |-> success,
                          sent |-> TRUE]
            /\ cpc' = "exit" /\ UNCHANGED <<child, code>>
  BY DEF Report
<1>a. full \in Nat /\ empty \in Nat /\ cpc' \in {"report", "exit"}
  BY <1>0 DEF IInv, Types
<1>b. Unread' = Unread /\ ChildHolds' = 0 /\ ChildHolds = 0
  BY <1>0, <1>a DEF ChildHolds, Unread
<1>c. empty' + full' + ChildHolds' =< empty + full + ChildHolds
  BY <1>0, <1>a, <1>b
<1>d. cpc' \in {"report", "exit"} /\ success' => childTotal = call.payload
  BY <1>0 DEF IInv, DataInv
<1>1. CreditInv' /\ DataInv' /\ HashInv' /\ ContentInv'
  BY <1>0, <1>a, <1>b, <1>c, <1>d, ChildAside
<1>2. Types'
  <2>1. [bytes |-> childTotal, hash |-> childHash, success |-> success, sent |-> TRUE] \in Reports
    BY DEF IInv, Types, Reports
  <2>2. report' \in Reports
    BY <1>0, <2>1 DEF IInv, Types
  <2> QED BY <1>0, <1>a, <2>2 DEF IInv, Types, Slots
<1>3. ReportInv'
  <2>1. report = NoReport /\ reported = NoReport /\ code # 0
    BY <1>0 DEF IInv, ReportInv
  <2> QED BY <1>0, <1>a, <2>1 DEF ReportInv, NoReport
<1>4. LifeInv' /\ AnswerInv'
  BY <1>0 DEF IInv, LifeInv, AnswerInv, HeldAt
<1> QED BY <1>1, <1>2, <1>3, <1>4 DEF IInv

\* The end of the child: its own, or a signal's.
LEMMA ChildEnds ==
  ASSUME IInv, child = "running", child' = "zombie", code' \in {0, 1, KilledCode},
         code' = 0 => cpc = "exit" /\ success,
         UNCHANGED <<kind, call, ppc, held, producerOk, reported, answer, total, hash, writeIndex,
                     cpc, success, report, childTotal, childHash, length, readIndex, empty, full,
                     slots, corrupted>>
  PROVE  IInv'
<1>a. full \in Nat /\ empty \in Nat
  BY DEF IInv, Types
<1>b. Unread' = Unread /\ ChildHolds' = ChildHolds /\ ChildHolds \in 0..1
  BY DEF ChildHolds, Unread
<1>c. empty' + full' + ChildHolds' =< empty + full + ChildHolds
  BY <1>a, <1>b
<1>d. cpc' \in {"report", "exit"} /\ success' => childTotal = call.payload
  BY DEF IInv, DataInv
<1>1. CreditInv' /\ DataInv' /\ HashInv' /\ ContentInv'
  BY <1>a, <1>b, <1>c, <1>d, ChildAside
<1>2. Types'
  BY DEF IInv, Types, Slots
<1>3. ReportInv'
  BY DEF IInv, ReportInv
<1>4. LifeInv' /\ AnswerInv'
  BY DEF IInv, LifeInv, AnswerInv, HeldAt
<1> QED BY <1>1, <1>2, <1>3, <1>4 DEF IInv

LEMMA ExitChildInv == ASSUME IInv, ExitChild PROVE IInv'
<1>1. /\ child = "running" /\ child' = "zombie" /\ code' \in {0, 1}
      /\ code' = 0 => cpc = "exit" /\ success
      /\ UNCHANGED <<kind, call, ppc, held, producerOk, reported, answer, total, hash, writeIndex,
                     cpc, success, report, childTotal, childHash, length, readIndex, empty, full,
                     slots, corrupted>>
  BY DEF ExitChild
<1> QED BY <1>1, ChildEnds

LEMMA KillConsumerInv == ASSUME IInv, KillConsumer PROVE IInv'
<1>1. /\ child = "running" /\ child' = "zombie" /\ code' = KilledCode
      /\ UNCHANGED <<kind, call, ppc, held, producerOk, reported, answer, total, hash, writeIndex,
                     cpc, success, report, childTotal, childHash, length, readIndex, empty, full,
                     slots, corrupted>>
  BY DEF KillConsumer
<1> QED BY <1>1, ChildEnds

\* The child reads the chunk that follows what it has read.
LEMMA ReadSlotInv == ASSUME IInv, ReadSlot PROVE IInv'
<1> DEFINE s == slots[readIndex]
           piece == IF s.len > 0 THEN s.data ELSE <<>>
<1>0. /\ cpc = "read" /\ cpc' = "post" /\ child = "running"
      /\ length' = s.len /\ childHash' = childHash \o piece /\ childTotal' = childTotal + s.len
      /\ readIndex' = Advance(readIndex)
      /\ UNCHANGED <<kind, call, ppc, held, producerOk, reported, answer, total, hash, writeIndex,
                     child, code, success, report, empty, full, slots, corrupted>>
  BY DEF ReadSlot
<1>a. /\ Unread = full + 1 /\ Unread' = full /\ full \in Nat /\ empty \in Nat
      /\ Filled' = Filled /\ Filled \in 0..1 /\ Unread + Filled \in 0..Slots
      /\ Slots' = Slots /\ Slots \in Nat \ {0}
  <2>1. Unread = full + 1 /\ Unread' = full /\ Filled' = Filled /\ Filled \in 0..1 /\ Slots' = Slots
    BY <1>0 DEF Unread, Filled, Slots, IInv, Types
  <2> QED BY <2>1, CreditFacts, CallTypes DEF IInv, Types
<1>b. /\ At(0) = readIndex /\ readIndex \in 0..(Slots - 1) /\ readIndex' \in 0..(Slots - 1)
      /\ \A i \in 0..(full + Filled) : At(i)' = At(i + 1)
  <2>1. \A i \in 0..(full + Filled) : i \in 0..(Slots - 1)
    BY <1>a
  <2>2. At(0) = readIndex /\ readIndex \in 0..(Slots - 1)
    BY AtFacts DEF IInv, Types
  <2>3. \A i \in 0..(full + Filled) : At(i)' = At(i + 1)
    BY <1>0, <2>1, AtMoves DEF IInv
  <2>4. readIndex' \in 0..(Slots - 1)
    BY <1>0, <1>a, <2>2 DEF Advance
  <2> QED BY <2>2, <2>3, <2>4
<1>c. /\ childTotal \in 0..call.payload /\ childTotal \in Nat /\ Carries(s, childTotal)
      /\ s.len \in 0..call.chunk /\ s.len \in Nat /\ s.data \in Seq(Bytes)
      /\ s.len = LengthAt(childTotal)
      /\ childTotal' = StartFrom(childTotal, 1) /\ childTotal' \in 0..call.payload
      /\ s.len = 0 => childTotal = call.payload
  <2>1. childTotal \in 0..call.payload /\ childTotal \in Nat
    BY CallTypes DEF IInv, Types, DataInv
  <2>2. StartFrom(childTotal, 0) = childTotal
    BY <2>1, StartFacts DEF IInv
  <2>3. Carries(s, childTotal)
    <3>1. 0 \in 0..(Unread + Filled - 1)
      BY <1>a
    <3> QED BY <1>b, <2>2, <3>1 DEF IInv, DataInv
  <2>4. s.len \in 0..call.chunk /\ s.data \in Seq(Bytes)
    BY <1>b DEF IInv, Types
  <2>5. s.len = LengthAt(childTotal) /\ (s.len = 0 => childTotal = call.payload) /\ s.len \in Nat
    BY <2>1, <2>3, <2>4, LengthFacts, CallTypes DEF IInv, Carries
  <2>6. StartFrom(childTotal, 0 + 1) = childTotal + s.len
    BY <2>1, <2>2, <2>5, StartFacts DEF IInv
  <2>7. childTotal' = StartFrom(childTotal, 1)
    BY <1>0, <2>6
  <2>8. childTotal' \in 0..call.payload
    BY <1>0, <2>1, <2>5, LengthFacts, CallTypes DEF IInv
  <2> QED BY <2>1, <2>3, <2>4, <2>5, <2>7, <2>8
<1>d. /\ piece \in Seq(Bytes) /\ childHash \in Seq(Bytes) /\ childHash' \in Seq(Bytes)
      /\ Len(piece) \in Nat /\ Len(childHash) \in Nat /\ Len(childHash') = Len(childHash) + Len(piece)
      /\ \A k \in 1..Len(childHash) : childHash'[k] = childHash[k]
      /\ \A k \in 1..Len(piece) : childHash'[Len(childHash) + k] = piece[k]
  <2>1. piece \in Seq(Bytes) /\ childHash \in Seq(Bytes)
    BY <1>c, EmptySeq DEF IInv, Types
  <2> HIDE DEF piece
  <2>2. /\ childHash' \in Seq(Bytes) /\ Len(childHash') = Len(childHash) + Len(piece)
        /\ \A k \in 1..(Len(childHash) + Len(piece)) :
             childHash'[k] = IF k =< Len(childHash) THEN childHash[k] ELSE piece[k - Len(childHash)]
    BY <1>0, <2>1, ConcatProperties
  <2>3. Len(piece) \in Nat /\ Len(childHash) \in Nat
    BY <2>1, LenProperties
  <2>4. \A k \in 1..Len(childHash) : childHash'[k] = childHash[k]
    BY <2>2, <2>3
  <2>5. ASSUME NEW k \in 1..Len(piece) PROVE childHash'[Len(childHash) + k] = piece[k]
    <3>1. /\ Len(childHash) + k \in 1..(Len(childHash) + Len(piece))
          /\ ~ (Len(childHash) + k =< Len(childHash))
          /\ Len(childHash) + k - Len(childHash) = k
      BY <2>3
    <3> QED BY <2>2, <3>1
  <2> QED BY <2>1, <2>2, <2>3, <2>4, <2>5
<1> HIDE DEF s, piece
<1>1. Types'
  <2>1. childTotal' \in Nat
    BY <1>c, CallTypes DEF IInv
  <2> QED BY <1>0, <1>a, <1>b, <1>c, <1>d, <2>1 DEF IInv, Types
<1>2. CreditInv'
  <2>1. ParentHolds' = ParentHolds /\ ChildHolds' = 1 /\ ChildHolds = 1
    BY <1>0 DEF ParentHolds, ChildHolds
  <2>2. At(Unread + Filled)' = At(Unread + Filled)
    <3>1. PICK n \in Nat : n = full + Filled
      BY <1>a
    <3>2. n \in 0..(full + Filled) /\ n + 1 = Unread + Filled /\ Unread' + Filled' = n
      BY <1>a, <3>1
    <3>3. At(Unread + Filled)' = At(n)'
      BY <3>2 DEF At
    <3>4. At(n)' = At(n + 1)
      BY <1>b, <3>2
    <3> QED BY <3>2, <3>3, <3>4
  <2>3. ppc \notin BeforeFork \cup {"malloc"}
    BY <1>a DEF IInv, CreditInv
  <2> QED BY <1>0, <1>a, <2>1, <2>2, <2>3 DEF IInv, CreditInv
<1>e. \A i \in Nat : StartFrom(childTotal, i)' = StartFrom(childTotal, i + 1)
  <2> SUFFICES ASSUME NEW i \in Nat PROVE StartFrom(childTotal, i)' = StartFrom(childTotal, i + 1)
    OBVIOUS
  <2>1. StartFrom(StartFrom(childTotal, 1), i) = StartFrom(childTotal, i + 1)
    BY <1>c, StartFacts DEF IInv
  <2>2. StartFrom(childTotal, i)' = StartFrom(childTotal', i)
    BY <1>0 DEF StartFrom
  <2> QED BY <1>c, <2>1, <2>2
<1>f. \A slot, o : Carries(slot, o)' <=> Carries(slot, o)
  BY <1>0 DEF Carries, LengthAt, Pattern
<1>3. DataInv'
  <2>1. \A i \in 0..(Unread' + Filled' - 1) : Carries(slots[At(i)], StartFrom(childTotal, i))'
    <3> SUFFICES ASSUME NEW i \in 0..(full + Filled - 1)
                 PROVE  Carries(slots[At(i)], StartFrom(childTotal, i))'
      BY <1>a
    <3>1. i \in Nat /\ i \in 0..(full + Filled) /\ i + 1 \in 0..(Unread + Filled - 1)
      BY <1>a
    <3>2. Carries(slots[At(i + 1)], StartFrom(childTotal, i + 1))
      BY <3>1 DEF IInv, DataInv
    <3>3. slots'[At(i)'] = slots[At(i + 1)]
      BY <1>0, <1>b, <3>1
    <3> QED BY <1>e, <1>f, <3>1, <3>2, <3>3
  <2>2. total' = StartFrom(childTotal, Unread)'
    <3>1. PICK n \in Nat : n = full
      BY <1>a
    <3>2. StartFrom(childTotal, Unread)' = StartFrom(childTotal, n)'
      BY <1>a, <3>1 DEF StartFrom
    <3>3. StartFrom(childTotal, n)' = StartFrom(childTotal, n + 1)
      BY <1>e
    <3> QED BY <1>0, <1>a, <3>1, <3>2, <3>3 DEF IInv, DataInv
  <2>3. length' = 0 => childTotal' = call.payload
    BY <1>0, <1>c
  <2>4. childTotal' =< call.payload
    BY <1>c, CallTypes DEF IInv
  <2> QED BY <1>0, <2>1, <2>2, <2>3, <2>4 DEF DataInv
<1>4. HashInv'
  BY <1>0 DEF IInv, HashInv, Pattern, Current
<1>5. ContentInv'
  <2>1. ASSUME ~ corrupted PROVE childHash' = Pattern(0, childTotal')
    <3>1. piece = Pattern(childTotal, s.len)
      BY <1>c, <2>1, EmptyPattern DEF piece, Carries
    <3>2. childHash = Pattern(0, childTotal)
      BY <2>1 DEF IInv, ContentInv
    <3> QED BY <1>0, <1>c, <3>1, <3>2, PatternJoins
  <2>2. ASSUME corrupted
        PROVE  \/ \E k \in 1..Len(childHash') : childHash'[k] = BadByte
               \/ \E i \in 0..(Unread' - 1) : ShowsBadByte(slots[At(i)])'
    <3>1. CASE \E k \in 1..Len(childHash) : childHash[k] = BadByte
      <4>1. PICK k \in 1..Len(childHash) : childHash[k] = BadByte
        BY <3>1
      <4>2. k \in 1..Len(childHash') /\ childHash'[k] = BadByte
        BY <1>d, <4>1
      <4> QED BY <4>2
    <3>2. CASE \E i \in 0..(Unread - 1) : ShowsBadByte(slots[At(i)])
      <4>1. PICK i \in 0..(Unread - 1) : ShowsBadByte(slots[At(i)])
        BY <3>2
      <4>2. CASE i = 0
        <5>1. s.len > 0 /\ s.data[1] = BadByte
          BY <1>b, <4>1, <4>2 DEF ShowsBadByte, s
        <5>2. piece = s.data /\ Len(s.data) = s.len
          <6>1. Len(Pattern(childTotal, s.len)) = s.len /\ Pattern(childTotal, s.len) \in Seq(Bytes)
            BY <1>c, PatternFacts
          <6>2. Len([Pattern(childTotal, s.len) EXCEPT ![1] = BadByte]) = s.len
            <7> DEFINE q == Pattern(childTotal, s.len)
            <7>1. q \in Seq(Bytes) /\ Len(q) = s.len
              BY <6>1
            <7> HIDE DEF q
            <7>2. Len([q EXCEPT ![1] = BadByte]) = Len(q)
              BY <7>1, ExceptSeq DEF Bytes
            <7> QED BY <7>1, <7>2 DEF q
          <6>3. piece = s.data
            BY <5>1 DEF piece
          <6> QED BY <1>c, <5>1, <6>1, <6>2, <6>3 DEF Carries
        <5>3. 1 \in 1..Len(piece) /\ Len(childHash) + 1 \in 1..Len(childHash')
          BY <1>c, <1>d, <5>1, <5>2
        <5>4. childHash'[Len(childHash) + 1] = BadByte
          BY <1>d, <5>1, <5>2, <5>3
        <5> QED BY <5>3, <5>4
      <4>3. CASE i # 0
        <5>1. i - 1 \in 0..(Unread' - 1) /\ i - 1 \in 0..(full + Filled) /\ (i - 1) + 1 = i
          BY <1>a, <4>3
        <5>2. slots'[At(i - 1)'] = slots[At(i)]
          BY <1>0, <1>b, <5>1
        <5>3. ShowsBadByte(slots[At(i - 1)])'
          BY <4>1, <5>2 DEF ShowsBadByte
        <5> QED BY <5>1, <5>3
      <4> QED BY <4>2, <4>3
    <3> QED BY <2>2, <3>1, <3>2 DEF IInv, ContentInv
  <2> QED BY <1>0, <2>1, <2>2 DEF ContentInv, Pattern
<1>6. ReportInv' /\ LifeInv' /\ AnswerInv'
  BY <1>0 DEF IInv, ReportInv, LifeInv, AnswerInv, HeldAt
<1> QED BY <1>1, <1>2, <1>3, <1>4, <1>5, <1>6 DEF IInv

\* A changed byte is the first of the next slot to be read.
LEMMA CorruptInv == ASSUME IInv, Corrupt PROVE IInv'
<1> DEFINE s == slots[readIndex]
<1>0. /\ ~ corrupted /\ corrupted' = TRUE /\ full > 0 /\ s.len > 0
      /\ slots' = [slots EXCEPT ![readIndex].data[1] = BadByte]
      /\ UNCHANGED <<kind, call, ppc, held, producerOk, reported, answer, total, hash, writeIndex,
                     cpc, child, code, success, report, childTotal, childHash, length, readIndex,
                     empty, full>>
  BY DEF Corrupt
<1>a. /\ Unread \in Nat \ {0} /\ Unread' = Unread /\ Filled' = Filled /\ Filled \in 0..1
      /\ Unread + Filled \in 0..Slots /\ Slots' = Slots /\ Slots \in Nat \ {0}
  <2>1. Unread' = Unread /\ Filled' = Filled /\ Slots' = Slots
    BY <1>0 DEF Unread, Filled, Slots
  <2>2. Unread \in 0..Slots /\ Unread > 0
    BY <1>0, CreditFacts DEF IInv
  <2> QED BY <2>1, <2>2, CreditFacts, CallTypes DEF IInv
<1>b. /\ At(0) = readIndex /\ readIndex \in 0..(Slots - 1)
      /\ \A i \in 1..(Unread + Filled - 1) : At(i) # readIndex /\ At(i) \in 0..(Slots - 1)
  <2>1. \A i \in 1..(Unread + Filled - 1) : i \in 0..(Slots - 1) /\ i \in 0..Slots /\ i # 0
    BY <1>a
  <2>2. 0 \in 0..(Slots - 1)
    BY <1>a
  <2> QED BY <2>1, <2>2, AtFacts DEF IInv, Types
<1>c. \A i \in Nat : At(i)' = At(i) /\ StartFrom(childTotal, i)' = StartFrom(childTotal, i)
  BY <1>0 DEF At, Slots, StartFrom
<1>d. /\ s.data \in Seq(Bytes) /\ s.len \in Nat /\ s.len \in 0..call.chunk
      /\ childTotal \in Nat /\ StartFrom(childTotal, 0) = childTotal
      /\ s.len = LengthAt(childTotal) /\ s.data = Pattern(childTotal, s.len)
      /\ Len(s.data) = s.len
  <2>1. s.data \in Seq(Bytes) /\ s.len \in 0..call.chunk
    BY <1>b DEF IInv, Types
  <2>2. childTotal \in 0..call.payload /\ childTotal \in Nat /\ s.len \in Nat
    BY <2>1, CallTypes DEF IInv, Types, DataInv
  <2>3. StartFrom(childTotal, 0) = childTotal
    BY <2>2, StartFacts DEF IInv
  <2>4. Carries(s, childTotal)
    <3>1. 0 \in 0..(Unread + Filled - 1)
      BY <1>a
    <3> QED BY <1>b, <2>3, <3>1 DEF IInv, DataInv
  <2>5. s.len = LengthAt(childTotal) /\ s.data = Pattern(childTotal, s.len)
    BY <1>0, <2>4 DEF Carries
  <2> QED BY <2>1, <2>2, <2>3, <2>5, PatternFacts
<1>e. /\ slots'[readIndex].len = s.len
      /\ slots'[readIndex].data = [s.data EXCEPT ![1] = BadByte]
      /\ \A j \in 0..(Slots - 1) : j # readIndex => slots'[j] = slots[j]
      /\ slots' \in [0..(Slots - 1) -> [data : Seq(Bytes), len : 0..call.chunk]]
      /\ slots'[readIndex].data[1] = BadByte
  <2>1. slots \in [0..(Slots - 1) -> [data : Seq(Bytes), len : 0..call.chunk]]
    BY DEF IInv, Types
  <2> DEFINE d == [s.data EXCEPT ![1] = BadByte]
  <2>2. 1 \in 1..Len(s.data) /\ BadByte \in Bytes
    BY <1>0, <1>d DEF Bytes
  <2>3. d \in Seq(Bytes) /\ d[1] = BadByte
    <3> DEFINE q == s.data
    <3>1. q \in Seq(Bytes) /\ 1 \in 1..Len(q) /\ BadByte \in Bytes
      BY <1>d, <2>2
    <3> HIDE DEF q
    <3>2. [q EXCEPT ![1] = BadByte] \in Seq(Bytes) /\ [q EXCEPT ![1] = BadByte][1] = BadByte
      BY <3>1, ExceptSeq
    <3> QED BY <3>2 DEF q
  <2>4. slots' = [slots EXCEPT ![readIndex].data = d]
    BY <1>0
  <2> HIDE DEF d
  <2>5. /\ slots'[readIndex].len = s.len /\ slots'[readIndex].data = d
        /\ \A j \in 0..(Slots - 1) : j # readIndex => slots'[j] = slots[j]
        /\ slots' \in [0..(Slots - 1) -> [data : Seq(Bytes), len : 0..call.chunk]]
    BY <1>b, <2>1, <2>3, <2>4
  <2> QED BY <2>3, <2>5 DEF d
<1> HIDE DEF s
<1>1. Types'
  BY <1>0, <1>a, <1>e DEF IInv, Types
<1>2. CreditInv'
  <2>1. ParentHolds' = ParentHolds /\ ChildHolds' = ChildHolds
    BY <1>0 DEF ParentHolds, ChildHolds
  <2>2. At(Unread + Filled)' = At(Unread + Filled)
    BY <1>0, <1>a DEF At
  <2> QED BY <1>0, <1>a, <2>1, <2>2 DEF IInv, CreditInv
<1>3. DataInv'
  <2>1. ASSUME NEW i \in 0..(Unread + Filled - 1)
        PROVE  Carries(slots[At(i)], StartFrom(childTotal, i))'
    <3>1. i \in Nat /\ Carries(slots[At(i)], StartFrom(childTotal, i))
      BY <1>a DEF IInv, DataInv
    <3>2. CASE i = 0
      <4>1. At(i)' = readIndex /\ StartFrom(childTotal, i)' = childTotal
        BY <1>b, <1>c, <1>d, <3>1, <3>2
      <4>2. slots'[readIndex].len = LengthAt(childTotal)
        BY <1>d, <1>e
      <4>3. slots'[readIndex].data = [Pattern(childTotal, slots'[readIndex].len) EXCEPT ![1] = BadByte]
        BY <1>d, <1>e
      <4> QED BY <1>0, <4>1, <4>2, <4>3 DEF Carries, LengthAt, Pattern
    <3>3. CASE i # 0
      <4>1. i \in 1..(Unread + Filled - 1)
        BY <1>a, <3>3
      <4>2. slots'[At(i)'] = slots[At(i)] /\ StartFrom(childTotal, i)' = StartFrom(childTotal, i)
        BY <1>b, <1>c, <1>e, <3>1, <4>1
      <4> QED BY <1>0, <3>1, <4>2 DEF Carries, LengthAt, Pattern
    <3> QED BY <3>2, <3>3
  <2>2. StartFrom(childTotal, Unread)' = StartFrom(childTotal, Unread)
    BY <1>0, <1>a DEF StartFrom
  <2> QED BY <1>0, <1>a, <2>1, <2>2 DEF IInv, DataInv
<1>4. HashInv'
  BY <1>0 DEF IInv, HashInv, Pattern, Current
<1>5. ContentInv'
  <2>1. 0 \in 0..(Unread' - 1) /\ At(0)' = readIndex
    BY <1>a, <1>b, <1>c
  <2>2. ShowsBadByte(slots[At(0)])'
    BY <1>0, <1>e, <2>1 DEF ShowsBadByte, s
  <2> QED BY <1>0, <2>1, <2>2 DEF ContentInv
<1>6. ReportInv' /\ LifeInv'
  BY <1>0 DEF IInv, ReportInv, LifeInv, HeldAt
<1>7. AnswerInv'
  BY <1>0 DEF IInv, AnswerInv
<1> QED BY <1>1, <1>2, <1>3, <1>4, <1>5, <1>6, <1>7 DEF IInv

\* A step of nobody changes nothing IInv speaks about.
LEMMA StutterInv == ASSUME IInv, UNCHANGED vars PROVE IInv'
<1>0. UNCHANGED <<kind, call, ppc, held, producerOk, reported, answer, total, hash, writeIndex, cpc,
                  child, code, success, report, childTotal, childHash, length, readIndex, empty,
                  full, slots, corrupted>>
  BY DEF vars
<1>1. Types'
  BY <1>0 DEF IInv, Types, Slots
<1>2. Unread' = Unread /\ Filled' = Filled /\ Filled \in 0..1
  BY <1>0 DEF Unread, Filled
<1>3. CreditInv'
  <2>1. At(Unread + Filled)' = At(Unread + Filled) /\ Slots' = Slots
    BY <1>0, <1>2 DEF At, Slots
  <2>2. ParentHolds' = ParentHolds /\ ChildHolds' = ChildHolds
    BY <1>0 DEF ParentHolds, ChildHolds
  <2> QED BY <1>0, <1>2, <2>1, <2>2 DEF IInv, CreditInv
<1>4. DataInv' /\ ContentInv'
  <2>1. Filled' =< Filled
    BY <1>2
  <2> QED BY <1>0, <1>2, <2>1, SameContents DEF IInv, DataInv
<1>5. HashInv'
  BY <1>0 DEF IInv, HashInv, Pattern, Current
<1>6. ReportInv' /\ LifeInv' /\ AnswerInv'
  BY <1>0 DEF IInv, ReportInv, LifeInv, AnswerInv, HeldAt
<1> QED BY <1>1, <1>3, <1>4, <1>5, <1>6 DEF IInv

LEMMA NextInv == IInv /\ [Next]_vars => IInv'
BY SetupStepInv, ForkInv, MallocParentInv, WaitEmptyInv, WriteSlotInv, PostFullInv, ReadReportInv,
   VerdictInv, AbortInv, WaitFullInv, ReadSlotInv, PostEmptyInv, ReportStepInv, ExitChildInv,
   CorruptInv, KillConsumerInv, KillProducerInv, StutterInv
   DEF Next, Parent, Child

LEMMA VerifierInvariant == Spec => []IInv
BY InitInv, NextInv, PTL DEF Spec

-----------------------------------------------------------------------------
(* What follows from IInv.                                                 *)

LEMMA TypesSuffice == ASSUME IInv PROVE TypeOK
<1>1. empty \in 0..Slots /\ full \in 0..Slots
  BY CreditFacts DEF IInv
<1>2. total \in 0..call.payload
  <2>1. childTotal \in 0..call.payload /\ childTotal \in Nat /\ Unread \in Nat
    BY CreditFacts, CallTypes DEF IInv, Types, DataInv
  <2>2. total \in childTotal..call.payload
    BY <2>1, StartFacts DEF IInv, DataInv
  <2> QED BY <2>1, <2>2, CallTypes DEF IInv
<1>3. \A i \in 0..(Slots - 1) : slots[i].data \in Seq(Bytes) /\ slots[i].len \in 0..call.chunk
  BY DEF IInv, Types
<1>4. \A r \in {report, reported} : /\ r.bytes \in Nat /\ r.hash \in Seq(Bytes)
                                    /\ r.success \in BOOLEAN /\ r.sent \in BOOLEAN
  BY DEF IInv, Types, Reports
<1> QED BY <1>1, <1>2, <1>3, <1>4 DEF IInv, Types, TypeOK, SetupNext

\* Behind a PASS no byte was changed: it would be in the child's checksum,
\* which is that of the parent, or still on the way, where nothing is left.
LEMMA PassIsTrue ==
  ASSUME IInv, answer = "pass"
  PROVE  ~ corrupted /\ childHash = Pattern(0, call.payload)
<1>1. /\ ppc = "returned" /\ producerOk /\ code = 0 /\ total = call.payload /\ hash = childHash
      /\ call.payload \in Nat
  BY CallTypes DEF IInv, AnswerInv
<1>2. childTotal = call.payload
  BY <1>1, GoodReport
<1>3. childHash = Pattern(0, call.payload)
  <2>1. hash = Pattern(0, call.payload + 0)
    BY <1>1 DEF IInv, HashInv
  <2> QED BY <1>1, <2>1
<1>4. \A k \in 1..Len(childHash) : childHash[k] # BadByte
  BY <1>1, <1>3, PatternFacts, PatternIsClean
<1>5. \A i \in 0..(Unread - 1) : ~ ShowsBadByte(slots[At(i)])
  BY <1>2, NothingOnTheWay DEF ShowsBadByte
<1> QED BY <1>3, <1>4, <1>5 DEF IInv, ContentInv

\* A PASS vouches for the bytes of the payload on both sides, a FAIL for a
\* changed byte (run_integrity_verification, integrity_verifier.c:2287-2314).
THEOREM VerdictsAreTrue == Spec => []VerdictIsTrue
<1>1. IInv => VerdictIsTrue
  <2> SUFFICES ASSUME IInv PROVE VerdictIsTrue
    OBVIOUS
  <2>1. answer = "pass" => hash = childHash /\ child = "reaped" /\ code = 0
    BY DEF IInv, AnswerInv
  <2>2. answer = "fail" => corrupted
    BY DEF IInv, AnswerInv
  <2> QED BY <2>1, <2>2, TypesSuffice, PassIsTrue DEF VerdictIsTrue
<1> QED BY <1>1, VerifierInvariant, PTL

\* However a call returns, it holds nothing and has no child; and the name of
\* its region is gone before there is a second process.
THEOREM VerifierLeaksNothing == Spec => []NothingLeaks
<1>1. IInv => NothingLeaks
  BY DEF IInv, LifeInv, HeldAt, NothingLeaks
<1> QED BY <1>1, VerifierInvariant, PTL
=============================================================================
