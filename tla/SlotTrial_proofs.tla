-------------------------- MODULE SlotTrial_proofs --------------------------
(***************************************************************************)
(* Proofs about SlotTrial, for any number of slots, total and chunk, and   *)
(* under every fault: a trial that counts has moved everything in order    *)
(* between its two readings, and no way out of it leaks.                   *)
(***************************************************************************)
EXTENDS SlotTrial, TLAPS

-----------------------------------------------------------------------------
(* The invariant.                                                          *)

BeforeFork == DOMAIN SetupNext \cup {"fork"}
BeforeStart == BeforeFork \cup {"measure", "start"}
Ending == {"stop", "waitpid", "finish", "returned", "killed"}

\* The chunks between parent and child, and the slot i places after the one
\* the child reads next.
Ahead == produced - consumed
At(i) == IF readIndex + i < call.slots THEN readIndex + i ELSE readIndex + i - call.slots

\* A slot is free, posted, or in the hands of one of the two; what a failed
\* post has lost is in none of these.
Written == IF ppc \in {"write", "post"} THEN 1 ELSE 0
Taken == IF cpc = "read" THEN 1 ELSE 0
Given == IF cpc = "post" THEN 1 ELSE 0

CreditInv ==
  /\ Ahead = filled + Taken
  /\ empty + Ahead + Written + Given =< call.slots

\* The terminator was posted, and nothing comes after it.
Done == transferred = call.total /\ ppc \in Ending

\* The slots between the two hold the next chunks, and only the last of them
\* may be the terminator.
SlotInv ==
  /\ \A i \in 0..(Ahead - 1) : /\ chunks[At(i)] = consumed + i
                               /\ lengths[At(i)] = 0 => i = Ahead - 1 /\ Done
  /\ ppc \in BeforeStart \cup {"wait", "write"} => writeIndex = At(Ahead)
  /\ ppc = "post" => /\ chunks[At(Ahead)] = produced /\ lengths[At(Ahead)] = Current
                     /\ writeIndex = At(Ahead + 1)

\* A child that ends well has read the terminator.
Everything == Ahead = 0 /\ Done
ChildInv ==
  /\ cpc = "post" /\ length = 0 => Everything
  /\ cpc = "exit" /\ childOk => Everything
  /\ code = 0 => Everything

\* Who lives where, and which readings have been taken.
LifeInv ==
  /\ ppc \in BeforeFork => child = "none" /\ produced = 0 /\ consumed = 0
  /\ ppc \in BeforeStart => start = 0 /\ cpc = "gate"
  /\ start > 0 \/ cpc # "gate" => clock # "none"
  /\ ppc \in {"start", "wait", "write", "post"} => clock = "started"
  /\ clock = "both" => child = "reaped" /\ ppc = "returned"
  /\ child = "none" => code = NoCode
  /\ ppc = "finish" => child = "reaped" /\ (ok => code = 0)
  /\ answer = "ok" => code = 0 /\ clock = "both"

\* The name goes before there are two processes.
HeldInv ==
  /\ NothingLeaks
  /\ ppc = "fork" => "name" \notin held

IInv == TypeOK /\ CreditInv /\ SlotInv /\ ChildInv /\ LifeInv /\ HeldInv

USE DEF parentVars, producerVars, childVars, consumerVars, ringVars, Return, Fails, ChildMay, Exit,
        Alive, NoCode, KilledCode, BeforeFork, BeforeStart, Ending

-----------------------------------------------------------------------------
(* Arithmetic of the slots and of the chunks.                              *)

LEMMA CallTypes ==
  ASSUME TypeOK
  PROVE  call.total \in Nat \ {0} /\ call.chunk \in Nat \ {0} /\ call.slots \in Nat \ {0}
BY CallAssumption DEF TypeOK

\* Going round the slots.
LEMMA AtFacts ==
  ASSUME TypeOK
  PROVE  /\ \A i \in 0..call.slots : At(i) \in Slot
         /\ At(0) = readIndex
         /\ \A i \in 0..(call.slots - 1) : Advance(At(i)) = At(i + 1)
         /\ \A i, j \in 0..(call.slots - 1) : At(i) = At(j) => i = j
<1> DEFINE n == call.slots
<1>1. n \in Nat \ {0} /\ readIndex \in 0..(n - 1)
  BY CallTypes DEF TypeOK, Slot
<1>2. \A j \in 0..(n - 1) : Advance(j) = IF j + 1 = n THEN 0 ELSE j + 1
  BY <1>1 DEF Advance
<1>3. \A i : At(i) = IF readIndex + i < n THEN readIndex + i ELSE readIndex + i - n
  BY DEF At
<1>4. Slot = 0..(n - 1)
  BY DEF Slot
<1> HIDE DEF n
<1>5. /\ \A i \in 0..n : At(i) \in Slot
      /\ At(0) = readIndex
      /\ \A i \in 0..(n - 1) : Advance(At(i)) = At(i + 1)
      /\ \A i, j \in 0..(n - 1) : At(i) = At(j) => i = j
  BY <1>1, <1>2, <1>3, <1>4
<1> QED
  BY <1>5 DEF n

\* When the child moves on, every other slot is one place nearer.
LEMMA AtMoves ==
  ASSUME TypeOK, readIndex' = Advance(readIndex), call' = call, NEW i \in 0..(call.slots - 1)
  PROVE  At(i)' = At(i + 1)
<1>1. call.slots \in Nat \ {0} /\ readIndex \in 0..(call.slots - 1)
  BY CallTypes DEF TypeOK, Slot
<1>2. readIndex' = IF readIndex + 1 = call.slots THEN 0 ELSE readIndex + 1
  BY <1>1 DEF Advance
<1> QED
  BY <1>1, <1>2 DEF At

\* The next chunk, and that only the end of the total has none.
LEMMA CurrentFacts ==
  ASSUME TypeOK
  PROVE  /\ Current \in 0..call.chunk /\ transferred + Current \in 0..call.total
         /\ Current = 0 <=> transferred = call.total
<1> DEFINE t == call.total  c == call.chunk
<1>1. t \in Nat \ {0} /\ c \in Nat \ {0} /\ transferred \in 0..t
  BY CallTypes DEF TypeOK
<1>2. Current = IF t - transferred < c THEN t - transferred ELSE c
  BY DEF Current
<1> HIDE DEF t, c
<1>3. /\ Current \in 0..c /\ transferred + Current \in 0..t
      /\ Current = 0 <=> transferred = t
  BY <1>1, <1>2
<1> QED
  BY <1>3 DEF t, c

\* What lies between the two never exceeds the slots.
LEMMA AheadFacts ==
  ASSUME TypeOK, CreditInv
  PROVE  /\ Ahead \in 0..call.slots
         /\ produced = consumed + Ahead
         /\ Written = 1 => Ahead + 1 =< call.slots
         /\ Taken = 1 => Ahead >= 1
         /\ Written \in {0, 1} /\ Taken \in {0, 1} /\ Given \in {0, 1}
<1>1. Written \in {0, 1} /\ Taken \in {0, 1} /\ Given \in {0, 1}
  BY DEF Written, Taken, Given
<1>2. /\ produced \in Nat /\ consumed \in Nat /\ Ahead = produced - consumed
      /\ filled \in Nat /\ empty \in Nat
  BY CallTypes DEF TypeOK, Ahead
<1>3. Ahead = filled + Taken /\ empty + Ahead + Written + Given =< call.slots
  BY DEF CreditInv
<1> QED
  BY <1>1, <1>2, <1>3, CallTypes

-----------------------------------------------------------------------------
(* Every action keeps the invariant.                                       *)

LEMMA InitInv == Init => IInv
<1> SUFFICES ASSUME Init PROVE IInv
  OBVIOUS
<1>1. TypeOK
  <2>1. call.total \in Nat \ {0} /\ call.chunk \in Nat \ {0} /\ call.slots \in Nat \ {0}
    BY CallAssumption DEF Init
  <2>2. 0 \in Slot /\ 0 \in 0..call.chunk
    BY <2>1 DEF Slot
  <2> QED
    BY <2>1, <2>2 DEF Init, TypeOK, SetupNext
<1>2. CreditInv
  BY <1>1, CallTypes DEF Init, CreditInv, Ahead, Written, Taken, Given, SetupNext
<1>3. SlotInv
  BY <1>1, CallTypes DEF Init, SlotInv, Ahead, At
<1>4. ChildInv /\ LifeInv /\ HeldInv
  BY DEF Init, ChildInv, LifeInv, HeldInv, NothingLeaks, SetupNext
<1> QED
  BY <1>1, <1>2, <1>3, <1>4 DEF IInv

\* Before the fork nothing is written.
LEMMA SetupKeeps ==
  ASSUME IInv, NEW s \in DOMAIN SetupNext, SetupStep(s)
  PROVE  IInv'
<1>0. /\ ppc = s
      /\ UNCHANGED <<call, ok, clock, transferred, produced, writeIndex, cpc, child, code, childOk,
                     consumed, length, readIndex, start, filled, lengths, chunks>>
      /\ \/ /\ held' = SetupHolds[s] /\ ppc' = SetupNext[s] /\ answer' = answer
            /\ empty' = IF s = "sem_empty" THEN call.slots ELSE empty
         \/ held' = {} /\ ppc' = "returned" /\ answer' = "failed" /\ empty' = empty
  BY DEF SetupStep
<1>1. s \in BeforeFork /\ ppc' \in BeforeFork \cup {"returned"}
  BY <1>0 DEF SetupNext
<1>2. /\ child = "none" /\ produced = 0 /\ consumed = 0 /\ start = 0 /\ cpc = "gate"
      /\ code = NoCode /\ clock # "both" /\ answer # "ok"
  BY <1>0, <1>1 DEF IInv, LifeInv
<1>3. TypeOK'
  BY <1>0, <1>1, CallTypes DEF IInv, TypeOK, Slot, SetupNext, SetupHolds
<1>4. CreditInv'
  <2>1. Ahead = 0 /\ Ahead' = 0 /\ Written' = 0 /\ Taken' = Taken /\ Given' = 0
    BY <1>0, <1>1, <1>2 DEF Ahead, Written, Taken, Given, SetupNext
  <2>2. empty' \in Nat /\ empty' =< call.slots
    BY <1>0, CallTypes DEF IInv, TypeOK
  <2> QED
    BY <1>0, <2>1, <2>2, CallTypes DEF IInv, CreditInv
<1>5. SlotInv'
  <2>1. Ahead = 0 /\ Ahead' = 0 /\ At(0)' = At(0) /\ writeIndex = At(0)
    BY <1>0, <1>1, <1>2 DEF Ahead, At, IInv, SlotInv
  <2> QED
    BY <1>0, <1>1, <2>1 DEF SlotInv, SetupNext
<1>6. ChildInv'
  BY <1>0, <1>2 DEF ChildInv
<1>7. LifeInv'
  BY <1>0, <1>1, <1>2 DEF IInv, LifeInv, SetupNext
<1>8. HeldInv'
  BY <1>0, <1>1, <1>2 DEF HeldInv, NothingLeaks, SetupNext, SetupHolds
<1> QED
  BY <1>3, <1>4, <1>5, <1>6, <1>7, <1>8 DEF IInv

LEMMA ForkKeeps == ASSUME IInv, Fork PROVE IInv'
<1>0. /\ ppc = "fork"
      /\ UNCHANGED <<call, ok, clock, transferred, produced, writeIndex, cpc, code, childOk,
                     consumed, length, readIndex, start, empty, filled, lengths, chunks>>
      /\ \/ child' = "running" /\ ppc' = "measure" /\ UNCHANGED <<held, answer>>
         \/ held' = {} /\ ppc' = "returned" /\ answer' = "failed" /\ child' = child
  BY DEF Fork
<1>1. /\ child = "none" /\ produced = 0 /\ consumed = 0 /\ start = 0 /\ cpc = "gate"
      /\ code = NoCode /\ clock # "both" /\ answer # "ok" /\ "name" \notin held
  BY <1>0 DEF IInv, LifeInv, HeldInv
<1>2. TypeOK'
  BY <1>0 DEF IInv, TypeOK, Slot
<1>3. CreditInv' /\ SlotInv'
  <2>1. /\ Ahead = 0 /\ Ahead' = 0 /\ Written' = 0 /\ Taken' = Taken /\ Given' = Given
        /\ Written = 0 /\ At(0)' = At(0) /\ writeIndex = At(0)
    BY <1>0, <1>1 DEF Ahead, Written, Taken, Given, At, IInv, SlotInv
  <2>2. CreditInv'
    BY <1>0, <2>1 DEF IInv, CreditInv
  <2>3. SlotInv'
    BY <1>0, <2>1 DEF SlotInv
  <2> QED
    BY <2>2, <2>3
<1>4. ChildInv' /\ HeldInv'
  BY <1>0, <1>1 DEF ChildInv, HeldInv, NothingLeaks
<1>5. LifeInv'
  BY <1>0, <1>1 DEF IInv, LifeInv, SetupNext
<1> QED
  BY <1>2, <1>3, <1>4, <1>5 DEF IInv

\* The parent goes to another place and leaves the ring alone.
LEMMA ParentGoes ==
  ASSUME IInv, ppc \notin BeforeFork, ppc' \notin BeforeFork, ppc \notin Ending \/ ppc' \in Ending,
         UNCHANGED <<call, producerVars, cpc, childOk, consumerVars, empty, filled, lengths,
                     chunks>>,
         code' # 0 \/ code' = code,
         ppc' \in {"measure", "start", "wait"} => ppc \in BeforeStart,
         ppc' = "write" => FALSE, ppc' = "post" => FALSE
  PROVE  CreditInv' /\ SlotInv' /\ ChildInv'
<1>1. /\ Ahead' = Ahead /\ Taken' = Taken /\ Given' = Given /\ Written' = 0
      /\ \A i : At(i)' = At(i)
  BY DEF Ahead, Taken, Given, Written, At
<1>2. Done => Done'
  BY DEF Done
<1>3. CreditInv'
  <2>1. Written \in {0, 1} /\ Ahead \in 0..call.slots /\ Given \in {0, 1}
    BY AheadFacts DEF IInv
  <2>2. empty \in Nat
    BY CallTypes DEF IInv, TypeOK
  <2> QED
    BY <1>1, <2>1, <2>2, CallTypes DEF IInv, CreditInv
<1>4. SlotInv'
  BY <1>1, <1>2 DEF IInv, SlotInv
<1>5. ChildInv'
  BY <1>1, <1>2 DEF IInv, ChildInv, Everything
<1> QED
  BY <1>3, <1>4, <1>5

\* Readings before the gate opens.
LEMMA MeasureKeeps == ASSUME IInv, Measure PROVE IInv'
<1>0. /\ ppc = "measure"
      /\ UNCHANGED <<call, held, answer, producerVars, childVars, consumerVars, ringVars>>
      /\ \/ clock' = "started" /\ ppc' = "start" /\ ok' = ok
         \/ ok' = FALSE /\ ppc' = "stop" /\ clock' = clock
  BY DEF Measure
<1>1. /\ start = 0 /\ cpc = "gate" /\ clock # "both" /\ answer # "ok"
      /\ ppc' \in {"start", "stop"} /\ clock' \in {"none", "started"}
  BY <1>0 DEF IInv, LifeInv, TypeOK, SetupNext
<1>2. ok' \in BOOLEAN
  BY <1>0 DEF IInv, TypeOK
<1>3. TypeOK'
  BY <1>0, <1>1, <1>2 DEF IInv, TypeOK, Slot
<1>4. CreditInv' /\ SlotInv' /\ ChildInv'
  BY <1>0, ParentGoes DEF SetupNext
<1>5. LifeInv' /\ HeldInv'
  BY <1>0, <1>1 DEF IInv, LifeInv, HeldInv, NothingLeaks, SetupNext
<1> QED
  BY <1>3, <1>4, <1>5 DEF IInv

LEMMA StartKeeps == ASSUME IInv, Start PROVE IInv'
<1>0. /\ ppc = "start"
      /\ UNCHANGED <<call, held, clock, answer, producerVars, childVars, consumerVars, empty,
                     filled, lengths, chunks>>
      /\ \/ start' = start + 1 /\ ppc' = "wait" /\ ok' = ok
         \/ ok' = FALSE /\ ppc' = "stop" /\ start' = start
  BY DEF Start
<1>1. /\ start = 0 /\ clock = "started"
      /\ ppc' \in {"wait", "stop"} /\ start' \in 0..1
  BY <1>0 DEF IInv, LifeInv, SetupNext
<1>2. ok' \in BOOLEAN
  BY <1>0 DEF IInv, TypeOK
<1>3. TypeOK'
  BY <1>0, <1>1, <1>2 DEF IInv, TypeOK, Slot
<1>4. CreditInv' /\ SlotInv' /\ ChildInv'
  BY <1>0, ParentGoes DEF SetupNext
<1>5. LifeInv' /\ HeldInv'
  BY <1>0, <1>1 DEF IInv, LifeInv, HeldInv, NothingLeaks, SetupNext
<1> QED
  BY <1>3, <1>4, <1>5 DEF IInv

\* A slot that is taken is in the parent's hands.
LEMMA WaitEmptyKeeps == ASSUME IInv, WaitEmpty PROVE IInv'
<1>0. /\ ppc = "wait"
      /\ UNCHANGED <<call, held, clock, answer, producerVars, childVars, consumerVars, start,
                     filled, lengths, chunks>>
      /\ \/ empty > 0 /\ empty' = empty - 1 /\ ppc' = "write" /\ ok' = ok
         \/ ok' = FALSE /\ ppc' = "stop" /\ empty' = empty
  BY DEF WaitEmpty
<1>1. TypeOK'
  <2>1. empty' \in 0..call.slots /\ ppc' \in {"write", "stop"}
    BY <1>0, CallTypes DEF IInv, TypeOK
  <2>2. ok' \in BOOLEAN
    BY <1>0 DEF IInv, TypeOK
  <2> QED
    BY <1>0, <2>1, <2>2 DEF IInv, TypeOK, Slot
<1>2. LifeInv' /\ HeldInv'
  BY <1>0 DEF IInv, LifeInv, HeldInv, NothingLeaks, SetupNext
<1>3. CASE ppc' = "stop"
  <2>1. CreditInv' /\ SlotInv' /\ ChildInv'
    BY <1>0, <1>3, ParentGoes DEF SetupNext
  <2> QED
    BY <1>1, <1>2, <2>1 DEF IInv
<1>4. CASE empty' = empty - 1 /\ ppc' = "write"
  <2>1. /\ Ahead' = Ahead /\ Taken' = Taken /\ Given' = Given /\ Written = 0 /\ Written' = 1
        /\ \A i : At(i)' = At(i)
    BY <1>0, <1>4 DEF Ahead, Taken, Given, Written, At
  <2>2. /\ empty \in Nat /\ Ahead \in 0..call.slots /\ Given \in {0, 1}
        /\ empty + Ahead + Written + Given =< call.slots /\ Ahead = filled + Taken
    BY CallTypes, AheadFacts DEF IInv, TypeOK, CreditInv
  <2>3. CreditInv'
    BY <1>0, <1>4, <2>1, <2>2, CallTypes DEF CreditInv
  <2>4. SlotInv'
    BY <1>0, <1>4, <2>1 DEF IInv, SlotInv, Done, SetupNext
  <2>5. ChildInv'
    BY <1>0, <1>4, <2>1 DEF IInv, ChildInv, Everything, Done
  <2> QED
    BY <1>1, <1>2, <2>3, <2>4, <2>5 DEF IInv
<1> QED
  BY <1>0, <1>3, <1>4

\* It writes where no chunk is that the child has still to read.
LEMMA WriteSlotKeeps == ASSUME IInv, WriteSlot PROVE IInv'
<1>0. /\ ppc = "write" /\ ppc' = "post"
      /\ lengths' = [lengths EXCEPT ![writeIndex] = Current]
      /\ chunks' = [chunks EXCEPT ![writeIndex] = produced]
      /\ writeIndex' = Advance(writeIndex)
      /\ UNCHANGED <<call, held, ok, clock, answer, transferred, produced, childVars, consumerVars,
                     start, empty, filled>>
  BY DEF WriteSlot
<1>1. /\ Ahead' = Ahead /\ Taken' = Taken /\ Given' = Given /\ Written = 1 /\ Written' = 1
      /\ (\A i : At(i)' = At(i)) /\ Current' = Current /\ Slot' = Slot
  BY <1>0 DEF Ahead, Taken, Given, Written, At, Current, Slot
<1>2. /\ Ahead \in 0..(call.slots - 1) /\ writeIndex = At(Ahead) /\ call.slots \in Nat
  BY <1>0, <1>1, AheadFacts, CallTypes DEF IInv, SlotInv
<1>3. /\ At(Ahead) \in Slot /\ At(Ahead + 1) \in Slot /\ writeIndex' = At(Ahead + 1)
      /\ \A i \in 0..(Ahead - 1) : At(i) \in Slot /\ At(i) # At(Ahead)
  BY <1>0, <1>2, AtFacts DEF IInv
<1>4. /\ lengths \in [Slot -> 0..call.chunk] /\ chunks \in [Slot -> Nat \cup {-1}]
      /\ Current \in 0..call.chunk /\ produced \in Nat
  BY CurrentFacts DEF IInv, TypeOK
<1>5. /\ lengths' \in [Slot -> 0..call.chunk] /\ chunks' \in [Slot -> Nat \cup {-1}]
      /\ lengths'[At(Ahead)] = Current /\ chunks'[At(Ahead)] = produced
      /\ \A i \in 0..(Ahead - 1) : lengths'[At(i)] = lengths[At(i)] /\ chunks'[At(i)] = chunks[At(i)]
  BY <1>0, <1>2, <1>3, <1>4
<1>6. TypeOK'
  BY <1>0, <1>1, <1>3, <1>5 DEF IInv, TypeOK
<1>7. CreditInv'
  BY <1>0, <1>1 DEF IInv, CreditInv
<1>8. SlotInv'
  <2>1. \A i \in 0..(Ahead - 1) : chunks[At(i)] = consumed + i /\ lengths[At(i)] # 0
    BY <1>0 DEF IInv, SlotInv, Done
  <2>2. PICK a : a = Ahead
    OBVIOUS
  <2>3. /\ a' = a /\ \A i : At(i)' = At(i)
    BY <1>1
  <2> QED
    BY <1>0, <1>1, <1>3, <1>5, <2>1 DEF SlotInv, SetupNext
<1>9. ChildInv'
  BY <1>0, <1>1 DEF IInv, ChildInv, Everything, Done
<1>10. LifeInv' /\ HeldInv'
  BY <1>0 DEF IInv, LifeInv, HeldInv, NothingLeaks, SetupNext
<1> QED
  BY <1>6, <1>7, <1>8, <1>9, <1>10 DEF IInv

\* The slot that is posted is one more on its way; after the terminator
\* there is none.
LEMMA PostFilledKeeps == ASSUME IInv, PostFilled PROVE IInv'
<1>0. /\ ppc = "post"
      /\ UNCHANGED <<call, held, clock, answer, writeIndex, childVars, consumerVars, start, empty,
                     lengths, chunks>>
      /\ \/ /\ filled' = filled + 1 /\ transferred' = transferred + Current
            /\ produced' = produced + 1 /\ ok' = ok
            /\ ppc' = IF Current = 0 THEN "stop" ELSE "wait"
         \/ ok' = FALSE /\ ppc' = "stop" /\ UNCHANGED <<filled, transferred, produced>>
  BY DEF PostFilled
<1>1. LifeInv' /\ HeldInv'
  BY <1>0 DEF IInv, LifeInv, HeldInv, NothingLeaks, SetupNext
<1>2. CASE ok' = FALSE /\ ppc' = "stop" /\ UNCHANGED <<filled, transferred, produced>>
  <2>1. TypeOK'
    BY <1>0, <1>2 DEF IInv, TypeOK, Slot
  <2>2. CreditInv' /\ SlotInv' /\ ChildInv'
    BY <1>0, <1>2, ParentGoes DEF SetupNext
  <2> QED
    BY <1>1, <2>1, <2>2 DEF IInv
<1>3. CASE /\ filled' = filled + 1 /\ transferred' = transferred + Current
           /\ produced' = produced + 1 /\ ok' = ok
           /\ ppc' = IF Current = 0 THEN "stop" ELSE "wait"
  <2>1. /\ Current \in 0..call.chunk /\ transferred + Current \in 0..call.total
        /\ Current = 0 <=> transferred = call.total
        /\ transferred \in 0..call.total /\ call.total \in Nat
    BY CurrentFacts, CallTypes DEF IInv, TypeOK
  <2>2. /\ produced \in Nat /\ consumed \in Nat /\ filled \in Nat /\ empty \in Nat
        /\ Ahead \in 0..call.slots /\ Ahead = produced - consumed /\ Ahead = filled + Taken
        /\ empty + Ahead + Written + Given =< call.slots
        /\ Given \in {0, 1} /\ Taken \in {0, 1} /\ call.slots \in Nat
    BY AheadFacts, CallTypes DEF IInv, TypeOK, CreditInv, Ahead
  <2>3. /\ Ahead' = produced' - consumed /\ Taken' = Taken /\ Given' = Given
        /\ Written = 1 /\ Written' = 0 /\ \A i : At(i)' = At(i)
    BY <1>0, <1>3 DEF Ahead, Taken, Given, Written, At
  <2>4. Ahead' = Ahead + 1 /\ filled' \in 0..call.slots
    BY <1>3, <2>2, <2>3
  <2>5. ppc' \in {"stop", "wait"} /\ transferred' \in 0..call.total
    BY <1>3, <2>1
  <2>6. TypeOK'
    BY <1>0, <1>3, <2>2, <2>4, <2>5 DEF IInv, TypeOK, Slot
  <2>7. CreditInv'
    BY <1>0, <1>3, <2>2, <2>3, <2>4 DEF CreditInv
  <2>8. /\ \A i \in 0..(Ahead - 1) : chunks[At(i)] = consumed + i /\ lengths[At(i)] # 0
        /\ chunks[At(Ahead)] = consumed + Ahead /\ lengths[At(Ahead)] = Current
        /\ writeIndex = At(Ahead + 1)
    BY <1>0, <2>2 DEF IInv, SlotInv, Done
  <2>9. Current = 0 => Done'
    BY <1>0, <1>3, <2>1 DEF Done
  <2>10. SlotInv'
    <3>1. PICK a \in Nat : a = Ahead
      BY <2>2
    <3>2. \A i \in 0..a : chunks[At(i)] = consumed + i /\ (lengths[At(i)] = 0 => i = a /\ Done')
      BY <2>8, <2>9, <3>1
    <3>3. Ahead' = a + 1 /\ At(Ahead)' = At(a + 1)
      BY <2>3, <2>4, <3>1
    <3> QED
      BY <1>0, <2>3, <2>5, <2>8, <3>1, <3>2, <3>3 DEF SlotInv, SetupNext
  <2>11. ChildInv'
    BY <1>0 DEF IInv, ChildInv, Everything, Done
  <2> QED
    BY <1>1, <2>6, <2>7, <2>10, <2>11 DEF IInv
<1> QED
  BY <1>0, <1>2, <1>3

\* A killed child does not end well.
LEMMA StopKeeps == ASSUME IInv, Stop PROVE IInv'
<1>0. /\ ppc = "stop" /\ ppc' = "waitpid"
      /\ UNCHANGED <<call, held, ok, clock, answer, producerVars, cpc, childOk, consumerVars,
                     ringVars>>
      /\ \/ child = "running" /\ child' = "zombie" /\ code' = KilledCode
         \/ child' = child /\ code' = code
  BY DEF Stop
<1>1. TypeOK'
  <2>1. child' \in {"none", "running", "zombie", "reaped"} /\ code' \in {0, 2, 3, KilledCode, NoCode}
    BY <1>0 DEF IInv, TypeOK
  <2> QED
    BY <1>0, <2>1 DEF IInv, TypeOK, Slot
<1>2. CreditInv' /\ SlotInv' /\ ChildInv'
  BY <1>0, ParentGoes DEF SetupNext
<1>3. LifeInv' /\ HeldInv'
  BY <1>0 DEF IInv, LifeInv, HeldInv, NothingLeaks, SetupNext
<1> QED
  BY <1>1, <1>2, <1>3 DEF IInv

LEMMA WaitChildKeeps == ASSUME IInv, WaitChild PROVE IInv'
<1>0. /\ ppc = "waitpid" /\ child = "zombie" /\ child' = "reaped" /\ ppc' = "finish"
      /\ UNCHANGED <<call, held, clock, answer, producerVars, cpc, code, childOk, consumerVars,
                     ringVars>>
  BY DEF WaitChild
<1>1. ok' \in BOOLEAN /\ (ok' => code = 0)
  BY DEF WaitChild
<1>2. TypeOK'
  BY <1>0, <1>1 DEF IInv, TypeOK, Slot
<1>3. CreditInv' /\ SlotInv' /\ ChildInv'
  BY <1>0, ParentGoes DEF SetupNext
<1>4. LifeInv'
  <2>1. clock # "both" /\ answer # "ok"
    BY <1>0 DEF IInv, LifeInv
  <2> QED
    BY <1>0, <1>1, <2>1 DEF IInv, LifeInv, SetupNext
<1>5. HeldInv'
  BY <1>0 DEF IInv, HeldInv, NothingLeaks
<1> QED
  BY <1>2, <1>3, <1>4, <1>5 DEF IInv

\* Everything is given back once the child is reaped.
LEMMA FinishKeeps == ASSUME IInv, Finish PROVE IInv'
<1>0. /\ ppc = "finish" /\ held' = {} /\ ppc' = "returned"
      /\ UNCHANGED <<call, ok, producerVars, childVars, consumerVars, ringVars>>
      /\ \/ clock' = "both" /\ ((ok /\ answer' = "ok") \/ answer' = "failed")
         \/ clock' = clock /\ answer' = "failed"
  BY DEF Finish
<1>1. child = "reaped" /\ (ok => code = 0) /\ clock # "both"
  BY <1>0 DEF IInv, LifeInv
<1>2. TypeOK'
  <2>1. clock' \in {"none", "started", "both"} /\ answer' \in {"pending", "ok", "failed"}
    BY <1>0 DEF IInv, TypeOK
  <2> QED
    BY <1>0, <2>1 DEF IInv, TypeOK, Slot
<1>3. CreditInv' /\ SlotInv' /\ ChildInv'
  BY <1>0, ParentGoes DEF SetupNext
<1>4. LifeInv'
  BY <1>0, <1>1 DEF IInv, LifeInv, SetupNext
<1>5. HeldInv'
  BY <1>0, <1>1 DEF HeldInv, NothingLeaks
<1> QED
  BY <1>2, <1>3, <1>4, <1>5 DEF IInv

-----------------------------------------------------------------------------
(* The child.                                                              *)

\* It passes the gate once it was opened.
LEMMA WaitStartKeeps == ASSUME IInv, WaitStart PROVE IInv'
<1>0. /\ child = "running" /\ cpc = "gate"
      /\ UNCHANGED <<call, parentVars, producerVars, childOk, consumerVars, empty, filled, lengths,
                     chunks>>
      /\ \/ start > 0 /\ start' = start - 1 /\ cpc' = "wait" /\ child' = child /\ code' = code
         \/ child' = "zombie" /\ code' = 2 /\ start' = start /\ cpc' = cpc
  BY DEF WaitStart
<1>1. /\ ppc \notin BeforeFork /\ ppc \notin {"finish", "returned"} /\ clock # "both"
      /\ answer # "ok" /\ "name" \notin held
      /\ start \in 0..1 /\ (start > 0 => ppc \notin BeforeStart /\ clock # "none")
  BY <1>0 DEF IInv, LifeInv, HeldInv, NothingLeaks, TypeOK
<1>2. TypeOK'
  <2>1. start' \in 0..1 /\ cpc' \in {"gate", "wait"} /\ code' \in {0, 2, 3, KilledCode, NoCode}
    BY <1>0, <1>1 DEF IInv, TypeOK
  <2> QED
    BY <1>0, <2>1 DEF IInv, TypeOK, Slot
<1>3. CreditInv' /\ SlotInv' /\ ChildInv'
  <2>1. /\ Ahead' = Ahead /\ Taken' = Taken /\ Given' = Given /\ Written' = Written
        /\ (\A i : At(i)' = At(i)) /\ Current' = Current /\ Done' = Done
    BY <1>0 DEF Ahead, Taken, Given, Written, At, Current, Done
  <2>2. CreditInv'
    BY <1>0, <2>1 DEF IInv, CreditInv
  <2>3. SlotInv' /\ ChildInv'
    BY <1>0, <2>1 DEF IInv, SlotInv, ChildInv, Everything
  <2> QED
    BY <2>2, <2>3
<1>4. LifeInv'
  BY <1>0, <1>1 DEF IInv, LifeInv
<1>5. HeldInv'
  BY <1>0, <1>1 DEF HeldInv, NothingLeaks
<1> QED
  BY <1>2, <1>3, <1>4, <1>5 DEF IInv

\* A step of a child that is past the gate, and stays so: the readings, and
\* what is held, are as they were.
LEMMA ChildGoes ==
  ASSUME IInv, child = "running", cpc # "gate", cpc' # "gate",
         UNCHANGED <<parentVars, produced, start>>,
         (child' = "running" /\ code' = code) \/ child' = "zombie"
  PROVE  LifeInv' /\ HeldInv'
<1>1. /\ ppc \notin BeforeStart /\ ppc \notin {"finish", "returned"}
      /\ clock = "started" /\ answer # "ok" /\ "name" \notin held
  BY DEF IInv, LifeInv, HeldInv, NothingLeaks, TypeOK
<1>2. LifeInv'
  BY <1>1 DEF LifeInv, SetupNext
<1>3. HeldInv'
  BY <1>1 DEF HeldInv, NothingLeaks
<1> QED
  BY <1>2, <1>3

LEMMA WaitFilledKeeps == ASSUME IInv, WaitFilled PROVE IInv'
<1>0. /\ child = "running" /\ cpc = "wait"
      /\ UNCHANGED <<call, parentVars, producerVars, child, code, consumerVars, start, empty,
                     lengths, chunks>>
      /\ \/ filled > 0 /\ filled' = filled - 1 /\ cpc' = "read" /\ childOk' = childOk
         \/ cpc' = "exit" /\ childOk' = FALSE /\ filled' = filled
  BY DEF WaitFilled
<1>1. TypeOK'
  <2>1. filled' \in 0..call.slots /\ cpc' \in {"read", "exit"}
    BY <1>0, CallTypes DEF IInv, TypeOK
  <2>2. childOk' \in BOOLEAN
    BY <1>0 DEF IInv, TypeOK
  <2> QED
    BY <1>0, <2>1, <2>2 DEF IInv, TypeOK, Slot
<1>2. /\ Ahead' = Ahead /\ Given' = 0 /\ Given = 0 /\ Written' = Written /\ Taken = 0
      /\ Taken' = (IF cpc' = "read" THEN 1 ELSE 0)
      /\ (\A i : At(i)' = At(i)) /\ Current' = Current /\ Done' = Done
  BY <1>0 DEF Ahead, Taken, Given, Written, At, Current, Done
<1>3. CreditInv'
  <2>1. filled \in Nat /\ Ahead = filled + Taken
    BY CallTypes DEF IInv, CreditInv, TypeOK
  <2>2. Ahead' = filled' + Taken'
    BY <1>0, <1>2, <2>1
  <2> QED
    BY <1>0, <1>2, <2>2 DEF IInv, CreditInv
<1>4. SlotInv' /\ ChildInv'
  BY <1>0, <1>2 DEF IInv, SlotInv, ChildInv, Everything
<1>5. LifeInv' /\ HeldInv'
  BY <1>0, ChildGoes
<1> QED
  BY <1>1, <1>3, <1>4, <1>5 DEF IInv

\* The slot it reads is the next of the transfer.
LEMMA ReadSlotKeeps == ASSUME IInv, ReadSlot PROVE IInv'
<1>0. /\ child = "running" /\ cpc = "read" /\ cpc' = "post"
      /\ length' = lengths[readIndex] /\ consumed' = consumed + 1
      /\ readIndex' = Advance(readIndex)
      /\ UNCHANGED <<call, parentVars, producerVars, child, code, childOk, ringVars>>
  BY DEF ReadSlot
<1>1. /\ consumed \in Nat /\ produced \in Nat /\ empty \in Nat /\ filled \in Nat
      /\ Ahead \in 1..call.slots /\ Ahead = produced - consumed /\ call.slots \in Nat
      /\ Written = 1 => Ahead + 1 =< call.slots
      /\ Ahead = filled + Taken /\ empty + Ahead + Written + Given =< call.slots
  BY <1>0, AheadFacts, CallTypes DEF IInv, TypeOK, Taken, Ahead, CreditInv
<1>2. /\ readIndex \in Slot /\ Advance(readIndex) \in Slot
      /\ lengths \in [Slot -> 0..call.chunk]
  <2>1. readIndex = At(0) /\ Advance(At(0)) = At(1) /\ At(1) \in Slot
    BY <1>1, AtFacts DEF IInv
  <2> QED
    BY <2>1 DEF IInv, TypeOK
<1>3. TypeOK'
  <2>1. Slot' = Slot /\ length' \in 0..call.chunk /\ consumed' \in Nat /\ readIndex' \in Slot
    BY <1>0, <1>1, <1>2 DEF Slot
  <2> QED
    BY <1>0, <2>1 DEF IInv, TypeOK
<1>4. /\ Ahead' = Ahead - 1 /\ Taken = 1 /\ Taken' = 0 /\ Given = 0 /\ Given' = 1
      /\ Written' = Written /\ Current' = Current /\ Done' = Done
  BY <1>0, <1>1 DEF Ahead, Taken, Given, Written, Current, Done
<1>5. CreditInv'
  BY <1>0, <1>1, <1>4 DEF CreditInv, Written
<1>6. PICK a \in Nat : a = Ahead - 1
  BY <1>1
<1>7. \A i \in 0..(call.slots - 1) : At(i)' = At(i + 1)
  BY <1>0, AtMoves DEF IInv
<1>8. /\ Ahead' = a /\ Ahead = a + 1 /\ a \in 0..(call.slots - 1)
      /\ At(Ahead)' = At(a + 1)
      /\ Written = 1 => a + 1 \in 0..(call.slots - 1) /\ At(Ahead + 1)' = At(a + 2)
  <2>1. Ahead' = a /\ Ahead = a + 1 /\ a \in 0..(call.slots - 1)
    BY <1>1, <1>4, <1>6
  <2>2. At(Ahead)' = At(a)' /\ At(Ahead + 1)' = At(a + 1)'
    <3>1. PICK b \in Nat : b = a
      OBVIOUS
    <3> QED
      BY <2>1 DEF At
  <2>3. Written = 1 => a + 1 \in 0..(call.slots - 1) /\ (a + 1) + 1 = a + 2
    BY <1>1, <1>6
  <2> QED
    BY <1>7, <2>1, <2>2, <2>3
<1>9. /\ \A i \in 0..a : chunks[At(i)] = consumed + i /\ (lengths[At(i)] = 0 => i = a /\ Done)
      /\ ppc \in BeforeStart \cup {"wait", "write"} => writeIndex = At(a + 1)
      /\ ppc = "post" => /\ chunks[At(a + 1)] = produced /\ lengths[At(a + 1)] = Current
                         /\ writeIndex = At(a + 2)
  BY <1>6, <1>8, <1>1 DEF IInv, SlotInv
<1>10. SlotInv'
  <2>1. ppc \in BeforeStart \cup {"wait", "write"} => writeIndex = At(Ahead)'
    BY <1>8, <1>9
  <2>2. ppc = "post" => /\ chunks[At(Ahead)'] = produced /\ lengths[At(Ahead)'] = Current
                        /\ writeIndex = At(Ahead + 1)'
    BY <1>8, <1>9 DEF Written
  <2>3. /\ ppc' = ppc /\ chunks' = chunks /\ lengths' = lengths /\ writeIndex' = writeIndex
        /\ produced' = produced /\ Done' = Done /\ Current' = Current /\ Ahead' - 1 = a - 1
    BY <1>0, <1>4, <1>8
  <2>4. (\A i \in 0..(Ahead - 1) : /\ chunks[At(i)] = consumed + i
                                   /\ lengths[At(i)] = 0 => i = Ahead - 1 /\ Done)'
    <3> SUFFICES ASSUME NEW i \in 0..(a - 1)
                 PROVE  (/\ chunks[At(i)] = consumed + i
                         /\ lengths[At(i)] = 0 => i = Ahead - 1 /\ Done)'
      BY <2>3
    <3>1. i + 1 \in 0..a /\ At(i)' = At(i + 1) /\ consumed' + i = consumed + (i + 1)
      BY <1>0, <1>1, <1>7, <1>8
    <3>2. /\ chunks[At(i + 1)] = consumed + (i + 1)
          /\ lengths[At(i + 1)] = 0 => i + 1 = a /\ Done
      BY <1>9, <3>1
    <3>3. i + 1 = a => i = a - 1
      OBVIOUS
    <3> QED
      BY <2>3, <3>1, <3>2, <3>3
  <2> QED
    BY <2>1, <2>2, <2>3, <2>4 DEF SlotInv
<1>11. ChildInv'
  <2>1. length' = lengths[At(0)]
    BY <1>0, AtFacts DEF IInv
  <2>2. length' = 0 => 0 = a /\ Done
    <3>1. 0 \in 0..a
      BY <1>8
    <3> QED
      BY <1>9, <2>1, <3>1
  <2>3. code # 0
    <3>1. code = 0 => Ahead = 0
      BY DEF IInv, ChildInv, Everything
    <3> QED
      BY <1>1, <3>1
  <2> QED
    BY <1>0, <1>4, <1>8, <2>2, <2>3 DEF ChildInv, Everything
<1>12. LifeInv' /\ HeldInv'
  BY <1>0, ChildGoes
<1> QED
  BY <1>3, <1>5, <1>10, <1>11, <1>12 DEF IInv

LEMMA PostEmptyKeeps == ASSUME IInv, PostEmpty PROVE IInv'
<1>0. /\ child = "running" /\ cpc = "post"
      /\ UNCHANGED <<call, parentVars, producerVars, child, code, consumerVars, start, filled,
                     lengths, chunks>>
      /\ \/ empty' = empty + 1 /\ cpc' = (IF length = 0 THEN "exit" ELSE "wait") /\ childOk' = childOk
         \/ cpc' = "exit" /\ childOk' = FALSE /\ empty' = empty
  BY DEF PostEmpty
<1>1. /\ Ahead' = Ahead /\ Given' = 0 /\ Given = 1 /\ Written' = Written /\ Taken = 0 /\ Taken' = 0
      /\ (\A i : At(i)' = At(i)) /\ Current' = Current /\ Done' = Done
  BY <1>0 DEF Ahead, Taken, Given, Written, At, Current, Done
<1>2. /\ empty \in Nat /\ Ahead \in 0..call.slots /\ Written \in {0, 1} /\ call.slots \in Nat
      /\ Ahead = filled + Taken /\ empty + Ahead + Written + Given =< call.slots
  BY AheadFacts, CallTypes DEF IInv, TypeOK, CreditInv
<1>3. empty' \in 0..call.slots /\ empty' + Ahead + Written =< call.slots
  BY <1>0, <1>1, <1>2
<1>4. TypeOK'
  <2>1. cpc' \in {"exit", "wait"}
    BY <1>0
  <2>2. childOk' \in BOOLEAN
    BY <1>0 DEF IInv, TypeOK
  <2> QED
    BY <1>0, <1>3, <2>1, <2>2 DEF IInv, TypeOK, Slot
<1>5. CreditInv'
  BY <1>0, <1>1, <1>2, <1>3 DEF CreditInv
<1>6. SlotInv'
  BY <1>0, <1>1 DEF IInv, SlotInv
<1>7. ChildInv'
  BY <1>0, <1>1 DEF IInv, ChildInv, Everything
<1>8. LifeInv' /\ HeldInv'
  BY <1>0, ChildGoes
<1> QED
  BY <1>4, <1>5, <1>6, <1>7, <1>8 DEF IInv

\* Exit code 0 is that of a child that has read the terminator.
LEMMA ExitKeeps == ASSUME IInv, ExitChild \/ KillConsumer PROVE IInv'
<1>0. /\ child = "running" /\ child' = "zombie" /\ code' \in {0, 3, KilledCode}
      /\ code' = 0 => cpc = "exit" /\ childOk
      /\ UNCHANGED <<call, parentVars, producerVars, cpc, childOk, consumerVars, ringVars>>
  BY DEF ExitChild, KillConsumer
<1>1. TypeOK'
  BY <1>0 DEF IInv, TypeOK, Slot
<1>2. /\ Ahead' = Ahead /\ Taken' = Taken /\ Given' = Given /\ Written' = Written
      /\ (\A i : At(i)' = At(i)) /\ Current' = Current /\ Done' = Done
  BY <1>0 DEF Ahead, Taken, Given, Written, At, Current, Done
<1>3. CreditInv'
  BY <1>0, <1>2 DEF IInv, CreditInv
<1>4. SlotInv'
  BY <1>0, <1>2 DEF IInv, SlotInv
<1>5. ChildInv'
  BY <1>0, <1>2 DEF IInv, ChildInv, Everything
<1>6. LifeInv' /\ HeldInv'
  BY <1>0 DEF IInv, LifeInv, HeldInv, NothingLeaks
<1> QED
  BY <1>1, <1>3, <1>4, <1>5, <1>6 DEF IInv

LEMMA KillProducerKeeps == ASSUME IInv, KillProducer PROVE IInv'
<1>0. /\ ppc \notin {"returned", "killed"} /\ ppc' = "killed" /\ held' = held \cap {"name"}
      /\ UNCHANGED <<call, ok, clock, answer, producerVars, childVars, consumerVars, ringVars>>
  BY DEF KillProducer
<1>1. TypeOK'
  BY <1>0 DEF IInv, TypeOK, Slot
<1>2. CreditInv' /\ SlotInv' /\ ChildInv'
  <2>1. /\ Ahead' = Ahead /\ Taken' = Taken /\ Given' = Given /\ Written' = 0
        /\ (\A i : At(i)' = At(i)) /\ (Done => Done')
    BY <1>0 DEF Ahead, Taken, Given, Written, At, Done
  <2>2. /\ empty \in Nat /\ Ahead \in 0..call.slots /\ Written \in {0, 1} /\ call.slots \in Nat
        /\ Ahead = filled + Taken /\ empty + Ahead + Written + Given =< call.slots
        /\ Given \in {0, 1}
    BY AheadFacts, CallTypes DEF IInv, TypeOK, CreditInv
  <2>3. CreditInv'
    BY <1>0, <2>1, <2>2 DEF CreditInv
  <2>4. SlotInv' /\ ChildInv'
    BY <1>0, <2>1 DEF IInv, SlotInv, ChildInv, Everything, SetupNext
  <2> QED
    BY <2>3, <2>4
<1>3. LifeInv' /\ HeldInv'
  BY <1>0 DEF IInv, LifeInv, HeldInv, NothingLeaks, SetupNext
<1> QED
  BY <1>1, <1>2, <1>3 DEF IInv

LEMMA NextInv == IInv /\ [Next]_vars => IInv'
<1> SUFFICES ASSUME IInv, [Next]_vars PROVE IInv'
  OBVIOUS
<1>1. CASE UNCHANGED vars
  <2>1. TypeOK' /\ CreditInv' /\ SlotInv'
    BY <1>1 DEF vars, IInv, TypeOK, Slot, CreditInv, SlotInv, Ahead, Taken, Given, Written, At, Current,
                Done
  <2>2. ChildInv' /\ LifeInv' /\ HeldInv'
    BY <1>1 DEF vars, IInv, ChildInv, LifeInv, HeldInv, NothingLeaks, Everything, Ahead, Done
  <2> QED
    BY <2>1, <2>2 DEF IInv
<1>2. CASE Parent
  BY <1>2, SetupKeeps, ForkKeeps, MeasureKeeps, StartKeeps, WaitEmptyKeeps, WriteSlotKeeps,
     PostFilledKeeps, StopKeeps, WaitChildKeeps, FinishKeeps DEF Parent
<1>3. CASE Child
  BY <1>3, WaitStartKeeps, WaitFilledKeeps, ReadSlotKeeps, PostEmptyKeeps, ExitKeeps DEF Child
<1>4. CASE KillConsumer \/ KillProducer
  BY <1>4, ExitKeeps, KillProducerKeeps
<1> QED
  BY <1>1, <1>2, <1>3, <1>4 DEF Next

LEMMA SlotTrialInvariant == Spec => []IInv
BY InitInv, NextInv, PTL DEF Spec

-----------------------------------------------------------------------------
(* What follows.                                                           *)

\* Whatever number of slots is under test: the child reads the chunks in
\* order and after the first reading; a trial that counts has moved all of
\* them, its child ended well, and its last reading was taken after that
\* (shm_ring_slot_optimizer.c:826-860, 1022-1061).
THEOREM TrialSound == Spec => []TrialIsSound
<1>1. IInv => TrialIsSound
  <2> SUFFICES ASSUME IInv PROVE TrialIsSound
    OBVIOUS
  <2>1. ChildMay("read") => chunks[readIndex] = consumed /\ clock = "started"
    <3> SUFFICES ASSUME child = "running", cpc = "read"
                 PROVE  chunks[readIndex] = consumed /\ clock = "started"
      OBVIOUS
    <3>1. Ahead \in 0..call.slots /\ Ahead >= 1 /\ consumed \in Nat /\ call.slots \in Nat
      BY AheadFacts, CallTypes DEF IInv, Taken, TypeOK
    <3>2. 0 \in 0..(Ahead - 1) /\ consumed + 0 = consumed
      BY <3>1
    <3>3. chunks[At(0)] = consumed
      BY <3>2 DEF IInv, SlotInv
    <3>4. clock = "started"
      BY DEF IInv, LifeInv, TypeOK
    <3> QED
      BY <3>3, <3>4, AtFacts DEF IInv
  <2>2. answer = "ok" => /\ transferred = call.total /\ consumed = produced
                         /\ clock = "both" /\ code = 0
    <3>1. answer = "ok" => clock = "both" /\ code = 0 /\ Ahead = 0 /\ transferred = call.total
      BY DEF IInv, LifeInv, ChildInv, Everything, Done
    <3>2. produced \in Nat /\ consumed \in Nat
      BY DEF IInv, TypeOK
    <3> QED
      BY <3>1, <3>2 DEF Ahead
  <2> QED
    BY <2>1, <2>2 DEF IInv, TrialIsSound
<1> QED
  BY <1>1, SlotTrialInvariant, PTL

\* No way out of a trial leaves anything behind, and two processes never
\* share an object that still has its name (shm_ring_slot_optimizer.c:557-563,
\* 1140-1159).
THEOREM TrialLeaksNothing == Spec => []NothingLeaks
<1>1. IInv => NothingLeaks
  BY DEF IInv, HeldInv
<1> QED
  BY <1>1, SlotTrialInvariant, PTL
=============================================================================
