------------------------------ MODULE Transfer ------------------------------
(***************************************************************************)
(* What every benchmark transport of FastIPC-X promises its caller,        *)
(* whatever it moves the bytes through: a producer hands over `goal`       *)
(* bytes, a consumer takes them in the order they were handed over, never  *)
(* more than `window` bytes are under way, and the call answers "ok"       *)
(* only for a transfer that was complete.  Everything a transport does     *)
(* with semaphores, slots, descriptors and child processes is invisible    *)
(* here.                                                                   *)
(***************************************************************************)
EXTENDS Integers

VARIABLES goal,         \* bytes the call has to move
          window,       \* bytes that may be handed over and not yet taken
          sent,         \* bytes handed over by the producer
          received,     \* bytes taken by the consumer
          answer        \* "pending", then what the call returned

vars == <<goal, window, sent, received, answer>>

Init == /\ goal \in Nat
        /\ window \in Nat
        /\ sent = 0
        /\ received = 0
        /\ answer = "pending"

HandOver == /\ answer = "pending"
            /\ \E n \in 1..(goal - sent) :
                  /\ sent + n =< received + window
                  /\ sent' = sent + n
            /\ UNCHANGED <<goal, window, received, answer>>

\* The consumer is another process: it may still be taking bytes when the
\* call has already failed, never after a call that succeeded.
Take == /\ answer # "ok"
        /\ \E n \in 1..(sent - received) : received' = received + n
        /\ UNCHANGED <<goal, window, sent, answer>>

Succeed == /\ answer = "pending"
           /\ sent = goal
           /\ received = goal
           /\ answer' = "ok"
           /\ UNCHANGED <<goal, window, sent, received>>

Fail == /\ answer = "pending"
        /\ answer' = "failed"
        /\ UNCHANGED <<goal, window, sent, received>>

Next == HandOver \/ Take \/ Succeed \/ Fail

Spec == Init /\ [][Next]_vars
=============================================================================
