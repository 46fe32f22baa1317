---------------------------------- MODULE WriteQueue ----------------------------------
(***************************************************************************)
(* What the write buffer promises to the maintenance scheduler, and what   *)
(* module Drain assumes of it: a bounded first-in-first-out queue.  A push *)
(* is refused only when the queue is full, a pop answers "nothing" only    *)
(* when it is empty, and every operation takes effect at one instant.      *)
(***************************************************************************)
EXTENDS Naturals, Sequences

CONSTANTS Producers, Nothing

VARIABLES
    capacity, \* fixed when the queue is made
    queue,    \* the queued elements, oldest first
    pushed,   \* how many elements each producer has queued
    answer,   \* what each producer has been told
    taken     \* what the consumer has been given last

queueVars == <<capacity, queue, pushed, answer, taken>>

Init ==
    /\ capacity \in Nat \ {0}
    /\ queue = <<>>
    /\ pushed = [p \in Producers |-> 0]
    /\ answer = [p \in Producers |-> "none"]
    /\ taken = Nothing

Call(p) ==
    /\ answer[p] # "pending"
    /\ answer' = [answer EXCEPT ![p] = "pending"]
    /\ UNCHANGED <<capacity, queue, pushed, taken>>

\* The elements of a producer are numbered.
Push(p) ==
    /\ answer[p] = "pending"
    /\ Len(queue) < capacity
    /\ pushed' = [pushed EXCEPT ![p] = @ + 1]
    /\ queue' = Append(queue, <<p, pushed[p] + 1>>)
    /\ answer' = [answer EXCEPT ![p] = "pushed"]
    /\ UNCHANGED <<capacity, taken>>

Refuse(p) ==
    /\ answer[p] = "pending"
    /\ Len(queue) = capacity
    /\ answer' = [answer EXCEPT ![p] = "full"]
    /\ UNCHANGED <<capacity, queue, pushed, taken>>

Pop ==
    /\ queue # <<>>
    /\ taken' = Head(queue)
    /\ queue' = Tail(queue)
    /\ UNCHANGED <<capacity, pushed, answer>>

FindEmpty ==
    /\ queue = <<>>
    /\ taken' = Nothing
    /\ UNCHANGED <<capacity, queue, pushed, answer>>

Next ==
    \/ \E p \in Producers : Call(p) \/ Push(p) \/ Refuse(p)
    \/ Pop
    \/ FindEmpty

Spec == Init /\ [][Next]_queueVars

=============================================================================
