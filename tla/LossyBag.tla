----------------------------------- MODULE LossyBag -----------------------------------
(***************************************************************************)
(* What the read buffer promises to the policy: an element is accepted or  *)
(* refused; one that is accepted is handed to the drain, once; one that is *)
(* refused never is.                                                       *)
(***************************************************************************)
CONSTANTS Elements

VARIABLES waiting, taken, refused

bagVars == <<waiting, taken, refused>>

Init == waiting \subseteq Elements /\ taken = {} /\ refused = {}

New(e) == e \notin waiting \cup taken \cup refused

Accept == \E e \in Elements :
    New(e) /\ waiting' = waiting \cup {e} /\ UNCHANGED <<taken, refused>>

Refuse == \E e \in Elements :
    New(e) /\ refused' = refused \cup {e} /\ UNCHANGED <<waiting, taken>>

Take == \E e \in waiting :
    waiting' = waiting \ {e} /\ taken' = taken \cup {e} /\ UNCHANGED refused

Next == Accept \/ Refuse \/ Take

Spec == Init /\ [][Next]_bagVars

=============================================================================
