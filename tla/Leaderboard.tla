---------------------------- MODULE Leaderboard ----------------------------
(***************************************************************************)
(* A board of the highest scores (leaderboard/leaderboard.go): goroutines  *)
(* set, add to and remove the scores of members under its mutex; the board *)
(* drops the lowest member when there are more than its capacity, and      *)
(* tells OnChange after it has released the mutex.                         *)
(***************************************************************************)
EXTENDS Integers, FiniteSets, FiniteSetsExt, NoValue

CONSTANTS
    Members, Agents,
    Capacity,
    Scores,      \* the scores that are set, and the deltas that are added
    Cap,         \* the Normalize in use: no score is higher
    MaxChanges   \* bound: how many calls are made

ASSUME LeaderboardAssumption ==
    /\ Capacity \in Nat \ {0} /\ MaxChanges \in Nat /\ Cap \in Int /\ Scores \subseteq Int
    /\ IsFiniteSet(Members) /\ None \notin Int \cup Agents

VARIABLES
    scores,      \* the board
    mu,          \* who holds the mutex
    agent,       \* the calls
    number,      \* how many calls were made
    \* history
    best,        \* the highest score of each member
    lowered,     \* a member of the board was given a lower score, or removed
    credit,      \* the score a member should have
    replica,     \* what a listener knows from OnChange
    raced        \* the members of which two changes were to be told at once

board        == <<scores, mu>>
boardHistory == <<best, lowered, credit, replica, raced>>
boardVars    == <<board, agent, number, boardHistory>>

BoardIdle == [pc |-> "off", op |-> "none", member |-> None, given |-> 0, score |-> 0]

BoardInit ==
    /\ scores = [m \in Members |-> None]
    /\ mu = None
    /\ agent = [a \in Agents |-> BoardIdle]
    /\ number = 0
    /\ best = [m \in Members |-> None]
    /\ lowered = FALSE
    /\ credit = [m \in Members |-> None]
    /\ replica = [m \in Members |-> None]
    /\ raced = {}

Retained(s)  == {m \in Members : s[m] # None}
Base(s, m)   == IF s[m] = None THEN 0 ELSE s[m]
Normalize(x) == Min({x, Cap})
AgentAt(a, l) == agent[a].pc = l

--------------------------------------------------------------------------------

\* Set normalizes the score it is given before it locks.
BeginCall(a) ==
    /\ AgentAt(a, "off") /\ number < MaxChanges
    /\ \E o \in {"set", "add", "remove"}, m \in Members, x \in Scores :
         agent' = [agent EXCEPT ![a] = [pc |-> "lock", op |-> o, member |-> m, given |-> x,
                                        score |-> Normalize(x)]]
    /\ number' = number + 1
    /\ UNCHANGED <<board, boardHistory>>

\* Mutant: Add reads the score before it takes the mutex.
LockBoardLate(a) ==
    /\ AgentAt(a, "lock")
    /\ agent' = [agent EXCEPT ![a].pc = IF agent[a].op = "add" THEN "read" ELSE "write"]
    /\ UNCHANGED <<board, number, boardHistory>>

LockBoard(a) ==
    /\ AgentAt(a, "lock") /\ mu = None
    /\ mu' = a
    /\ agent' = [agent EXCEPT ![a].pc = IF agent[a].op = "add" THEN "read" ELSE "write"]
    /\ UNCHANGED <<scores, number, boardHistory>>

\* Add: Normalize may refuse the sum.
ReadScore(a) ==
    /\ AgentAt(a, "read")
    /\ LET sum == Base(scores, agent[a].member) + agent[a].given
       IN  \/ /\ agent' = [agent EXCEPT ![a].pc = "write", ![a].score = Normalize(sum)]
              /\ UNCHANGED mu
           \/ /\ agent' = [agent EXCEPT ![a] = BoardIdle]
              /\ mu' = None
    /\ UNCHANGED <<scores, number, boardHistory>>

\* Mutant: the last one on the board goes, whatever its score.
TrimAny(s, kept) ==
    /\ \A m \in Members : kept[m] \in {s[m], None}
    /\ Cardinality(Retained(kept)) = Min({Capacity, Cardinality(Retained(s))})

\* trimLocked: the members with the highest scores stay; among equals the order of
\* the map, which is arbitrary, decides.
Trim(s, kept) ==
    /\ \A m \in Members : kept[m] \in {s[m], None}
    /\ Cardinality(Retained(kept)) = Min({Capacity, Cardinality(Retained(s))})
    /\ \A m \in Retained(kept), n \in Retained(s) \ Retained(kept) : s[m] >= s[n]

\* Mutant: OnChange is told what the caller gave.
ChangeAsGiven(a) == agent[a].given

\* The score in the Change.
Change(a) == agent[a].score

Lowers(a) ==
    LET m == agent[a].member
    IN  IF scores[m] = None THEN FALSE
        ELSE IF agent[a].op = "remove" THEN TRUE ELSE agent[a].score < scores[m]

\* The score of a is written, or its member removed, and the mutex released.
WriteScore(a) ==
    /\ AgentAt(a, "write")
    /\ LET m == agent[a].member
           x == IF agent[a].op = "remove" THEN None ELSE agent[a].score
           due == IF agent[a].op = "set" THEN x ELSE Normalize(Base(credit, m) + agent[a].given)
       IN  /\ \E kept \in [Members -> {None, x} \cup {scores[n] : n \in Members}] :
                Trim([scores EXCEPT ![m] = x], kept) /\ scores' = kept
           /\ best' = IF x = None THEN best
                      ELSE [best EXCEPT ![m] = IF @ = None THEN x ELSE Max({@, x})]
           /\ credit' = [n \in Members |->
                            IF scores'[n] = None THEN None ELSE IF n = m THEN due ELSE credit[n]]
           /\ raced' = raced \cup {n \in {m} : \E b \in Agents \ {a} :
                                                    AgentAt(b, "notify") /\ agent[b].member = n}
           /\ agent' = [agent EXCEPT ![a] = IF x = None THEN BoardIdle ELSE [@ EXCEPT !.pc = "notify"]]
    /\ lowered' = (lowered \/ Lowers(a))
    /\ mu' = None
    /\ UNCHANGED <<number, replica>>

\* OnChange, after the mutex: a listener keeps its own copy of the scores.
Notify(a) ==
    /\ AgentAt(a, "notify")
    /\ replica' = [replica EXCEPT ![agent[a].member] = Change(a)]
    /\ agent' = [agent EXCEPT ![a] = BoardIdle]
    /\ UNCHANGED <<board, number, best, lowered, credit, raced>>

BoardNext ==
    \E a \in Agents : BeginCall(a) \/ LockBoard(a) \/ ReadScore(a) \/ WriteScore(a) \/ Notify(a)

BoardSpec == BoardInit /\ [][BoardNext]_boardVars

--------------------------------------------------------------------------------
(* Properties *)

\* No member off the board has ever had a higher score than one on it, as long as
\* nobody on the board was lowered or removed: then a place is free for a member that
\* was dropped before, and the board does not remember it.
HighestRetained ==
    /\ Cardinality(Retained(scores)) <= Capacity
    /\ ~lowered => \A m \in Retained(scores), n \in Members \ Retained(scores) :
                       best[n] = None \/ best[n] <= scores[m]

\* No Add is lost: the score of a member on the board is its last Set, or nothing,
\* and all that was added since.
AddsCounted == credit = scores

\* A listener that copies the scores from OnChange agrees with the board about every
\* member on it, once it has been told everything, except those that were changed by
\* one call while the OnChange of another had not returned: these may be told in the wrong order.
ReplicaAgrees ==
    \A m \in Retained(scores) \ raced :
        (\A a \in Agents : AgentAt(a, "notify") => agent[a].member # m) => replica[m] = scores[m]

\* Together: who is on the board, with which score, and what a listener knows of it.
BoardFaithful == HighestRetained /\ AddsCounted /\ ReplicaAgrees

=============================================================================
