---------------------------------- MODULE Policy ----------------------------------
(***************************************************************************)
(* The data structures of the eviction policy (policy.go) and the          *)
(* operations on them, as operators on a policy record:                    *)
(*                                                                         *)
(*   queue     the queue type stored in each node (window at creation)     *)
(*   deque     the three linked deques, as sequences of nodes              *)
(*   size      windowWeightedSize and mainProtectedWeightedSize            *)
(*   limit     windowMaximum and mainProtectedMaximum                      *)
(*   adjustment  by how much the window has still to grow (or to shrink)   *)
(*   weighted  weightedSize                                                *)
(*   dead      the nodes that makeDead has visited                         *)
(*                                                                         *)
(* The sizes are unsigned words: a subtraction below zero wraps around.    *)
(* The frequency sketch is external: see Decide.                           *)
(***************************************************************************)
EXTENDS Integers, Sequences, FiniteSets, SequencesExt

CONSTANTS
    Nodes,    \* the nodes that can be allocated
    NoNode,   \* the nil node
    Word      \* bound: the sizes are computed modulo Word (2^64 in the code)

ASSUME PolicyAssumption == NoNode \notin Nodes /\ IsFiniteSet(Nodes) /\ Word \in Nat \ {0}

Queues == {"window", "probation", "protected"}

Plus(a, b)  == (a + b) % Word
\* Mutant: a subtraction that does not wrap around.
MinusUnbounded(a, b) == a - b

Minus(a, b) == (a + Word - b) % Word

\* setMaximumSize; 99% and 80%, rounded down.
WindowMaximum(maximum)    == maximum - ((99 * maximum) \div 100)
ProtectedMaximum(maximum) == (80 * (maximum - WindowMaximum(maximum))) \div 100
Limits(maximum) == [window |-> WindowMaximum(maximum), protected |-> ProtectedMaximum(maximum)]

EmptyPolicy(maximum) ==
    [queue      |-> [n \in Nodes |-> "window"],
     deque      |-> [q \in Queues |-> <<>>],
     size       |-> [q \in {"window", "protected"} |-> 0],
     limit      |-> Limits(maximum),
     adjustment |-> 0,
     weighted   |-> 0,
     dead       |-> {}]

--------------------------------------------------------------------------------
(* Deques *)

\* getPrev or getNext is set, or the node is the head.
Linked(p, n) == Contains(p.deque[p.queue[n]], n)

Position(d, n) == CHOOSE i \in DOMAIN d : d[i] = n

NodeAfter(p, n) ==
    LET d == p.deque[p.queue[n]]
        i == Position(d, n)
    IN  IF Linked(p, n) /\ i < Len(d) THEN d[i + 1] ELSE NoNode

First(d) == IF d = <<>> THEN NoNode ELSE Head(d)

\* Deque d, or q, with node n taken out, which is a no-op when it is not in.
Without(d, n)      == IF Contains(d, n) THEN RemoveAt(d, Position(d, n)) ELSE d
Unlink(p, q, n)    == [p EXCEPT !.deque[q] = Without(@, n)]
PushBack(p, q, n)  == [p EXCEPT !.deque[q] = Append(@, n), !.queue[n] = q]
PushFront(p, q, n) == [p EXCEPT !.deque[q] = <<n>> \o @, !.queue[n] = q]

MoveTo(p, n, q) == PushBack(Unlink(p, p.queue[n], n), q, n)

--------------------------------------------------------------------------------
(* Node life cycle *)

\* Mutant: a node that is dead already is subtracted again.
MakeDeadAgain(p, w, n) ==
    [p EXCEPT !.dead = @ \cup {n},
              !.weighted = Minus(@, w[n]),
              !.size = [q \in DOMAIN @ |->
                           IF p.queue[n] = q THEN Minus(@[q], w[n]) ELSE @[q]]]

\* makeDead: the weight leaves the sizes the first time only.
MakeDead(p, w, n) ==
    IF n \in p.dead THEN p
    ELSE [p EXCEPT !.dead = @ \cup {n},
                   !.weighted = Minus(@, w[n]),
                   !.size = [q \in DOMAIN @ |->
                                IF p.queue[n] = q THEN Minus(@[q], w[n]) ELSE @[q]]]

\* policy.delete: unlink by the queue type, then makeDead.
Delete(p, w, n) == MakeDead(Unlink(p, p.queue[n], n), w, n)

\* The sizes of policy.add, before it looks at the node's state.
CountAdded(p, w, n) ==
    [p EXCEPT !.weighted = Plus(@, w[n]), !.size["window"] = Plus(@, w[n])]

--------------------------------------------------------------------------------
(* Recency *)

\* Mutant: a promoted node stays linked in probation.
AccessKeepsLink(p, w, n) ==
    LET q == p.queue[n]
    IN  IF ~Linked(p, n) THEN p
        ELSE IF q = "probation" /\ w[n] <= p.limit.protected
        THEN [PushBack(p, "protected", n) EXCEPT !.size["protected"] = Plus(@, w[n])]
        ELSE MoveTo(p, n, q)

\* Mutant: a promoted node is not counted as protected.
AccessUncounted(p, w, n) ==
    LET q == p.queue[n]
    IN  IF ~Linked(p, n) THEN p
        ELSE IF q = "probation" /\ w[n] <= p.limit.protected
        THEN MoveTo(p, n, "protected")
        ELSE MoveTo(p, n, q)

\* access: stale accesses to nodes that are in no deque are ignored, and a
\* probation node that fits is promoted.
Access(p, w, n) ==
    LET q == p.queue[n]
    IN  IF ~Linked(p, n) THEN p
        ELSE IF q = "probation" /\ w[n] <= p.limit.protected
        THEN [MoveTo(p, n, "protected") EXCEPT !.size["protected"] = Plus(@, w[n])]
        ELSE MoveTo(p, n, q)

\* updateNode: the new node inherits the queue type, and the place of the old
\* node if that one is linked; the old node dies.
UpdateNode(p, w, n, old) ==
    LET q == p.queue[old]
    IN  MakeDead([p EXCEPT !.queue[n] = q, !.deque[q] = ReplaceAll(@, old, n)], w, old)

\* The sizes of policy.update, after updateNode.
CountUpdated(p, w, n) ==
    [p EXCEPT !.weighted = Plus(@, w[n]),
              !.size = [q \in DOMAIN @ |->
                           IF p.queue[n] = q THEN Plus(@[q], w[n]) ELSE @[q]]]

\* What update does with a node that fits into the maximum.
Refresh(p, w, n) ==
    IF p.queue[n] # "window" \/ w[n] <= p.limit.window
    THEN Access(p, w, n)
    ELSE IF Linked(p, n) THEN PushFront(Unlink(p, "window", n), "window", n)
    ELSE p

--------------------------------------------------------------------------------
(* Eviction *)

\* evictFromWindow: the oldest nodes that weigh anything move to probation
\* until the window fits; the first one moved is the candidate for evictFromMain.
EvictFromWindow(p, w) ==
    LET step(acc, n) ==
            IF acc.size["window"] > p.limit.window /\ w[n] # 0
            THEN [MoveTo(acc, n, "probation") EXCEPT !.size["window"] = Minus(@, w[n])]
            ELSE acc
    IN  FoldLeft(step, p, p.deque["window"])

FirstMoved(p, w) ==
    LET d     == p.deque["window"]
        heavy == {i \in DOMAIN d : w[d[i]] # 0}
    IN  IF p.size["window"] > p.limit.window /\ heavy # {} THEN d[Min(heavy)] ELSE NoNode

\* The local variables of evictFromMain, and the node evictNode is called with.
Cursor(c, cq, v, vq, e) ==
    [candidate |-> c, candidateQueue |-> cq, victim |-> v, victimQueue |-> vq, evict |-> e]

StartCursor(p, candidate) ==
    Cursor(candidate, "probation", First(p.deque["probation"]), "probation", NoNode)

\* Mutant: gives up without trying the protected and the window queues.
DecideGivesUpEarly(p, w, alive, maximum, k, lowest) ==
    LET c == IF k.candidate = NoNode /\ k.candidateQueue = "probation"
             THEN First(p.deque["window"]) ELSE k.candidate
    IN  IF k.victim # NoNode
        THEN Cursor(c, "window", NodeAfter(p, k.victim), k.victimQueue, k.victim)
        ELSE Cursor(NoNode, "window", NoNode, "exhausted", c)

\* Mutant: starts over instead of giving up.
DecideStartsOver(p, w, alive, maximum, k, lowest) ==
    IF k.candidate = NoNode /\ k.victim = NoNode /\ k.victimQueue = "window"
    THEN StartCursor(p, NoNode)
    ELSE Cursor(NoNode, "window",
                IF k.victim # NoNode THEN NodeAfter(p, k.victim) ELSE First(p.deque["window"]),
                "window", k.victim)

\* One iteration of the loop of evictFromMain on cursor k; lowest is the outcome
\* of the sketch's (and the random) admission: TRUE evicts the victim.
Decide(p, w, alive, maximum, k, lowest) ==
    LET widen == k.candidate = NoNode /\ k.candidateQueue = "probation"
        c  == IF widen THEN First(p.deque["window"]) ELSE k.candidate
        cq == IF widen THEN "window" ELSE k.candidateQueue
        v  == k.victim
        vq == k.victimQueue
        nc == NodeAfter(p, c)
        nv == NodeAfter(p, v)
    IN  IF c = NoNode /\ v = NoNode
        THEN CASE vq = "probation" ->
                    Cursor(c, cq, First(p.deque["protected"]), "protected", NoNode)
               [] vq = "protected" ->
                    Cursor(c, cq, First(p.deque["window"]), "window", NoNode)
               [] OTHER -> Cursor(c, cq, v, "exhausted", NoNode)
        ELSE IF v # NoNode /\ w[v] = 0 THEN Cursor(c, cq, nv, vq, NoNode)
        ELSE IF c # NoNode /\ w[c] = 0 THEN Cursor(nc, cq, v, vq, NoNode)
        ELSE IF v = NoNode THEN Cursor(nc, cq, v, vq, c)
        ELSE IF c = NoNode THEN Cursor(c, cq, nv, vq, v)
        ELSE IF c = v      THEN Cursor(NoNode, cq, nv, vq, c)
        ELSE IF v \notin alive THEN Cursor(c, cq, nv, vq, v)
        ELSE IF c \notin alive \/ w[c] > maximum THEN Cursor(nc, cq, v, vq, c)
        ELSE IF lowest THEN Cursor(IF nc = v THEN nv ELSE nc, cq, nv, vq, v)
        ELSE Cursor(nc, cq, v, vq, c)

\* demoteFromMainProtected: the oldest protected nodes move to probation until
\* the protected queue fits (at most queueTransferThreshold of them).
Demote(p, w) ==
    LET step(acc, n) ==
            IF acc.size["protected"] > p.limit.protected
            THEN [MoveTo(acc, n, "probation") EXCEPT !.size["protected"] = Minus(@, w[n])]
            ELSE acc
    IN  FoldLeft(step, p, p.deque["protected"])

--------------------------------------------------------------------------------
(* The adaptive window *)

\* setMaximumSize leaves the adjustment that is not done yet.
Resize(p, maximum) == [p EXCEPT !.limit = Limits(maximum)]

\* determineAdjustment: at the end of a sample (any maintenance may be one) the window is
\* to be changed by a step, at most 6.25% of the maximum, into whichever direction the
\* hit rates suggest.
Adjustments(p, maximum) == {p.adjustment} \cup (-(maximum \div 16)..(maximum \div 16))

\* A quota of the limit of one region goes to the other.
Shift(p, quota) == [p EXCEPT !.limit.window = @ + quota, !.limit.protected = @ - quota]

Count(p, q, weight) == IF q = "probation" THEN p ELSE [p EXCEPT !.size[q] = (@ + weight) % Word]

Move(p, w, n, to) == MoveTo(Count(Count(p, p.queue[n], Word - w[n]), to, w[n]), n, to)

\* The heads of the queues move as long as their weight is within the quota; as each
\* node moves once, there are at most as many rounds as nodes.
Spend(p, w, quota, from(_, _), to) ==
    LET step(acc, round) ==
            LET n == from(acc.policy, acc.left)
            IN  IF n = NoNode THEN acc
                ELSE IF acc.left < w[n] THEN acc
                ELSE [policy |-> Move(acc.policy, w, n, to), left |-> acc.left - w[n]]
    IN  FoldLeft(step, [policy |-> p, left |-> quota], [i \in 1..Cardinality(Nodes) |-> i])

\* What is left of the quota is given back, and tried again by the next maintenance.
IncreaseWindow(p, w) ==
    LET quota == Min({p.adjustment, p.limit.protected})
        from(q, left) == LET n == First(q.deque["probation"])
                         IN  IF n = NoNode THEN First(q.deque["protected"])
                             ELSE IF left < w[n] THEN First(q.deque["protected"]) ELSE n
        spent == Spend(Demote(Shift(p, quota), w), w, quota, from, "window")
    IN  IF p.limit.protected = 0 THEN p
        ELSE [Shift(spent.policy, -spent.left) EXCEPT !.adjustment = spent.left]

DecreaseWindow(p, w) ==
    LET quota == Min({-p.adjustment, p.limit.window - 1})
        from(q, left) == First(q.deque["window"])
        spent == Spend(Shift(p, -quota), w, quota, from, "probation")
    IN  IF p.limit.window <= 1 THEN p
        ELSE [Shift(spent.policy, spent.left) EXCEPT !.adjustment = -spent.left]

\* Mutant: what is left of the quota is not given back.
ClimbKeepsQuota(p, w, adjustment) ==
    LET d == [Demote(p, w) EXCEPT !.adjustment = adjustment]
        c == IncreaseWindow(d, w)
    IN  CASE adjustment > 0 -> Shift(c, c.adjustment)
          [] adjustment = 0 -> d
          [] adjustment < 0 -> DecreaseWindow(d, w)

Climb(p, w, adjustment) ==
    LET d == [Demote(p, w) EXCEPT !.adjustment = adjustment]
    IN  CASE adjustment > 0 -> IncreaseWindow(d, w)
          [] adjustment = 0 -> d
          [] adjustment < 0 -> DecreaseWindow(d, w)

=============================================================================
