--------------------------- MODULE WriteBehindProofs ---------------------------
(***************************************************************************)
(* Proofs about WriteBehind: what the policy keeps about the entries of the *)
(* map (NodesSound, WeightAccounted) and about its limits (LimitsBalance), *)
(* what OnDeletion is told of the entries (DeletionsReported), that the    *)
(* cache implements EntryLifecycle, and, when one goroutine makes all the  *)
(* calls, that the sizes of the regions are exact (BooksExact) and that a  *)
(* settled cache is within its maximum (BoundedWhenSettled).               *)
(*                                                                         *)
(* What needs no single goroutine follows from one invariant, Inv.         *)
(* NodesSound is a conjunct of what a step of the policy keeps             *)
(* (PolicySound).  WeightAccounted and DeletionsReported are only stated   *)
(* of a settled cache, when no task is on its way; what makes them         *)
(* inductive is what each task on its way still owes:                      *)
(*   TasksSound   the node it introduces is in no deque yet, the node it   *)
(*                removes is out of the map and told to nobody yet;        *)
(*   TasksApart   no two tasks owe the same thing;                         *)
(*   AllAccounted a node out of the map is still to be removed by a task,  *)
(*                or it is dead and has been told, once, with its cause;   *)
(*   Balanced     the total is the weight of the announced nodes less that *)
(*                of the dead ones, modulo the word.                       *)
(*                                                                         *)
(* With one goroutine (OneGoroutine) there is at most one task on its way, *)
(* and it finds the policy settled.  InOrder says so, that the counted     *)
(* nodes are the linked ones and the one whose eviction is in hand, and    *)
(* that the sizes are their weights.  LeftBehind: the sweeps of evictMain  *)
(* have every node of weight still before them.  Bounded: the total is     *)
(* within the maximum once the sweeps are over.                            *)
(*                                                                         *)
(* The loops of the policy are folds.  Each is an instance of Folding,     *)
(* whose theorems carry a property of the accumulator along a fold.        *)
(***************************************************************************)
EXTENDS WriteBehind, FiniteSetTheorems, SequenceTheorems, TLAPS

--------------------------------------------------------------------------------
(* Sums of weights *)

Sum(w, S) == MapThenSumSet(LAMBDA n : w[n], S)

OneOf(S) == CHOOSE n \in S : TRUE

AddWeight(w, acc, n) == w[n] + acc

IsNumber(w, acc) == acc \in Nat

Adding == INSTANCE Folding WITH Step <- AddWeight, Good <- IsNumber, Pick <- OneOf

\* The subsets of a finite set are ranked by their sizes.
LEMMA AnyDescends ==
    ASSUME NEW S, IsFiniteSet(S)
    PROVE  \E rank, top : Adding!Descends(S, rank, top)
<1> DEFINE rank == [s \in SUBSET S |-> Cardinality(s)]
<1>1. Cardinality(S) \in Nat
  BY FS_CardinalityType
<1>2. \A s \in SUBSET S : IsFiniteSet(s) /\ Cardinality(s) \in 0..Cardinality(S)
  BY <1>1, FS_Subset, FS_CardinalityType
<1>3. ASSUME NEW s \in SUBSET S, s # {}
      PROVE  OneOf(s) \in s /\ Cardinality(s \ {OneOf(s)}) < Cardinality(s)
  <2>1. OneOf(s) \in s
    BY <1>3 DEF OneOf
  <2>2. Cardinality(s \ {OneOf(s)}) = Cardinality(s) - 1 /\ Cardinality(s) \in Nat
    BY <1>2, <2>1, FS_RemoveElement, FS_CardinalityType
  <2>3. QED
    BY <2>1, <2>2
<1>4. rank \in [SUBSET S -> 0..Cardinality(S)]
  BY <1>2
<1>5. \A s \in SUBSET S : s # {} => OneOf(s) \in s /\ rank[s \ {OneOf(s)}] < rank[s]
  BY <1>3
<1> HIDE DEF rank
<1>6. Adding!Descends(S, rank, Cardinality(S))
  BY <1>1, <1>4, <1>5 DEF Adding!Descends
<1>7. QED
  BY <1>6

\* A sum is a fold.
LEMMA SumIsFold ==
    ASSUME NEW w, NEW S, IsFiniteSet(S)
    PROVE  \E f : Adding!IsFold(f, w, 0, S) /\ Sum(w, S) = f[S]
<1> DEFINE f == CHOOSE f : f = [s \in SUBSET S |-> IF s = {} THEN 0
                                                   ELSE w[OneOf(s)] + f[s \ {OneOf(s)}]]
<1>1. Sum(w, S) = f[S]
  BY DEF Sum, MapThenSumSet, MapThenFoldSet, OneOf
<1>2. PICK rank, top : Adding!Descends(S, rank, top)
  BY AnyDescends
<1>3. IsNumber(w, 0)
  BY DEF IsNumber
<1>4. PICK g : Adding!IsFold(g, w, 0, S)
  BY <1>2, <1>3, Adding!FoldExists
<1> DEFINE h == [s \in SUBSET S |-> g[s]]
<1>5. h = [s \in SUBSET S |-> IF s = {} THEN 0 ELSE w[OneOf(s)] + h[s \ {OneOf(s)}]]
  <2>1. ASSUME NEW s \in SUBSET S PROVE h[s] = IF s = {} THEN 0 ELSE w[OneOf(s)] + h[s \ {OneOf(s)}]
    BY <1>4 DEF Adding!IsFold, AddWeight
  <2>2. QED
    BY <2>1
<1>6. f = [s \in SUBSET S |-> IF s = {} THEN 0 ELSE w[OneOf(s)] + f[s \ {OneOf(s)}]]
  <2> HIDE DEF h
  <2>1. QED
    BY <1>5, Zenon
<1>7. Adding!IsFold(f, w, 0, S)
  <2> HIDE DEF f
  <2>1. /\ DOMAIN f = SUBSET S
        /\ \A s \in SUBSET S : f[s] = IF s = {} THEN 0 ELSE w[OneOf(s)] + f[s \ {OneOf(s)}]
    BY <1>6
  <2>2. QED
    BY <2>1 DEF Adding!IsFold, AddWeight
<1>8. QED
  BY <1>1, <1>7

\* The same fold sums the subsets.
LEMMA FoldIsSum ==
    ASSUME NEW w, NEW S, IsFiniteSet(S), NEW f, Adding!IsFold(f, w, 0, S)
    PROVE  \A s \in SUBSET S : f[s] = Sum(w, s)
<1> SUFFICES ASSUME NEW s \in SUBSET S PROVE f[s] = Sum(w, s)
  OBVIOUS
<1>1. IsFiniteSet(s)
  BY FS_Subset
<1>2. PICK g : Adding!IsFold(g, w, 0, s) /\ Sum(w, s) = g[s]
  BY <1>1, SumIsFold
<1>3. PICK rank, top : Adding!Descends(S, rank, top)
  BY AnyDescends
<1>4. \A acc, x : x \in S \cap s => AddWeight(w, acc, x) = AddWeight(w, acc, x)
  OBVIOUS
<1>5. \A t \in SUBSET (S \cap s) : f[t] = g[t]
  BY <1>2, <1>3, <1>4, Adding!FoldAgrees
<1>6. QED
  BY <1>2, <1>5

\* A sum depends on the weights of the elements only.
LEMMA SumSame ==
    ASSUME NEW w, NEW v, NEW S, IsFiniteSet(S), \A n \in S : w[n] = v[n]
    PROVE  Sum(w, S) = Sum(v, S)
<1>1. PICK f : Adding!IsFold(f, w, 0, S) /\ Sum(w, S) = f[S]
  BY SumIsFold
<1>2. PICK g : Adding!IsFold(g, v, 0, S) /\ Sum(v, S) = g[S]
  BY SumIsFold
<1>3. PICK rank, top : Adding!Descends(S, rank, top)
  BY AnyDescends
<1>4. \A acc, x : x \in S \cap S => AddWeight(w, acc, x) = AddWeight(v, acc, x)
  BY DEF AddWeight
<1>5. \A t \in SUBSET (S \cap S) : f[t] = g[t]
  BY <1>1, <1>2, <1>3, <1>4, Adding!FoldAgrees
<1>6. QED
  BY <1>1, <1>2, <1>5

\* A sum of numbers is a number.
LEMMA SumType ==
    ASSUME NEW w, NEW S, IsFiniteSet(S), \A n \in S : w[n] \in Nat
    PROVE  Sum(w, S) \in Nat
<1>1. PICK f : Adding!IsFold(f, w, 0, S) /\ Sum(w, S) = f[S]
  BY SumIsFold
<1>2. PICK rank, top : Adding!Descends(S, rank, top)
  BY AnyDescends
<1>3. /\ IsNumber(w, 0)
      /\ \A acc, x : x \in S /\ IsNumber(w, acc) => IsNumber(w, AddWeight(w, acc, x))
  BY DEF IsNumber, AddWeight
<1>4. \A s \in SUBSET S : IsNumber(w, f[s])
  BY <1>1, <1>2, <1>3, Adding!FoldKeeps
<1>5. QED
  BY <1>1, <1>4 DEF IsNumber

IsNothing(w, acc) == acc = 0

Nothing == INSTANCE Folding WITH Step <- AddWeight, Good <- IsNothing, Pick <- OneOf

\* What weighs nothing adds nothing.
LEMMA SumZero ==
    ASSUME NEW w, NEW S, IsFiniteSet(S), \A n \in S : w[n] = 0
    PROVE  Sum(w, S) = 0
<1>1. PICK f : Adding!IsFold(f, w, 0, S) /\ Sum(w, S) = f[S]
  BY SumIsFold
<1>2. Nothing!IsFold(f, w, 0, S)
  BY <1>1 DEF Adding!IsFold, Nothing!IsFold
<1>3. PICK rank, top : Adding!Descends(S, rank, top)
  BY AnyDescends
<1>4. Nothing!Descends(S, rank, top)
  BY <1>3 DEF Adding!Descends, Nothing!Descends
<1>5. /\ IsNothing(w, 0)
      /\ \A acc, x : x \in S /\ IsNothing(w, acc) => IsNothing(w, AddWeight(w, acc, x))
  BY DEF IsNothing, AddWeight
<1>6. \A s \in SUBSET S : IsNothing(w, f[s])
  BY <1>2, <1>4, <1>5, Nothing!FoldKeeps
<1>7. QED
  BY <1>1, <1>6 DEF IsNothing

\* The sum of nothing, and of something.
LEMMA SumStep ==
    ASSUME NEW w, NEW S, IsFiniteSet(S)
    PROVE  /\ S = {} => Sum(w, S) = 0
           /\ S # {} => /\ OneOf(S) \in S
                        /\ Sum(w, S) = w[OneOf(S)] + Sum(w, S \ {OneOf(S)})
<1>1. PICK f : Adding!IsFold(f, w, 0, S) /\ Sum(w, S) = f[S]
  BY SumIsFold
<1>2. \A s \in SUBSET S : f[s] = Sum(w, s)
  <2>1. Adding!IsFold(f, w, 0, S)
    BY <1>1
  <2>2. QED
    BY <2>1, FoldIsSum
<1>3. S # {} => OneOf(S) \in S
  BY DEF OneOf
<1>4. S \in SUBSET S /\ S \ {OneOf(S)} \in SUBSET S
  OBVIOUS
<1>5. QED
  BY <1>1, <1>2, <1>3, <1>4 DEF Adding!IsFold, AddWeight

\* One more element adds its weight.
LEMMA SumAdd ==
    ASSUME NEW w, NEW S, IsFiniteSet(S), NEW n, n \notin S,
           \A x \in S \cup {n} : w[x] \in Nat
    PROVE  Sum(w, S \cup {n}) = Sum(w, S) + w[n]
<1> DEFINE U == S \cup {n}
           Fails(s, x) == s \in SUBSET U /\ x \in U /\ x \notin s
                          /\ Sum(w, s \cup {x}) # Sum(w, s) + w[x]
           Bad == {k \in Nat : \E s \in SUBSET U, x \in U : Fails(s, x) /\ Cardinality(s) = k}
<1>1. /\ IsFiniteSet(U) /\ \A s \in SUBSET U : IsFiniteSet(s) /\ Cardinality(s) \in Nat
      /\ \A x \in U : w[x] \in Nat
  BY FS_AddElement, FS_Subset, FS_CardinalityType
<1>2. \A s \in SUBSET U : Sum(w, s) \in Nat
  BY <1>1, SumType
<1> HIDE DEF U
<1>3. ASSUME Bad # {} PROVE FALSE
  <2>1. PICK k \in Bad : \A j \in Bad : k <= j
    BY <1>3, Adding!LeastNumber
  <2>2. PICK s \in SUBSET U, x \in U : Fails(s, x) /\ Cardinality(s) = k
    OBVIOUS
  <2> DEFINE T == s \cup {x}
             y == OneOf(T)
  <2>3. y \in T /\ Sum(w, T) = w[y] + Sum(w, T \ {y}) /\ T \in SUBSET U
    <3>1. T \in SUBSET U /\ T # {}
      OBVIOUS
    <3>2. IsFiniteSet(T)
      BY <1>1, <3>1
    <3>3. QED
      BY <3>1, <3>2, SumStep
  <2>4. y # x
    <3> SUFFICES ASSUME y = x PROVE FALSE
      OBVIOUS
    <3>1. T \ {y} = s
      BY <2>2
    <3>2. /\ Sum(w, T) # Sum(w, s) + w[x] /\ Sum(w, s) \in Nat /\ w[x] \in Nat
          /\ Sum(w, T) = w[y] + Sum(w, T \ {y})
      BY <1>1, <1>2, <2>2, <2>3
    <3> HIDE DEF T, y
    <3>3. Sum(w, T) = w[x] + Sum(w, s)
      BY <3>1, <3>2
    <3>4. QED
      BY <3>2, <3>3
  <2> DEFINE t == s \ {y}
  <2>5. /\ t \in SUBSET U /\ y \in s /\ y \in U /\ y \notin t /\ x \notin t
        /\ t \cup {y} = s /\ T \ {y} = t \cup {x}
    BY <2>2, <2>3, <2>4
  <2>6. Cardinality(t) \in Nat /\ Cardinality(t) < k
    <3>1. Cardinality(s \ {y}) = Cardinality(s) - 1
      BY <1>1, <2>5, FS_RemoveElement
    <3>2. QED
      BY <1>1, <2>2, <3>1
  <2>7. Cardinality(t) \notin Bad
    <3>1. \A j \in Bad : k <= j /\ j \in Nat /\ k \in Nat
      BY <2>1
    <3> HIDE DEF Bad
    <3>2. QED
      BY <2>6, <3>1
  <2> HIDE DEF y, T, t
  <2>8. Sum(w, t \cup {y}) = Sum(w, t) + w[y] /\ Sum(w, t \cup {x}) = Sum(w, t) + w[x]
    BY <2>5, <2>6, <2>7, <2>2
  <2>9. Sum(w, s) = Sum(w, t) + w[y] /\ Sum(w, T) = w[y] + (Sum(w, t) + w[x])
    BY <2>3, <2>5, <2>8
  <2>10. Sum(w, T) # Sum(w, s) + w[x]
    BY <2>2 DEF T
  <2>11. QED
    BY <1>1, <1>2, <2>2, <2>5, <2>9, <2>10
<1>4. S \in SUBSET U /\ n \in U
  BY DEF U
<1>5. ~Fails(S, n)
  BY <1>1, <1>3, <1>4
<1>6. QED
  BY <1>4, <1>5

\* The sum of two sets that have nothing in common.
LEMMA SumUnion ==
    ASSUME NEW w, NEW A, NEW B, IsFiniteSet(A), IsFiniteSet(B), A \cap B = {},
           \A x \in A \cup B : w[x] \in Nat
    PROVE  Sum(w, A \cup B) = Sum(w, A) + Sum(w, B)
<1> DEFINE Fails(s) == Sum(w, A \cup s) # Sum(w, A) + Sum(w, s)
           Bad == {k \in Nat : \E s \in SUBSET B : Fails(s) /\ Cardinality(s) = k}
<1>1. \A s \in SUBSET B : /\ IsFiniteSet(s) /\ Cardinality(s) \in Nat /\ IsFiniteSet(A \cup s)
                          /\ Sum(w, s) \in Nat /\ Sum(w, A \cup s) \in Nat
  <2> SUFFICES ASSUME NEW s \in SUBSET B
               PROVE  /\ IsFiniteSet(s) /\ Cardinality(s) \in Nat /\ IsFiniteSet(A \cup s)
                      /\ Sum(w, s) \in Nat /\ Sum(w, A \cup s) \in Nat
    OBVIOUS
  <2>1. IsFiniteSet(s) /\ Cardinality(s) \in Nat
    BY FS_Subset, FS_CardinalityType
  <2>2. IsFiniteSet(A \cup s)
    BY <2>1, FS_Union
  <2>3. QED
    BY <2>1, <2>2, SumType
<1>2. Sum(w, A) \in Nat
  BY SumType
<1>3. ASSUME Bad # {} PROVE FALSE
  <2>1. PICK k \in Bad : \A j \in Bad : k <= j
    BY <1>3, Adding!LeastNumber
  <2>2. PICK s \in SUBSET B : Fails(s) /\ Cardinality(s) = k
    OBVIOUS
  <2>3. s # {}
    <3>1. Sum(w, {}) = 0
      BY FS_EmptySet, SumStep
    <3>2. ASSUME s = {} PROVE FALSE
      <4>1. A \cup s = A
        BY <3>2
      <4>2. Sum(w, A \cup s) = Sum(w, A) + Sum(w, s)
        BY <1>2, <3>1, <3>2, <4>1
      <4>3. QED
        BY <2>2, <4>2
    <3>3. QED
      BY <3>2
  <2>4. PICK y : y \in s
    BY <2>3
  <2> DEFINE t == s \ {y}
  <2>5. /\ t \in SUBSET B /\ y \notin t /\ t \cup {y} = s /\ y \notin A \cup t
        /\ (A \cup t) \cup {y} = A \cup s /\ w[y] \in Nat
    BY <2>4
  <2>6. Cardinality(t) \in Nat /\ Cardinality(t) < k
    <3>1. Cardinality(s \ {y}) = Cardinality(s) - 1
      BY <1>1, <2>4, FS_RemoveElement
    <3>2. Cardinality(s) \in Nat /\ Cardinality(s) = k /\ Cardinality(t) \in Nat
      BY <1>1, <2>2, <2>5
    <3> HIDE DEF Bad
    <3>3. QED
      BY <3>1, <3>2
  <2>7. Cardinality(t) \notin Bad
    <3>1. \A j \in Bad : k <= j /\ j \in Nat /\ k \in Nat
      BY <2>1
    <3> HIDE DEF Bad
    <3>2. QED
      BY <2>6, <3>1
  <2>8. Sum(w, A \cup t) = Sum(w, A) + Sum(w, t)
    BY <2>5, <2>6, <2>7
  <2> HIDE DEF t
  <2>9. Sum(w, t \cup {y}) = Sum(w, t) + w[y]
    BY <1>1, <2>5, SumAdd
  <2>10. Sum(w, (A \cup t) \cup {y}) = Sum(w, A \cup t) + w[y]
    BY <1>1, <2>5, SumAdd
  <2>11. Sum(w, A \cup s) = Sum(w, A) + Sum(w, s)
    <3>1. Sum(w, s) = Sum(w, t) + w[y]
      BY <2>5, <2>9
    <3>2. Sum(w, A \cup s) = (Sum(w, A) + Sum(w, t)) + w[y]
      BY <2>5, <2>8, <2>10
    <3>3. Sum(w, t) \in Nat /\ w[y] \in Nat
      BY <1>1, <2>5
    <3>4. QED
      BY <1>2, <3>1, <3>2, <3>3
  <2>12. QED
    BY <2>2, <2>11
<1>4. QED
  BY <1>1, <1>3

--------------------------------------------------------------------------------
(* Words *)

\* Two numbers with the same rest.
LEMMA RestUnique ==
    ASSUME NEW a \in Int, NEW b \in Int, NEW q \in Int, a = Word * q + b, b \in 0..(Word - 1)
    PROVE  a % Word = b
  BY PolicyAssumption

\* Every number has a rest.
LEMMA RestExists ==
    ASSUME NEW a \in Int
    PROVE  \E q \in Int : a = Word * q + (a % Word) /\ a % Word \in 0..(Word - 1)
<1>1. /\ Word \in Int /\ Word > 0 /\ a \div Word \in Int /\ a % Word \in Int
      /\ a % Word \in 0..(Word - 1)
  BY PolicyAssumption
<1>2. \A q, r \in Int : q = a \div Word /\ r = a % Word => a = Word * q + r
  BY <1>1
<1>3. QED
  BY <1>1, <1>2

\* Sums and differences of words may be taken before the rest or after it.
LEMMA WordArithmetic ==
    ASSUME NEW a \in Int, NEW b \in Int
    PROVE  /\ ((a % Word) + b) % Word = (a + b) % Word
           /\ Minus(a % Word, b) = (a - b) % Word
           /\ Minus(a % Word, b % Word) = (a - b) % Word
           /\ (a + b) % Word \in 0..(Word - 1) /\ (a - b) % Word \in 0..(Word - 1)
<1> DEFINE W == Word
<1>1. PICK q \in Int, ra \in 0..(W - 1) : a = W * q + ra /\ a % W = ra
  BY RestExists
<1>2. PICK r \in Int, rb \in 0..(W - 1) : b = W * r + rb /\ b % W = rb
  BY RestExists
<1>3. a + b \in Int /\ a - b \in Int /\ W \in Int
  BY PolicyAssumption
<1>4. PICK s \in Int, rs \in 0..(W - 1) : a + b = W * s + rs /\ (a + b) % W = rs
  BY <1>3, RestExists
<1>5. PICK t \in Int, rt \in 0..(W - 1) : a - b = W * t + rt /\ (a - b) % W = rt
  BY <1>3, RestExists
<1>6. (ra + b) % W = rs
  <2>1. ra + b = W * (s - q) + rs
    <3> HIDE DEF W
    <3>1. QED
      BY <1>1, <1>3, <1>4
  <2>2. ra + b \in Int /\ s - q \in Int
    BY <1>3
  <2>3. QED
    BY <2>1, <2>2, RestUnique
<1>7. (ra + W - b) % W = rt
  <2>1. ra + W - b = W * (t - q + 1) + rt
    <3> HIDE DEF W
    <3>1. QED
      BY <1>1, <1>3, <1>5
  <2>2. ra + W - b \in Int /\ t - q + 1 \in Int
    BY <1>3
  <2>3. QED
    BY <2>1, <2>2, RestUnique
<1>8. (ra + W - rb) % W = rt
  <2>1. ra + W - rb = W * (t - q + 1 + r) + rt
    <3> HIDE DEF W
    <3>1. QED
      BY <1>1, <1>2, <1>3, <1>5
  <2>2. ra + W - rb \in Int /\ t - q + 1 + r \in Int
    <3> HIDE DEF W
    <3>1. QED
      BY <1>3
  <2>3. QED
    BY <2>1, <2>2, RestUnique
<1>9. QED
  BY <1>1, <1>2, <1>4, <1>5, <1>6, <1>7, <1>8 DEF Minus

--------------------------------------------------------------------------------
(* Deques *)

Distinct(d) == \A i, j \in 1..Len(d) : d[i] = d[j] => i = j

\* Where the others are in a deque without one of its nodes.
LEMMA WithoutPlaces ==
    ASSUME NEW B, NEW d \in Seq(B), NEW n, Contains(d, n), NEW r, r = Without(d, n),
           NEW k, k = Position(d, n)
    PROVE  /\ k \in 1..Len(d) /\ d[k] = n /\ r \in Seq(B) /\ Len(r) = Len(d) - 1
           /\ \A i \in 1..(Len(d) - 1) : r[i] = IF i < k THEN d[i] ELSE d[i + 1]
<1> DEFINE e == RemoveAt(d, k)
<1>1. k \in 1..Len(d) /\ d[k] = n /\ Len(d) \in Nat /\ DOMAIN d = 1..Len(d)
  BY DEF Contains, Position
<1> DEFINE a == SubSeq(d, 1, k - 1)
           b == SubSeq(d, k + 1, Len(d))
<1>2. a \in Seq(B) /\ Len(a) = k - 1 /\ \A i \in 1..(k - 1) : a[i] = d[i]
  <2>1. \A i \in 1..(k - 1) : d[i] \in B /\ 1 + i - 1 = i
    BY <1>1
  <2>2. QED
    BY <1>1, <2>1, SubSeqProperties
<1>3. b \in Seq(B) /\ Len(b) = Len(d) - k /\ \A i \in 1..(Len(d) - k) : b[i] = d[k + i]
  <2>1. \A i \in (k + 1)..Len(d) : d[i] \in B
    BY <1>1
  <2>2. /\ b \in Seq(B) /\ Len(b) = IF k + 1 <= Len(d) THEN Len(d) - (k + 1) + 1 ELSE 0
        /\ \A i \in 1..(Len(d) - (k + 1) + 1) : b[i] = d[k + 1 + i - 1]
    BY <1>1, <2>1, SubSeqProperties
  <2>3. \A i \in 1..(Len(d) - k) : k + 1 + i - 1 = k + i /\ i \in 1..(Len(d) - (k + 1) + 1)
    BY <1>1
  <2>4. Len(b) = Len(d) - k
    <3>1. k \in Int /\ Len(d) \in Int /\ k <= Len(d)
      BY <1>1
    <3>2. (IF k + 1 <= Len(d) THEN Len(d) - (k + 1) + 1 ELSE 0) = Len(d) - k
      BY <3>1
    <3>3. QED
      BY <2>2, <3>2
  <2>5. QED
    BY <2>2, <2>3, <2>4
<1>4. /\ e \in Seq(B) /\ Len(e) = Len(d) - 1
      /\ \A i \in 1..(Len(d) - 1) : e[i] = IF i < k THEN d[i] ELSE d[i + 1]
  <2>1. e = a \o b
    BY DEF RemoveAt
  <2> HIDE DEF a, b, e
  <2>2. /\ a \o b \in Seq(B) /\ Len(a \o b) = Len(a) + Len(b)
        /\ \A i \in 1..(Len(a) + Len(b)) :
             (a \o b)[i] = IF i <= Len(a) THEN a[i] ELSE b[i - Len(a)]
    BY <1>2, <1>3, ConcatProperties
  <2>3. Len(a) + Len(b) = Len(d) - 1
    BY <1>1, <1>2, <1>3
  <2>4. ASSUME NEW i \in 1..(Len(d) - 1) PROVE e[i] = IF i < k THEN d[i] ELSE d[i + 1]
    <3>1. CASE i < k
      BY <1>1, <1>2, <2>1, <2>2, <2>3, <3>1
    <3>2. CASE ~(i < k)
      <4>1. i - (k - 1) \in 1..(Len(d) - k) /\ k + (i - (k - 1)) = i + 1 /\ ~(i <= k - 1)
        BY <1>1, <3>2
      <4>2. (a \o b)[i] = b[i - (k - 1)]
        <5>1. i \in 1..(Len(a) + Len(b)) /\ ~(i <= Len(a)) /\ i - Len(a) = i - (k - 1)
          BY <1>2, <2>3, <4>1
        <5>2. QED
          BY <2>2, <5>1
      <4>3. b[i - (k - 1)] = d[k + (i - (k - 1))]
        BY <1>3, <4>1
      <4>4. QED
        BY <2>1, <3>2, <4>1, <4>2, <4>3
    <3>3. QED
      BY <3>1, <3>2
  <2>5. QED
    BY <2>1, <2>2, <2>3, <2>4
<1>5. r = e
  BY DEF Without
<1> HIDE DEF e
<1>6. QED
  BY <1>1, <1>4, <1>5, Zenon

\* A deque without one of its nodes.
LEMMA WithoutNode ==
    ASSUME NEW B, NEW d \in Seq(B), Distinct(d), NEW n
    PROVE  /\ Without(d, n) \in Seq(B) /\ Distinct(Without(d, n))
           /\ ToSet(Without(d, n)) = ToSet(d) \ {n}
<1>1. CASE ~Contains(d, n)
  BY <1>1 DEF Without, Contains, ToSet
<1>2. CASE Contains(d, n)
  <2> DEFINE e == Without(d, n)
  <2> DEFINE k == Position(d, n)
  <2>1. Len(d) \in Nat /\ DOMAIN d = 1..Len(d)
    OBVIOUS
  <2>2. /\ k \in 1..Len(d) /\ d[k] = n /\ e \in Seq(B) /\ Len(e) = Len(d) - 1
        /\ \A i \in 1..(Len(d) - 1) : e[i] = IF i < k THEN d[i] ELSE d[i + 1]
    <3>1. e = Without(d, n) /\ k = Position(d, n) /\ d \in Seq(B) /\ Contains(d, n)
      BY <1>2
    <3> HIDE DEF e, k
    <3>2. QED
      BY <3>1, WithoutPlaces
  <2> HIDE DEF e, k
  <2>3. Distinct(e)
    BY <2>1, <2>2 DEF Distinct
  <2>4. ToSet(e) = ToSet(d) \ {n}
    <3>1. Len(e) \in Nat /\ DOMAIN e = 1..(Len(d) - 1)
      BY <2>1, <2>2
    <3>2. \A i \in 1..(Len(d) - 1) : e[i] \in ToSet(d) /\ e[i] # n
      <4> SUFFICES ASSUME NEW i \in 1..(Len(d) - 1) PROVE e[i] \in ToSet(d) /\ e[i] # n
        OBVIOUS
      <4>1. PICK j \in 1..Len(d) : j # k /\ e[i] = d[j]
        BY <2>1, <2>2
      <4>2. QED
        BY <2>1, <2>2, <4>1 DEF Distinct, ToSet
    <3>3. ASSUME NEW j \in 1..Len(d), d[j] # n PROVE \E i \in 1..(Len(d) - 1) : e[i] = d[j]
      <4>1. CASE j < k
        <5>1. j \in 1..(Len(d) - 1)
          BY <2>1, <2>2, <4>1
        <5>2. QED
          BY <2>2, <4>1, <5>1
      <4>2. CASE j > k
        <5>1. j - 1 \in 1..(Len(d) - 1) /\ ~(j - 1 < k) /\ (j - 1) + 1 = j
          BY <2>1, <2>2, <4>2
        <5>2. QED
          BY <2>2, <5>1
      <4>3. j # k /\ j \in Int /\ k \in Int
        BY <2>1, <2>2, <3>3
      <4>4. QED
        BY <4>1, <4>2, <4>3
    <3>4. \A x : x \in ToSet(e) <=> \E i \in 1..(Len(d) - 1) : e[i] = x
      BY <3>1 DEF ToSet
    <3>5. \A x : x \in ToSet(d) <=> \E i \in 1..Len(d) : d[i] = x
      BY <2>1 DEF ToSet
    <3>6. QED
      BY <3>2, <3>3, <3>4, <3>5
  <2>5. QED
    BY <2>2, <2>3, <2>4 DEF e
<1>3. QED
  BY <1>1, <1>2

\* A deque with one node more, at the end or at the front.
LEMMA WithNode ==
    ASSUME NEW B, NEW d \in Seq(B), Distinct(d), NEW n \in B, n \notin ToSet(d)
    PROVE  /\ Append(d, n) \in Seq(B) /\ Distinct(Append(d, n))
           /\ ToSet(Append(d, n)) = ToSet(d) \cup {n}
           /\ <<n>> \o d \in Seq(B) /\ Distinct(<<n>> \o d) /\ ToSet(<<n>> \o d) = ToSet(d) \cup {n}
<1>1. Len(d) \in Nat /\ DOMAIN d = 1..Len(d) /\ \A i \in 1..Len(d) : d[i] # n
  BY DEF ToSet
<1>2. \A x : x \in ToSet(d) <=> \E i \in 1..Len(d) : d[i] = x
  BY <1>1 DEF ToSet
<1>3. Append(d, n) \in Seq(B) /\ Distinct(Append(d, n)) /\ ToSet(Append(d, n)) = ToSet(d) \cup {n}
  <2> DEFINE e == Append(d, n)
  <2>1. /\ e \in Seq(B) /\ Len(e) = Len(d) + 1 /\ e[Len(d) + 1] = n
        /\ \A i \in 1..Len(d) : e[i] = d[i]
    BY AppendProperties
  <2> HIDE DEF e
  <2>2. Distinct(e)
    BY <1>1, <2>1 DEF Distinct
  <2>3. \A x : x \in ToSet(e) <=> \E i \in 1..(Len(d) + 1) : e[i] = x
    BY <2>1 DEF ToSet
  <2>4. ASSUME NEW x PROVE x \in ToSet(e) <=> x \in ToSet(d) \/ x = n
    BY <1>1, <1>2, <2>1, <2>3
  <2>5. QED
    BY <2>1, <2>2, <2>4 DEF e
<1>4. <<n>> \o d \in Seq(B) /\ Distinct(<<n>> \o d) /\ ToSet(<<n>> \o d) = ToSet(d) \cup {n}
  <2> DEFINE e == <<n>> \o d
  <2>1. /\ e \in Seq(B) /\ Len(e) = Len(d) + 1 /\ e[1] = n
        /\ \A i \in 1..Len(d) : e[i + 1] = d[i]
    <3>1. <<n>> \in Seq(B) /\ Len(<<n>>) = 1 /\ <<n>>[1] = n
      OBVIOUS
    <3>2. /\ e \in Seq(B) /\ Len(e) = 1 + Len(d)
          /\ \A i \in 1..(1 + Len(d)) : e[i] = IF i <= 1 THEN <<n>>[i] ELSE d[i - 1]
      BY <3>1, ConcatProperties
    <3> HIDE DEF e
    <3>3. \A i \in 1..Len(d) : i + 1 \in 1..(1 + Len(d)) /\ ~(i + 1 <= 1) /\ (i + 1) - 1 = i
      BY <1>1
    <3>4. QED
      BY <1>1, <3>1, <3>2, <3>3
  <2> HIDE DEF e
  <2>2. \A i \in 1..(Len(d) + 1) : i = 1 \/ (i - 1 \in 1..Len(d) /\ e[i] = d[i - 1])
    <3>1. \A i \in 1..(Len(d) + 1) : i = 1 \/ (i - 1 \in 1..Len(d) /\ (i - 1) + 1 = i)
      BY <1>1
    <3>2. QED
      BY <2>1, <3>1
  <2>3. Distinct(e)
    <3> SUFFICES ASSUME NEW i \in 1..(Len(d) + 1), NEW j \in 1..(Len(d) + 1), e[i] = e[j]
                 PROVE  i = j
      BY <2>1 DEF Distinct
    <3>1. CASE i = 1
      BY <1>1, <2>1, <2>2, <3>1
    <3>2. CASE j = 1
      BY <1>1, <2>1, <2>2, <3>2
    <3>3. CASE i # 1 /\ j # 1
      <4>1. i - 1 \in 1..Len(d) /\ j - 1 \in 1..Len(d) /\ d[i - 1] = d[j - 1]
        BY <2>2, <3>3
      <4>2. i - 1 = j - 1
        BY <4>1 DEF Distinct
      <4>3. QED
        BY <1>1, <4>2
    <3>4. QED
      BY <3>1, <3>2, <3>3
  <2>4. \A x : x \in ToSet(e) <=> \E i \in 1..(Len(d) + 1) : e[i] = x
    BY <2>1 DEF ToSet
  <2>5. ASSUME NEW x PROVE x \in ToSet(e) <=> x \in ToSet(d) \/ x = n
    <3>1. \A i \in 1..Len(d) : i + 1 \in 1..(Len(d) + 1)
      BY <1>1
    <3>2. 1 \in 1..(Len(d) + 1)
      BY <1>1
    <3>3. QED
      BY <1>2, <2>1, <2>2, <2>4, <3>1, <3>2
  <2>6. QED
    BY <2>1, <2>3, <2>5 DEF e
<1>5. QED
  BY <1>3, <1>4

--------------------------------------------------------------------------------
(* Policies *)

Words == 0..(Word - 1)

\* The policies over the nodes B.
Policies(B) ==
    [queue : [Nodes -> Queues], deque : [Queues -> Seq(B)],
     size : [{"window", "protected"} -> Words], limit : [window : Int, protected : Int],
     adjustment : Int, weighted : Words, dead : SUBSET B]

\* A node is in one place, in the deque its queue type names.
DequesSound(p) ==
    \A q \in Queues : Distinct(p.deque[q]) /\ \A n \in ToSet(p.deque[q]) : p.queue[n] = q

Links(p) == UNION {ToSet(p.deque[q]) : q \in Queues}

PolicySound(B, p) == B \subseteq Nodes /\ p \in Policies(B) /\ DequesSound(p)

\* What the policy counts is the same.
SameCount(p, r) == r.weighted = p.weighted /\ r.dead = p.dead

\* Policy r is p with some of its nodes elsewhere.
Moved(B, p, r) == /\ PolicySound(B, r) /\ SameCount(p, r) /\ Links(r) = Links(p)
                  /\ \A n \in Nodes : n \notin Links(p) => r.queue[n] = p.queue[n]

\* Which nodes these are.
LEMMA LinksOf ==
    ASSUME NEW p PROVE \A n : n \in Links(p) <=> \E q \in Queues : n \in ToSet(p.deque[q])
  BY DEF Links

\* A node that is taken out of the deque its queue type names is in none.
LEMMA UnlinkSound ==
    ASSUME NEW B, NEW p, PolicySound(B, p), NEW n \in Nodes
    PROVE  LET r == Unlink(p, p.queue[n], n)
           IN  /\ PolicySound(B, r) /\ SameCount(p, r) /\ Links(r) = Links(p) \ {n}
               /\ r.queue = p.queue /\ r.size = p.size /\ r.limit = p.limit
<1> DEFINE q == p.queue[n]
           e == Without(p.deque[q], n)
           r == Unlink(p, q, n)
<1>1. q \in Queues /\ p.deque[q] \in Seq(B) /\ Distinct(p.deque[q]) /\ p.deque \in [Queues -> Seq(B)]
  BY DEF PolicySound, Policies, DequesSound
<1>2. e \in Seq(B) /\ Distinct(e) /\ ToSet(e) = ToSet(p.deque[q]) \ {n}
  BY <1>1, WithoutNode
<1>3. r = [p EXCEPT !.deque = [p.deque EXCEPT ![q] = e]]
  BY DEF Unlink
<1> HIDE DEF e, q
<1> DEFINE D == [p.deque EXCEPT ![q] = e]
<1>4. D \in [Queues -> Seq(B)] /\ \A x \in Queues : D[x] = IF x = q THEN e ELSE p.deque[x]
  BY <1>1, <1>2
<1>5. r = [p EXCEPT !.deque = D]
  BY <1>3
<1> HIDE DEF D, r
<1>6. /\ r \in Policies(B) /\ r.deque = D /\ r.queue = p.queue /\ r.size = p.size
      /\ r.limit = p.limit /\ r.weighted = p.weighted /\ r.dead = p.dead
  BY <1>4, <1>5 DEF PolicySound, Policies
<1>7. \A x \in Queues : x # q => n \notin ToSet(p.deque[x])
  BY DEF PolicySound, DequesSound, q
<1>8. DequesSound(r)
  <2>1. \A x \in Queues : \A y \in ToSet(p.deque[x]) : p.queue[y] = x
    BY DEF PolicySound, DequesSound
  <2>2. \A x \in Queues : Distinct(p.deque[x])
    BY DEF PolicySound, DequesSound
  <2>3. ASSUME NEW x \in Queues PROVE Distinct(r.deque[x]) /\ \A y \in ToSet(r.deque[x]) : r.queue[y] = x
    <3>1. r.deque[x] = IF x = q THEN e ELSE p.deque[x]
      BY <1>4, <1>6
    <3>2. CASE x = q
      BY <1>1, <1>2, <1>6, <2>1, <3>1, <3>2
    <3>3. CASE x # q
      BY <1>6, <2>1, <2>2, <3>1, <3>3
    <3>4. QED
      BY <3>2, <3>3
  <2>4. QED
    BY <2>3 DEF DequesSound
<1>9. Links(r) = Links(p) \ {n}
  <2>1. \A x \in Queues : ToSet(r.deque[x]) = ToSet(p.deque[x]) \ {n}
    BY <1>2, <1>4, <1>6, <1>7
  <2>2. QED
    BY <2>1, LinksOf
<1>10. QED
  BY <1>6, <1>8, <1>9 DEF PolicySound, SameCount, r, q

\* A node that is in no deque is put into one.
LEMMA LinkSound ==
    ASSUME NEW B, NEW p, PolicySound(B, p), NEW n \in B, n \notin Links(p), NEW q \in Queues,
           NEW r \in {PushBack(p, q, n), PushFront(p, q, n)}
    PROVE  /\ PolicySound(B, r) /\ SameCount(p, r) /\ Links(r) = Links(p) \cup {n}
           /\ \A x \in Nodes : r.queue[x] = IF x = n THEN q ELSE p.queue[x]
           /\ r.size = p.size /\ r.limit = p.limit
<1> DEFINE d == p.deque[q]
<1>1. /\ d \in Seq(B) /\ Distinct(d) /\ p.deque \in [Queues -> Seq(B)] /\ n \notin ToSet(d)
      /\ n \in Nodes /\ p.queue \in [Nodes -> Queues]
  BY DEF PolicySound, Policies, DequesSound, Links
<1>2. PICK e : /\ r = [p EXCEPT !.deque = [p.deque EXCEPT ![q] = e],
                                !.queue = [p.queue EXCEPT ![n] = q]]
               /\ e \in Seq(B) /\ Distinct(e) /\ ToSet(e) = ToSet(d) \cup {n}
  <2> DEFINE R(e) == [p EXCEPT !.deque = [p.deque EXCEPT ![q] = e],
                               !.queue = [p.queue EXCEPT ![n] = q]]
             Fits(e) == e \in Seq(B) /\ Distinct(e) /\ ToSet(e) = ToSet(d) \cup {n}
  <2>0. Fits(Append(d, n)) /\ Fits(<<n>> \o d)
    BY <1>1, WithNode
  <2>1. CASE r = PushBack(p, q, n)
    <3>1. r = R(Append(d, n))
      BY <2>1 DEF PushBack
    <3> HIDE DEF R, Fits
    <3>2. \E e : r = R(e) /\ Fits(e)
      BY <2>0, <3>1
    <3>3. QED
      BY <3>2 DEF R, Fits
  <2>2. CASE r = PushFront(p, q, n)
    <3>1. r = R(<<n>> \o d)
      BY <2>2 DEF PushFront
    <3> HIDE DEF R, Fits
    <3>2. \E e : r = R(e) /\ Fits(e)
      BY <2>0, <3>1
    <3>3. QED
      BY <3>2 DEF R, Fits
  <2>3. QED
    BY <2>1, <2>2
<1> DEFINE D == [p.deque EXCEPT ![q] = e]
           Q == [p.queue EXCEPT ![n] = q]
<1>3. D \in [Queues -> Seq(B)] /\ \A x \in Queues : D[x] = IF x = q THEN e ELSE p.deque[x]
  BY <1>1, <1>2
<1>4. Q \in [Nodes -> Queues] /\ \A x \in Nodes : Q[x] = IF x = n THEN q ELSE p.queue[x]
  BY <1>1
<1>5. r = [p EXCEPT !.deque = D, !.queue = Q]
  BY <1>2
<1> HIDE DEF D, Q
<1>6. /\ r \in Policies(B) /\ r.deque = D /\ r.queue = Q /\ r.size = p.size
      /\ r.limit = p.limit /\ r.weighted = p.weighted /\ r.dead = p.dead
  BY <1>3, <1>4, <1>5 DEF PolicySound, Policies
<1>7. \A x \in Queues : ToSet(p.deque[x]) \subseteq Nodes /\ n \notin ToSet(p.deque[x])
  <2>1. \A x \in Queues : p.deque[x] \in Seq(B) /\ B \subseteq Nodes /\ n \notin ToSet(p.deque[x])
    BY <1>1 DEF Links, PolicySound
  <2>2. \A x \in Queues : ToSet(p.deque[x]) \subseteq B
    BY <2>1 DEF ToSet
  <2>3. QED
    BY <2>1, <2>2
<1>8. DequesSound(r)
  BY <1>1, <1>2, <1>3, <1>4, <1>6, <1>7 DEF PolicySound, DequesSound
<1>9. Links(r) = Links(p) \cup {n}
  <2>1. \A x \in Queues : r.deque[x] = IF x = q THEN e ELSE p.deque[x]
    BY <1>3, <1>6
  <2>2. \A x \in Queues : x # q => ToSet(r.deque[x]) = ToSet(p.deque[x])
    BY <2>1
  <2>3. ToSet(r.deque[q]) = ToSet(p.deque[q]) \cup {n}
    BY <1>2, <2>1
  <2> HIDE DEF d
  <2>4. ASSUME NEW m PROVE m \in Links(r) <=> m \in Links(p) \/ m = n
    <3>1. m \in Links(r) <=> \E x \in Queues : m \in ToSet(r.deque[x])
      BY LinksOf
    <3>2. m \in Links(p) <=> \E x \in Queues : m \in ToSet(p.deque[x])
      BY LinksOf
    <3>3. QED
      BY <2>2, <2>3, <3>1, <3>2
  <2>5. QED
    BY <2>4
<1>10. QED
  BY <1>4, <1>6, <1>8, <1>9 DEF PolicySound, SameCount

Sizes == [{"window", "protected"} -> Words]

\* Sums and differences are words.
LEMMA WordType ==
    ASSUME NEW a \in Int, NEW b \in Int
    PROVE  Plus(a, b) \in Words /\ Minus(a, b) \in Words /\ a % Word \in Words
<1>1. /\ a + b \in Int /\ a + Word - b \in Int
      /\ \A x \in Int : x % Word \in 0..(Word - 1)
  BY PolicyAssumption
<1>2. QED
  BY <1>1 DEF Plus, Minus, Words

\* The sizes, the limits and the adjustment do not matter to what is linked.
LEMMA OtherFields ==
    ASSUME NEW B, NEW p, NEW r, Moved(B, p, r)
    PROVE  /\ \A s \in Sizes : Moved(B, p, [r EXCEPT !.size = s])
           /\ \A x, y \in Int : Moved(B, p, [r EXCEPT !.limit = [window |-> x, protected |-> y]])
           /\ \A a \in Int : Moved(B, p, [r EXCEPT !.adjustment = a])
<1>1. r \in Policies(B) /\ B \subseteq Nodes
  BY DEF Moved, PolicySound
<1>2. ASSUME NEW t \in Policies(B), t.deque = r.deque, t.queue = r.queue, SameCount(r, t)
      PROVE  Moved(B, p, t)
  BY <1>1, <1>2 DEF Moved, PolicySound, DequesSound, SameCount, Links
<1>3. ASSUME NEW s \in Sizes PROVE Moved(B, p, [r EXCEPT !.size = s])
  BY <1>1, <1>2 DEF Policies, Sizes, SameCount
<1>4. ASSUME NEW x \in Int, NEW y \in Int
      PROVE  Moved(B, p, [r EXCEPT !.limit = [window |-> x, protected |-> y]])
  BY <1>1, <1>2 DEF Policies, SameCount
<1>5. ASSUME NEW a \in Int PROVE Moved(B, p, [r EXCEPT !.adjustment = a])
  BY <1>1, <1>2 DEF Policies, SameCount
<1>6. QED
  BY <1>3, <1>4, <1>5

\* Moving a linked node.
LEMMA MoveSound ==
    ASSUME NEW B, NEW p, NEW r, Moved(B, p, r), PolicySound(B, p), NEW n \in Links(p),
           NEW q \in Queues
    PROVE  /\ Moved(B, p, MoveTo(r, n, q)) /\ n \in B
           /\ MoveTo(r, n, q).size = r.size /\ MoveTo(r, n, q).limit = r.limit
           /\ \A x \in Nodes : MoveTo(r, n, q).queue[x] = IF x = n THEN q ELSE r.queue[x]
<1>1. n \in B /\ n \in Nodes
  <2>1. \A x \in Queues : p.deque[x] \in Seq(B) /\ B \subseteq Nodes
    BY DEF PolicySound, Policies
  <2>2. \A x \in Queues : ToSet(p.deque[x]) \subseteq B
    BY <2>1 DEF ToSet
  <2>3. QED
    BY <2>1, <2>2, LinksOf
<1>2. PolicySound(B, r) /\ SameCount(p, r) /\ Links(r) \subseteq Links(p)
  BY DEF Moved
<1> DEFINE u == Unlink(r, r.queue[n], n)
           t == PushBack(u, q, n)
<1>3. /\ PolicySound(B, u) /\ SameCount(r, u) /\ Links(u) = Links(r) \ {n}
      /\ u.size = r.size /\ u.limit = r.limit /\ u.queue = r.queue
  BY <1>1, <1>2, UnlinkSound
<1>4. MoveTo(r, n, q) = t
  BY DEF MoveTo
<1> HIDE DEF u
<1>5. /\ PolicySound(B, t) /\ SameCount(u, t) /\ Links(t) = Links(u) \cup {n}
      /\ t.size = u.size /\ t.limit = u.limit
      /\ \A x \in Nodes : t.queue[x] = IF x = n THEN q ELSE u.queue[x]
  <2>1. n \notin Links(u) /\ PolicySound(B, u) /\ n \in B
        /\ t \in {PushBack(u, q, n), PushFront(u, q, n)}
    BY <1>1, <1>3
  <2> HIDE DEF t
  <2>2. QED
    BY <2>1, LinkSound
<1> HIDE DEF t
<1>6. QED
  BY <1>1, <1>2, <1>3, <1>4, <1>5 DEF Moved, SameCount

Weighs(w) == w \in [Nodes -> Nat]

\* The nodes of C whose queue type names region q.
Region(p, C, q) == {n \in C : p.queue[n] = q}

\* The sizes of the window and of the protected region are the weights of the nodes that
\* are counted in them, in a word; C are the nodes that are counted.
Books(p, w, C) ==
    \A q \in {"window", "protected"} : p.size[q] = Sum(w, Region(p, C, q)) % Word

\* The books of r are in order if those of p are, whatever is counted besides the linked.
Booked(p, w, r) == \A C \in SUBSET Nodes : Links(p) \subseteq C /\ Books(p, w, C) => Books(r, w, C)

\* Region q gains node n, loses it, or neither, and its size s becomes t.
Recounts(s, t, w, n, gains, loses) ==
    /\ gains /\ ~loses => t = Plus(s, w[n])
    /\ loses /\ ~gains => t = Minus(s, w[n])
    /\ (gains <=> loses) => t = s

\* A sum modulo the word gains or loses a weight.
LEMMA BookOne ==
    ASSUME NEW w, Weighs(w), NEW R, NEW T, R \subseteq Nodes, T \subseteq Nodes, NEW n \in Nodes,
           T \ {n} = R \ {n}, NEW s, s = Sum(w, R) % Word, NEW t,
           Recounts(s, t, w, n, n \in T, n \in R)
    PROVE  t = Sum(w, T) % Word
<1>1. \A S : S \subseteq Nodes => IsFiniteSet(S) /\ \A x \in S : w[x] \in Nat
  BY PolicyAssumption, FS_Subset DEF Weighs
<1>2. \A S : S \subseteq Nodes => Sum(w, S) \in Nat
  BY <1>1, SumType
<1>3. w[n] \in Nat
  BY DEF Weighs
<1>4. CASE n \in T /\ n \notin R
  <2>1. T = R \cup {n}
    BY <1>4
  <2>2. Sum(w, T) = Sum(w, R) + w[n]
    BY <1>1, <1>3, <1>4, <2>1, SumAdd
  <2>3. t = Plus(s, w[n])
    BY <1>4 DEF Recounts
  <2>4. Sum(w, R) \in Int /\ w[n] \in Int
    BY <1>2, <1>3
  <2>5. ((Sum(w, R) % Word) + w[n]) % Word = (Sum(w, R) + w[n]) % Word
    BY <2>4, WordArithmetic
  <2>6. QED
    BY ZenonT(20), <2>2, <2>3, <2>5 DEF Plus
<1>5. CASE n \in R /\ n \notin T
  <2>1. R = T \cup {n}
    BY <1>5
  <2>2. Sum(w, R) = Sum(w, T) + w[n]
    BY <1>1, <1>3, <1>5, <2>1, SumAdd
  <2>3. t = Minus(s, w[n])
    BY <1>5 DEF Recounts
  <2>4. Sum(w, T) = Sum(w, R) - w[n] /\ Sum(w, R) \in Int /\ w[n] \in Int
    BY <1>2, <1>3, <2>2
  <2>5. Minus(Sum(w, R) % Word, w[n]) = (Sum(w, R) - w[n]) % Word
    BY <2>4, WordArithmetic
  <2>6. QED
    BY ZenonT(20), <2>3, <2>4, <2>5
<1>6. CASE n \in R <=> n \in T
  <2>1. R = T
    BY <1>6
  <2>2. QED
    BY <1>6, <2>1 DEF Recounts
<1>7. QED
  BY <1>4, <1>5, <1>6

\* A linked node goes to another region, and the sizes follow.
LEMMA BookedMove ==
    ASSUME NEW B, NEW p, PolicySound(B, p), NEW w, Weighs(w), NEW r, Moved(B, p, r), Booked(p, w, r),
           NEW n \in Links(p), NEW q \in Queues, NEW t,
           \A x \in Nodes : t.queue[x] = IF x = n THEN q ELSE r.queue[x],
           \A x \in {"window", "protected"} :
               Recounts(r.size[x], t.size[x], w, n, x = q, x = r.queue[n])
    PROVE  Booked(p, w, t)
<1> SUFFICES ASSUME NEW C \in SUBSET Nodes, Links(p) \subseteq C, Books(p, w, C),
                    NEW x \in {"window", "protected"}
             PROVE  t.size[x] = Sum(w, Region(t, C, x)) % Word
  BY DEF Booked, Books
<1>1. Books(r, w, C) /\ n \in C /\ n \in Nodes
  BY DEF Booked
<1>2. /\ Region(r, C, x) \subseteq Nodes /\ Region(t, C, x) \subseteq Nodes
      /\ Region(t, C, x) \ {n} = Region(r, C, x) \ {n}
      /\ n \in Region(t, C, x) <=> x = q
      /\ n \in Region(r, C, x) <=> x = r.queue[n]
  BY <1>1 DEF Region
<1>3. r.size[x] = Sum(w, Region(r, C, x)) % Word
  BY <1>1 DEF Books
<1>4. Recounts(r.size[x], t.size[x], w, n, n \in Region(t, C, x), n \in Region(r, C, x))
  BY <1>2 DEF Recounts
<1>5. QED
  BY <1>1, <1>2, <1>3, <1>4, BookOne

\* A node is in a deque of a policy only if it is linked.
LEMMA LinkedIsLinked ==
    ASSUME NEW B, NEW p, PolicySound(B, p), NEW n \in Nodes, Linked(p, n)
    PROVE  n \in Links(p)
<1>1. p.queue[n] \in Queues /\ p.deque[p.queue[n]] \in Seq(B)
  BY DEF PolicySound, Policies
<1>2. n \in ToSet(p.deque[p.queue[n]])
  BY <1>1 DEF Linked, Contains, ToSet
<1>3. QED
  BY <1>1, <1>2, LinksOf

\* Policy r is p with some of its nodes elsewhere, the books are in order, and the limits the same.
Carried(B, p, w, r) == Moved(B, p, r) /\ Booked(p, w, r) /\ r.limit = p.limit

\* A policy left alone has moved nothing.
LEMMA LeftAlone ==
    ASSUME NEW B, NEW p, PolicySound(B, p), NEW w PROVE Carried(B, p, w, p)
  BY DEF Carried, Moved, SameCount, Booked



\* A linked node has gone to region q, and the sizes follow.
LEMMA CarriedMove ==
    ASSUME NEW B, NEW p, PolicySound(B, p), NEW w, Weighs(w), NEW r, Carried(B, p, w, r),
           NEW n \in Links(p), NEW q \in Queues, NEW s \in Sizes,
           \A x \in {"window", "protected"} :
               Recounts(r.size[x], s[x], w, n, x = q, x = r.queue[n])
    PROVE  Carried(B, p, w, [MoveTo(r, n, q) EXCEPT !.size = s])
<1> DEFINE m == MoveTo(r, n, q)
           t == [m EXCEPT !.size = s]
<1>1. /\ Moved(B, p, m) /\ m.size = r.size /\ m.limit = r.limit
      /\ \A x \in Nodes : m.queue[x] = IF x = n THEN q ELSE r.queue[x]
  BY MoveSound DEF Carried
<1> HIDE DEF m
<1>2. Moved(B, p, t)
  BY <1>1, OtherFields
<1>3. t.size = s /\ t.queue = m.queue /\ t.limit = m.limit
  BY <1>1 DEF Moved, PolicySound, Policies
<1> HIDE DEF t
<1>4. Booked(p, w, t)
  BY <1>1, <1>3, BookedMove DEF Carried
<1>5. QED
  BY <1>1, <1>2, <1>3, <1>4 DEF Carried, m, t

\* An access moves a node, or nothing.
LEMMA AccessSound ==
    ASSUME NEW B, NEW p, PolicySound(B, p), NEW w, Weighs(w), NEW r, Carried(B, p, w, r),
           NEW n \in Nodes
    PROVE  Carried(B, p, w, Access(r, w, n))
<1>1. PolicySound(B, r) /\ Links(r) = Links(p) /\ r.queue[n] \in Queues /\ w[n] \in Int
  BY DEF Carried, Moved, PolicySound, Policies, Weighs
<1>2. CASE ~Linked(r, n)
  BY <1>2 DEF Access
<1>3. CASE Linked(r, n)
  <2>1. n \in Links(p)
    BY <1>1, <1>3, LinkedIsLinked
  <2>2. r.size \in Sizes /\ r.size["protected"] \in Int /\ MoveTo(r, n, r.queue[n]).size = r.size
        /\ MoveTo(r, n, "protected").size = r.size
    <3>1. r.size \in Sizes /\ "protected" \in Queues
      BY <1>1 DEF PolicySound, Policies, Sizes, Queues
    <3>2. QED
      BY <1>1, <2>1, <3>1, MoveSound, PolicyAssumption DEF Carried, Sizes, Words
  <2> DEFINE s == [r.size EXCEPT !["protected"] = Plus(@, w[n])]
  <2>3. CASE r.queue[n] = "probation" /\ w[n] <= r.limit.protected
    <3>1. s \in Sizes
      BY <1>1, <2>2, WordType DEF Sizes
    <3>2. \A x \in {"window", "protected"} :
             Recounts(r.size[x], s[x], w, n, x = "protected", x = r.queue[n])
      BY <2>2, <2>3 DEF Recounts, Sizes
    <3>3. Access(r, w, n) = [MoveTo(r, n, "protected") EXCEPT !.size = s]
      BY <1>3, <2>2, <2>3 DEF Access
    <3> HIDE DEF s
    <3>4. QED
      BY <2>1, <3>1, <3>2, <3>3, CarriedMove DEF Queues
  <2>4. CASE ~(r.queue[n] = "probation" /\ w[n] <= r.limit.protected)
    <3>1. \A x \in {"window", "protected"} :
             Recounts(r.size[x], r.size[x], w, n, x = r.queue[n], x = r.queue[n])
      BY DEF Recounts
    <3>2. Carried(B, p, w, [MoveTo(r, n, r.queue[n]) EXCEPT !.size = r.size])
      BY <1>1, <2>1, <2>2, <3>1, CarriedMove
    <3>3. [MoveTo(r, n, r.queue[n]) EXCEPT !.size = r.size] = MoveTo(r, n, r.queue[n])
      <4>1. MoveTo(r, n, r.queue[n]) \in Policies(B)
        BY <1>1, <2>1, MoveSound DEF Carried, Moved, PolicySound
      <4>2. QED
        BY <2>2, <4>1 DEF Policies
    <3>4. QED
      BY <1>3, <2>4, <3>2, <3>3 DEF Access
  <2>5. QED
    BY <2>3, <2>4
<1>4. QED
  BY <1>2, <1>3

--------------------------------------------------------------------------------
(* Folds of policies *)

\* The context of a fold: from policy p over the nodes B, with the weights w, along the
\* sequence s; limit is the limit of a region, and from and to say whence nodes are moved.
Kept(c, acc) == Carried(c.B, c.p, c.w, acc)

AccessOne(c, acc, i) == Access(acc, c.w, c.s[i])

Accesses == INSTANCE Folding WITH Step <- AccessOne, Good <- Kept, Pick <- Max

\* The subsets of a range are ranked by their sizes.
LEMMA MaxDescends ==
    ASSUME NEW n \in Nat
    PROVE  \E rank, top : /\ top \in Nat /\ rank \in [SUBSET (1..n) -> 0..top]
                          /\ \A s \in SUBSET (1..n) :
                               s # {} => Max(s) \in s /\ rank[s \ {Max(s)}] < rank[s]
<1> DEFINE S == 1..n
           rank == [s \in SUBSET S |-> Cardinality(s)]
<1>1. IsFiniteSet(S) /\ Cardinality(S) \in Nat
  BY SMTT(30), FS_Interval
<1>2. \A s \in SUBSET S : IsFiniteSet(s) /\ Cardinality(s) \in 0..Cardinality(S)
  <2> HIDE DEF S
  <2>1. ASSUME NEW s \in SUBSET S
        PROVE  IsFiniteSet(s) /\ Cardinality(s) \in Nat /\ Cardinality(s) <= Cardinality(S)
    BY <1>1, FS_Subset, FS_CardinalityType
  <2>2. QED
    BY <1>1, <2>1
<1>3. ASSUME NEW s \in SUBSET S, s # {}
      PROVE  Max(s) \in s /\ Cardinality(s \ {Max(s)}) < Cardinality(s)
  <2>1. \E x \in s : \A y \in s : x >= y
    <3> DEFINE T == {n - x : x \in s}
    <3>1. T \subseteq Nat /\ T # {}
      <4>1. ASSUME NEW x \in s PROVE n - x \in Nat
        <5>1. x \in 1..n
          BY DEF S
        <5>2. QED
          BY <5>1
      <4>2. QED
        BY <1>3, <4>1
    <3>2. PICK t \in T : \A u \in T : t <= u
      BY <3>1, Accesses!LeastNumber
    <3>3. PICK x \in s : t = n - x
      OBVIOUS
    <3>4. ASSUME NEW y \in s PROVE x >= y
      <4>1. n - x <= n - y /\ x \in Int /\ y \in Int
        BY <3>2, <3>3
      <4>2. QED
        BY <4>1
    <3>5. QED
      BY <3>4
  <2>2. Max(s) \in s
    BY <2>1 DEF Max
  <2>3. Cardinality(s \ {Max(s)}) = Cardinality(s) - 1 /\ Cardinality(s) \in Nat
    BY <1>2, <2>2, FS_RemoveElement, FS_CardinalityType
  <2>4. QED
    BY <2>2, <2>3
<1>4. rank \in [SUBSET S -> 0..Cardinality(S)]
  BY <1>2
<1>5. \A s \in SUBSET S : s # {} => Max(s) \in s /\ rank[s \ {Max(s)}] < rank[s]
  BY <1>3
<1> HIDE DEF rank
<1>6. QED
  BY <1>1, <1>4, <1>5

\* The policy after several accesses.
Accessed(p, w, s) == LET access(q, n) == Access(q, w, n) IN FoldLeft(access, p, s)

\* Accesses move nodes only.
LEMMA AccessesSound ==
    ASSUME NEW B, NEW p, PolicySound(B, p), NEW w, Weighs(w), NEW s \in Seq(Nodes)
    PROVE  Carried(B, p, w, Accessed(p, w, s))
<1> DEFINE D == DOMAIN s
           c == [B |-> B, p |-> p, w |-> w, s |-> s]
           f == CHOOSE f : f = [S \in SUBSET D |-> IF S = {} THEN p
                                                   ELSE Access(f[S \ {Max(S)}], w, s[Max(S)])]
<1>1. Accessed(p, w, s) = f[D]
  BY DEF Accessed, FoldLeft, MapThenFoldSet
<1>2. D = 1..Len(s) /\ Len(s) \in Nat /\ D \in SUBSET D /\ \A i \in D : s[i] \in Nodes
  OBVIOUS
<1>3. c.B = B /\ c.p = p /\ c.w = w /\ c.s = s
  OBVIOUS
<1> HIDE DEF D, c
<1>4. PICK rank, top : Accesses!Descends(D, rank, top)
  BY <1>2, MaxDescends DEF Accesses!Descends
<1>5. Kept(c, p)
  BY <1>3, LeftAlone DEF Kept
<1>6. \A acc, i : i \in D /\ Kept(c, acc) => Kept(c, AccessOne(c, acc, i))
  BY <1>2, <1>3, AccessSound DEF Kept, AccessOne
<1>7. PICK g : Accesses!IsFold(g, c, p, D)
  BY <1>4, <1>5, Accesses!FoldExists
<1> DEFINE h == [S \in SUBSET D |-> g[S]]
<1>8. h = [S \in SUBSET D |-> IF S = {} THEN p ELSE Access(h[S \ {Max(S)}], w, s[Max(S)])]
  <2>1. ASSUME NEW S \in SUBSET D
        PROVE  h[S] = IF S = {} THEN p ELSE Access(h[S \ {Max(S)}], w, s[Max(S)])
    BY <1>3, <1>7 DEF Accesses!IsFold, AccessOne
  <2>2. QED
    BY <2>1
<1>9. f = [S \in SUBSET D |-> IF S = {} THEN p ELSE Access(f[S \ {Max(S)}], w, s[Max(S)])]
  <2> HIDE DEF h
  <2>1. QED
    BY <1>8, Zenon
<1> HIDE DEF f
<1>10. Accesses!IsFold(f, c, p, D)
  BY <1>3, <1>9 DEF Accesses!IsFold, AccessOne
<1>11. Kept(c, f[D])
  BY <1>2, <1>4, <1>5, <1>6, <1>10, Accesses!FoldKeeps
<1>12. QED
  BY <1>1, <1>3, <1>11 DEF Kept

\* A node moves to probation, and is counted off the size of the queue it leaves.
Trimmed(r, w, n, q) == [MoveTo(r, n, "probation") EXCEPT !.size[q] = Minus(@, w[n])]

\* The books follow, and the other nodes stay where they are.
LEMMA TrimSound ==
    ASSUME NEW B, NEW p, PolicySound(B, p), NEW w, Weighs(w), NEW r, Carried(B, p, w, r),
           NEW n \in Links(p), NEW q \in {"window", "protected"}, r.queue[n] = q
    PROVE  /\ Carried(B, p, w, Trimmed(r, w, n, q))
           /\ \A x \in Nodes : x # n => Trimmed(r, w, n, q).queue[x] = r.queue[x]
<1> DEFINE m == MoveTo(r, n, "probation")
           s == [r.size EXCEPT ![q] = Minus(@, w[n])]
<1>1. /\ m.size = r.size /\ n \in Nodes /\ m \in Policies(B)
      /\ \A x \in Nodes : x # n => m.queue[x] = r.queue[x]
  BY MoveSound DEF Carried, Queues, PolicySound, Moved
<1>2. r.size \in Sizes /\ w[n] \in Int /\ r.size[q] \in Int
  <2>1. r.size \in Sizes
    BY DEF Carried, Moved, PolicySound, Policies, Sizes
  <2>2. r.size[q] \in Words
    BY <2>1 DEF Sizes
  <2>3. r.size[q] \in Int
    BY <2>2, PolicyAssumption DEF Words
  <2>4. w[n] \in Nat
    BY <1>1 DEF Weighs
  <2>5. QED
    BY <2>1, <2>3, <2>4
<1>3. s \in Sizes
  BY <1>2, WordType DEF Sizes
<1>4. \A x \in {"window", "protected"} : Recounts(r.size[x], s[x], w, n, x = "probation", x = r.queue[n])
  BY <1>2 DEF Recounts, Sizes
<1>5. [m EXCEPT !.size[q] = Minus(@, w[n])] = [m EXCEPT !.size = s]
  BY <1>1
<1> HIDE DEF s
<1>6. Carried(B, p, w, [m EXCEPT !.size = s])
  BY <1>3, <1>4, CarriedMove DEF Queues
<1>7. [m EXCEPT !.size = s].queue = m.queue
  BY <1>1 DEF Policies
<1>8. QED
  BY <1>1, <1>5, <1>6, <1>7 DEF Trimmed

EvictOne(c, acc, i) ==
    IF acc.size["window"] > c.p.limit.window /\ c.w[c.s[i]] # 0
    THEN [MoveTo(acc, c.s[i], "probation") EXCEPT !.size["window"] = Minus(@, c.w[c.s[i]])]
    ELSE acc

Evictions == INSTANCE Folding WITH Step <- EvictOne, Good <- Kept, Pick <- Max

\* evictFromWindow moves nodes only.
LEMMA EvictFromWindowSound ==
    ASSUME NEW B, NEW p, PolicySound(B, p), NEW w, Weighs(w)
    PROVE  Carried(B, p, w, EvictFromWindow(p, w))
<1> DEFINE s == p.deque["window"]
           D == DOMAIN s
           c == [B |-> B, p |-> p, w |-> w, s |-> s]
           One(acc, n) == IF acc.size["window"] > p.limit.window /\ w[n] # 0
                          THEN [MoveTo(acc, n, "probation") EXCEPT !.size["window"] = Minus(@, w[n])]
                          ELSE acc
           f == CHOOSE f : f = [S \in SUBSET D |-> IF S = {} THEN p
                                                   ELSE One(f[S \ {Max(S)}], s[Max(S)])]
<1>1. EvictFromWindow(p, w) = f[D]
  BY DEF EvictFromWindow, FoldLeft, MapThenFoldSet
<1>2. /\ D = 1..Len(s) /\ Len(s) \in Nat /\ D \in SUBSET D
      /\ \A i \in D : s[i] \in Links(p) /\ s[i] \in Nodes /\ p.queue[s[i]] = "window"
      /\ \A i, j \in D : i # j => s[i] # s[j]
  <2>1. s \in Seq(B) /\ B \subseteq Nodes /\ Distinct(s) /\ \A n \in ToSet(s) : p.queue[n] = "window"
    BY DEF PolicySound, Policies, Queues, DequesSound
  <2>2. \A i \in D : s[i] \in ToSet(p.deque["window"])
    BY DEF ToSet
  <2>3. QED
    BY <2>1, <2>2, LinksOf DEF Queues, Distinct
<1>3. c.B = B /\ c.p = p /\ c.w = w /\ c.s = s
  OBVIOUS
<1> HIDE DEF D, c, s, One
<1>4. PICK rank, top : Evictions!Descends(D, rank, top)
  BY <1>2, MaxDescends DEF Evictions!Descends
<1>5. Kept(c, p)
  BY <1>3, LeftAlone DEF Kept
<1>6. \A acc, i : i \in D => EvictOne(c, acc, i) = One(acc, s[i])
  BY <1>3 DEF EvictOne, One
<1>7. ASSUME NEW acc, Carried(B, p, w, acc), NEW i \in D, acc.queue[s[i]] = "window"
      PROVE  /\ Carried(B, p, w, One(acc, s[i]))
             /\ \A j \in D \ {i} : One(acc, s[i]).queue[s[j]] = acc.queue[s[j]]
  <2> DEFINE t == Trimmed(acc, w, s[i], "window")
  <2>1. s[i] \in Links(p) /\ acc.queue[s[i]] \in {"window", "protected"}
    BY <1>2, <1>7
  <2>2. Carried(B, p, w, t) /\ \A x \in Nodes : x # s[i] => t.queue[x] = acc.queue[x]
    BY <1>7, <2>1, TrimSound
  <2>3. One(acc, s[i]) \in {t, acc}
    BY DEF One, Trimmed
  <2> HIDE DEF t
  <2>4. QED
    BY <1>2, <1>7, <2>2, <2>3
<1>8. PICK g : Evictions!IsFold(g, c, p, D)
  BY <1>4, <1>5, Evictions!FoldExists
<1> DEFINE h == [S \in SUBSET D |-> g[S]]
<1>9. h = [S \in SUBSET D |-> IF S = {} THEN p ELSE One(h[S \ {Max(S)}], s[Max(S)])]
  <2>1. ASSUME NEW S \in SUBSET D
        PROVE  h[S] = IF S = {} THEN p ELSE One(h[S \ {Max(S)}], s[Max(S)])
    <3>1. S # {} => Max(S) \in D
      BY <1>4 DEF Evictions!Descends
    <3>2. QED
      BY <1>6, <1>8, <3>1 DEF Evictions!IsFold
  <2>2. QED
    BY <2>1
<1>10. f = [S \in SUBSET D |-> IF S = {} THEN p ELSE One(f[S \ {Max(S)}], s[Max(S)])]
  <2> HIDE DEF h
  <2>1. QED
    BY <1>9, Zenon
<1> HIDE DEF f
<1>11. Evictions!IsFold(f, c, p, D)
  <2>1. ASSUME NEW S \in SUBSET D, S # {}
        PROVE  One(f[S \ {Max(S)}], s[Max(S)]) = EvictOne(c, f[S \ {Max(S)}], Max(S))
    <3>1. Max(S) \in D
      BY <1>4, <2>1 DEF Evictions!Descends
    <3>2. QED
      BY <1>6, <3>1
  <2>2. QED
    BY <1>10, <2>1 DEF Evictions!IsFold
<1> DEFINE T == {S \in SUBSET D : /\ Carried(B, p, w, f[S])
                                  /\ \A j \in D \ S : f[S].queue[s[j]] = "window"}
<1>12. {} \in T
  <2>1. f[{}] = p
    BY <1>11 DEF Evictions!IsFold
  <2>2. QED
    BY <1>2, <2>1, LeftAlone
<1>13. ASSUME NEW S \in SUBSET D, S # {}, S \ {Max(S)} \in T PROVE S \in T
  <2> DEFINE i == Max(S)
             acc == f[S \ {i}]
  <2>1. i \in D /\ i \in S
    BY <1>4, <1>13 DEF Evictions!Descends
  <2>2. f[S] = One(acc, s[i])
    BY <1>10, <1>13
  <2>3. Carried(B, p, w, acc) /\ \A j \in D : j = i \/ j \notin S => acc.queue[s[j]] = "window"
    BY <1>13
  <2> HIDE DEF acc, i
  <2>4. /\ Carried(B, p, w, One(acc, s[i]))
        /\ \A j \in D \ {i} : One(acc, s[i]).queue[s[j]] = acc.queue[s[j]]
    BY <1>7, <2>1, <2>3
  <2>5. QED
    BY <2>1, <2>2, <2>3, <2>4
<1>14. \A S \in SUBSET D : S \in T
  <2> HIDE DEF T
  <2>1. QED
    BY <1>4, <1>12, <1>13, Evictions!RankInduction
<1>15. QED
  BY <1>1, <1>2, <1>14

DemoteOne(c, acc, i) ==
    IF acc.size["protected"] > c.p.limit.protected
    THEN [MoveTo(acc, c.s[i], "probation") EXCEPT !.size["protected"] = Minus(@, c.w[c.s[i]])]
    ELSE acc

Demotions == INSTANCE Folding WITH Step <- DemoteOne, Good <- Kept, Pick <- Max

\* demoteFromMainProtected moves nodes only.
LEMMA DemoteSound ==
    ASSUME NEW B, NEW p, PolicySound(B, p), NEW w, Weighs(w)
    PROVE  Carried(B, p, w, Demote(p, w))
<1> DEFINE s == p.deque["protected"]
           D == DOMAIN s
           c == [B |-> B, p |-> p, w |-> w, s |-> s]
           One(acc, n) == IF acc.size["protected"] > p.limit.protected
                          THEN [MoveTo(acc, n, "probation") EXCEPT !.size["protected"] = Minus(@, w[n])]
                          ELSE acc
           f == CHOOSE f : f = [S \in SUBSET D |-> IF S = {} THEN p
                                                   ELSE One(f[S \ {Max(S)}], s[Max(S)])]
<1>1. Demote(p, w) = f[D]
  BY DEF Demote, FoldLeft, MapThenFoldSet
<1>2. /\ D = 1..Len(s) /\ Len(s) \in Nat /\ D \in SUBSET D
      /\ \A i \in D : s[i] \in Links(p) /\ s[i] \in Nodes /\ p.queue[s[i]] = "protected"
      /\ \A i, j \in D : i # j => s[i] # s[j]
  <2>1. s \in Seq(B) /\ B \subseteq Nodes /\ Distinct(s) /\ \A n \in ToSet(s) : p.queue[n] = "protected"
    BY DEF PolicySound, Policies, Queues, DequesSound
  <2>2. \A i \in D : s[i] \in ToSet(p.deque["protected"])
    BY DEF ToSet
  <2>3. QED
    BY <2>1, <2>2, LinksOf DEF Queues, Distinct
<1>3. c.B = B /\ c.p = p /\ c.w = w /\ c.s = s
  OBVIOUS
<1> HIDE DEF D, c, s, One
<1>4. PICK rank, top : Demotions!Descends(D, rank, top)
  BY <1>2, MaxDescends DEF Demotions!Descends
<1>5. Kept(c, p)
  BY <1>3, LeftAlone DEF Kept
<1>6. \A acc, i : i \in D => DemoteOne(c, acc, i) = One(acc, s[i])
  BY <1>3 DEF DemoteOne, One
<1>7. ASSUME NEW acc, Carried(B, p, w, acc), NEW i \in D, acc.queue[s[i]] = "protected"
      PROVE  /\ Carried(B, p, w, One(acc, s[i]))
             /\ \A j \in D \ {i} : One(acc, s[i]).queue[s[j]] = acc.queue[s[j]]
  <2> DEFINE t == Trimmed(acc, w, s[i], "protected")
  <2>1. s[i] \in Links(p) /\ acc.queue[s[i]] \in {"window", "protected"}
    BY <1>2, <1>7
  <2>2. Carried(B, p, w, t) /\ \A x \in Nodes : x # s[i] => t.queue[x] = acc.queue[x]
    BY <1>7, <2>1, TrimSound
  <2>3. One(acc, s[i]) \in {t, acc}
    BY DEF One, Trimmed
  <2> HIDE DEF t
  <2>4. QED
    BY <1>2, <1>7, <2>2, <2>3
<1>8. PICK g : Demotions!IsFold(g, c, p, D)
  BY <1>4, <1>5, Demotions!FoldExists
<1> DEFINE h == [S \in SUBSET D |-> g[S]]
<1>9. h = [S \in SUBSET D |-> IF S = {} THEN p ELSE One(h[S \ {Max(S)}], s[Max(S)])]
  <2>1. ASSUME NEW S \in SUBSET D
        PROVE  h[S] = IF S = {} THEN p ELSE One(h[S \ {Max(S)}], s[Max(S)])
    <3>1. S # {} => Max(S) \in D
      BY <1>4 DEF Demotions!Descends
    <3>2. QED
      BY <1>6, <1>8, <3>1 DEF Demotions!IsFold
  <2>2. QED
    BY <2>1
<1>10. f = [S \in SUBSET D |-> IF S = {} THEN p ELSE One(f[S \ {Max(S)}], s[Max(S)])]
  <2> HIDE DEF h
  <2>1. QED
    BY <1>9, Zenon
<1> HIDE DEF f
<1>11. Demotions!IsFold(f, c, p, D)
  <2>1. ASSUME NEW S \in SUBSET D, S # {}
        PROVE  One(f[S \ {Max(S)}], s[Max(S)]) = DemoteOne(c, f[S \ {Max(S)}], Max(S))
    <3>1. Max(S) \in D
      BY <1>4, <2>1 DEF Demotions!Descends
    <3>2. QED
      BY <1>6, <3>1
  <2>2. QED
    BY <1>10, <2>1 DEF Demotions!IsFold
<1> DEFINE T == {S \in SUBSET D : /\ Carried(B, p, w, f[S])
                                  /\ \A j \in D \ S : f[S].queue[s[j]] = "protected"}
<1>12. {} \in T
  <2>1. f[{}] = p
    BY <1>11 DEF Demotions!IsFold
  <2>2. QED
    BY <1>2, <2>1, LeftAlone
<1>13. ASSUME NEW S \in SUBSET D, S # {}, S \ {Max(S)} \in T PROVE S \in T
  <2> DEFINE i == Max(S)
             acc == f[S \ {i}]
  <2>1. i \in D /\ i \in S
    BY <1>4, <1>13 DEF Demotions!Descends
  <2>2. f[S] = One(acc, s[i])
    BY <1>10, <1>13
  <2>3. Carried(B, p, w, acc) /\ \A j \in D : j = i \/ j \notin S => acc.queue[s[j]] = "protected"
    BY <1>13
  <2> HIDE DEF acc, i
  <2>4. /\ Carried(B, p, w, One(acc, s[i]))
        /\ \A j \in D \ {i} : One(acc, s[i]).queue[s[j]] = acc.queue[s[j]]
    BY <1>7, <2>1, <2>3
  <2>5. QED
    BY <2>1, <2>2, <2>3, <2>4
<1>14. \A S \in SUBSET D : S \in T
  <2> HIDE DEF T
  <2>1. QED
    BY <1>4, <1>12, <1>13, Demotions!RankInduction
<1>15. QED
  BY <1>1, <1>2, <1>14

--------------------------------------------------------------------------------
(* The adaptive window *)

\* The sizes change, and nothing else.
LEMMA CountSound ==
    ASSUME NEW B, NEW p, NEW r, Moved(B, p, r), NEW q \in Queues, NEW x \in Int
    PROVE  /\ Moved(B, p, Count(r, q, x))
           /\ Count(r, q, x).queue = r.queue /\ Count(r, q, x).limit = r.limit
           /\ \A y \in {"window", "protected"} :
                Count(r, q, x).size[y] = IF y = q THEN (r.size[y] + x) % Word ELSE r.size[y]
<1>1. r.size \in Sizes /\ r \in Policies(B)
  BY DEF Moved, PolicySound, Policies, Sizes
<1>2. CASE q = "probation"
  BY <1>2 DEF Count
<1>3. CASE q # "probation"
  <2> DEFINE s == [r.size EXCEPT ![q] = (@ + x) % Word]
  <2>1. q \in {"window", "protected"} /\ r.size[q] \in Words
    BY <1>1, <1>3 DEF Queues, Sizes
  <2>2. r.size[q] + x \in Int
    BY <2>1, PolicyAssumption DEF Words
  <2>3. (r.size[q] + x) % Word \in Words
    BY <2>2, PolicyAssumption, WordType
  <2>4. s \in Sizes /\ \A y \in {"window", "protected"} :
                          s[y] = IF y = q THEN (r.size[y] + x) % Word ELSE r.size[y]
    BY <1>1, <2>1, <2>3 DEF Sizes
  <2>5. Count(r, q, x) = [r EXCEPT !.size = s]
    BY <1>3 DEF Count
  <2> HIDE DEF s
  <2>6. Moved(B, p, Count(r, q, x))
    BY <2>4, <2>5, OtherFields
  <2>7. /\ Count(r, q, x).queue = r.queue /\ Count(r, q, x).limit = r.limit
        /\ Count(r, q, x).size = s
    BY <1>1, <2>5 DEF Policies
  <2>8. QED
    BY <2>4, <2>6, <2>7
<1>4. QED
  BY <1>2, <1>3

\* A word that has lost a weight and gained it again is the same.
LEMMA LostAndGained ==
    ASSUME NEW a \in Words, NEW b \in Int
    PROVE  (((a + (Word - b)) % Word) + b) % Word = a
<1>1. a \in Int /\ a \in 0..(Word - 1) /\ Word \in Int /\ a + (Word - b) \in Int
  BY PolicyAssumption DEF Words
<1>2. (((a + (Word - b)) % Word) + b) % Word = ((a + (Word - b)) + b) % Word
  BY <1>1, WordArithmetic
<1>3. (a + (Word - b)) + b = Word * 1 + a /\ (a + (Word - b)) + b \in Int
  BY <1>1
<1>4. ((a + (Word - b)) + b) % Word = a
  BY <1>1, <1>3, RestUnique
<1>5. QED
  BY <1>2, <1>4

\* A node and its weight go to another queue.
LEMMA MoveWeightSound ==
    ASSUME NEW B, NEW p, PolicySound(B, p), NEW w, Weighs(w), NEW r, Carried(B, p, w, r),
           NEW n \in Links(p), NEW q \in Queues
    PROVE  Carried(B, p, w, Move(r, w, n, q))
<1>1. n \in Nodes /\ Moved(B, p, r)
  BY MoveSound DEF PolicySound, Carried
<1>2. w[n] \in Int /\ Word - w[n] \in Int /\ Word \in Int
  <2>1. w[n] \in Nat
    BY <1>1 DEF Weighs
  <2>2. QED
    BY <2>1, PolicyAssumption
<1>3. r.queue[n] \in Queues /\ r.size \in Sizes
  BY <1>1 DEF Moved, PolicySound, Policies, Sizes
<1> DEFINE lost == Word - w[n]
           t == Count(r, r.queue[n], lost)
           u == Count(t, q, w[n])
<1>4. /\ Moved(B, p, t) /\ t.queue = r.queue /\ t.limit = r.limit
      /\ \A y \in {"window", "protected"} :
           t.size[y] = IF y = r.queue[n] THEN (r.size[y] + lost) % Word ELSE r.size[y]
  <2> HIDE DEF lost, u
  <2>1. lost \in Int
    BY <1>2 DEF lost
  <2>2. QED
    BY <1>1, <1>3, <2>1, CountSound
<1>5. /\ Moved(B, p, u) /\ u.queue = t.queue /\ u.limit = t.limit
      /\ \A y \in {"window", "protected"} :
           u.size[y] = IF y = q THEN (t.size[y] + w[n]) % Word ELSE t.size[y]
  <2> HIDE DEF t
  <2>1. QED
    BY <1>2, <1>4, CountSound
<1>6. Move(r, w, n, q) = MoveTo(u, n, q)
  BY DEF Move
<1> HIDE DEF u, t
<1> DEFINE m == MoveTo(u, n, q)
<1>7. /\ Moved(B, p, m) /\ m.size = u.size /\ m.limit = r.limit
      /\ \A x \in Nodes : m.queue[x] = IF x = n THEN q ELSE r.queue[x]
  BY <1>4, <1>5, MoveSound
<1> HIDE DEF m
<1>8. ASSUME NEW y \in {"window", "protected"}
      PROVE  Recounts(r.size[y], m.size[y], w, n, y = q, y = r.queue[n])
  <2>1. r.size[y] \in Words /\ r.size[y] \in Int
    BY <1>3, PolicyAssumption DEF Sizes, Words
  <2>2. (((r.size[y] + (Word - w[n])) % Word) + w[n]) % Word = r.size[y]
    BY <1>2, <2>1, LostAndGained
  <2>3. r.size[y] + (Word - w[n]) = r.size[y] + Word - w[n]
    BY <1>2, <2>1
  <2>4. Minus(r.size[y], w[n]) = (r.size[y] + (Word - w[n])) % Word
    BY <2>3, Zenon DEF Minus
  <2>5. CASE y = q /\ y # r.queue[n]
    BY <1>4, <1>5, <1>7, <2>5 DEF Recounts, Plus
  <2>6. CASE y # q /\ y = r.queue[n]
    BY <1>4, <1>5, <1>7, <2>4, <2>6 DEF Recounts
  <2>7. CASE y = q <=> y = r.queue[n]
    BY <1>4, <1>5, <1>7, <2>2, <2>7 DEF Recounts
  <2>8. QED
    BY <2>5, <2>6, <2>7
<1>9. Booked(p, w, m)
  BY <1>1, <1>7, <1>8, BookedMove DEF Carried
<1>10. QED
  BY <1>6, <1>7, <1>9 DEF Carried, m

\* The first node of a deque is linked.
LEMMA FirstLinked ==
    ASSUME NEW B, NEW p, PolicySound(B, p), NEW q \in Queues
    PROVE  First(p.deque[q]) = NoNode \/ First(p.deque[q]) \in Links(p)
<1>1. p.deque[q] \in Seq(B)
  BY DEF PolicySound, Policies
<1>2. p.deque[q] # <<>> => Head(p.deque[q]) \in ToSet(p.deque[q])
  BY <1>1 DEF ToSet
<1>3. QED
  BY <1>2, LinksOf DEF First

\* The first node to move when the window grows, and when it shrinks.
Grower(p, left, w) ==
    LET n == First(p.deque["probation"])
    IN  IF n = NoNode THEN First(p.deque["protected"])
        ELSE IF left < w[n] THEN First(p.deque["protected"]) ELSE n

Shrinker(p) == First(p.deque["window"])

\* One round of Spend.
SpendFor(acc, w, n, to) ==
    IF n = NoNode THEN acc
    ELSE IF acc.left < w[n] THEN acc
    ELSE [policy |-> Move(acc.policy, w, n, to), left |-> acc.left - w[n]]

SpendOne(c, acc, i) ==
    SpendFor(acc, c.w, IF c.to = "window" THEN Grower(acc.policy, acc.left, c.w)
                                          ELSE Shrinker(acc.policy), c.to)

\* The quota can only become less, and is not overspent.
Spent(left, rest) == rest \in Int /\ rest <= left /\ (left >= 0 => rest >= 0)

SpentWell(c, acc) == Carried(c.B, c.p, c.w, acc.policy) /\ Spent(c.quota, acc.left)

Spending == INSTANCE Folding WITH Step <- SpendOne, Good <- SpentWell, Pick <- Max

\* A round moves a node, or nothing.
LEMMA SpendForSound ==
    ASSUME NEW B, NEW p, PolicySound(B, p), NEW w, Weighs(w), NEW to \in Queues,
           NEW quota \in Int, NEW acc, Carried(B, p, w, acc.policy), Spent(quota, acc.left),
           NEW n, n = NoNode \/ n \in Links(acc.policy),
           NEW r, r = SpendFor(acc, w, n, to)
    PROVE  Carried(B, p, w, r.policy) /\ Spent(quota, r.left)
<1>1. CASE n = NoNode \/ acc.left < w[n]
  BY <1>1 DEF SpendFor
<1>2. CASE ~(n = NoNode \/ acc.left < w[n])
  <2>1. n \in Links(p) /\ n \in Nodes
    <3>1. n \in Links(p)
      BY <1>2 DEF Carried, Moved
    <3>2. QED
      BY <3>1, MoveSound DEF PolicySound, Queues, Carried
  <2>2. Carried(B, p, w, Move(acc.policy, w, n, to))
    BY <2>1, MoveWeightSound
  <2>3. Spent(quota, acc.left - w[n])
    <3>1. w[n] \in Nat
      BY <2>1 DEF Weighs
    <3>2. QED
      BY <1>2, <3>1 DEF Spent
  <2>4. QED
    BY <1>2, <2>2, <2>3 DEF SpendFor
<1>3. QED
  BY <1>1, <1>2

Grown(p, w, quota) ==
    LET from(q, left) == LET n == First(q.deque["probation"])
                         IN  IF n = NoNode THEN First(q.deque["protected"])
                             ELSE IF left < w[n] THEN First(q.deque["protected"]) ELSE n
    IN  Spend(p, w, quota, from, "window")

Shrunk(p, w, quota) ==
    LET from(q, left) == First(q.deque["window"])
    IN  Spend(p, w, quota, from, "probation")

\* What the rounds move when the window grows, and what is left of the quota.
LEMMA GrownSound ==
    ASSUME NEW B, NEW p, PolicySound(B, p), NEW w, Weighs(w), NEW quota \in Int
    PROVE  Carried(B, p, w, Grown(p, w, quota).policy) /\ Spent(quota, Grown(p, w, quota).left)
<1> DEFINE D == DOMAIN [i \in 1..Cardinality(Nodes) |-> i]
           c == [B |-> B, p |-> p, w |-> w, quota |-> quota, to |-> "window"]
           start == [policy |-> p, left |-> quota]
           One(acc) == SpendFor(acc, w, Grower(acc.policy, acc.left, w), "window")
           f == CHOOSE f : f = [S \in SUBSET D |-> IF S = {} THEN start ELSE One(f[S \ {Max(S)}])]
<1>1. Grown(p, w, quota) = f[D]
  BY DEF Grown, Spend, FoldLeft, MapThenFoldSet, SpendFor, Grower
<1>2. D = 1..Cardinality(Nodes) /\ Cardinality(Nodes) \in Nat /\ D \in SUBSET D
  BY PolicyAssumption, FS_CardinalityType
<1>3. c.B = B /\ c.p = p /\ c.w = w /\ c.quota = quota /\ c.to = "window"
      /\ start.policy = p /\ start.left = quota
  OBVIOUS
<1> HIDE DEF D, c, start, One
<1>4. PICK rank, top : Spending!Descends(D, rank, top)
  BY <1>2, MaxDescends DEF Spending!Descends
<1>5. SpentWell(c, start)
  BY <1>3, LeftAlone DEF SpentWell, Spent
<1>6. \A acc, i : SpendOne(c, acc, i) = One(acc)
  BY <1>3 DEF SpendOne, One
<1>7. \A acc, i : i \in D /\ SpentWell(c, acc) => SpentWell(c, SpendOne(c, acc, i))
  <2>1. ASSUME NEW acc, Carried(B, p, w, acc.policy), Spent(quota, acc.left)
        PROVE  Carried(B, p, w, One(acc).policy) /\ Spent(quota, One(acc).left)
    <3> DEFINE n == Grower(acc.policy, acc.left, w)
    <3>1. n = NoNode \/ n \in Links(acc.policy)
      <4>1. PolicySound(B, acc.policy)
        BY <2>1 DEF Carried, Moved
      <4>2. QED
        BY <4>1, FirstLinked DEF Grower, Queues
    <3>2. One(acc) = SpendFor(acc, w, n, "window") /\ "window" \in Queues
      BY DEF One, Queues
    <3> HIDE DEF n
    <3>3. QED
      BY <2>1, <3>1, <3>2, SpendForSound
  <2>2. QED
    BY <1>3, <1>6, <2>1 DEF SpentWell
<1>8. PICK g : Spending!IsFold(g, c, start, D)
  BY <1>4, <1>5, Spending!FoldExists
<1> DEFINE h == [S \in SUBSET D |-> g[S]]
<1>9. h = [S \in SUBSET D |-> IF S = {} THEN start ELSE One(h[S \ {Max(S)}])]
  <2>1. ASSUME NEW S \in SUBSET D
        PROVE  h[S] = IF S = {} THEN start ELSE One(h[S \ {Max(S)}])
    BY <1>6, <1>8 DEF Spending!IsFold
  <2>2. QED
    BY <2>1
<1>10. f = [S \in SUBSET D |-> IF S = {} THEN start ELSE One(f[S \ {Max(S)}])]
  <2> HIDE DEF h
  <2>1. QED
    BY <1>9, Zenon
<1> HIDE DEF f
<1>11. Spending!IsFold(f, c, start, D)
  BY <1>6, <1>10 DEF Spending!IsFold
<1>12. SpentWell(c, f[D])
  BY <1>2, <1>4, <1>5, <1>7, <1>11, Spending!FoldKeeps
<1>13. QED
  BY <1>1, <1>3, <1>12 DEF SpentWell

\* The same when the window shrinks.
LEMMA ShrunkSound ==
    ASSUME NEW B, NEW p, PolicySound(B, p), NEW w, Weighs(w), NEW quota \in Int
    PROVE  Carried(B, p, w, Shrunk(p, w, quota).policy) /\ Spent(quota, Shrunk(p, w, quota).left)
<1> DEFINE D == DOMAIN [i \in 1..Cardinality(Nodes) |-> i]
           c == [B |-> B, p |-> p, w |-> w, quota |-> quota, to |-> "probation"]
           start == [policy |-> p, left |-> quota]
           One(acc) == SpendFor(acc, w, Shrinker(acc.policy), "probation")
           f == CHOOSE f : f = [S \in SUBSET D |-> IF S = {} THEN start ELSE One(f[S \ {Max(S)}])]
<1>1. Shrunk(p, w, quota) = f[D]
  BY DEF Shrunk, Spend, FoldLeft, MapThenFoldSet, SpendFor, Shrinker
<1>2. D = 1..Cardinality(Nodes) /\ Cardinality(Nodes) \in Nat /\ D \in SUBSET D
  BY PolicyAssumption, FS_CardinalityType
<1>3. c.B = B /\ c.p = p /\ c.w = w /\ c.quota = quota /\ c.to = "probation"
      /\ start.policy = p /\ start.left = quota
  OBVIOUS
<1> HIDE DEF D, c, start, One
<1>4. PICK rank, top : Spending!Descends(D, rank, top)
  BY <1>2, MaxDescends DEF Spending!Descends
<1>5. SpentWell(c, start)
  BY <1>3, LeftAlone DEF SpentWell, Spent
<1>6. \A acc, i : SpendOne(c, acc, i) = One(acc)
  BY <1>3 DEF SpendOne, One
<1>7. \A acc, i : i \in D /\ SpentWell(c, acc) => SpentWell(c, SpendOne(c, acc, i))
  <2>1. ASSUME NEW acc, Carried(B, p, w, acc.policy), Spent(quota, acc.left)
        PROVE  Carried(B, p, w, One(acc).policy) /\ Spent(quota, One(acc).left)
    <3> DEFINE n == Shrinker(acc.policy)
    <3>1. n = NoNode \/ n \in Links(acc.policy)
      <4>1. PolicySound(B, acc.policy)
        BY <2>1 DEF Carried, Moved
      <4>2. QED
        BY <4>1, FirstLinked DEF Shrinker, Queues
    <3>2. One(acc) = SpendFor(acc, w, n, "probation") /\ "probation" \in Queues
      BY DEF One, Queues
    <3> HIDE DEF n
    <3>3. QED
      BY <2>1, <3>1, <3>2, SpendForSound
  <2>2. QED
    BY <1>3, <1>6, <2>1 DEF SpentWell
<1>8. PICK g : Spending!IsFold(g, c, start, D)
  BY <1>4, <1>5, Spending!FoldExists
<1> DEFINE h == [S \in SUBSET D |-> g[S]]
<1>9. h = [S \in SUBSET D |-> IF S = {} THEN start ELSE One(h[S \ {Max(S)}])]
  <2>1. ASSUME NEW S \in SUBSET D
        PROVE  h[S] = IF S = {} THEN start ELSE One(h[S \ {Max(S)}])
    BY <1>6, <1>8 DEF Spending!IsFold
  <2>2. QED
    BY <2>1
<1>10. f = [S \in SUBSET D |-> IF S = {} THEN start ELSE One(f[S \ {Max(S)}])]
  <2> HIDE DEF h
  <2>1. QED
    BY <1>9, Zenon
<1> HIDE DEF f
<1>11. Spending!IsFold(f, c, start, D)
  BY <1>6, <1>10 DEF Spending!IsFold
<1>12. SpentWell(c, f[D])
  BY <1>2, <1>4, <1>5, <1>7, <1>11, Spending!FoldKeeps
<1>13. QED
  BY <1>1, <1>3, <1>12 DEF SpentWell



\* The books are about the regions and the sizes only.
LEMMA BookedSame ==
    ASSUME NEW p, NEW w, NEW r, Booked(p, w, r), NEW t, t.queue = r.queue, t.size = r.size
    PROVE  Booked(p, w, t)
<1>1. \A C, q : Region(t, C, q) = Region(r, C, q)
  BY DEF Region
<1>2. \A C : Books(r, w, C) => Books(t, w, C)
  BY <1>1 DEF Books
<1>3. QED
  BY <1>2 DEF Booked

\* The adjustment changes after some nodes have moved.
LEMMA AdjustmentCarried ==
    ASSUME NEW B, NEW p, NEW w, NEW r, Moved(B, p, r), Booked(p, w, r), NEW a \in Int,
           NEW t, t = [r EXCEPT !.adjustment = a]
    PROVE  Moved(B, p, t) /\ Booked(p, w, t) /\ t.limit = r.limit /\ t.adjustment = a
<1>1. Moved(B, p, t)
  BY OtherFields
<1>2. t.queue = r.queue /\ t.size = r.size /\ t.limit = r.limit /\ t.adjustment = a
  BY DEF Moved, PolicySound, Policies
<1>3. QED
  BY <1>1, <1>2, BookedSame

\* A quota goes to the other region.
LEMMA ShiftSound ==
    ASSUME NEW B, NEW p, NEW r, Moved(B, p, r), NEW quota \in Int
    PROVE  /\ Moved(B, p, Shift(r, quota))
           /\ Shift(r, quota).queue = r.queue /\ Shift(r, quota).size = r.size
           /\ Shift(r, quota).limit = [window |-> r.limit.window + quota,
                                       protected |-> r.limit.protected - quota]
<1> DEFINE x == r.limit.window + quota
           y == r.limit.protected - quota
<1>1. r.limit \in [window : Int, protected : Int] /\ r \in Policies(B)
  BY DEF Moved, PolicySound, Policies
<1>2. x \in Int /\ y \in Int
  BY <1>1
<1>3. Shift(r, quota) = [r EXCEPT !.limit = [window |-> x, protected |-> y]]
  <2> DEFINE u == [r EXCEPT !.limit.window = @ + quota]
  <2>1. "limit" \in DOMAIN r
    BY DEF Moved, PolicySound, Policies
  <2>2. u.limit = [window |-> x, protected |-> r.limit.protected]
    BY <1>1, <2>1
  <2>3. [u EXCEPT !.limit.protected = @ - quota] = [u EXCEPT !.limit = [window |-> x, protected |-> y]]
    <3> HIDE DEF u, x
    <3>1. QED
      BY <2>2
  <2>4. QED
    BY ZenonT(40), <2>1, <2>3 DEF Shift
<1>4. /\ Shift(r, quota).queue = r.queue /\ Shift(r, quota).size = r.size
      /\ Shift(r, quota).limit = [window |-> x, protected |-> y]
  <2> HIDE DEF x, y
  <2>1. QED
    BY <1>1, <1>3 DEF Policies
<1>5. Moved(B, p, Shift(r, quota))
  <2> HIDE DEF x, y
  <2>1. QED
    BY <1>2, <1>3, OtherFields
<1>6. QED
  BY <1>4, <1>5

\* A quota goes from the one region to the other after some nodes have moved.
LEMMA ShiftCarried ==
    ASSUME NEW B, NEW p, NEW w, NEW r, Moved(B, p, r), Booked(p, w, r), NEW quota \in Int
    PROVE  Moved(B, p, Shift(r, quota)) /\ Booked(p, w, Shift(r, quota))
<1> DEFINE t == Shift(r, quota)
<1>1. Moved(B, p, t) /\ t.queue = r.queue /\ t.size = r.size
  BY ShiftSound, ZenonT(30)
<1> HIDE DEF t
<1>2. Booked(p, w, t)
  BY <1>1, BookedSame
<1>3. QED
  BY <1>1, <1>2 DEF t

\* The lesser of two numbers is one of them.
LEMMA MinOfTwo ==
    ASSUME NEW a \in Int, NEW b \in Int
    PROVE  Min({a, b}) \in {a, b} /\ Min({a, b}) <= a /\ Min({a, b}) <= b /\ Min({a, b}) \in Int
<1>1. \E x \in {a, b} : \A y \in {a, b} : x <= y
  OBVIOUS
<1>2. QED
  BY <1>1 DEF Min

\* Between them the regions have what the maximum gives them.
InBalance(p, m) ==
    /\ p.limit.window \in 1..m /\ p.limit.protected \in 0..m
    /\ p.limit.window + p.limit.protected = WindowMaximum(m) + ProtectedMaximum(m)

\* A maximum is enough for both regions.
LEMMA LimitsFit ==
    ASSUME NEW m \in Nat \ {0}
    PROVE  /\ WindowMaximum(m) \in 1..m /\ ProtectedMaximum(m) \in 0..m
           /\ WindowMaximum(m) + ProtectedMaximum(m) <= m
<1> DEFINE x == WindowMaximum(m)
<1>1. x \in 1..m
  BY DEF WindowMaximum
<1>2. ProtectedMaximum(m) = (80 * (m - x)) \div 100
  BY DEF ProtectedMaximum
<1> HIDE DEF x
<1>3. (80 * (m - x)) \div 100 \in 0..(m - x)
  BY <1>1
<1>4. QED
  BY <1>1, <1>2, <1>3 DEF x

\* The limits are in balance still when a region has given away no more than it has.
LEMMA BalancedShift ==
    ASSUME NEW B, NEW p, PolicySound(B, p), NEW m \in Nat \ {0}, InBalance(p, m), NEW r,
           NEW x \in Int, p.limit.window + x >= 1, p.limit.protected - x >= 0,
           r.limit = [window |-> p.limit.window + x, protected |-> p.limit.protected - x]
    PROVE  InBalance(r, m)
<1>1. p.limit.window \in Int /\ p.limit.protected \in Int
  BY DEF PolicySound, Policies
<1> DEFINE a == p.limit.window
           b == p.limit.protected
           A == WindowMaximum(m)
           P == ProtectedMaximum(m)
<1>2. A \in Int /\ P \in Int /\ A + P <= m /\ a + b = A + P /\ a \in Int /\ b \in Int
  BY <1>1, LimitsFit DEF InBalance
<1>3. r.limit.window = a + x /\ r.limit.protected = b - x /\ a + x >= 1 /\ b - x >= 0
  OBVIOUS
<1> HIDE DEF a, b, A, P
<1>4. (a + x) + (b - x) = A + P /\ a + x \in 1..m /\ b - x \in 0..m
  BY <1>2, <1>3
<1>5. QED
  BY <1>3, <1>4 DEF InBalance, A, P

\* The window grows by moving nodes only, and keeps the balance.
LEMMA IncreaseWindowSound ==
    ASSUME NEW B, NEW p, PolicySound(B, p), NEW w, Weighs(w)
    PROVE  /\ Moved(B, p, IncreaseWindow(p, w)) /\ Booked(p, w, IncreaseWindow(p, w))
           /\ \A m \in Nat \ {0} :
                p.adjustment >= 0 /\ InBalance(p, m) => InBalance(IncreaseWindow(p, w), m)
<1> DEFINE quota == Min({p.adjustment, p.limit.protected})
           s == Shift(p, quota)
           d == Demote(s, w)
           spent == Grown(d, w, quota)
           t == Shift(spent.policy, -spent.left)
           r == [t EXCEPT !.adjustment = spent.left]
<1>1. /\ p.adjustment \in Int /\ p.limit.protected \in Int /\ p.limit.window \in Int
      /\ quota \in Int /\ quota <= p.limit.protected
      /\ p.adjustment >= 0 /\ p.limit.protected >= 0 => quota >= 0
  <2>1. p.adjustment \in Int /\ p.limit.protected \in Int /\ p.limit.window \in Int
    BY DEF PolicySound, Policies
  <2>2. QED
    BY <2>1, MinOfTwo
<1>2. /\ Moved(B, p, s) /\ Booked(p, w, s)
      /\ s.limit = [window |-> p.limit.window + quota, protected |-> p.limit.protected - quota]
  <2> HIDE DEF quota
  <2>1. Moved(B, p, p) /\ Booked(p, w, p)
    BY LeftAlone DEF Carried
  <2>2. QED
    BY <1>1, <2>1, ShiftCarried, ShiftSound
<1>3. Carried(B, s, w, d)
  <2> HIDE DEF s
  <2>1. QED
    BY <1>2, DemoteSound DEF Moved
<1>4. Carried(B, d, w, spent.policy) /\ Spent(quota, spent.left)
  <2> HIDE DEF d, quota
  <2>1. PolicySound(B, d)
    BY <1>3 DEF Carried, Moved
  <2>2. QED
    BY <1>1, <2>1, GrownSound
<1>5. /\ Moved(B, p, spent.policy) /\ Booked(p, w, spent.policy)
      /\ spent.policy.limit = s.limit
  <2> HIDE DEF spent, d, s
  <2>1. QED
    BY <1>2, <1>3, <1>4 DEF Carried, Moved, SameCount, Booked
<1>6. spent.left \in Int /\ -spent.left \in Int
  <2> HIDE DEF spent, quota
  <2>1. QED
    BY <1>4 DEF Spent
<1>7. /\ Moved(B, p, t) /\ Booked(p, w, t)
      /\ t.limit = [window |-> s.limit.window + (-spent.left), protected |-> s.limit.protected - (-spent.left)]
  <2> HIDE DEF spent, s
  <2>1. QED
    BY <1>5, <1>6, ShiftCarried, ShiftSound
<1>8. Moved(B, p, r) /\ Booked(p, w, r) /\ r.limit = t.limit
  <2> HIDE DEF spent, t
  <2>1. QED
    BY <1>6, <1>7, AdjustmentCarried
<1>9. IncreaseWindow(p, w) = IF p.limit.protected = 0 THEN p ELSE r
  BY DEF IncreaseWindow, Grown
<1>10. ASSUME NEW m \in Nat \ {0}, p.adjustment >= 0, InBalance(p, m) PROVE InBalance(r, m)
  <2> DEFINE x == quota - spent.left
             l == spent.left
  <2> HIDE DEF spent, s, t, r, quota
  <2>1. p.limit.protected >= 0 /\ p.limit.window >= 1
    BY <1>1, <1>10 DEF InBalance
  <2>2. quota >= 0 /\ l \in Int /\ l >= 0 /\ l <= quota
    BY <1>1, <1>4, <1>10, <2>1 DEF Spent
  <2>3. /\ r.limit = [window |-> (p.limit.window + quota) + (-l),
                      protected |-> (p.limit.protected - quota) - (-l)]
    BY <1>2, <1>7, <1>8
  <2> HIDE DEF l
  <2>4. r.limit = [window |-> p.limit.window + (quota - l), protected |-> p.limit.protected - (quota - l)]
    <3>1. /\ (p.limit.window + quota) + (-l) = p.limit.window + (quota - l)
          /\ (p.limit.protected - quota) - (-l) = p.limit.protected - (quota - l)
      BY <1>1, <2>2
    <3>2. QED
      BY <2>3, <3>1
  <2>5. quota - l \in Int /\ p.limit.window + (quota - l) >= 1 /\ p.limit.protected - (quota - l) >= 0
    BY <1>1, <2>1, <2>2
  <2>6. QED
    BY <1>10, <2>4, <2>5, BalancedShift
<1> HIDE DEF r
<1>11. QED
  BY <1>8, <1>9, <1>10, LeftAlone DEF Carried

\* The window shrinks by moving nodes only, and keeps the balance.
LEMMA DecreaseWindowSound ==
    ASSUME NEW B, NEW p, PolicySound(B, p), NEW w, Weighs(w)
    PROVE  /\ Moved(B, p, DecreaseWindow(p, w)) /\ Booked(p, w, DecreaseWindow(p, w))
           /\ \A m \in Nat \ {0} :
                p.adjustment <= 0 /\ InBalance(p, m) => InBalance(DecreaseWindow(p, w), m)
<1> DEFINE quota == Min({-p.adjustment, p.limit.window - 1})
           s == Shift(p, -quota)
           spent == Shrunk(s, w, quota)
           t == Shift(spent.policy, spent.left)
           r == [t EXCEPT !.adjustment = -spent.left]
<1>1. /\ p.adjustment \in Int /\ p.limit.protected \in Int /\ p.limit.window \in Int
      /\ quota \in Int /\ -quota \in Int /\ quota <= p.limit.window - 1
      /\ p.adjustment <= 0 /\ p.limit.window >= 1 => quota >= 0
  <2>1. p.adjustment \in Int /\ p.limit.protected \in Int /\ p.limit.window \in Int
    BY DEF PolicySound, Policies
  <2>2. -p.adjustment \in Int /\ p.limit.window - 1 \in Int
    BY <2>1
  <2>3. quota \in Int /\ quota \in {-p.adjustment, p.limit.window - 1} /\ quota <= p.limit.window - 1
    BY <2>2, MinOfTwo
  <2> HIDE DEF quota
  <2>4. QED
    BY <2>1, <2>3
<1>2. /\ Moved(B, p, s) /\ Booked(p, w, s)
      /\ s.limit = [window |-> p.limit.window + (-quota), protected |-> p.limit.protected - (-quota)]
  <2> HIDE DEF quota
  <2>1. Moved(B, p, p) /\ Booked(p, w, p)
    BY LeftAlone DEF Carried
  <2>2. QED
    BY <1>1, <2>1, ShiftCarried, ShiftSound
<1>3. Carried(B, s, w, spent.policy) /\ Spent(quota, spent.left)
  <2> HIDE DEF s, quota
  <2>1. PolicySound(B, s)
    BY <1>2 DEF Moved
  <2>2. QED
    BY <1>1, <2>1, ShrunkSound
<1>4. /\ Moved(B, p, spent.policy) /\ Booked(p, w, spent.policy)
      /\ spent.policy.limit = s.limit
  <2> HIDE DEF spent, s
  <2>1. QED
    BY <1>2, <1>3 DEF Carried, Moved, SameCount, Booked
<1>5. spent.left \in Int /\ -spent.left \in Int
  <2> HIDE DEF spent, quota
  <2>1. QED
    BY <1>3 DEF Spent
<1>6. /\ Moved(B, p, t) /\ Booked(p, w, t)
      /\ t.limit = [window |-> s.limit.window + spent.left, protected |-> s.limit.protected - spent.left]
  <2> HIDE DEF spent, s
  <2>1. QED
    BY <1>4, <1>5, ShiftCarried, ShiftSound
<1>7. Moved(B, p, r) /\ Booked(p, w, r) /\ r.limit = t.limit
  <2> HIDE DEF spent, t
  <2>1. QED
    BY <1>5, <1>6, AdjustmentCarried
<1>8. DecreaseWindow(p, w) = IF p.limit.window <= 1 THEN p ELSE r
  BY DEF DecreaseWindow, Shrunk
<1>9. ASSUME NEW m \in Nat \ {0}, p.adjustment <= 0, InBalance(p, m) PROVE InBalance(r, m)
  <2> DEFINE l == spent.left
  <2> HIDE DEF spent, s, t, r, quota
  <2>1. p.limit.protected >= 0 /\ p.limit.window >= 1
    BY <1>1, <1>9 DEF InBalance
  <2>2. quota >= 0 /\ l \in Int /\ l >= 0 /\ l <= quota
    BY <1>1, <1>3, <1>9, <2>1 DEF Spent
  <2>3. /\ r.limit = [window |-> (p.limit.window + (-quota)) + l,
                      protected |-> (p.limit.protected - (-quota)) - l]
    BY <1>2, <1>6, <1>7
  <2> HIDE DEF l
  <2>4. r.limit = [window |-> p.limit.window + (l - quota), protected |-> p.limit.protected - (l - quota)]
    <3>1. /\ (p.limit.window + (-quota)) + l = p.limit.window + (l - quota)
          /\ (p.limit.protected - (-quota)) - l = p.limit.protected - (l - quota)
      BY <1>1, <2>2
    <3>2. QED
      BY <2>3, <3>1
  <2>5. l - quota \in Int /\ p.limit.window + (l - quota) >= 1 /\ p.limit.protected - (l - quota) >= 0
    BY <1>1, <2>1, <2>2
  <2>6. QED
    BY <1>9, <2>4, <2>5, BalancedShift
<1> HIDE DEF r
<1>10. QED
  BY <1>7, <1>8, <1>9, LeftAlone DEF Carried

\* climb moves nodes only, and keeps the balance.
LEMMA ClimbSound ==
    ASSUME NEW B, NEW p, PolicySound(B, p), NEW w, Weighs(w), NEW a \in Int
    PROVE  /\ Moved(B, p, Climb(p, w, a)) /\ Booked(p, w, Climb(p, w, a))
           /\ \A m \in Nat \ {0} : InBalance(p, m) => InBalance(Climb(p, w, a), m)
<1> DEFINE m == Demote(p, w)
           d == [m EXCEPT !.adjustment = a]
<1>1. /\ Moved(B, p, d) /\ Booked(p, w, d) /\ d.limit = p.limit /\ d.adjustment = a
  <2>1. Carried(B, p, w, m)
    BY DemoteSound
  <2> HIDE DEF m
  <2>2. QED
    BY <2>1, AdjustmentCarried DEF Carried
<1>2. /\ a > 0 => Climb(p, w, a) = IncreaseWindow(d, w)
      /\ a = 0 => Climb(p, w, a) = d
      /\ a < 0 => Climb(p, w, a) = DecreaseWindow(d, w)
  BY DEF Climb
<1> HIDE DEF d
<1>3. PolicySound(B, d) /\ \A k : InBalance(p, k) <=> InBalance(d, k)
  BY <1>1 DEF Moved, InBalance
<1>4. /\ Moved(B, d, IncreaseWindow(d, w)) /\ Booked(d, w, IncreaseWindow(d, w))
      /\ Moved(B, d, DecreaseWindow(d, w)) /\ Booked(d, w, DecreaseWindow(d, w))
  BY <1>3, IncreaseWindowSound, DecreaseWindowSound
<1>5. ASSUME NEW r, Moved(B, d, r), Booked(d, w, r) PROVE Moved(B, p, r) /\ Booked(p, w, r)
  BY <1>1, <1>5 DEF Moved, SameCount, Booked
<1>6. CASE a > 0
  BY <1>1, <1>2, <1>3, <1>4, <1>5, <1>6, IncreaseWindowSound
<1>7. CASE a = 0
  BY <1>1, <1>2, <1>3, <1>7
<1>8. CASE a < 0
  BY <1>1, <1>2, <1>3, <1>4, <1>5, <1>8, DecreaseWindowSound
<1>9. QED
  BY <1>6, <1>7, <1>8

\* The limits of a maximum are numbers.
LEMMA LimitsType ==
    ASSUME NEW m \in Nat
    PROVE  /\ Limits(m) = [window |-> WindowMaximum(m), protected |-> ProtectedMaximum(m)]
           /\ WindowMaximum(m) \in Int /\ ProtectedMaximum(m) \in Int
  BY DEF Limits, WindowMaximum, ProtectedMaximum

\* SetMaximumSize changes the limits and moves nothing.
LEMMA ResizeSound ==
    ASSUME NEW B, NEW p, PolicySound(B, p), NEW w, NEW m \in Nat \ {0}
    PROVE  /\ Moved(B, p, Resize(p, m)) /\ Booked(p, w, Resize(p, m))
           /\ InBalance(Resize(p, m), m)
<1> DEFINE r == Resize(p, m)
<1>1. r = [p EXCEPT !.limit = [window |-> WindowMaximum(m), protected |-> ProtectedMaximum(m)]]
  BY LimitsType DEF Resize
<1>2. Moved(B, p, r)
  BY <1>1, LimitsType, LeftAlone, OtherFields DEF Carried
<1>3. /\ r.queue = p.queue /\ r.size = p.size
      /\ r.limit.window = WindowMaximum(m) /\ r.limit.protected = ProtectedMaximum(m)
  BY <1>1 DEF PolicySound, Policies
<1> HIDE DEF r
<1>4. Booked(p, w, r)
  BY <1>3, LeftAlone, BookedSame DEF Carried
<1>5. InBalance(r, m)
  BY <1>3, LimitsFit DEF InBalance
<1>6. QED
  BY <1>2, <1>4, <1>5 DEF r

\* The policy of an empty cache.
LEMMA EmptyPolicySound ==
    ASSUME NEW m \in Nat
    PROVE  LET p == EmptyPolicy(m)
           IN  /\ PolicySound({}, p) /\ \A n : n \notin Links(p)
               /\ p.weighted = 0 /\ p.dead = {} /\ p.limit = Limits(m)
               /\ \A n \in Nodes : p.queue[n] = "window"
               /\ \A q \in {"window", "protected"} : p.size[q] = 0
<1> DEFINE p == EmptyPolicy(m)
<1>1. p \in Policies({})
  BY LimitsType, PolicyAssumption DEF EmptyPolicy, Policies, Words, Queues
<1>2. \A q \in Queues : p.deque[q] = <<>>
  BY DEF EmptyPolicy
<1>3. /\ p.weighted = 0 /\ p.dead = {} /\ p.limit = Limits(m)
      /\ \A n \in Nodes : p.queue[n] = "window"
      /\ \A q \in {"window", "protected"} : p.size[q] = 0
  BY DEF EmptyPolicy
<1> HIDE DEF p
<1>4. \A q \in Queues : Distinct(p.deque[q]) /\ ToSet(p.deque[q]) = {}
  BY <1>2 DEF Distinct, ToSet
<1>5. PolicySound({}, p) /\ \A n : n \notin Links(p)
  BY <1>1, <1>4, LinksOf DEF PolicySound, DequesSound
<1>6. QED
  BY <1>3, <1>5 DEF p

--------------------------------------------------------------------------------
(* The life cycle of a node *)

\* The sizes, the total weight and the dead change, and nothing else.
Recounted(B, p, r) ==
    /\ PolicySound(B, r) /\ Links(r) = Links(p)
    /\ r.queue = p.queue /\ r.deque = p.deque /\ r.limit = p.limit

\* A step on the counts and the dead alone keeps the deques and the queue types in agreement.
LEMMA CountsSound ==
    ASSUME NEW B, NEW p, PolicySound(B, p), NEW r \in Policies(B),
           r.queue = p.queue, r.deque = p.deque, r.limit = p.limit
    PROVE  Recounted(B, p, r)
  BY DEF Recounted, Links, PolicySound, DequesSound

\* The weights of a node and of the policy.
LEMMA WeightsAreWords ==
    ASSUME NEW B, NEW p, PolicySound(B, p), NEW n \in B, NEW w, Weighs(w)
    PROVE  /\ w[n] \in Nat /\ n \in Nodes /\ p.weighted \in Int
           /\ Minus(p.weighted, w[n]) \in Words /\ Plus(p.weighted, w[n]) \in Words
           /\ p.size \in Sizes /\ DOMAIN p.size = {"window", "protected"}
           /\ \A q \in {"window", "protected"} :
                /\ p.size[q] \in Words
                /\ Minus(p.size[q], w[n]) \in Words /\ Plus(p.size[q], w[n]) \in Words
<1>1. n \in Nodes /\ p.weighted \in Words /\ p.size \in Sizes
  BY DEF PolicySound, Policies, Sizes
<1>2. w[n] \in Nat
  BY <1>1 DEF Weighs
<1>3. \A a \in Words : a \in Int
  BY PolicyAssumption DEF Words
<1>4. \A a \in Words : Minus(a, w[n]) \in Words /\ Plus(a, w[n]) \in Words
  <2>1. ASSUME NEW a \in Words PROVE Minus(a, w[n]) \in Words /\ Plus(a, w[n]) \in Words
    <3>1. a \in Int /\ w[n] \in Int
      BY <1>2, <1>3
    <3>2. QED
      BY <3>1, WordType
  <2>2. QED
    BY <2>1
<1>5. \A q \in {"window", "protected"} : p.size[q] \in Words
  BY <1>1 DEF Sizes
<1>6. QED
  BY <1>1, <1>2, <1>3, <1>4, <1>5 DEF Sizes

\* Node n is dead in r, and counted off, in the region it is in, if it was alive in p.
Dies(p, w, n, r) ==
    /\ r.dead = p.dead \cup {n} /\ r.limit = p.limit
    /\ r.weighted = IF n \in p.dead THEN p.weighted ELSE Minus(p.weighted, w[n])
    /\ n \notin p.dead => \A q \in {"window", "protected"} :
           r.size[q] = IF p.queue[n] = q THEN Minus(p.size[q], w[n]) ELSE p.size[q]

\* makeDead takes the weight of a live node out of the total, once, and unlinks nothing.
LEMMA MakeDeadSound ==
    ASSUME NEW B, NEW p, PolicySound(B, p), NEW n \in B, NEW w, Weighs(w)
    PROVE  Recounted(B, p, MakeDead(p, w, n)) /\ Dies(p, w, n, MakeDead(p, w, n))
<1>1. CASE n \in p.dead
  BY <1>1 DEF MakeDead, Recounted, Dies
<1>2. CASE n \notin p.dead
  <2> DEFINE s == [q \in DOMAIN p.size |-> IF p.queue[n] = q THEN Minus(p.size[q], w[n])
                                           ELSE p.size[q]]
             D == p.dead \cup {n}
             x == Minus(p.weighted, w[n])
  <2>1. s \in Sizes /\ x \in Words
    BY WeightsAreWords DEF Sizes
  <2>2. D \in SUBSET B
    BY DEF PolicySound, Policies
  <2>3. MakeDead(p, w, n) = [p EXCEPT !.dead = D, !.weighted = x, !.size = s]
    BY <1>2 DEF MakeDead
  <2>4. /\ x = IF n \in p.dead THEN p.weighted ELSE Minus(p.weighted, w[n])
        /\ \A q \in {"window", "protected"} :
             s[q] = IF p.queue[n] = q THEN Minus(p.size[q], w[n]) ELSE p.size[q]
    BY <1>2, WeightsAreWords
  <2>5. D = p.dead \cup {n} /\ p \in Policies(B)
    BY DEF PolicySound
  <2> HIDE DEF s, D, x
  <2> DEFINE r == MakeDead(p, w, n)
  <2>6. /\ r \in Policies(B) /\ r.queue = p.queue /\ r.deque = p.deque /\ r.limit = p.limit
        /\ r.dead = D /\ r.weighted = x /\ r.size = s
    BY <2>1, <2>2, <2>3, <2>5 DEF Policies, Sizes
  <2> HIDE DEF r
  <2>7. Recounted(B, p, r) /\ Dies(p, w, n, r)
    BY <2>4, <2>5, <2>6, CountsSound DEF Dies
  <2>8. QED
    BY <2>7 DEF r
<1>3. QED
  BY <1>1, <1>2

\* policy.delete unlinks the node and counts it off.
LEMMA DeleteSound ==
    ASSUME NEW B, NEW p, PolicySound(B, p), NEW n \in B, NEW w, Weighs(w)
    PROVE  LET r == Delete(p, w, n)
           IN  /\ PolicySound(B, r) /\ Dies(p, w, n, r) /\ Links(r) = Links(p) \ {n}
               /\ r.queue = p.queue
<1> DEFINE u == Unlink(p, p.queue[n], n)
<1>1. n \in Nodes
  BY DEF PolicySound
<1>2. /\ PolicySound(B, u) /\ SameCount(p, u) /\ Links(u) = Links(p) \ {n}
      /\ u.queue = p.queue /\ u.size = p.size /\ u.limit = p.limit
  BY <1>1, UnlinkSound
<1>3. Delete(p, w, n) = MakeDead(u, w, n)
  BY DEF Delete
<1> HIDE DEF u
<1>4. QED
  BY <1>2, <1>3, MakeDeadSound DEF Recounted, Dies, SameCount

\* A node is counted in, whether it is added or updated, in region at.
Arrives(B, p, w, n, at, r) ==
    /\ Recounted(B, p, r) /\ r.dead = p.dead /\ r.weighted = Plus(p.weighted, w[n])
    /\ \A q \in {"window", "protected"} :
           r.size[q] = IF at = q THEN Plus(p.size[q], w[n]) ELSE p.size[q]

\* Counting a node that arrives adds its weight to the total and neither links nor kills a node.
LEMMA CountedSound ==
    ASSUME NEW B, NEW p, PolicySound(B, p), NEW n \in B, NEW w, Weighs(w)
    PROVE  /\ Arrives(B, p, w, n, "window", CountAdded(p, w, n))
           /\ Arrives(B, p, w, n, p.queue[n], CountUpdated(p, w, n))
<1> DEFINE s == [p.size EXCEPT !["window"] = Plus(@, w[n])]
           t == [q \in DOMAIN p.size |-> IF p.queue[n] = q THEN Plus(p.size[q], w[n])
                                         ELSE p.size[q]]
           D == p.dead
           x == Plus(p.weighted, w[n])
<1>1. s \in Sizes /\ t \in Sizes /\ x \in Words
  BY WeightsAreWords DEF Sizes
<1>2. D \in SUBSET B /\ p \in Policies(B)
  BY DEF PolicySound, Policies
<1>3. CountAdded(p, w, n) = [p EXCEPT !.dead = D, !.weighted = x, !.size = s]
  BY <1>2 DEF CountAdded, Policies
<1>4. CountUpdated(p, w, n) = [p EXCEPT !.dead = D, !.weighted = x, !.size = t]
  BY <1>2 DEF CountUpdated, Policies
<1>5. /\ x = Plus(p.weighted, w[n]) /\ D = p.dead
      /\ \A q \in {"window", "protected"} :
           /\ s[q] = IF "window" = q THEN Plus(p.size[q], w[n]) ELSE p.size[q]
           /\ t[q] = IF p.queue[n] = q THEN Plus(p.size[q], w[n]) ELSE p.size[q]
  BY WeightsAreWords
<1> HIDE DEF s, t, x, D
<1>6. ASSUME NEW u \in Sizes, NEW at,
             \A q \in {"window", "protected"} :
                 u[q] = IF at = q THEN Plus(p.size[q], w[n]) ELSE p.size[q],
             NEW r, r = [p EXCEPT !.dead = D, !.weighted = x, !.size = u]
      PROVE  Arrives(B, p, w, n, at, r)
  <2>1. /\ r \in Policies(B) /\ r.queue = p.queue /\ r.deque = p.deque /\ r.limit = p.limit
        /\ r.dead = D /\ r.weighted = x /\ r.size = u
    BY <1>1, <1>2, <1>6 DEF Policies, Sizes
  <2>2. QED
    BY <1>5, <1>6, <2>1, CountsSound DEF Arrives
<1>7. QED
  BY <1>1, <1>3, <1>4, <1>5, <1>6

\* Putting the new node in the place of the old one keeps a deque free of repetition.
LEMMA ReplacedNode ==
    ASSUME NEW B, NEW d \in Seq(B), Distinct(d), NEW n \in B, n \notin ToSet(d), NEW old
    PROVE  LET e == ReplaceAll(d, old, n)
           IN  /\ e \in Seq(B) /\ Distinct(e)
               /\ \A x : x \in ToSet(e) <=> \/ x = n /\ old \in ToSet(d)
                                            \/ x # old /\ x \in ToSet(d)
<1> DEFINE e == ReplaceAll(d, old, n)
<1>1. e = [i \in 1..Len(d) |-> IF d[i] = old THEN n ELSE d[i]] /\ Len(d) \in Nat
  BY DEF ReplaceAll
<1>2. e \in Seq(B) /\ Len(e) = Len(d) /\ \A i \in 1..Len(d) : e[i] = IF d[i] = old THEN n ELSE d[i]
  BY <1>1
<1> HIDE DEF e
<1>3. \A i \in 1..Len(d) : d[i] # n
  BY DEF ToSet
<1>4. Distinct(e)
  BY <1>2, <1>3 DEF Distinct
<1>5. /\ \A x : x \in ToSet(d) <=> \E i \in 1..Len(d) : d[i] = x
      /\ \A x : x \in ToSet(e) <=> \E i \in 1..Len(d) : e[i] = x
  BY <1>2 DEF ToSet
<1>6. ASSUME NEW x PROVE x \in ToSet(e) <=> (x = n /\ old \in ToSet(d)) \/ (x # old /\ x \in ToSet(d))
  BY <1>2, <1>3, <1>5
<1>7. QED
  BY <1>2, <1>4, <1>6 DEF e

\* The nodes of r are those of p, but for n.
NoOthers(p, n, r) == \A x \in Links(r) : x = n \/ x \in Links(p)

\* updateNode kills the old node and links no node but the new one, which was in no deque and
\* takes the place of the old one.
LEMMA UpdateNodeSound ==
    ASSUME NEW B, NEW p, PolicySound(B, p), NEW n \in B, n \notin Links(p), NEW old \in B,
           NEW w, Weighs(w)
    PROVE  LET r == UpdateNode(p, w, n, old)
           IN  /\ PolicySound(B, r) /\ Dies(p, w, old, r) /\ NoOthers(p, n, r)
               /\ old \in Links(p) => \A x : x \in Links(r) <=> x = n \/ (x # old /\ x \in Links(p))
               /\ \A x \in Nodes : r.queue[x] = IF x = n THEN p.queue[old] ELSE p.queue[x]
<1> DEFINE q == p.queue[old]
           e == ReplaceAll(p.deque[q], old, n)
           m == [p EXCEPT !.queue[n] = q, !.deque[q] = ReplaceAll(@, old, n)]
<1>1. q \in Queues /\ n \in Nodes /\ B \subseteq Nodes /\ p \in Policies(B) /\ p.deque[q] \in Seq(B)
  BY DEF PolicySound, Policies
<1>2. Distinct(p.deque[q]) /\ n \notin ToSet(p.deque[q])
  BY <1>1, LinksOf DEF PolicySound, DequesSound
<1>3. /\ e \in Seq(B) /\ Distinct(e)
      /\ \A x : x \in ToSet(e) <=> \/ x = n /\ old \in ToSet(p.deque[q])
                                   \/ x # old /\ x \in ToSet(p.deque[q])
  BY <1>1, <1>2, ReplacedNode
<1>4. UpdateNode(p, w, n, old) = MakeDead(m, w, old)
  BY DEF UpdateNode
<1>5. m = [p EXCEPT !.queue[n] = q, !.deque[q] = e]
  OBVIOUS
<1>6. old \in Nodes /\ q = p.queue[old]
  BY <1>1
<1> HIDE DEF q, e, m
<1>7. m \in Policies(B) /\ SameCount(p, m) /\ m.limit = p.limit /\ m.size = p.size
  BY <1>1, <1>3, <1>5 DEF Policies, SameCount
<1>8. /\ \A x \in Nodes : m.queue[x] = IF x = n THEN q ELSE p.queue[x]
      /\ \A x \in Queues : m.deque[x] = IF x = q THEN e ELSE p.deque[x]
  BY <1>1, <1>5 DEF Policies
<1> HIDE DEF m
<1>9. \A x \in Queues : p.deque[x] \in Seq(B) /\ \A y \in ToSet(p.deque[x]) : y \in B /\ y # n /\ p.queue[y] = x
  <2>1. ASSUME NEW x \in Queues, NEW y \in ToSet(p.deque[x])
        PROVE  y \in B /\ y # n /\ p.queue[y] = x
    <3>1. p.deque[x] \in Seq(B)
      BY <1>1 DEF Policies
    <3>2. y \in B
      BY <3>1 DEF ToSet
    <3>3. y \in Links(p)
      BY LinksOf
    <3>4. QED
      BY <3>2, <3>3 DEF PolicySound, DequesSound
  <2>2. QED
    BY <1>1, <2>1 DEF Policies
<1>10. ASSUME NEW x \in Queues
      PROVE  Distinct(m.deque[x]) /\ \A y \in ToSet(m.deque[x]) : m.queue[y] = x
  <2>1. CASE x = q
    BY <1>1, <1>3, <1>8, <1>9, <2>1
  <2>2. CASE x # q
    BY <1>1, <1>8, <1>9, <2>2 DEF PolicySound, DequesSound
  <2>3. QED
    BY <2>1, <2>2
<1>11. PolicySound(B, m)
  BY <1>1, <1>7, <1>10 DEF PolicySound, DequesSound
<1>12. NoOthers(p, n, m)
  <2>1. ASSUME NEW y \in Links(m), y # n PROVE y \in Links(p)
    <3>1. PICK x \in Queues : y \in ToSet(m.deque[x])
      BY LinksOf
    <3>2. y \in ToSet(p.deque[x])
      BY <1>3, <1>8, <2>1, <3>1
    <3>3. QED
      BY <3>2, LinksOf
  <2>2. QED
    BY <2>1 DEF NoOthers
<1>13. ASSUME old \in Links(p), NEW x PROVE x \in Links(m) <=> x = n \/ (x # old /\ x \in Links(p))
  <2>1. \A y \in Queues : old \in ToSet(p.deque[y]) <=> y = q
    BY <1>6, <1>9, <1>13, LinksOf
  <2>2. \A y \in Queues : x \in ToSet(m.deque[y]) <=> \/ x = n /\ y = q
                                                      \/ x # old /\ x \in ToSet(p.deque[y])
    BY <1>1, <1>3, <1>8, <2>1
  <2>3. QED
    BY <1>1, <2>2, LinksOf
<1>14. Recounted(B, m, MakeDead(m, w, old)) /\ Dies(m, w, old, MakeDead(m, w, old))
  BY <1>11, MakeDeadSound
<1> DEFINE r == MakeDead(m, w, old)
<1> HIDE DEF r
<1>15. /\ PolicySound(B, r) /\ Links(r) = Links(m) /\ r.queue = m.queue /\ r.limit = p.limit
       /\ r.dead = m.dead \cup {old}
       /\ r.weighted = IF old \in m.dead THEN m.weighted ELSE Minus(m.weighted, w[old])
       /\ old \notin m.dead => \A x \in {"window", "protected"} :
            r.size[x] = IF m.queue[old] = x THEN Minus(m.size[x], w[old]) ELSE m.size[x]
  BY <1>7, <1>14 DEF Recounted, Dies, r
<1>16. m.dead = p.dead /\ m.weighted = p.weighted /\ m.size = p.size /\ m.queue[old] = p.queue[old]
  BY <1>6, <1>7, <1>8 DEF SameCount
<1>17. Dies(p, w, old, r)
  BY <1>15, <1>16 DEF Dies
<1>18. \A x \in Nodes : r.queue[x] = IF x = n THEN p.queue[old] ELSE p.queue[x]
  BY <1>6, <1>8, <1>15
<1>19. NoOthers(p, n, r) /\ \A x : old \in Links(p) => (x \in Links(r) <=> x = n \/ (x # old /\ x \in Links(p)))
  BY <1>12, <1>13, <1>15 DEF NoOthers
<1>20. QED
  BY <1>4, <1>15, <1>17, <1>18, <1>19 DEF r

\* What update does with a node that fits moves it, or nothing.
LEMMA RefreshSound ==
    ASSUME NEW B, NEW p, PolicySound(B, p), NEW n \in B, NEW w, Weighs(w)
    PROVE  Carried(B, p, w, Refresh(p, w, n))
<1>1. n \in Nodes /\ Carried(B, p, w, p)
  BY LeftAlone DEF PolicySound
<1>2. Carried(B, p, w, Access(p, w, n))
  BY <1>1, AccessSound
<1>3. CASE p.queue[n] = "window" /\ Linked(p, n)
  <2> DEFINE u == Unlink(p, "window", n)
             r == PushFront(u, "window", n)
  <2>1. u = Unlink(p, p.queue[n], n) /\ n \in Links(p)
    BY <1>1, <1>3, LinkedIsLinked
  <2>2. /\ PolicySound(B, u) /\ SameCount(p, u) /\ Links(u) = Links(p) \ {n}
        /\ u.queue = p.queue /\ u.size = p.size /\ u.limit = p.limit
    BY <1>1, <2>1, UnlinkSound
  <2> HIDE DEF u
  <2>3. n \notin Links(u) /\ "window" \in Queues /\ r \in {PushBack(u, "window", n), PushFront(u, "window", n)}
    BY <2>2 DEF Queues
  <2>4. Refresh(p, w, n) \in {Access(p, w, n), r}
    BY <1>3 DEF Refresh, u
  <2> HIDE DEF r
  <2>5. /\ PolicySound(B, r) /\ SameCount(u, r) /\ Links(r) = Links(u) \cup {n}
        /\ \A x \in Nodes : r.queue[x] = IF x = n THEN "window" ELSE u.queue[x]
        /\ r.size = u.size /\ r.limit = u.limit
    BY <2>2, <2>3, LinkSound
  <2>6. Moved(B, p, r)
    BY <1>3, <2>1, <2>2, <2>5 DEF Moved, SameCount
  <2>7. r.queue = p.queue
    <3>1. r.queue \in [Nodes -> Queues] /\ p.queue \in [Nodes -> Queues]
      BY <2>5 DEF PolicySound, Policies
    <3>2. \A x \in Nodes : r.queue[x] = p.queue[x]
      BY <1>3, <2>2, <2>5
    <3>3. QED
      BY <3>1, <3>2
  <2>8. Booked(p, w, r)
    BY <1>1, <2>2, <2>5, <2>7, BookedSame DEF Carried
  <2>9. QED
    BY <1>2, <2>2, <2>4, <2>5, <2>6, <2>8 DEF Carried
<1>4. CASE ~(p.queue[n] = "window" /\ Linked(p, n))
  BY <1>1, <1>2, <1>4 DEF Refresh
<1>5. QED
  BY <1>3, <1>4

\* The policy after an add.
LEMMA AddSound ==
    ASSUME NEW B, NEW p, PolicySound(B, p), NEW n \in B, n \notin Links(p), NEW w, Weighs(w),
           NEW c, c = CountAdded(p, w, n),
           NEW r \in {c, PushBack(c, "window", n), PushFront(c, "window", n)}
    PROVE  /\ PolicySound(B, r) /\ NoOthers(p, n, r)
           /\ r.dead = p.dead /\ r.weighted = Plus(p.weighted, w[n]) /\ r.limit = p.limit
<1>1. Arrives(B, p, w, n, "window", c)
  BY CountedSound
<1>2. /\ PolicySound(B, c) /\ Links(c) = Links(p)
      /\ c.dead = p.dead /\ c.weighted = Plus(p.weighted, w[n]) /\ c.limit = p.limit
  BY <1>1 DEF Arrives, Recounted
<1>3. CASE r = c
  BY <1>2, <1>3 DEF NoOthers
<1>4. CASE r # c
  <2>1. "window" \in Queues /\ n \in Nodes /\ r \in {PushBack(c, "window", n), PushFront(c, "window", n)}
    BY <1>4 DEF Queues, PolicySound
  <2>2. PolicySound(B, r) /\ SameCount(c, r) /\ Links(r) = Links(c) \cup {n} /\ r.limit = c.limit
    BY <1>2, <2>1, LinkSound
  <2>3. QED
    BY <1>2, <2>2 DEF SameCount, NoOthers
<1>5. QED
  BY <1>3, <1>4

\* The policy after an update.
LEMMA UpdateSound ==
    ASSUME NEW B, NEW p, PolicySound(B, p), NEW n \in B, n \notin Links(p), NEW old \in B,
           NEW w, Weighs(w), NEW u, u = UpdateNode(p, w, n, old),
           NEW c, c = CountUpdated(u, w, n), NEW r \in {c, Refresh(c, w, n)}
    PROVE  /\ PolicySound(B, r) /\ NoOthers(p, n, r) /\ Dies(p, w, old, u)
           /\ r.dead = u.dead /\ r.weighted = Plus(u.weighted, w[n]) /\ r.limit = u.limit
<1>1. PolicySound(B, u) /\ Dies(p, w, old, u) /\ NoOthers(p, n, u)
  BY UpdateNodeSound
<1>2. Arrives(B, u, w, n, u.queue[n], c)
  BY <1>1, CountedSound
<1>3. /\ PolicySound(B, c) /\ Links(c) = Links(u)
      /\ c.dead = u.dead /\ c.weighted = Plus(u.weighted, w[n]) /\ c.limit = u.limit
  BY <1>2 DEF Arrives, Recounted
<1>4. Carried(B, c, w, r)
  BY <1>3, LeftAlone, RefreshSound
<1>5. QED
  BY <1>1, <1>3, <1>4 DEF Carried, Moved, SameCount, NoOthers

\* A policy of some nodes is one of more nodes.
LEMMA MoreNodes ==
    ASSUME NEW B, NEW p, PolicySound(B, p), NEW E, B \subseteq E, E \subseteq Nodes
    PROVE  PolicySound(E, p)
<1>1. ASSUME NEW q \in Queues PROVE p.deque[q] \in Seq(E)
  <2>1. p.deque[q] \in Seq(B)
    BY DEF PolicySound, Policies
  <2>2. QED
    BY <2>1
<1>2. /\ p \in [queue : [Nodes -> Queues], deque : [Queues -> Seq(B)],
                size : [{"window", "protected"} -> Words], limit : [window : Int, protected : Int],
                adjustment : Int, weighted : Words, dead : SUBSET B]
      /\ p.deque \in [Queues -> Seq(B)] /\ p.dead \in SUBSET B
  BY DEF PolicySound, Policies
<1>3. p.deque \in [Queues -> Seq(E)] /\ p.dead \in SUBSET E
  BY <1>1, <1>2
<1>4. p \in Policies(E)
  BY <1>2, <1>3 DEF Policies
<1>5. QED
  BY <1>4 DEF PolicySound

--------------------------------------------------------------------------------
(* The cursor of evictFromMain *)

Cursors(B) ==
    [candidate : B \cup {NoNode}, candidateQueue : Queues, victim : B \cup {NoNode},
     victimQueue : Queues \cup {"exhausted"}, evict : B \cup {NoNode}]

\* The neighbours and the first nodes are nodes that the policy knows.
LEMMA NeighboursKnown ==
    ASSUME NEW B, NEW p, PolicySound(B, p)
    PROVE  /\ \A q \in Queues : First(p.deque[q]) \in B \cup {NoNode}
           /\ \A n \in Nodes : NodeAfter(p, n) \in B \cup {NoNode}
<1>1. \A q \in Queues : p.deque[q] \in Seq(B)
  BY DEF PolicySound, Policies
<1>2. \A q \in Queues : First(p.deque[q]) \in B \cup {NoNode}
  BY <1>1 DEF First
<1>3. ASSUME NEW n \in Nodes, Linked(p, n), Position(p.deque[p.queue[n]], n) < Len(p.deque[p.queue[n]])
      PROVE  p.deque[p.queue[n]][Position(p.deque[p.queue[n]], n) + 1] \in B
  <2> DEFINE d == p.deque[p.queue[n]]
  <2>1. d \in Seq(B)
    BY <1>1 DEF PolicySound, Policies
  <2>2. \E i \in DOMAIN d : d[i] = n
    BY <1>3, <2>1 DEF Linked, Contains
  <2>3. Position(d, n) \in DOMAIN d
    BY <2>2 DEF Position
  <2>4. Position(d, n) < Len(d)
    BY <1>3
  <2> HIDE DEF d
  <2>5. Position(d, n) + 1 \in 1..Len(d)
    BY <2>1, <2>3, <2>4
  <2>6. d[Position(d, n) + 1] \in B
    BY <2>1, <2>5
  <2>7. QED
    BY <2>6 DEF d
<1>4. QED
  BY <1>2, <1>3 DEF NodeAfter

\* The first node that evictFromWindow moves is one that the policy knows.
LEMMA FirstMovedKnown ==
    ASSUME NEW B, NEW p, PolicySound(B, p), NEW w
    PROVE  FirstMoved(p, w) \in B \cup {NoNode} /\ FirstMoved(p, w) \in Links(p) \cup {NoNode}
<1> DEFINE d     == p.deque["window"]
           heavy == {i \in DOMAIN d : w[d[i]] # 0}
<1>1. d \in Seq(B)
  BY DEF PolicySound, Policies, Queues
<1>2. ASSUME heavy # {} PROVE d[Min(heavy)] \in B /\ d[Min(heavy)] \in Links(p)
  <2>1. heavy \subseteq Nat
    BY <1>1
  <2>2. \E i \in heavy : \A j \in heavy : i <= j
    <3> HIDE DEF heavy
    <3>1. QED
      BY <1>2, <2>1, Adding!LeastNumber
  <2>3. Min(heavy) \in heavy
    BY <2>2 DEF Min
  <2>4. \A i \in heavy : d[i] \in B /\ d[i] \in Links(p)
    BY <1>1 DEF Links, Queues, ToSet
  <2> HIDE DEF heavy, d
  <2>5. QED
    BY <2>3, <2>4
<1>3. QED
  BY <1>2 DEF FirstMoved

\* An iteration of evictFromMain chooses among the nodes that the policy knows.
LEMMA DecideKnown ==
    ASSUME NEW B, NEW p, PolicySound(B, p), NEW w, NEW alive, NEW m, NEW lowest,
           NEW k \in Cursors(B)
    PROVE  Decide(p, w, alive, m, k, lowest) \in Cursors(B)
<1> DEFINE widen == k.candidate = NoNode /\ k.candidateQueue = "probation"
           c  == IF widen THEN First(p.deque["window"]) ELSE k.candidate
           cq == IF widen THEN "window" ELSE k.candidateQueue
           v  == k.victim
           vq == k.victimQueue
           nc == NodeAfter(p, c)
           nv == NodeAfter(p, v)
           r  == Decide(p, w, alive, m, k, lowest)
<1>1. c \in B \cup {NoNode} /\ v \in B \cup {NoNode} /\ cq \in Queues /\ vq \in Queues \cup {"exhausted"}
  BY NeighboursKnown DEF Cursors, Queues
<1>2. (c # NoNode => nc \in B \cup {NoNode}) /\ (v # NoNode => nv \in B \cup {NoNode})
  BY <1>1, NeighboursKnown DEF PolicySound
<1>3. /\ First(p.deque["protected"]) \in B \cup {NoNode}
      /\ First(p.deque["window"]) \in B \cup {NoNode}
  BY NeighboursKnown DEF Queues
<1>4. ASSUME NEW a \in B \cup {NoNode}, NEW b \in B \cup {NoNode}, NEW e \in B \cup {NoNode},
             NEW y \in Queues \cup {"exhausted"}
      PROVE  Cursor(a, cq, b, y, e) \in Cursors(B)
  BY <1>1 DEF Cursor, Cursors
<1>5. CASE c = NoNode /\ v = NoNode
  <2>1. r = CASE vq = "probation" ->
                    Cursor(c, cq, First(p.deque["protected"]), "protected", NoNode)
              [] vq = "protected" ->
                    Cursor(c, cq, First(p.deque["window"]), "window", NoNode)
              [] OTHER -> Cursor(c, cq, v, "exhausted", NoNode)
    BY <1>5 DEF Decide
  <2> HIDE DEF r, c, cq, v, vq
  <2>2. r \in {Cursor(c, cq, First(p.deque["protected"]), "protected", NoNode),
               Cursor(c, cq, First(p.deque["window"]), "window", NoNode),
               Cursor(c, cq, v, "exhausted", NoNode)}
    BY <2>1
  <2>3. /\ Cursor(c, cq, First(p.deque["protected"]), "protected", NoNode) \in Cursors(B)
        /\ Cursor(c, cq, First(p.deque["window"]), "window", NoNode) \in Cursors(B)
        /\ Cursor(c, cq, v, "exhausted", NoNode) \in Cursors(B)
    BY <1>1, <1>3, <1>4 DEF Queues
  <2>4. r \in Cursors(B)
    BY <2>2, <2>3
  <2>5. QED
    BY <2>4 DEF r
<1>6. CASE ~(c = NoNode /\ v = NoNode)
  <2> DEFINE x == IF nc = v THEN nv ELSE nc
  <2>1. \/ v # NoNode /\ r \in {Cursor(c, cq, nv, vq, NoNode), Cursor(c, cq, nv, vq, v)}
        \/ c # NoNode /\ r \in {Cursor(nc, cq, v, vq, NoNode), Cursor(nc, cq, v, vq, c)}
        \/ c # NoNode /\ v # NoNode /\ r \in {Cursor(NoNode, cq, nv, vq, c), Cursor(x, cq, nv, vq, v)}
    BY <1>6 DEF Decide
  <2>2. c # NoNode /\ v # NoNode => x \in B \cup {NoNode}
    BY <1>2
  <2> HIDE DEF r, c, cq, v, vq, nc, nv, x
  <2>3. ASSUME c # NoNode
        PROVE  Cursor(nc, cq, v, vq, NoNode) \in Cursors(B) /\ Cursor(nc, cq, v, vq, c) \in Cursors(B)
    BY <1>1, <1>2, <1>4, <2>3
  <2>4. ASSUME v # NoNode
        PROVE  Cursor(c, cq, nv, vq, NoNode) \in Cursors(B) /\ Cursor(c, cq, nv, vq, v) \in Cursors(B)
    BY <1>1, <1>2, <1>4, <2>4
  <2>5. ASSUME c # NoNode, v # NoNode
        PROVE  Cursor(NoNode, cq, nv, vq, c) \in Cursors(B) /\ Cursor(x, cq, nv, vq, v) \in Cursors(B)
    BY <1>1, <1>2, <1>4, <2>2, <2>5
  <2>6. r \in Cursors(B)
    BY <2>1, <2>3, <2>4, <2>5
  <2>7. QED
    BY <2>6 DEF r
<1>7. QED
  BY <1>5, <1>6

\* The cursor at the start of evictFromMain.
LEMMA StartCursorKnown ==
    ASSUME NEW B, NEW p, PolicySound(B, p), NEW n \in B \cup {NoNode}
    PROVE  StartCursor(p, n) \in Cursors(B)
<1>1. First(p.deque["probation"]) \in B \cup {NoNode}
  BY NeighboursKnown DEF Queues
<1>2. QED
  BY <1>1 DEF StartCursor, Cursor, Cursors, Queues

--------------------------------------------------------------------------------
(* The inductive invariant *)

\* Task t tells the policy of the new node n, or of node n's removal.
Introduces(t, n) == t.reason \in {"add", "update"} /\ t.node = n
Removes(t, n)    == \/ t.reason = "update" /\ t.old = n
                    \/ t.reason = "delete" /\ t.node = n

\* Node n is an entry of the map; a task on its way will remove it.
InMap(n)   == n \in born /\ map[keyOf[n]] = n
Leaving(n) == \E t \in Tasks : Removes(t, n)

\* The nodes whose weight the policy has counted: no task on its way still brings them.
Announced == {n \in born : \A t \in Tasks : ~Introduces(t, n)}

Causes == {"none", "replacement", "invalidation", "overflow"}

\* Every variable has its type, and the policy's copies name nodes that exist.
Typed ==
    /\ map \in [Keys -> Nodes \cup {NoNode}]
    /\ born \subseteq Nodes
    /\ keyOf \in [Nodes -> Keys \cup {NoNode}] /\ \A n \in born : keyOf[n] \in Keys
    /\ weight \in [Nodes -> Weights \cup {0}]
    /\ retired \subseteq born
    /\ maximum \in Maximums
    /\ readBuffer \in Seq(born)
    /\ writeBuffer \in Seq(TaskSet)
    /\ pending \in [Clients -> TaskSet]
    /\ phase \in Phases
    /\ cursor \in Cursors(born)
    /\ snapshot \subseteq born
    /\ gone \in [Nodes -> Causes]
    /\ told \in [Nodes -> {<<>>} \cup {<<c>> : c \in Causes}]

\* Only one task on its way brings a node, and only one removes it.
Apart(t, u) == \A n \in Nodes : /\ ~(Introduces(t, n) /\ Introduces(u, n))
                                /\ ~(Removes(t, n) /\ Removes(u, n))

\* Each task on its way has its own node to bring and its own to remove.
TasksApart ==
    /\ \A i, j \in 1..Len(writeBuffer) : i # j => Apart(writeBuffer[i], writeBuffer[j])
    /\ \A i \in 1..Len(writeBuffer), c \in Clients : Apart(writeBuffer[i], pending[c])
    /\ \A c, d \in Clients : c # d => Apart(pending[c], pending[d])

\* A node that is on its way to the policy is not linked yet, and one whose removal is
\* has left the map and nobody has been told.
TaskSound(t) ==
    /\ t.reason # "none" => t.node \in Nodes
    /\ t.reason = "update" => t.old \in Nodes
    /\ \A n \in Nodes :
         /\ Introduces(t, n) => n \in born /\ n \notin Links(policy)
         /\ Removes(t, n) => /\ n \in born /\ ~InMap(n)
                             /\ gone[n] = t.cause /\ told[n] = <<>>

TasksSound == \A t \in Tasks : TaskSound(t)

\* A node is in the map, or on its way out, or has been reported and counted off.
Accounted(n) ==
    IF InMap(n) THEN gone[n] = "none" /\ told[n] = <<>>
    ELSE /\ gone[n] # "none"
         /\ Leaving(n) \/ (told[n] = <<gone[n]>> /\ n \in policy.dead)

\* Nodes that do not exist have left nothing behind.
AllAccounted == /\ \A n \in born : Accounted(n)
                /\ \A n \in Nodes \ born : gone[n] = "none" /\ told[n] = <<>>

\* The total is the weight of the announced nodes less that of the dead, in a word.
Balanced == policy.weighted = (Sum(weight, Announced) - Sum(weight, policy.dead)) % Word

\* The inductive invariant.
Inv == /\ Typed /\ PolicySound(born, policy) /\ MapHoldsTheAlive
       /\ TasksSound /\ TasksApart /\ AllAccounted /\ Balanced

--------------------------------------------------------------------------------
(* The tasks on their way *)

\* The empty place of a client without a task clashes with no task.
LEMMA NoTaskApart == \A t : Apart(NoTask, t) /\ Apart(t, NoTask)
  BY DEF Apart, Introduces, Removes, NoTask

\* Two tasks are apart in either order.
LEMMA ApartBothWays == ASSUME NEW t, NEW u, Apart(t, u) PROVE Apart(u, t)
  BY DEF Apart

\* The tasks on their way are those of the write buffer and those a client still holds.
LEMMA WhichTasks ==
    ASSUME Typed
    PROVE  \A t : t \in Tasks <=> \/ \E i \in 1..Len(writeBuffer) : t = writeBuffer[i]
                                  \/ \E c \in Clients : t = pending[c]
<1>1. writeBuffer \in Seq(TaskSet)
  BY DEF Typed
<1>2. QED
  BY <1>1 DEF Tasks, ToSet

\* The same of the next state.
LEMMA WhichTasksNext ==
    ASSUME writeBuffer' \in Seq(TaskSet)
    PROVE  \A t : t \in Tasks' <=> \/ \E i \in 1..Len(writeBuffer') : t = writeBuffer'[i]
                                   \/ \E c \in Clients : t = pending'[c]
  BY DEF Tasks, ToSet

\* The empty place is a task record like the others.
LEMMA NoTaskTyped == NoTask \in TaskSet
  BY DEF NoTask, TaskSet

\* A client creates a task.
LEMMA TaskCreated ==
    ASSUME Inv, NEW c \in Clients, pending[c] = NoTask, NEW t \in TaskSet,
           pending' = [pending EXCEPT ![c] = t], UNCHANGED writeBuffer,
           \A u \in Tasks : Apart(t, u)
    PROVE  /\ TasksApart' /\ t \in Tasks'
           /\ \A u \in Tasks' : u \in Tasks \/ u = t
           /\ \A u \in Tasks : u \in Tasks' \/ u = NoTask
<1>1. /\ writeBuffer' \in Seq(TaskSet) /\ writeBuffer' = writeBuffer
      /\ \A d \in Clients : pending'[d] = IF d = c THEN t ELSE pending[d]
  BY DEF Inv, Typed
<1>2. /\ t \in Tasks'
      /\ \A u \in Tasks' : u \in Tasks \/ u = t
      /\ \A u \in Tasks : u \in Tasks' \/ u = NoTask
  BY <1>1, WhichTasks, WhichTasksNext DEF Inv
<1>3. /\ \A i \in 1..Len(writeBuffer) : writeBuffer[i] \in Tasks
      /\ \A d \in Clients : pending[d] \in Tasks
  BY WhichTasks DEF Inv
<1>4. \A u \in Tasks : Apart(t, u) /\ Apart(u, t)
  BY ApartBothWays
<1>5. TasksApart'
  BY <1>1, <1>3, <1>4 DEF Inv, TasksApart
<1>6. QED
  BY <1>2, <1>5

\* A client pushes its task.
LEMMA TaskPushed ==
    ASSUME Inv, NEW c \in Clients, Push(c)
    PROVE  /\ TasksApart' /\ writeBuffer' \in Seq(TaskSet) /\ pending' \in [Clients -> TaskSet]
           /\ \A u \in Tasks' : u \in Tasks \/ u = NoTask
           /\ \A u \in Tasks : u \in Tasks'
<1> DEFINE n == Len(writeBuffer)
<1>1. writeBuffer \in Seq(TaskSet) /\ pending[c] \in TaskSet /\ n \in Nat
  BY DEF Inv, Typed
<1>2. /\ writeBuffer' \in Seq(TaskSet) /\ Len(writeBuffer') = n + 1
      /\ \A i \in 1..n : i \in 1..(n + 1) /\ writeBuffer'[i] = writeBuffer[i]
      /\ writeBuffer'[n + 1] = pending[c]
  BY <1>1 DEF Push
<1>3. /\ pending' \in [Clients -> TaskSet]
      /\ \A d \in Clients : pending'[d] = IF d = c THEN NoTask ELSE pending[d]
  BY NoTaskTyped DEF Push, Inv, Typed
<1>4. \A i \in 1..(n + 1) : i \in 1..n \/ i = n + 1
  BY <1>1
<1>5. n + 1 \in 1..(n + 1)
  BY <1>1
<1>6. \A u \in Tasks' : u \in Tasks \/ u = NoTask
  BY <1>2, <1>3, <1>4, WhichTasks, WhichTasksNext DEF Inv
<1>7. \A u \in Tasks : u \in Tasks'
  BY <1>2, <1>3, <1>5, WhichTasks, WhichTasksNext DEF Inv
<1>8. TasksApart'
  <2>1. ASSUME NEW i \in 1..(n + 1), NEW j \in 1..(n + 1), i # j
        PROVE  Apart(writeBuffer'[i], writeBuffer'[j])
    BY <1>2, <1>4, <2>1, ApartBothWays DEF Inv, TasksApart
  <2>2. ASSUME NEW i \in 1..(n + 1), NEW d \in Clients
        PROVE  Apart(writeBuffer'[i], pending'[d])
    BY <1>2, <1>3, <1>4, NoTaskApart DEF Inv, TasksApart
  <2>3. ASSUME NEW d \in Clients, NEW e \in Clients, d # e
        PROVE  Apart(pending'[d], pending'[e])
    BY <1>3, <2>3, NoTaskApart DEF Inv, TasksApart
  <2>4. QED
    BY <1>2, <2>1, <2>2, <2>3 DEF TasksApart
<1>9. QED
  BY <1>2, <1>3, <1>6, <1>7, <1>8

\* The maintenance pops a task.
LEMMA TaskPopped ==
    ASSUME Inv, writeBuffer # <<>>, writeBuffer' = Tail(writeBuffer), UNCHANGED pending
    PROVE  /\ TasksApart' /\ writeBuffer' \in Seq(TaskSet)
           /\ Head(writeBuffer) \in Tasks /\ Head(writeBuffer) \in TaskSet
           /\ \A u \in Tasks' : u \in Tasks /\ Apart(Head(writeBuffer), u)
           /\ \A u \in Tasks : u \in Tasks' \/ u = Head(writeBuffer)
<1> DEFINE n == Len(writeBuffer)
           t == Head(writeBuffer)
<1>1. /\ writeBuffer \in Seq(TaskSet) /\ n \in Nat /\ n # 0
      /\ t = writeBuffer[1] /\ t \in TaskSet
  BY DEF Inv, Typed
<1>2. /\ writeBuffer' \in Seq(TaskSet) /\ Len(writeBuffer') = n - 1
      /\ \A i \in 1..(n - 1) : writeBuffer'[i] = writeBuffer[i + 1]
  BY <1>1
<1> HIDE DEF n, t
<1>3. /\ \A i \in 1..(n - 1) : i + 1 \in 1..n /\ i + 1 # 1
      /\ \A i, j \in 1..(n - 1) : i # j => i + 1 # j + 1
      /\ \A i \in 1..n : i = 1 \/ (i - 1 \in 1..(n - 1) /\ (i - 1) + 1 = i)
      /\ 1 \in 1..n
  BY <1>1 DEF n
<1>4. /\ \A i \in 1..n : writeBuffer[i] \in Tasks
      /\ \A d \in Clients : pending[d] \in Tasks
      /\ t \in Tasks
  BY <1>1, <1>3, WhichTasks DEF Inv, n
<1>5. ASSUME NEW u \in Tasks' PROVE u \in Tasks /\ Apart(t, u)
  <2>1. CASE \E i \in 1..(n - 1) : u = writeBuffer'[i]
    <3>1. PICK i \in 1..(n - 1) : u = writeBuffer[i + 1]
      BY <1>2, <2>1
    <3>2. QED
      BY <1>1, <1>3, <1>4, <3>1 DEF Inv, TasksApart, n
  <2>2. CASE \E d \in Clients : u = pending[d]
    BY <1>1, <1>3, <1>4, <2>2 DEF Inv, TasksApart, n
  <2>3. QED
    BY <1>2, <2>1, <2>2, WhichTasksNext
<1>6. ASSUME NEW u \in Tasks PROVE u \in Tasks' \/ u = t
  <2>1. CASE \E i \in 1..n : u = writeBuffer[i]
    <3>1. PICK i \in 1..n : u = writeBuffer[i]
      BY <2>1
    <3>2. CASE i = 1
      BY <1>1, <3>1, <3>2
    <3>3. CASE i # 1
      <4>1. i - 1 \in 1..(n - 1) /\ writeBuffer'[i - 1] = u
        BY <1>2, <1>3, <3>1, <3>3
      <4>2. QED
        BY <1>2, <4>1, WhichTasksNext
    <3>4. QED
      BY <3>2, <3>3
  <2>2. CASE \E d \in Clients : u = pending[d]
    BY <1>2, <2>2, WhichTasksNext
  <2>3. QED
    BY <2>1, <2>2, WhichTasks DEF Inv, n
<1>7. TasksApart'
  <2>1. ASSUME NEW i \in 1..(n - 1), NEW j \in 1..(n - 1), i # j
        PROVE  Apart(writeBuffer'[i], writeBuffer'[j])
    <3>1. i + 1 \in 1..n /\ j + 1 \in 1..n /\ i + 1 # j + 1
      BY <1>3, <2>1
    <3>2. QED
      BY <1>2, <3>1 DEF Inv, TasksApart, n
  <2>2. ASSUME NEW i \in 1..(n - 1), NEW d \in Clients
        PROVE  Apart(writeBuffer'[i], pending'[d])
    <3>1. i + 1 \in 1..n
      BY <1>3
    <3>2. QED
      BY <1>2, <3>1 DEF Inv, TasksApart, n
  <2>3. QED
    BY <1>2, <2>1, <2>2 DEF Inv, TasksApart
<1>8. QED
  BY <1>1, <1>2, <1>4, <1>5, <1>6, <1>7 DEF t

--------------------------------------------------------------------------------
(* What the steps do *)

\* What the invariant gives at once.
LEMMA InvFacts ==
    ASSUME Inv
    PROVE  /\ Weighs(weight) /\ born \subseteq Nodes /\ maximum \in Nat /\ \A m \in Maximums : m \in Nat
           /\ policy.dead \subseteq born /\ Alive \subseteq born /\ policy.weighted \in Words
           /\ NoNode \notin born /\ \A t \in Tasks : t \in TaskSet
<1>1. Weighs(weight)
  <2>1. weight \in [Nodes -> Weights \cup {0}] /\ Weights \cup {0} \subseteq Nat
    BY WriteBehindAssumption DEF Inv, Typed
  <2>2. QED
    BY <2>1 DEF Weighs
<1>2. maximum \in Nat /\ \A m \in Maximums : m \in Nat
  BY WriteBehindAssumption DEF Inv, Typed
<1>3. policy.dead \subseteq born /\ policy.weighted \in Words
  BY DEF Inv, PolicySound, Policies
<1>4. \A t \in Tasks : t \in TaskSet
  <2>1. writeBuffer \in Seq(TaskSet) /\ pending \in [Clients -> TaskSet]
    BY DEF Inv, Typed
  <2>2. QED
    BY <2>1, WhichTasks DEF Inv
<1>5. QED
  BY <1>1, <1>2, <1>3, <1>4, PolicyAssumption DEF Inv, Typed, Alive

\* Only the policy, the reads, the phase, the cursor and the snapshot change.
Quiet ==
    /\ UNCHANGED <<mapVars, told, writeBuffer, pending>>
    /\ Moved(born, policy, policy') /\ Booked(policy, weight, policy')
    /\ InBalance(policy, maximum) => InBalance(policy, maximum)'

\* The steps that neither bind a key, push or run a task, nor evict are quiet.
LEMMA QuietSteps ==
    ASSUME Inv
    PROVE  /\ (\E k \in Keys : Read(k)) => Quiet
           /\ (\E m \in Maximums : SetMaximum(m)) => Quiet
           /\ StartMaintenance \/ DrainReadBuffer \/ EvictWindow \/ EvictMain => Quiet
           /\ EvictMainEnd \/ ClimbWindow \/ InvalidateAll \/ TakeSnapshot => Quiet
           /\ EndInvalidateAll \/ UNCHANGED vars => Quiet
<1>1. /\ PolicySound(born, policy) /\ Weighs(weight)
      /\ Moved(born, policy, policy) /\ Booked(policy, weight, policy)
  BY LeftAlone, InvFacts DEF Inv, Carried
<1>2. ASSUME NEW k \in Keys, Read(k) PROVE Quiet
  BY <1>1, <1>2 DEF Read, Quiet, mapVars
<1>3. ASSUME NEW m \in Maximums, SetMaximum(m) PROVE Quiet
  <2>1. m \in Nat \ {0}
    BY WriteBehindAssumption
  <2>2. /\ Moved(born, policy, Resize(policy, m)) /\ Booked(policy, weight, Resize(policy, m))
        /\ InBalance(Resize(policy, m), m)
    BY <1>1, <2>1, ResizeSound
  <2>3. QED
    BY <1>3, <2>2 DEF SetMaximum, Quiet, mapVars
<1>4. ASSUME StartMaintenance \/ EvictMain \/ EvictMainEnd \/ InvalidateAll \/ TakeSnapshot
             \/ EndInvalidateAll \/ UNCHANGED vars
      PROVE  Quiet
  <2>1. UNCHANGED <<mapVars, told, writeBuffer, pending, policy, maximum>>
    BY <1>4 DEF StartMaintenance, EvictMain, EvictMainEnd, InvalidateAll, TakeSnapshot,
                EndInvalidateAll, vars, mapVars
  <2>2. QED
    BY <1>1, <2>1 DEF Quiet
<1>5. ASSUME DrainReadBuffer PROVE Quiet
  <2>1. readBuffer \in Seq(Nodes)
    <3>1. readBuffer \in Seq(born) /\ born \subseteq Nodes
      BY DEF Inv, Typed
    <3>2. QED
      BY <3>1
  <2>2. Carried(born, policy, weight, Accessed(policy, weight, readBuffer))
    BY <1>1, <2>1, AccessesSound
  <2>3. policy' = Accessed(policy, weight, readBuffer)
    BY <1>5 DEF DrainReadBuffer, Accessed
  <2>4. QED
    BY <1>5, <2>2, <2>3 DEF DrainReadBuffer, Quiet, mapVars, Carried, InBalance
<1>6. ASSUME EvictWindow PROVE Quiet
  <2>1. Carried(born, policy, weight, EvictFromWindow(policy, weight))
    BY <1>1, EvictFromWindowSound
  <2>2. QED
    BY <1>6, <2>1 DEF EvictWindow, Quiet, mapVars, Carried, InBalance
<1>7. ASSUME ClimbWindow PROVE Quiet
  <2>1. PICK a \in Adjustments(policy, maximum) : policy' = Climb(policy, weight, a)
    BY <1>7 DEF ClimbWindow
  <2>2. a \in Int
    <3>1. policy.adjustment \in Int /\ maximum \in Nat
      BY InvFacts DEF Inv, PolicySound, Policies
    <3>2. QED
      BY <3>1 DEF Adjustments
  <2>3. /\ Moved(born, policy, Climb(policy, weight, a)) /\ Booked(policy, weight, Climb(policy, weight, a))
        /\ \A m \in Nat \ {0} : InBalance(policy, m) => InBalance(Climb(policy, weight, a), m)
    BY <1>1, <2>2, ClimbSound
  <2>4. maximum \in Nat \ {0}
    BY WriteBehindAssumption DEF Inv, Typed
  <2>5. QED
    BY <1>7, <2>1, <2>3, <2>4 DEF ClimbWindow, Quiet, mapVars
<1>8. QED
  BY <1>2, <1>3, <1>4, <1>5, <1>6, <1>7

\* The task that Set creates for the new node n.
SetTask(k, n) == IF map[k] = NoNode THEN Task("add", n, NoNode, "none")
                 ELSE Task("update", n, map[k], "replacement")

\* Set binds key k to a new node n.
SetBy(c, k, w, n) ==
    /\ n \in Nodes \ born /\ pending[c] = NoTask
    /\ \A j \in Keys : map'[j] = IF j = k THEN n ELSE map[j]
    /\ born' = born \cup {n}
    /\ \A x \in Nodes : keyOf'[x] = IF x = n THEN k ELSE keyOf[x]
    /\ \A x \in Nodes : weight'[x] = IF x = n THEN w ELSE weight[x]
    /\ retired' = retired \cup ({map[k]} \cap Alive)
    /\ \A x \in Nodes : gone'[x] = IF x = map[k] THEN "replacement" ELSE gone[x]
    /\ pending' = [pending EXCEPT ![c] = SetTask(k, n)]
    /\ UNCHANGED <<policy, writeBuffer, told>>

\* What Set changes, node by node.
LEMMA SetDoes ==
    ASSUME Inv, NEW c \in Clients, NEW k \in Keys, NEW w \in Weights, Set(c, k, w)
    PROVE  \E n \in Nodes : SetBy(c, k, w, n)
<1> DEFINE n == CHOOSE x \in Nodes : x \notin born
<1>1. n \in Nodes /\ n \notin born
  BY DEF Set, Inv, Typed
<1>2. /\ map' = [map EXCEPT ![k] = n]
      /\ retired' = retired \cup ({map[k]} \cap Alive)
      /\ gone' = IF map[k] = NoNode THEN gone ELSE [gone EXCEPT ![map[k]] = "replacement"]
      /\ pending' = [pending EXCEPT ![c] = SetTask(k, n)]
      /\ born' = born \cup {n}
      /\ keyOf' = [keyOf EXCEPT ![n] = k]
      /\ weight' = [weight EXCEPT ![n] = w]
      /\ pending[c] = NoTask
      /\ UNCHANGED <<policy, writeBuffer, told>>
  BY DEF Set, SetTask, Ready
<1> HIDE DEF n
<1>3. \A x \in Nodes : gone'[x] = IF x = map[k] THEN "replacement" ELSE gone[x]
  BY <1>2, PolicyAssumption DEF Inv, Typed
<1>4. \A j \in Keys : map'[j] = IF j = k THEN n ELSE map[j]
  BY <1>2 DEF Inv, Typed
<1>5. /\ \A x \in Nodes : keyOf'[x] = IF x = n THEN k ELSE keyOf[x]
      /\ \A x \in Nodes : weight'[x] = IF x = n THEN w ELSE weight[x]
  BY <1>1, <1>2 DEF Inv, Typed
<1>6. SetBy(c, k, w, n)
  BY <1>1, <1>2, <1>3, <1>4, <1>5 DEF SetBy
<1>7. QED
  BY <1>1, <1>6

\* Invalidate unbinds key k.
InvalidateBy(c, k) ==
    /\ map[k] # NoNode /\ pending[c] = NoTask
    /\ \A j \in Keys : map'[j] = IF j = k THEN NoNode ELSE map[j]
    /\ retired' = retired \cup ({map[k]} \cap Alive)
    /\ \A x \in Nodes : gone'[x] = IF x = map[k] THEN "invalidation" ELSE gone[x]
    /\ pending' = [pending EXCEPT ![c] = Task("delete", map[k], NoNode, "invalidation")]
    /\ UNCHANGED <<born, keyOf, weight, policy, writeBuffer, told>>

\* What Invalidate changes, node by node.
LEMMA InvalidateDoes ==
    ASSUME Inv, NEW c \in Clients, NEW k \in Keys, Invalidate(c, k)
    PROVE  InvalidateBy(c, k)
<1>1. \A j \in Keys : map'[j] = IF j = k THEN NoNode ELSE map[j]
  BY DEF Invalidate, Inv, Typed
<1>2. \A x \in Nodes : gone'[x] = IF x = map[k] THEN "invalidation" ELSE gone[x]
  BY DEF Invalidate, Inv, Typed
<1>3. QED
  BY <1>1, <1>2 DEF Invalidate, InvalidateBy, Ready

\* Node n is counted in.
Arrived(p, r, n) ==
    r.dead = p.dead /\ r.weighted = Plus(p.weighted, weight[n]) /\ r.limit = p.limit

\* A task reaches the policy; a node it brings is counted in, and one it removes is dead and
\* reported.
RunBy(t) ==
    /\ t = Head(writeBuffer) /\ t.reason \in {"add", "update", "delete"}
    /\ writeBuffer # <<>> /\ writeBuffer' = Tail(writeBuffer)
    /\ PolicySound(born, policy')
    /\ \A x \in Links(policy') : Introduces(t, x) \/ x \in Links(policy)
    /\ t.reason = "add"    => Arrived(policy, policy', t.node)
    /\ t.reason = "update" => \E u : Dies(policy, weight, t.old, u) /\ Arrived(u, policy', t.node)
    /\ t.reason = "delete" => Dies(policy, weight, t.node, policy')
    /\ \A x \in Nodes : told'[x] = IF Removes(t, x) THEN Append(told[x], t.cause) ELSE told[x]
    /\ UNCHANGED <<map, born, keyOf, weight, retired, gone, pending>>

\* What runTask changes, by the reason of the task.
LEMMA RunDoes ==
    ASSUME Inv, DrainWriteBuffer
    PROVE  RunBy(Head(writeBuffer))
<1> DEFINE t == Head(writeBuffer)
<1>1. /\ RunTask(t) /\ writeBuffer # <<>> /\ writeBuffer' = Tail(writeBuffer)
      /\ UNCHANGED <<map, born, keyOf, weight, retired, gone, pending>>
  BY DEF DrainWriteBuffer
<1>2. t \in Tasks /\ t \in TaskSet
  BY <1>1, TaskPopped
<1> HIDE DEF t
<1>3. TaskSound(t)
  BY <1>2 DEF Inv, TasksSound
<1>4. PolicySound(born, policy) /\ Weighs(weight) /\ told \in [Nodes -> {<<>>} \cup {<<c>> : c \in Causes}]
  BY InvFacts DEF Inv, Typed
<1>5. t.reason \in {"add", "update", "delete"}
  BY <1>1 DEF RunTask
<1> DEFINE Rest == /\ PolicySound(born, policy')
                   /\ \A x \in Links(policy') : Introduces(t, x) \/ x \in Links(policy)
                   /\ t.reason = "add"    => Arrived(policy, policy', t.node)
                   /\ t.reason = "update" => \E u : Dies(policy, weight, t.old, u) /\ Arrived(u, policy', t.node)
                   /\ t.reason = "delete" => Dies(policy, weight, t.node, policy')
                   /\ \A x \in Nodes : told'[x] = IF Removes(t, x) THEN Append(told[x], t.cause) ELSE told[x]
<1>6. ASSUME t.reason = "add" PROVE Rest
  <2> DEFINE n == t.node
             c == CountAdded(policy, weight, n)
  <2>1. n \in born /\ n \notin Links(policy) /\ Introduces(t, n)
    BY <1>3, <1>6 DEF TaskSound, Introduces
  <2>2. RunAdd(n)
    BY <1>1, <1>6 DEF RunTask
  <2>3. policy' \in {c, PushBack(c, "window", n), PushFront(c, "window", n)} /\ told' = told
    BY <2>2 DEF RunAdd
  <2> HIDE DEF n
  <2>4. /\ PolicySound(born, policy') /\ NoOthers(policy, n, policy')
        /\ policy'.dead = policy.dead /\ policy'.weighted = Plus(policy.weighted, weight[n])
        /\ policy'.limit = policy.limit
    <3> HIDE DEF c
    <3>1. c = CountAdded(policy, weight, n)
      BY DEF c
    <3>2. QED
      BY <1>4, <2>1, <2>3, <3>1, AddSound
  <2>5. \A x : ~Removes(t, x)
    BY <1>6 DEF Removes
  <2>6. \A x \in Links(policy') : Introduces(t, x) \/ x \in Links(policy)
    BY <2>1, <2>4 DEF NoOthers
  <2>7. QED
    BY <1>6, <2>3, <2>4, <2>5, <2>6 DEF Arrived, n
<1>7. ASSUME t.reason = "update" PROVE Rest
  <2> DEFINE n == t.node
             old == t.old
             u == UpdateNode(policy, weight, n, old)
             c == CountUpdated(u, weight, n)
  <2>1. n \in born /\ n \notin Links(policy) /\ Introduces(t, n) /\ old \in born /\ old \in Nodes
    BY <1>3, <1>7 DEF TaskSound, Introduces, Removes
  <2>2. RunUpdate(n, old, t.cause)
    BY <1>1, <1>7 DEF RunTask
  <2>3. policy' \in {c, Refresh(c, weight, n)} /\ told' = [told EXCEPT ![old] = Append(@, t.cause)]
    BY <2>2 DEF RunUpdate
  <2>4. /\ PolicySound(born, policy') /\ NoOthers(policy, n, policy') /\ Dies(policy, weight, old, u)
        /\ policy'.dead = u.dead /\ policy'.weighted = Plus(u.weighted, weight[n])
        /\ policy'.limit = u.limit
    <3> HIDE DEF c, u, n, old
    <3>1. c = CountUpdated(u, weight, n) /\ u = UpdateNode(policy, weight, n, old)
      BY DEF c, u
    <3>2. QED
      BY <1>4, <2>1, <2>3, <3>1, UpdateSound
  <2>5. \A x \in Nodes : told'[x] = IF Removes(t, x) THEN Append(told[x], t.cause) ELSE told[x]
    BY <1>4, <1>7, <2>1, <2>3 DEF Removes
  <2> HIDE DEF u
  <2>6. \A x \in Links(policy') : Introduces(t, x) \/ x \in Links(policy)
    BY <2>1, <2>4 DEF NoOthers
  <2>7. QED
    BY <1>7, <2>4, <2>5, <2>6 DEF Arrived
<1>8. ASSUME t.reason = "delete" PROVE Rest
  <2> DEFINE n == t.node
  <2>1. n \in born /\ n \in Nodes
    BY <1>3, <1>8 DEF TaskSound, Removes
  <2>2. RunDelete(n, t.cause)
    BY <1>1, <1>8 DEF RunTask
  <2>3. policy' = Delete(policy, weight, n) /\ told' = [told EXCEPT ![n] = Append(@, t.cause)]
    BY <2>2 DEF RunDelete
  <2>4. \A x \in Nodes : told'[x] = IF Removes(t, x) THEN Append(told[x], t.cause) ELSE told[x]
    BY <1>4, <1>8, <2>1, <2>3 DEF Removes
  <2> HIDE DEF n
  <2>5. PolicySound(born, policy') /\ Dies(policy, weight, n, policy') /\ Links(policy') = Links(policy) \ {n}
    BY <1>4, <2>1, <2>3, DeleteSound
  <2>6. QED
    BY <1>8, <2>4, <2>5 DEF n
<1>9. Rest
  BY <1>5, <1>6, <1>7, <1>8
<1>10. QED
  BY <1>1, <1>5, <1>9 DEF RunBy, t

\* Node n is taken out of the policy, and out of the map if it is in there.
OutBy(n, cause) ==
    /\ n \in born
    /\ InMap(n) =>
         /\ \A j \in Keys : map'[j] = IF j = keyOf[n] THEN NoNode ELSE map[j]
         /\ retired' = retired \cup ({n} \cap Alive)
         /\ \A x \in Nodes : gone'[x] = IF x = n THEN cause ELSE gone[x]
         /\ \A x \in Nodes : told'[x] = IF x = n THEN Append(told[x], cause) ELSE told[x]
         /\ Dies(policy, weight, n, policy')
    /\ ~InMap(n) =>
         /\ UNCHANGED <<map, retired, gone, told>>
         /\ Dies(policy, weight, n, policy') \/ policy' = policy
    /\ PolicySound(born, policy')
    /\ \A x \in Links(policy') : x \in Links(policy)
    /\ UNCHANGED <<born, keyOf, weight, writeBuffer, pending>>

\* What evictNode changes, whether the policy or the snapshot of InvalidateAll chose the node.
LEMMA OutDoes ==
    ASSUME Inv
    PROVE  /\ EvictNode => OutBy(cursor.evict, "overflow")
           /\ DeleteNode => \E n \in snapshot : OutBy(n, "invalidation")
<1>1. /\ PolicySound(born, policy) /\ Weighs(weight) /\ born \subseteq Nodes
      /\ map \in [Keys -> Nodes \cup {NoNode}]
      /\ gone \in [Nodes -> Causes] /\ told \in [Nodes -> {<<>>} \cup {<<c>> : c \in Causes}]
  BY InvFacts DEF Inv, Typed
<1>2. ASSUME NEW n \in born, NEW cause \in Causes, RemoveFromMap(n, cause),
             \/ policy' = Delete(policy, weight, n)
             \/ map[keyOf[n]] # n /\ policy' = policy,
             UNCHANGED <<born, keyOf, weight, writeBuffer, pending>>
      PROVE  OutBy(n, cause)
  <2>1. /\ InMap(n) =>
             /\ \A j \in Keys : map'[j] = IF j = keyOf[n] THEN NoNode ELSE map[j]
             /\ retired' = retired \cup ({n} \cap Alive)
             /\ \A x \in Nodes : gone'[x] = IF x = n THEN cause ELSE gone[x]
             /\ \A x \in Nodes : told'[x] = IF x = n THEN Append(told[x], cause) ELSE told[x]
        /\ ~InMap(n) => UNCHANGED <<map, retired, gone, told>>
    BY <1>1, <1>2 DEF RemoveFromMap, InMap
  <2>2. CASE policy' = Delete(policy, weight, n)
    <3>1. PolicySound(born, policy') /\ Dies(policy, weight, n, policy') /\ Links(policy') = Links(policy) \ {n}
      BY <1>1, <2>2, DeleteSound
    <3>2. QED
      BY <1>2, <2>1, <3>1 DEF OutBy
  <2>3. CASE map[keyOf[n]] # n /\ policy' = policy
    BY <1>1, <1>2, <2>1, <2>3 DEF OutBy, InMap
  <2>4. QED
    BY <1>2, <2>2, <2>3
<1>3. ASSUME EvictNode PROVE OutBy(cursor.evict, "overflow")
  <2>1. cursor.evict \in born
    BY <1>3 DEF EvictNode, Inv, Typed, Cursors
  <2>2. QED
    BY <1>2, <1>3, <2>1 DEF EvictNode, Causes
<1>4. ASSUME DeleteNode PROVE \E n \in snapshot : OutBy(n, "invalidation")
  <2>1. PICK n \in snapshot : /\ RemoveFromMap(n, "invalidation")
                              /\ policy' = IF map[keyOf[n]] = n THEN Delete(policy, weight, n) ELSE policy
    BY <1>4 DEF DeleteNode
  <2>2. n \in born /\ UNCHANGED <<born, keyOf, weight, writeBuffer, pending>>
    BY <1>4 DEF DeleteNode, Inv, Typed
  <2>3. QED
    BY <1>2, <2>1, <2>2 DEF Causes
<1>5. QED
  BY <1>3, <1>4

--------------------------------------------------------------------------------
(* The balance of the total weight *)

\* The total weight of policy p when the nodes A have been announced.
Balance(p, w, A) == p.weighted = (Sum(w, A) - Sum(w, p.dead)) % Word

\* The weights of any set of nodes have a sum.
LEMMA SumOfNodes ==
    ASSUME NEW w, Weighs(w), NEW S, S \subseteq Nodes
    PROVE  IsFiniteSet(S) /\ Sum(w, S) \in Nat /\ \A n \in S : w[n] \in Nat
<1>1. IsFiniteSet(S)
  BY PolicyAssumption, FS_Subset
<1>2. \A n \in S : w[n] \in Nat
  BY DEF Weighs
<1>3. QED
  BY <1>1, <1>2, SumType

\* A node that arrives is added.
LEMMA BalanceIn ==
    ASSUME NEW p, NEW w, Weighs(w), NEW A, Balance(p, w, A), A \subseteq Nodes,
           p.dead \subseteq Nodes, NEW n \in Nodes, n \notin A,
           NEW r, r.dead = p.dead, r.weighted = Plus(p.weighted, w[n])
    PROVE  Balance(r, w, A \cup {n})
<1> DEFINE a == Sum(w, A)
           d == Sum(w, p.dead)
<1>1. a \in Nat /\ d \in Nat /\ w[n] \in Nat /\ Sum(w, A \cup {n}) = a + w[n]
  <2>1. IsFiniteSet(A) /\ a \in Nat /\ d \in Nat /\ \A x \in A \cup {n} : w[x] \in Nat
    BY SumOfNodes
  <2>2. QED
    BY <2>1, SumAdd
<1>2. p.weighted = (a - d) % Word
  BY DEF Balance
<1> HIDE DEF a, d
<1>3. a - d \in Int /\ w[n] \in Int
  BY <1>1
<1>4. r.weighted = (a - d + w[n]) % Word
  <2> DEFINE x == a - d
             y == w[n]
  <2>1. x \in Int /\ y \in Int /\ r.weighted = ((x % Word) + y) % Word
    BY <1>2, <1>3 DEF Plus
  <2> HIDE DEF x, y
  <2>2. ((x % Word) + y) % Word = (x + y) % Word
    BY <2>1, WordArithmetic, Zenon
  <2>3. r.weighted = (x + y) % Word
    BY <2>1, <2>2
  <2>4. QED
    BY <2>3 DEF x, y
<1>5. a - d + w[n] = a + w[n] - d
  BY <1>1
<1>6. QED
  BY <1>1, <1>4, <1>5 DEF Balance, a, d

\* A node that dies is taken off, once.
LEMMA BalanceOut ==
    ASSUME NEW p, NEW w, Weighs(w), NEW A, Balance(p, w, A), A \subseteq Nodes,
           p.dead \subseteq Nodes, NEW n \in Nodes, NEW r, Dies(p, w, n, r)
    PROVE  Balance(r, w, A)
<1> DEFINE a == Sum(w, A)
           d == Sum(w, p.dead)
<1>1. CASE n \in p.dead
  <2>1. r.dead = p.dead /\ r.weighted = p.weighted
    BY <1>1 DEF Dies
  <2>2. QED
    BY <2>1 DEF Balance
<1>2. CASE n \notin p.dead
  <2>1. a \in Nat /\ d \in Nat /\ w[n] \in Nat /\ Sum(w, p.dead \cup {n}) = d + w[n]
    <3>1. IsFiniteSet(p.dead) /\ a \in Nat /\ d \in Nat /\ \A x \in p.dead \cup {n} : w[x] \in Nat
      BY SumOfNodes
    <3>2. QED
      BY <1>2, <3>1, SumAdd
  <2>2. p.weighted = (a - d) % Word /\ r.weighted = Minus(p.weighted, w[n]) /\ r.dead = p.dead \cup {n}
    BY <1>2 DEF Balance, Dies
  <2> HIDE DEF a, d
  <2>3. a - d \in Int /\ w[n] \in Int
    BY <2>1
  <2>4. r.weighted = (a - d - w[n]) % Word
    <3> DEFINE x == a - d
               y == w[n]
    <3>1. x \in Int /\ y \in Int /\ r.weighted = Minus(x % Word, y)
      BY <2>2, <2>3
    <3> HIDE DEF x, y
    <3>2. Minus(x % Word, y) = (x - y) % Word
      BY <3>1, WordArithmetic, Zenon
    <3>3. r.weighted = (x - y) % Word
      BY <3>1, <3>2
    <3>4. QED
      BY <3>3 DEF x, y
  <2>5. a - d - w[n] = a - (d + w[n])
    BY <2>1
  <2>6. QED
    BY <2>1, <2>2, <2>4, <2>5 DEF Balance, a
<1>3. QED
  BY <1>1, <1>2

\* Only the weights of the nodes that count matter.
LEMMA BalanceSame ==
    ASSUME NEW p, NEW w, NEW A, Balance(p, w, A), A \subseteq Nodes, p.dead \subseteq Nodes,
           NEW v, \A n \in A \cup p.dead : v[n] = w[n],
           NEW r, r.dead = p.dead, r.weighted = p.weighted
    PROVE  Balance(r, v, A)
<1>1. IsFiniteSet(A) /\ IsFiniteSet(p.dead)
  BY PolicyAssumption, FS_Subset
<1>2. Sum(v, A) = Sum(w, A) /\ Sum(v, p.dead) = Sum(w, p.dead)
  BY <1>1, SumSame
<1>3. QED
  BY <1>2 DEF Balance

\* The balance, with the policy and the announced nodes as arguments.
LEMMA BalancedNow == Balanced <=> Balance(policy, weight, Announced)
  BY DEF Balanced, Balance

\* The same of the next state.
LEMMA BalancedNext == Balanced' <=> Balance(policy', weight', Announced')
  BY DEF Balanced, Balance

--------------------------------------------------------------------------------
(* What every step keeps *)

\* A node is in the map if and only if it is alive.
LEMMA InMapIsAlive ==
    ASSUME Inv PROVE \A n \in born : InMap(n) <=> n \in Alive
<1>1. ASSUME NEW n \in born, InMap(n) PROVE n \in Alive
  <2>1. keyOf[n] \in Keys /\ map[keyOf[n]] = n /\ n # NoNode
    BY <1>1, InvFacts DEF Inv, Typed, InMap
  <2>2. QED
    BY <2>1 DEF Inv, MapHoldsTheAlive
<1>2. ASSUME NEW n \in born, n \in Alive PROVE InMap(n)
  BY <1>2 DEF Inv, MapHoldsTheAlive, InMap
<1>3. QED
  BY <1>1, <1>2

Held == MapHoldsTheAlive /\ TasksSound /\ TasksApart /\ AllAccounted /\ Balanced

\* A quiet step keeps the map, the tasks, the reports and the balance sound.
LEMMA QuietKeeps == Inv /\ Quiet => Held' /\ PolicySound(born', policy')
<1> SUFFICES ASSUME Inv, Quiet PROVE Held' /\ PolicySound(born', policy')
  OBVIOUS
<1>1. /\ UNCHANGED <<map, born, keyOf, weight, retired, gone, told, writeBuffer, pending>>
      /\ PolicySound(born, policy') /\ policy'.dead = policy.dead /\ policy'.weighted = policy.weighted
      /\ Links(policy') \subseteq Links(policy)
  BY DEF Quiet, mapVars, Moved, SameCount
<1>2. Tasks' = Tasks
  BY <1>1 DEF Tasks
<1>3. MapHoldsTheAlive'
  BY <1>1 DEF Inv, MapHoldsTheAlive, Alive
<1>4. \A n : InMap(n)' <=> InMap(n)
  BY <1>1 DEF InMap
<1>5. TasksSound'
  <2>1. ASSUME NEW t \in Tasks PROVE TaskSound(t)'
    <3>1. TaskSound(t)
      BY DEF Inv, TasksSound
    <3>2. QED
      BY <1>1, <3>1 DEF TaskSound, InMap
  <2>2. QED
    BY <1>2, <2>1 DEF TasksSound
<1>6. TasksApart'
  BY <1>1 DEF Inv, TasksApart
<1>7. AllAccounted'
  <2>1. ASSUME NEW n \in born PROVE Accounted(n)'
    <3>1. Accounted(n)
      BY DEF Inv, AllAccounted
    <3>2. QED
      BY <1>1, <1>2, <3>1 DEF Accounted, InMap, Leaving
  <2>2. QED
    BY <1>1, <2>1 DEF Inv, AllAccounted
<1>8. Balanced'
  <2>1. Announced' = Announced
    BY <1>1, <1>2 DEF Announced
  <2>2. QED
    BY <1>1, <2>1 DEF Inv, Balanced
<1>9. QED
  BY <1>1, <1>3, <1>5, <1>6, <1>7, <1>8 DEF Held

\* The nodes that are linked have been born.
LEMMA LinksAreBorn ==
    ASSUME NEW B, NEW p, PolicySound(B, p) PROVE \A n \in Links(p) : n \in B
<1>1. ASSUME NEW n \in Links(p) PROVE n \in B
  <2>1. PICK q \in Queues : n \in ToSet(p.deque[q])
    BY LinksOf
  <2>2. p.deque[q] \in Seq(B)
    BY DEF PolicySound, Policies
  <2>3. QED
    BY <2>1, <2>2 DEF ToSet
<1>2. QED
  BY <1>1

\* Set keeps them sound: the new node is announced by the task the client holds.
LEMMA SetKeeps ==
    ASSUME Inv, NEW c \in Clients, NEW k \in Keys, NEW w \in Weights, NEW n \in Nodes,
           SetBy(c, k, w, n)
    PROVE  Held' /\ PolicySound(born', policy')
<1>a. PICK old : old = map[k]
  OBVIOUS
<1>b. PICK t : t = SetTask(k, n)
  OBVIOUS
<1>1. /\ n \in Nodes /\ n \notin born /\ pending[c] = NoTask /\ born' = born \cup {n}
      /\ \A j \in Keys : map'[j] = IF j = k THEN n ELSE map[j]
      /\ \A x \in Nodes : keyOf'[x] = IF x = n THEN k ELSE keyOf[x]
      /\ \A x \in Nodes : weight'[x] = IF x = n THEN w ELSE weight[x]
      /\ retired' = retired \cup ({old} \cap Alive)
      /\ \A x \in Nodes : gone'[x] = IF x = old THEN "replacement" ELSE gone[x]
      /\ pending' = [pending EXCEPT ![c] = t]
      /\ policy' = policy /\ writeBuffer' = writeBuffer /\ told' = told
  BY <1>a, <1>b DEF SetBy
<1>2. /\ born \subseteq Nodes /\ NoNode \notin born /\ policy.dead \subseteq born /\ retired \subseteq born
      /\ \A x \in born : keyOf[x] \in Keys
      /\ PolicySound(born, policy) /\ \A x \in Links(policy) : x \in born
  BY InvFacts, LinksAreBorn DEF Inv, Typed
<1>3. old = NoNode \/ (old \in born /\ InMap(old) /\ keyOf[old] = k /\ old \in Alive)
  BY <1>a DEF Inv, MapHoldsTheAlive, InMap, Alive
<1>4. /\ t \in TaskSet /\ t.node = n /\ t.reason \in {"add", "update"}
      /\ t.reason = "update" => old # NoNode /\ t.old = old /\ t.cause = "replacement"
      /\ old # NoNode => t.reason = "update"
  BY <1>a, <1>b, <1>1, <1>2, <1>3 DEF SetTask, Task, TaskSet
<1>5. \A x : /\ Introduces(t, x) <=> x = n
             /\ Removes(t, x) <=> x = old /\ old # NoNode
  BY <1>4 DEF Introduces, Removes
<1>6. ASSUME NEW x \in born PROVE InMap(x)' <=> InMap(x) /\ x # old
  <2>1. x # n /\ x \in Nodes /\ keyOf'[x] = keyOf[x] /\ keyOf[x] \in Keys /\ x \in born'
    BY <1>1, <1>2
  <2>2. CASE keyOf[x] = k
    BY <1>a, <1>1, <2>1, <2>2 DEF InMap
  <2>3. CASE keyOf[x] # k
    BY <1>1, <1>2, <1>3, <2>1, <2>3 DEF InMap
  <2>4. QED
    BY <2>2, <2>3
<1>7. InMap(n)' /\ n # old
  <2>1. n \in born' /\ keyOf'[n] = k /\ map'[k] = n
    BY <1>1
  <2>2. n # old
    BY <1>1, <1>2, <1>3, PolicyAssumption
  <2>3. QED
    BY <2>1, <2>2 DEF InMap
<1>8. \A u \in Tasks : Apart(t, u)
  <2>1. ASSUME NEW u \in Tasks, NEW x \in Nodes
        PROVE  ~(Introduces(t, x) /\ Introduces(u, x)) /\ ~(Removes(t, x) /\ Removes(u, x))
    <3>1. TaskSound(u)
      BY DEF Inv, TasksSound
    <3>2. QED
      BY <1>1, <1>3, <1>5, <3>1 DEF TaskSound
  <2>2. QED
    BY <2>1 DEF Apart
<1>9. /\ TasksApart' /\ t \in Tasks'
      /\ \A u \in Tasks' : u \in Tasks \/ u = t
      /\ \A u \in Tasks : u \in Tasks' \/ u = NoTask
  BY <1>1, <1>4, <1>8, TaskCreated
<1>10. \A x : ~Introduces(NoTask, x) /\ ~Removes(NoTask, x)
  BY DEF NoTask, Introduces, Removes
<1>11. MapHoldsTheAlive'
  <2>1. Alive' = (Alive \ {old}) \cup {n}
    BY <1>1, <1>2 DEF Alive
  <2>2. ASSUME NEW j \in Keys, map'[j] # NoNode
        PROVE  map'[j] \in Alive' /\ keyOf'[map'[j]] = j
    <3>1. CASE j = k
      BY <1>1, <2>1, <3>1
    <3>2. CASE j # k
      <4>1. map'[j] = map[j] /\ map[j] \in Alive /\ keyOf[map[j]] = j
        BY <1>1, <2>2, <3>2 DEF Inv, MapHoldsTheAlive
      <4>2. map[j] # old /\ map[j] # n /\ map[j] \in Nodes
        BY <1>1, <1>2, <1>3, <3>2, <4>1 DEF Alive
      <4>3. QED
        BY <1>1, <2>1, <4>1, <4>2
    <3>3. QED
      BY <3>1, <3>2
  <2>3. ASSUME NEW x \in Alive' PROVE map'[keyOf'[x]] = x
    <3>1. CASE x = n
      BY <1>7, <3>1 DEF InMap
    <3>2. CASE x # n
      <4>1. x \in Alive /\ x # old /\ x \in born
        BY <2>1, <3>2 DEF Alive
      <4>2. InMap(x)'
        BY <1>6, <4>1, InMapIsAlive
      <4>3. QED
        BY <4>2 DEF InMap
    <3>3. QED
      BY <3>1, <3>2
  <2>4. QED
    BY <2>2, <2>3 DEF MapHoldsTheAlive
<1>12. TasksSound'
  <2>1. ASSUME NEW u \in Tasks PROVE TaskSound(u)'
    <3>1. TaskSound(u)
      BY DEF Inv, TasksSound
    <3>2. ASSUME NEW x \in Nodes, Removes(u, x)
          PROVE  x \in born' /\ ~InMap(x)' /\ gone'[x] = u.cause /\ told'[x] = <<>>
      <4>1. x \in born /\ ~InMap(x) /\ gone[x] = u.cause /\ told[x] = <<>>
        BY <3>1, <3>2 DEF TaskSound
      <4>2. x # old
        BY <1>2, <1>3, <4>1
      <4>3. QED
        BY <1>1, <1>6, <4>1, <4>2
    <3>3. ASSUME NEW x \in Nodes, Introduces(u, x)
          PROVE  x \in born' /\ x \notin Links(policy)'
      BY <1>1, <3>1, <3>3 DEF TaskSound
    <3>4. QED
      BY <3>1, <3>2, <3>3 DEF TaskSound
  <2>2. TaskSound(t)'
    <3>1. ASSUME old # NoNode
          PROVE  old \in born' /\ ~InMap(old)' /\ gone'[old] = t.cause /\ told'[old] = <<>> /\ old \in Nodes
      <4>1. old \in born /\ InMap(old) /\ old \in Nodes
        BY <1>2, <1>3, <3>1
      <4>2. told[old] = <<>>
        BY <4>1 DEF Inv, AllAccounted, Accounted
      <4>3. ~InMap(old)'
        BY <1>6, <4>1
      <4>4. old \in born' /\ gone'[old] = t.cause /\ told'[old] = <<>>
        BY <1>1, <1>4, <3>1, <4>1, <4>2
      <4>5. QED
        BY <4>1, <4>3, <4>4
    <3>2. n \in born' /\ n \notin Links(policy)'
      BY <1>1, <1>2
    <3>3. QED
      BY <1>1, <1>4, <1>5, <3>1, <3>2 DEF TaskSound
  <2>3. QED
    BY <1>9, <2>1, <2>2 DEF TasksSound
<1>13. AllAccounted'
  <2>1. ASSUME NEW x \in born PROVE Accounted(x)'
    <3>1. Accounted(x) /\ x \in Nodes /\ x # n
      BY <1>1, <1>2 DEF Inv, AllAccounted
    <3>2. CASE x = old
      <4>1. Leaving(x)' /\ ~InMap(x)' /\ gone'[x] = "replacement"
        BY <1>1, <1>2, <1>5, <1>6, <1>9, <3>1, <3>2 DEF Leaving
      <4>2. QED
        BY <4>1 DEF Accounted
    <3>3. CASE x # old
      <4>1. (InMap(x)' <=> InMap(x)) /\ gone'[x] = gone[x] /\ told'[x] = told[x]
        BY <1>1, <1>6, <3>1, <3>3
      <4>2. Leaving(x) => Leaving(x)'
        BY <1>9, <1>10 DEF Leaving
      <4>3. QED
        BY <1>1, <3>1, <4>1, <4>2 DEF Accounted
    <3>4. QED
      BY <3>2, <3>3
  <2>2. gone[n] = "none" /\ told[n] = <<>>
    BY <1>1 DEF Inv, AllAccounted
  <2>3. Accounted(n)'
    BY <1>1, <1>7, <2>2 DEF Accounted
  <2>4. ASSUME NEW x \in Nodes \ born' PROVE gone'[x] = "none" /\ told'[x] = <<>>
    <3>1. x \in Nodes \ born /\ x # old
      BY <1>1, <1>2, <1>3, PolicyAssumption
    <3>2. QED
      BY <1>1, <3>1 DEF Inv, AllAccounted
  <2>5. QED
    BY <1>1, <2>1, <2>3, <2>4 DEF AllAccounted
<1>14. Balanced'
  <2>1. ASSUME NEW x PROVE x \in Announced' <=> x \in Announced
    <3>1. x \in born => ((\E u \in Tasks' : Introduces(u, x)) <=> (\E u \in Tasks : Introduces(u, x)))
      BY <1>1, <1>5, <1>9, <1>10
    <3>2. ~(n \in Announced') /\ ~(n \in Announced)
      BY <1>1, <1>5, <1>9 DEF Announced
    <3>3. QED
      BY <1>1, <3>1, <3>2 DEF Announced
  <2>2. Announced' = Announced
    BY <2>1
  <2>3. Announced \subseteq Nodes /\ policy.dead \subseteq Nodes
    BY <1>2 DEF Announced
  <2>4. \A x \in Announced \cup policy.dead : weight'[x] = weight[x]
    BY <1>1, <1>2 DEF Announced
  <2>5. Balance(policy, weight, Announced)
    BY BalancedNow DEF Inv
  <2>6. Balance(policy, weight', Announced)
    BY <2>3, <2>4, <2>5, BalanceSame
  <2>7. QED
    BY <1>1, <2>2, <2>6, BalancedNext
<1>15. PolicySound(born', policy')
  BY <1>1, <1>2, MoreNodes
<1>16. QED
  BY <1>9, <1>11, <1>12, <1>13, <1>14, <1>15 DEF Held

\* Invalidate keeps them sound: the task the client holds will remove the node.
LEMMA InvalidateKeeps ==
    ASSUME Inv, NEW c \in Clients, NEW k \in Keys, InvalidateBy(c, k)
    PROVE  Held' /\ PolicySound(born', policy')
<1>a. PICK old : old = map[k]
  OBVIOUS
<1>b. PICK t : t = Task("delete", old, NoNode, "invalidation")
  OBVIOUS
<1>1. /\ old # NoNode /\ pending[c] = NoTask
      /\ \A j \in Keys : map'[j] = IF j = k THEN NoNode ELSE map[j]
      /\ retired' = retired \cup ({old} \cap Alive)
      /\ \A x \in Nodes : gone'[x] = IF x = old THEN "invalidation" ELSE gone[x]
      /\ pending' = [pending EXCEPT ![c] = t]
      /\ UNCHANGED <<born, keyOf, weight, policy, writeBuffer, told>>
  BY <1>a, <1>b DEF InvalidateBy
<1>2. /\ born \subseteq Nodes /\ NoNode \notin born /\ policy.dead \subseteq born
      /\ \A x \in born : keyOf[x] \in Keys
      /\ PolicySound(born, policy)
  BY InvFacts DEF Inv, Typed
<1>3. old \in born /\ InMap(old) /\ keyOf[old] = k /\ old \in Alive /\ old \in Nodes
  BY <1>a, <1>1, <1>2 DEF Inv, MapHoldsTheAlive, InMap, Alive
<1>4. /\ t \in TaskSet /\ t.node = old /\ t.reason = "delete" /\ t.cause = "invalidation"
  BY <1>b, <1>3 DEF Task, TaskSet
<1>5. \A x : ~Introduces(t, x) /\ (Removes(t, x) <=> x = old)
  BY <1>4 DEF Introduces, Removes
<1>6. ASSUME NEW x \in born PROVE InMap(x)' <=> InMap(x) /\ x # old
  <2>1. x \in Nodes /\ keyOf'[x] = keyOf[x] /\ keyOf[x] \in Keys /\ x \in born' /\ x # NoNode
    BY <1>1, <1>2
  <2>2. CASE keyOf[x] = k
    BY <1>a, <1>1, <2>1, <2>2 DEF InMap
  <2>3. CASE keyOf[x] # k
    BY <1>1, <1>3, <2>1, <2>3 DEF InMap
  <2>4. QED
    BY <2>2, <2>3
<1>7. \A u \in Tasks : Apart(t, u)
  <2>1. ASSUME NEW u \in Tasks, NEW x \in Nodes
        PROVE  ~(Introduces(t, x) /\ Introduces(u, x)) /\ ~(Removes(t, x) /\ Removes(u, x))
    <3>1. TaskSound(u)
      BY DEF Inv, TasksSound
    <3>2. QED
      BY <1>3, <1>5, <3>1 DEF TaskSound
  <2>2. QED
    BY <2>1 DEF Apart
<1>8. /\ TasksApart' /\ t \in Tasks'
      /\ \A u \in Tasks' : u \in Tasks \/ u = t
      /\ \A u \in Tasks : u \in Tasks' \/ u = NoTask
  BY <1>1, <1>4, <1>7, TaskCreated
<1>9. \A x : ~Introduces(NoTask, x) /\ ~Removes(NoTask, x)
  BY DEF NoTask, Introduces, Removes
<1>10. MapHoldsTheAlive'
  <2>1. Alive' = Alive \ {old}
    BY <1>1, <1>3 DEF Alive
  <2>2. ASSUME NEW j \in Keys, map'[j] # NoNode
        PROVE  map'[j] \in Alive' /\ keyOf'[map'[j]] = j
    <3>1. j # k /\ map'[j] = map[j] /\ map[j] \in Alive /\ keyOf[map[j]] = j
      BY <1>1, <2>2 DEF Inv, MapHoldsTheAlive
    <3>2. QED
      BY <1>1, <1>3, <2>1, <3>1
  <2>3. ASSUME NEW x \in Alive' PROVE map'[keyOf'[x]] = x
    <3>1. x \in Alive /\ x # old /\ x \in born
      BY <2>1 DEF Alive
    <3>2. InMap(x)'
      BY <1>6, <3>1, InMapIsAlive
    <3>3. QED
      BY <3>2 DEF InMap
  <2>4. QED
    BY <2>2, <2>3 DEF MapHoldsTheAlive
<1>11. TasksSound'
  <2>1. ASSUME NEW u \in Tasks PROVE TaskSound(u)'
    <3>1. TaskSound(u)
      BY DEF Inv, TasksSound
    <3>2. ASSUME NEW x \in Nodes, Removes(u, x)
          PROVE  x \in born' /\ ~InMap(x)' /\ gone'[x] = u.cause /\ told'[x] = <<>>
      <4>1. x \in born /\ ~InMap(x) /\ gone[x] = u.cause /\ told[x] = <<>>
        BY <3>1, <3>2 DEF TaskSound
      <4>2. QED
        BY <1>1, <1>3, <1>6, <4>1
    <3>3. QED
      BY <1>1, <3>1, <3>2 DEF TaskSound
  <2>2. TaskSound(t)'
    <3>1. told[old] = <<>>
      BY <1>3 DEF Inv, AllAccounted, Accounted
    <3>2. old \in born' /\ ~InMap(old)' /\ gone'[old] = t.cause /\ told'[old] = <<>>
      BY <1>1, <1>3, <1>4, <1>6, <3>1
    <3>3. QED
      BY <1>3, <1>4, <1>5, <3>2 DEF TaskSound
  <2>3. QED
    BY <1>8, <2>1, <2>2 DEF TasksSound
<1>12. AllAccounted'
  <2>1. ASSUME NEW x \in born PROVE Accounted(x)'
    <3>1. Accounted(x) /\ x \in Nodes
      BY <1>2 DEF Inv, AllAccounted
    <3>2. CASE x = old
      <4>1. Leaving(x)' /\ ~InMap(x)' /\ gone'[x] = "invalidation"
        BY <1>1, <1>5, <1>6, <1>8, <3>1, <3>2 DEF Leaving
      <4>2. QED
        BY <4>1 DEF Accounted
    <3>3. CASE x # old
      <4>1. (InMap(x)' <=> InMap(x)) /\ gone'[x] = gone[x] /\ told'[x] = told[x]
        BY <1>1, <1>6, <3>1, <3>3
      <4>2. Leaving(x) => Leaving(x)'
        BY <1>8, <1>9 DEF Leaving
      <4>3. QED
        BY <1>1, <3>1, <4>1, <4>2 DEF Accounted
    <3>4. QED
      BY <3>2, <3>3
  <2>2. ASSUME NEW x \in Nodes \ born' PROVE gone'[x] = "none" /\ told'[x] = <<>>
    BY <1>1, <1>3 DEF Inv, AllAccounted
  <2>3. QED
    BY <1>1, <2>1, <2>2 DEF AllAccounted
<1>13. Balanced'
  <2>1. ASSUME NEW x PROVE x \in Announced' <=> x \in Announced
    BY <1>1, <1>5, <1>8, <1>9 DEF Announced
  <2>2. Announced' = Announced
    BY <2>1
  <2>3. QED
    BY <1>1, <2>2, BalancedNow, BalancedNext DEF Inv
<1>14. QED
  BY <1>1, <1>2, <1>8, <1>10, <1>11, <1>12, <1>13 DEF Held

\* A push carries the task of the client into the write buffer and changes nothing else.
LEMMA PushKeeps ==
    ASSUME Inv, NEW c \in Clients, Push(c)
    PROVE  Held' /\ PolicySound(born', policy')
<1>1. UNCHANGED <<map, born, keyOf, weight, retired, policy, gone, told>>
  BY DEF Push
<1>2. /\ TasksApart' /\ \A u \in Tasks' : u \in Tasks \/ u = NoTask
      /\ \A u \in Tasks : u \in Tasks'
  BY TaskPushed
<1>3. \A x : ~Introduces(NoTask, x) /\ ~Removes(NoTask, x)
  BY DEF NoTask, Introduces, Removes
<1>4. TasksSound'
  <2>1. ASSUME NEW u, u \in Tasks \/ u = NoTask PROVE TaskSound(u)'
    <3>1. TaskSound(u)
      BY <1>3, <2>1 DEF Inv, TasksSound, TaskSound, NoTask
    <3>2. QED
      BY <1>1, <3>1 DEF TaskSound, InMap
  <2>2. QED
    BY <1>2, <2>1 DEF TasksSound
<1>5. AllAccounted'
  <2>1. ASSUME NEW x \in born PROVE Accounted(x)'
    <3>1. Accounted(x) /\ (Leaving(x) => Leaving(x)')
      BY <1>2 DEF Inv, AllAccounted, Leaving
    <3>2. QED
      BY <1>1, <3>1 DEF Accounted, InMap
  <2>2. QED
    BY <1>1, <2>1 DEF Inv, AllAccounted
<1>6. Balanced'
  <2>1. ASSUME NEW x PROVE x \in Announced' <=> x \in Announced
    BY <1>1, <1>2, <1>3 DEF Announced
  <2>2. Announced' = Announced
    BY <2>1
  <2>3. QED
    BY <1>1, <2>2, BalancedNow, BalancedNext DEF Inv
<1>7. MapHoldsTheAlive' /\ PolicySound(born', policy')
  BY <1>1 DEF Inv, MapHoldsTheAlive, Alive
<1>8. QED
  BY <1>2, <1>4, <1>5, <1>6, <1>7 DEF Held

\* runTask keeps them sound: what the task announced or removed is accounted by its run.
LEMMA RunKeeps ==
    ASSUME Inv, NEW t, RunBy(t)
    PROVE  Held' /\ PolicySound(born', policy')
<1>1. /\ t = Head(writeBuffer) /\ t.reason \in {"add", "update", "delete"}
      /\ writeBuffer # <<>> /\ writeBuffer' = Tail(writeBuffer)
      /\ PolicySound(born, policy')
      /\ \A x \in Links(policy') : Introduces(t, x) \/ x \in Links(policy)
      /\ \A x \in Nodes : told'[x] = IF Removes(t, x) THEN Append(told[x], t.cause) ELSE told[x]
      /\ UNCHANGED <<map, born, keyOf, weight, retired, gone, pending>>
  BY DEF RunBy
<1>2. /\ born \subseteq Nodes /\ NoNode \notin born /\ policy.dead \subseteq born /\ Weighs(weight)
  BY InvFacts
<1>3. /\ TasksApart' /\ t \in Tasks
      /\ \A u \in Tasks' : u \in Tasks /\ Apart(t, u)
      /\ \A u \in Tasks : u \in Tasks' \/ u = t
  BY <1>1, TaskPopped
<1>4. TaskSound(t)
  BY <1>3 DEF Inv, TasksSound
<1>5. /\ \A x : Removes(t, x) => x \in Nodes /\ x \in born /\ ~InMap(x) /\ gone[x] = t.cause /\ told[x] = <<>>
      /\ \A x : Introduces(t, x) => x \in Nodes /\ x \in born /\ x \notin Links(policy)
  BY <1>4 DEF TaskSound, Removes, Introduces
<1>6. \A x : InMap(x)' <=> InMap(x)
  BY <1>1 DEF InMap
<1>7. \A u \in Tasks', x \in Nodes : /\ ~(Introduces(t, x) /\ Introduces(u, x))
                                     /\ ~(Removes(t, x) /\ Removes(u, x))
  BY <1>3 DEF Apart
<1>8. Balance(policy, weight, Announced) /\ Announced \subseteq Nodes /\ policy.dead \subseteq Nodes
  BY <1>2, BalancedNow DEF Inv, Announced
<1>9. ASSUME NEW x PROVE x \in Announced' <=> x \in Announced \/ Introduces(t, x)
  BY <1>1, <1>3, <1>5, <1>7 DEF Announced
<1>10. \A x : Introduces(t, x) => x \notin Announced
  BY <1>3 DEF Announced
<1>11. /\ \A x : x \in policy'.dead <=> x \in policy.dead \/ Removes(t, x)
       /\ Balance(policy', weight, Announced')
  <2>1. CASE t.reason = "add"
    <3>1. Arrived(policy, policy', t.node) /\ Introduces(t, t.node) /\ \A x : ~Removes(t, x)
      BY <2>1 DEF RunBy, Introduces, Removes
    <3>2. Announced' = Announced \cup {t.node}
      BY <1>9, <2>1 DEF Introduces
    <3>3. Balance(policy', weight, Announced \cup {t.node})
      BY <1>2, <1>5, <1>8, <1>10, <3>1, BalanceIn DEF Arrived
    <3>4. QED
      BY <3>1, <3>2, <3>3 DEF Arrived
  <2>2. CASE t.reason = "update"
    <3>1. PICK u : Dies(policy, weight, t.old, u) /\ Arrived(u, policy', t.node)
      BY <2>2 DEF RunBy
    <3>2. Introduces(t, t.node) /\ Removes(t, t.old) /\ \A x : Removes(t, x) <=> x = t.old
      BY <2>2 DEF Introduces, Removes
    <3>3. Announced' = Announced \cup {t.node}
      BY <1>9, <2>2 DEF Introduces
    <3>4. Balance(u, weight, Announced) /\ u.dead = policy.dead \cup {t.old}
      BY <1>2, <1>5, <1>8, <3>1, <3>2, BalanceOut DEF Dies
    <3>5. policy'.dead = u.dead /\ policy'.weighted = Plus(u.weighted, weight[t.node]) /\ u.dead \subseteq Nodes
      BY <1>5, <1>8, <3>1, <3>2, <3>4 DEF Arrived
    <3>6. Balance(policy', weight, Announced \cup {t.node})
      BY <1>2, <1>5, <1>8, <1>10, <3>2, <3>4, <3>5, BalanceIn
    <3>7. QED
      BY <3>2, <3>3, <3>4, <3>5, <3>6
  <2>3. CASE t.reason = "delete"
    <3>1. Dies(policy, weight, t.node, policy') /\ \A x : Removes(t, x) <=> x = t.node
      BY <2>3 DEF RunBy, Removes
    <3>2. Announced' = Announced
      BY <1>9, <2>3 DEF Introduces
    <3>3. Balance(policy', weight, Announced)
      BY <1>2, <1>5, <1>8, <3>1, BalanceOut
    <3>4. QED
      BY <3>1, <3>2, <3>3 DEF Dies
  <2>4. QED
    BY <1>1, <2>1, <2>2, <2>3
<1>12. MapHoldsTheAlive'
  <2>1. ASSUME NEW x PROVE x \in Alive' <=> x \in Alive
    <3>1. Removes(t, x) => x \notin Alive
      BY <1>5, InMapIsAlive
    <3>2. QED
      BY <1>1, <1>11, <3>1 DEF Alive
  <2>2. Alive' = Alive
    BY <2>1
  <2>3. QED
    BY <1>1, <2>2 DEF Inv, MapHoldsTheAlive
<1>13. TasksSound'
  <2>1. ASSUME NEW u \in Tasks' PROVE TaskSound(u)'
    <3>1. TaskSound(u)
      BY <1>3 DEF Inv, TasksSound
    <3>2. ASSUME NEW x \in Nodes, Removes(u, x)
          PROVE  x \in born' /\ ~InMap(x)' /\ gone'[x] = u.cause /\ told'[x] = <<>>
      BY <1>1, <1>6, <1>7, <3>1, <3>2 DEF TaskSound
    <3>3. ASSUME NEW x \in Nodes, Introduces(u, x)
          PROVE  x \in born' /\ x \notin Links(policy)'
      BY <1>1, <1>7, <3>1, <3>3 DEF TaskSound
    <3>4. QED
      BY <3>1, <3>2, <3>3 DEF TaskSound
  <2>2. QED
    BY <2>1 DEF TasksSound
<1>14. AllAccounted'
  <2>1. ASSUME NEW x \in born PROVE Accounted(x)'
    <3>1. Accounted(x) /\ x \in Nodes
      BY <1>2 DEF Inv, AllAccounted
    <3>2. CASE Removes(t, x)
      <4>1. x \in policy'.dead /\ ~InMap(x)' /\ gone'[x] = t.cause
        BY <1>1, <1>5, <1>6, <1>11, <3>1, <3>2
      <4>2. gone'[x] # "none"
        BY <1>1, <1>5, <3>1, <3>2 DEF Accounted
      <4>3. told'[x] = Append(<<>>, t.cause)
        BY <1>1, <1>5, <3>1, <3>2
      <4>4. told'[x] = <<t.cause>>
        BY <4>3
      <4>5. QED
        BY <4>1, <4>2, <4>4 DEF Accounted
    <3>3. CASE ~Removes(t, x)
      <4>1. (InMap(x)' <=> InMap(x)) /\ gone'[x] = gone[x] /\ told'[x] = told[x]
        BY <1>1, <1>6, <3>1, <3>3
      <4>2. (Leaving(x) => Leaving(x)') /\ (x \in policy.dead => x \in policy'.dead)
        BY <1>3, <1>11, <3>3 DEF Leaving
      <4>3. QED
        BY <3>1, <4>1, <4>2 DEF Accounted
    <3>4. QED
      BY <3>2, <3>3
  <2>2. ASSUME NEW x \in Nodes \ born' PROVE gone'[x] = "none" /\ told'[x] = <<>>
    BY <1>1, <1>5 DEF Inv, AllAccounted
  <2>3. QED
    BY <1>1, <2>1, <2>2 DEF AllAccounted
<1>15. QED
  BY <1>1, <1>3, <1>11, <1>12, <1>13, <1>14, BalancedNext DEF Held

\* evictNode keeps them sound: a node that left the map before is left to its task.
LEMMA OutKeeps ==
    ASSUME Inv, NEW n, NEW cause \in Causes \ {"none"}, OutBy(n, cause)
    PROVE  Held' /\ PolicySound(born', policy')
<1>1. /\ n \in born
      /\ PolicySound(born, policy') /\ \A x \in Links(policy') : x \in Links(policy)
      /\ UNCHANGED <<born, keyOf, weight, writeBuffer, pending>>
      /\ Dies(policy, weight, n, policy') \/ (~InMap(n) /\ policy' = policy)
  BY DEF OutBy
<1>2. /\ born \subseteq Nodes /\ NoNode \notin born /\ policy.dead \subseteq born /\ Weighs(weight)
      /\ \A x \in born : keyOf[x] \in Keys
      /\ \A x \in born : InMap(x) <=> x \in Alive
  BY InvFacts, InMapIsAlive DEF Inv, Typed
<1>3. Tasks' = Tasks /\ TasksApart'
  BY <1>1 DEF Tasks, Inv, TasksApart
<1>4. ASSUME InMap(n)
      PROVE  /\ \A j \in Keys : map'[j] = IF j = keyOf[n] THEN NoNode ELSE map[j]
             /\ retired' = retired \cup ({n} \cap Alive)
             /\ \A x \in Nodes : gone'[x] = IF x = n THEN cause ELSE gone[x]
             /\ \A x \in Nodes : told'[x] = IF x = n THEN Append(told[x], cause) ELSE told[x]
             /\ policy'.dead = policy.dead \cup {n}
  BY <1>4 DEF OutBy, Dies
<1>5. ASSUME ~InMap(n)
      PROVE  /\ map' = map /\ retired' = retired /\ gone' = gone /\ told' = told
             /\ policy'.dead \in {policy.dead, policy.dead \cup {n}}
  BY <1>5 DEF OutBy, Dies
<1>6. ASSUME NEW x \in born PROVE InMap(x)' <=> InMap(x) /\ x # n
  <2>1. keyOf'[x] = keyOf[x] /\ keyOf[x] \in Keys /\ x \in born' /\ x # NoNode
    BY <1>1, <1>2
  <2>2. CASE ~InMap(n)
    BY <1>1, <1>5, <2>1, <2>2 DEF InMap
  <2>3. CASE InMap(n)
    BY <1>4, <2>1, <2>3 DEF InMap
  <2>4. QED
    BY <2>2, <2>3
<1>7. ASSUME NEW x PROVE x \in Alive' <=> x \in Alive /\ x # n
  <2>1. CASE InMap(n)
    BY <1>1, <1>4, <2>1 DEF Alive
  <2>2. CASE ~InMap(n)
    <3>1. n \notin Alive
      BY <1>1, <1>2, <2>2
    <3>2. QED
      BY <1>1, <1>5, <2>2, <3>1 DEF Alive
  <2>3. QED
    BY <2>1, <2>2
<1>8. MapHoldsTheAlive'
  <2>1. ASSUME NEW j \in Keys, map'[j] # NoNode
        PROVE  map'[j] \in Alive' /\ keyOf'[map'[j]] = j
    <3>1. map'[j] = map[j] /\ map[j] \in Alive /\ keyOf[map[j]] = j
      BY <1>4, <1>5, <2>1 DEF Inv, MapHoldsTheAlive
    <3>2. map[j] # n
      BY <1>1, <1>2, <1>4, <2>1, <3>1
    <3>3. QED
      BY <1>1, <1>7, <3>1, <3>2
  <2>2. ASSUME NEW x \in Alive' PROVE map'[keyOf'[x]] = x
    <3>1. x \in Alive /\ x # n /\ x \in born
      BY <1>7 DEF Alive
    <3>2. InMap(x)'
      BY <1>2, <1>6, <3>1
    <3>3. QED
      BY <3>2 DEF InMap
  <2>3. QED
    BY <2>1, <2>2 DEF MapHoldsTheAlive
<1>9. TasksSound'
  <2>1. ASSUME NEW u \in Tasks PROVE TaskSound(u)'
    <3>1. TaskSound(u)
      BY DEF Inv, TasksSound
    <3>2. ASSUME NEW x \in Nodes, Removes(u, x)
          PROVE  x \in born' /\ ~InMap(x)' /\ gone'[x] = u.cause /\ told'[x] = <<>>
      <4>1. x \in born /\ ~InMap(x) /\ gone[x] = u.cause /\ told[x] = <<>>
        BY <3>1, <3>2 DEF TaskSound
      <4>2. gone'[x] = gone[x] /\ told'[x] = told[x]
        BY <1>4, <1>5, <4>1
      <4>3. QED
        BY <1>1, <1>6, <4>1, <4>2
    <3>3. ASSUME NEW x \in Nodes, Introduces(u, x)
          PROVE  x \in born' /\ x \notin Links(policy)'
      BY <1>1, <3>1, <3>3 DEF TaskSound
    <3>4. QED
      BY <3>1, <3>2, <3>3 DEF TaskSound
  <2>2. QED
    BY <1>3, <2>1 DEF TasksSound
<1>10. AllAccounted'
  <2>1. ASSUME NEW x \in born PROVE Accounted(x)'
    <3>1. Accounted(x) /\ x \in Nodes
      BY <1>2 DEF Inv, AllAccounted
    <3>2. CASE x = n /\ InMap(n)
      <4>1. told[x] = <<>>
        BY <3>1, <3>2 DEF Accounted
      <4>2. gone'[x] = cause /\ x \in policy'.dead /\ ~InMap(x)'
        BY <1>4, <1>6, <3>1, <3>2
      <4>3. told'[x] = Append(<<>>, cause)
        BY <1>4, <3>1, <3>2, <4>1
      <4>4. told'[x] = <<cause>>
        BY <4>3
      <4>5. QED
        BY <4>2, <4>4 DEF Accounted
    <3>3. CASE ~(x = n /\ InMap(n))
      <4>1. (InMap(x)' <=> InMap(x)) /\ gone'[x] = gone[x] /\ told'[x] = told[x]
        BY <1>4, <1>5, <1>6, <3>1, <3>3
      <4>2. (Leaving(x) => Leaving(x)') /\ (x \in policy.dead => x \in policy'.dead)
        BY <1>3, <1>4, <1>5 DEF Leaving
      <4>3. QED
        BY <3>1, <4>1, <4>2 DEF Accounted
    <3>4. QED
      BY <3>2, <3>3
  <2>2. ASSUME NEW x \in Nodes \ born' PROVE gone'[x] = "none" /\ told'[x] = <<>>
    <3>1. x \in Nodes /\ x \notin born /\ x # n
      BY <1>1
    <3>2. gone'[x] = gone[x] /\ told'[x] = told[x]
      BY <1>4, <1>5, <3>1
    <3>3. QED
      BY <3>1, <3>2 DEF Inv, AllAccounted
  <2>3. QED
    BY <1>1, <2>1, <2>2 DEF AllAccounted
<1>11. Balanced'
  <2>1. Announced' = Announced
    BY <1>1, <1>3 DEF Announced
  <2>2. Balance(policy, weight, Announced) /\ Announced \subseteq Nodes /\ policy.dead \subseteq Nodes /\ n \in Nodes
    BY <1>1, <1>2, BalancedNow DEF Inv, Announced
  <2>3. Balance(policy', weight, Announced)
    BY <1>1, <1>2, <2>2, BalanceOut
  <2>4. QED
    BY <1>1, <2>1, <2>3, BalancedNext
<1>12. QED
  BY <1>1, <1>3, <1>8, <1>9, <1>10, <1>11 DEF Held

--------------------------------------------------------------------------------
(* The variables keep their types *)

\* What Typed says of the map, the nodes, and what the listeners are given.
EntriesTyped ==
    /\ map \in [Keys -> Nodes \cup {NoNode}]
    /\ keyOf \in [Nodes -> Keys \cup {NoNode}] /\ \A n \in born : keyOf[n] \in Keys
    /\ weight \in [Nodes -> Weights \cup {0}]
    /\ born \subseteq Nodes /\ retired \subseteq born
    /\ gone \in [Nodes -> Causes]

\* What it says of the variables of the maintenance, and of the maximum.
MaintenanceTyped ==
    /\ maximum \in Maximums /\ phase \in Phases
    /\ cursor \in Cursors(born) /\ snapshot \subseteq born

BuffersTyped ==
    readBuffer \in Seq(born) /\ writeBuffer \in Seq(TaskSet) /\ pending \in [Clients -> TaskSet]

ToldTyped == told \in [Nodes -> {<<>>} \cup {<<c>> : c \in Causes}]

\* Typed, in the parts that the steps touch together.
LEMMA TypedParts == Typed <=> EntriesTyped /\ MaintenanceTyped /\ BuffersTyped /\ ToldTyped
  BY DEF Typed, EntriesTyped, MaintenanceTyped, BuffersTyped, ToldTyped

\* The same of the next state.
LEMMA TypedPartsNext == Typed' <=> EntriesTyped' /\ MaintenanceTyped' /\ BuffersTyped' /\ ToldTyped'
  BY DEF Typed, EntriesTyped, MaintenanceTyped, BuffersTyped, ToldTyped

\* Sets of more nodes allow for more.
LEMMA MoreBorn ==
    ASSUME NEW B, NEW E, B \subseteq E
    PROVE  (\A s \in Seq(B) : s \in Seq(E)) /\ (\A k \in Cursors(B) : k \in Cursors(E))
  BY DEF Cursors

\* Set keeps the types of the variables.
LEMMA TypedSet ==
    ASSUME Inv, NEW c \in Clients, NEW k \in Keys, NEW w \in Weights, Set(c, k, w)
    PROVE  Typed'
<1> DEFINE n == CHOOSE x \in Nodes : x \notin born
<1>1. /\ EntriesTyped /\ MaintenanceTyped /\ BuffersTyped /\ ToldTyped
      /\ Alive \subseteq born
  BY TypedParts, InvFacts DEF Inv
<1>2. n \in Nodes /\ n \notin born
  BY <1>1 DEF Set, EntriesTyped
<1>3. /\ map' = [map EXCEPT ![k] = n]
      /\ retired' = retired \cup ({map[k]} \cap Alive)
      /\ gone' = IF map[k] = NoNode THEN gone ELSE [gone EXCEPT ![map[k]] = "replacement"]
      /\ pending' = [pending EXCEPT ![c] = SetTask(k, n)]
      /\ born' = born \cup {n}
      /\ keyOf' = [keyOf EXCEPT ![n] = k]
      /\ weight' = [weight EXCEPT ![n] = w]
      /\ UNCHANGED <<maximum, readBuffer, writeBuffer, phase, cursor, snapshot, told>>
  BY DEF Set, SetTask
<1> HIDE DEF n
<1>4. EntriesTyped'
  <2>1. map' \in [Keys -> Nodes \cup {NoNode}]
    BY <1>1, <1>2, <1>3 DEF EntriesTyped
  <2>2. keyOf' \in [Nodes -> Keys \cup {NoNode}] /\ \A x \in born' : keyOf'[x] \in Keys
    BY <1>1, <1>2, <1>3 DEF EntriesTyped
  <2>3. weight' \in [Nodes -> Weights \cup {0}]
    BY <1>1, <1>2, <1>3 DEF EntriesTyped
  <2>4. born' \subseteq Nodes /\ retired' \subseteq born'
    BY <1>1, <1>2, <1>3 DEF EntriesTyped
  <2>5. gone' \in [Nodes -> Causes]
    BY <1>1, <1>3 DEF EntriesTyped, Causes
  <2>6. QED
    BY <2>1, <2>2, <2>3, <2>4, <2>5 DEF EntriesTyped
<1>5. BuffersTyped' /\ MaintenanceTyped'
  <2>1. SetTask(k, n) \in TaskSet
    BY <1>1, <1>2 DEF SetTask, Task, TaskSet, EntriesTyped
  <2>2. pending' \in [Clients -> TaskSet]
    BY <1>1, <1>3, <2>1 DEF BuffersTyped
  <2>3. born \subseteq born'
    BY <1>3
  <2>4. readBuffer' \in Seq(born') /\ cursor' \in Cursors(born')
    BY <1>1, <1>3, <2>3, MoreBorn DEF BuffersTyped, MaintenanceTyped
  <2>5. QED
    BY <1>1, <1>3, <2>2, <2>3, <2>4 DEF BuffersTyped, MaintenanceTyped
<1>6. ToldTyped'
  BY <1>1, <1>3 DEF ToldTyped
<1>7. QED
  BY <1>4, <1>5, <1>6, TypedPartsNext

\* Invalidate keeps the types of the variables.
LEMMA TypedInvalidate ==
    ASSUME Inv, NEW c \in Clients, NEW k \in Keys, Invalidate(c, k)
    PROVE  Typed'
<1> DEFINE old == map[k]
           t == Task("delete", old, NoNode, "invalidation")
<1>1. /\ EntriesTyped /\ MaintenanceTyped /\ BuffersTyped /\ ToldTyped
      /\ Alive \subseteq born
  BY TypedParts, InvFacts DEF Inv
<1>2. old \in Nodes
  BY <1>1 DEF Invalidate, EntriesTyped
<1>3. /\ map' = [map EXCEPT ![k] = NoNode]
      /\ retired' = retired \cup ({old} \cap Alive)
      /\ gone' = [gone EXCEPT ![old] = "invalidation"]
      /\ pending' = [pending EXCEPT ![c] = t]
      /\ UNCHANGED <<born, keyOf, weight, maximum, readBuffer, writeBuffer, phase, cursor, snapshot, told>>
  BY DEF Invalidate
<1>4. t \in TaskSet
  BY <1>2 DEF Task, TaskSet
<1> HIDE DEF old, t
<1>5. EntriesTyped'
  BY <1>1, <1>2, <1>3 DEF EntriesTyped, Causes
<1>6. BuffersTyped' /\ MaintenanceTyped' /\ ToldTyped'
  BY <1>1, <1>3, <1>4 DEF BuffersTyped, MaintenanceTyped, ToldTyped
<1>7. QED
  BY <1>5, <1>6, TypedPartsNext

\* A push keeps the types of the variables.
LEMMA TypedPush == ASSUME Inv, NEW c \in Clients, Push(c) PROVE Typed'
<1>1. EntriesTyped /\ MaintenanceTyped /\ BuffersTyped /\ ToldTyped
  BY TypedParts DEF Inv
<1>2. UNCHANGED <<map, born, keyOf, weight, retired, maximum, readBuffer, phase, cursor, snapshot, gone, told>>
  BY DEF Push
<1>3. writeBuffer' \in Seq(TaskSet) /\ pending' \in [Clients -> TaskSet]
  BY TaskPushed
<1>4. EntriesTyped' /\ BuffersTyped' /\ MaintenanceTyped' /\ ToldTyped'
  BY <1>1, <1>2, <1>3 DEF EntriesTyped, BuffersTyped, MaintenanceTyped, ToldTyped
<1>5. QED
  BY <1>4, TypedPartsNext

\* A node that nobody has been told of is told of once.
LEMMA ToldOnceMore ==
    ASSUME ToldTyped, NEW n \in Nodes, told[n] = <<>>, NEW cause \in Causes,
           told' = [told EXCEPT ![n] = Append(@, cause)]
    PROVE  ToldTyped'
<1>1. told' = [told EXCEPT ![n] = <<cause>>]
  <2>1. Append(told[n], cause) = Append(<<>>, cause)
    OBVIOUS
  <2>2. Append(<<>>, cause) = <<cause>>
    OBVIOUS
  <2>3. QED
    BY <2>1, <2>2
<1>2. QED
  BY <1>1 DEF ToldTyped

\* runTask keeps the types of the variables.
LEMMA TypedRun == ASSUME Inv, DrainWriteBuffer PROVE Typed'
<1>a. PICK t : t = Head(writeBuffer)
  OBVIOUS
<1>1. EntriesTyped /\ MaintenanceTyped /\ BuffersTyped /\ ToldTyped
  BY TypedParts DEF Inv
<1>2. /\ RunTask(t) /\ writeBuffer # <<>> /\ writeBuffer' = Tail(writeBuffer)
      /\ UNCHANGED <<map, born, keyOf, weight, retired, maximum, readBuffer, pending, phase, snapshot, gone>>
  BY <1>a DEF DrainWriteBuffer
<1>3. writeBuffer' \in Seq(TaskSet) /\ t \in Tasks /\ t \in TaskSet
  BY <1>a, <1>2, TaskPopped
<1>4. TaskSound(t)
  BY <1>3 DEF Inv, TasksSound
<1>5. EntriesTyped' /\ BuffersTyped'
  BY <1>1, <1>2, <1>3 DEF EntriesTyped, BuffersTyped
<1>6. t.cause \in Causes
  BY <1>3 DEF TaskSet, Causes
<1>7. ASSUME NEW n \in born, cursor' = cursor \/ cursor' = [cursor EXCEPT !.evict = n]
      PROVE  MaintenanceTyped'
  <2>1. cursor' \in Cursors(born)
    BY <1>1, <1>7 DEF MaintenanceTyped, Cursors
  <2>2. QED
    BY <1>1, <1>2, <2>1 DEF MaintenanceTyped
<1>8. CASE t.reason = "add"
  <2>1. t.node \in born
    BY <1>4, <1>8 DEF TaskSound, Introduces
  <2>2. told' = told /\ (cursor' = cursor \/ cursor' = [cursor EXCEPT !.evict = t.node])
    BY <1>2, <1>8 DEF RunTask, RunAdd
  <2>3. ToldTyped'
    BY <1>1, <2>2 DEF ToldTyped
  <2>4. QED
    BY <1>5, <1>7, <2>1, <2>2, <2>3, TypedPartsNext
<1>9. CASE t.reason = "update"
  <2>1. t.node \in born /\ t.old \in Nodes /\ told[t.old] = <<>>
    BY <1>4, <1>9 DEF TaskSound, Introduces, Removes
  <2>2. /\ told' = [told EXCEPT ![t.old] = Append(@, t.cause)]
        /\ cursor' = cursor \/ cursor' = [cursor EXCEPT !.evict = t.node]
    BY <1>2, <1>9 DEF RunTask, RunUpdate
  <2>3. ToldTyped'
    BY <1>1, <1>6, <2>1, <2>2, ToldOnceMore
  <2>4. QED
    BY <1>5, <1>7, <2>1, <2>2, <2>3, TypedPartsNext
<1>10. CASE t.reason = "delete"
  <2>1. t.node \in born /\ t.node \in Nodes /\ told[t.node] = <<>>
    BY <1>4, <1>10 DEF TaskSound, Removes
  <2>2. told' = [told EXCEPT ![t.node] = Append(@, t.cause)] /\ cursor' = cursor
    BY <1>2, <1>10 DEF RunTask, RunDelete
  <2>3. ToldTyped'
    BY <1>1, <1>6, <2>1, <2>2, ToldOnceMore
  <2>4. QED
    BY <1>5, <1>7, <2>1, <2>2, <2>3, TypedPartsNext
<1>11. QED
  BY <1>2, <1>8, <1>9, <1>10 DEF RunTask

\* evictNode keeps the types of the variables.
LEMMA TypedOut == ASSUME Inv, EvictNode \/ DeleteNode PROVE Typed'
<1>1. EntriesTyped /\ MaintenanceTyped /\ BuffersTyped /\ ToldTyped
  BY TypedParts DEF Inv
<1>2. ASSUME NEW n \in born, NEW cause \in Causes, RemoveFromMap(n, cause),
             cursor' \in Cursors(born), snapshot' \subseteq snapshot,
             UNCHANGED <<born, keyOf, weight, maximum, readBuffer, writeBuffer, pending, phase>>
      PROVE  Typed'
  <2>1. n \in Nodes /\ keyOf[n] \in Keys /\ born \subseteq Nodes
    BY <1>1 DEF EntriesTyped
  <2>2. CASE map[keyOf[n]] = n
    <3>1. /\ map' = [map EXCEPT ![keyOf[n]] = NoNode]
          /\ retired' = retired \cup ({n} \cap Alive)
          /\ gone' = [gone EXCEPT ![n] = cause]
          /\ told' = [told EXCEPT ![n] = Append(@, cause)]
      BY <1>2, <2>2 DEF RemoveFromMap
    <3>2. told[n] = <<>>
      BY <2>2 DEF Inv, AllAccounted, Accounted, InMap
    <3>3. ToldTyped'
      BY <1>1, <2>1, <3>1, <3>2, ToldOnceMore
    <3>4. EntriesTyped'
      BY <1>1, <1>2, <2>1, <3>1 DEF EntriesTyped
    <3>5. MaintenanceTyped' /\ BuffersTyped'
      BY <1>1, <1>2 DEF MaintenanceTyped, BuffersTyped
    <3>6. QED
      BY <3>3, <3>4, <3>5, TypedPartsNext
  <2>3. CASE map[keyOf[n]] # n
    <3>1. UNCHANGED <<map, retired, gone, told>>
      BY <1>2, <2>3 DEF RemoveFromMap
    <3>2. EntriesTyped' /\ ToldTyped'
      BY <1>1, <1>2, <3>1 DEF EntriesTyped, ToldTyped
    <3>3. MaintenanceTyped' /\ BuffersTyped'
      BY <1>1, <1>2 DEF MaintenanceTyped, BuffersTyped
    <3>4. QED
      BY <3>2, <3>3, TypedPartsNext
  <2>4. QED
    BY <2>2, <2>3
<1>3. CASE EvictNode
  <2>1. cursor.evict \in born /\ cursor' \in Cursors(born)
    BY <1>1, <1>3 DEF EvictNode, MaintenanceTyped, Cursors
  <2>2. QED
    BY <1>2, <1>3, <2>1 DEF EvictNode, Causes
<1>4. CASE DeleteNode
  <2>1. PICK n \in snapshot : RemoveFromMap(n, "invalidation") /\ snapshot' = snapshot \ {n}
    BY <1>4 DEF DeleteNode
  <2>2. n \in born /\ cursor' \in Cursors(born)
    BY <1>1, <1>4 DEF DeleteNode, MaintenanceTyped
  <2>3. UNCHANGED <<born, keyOf, weight, maximum, readBuffer, writeBuffer, pending, phase>>
    BY <1>4 DEF DeleteNode
  <2>4. QED
    BY <1>2, <2>1, <2>2, <2>3 DEF Causes
<1>5. QED
  BY <1>3, <1>4

\* The quiet steps keep the types of the variables.
LEMMA TypedQuiet ==
    ASSUME Inv, Quiet,
           \/ \E k \in Keys : Read(k)
           \/ \E m \in Maximums : SetMaximum(m)
           \/ StartMaintenance \/ DrainReadBuffer \/ EvictWindow \/ EvictMain
           \/ EvictMainEnd \/ ClimbWindow \/ InvalidateAll \/ TakeSnapshot
           \/ EndInvalidateAll \/ UNCHANGED vars
    PROVE  Typed'
<1>1. /\ EntriesTyped /\ MaintenanceTyped /\ BuffersTyped /\ ToldTyped /\ PolicySound(born, policy)
      /\ UNCHANGED <<map, born, keyOf, weight, retired, gone, told, writeBuffer, pending>>
      /\ PolicySound(born, policy')
  BY TypedParts DEF Inv, Quiet, mapVars, Moved
<1>2. EntriesTyped' /\ ToldTyped'
  BY <1>1 DEF EntriesTyped, ToldTyped
<1>3. <<>> \in Seq(born) /\ \A n \in born : Append(readBuffer, n) \in Seq(born)
  BY <1>1 DEF BuffersTyped
<1>4. NoCursor \in Cursors(born)
  BY DEF NoCursor, Cursor, Cursors, Queues
<1>5. \A k \in Keys : map[k] # NoNode => map[k] \in born
  BY DEF Inv, MapHoldsTheAlive, Alive
<1>6. ASSUME readBuffer' \in Seq(born), maximum' \in Maximums, phase' \in Phases,
             cursor' \in Cursors(born), snapshot' \subseteq born
      PROVE  Typed'
  <2>1. BuffersTyped' /\ MaintenanceTyped'
    BY <1>1, <1>6 DEF BuffersTyped, MaintenanceTyped
  <2>2. QED
    BY <1>2, <2>1, TypedPartsNext
<1>7. /\ readBuffer \in Seq(born) /\ maximum \in Maximums /\ phase \in Phases
      /\ cursor \in Cursors(born) /\ snapshot \subseteq born
  BY <1>1 DEF BuffersTyped, MaintenanceTyped
<1>8. ASSUME NEW k \in Keys, Read(k) PROVE Typed'
  BY <1>3, <1>5, <1>6, <1>7, <1>8 DEF Read
<1>9. ASSUME NEW m \in Maximums, SetMaximum(m) PROVE Typed'
  BY <1>6, <1>7, <1>9 DEF SetMaximum, Phases
<1>10. CASE StartMaintenance \/ DrainReadBuffer \/ ClimbWindow \/ InvalidateAll
  BY <1>3, <1>6, <1>7, <1>10 DEF StartMaintenance, DrainReadBuffer, ClimbWindow, InvalidateAll, Phases
<1>11. CASE EvictWindow
  <2>1. FirstMoved(policy, weight) \in born \cup {NoNode}
    BY <1>1, FirstMovedKnown
  <2>2. cursor' = StartCursor(policy', FirstMoved(policy, weight))
    BY <1>11 DEF EvictWindow
  <2>3. cursor' \in Cursors(born)
    BY <1>1, <2>1, <2>2, StartCursorKnown
  <2>4. QED
    BY <1>6, <1>7, <1>11, <2>3 DEF EvictWindow, Phases
<1>12. CASE EvictMain
  <2>1. PICK lowest \in BOOLEAN : cursor' = Decide(policy, weight, Alive, maximum, cursor, lowest)
    BY <1>12 DEF EvictMain
  <2>2. cursor' \in Cursors(born)
    BY <1>1, <1>7, <2>1, DecideKnown
  <2>3. QED
    BY <1>6, <1>7, <1>12, <2>2 DEF EvictMain
<1>13. CASE EvictMainEnd
  BY <1>4, <1>6, <1>7, <1>13 DEF EvictMainEnd, Phases
<1>14. CASE TakeSnapshot
  BY <1>5, <1>6, <1>7, <1>14 DEF TakeSnapshot, Phases
<1>15. CASE EndInvalidateAll
  BY <1>6, <1>7, <1>15 DEF EndInvalidateAll, Phases
<1>16. CASE UNCHANGED vars
  BY <1>6, <1>7, <1>16 DEF vars
<1>17. QED
  BY <1>8, <1>9, <1>10, <1>11, <1>12, <1>13, <1>14, <1>15, <1>16

--------------------------------------------------------------------------------
(* The invariant *)

\* The invariant of the next state, with the conjuncts that the lemmas on the steps conclude.
LEMMA InvHeld == Inv' <=> Typed' /\ PolicySound(born', policy') /\ Held'
  BY DEF Inv, Held

\* The invariant holds of an empty cache.
LEMMA InvInit == Init => Inv
<1> SUFFICES ASSUME Init PROVE Inv
  OBVIOUS
<1>1. maximum \in Nat /\ policy = EmptyPolicy(maximum) /\ born = {}
  BY WriteBehindAssumption DEF Init
<1>2. PolicySound({}, policy) /\ policy.weighted = 0 /\ policy.dead = {} /\ \A n : n \notin Links(policy)
  BY <1>1, EmptyPolicySound
<1>3. Typed
  BY NoTaskTyped DEF Init, Typed, Phases, Causes, NoCursor, Cursor, Cursors, Queues
<1>4. MapHoldsTheAlive
  BY DEF Init, MapHoldsTheAlive, Alive
<1>5. \A t \in Tasks : t = NoTask
  BY <1>3, WhichTasks DEF Init
<1>6. TasksSound
  BY <1>5 DEF TasksSound, TaskSound, NoTask, Introduces, Removes
<1>7. TasksApart
  BY NoTaskApart DEF Init, TasksApart
<1>8. AllAccounted
  BY DEF Init, AllAccounted
<1>9. Balanced
  <2>1. Announced = {} /\ IsFiniteSet({})
    BY <1>1, FS_EmptySet DEF Announced
  <2>2. Sum(weight, {}) = 0
    BY <2>1, SumStep
  <2>3. 0 % Word = 0
    <3>1. 0 = Word * 0 + 0 /\ 0 \in 0..(Word - 1)
      BY PolicyAssumption
    <3>2. QED
      BY <3>1, RestUnique
  <2>4. QED
    BY <1>2, <2>1, <2>2, <2>3 DEF Balanced
<1>10. QED
  BY <1>1, <1>2, <1>3, <1>4, <1>6, <1>7, <1>8, <1>9 DEF Inv

\* Every step keeps the invariant.
LEMMA InvStep == Inv /\ [Next]_vars => Inv'
<1> SUFFICES ASSUME Inv, [Next]_vars PROVE Inv'
  OBVIOUS
<1>1. ASSUME Quiet,
             \/ \E k \in Keys : Read(k)
             \/ \E m \in Maximums : SetMaximum(m)
             \/ StartMaintenance \/ DrainReadBuffer \/ EvictWindow \/ EvictMain
             \/ EvictMainEnd \/ ClimbWindow \/ InvalidateAll \/ TakeSnapshot
             \/ EndInvalidateAll \/ UNCHANGED vars
      PROVE  Inv'
  BY <1>1, TypedQuiet, QuietKeeps, InvHeld
<1>2. ASSUME NEW c \in Clients, NEW k \in Keys, NEW w \in Weights, Set(c, k, w) PROVE Inv'
  <2>1. PICK n \in Nodes : SetBy(c, k, w, n)
    BY <1>2, SetDoes
  <2>2. QED
    BY <1>2, <2>1, TypedSet, SetKeeps, InvHeld
<1>3. ASSUME NEW c \in Clients, NEW k \in Keys, Invalidate(c, k) PROVE Inv'
  BY <1>3, InvalidateDoes, TypedInvalidate, InvalidateKeeps, InvHeld
<1>4. ASSUME NEW c \in Clients, Push(c) PROVE Inv'
  BY <1>4, TypedPush, PushKeeps, InvHeld
<1>5. ASSUME DrainWriteBuffer PROVE Inv'
  BY <1>5, RunDoes, TypedRun, RunKeeps, InvHeld
<1>6. ASSUME EvictNode PROVE Inv'
  <2>1. OutBy(cursor.evict, "overflow")
    BY <1>6, OutDoes
  <2>2. "overflow" \in Causes \ {"none"}
    BY DEF Causes
  <2>3. QED
    BY <1>6, <2>1, <2>2, TypedOut, OutKeeps, InvHeld
<1>7. ASSUME DeleteNode PROVE Inv'
  <2>1. PICK n \in snapshot : OutBy(n, "invalidation")
    BY <1>7, OutDoes
  <2>2. "invalidation" \in Causes \ {"none"}
    BY DEF Causes
  <2>3. QED
    BY <1>7, <2>1, <2>2, TypedOut, OutKeeps, InvHeld
<1>8. CASE \E k \in Keys : Read(k)
  BY <1>1, <1>8, QuietSteps
<1>9. CASE \E m \in Maximums : SetMaximum(m)
  BY <1>1, <1>9, QuietSteps
<1>10. CASE StartMaintenance \/ DrainReadBuffer \/ EvictWindow \/ EvictMain
  BY <1>1, <1>10, QuietSteps
<1>11. CASE EvictMainEnd \/ ClimbWindow \/ InvalidateAll \/ TakeSnapshot
  BY <1>1, <1>11, QuietSteps
<1>12. CASE EndInvalidateAll \/ UNCHANGED vars
  BY <1>1, <1>12, QuietSteps
<1>13. CASE Terminating
  BY <1>12, <1>13 DEF Terminating
<1>14. QED
  BY <1>2, <1>3, <1>4, <1>5, <1>6, <1>7, <1>8, <1>9, <1>10, <1>11, <1>12, <1>13
     DEF Next, ClientStep, MaintenanceStep

\* The invariant is one.
THEOREM InvHolds == Spec => []Inv
  BY InvInit, InvStep, PTL DEF Spec

--------------------------------------------------------------------------------
(* What follows from it *)

\* A node occurs once in a deque, the one that its queue type names.
LEMMA LinkedOnceOf == ASSUME Inv PROVE LinkedOnce
<1> SUFFICES ASSUME NEW n \in Nodes, NEW q \in Queues
             PROVE  Cardinality({i \in DOMAIN policy.deque[q] : policy.deque[q][i] = n})
                       <= (IF policy.queue[n] = q THEN 1 ELSE 0)
  BY DEF LinkedOnce
<1> DEFINE d == policy.deque[q]
           I == {i \in DOMAIN d : d[i] = n}
<1>1. d \in Seq(born) /\ Distinct(d) /\ \A x \in ToSet(d) : policy.queue[x] = q
  BY DEF Inv, PolicySound, Policies, DequesSound
<1>2. DOMAIN d = 1..Len(d)
  BY <1>1
<1>3. CASE I = {}
  <2>1. Cardinality(I) = 0
    BY <1>3, FS_EmptySet
  <2> HIDE DEF I
  <2>2. Cardinality(I) <= (IF policy.queue[n] = q THEN 1 ELSE 0)
    BY <2>1
  <2>3. QED
    BY <2>2 DEF I
<1>4. CASE I # {}
  <2>1. PICK i \in I : TRUE
    BY <1>4
  <2>2. I = {i}
    BY <1>1, <1>2, <2>1 DEF Distinct
  <2>3. n \in ToSet(d)
    BY <2>1 DEF ToSet
  <2>4. policy.queue[n] = q
    BY <1>1, <2>3
  <2> HIDE DEF I
  <2>5. Cardinality(I) = 1
    BY <2>2, FS_Singleton
  <2>6. Cardinality(I) <= (IF policy.queue[n] = q THEN 1 ELSE 0)
    BY <2>4, <2>5
  <2>7. QED
    BY <2>6 DEF I
<1>5. QED
  BY <1>3, <1>4

\* The invariant gives every variable the type that the runs check.
LEMMA TypeOKOf == ASSUME Inv PROVE TypeOK
<1>1. EntriesTyped /\ MaintenanceTyped /\ BuffersTyped /\ PolicySound(born, policy)
  BY TypedParts DEF Inv
<1>2. /\ ToSet(readBuffer) \subseteq born /\ ToSet(writeBuffer) \subseteq TaskSet
      /\ \A q \in Queues : ToSet(policy.deque[q]) \subseteq born
  <2>1. readBuffer \in Seq(born) /\ writeBuffer \in Seq(TaskSet) /\ \A q \in Queues : policy.deque[q] \in Seq(born)
    BY <1>1 DEF BuffersTyped, PolicySound, Policies
  <2>2. \A B : \A s \in Seq(B) : ToSet(s) \subseteq B
    BY DEF ToSet
  <2>3. QED
    BY <2>1, <2>2
<1>3. /\ policy.weighted \in 0..(Word - 1) /\ policy.dead \subseteq born
      /\ \A q \in {"window", "protected"} : policy.size[q] \in 0..(Word - 1)
  BY <1>1 DEF PolicySound, Policies, Words
<1>4. QED
  BY <1>1, <1>2, <1>3 DEF TypeOK, EntriesTyped, MaintenanceTyped, BuffersTyped

\* What the policy reads from a node, its state and its queue type, is the truth about the
\* map and the deques, for any number of clients, keys and nodes.
THEOREM PolicySeesTheTruth == Spec => []NodesSound
<1>1. Inv => NodesSound
  BY LinkedOnceOf, TypeOKOf DEF NodesSound, Inv
<1>2. QED
  BY <1>1, InvHolds, PTL

\* When all has settled, no task is on its way.
LEMMA NothingUnderWay ==
    ASSUME Inv, Settled PROVE \A n : ~Leaving(n) /\ \A t \in Tasks : ~Introduces(t, n)
<1>1. \A t \in Tasks : t = NoTask
  BY WhichTasks DEF Inv, Settled
<1>2. QED
  BY <1>1 DEF Leaving, NoTask, Introduces, Removes

\* The balance is the account of the total weight; with no task on its way, the nodes that
\* are announced and not dead are those of the map.
LEMMA WeightAccountedOf == ASSUME Inv PROVE WeightAccounted
<1> DEFINE A == born \ {t.node : t \in {x \in Tasks : x.reason \in {"add", "update"}}}
           M == {map[k] : k \in Keys} \ {NoNode}
           a == Sum(weight, A)
           d == Sum(weight, policy.dead)
<1>1. \A S : Weigh(S) = Sum(weight, S)
  BY DEF Weigh, Sum
<1>2. A = Announced
  BY DEF Announced, Introduces
<1>3. born \subseteq Nodes /\ policy.dead \subseteq born /\ Weighs(weight)
  BY InvFacts
<1>4. a \in Nat /\ d \in Nat
  BY <1>3, SumOfNodes
<1>5. policy.weighted = (a - d) % Word
  BY <1>2 DEF Inv, Balanced
<1>6. policy.weighted = Minus(a % Word, d % Word)
  <2> HIDE DEF a, d
  <2>1. QED
    BY <1>4, <1>5, WordArithmetic
<1>7. ASSUME Settled PROVE policy.weighted = Sum(weight, M) % Word
  <2>1. A = born
    BY <1>2, <1>7, NothingUnderWay DEF Announced
  <2>2. \A n : n \in M <=> n \in born /\ InMap(n)
    <3>1. ASSUME NEW n \in M PROVE n \in born /\ InMap(n)
      BY DEF Inv, MapHoldsTheAlive, Alive, InMap
    <3>2. ASSUME NEW n \in born, InMap(n) PROVE n \in M
      <4>1. keyOf[n] \in Keys /\ n # NoNode
        BY InvFacts DEF Inv, Typed
      <4>2. QED
        BY <3>2, <4>1 DEF InMap
    <3>3. QED
      BY <3>1, <3>2
  <2>3. \A n \in born : InMap(n) <=> n \notin policy.dead
    <3>1. ASSUME NEW n \in born, InMap(n) PROVE n \notin policy.dead
      BY <3>1, InMapIsAlive DEF Alive
    <3>2. ASSUME NEW n \in born, ~InMap(n) PROVE n \in policy.dead
      BY <1>7, <3>2, NothingUnderWay DEF Inv, AllAccounted, Accounted
    <3>3. QED
      BY <3>1, <3>2
  <2>4. M \cup policy.dead = born /\ M \cap policy.dead = {} /\ M \subseteq Nodes
    <3> HIDE DEF M
    <3>1. QED
      BY <1>3, <2>2, <2>3
  <2>5. a = Sum(weight, M) + d /\ Sum(weight, M) \in Nat
    <3> HIDE DEF M
    <3>1. IsFiniteSet(M) /\ IsFiniteSet(policy.dead) /\ \A n \in M \cup policy.dead : weight[n] \in Nat
      BY <1>3, <2>4, SumOfNodes
    <3>2. Sum(weight, M \cup policy.dead) = Sum(weight, M) + Sum(weight, policy.dead)
      BY <2>4, <3>1, SumUnion
    <3>3. Sum(weight, M) \in Nat
      BY <1>3, <2>4, SumOfNodes
    <3>4. QED
      BY <2>1, <2>4, <3>2, <3>3
  <2> HIDE DEF a, d, M
  <2>6. a - d = Sum(weight, M)
    BY <1>4, <2>5
  <2>7. QED
    BY <1>5, <2>6
<1>8. QED
  BY <1>1, <1>6, <1>7 DEF WeightAccounted

\* The total weight is off by the tasks on their way and by nothing else, whatever the order
\* in which they reach the policy, for any number of clients, keys and nodes.
THEOREM WeightIsAccounted == Spec => []WeightAccounted
  BY WeightAccountedOf, InvHolds, PTL

\* Every entry that has left the map is reported exactly once, with the right cause.
THEOREM EveryDeletionReported == Spec => []DeletionsReported
<1>1. Inv => DeletionsReported
  <2> SUFFICES ASSUME Inv, Settled, NEW n \in born
               PROVE  told[n] = IF n \in Alive THEN <<>> ELSE <<gone[n]>>
    BY DEF DeletionsReported
  <2>1. Accounted(n) /\ ~Leaving(n) /\ (InMap(n) <=> n \in Alive)
    BY NothingUnderWay, InMapIsAlive DEF Inv, AllAccounted
  <2>2. QED
    BY <2>1 DEF Accounted
<1>2. QED
  BY <1>1, InvHolds, PTL

--------------------------------------------------------------------------------
(* The refinement of EntryLifecycle *)

\* The stage of an entry is a matter of where its node is.
LEMMA StageOf ==
    ASSUME Inv, NEW n \in Nodes
    PROVE  /\ n \notin born => Stage(n) = "unborn"
           /\ n \in born /\ InMap(n) => Stage(n) = "present"
           /\ n \in born /\ ~InMap(n) /\ told[n] = <<>> => Stage(n) = "removed"
<1>1. n \in born => Accounted(n)
  BY DEF Inv, AllAccounted
<1>2. QED
  BY <1>1 DEF Stage, Accounted

\* Nothing happens to the entries.
LEMMA EntryStutters ==
    ASSUME UNCHANGED <<map, born, gone, told>> PROVE UNCHANGED Entry!lifecycleVars
<1>1. \A n \in Nodes : Stage(n)' = Stage(n)
  BY DEF Stage
<1>2. [n \in Nodes |-> Stage(n)]' = [n \in Nodes |-> Stage(n)]
  BY <1>1
<1>3. QED
  BY <1>2 DEF Entry!lifecycleVars

\* Set puts the new node in the place of the old one.
LEMMA EntryPut ==
    ASSUME Inv, Inv', NEW c \in Clients, NEW k \in Keys, NEW w \in Weights, NEW n \in Nodes,
           SetBy(c, k, w, n)
    PROVE  Entry!Put(k, n)
<1>1. /\ n \in Nodes /\ n \notin born /\ born' = born \cup {n}
      /\ \A j \in Keys : map'[j] = IF j = k THEN n ELSE map[j]
      /\ \A x \in Nodes : gone'[x] = IF x = map[k] THEN "replacement" ELSE gone[x]
      /\ told' = told
  BY DEF SetBy
<1>2. /\ map \in [Keys -> Nodes \cup {NoNode}] /\ map' \in [Keys -> Nodes \cup {NoNode}]
      /\ gone' \in [Nodes -> Causes] /\ born \subseteq Nodes
  BY DEF Inv, Typed
<1>3. map[k] \in Nodes => map[k] \in born /\ InMap(map[k])
  BY <1>2, PolicyAssumption DEF Inv, MapHoldsTheAlive, Alive, InMap
<1>4. map' = [map EXCEPT ![k] = n]
  BY <1>1, <1>2
<1>5. gone' = [x \in Nodes |-> IF x = map[k] THEN "replacement" ELSE gone[x]]
  BY <1>1, <1>2
<1>6. Stage(n) = "unborn" /\ Stage(n)' = "present"
  <2>1. gone[n] = "none" /\ n # map[k]
    BY <1>1, <1>3 DEF Inv, AllAccounted
  <2>2. QED
    BY <1>1, <2>1 DEF Stage
<1>7. ASSUME NEW x \in Nodes, x # n
      PROVE  Stage(x)' = IF x = map[k] THEN "removed" ELSE Stage(x)
  <2>1. CASE x = map[k]
    <3>1. x \in born /\ told[x] = <<>>
      BY <1>3, <2>1 DEF Inv, AllAccounted, Accounted
    <3>2. QED
      BY <1>1, <1>7, <2>1, <3>1 DEF Stage
  <2>2. CASE x # map[k]
    BY <1>1, <1>7, <2>2 DEF Stage
  <2>3. QED
    BY <2>1, <2>2
<1>8. [x \in Nodes |-> Stage(x)]' = [x \in Nodes |-> IF x = n THEN "present"
                                     ELSE IF x = map[k] THEN "removed" ELSE [y \in Nodes |-> Stage(y)][x]]
  BY <1>6, <1>7
<1>9. [y \in Nodes |-> Stage(y)][n] = "unborn"
  BY <1>6
<1>10. QED
  BY <1>4, <1>5, <1>8, <1>9 DEF Entry!Put

\* An entry leaves the map, and the listeners will be told, or have been.
LEMMA EntryRemoved ==
    ASSUME Inv, Inv', NEW k \in Keys, NEW n \in Nodes, map[k] = n,
           NEW why \in Causes \ {"none"}, NEW next \in {"removed", "told"}, UNCHANGED born,
           \A j \in Keys : map'[j] = IF j = k THEN NoNode ELSE map[j],
           \A x \in Nodes : gone'[x] = IF x = n THEN why ELSE gone[x],
           \A x \in Nodes : x # n => told'[x] = told[x],
           told'[n] = IF next = "removed" THEN <<>> ELSE <<why>>
    PROVE  Entry!Remove(k, why, next)
<1>1. /\ map \in [Keys -> Nodes \cup {NoNode}] /\ map' \in [Keys -> Nodes \cup {NoNode}]
      /\ gone \in [Nodes -> Causes] /\ gone' \in [Nodes -> Causes] /\ n # NoNode
  BY PolicyAssumption DEF Inv, Typed
<1>2. n \in born
  BY <1>1 DEF Inv, MapHoldsTheAlive, Alive
<1>3. map' = [map EXCEPT ![k] = NoNode]
  BY <1>1
<1>4. gone' = [gone EXCEPT ![n] = why]
  BY <1>1
<1>5. Stage(n)' = next
  <2>1. <<why>> # <<>>
    OBVIOUS
  <2>2. QED
    BY <1>2, <2>1 DEF Stage
<1>6. \A x \in Nodes : x # n => Stage(x)' = Stage(x)
  BY DEF Stage
<1>7. [x \in Nodes |-> Stage(x)]' = [[x \in Nodes |-> Stage(x)] EXCEPT ![n] = next]
  BY <1>5, <1>6
<1>8. QED
  BY <1>1, <1>3, <1>4, <1>7 DEF Entry!Remove

\* The listeners are told of an entry that has left the map.
LEMMA EntryTold ==
    ASSUME Inv, NEW n \in born, ~InMap(n), told[n] = <<>>, UNCHANGED <<map, born, gone>>,
           \A x \in Nodes : told'[x] = IF x = n THEN <<gone[n]>> ELSE told[x]
    PROVE  Entry!Tell(n)
<1>1. n \in Nodes /\ gone[n] # "none"
  BY InvFacts DEF Inv, AllAccounted, Accounted
<1>2. Stage(n) = "removed"
  BY <1>1, StageOf
<1>3. Stage(n)' = "told"
  <2>1. told'[n] = <<gone[n]>> /\ told'[n] # <<>>
    BY <1>1
  <2>2. QED
    BY <1>1, <2>1 DEF Stage
<1>4. \A x \in Nodes : x # n => Stage(x)' = Stage(x)
  BY DEF Stage
<1>5. [x \in Nodes |-> Stage(x)]' = [[x \in Nodes |-> Stage(x)] EXCEPT ![n] = "told"]
  BY <1>3, <1>4
<1>6. [x \in Nodes |-> Stage(x)][n] = "removed"
  BY <1>1, <1>2
<1>7. QED
  BY <1>1, <1>5, <1>6 DEF Entry!Tell

\* The initial states of the cache are initial states of EntryLifecycle.
LEMMA EntryInit == Init => Entry!Init
<1> SUFFICES ASSUME Init PROVE Entry!Init
  OBVIOUS
<1>1. \A n \in Nodes : Stage(n) = "unborn"
  BY DEF Init, Stage
<1>2. QED
  BY <1>1 DEF Init, Entry!Init

\* Every step of the cache is a step of EntryLifecycle or changes nothing that it sees.
LEMMA EntryStep == Inv /\ Inv' /\ [Next]_vars => [Entry!Next]_(Entry!lifecycleVars)
<1> SUFFICES ASSUME Inv, Inv', [Next]_vars PROVE Entry!Next \/ UNCHANGED Entry!lifecycleVars
  OBVIOUS
<1>a. /\ "replacement" \in Entry!Causes /\ "invalidation" \in Entry!Causes /\ "overflow" \in Entry!Causes
      /\ "invalidation" \in Causes \ {"none"} /\ "overflow" \in Causes \ {"none"}
  BY DEF Entry!Causes, Causes
<1>b. born \subseteq Nodes /\ \A x \in born : keyOf[x] \in Keys
  BY DEF Inv, Typed
<1>1. ASSUME NEW c \in Clients, NEW k \in Keys, NEW w \in Weights, Set(c, k, w) PROVE Entry!Next
  <2>1. PICK n \in Nodes : SetBy(c, k, w, n)
    BY <1>1, SetDoes
  <2>2. Entry!Put(k, n)
    BY <2>1, EntryPut
  <2>3. QED
    BY <2>2 DEF Entry!Next
<1>2. ASSUME NEW c \in Clients, NEW k \in Keys, Invalidate(c, k) PROVE Entry!Next
  <2>1. InvalidateBy(c, k)
    BY <1>2, InvalidateDoes
  <2>2. PICK n : n = map[k]
    OBVIOUS
  <2>3. n \in born /\ n \in Nodes /\ InMap(n)
    BY <1>b, <2>1, <2>2 DEF InvalidateBy, Inv, MapHoldsTheAlive, Alive, InMap
  <2>4. told[n] = <<>>
    BY <2>3 DEF Inv, AllAccounted, Accounted
  <2>5. Entry!Remove(k, "invalidation", "removed")
    BY <1>a, <2>1, <2>2, <2>3, <2>4, EntryRemoved DEF InvalidateBy
  <2>6. QED
    BY <1>a, <2>5 DEF Entry!Next
<1>3. ASSUME NEW n, NEW why \in {"invalidation", "overflow"}, OutBy(n, why)
      PROVE  Entry!Next \/ UNCHANGED Entry!lifecycleVars
  <2>1. CASE InMap(n)
    <3>1. n \in born /\ n \in Nodes /\ keyOf[n] \in Keys /\ map[keyOf[n]] = n
      BY <1>b, <1>3, <2>1 DEF OutBy, InMap
    <3>2. /\ \A j \in Keys : map'[j] = IF j = keyOf[n] THEN NoNode ELSE map[j]
          /\ \A x \in Nodes : gone'[x] = IF x = n THEN why ELSE gone[x]
          /\ \A x \in Nodes : told'[x] = IF x = n THEN Append(told[x], why) ELSE told[x]
          /\ UNCHANGED born
      BY <1>3, <2>1 DEF OutBy
    <3>3. told[n] = <<>>
      BY <2>1, <3>1 DEF Inv, AllAccounted, Accounted
    <3>4. told'[n] = <<why>>
      <4>1. told'[n] = Append(<<>>, why)
        BY <3>1, <3>2, <3>3
      <4>2. QED
        BY <4>1
    <3>5. Entry!Remove(keyOf[n], why, "told")
      <4>1. PICK k \in Keys : k = keyOf[n]
        BY <3>1
      <4>2. Entry!Remove(k, why, "told")
        BY <1>a, <3>1, <3>2, <3>4, <4>1, EntryRemoved
      <4>3. QED
        BY <4>1, <4>2
    <3>6. QED
      BY <1>a, <3>1, <3>5 DEF Entry!Next
  <2>2. CASE ~InMap(n)
    BY <1>3, <2>2, EntryStutters DEF OutBy
  <2>3. QED
    BY <2>1, <2>2
<1>4. ASSUME DrainWriteBuffer PROVE Entry!Next \/ UNCHANGED Entry!lifecycleVars
  <2>1. PICK t : t = Head(writeBuffer) /\ RunBy(t)
    BY <1>4, RunDoes
  <2>2. /\ UNCHANGED <<map, born, gone>>
        /\ \A x \in Nodes : told'[x] = IF Removes(t, x) THEN Append(told[x], t.cause) ELSE told[x]
    BY <2>1 DEF RunBy
  <2>3. TaskSound(t)
    BY <1>4, <2>1, TaskPopped DEF Inv, TasksSound, RunBy
  <2>4. ASSUME NEW n \in Nodes, Removes(t, n), \A x \in Nodes : Removes(t, x) => x = n
        PROVE  Entry!Next
    <3>1. n \in born /\ ~InMap(n) /\ gone[n] = t.cause /\ told[n] = <<>>
      BY <2>3, <2>4 DEF TaskSound
    <3>2. told'[n] = <<gone[n]>>
      <4>1. told'[n] = Append(<<>>, gone[n])
        BY <2>2, <2>4, <3>1
      <4>2. QED
        BY <4>1
    <3>3. \A x \in Nodes : told'[x] = IF x = n THEN <<gone[n]>> ELSE told[x]
      BY <2>2, <2>4, <3>2
    <3>4. Entry!Tell(n)
      BY <2>2, <3>1, <3>3, EntryTold
    <3>5. QED
      BY <3>4 DEF Entry!Next
  <2>5. ASSUME \A x \in Nodes : ~Removes(t, x) PROVE UNCHANGED Entry!lifecycleVars
    <3>1. told' = told
      <4>1. \A x \in Nodes : told'[x] = told[x]
        BY <2>2, <2>5
      <4>2. DOMAIN told' = Nodes /\ DOMAIN told = Nodes
        BY DEF Inv, Typed
      <4>3. told \in [Nodes -> {<<>>} \cup {<<c>> : c \in Causes}] /\ told' \in [Nodes -> {<<>>} \cup {<<c>> : c \in Causes}]
        BY DEF Inv, Typed
      <4>4. QED
        BY <4>1, <4>2, <4>3
    <3>2. QED
      BY <2>2, <3>1, EntryStutters
  <2>6. \A n, x : Removes(t, n) /\ Removes(t, x) => x = n
    BY DEF Removes
  <2>7. QED
    BY <2>4, <2>5, <2>6
<1>5. ASSUME Quiet PROVE UNCHANGED Entry!lifecycleVars
  BY <1>5, EntryStutters DEF Quiet, mapVars
<1>6. ASSUME NEW c \in Clients, Push(c) PROVE UNCHANGED Entry!lifecycleVars
  BY <1>6, EntryStutters DEF Push
<1>7. CASE EvictNode
  BY <1>3, <1>7, OutDoes
<1>8. CASE DeleteNode
  BY <1>3, <1>8, OutDoes
<1>9. CASE \E k \in Keys : Read(k)
  BY <1>5, <1>9, QuietSteps
<1>10. CASE \E m \in Maximums : SetMaximum(m)
  BY <1>5, <1>10, QuietSteps
<1>11. CASE \/ StartMaintenance \/ DrainReadBuffer \/ EvictWindow \/ EvictMain
            \/ EvictMainEnd \/ ClimbWindow \/ InvalidateAll \/ TakeSnapshot
            \/ EndInvalidateAll \/ UNCHANGED vars
  BY <1>5, <1>11, QuietSteps
<1>12. CASE Terminating
  BY <1>11, <1>12 DEF Terminating
<1>13. QED
  BY <1>1, <1>2, <1>4, <1>6, <1>7, <1>8, <1>9, <1>10, <1>11, <1>12
     DEF Next, ClientStep, MaintenanceStep

\* The cache keeps its promise about every entry: a key is bound to at most one, it leaves
\* the map once, for one cause, and OnDeletion is told of it once, with that cause.
THEOREM EntryLifecycleKept == Spec => EntryLifecycleHolds
<1>1. Spec => Entry!Spec
  BY EntryInit, EntryStep, InvHolds, PTL DEF Spec, Entry!Spec
<1>2. QED
  BY <1>1 DEF EntryLifecycleHolds

--------------------------------------------------------------------------------
(* The limits of the regions *)

\* A task and an eviction leave the limits alone.
LEMMA LimitsStay ==
    ASSUME Inv, DrainWriteBuffer \/ EvictNode \/ DeleteNode
    PROVE  policy'.limit = policy.limit /\ maximum' = maximum
<1>1. maximum' = maximum
  BY DEF DrainWriteBuffer, EvictNode, DeleteNode
<1>2. CASE DrainWriteBuffer
  <2>1. RunBy(Head(writeBuffer))
    BY <1>2, RunDoes
  <2>2. QED
    BY <1>1, <2>1 DEF RunBy, Arrived, Dies
<1>3. CASE EvictNode \/ DeleteNode
  <2>1. \E n, cause : OutBy(n, cause)
    BY <1>3, OutDoes
  <2>2. QED
    BY <1>1, <2>1 DEF OutBy, Dies
<1>4. QED
  BY <1>2, <1>3

\* Every step keeps the balance of the limits.
LEMMA BalanceStep ==
    ASSUME Inv, InBalance(policy, maximum), [Next]_vars
    PROVE  InBalance(policy, maximum)'
<1>1. CASE Quiet
  BY <1>1 DEF Quiet
<1>2. CASE ClientStep \/ \E c \in Clients : Push(c)
  <2>1. CASE \E k \in Keys : Read(k)
    BY <1>1, <2>1, QuietSteps
  <2>2. CASE ~\E k \in Keys : Read(k)
    <3>1. UNCHANGED <<policy, maximum>>
      BY <1>2, <2>2 DEF ClientStep, Set, Invalidate, Push
    <3>2. QED
      BY <3>1 DEF InBalance
  <2>3. QED
    BY <2>1, <2>2
<1>3. CASE DrainWriteBuffer \/ EvictNode \/ DeleteNode
  BY <1>3, LimitsStay DEF InBalance
<1>4. QED
  BY <1>1, <1>2, <1>3, QuietSteps DEF Next, MaintenanceStep, Terminating

\* The limits of the window and of the protected region add up to what the maximum gives them, and
\* neither is out of its range: whatever determineAdjustment asks for, climb takes from the
\* one region no more than it has, and gives back what it could not spend.
THEOREM LimitsAreBalanced == Spec => []LimitsBalance
<1>1. Init => InBalance(policy, maximum)
  <2> SUFFICES ASSUME Init PROVE InBalance(policy, maximum)
    OBVIOUS
  <2>1. maximum \in Nat \ {0} /\ policy = EmptyPolicy(maximum)
    BY WriteBehindAssumption DEF Init
  <2>2. policy.limit.window = WindowMaximum(maximum) /\ policy.limit.protected = ProtectedMaximum(maximum)
    BY <2>1 DEF EmptyPolicy, Limits
  <2>3. QED
    BY <2>1, <2>2, LimitsFit DEF InBalance
<1>2. InBalance(policy, maximum) => LimitsBalance
  BY DEF InBalance, LimitsBalance
<1>3. QED
  BY <1>1, <1>2, BalanceStep, InvHolds, PTL DEF Spec

--------------------------------------------------------------------------------
(* The books, when a node comes or goes *)

\* One node comes or goes among those that are counted, and the sizes follow.
LEMMA BooksChange ==
    ASSUME NEW w, Weighs(w), NEW n \in Nodes, NEW p, NEW C \in SUBSET Nodes, Books(p, w, C),
           NEW r, NEW D \in SUBSET Nodes, D \ {n} = C \ {n},
           \A x \in D : x # n => r.queue[x] = p.queue[x],
           \A q \in {"window", "protected"} :
               Recounts(p.size[q], r.size[q], w, n, n \in D /\ r.queue[n] = q, n \in C /\ p.queue[n] = q)
    PROVE  Books(r, w, D)
<1> SUFFICES ASSUME NEW q \in {"window", "protected"}
             PROVE  r.size[q] = Sum(w, Region(r, D, q)) % Word
  BY DEF Books
<1>1. /\ Region(p, C, q) \subseteq Nodes /\ Region(r, D, q) \subseteq Nodes
      /\ Region(r, D, q) \ {n} = Region(p, C, q) \ {n}
      /\ n \in Region(r, D, q) <=> n \in D /\ r.queue[n] = q
      /\ n \in Region(p, C, q) <=> n \in C /\ p.queue[n] = q
  BY DEF Region
<1>2. p.size[q] = Sum(w, Region(p, C, q)) % Word
  BY DEF Books
<1>3. Recounts(p.size[q], r.size[q], w, n, n \in Region(r, D, q), n \in Region(p, C, q))
  BY <1>1 DEF Recounts
<1>4. QED
  BY <1>1, <1>2, <1>3, BookOne

\* A node that dies is no longer counted.
LEMMA BooksOut ==
    ASSUME NEW w, Weighs(w), NEW n \in Nodes, NEW p, n \notin p.dead, NEW r, Dies(p, w, n, r),
           NEW C \in SUBSET Nodes, n \in C, Books(p, w, C), \A x \in C : x # n => r.queue[x] = p.queue[x]
    PROVE  Books(r, w, C \ {n})
<1>1. \A q \in {"window", "protected"} :
        Recounts(p.size[q], r.size[q], w, n, n \in C \ {n} /\ r.queue[n] = q, n \in C /\ p.queue[n] = q)
  BY DEF Dies, Recounts
<1>2. C \ {n} \in SUBSET Nodes /\ (C \ {n}) \ {n} = C \ {n}
  OBVIOUS
<1>3. QED
  BY <1>1, <1>2, BooksChange

\* A node that arrives is counted in its region.
LEMMA BooksIn ==
    ASSUME NEW w, Weighs(w), NEW B, NEW n \in Nodes, NEW p, NEW r, Arrives(B, p, w, n, p.queue[n], r),
           NEW C \in SUBSET Nodes, n \notin C, Books(p, w, C)
    PROVE  Books(r, w, C \cup {n})
<1>1. /\ r.queue = p.queue
      /\ \A q \in {"window", "protected"} :
           Recounts(p.size[q], r.size[q], w, n, n \in C \cup {n} /\ r.queue[n] = q, n \in C /\ p.queue[n] = q)
  BY DEF Arrives, Recounted, Recounts
<1>2. C \cup {n} \in SUBSET Nodes /\ (C \cup {n}) \ {n} = C \ {n}
  OBVIOUS
<1>3. QED
  BY <1>1, <1>2, BooksChange

\* The books of the same nodes with the same weights.
LEMMA BooksSame ==
    ASSUME NEW w, NEW v, NEW p, NEW C \in SUBSET Nodes, Books(p, w, C), \A n \in C : v[n] = w[n],
           NEW r, r.size = p.size, \A n \in C : r.queue[n] = p.queue[n]
    PROVE  Books(r, v, C)
<1> SUFFICES ASSUME NEW q \in {"window", "protected"}
             PROVE  r.size[q] = Sum(v, Region(r, C, q)) % Word
  BY DEF Books
<1>1. Region(r, C, q) = Region(p, C, q) /\ Region(p, C, q) \subseteq C
  BY DEF Region
<1>2. IsFiniteSet(Region(p, C, q))
  BY <1>1, PolicyAssumption, FS_Subset
<1>3. Sum(w, Region(p, C, q)) = Sum(v, Region(p, C, q))
  BY <1>1, <1>2, SumSame
<1>4. QED
  BY <1>1, <1>3 DEF Books

\* What an add makes of the books and the deques, when the node is alive.
LEMMA AddBooks ==
    ASSUME NEW B, NEW p, PolicySound(B, p), NEW n \in B, n \notin Links(p), p.queue[n] = "window",
           NEW w, Weighs(w), NEW C \in SUBSET Nodes, n \notin C, Books(p, w, C),
           NEW c, c = CountAdded(p, w, n),
           NEW r \in {c, PushBack(c, "window", n), PushFront(c, "window", n)}
    PROVE  /\ Books(r, w, C \cup {n})
           /\ r = c => Links(r) = Links(p)
           /\ r \in {PushBack(c, "window", n), PushFront(c, "window", n)} => Links(r) = Links(p) \cup {n}
           /\ \A x \in Nodes : r.queue[x] = p.queue[x]
<1>1. Arrives(B, p, w, n, p.queue[n], c) /\ n \in Nodes
  BY CountedSound DEF PolicySound
<1>2. PolicySound(B, c) /\ Links(c) = Links(p) /\ c.queue = p.queue
  BY <1>1 DEF Arrives, Recounted
<1>3. Books(c, w, C \cup {n})
  BY <1>1, BooksIn
<1>4. CASE r \notin {PushBack(c, "window", n), PushFront(c, "window", n)}
  BY <1>2, <1>3, <1>4
<1>5. CASE r \in {PushBack(c, "window", n), PushFront(c, "window", n)}
  <2>1. "window" \in Queues /\ n \notin Links(c)
    BY <1>2 DEF Queues
  <2>2. /\ Links(r) = Links(c) \cup {n} /\ r.size = c.size
        /\ \A x \in Nodes : r.queue[x] = IF x = n THEN "window" ELSE c.queue[x]
    BY <1>2, <1>5, <2>1, LinkSound
  <2>3. \A x \in Nodes : r.queue[x] = c.queue[x]
    BY <1>2, <2>2
  <2>4. C \cup {n} \in SUBSET Nodes
    BY <1>1
  <2>5. Books(r, w, C \cup {n})
    BY <1>3, <2>2, <2>3, <2>4, BooksSame
  <2>6. r # c
    BY <2>1, <2>2
  <2>7. QED
    BY <1>2, <2>2, <2>3, <2>5, <2>6
<1>6. QED
  BY <1>4, <1>5

\* What an update makes of them: the new node takes the place of the old one, and its region.
LEMMA UpdateBooks ==
    ASSUME NEW B, NEW p, PolicySound(B, p), NEW n \in B, n \notin Links(p), NEW old \in B,
           old \in Links(p), old \notin p.dead, NEW w, Weighs(w),
           NEW C \in SUBSET Nodes, Links(p) \subseteq C, n \notin C, Books(p, w, C),
           NEW c, c = CountUpdated(UpdateNode(p, w, n, old), w, n), NEW r \in {c, Refresh(c, w, n)}
    PROVE  /\ Books(r, w, (C \ {old}) \cup {n})
           /\ \A x : x \in Links(r) <=> x = n \/ (x # old /\ x \in Links(p))
           /\ \A x \in Nodes : x \notin Links(r) => r.queue[x] = p.queue[x]
<1> DEFINE u == UpdateNode(p, w, n, old)
           D == C \ {old}
<1>1. /\ PolicySound(B, u) /\ Dies(p, w, old, u)
      /\ \A x : x \in Links(u) <=> x = n \/ (x # old /\ x \in Links(p))
      /\ \A x \in Nodes : u.queue[x] = IF x = n THEN p.queue[old] ELSE p.queue[x]
  BY UpdateNodeSound
<1>2. n \in Nodes /\ old \in Nodes /\ D \in SUBSET Nodes /\ n \notin D /\ c = CountUpdated(u, w, n)
  BY DEF PolicySound
<1> HIDE DEF u
<1>3. Books(u, w, D)
  <2>1. old \in C /\ \A x \in C : x # old => u.queue[x] = p.queue[x]
    BY <1>1
  <2>2. QED
    BY <1>1, <1>2, <2>1, BooksOut
<1>4. Arrives(B, u, w, n, u.queue[n], c)
  BY <1>1, <1>2, CountedSound
<1>5. PolicySound(B, c) /\ Links(c) = Links(u) /\ c.queue = u.queue
  BY <1>4 DEF Arrives, Recounted
<1>6. Books(c, w, D \cup {n})
  BY <1>2, <1>3, <1>4, BooksIn
<1>7. Carried(B, c, w, r)
  BY <1>5, LeftAlone, RefreshSound
<1>8. Links(c) \subseteq D \cup {n} /\ D \cup {n} \in SUBSET Nodes
  BY <1>1, <1>2, <1>5
<1>9. Books(r, w, D \cup {n})
  BY <1>6, <1>7, <1>8 DEF Carried, Booked
<1>10. Links(r) = Links(u) /\ \A x \in Nodes : x \notin Links(c) => r.queue[x] = c.queue[x]
  BY <1>5, <1>7 DEF Carried, Moved
<1>11. QED
  BY <1>1, <1>5, <1>9, <1>10

\* What a removal makes of them.
LEMMA DeleteBooks ==
    ASSUME NEW B, NEW p, PolicySound(B, p), NEW n \in B, n \notin p.dead, NEW w, Weighs(w),
           NEW C \in SUBSET Nodes, n \in C, Books(p, w, C), NEW r, r = Delete(p, w, n)
    PROVE  /\ Books(r, w, C \ {n}) /\ Links(r) = Links(p) \ {n} /\ r.dead = p.dead \cup {n}
           /\ \A x \in Nodes : r.queue[x] = p.queue[x]
<1>1. Dies(p, w, n, r) /\ Links(r) = Links(p) \ {n} /\ r.queue = p.queue
  BY DeleteSound
<1>2. n \in Nodes
  BY DEF PolicySound
<1>3. Books(r, w, C \ {n})
  BY <1>1, <1>2, BooksOut
<1>4. QED
  BY <1>1, <1>3 DEF Dies

--------------------------------------------------------------------------------
(* One goroutine *)

\* One goroutine makes the calls, and the weights of all the nodes fit in a word.
OneGoroutine ==
    /\ Sequential /\ \E c : Clients = {c}
    /\ \A w \in [Nodes -> Weights \cup {0}] : Sum(w, Nodes) < Word

NoneUnderWay == \A t \in Tasks : t = NoTask

\* The nodes whose weight is in the sizes: the policy has been told of them, and they live.
Counted == Announced \ policy.dead

\* A call is made only when the task of the one before has been run, and an eviction in hand
\* is finished before anything else is done.
OneByOne ==
    /\ Len(writeBuffer) <= 1
    /\ \A c \in Clients : pending[c] # NoTask => writeBuffer = <<>> /\ phase = "idle"
    /\ phase \in {"main", "climb", "discardNodes"} => writeBuffer = <<>>
    /\ cursor.evict # NoNode => writeBuffer = <<>> /\ phase \in {"tasks", "discardTasks", "main"}

\* The task on its way finds the node it brings in the map, and the one it removes linked.
TasksPrompt ==
    \A t \in Tasks, n \in Nodes : /\ Introduces(t, n) => InMap(n)
                                  /\ Removes(t, n) => n \in Links(policy)

\* The nodes that are counted are linked, but for the one whose eviction is in hand; a
\* node that the policy has not been told of is in the window.
CountedLinked ==
    /\ \A n \in Nodes : n \in Counted <=> n \in Links(policy) \/ n = cursor.evict
    /\ \A n \in Nodes : n \notin Announced => policy.queue[n] = "window"

\* What a single goroutine never puts out of order.
InOrder == OneByOne /\ TasksPrompt /\ CountedLinked /\ Books(policy, weight, Counted)

\* There is at most one task on its way, and none when a call is made or the policy evicts.
LEMMA OneTask ==
    ASSUME Inv, OneGoroutine, OneByOne
    PROVE  /\ \A t, u \in Tasks : t = NoTask \/ u = NoTask \/ t = u
           /\ writeBuffer = <<>> /\ phase # "idle" => NoneUnderWay
           /\ \A c \in Clients : pending[c] = NoTask /\ writeBuffer = <<>> => NoneUnderWay
<1>1. PICK c : Clients = {c}
  BY DEF OneGoroutine
<1>2. writeBuffer \in Seq(TaskSet) /\ Len(writeBuffer) \in Nat /\ Len(writeBuffer) <= 1
  BY DEF Inv, Typed, OneByOne
<1>3. \A t \in Tasks : (writeBuffer # <<>> /\ t = writeBuffer[1]) \/ t = pending[c]
  BY <1>1, <1>2, WhichTasks DEF Inv
<1>4. pending[c] # NoTask => writeBuffer = <<>> /\ phase = "idle"
  BY <1>1 DEF OneByOne
<1>5. QED
  BY <1>1, <1>3, <1>4 DEF NoneUnderWay

\* No step of a single goroutine puts a second task on its way.
LEMMA OneByOneStep ==
    ASSUME Inv, OneGoroutine, OneByOne, [Next]_vars PROVE OneByOne'
<1>1. PICK c : Clients = {c} /\ Sequential
  BY DEF OneGoroutine
<1>2. /\ writeBuffer \in Seq(TaskSet) /\ Len(writeBuffer) \in Nat /\ pending \in [Clients -> TaskSet]
      /\ Len(<<>>) = 0 /\ writeBuffer # <<>> => Len(writeBuffer) # 0
  BY DEF Inv, Typed
<1>3. /\ Len(writeBuffer) <= 1 /\ (pending[c] # NoTask => writeBuffer = <<>> /\ phase = "idle")
      /\ phase \in {"main", "climb", "discardNodes"} => writeBuffer = <<>>
      /\ cursor.evict # NoNode => writeBuffer = <<>> /\ phase \in {"tasks", "discardTasks", "main"}
  BY <1>1 DEF OneByOne
<1> DEFINE Goal == /\ Len(writeBuffer') <= 1
                   /\ pending'[c] # NoTask => writeBuffer' = <<>> /\ phase' = "idle"
                   /\ phase' \in {"main", "climb", "discardNodes"} => writeBuffer' = <<>>
                   /\ cursor'.evict # NoNode =>
                        writeBuffer' = <<>> /\ phase' \in {"tasks", "discardTasks", "main"}
<1>4. Goal => OneByOne'
  BY <1>1 DEF OneByOne
<1>5. CASE \/ \E k \in Keys, w \in Weights : Set(c, k, w)
           \/ \E k \in Keys : Invalidate(c, k)
  BY <1>1, <1>2, <1>3, <1>5, <1>4 DEF Set, Invalidate, Ready
<1>6. CASE Push(c)
  <2>1. pending'[c] = NoTask
    BY <1>1, <1>2, <1>6 DEF Push
  <2>2. writeBuffer = <<>> /\ writeBuffer' = Append(writeBuffer, pending[c]) /\ phase = "idle"
    BY <1>3, <1>6 DEF Push
  <2>3. Len(writeBuffer') = 1
    BY <1>2, <2>2
  <2>4. QED
    BY <1>3, <1>4, <1>6, <2>1, <2>2, <2>3 DEF Push
<1>7. CASE (\E k \in Keys : Read(k)) \/ UNCHANGED vars
  BY <1>3, <1>4, <1>7 DEF Read, vars
<1>8. CASE (\E m \in Maximums : SetMaximum(m)) \/ StartMaintenance \/ InvalidateAll
  BY <1>1, <1>3, <1>4, <1>8 DEF SetMaximum, StartMaintenance, InvalidateAll, CanStart
<1>9. CASE DrainReadBuffer
  BY <1>3, <1>4, <1>9 DEF DrainReadBuffer, At
<1>10. CASE DrainWriteBuffer
  <2>1. writeBuffer # <<>> /\ writeBuffer' = Tail(writeBuffer) /\ phase \in {"tasks", "discardTasks"}
    BY <1>10 DEF DrainWriteBuffer, At
  <2>2. writeBuffer' = <<>>
    BY <1>2, <1>3, <2>1
  <2>3. QED
    BY <1>2, <1>3, <1>4, <1>10, <2>1, <2>2 DEF DrainWriteBuffer
<1>11. CASE EvictWindow
  BY <1>2, <1>3, <1>4, <1>11 DEF EvictWindow, At, StartCursor, Cursor
<1>12. CASE EvictMain
  BY <1>2, <1>3, <1>4, <1>12 DEF EvictMain, At
<1>13. CASE EvictMainEnd
  BY <1>2, <1>3, <1>4, <1>13 DEF EvictMainEnd, At, NoCursor, Cursor
<1>14. CASE EvictNode
  <2>1. cursor'.evict = NoNode
    BY <1>14 DEF EvictNode, Inv, Typed, Cursors
  <2>2. QED
    BY <1>2, <1>3, <1>4, <1>14, <2>1 DEF EvictNode
<1>15. CASE ClimbWindow
  BY <1>2, <1>3, <1>4, <1>15 DEF ClimbWindow, At
<1>16. CASE TakeSnapshot
  BY <1>2, <1>3, <1>4, <1>16 DEF TakeSnapshot, At
<1>17. CASE DeleteNode
  BY <1>2, <1>3, <1>4, <1>17 DEF DeleteNode, At
<1>18. CASE EndInvalidateAll
  BY <1>2, <1>3, <1>4, <1>18 DEF EndInvalidateAll, At
<1>19. CASE Terminating
  BY <1>7, <1>19 DEF Terminating
<1>20. QED
  BY <1>1, <1>5, <1>6, <1>7, <1>8, <1>9, <1>10, <1>11, <1>12, <1>13, <1>14, <1>15, <1>16, <1>17,
     <1>18, <1>19 DEF Next, ClientStep, MaintenanceStep

\* What is known of the nodes when no task is on its way.
LEMMA NodesAtRest ==
    ASSUME Inv, NoneUnderWay
    PROVE  /\ \A n : ~Leaving(n) /\ \A t \in Tasks : ~Introduces(t, n) /\ ~Removes(t, n)
           /\ Announced = born /\ \A n : n \in Counted <=> n \in born /\ n \notin policy.dead
           /\ \A n \in born : InMap(n) <=> n \notin policy.dead
<1>1. \A n : ~Leaving(n) /\ \A t \in Tasks : ~Introduces(t, n) /\ ~Removes(t, n)
  BY DEF NoneUnderWay, Leaving, NoTask, Introduces, Removes
<1>2. Announced = born
  BY <1>1 DEF Announced
<1>3. \A n \in born : InMap(n) => n \notin policy.dead
  BY InMapIsAlive DEF Alive
<1>4. \A n \in born : ~InMap(n) => n \in policy.dead
  BY <1>1 DEF Inv, AllAccounted, Accounted
<1>5. QED
  BY <1>1, <1>2, <1>3, <1>4 DEF Counted

\* What is counted is known, and what is linked is counted.
LEMMA CountedKnown ==
    ASSUME Inv, CountedLinked
    PROVE  /\ Counted \in SUBSET Nodes /\ Counted \subseteq born /\ Links(policy) \subseteq Counted
           /\ Links(policy) \subseteq born /\ born \subseteq Nodes /\ PolicySound(born, policy) /\ Weighs(weight)
<1>1. Links(policy) \subseteq born /\ born \subseteq Nodes /\ PolicySound(born, policy) /\ Weighs(weight)
  BY LinksAreBorn, InvFacts DEF Inv
<1>2. Counted \subseteq born
  BY DEF Counted, Announced
<1>3. QED
  BY <1>1, <1>2 DEF CountedLinked

\* The books stay in order when nodes move, whatever happens to the cursor.
LEMMA QuietInOrder ==
    ASSUME Inv, InOrder, Quiet, OneByOne',
           \A n \in Nodes : n \in Links(policy) \/ n = cursor'.evict <=> n \in Links(policy) \/ n = cursor.evict
    PROVE  InOrder'
<1>1. /\ Moved(born, policy, policy') /\ Booked(policy, weight, policy')
      /\ UNCHANGED <<map, born, keyOf, weight, writeBuffer, pending>>
  BY DEF Quiet, mapVars
<1>2. Links(policy)' = Links(policy) /\ policy'.dead = policy.dead
  BY <1>1 DEF Moved, SameCount
<1>3. /\ Tasks' = Tasks /\ Announced' = Announced /\ Counted' = Counted
      /\ \A n : InMap(n)' <=> InMap(n)
  BY <1>1, <1>2 DEF Tasks, Announced, Counted, InMap
<1>4. Books(policy, weight, Counted)'
  BY <1>1, <1>3, CountedKnown DEF InOrder, Booked
<1>5. TasksPrompt'
  BY <1>2, <1>3 DEF InOrder, TasksPrompt
<1>6. CountedLinked'
  <2>1. \A n \in Nodes : n \in Counted' <=> n \in Links(policy)' \/ n = cursor'.evict
    BY <1>2, <1>3 DEF InOrder, CountedLinked
  <2>2. \A n \in Nodes : n \notin Announced => n \notin Links(policy) /\ policy.queue[n] = "window"
    BY CountedKnown DEF InOrder, CountedLinked, Counted
  <2>3. \A n \in Nodes : n \notin Announced' => policy'.queue[n] = "window"
    BY <1>1, <1>3, <2>2 DEF Moved
  <2>4. QED
    BY <2>1, <2>3 DEF CountedLinked
<1>7. QED
  BY <1>4, <1>5, <1>6 DEF InOrder

\* A node of the map is linked when a call is made.
LEMMA CallFinds ==
    ASSUME Inv, OneGoroutine, InOrder, NEW c \in Clients, Ready(c)
    PROVE  /\ NoneUnderWay /\ cursor.evict = NoNode /\ phase = "idle" /\ Announced = born
           /\ \A k \in Keys : map[k] # NoNode => map[k] \in Links(policy)
<1>1. NoneUnderWay /\ cursor.evict = NoNode /\ phase = "idle"
  BY OneTask DEF Ready, OneGoroutine, InOrder, OneByOne
<1>2. ASSUME NEW k \in Keys, map[k] # NoNode PROVE map[k] \in Links(policy)
  <2>1. map[k] \in Alive /\ map[k] \in Nodes
    BY <1>2 DEF Inv, MapHoldsTheAlive, Typed
  <2>2. map[k] \in Counted
    BY <1>1, <2>1, NodesAtRest DEF Alive
  <2>3. QED
    BY <1>1, <2>1, <2>2, PolicyAssumption DEF InOrder, CountedLinked
<1>3. QED
  BY <1>1, <1>2, NodesAtRest

\* Set puts a node into the map that the policy has not been told of.
LEMMA SetInOrder ==
    ASSUME Inv, OneGoroutine, InOrder, NEW c \in Clients, NEW k \in Keys, NEW w \in Weights,
           Set(c, k, w), OneByOne'
    PROVE  InOrder'
<1>1. PICK n \in Nodes : SetBy(c, k, w, n)
  BY SetDoes
<1>2. /\ NoneUnderWay /\ cursor' = cursor /\ Announced = born
      /\ map[k] # NoNode => map[k] \in Links(policy)
  BY CallFinds DEF Set
<1> DEFINE t == SetTask(k, n)
<1>3. /\ n \notin born /\ born' = born \cup {n} /\ policy' = policy
      /\ \A x \in Nodes : weight'[x] = IF x = n THEN w ELSE weight[x]
      /\ keyOf'[n] = k /\ map'[k] = n
      /\ pending' = [pending EXCEPT ![c] = t] /\ writeBuffer' = writeBuffer
  BY <1>1 DEF SetBy
<1>4. /\ \A x : Introduces(t, x) <=> x = n
      /\ \A x : Removes(t, x) => x = map[k] /\ map[k] # NoNode
  BY DEF SetTask, Task, Introduces, Removes
<1> HIDE DEF t
<1>5. t \in Tasks' /\ \A u \in Tasks' : u = NoTask \/ u = t
  <2>1. writeBuffer' \in Seq(TaskSet) /\ pending \in [Clients -> TaskSet]
    BY <1>3 DEF Inv, Typed
  <2>2. \A d \in Clients : pending'[d] = IF d = c THEN t ELSE pending[d]
    BY <1>3, <2>1
  <2>3. QED
    BY <1>2, <1>3, <2>1, <2>2, WhichTasks, WhichTasksNext DEF NoneUnderWay, Inv
<1>6. \A x : ~Introduces(NoTask, x) /\ ~Removes(NoTask, x)
  BY DEF NoTask, Introduces, Removes
<1>7. Announced' = Announced /\ Counted' = Counted
  <2>1. \A x : x \in Announced' <=> x \in born
    BY <1>3, <1>4, <1>5, <1>6 DEF Announced
  <2>2. QED
    BY <1>2, <1>3, <2>1 DEF Counted
<1>8. TasksPrompt'
  <2>1. InMap(n)'
    BY <1>3 DEF InMap
  <2>2. QED
    BY <1>2, <1>3, <1>4, <1>5, <1>6, <2>1 DEF TasksPrompt
<1>9. CountedLinked'
  BY <1>2, <1>3, <1>7 DEF InOrder, CountedLinked
<1>10. Books(policy, weight, Counted)'
  <2>1. \A x \in Counted : weight'[x] = weight[x]
    BY <1>3, CountedKnown DEF InOrder
  <2>2. Books(policy, weight', Counted)
    BY <2>1, CountedKnown, BooksSame DEF InOrder
  <2>3. QED
    BY <1>3, <1>7, <2>2
<1>11. QED
  BY <1>8, <1>9, <1>10 DEF InOrder

\* Invalidate takes a node out of the map that the policy links.
LEMMA InvalidateInOrder ==
    ASSUME Inv, OneGoroutine, InOrder, NEW c \in Clients, NEW k \in Keys, Invalidate(c, k), OneByOne'
    PROVE  InOrder'
<1> DEFINE t == Task("delete", map[k], NoNode, "invalidation")
<1>1. /\ NoneUnderWay /\ cursor' = cursor /\ map[k] \in Links(policy)
      /\ UNCHANGED <<born, policy, weight, writeBuffer>>
      /\ pending' = [pending EXCEPT ![c] = t]
  BY CallFinds DEF Invalidate
<1>2. (\A x : ~Introduces(t, x)) /\ \A x : Removes(t, x) => x = map[k]
  BY DEF Task, Introduces, Removes
<1> HIDE DEF t
<1>3. \A u \in Tasks' : u = NoTask \/ u = t
  <2>1. writeBuffer' \in Seq(TaskSet) /\ pending \in [Clients -> TaskSet]
    BY <1>1 DEF Inv, Typed
  <2>2. \A d \in Clients : pending'[d] = IF d = c THEN t ELSE pending[d]
    BY <1>1, <2>1
  <2>3. QED
    BY <1>1, <2>1, <2>2, WhichTasks, WhichTasksNext DEF NoneUnderWay, Inv
<1>4. \A x : ~Introduces(NoTask, x) /\ ~Removes(NoTask, x)
  BY DEF NoTask, Introduces, Removes
<1>5. Announced' = Announced /\ Counted' = Counted
  BY <1>1, <1>2, <1>3, <1>4, NodesAtRest DEF Announced, Counted
<1>6. QED
  BY <1>1, <1>2, <1>3, <1>4, <1>5 DEF InOrder, TasksPrompt, CountedLinked

\* A task that is pushed is on its way as before.
LEMMA PushInOrder ==
    ASSUME Inv, InOrder, NEW c \in Clients, Push(c), OneByOne' PROVE InOrder'
<1>1. /\ \A u \in Tasks' : u \in Tasks \/ u = NoTask
      /\ \A u \in Tasks : u \in Tasks'
      /\ UNCHANGED <<map, born, keyOf, policy, weight, cursor>>
  BY TaskPushed DEF Push
<1>2. \A x : ~Introduces(NoTask, x) /\ ~Removes(NoTask, x)
  BY DEF NoTask, Introduces, Removes
<1>3. Announced' = Announced /\ Counted' = Counted /\ \A n : InMap(n)' <=> InMap(n)
  BY <1>1, <1>2 DEF Announced, Counted, InMap
<1>4. QED
  BY <1>1, <1>2, <1>3 DEF InOrder, TasksPrompt, CountedLinked

\* The nodes and the tasks when a single goroutine's task is run.
LEMMA RunFinds ==
    ASSUME Inv, OneGoroutine, InOrder, OneByOne', DrainWriteBuffer, NEW t, t = Head(writeBuffer)
    PROVE  /\ TaskSound(t) /\ RunTask(t) /\ RunBy(t) /\ cursor.evict = NoNode /\ NoneUnderWay'
           /\ UNCHANGED <<map, born, keyOf, weight>>
           /\ \A n \in Nodes : n \in Counted <=> n \in Links(policy)
           /\ \A n \in Nodes : n \in Announced <=> n \in born /\ ~Introduces(t, n)
           /\ Announced' = born
           /\ \A n \in Nodes : Removes(t, n) => n \in Links(policy)
           /\ \A n \in Nodes : Introduces(t, n) => n \in Alive /\ n \notin policy.dead
<1>1. /\ writeBuffer # <<>> /\ writeBuffer' = Tail(writeBuffer) /\ RunTask(t)
      /\ UNCHANGED <<map, born, keyOf, weight, pending, phase>> /\ cursor.evict = NoNode
      /\ phase \in {"tasks", "discardTasks"}
  BY DEF DrainWriteBuffer, At
<1>2. /\ t \in Tasks /\ t \in TaskSet /\ writeBuffer' \in Seq(TaskSet)
      /\ \A u \in Tasks' : u \in Tasks /\ Apart(t, u)
  BY <1>1, TaskPopped
<1>3. t # NoTask
  BY <1>1 DEF RunTask, NoTask
<1>4. \A u \in Tasks : u = NoTask \/ u = t
  BY <1>2, <1>3, OneTask DEF InOrder
<1>5. \A n : ~Introduces(NoTask, n) /\ ~Removes(NoTask, n)
  BY DEF NoTask, Introduces, Removes
<1>6. NoneUnderWay'
  <2>1. Len(writeBuffer') = 0
    <3>1. writeBuffer \in Seq(TaskSet) /\ Len(writeBuffer) <= 1 /\ writeBuffer # <<>>
      BY <1>1 DEF Inv, Typed, InOrder, OneByOne
    <3> DEFINE s == writeBuffer
    <3>2. Len(s) \in Nat /\ Len(s) # 0
      BY <3>1
    <3>3. Len(Tail(s)) = Len(s) - 1
      BY <3>1
    <3>4. Len(writeBuffer') = Len(s) - 1 /\ Len(s) <= 1
      BY <1>1, <3>1, <3>3
    <3> HIDE DEF s
    <3>5. Len(s) = 1
      BY <3>2, <3>4
    <3>6. QED
      BY <3>4, <3>5
  <2>2. \A c \in Clients : pending'[c] = NoTask
    BY <1>1 DEF InOrder, OneByOne
  <2>3. QED
    BY <1>2, <2>1, <2>2, WhichTasksNext DEF NoneUnderWay
<1>7. Announced' = born
  BY <1>1, <1>5, <1>6 DEF Announced, NoneUnderWay
<1>8. \A n \in Nodes : n \in Announced <=> n \in born /\ ~Introduces(t, n)
  BY <1>2, <1>4, <1>5 DEF Announced
<1>9. TaskSound(t) /\ RunBy(t)
  BY <1>2, RunDoes DEF Inv, TasksSound
<1>10. \A n \in Nodes : n \in Counted <=> n \in Links(policy)
  BY <1>1, PolicyAssumption DEF InOrder, CountedLinked
<1>11. ASSUME NEW n \in Nodes, Introduces(t, n) PROVE n \in Alive /\ n \notin policy.dead
  <2>1. InMap(n) /\ n \in born
    BY <1>2, <1>11 DEF InOrder, TasksPrompt, InMap
  <2>2. QED
    BY <2>1, InMapIsAlive DEF Alive
<1>12. \A n \in Nodes : Removes(t, n) => n \in Links(policy)
  BY <1>2 DEF InOrder, TasksPrompt
<1>13. QED
  BY <1>1, <1>6, <1>7, <1>8, <1>9, <1>10, <1>11, <1>12

\* What remains to be shown when no task is on its way any more.
LEMMA InOrderAtRest ==
    ASSUME OneByOne', NoneUnderWay', Announced' = born', Books(policy, weight, Counted)',
           \A n \in Nodes : n \in Counted' <=> n \in Links(policy)' \/ n = cursor'.evict,
           \A n \in Nodes : n \notin born' => policy'.queue[n] = "window"
    PROVE  InOrder'
<1>1. \A n : ~Introduces(NoTask, n) /\ ~Removes(NoTask, n)
  BY DEF NoTask, Introduces, Removes
<1>2. TasksPrompt'
  BY <1>1 DEF TasksPrompt, NoneUnderWay
<1>3. QED
  BY <1>2 DEF InOrder, CountedLinked

\* A task of a single goroutine that is run leaves the books in order.
LEMMA RunInOrder ==
    ASSUME Inv, OneGoroutine, InOrder, DrainWriteBuffer, OneByOne'
    PROVE  InOrder'
<1> DEFINE t == Head(writeBuffer)
<1>1. /\ TaskSound(t) /\ RunTask(t) /\ RunBy(t) /\ cursor.evict = NoNode /\ NoneUnderWay'
      /\ UNCHANGED <<map, born, keyOf, weight>>
      /\ \A n \in Nodes : n \in Counted <=> n \in Links(policy)
      /\ \A n \in Nodes : n \in Announced <=> n \in born /\ ~Introduces(t, n)
      /\ Announced' = born
      /\ \A n \in Nodes : Removes(t, n) => n \in Links(policy)
      /\ \A n \in Nodes : Introduces(t, n) => n \in Alive /\ n \notin policy.dead
  BY RunFinds
<1> HIDE DEF t
<1>2. /\ Counted \in SUBSET Nodes /\ Counted \subseteq born /\ Links(policy) \subseteq Counted
      /\ born \subseteq Nodes /\ PolicySound(born, policy) /\ Weighs(weight)
      /\ Books(policy, weight, Counted) /\ NoNode \notin Nodes
      /\ \A n \in Nodes : n \notin Announced => policy.queue[n] = "window"
  BY CountedKnown, PolicyAssumption DEF InOrder, CountedLinked
<1>3. \A n : n \in Counted' <=> n \in born /\ n \notin policy'.dead
  BY <1>1 DEF Counted
<1>4. cursor \in Cursors(born)
  BY DEF Inv, Typed
<1>5. CASE t.reason = "add"
  <2> DEFINE n == t.node
             c == CountAdded(policy, weight, n)
  <2>1. Introduces(t, n) /\ n \in born /\ n \in Nodes /\ n \notin Links(policy)
    BY <1>1, <1>5 DEF TaskSound, Introduces
  <2>2. n \notin Counted /\ n \in Alive /\ n \notin policy.dead /\ policy.queue[n] = "window"
    BY <1>1, <1>2, <2>1
  <2>3. policy'.dead = policy.dead
    BY <1>1, <1>5 DEF RunBy, Arrived
  <2>4. \A x : x \in Counted' <=> x \in Counted \/ x = n
    BY <1>1, <1>2, <1>3, <1>5, <2>1, <2>2, <2>3 DEF Counted, Introduces
  <2>5. RunAdd(n)
    BY <1>1, <1>5 DEF RunTask
  <2>6. \/ policy' = c /\ cursor'.evict = n
        \/ policy' \in {PushBack(c, "window", n), PushFront(c, "window", n)} /\ cursor'.evict = NoNode
    BY <1>1, <1>4, <2>2, <2>5 DEF RunAdd, Cursors
  <2> HIDE DEF n
  <2>7. /\ Books(policy', weight, Counted \cup {n})
        /\ policy' = c => Links(policy') = Links(policy)
        /\ policy' \in {PushBack(c, "window", n), PushFront(c, "window", n)} => Links(policy') = Links(policy) \cup {n}
        /\ \A x \in Nodes : policy'.queue[x] = policy.queue[x]
    <3> HIDE DEF c
    <3>1. c = CountAdded(policy, weight, n)
      BY DEF c
    <3>2. QED
      BY <1>2, <2>1, <2>2, <2>6, <3>1, AddBooks, SMTT(60)
  <2> HIDE DEF c
  <2>8. \A x \in Nodes : x \in Counted' <=> x \in Links(policy)' \/ x = cursor'.evict
    BY <1>1, <1>2, <2>1, <2>4, <2>6, <2>7
  <2>9. Books(policy, weight, Counted)'
    <3>1. Counted' = Counted \cup {n}
      BY <2>4
    <3>2. QED
      BY <1>1, <2>7, <3>1
  <2>10. QED
    BY <1>1, <1>2, <2>7, <2>8, <2>9, InOrderAtRest
<1>6. CASE t.reason = "update"
  <2> DEFINE n == t.node
             old == t.old
             c == CountUpdated(UpdateNode(policy, weight, n, old), weight, n)
  <2>1. /\ Introduces(t, n) /\ n \in born /\ n \in Nodes /\ n \notin Links(policy)
        /\ Removes(t, old) /\ old \in born /\ old \in Nodes
    BY <1>1, <1>6 DEF TaskSound, Introduces, Removes
  <2>2. n \notin Counted /\ n \notin policy.dead /\ old \in Links(policy)
    BY <1>1, <2>1
  <2>3. old \in Counted /\ old \notin policy.dead /\ old # n
    BY <1>1, <2>1, <2>2 DEF Counted
  <2>4. policy'.dead = policy.dead \cup {old}
    BY <1>1, <1>6 DEF RunBy, Arrived, Dies
  <2>5. \A x : x \in Counted' <=> (x \in Counted /\ x # old) \/ x = n
    BY <1>1, <1>2, <1>3, <1>6, <2>1, <2>2, <2>3, <2>4 DEF Counted, Introduces
  <2>6. RunUpdate(n, old, t.cause)
    BY <1>1, <1>6 DEF RunTask
  <2>7. policy' \in {c, Refresh(c, weight, n)} /\ cursor'.evict \in {n, NoNode}
    BY <1>1, <1>4, <2>6 DEF RunUpdate, Cursors
  <2> HIDE DEF n, old
  <2>8. /\ Books(policy', weight, (Counted \ {old}) \cup {n})
        /\ \A x : x \in Links(policy') <=> x = n \/ (x # old /\ x \in Links(policy))
        /\ \A x \in Nodes : x \notin Links(policy') => policy'.queue[x] = policy.queue[x]
    <3> HIDE DEF c
    <3>1. c = CountUpdated(UpdateNode(policy, weight, n, old), weight, n)
      BY DEF c
    <3>2. /\ PolicySound(born, policy) /\ Weighs(weight) /\ Counted \in SUBSET Nodes
          /\ Links(policy) \subseteq Counted /\ Books(policy, weight, Counted)
          /\ n \in born /\ n \notin Links(policy) /\ n \notin Counted
          /\ old \in born /\ old \in Links(policy) /\ old \notin policy.dead
      BY <1>2, <2>1, <2>2, <2>3
    <3>3. policy' \in {c, Refresh(c, weight, n)}
      BY <2>7
    <3>4. QED
      BY <3>1, <3>2, <3>3, UpdateBooks, SMTT(60)
  <2> HIDE DEF c
  <2>9. \A x \in Nodes : x \in Counted' <=> x \in Links(policy)' \/ x = cursor'.evict
    BY <1>1, <1>2, <2>1, <2>5, <2>7, <2>8
  <2>10. Books(policy, weight, Counted)'
    <3>1. Counted' = (Counted \ {old}) \cup {n}
      BY <2>5, <2>3
    <3>2. QED
      BY <1>1, <2>8, <3>1
  <2>11. \A x \in Nodes : x \notin born' => policy'.queue[x] = "window"
    BY <1>1, <1>2, <2>1, <2>8
  <2>12. QED
    BY <1>1, <2>9, <2>10, <2>11, InOrderAtRest
<1>7. CASE t.reason = "delete"
  <2> DEFINE n == t.node
  <2>1. Removes(t, n) /\ n \in born /\ n \in Nodes
    BY <1>1, <1>7 DEF TaskSound, Removes
  <2>2. n \in Links(policy) /\ n \in Counted /\ n \notin policy.dead
    BY <1>1, <2>1 DEF Counted
  <2>3. RunDelete(n, t.cause)
    BY <1>1, <1>7 DEF RunTask
  <2>4. policy' = Delete(policy, weight, n) /\ cursor' = cursor
    BY <2>3 DEF RunDelete
  <2> HIDE DEF n
  <2>5. /\ Books(policy', weight, Counted \ {n}) /\ Links(policy') = Links(policy) \ {n}
        /\ policy'.dead = policy.dead \cup {n}
        /\ \A x \in Nodes : policy'.queue[x] = policy.queue[x]
    <3>1. /\ PolicySound(born, policy) /\ Weighs(weight) /\ Counted \in SUBSET Nodes
          /\ Links(policy) \subseteq Counted /\ Books(policy, weight, Counted)
          /\ n \in born /\ n \in Counted /\ n \notin policy.dead
          /\ policy' = Delete(policy, weight, n)
      BY <1>2, <2>1, <2>2, <2>4
    <3>2. QED
      BY <3>1, DeleteBooks, SMTT(60)
  <2>6. Counted' = Counted \ {n}
    BY <1>1, <1>2, <1>3, <1>7, <2>5 DEF Counted, Introduces
  <2>7. QED
    BY <1>1, <1>2, <2>4, <2>5, <2>6, InOrderAtRest
<1>8. QED
  BY <1>1, <1>5, <1>6, <1>7 DEF RunBy

\* An eviction, and a deletion by InvalidateAll, leave them in order.
LEMMA OutInOrder ==
    ASSUME Inv, OneGoroutine, InOrder, EvictNode \/ DeleteNode, OneByOne'
    PROVE  InOrder'
<1>1. /\ UNCHANGED <<born, keyOf, weight, writeBuffer, pending, phase>>
      /\ writeBuffer = <<>> /\ phase # "idle"
  <2>1. writeBuffer = <<>> /\ phase # "idle"
    BY DEF EvictNode, DeleteNode, At, InOrder, OneByOne
  <2>2. QED
    BY <2>1 DEF EvictNode, DeleteNode
<1>2. NoneUnderWay /\ NoneUnderWay'
  BY <1>1, OneTask DEF InOrder, NoneUnderWay, Tasks
<1>3. /\ Announced = born /\ \A n : n \in Counted <=> n \in born /\ n \notin policy.dead
      /\ \A n \in born : InMap(n) <=> n \notin policy.dead
  BY <1>2, NodesAtRest
<1>4. Announced' = born' /\ \A n : n \in Counted' <=> n \in born /\ n \notin policy'.dead
  <2>1. \A n : ~Introduces(NoTask, n)
    BY DEF NoTask, Introduces
  <2>2. QED
    BY <1>1, <1>2, <2>1 DEF Announced, NoneUnderWay, Counted
<1>5. /\ Counted \in SUBSET Nodes /\ born \subseteq Nodes /\ PolicySound(born, policy) /\ Weighs(weight)
      /\ Books(policy, weight, Counted) /\ NoNode \notin Nodes /\ NoNode \notin born
      /\ \A n \in Nodes : n \in Counted <=> n \in Links(policy) \/ n = cursor.evict
      /\ \A n \in Nodes : n \notin born => policy.queue[n] = "window"
  BY <1>3, CountedKnown, InvFacts, PolicyAssumption DEF InOrder, CountedLinked
<1>6. ASSUME NEW n \in born, n \in Counted, policy' = Delete(policy, weight, n), cursor'.evict = NoNode,
             cursor.evict \in {n, NoNode}
      PROVE  InOrder'
  <2>1. n \notin policy.dead
    BY <1>3, <1>6
  <2>2. /\ Books(policy', weight, Counted \ {n}) /\ Links(policy') = Links(policy) \ {n}
        /\ policy'.dead = policy.dead \cup {n}
        /\ \A x \in Nodes : policy'.queue[x] = policy.queue[x]
    BY <1>5, <1>6, <2>1, DeleteBooks
  <2>3. Counted' = Counted \ {n}
    BY <1>3, <1>4, <2>2
  <2>4. \A x \in Nodes : x \in Counted' <=> x \in Links(policy)' \/ x = cursor'.evict
    BY <1>5, <1>6, <2>2, <2>3
  <2>5. QED
    BY <1>1, <1>2, <1>4, <1>5, <2>2, <2>3, <2>4, InOrderAtRest
<1>7. CASE EvictNode
  <2>1. cursor.evict \in born /\ cursor'.evict = NoNode /\ policy' = Delete(policy, weight, cursor.evict)
    BY <1>7 DEF EvictNode, Inv, Typed, Cursors
  <2>2. QED
    BY <1>5, <1>6, <2>1
<1>8. CASE DeleteNode
  <2>1. PICK n \in snapshot :
          policy' = IF map[keyOf[n]] = n THEN Delete(policy, weight, n) ELSE policy
    BY <1>8 DEF DeleteNode
  <2>2. n \in born /\ cursor' = cursor /\ cursor.evict = NoNode
    BY <1>8 DEF DeleteNode, At, Inv, Typed
  <2>3. CASE map[keyOf[n]] = n
    BY <1>3, <1>6, <2>1, <2>2, <2>3 DEF InMap
  <2>4. CASE map[keyOf[n]] # n
    <3>1. policy' = policy /\ Counted' = Counted
      BY <1>3, <1>4, <2>1, <2>4
    <3>2. QED
      BY <1>1, <1>2, <1>4, <1>5, <2>2, <3>1, InOrderAtRest
  <2>5. QED
    BY <2>3, <2>4
<1>9. QED
  BY <1>7, <1>8


--------------------------------------------------------------------------------
(* What evictFromMain leaves behind *)

\* The order in which the queues give victims.
TurnOf(q) == CASE q = "probation" -> 1 [] q = "protected" -> 2 [] q = "window" -> 3 [] OTHER -> 4

\* Node n of deque d is v, or comes after it.
Behind(d, v, n) == \E i, j \in 1..Len(d) : i <= j /\ d[i] = v /\ d[j] = n

\* Node n has still to be looked at as a victim.
Waiting(p, k, n) ==
    \E q \in Queues : /\ n \in ToSet(p.deque[q])
                      /\ \/ TurnOf(k.victimQueue) < TurnOf(q)
                         \/ q = k.victimQueue /\ Behind(p.deque[q], k.victim, n)

\* The nodes at hand are linked, and not the one that is to be evicted; a linked node that has
\* been passed over weighs nothing.
Sweeps(p, w, k) ==
    /\ \A n \in {k.candidate, k.victim} : n # NoNode => n \in Links(p) /\ n # k.evict
    /\ k.victim # NoNode => k.victimQueue \in Queues /\ k.victim \in ToSet(p.deque[k.victimQueue])
    /\ \A n \in Links(p) : w[n] = 0 \/ n = k.evict \/ Waiting(p, k, n)

\* The rest of a deque, seen from its first node.
LEMMA FirstNode ==
    ASSUME NEW B, NEW p, PolicySound(B, p), NEW q \in Queues, NEW f, f = First(p.deque[q])
    PROVE  /\ f # NoNode => f \in ToSet(p.deque[q])
           /\ \A n \in ToSet(p.deque[q]) : f # NoNode /\ Behind(p.deque[q], f, n)
<1> DEFINE d == p.deque[q]
<1>1. d \in Seq(B) /\ NoNode \notin B
  BY PolicyAssumption DEF PolicySound, Policies
<1>2. f = First(d)
  OBVIOUS
<1> HIDE DEF d
<1>3. DOMAIN d = 1..Len(d) /\ Len(d) \in Nat
  BY <1>1
<1>4. CASE d = <<>>
  BY <1>2, <1>3, <1>4 DEF First, ToSet, d
<1>5. CASE d # <<>>
  <2>1. 1 \in 1..Len(d) /\ f = d[1] /\ f \in B
    BY <1>1, <1>2, <1>3, <1>5 DEF First
  <2>2. f \in ToSet(d) /\ \A n \in ToSet(d) : Behind(d, f, n)
    BY <1>3, <2>1 DEF Behind, ToSet
  <2>3. QED
    BY <1>1, <2>1, <2>2 DEF d
<1>6. QED
  BY <1>4, <1>5

\* The rest of a deque, seen from the node after one of its nodes.
LEMMA NextNode ==
    ASSUME NEW B, NEW p, PolicySound(B, p), NEW q \in Queues, NEW v \in ToSet(p.deque[q]),
           NEW a, a = NodeAfter(p, v)
    PROVE  /\ a # NoNode => a \in ToSet(p.deque[q]) /\ a # v
           /\ \A n : n # v /\ Behind(p.deque[q], v, n) => Behind(p.deque[q], a, n)
<1> DEFINE d == p.deque[q]
           i == Position(d, v)
<1>1. /\ d \in Seq(B) /\ Distinct(d) /\ p.queue[v] = q /\ v \in ToSet(d)
      /\ NoNode \notin B
  BY PolicyAssumption DEF PolicySound, Policies, DequesSound
<1>2. a = IF Linked(p, v) /\ i < Len(d) THEN d[i + 1] ELSE NoNode
  BY <1>1 DEF NodeAfter
<1>3. Linked(p, v) <=> Contains(d, v)
  BY <1>1 DEF Linked
<1> HIDE DEF d
<1>4. DOMAIN d = 1..Len(d) /\ Len(d) \in Nat
  BY <1>1
<1>5. Contains(d, v) /\ i \in 1..Len(d) /\ d[i] = v
  <2>1. \E j \in DOMAIN d : d[j] = v
    BY <1>1 DEF ToSet
  <2>2. QED
    BY <1>4, <2>1 DEF Position, Contains
<1> HIDE DEF i
<1>6. a = IF i < Len(d) THEN d[i + 1] ELSE NoNode
  BY <1>2, <1>3, <1>5
<1>7. ASSUME a # NoNode PROVE a \in ToSet(d) /\ a # v
  <2>1. i + 1 \in 1..Len(d) /\ a = d[i + 1] /\ i + 1 # i
    BY <1>4, <1>5, <1>6, <1>7
  <2>2. QED
    BY <1>1, <1>4, <1>5, <2>1 DEF Distinct, ToSet
<1>8. ASSUME NEW n, n # v, Behind(d, v, n) PROVE Behind(d, a, n)
  <2>1. PICK x, j \in 1..Len(d) : x <= j /\ d[x] = v /\ d[j] = n
    BY <1>8 DEF Behind
  <2>2. x = i /\ j # i
    BY <1>1, <1>5, <1>8, <2>1 DEF Distinct
  <2>3. i < Len(d) /\ i + 1 \in 1..Len(d) /\ i + 1 <= j
    BY <1>4, <1>5, <2>1, <2>2
  <2>4. QED
    BY <1>6, <2>1, <2>3 DEF Behind
<1>9. QED
  BY <1>7, <1>8 DEF d

\* The order of a deque without one of its nodes.
LEMMA WithoutOrder ==
    ASSUME NEW B, NEW d \in Seq(B), NEW e, NEW v, NEW n, v # e, n # e, Behind(d, v, n)
    PROVE  Behind(Without(d, e), v, n)
<1>1. CASE ~Contains(d, e)
  BY <1>1 DEF Without
<1>2. CASE Contains(d, e)
  <2> DEFINE r == Without(d, e)
             k == Position(d, e)
  <2>1. /\ k \in 1..Len(d) /\ d[k] = e /\ r \in Seq(B) /\ Len(r) = Len(d) - 1
        /\ \A i \in 1..(Len(d) - 1) : r[i] = IF i < k THEN d[i] ELSE d[i + 1]
    <3>1. r = Without(d, e) /\ k = Position(d, e)
      OBVIOUS
    <3> HIDE DEF r, k
    <3>2. QED
      BY <1>2, <3>1, WithoutPlaces
  <2> HIDE DEF k
  <2>2. PICK x, y \in 1..Len(d) : x <= y /\ d[x] = v /\ d[y] = n
    BY DEF Behind
  <2>3. Len(d) \in Nat /\ x # k /\ y # k
    BY <2>1, <2>2
  <2> HIDE DEF r
  <2> DEFINE Place(i) == IF i < k THEN i ELSE i - 1
  <2>4. \A i \in 1..Len(d) : i # k => Place(i) \in 1..(Len(d) - 1) /\ r[Place(i)] = d[i]
    <3> SUFFICES ASSUME NEW i \in 1..Len(d), i # k
                 PROVE  Place(i) \in 1..(Len(d) - 1) /\ r[Place(i)] = d[i]
      OBVIOUS
    <3>1. CASE i < k
      <4>1. i \in 1..(Len(d) - 1)
        BY <2>1, <2>3, <3>1
      <4>2. QED
        BY <2>1, <3>1, <4>1
    <3>2. CASE ~(i < k)
      <4>1. i - 1 \in 1..(Len(d) - 1) /\ ~(i - 1 < k) /\ (i - 1) + 1 = i
        BY <2>1, <2>3, <3>2
      <4>2. QED
        BY <2>1, <3>2, <4>1
    <3>3. QED
      BY <3>1, <3>2
  <2>5. Place(x) <= Place(y)
    BY <2>2, <2>3
  <2>6. /\ Place(x) \in 1..Len(r) /\ Place(y) \in 1..Len(r)
        /\ r[Place(x)] = v /\ r[Place(y)] = n
    BY <2>1, <2>2, <2>3, <2>4
  <2> HIDE DEF Place
  <2>7. Behind(r, v, n)
    BY <2>5, <2>6 DEF Behind
  <2>8. QED
    BY <2>7 DEF r
<1>3. QED
  BY <1>1, <1>2


\* evictFromMain begins with the first node of probation.
LEMMA StartSweeps ==
    ASSUME NEW B, NEW p, PolicySound(B, p), NEW w, NEW c \in Links(p) \cup {NoNode}
    PROVE  Sweeps(p, w, StartCursor(p, c))
<1> DEFINE k == StartCursor(p, c)
           f == First(p.deque["probation"])
<1>1. /\ k.candidate = c /\ k.victim = f /\ k.victimQueue = "probation" /\ k.evict = NoNode
  BY DEF StartCursor, Cursor
<1>2. /\ "probation" \in Queues /\ TurnOf("probation") = 1
      /\ \A q \in Queues : q = "probation" \/ 1 < TurnOf(q)
  BY DEF Queues, TurnOf
<1>3. /\ f # NoNode => f \in ToSet(p.deque["probation"])
      /\ \A n \in ToSet(p.deque["probation"]) : f # NoNode /\ Behind(p.deque["probation"], f, n)
  BY <1>2, FirstNode
<1> HIDE DEF k, f
<1>4. \A n \in Links(p) : Waiting(p, k, n)
  BY <1>1, <1>2, <1>3, LinksOf DEF Waiting
<1>5. \A n \in {c, f} : n # NoNode => n \in Links(p) /\ n # NoNode
  BY <1>2, <1>3, LinksOf
<1>6. Sweeps(p, w, k)
  BY <1>1, <1>2, <1>3, <1>4, <1>5 DEF Sweeps
<1>7. QED
  BY <1>6 DEF k

\* The victim gives way to the node after it.
LEMMA VictimPasses ==
    ASSUME NEW B, NEW p, PolicySound(B, p), NEW w, NEW k, Sweeps(p, w, k), k.evict = NoNode,
           k.victim # NoNode,
           NEW r, r.victim = NodeAfter(p, k.victim), r.victimQueue = k.victimQueue,
           w[k.victim] = 0 \/ r.evict = k.victim, r.evict \in {k.victim, NoNode},
           r.candidate # NoNode => r.candidate \in Links(p) /\ r.candidate # r.evict
    PROVE  Sweeps(p, w, r)
<1> DEFINE v == k.victim
           q == k.victimQueue
           a == NodeAfter(p, v)
<1>1. v \in ToSet(p.deque[q]) /\ q \in Queues /\ v \in Links(p) /\ v # NoNode
  BY DEF Sweeps
<1>2. /\ a # NoNode => a \in ToSet(p.deque[q]) /\ a # v
      /\ \A n : n # v /\ Behind(p.deque[q], v, n) => Behind(p.deque[q], a, n)
  BY <1>1, NextNode
<1>3. r.victim = a /\ r.victimQueue = q /\ (w[v] = 0 \/ r.evict = v)
  OBVIOUS
<1>4. \A n : n # v /\ Waiting(p, k, n) => Waiting(p, r, n)
  BY <1>2 DEF Waiting
<1>5. \A n \in Links(p) : w[n] = 0 \/ n = r.evict \/ Waiting(p, r, n)
  <2>1. \A n \in Links(p) : w[n] = 0 \/ Waiting(p, k, n)
    <3>1. \A n \in Links(p) : n # NoNode
      BY LinksAreBorn, PolicyAssumption DEF PolicySound
    <3>2. QED
      BY <3>1 DEF Sweeps
  <2>2. QED
    BY <1>4, <2>1
<1>6. a # NoNode => a \in Links(p) /\ a # r.evict
  BY <1>1, <1>2, LinksOf
<1> HIDE DEF a
<1>7. r.victim = a /\ r.victimQueue = q
  BY DEF a
<1>8. QED
  BY <1>1, <1>2, <1>5, <1>6, <1>7 DEF Sweeps

\* The candidate gives way.
LEMMA CandidatePasses ==
    ASSUME NEW p, NEW w, NEW k, Sweeps(p, w, k), k.evict = NoNode, \A n \in Links(p) : n # NoNode,
           NEW r, r.victim = k.victim, r.victimQueue = k.victimQueue,
           r.evict # NoNode => r.evict # k.victim,
           r.candidate # NoNode => r.candidate \in Links(p) /\ r.candidate # r.evict
    PROVE  Sweeps(p, w, r)
<1>1. \A n : Waiting(p, k, n) => Waiting(p, r, n)
  BY DEF Waiting
<1>2. \A n \in Links(p) : w[n] = 0 \/ n = r.evict \/ Waiting(p, r, n)
  BY <1>1 DEF Sweeps
<1>3. QED
  BY <1>2 DEF Sweeps


\* An iteration passes over no node but one that weighs nothing or is to be evicted.
LEMMA DecideSweeps ==
    ASSUME NEW B, NEW p, PolicySound(B, p), NEW w, NEW alive, NEW m, NEW lowest,
           NEW k \in Cursors(B), Sweeps(p, w, k), k.evict = NoNode
    PROVE  LET r == Decide(p, w, alive, m, k, lowest)
           IN  Sweeps(p, w, r) /\ r.evict \in Links(p) \cup {NoNode}
<1> DEFINE widen == k.candidate = NoNode /\ k.candidateQueue = "probation"
           c  == IF widen THEN First(p.deque["window"]) ELSE k.candidate
           cq == IF widen THEN "window" ELSE k.candidateQueue
           v  == k.victim
           vq == k.victimQueue
           nc == NodeAfter(p, c)
           nv == NodeAfter(p, v)
           x  == IF nc = v THEN nv ELSE nc
           r  == Decide(p, w, alive, m, k, lowest)
<1>1. \A n \in Links(p) : n # NoNode
  BY LinksAreBorn, PolicyAssumption DEF PolicySound
<1>2. "window" \in Queues /\ "protected" \in Queues /\ vq \in Queues \cup {"exhausted"}
  BY DEF Queues, Cursors
<1>3. \A q \in Queues : First(p.deque[q]) \in Links(p) \cup {NoNode}
  BY FirstNode, LinksOf
<1>4. c \in Links(p) \cup {NoNode}
  BY <1>2, <1>3 DEF Sweeps
<1>5. v \in Links(p) \cup {NoNode}
  BY DEF Sweeps
<1>6. \A n \in Links(p) : NodeAfter(p, n) \in (Links(p) \cup {NoNode}) \ {n}
  <2> SUFFICES ASSUME NEW n \in Links(p) PROVE NodeAfter(p, n) \in (Links(p) \cup {NoNode}) \ {n}
    OBVIOUS
  <2>1. PICK q \in Queues : n \in ToSet(p.deque[q])
    BY LinksOf
  <2>2. NodeAfter(p, n) # NoNode => NodeAfter(p, n) \in ToSet(p.deque[q]) /\ NodeAfter(p, n) # n
    BY <2>1, NextNode
  <2>3. QED
    BY <1>1, <2>1, <2>2, LinksOf
<1>7. CASE c = NoNode /\ v = NoNode
  <2> DEFINE pr == First(p.deque["protected"])
             wi == First(p.deque["window"])
  <2>1. r = CASE vq = "probation" -> Cursor(c, cq, pr, "protected", NoNode)
              [] vq = "protected" -> Cursor(c, cq, wi, "window", NoNode)
              [] OTHER -> Cursor(c, cq, v, "exhausted", NoNode)
    BY <1>7 DEF Decide
  <2>2. \/ vq = "probation" /\ r = Cursor(c, cq, pr, "protected", NoNode)
        \/ vq = "protected" /\ r = Cursor(c, cq, wi, "window", NoNode)
        \/ vq \in {"window", "exhausted"} /\ r = Cursor(c, cq, v, "exhausted", NoNode)
    <3> HIDE DEF r, c, cq, v, vq, pr, wi
    <3>1. QED
      BY <1>2, <2>1 DEF Queues
  <2>3. \A q \in Queues : \A n : ~Behind(p.deque[q], v, n)
    <3>1. \A q \in Queues : p.deque[q] \in Seq(B)
      BY DEF PolicySound, Policies
    <3>2. \A q \in Queues : \A i \in 1..Len(p.deque[q]) : p.deque[q][i] \in B /\ p.deque[q][i] # NoNode
      BY <3>1, PolicyAssumption DEF PolicySound
    <3>3. QED
      BY <1>7, <3>2 DEF Behind
  <2>4. \A n \in Links(p) : w[n] = 0 \/ \E q \in Queues : n \in ToSet(p.deque[q]) /\ TurnOf(vq) < TurnOf(q)
    BY <1>1, <2>3 DEF Sweeps, Waiting
  <2>5. /\ pr # NoNode => pr \in ToSet(p.deque["protected"])
        /\ \A n \in ToSet(p.deque["protected"]) : Behind(p.deque["protected"], pr, n)
        /\ wi # NoNode => wi \in ToSet(p.deque["window"])
        /\ \A n \in ToSet(p.deque["window"]) : Behind(p.deque["window"], wi, n)
    BY <1>2, FirstNode
  <2>6. /\ \A q \in Queues : 1 < TurnOf(q) => q = "protected" \/ 2 < TurnOf(q)
        /\ \A q \in Queues : 2 < TurnOf(q) => q = "window"
        /\ \A q \in Queues : ~(3 < TurnOf(q)) /\ ~(4 < TurnOf(q))
        /\ TurnOf("probation") = 1 /\ TurnOf("protected") = 2 /\ TurnOf("window") = 3
        /\ TurnOf("exhausted") = 4
    BY DEF Queues, TurnOf
  <2>7. ASSUME vq = "probation", r = Cursor(c, cq, pr, "protected", NoNode) PROVE Sweeps(p, w, r)
    <3>1. /\ r.candidate = NoNode /\ r.victim = pr /\ r.victimQueue = "protected" /\ r.evict = NoNode
      BY <1>7, <2>7 DEF Cursor
    <3> HIDE DEF r, pr
    <3>2. \A n \in Links(p) : w[n] = 0 \/ Waiting(p, r, n)
      BY <2>4, <2>5, <2>6, <2>7, <3>1 DEF Waiting
    <3>3. pr # NoNode => pr \in Links(p)
      BY <1>2, <2>5, LinksOf
    <3>4. QED
      BY <1>2, <2>5, <3>1, <3>2, <3>3 DEF Sweeps
  <2>8. ASSUME vq = "protected", r = Cursor(c, cq, wi, "window", NoNode) PROVE Sweeps(p, w, r)
    <3>1. /\ r.candidate = NoNode /\ r.victim = wi /\ r.victimQueue = "window" /\ r.evict = NoNode
      BY <1>7, <2>8 DEF Cursor
    <3> HIDE DEF r, wi
    <3>2. \A n \in Links(p) : w[n] = 0 \/ Waiting(p, r, n)
      BY <2>4, <2>5, <2>6, <2>8, <3>1 DEF Waiting
    <3>3. wi # NoNode => wi \in Links(p)
      BY <1>2, <2>5, LinksOf
    <3>4. QED
      BY <1>2, <2>5, <3>1, <3>2, <3>3 DEF Sweeps
  <2>9. ASSUME vq \in {"window", "exhausted"}, r = Cursor(c, cq, v, "exhausted", NoNode)
        PROVE  Sweeps(p, w, r)
    <3>1. /\ r.candidate = NoNode /\ r.victim = NoNode
      BY <1>7, <2>9 DEF Cursor
    <3> HIDE DEF r
    <3>2. \A n \in Links(p) : w[n] = 0
      BY <2>4, <2>6, <2>9
    <3>3. QED
      BY <3>1, <3>2 DEF Sweeps
  <2>10. r.evict = NoNode
    BY <2>2 DEF Cursor
  <2>11. QED
    BY <2>2, <2>7, <2>8, <2>9, <2>10
<1>8. CASE ~(c = NoNode /\ v = NoNode)
  <2>1. \/ v # NoNode /\ \/ w[v] = 0 /\ r = Cursor(c, cq, nv, vq, NoNode)
                         \/ c # v /\ r = Cursor(c, cq, nv, vq, v)
        \/ c # NoNode /\ \/ r = Cursor(nc, cq, v, vq, NoNode)
                         \/ c # v /\ r = Cursor(nc, cq, v, vq, c)
        \/ v # NoNode /\ c = v /\ r = Cursor(NoNode, cq, nv, vq, v)
        \/ v # NoNode /\ c # NoNode /\ c # v /\ r = Cursor(x, cq, nv, vq, v)
    BY <1>8 DEF Decide
  <2>2. /\ v # NoNode => nv \in (Links(p) \cup {NoNode}) \ {v}
        /\ c # NoNode => nc \in (Links(p) \cup {NoNode}) \ {c}
    BY <1>4, <1>5, <1>6
  <2>3. v # NoNode /\ c # NoNode => x \in (Links(p) \cup {NoNode}) \ {v}
    BY <2>2
  <2>4. ASSUME NEW d \in Links(p) \cup {NoNode}, NEW e, r = Cursor(d, cq, nv, vq, e), v # NoNode,
               e = v \/ (e = NoNode /\ w[v] = 0), d = NoNode \/ d # e
        PROVE  Sweeps(p, w, r) /\ r.evict \in Links(p) \cup {NoNode}
    <3>1. r.candidate = d /\ r.victim = NodeAfter(p, k.victim) /\ r.victimQueue = k.victimQueue /\ r.evict = e
      BY <2>4 DEF Cursor
    <3>2. k.victim # NoNode /\ (w[k.victim] = 0 \/ r.evict = k.victim) /\ r.evict \in {k.victim, NoNode}
          /\ (r.candidate # NoNode => r.candidate \in Links(p) /\ r.candidate # r.evict)
      BY <2>4, <3>1
    <3> HIDE DEF r
    <3>3. Sweeps(p, w, r)
      BY <3>1, <3>2, VictimPasses
    <3>4. QED
      BY <1>5, <3>1, <3>2, <3>3
  <2>5. ASSUME NEW e \in {NoNode, c}, r = Cursor(nc, cq, v, vq, e), c # NoNode, e = NoNode \/ c # v
        PROVE  Sweeps(p, w, r) /\ r.evict \in Links(p) \cup {NoNode}
    <3>1. r.candidate = nc /\ r.victim = k.victim /\ r.victimQueue = k.victimQueue /\ r.evict = e
      BY <2>5 DEF Cursor
    <3>2. (r.evict # NoNode => r.evict # k.victim)
          /\ (r.candidate # NoNode => r.candidate \in Links(p) /\ r.candidate # r.evict)
      BY <2>2, <2>5, <3>1
    <3> HIDE DEF r
    <3>3. Sweeps(p, w, r)
      BY <1>1, <3>1, <3>2, CandidatePasses
    <3>4. QED
      BY <1>4, <2>5, <3>1, <3>3
  <2> HIDE DEF r, c, v, nc, nv, x, cq, vq
  <2> DEFINE Done == Sweeps(p, w, r) /\ r.evict \in Links(p) \cup {NoNode}
  <2>6. ASSUME v # NoNode, \/ w[v] = 0 /\ r = Cursor(c, cq, nv, vq, NoNode)
                           \/ c # v /\ r = Cursor(c, cq, nv, vq, v)
        PROVE  Done
    BY <1>4, <2>4, <2>6
  <2>7. ASSUME c # NoNode, \/ r = Cursor(nc, cq, v, vq, NoNode)
                           \/ c # v /\ r = Cursor(nc, cq, v, vq, c)
        PROVE  Done
    BY <2>5, <2>7
  <2>8. ASSUME v # NoNode, c = v, r = Cursor(NoNode, cq, nv, vq, v) PROVE Done
    BY <2>4, <2>8
  <2>9. ASSUME v # NoNode, c # NoNode, c # v, r = Cursor(x, cq, nv, vq, v) PROVE Done
    BY <2>3, <2>4, <2>9
  <2>10. Done
    BY <2>1, <2>6, <2>7, <2>8, <2>9
  <2>11. QED
    BY <2>10 DEF r
<1>9. QED
  BY <1>7, <1>8

\* The eviction of the node that was chosen changes nothing about the others.
LEMMA EvictedSweeps ==
    ASSUME NEW B, NEW p, PolicySound(B, p), NEW w, Weighs(w), NEW k \in Cursors(B), Sweeps(p, w, k),
           k.evict \in B
    PROVE  Sweeps(Delete(p, w, k.evict), w, [k EXCEPT !.evict = NoNode])
<1> DEFINE e == k.evict
           r == Delete(p, w, e)
           l == [k EXCEPT !.evict = NoNode]
<1>1. PolicySound(B, r) /\ Links(r) = Links(p) \ {e} /\ NoNode \notin B /\ e \in Nodes
  BY DeleteSound, PolicyAssumption DEF PolicySound
<1>2. \A n \in Links(p) : n # NoNode
  BY LinksAreBorn, PolicyAssumption DEF PolicySound
<1>3. /\ l.candidate = k.candidate /\ l.victim = k.victim /\ l.victimQueue = k.victimQueue
      /\ l.evict = NoNode
  BY DEF Cursors
<1>4. \A q \in Queues : r.deque[q] \in {p.deque[q], Without(p.deque[q], e)}
  <2>1. p \in Policies(B)
    BY DEF PolicySound
  <2>2. r.deque = [p.deque EXCEPT ![p.queue[e]] = Without(@, e)]
    BY <2>1 DEF Delete, MakeDead, Unlink, Policies
  <2>3. p.deque \in [Queues -> Seq(B)]
    BY <2>1 DEF Policies
  <2> HIDE DEF r, e
  <2>4. QED
    BY <2>2, <2>3
<1>5. \A q \in Queues : p.deque[q] \in Seq(B) /\ Distinct(p.deque[q])
  BY DEF PolicySound, Policies, DequesSound
<1>6. \A q \in Queues : \A n \in ToSet(p.deque[q]) : n # e => n \in ToSet(r.deque[q])
  <2> HIDE DEF r, e
  <2>1. QED
    BY <1>4, <1>5, WithoutNode
<1>7. \A q \in Queues : \A v, n : v # e /\ n # e /\ Behind(p.deque[q], v, n) => Behind(r.deque[q], v, n)
  <2> HIDE DEF r, e
  <2>1. QED
    BY <1>4, <1>5, WithoutOrder
<1>8. k.victim # e
  BY <1>1 DEF Sweeps
<1>9. \A n : n # e /\ Waiting(p, k, n) => Waiting(r, l, n)
  <2> HIDE DEF r, e, l
  <2>1. QED
    BY <1>3, <1>6, <1>7, <1>8 DEF Waiting
<1>10. \A n \in Links(r) : w[n] = 0 \/ n = l.evict \/ Waiting(r, l, n)
  BY <1>1, <1>9 DEF Sweeps
<1>11. \A n \in {l.candidate, l.victim} : n # NoNode => n \in Links(r) /\ n # l.evict
  BY <1>1, <1>3 DEF Sweeps
<1>12. l.victim # NoNode => l.victimQueue \in Queues /\ l.victim \in ToSet(r.deque[l.victimQueue])
  BY <1>3, <1>6, <1>8 DEF Sweeps
<1>13. QED
  BY <1>10, <1>11, <1>12 DEF Sweeps


\* While evictFromMain is at work, it passes over no node but the weightless.
LeftBehind == phase = "main" => Sweeps(policy, weight, cursor)

\* Every step of a single goroutine keeps this.
LEMMA LeftBehindStep ==
    ASSUME Inv, OneGoroutine, OneByOne, LeftBehind, [Next]_vars PROVE LeftBehind'
<1>1. PolicySound(born, policy) /\ Weighs(weight) /\ cursor \in Cursors(born)
  BY InvFacts DEF Inv, Typed
<1>2. CASE EvictWindow
  <2>1. /\ PolicySound(born, policy') /\ Links(policy') = Links(policy) /\ weight' = weight
        /\ cursor' = StartCursor(policy', FirstMoved(policy, weight))
    BY <1>2, QuietSteps DEF EvictWindow, Quiet, Moved
  <2>2. FirstMoved(policy, weight) \in Links(policy') \cup {NoNode}
    BY <1>1, <2>1, FirstMovedKnown
  <2>3. Sweeps(policy', weight, cursor')
    BY <2>1, <2>2, StartSweeps
  <2>4. QED
    BY <2>1, <2>3 DEF LeftBehind
<1>3. CASE EvictMain
  <2>1. /\ Sweeps(policy, weight, cursor) /\ cursor.evict = NoNode /\ UNCHANGED <<policy, weight>>
    BY <1>3 DEF EvictMain, At, LeftBehind
  <2>2. PICK lowest \in BOOLEAN : cursor' = Decide(policy, weight, Alive, maximum, cursor, lowest)
    BY <1>3 DEF EvictMain
  <2>3. Sweeps(policy, weight, cursor')
    BY <1>1, <2>1, <2>2, DecideSweeps
  <2>4. QED
    BY <2>1, <2>3 DEF LeftBehind
<1>4. CASE EvictNode
  <2>1. /\ cursor.evict \in born /\ weight' = weight /\ phase' = phase
        /\ policy' = Delete(policy, weight, cursor.evict) /\ cursor' = [cursor EXCEPT !.evict = NoNode]
    BY <1>1, <1>4 DEF EvictNode, Cursors
  <2>2. phase = "main" => Sweeps(policy', weight, cursor')
    BY <1>1, <2>1, EvictedSweeps DEF LeftBehind
  <2>3. QED
    BY <2>1, <2>2 DEF LeftBehind
<1>5. CASE UNCHANGED vars
  BY <1>5 DEF vars, LeftBehind
<1>6. CASE ClientStep \/ \E c \in Clients : Push(c)
  <2>1. phase = "idle" /\ phase' = phase
    BY <1>6 DEF ClientStep, Set, Invalidate, Read, Push, Ready, OneGoroutine, OneByOne
  <2>2. QED
    BY <2>1 DEF LeftBehind
<1>7. CASE \/ \E m \in Maximums : SetMaximum(m)
           \/ StartMaintenance \/ DrainReadBuffer \/ DrainWriteBuffer
           \/ EvictMainEnd \/ ClimbWindow \/ InvalidateAll \/ TakeSnapshot \/ DeleteNode
           \/ EndInvalidateAll
  <2>1. phase' # "main"
    BY <1>7 DEF SetMaximum, StartMaintenance, DrainReadBuffer, DrainWriteBuffer, EvictMainEnd, ClimbWindow,
                InvalidateAll, TakeSnapshot, DeleteNode, EndInvalidateAll, At
  <2>2. QED
    BY <2>1 DEF LeftBehind
<1>8. QED
  BY <1>2, <1>3, <1>4, <1>5, <1>6, <1>7 DEF Next, MaintenanceStep, Terminating

--------------------------------------------------------------------------------
(* The books of a single goroutine *)

\* Every step of a single goroutine leaves the books in order.
LEMMA InOrderStep ==
    ASSUME Inv, OneGoroutine, InOrder, LeftBehind, [Next]_vars PROVE InOrder'
<1>1. OneByOne'
  BY OneByOneStep DEF InOrder
<1>2. NoNode \notin Nodes /\ cursor \in Cursors(born) /\ PolicySound(born, policy)
  BY PolicyAssumption DEF Inv, Typed
<1>3. CASE Quiet /\ cursor'.evict = cursor.evict
  BY <1>1, <1>3, QuietInOrder
<1>4. CASE EvictWindow
  <2>1. cursor.evict = NoNode /\ cursor'.evict = NoNode
    BY <1>4 DEF EvictWindow, At, StartCursor, Cursor
  <2>2. QED
    BY <1>3, <1>4, <2>1, QuietSteps
<1>5. CASE EvictMain
  <2>1. PICK lowest \in BOOLEAN : cursor' = Decide(policy, weight, Alive, maximum, cursor, lowest)
    BY <1>5 DEF EvictMain
  <2>2. cursor.evict = NoNode /\ Sweeps(policy, weight, cursor)
    BY <1>5 DEF EvictMain, At, LeftBehind
  <2>3. cursor'.evict \in Links(policy) \cup {NoNode}
    BY <1>2, <2>1, <2>2, DecideSweeps
  <2>4. \A n \in Nodes : n \in Links(policy) \/ n = cursor'.evict <=> n \in Links(policy) \/ n = cursor.evict
    BY <1>2, <2>2, <2>3
  <2>5. QED
    BY <1>1, <1>5, <2>4, QuietSteps, QuietInOrder
<1>6. CASE EvictMainEnd
  <2>1. cursor.evict = NoNode /\ cursor'.evict = NoNode
    BY <1>6 DEF EvictMainEnd, At, NoCursor, Cursor
  <2>2. QED
    BY <1>3, <1>6, <2>1, QuietSteps
<1>7. CASE \/ \E k \in Keys : Read(k)
           \/ \E m \in Maximums : SetMaximum(m)
           \/ StartMaintenance \/ DrainReadBuffer \/ ClimbWindow \/ InvalidateAll \/ TakeSnapshot
           \/ EndInvalidateAll \/ UNCHANGED vars
  <2>1. cursor' = cursor
    BY <1>7 DEF Read, SetMaximum, StartMaintenance, DrainReadBuffer, ClimbWindow, InvalidateAll,
                TakeSnapshot, EndInvalidateAll, vars
  <2>2. QED
    BY <1>3, <1>7, <2>1, QuietSteps
<1>8. CASE \/ \E c \in Clients, k \in Keys, w \in Weights : Set(c, k, w)
           \/ \E c \in Clients, k \in Keys : Invalidate(c, k)
           \/ \E c \in Clients : Push(c)
  BY <1>1, <1>8, SetInOrder, InvalidateInOrder, PushInOrder
<1>9. CASE DrainWriteBuffer \/ EvictNode \/ DeleteNode
  BY <1>1, <1>9, RunInOrder, OutInOrder
<1>10. QED
  BY <1>4, <1>5, <1>6, <1>7, <1>8, <1>9 DEF Next, ClientStep, MaintenanceStep, Terminating

\* The books of an empty cache are in order.
LEMMA InitInOrder == Init => InOrder
<1> SUFFICES ASSUME Init PROVE InOrder
  OBVIOUS
<1>1. maximum \in Nat /\ policy = EmptyPolicy(maximum) /\ born = {} /\ Inv
  BY WriteBehindAssumption, InvInit DEF Init
<1>2. /\ \A n : n \notin Links(policy) /\ policy.dead = {}
      /\ \A n \in Nodes : policy.queue[n] = "window"
      /\ \A q \in {"window", "protected"} : policy.size[q] = 0
  BY <1>1, EmptyPolicySound
<1>3. \A t \in Tasks : t = NoTask
  BY <1>1, WhichTasks DEF Init, Inv, Typed
<1>4. OneByOne
  BY DEF Init, OneByOne, NoCursor, Cursor
<1>5. TasksPrompt
  BY <1>3 DEF TasksPrompt, NoTask, Introduces, Removes
<1>6. Announced = {} /\ Counted = {}
  BY <1>1 DEF Announced, Counted
<1>7. CountedLinked
  <2>1. cursor.evict = NoNode /\ NoNode \notin Nodes
    BY PolicyAssumption DEF Init, NoCursor, Cursor
  <2>2. QED
    BY <1>2, <1>6, <2>1 DEF CountedLinked
<1>8. Books(policy, weight, Counted)
  <2>1. \A q \in {"window", "protected"} : Region(policy, {}, q) = {}
    BY DEF Region
  <2>2. Sum(weight, {}) = 0
    BY FS_EmptySet, SumStep
  <2>3. 0 % Word = 0
    <3>1. 0 = Word * 0 + 0 /\ 0 \in 0..(Word - 1)
      BY PolicyAssumption
    <3>2. QED
      BY <3>1, RestUnique
  <2>4. QED
    BY <1>2, <1>6, <2>1, <2>2, <2>3 DEF Books
<1>9. QED
  BY <1>4, <1>5, <1>7, <1>8 DEF InOrder


\* A sum of weights is a word.
LEMMA SumsFit ==
    ASSUME Inv, OneGoroutine, NEW S, S \subseteq Nodes
    PROVE  Sum(weight, S) \in Nat /\ Sum(weight, S) % Word = Sum(weight, S)
<1> DEFINE R == Nodes \ S
<1>1. weight \in [Nodes -> Weights \cup {0}] /\ Weighs(weight)
  BY InvFacts DEF Inv, Typed
<1>2. Sum(weight, Nodes) < Word
  BY <1>1 DEF OneGoroutine
<1>3. S \cup R = Nodes /\ S \cap R = {} /\ R \subseteq Nodes
  OBVIOUS
<1> HIDE DEF R
<1>4. /\ IsFiniteSet(S) /\ IsFiniteSet(R) /\ Sum(weight, S) \in Nat /\ Sum(weight, R) \in Nat
      /\ \A n \in S \cup R : weight[n] \in Nat
  BY <1>1, <1>3, SumOfNodes
<1>5. Sum(weight, Nodes) = Sum(weight, S) + Sum(weight, R)
  BY <1>3, <1>4, SumUnion
<1> DEFINE s == Sum(weight, S)
<1>6. s \in 0..(Word - 1) /\ s = Word * 0 + s
  BY <1>2, <1>4, <1>5, PolicyAssumption
<1> HIDE DEF s
<1>7. s % Word = s
  BY <1>6, RestUnique
<1>8. QED
  BY <1>4, <1>7 DEF s

\* The total is the weight of what is counted, and nothing if that weighs nothing.
LEMMA CountedWeigh ==
    ASSUME Inv, OneGoroutine, NoneUnderWay
    PROVE  /\ policy.weighted = Sum(weight, Counted)
           /\ (\A n \in Counted : weight[n] = 0) => policy.weighted = 0
<1> DEFINE C == Counted
           c == Sum(weight, C)
           d == Sum(weight, policy.dead)
<1>1. /\ Announced = born /\ C = born \ policy.dead /\ policy.dead \subseteq born /\ born \subseteq Nodes
      /\ Weighs(weight)
  BY NodesAtRest, InvFacts
<1> HIDE DEF C
<1>2. C \cup policy.dead = born /\ C \cap policy.dead = {} /\ C \subseteq Nodes /\ policy.dead \subseteq Nodes
  BY <1>1
<1>3. /\ IsFiniteSet(C) /\ IsFiniteSet(policy.dead) /\ c \in Nat /\ d \in Nat
      /\ \A n \in C \cup policy.dead : weight[n] \in Nat
  BY <1>1, <1>2, SumOfNodes
<1>4. Sum(weight, born) = c + d
  BY <1>2, <1>3, SumUnion
<1>5. policy.weighted = (Sum(weight, born) - d) % Word
  BY <1>1 DEF Inv, Balanced
<1>6. c % Word = c
  BY <1>2, SumsFit
<1>7. (\A n \in C : weight[n] = 0) => c = 0
  BY <1>3, SumZero
<1> HIDE DEF c, d
<1>8. Sum(weight, born) - d = c
  BY <1>3, <1>4
<1>9. policy.weighted = c
  BY <1>5, <1>6, <1>8
<1>10. QED
  BY <1>7, <1>9 DEF c, C

\* The total is within the maximum when evictFromMain has come to its end, and the nodes that are
\* counted when InvalidateAll is at work are those of its snapshot.
Bounded ==
    /\ phase \in {"idle", "climb"} => policy.weighted <= maximum
    /\ phase = "discardNodes" => Counted \subseteq snapshot

\* Every step of a single goroutine keeps the total within the maximum.
LEMMA BoundedStep ==
    ASSUME Inv, OneGoroutine, InOrder, LeftBehind, Bounded, [Next]_vars PROVE Bounded'
<1>1. maximum \in Nat /\ born \subseteq Nodes /\ PolicySound(born, policy) /\ NoNode \notin Nodes
  BY InvFacts, PolicyAssumption DEF Inv
<1>2. ASSUME phase # "idle", writeBuffer = <<>> PROVE NoneUnderWay
  BY <1>2, OneTask DEF InOrder
<1>3. CASE \/ ClientStep \/ \E c \in Clients : Push(c)
           \/ UNCHANGED vars
  <2>1. CASE UNCHANGED vars
    <3>1. UNCHANGED <<phase, policy, maximum, snapshot, born, writeBuffer, pending>>
      BY <2>1 DEF vars
    <3>2. Counted' = Counted
      BY <3>1 DEF Counted, Announced, Tasks
    <3>3. QED
      BY <3>1, <3>2 DEF Bounded
  <2>2. CASE ClientStep \/ \E c \in Clients : Push(c)
    <3>1. phase = "idle" /\ UNCHANGED <<phase, policy, maximum>>
      BY <2>2 DEF ClientStep, Set, Invalidate, Read, Push, Ready, OneGoroutine, InOrder, OneByOne
    <3>2. QED
      BY <3>1 DEF Bounded
  <2>3. QED
    BY <1>3, <2>1, <2>2
<1>4. CASE \/ \E m \in Maximums : SetMaximum(m)
           \/ StartMaintenance \/ DrainReadBuffer \/ DrainWriteBuffer \/ EvictWindow \/ EvictMain
           \/ EvictNode \/ InvalidateAll
  <2>1. phase' \notin {"idle", "climb", "discardNodes"}
    <3>1. CASE EvictNode
      BY <3>1 DEF EvictNode, InOrder, OneByOne
    <3>2. CASE ~EvictNode
      BY <1>4, <3>2 DEF SetMaximum, StartMaintenance, DrainReadBuffer, DrainWriteBuffer, EvictWindow, EvictMain,
                  InvalidateAll, At
    <3>3. QED
      BY <3>1, <3>2
  <2>2. QED
    BY <2>1 DEF Bounded
<1>5. CASE EvictMainEnd
  <2>1. /\ phase' = "climb" /\ UNCHANGED <<policy, maximum>> /\ phase = "main" /\ cursor.evict = NoNode
        /\ policy.weighted <= maximum \/ cursor.victimQueue = "exhausted"
    BY <1>5 DEF EvictMainEnd, At
  <2>2. ASSUME cursor.victimQueue = "exhausted" PROVE policy.weighted = 0
    <3>1. \A n \in Links(policy) : ~Waiting(policy, cursor, n)
      BY <2>2 DEF Waiting, TurnOf, Queues
    <3>2. \A n \in Links(policy) : weight[n] = 0
      <4>1. \A n \in Links(policy) : n # NoNode
        BY <1>1, LinksAreBorn
      <4>2. QED
        BY <2>1, <3>1, <4>1 DEF LeftBehind, Sweeps
    <3>3. \A n \in Counted : n \in Links(policy)
      BY <1>1, <2>1, CountedKnown DEF InOrder, CountedLinked
    <3>4. NoneUnderWay
      BY <1>2, <2>1 DEF InOrder, OneByOne
    <3>5. QED
      BY <3>2, <3>3, <3>4, CountedWeigh
  <2>3. policy.weighted <= maximum
    BY <1>1, <2>1, <2>2
  <2>4. QED
    BY <2>1, <2>3 DEF Bounded
<1>6. CASE ClimbWindow
  <2>1. phase = "climb" /\ phase' = "idle" /\ maximum' = maximum
    BY <1>6 DEF ClimbWindow, At
  <2>2. policy'.weighted = policy.weighted
    BY <1>6, QuietSteps DEF Quiet, Moved, SameCount
  <2>3. QED
    BY <2>1, <2>2 DEF Bounded
<1>7. CASE TakeSnapshot
  <2>1. /\ phase' = "discardNodes" /\ phase = "discardTasks" /\ writeBuffer = <<>>
        /\ snapshot' = {map[k] : k \in Keys} \ {NoNode}
        /\ UNCHANGED <<policy, born, pending, writeBuffer>>
    BY <1>7 DEF TakeSnapshot, At
  <2>2. Counted' = Counted
    BY <2>1 DEF Counted, Announced, Tasks
  <2>3. \A n \in Counted : n \in born /\ InMap(n)
    BY <1>2, <2>1, NodesAtRest
  <2>4. \A n \in born : InMap(n) => n \in snapshot'
    BY <1>1, <2>1 DEF InMap, Inv, Typed
  <2>5. QED
    BY <2>1, <2>2, <2>3, <2>4 DEF Bounded
<1>8. CASE DeleteNode
  <2>1. PICK n \in snapshot :
          /\ policy' = IF map[keyOf[n]] = n THEN Delete(policy, weight, n) ELSE policy
          /\ snapshot' = snapshot \ {n}
    BY <1>8 DEF DeleteNode
  <2>2. phase = "discardNodes" /\ phase' = phase /\ UNCHANGED <<born, pending, writeBuffer>>
    BY <1>8 DEF DeleteNode, At
  <2>3. Announced' = Announced /\ Counted \subseteq snapshot
    BY <2>2 DEF Announced, Tasks, Bounded
  <2>4. NoneUnderWay /\ n \in born
    BY <1>2, <2>2 DEF InOrder, OneByOne, Inv, Typed
  <2>5. Counted' \subseteq Counted /\ n \notin Counted'
    <3>1. CASE map[keyOf[n]] = n
      <4>1. policy'.dead = policy.dead \cup {n}
        BY <1>1, <2>1, <2>4, <3>1, DeleteSound, InvFacts DEF Dies
      <4>2. QED
        BY <2>3, <4>1 DEF Counted
    <3>2. CASE map[keyOf[n]] # n
      BY <2>1, <2>3, <2>4, <3>2, NodesAtRest DEF Counted, InMap
    <3>3. QED
      BY <3>1, <3>2
  <2>6. QED
    BY <2>1, <2>2, <2>3, <2>5 DEF Bounded
<1>9. CASE EndInvalidateAll
  <2>1. phase = "discardNodes" /\ phase' = "idle" /\ snapshot = {} /\ UNCHANGED <<policy, maximum>>
    BY <1>9 DEF EndInvalidateAll, At, InOrder, OneByOne
  <2>2. NoneUnderWay /\ Counted = {}
    BY <1>2, <2>1 DEF InOrder, OneByOne, Bounded
  <2>3. policy.weighted = 0
    BY <2>2, CountedWeigh
  <2>4. QED
    BY <1>1, <2>1, <2>3 DEF Bounded
<1>10. QED
  BY <1>3, <1>4, <1>5, <1>6, <1>7, <1>8, <1>9 DEF Next, MaintenanceStep, Terminating


\* What holds of a cache that one goroutine uses.
LEMMA OneGoroutineHolds ==
    ASSUME OneGoroutine PROVE Spec => [](Inv /\ InOrder /\ LeftBehind /\ Bounded)
<1>1. Init => LeftBehind
  BY DEF Init, LeftBehind
<1>2. Init => Bounded
  <2> SUFFICES ASSUME Init PROVE Bounded
    OBVIOUS
  <2>1. phase = "idle" /\ policy.weighted = 0 /\ maximum \in Nat
    BY EmptyPolicySound, WriteBehindAssumption DEF Init
  <2>2. QED
    BY <2>1 DEF Bounded
<1>3. Inv /\ InOrder /\ LeftBehind /\ Bounded /\ [Next]_vars => InOrder' /\ LeftBehind' /\ Bounded'
  BY InOrderStep, LeftBehindStep, BoundedStep DEF InOrder
<1>4. QED
  BY <1>1, <1>2, <1>3, InitInOrder, InvHolds, PTL DEF Spec

\* When a cache that one goroutine uses has settled, no task is on its way, and what is linked is what
\* is counted and what is in the map.
LEMMA SettledNodes ==
    ASSUME Inv, InOrder, Settled
    PROVE  /\ NoneUnderWay
           /\ \A n : n \in Links(policy) <=> n \in Counted
           /\ Links(policy) = {map[k] : k \in Keys} \ {NoNode}
<1> DEFINE M == {map[k] : k \in Keys} \ {NoNode}
<1>1. NoneUnderWay
  BY WhichTasks DEF Inv, Settled, NoneUnderWay
<1>2. cursor.evict = NoNode
  BY DEF Settled, InOrder, OneByOne
<1>3. \A n : n \in Counted <=> n \in born /\ n \notin policy.dead
  BY <1>1, NodesAtRest
<1>4. \A n : n \in Links(policy) <=> n \in Counted
  BY <1>2, CountedKnown, PolicyAssumption DEF InOrder, CountedLinked
<1>5. \A n \in born : InMap(n) <=> n \notin policy.dead
  BY <1>1, NodesAtRest
<1>6. ASSUME NEW n \in M PROVE n \in Links(policy)
  <2>1. n \in born /\ InMap(n)
    BY <1>6 DEF Inv, MapHoldsTheAlive, Alive, InMap
  <2>2. QED
    BY <1>3, <1>4, <1>5, <2>1
<1>7. ASSUME NEW n \in Links(policy) PROVE n \in M
  <2>1. n \in born /\ InMap(n)
    BY <1>3, <1>4, <1>5
  <2>2. keyOf[n] \in Keys /\ n # NoNode
    BY <2>1, InvFacts DEF Inv, Typed
  <2>3. QED
    BY <2>1, <2>2 DEF InMap
<1>8. Links(policy) = M
  <2> HIDE DEF M
  <2>1. QED
    BY <1>6, <1>7
<1>9. QED
  BY <1>1, <1>4, <1>8

\* When one goroutine uses the cache, and the executor is the caller, the deques hold what is in the map
\* and the sizes of the regions are the weights of what is in their deques, whenever it has settled:
\* whatever the calls, and whatever maintenance has moved, promoted, trimmed, resized or evicted.
THEOREM BooksAreExact ==
    ASSUME OneGoroutine PROVE Spec => []BooksExact
<1>1. ASSUME Inv, InOrder, LimitsBalance PROVE BooksExact
  <2> SUFFICES ASSUME Settled
               PROVE  /\ UNION {ToSet(policy.deque[q]) : q \in Queues} = {map[k] : k \in Keys} \ {NoNode}
                      /\ \A q \in {"window", "protected"} : policy.size[q] = Weigh(ToSet(policy.deque[q]))
    BY <1>1 DEF BooksExact
  <2>1. UNION {ToSet(policy.deque[q]) : q \in Queues} = {map[k] : k \in Keys} \ {NoNode}
    BY <1>1, SettledNodes DEF Links
  <2>2. ASSUME NEW q \in {"window", "protected"} PROVE policy.size[q] = Weigh(ToSet(policy.deque[q]))
    <3> DEFINE S == ToSet(policy.deque[q])
    <3>1. q \in Queues
      BY DEF Queues
    <3>2. PolicySound(born, policy) /\ Counted \subseteq Nodes /\ \A n : n \in Links(policy) <=> n \in Counted
      BY <1>1, SettledNodes, CountedKnown DEF InOrder
    <3>3. \A n : n \in Region(policy, Counted, q) <=> n \in S
      <4>1. ASSUME NEW n \in S PROVE n \in Counted /\ policy.queue[n] = q
        BY <3>1, <3>2, LinksOf DEF PolicySound, DequesSound
      <4>2. ASSUME NEW n \in Counted, policy.queue[n] = q PROVE n \in S
        BY <3>1, <3>2, <4>2, LinksOf DEF PolicySound, DequesSound
      <4>3. QED
        BY <4>1, <4>2 DEF Region
    <3> HIDE DEF S
    <3>4. Region(policy, Counted, q) = S /\ S \subseteq Nodes
      BY <3>2, <3>3 DEF Region
    <3>5. policy.size[q] = Sum(weight, S) % Word
      BY <1>1, <3>4 DEF InOrder, Books
    <3>6. Sum(weight, S) % Word = Sum(weight, S)
      BY <1>1, <3>4, SumsFit
    <3>7. Weigh(S) = Sum(weight, S)
      BY DEF Weigh, Sum
    <3>8. QED
      BY <3>5, <3>6, <3>7 DEF S
  <2>3. QED
    BY <2>1, <2>2
<1>2. QED
  BY <1>1, OneGoroutineHolds, LimitsAreBalanced, PTL

\* And it holds no more than its maximum: the loop of evictFromMain gives up only when
\* everything that is left weighs nothing.
THEOREM SettledWithinMaximum ==
    ASSUME OneGoroutine PROVE Spec => []BoundedWhenSettled
<1>1. Bounded => BoundedWhenSettled
  BY DEF Bounded, BoundedWhenSettled, Settled
<1>2. QED
  BY <1>1, OneGoroutineHolds, PTL

================================================================================
