-------------------------------- MODULE Folding --------------------------------
(***************************************************************************)
(* Induction for the folds of the other modules: sums over finite sets,    *)
(* and policies that a sequence of nodes is applied to.  The library's     *)
(* MapThenFoldSet, by which all of these are defined, chooses a recursive  *)
(* function on the subsets of a set; here is that there is one, and what   *)
(* holds of its values.  A fold is an instance of this module.             *)
(***************************************************************************)
EXTENDS Integers, WellFoundedInduction, TLAPS

CONSTANTS
    Step(_, _, _),  \* Step(c, acc, x): what x makes of the result so far, in context c
    Good(_, _),     \* Good(c, acc): a property of results
    Pick(_)         \* the element of a set that is applied last

\* f folds the subsets of D.
IsFold(f, c, base, D) ==
    /\ DOMAIN f = SUBSET D
    /\ \A s \in SUBSET D :
         f[s] = IF s = {} THEN base ELSE Step(c, f[s \ {Pick(s)}], Pick(s))

\* The subsets of D have ranks, and one without its last element has a lower one.
Descends(D, rank, top) ==
    /\ top \in Nat /\ rank \in [SUBSET D -> 0..top]
    /\ \A s \in SUBSET D : s # {} => Pick(s) \in s /\ rank[s \ {Pick(s)}] < rank[s]

\* A set of numbers has a least one.
LEMMA LeastNumber ==
    ASSUME NEW T, T \subseteq Nat, T # {} PROVE \E n \in T : \A m \in T : n <= m
<1>1. PICK n \in T : \A m \in T : ~(<<m, n>> \in OpToRel(<, Nat))
  BY NatLessThanWellFounded, WFMin
<1>2. ASSUME NEW m \in T PROVE n <= m
  <2>1. m \in Nat /\ n \in Nat
    OBVIOUS
  <2>2. ~(m < n)
    BY <1>1, <2>1 DEF OpToRel
  <2>3. QED
    BY <2>1, <2>2
<1>3. QED
  BY <1>2

\* There is such a function.  That the base is good is not needed for it: it names, for the
\* provers, the base whose fold is meant.
THEOREM FoldExists ==
    ASSUME NEW c, NEW base, Good(c, base), NEW D, NEW rank, NEW top, Descends(D, rank, top)
    PROVE  \E f : IsFold(f, c, base, D)
<1> DEFINE Upto(g, k) == \A s \in SUBSET D :
                           rank[s] <= k => g[s] = IF s = {} THEN base
                                                  ELSE Step(c, g[s \ {Pick(s)}], Pick(s))
           Missing == {k \in Nat : ~\E g : Upto(g, k)}
<1>1. /\ \A s \in SUBSET D : rank[s] \in Nat /\ rank[s] <= top
      /\ \A s \in SUBSET D : s # {} => s \ {Pick(s)} \in SUBSET D /\ rank[s \ {Pick(s)}] < rank[s]
      /\ top \in Nat
  BY DEF Descends
<1>2. ASSUME Missing # {} PROVE FALSE
  <2>1. PICK k \in Missing : \A j \in Missing : k <= j
    BY <1>2, LeastNumber
  <2>2. CASE k = 0
    <3> DEFINE h == [s \in SUBSET D |-> base]
    <3>1. ASSUME NEW s \in SUBSET D, rank[s] <= 0, s # {} PROVE FALSE
      <4>1. rank[s] \in Nat /\ rank[s \ {Pick(s)}] \in Nat /\ rank[s \ {Pick(s)}] < rank[s]
        BY <1>1, <3>1
      <4>2. QED
        BY <3>1, <4>1
    <3>2. Upto(h, 0)
      BY <3>1
    <3> HIDE DEF h
    <3>3. QED
      BY <2>1, <2>2, <3>2
  <2>3. CASE k # 0
    <3>1. k \in Nat /\ k - 1 \in Nat /\ k - 1 \notin Missing
      <4>1. k \in Nat /\ k - 1 \in Nat /\ ~(k <= k - 1)
        BY <2>3
      <4>2. QED
        BY <2>1, <4>1
    <3>2. PICK g : Upto(g, k - 1)
      BY <3>1
    <3> DEFINE h == [s \in SUBSET D |-> IF rank[s] <= k - 1 THEN g[s]
                                        ELSE IF s = {} THEN base
                                        ELSE Step(c, g[s \ {Pick(s)}], Pick(s))]
    <3>3. \A s \in SUBSET D : rank[s] <= k - 1 => h[s] = g[s]
      OBVIOUS
    <3>4. \A s \in SUBSET D : ~(rank[s] <= k - 1) =>
             h[s] = IF s = {} THEN base ELSE Step(c, g[s \ {Pick(s)}], Pick(s))
      OBVIOUS
    <3> HIDE DEF h
    <3>5. ASSUME NEW s \in SUBSET D, rank[s] <= k
          PROVE  h[s] = IF s = {} THEN base ELSE Step(c, h[s \ {Pick(s)}], Pick(s))
      <4>1. s # {} => h[s \ {Pick(s)}] = g[s \ {Pick(s)}]
        <5> SUFFICES ASSUME s # {} PROVE h[s \ {Pick(s)}] = g[s \ {Pick(s)}]
          OBVIOUS
        <5> DEFINE t == s \ {Pick(s)}
        <5>1. t \in SUBSET D /\ rank[t] \in Nat /\ rank[s] \in Nat /\ rank[t] < rank[s]
          BY <1>1
        <5>2. rank[t] <= k - 1
          BY <3>1, <3>5, <5>1
        <5>3. QED
          BY <3>3, <5>1, <5>2
      <4>2. h[s] = IF s = {} THEN base ELSE Step(c, g[s \ {Pick(s)}], Pick(s))
        BY <3>2, <3>3, <3>4
      <4>3. QED
        BY <4>1, <4>2
    <3>6. Upto(h, k)
      BY <3>5
    <3>7. QED
      BY <2>1, <3>6
  <2>4. QED
    BY <2>2, <2>3
<1>3. PICK g : Upto(g, top)
  BY <1>1, <1>2
<1> DEFINE f == [s \in SUBSET D |-> g[s]]
<1>4. \A s \in SUBSET D : f[s] = g[s]
  OBVIOUS
<1>5. DOMAIN f = SUBSET D
  OBVIOUS
<1> HIDE DEF f
<1>6. IsFold(f, c, base, D)
  BY <1>1, <1>3, <1>4, <1>5 DEF IsFold
<1>7. QED
  BY <1>6

\* Its values are good, if the first is and every step makes a good one of a good one.
THEOREM FoldKeeps ==
    ASSUME NEW c, NEW base, NEW D, NEW rank, NEW top, Descends(D, rank, top),
           NEW f, IsFold(f, c, base, D),
           Good(c, base),
           \A acc, x : x \in D /\ Good(c, acc) => Good(c, Step(c, acc, x))
    PROVE  \A s \in SUBSET D : Good(c, f[s])
<1> DEFINE Bad == {k \in Nat : \E s \in SUBSET D : rank[s] = k /\ ~Good(c, f[s])}
<1>1. /\ \A s \in SUBSET D : rank[s] \in Nat
      /\ \A s \in SUBSET D : s # {} => /\ Pick(s) \in D /\ s \ {Pick(s)} \in SUBSET D
                                       /\ rank[s \ {Pick(s)}] < rank[s]
  BY DEF Descends
<1>2. ASSUME Bad # {} PROVE FALSE
  <2>1. PICK k \in Bad : \A j \in Bad : k <= j
    BY <1>2, LeastNumber
  <2>2. PICK s \in SUBSET D : rank[s] = k /\ ~Good(c, f[s])
    OBVIOUS
  <2>3. s # {}
    BY <2>2 DEF IsFold
  <2>4. Good(c, f[s \ {Pick(s)}])
    <3> DEFINE t == s \ {Pick(s)}
    <3>1. t \in SUBSET D /\ rank[t] \in Nat /\ rank[t] < k /\ k \in Nat
      BY <1>1, <2>2, <2>3
    <3>2. \A j \in Nat : j < k => j \notin Bad
      <4>1. \A j \in Bad : k <= j /\ j \in Nat /\ k \in Nat
        BY <2>1
      <4> HIDE DEF Bad
      <4>2. QED
        BY <4>1
    <3>3. QED
      BY <3>1, <3>2
  <2>5. f[s] = Step(c, f[s \ {Pick(s)}], Pick(s))
    BY <2>3 DEF IsFold
  <2>6. QED
    BY <1>1, <2>2, <2>3, <2>4, <2>5
<1>3. QED
  BY <1>1, <1>2

\* Two of them agree on the sets they have in common, if the steps do.
THEOREM FoldAgrees ==
    ASSUME NEW c, NEW d, NEW base, NEW D, NEW E, NEW rank, NEW top, Descends(D, rank, top),
           NEW f, IsFold(f, c, base, D), NEW g, IsFold(g, d, base, E),
           \A acc, x : x \in D \cap E => Step(c, acc, x) = Step(d, acc, x)
    PROVE  \A s \in SUBSET (D \cap E) : f[s] = g[s]
<1> DEFINE Bad == {k \in Nat : \E s \in SUBSET (D \cap E) : rank[s] = k /\ f[s] # g[s]}
<1>1. \A s \in SUBSET (D \cap E) :
         /\ s \in SUBSET D /\ s \in SUBSET E /\ rank[s] \in Nat
         /\ s # {} => /\ Pick(s) \in D \cap E /\ s \ {Pick(s)} \in SUBSET (D \cap E)
                      /\ rank[s \ {Pick(s)}] < rank[s]
  BY DEF Descends
<1>2. ASSUME Bad # {} PROVE FALSE
  <2>1. PICK k \in Bad : \A j \in Bad : k <= j
    BY <1>2, LeastNumber
  <2>2. PICK s \in SUBSET (D \cap E) : rank[s] = k /\ f[s] # g[s]
    OBVIOUS
  <2>3. s # {}
    BY <1>1, <2>2 DEF IsFold
  <2>4. f[s \ {Pick(s)}] = g[s \ {Pick(s)}]
    <3> DEFINE t == s \ {Pick(s)}
    <3>1. t \in SUBSET (D \cap E) /\ rank[t] \in Nat /\ rank[t] < k /\ k \in Nat
      BY <1>1, <2>2, <2>3
    <3>2. \A j \in Nat : j < k => j \notin Bad
      <4>1. \A j \in Bad : k <= j /\ j \in Nat /\ k \in Nat
        BY <2>1
      <4> HIDE DEF Bad
      <4>2. QED
        BY <4>1
    <3>3. QED
      BY <3>1, <3>2
  <2>5. /\ f[s] = Step(c, f[s \ {Pick(s)}], Pick(s))
        /\ g[s] = Step(d, g[s \ {Pick(s)}], Pick(s))
    BY <1>1, <2>3 DEF IsFold
  <2>6. QED
    BY <1>1, <2>2, <2>3, <2>4, <2>5
<1>3. QED
  BY <1>1, <1>2

\* What holds of the empty set, and of every set if it holds without its last element,
\* holds of all.
THEOREM RankInduction ==
    ASSUME NEW D, NEW rank, NEW top, Descends(D, rank, top), NEW T, {} \in T,
           \A s \in SUBSET D : s # {} /\ s \ {Pick(s)} \in T => s \in T
    PROVE  \A s \in SUBSET D : s \in T
<1> DEFINE Bad == {k \in Nat : \E s \in SUBSET D : rank[s] = k /\ s \notin T}
<1>1. /\ \A s \in SUBSET D : rank[s] \in Nat
      /\ \A s \in SUBSET D : s # {} => s \ {Pick(s)} \in SUBSET D /\ rank[s \ {Pick(s)}] < rank[s]
  BY DEF Descends
<1>2. ASSUME Bad # {} PROVE FALSE
  <2>1. PICK k \in Bad : \A j \in Bad : k <= j
    BY <1>2, LeastNumber
  <2>2. PICK s \in SUBSET D : rank[s] = k /\ s \notin T
    OBVIOUS
  <2>3. s # {}
    BY <2>2
  <2> DEFINE t == s \ {Pick(s)}
  <2>4. t \in SUBSET D /\ rank[t] \in Nat /\ rank[t] < k /\ k \in Nat
    BY <1>1, <2>2, <2>3
  <2>5. rank[t] \notin Bad
    <3>1. \A j \in Bad : k <= j /\ j \in Nat /\ k \in Nat
      BY <2>1
    <3> HIDE DEF Bad, t
    <3>2. QED
      BY <2>4, <3>1
  <2>6. t \in T
    BY <2>4, <2>5
  <2>7. QED
    BY <2>2, <2>3, <2>6
<1>3. QED
  BY <1>1, <1>2

================================================================================
