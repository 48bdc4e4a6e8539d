---------------------------- MODULE DataTheorems ----------------------------
(***************************************************************************)
(* What the proofs need of the data the components hold: induction over    *)
(* the naturals and over the parts of a finite set, stated with a set in   *)
(* the place of a predicate; that a fold over a finite set, which is the   *)
(* choice of a recursive function on its parts, exists; and what the sum   *)
(* of a function over a finite set is, whichever element it takes first.   *)
(***************************************************************************)
EXTENDS Lists, SequencesExt, SequenceTheorems, FiniteSetTheorems, WellFoundedInduction, TLAPS

\* Induction, with a set in the place of a predicate.
LEMMA Induction ==
    ASSUME NEW T, 0 \in T, \A n \in Nat : n \in T => n + 1 \in T
    PROVE  \A n \in Nat : n \in T
  <1> SUFFICES ASSUME NEW m \in Nat, m \notin T PROVE FALSE
    OBVIOUS
  <1> DEFINE Bad == {n \in Nat : n \notin T}
  <1>1. PICK n \in Bad : \A k \in Bad : <<k, n>> \notin OpToRel(<, Nat)
    BY Zenon, NatLessThanWellFounded, WFMin
  <1>2. n # 0 /\ n - 1 \in Nat /\ (n - 1) + 1 = n
    OBVIOUS
  <1>3. n - 1 \in T
    <2>1. \A k \in Nat : k < n => <<k, n>> \in OpToRel(<, Nat)
      BY Zenon DEF OpToRel
    <2>2. n - 1 < n
      BY <1>2
    <2>3. QED
      BY <1>1, <1>2, <2>1, <2>2
  <1>4. QED
    BY <1>2, <1>3

LEMMA FiniteInduction ==
    ASSUME NEW S, IsFiniteSet(S), NEW P,
           {} \in P, \A s \in P : \A x \in S \ s : s \subseteq S => s \cup {x} \in P
    PROVE  S \in P
  <1> DEFINE T == {n \in Nat : \A s \in SUBSET S : Cardinality(s) = n => s \in P}
  <1>1. \A s \in SUBSET S : IsFiniteSet(s) /\ Cardinality(s) \in Nat
    BY FS_Subset, FS_CardinalityType
  <1>2. 0 \in T
    BY <1>1, FS_EmptySet
  <1>3. ASSUME NEW n \in Nat, n \in T PROVE n + 1 \in T
    <2> SUFFICES ASSUME NEW s \in SUBSET S, Cardinality(s) = n + 1 PROVE s \in P
      OBVIOUS
    <2>1. s # {}
      BY FS_EmptySet
    <2>2. PICK x \in s : TRUE
      BY <2>1
    <2>3. Cardinality(s \ {x}) = n /\ s \ {x} \in SUBSET S
      BY <1>1, FS_RemoveElement
    <2>4. s \ {x} \in P
      BY <1>3, <2>3
    <2>5. (s \ {x}) \cup {x} = s /\ x \in S \ (s \ {x})
      BY <2>2
    <2>6. QED
      BY <2>3, <2>4, <2>5
  <1> HIDE DEF T
  <1>4. \A n \in Nat : n \in T
    BY <1>2, <1>3, Induction
  <1>5. QED
    BY <1>1, <1>4 DEF T

\* A recursion over the parts of a finite set S that takes element C[s] out of
\* a part s and applies G to what the rest gives and that element.
IsFold(S, b, C, G, g) ==
    \A s \in SUBSET S : g[s] = IF s = {} THEN b ELSE G[<<g[s \ {C[s]}], C[s]>>]

LEMMA FoldExists ==
    ASSUME NEW S, IsFiniteSet(S), NEW X, NEW b \in X, NEW C, NEW G \in [X \X S -> X],
           \A s \in SUBSET S : s # {} => C[s] \in s
    PROVE  \E g \in [SUBSET S -> X] : IsFold(S, b, C, G, g)
  <1> DEFINE Small(n) == {s \in SUBSET S : Cardinality(s) <= n}
             Value(g, s) == IF s = {} THEN b ELSE G[<<g[s \ {C[s]}], C[s]>>]
             Upto(n, g) == \A s \in Small(n) : g[s] = Value(g, s)
             T == {n \in Nat : \E g \in [SUBSET S -> X] : Upto(n, g)}
  <1>1. \A s \in SUBSET S : IsFiniteSet(s) /\ Cardinality(s) \in Nat /\ Cardinality(s) <= Cardinality(S)
    BY FS_Subset, FS_CardinalityType
  <1>2. 0 \in T
    <2> DEFINE g == [s \in SUBSET S |-> b]
    <2>1. Small(0) = {{}}
      BY <1>1, FS_EmptySet
    <2>2. g \in [SUBSET S -> X] /\ Upto(0, g)
      BY <2>1
    <2>3. QED
      BY <2>2
  <1>3. ASSUME NEW n \in Nat, n \in T PROVE n + 1 \in T
    <2>1. PICK g \in [SUBSET S -> X] : Upto(n, g)
      BY <1>3
    <2> DEFINE h == [s \in SUBSET S |-> Value(g, s)]
    <2>2. h \in [SUBSET S -> X]
      <3> SUFFICES ASSUME NEW s \in SUBSET S, s # {} PROVE G[<<g[s \ {C[s]}], C[s]>>] \in X
        OBVIOUS
      <3>1. C[s] \in S /\ s \ {C[s]} \in SUBSET S
        OBVIOUS
      <3>2. QED
        BY <3>1
    <2>3. \A s \in Small(n) : h[s] = g[s]
      BY <2>1
    <2>4. ASSUME NEW s \in Small(n + 1), s # {} PROVE s \ {C[s]} \in Small(n)
      <3>1. C[s] \in s
        BY <2>4
      <3>2. Cardinality(s \ {C[s]}) = Cardinality(s) - 1
        BY <1>1, <3>1, FS_RemoveElement
      <3>3. QED
        BY <1>1, <3>2
    <2>5. \A s \in Small(n + 1) : h[s] = Value(h, s)
      <3> SUFFICES ASSUME NEW s \in Small(n + 1) PROVE h[s] = Value(h, s)
        OBVIOUS
      <3>1. CASE s = {}
        BY <3>1
      <3>2. CASE s # {}
        <4>1. s \ {C[s]} \in Small(n)
          BY <2>4, <3>2
        <4>2. h[s \ {C[s]}] = g[s \ {C[s]}]
          BY <2>3, <4>1
        <4>3. h[s] = G[<<g[s \ {C[s]}], C[s]>>]
          BY <3>2
        <4> HIDE DEF h
        <4>4. QED
          BY <3>2, <4>2, <4>3
      <3>3. QED
        BY <3>1, <3>2
    <2> HIDE DEF h, Value
    <2>6. QED
      BY <2>2, <2>5
  <1> HIDE DEF T
  <1>4. Cardinality(S) \in T
    BY <1>1, <1>2, <1>3, Induction
  <1>5. PICK g \in [SUBSET S -> X] : Upto(Cardinality(S), g)
    BY <1>4 DEF T
  <1>6. SUBSET S = Small(Cardinality(S))
    BY <1>1
  <1>7. IsFold(S, b, C, G, g)
    BY <1>5, <1>6 DEF IsFold
  <1>8. QED
    BY <1>7

\* The least member of a set of numbers.
LEMMA FirstOf ==
    ASSUME NEW K \in SUBSET Nat, K # {}
    PROVE  Min(K) \in K /\ \A k \in K : Min(K) <= k
  <1>1. PICK m \in K : \A k \in K : <<k, m>> \notin OpToRel(<, Nat)
    BY Zenon, NatLessThanWellFounded, WFMin
  <1>2. \A k \in K : k \in Nat
    OBVIOUS
  <1>3. \A k \in K : ~(k < m)
    BY Zenon, <1>1, <1>2 DEF OpToRel
  <1>4. \A k \in K : m <= k
    BY <1>2, <1>3
  <1>5. QED
    BY <1>4 DEF Min

\* The greatest member of a bounded set of numbers.
LEMMA LastOf ==
    ASSUME NEW n \in Nat, NEW K \in SUBSET (1..n), K # {}
    PROVE  Max(K) \in K /\ \A k \in K : k <= Max(K)
  <1> DEFINE T == {m \in Nat : \A s \in SUBSET (1..m) : s # {} => \E x \in s : \A y \in s : x >= y}
  <1>1. 0 \in T
    <2>1. 1..0 = {}
      OBVIOUS
    <2>2. QED
      BY <2>1
  <1>2. ASSUME NEW m \in Nat, m \in T PROVE m + 1 \in T
    <2> SUFFICES ASSUME NEW s \in SUBSET (1..(m + 1)), s # {}
                 PROVE  \E x \in s : \A y \in s : x >= y
      OBVIOUS
    <2>1. CASE m + 1 \in s
      BY <2>1
    <2>2. CASE m + 1 \notin s
      <3>1. \A x \in s : x \in 1..m
        BY <2>2
      <3>2. QED
        BY <1>2, <3>1
    <2>3. QED
      BY <2>1, <2>2
  <1> HIDE DEF T
  <1>3. n \in T
    BY <1>1, <1>2, Induction
  <1>4. \E x \in K : \A y \in K : x >= y
    BY <1>3 DEF T
  <1>5. Max(K) \in K /\ \A y \in K : Max(K) >= y
    BY <1>4 DEF Max
  <1>6. QED
    BY <1>5

\* The part a fold over a sequence has reached, and its last index.
LEMMA LastOfPrefix ==
    ASSUME NEW n \in Nat
    PROVE  /\ \A s \in SUBSET (1..n) : s # {} => Max(s) \in s
           /\ \A i \in 1..n : Max(1..i) = i /\ (1..i) \ {i} = 1..(i - 1) /\ 1..i # {}
           /\ IsFiniteSet(1..n) /\ 1..0 = {}
  <1>0. IsFiniteSet(1..n)
    BY FS_Interval
  <1>1. \A s \in SUBSET (1..n) : s # {} => Max(s) \in s
    BY LastOf
  <1>2. ASSUME NEW i \in 1..n PROVE Max(1..i) = i /\ (1..i) \ {i} = 1..(i - 1) /\ 1..i # {}
    <2>1. i \in 1..i /\ \A y \in 1..i : i >= y
      OBVIOUS
    <2>2. \A x \in 1..i : (\A y \in 1..i : x >= y) => x = i
      OBVIOUS
    <2>3. Max(1..i) = i
      BY <2>1, <2>2 DEF Max
    <2>4. (1..i) \ {i} = 1..(i - 1)
      OBVIOUS
    <2>5. QED
      BY <2>1, <2>3, <2>4
  <1>3. QED
    BY <1>0, <1>1, <1>2

Pick(s) == CHOOSE x \in s : TRUE

\* The recursion behind a sum.
Sums(f, S, g) ==
    g = [s \in SUBSET S |-> IF s = {} THEN 0 ELSE f[Pick(s)] + g[s \ {Pick(s)}]]

LEMMA SumIs == ASSUME NEW f, NEW S PROVE SumFunctionOnSet(f, S) = (CHOOSE g : Sums(f, S, g))[S]
  BY DEF SumFunctionOnSet, FoldFunctionOnSet, MapThenFoldSet, Sums, Pick

LEMMA PickIn == ASSUME NEW s, s # {} PROVE Pick(s) \in s
  BY DEF Pick

\* There is such a recursion, with integers as values.
LEMMA SumsExist ==
    ASSUME NEW f, NEW S, IsFiniteSet(S), \A x \in S : f[x] \in Int
    PROVE  \E g \in [SUBSET S -> Int] : Sums(f, S, g)
  <1> DEFINE C == [s \in SUBSET S |-> Pick(s)]
             G == [u \in Int \X S |-> f[u[2]] + u[1]]
  <1>1. \A s \in SUBSET S : s # {} => C[s] = Pick(s) /\ Pick(s) \in s
    BY PickIn
  <1>2. G \in [Int \X S -> Int]
    OBVIOUS
  <1>3. \A n \in Int, x \in S : G[<<n, x>>] = f[x] + n
    OBVIOUS
  <1> HIDE DEF C, G
  <1>4. PICK g \in [SUBSET S -> Int] :
           \A s \in SUBSET S : g[s] = IF s = {} THEN 0 ELSE G[<<g[s \ {C[s]}], C[s]>>]
    <2>1. PICK X, z : X = Int /\ z = 0
      OBVIOUS
    <2>2. G \in [X \X S -> X] /\ z \in X /\ \A s \in SUBSET S : s # {} => C[s] \in s
      BY <1>1, <1>2, <2>1
    <2>3. \E g \in [SUBSET S -> X] : IsFold(S, z, C, G, g)
      BY <2>2, FoldExists
    <2>4. QED
      BY <2>1, <2>3 DEF IsFold
  <1>5. ASSUME NEW s \in SUBSET S
        PROVE  g[s] = IF s = {} THEN 0 ELSE f[Pick(s)] + g[s \ {Pick(s)}]
    <2>1. CASE s = {}
      BY <1>4, <2>1
    <2>2. CASE s # {}
      <3>1. g[s \ {Pick(s)}] \in Int /\ Pick(s) \in S
        BY <1>1, <2>2
      <3>2. g[s] = G[<<g[s \ {Pick(s)}], Pick(s)>>]
        BY <1>1, <1>4, <2>2
      <3>3. QED
        BY <1>3, <2>2, <3>1, <3>2
    <2>3. QED
      BY <2>1, <2>2
  <1>6. QED
    BY <1>5 DEF Sums

\* Two of them agree where both are defined.
LEMMA SumsAgree ==
    ASSUME NEW f, NEW S, NEW R, IsFiniteSet(S), R \subseteq S, NEW g, NEW h, Sums(f, S, g), Sums(f, R, h)
    PROVE  \A s \in SUBSET R : g[s] = h[s]
  <1> DEFINE T == {n \in Nat : \A s \in SUBSET R : Cardinality(s) = n => g[s] = h[s]}
  <1>1. \A s \in SUBSET R : IsFiniteSet(s) /\ Cardinality(s) \in Nat
    BY FS_Subset, FS_CardinalityType
  <1>2. \A s \in SUBSET R :
          /\ g[s] = IF s = {} THEN 0 ELSE f[Pick(s)] + g[s \ {Pick(s)}]
          /\ h[s] = IF s = {} THEN 0 ELSE f[Pick(s)] + h[s \ {Pick(s)}]
    <2>1. \A s \in SUBSET R : s \in SUBSET S
      OBVIOUS
    <2>2. \A s \in SUBSET R : g[s] = IF s = {} THEN 0 ELSE f[Pick(s)] + g[s \ {Pick(s)}]
      BY <2>1 DEF Sums
    <2>3. \A s \in SUBSET R : h[s] = IF s = {} THEN 0 ELSE f[Pick(s)] + h[s \ {Pick(s)}]
      BY DEF Sums
    <2>4. QED
      BY <2>2, <2>3
  <1>3. 0 \in T
    BY <1>1, <1>2, FS_EmptySet
  <1>4. ASSUME NEW n \in Nat, n \in T PROVE n + 1 \in T
    <2> SUFFICES ASSUME NEW s \in SUBSET R, Cardinality(s) = n + 1 PROVE g[s] = h[s]
      OBVIOUS
    <2>1. s # {} /\ Pick(s) \in s
      BY FS_EmptySet, PickIn
    <2>2. s \ {Pick(s)} \in SUBSET R /\ Cardinality(s \ {Pick(s)}) = n
      <3>1. Cardinality(s \ {Pick(s)}) = Cardinality(s) - 1
        BY <1>1, <2>1, FS_RemoveElement
      <3>2. QED
        BY <3>1
    <2>3. g[s \ {Pick(s)}] = h[s \ {Pick(s)}]
      BY <1>4, <2>2
    <2>4. QED
      BY <1>2, <2>1, <2>3
  <1> HIDE DEF T
  <1>5. \A n \in Nat : n \in T
    BY <1>3, <1>4, Induction
  <1>6. QED
    BY <1>1, <1>5 DEF T

\* The sum over a set, by the element it takes first.
LEMMA SumUnfolds ==
    ASSUME NEW f, NEW S, IsFiniteSet(S), \A x \in S : f[x] \in Int
    PROVE  /\ SumFunctionOnSet(f, S) \in Int
           /\ S = {} => SumFunctionOnSet(f, S) = 0
           /\ S # {} => SumFunctionOnSet(f, S) = f[Pick(S)] + SumFunctionOnSet(f, S \ {Pick(S)})
  <1>1. PICK k \in [SUBSET S -> Int] : Sums(f, S, k)
    BY SumsExist
  <1>2. PICK g : Sums(f, S, g) /\ SumFunctionOnSet(f, S) = g[S]
    BY <1>1, SumIs
  <1>3. PICK R : R = S \ {Pick(S)}
    OBVIOUS
  <1>4. R \subseteq S /\ IsFiniteSet(R) /\ \A x \in R : f[x] \in Int
    BY <1>3, FS_Subset
  <1>5. \E h : Sums(f, R, h)
    BY <1>4, SumsExist
  <1>6. PICK h : Sums(f, R, h) /\ SumFunctionOnSet(f, R) = h[R]
    BY <1>5, SumIs
  <1>7. g[S] = k[S]
    BY <1>1, <1>2, SumsAgree
  <1>8. g[R] = h[R]
    BY <1>2, <1>4, <1>6, SumsAgree
  <1>9. g[S] = IF S = {} THEN 0 ELSE f[Pick(S)] + g[R]
    BY <1>2, <1>3 DEF Sums
  <1>10. QED
    BY <1>1, <1>2, <1>3, <1>6, <1>7, <1>8, <1>9

LEMMA SumEmpty == ASSUME NEW f PROVE SumFunctionOnSet(f, {}) = 0
  BY SumUnfolds, FS_EmptySet

LEMMA SumIsInt ==
    ASSUME NEW f, NEW S, IsFiniteSet(S), \A x \in S : f[x] \in Int
    PROVE  SumFunctionOnSet(f, S) \in Int
  BY SumUnfolds

\* It does not matter which element is taken first.
LEMMA SumAdd ==
    ASSUME NEW f, NEW S, IsFiniteSet(S), \A x \in S : f[x] \in Int, NEW e, e \notin S, f[e] \in Int
    PROVE  SumFunctionOnSet(f, S \cup {e}) = f[e] + SumFunctionOnSet(f, S)
  <1> DEFINE U == S \cup {e}
             T == {n \in Nat : \A s \in SUBSET U : \A x \in U \ s :
                      Cardinality(s) = n =>
                          SumFunctionOnSet(f, s \cup {x}) = f[x] + SumFunctionOnSet(f, s)}
  <1>1. IsFiniteSet(U) /\ \A x \in U : f[x] \in Int
    BY FS_AddElement
  <1>2. \A s \in SUBSET U : /\ IsFiniteSet(s) /\ Cardinality(s) \in Nat
                            /\ \A x \in s : f[x] \in Int
                            /\ SumFunctionOnSet(f, s) \in Int
    BY <1>1, FS_Subset, FS_CardinalityType, SumIsInt
  <1>3. ASSUME NEW s \in SUBSET U, NEW x \in U \ s, Pick(s \cup {x}) = x
        PROVE  SumFunctionOnSet(f, s \cup {x}) = f[x] + SumFunctionOnSet(f, s)
    <2>1. PICK t : t = s \cup {x}
      OBVIOUS
    <2>2. t # {} /\ t \in SUBSET U /\ t \ {x} = s
      BY <2>1
    <2>3. IsFiniteSet(t) /\ \A y \in t : f[y] \in Int
      BY <1>2, <2>2
    <2>4. SumFunctionOnSet(f, t) = f[Pick(t)] + SumFunctionOnSet(f, t \ {Pick(t)})
      BY <2>2, <2>3, SumUnfolds
    <2>5. QED
      BY <1>3, <2>1, <2>2, <2>4
  <1>4. 0 \in T
    <2> SUFFICES ASSUME NEW s \in SUBSET U, NEW x \in U \ s, Cardinality(s) = 0
                 PROVE  SumFunctionOnSet(f, s \cup {x}) = f[x] + SumFunctionOnSet(f, s)
      OBVIOUS
    <2>1. s = {}
      BY <1>2, FS_EmptySet
    <2>2. Pick(s \cup {x}) = x
      BY <2>1, PickIn
    <2>3. QED
      BY <1>3, <2>2
  <1>5. ASSUME NEW n \in Nat, n \in T PROVE n + 1 \in T
    <2> SUFFICES ASSUME NEW s \in SUBSET U, NEW x \in U \ s, Cardinality(s) = n + 1
                 PROVE  SumFunctionOnSet(f, s \cup {x}) = f[x] + SumFunctionOnSet(f, s)
      OBVIOUS
    <2> DEFINE p == Pick(s \cup {x})
               r == s \ {p}
    <2>1. CASE p = x
      BY <1>3, <2>1
    <2>2. CASE p # x
      <3>1. p \in s
        BY <2>2, PickIn
      <3> HIDE DEF p
      <3>2. r \in SUBSET U /\ Cardinality(r) = n
        BY <1>2, <3>1, FS_RemoveElement
      <3>3. /\ (s \cup {x}) \ {p} = r \cup {x} /\ r \cup {p} = s
            /\ x \in U \ r /\ p \in U \ r
        BY <2>2, <3>1
      <3>4. /\ SumFunctionOnSet(f, r \cup {x}) = f[x] + SumFunctionOnSet(f, r)
            /\ SumFunctionOnSet(f, r \cup {p}) = f[p] + SumFunctionOnSet(f, r)
        BY <1>5, <3>2, <3>3
      <3>5. SumFunctionOnSet(f, s \cup {x}) = f[p] + SumFunctionOnSet(f, r \cup {x})
        <4> DEFINE t == s \cup {x}
        <4>1. t # {} /\ t \in SUBSET U /\ t \ {Pick(t)} = r \cup {x} /\ Pick(t) = p
          BY <3>3 DEF p
        <4>2. IsFiniteSet(t) /\ \A y \in t : f[y] \in Int
          BY <1>2, <4>1
        <4> HIDE DEF t
        <4>3. SumFunctionOnSet(f, t) = f[Pick(t)] + SumFunctionOnSet(f, t \ {Pick(t)})
          BY <4>1, <4>2, SumUnfolds
        <4>4. QED
          BY <4>1, <4>3 DEF t
      <3>6. /\ f[p] \in Int /\ f[x] \in Int
            /\ SumFunctionOnSet(f, r) \in Int
        BY <1>1, <1>2, <3>1, <3>2
      <3>7. SumFunctionOnSet(f, s) = f[p] + SumFunctionOnSet(f, r)
        BY <3>3, <3>4
      <3>8. QED
        BY <3>4, <3>5, <3>6, <3>7
    <2>3. QED
      BY <2>1, <2>2
  <1> HIDE DEF T
  <1>6. Cardinality(S) \in T
    BY <1>2, <1>4, <1>5, Induction
  <1>7. QED
    BY <1>6 DEF T

LEMMA SumRemove ==
    ASSUME NEW f, NEW S, IsFiniteSet(S), \A x \in S : f[x] \in Int, NEW e \in S
    PROVE  SumFunctionOnSet(f, S) = f[e] + SumFunctionOnSet(f, S \ {e})
  <1>1. PICK R : R = S \ {e}
    OBVIOUS
  <1>2. IsFiniteSet(R) /\ e \notin R /\ R \cup {e} = S /\ \A x \in R : f[x] \in Int
    BY <1>1, FS_Subset
  <1>3. QED
    BY <1>1, <1>2, SumAdd

\* Only the values on the set count.
LEMMA SumSame ==
    ASSUME NEW f, NEW h, NEW S, IsFiniteSet(S), \A x \in S : f[x] \in Int /\ h[x] = f[x]
    PROVE  SumFunctionOnSet(h, S) = SumFunctionOnSet(f, S)
  <1> DEFINE P == {s \in SUBSET S : SumFunctionOnSet(h, s) = SumFunctionOnSet(f, s)}
  <1>1. {} \in P
    BY SumEmpty
  <1>2. ASSUME NEW s \in P, NEW x \in S \ s PROVE s \cup {x} \in P
    <2>1. IsFiniteSet(s) /\ (\A y \in s : f[y] \in Int /\ h[y] \in Int) /\ f[x] \in Int /\ h[x] = f[x]
      BY FS_Subset
    <2>2. SumFunctionOnSet(h, s \cup {x}) = h[x] + SumFunctionOnSet(h, s)
      BY <2>1, SumAdd
    <2>3. SumFunctionOnSet(f, s \cup {x}) = f[x] + SumFunctionOnSet(f, s)
      BY <2>1, SumAdd
    <2>4. QED
      BY <2>1, <2>2, <2>3
  <1> HIDE DEF P
  <1>3. S \in P
    BY <1>1, <1>2, FiniteInduction
  <1>4. QED
    BY <1>3 DEF P

\* A sum of naturals is one, and at most what as many of the largest make.
LEMMA SumBounds ==
    ASSUME NEW f, NEW S, IsFiniteSet(S), NEW b \in Nat, \A x \in S : f[x] \in 0..b
    PROVE  SumFunctionOnSet(f, S) \in 0..(Cardinality(S) * b)
  <1> DEFINE P == {s \in SUBSET S : SumFunctionOnSet(f, s) \in 0..(Cardinality(s) * b)}
  <1>1. {} \in P
    BY SumEmpty, FS_EmptySet
  <1>2. ASSUME NEW s \in P, NEW x \in S \ s PROVE s \cup {x} \in P
    <2>1. /\ IsFiniteSet(s) /\ Cardinality(s) \in Nat
          /\ Cardinality(s \cup {x}) = Cardinality(s) + 1
          /\ (\A y \in s : f[y] \in Int) /\ f[x] \in 0..b
      BY FS_Subset, FS_CardinalityType, FS_AddElement
    <2>2. SumFunctionOnSet(f, s \cup {x}) = f[x] + SumFunctionOnSet(f, s)
      BY <2>1, SumAdd
    <2>3. \A n \in Nat : n * b \in Int /\ (n + 1) * b = n * b + b
      OBVIOUS
    <2>4. QED
      BY <2>1, <2>2, <2>3
  <1> HIDE DEF P
  <1>3. S \in P
    BY <1>1, <1>2, FiniteInduction
  <1>4. QED
    BY <1>3 DEF P

LEMMA SumIsNat ==
    ASSUME NEW f, NEW S, IsFiniteSet(S), \A x \in S : f[x] \in Nat
    PROVE  SumFunctionOnSet(f, S) \in Nat
  <1> DEFINE P == {s \in SUBSET S : SumFunctionOnSet(f, s) \in Nat}
  <1>1. {} \in P
    BY SumEmpty
  <1>2. ASSUME NEW s \in P, NEW x \in S \ s PROVE s \cup {x} \in P
    <2>1. IsFiniteSet(s) /\ (\A y \in s : f[y] \in Int) /\ f[x] \in Nat
      BY FS_Subset
    <2>2. SumFunctionOnSet(f, s \cup {x}) = f[x] + SumFunctionOnSet(f, s)
      BY <2>1, SumAdd
    <2>3. QED
      BY <2>1, <2>2
  <1> HIDE DEF P
  <1>3. S \in P
    BY <1>1, <1>2, FiniteInduction
  <1>4. QED
    BY <1>3 DEF P

LEMMA SumGrows ==
    ASSUME NEW f, NEW S, IsFiniteSet(S), \A x \in S : f[x] \in Nat, NEW R \in SUBSET S
    PROVE  SumFunctionOnSet(f, R) <= SumFunctionOnSet(f, S)
  <1> DEFINE P == {s \in SUBSET S : SumFunctionOnSet(f, R) <= SumFunctionOnSet(f, R \cup s)}
  <1>1. {} \in P
    <2>1. R \cup {} = R /\ IsFiniteSet(R)
      BY FS_Subset
    <2>2. SumFunctionOnSet(f, R) \in Nat
      BY <2>1, SumIsNat
    <2>3. QED
      BY <2>1, <2>2
  <1>2. ASSUME NEW s \in P, NEW x \in S \ s PROVE s \cup {x} \in P
    <2>1. PICK t : t = R \cup s
      OBVIOUS
    <2>2. /\ t \in SUBSET S /\ IsFiniteSet(t) /\ IsFiniteSet(R)
          /\ (\A y \in t : f[y] \in Nat /\ f[y] \in Int) /\ f[x] \in Nat
          /\ R \cup (s \cup {x}) = t \cup {x}
      BY <2>1, FS_Subset
    <2>3. SumFunctionOnSet(f, R) \in Nat /\ SumFunctionOnSet(f, t) \in Nat
      BY <2>2, SumIsNat
    <2>4. CASE x \in t
      BY <2>1, <2>2, <2>4
    <2>5. CASE x \notin t
      <3>1. SumFunctionOnSet(f, t \cup {x}) = f[x] + SumFunctionOnSet(f, t)
        BY <2>2, <2>5, SumAdd
      <3>2. QED
        BY <2>1, <2>2, <2>3, <3>1
    <2>6. QED
      BY <2>4, <2>5
  <1> HIDE DEF P
  <1>3. S \in P
    BY <1>1, <1>2, FiniteInduction
  <1>4. R \cup S = S
    OBVIOUS
  <1>5. QED
    BY <1>3, <1>4 DEF P

-----------------------------------------------------------------------------
(* Sorting *)

\* A strict total order of S, as pairs.
Orders(S, R) ==
    /\ \A x \in S : <<x, x>> \notin R
    /\ \A x, y \in S : x # y => <<x, y>> \in R \/ <<y, x>> \in R
    /\ \A x, y, z \in S : <<x, y>> \in R /\ <<y, z>> \in R => <<x, z>> \in R

Ascends(s, n, S, R) == s \in [1..n -> S] /\ \A i, j \in 1..n : i < j => <<s[i], s[j]>> \in R

LEMMA LastExists ==
    ASSUME NEW S, IsFiniteSet(S), S # {}, NEW R, Orders(S, R)
    PROVE  \E m \in S : \A x \in S \ {m} : <<x, m>> \in R
  <1> DEFINE P == {s \in SUBSET S : s # {} => \E m \in s : \A x \in s \ {m} : <<x, m>> \in R}
  <1>1. {} \in P
    OBVIOUS
  <1>2. ASSUME NEW s \in P, NEW e \in S \ s
        PROVE  s \cup {e} \in P
    <2>1. s \in SUBSET S /\ s \cup {e} \in SUBSET S
      OBVIOUS
    <2>2. CASE s = {}
      BY <2>2
    <2>3. CASE s # {}
      <3>1. PICK m \in s : \A x \in s \ {m} : <<x, m>> \in R
        BY <2>3
      <3>2. CASE <<m, e>> \in R
        <4>1. \A x \in (s \cup {e}) \ {e} : <<x, e>> \in R
          BY <2>1, <3>1, <3>2 DEF Orders
        <4>2. QED
          BY <2>1, <4>1
      <3>3. CASE <<e, m>> \in R
        <4>1. \A x \in (s \cup {e}) \ {m} : <<x, m>> \in R
          BY <3>1, <3>3
        <4>2. QED
          BY <2>1, <4>1
      <3>4. QED
        BY <2>1, <3>1, <3>2, <3>3 DEF Orders
    <2>4. QED
      BY <2>2, <2>3
  <1> HIDE DEF P
  <1>3. S \in P
    BY <1>1, <1>2, FiniteInduction
  <1>4. QED
    BY <1>3 DEF P

LEMMA SortedExists ==
    ASSUME NEW S, IsFiniteSet(S), NEW R, Orders(S, R)
    PROVE  \E s : Ascends(s, Cardinality(S), S, R)
  <1> DEFINE T == {n \in Nat : \A Q \in SUBSET S : Cardinality(Q) = n => \E s : Ascends(s, n, Q, R)}
  <1>1. \A Q \in SUBSET S : IsFiniteSet(Q) /\ Cardinality(Q) \in Nat
    BY FS_Subset, FS_CardinalityType
  <1>2. 0 \in T
    <2> SUFFICES ASSUME NEW Q \in SUBSET S PROVE \E s : Ascends(s, 0, Q, R)
      OBVIOUS
    <2> DEFINE s == [i \in 1..0 |-> i]
    <2>1. 1..0 = {}
      OBVIOUS
    <2>2. Ascends(s, 0, Q, R)
      BY <2>1 DEF Ascends
    <2>3. QED
      BY <2>2
  <1>3. ASSUME NEW n \in Nat, n \in T PROVE n + 1 \in T
    <2> SUFFICES ASSUME NEW Q \in SUBSET S, Cardinality(Q) = n + 1
                 PROVE  \E s : Ascends(s, n + 1, Q, R)
      OBVIOUS
    <2>1. Q # {} /\ Orders(Q, R)
      BY FS_EmptySet DEF Orders
    <2>2. PICK m \in Q : \A x \in Q \ {m} : <<x, m>> \in R
      BY <1>1, <2>1, LastExists
    <2>3. PICK q : q = Q \ {m}
      OBVIOUS
    <2>4. q \in SUBSET S /\ Cardinality(q) = n
      <3>1. Cardinality(q) = Cardinality(Q) - 1
        BY <1>1, <2>3, FS_RemoveElement
      <3>2. QED
        BY <2>3, <3>1
    <2>5. PICK t : Ascends(t, n, q, R)
      BY <1>3, <2>4
    <2> DEFINE s == [i \in 1..(n + 1) |-> IF i = n + 1 THEN m ELSE t[i]]
    <2>6. \A i \in 1..(n + 1) : s[i] \in Q /\ (i # n + 1 => i \in 1..n /\ s[i] = t[i] /\ t[i] \in q)
      BY <2>3, <2>5 DEF Ascends
    <2>7. s \in [1..(n + 1) -> Q] /\ s[n + 1] = m
      BY <2>6
    <2> HIDE DEF s
    <2>8. ASSUME NEW i \in 1..(n + 1), NEW j \in 1..(n + 1), i < j PROVE <<s[i], s[j]>> \in R
      <3>1. i # n + 1 /\ i \in 1..n
        BY <2>8
      <3>2. CASE j = n + 1
        BY <2>2, <2>3, <2>6, <2>7, <3>1, <3>2
      <3>3. CASE j # n + 1
        BY <2>5, <2>6, <2>8, <3>1, <3>3 DEF Ascends
      <3>4. QED
        BY <3>2, <3>3
    <2>9. Ascends(s, n + 1, Q, R)
      BY <2>7, <2>8 DEF Ascends
    <2>10. QED
      BY <2>9
  <1> HIDE DEF T
  <1>4. Cardinality(S) \in T
    BY <1>1, <1>2, <1>3, Induction
  <1>5. QED
    BY <1>4 DEF T

\* What sorting returns has each member once, in order.
Ranks(s, n, S, R) ==
    /\ Ascends(s, n, S, R)
    /\ \A i, j \in 1..n : i # j => s[i] # s[j]
    /\ \A x \in S : \E i \in 1..n : s[i] = x

LEMMA SortedRanks ==
    ASSUME NEW S, IsFiniteSet(S), NEW R, Orders(S, R)
    PROVE  Ranks(Sorted(S, R), Cardinality(S), S, R)
  <1>1. PICK n \in Nat : n = Cardinality(S)
    BY FS_CardinalityType
  <1>2. PICK t : Ascends(t, n, S, R)
    BY <1>1, SortedExists
  <1>3. PICK s : s = Sorted(S, R)
    OBVIOUS
  <1>4. t \in [1..n -> S] /\ \A i, j \in DOMAIN t : i < j => <<t[i], t[j]>> \in R
    BY <1>2 DEF Ascends
  <1>5. s \in [1..n -> S] /\ \A i, j \in DOMAIN s : i < j => <<s[i], s[j]>> \in R
    BY <1>1, <1>3, <1>4 DEF Sorted
  <1>6. Ascends(s, n, S, R)
    BY <1>5 DEF Ascends
  <1>7. ASSUME NEW i \in 1..n, NEW j \in 1..n, i # j PROVE s[i] # s[j]
    <2>1. i < j \/ j < i
      BY <1>7
    <2>2. <<s[i], s[j]>> \in R \/ <<s[j], s[i]>> \in R
      BY <1>6, <2>1 DEF Ascends
    <2>3. s[i] \in S
      BY <1>5
    <2>4. QED
      BY <2>2, <2>3 DEF Orders
  <1>8. ASSUME NEW x \in S PROVE \E i \in 1..n : s[i] = x
    <2> SUFFICES ASSUME \A i \in 1..n : s[i] # x PROVE FALSE
      OBVIOUS
    <2>1. PICK rest : rest = S \ {x}
      OBVIOUS
    <2>2. s \in [1..n -> rest]
      BY <1>5, <2>1
    <2>3. IsFiniteSet(rest) /\ Cardinality(rest) = n - 1
      BY <1>1, <2>1, FS_RemoveElement
    <2>4. IsFiniteSet(1..n) /\ Cardinality(1..n) = n
      BY FS_Interval
    <2>5. \E i, j \in 1..n : i # j /\ s[i] = s[j]
      BY <2>2, <2>3, <2>4, FS_PigeonHole
    <2>6. QED
      BY <1>7, <2>5
  <1>9. QED
    BY <1>1, <1>3, <1>6, <1>7, <1>8 DEF Ranks

\* What is taken of a list: k says where from.
TakesFrom(q, list, places, k) ==
    /\ DOMAIN q = 1..Cardinality(places) /\ Cardinality(places) \in Nat
    /\ k \in [1..Cardinality(places) -> places]
    /\ \A i \in DOMAIN q : q[i] = list[k[i]]
    /\ \A i, j \in DOMAIN q : i < j => k[i] < k[j]
    /\ \A p \in places : \E i \in DOMAIN q : k[i] = p

LEMMA TakenTakes ==
    ASSUME NEW list, NEW n \in Nat, NEW places \in SUBSET (1..n)
    PROVE  \E k : TakesFrom(Taken(list, places), list, places, k)
  <1>1. PICK R : R = {p \in places \X places : p[1] < p[2]}
    OBVIOUS
  <1>2. \A i, j \in places : <<i, j>> \in R <=> i < j
    BY <1>1
  <1>3. Orders(places, R)
    <2>1. \A i \in places : i \in Nat
      OBVIOUS
    <2>2. QED
      BY <1>2, <2>1 DEF Orders
  <1>4. IsFiniteSet(places) /\ Cardinality(places) \in Nat
    <2>1. IsFiniteSet(1..n)
      BY FS_Interval
    <2>2. QED
      BY <2>1, FS_Subset, FS_CardinalityType
  <1>5. PICK k : k = Sorted(places, R)
    OBVIOUS
  <1>6. Ranks(k, Cardinality(places), places, R)
    BY <1>3, <1>4, <1>5, SortedRanks
  <1>7. PICK m \in Nat : m = Cardinality(places)
    BY <1>4
  <1>8. k \in [1..m -> places] /\ \A i, j \in 1..m : i < j => k[i] < k[j]
    BY <1>2, <1>6, <1>7 DEF Ranks, Ascends
  <1>9. Taken(list, places) = [i \in 1..m |-> list[k[i]]]
    BY <1>1, <1>5, <1>8 DEF Taken
  <1>10. TakesFrom(Taken(list, places), list, places, k)
    BY <1>6, <1>7, <1>8, <1>9 DEF TakesFrom, Ranks
  <1>11. QED
    BY <1>10

LEMMA FunctionIsList ==
    ASSUME NEW d \in Nat, NEW h, h = [i \in 1..d |-> h[i]]
    PROVE  h \in Seq(Range(h)) /\ Len(h) = d /\ DOMAIN h = 1..d
  <1>1. PICK S : S = Range(h)
    OBVIOUS
  <1>2. DOMAIN h = 1..d /\ \A i \in 1..d : h[i] \in S
    BY <1>1 DEF Range
  <1>3. h \in [1..d -> S]
    BY <1>2
  <1>4. h \in Seq(S) /\ Len(h) = d
    BY <1>3
  <1>5. QED
    BY <1>1, <1>2, <1>4

LEMMA TakenIsList ==
    ASSUME NEW list, NEW n \in Nat, NEW places \in SUBSET (1..n)
    PROVE  /\ Taken(list, places) \in Seq(Range(Taken(list, places)))
           /\ Len(Taken(list, places)) = Cardinality(places)
  <1>1. PICK q : q = Taken(list, places)
    OBVIOUS
  <1>2. PICK k : k = Sorted(places, {p \in places \X places : p[1] < p[2]})
    OBVIOUS
  <1>3. q = [i \in DOMAIN k |-> list[k[i]]]
    BY <1>1, <1>2 DEF Taken
  <1>4. PICK m \in Nat : m = Cardinality(places) /\ DOMAIN q = 1..m
    BY <1>1, TakenTakes DEF TakesFrom
  <1>5. q = [i \in 1..m |-> q[i]]
    BY <1>3, <1>4
  <1>6. QED
    BY <1>1, <1>4, <1>5, FunctionIsList

-----------------------------------------------------------------------------
(* Lists of lists *)

LEMMA SubSeqOne ==
    ASSUME NEW S, NEW s \in Seq(S), NEW i \in 1..Len(s)
    PROVE  SubSeq(s, i, i) = <<s[i]>>
  <1>1. PICK q : q = SubSeq(s, i, i)
    OBVIOUS
  <1>2. q \in Seq(S) /\ Len(q) = 1 /\ q[1] = s[i]
    <2>1. q \in Seq(S)
      BY <1>1
    <2>2. Len(q) = 1 /\ q[1] = s[i]
      <3>1. i \in Nat /\ i <= i /\ (i - i) + 1 = 1 /\ (i + 1) - 1 = i
        OBVIOUS
      <3>2. QED
        BY <1>1, <3>1
    <2>3. QED
      BY <2>1, <2>2
  <1>3. q = <<q[1]>>
    BY <1>2
  <1>4. QED
    BY <1>1, <1>2, <1>3

LEMMA SubSeqFrom ==
    ASSUME NEW S, NEW s \in Seq(S), NEW i \in 1..Len(s), NEW j \in 1..Len(s), i <= j
    PROVE  Len(SubSeq(s, i, j)) = j - i + 1 /\ SubSeq(s, i, j)[1] = s[i]
  OBVIOUS

\* The lists of s, joined one after another.
Joins(s, f) == f[0] = <<>> /\ \A i \in 1..Len(s) : f[i] = f[i - 1] \o s[i]

JoinsTo(S, s, k, f) ==
    f \in [0..k -> Seq(S)] /\ f[0] = <<>> /\ \A i \in 1..k : f[i] = f[i - 1] \o s[i]

LEMMA JoinsExist ==
    ASSUME NEW S, NEW s \in Seq(Seq(S))
    PROVE  \E f \in [0..Len(s) -> Seq(S)] : Joins(s, f)
  <1>1. PICK n \in Nat : n = Len(s)
    OBVIOUS
  <1> DEFINE T == {k \in Nat : k <= n => \E f : JoinsTo(S, s, k, f)}
  <1>2. 0 \in T
    <2>1. PICK f : f = [i \in 0..0 |-> <<>>]
      OBVIOUS
    <2>2. f \in [0..0 -> Seq(S)] /\ f[0] = <<>> /\ 1..0 = {}
      BY <2>1
    <2>3. JoinsTo(S, s, 0, f)
      BY <2>2 DEF JoinsTo
    <2>4. QED
      BY <2>3
  <1>3. ASSUME NEW k \in Nat, k \in T PROVE k + 1 \in T
    <2>1. SUFFICES ASSUME k + 1 <= n PROVE \E f : JoinsTo(S, s, k + 1, f)
      OBVIOUS
    <2>2. k <= n /\ k + 1 \in 1..n
      BY <2>1
    <2>3. PICK f : JoinsTo(S, s, k, f)
      BY <1>3, <2>2
    <2>4. f \in [0..k -> Seq(S)] /\ f[0] = <<>> /\ \A i \in 1..k : f[i] = f[i - 1] \o s[i]
      BY <2>3 DEF JoinsTo
    <2>5. s[k + 1] \in Seq(S) /\ f[k] \in Seq(S)
      BY <1>1, <2>2, <2>4
    <2>6. PICK e \in Seq(S) : e = f[k] \o s[k + 1]
      <3>1. f[k] \o s[k + 1] \in Seq(S)
        BY <2>5
      <3>2. QED
        BY <3>1
    <2>7. PICK g : g = [i \in 0..(k + 1) |-> IF i = k + 1 THEN e ELSE f[i]]
      OBVIOUS
    <2>8. g \in [0..(k + 1) -> Seq(S)]
      <3>1. \A i \in 0..(k + 1) : i # k + 1 => f[i] \in Seq(S)
        BY <2>4
      <3>2. QED
        BY <2>7, <3>1
    <2>9. g[k + 1] = e /\ \A i \in 0..k : g[i] = f[i]
      BY <2>7
    <2>10. g[0] = <<>>
      BY <2>4, <2>9
    <2>11. ASSUME NEW i \in 1..(k + 1) PROVE g[i] = g[i - 1] \o s[i]
      <3>1. CASE i = k + 1
        <4>1. i - 1 = k /\ k \in 0..k
          BY <3>1
        <4>2. g[i - 1] = f[k]
          BY <2>9, <4>1
        <4>3. QED
          BY <2>6, <2>9, <3>1, <4>2
      <3>2. CASE i \in 1..k
        <4>1. i \in 0..k /\ i - 1 \in 0..k
          BY <3>2
        <4>2. g[i] = f[i] /\ g[i - 1] = f[i - 1]
          BY <2>9, <4>1
        <4>3. QED
          BY <2>4, <3>2, <4>2
      <3>3. i = k + 1 \/ i \in 1..k
        OBVIOUS
      <3>4. QED
        BY Zenon, <3>1, <3>2, <3>3
    <2>12. JoinsTo(S, s, k + 1, g)
      BY <2>8, <2>10, <2>11 DEF JoinsTo
    <2>13. QED
      BY <2>12
  <1> HIDE DEF T
  <1>4. n \in T
    BY <1>2, <1>3, Induction
  <1>5. PICK f : JoinsTo(S, s, n, f)
    BY <1>4 DEF T
  <1>6. f \in [0..n -> Seq(S)] /\ Joins(s, f)
    BY <1>1, <1>5 DEF JoinsTo, Joins
  <1>7. QED
    BY <1>1, <1>6

LEMMA FlattenIs ==
    ASSUME NEW S, NEW s \in Seq(Seq(S)), NEW f \in [0..Len(s) -> Seq(S)], Joins(s, f)
    PROVE  FlattenSeq(s) = f[Len(s)]
  <1>1. PICK n \in Nat : n = Len(s)
    OBVIOUS
  <1>a. f[0] = <<>> /\ \A i \in 1..n : f[i] = f[i - 1] \o s[i]
    BY <1>1 DEF Joins
  <1>b. 1..n = {} \/ (n > 0 /\ s[1] \in Seq(S) /\ f[1] = s[1])
    <2>1. CASE n = 0
      BY <2>1
    <2>2. CASE n > 0
      <3>1. 1 \in 1..n /\ 1 - 1 = 0
        BY <2>2
      <3>2. s[1] \in Seq(S)
        BY <1>1, <3>1
      <3>3. f[1] = f[0] \o s[1]
        BY <1>a, <3>1
      <3>4. <<>> \o s[1] = s[1]
        BY <3>2
      <3>5. QED
        BY <1>a, <2>2, <3>2, <3>3, <3>4
    <2>3. n = 0 \/ n > 0
      OBVIOUS
    <2>4. QED
      BY Zenon, <2>1, <2>2, <2>3
  <1>2. CASE n = 0
    <2>1. s = <<>>
      BY <1>1, <1>2, EmptySeq
    <2>2. QED
      BY <1>1, <1>2, <1>a, <2>1 DEF FlattenSeq
  <1>3. CASE n > 0
    <2> DEFINE Flattens(h) == h = [i \in 1..n |-> IF i = 1 THEN s[i] ELSE h[i - 1] \o s[i]]
    <2>1. FlattenSeq(s) = (CHOOSE h : Flattens(h))[n]
      BY <1>1, <1>3 DEF FlattenSeq
    <2> DEFINE g == [i \in 1..n |-> f[i]]
    <2>2. Flattens(g)
      <3>1. g = [i \in 1..n |-> g[i]]
        OBVIOUS
      <3>2. ASSUME NEW i \in 1..n PROVE g[i] = IF i = 1 THEN s[i] ELSE g[i - 1] \o s[i]
        <4>1. s[i] \in Seq(S)
          BY <1>1
        <4>2. CASE i = 1
          BY <1>b, <1>3, <4>2
        <4>3. CASE i # 1
          <5>1. i - 1 \in 1..n
            BY <4>3
          <5>2. QED
            BY <1>a, <4>3, <5>1
        <4>4. QED
          BY <4>2, <4>3
      <3> HIDE DEF g
      <3>3. [i \in 1..n |-> g[i]] = [i \in 1..n |-> IF i = 1 THEN s[i] ELSE g[i - 1] \o s[i]]
        BY <3>2
      <3>4. QED
        BY <3>1, <3>3
    <2> HIDE DEF g
    <2>3. PICK h : Flattens(h) /\ FlattenSeq(s) = h[n]
      <3> HIDE DEF Flattens
      <3>1. QED
        BY <2>1, <2>2
    <2>a. \A i \in 1..n : h[i] = IF i = 1 THEN s[i] ELSE h[i - 1] \o s[i]
      BY <2>3
    <2> HIDE DEF Flattens
    <2> DEFINE T == {k \in Nat : k + 1 <= n => h[k + 1] = f[k + 1]}
    <2>4. 0 \in T
      <3>1. 0 + 1 = 1 /\ 1 \in 1..n
        BY <1>3
      <3>2. h[1] = f[1]
        BY <1>b, <2>a, <3>1
      <3>3. QED
        BY <3>1, <3>2
    <2>5. ASSUME NEW k \in Nat, k \in T PROVE k + 1 \in T
      <3> SUFFICES ASSUME (k + 1) + 1 <= n PROVE h[(k + 1) + 1] = f[(k + 1) + 1]
        OBVIOUS
      <3>1. PICK m \in 1..n : m = (k + 1) + 1 /\ m # 1 /\ m - 1 = k + 1 /\ k + 1 <= n
        OBVIOUS
      <3>2. h[m - 1] = f[m - 1]
        BY <2>5, <3>1
      <3>3. QED
        BY <1>a, <2>a, <3>1, <3>2
    <2> HIDE DEF T
    <2>6. \A k \in Nat : k \in T
      BY <2>4, <2>5, Induction
    <2>7. n - 1 \in T
      BY <1>3, <2>6
    <2>8. h[n] = f[n]
      <3>1. n - 1 \in Nat /\ (n - 1) + 1 = n
        BY <1>3
      <3>2. QED
        BY <2>7, <3>1 DEF T
    <2>9. QED
      BY <1>1, <2>3, <2>8
  <1>4. QED
    BY <1>2, <1>3

LEMMA FlattenType ==
    ASSUME NEW S, NEW s \in Seq(Seq(S))
    PROVE  FlattenSeq(s) \in Seq(S)
  <1>1. PICK f \in [0..Len(s) -> Seq(S)] : Joins(s, f)
    BY JoinsExist
  <1>2. FlattenSeq(s) = f[Len(s)]
    BY <1>1, FlattenIs
  <1>3. Len(s) \in 0..Len(s)
    OBVIOUS
  <1>4. QED
    BY <1>2, <1>3

\* What comes first is not affected by what follows.
LEMMA FlattenAppend ==
    ASSUME NEW S, NEW s \in Seq(Seq(S)), NEW e \in Seq(S)
    PROVE  FlattenSeq(Append(s, e)) = FlattenSeq(s) \o e
  <1>1. PICK n \in Nat : n = Len(s)
    OBVIOUS
  <1>2. PICK t \in Seq(Seq(S)) : /\ t = Append(s, e) /\ Len(t) = n + 1 /\ t[n + 1] = e
                                 /\ \A i \in 1..n : t[i] = s[i]
    <2>1. /\ Append(s, e) \in Seq(Seq(S)) /\ Len(Append(s, e)) = n + 1
          /\ Append(s, e)[n + 1] = e /\ \A i \in 1..n : Append(s, e)[i] = s[i]
      BY <1>1
    <2>2. QED
      BY <2>1
  <1>3. PICK f \in [0..(n + 1) -> Seq(S)] : Joins(t, f)
    BY <1>2, JoinsExist
  <1>4. f[0] = <<>> /\ \A i \in 1..(n + 1) : f[i] = f[i - 1] \o t[i]
    BY <1>2, <1>3 DEF Joins
  <1>5. FlattenSeq(t) = f[n + 1]
    BY <1>2, <1>3, FlattenIs
  <1>6. PICK g : g = [i \in 0..n |-> f[i]]
    OBVIOUS
  <1>7. g \in [0..n -> Seq(S)] /\ \A i \in 0..n : g[i] = f[i]
    BY <1>6
  <1>8. ASSUME NEW i \in 1..n PROVE g[i] = g[i - 1] \o s[i]
    <2>1. i \in 0..n /\ i - 1 \in 0..n /\ i \in 1..(n + 1)
      OBVIOUS
    <2>2. QED
      BY <1>2, <1>4, <1>7, <2>1
  <1>9. Joins(s, g)
    <2>1. g[0] = <<>>
      <3>1. 0 \in 0..n
        OBVIOUS
      <3>2. QED
        BY <1>4, <1>7, <3>1, Zenon
    <2>2. \A i \in 1..Len(s) : g[i] = g[i - 1] \o s[i]
      BY <1>1, <1>8, Zenon
    <2>3. QED
      BY <2>1, <2>2, Zenon DEF Joins
  <1>10. FlattenSeq(s) = g[n]
    BY <1>1, <1>7, <1>9, FlattenIs
  <1>11. f[n + 1] = f[n] \o e /\ g[n] = f[n]
    <2>1. n + 1 \in 1..(n + 1) /\ (n + 1) - 1 = n /\ n \in 0..n
      OBVIOUS
    <2>2. QED
      BY <1>2, <1>4, <1>7, <2>1
  <1>12. QED
    BY <1>2, <1>5, <1>10, <1>11

LEMMA FlattenEmpty == FlattenSeq(<<>>) = <<>>
  <1>1. Len(<<>>) = 0
    OBVIOUS
  <1>2. QED
    BY <1>1 DEF FlattenSeq

LEMMA FlattenOne ==
    ASSUME NEW S, NEW e \in Seq(S)
    PROVE  FlattenSeq(<<e>>) = e
  <1>0. <<>> \in Seq(Seq(S))
    OBVIOUS
  <1>1. PICK s \in Seq(Seq(S)) : s = <<>>
    BY <1>0
  <1>2. FlattenSeq(Append(s, e)) = FlattenSeq(s) \o e
    BY FlattenAppend
  <1>3. Append(s, e) = <<e>>
    BY <1>1
  <1>4. FlattenSeq(s) = <<>>
    BY <1>1, FlattenEmpty
  <1>5. <<>> \o e = e
    OBVIOUS
  <1>6. QED
    BY <1>2, <1>3, <1>4, <1>5

\* A stretch of the lists is a stretch of what they make.
FlatTo(s, k) == FlattenSeq(SubSeq(s, 1, k))

LEMMA FlatSteps ==
    ASSUME NEW S, NEW s \in Seq(Seq(S))
    PROVE  /\ FlatTo(s, 0) = <<>>
           /\ FlatTo(s, Len(s)) = FlattenSeq(s)
           /\ \A k \in 0..Len(s) : FlatTo(s, k) \in Seq(S)
           /\ \A k \in 1..Len(s) : FlatTo(s, k) = FlatTo(s, k - 1) \o s[k]
  <1>1. SubSeq(s, 1, 0) = <<>> /\ SubSeq(s, 1, Len(s)) = s
    OBVIOUS
  <1>2. FlatTo(s, 0) = <<>> /\ FlatTo(s, Len(s)) = FlattenSeq(s)
    BY <1>1, FlattenEmpty DEF FlatTo
  <1>3. ASSUME NEW k \in 0..Len(s) PROVE FlatTo(s, k) \in Seq(S)
    <2>1. SubSeq(s, 1, k) \in Seq(Seq(S))
      OBVIOUS
    <2>2. QED
      BY <2>1, FlattenType DEF FlatTo
  <1>4. ASSUME NEW k \in 1..Len(s) PROVE FlatTo(s, k) = FlatTo(s, k - 1) \o s[k]
    <2>1. PICK t : t = SubSeq(s, 1, k - 1)
      OBVIOUS
    <2>2. t \in Seq(Seq(S)) /\ s[k] \in Seq(S) /\ SubSeq(s, 1, k) = Append(t, s[k])
      BY <2>1
    <2>3. FlattenSeq(Append(t, s[k])) = FlattenSeq(t) \o s[k]
      BY <2>2, FlattenAppend
    <2>4. QED
      BY <2>1, <2>2, <2>3 DEF FlatTo
  <1>5. QED
    BY <1>2, <1>3, <1>4

\* Three lists joined one after the other.
Associates(x, y, z) == (x \o y) \o z = x \o (y \o z)

LEMMA AllAssociate ==
    ASSUME NEW S, NEW x \in Seq(S), NEW y \in Seq(S), NEW z \in Seq(S)
    PROVE  Associates(x, y, z)
  BY ConcatAssociative DEF Associates

LEMMA FlattenJoin ==
    ASSUME NEW S, NEW s \in Seq(Seq(S)), NEW t \in Seq(Seq(S))
    PROVE  FlattenSeq(s \o t) = FlattenSeq(s) \o FlattenSeq(t)
  <1>1. PICK n \in Nat : n = Len(t)
    OBVIOUS
  <1>2. FlattenSeq(s) \in Seq(S)
    BY FlattenType
  <1> DEFINE T == {k \in Nat : k <= n => FlattenSeq(s \o SubSeq(t, 1, k)) = FlattenSeq(s) \o FlatTo(t, k)}
  <1>3. 0 \in T
    <2>1. SubSeq(t, 1, 0) = <<>> /\ s \o <<>> = s
      OBVIOUS
    <2>2. FlattenSeq(s) \o <<>> = FlattenSeq(s)
      BY <1>2
    <2>3. QED
      BY <2>1, <2>2, FlatSteps
  <1>4. ASSUME NEW k \in Nat, k \in T PROVE k + 1 \in T
    <2> SUFFICES ASSUME k + 1 <= n
                 PROVE  FlattenSeq(s \o SubSeq(t, 1, k + 1)) = FlattenSeq(s) \o FlatTo(t, k + 1)
      OBVIOUS
    <2>1. PICK p, e : p = SubSeq(t, 1, k) /\ e = t[k + 1]
      OBVIOUS
    <2>2. /\ p \in Seq(Seq(S)) /\ e \in Seq(S) /\ SubSeq(t, 1, k + 1) = Append(p, e)
          /\ s \o p \in Seq(Seq(S))
      BY <1>1, <2>1
    <2>3. s \o Append(p, e) = Append(s \o p, e)
      BY <2>2
    <2>4. FlattenSeq(Append(s \o p, e)) = FlattenSeq(s \o p) \o e
      BY <2>2, FlattenAppend
    <2>5. FlattenSeq(s \o p) = FlattenSeq(s) \o FlatTo(t, k)
      BY <1>4, <2>1
    <2>6. FlatTo(t, k + 1) = FlatTo(t, k) \o e /\ FlatTo(t, k) \in Seq(S)
      <3>1. k + 1 \in 1..Len(t) /\ k \in 0..Len(t) /\ (k + 1) - 1 = k
        BY <1>1
      <3>2. QED
        BY <2>1, <3>1, FlatSteps
    <2>7. (FlattenSeq(s) \o FlatTo(t, k)) \o e = FlattenSeq(s) \o (FlatTo(t, k) \o e)
      <3>1. PICK x \in Seq(S) : x = FlattenSeq(s)
        BY <1>2
      <3>2. PICK y \in Seq(S), z \in Seq(S) : y = FlatTo(t, k) /\ z = e
        BY <2>2, <2>6
      <3>3. Associates(x, y, z)
        BY AllAssociate
      <3>4. QED
        BY <3>1, <3>2, <3>3, Zenon DEF Associates
    <2>8. QED
      BY <2>2, <2>3, <2>4, <2>5, <2>6, <2>7
  <1> HIDE DEF T
  <1>5. n \in T
    BY <1>3, <1>4, Induction
  <1>6. SubSeq(t, 1, n) = t
    BY <1>1
  <1>7. QED
    <2>1. FlattenSeq(s \o SubSeq(t, 1, n)) = FlattenSeq(s) \o FlatTo(t, n)
      BY <1>5 DEF T
    <2>2. FlatTo(t, n) = FlattenSeq(t)
      BY <1>1, FlatSteps
    <2>3. QED
      BY <1>6, <2>1, <2>2

\* Lists that are not empty make one that begins as the first.
LEMMA FlattenHead ==
    ASSUME NEW S, NEW s \in Seq(Seq(S)), s # <<>>, s[1] # <<>>
    PROVE  Len(FlattenSeq(s)) > 0 /\ FlattenSeq(s)[1] = s[1][1]
  <1>1. PICK e, t : e = s[1] /\ t = SubSeq(s, 2, Len(s))
    OBVIOUS
  <1>2. /\ e \in Seq(S) /\ e # <<>> /\ t \in Seq(Seq(S)) /\ <<e>> \in Seq(Seq(S)) /\ s = <<e>> \o t
    BY <1>1
  <1>3. FlattenSeq(s) = e \o FlattenSeq(t)
    <2>1. FlattenSeq(<<e>> \o t) = FlattenSeq(<<e>>) \o FlattenSeq(t)
      BY <1>2, FlattenJoin
    <2>2. FlattenSeq(<<e>>) = e
      BY <1>2, FlattenOne
    <2>3. QED
      BY <1>2, <2>1, <2>2
  <1>4. FlattenSeq(t) \in Seq(S)
    BY <1>2, FlattenType
  <1>5. PICK r \in Seq(S) : r = FlattenSeq(t)
    BY <1>4
  <1>6. Len(e \o r) > 0 /\ (e \o r)[1] = e[1]
    BY <1>2
  <1>7. QED
    BY <1>1, <1>3, <1>5, <1>6

\* What the lists from a to b make is cut out of what all of them make.
FlatCut(S, s, a, b) ==
    LET all  == FlattenSeq(s)
        from == Len(FlatTo(s, a))
        to   == Len(FlatTo(s, b))
    IN  /\ all \in Seq(S) /\ from \in 0..to /\ to \in 0..Len(all)
        /\ FlattenSeq(SubSeq(s, a + 1, b)) = SubSeq(all, from + 1, to)
        /\ Len(FlattenSeq(SubSeq(s, a + 1, b))) = to - from

LEMMA FlattenCut ==
    ASSUME NEW S, NEW s \in Seq(Seq(S)), NEW a \in 0..Len(s), NEW b \in a..Len(s)
    PROVE  FlatCut(S, s, a, b)
  <1>1. PICK p, q, r : p = SubSeq(s, 1, a) /\ q = SubSeq(s, a + 1, b) /\ r = SubSeq(s, b + 1, Len(s))
    OBVIOUS
  <1>a. PICK n \in Nat : n = Len(s) /\ a \in 0..n /\ b \in 0..n /\ a <= b
    OBVIOUS
  <1>b. p \in Seq(Seq(S)) /\ q \in Seq(Seq(S)) /\ r \in Seq(Seq(S))
    BY <1>1, <1>a
  <1>c. SubSeq(s, 1, b) = p \o q
    <2>1. SubSeq(s, 1, a) \o SubSeq(s, a + 1, b) = SubSeq(s, 1, b)
      <3>1. 1 \in 1..(Len(s) + 1) /\ a \in (1 - 1)..Len(s) /\ b \in a..Len(s)
        BY <1>a
      <3>2. QED
        BY <3>1, ConcatAdjacentSubSeq
    <2>2. QED
      BY <1>1, <2>1
  <1>2. /\ p \in Seq(Seq(S)) /\ q \in Seq(Seq(S)) /\ r \in Seq(Seq(S)) /\ p \o q \in Seq(Seq(S))
        /\ SubSeq(s, 1, b) = p \o q
    <2>1. p \o q \in Seq(Seq(S))
      BY <1>b, ConcatProperties
    <2>2. QED
      BY <1>b, <1>c, <2>1
  <1>3. s = (p \o q) \o r
    <2>1. SubSeq(s, 1, b) \o SubSeq(s, b + 1, n) = SubSeq(s, 1, n)
      <3>1. 1 \in 1..(Len(s) + 1) /\ b \in (1 - 1)..Len(s) /\ n \in b..Len(s)
        BY <1>a
      <3>2. QED
        BY <3>1, ConcatAdjacentSubSeq
    <2>2. SubSeq(s, 1, n) = s
      BY <1>a
    <2>3. QED
      BY <1>1, <1>a, <1>c, <2>1, <2>2
  <1>4. PICK x, y, z : x = FlattenSeq(p) /\ y = FlattenSeq(q) /\ z = FlattenSeq(r)
    OBVIOUS
  <1>5. x \in Seq(S) /\ y \in Seq(S) /\ z \in Seq(S)
    BY <1>2, <1>4, FlattenType
  <1>6. FlatTo(s, a) = x /\ FlatTo(s, b) = x \o y
    BY <1>1, <1>2, <1>4, FlattenJoin DEF FlatTo
  <1>7. FlattenSeq(s) = (x \o y) \o z
    <2>1. FlattenSeq((p \o q) \o r) = FlattenSeq(p \o q) \o FlattenSeq(r)
      BY <1>2, FlattenJoin
    <2>2. FlattenSeq(p \o q) = FlattenSeq(p) \o FlattenSeq(q)
      BY <1>2, FlattenJoin
    <2>3. QED
      BY <1>3, <1>4, <2>1, <2>2
  <1>8. /\ (x \o y) \o z \in Seq(S)
        /\ Len(x) \in 0..Len(x \o y) /\ Len(x \o y) \in 0..Len((x \o y) \o z)
        /\ y = SubSeq((x \o y) \o z, Len(x) + 1, Len(x \o y))
        /\ Len(y) = Len(x \o y) - Len(x)
    BY <1>5
  <1>9. QED
    BY <1>1, <1>4, <1>6, <1>7, <1>8 DEF FlatCut
=============================================================================
