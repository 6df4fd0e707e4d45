------------------------------ MODULE FoldFacts ------------------------------
(***************************************************************************)
(* Induction over sets of numbers and over finite sets, and what folds and *)
(* sums compute, for every input.                                          *)
(*                                                                         *)
(* The provers cannot instantiate a theorem with an operator among its     *)
(* parameters.  So the inductions are stated for sets, and the folds of one*)
(* operator are an instance of this module: Op is its constant.            *)
(***************************************************************************)
EXTENDS Integers, Sequences, SequencesExt, FiniteSetTheorems, SequenceTheorems,
        WellFoundedInduction, TLAPS

CONSTANT Op(_, _, _)    \* a step of a fold: what does not change, the value so far,
                        \* and the next element

-----------------------------------------------------------------------------
(* Induction.                                                              *)

(* Every number is in a set that has 0, and n + 1 with each n.             *)
THEOREM NumberInduction ==
    ASSUME NEW S, 0 \in S, \A n \in Nat : n \in S => n + 1 \in S
    PROVE  Nat \subseteq S
<1> DEFINE T == Nat \ S
           R == OpToRel(<, Nat)
<1> SUFFICES ASSUME T # {} PROVE FALSE
  OBVIOUS
<1>1. IsWellFoundedOn(R, Nat)
  BY NatLessThanWellFounded
<1>2. \A x, y \in Nat : y < x => <<y, x>> \in R
  BY DEF OpToRel
<1>3. PICK x \in T : \A y \in T : <<y, x>> \notin R
  <2>1. T \subseteq Nat
    OBVIOUS
  <2> HIDE DEF R, T
  <2> QED BY <1>1, <2>1, WFMin
<1> HIDE DEF R
<1>4. x # 0 /\ x \in Nat
  BY <1>3
<1>5. x - 1 \in Nat /\ x - 1 < x /\ (x - 1) + 1 = x
  BY <1>4
<1>6. x - 1 \notin T
  BY <1>2, <1>3, <1>4, <1>5
<1> QED BY <1>3, <1>4, <1>5, <1>6

(* A finite set is in a set F of its subsets that has {}, and with each of *)
(* them those with one more element.                                       *)
THEOREM SubsetInduction ==
    ASSUME NEW S, IsFiniteSet(S), NEW F, {} \in F,
           \A T \in SUBSET S, x \in S : T \in F /\ x \notin T => T \cup {x} \in F
    PROVE  S \in F
<1> DEFINE N == {n \in Nat : \A T \in SUBSET S : Cardinality(T) = n => T \in F}
<1>1. \A T \in SUBSET S : IsFiniteSet(T) /\ Cardinality(T) \in Nat
  BY FS_Subset, FS_CardinalityType
<1>2. 0 \in N
  BY <1>1, FS_EmptySet
<1>3. ASSUME NEW n \in Nat, n \in N PROVE n + 1 \in N
  <2> SUFFICES ASSUME NEW T \in SUBSET S, Cardinality(T) = n + 1 PROVE T \in F
    OBVIOUS
  <2>1. T # {}
    BY <1>1, FS_EmptySet
  <2>2. PICK x : x \in T
    BY <2>1
  <2>3. Cardinality(T \ {x}) = n
    <3>1. Cardinality(T \ {x}) = Cardinality(T) - 1
      BY <1>1, <2>2, FS_RemoveElement
    <3> QED BY <3>1
  <2>4. T \ {x} \in F
    BY <1>3, <2>3
  <2>5. (T \ {x}) \cup {x} = T
    BY <2>2
  <2> QED BY <2>2, <2>4, <2>5
<1> HIDE DEF N
<1>4. Nat \subseteq N
  BY <1>2, <1>3, NumberInduction
<1>5. Cardinality(S) \in N
  BY <1>1, <1>4
<1> QED BY <1>5 DEF N

-----------------------------------------------------------------------------
(* Folds over sequences.                                                   *)

Fold(p, base, s) == FoldLeft(LAMBDA x, e : Op(p, x, e), base, s)

(* r has the values of the fold after each element.                        *)
IsRun(r, p, base, s) ==
    /\ DOMAIN r = 0..Len(s) /\ r[0] = base
    /\ \A i \in 1..Len(s) : r[i] = Op(p, r[i - 1], s[i])

(* FoldLeft takes the elements of its sequence from the largest index down.*)
LEMMA MaxOfSet ==
    ASSUME NEW n \in Nat, NEW S \in SUBSET (1..n), S # {}
    PROVE  Max(S) \in S
<1> DEFINE T == {k \in Nat : n - k \in S}
           R == OpToRel(<, Nat)
<1>1. T # {} /\ T \subseteq Nat
  <2>1. PICK x : x \in S
    OBVIOUS
  <2>2. n - x \in Nat /\ n - (n - x) \in S
    BY <2>1
  <2> QED BY <2>2
<1>2. IsWellFoundedOn(R, Nat)
  BY NatLessThanWellFounded
<1>3. \A x, y \in Nat : y < x => <<y, x>> \in R
  BY DEF OpToRel
<1>4. PICK k \in T : \A y \in T : <<y, k>> \notin R
  <2> HIDE DEF R, T
  <2> QED BY <1>1, <1>2, WFMin
<1> HIDE DEF R
<1>5. \A y \in S : n - k >= y
  <2> SUFFICES ASSUME NEW y \in S, y > n - k PROVE FALSE
    BY <1>4
  <2>1. n - y \in Nat /\ n - (n - y) \in S /\ n - y < k
    BY <1>4
  <2> QED BY <1>3, <1>4, <2>1
<1>6. n - k \in S
  BY <1>4
<1> QED BY <1>5, <1>6 DEF Max

LEMMA MaxOfInterval == ASSUME NEW n \in Nat \ {0} PROVE Max(1..n) = n
<1>1. Max(1..n) \in 1..n
  <2>1. 1..n # {} /\ 1..n \in SUBSET (1..n)
    OBVIOUS
  <2> QED BY <2>1, MaxOfSet
<1>2. \E x \in 1..n : \A y \in 1..n : x >= y
  <2>1. n \in 1..n /\ \A y \in 1..n : n >= y
    OBVIOUS
  <2> QED BY <2>1
<1>3. \A y \in 1..n : Max(1..n) >= y
  BY <1>2 DEF Max
<1> QED BY <1>1, <1>3

(* The recursive function of FoldLeft exists: on sets of up to n elements  *)
(* for every n.                                                            *)
LEMMA FoldIterates ==
    ASSUME NEW p, NEW base, NEW s, Len(s) \in Nat, DOMAIN s = 1..Len(s)
    PROVE  \E it : /\ it = [T \in SUBSET (1..Len(s)) |->
                              IF T = {} THEN base
                              ELSE Op(p, it[T \ {Max(T)}], s[Max(T)])]
                   /\ Fold(p, base, s) = it[1..Len(s)]
<1> DEFINE D == 1..Len(s)
           Up(n) == {T \in SUBSET D : Cardinality(T) <= n}
           Value(g, T) == IF T = {} THEN base ELSE Op(p, g[T \ {Max(T)}], s[Max(T)])
           N == {n \in Nat : \E g : g = [T \in Up(n) |-> Value(g, T)]}
<1>0. IsFiniteSet(D) /\ Cardinality(D) \in Nat
  BY FS_Interval, FS_CardinalityType
<1>1. \A T \in SUBSET D : IsFiniteSet(T) /\ Cardinality(T) \in Nat
                          /\ Cardinality(T) <= Cardinality(D)
  BY <1>0, FS_Subset, FS_CardinalityType
<1>2. ASSUME NEW T \in SUBSET D, T # {}
      PROVE  /\ T \ {Max(T)} \in SUBSET D
             /\ Cardinality(T \ {Max(T)}) = Cardinality(T) - 1
  BY <1>1, <1>2, MaxOfSet, FS_RemoveElement
<1>3. 0 \in N
  <2>1. \A T \in Up(0) : T = {}
    BY <1>1, FS_EmptySet
  <2> DEFINE g == [T \in Up(0) |-> base]
  <2>2. g = [T \in Up(0) |-> Value(g, T)]
    BY <2>1
  <2> QED BY <2>2
<1>4. ASSUME NEW n \in Nat, n \in N PROVE n + 1 \in N
  <2>1. PICK g : g = [T \in Up(n) |-> Value(g, T)]
    BY <1>4
  <2> DEFINE h == [T \in Up(n + 1) |-> Value(g, T)]
  <2>2. ASSUME NEW T \in Up(n) PROVE h[T] = g[T]
    <3>1. T \in Up(n + 1)
      BY <1>1
    <3> QED BY <2>1, <3>1
  <2>3. ASSUME NEW T \in Up(n + 1) PROVE Value(h, T) = Value(g, T)
    <3>1. T # {} => T \ {Max(T)} \in Up(n)
      <4>1. T \in SUBSET D /\ Cardinality(T) \in Nat /\ Cardinality(T) <= n + 1
        BY <1>1
      <4>2. ASSUME T # {}
            PROVE  T \ {Max(T)} \in SUBSET D /\ Cardinality(T \ {Max(T)}) <= n
        <5>1. /\ T \ {Max(T)} \in SUBSET D
              /\ Cardinality(T \ {Max(T)}) = Cardinality(T) - 1
          BY <4>1, <4>2, <1>2
        <5> QED BY <4>1, <5>1
      <4> QED BY <4>2
    <3> HIDE DEF h, Up
    <3> QED BY <2>2, <3>1
  <2>4. h = [T \in Up(n + 1) |-> Value(h, T)]
    <3> HIDE DEF Value
    <3> QED BY <2>3
  <2> HIDE DEF h, Value, Up
  <2>5. \E f : f = [T \in Up(n + 1) |-> Value(f, T)]
    BY <2>4
  <2> QED BY <2>5
<1> HIDE DEF N
<1>5. Cardinality(D) \in N
  BY <1>0, <1>3, <1>4, NumberInduction
<1>6. Up(Cardinality(D)) = SUBSET D
  BY <1>1
<1>7. \E g : g = [T \in SUBSET D |-> Value(g, T)]
  BY <1>5, <1>6 DEF N
<1> DEFINE it == CHOOSE g : g = [T \in SUBSET D |-> Value(g, T)]
<1>8. it = [T \in SUBSET D |-> Value(it, T)]
  BY <1>7
<1>9. Fold(p, base, s) = it[D]
  BY DEF Fold, FoldLeft, MapThenFoldSet
<1> QED BY <1>8, <1>9

(* Each fold over a sequence has a run, and is its last value.             *)
THEOREM FoldHasRun ==
    ASSUME NEW p, NEW base, NEW s, Len(s) \in Nat, DOMAIN s = 1..Len(s)
    PROVE  \E r : IsRun(r, p, base, s) /\ Fold(p, base, s) = r[Len(s)]
<1>1. PICK it : /\ it = [T \in SUBSET (1..Len(s)) |->
                            IF T = {} THEN base
                            ELSE Op(p, it[T \ {Max(T)}], s[Max(T)])]
                /\ Fold(p, base, s) = it[1..Len(s)]
  BY ZenonT(30), FoldIterates
<1> DEFINE r == [i \in 0..Len(s) |-> it[1..i]]
<1>2. r[0] = base
  <2>1. 1..0 = {} /\ 1..0 \in SUBSET (1..Len(s))
    OBVIOUS
  <2>2. it[1..0] = base
    BY <1>1, <2>1
  <2> QED BY <2>2
<1>3. ASSUME NEW i \in 1..Len(s) PROVE r[i] = Op(p, r[i - 1], s[i])
  <2>1. /\ i \in Nat \ {0} /\ i \in 0..Len(s) /\ i - 1 \in 0..Len(s)
        /\ 1..i \in SUBSET (1..Len(s)) /\ 1..i # {}
        /\ (1..i) \ {i} = 1..(i - 1)
    <3> HIDE DEF r
    <3>1. i \in Nat \ {0} /\ i \in 0..Len(s) /\ i - 1 \in 0..Len(s)
      OBVIOUS
    <3>2. 1..i \in SUBSET (1..Len(s)) /\ 1..i # {}
      <4>1. i \in 1..i /\ \A j \in 1..i : j \in 1..Len(s)
        OBVIOUS
      <4> QED BY <4>1
    <3>3. (1..i) \ {i} = 1..(i - 1)
      OBVIOUS
    <3> QED BY <3>1, <3>2, <3>3
  <2>2. Max(1..i) = i
    BY <2>1, MaxOfInterval
  <2>3. it[1..i] = Op(p, it[1..(i - 1)], s[i])
    BY <1>1, <2>1, <2>2
  <2> QED BY <2>1, <2>3
<1>4. IsRun(r, p, base, s)
  BY <1>2, <1>3 DEF IsRun
<1>5. Fold(p, base, s) = r[Len(s)]
  BY <1>1
<1> HIDE DEF r
<1> QED BY <1>4, <1>5

(* Sequences that agree up to n have runs that do.                         *)
THEOREM RunsAgree ==
    ASSUME NEW p, NEW base, NEW s, NEW t, NEW n \in Nat,
           Len(s) \in Nat, n <= Len(s), Len(t) \in Nat, n <= Len(t),
           \A i \in 1..n : s[i] = t[i],
           NEW q, IsRun(q, p, base, s), NEW r, IsRun(r, p, base, t)
    PROVE  \A i \in 0..n : q[i] = r[i]
<1> DEFINE N == {i \in Nat : i <= n => q[i] = r[i]}
<1>1. 0 \in N
  BY DEF IsRun
<1>2. ASSUME NEW i \in Nat, i \in N PROVE i + 1 \in N
  <2> SUFFICES ASSUME i + 1 <= n PROVE q[i + 1] = r[i + 1]
    OBVIOUS
  <2>1. q[i] = r[i]
    BY <1>2
  <2>2. i + 1 \in 1..n /\ i + 1 \in 1..Len(s) /\ i + 1 \in 1..Len(t) /\ (i + 1) - 1 = i
    OBVIOUS
  <2>3. q[i + 1] = Op(p, q[i], s[i + 1]) /\ r[i + 1] = Op(p, r[i], t[i + 1])
    BY <2>2 DEF IsRun
  <2> QED BY <2>1, <2>2, <2>3
<1> HIDE DEF N
<1>3. Nat \subseteq N
  BY <1>1, <1>2, NumberInduction
<1> QED BY <1>3 DEF N

(* So a run shows the value of the fold.                                   *)
THEOREM RunIsFold ==
    ASSUME NEW p, NEW base, NEW s, Len(s) \in Nat, DOMAIN s = 1..Len(s),
           NEW r, IsRun(r, p, base, s)
    PROVE  Fold(p, base, s) = r[Len(s)]
<1>1. PICK q : IsRun(q, p, base, s) /\ Fold(p, base, s) = q[Len(s)]
  BY FoldHasRun
<1>2. \A i \in 0..Len(s) : q[i] = r[i]
  <2>1. Len(s) <= Len(s) /\ \A i \in 1..Len(s) : s[i] = s[i]
    OBVIOUS
  <2> QED BY <1>1, <2>1, RunsAgree
<1> QED BY <1>1, <1>2

(* The fold of no element is the base,                                     *)
THEOREM FoldOfNone ==
    ASSUME NEW p, NEW base, NEW s, Len(s) = 0, DOMAIN s = 1..Len(s)
    PROVE  Fold(p, base, s) = base
<1>1. PICK r : IsRun(r, p, base, s) /\ Fold(p, base, s) = r[Len(s)]
  BY FoldHasRun
<1> QED BY <1>1 DEF IsRun

(* and one more element is one more step.                                  *)
THEOREM FoldOfOneMore ==
    ASSUME NEW p, NEW base,
           NEW s, Len(s) \in Nat, DOMAIN s = 1..Len(s),
           NEW t, Len(t) = Len(s) + 1, DOMAIN t = 1..Len(t),
           \A i \in 1..Len(s) : t[i] = s[i]
    PROVE  Fold(p, base, t) = Op(p, Fold(p, base, s), t[Len(s) + 1])
<1>1. PICK q : IsRun(q, p, base, s) /\ Fold(p, base, s) = q[Len(s)]
  BY FoldHasRun
<1>2. PICK r : IsRun(r, p, base, t) /\ Fold(p, base, t) = r[Len(t)]
  BY FoldHasRun
<1>3. q[Len(s)] = r[Len(s)]
  BY <1>1, <1>2, RunsAgree
<1>4. r[Len(s) + 1] = Op(p, r[Len(s)], t[Len(s) + 1])
  <2>1. Len(s) + 1 \in 1..Len(t) /\ (Len(s) + 1) - 1 = Len(s)
    OBVIOUS
  <2>2. r[Len(s) + 1] = Op(p, r[(Len(s) + 1) - 1], t[Len(s) + 1])
    BY <1>2, <2>1 DEF IsRun
  <2> QED BY <2>1, <2>2
<1> QED BY <1>1, <1>2, <1>3, <1>4

-----------------------------------------------------------------------------
(* Sums over finite sets.                                                  *)

(* The recursive function of the sum exists, as that of a fold does.       *)
LEMMA SumIterates ==
    ASSUME NEW f, NEW S, IsFiniteSet(S)
    PROVE  \E it : /\ it = [T \in SUBSET S |->
                              IF T = {} THEN 0
                              ELSE f[CHOOSE x \in T : TRUE] + it[T \ {CHOOSE x \in T : TRUE}]]
                   /\ SumFunctionOnSet(f, S) = it[S]
<1> DEFINE Chosen(T) == CHOOSE x \in T : TRUE
           Up(n) == {T \in SUBSET S : Cardinality(T) <= n}
           Value(g, T) == IF T = {} THEN 0 ELSE f[Chosen(T)] + g[T \ {Chosen(T)}]
           N == {n \in Nat : \E g : g = [T \in Up(n) |-> Value(g, T)]}
<1>0. Cardinality(S) \in Nat
  BY FS_CardinalityType
<1>1. \A T \in SUBSET S : IsFiniteSet(T) /\ Cardinality(T) \in Nat
                          /\ Cardinality(T) <= Cardinality(S)
  BY FS_Subset, FS_CardinalityType
<1>2. ASSUME NEW T \in SUBSET S, T # {}
      PROVE  /\ T \ {Chosen(T)} \in SUBSET S
             /\ Cardinality(T \ {Chosen(T)}) = Cardinality(T) - 1
  <2>1. Chosen(T) \in T
    BY <1>2
  <2> HIDE DEF Chosen
  <2> QED BY <1>1, <2>1, FS_RemoveElement
<1> HIDE DEF Chosen
<1>3. 0 \in N
  <2>1. \A T \in Up(0) : T = {}
    BY <1>1, FS_EmptySet
  <2> DEFINE g == [T \in Up(0) |-> 0]
  <2>2. g = [T \in Up(0) |-> Value(g, T)]
    BY <2>1
  <2> QED BY <2>2
<1>4. ASSUME NEW n \in Nat, n \in N PROVE n + 1 \in N
  <2>1. PICK g : g = [T \in Up(n) |-> Value(g, T)]
    BY <1>4
  <2> DEFINE h == [T \in Up(n + 1) |-> Value(g, T)]
  <2>2. ASSUME NEW T \in Up(n) PROVE h[T] = g[T]
    <3>1. T \in Up(n + 1)
      BY <1>1
    <3> QED BY <2>1, <3>1
  <2>3. ASSUME NEW T \in Up(n + 1) PROVE Value(h, T) = Value(g, T)
    <3>1. T # {} => T \ {Chosen(T)} \in Up(n)
      <4>1. T \in SUBSET S /\ Cardinality(T) \in Nat /\ Cardinality(T) <= n + 1
        BY <1>1
      <4>2. ASSUME T # {}
            PROVE  T \ {Chosen(T)} \in SUBSET S /\ Cardinality(T \ {Chosen(T)}) <= n
        <5>1. /\ T \ {Chosen(T)} \in SUBSET S
              /\ Cardinality(T \ {Chosen(T)}) = Cardinality(T) - 1
          BY <4>1, <4>2, <1>2
        <5> QED BY <4>1, <5>1
      <4> QED BY <4>2
    <3> HIDE DEF h, Up
    <3> QED BY <2>2, <3>1
  <2>4. h = [T \in Up(n + 1) |-> Value(h, T)]
    <3> HIDE DEF Value
    <3> QED BY <2>3
  <2> HIDE DEF h, Value, Up
  <2>5. \E k : k = [T \in Up(n + 1) |-> Value(k, T)]
    BY <2>4
  <2> QED BY <2>5
<1> HIDE DEF N
<1>5. Cardinality(S) \in N
  BY <1>0, <1>3, <1>4, NumberInduction
<1>6. Up(Cardinality(S)) = SUBSET S
  BY <1>1
<1>7. \E g : g = [T \in SUBSET S |-> Value(g, T)]
  BY <1>5, <1>6 DEF N
<1> DEFINE it == CHOOSE g : g = [T \in SUBSET S |-> Value(g, T)]
<1>8. it = [T \in SUBSET S |-> Value(it, T)]
  BY <1>7
<1>9. SumFunctionOnSet(f, S) = it[S]
  BY DEF SumFunctionOnSet, FoldFunctionOnSet, MapThenFoldSet, Chosen
<1> QED BY <1>8, <1>9 DEF Chosen

(* The sum over no elements is 0.                                          *)
THEOREM SumOfNone == ASSUME NEW f PROVE SumFunctionOnSet(f, {}) = 0
<1>1. PICK it : /\ it = [T \in SUBSET {} |->
                            IF T = {} THEN 0
                            ELSE f[CHOOSE x \in T : TRUE] + it[T \ {CHOOSE x \in T : TRUE}]]
                /\ SumFunctionOnSet(f, {}) = it[{}]
  BY SumIterates, FS_EmptySet
<1>2. {} \in SUBSET {}
  OBVIOUS
<1> QED BY <1>1, <1>2

(* The sum takes out some element.                                         *)
LEMMA SumTakesOut ==
    ASSUME NEW f, NEW S, IsFiniteSet(S), S # {}
    PROVE  \E c \in S : SumFunctionOnSet(f, S) = f[c] + SumFunctionOnSet(f, S \ {c})
<1> DEFINE Chosen(T) == CHOOSE x \in T : TRUE
           Sums(it, U) == it = [T \in SUBSET U |->
                                  IF T = {} THEN 0 ELSE f[Chosen(T)] + it[T \ {Chosen(T)}]]
           c == Chosen(S)
           R == S \ {c}
<1>1. c \in S
  OBVIOUS
<1>2. IsFiniteSet(R)
  BY FS_RemoveElement
<1>3. PICK it : Sums(it, S) /\ SumFunctionOnSet(f, S) = it[S]
  BY SumIterates
<1>4. PICK jt : Sums(jt, R) /\ SumFunctionOnSet(f, R) = jt[R]
  BY <1>2, SumIterates
<1> HIDE DEF c
<1> DEFINE N == {n \in Nat : \A T \in SUBSET R : Cardinality(T) = n => it[T] = jt[T]}
<1>5. \A T \in SUBSET R : IsFiniteSet(T) /\ Cardinality(T) \in Nat
  BY <1>2, FS_Subset, FS_CardinalityType
<1>6. 0 \in N
  <2>1. \A T \in SUBSET R : Cardinality(T) = 0 => T = {}
    BY <1>5, FS_EmptySet
  <2>2. it[{}] = 0 /\ jt[{}] = 0
    BY <1>3, <1>4
  <2> HIDE DEF Sums, R
  <2> QED BY <2>1, <2>2
<1>7. ASSUME NEW n \in Nat, n \in N PROVE n + 1 \in N
  <2> SUFFICES ASSUME NEW T \in SUBSET R, Cardinality(T) = n + 1 PROVE it[T] = jt[T]
    OBVIOUS
  <2>1. T # {} /\ T \in SUBSET S
    BY <1>5, FS_EmptySet
  <2>2. Chosen(T) \in T
    BY <2>1
  <2>3. it[T] = f[Chosen(T)] + it[T \ {Chosen(T)}] /\ jt[T] = f[Chosen(T)] + jt[T \ {Chosen(T)}]
    BY <1>3, <1>4, <2>1
  <2> HIDE DEF Chosen, Sums
  <2>4. Cardinality(T \ {Chosen(T)}) = n /\ T \ {Chosen(T)} \in SUBSET R
    <3>1. Cardinality(T \ {Chosen(T)}) = Cardinality(T) - 1
      BY <1>5, <2>2, FS_RemoveElement
    <3> QED BY <3>1
  <2>5. it[T \ {Chosen(T)}] = jt[T \ {Chosen(T)}]
    BY <1>7, <2>4
  <2> QED BY <2>3, <2>5
<1> HIDE DEF N
<1>8. Cardinality(R) \in N /\ R \in SUBSET R
  BY <1>5, <1>6, <1>7, NumberInduction
<1>9. it[R] = jt[R]
  BY <1>8 DEF N
<1>10. it[S] = f[c] + it[R]
  BY <1>3 DEF c
<1>11. SumFunctionOnSet(f, S) = it[S] /\ SumFunctionOnSet(f, R) = jt[R]
  BY <1>3, <1>4
<1>12. SumFunctionOnSet(f, S) = f[c] + SumFunctionOnSet(f, R)
  <2> HIDE DEF R, Sums, Chosen
  <2> QED BY <1>9, <1>10, <1>11
<1> QED BY <1>1, <1>12

(* Sums of integers are integers, and of natural numbers natural numbers.  *)
THEOREM SumType ==
    ASSUME NEW f, NEW S, IsFiniteSet(S), \A x \in S : f[x] \in Int
    PROVE  /\ SumFunctionOnSet(f, S) \in Int
           /\ (\A x \in S : f[x] \in Nat) => SumFunctionOnSet(f, S) \in Nat
<1> DEFINE N == {n \in Nat : \A T \in SUBSET S : Cardinality(T) = n =>
                   /\ SumFunctionOnSet(f, T) \in Int
                   /\ (\A x \in S : f[x] \in Nat) => SumFunctionOnSet(f, T) \in Nat}
<1>1. \A T \in SUBSET S : IsFiniteSet(T) /\ Cardinality(T) \in Nat
  BY FS_Subset, FS_CardinalityType
<1>2. 0 \in N
  <2>1. \A T \in SUBSET S : Cardinality(T) = 0 => T = {}
    BY <1>1, FS_EmptySet
  <2> QED BY <2>1, SumOfNone
<1>3. ASSUME NEW n \in Nat, n \in N PROVE n + 1 \in N
  <2> SUFFICES ASSUME NEW T \in SUBSET S, Cardinality(T) = n + 1
               PROVE  /\ SumFunctionOnSet(f, T) \in Int
                      /\ (\A x \in S : f[x] \in Nat) => SumFunctionOnSet(f, T) \in Nat
    OBVIOUS
  <2>1. T # {}
    BY <1>1, FS_EmptySet
  <2>2. PICK c \in T : SumFunctionOnSet(f, T) = f[c] + SumFunctionOnSet(f, T \ {c})
    BY <1>1, <2>1, SumTakesOut
  <2>3. Cardinality(T \ {c}) = n /\ T \ {c} \in SUBSET S
    <3>1. Cardinality(T \ {c}) = Cardinality(T) - 1
      BY <1>1, <2>2, FS_RemoveElement
    <3> QED BY <3>1
  <2>4. /\ SumFunctionOnSet(f, T \ {c}) \in Int
        /\ (\A x \in S : f[x] \in Nat) => SumFunctionOnSet(f, T \ {c}) \in Nat
    BY <1>3, <2>3
  <2> HIDE DEF N
  <2> QED BY <2>2, <2>4
<1> HIDE DEF N
<1>4. Cardinality(S) \in N /\ S \in SUBSET S
  BY <1>1, <1>2, <1>3, NumberInduction
<1> QED BY <1>4 DEF N

(* Any element can be taken out.                                           *)
THEOREM SumOfOneMore ==
    ASSUME NEW f, NEW S, IsFiniteSet(S), \A x \in S : f[x] \in Int, NEW a \in S
    PROVE  SumFunctionOnSet(f, S) = f[a] + SumFunctionOnSet(f, S \ {a})
<1> DEFINE Sum(T) == SumFunctionOnSet(f, T)
           N == {n \in Nat : \A T \in SUBSET S : Cardinality(T) = n =>
                   \A x \in T : Sum(T) = f[x] + Sum(T \ {x})}
<1>1. \A T \in SUBSET S : IsFiniteSet(T) /\ Cardinality(T) \in Nat
  BY FS_Subset, FS_CardinalityType
<1>2. \A T \in SUBSET S : Sum(T) \in Int
  BY <1>1, SumType
<1>3. \A T \in SUBSET S : \A x \in T : Cardinality(T \ {x}) = Cardinality(T) - 1
  BY <1>1, FS_RemoveElement
<1>4. 0 \in N
  <2>1. \A T \in SUBSET S : Cardinality(T) = 0 => T = {}
    BY <1>1, FS_EmptySet
  <2> HIDE DEF Sum
  <2> QED BY <2>1
<1>5. ASSUME NEW n \in Nat, n \in N PROVE n + 1 \in N
  <2> SUFFICES ASSUME NEW T \in SUBSET S, Cardinality(T) = n + 1, NEW x \in T
               PROVE  Sum(T) = f[x] + Sum(T \ {x})
    OBVIOUS
  <2>1. PICK c \in T : Sum(T) = f[c] + Sum(T \ {c})
    <3>1. T # {}
      OBVIOUS
    <3> QED BY <1>1, <3>1, SumTakesOut
  <2> HIDE DEF Sum
  <2>2. CASE x = c
    BY <2>1, <2>2
  <2>3. CASE x # c
    <3>1. /\ Cardinality(T \ {c}) = n /\ T \ {c} \in SUBSET S /\ x \in T \ {c}
          /\ Cardinality(T \ {x}) = n /\ T \ {x} \in SUBSET S /\ c \in T \ {x}
      BY <1>3, <2>3
    <3> DEFINE A == (T \ {c}) \ {x}
               B == (T \ {x}) \ {c}
    <3>2. Sum(T \ {c}) = f[x] + Sum(A) /\ Sum(T \ {x}) = f[c] + Sum(B)
      BY <1>5, <3>1
    <3>3. A = B
      OBVIOUS
    <3>4. Sum(A) \in Int /\ f[x] \in Int /\ f[c] \in Int
      BY <1>2
    <3> HIDE DEF N, A, B
    <3>5. Sum(T) = f[c] + (f[x] + Sum(A))
      BY <2>1, <3>2
    <3>6. Sum(T \ {x}) = f[c] + Sum(A)
      BY <3>2, <3>3
    <3> QED BY <3>4, <3>5, <3>6
  <2> QED BY <2>2, <2>3
<1> HIDE DEF N
<1>6. Cardinality(S) \in N /\ S \in SUBSET S
  BY <1>1, <1>4, <1>5, NumberInduction
<1> QED BY <1>6 DEF N

(* Only the values on the set matter.                                      *)
THEOREM SumOfEqual ==
    ASSUME NEW f, NEW g, NEW S, IsFiniteSet(S), \A x \in S : f[x] \in Int /\ f[x] = g[x]
    PROVE  SumFunctionOnSet(f, S) = SumFunctionOnSet(g, S)
<1> DEFINE F == {T \in SUBSET S : SumFunctionOnSet(f, T) = SumFunctionOnSet(g, T)}
<1>1. {} \in F
  BY SumOfNone
<1>2. ASSUME NEW T \in SUBSET S, NEW x \in S, T \in F, x \notin T
      PROVE  T \cup {x} \in F
  <2>1. /\ IsFiniteSet(T \cup {x}) /\ (T \cup {x}) \ {x} = T /\ T \cup {x} \in SUBSET S
        /\ \A y \in T \cup {x} : f[y] \in Int /\ g[y] \in Int
    BY <1>2, FS_Subset
  <2>2. SumFunctionOnSet(f, T \cup {x}) = f[x] + SumFunctionOnSet(f, T)
    BY <2>1, SumOfOneMore
  <2>3. SumFunctionOnSet(g, T \cup {x}) = g[x] + SumFunctionOnSet(g, T)
    BY <2>1, SumOfOneMore
  <2> QED BY <1>2, <2>1, <2>2, <2>3
<1> HIDE DEF F
<1>3. S \in F
  BY <1>1, <1>2, SubsetInduction
<1> QED BY <1>3 DEF F

(* The sum over two sets that have no element in common.                   *)
THEOREM SumOfUnion ==
    ASSUME NEW f, NEW S, NEW U, IsFiniteSet(S), IsFiniteSet(U), S \cap U = {},
           \A x \in S \cup U : f[x] \in Int
    PROVE  SumFunctionOnSet(f, S \cup U) = SumFunctionOnSet(f, S) + SumFunctionOnSet(f, U)
<1> DEFINE Sum(T) == SumFunctionOnSet(f, T)
           F == {T \in SUBSET S : Sum(T \cup U) = Sum(T) + Sum(U)}
<1>1. \A T \in SUBSET S : IsFiniteSet(T) /\ IsFiniteSet(T \cup U)
  BY FS_Subset, FS_Union
<1>2. \A T \in SUBSET S : Sum(T) \in Int /\ Sum(T \cup U) \in Int
  BY <1>1, SumType
<1>3. Sum(U) \in Int
  BY SumType
<1>4. {} \in F
  <2>1. {} \cup U = U /\ Sum({}) = 0
    BY SumOfNone
  <2> HIDE DEF Sum
  <2> QED BY <1>3, <2>1
<1>5. ASSUME NEW T \in SUBSET S, NEW x \in S, T \in F, x \notin T
      PROVE  T \cup {x} \in F
  <2> DEFINE V == T \cup {x}
  <2>1. /\ V \in SUBSET S /\ V \ {x} = T /\ (V \cup U) \ {x} = T \cup U
        /\ x \in V /\ x \in V \cup U
    BY <1>5
  <2> HIDE DEF V
  <2>2. Sum(V) = f[x] + Sum(V \ {x})
    BY <1>1, <2>1, SumOfOneMore
  <2>3. Sum(V \cup U) = f[x] + Sum((V \cup U) \ {x})
    BY <1>1, <2>1, SumOfOneMore
  <2> HIDE DEF Sum
  <2>4. Sum(V \cup U) = Sum(V) + Sum(U)
    <3> DEFINE W == V \cup U
    <3>1. Sum(T \cup U) = Sum(T) + Sum(U) /\ f[x] \in Int /\ Sum(T) \in Int
      BY <1>2, <1>5
    <3>2. V \ {x} = T /\ W \ {x} = T \cup U
      BY <2>1
    <3>3. Sum(V) = f[x] + Sum(T)
      BY <2>2, <3>2
    <3>4. Sum(W) = f[x] + Sum(T \cup U)
      BY <2>3, <3>2
    <3> QED BY <1>3, <3>1, <3>3, <3>4
  <2>5. V \in F
    BY <2>1, <2>4
  <2> QED BY <2>5 DEF V
<1> HIDE DEF F
<1>6. S \in F
  BY <1>4, <1>5, SubsetInduction
<1> QED BY <1>6 DEF F
=============================================================================
