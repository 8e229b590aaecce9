---------------------------- MODULE BookTheorems -----------------------------
(***************************************************************************)
(* Lemmas about sums over finite sets and about the operators of OrderBook. *)
(*                                                                         *)
(* The models add up quantities with the folds of the community modules,   *)
(* which are recursive functions below a CHOOSE; Sigma(w, S) is the sum of *)
(* w[x] over x in S, the lemmas say how it changes with S and w, and       *)
(* FoldIsSigma and SumFunctionIsSigma that the folds compute it.           *)
(*                                                                         *)
(* Resting, unlinking and reducing keep a well-formed book well-formed; the *)
(* lemmas say what they do to the prices that have a level, to the ids that *)
(* rest, and to the quantities of levels and orders.                       *)
(***************************************************************************)
EXTENDS OrderBook, SequenceTheorems, Functions, WellFoundedInduction, FiniteSetTheorems, TLAPS

(* h gives the sum of w over every subset of S.                            *)
IsSum(h, w, S) ==
  /\ h \in [SUBSET S -> Int]
  /\ h[{}] = 0
  /\ \A T \in SUBSET S : \A x \in T : h[T] = w[x] + h[T \ {x}]

(* g takes the sum of a non-empty subset by setting some element aside,    *)
(* like the folds, which set aside the one that CHOOSE returns.            *)
AddsUp(g, w, S) ==
  /\ g[{}] = 0
  /\ \A T \in SUBSET S : T # {} => \E x \in T : g[T] = w[x] + g[T \ {x}]

Sigma(w, S) == (CHOOSE h : IsSum(h, w, S))[S]

Weighs(w, S) == IsFiniteSet(S) /\ \A x \in S : w[x] \in Int

LEMMA NatLessWellFounded ==
  IsWellFoundedOn({ss \in Nat \X Nat : ss[1] < ss[2]}, Nat)
BY NatLessThanWellFounded DEF OpToRel

(* Induction, for a property given as the set of numbers that have it.     *)
LEMMA Induction ==
  ASSUME NEW P, 0 \in P, \A n \in Nat : n \in P => n + 1 \in P
  PROVE  Nat \subseteq P
<1> DEFINE R   == {ss \in Nat \X Nat : ss[1] < ss[2]}
           Bad == Nat \ P
<1> SUFFICES ASSUME Bad # {} PROVE FALSE
  OBVIOUS
<1>1. IsWellFoundedOn(R, Nat)
  BY NatLessWellFounded
<1>2. PICK n \in Bad : \A m \in Bad : <<m, n>> \notin R
  <2> HIDE DEF R
  <2> QED BY <1>1, WFMin
<1>3. n # 0 /\ n \in Nat
  OBVIOUS
<1>4. n - 1 \in P
  <2>1. n - 1 \in Nat /\ <<n - 1, n>> \in R
    BY <1>3
  <2> QED BY <1>2, <2>1
<1> QED BY <1>3, <1>4

(* A fold over a sequence takes the greatest position first.                *)
LEMMA Greatest ==
  ASSUME NEW n \in Nat, NEW T \in SUBSET (1..n), T # {}
  PROVE  Max(T) \in T /\ \A y \in T : y <= Max(T)
<1> DEFINE P == {m \in Nat : \A U \in SUBSET (1..m) : U # {} => \E x \in U : \A y \in U : x >= y}
<1>1. 0 \in P
  <2>1. \A U \in SUBSET (1..0) : U = {}
    OBVIOUS
  <2> QED BY <2>1
<1>2. ASSUME NEW m \in Nat, m \in P
      PROVE  m + 1 \in P
  <2> SUFFICES ASSUME NEW U \in SUBSET (1..(m + 1)), U # {}
               PROVE  \E x \in U : \A y \in U : x >= y
    OBVIOUS
  <2>1. CASE m + 1 \in U
    BY <2>1
  <2>2. CASE m + 1 \notin U
    <3>1. U \in SUBSET (1..m)
      BY <2>2
    <3> QED BY <1>2, <3>1
  <2> QED BY <2>1, <2>2
<1>3. n \in P
  <2> HIDE DEF P
  <2> QED BY <1>1, <1>2, Induction
<1>4. \E x \in T : \A y \in T : x >= y
  BY <1>3
<1> QED BY <1>4 DEF Max

(* Taking an element out of a finite set, and its size.                    *)
LEMMA OneLess ==
  ASSUME NEW S, IsFiniteSet(S), NEW x \in S
  PROVE  /\ IsFiniteSet(S \ {x})
         /\ Cardinality(S) \in Nat /\ Cardinality(S \ {x}) = Cardinality(S) - 1
BY FS_RemoveElement, FS_CardinalityType

-----------------------------------------------------------------------------
LEMMA SumExtends ==
  ASSUME NEW S, NEW w, NEW a \in S, \A x \in S : w[x] \in Int,
         NEW g, IsSum(g, w, S \ {a})
  PROVE  \E h : IsSum(h, w, S)
<1> DEFINE h == [T \in SUBSET S |-> IF a \in T THEN w[a] + g[T \ {a}] ELSE g[T]]
<1>1. /\ g \in [SUBSET (S \ {a}) -> Int] /\ g[{}] = 0
      /\ \A T \in SUBSET (S \ {a}) : \A x \in T : g[T] = w[x] + g[T \ {x}]
  BY DEF IsSum
<1>2. h \in [SUBSET S -> Int] /\ h[{}] = 0
  <2>1. \A T \in SUBSET S : T \ {a} \in SUBSET (S \ {a})
    OBVIOUS
  <2>2. \A T \in SUBSET S : a \notin T => T \in SUBSET (S \ {a})
    OBVIOUS
  <2> QED BY <1>1, <2>1, <2>2
<1>3. ASSUME NEW T \in SUBSET S, NEW x \in T
      PROVE  h[T] = w[x] + h[T \ {x}]
  <2>1. CASE x = a
    BY <2>1
  <2>2. CASE x # a /\ a \notin T
    <3>1. T \in SUBSET (S \ {a}) /\ a \notin T \ {x} /\ T \ {x} \in SUBSET S
      BY <2>2
    <3> QED BY <1>1, <2>2, <3>1
  <2>3. CASE x # a /\ a \in T
    <3> DEFINE U == T \ {a}
               V == U \ {x}
    <3>1. U \in SUBSET (S \ {a}) /\ x \in U /\ V \in SUBSET (S \ {a})
      BY <2>3
    <3>2. (T \ {x}) \ {a} = V /\ a \in T \ {x} /\ T \ {x} \in SUBSET S
      BY <2>3
    <3>3. g[U] = w[x] + g[V] /\ g[U] \in Int /\ g[V] \in Int
      BY <1>1, <3>1
    <3>4. h[T] = w[a] + g[U] /\ h[T \ {x}] = w[a] + g[V]
      BY <2>3, <3>2
    <3> HIDE DEF h, U, V
    <3>5. w[x] \in Int /\ w[a] \in Int
      OBVIOUS
    <3> QED BY <3>3, <3>4, <3>5
  <2> QED BY <2>1, <2>2, <2>3
<1>4. IsSum(h, w, S)
  <2> HIDE DEF h
  <2> QED BY <1>2, <1>3 DEF IsSum
<1> QED BY <1>4

(* Every finite set has such an h.                                         *)
LEMMA SumExists ==
  ASSUME NEW S, NEW w, Weighs(w, S)
  PROVE  \E h : IsSum(h, w, S)
<1> DEFINE Sized(n) == {T \in SUBSET S : Cardinality(T) = n}
           P == {n \in Nat : \A T \in Sized(n) : \E h : IsSum(h, w, T)}
<1>1. IsFiniteSet(S) /\ \A x \in S : w[x] \in Int
  BY DEF Weighs
<1>2. \A T \in SUBSET S : IsFiniteSet(T) /\ Cardinality(T) \in Nat
  BY <1>1, FS_Subset, FS_CardinalityType
<1>3. 0 \in P
  <2> SUFFICES ASSUME NEW T \in Sized(0) PROVE \E h : IsSum(h, w, T)
    OBVIOUS
  <2>1. T = {}
    BY <1>2, FS_EmptySet
  <2> DEFINE h == [U \in {{}} |-> 0]
  <2>2. h \in [SUBSET {} -> Int] /\ h[{}] = 0
    OBVIOUS
  <2>3. IsSum(h, w, {})
    BY <2>2 DEF IsSum
  <2> QED BY <2>1, <2>3
<1>4. ASSUME NEW n \in Nat, n \in P
      PROVE  n + 1 \in P
  <2> SUFFICES ASSUME NEW T \in Sized(n + 1) PROVE \E h : IsSum(h, w, T)
    OBVIOUS
  <2>1. T # {}
    BY FS_EmptySet
  <2>2. PICK a \in T : TRUE
    BY <2>1
  <2>3. T \ {a} \in Sized(n)
    BY <1>2, OneLess
  <2>4. PICK g : IsSum(g, w, T \ {a})
    BY <1>4, <2>3
  <2> HIDE DEF P, Sized
  <2>5. T \in SUBSET S
    BY DEF Sized
  <2> QED BY <1>1, <2>4, <2>5, SumExtends
<1>5. Cardinality(S) \in P
  <2> HIDE DEF P
  <2> QED BY <1>2, <1>3, <1>4, Induction
<1> QED BY <1>5

(* A function that adds some element at every non-empty subset is that h.  *)
LEMMA SumUnique ==
  ASSUME NEW S, NEW w, Weighs(w, S), NEW h, IsSum(h, w, S), NEW g, AddsUp(g, w, S)
  PROVE  \A T \in SUBSET S : g[T] = h[T]
<1> DEFINE Sized(n) == {T \in SUBSET S : Cardinality(T) = n}
           P == {n \in Nat : \A T \in Sized(n) : g[T] = h[T]}
<1>1. \A T \in SUBSET S : IsFiniteSet(T) /\ Cardinality(T) \in Nat
  BY FS_Subset, FS_CardinalityType DEF Weighs
<1>2. 0 \in P
  <2> SUFFICES ASSUME NEW T \in Sized(0) PROVE g[T] = h[T]
    OBVIOUS
  <2>1. T = {}
    BY <1>1, FS_EmptySet
  <2> QED BY <2>1 DEF IsSum, AddsUp
<1>3. ASSUME NEW n \in Nat, n \in P
      PROVE  n + 1 \in P
  <2> SUFFICES ASSUME NEW T \in Sized(n + 1) PROVE g[T] = h[T]
    OBVIOUS
  <2>1. T # {}
    BY FS_EmptySet
  <2>2. PICK x \in T : g[T] = w[x] + g[T \ {x}]
    BY <2>1 DEF AddsUp
  <2>3. T \ {x} \in Sized(n)
    BY <1>1, OneLess
  <2>4. g[T \ {x}] = h[T \ {x}]
    BY <1>3, <2>3
  <2>5. h[T] = w[x] + h[T \ {x}]
    BY DEF IsSum
  <2> QED BY <2>2, <2>4, <2>5
<1>4. ASSUME NEW T \in SUBSET S
      PROVE  g[T] = h[T]
  <2>1. Cardinality(T) \in P
    <3> HIDE DEF P
    <3> QED BY <1>1, <1>2, <1>3, Induction
  <2> QED BY <2>1
<1> QED BY <1>4

LEMMA SumsAgree ==
  ASSUME NEW S, NEW w, Weighs(w, S), NEW h, IsSum(h, w, S), NEW g, IsSum(g, w, S)
  PROVE  g[S] = h[S]
<1>1. AddsUp(g, w, S)
  BY DEF IsSum, AddsUp
<1>2. \A T \in SUBSET S : g[T] = h[T]
  BY <1>1, SumUnique
<1> QED BY <1>2

(* The sum of any subset is read off the same h.                           *)
LEMMA SigmaSubset ==
  ASSUME NEW S, NEW w, Weighs(w, S), NEW h, IsSum(h, w, S), NEW T \in SUBSET S
  PROVE  Sigma(w, T) = h[T]
<1>1. Weighs(w, T)
  BY FS_Subset DEF Weighs
<1> DEFINE g == CHOOSE k : IsSum(k, w, T)
<1>2. IsSum(g, w, T)
  <2>1. \E k : IsSum(k, w, T)
    BY <1>1, SumExists
  <2> QED BY <2>1
<1> HIDE DEF g
<1> DEFINE f == [U \in SUBSET T |-> h[U]]
<1>3. IsSum(f, w, T)
  <2>1. f \in [SUBSET T -> Int] /\ f[{}] = 0
    BY DEF IsSum
  <2>2. ASSUME NEW U \in SUBSET T, NEW x \in U
        PROVE  f[U] = w[x] + f[U \ {x}]
    <3>1. U \in SUBSET S /\ U \ {x} \in SUBSET T
      OBVIOUS
    <3>2. h[U] = w[x] + h[U \ {x}]
      BY <3>1 DEF IsSum
    <3> QED BY <3>1, <3>2
  <2> HIDE DEF f
  <2> QED BY <2>1, <2>2 DEF IsSum
<1>4. g[T] = f[T]
  <2> HIDE DEF f
  <2> QED BY <1>1, <1>2, <1>3, SumsAgree
<1>5. f[T] = h[T]
  OBVIOUS
<1> QED BY <1>4, <1>5 DEF Sigma, g

-----------------------------------------------------------------------------
(* The laws of sums. *)

LEMMA SigmaLaws ==
  ASSUME NEW S, NEW w, Weighs(w, S)
  PROVE  /\ Sigma(w, S) \in Int
         /\ Sigma(w, {}) = 0
         /\ \A x \in S : Sigma(w, S) = w[x] + Sigma(w, S \ {x})
<1>1. PICK h : IsSum(h, w, S)
  BY SumExists
<1>2. \A T \in SUBSET S : Sigma(w, T) = h[T]
  BY <1>1, SigmaSubset
<1>3. /\ Sigma(w, S) = h[S] /\ Sigma(w, {}) = h[{}]
      /\ \A x \in S : Sigma(w, S \ {x}) = h[S \ {x}]
  BY <1>2
<1> QED BY <1>1, <1>3 DEF IsSum

LEMMA SigmaAdd ==
  ASSUME NEW S, NEW w, Weighs(w, S), NEW x, x \notin S, w[x] \in Int
  PROVE  /\ Weighs(w, S \cup {x})
         /\ Sigma(w, S \cup {x}) = w[x] + Sigma(w, S)
<1>1. Weighs(w, S \cup {x})
  BY FS_AddElement DEF Weighs
<1>2. (S \cup {x}) \ {x} = S
  OBVIOUS
<1> QED BY <1>1, <1>2, SigmaLaws

(* Sums of equal weights are equal.                                        *)
LEMMA SigmaSame ==
  ASSUME NEW S, NEW w, Weighs(w, S), NEW v, \A x \in S : v[x] = w[x]
  PROVE  Sigma(v, S) = Sigma(w, S)
<1>1. PICK h : IsSum(h, w, S)
  BY SumExists
<1>2. IsSum(h, v, S)
  <2>1. \A T \in SUBSET S : \A x \in T : v[x] = w[x]
    OBVIOUS
  <2> QED BY <1>1, <2>1 DEF IsSum
<1>3. Weighs(v, S)
  BY DEF Weighs
<1> QED BY <1>1, <1>2, <1>3, SigmaSubset

(* A sum of natural numbers does not shrink when the set grows.            *)
LEMMA SigmaMonotonic ==
  ASSUME NEW S, NEW w, IsFiniteSet(S), \A x \in S : w[x] \in Nat
  PROVE  /\ Sigma(w, S) \in Nat
         /\ \A T \in SUBSET S : Sigma(w, T) <= Sigma(w, S)
<1> DEFINE P == {n \in Nat : \A T \in SUBSET S : Cardinality(T) = n =>
                   Sigma(w, T) \in Nat /\ \A U \in SUBSET T : Sigma(w, U) <= Sigma(w, T)}
<1>1. /\ \A T \in SUBSET S : IsFiniteSet(T) /\ Cardinality(T) \in Nat
      /\ \A T \in SUBSET S : Weighs(w, T)
  BY FS_Subset, FS_CardinalityType DEF Weighs
<1>2. 0 \in P
  <2> SUFFICES ASSUME NEW T \in SUBSET S, Cardinality(T) = 0
               PROVE  Sigma(w, T) \in Nat /\ \A U \in SUBSET T : Sigma(w, U) <= Sigma(w, T)
    OBVIOUS
  <2>1. T = {}
    BY <1>1, FS_EmptySet
  <2>2. Sigma(w, {}) = 0
    BY <1>1, SigmaLaws
  <2> QED BY <2>1, <2>2
<1>3. ASSUME NEW n \in Nat, n \in P
      PROVE  n + 1 \in P
  <2> SUFFICES ASSUME NEW T \in SUBSET S, Cardinality(T) = n + 1
               PROVE  Sigma(w, T) \in Nat /\ \A U \in SUBSET T : Sigma(w, U) <= Sigma(w, T)
    OBVIOUS
  <2>1. ASSUME NEW x \in T
        PROVE  /\ Sigma(w, T) = w[x] + Sigma(w, T \ {x})
               /\ Sigma(w, T \ {x}) \in Nat /\ w[x] \in Nat
               /\ \A U \in SUBSET (T \ {x}) : Sigma(w, U) <= Sigma(w, T \ {x})
    <3>1. T \ {x} \in SUBSET S /\ Cardinality(T \ {x}) = n
      BY <1>1, OneLess
    <3> QED BY <1>1, <1>3, <3>1, SigmaLaws
  <2>2. PICK a \in T : TRUE
    BY FS_EmptySet
  <2>3. Sigma(w, T) \in Nat
    <3>1. /\ Sigma(w, T) = w[a] + Sigma(w, T \ {a})
          /\ Sigma(w, T \ {a}) \in Nat /\ w[a] \in Nat
      BY <2>1, <2>2
    <3> QED BY <3>1
  <2>4. ASSUME NEW U \in SUBSET T
        PROVE  Sigma(w, U) <= Sigma(w, T)
    <3>1. CASE U = T
      BY <2>3, <3>1
    <3>2. CASE U # T
      <4>1. PICK x \in T : x \notin U
        BY <3>2
      <4>2. U \in SUBSET (T \ {x})
        BY <4>1
      <4>3. Sigma(w, U) \in Int
        BY <1>1, SigmaLaws
      <4>4. /\ Sigma(w, T) = w[x] + Sigma(w, T \ {x})
            /\ Sigma(w, T \ {x}) \in Nat /\ w[x] \in Nat
            /\ Sigma(w, U) <= Sigma(w, T \ {x})
        BY <2>1, <4>2
      <4> QED BY <4>3, <4>4
    <3> QED BY <3>1, <3>2
  <2> QED BY <2>3, <2>4
<1>4. Cardinality(S) \in P
  <2> HIDE DEF P
  <2> QED BY <1>1, <1>2, <1>3, Induction
<1> QED BY <1>4

(* What the folds of the community modules compute when they add: the fold *)
(* over S is the value at S of a function that satisfies this equation.    *)
Recursion(g, w, pick, S) ==
  g = [T \in SUBSET S |-> IF T = {} THEN 0 ELSE w[pick[T]] + g[T \ {pick[T]}]]

Picks(pick, S) == \A T \in SUBSET S : T # {} => pick[T] \in T

LEMMA FoldExists ==
  ASSUME NEW S, NEW w, Weighs(w, S), NEW pick, Picks(pick, S)
  PROVE  \E g : Recursion(g, w, pick, S)
<1>1. PICK h : IsSum(h, w, S)
  BY SumExists
<1>2. h = [T \in SUBSET S |-> h[T]]
  BY <1>1 DEF IsSum
<1>3. \A T \in SUBSET S :
        h[T] = IF T = {} THEN 0 ELSE w[pick[T]] + h[T \ {pick[T]}]
  BY <1>1 DEF IsSum, Picks
<1>4. Recursion(h, w, pick, S)
  BY <1>2, <1>3 DEF Recursion
<1> QED BY <1>4

LEMMA FoldIsSigma ==
  ASSUME NEW S, NEW w, Weighs(w, S), NEW pick, Picks(pick, S),
         NEW g, Recursion(g, w, pick, S)
  PROVE  g[S] = Sigma(w, S)
<1>1. PICK h : IsSum(h, w, S)
  BY SumExists
<1>2. AddsUp(g, w, S)
  <2>1. g[{}] = 0
    BY DEF Recursion
  <2>2. ASSUME NEW T \in SUBSET S, T # {}
        PROVE  \E x \in T : g[T] = w[x] + g[T \ {x}]
    <3>1. g[T] = w[pick[T]] + g[T \ {pick[T]}]
      BY <2>2 DEF Recursion
    <3> QED BY <2>2, <3>1 DEF Picks
  <2> QED BY <2>1, <2>2 DEF AddsUp
<1>3. \A T \in SUBSET S : g[T] = h[T]
  BY <1>1, <1>2, SumUnique
<1> QED BY <1>1, <1>3, SigmaSubset

(* One element's weight changes.                                           *)
LEMMA SigmaChange ==
  ASSUME NEW S, NEW w, Weighs(w, S), NEW v, Weighs(v, S), NEW x \in S,
         \A y \in S \ {x} : v[y] = w[y]
  PROVE  Sigma(v, S) = Sigma(w, S) + v[x] - w[x]
<1>1. Weighs(w, S \ {x})
  BY FS_RemoveElement DEF Weighs
<1>2. Sigma(v, S \ {x}) = Sigma(w, S \ {x})
  BY <1>1, SigmaSame
<1>3. /\ Sigma(w, S) = w[x] + Sigma(w, S \ {x})
      /\ Sigma(v, S) = v[x] + Sigma(v, S \ {x})
      /\ Sigma(w, S \ {x}) \in Int /\ v[x] \in Int /\ w[x] \in Int
  BY <1>1, SigmaLaws DEF Weighs
<1> QED BY <1>2, <1>3

(* Elements that weigh nothing can be left out.                            *)
LEMMA SigmaPart ==
  ASSUME NEW S, NEW w, Weighs(w, S), NEW T \in SUBSET S, \A x \in S \ T : w[x] = 0
  PROVE  Sigma(w, T) = Sigma(w, S)
<1> DEFINE P == {n \in Nat : \A U \in SUBSET S :
                   T \subseteq U /\ Cardinality(U \ T) = n => Sigma(w, T) = Sigma(w, U)}
<1>1. \A U \in SUBSET S : /\ Weighs(w, U) /\ Sigma(w, U) \in Int
                          /\ IsFiniteSet(U \ T) /\ Cardinality(U \ T) \in Nat
  BY FS_Subset, FS_CardinalityType, SigmaLaws DEF Weighs
<1>2. 0 \in P
  <2> SUFFICES ASSUME NEW U \in SUBSET S, T \subseteq U, Cardinality(U \ T) = 0
               PROVE  Sigma(w, T) = Sigma(w, U)
    OBVIOUS
  <2>1. U \ T = {}
    BY <1>1, FS_EmptySet
  <2>2. U = T
    BY <2>1
  <2> QED BY <2>2
<1>3. ASSUME NEW n \in Nat, n \in P
      PROVE  n + 1 \in P
  <2> SUFFICES ASSUME NEW U \in SUBSET S, T \subseteq U, Cardinality(U \ T) = n + 1
               PROVE  Sigma(w, T) = Sigma(w, U)
    OBVIOUS
  <2>1. PICK x \in U \ T : TRUE
    <3>1. U \ T # {}
      BY FS_EmptySet
    <3> QED BY <3>1
  <2> DEFINE V == U \ {x}
  <2>2. V \in SUBSET S /\ T \subseteq V /\ V \ T = (U \ T) \ {x}
    OBVIOUS
  <2>3. Cardinality(V \ T) = n
    <3>1. Cardinality((U \ T) \ {x}) = Cardinality(U \ T) - 1
      BY <1>1, OneLess
    <3> QED BY <2>2, <3>1
  <2>4. Sigma(w, U) = w[x] + Sigma(w, V) /\ w[x] = 0 /\ Sigma(w, V) \in Int
    BY <1>1, SigmaLaws
  <2>5. Sigma(w, T) = Sigma(w, V)
    <3> HIDE DEF V
    <3> QED BY <1>3, <2>2, <2>3
  <2> QED BY <2>4, <2>5
<1>4. Cardinality(S \ T) \in P
  <2> HIDE DEF P
  <2> QED BY <1>1, <1>2, <1>3, Induction
<1> QED BY <1>4

(* Elements that weigh the same.                                           *)
LEMMA SigmaConstant ==
  ASSUME NEW S, IsFiniteSet(S), NEW c \in Int, NEW w, \A x \in S : w[x] = c
  PROVE  Sigma(w, S) = Cardinality(S) * c
<1> DEFINE P == {n \in Nat : \A T \in SUBSET S : Cardinality(T) = n => Sigma(w, T) = n * c}
<1>1. \A T \in SUBSET S : /\ Weighs(w, T) /\ IsFiniteSet(T) /\ Cardinality(T) \in Nat
  BY FS_Subset, FS_CardinalityType DEF Weighs
<1>2. 0 \in P
  <2> SUFFICES ASSUME NEW T \in SUBSET S, Cardinality(T) = 0 PROVE Sigma(w, T) = 0 * c
    OBVIOUS
  <2>1. T = {}
    BY <1>1, FS_EmptySet
  <2>2. Sigma(w, {}) = 0
    BY <1>1, SigmaLaws
  <2> QED BY <2>1, <2>2
<1>3. ASSUME NEW n \in Nat, n \in P
      PROVE  n + 1 \in P
  <2> SUFFICES ASSUME NEW T \in SUBSET S, Cardinality(T) = n + 1
               PROVE  Sigma(w, T) = (n + 1) * c
    OBVIOUS
  <2>1. PICK x \in T : TRUE
    BY FS_EmptySet
  <2>2. Cardinality(T \ {x}) = n
    BY <1>1, OneLess
  <2>3. Sigma(w, T) = c + Sigma(w, T \ {x})
    BY <1>1, SigmaLaws
  <2>4. Sigma(w, T \ {x}) = n * c
    BY <1>3, <2>2
  <2>5. c + n * c = (n + 1) * c
    OBVIOUS
  <2> QED BY <2>3, <2>4, <2>5
<1>4. Cardinality(S) \in P
  <2> HIDE DEF P
  <2> QED BY <1>1, <1>2, <1>3, Induction
<1> QED BY <1>4

(* The sums of the community modules over a function.                      *)
LEMMA SumFunctionIsSigma ==
  ASSUME NEW S, NEW w, Weighs(w, S)
  PROVE  SumFunctionOnSet(w, S) = Sigma(w, S)
<1> DEFINE pick == [T \in SUBSET S |-> CHOOSE x \in T : TRUE]
           Eq(g) == g = [T \in SUBSET S |-> IF T = {} THEN 0
                      ELSE w[CHOOSE x \in T : TRUE] + g[T \ {CHOOSE x \in T : TRUE}]]
           g == CHOOSE h : Eq(h)
<1>1. Picks(pick, S) /\ \A T \in SUBSET S : pick[T] = CHOOSE x \in T : TRUE
  BY DEF Picks
<1>2. SumFunctionOnSet(w, S) = g[S]
  BY Zenon DEF SumFunctionOnSet, FoldFunctionOnSet, MapThenFoldSet
<1>3. ASSUME NEW h
      PROVE  Eq(h) <=> Recursion(h, w, pick, S)
  <2> HIDE DEF pick
  <2> QED BY <1>1 DEF Recursion
<1> HIDE DEF pick
<1>4. Eq(g)
  <2>1. PICK h : Recursion(h, w, pick, S)
    BY <1>1, FoldExists
  <2>2. Eq(h)
    BY <1>3, <2>1
  <2> HIDE DEF Eq
  <2> QED BY <2>2
<1>5. Recursion(g, w, pick, S)
  <2> HIDE DEF g, Eq
  <2> QED BY <1>3, <1>4
<1> HIDE DEF g
<1> QED BY <1>1, <1>2, <1>5, FoldIsSigma

-----------------------------------------------------------------------------
(* Sequences one after the other. *)

LEMMA SequencesJoined ==
  ASSUME NEW S, NEW s \in Seq(S), NEW t \in Seq(S), NEW m \in S
  PROVE  /\ s \o t \in Seq(S) /\ <<m>> \o t \in Seq(S)
         /\ s \o Append(t, m) = Append(s \o t, m)
         /\ <<m>> \o Append(t, m) = Append(<<m>> \o t, m)
         /\ s # << >> => /\ Head(s) \in S /\ Tail(s) \in Seq(S)
                         /\ s \o t = <<Head(s)>> \o (Tail(s) \o t)
         /\ t # << >> => Append(s, Head(t)) \o Tail(t) = s \o t
<1>1. /\ s \o t \in Seq(S) /\ <<m>> \o t \in Seq(S)
      /\ s \o Append(t, m) = Append(s \o t, m)
      /\ <<m>> \o Append(t, m) = Append(<<m>> \o t, m)
  OBVIOUS
<1>2. ASSUME NEW r \in Seq(S), r # << >>
      PROVE  /\ Head(r) \in S /\ Tail(r) \in Seq(S) /\ r = <<Head(r)>> \o Tail(r)
  <2>1. /\ Head(r) \in S /\ Tail(r) \in Seq(S) /\ Len(r) \in Nat /\ Len(r) > 0
        /\ Len(Tail(r)) = Len(r) - 1 /\ Head(r) = r[1]
        /\ \A i \in 1..(Len(r) - 1) : Tail(r)[i] = r[i + 1]
    BY <1>2, EmptySeq, HeadTailProperties
  <2> DEFINE h == Head(r)  u == Tail(r)  q == <<h>> \o u
  <2>2. /\ h \in S /\ u \in Seq(S) /\ Len(u) = Len(r) - 1 /\ h = r[1]
        /\ \A i \in 1..(Len(r) - 1) : u[i] = r[i + 1]
    BY <2>1
  <2> HIDE DEF h, u
  <2>3. /\ q \in Seq(S) /\ Len(q) = Len(r) /\ q[1] = r[1]
        /\ \A i \in 1..Len(r) : i > 1 => q[i] = u[i - 1]
    <3>1. <<h>> \in Seq(S) /\ Len(<<h>>) = 1 /\ <<h>>[1] = h
      BY <2>2
    <3>2. /\ q \in Seq(S) /\ Len(q) = 1 + Len(u)
          /\ \A i \in 1..(1 + Len(u)) : q[i] = IF i <= 1 THEN <<h>>[i] ELSE u[i - 1]
      BY <2>2, <3>1, ConcatProperties
    <3> HIDE DEF q
    <3>3. Len(q) = Len(r) /\ 1 \in 1..(1 + Len(u)) /\ Len(u) \in Nat
      BY <2>1, <2>2, <3>2
    <3>4. q[1] = <<h>>[1]
      BY <3>2, <3>3
    <3>5. \A i \in 1..Len(r) : i > 1 => q[i] = u[i - 1]
      BY <2>1, <2>2, <3>2, <3>3
    <3> QED BY <2>2, <3>1, <3>2, <3>3, <3>4, <3>5
  <2>4. \A i \in 1..Len(r) : q[i] = r[i]
    <3> HIDE DEF q
    <3>1. ASSUME NEW i \in 1..Len(r), i > 1 PROVE q[i] = r[i]
      <4>1. i - 1 \in 1..(Len(r) - 1) /\ (i - 1) + 1 = i
        BY <2>1, <3>1
      <4>2. q[i] = u[i - 1] /\ u[i - 1] = r[(i - 1) + 1]
        BY <2>2, <2>3, <3>1, <4>1
      <4> QED BY <4>1, <4>2
    <3>2. ASSUME NEW i \in 1..Len(r), ~(i > 1) PROVE q[i] = r[i]
      <4>1. i = 1
        BY <2>1, <3>2
      <4> QED BY <2>3, <4>1
    <3> QED BY <3>1, <3>2
  <2> HIDE DEF q
  <2>5. q = r
    BY <2>3, <2>4, SeqEqual
  <2> QED BY <2>1, <2>5 DEF q, h, u
<1>3. ASSUME s # << >>
      PROVE  s \o t = <<Head(s)>> \o (Tail(s) \o t)
  <2>1. (<<Head(s)>> \o Tail(s)) \o t = <<Head(s)>> \o (Tail(s) \o t)
    BY <1>2, <1>3
  <2> QED BY <1>2, <1>3, <2>1
<1>4. ASSUME t # << >>
      PROVE  Append(s, Head(t)) \o Tail(t) = s \o t
  <2> DEFINE h == Head(t)  r == Tail(t)
  <2>1. h \in S /\ r \in Seq(S) /\ t = <<h>> \o r
    BY <1>2, <1>4
  <2> HIDE DEF h, r
  <2>2. Append(s, h) \o r = s \o (<<h>> \o r)
    BY <2>1
  <2> QED BY <2>1, <2>2 DEF h, r
<1> QED BY <1>1, <1>2, <1>3, <1>4

-----------------------------------------------------------------------------
(* The order book. *)

(* Removing a position keeps the others, in order. *)
LEMMA RemoveAtProperties ==
  ASSUME NEW S, NEW q \in Seq(S), NEW i \in 1..Len(q)
  PROVE  /\ RemoveAt(q, i) \in Seq(S)
         /\ Len(RemoveAt(q, i)) = Len(q) - 1
         /\ \A j \in 1..(Len(q) - 1) :
              RemoveAt(q, i)[j] = IF j < i THEN q[j] ELSE q[j + 1]
<1>1. Len(q) \in Nat /\ i \in Int /\ i - 1 \in Int /\ i + 1 \in Int /\ Len(q) \in Int
  BY LenProperties
<1>2. \A j \in 1..Len(q) : q[j] \in S
  BY ElementOfSeq
<1> DEFINE front == SubSeq(q, 1, i - 1)
           back  == SubSeq(q, i + 1, Len(q))
<1>3. /\ front \in Seq(S)
      /\ Len(front) = i - 1
      /\ \A j \in 1..(i - 1) : front[j] = q[j]
  <2>1. \A j \in 1..(i - 1) : q[j] \in S
    BY <1>1, <1>2
  <2>2. /\ SubSeq(q, 1, i - 1) \in Seq(S)
        /\ Len(SubSeq(q, 1, i - 1)) = IF 1 <= i - 1 THEN (i - 1) - 1 + 1 ELSE 0
        /\ \A j \in 1..((i - 1) - 1 + 1) : SubSeq(q, 1, i - 1)[j] = q[1 + j - 1]
    BY <1>1, <2>1, SubSeqProperties
  <2> QED BY <1>1, <2>2
<1>4. /\ back \in Seq(S)
      /\ Len(back) = Len(q) - i
      /\ \A j \in 1..(Len(q) - i) : back[j] = q[i + j]
  <2>1. \A j \in (i + 1)..Len(q) : q[j] \in S
    BY <1>1, <1>2
  <2>2. /\ SubSeq(q, i + 1, Len(q)) \in Seq(S)
        /\ Len(SubSeq(q, i + 1, Len(q))) =
             IF i + 1 <= Len(q) THEN Len(q) - (i + 1) + 1 ELSE 0
        /\ \A j \in 1..(Len(q) - (i + 1) + 1) :
             SubSeq(q, i + 1, Len(q))[j] = q[(i + 1) + j - 1]
    BY <1>1, <2>1, SubSeqProperties
  <2> QED BY <1>1, <2>2
<1>5. /\ front \o back \in Seq(S)
      /\ Len(front \o back) = Len(front) + Len(back)
      /\ \A j \in 1..(Len(front) + Len(back)) :
           (front \o back)[j] = IF j <= Len(front) THEN front[j] ELSE back[j - Len(front)]
  BY <1>3, <1>4, ConcatProperties
<1>6. RemoveAt(q, i) = front \o back
  BY DEF RemoveAt
<1> HIDE DEF front, back
<1>7. Len(RemoveAt(q, i)) = Len(q) - 1
  <2>1. Len(RemoveAt(q, i)) = (i - 1) + (Len(q) - i)
    BY <1>3, <1>4, <1>5, <1>6
  <2> QED BY <1>1, <2>1
<1>8. ASSUME NEW j \in 1..(Len(q) - 1)
      PROVE  RemoveAt(q, i)[j] = IF j < i THEN q[j] ELSE q[j + 1]
  <2>1. RemoveAt(q, i)[j] = IF j <= i - 1 THEN front[j] ELSE back[j - (i - 1)]
    BY <1>1, <1>3, <1>4, <1>5, <1>6
  <2>2. CASE j <= i - 1
    BY <1>1, <1>3, <2>1, <2>2
  <2>3. CASE ~(j <= i - 1)
    <3>1. j - (i - 1) \in 1..(Len(q) - i) /\ i + (j - (i - 1)) = j + 1
      BY <1>1, <2>3
    <3> QED BY <1>1, <1>4, <2>1, <2>3, <3>1
  <2> QED BY <2>2, <2>3
<1> QED BY <1>5, <1>6, <1>7, <1>8

-----------------------------------------------------------------------------
(* Places and levels. *)

LEMMA AtProperties ==
  ASSUME NEW s, NEW p, NEW t, NEW q
  PROVE  /\ At(s, p).side = s /\ At(s, p).price = p
         /\ At(s, p) = At(t, q) <=> s = t /\ p = q
<1>1. At(s, p).side = s /\ At(s, p).price = p /\ At(t, q).side = t /\ At(t, q).price = q
  BY DEF At
<1>2. s = t /\ p = q => At(s, p) = At(t, q)
  OBVIOUS
<1> QED BY <1>1, <1>2

(* The types of what the accessors return. *)
LEMMA LevelTypes ==
  ASSUME NEW b, BookTypeOK(b), NEW s \in Sides
  PROVE  /\ PricesOn(b, s) \subseteq Nat
         /\ \A p \in PricesOn(b, s) :
              /\ b.levels[s][p] \in Level
              /\ QueueAt(b, s, p) \in Seq(Order)
<1>1. PricesOn(b, s) \subseteq Nat /\ \A p \in PricesOn(b, s) : b.levels[s][p] \in Level
  BY DEF BookTypeOK, PricesOn
<1> QED BY <1>1 DEF QueueAt, Level

LEMMA RefTypes ==
  ASSUME NEW b, BookTypeOK(b), NEW id, IsResting(b, id)
  PROVE  /\ id \in Nat
         /\ RefOf(b, id).side \in Sides /\ RefOf(b, id).price \in Nat
         /\ RefOf(b, id) = At(RefOf(b, id).side, RefOf(b, id).price)
<1>1. id \in Nat /\ RefOf(b, id) \in [side : Sides, price : Nat]
  BY DEF BookTypeOK, IsResting, RefOf
<1> QED BY <1>1 DEF At

(* A queue of orders is a function on its positions. *)
LEMMA QueueTypes ==
  ASSUME NEW q \in Seq(Order)
  PROVE  /\ Len(q) \in Nat /\ DOMAIN q = 1..Len(q)
         /\ \A i \in DOMAIN q :
              /\ q[i] \in Order /\ q[i].orderId \in Nat
              /\ q[i].remaining \in Nat /\ q[i].userId \in Users
         /\ q # << >> => Len(q) > 0 /\ 1 \in DOMAIN q /\ Head(q) = q[1]
<1>1. Len(q) \in Nat /\ DOMAIN q = 1..Len(q) /\ \A i \in DOMAIN q : q[i] \in Order
  BY LenProperties, ElementOfSeq
<1>2. q # << >> => Len(q) > 0
  BY <1>1, EmptySeq
<1>3. q # << >> => 1 \in DOMAIN q
  BY <1>1, <1>2
<1>4. q # << >> => Head(q) = q[1]
  OBVIOUS
<1> QED BY <1>1, <1>2, <1>3, <1>4 DEF Order

(* Everything a well-formed book says of one level. *)
LevelOK(b, s, p) ==
  /\ QueueAt(b, s, p) # << >>
  /\ InOrder(QueueAt(b, s, p))
  /\ \A i \in DOMAIN QueueAt(b, s, p) :
       /\ Belongs(QueueAt(b, s, p)[i], s, p)
       /\ IsResting(b, QueueAt(b, s, p)[i].orderId)
       /\ RefOf(b, QueueAt(b, s, p)[i].orderId) = At(s, p)

LEMMA LevelFacts ==
  ASSUME NEW b, BookWellFormed(b), NEW s \in Sides, NEW p \in PricesOn(b, s)
  PROVE  LevelOK(b, s, p)
BY DEF BookWellFormed, LevelsIndexed, QueuesInOrder, LevelOK

(* A book that differs from a well-formed one at a single level is         *)
(* well-formed if that level is, and if the index changes only for ids of  *)
(* that level.                                                             *)
LEMMA LevelChange ==
  ASSUME NEW b, BookWellFormed(b), NEW c, BookTypeOK(c), NEW s0, NEW p0,
         \A s \in Sides : \A p \in PricesOn(c, s) : At(s, p) # At(s0, p0) =>
           p \in PricesOn(b, s) /\ QueueAt(c, s, p) = QueueAt(b, s, p),
         \A s \in Sides : \A p \in PricesOn(b, s) : At(s, p) # At(s0, p0) =>
           p \in PricesOn(c, s) /\ QueueAt(c, s, p) = QueueAt(b, s, p),
         p0 \in PricesOn(c, s0) => LevelOK(c, s0, p0),
         \A id : IsResting(b, id) /\ RefOf(b, id) # At(s0, p0) =>
           IsResting(c, id) /\ RefOf(c, id) = RefOf(b, id),
         \A id : IsResting(c, id) =>
           \/ /\ IsResting(b, id) /\ RefOf(c, id) = RefOf(b, id)
              /\ RefOf(b, id) # At(s0, p0)
           \/ /\ RefOf(c, id) = At(s0, p0) /\ p0 \in PricesOn(c, s0)
              /\ \E i \in DOMAIN QueueAt(c, s0, p0) : QueueAt(c, s0, p0)[i].orderId = id
  PROVE  BookWellFormed(c)
<1>1. ASSUME NEW s \in Sides, NEW p \in PricesOn(c, s)
      PROVE  LevelOK(c, s, p)
  <2>1. CASE At(s, p) = At(s0, p0)
    BY <2>1, AtProperties
  <2>2. CASE At(s, p) # At(s0, p0)
    <3>1. p \in PricesOn(b, s) /\ QueueAt(c, s, p) = QueueAt(b, s, p)
      BY <2>2
    <3>2. LevelOK(b, s, p)
      BY <3>1, LevelFacts
    <3> QED BY <2>2, <3>1, <3>2 DEF LevelOK
  <2> QED BY <2>1, <2>2
<1>2. LevelsIndexed(c) /\ QueuesInOrder(c)
  BY <1>1 DEF LevelOK, LevelsIndexed, QueuesInOrder
<1>3. ASSUME NEW id, IsResting(c, id)
      PROVE  /\ RefOf(c, id).price \in PricesOn(c, RefOf(c, id).side)
             /\ \E i \in DOMAIN QueueOfRef(c, id) : QueueOfRef(c, id)[i].orderId = id
  <2>1. CASE /\ IsResting(b, id) /\ RefOf(c, id) = RefOf(b, id)
             /\ RefOf(b, id) # At(s0, p0)
    <3> DEFINE s == RefOf(b, id).side
               p == RefOf(b, id).price
    <3>1. s \in Sides /\ RefOf(b, id) = At(s, p)
      BY <2>1, RefTypes DEF BookWellFormed
    <3>2. /\ p \in PricesOn(b, s)
          /\ \E i \in DOMAIN QueueAt(b, s, p) : QueueAt(b, s, p)[i].orderId = id
      BY <2>1 DEF BookWellFormed, RefsResolve, IsResting, QueueOfRef
    <3> HIDE DEF s, p
    <3>3. p \in PricesOn(c, s) /\ QueueAt(c, s, p) = QueueAt(b, s, p)
      BY <2>1, <3>1, <3>2
    <3>4. RefOf(c, id).side = s /\ RefOf(c, id).price = p
      BY <2>1 DEF s, p
    <3> QED BY <3>2, <3>3, <3>4 DEF QueueOfRef
  <2>2. CASE /\ RefOf(c, id) = At(s0, p0) /\ p0 \in PricesOn(c, s0)
             /\ \E i \in DOMAIN QueueAt(c, s0, p0) : QueueAt(c, s0, p0)[i].orderId = id
    BY <2>2, AtProperties DEF QueueOfRef
  <2> QED BY <1>3, <2>1, <2>2
<1>4. RefsResolve(c)
  BY <1>3 DEF RefsResolve, IsResting
<1> QED BY <1>2, <1>4 DEF BookWellFormed

(* The empty book is well-formed and crosses nothing. *)
LEMMA EmptyBookWellFormed ==
  /\ BookWellFormed(EmptyBook)
  /\ \A s \in Sides : PricesOn(EmptyBook, s) = {}
  /\ \A id : ~IsResting(EmptyBook, id)
<1>1. /\ EmptyBook.refs = EmptyMap
      /\ DOMAIN EmptyMap = {}
      /\ \A s \in Sides : EmptyBook.levels[s] = EmptyMap
      /\ EmptyBook = [levels |-> EmptyBook.levels, refs |-> EmptyBook.refs]
      /\ EmptyBook.levels = [s \in Sides |-> EmptyBook.levels[s]]
  BY DEF EmptyBook, EmptyMap
<1>2. \A S : EmptyMap \in [DOMAIN EmptyMap -> S]
  BY <1>1 DEF EmptyMap
<1>3. BookTypeOK(EmptyBook)
  BY <1>1, <1>2 DEF BookTypeOK
<1>4. \A s \in Sides : PricesOn(EmptyBook, s) = {}
  BY <1>1 DEF PricesOn
<1>5. \A id : ~IsResting(EmptyBook, id)
  BY <1>1 DEF IsResting
<1>6. RefsResolve(EmptyBook)
  BY <1>1 DEF RefsResolve
<1> QED BY <1>3, <1>4, <1>5, <1>6 DEF BookWellFormed, LevelsIndexed, QueuesInOrder

(* What a book is after the tree of one side and the index are replaced.   *)
LEMMA SideReplaced ==
  ASSUME NEW b, BookTypeOK(b), NEW s0 \in Sides,
         NEW T, DOMAIN T \subseteq Nat, T \in [DOMAIN T -> Level],
         NEW R, DOMAIN R \subseteq Nat, R \in [DOMAIN R -> [side : Sides, price : Nat]],
         NEW c, c = [levels |-> [b.levels EXCEPT ![s0] = T], refs |-> R]
  PROVE  /\ BookTypeOK(c)
         /\ PricesOn(c, s0) = DOMAIN T
         /\ \A p \in DOMAIN T : QueueAt(c, s0, p) = T[p].queue
         /\ \A s \in Sides \ {s0} :
              /\ PricesOn(c, s) = PricesOn(b, s)
              /\ \A p : QueueAt(c, s, p) = QueueAt(b, s, p)
         /\ \A id : IsResting(c, id) <=> id \in DOMAIN R
         /\ \A id : RefOf(c, id) = R[id]
<1>1. /\ c = [levels |-> c.levels, refs |-> c.refs]
      /\ c.levels = [b.levels EXCEPT ![s0] = T] /\ c.refs = R
  OBVIOUS
<1>2. b.levels = [s \in Sides |-> b.levels[s]]
  BY DEF BookTypeOK
<1>3. /\ c.levels[s0] = T
      /\ \A s \in Sides \ {s0} : c.levels[s] = b.levels[s]
      /\ c.levels = [s \in Sides |-> c.levels[s]]
  BY <1>1, <1>2
<1>4. \A s \in Sides :
        DOMAIN c.levels[s] \subseteq Nat /\ c.levels[s] \in [DOMAIN c.levels[s] -> Level]
  BY <1>3 DEF BookTypeOK
<1>5. BookTypeOK(c)
  BY <1>1, <1>3, <1>4 DEF BookTypeOK
<1> QED BY <1>1, <1>3, <1>5 DEF PricesOn, QueueAt, IsResting, RefOf

-----------------------------------------------------------------------------
(* The operations. *)

(* Resting an order that is younger than every resting one: the book stays *)
(* well-formed and gains exactly that price and that id.                   *)
LEMMA RestWellFormed ==
  ASSUME NEW b, BookWellFormed(b), NEW o \in Order, o.remaining > 0,
         \A id : IsResting(b, id) => id < o.orderId
  PROVE  /\ BookWellFormed(Rest(b, o))
         /\ PricesOn(Rest(b, o), o.side) = PricesOn(b, o.side) \cup {o.price}
         /\ \A s \in Sides \ {o.side} : PricesOn(Rest(b, o), s) = PricesOn(b, s)
         /\ \A id : IsResting(Rest(b, o), id) <=> IsResting(b, id) \/ id = o.orderId
<1> DEFINE tree  == b.levels[o.side]
           level == IF o.price \in DOMAIN tree THEN tree[o.price]
                    ELSE [queue |-> << >>, totalQty |-> 0]
           grown == [queue    |-> Append(level.queue, o),
                     totalQty |-> level.totalQty + o.remaining]
           T     == Put(tree, o.price, grown)
           R     == Put(b.refs, o.orderId, At(o.side, o.price))
           c     == Rest(b, o)
           q     == level.queue
           n     == Len(q)
           Q     == grown.queue
<1>1. o.side \in Sides /\ o.price \in Nat /\ o.orderId \in Nat /\ o.remaining \in Nat
  BY DEF Order
<1>2. BookTypeOK(b) /\ PricesOn(b, o.side) = DOMAIN tree /\ DOMAIN tree \subseteq Nat
  BY <1>1, LevelTypes DEF BookWellFormed, PricesOn
<1>3. level \in Level /\ q \in Seq(Order) /\ level.totalQty \in Int
  <2>1. CASE o.price \in DOMAIN tree
    <3>1. tree[o.price] \in Level
      BY <1>1, <1>2, <2>1, LevelTypes
    <3> QED BY <2>1, <3>1 DEF Level
  <2>2. CASE o.price \notin DOMAIN tree
    BY <2>2, EmptySeq DEF Level
  <2> QED BY <2>1, <2>2
<1>4. /\ n \in Nat /\ DOMAIN q = 1..n
      /\ Q \in Seq(Order) /\ Q # << >> /\ DOMAIN Q = 1..(n + 1)
      /\ \A i \in 1..n : Q[i] = q[i]
      /\ Q[n + 1] = o
  <2> HIDE DEF q
  <2>1. n \in Nat /\ DOMAIN q = 1..n
    BY <1>3, LenProperties
  <2>2. /\ Append(q, o) \in Seq(Order) /\ Append(q, o) # << >>
        /\ Len(Append(q, o)) = n + 1
        /\ \A i \in 1..n : Append(q, o)[i] = q[i]
        /\ Append(q, o)[n + 1] = o
    BY <1>3, AppendProperties
  <2>3. DOMAIN Append(q, o) = 1..(n + 1)
    BY <2>2, LenProperties
  <2> QED BY <2>1, <2>2, <2>3 DEF q
<1>5. grown \in Level
  <2> DEFINE total == level.totalQty
  <2>1. total \in Int
    BY <1>3
  <2> HIDE DEF total
  <2>2. total + o.remaining \in Int
    BY <1>1, <2>1
  <2>3. Append(q, o) \in Seq(Order)
    BY <1>4
  <2> HIDE DEF q
  <2>4. [queue |-> Append(q, o), totalQty |-> total + o.remaining] \in Level
    BY <2>2, <2>3 DEF Level
  <2> QED BY <2>4 DEF total, q
<1>6. /\ DOMAIN T = PricesOn(b, o.side) \cup {o.price}
      /\ DOMAIN T \subseteq Nat /\ T \in [DOMAIN T -> Level]
      /\ T[o.price] = grown
      /\ \A p \in PricesOn(b, o.side) : p # o.price => T[p] = tree[p]
  <2> HIDE DEF grown
  <2>1. \A p \in PricesOn(b, o.side) : tree[p] \in Level
    BY <1>1, <1>2, LevelTypes
  <2> QED BY <1>1, <1>2, <1>5, <2>1 DEF Put
<1>7. /\ DOMAIN R = DOMAIN b.refs \cup {o.orderId}
      /\ DOMAIN R \subseteq Nat /\ R \in [DOMAIN R -> [side : Sides, price : Nat]]
      /\ R[o.orderId] = At(o.side, o.price)
      /\ \A id \in DOMAIN b.refs : id # o.orderId => R[id] = b.refs[id]
  <2>1. At(o.side, o.price) \in [side : Sides, price : Nat]
    BY <1>1 DEF At
  <2>2. \A id \in DOMAIN b.refs : id \in Nat /\ b.refs[id] \in [side : Sides, price : Nat]
    BY <1>2 DEF BookTypeOK
  <2> QED BY <1>1, <2>1, <2>2 DEF Put
<1>8. c = [levels |-> [b.levels EXCEPT ![o.side] = T], refs |-> R]
  BY DEF Rest
<1> HIDE DEF c, T, R, tree, level, grown, q, n, Q
<1>9. /\ BookTypeOK(c)
      /\ PricesOn(c, o.side) = DOMAIN T
      /\ \A p \in DOMAIN T : QueueAt(c, o.side, p) = T[p].queue
      /\ \A s \in Sides \ {o.side} :
           /\ PricesOn(c, s) = PricesOn(b, s)
           /\ \A p : QueueAt(c, s, p) = QueueAt(b, s, p)
      /\ \A id : IsResting(c, id) <=> id \in DOMAIN R
      /\ \A id : RefOf(c, id) = R[id]
  BY <1>1, <1>2, <1>6, <1>7, <1>8, SideReplaced
<1>10. QueueAt(c, o.side, o.price) = Q /\ o.price \in PricesOn(c, o.side)
  BY <1>6, <1>9 DEF Q
<1>11. \A p \in PricesOn(b, o.side) : p # o.price =>
         p \in PricesOn(c, o.side) /\ QueueAt(c, o.side, p) = QueueAt(b, o.side, p)
  BY <1>6, <1>9 DEF QueueAt, tree
<1>12. \A id : IsResting(c, id) <=> IsResting(b, id) \/ id = o.orderId
  BY <1>7, <1>9 DEF IsResting
<1>13. /\ RefOf(c, o.orderId) = At(o.side, o.price)
       /\ \A id : IsResting(b, id) => RefOf(c, id) = RefOf(b, id) /\ id # o.orderId
  BY <1>1, <1>2, <1>7, <1>9, RefTypes DEF IsResting, RefOf
<1>14. o.price \in PricesOn(b, o.side) =>
         q = QueueAt(b, o.side, o.price) /\ LevelOK(b, o.side, o.price)
  BY <1>1, <1>2, LevelFacts DEF QueueAt, q, level, tree
<1>15. o.price \notin PricesOn(b, o.side) => q = << >> /\ n = 0
  BY <1>2, EmptySeq DEF q, n, level
<1>16. \A i \in 1..n :
         /\ Belongs(q[i], o.side, o.price) /\ q[i].orderId < o.orderId
         /\ IsResting(b, q[i].orderId) /\ RefOf(b, q[i].orderId) = At(o.side, o.price)
  <2>1. CASE o.price \in PricesOn(b, o.side)
    BY <1>4, <1>14, <2>1 DEF LevelOK
  <2>2. CASE o.price \notin PricesOn(b, o.side)
    BY <1>15, <2>2
  <2> QED BY <2>1, <2>2
<1>17. InOrder(q)
  <2>1. CASE o.price \in PricesOn(b, o.side)
    BY <1>14, <2>1 DEF LevelOK
  <2>2. CASE o.price \notin PricesOn(b, o.side)
    BY <1>4, <1>15, <2>2 DEF InOrder
  <2> QED BY <2>1, <2>2
<1>18. \A i \in 1..(n + 1) : i \in 1..n \/ i = n + 1
  BY <1>4
<1>19. LevelOK(c, o.side, o.price)
  <2>1. InOrder(Q)
    <3> SUFFICES ASSUME NEW i \in 1..(n + 1), NEW j \in 1..(n + 1), i < j
                 PROVE  Q[i].orderId < Q[j].orderId
      BY <1>4 DEF InOrder
    <3>1. i \in 1..n
      BY <1>4
    <3>2. CASE j = n + 1
      BY <1>4, <1>16, <3>1, <3>2
    <3>3. CASE j \in 1..n
      BY <1>4, <1>17, <3>1, <3>3 DEF InOrder
    <3> QED BY <1>18, <3>2, <3>3
  <2>2. ASSUME NEW i \in 1..(n + 1)
        PROVE  /\ Belongs(Q[i], o.side, o.price) /\ IsResting(c, Q[i].orderId)
               /\ RefOf(c, Q[i].orderId) = At(o.side, o.price)
    <3>1. CASE i \in 1..n
      BY <1>4, <1>12, <1>13, <1>16, <3>1
    <3>2. CASE i = n + 1
      BY <1>4, <1>12, <1>13, <3>2 DEF Belongs
    <3> QED BY <1>18, <3>1, <3>2
  <2> QED BY <1>4, <1>10, <2>1, <2>2 DEF LevelOK
<1>20. ASSUME NEW id, IsResting(c, id)
       PROVE  \/ /\ IsResting(b, id) /\ RefOf(c, id) = RefOf(b, id)
                 /\ RefOf(b, id) # At(o.side, o.price)
              \/ /\ RefOf(c, id) = At(o.side, o.price) /\ o.price \in PricesOn(c, o.side)
                 /\ \E i \in DOMAIN QueueAt(c, o.side, o.price) :
                      QueueAt(c, o.side, o.price)[i].orderId = id
  <2>1. CASE id = o.orderId
    <3>1. n + 1 \in DOMAIN Q
      BY <1>4
    <3> QED BY <1>4, <1>10, <1>13, <2>1, <3>1
  <2>2. CASE IsResting(b, id) /\ RefOf(b, id) = At(o.side, o.price)
    <3>1. /\ o.price \in PricesOn(b, o.side)
          /\ \E i \in DOMAIN QueueAt(b, o.side, o.price) :
               QueueAt(b, o.side, o.price)[i].orderId = id
      BY <2>2, AtProperties DEF BookWellFormed, RefsResolve, QueueOfRef, IsResting
    <3>2. PICK i \in 1..n : q[i].orderId = id
      BY <1>4, <1>14, <3>1
    <3>3. i \in DOMAIN Q /\ Q[i].orderId = id
      BY <1>4, <3>2
    <3> QED BY <1>10, <1>13, <2>2, <3>3
  <2>3. CASE IsResting(b, id) /\ RefOf(b, id) # At(o.side, o.price)
    BY <1>13, <2>3
  <2> QED BY <1>12, <1>20, <2>1, <2>2, <2>3
<1>21. \A s \in Sides : \A p \in PricesOn(c, s) : At(s, p) # At(o.side, o.price) =>
         p \in PricesOn(b, s) /\ QueueAt(c, s, p) = QueueAt(b, s, p)
  BY <1>6, <1>9, <1>11
<1>22. \A s \in Sides : \A p \in PricesOn(b, s) : At(s, p) # At(o.side, o.price) =>
         p \in PricesOn(c, s) /\ QueueAt(c, s, p) = QueueAt(b, s, p)
  BY <1>9, <1>11
<1>23. BookWellFormed(c)
  <2>1. \A id : IsResting(b, id) /\ RefOf(b, id) # At(o.side, o.price) =>
          IsResting(c, id) /\ RefOf(c, id) = RefOf(b, id)
    BY <1>12, <1>13
  <2> QED BY <1>9, <1>19, <1>20, <1>21, <1>22, <2>1, LevelChange
<1> QED BY <1>6, <1>9, <1>12, <1>23 DEF c

(* Taking an order out of a queue keeps the others, in order, and no other *)
(* order has its id.                                                       *)
LEMMA QueueRemoval ==
  ASSUME NEW q \in Seq(Order), InOrder(q), NEW i \in DOMAIN q
  PROVE  /\ RemoveAt(q, i) \in Seq(Order)
         /\ InOrder(RemoveAt(q, i))
         /\ \A j \in DOMAIN RemoveAt(q, i) :
              \E k \in DOMAIN q : k # i /\ RemoveAt(q, i)[j] = q[k]
         /\ \A k \in DOMAIN q : k # i =>
              \E j \in DOMAIN RemoveAt(q, i) : RemoveAt(q, i)[j] = q[k]
         /\ \A k \in DOMAIN q : k # i => q[k].orderId # q[i].orderId
<1> DEFINE r == RemoveAt(q, i)
           n == Len(q)
<1>1. n \in Nat /\ DOMAIN q = 1..n /\ i \in 1..n
  BY LenProperties
<1>2. /\ r \in Seq(Order) /\ Len(r) = n - 1
      /\ \A j \in 1..(n - 1) : r[j] = IF j < i THEN q[j] ELSE q[j + 1]
  BY <1>1, RemoveAtProperties
<1> HIDE DEF r, n
<1>3. DOMAIN r = 1..(n - 1)
  BY <1>2, LenProperties
<1>4. \A k \in DOMAIN q : q[k].orderId \in Nat
  BY QueueTypes
<1>5. ASSUME NEW k \in DOMAIN q, k # i
      PROVE  q[k].orderId # q[i].orderId
  <2>1. k < i \/ i < k
    BY <1>1, <1>5
  <2>2. q[k].orderId < q[i].orderId \/ q[i].orderId < q[k].orderId
    BY <1>1, <2>1 DEF InOrder
  <2> QED BY <1>4, <2>2
<1> DEFINE from(j) == IF j < i THEN j ELSE j + 1
<1>6. ASSUME NEW j \in 1..(n - 1)
      PROVE  from(j) \in DOMAIN q /\ from(j) # i /\ r[j] = q[from(j)]
  <2>1. CASE j < i
    BY <1>1, <1>2, <2>1
  <2>2. CASE ~(j < i)
    BY <1>1, <1>2, <2>2
  <2> QED BY <2>1, <2>2
<1>7. \A j, k \in 1..(n - 1) : j < k => from(j) < from(k)
  BY <1>1
<1>8. ASSUME NEW k \in DOMAIN q, k # i
      PROVE  \E j \in DOMAIN r : r[j] = q[k]
  <2>1. CASE k < i
    <3>1. k \in 1..(n - 1)
      BY <1>1, <2>1
    <3> QED BY <1>2, <1>3, <2>1, <3>1
  <2>2. CASE ~(k < i)
    <3>1. k - 1 \in 1..(n - 1) /\ ~(k - 1 < i) /\ (k - 1) + 1 = k
      BY <1>1, <1>8, <2>2
    <3> QED BY <1>2, <1>3, <3>1
  <2> QED BY <2>1, <2>2
<1> HIDE DEF from
<1>9. InOrder(r)
  <2> SUFFICES ASSUME NEW j \in 1..(n - 1), NEW k \in 1..(n - 1), j < k
               PROVE  r[j].orderId < r[k].orderId
    BY <1>3 DEF InOrder
  <2> QED BY <1>6, <1>7 DEF InOrder
<1> QED BY <1>2, <1>3, <1>5, <1>6, <1>8, <1>9 DEF r

(* Unlinking an order keeps the book well-formed, adds no level, and       *)
(* forgets exactly that order's id.                                        *)
LEMMA UnlinkWellFormed ==
  ASSUME NEW b, BookWellFormed(b), NEW s0 \in Sides, NEW p0 \in PricesOn(b, s0),
         NEW i0 \in DOMAIN QueueAt(b, s0, p0)
  PROVE  /\ BookWellFormed(Unlink(b, s0, p0, i0))
         /\ \A s \in Sides : PricesOn(Unlink(b, s0, p0, i0), s) \subseteq PricesOn(b, s)
         /\ \A id : IsResting(Unlink(b, s0, p0, i0), id) <=>
              IsResting(b, id) /\ id # QueueAt(b, s0, p0)[i0].orderId
<1> DEFINE tree  == b.levels[s0]
           level == tree[p0]
           rest  == [queue    |-> RemoveAt(level.queue, i0),
                     totalQty |-> level.totalQty - level.queue[i0].remaining]
           T     == IF rest.queue = << >> THEN Restrict(tree, DOMAIN tree \ {p0})
                    ELSE [tree EXCEPT ![p0] = rest]
           R     == Restrict(b.refs, DOMAIN b.refs \ {level.queue[i0].orderId})
           c     == Unlink(b, s0, p0, i0)
           q     == QueueAt(b, s0, p0)
           r     == RemoveAt(q, i0)
           x     == q[i0].orderId
<1>1. BookTypeOK(b) /\ q \in Seq(Order) /\ level \in Level /\ LevelOK(b, s0, p0)
  BY LevelTypes, LevelFacts DEF BookWellFormed
<1>2. level.queue = q /\ level.totalQty \in Int /\ rest.queue = r
  BY <1>1 DEF QueueAt, Level
<1>3. q[i0].remaining \in Nat /\ x \in Nat
  BY <1>1, QueueTypes
<1>4. /\ r \in Seq(Order) /\ InOrder(r)
      /\ \A j \in DOMAIN r : \E k \in DOMAIN q : k # i0 /\ r[j] = q[k]
      /\ \A k \in DOMAIN q : k # i0 => \E j \in DOMAIN r : r[j] = q[k]
      /\ \A k \in DOMAIN q : k # i0 => q[k].orderId # x
  <2>1. InOrder(q) /\ q \in Seq(Order) /\ i0 \in DOMAIN q
    BY <1>1 DEF LevelOK
  <2> HIDE DEF q, T, R, rest, level, c
  <2> QED BY <2>1, QueueRemoval
<1>5. rest \in Level
  <2> DEFINE total == level.totalQty
             cut   == q[i0].remaining
  <2>1. total \in Int /\ cut \in Int
    BY <1>2, <1>3
  <2> HIDE DEF total, cut
  <2>2. total - cut \in Int
    BY <2>1
  <2> HIDE DEF r
  <2>3. [queue |-> r, totalQty |-> total - cut] \in Level
    BY <1>4, <2>2 DEF Level
  <2>4. rest = [queue |-> r, totalQty |-> total - cut]
    <3>1. level.queue = q /\ total = level.totalQty /\ cut = q[i0].remaining
      BY <1>2 DEF total, cut
    <3> HIDE DEF level, q
    <3> QED BY <3>1 DEF r
  <2> QED BY <2>3, <2>4
<1>6. /\ DOMAIN tree = PricesOn(b, s0) /\ DOMAIN tree \subseteq Nat
      /\ \A p \in DOMAIN tree : tree[p] \in Level
      /\ tree \in [DOMAIN tree -> Level]
  BY <1>1, LevelTypes DEF PricesOn, BookTypeOK
<1> HIDE DEF rest, level, tree
<1>7. /\ r = << >> => DOMAIN T = PricesOn(b, s0) \ {p0}
      /\ r # << >> => DOMAIN T = PricesOn(b, s0) /\ T[p0] = rest
      /\ T \in [DOMAIN T -> Level]
      /\ \A p \in PricesOn(b, s0) : p # p0 => T[p] = tree[p]
  <2>1. CASE r = << >>
    BY <1>2, <1>6, <2>1 DEF Restrict
  <2>2. CASE r # << >>
    BY <1>2, <1>5, <1>6, <2>2
  <2> QED BY <2>1, <2>2
<1>8. /\ DOMAIN R = DOMAIN b.refs \ {x}
      /\ R \in [DOMAIN R -> [side : Sides, price : Nat]]
      /\ \A id \in DOMAIN R : R[id] = b.refs[id]
  BY <1>1, <1>2 DEF Restrict, BookTypeOK
<1>9. c = [levels |-> [b.levels EXCEPT ![s0] = T], refs |-> R]
  BY DEF Unlink, rest, level, tree
<1>10. DOMAIN T \subseteq PricesOn(b, s0) /\ DOMAIN T \subseteq Nat
  BY <1>6, <1>7
<1>11. DOMAIN R \subseteq Nat
  BY <1>1, <1>8 DEF BookTypeOK
<1> HIDE DEF c, T, R, q, r, x
<1>12. /\ BookTypeOK(c)
       /\ PricesOn(c, s0) = DOMAIN T
       /\ \A p \in DOMAIN T : QueueAt(c, s0, p) = T[p].queue
       /\ \A s \in Sides \ {s0} :
            /\ PricesOn(c, s) = PricesOn(b, s)
            /\ \A p : QueueAt(c, s, p) = QueueAt(b, s, p)
       /\ \A id : IsResting(c, id) <=> id \in DOMAIN R
       /\ \A id : RefOf(c, id) = R[id]
  <2>1. T \in [DOMAIN T -> Level] /\ DOMAIN T \subseteq Nat
    BY <1>7, <1>10
  <2>2. R \in [DOMAIN R -> [side : Sides, price : Nat]] /\ DOMAIN R \subseteq Nat
    BY <1>8, <1>11
  <2>3. BookTypeOK(b)
    BY <1>1
  <2> QED BY <1>9, <2>1, <2>2, <2>3, SideReplaced
<1>13. \A p \in PricesOn(b, s0) : p # p0 =>
         p \in PricesOn(c, s0) /\ QueueAt(c, s0, p) = QueueAt(b, s0, p)
  BY <1>7, <1>12 DEF QueueAt, tree
<1>14. p0 \in PricesOn(c, s0) <=> r # << >>
  BY <1>7, <1>12
<1>15. p0 \in PricesOn(c, s0) => QueueAt(c, s0, p0) = r
  BY <1>2, <1>7, <1>12, <1>14
<1>16. /\ \A id : IsResting(c, id) <=> IsResting(b, id) /\ id # x
       /\ \A id : IsResting(c, id) => RefOf(c, id) = RefOf(b, id)
  BY <1>8, <1>12 DEF IsResting, RefOf
<1>17. RefOf(b, x) = At(s0, p0)
  BY <1>1 DEF LevelOK, q, x
<1>18. ASSUME p0 \in PricesOn(c, s0)
       PROVE  LevelOK(c, s0, p0)
  <2>1. ASSUME NEW j \in DOMAIN r
        PROVE  /\ Belongs(r[j], s0, p0) /\ IsResting(c, r[j].orderId)
               /\ RefOf(c, r[j].orderId) = At(s0, p0)
    <3>1. PICK k \in DOMAIN q : k # i0 /\ r[j] = q[k]
      BY <1>4
    <3>2. /\ Belongs(q[k], s0, p0) /\ IsResting(b, q[k].orderId)
          /\ RefOf(b, q[k].orderId) = At(s0, p0)
      BY <1>1 DEF LevelOK, q
    <3>3. q[k].orderId # x
      BY <1>4, <3>1
    <3> QED BY <1>16, <3>1, <3>2, <3>3
  <2> QED BY <1>4, <1>14, <1>15, <1>18, <2>1 DEF LevelOK
<1>19. ASSUME NEW id, IsResting(c, id)
       PROVE  \/ /\ IsResting(b, id) /\ RefOf(c, id) = RefOf(b, id)
                 /\ RefOf(b, id) # At(s0, p0)
              \/ /\ RefOf(c, id) = At(s0, p0) /\ p0 \in PricesOn(c, s0)
                 /\ \E i \in DOMAIN QueueAt(c, s0, p0) :
                      QueueAt(c, s0, p0)[i].orderId = id
  <2>1. IsResting(b, id) /\ id # x /\ RefOf(c, id) = RefOf(b, id)
    BY <1>16, <1>19
  <2>2. CASE RefOf(b, id) # At(s0, p0)
    BY <2>1, <2>2
  <2>3. CASE RefOf(b, id) = At(s0, p0)
    <3>1. PICK k \in DOMAIN q : q[k].orderId = id
      <4>1. \E i \in DOMAIN QueueOfRef(b, id) : QueueOfRef(b, id)[i].orderId = id
        BY <2>1 DEF BookWellFormed, RefsResolve, IsResting
      <4>2. QueueOfRef(b, id) = q
        BY <2>3, AtProperties DEF QueueOfRef, q
      <4> QED BY <4>1, <4>2
    <3>2. k # i0
      BY <2>1, <3>1 DEF x
    <3>3. PICK j \in DOMAIN r : r[j] = q[k]
      BY <1>4, <3>2
    <3>4. r # << >>
      BY <3>3
    <3> QED BY <1>14, <1>15, <2>1, <2>3, <3>1, <3>3, <3>4
  <2> QED BY <2>2, <2>3
<1>20. \A s \in Sides : \A p \in PricesOn(c, s) : At(s, p) # At(s0, p0) =>
         p \in PricesOn(b, s) /\ QueueAt(c, s, p) = QueueAt(b, s, p)
  BY <1>10, <1>12, <1>13
<1>21. \A s \in Sides : \A p \in PricesOn(b, s) : At(s, p) # At(s0, p0) =>
         p \in PricesOn(c, s) /\ QueueAt(c, s, p) = QueueAt(b, s, p)
  BY <1>12, <1>13
<1>22. BookWellFormed(c)
  <2>1. \A id : IsResting(b, id) /\ RefOf(b, id) # At(s0, p0) =>
          IsResting(c, id) /\ RefOf(c, id) = RefOf(b, id)
    BY <1>16, <1>17
  <2> QED BY <1>12, <1>18, <1>19, <1>20, <1>21, <2>1, LevelChange
<1> QED BY <1>10, <1>12, <1>16, <1>22 DEF c, q, x

(* A partial fill of the head of a level keeps the book well-formed, with  *)
(* the same levels and the same resting ids.                               *)
LEMMA ReduceHeadWellFormed ==
  ASSUME NEW b, BookWellFormed(b), NEW s0 \in Sides, NEW p0 \in PricesOn(b, s0),
         NEW fillQty \in Nat, fillQty < QueueAt(b, s0, p0)[1].remaining
  PROVE  /\ BookWellFormed(ReduceHead(b, s0, p0, fillQty))
         /\ \A s \in Sides : PricesOn(ReduceHead(b, s0, p0, fillQty), s) = PricesOn(b, s)
         /\ \A id : IsResting(ReduceHead(b, s0, p0, fillQty), id) <=> IsResting(b, id)
<1> DEFINE tree    == b.levels[s0]
           level   == tree[p0]
           reduced == [queue    |-> [level.queue EXCEPT ![1].remaining = @ - fillQty],
                       totalQty |-> level.totalQty - fillQty]
           T       == [tree EXCEPT ![p0] = reduced]
           R       == b.refs
           c       == ReduceHead(b, s0, p0, fillQty)
           q       == QueueAt(b, s0, p0)
           head    == [q[1] EXCEPT !.remaining = @ - fillQty]
           r       == [q EXCEPT ![1] = head]
<1>1. BookTypeOK(b) /\ q \in Seq(Order) /\ level \in Level /\ LevelOK(b, s0, p0)
  BY LevelTypes, LevelFacts DEF BookWellFormed
<1>2. level.queue = q /\ level.totalQty \in Int
  BY <1>1 DEF QueueAt, Level
<1>3. /\ 1 \in DOMAIN q /\ q[1] \in Order /\ q[1].remaining \in Nat
  <2>1. q # << >>
    BY <1>1 DEF LevelOK
  <2> HIDE DEF q
  <2> QED BY <1>1, <2>1, QueueTypes
<1>4. /\ head \in Order /\ head.orderId = q[1].orderId
      /\ head.side = q[1].side /\ head.price = q[1].price
      /\ head.remaining > 0
  <2>1. q[1].remaining - fillQty \in Nat /\ q[1].remaining - fillQty > 0
    BY <1>3
  <2> QED BY <1>3, <2>1 DEF Order
<1> HIDE DEF head
<1>5. /\ r \in Seq(Order) /\ DOMAIN r = DOMAIN q /\ r[1] = head
      /\ \A i \in DOMAIN q : i # 1 => r[i] = q[i]
  <2> HIDE DEF q
  <2>1. [q EXCEPT ![1] = head] \in Seq(Order)
    BY <1>1, <1>3, <1>4, ExceptSeq
  <2> QED BY <1>1, <1>3, <2>1
<1>6. reduced.queue = r /\ reduced \in Level
  <2>1. reduced.queue = r
    <3>1. level.queue = q
      BY <1>2
    <3> HIDE DEF level, q
    <3> QED BY <3>1 DEF head
  <2> DEFINE total == level.totalQty
  <2>2. total \in Int
    BY <1>2
  <2> HIDE DEF total
  <2>3. total - fillQty \in Int
    BY <2>2
  <2> HIDE DEF r, level, tree
  <2>4. reduced = [queue |-> r, totalQty |-> total - fillQty]
    BY <2>1 DEF total
  <2>5. [queue |-> r, totalQty |-> total - fillQty] \in Level
    BY <1>5, <2>3 DEF Level
  <2> QED BY <2>1, <2>4, <2>5
<1>7. /\ DOMAIN tree = PricesOn(b, s0) /\ DOMAIN tree \subseteq Nat
      /\ tree \in [DOMAIN tree -> Level]
  BY <1>1, LevelTypes DEF PricesOn, BookTypeOK
<1>8. c = [levels |-> [b.levels EXCEPT ![s0] = T], refs |-> R]
  BY DEF ReduceHead
<1> HIDE DEF reduced, level, r, q
<1>9. /\ DOMAIN T = PricesOn(b, s0) /\ T \in [DOMAIN T -> Level]
      /\ T[p0] = reduced
      /\ \A p \in PricesOn(b, s0) : p # p0 => T[p] = tree[p]
  <2> HIDE DEF tree
  <2> QED BY <1>6, <1>7
<1>10. /\ R \in [DOMAIN R -> [side : Sides, price : Nat]] /\ DOMAIN R \subseteq Nat
       /\ DOMAIN R = DOMAIN b.refs
  BY <1>1 DEF BookTypeOK
<1> HIDE DEF T, c, R, tree
<1>11. /\ BookTypeOK(c)
       /\ PricesOn(c, s0) = DOMAIN T
       /\ \A p \in DOMAIN T : QueueAt(c, s0, p) = T[p].queue
       /\ \A s \in Sides \ {s0} :
            /\ PricesOn(c, s) = PricesOn(b, s)
            /\ \A p : QueueAt(c, s, p) = QueueAt(b, s, p)
       /\ \A id : IsResting(c, id) <=> id \in DOMAIN R
       /\ \A id : RefOf(c, id) = R[id]
  <2>1. T \in [DOMAIN T -> Level] /\ DOMAIN T \subseteq Nat
    BY <1>7, <1>9
  <2>2. BookTypeOK(b)
    BY <1>1
  <2>3. R \in [DOMAIN R -> [side : Sides, price : Nat]] /\ DOMAIN R \subseteq Nat
    BY <1>10
  <2> QED BY <1>8, <2>1, <2>2, <2>3, SideReplaced
<1>12. /\ \A id : IsResting(c, id) <=> IsResting(b, id)
       /\ \A id : RefOf(c, id) = RefOf(b, id)
  BY <1>10, <1>11 DEF IsResting, RefOf, R
<1>13. \A p \in PricesOn(b, s0) : p # p0 =>
         p \in PricesOn(c, s0) /\ QueueAt(c, s0, p) = QueueAt(b, s0, p)
  BY <1>9, <1>11 DEF QueueAt, tree
<1>14. p0 \in PricesOn(c, s0) /\ QueueAt(c, s0, p0) = r
  BY <1>6, <1>9, <1>11
<1>15. \A i \in DOMAIN q : r[i].orderId = q[i].orderId
  BY <1>4, <1>5
<1>16. LevelOK(c, s0, p0)
  <2>1. /\ InOrder(q) /\ q # << >>
        /\ \A i \in DOMAIN q :
             /\ Belongs(q[i], s0, p0) /\ IsResting(b, q[i].orderId)
             /\ RefOf(b, q[i].orderId) = At(s0, p0)
    BY <1>1 DEF LevelOK, q
  <2>2. InOrder(r)
    BY <1>5, <1>15, <2>1 DEF InOrder
  <2>3. ASSUME NEW i \in DOMAIN r
        PROVE  /\ Belongs(r[i], s0, p0) /\ IsResting(c, r[i].orderId)
               /\ RefOf(c, r[i].orderId) = At(s0, p0)
    <3>1. Belongs(r[i], s0, p0)
      BY <1>3, <1>4, <1>5, <2>1 DEF Belongs
    <3> QED BY <1>5, <1>12, <1>15, <2>1, <3>1
  <2>4. r # << >>
    BY <1>3, <1>5
  <2> QED BY <1>14, <2>2, <2>3, <2>4 DEF LevelOK
<1>17. ASSUME NEW id, IsResting(c, id)
       PROVE  \/ /\ IsResting(b, id) /\ RefOf(c, id) = RefOf(b, id)
                 /\ RefOf(b, id) # At(s0, p0)
              \/ /\ RefOf(c, id) = At(s0, p0) /\ p0 \in PricesOn(c, s0)
                 /\ \E i \in DOMAIN QueueAt(c, s0, p0) :
                      QueueAt(c, s0, p0)[i].orderId = id
  <2>1. CASE RefOf(b, id) # At(s0, p0)
    BY <1>12, <1>17, <2>1
  <2>2. CASE RefOf(b, id) = At(s0, p0)
    <3>1. QueueOfRef(b, id) = q
      BY <2>2, AtProperties DEF QueueOfRef, q
    <3>2. PICK k \in DOMAIN q : q[k].orderId = id
      BY <1>12, <1>17, <3>1 DEF BookWellFormed, RefsResolve, IsResting
    <3> QED BY <1>5, <1>12, <1>14, <1>15, <2>2, <3>2
  <2> QED BY <2>1, <2>2
<1>18. \A s \in Sides : \A p \in PricesOn(c, s) : At(s, p) # At(s0, p0) =>
         p \in PricesOn(b, s) /\ QueueAt(c, s, p) = QueueAt(b, s, p)
  BY <1>9, <1>11, <1>13
<1>19. \A s \in Sides : \A p \in PricesOn(b, s) : At(s, p) # At(s0, p0) =>
         p \in PricesOn(c, s) /\ QueueAt(c, s, p) = QueueAt(b, s, p)
  BY <1>11, <1>13
<1>20. BookWellFormed(c)
  BY <1>11, <1>12, <1>16, <1>17, <1>18, <1>19, LevelChange
<1> QED BY <1>9, <1>11, <1>12, <1>20 DEF c

(* A best price is what minKey() returns: a side has at most one.          *)
LEMMA BestPriceUnique ==
  ASSUME NEW b, BookTypeOK(b), NEW s \in Sides, NEW p, IsBest(b, s, p)
  PROVE  BestPrice(b, s) = p
<1>1. \A q : IsBest(b, s, q) => q = p
  BY LevelTypes DEF IsBest, Better
<1> QED BY <1>1 DEF BestPrice, IsBest

(* Filling at the top keeps the book well-formed, adds no level, and       *)
(* forgets the top order's id exactly when it is filled completely.        *)
LEMMA ReduceTopWellFormed ==
  ASSUME NEW b, BookWellFormed(b), NEW s0 \in Sides, NEW p0, IsBest(b, s0, p0),
         NEW fillQty \in Nat, fillQty <= Head(QueueAt(b, s0, p0)).remaining
  PROVE  /\ BookWellFormed(ReduceTopOrder(b, s0, fillQty))
         /\ \A s \in Sides : PricesOn(ReduceTopOrder(b, s0, fillQty), s) \subseteq PricesOn(b, s)
         /\ \A id : IsResting(ReduceTopOrder(b, s0, fillQty), id) => IsResting(b, id)
<1> DEFINE q == QueueAt(b, s0, p0)
           c == ReduceTopOrder(b, s0, fillQty)
<1>1. p0 \in PricesOn(b, s0) /\ BestPrice(b, s0) = p0
  BY BestPriceUnique DEF IsBest, BookWellFormed
<1>2. q \in Seq(Order) /\ q # << >>
  BY <1>1, LevelTypes, LevelFacts DEF BookWellFormed, LevelOK
<1>3. 1 \in DOMAIN q /\ Head(q) = q[1] /\ q[1].remaining \in Nat
  <2> HIDE DEF q
  <2> QED BY <1>2, QueueTypes
<1>4. c = IF fillQty = q[1].remaining THEN Unlink(b, s0, p0, 1)
          ELSE ReduceHead(b, s0, p0, fillQty)
  BY <1>1, <1>3 DEF ReduceTopOrder, PeekTopOrder
<1> HIDE DEF c
<1>5. CASE fillQty = q[1].remaining
  <2>1. c = Unlink(b, s0, p0, 1)
    BY <1>4, <1>5
  <2> QED BY <1>1, <1>3, <2>1, UnlinkWellFormed DEF c
<1>6. CASE fillQty # q[1].remaining
  <2>1. c = ReduceHead(b, s0, p0, fillQty)
    BY <1>4, <1>6
  <2>2. fillQty < q[1].remaining
    BY <1>3, <1>6
  <2> QED BY <1>1, <2>1, <2>2, ReduceHeadWellFormed DEF c
<1> QED BY <1>5, <1>6

(* The order an id of a well-formed book leads to.                         *)
LEMMA GetOrderProperties ==
  ASSUME NEW b, BookWellFormed(b), NEW id, IsResting(b, id)
  PROVE  /\ RefOf(b, id).side \in Sides
         /\ RefOf(b, id).price \in PricesOn(b, RefOf(b, id).side)
         /\ PositionOf(b, id) \in DOMAIN QueueOfRef(b, id)
         /\ GetOrder(b, id) \in Order
         /\ GetOrder(b, id).orderId = id
<1>1. /\ RefOf(b, id).price \in PricesOn(b, RefOf(b, id).side)
      /\ \E i \in DOMAIN QueueOfRef(b, id) : QueueOfRef(b, id)[i].orderId = id
  BY DEF BookWellFormed, RefsResolve, IsResting
<1>2. RefOf(b, id).side \in Sides
  BY RefTypes DEF BookWellFormed
<1>3. QueueOfRef(b, id) \in Seq(Order)
  BY <1>1, <1>2, LevelTypes DEF QueueOfRef, BookWellFormed
<1>4. /\ PositionOf(b, id) \in DOMAIN QueueOfRef(b, id)
      /\ QueueOfRef(b, id)[PositionOf(b, id)].orderId = id
  BY <1>1 DEF PositionOf
<1> QED BY <1>1, <1>2, <1>3, <1>4, QueueTypes DEF GetOrder

(* Cancelling an order keeps the book well-formed, adds no level, and      *)
(* forgets exactly that id.                                                *)
LEMMA CancelWellFormed ==
  ASSUME NEW b, BookWellFormed(b), NEW id, IsResting(b, id)
  PROVE  /\ BookWellFormed(CancelOrder(b, id))
         /\ \A s \in Sides : PricesOn(CancelOrder(b, id), s) \subseteq PricesOn(b, s)
         /\ \A x : IsResting(CancelOrder(b, id), x) <=> IsResting(b, x) /\ x # id
<1> DEFINE s0 == RefOf(b, id).side
           p0 == RefOf(b, id).price
           i0 == PositionOf(b, id)
<1>1. /\ s0 \in Sides /\ p0 \in PricesOn(b, s0)
      /\ i0 \in DOMAIN QueueAt(b, s0, p0)
      /\ QueueAt(b, s0, p0)[i0].orderId = id
  BY GetOrderProperties DEF GetOrder, QueueOfRef
<1>2. CancelOrder(b, id) = Unlink(b, s0, p0, i0)
  BY DEF CancelOrder
<1> HIDE DEF s0, p0, i0
<1> QED BY <1>1, <1>2, UnlinkWellFormed

-----------------------------------------------------------------------------
(* The quantities of orders, queues and levels. *)

(* What an order still wants. *)
Left == [o \in Order |-> o.remaining]

LEMMA QtyIsSigma ==
  ASSUME NEW S \in SUBSET Order, IsFiniteSet(S)
  PROVE  /\ Weighs(Left, S)
         /\ QtyOf(S) = Sigma(Left, S)
<1> DEFINE pick == [T \in SUBSET S |-> CHOOSE x \in T : TRUE]
           Eq(g) == g = [T \in SUBSET S |-> IF T = {} THEN 0
                      ELSE (CHOOSE x \in T : TRUE).remaining + g[T \ {CHOOSE x \in T : TRUE}]]
           g == CHOOSE h : Eq(h)
<1>1. Weighs(Left, S) /\ \A o \in S : Left[o] = o.remaining
  BY DEF Weighs, Left, Order
<1>2. Picks(pick, S) /\ \A T \in SUBSET S : pick[T] = CHOOSE x \in T : TRUE
  BY DEF Picks
<1>3. QtyOf(S) = g[S]
  BY Zenon DEF QtyOf, MapThenSumSet, MapThenFoldSet
<1>4. ASSUME NEW h
      PROVE  Eq(h) <=> Recursion(h, Left, pick, S)
  <2>1. \A T \in SUBSET S :
          (IF T = {} THEN 0
           ELSE (CHOOSE x \in T : TRUE).remaining + h[T \ {CHOOSE x \in T : TRUE}])
        = IF T = {} THEN 0 ELSE Left[pick[T]] + h[T \ {pick[T]}]
    <3> SUFFICES ASSUME NEW T \in SUBSET S, T # {}
                 PROVE  (CHOOSE x \in T : TRUE).remaining + h[T \ {CHOOSE x \in T : TRUE}]
                        = Left[pick[T]] + h[T \ {pick[T]}]
      OBVIOUS
    <3>1. pick[T] \in S /\ pick[T] = CHOOSE x \in T : TRUE
      BY <1>2 DEF Picks
    <3>2. Left[pick[T]] = (CHOOSE x \in T : TRUE).remaining
      BY <1>1, <3>1
    <3> QED BY <3>1, <3>2
  <2> HIDE DEF pick
  <2> QED BY <2>1 DEF Recursion
<1> HIDE DEF pick
<1>5. Eq(g)
  <2>1. PICK h : Recursion(h, Left, pick, S)
    BY <1>1, <1>2, FoldExists
  <2>2. Eq(h)
    BY <1>4, <2>1
  <2> HIDE DEF Eq
  <2> QED BY <2>2
<1>6. Recursion(g, Left, pick, S)
  <2> HIDE DEF g, Eq
  <2> QED BY <1>4, <1>5
<1> HIDE DEF g
<1>7. g[S] = Sigma(Left, S)
  BY <1>1, <1>2, <1>6, FoldIsSigma
<1> QED BY <1>1, <1>3, <1>7

(* The quantity of a set of orders.                                        *)
LEMMA QtyLaws ==
  ASSUME NEW S \in SUBSET Order, IsFiniteSet(S)
  PROVE  /\ QtyOf(S) \in Nat /\ QtyOf({}) = 0
         /\ \A o \in S : QtyOf(S) = o.remaining + QtyOf(S \ {o})
         /\ \A o \in Order \ S : QtyOf(S \cup {o}) = o.remaining + QtyOf(S)
         /\ \A T \in SUBSET S : QtyOf(T) <= QtyOf(S)
<1>1. \A o \in Order : Left[o] = o.remaining /\ o.remaining \in Nat
  BY DEF Left, Order
<1>2. \A T \in SUBSET S : IsFiniteSet(T) /\ QtyOf(T) = Sigma(Left, T)
  BY FS_Subset, QtyIsSigma
<1>3. Weighs(Left, S) /\ QtyOf(S) = Sigma(Left, S) /\ QtyOf({}) = Sigma(Left, {})
  BY <1>2, QtyIsSigma
<1>4. QtyOf(S) \in Nat /\ \A T \in SUBSET S : QtyOf(T) <= QtyOf(S)
  BY <1>1, <1>2, <1>3, SigmaMonotonic
<1>5. QtyOf({}) = 0 /\ \A o \in S : QtyOf(S) = o.remaining + QtyOf(S \ {o})
  BY <1>1, <1>2, <1>3, SigmaLaws
<1>6. ASSUME NEW o \in Order \ S
      PROVE  QtyOf(S \cup {o}) = o.remaining + QtyOf(S)
  <2>1. S \cup {o} \in SUBSET Order /\ IsFiniteSet(S \cup {o})
    BY FS_AddElement
  <2>2. QtyOf(S \cup {o}) = Sigma(Left, S \cup {o})
    BY <2>1, QtyIsSigma
  <2>3. Left[o] = o.remaining /\ Left[o] \in Int
    BY <1>1
  <2> QED BY <1>3, <2>2, <2>3, SigmaAdd
<1> QED BY <1>4, <1>5, <1>6

(* The orders of a queue, as a set.                                        *)
LEMMA QueueSet ==
  ASSUME NEW q \in Seq(Order)
  PROVE  /\ ToSet(q) \in SUBSET Order /\ IsFiniteSet(ToSet(q))
         /\ \A i \in DOMAIN q : q[i] \in ToSet(q)
         /\ q # << >> <=> ToSet(q) # {}
<1>1. /\ Len(q) \in Nat /\ DOMAIN q = 1..Len(q) /\ \A i \in DOMAIN q : q[i] \in Order
      /\ q # << >> => 1 \in DOMAIN q
  BY QueueTypes
<1>2. ToSet(q) = {q[i] : i \in DOMAIN q}
  BY DEF ToSet
<1>3. IsFiniteSet(DOMAIN q)
  BY <1>1, FS_Interval
<1>4. IsFiniteSet(ToSet(q))
  <2> DEFINE f == [i \in DOMAIN q |-> q[i]]
  <2>1. f \in Surjection(DOMAIN q, ToSet(q))
    BY <1>2 DEF Surjection
  <2> HIDE DEF f
  <2> QED BY <1>3, <2>1, FS_Surjection
<1>5. q = << >> => DOMAIN q = {}
  BY <1>1, EmptySeq
<1> QED BY <1>1, <1>2, <1>4, <1>5

LEMMA QueueAppended ==
  ASSUME NEW q \in Seq(Order), NEW o \in Order,
         \A i \in DOMAIN q : q[i].orderId < o.orderId
  PROVE  QtyOf(ToSet(Append(q, o))) = QtyOf(ToSet(q)) + o.remaining
<1> DEFINE n == Len(q)
           Q == Append(q, o)
<1>1. n \in Nat /\ DOMAIN q = 1..n
  BY QueueTypes
<1>2. DOMAIN Q = 1..(n + 1) /\ Q[n + 1] = o /\ \A i \in 1..n : Q[i] = q[i]
  BY <1>1
<1> HIDE DEF Q
<1>3. ToSet(Q) = ToSet(q) \cup {o}
  <2>1. \A i \in 1..(n + 1) : i \in 1..n \/ i = n + 1
    BY <1>1
  <2> QED BY <1>1, <1>2, <2>1 DEF ToSet
<1>4. o \in Order \ ToSet(q) /\ o.remaining \in Nat
  BY DEF ToSet, Order
<1>5. ToSet(q) \in SUBSET Order /\ IsFiniteSet(ToSet(q))
  BY QueueSet
<1> QED BY <1>3, <1>4, <1>5, QtyLaws DEF Q

LEMMA QueueShortened ==
  ASSUME NEW q \in Seq(Order), InOrder(q), NEW i \in DOMAIN q
  PROVE  /\ ToSet(RemoveAt(q, i)) = ToSet(q) \ {q[i]}
         /\ QtyOf(ToSet(RemoveAt(q, i))) = QtyOf(ToSet(q)) - q[i].remaining
         /\ q[i].remaining \in Nat /\ QtyOf(ToSet(q)) \in Nat
<1> DEFINE r == RemoveAt(q, i)
<1>1. ToSet(r) = ToSet(q) \ {q[i]}
  <2>1. /\ \A j \in DOMAIN r : \E k \in DOMAIN q : k # i /\ r[j] = q[k]
        /\ \A k \in DOMAIN q : k # i => \E j \in DOMAIN r : r[j] = q[k]
        /\ \A k \in DOMAIN q : k # i => q[k].orderId # q[i].orderId
    BY QueueRemoval
  <2>2. \A k \in DOMAIN q : k # i => q[k] # q[i]
    BY <2>1
  <2> HIDE DEF r
  <2> QED BY <2>1, <2>2 DEF ToSet
<1>2. ToSet(q) \in SUBSET Order /\ IsFiniteSet(ToSet(q)) /\ q[i] \in ToSet(q)
  BY QueueSet
<1>3. q[i].remaining \in Nat
  BY QueueTypes
<1>4. QtyOf(ToSet(q)) = q[i].remaining + QtyOf(ToSet(q) \ {q[i]})
  BY <1>2, QtyLaws
<1>5. QtyOf(ToSet(q) \ {q[i]}) \in Nat
  <2>1. ToSet(q) \ {q[i]} \in SUBSET Order /\ IsFiniteSet(ToSet(q) \ {q[i]})
    BY <1>2, FS_Subset
  <2> QED BY <2>1, QtyLaws
<1> QED BY <1>1, <1>3, <1>4, <1>5

(* A partial fill of the head of a queue.                                  *)
LEMMA QueueReduced ==
  ASSUME NEW q \in Seq(Order), InOrder(q), q # << >>, NEW fillQty \in Nat,
         fillQty < q[1].remaining, NEW r, r = [q EXCEPT ![1].remaining = @ - fillQty]
  PROVE  QtyOf(ToSet(r)) = QtyOf(ToSet(q)) - fillQty
<1> DEFINE head == [q[1] EXCEPT !.remaining = @ - fillQty]
           others == ToSet(q) \ {q[1]}
<1>1. /\ 1 \in DOMAIN q /\ Len(q) \in Nat /\ DOMAIN q = 1..Len(q)
      /\ \A i \in DOMAIN q : q[i] \in Order /\ q[i].orderId \in Nat
      /\ q[1].remaining \in Nat
  BY QueueTypes
<1>2. /\ head \in Order /\ head.orderId = q[1].orderId
      /\ head.remaining = q[1].remaining - fillQty
  <2>1. q[1] \in Order /\ q[1].remaining - fillQty \in Nat
    BY <1>1
  <2> QED BY <2>1 DEF Order
<1>3. r = [q EXCEPT ![1] = head]
  OBVIOUS
<1> HIDE DEF head
<1>4. DOMAIN r = DOMAIN q /\ r[1] = head /\ \A i \in DOMAIN q : i # 1 => r[i] = q[i]
  BY <1>1, <1>3
<1>5. \A i \in DOMAIN q : i # 1 => q[i].orderId # q[1].orderId
  BY <1>1 DEF InOrder
<1>6. ToSet(r) = others \cup {head} /\ head \notin others
  BY <1>1, <1>2, <1>4, <1>5 DEF ToSet
<1>7. /\ ToSet(q) \in SUBSET Order /\ IsFiniteSet(ToSet(q)) /\ q[1] \in ToSet(q)
      /\ others \in SUBSET Order /\ IsFiniteSet(others)
  BY <1>1, QueueSet, FS_Subset
<1>8. QtyOf(ToSet(q)) = q[1].remaining + QtyOf(others)
  BY <1>7, QtyLaws
<1> HIDE DEF others
<1>9. QtyOf(others \cup {head}) = head.remaining + QtyOf(others) /\ QtyOf(others) \in Nat
  <2>1. head \in Order \ others
    BY <1>2, <1>6
  <2> QED BY <1>7, <2>1, QtyLaws
<1>10. q[1].remaining \in Nat
  BY <1>1
<1>11. QtyOf(ToSet(r)) = (q[1].remaining - fillQty) + QtyOf(others)
  BY <1>2, <1>6, <1>9
<1> DEFINE x == q[1].remaining
           y == QtyOf(others)
<1>12. x \in Int /\ y \in Int /\ QtyOf(ToSet(q)) = x + y
       /\ QtyOf(ToSet(r)) = (x - fillQty) + y
  BY <1>8, <1>9, <1>10, <1>11
<1> HIDE DEF x, y
<1> QED BY <1>12

-----------------------------------------------------------------------------
(* What the operations do to the levels. *)

LevelQty(b, s, p) == IF p \in PricesOn(b, s) THEN b.levels[s][p].totalQty ELSE 0

QueueOf(b, s, p) == IF p \in PricesOn(b, s) THEN QueueAt(b, s, p) ELSE << >>

(* No level but the one at s0 and p0 is another one in c than in b.        *)
OnlyLevel(b, c, s0, p0) ==
  \A s \in Sides : \A p : At(s, p) # At(s0, p0) =>
    /\ p \in PricesOn(c, s) <=> p \in PricesOn(b, s)
    /\ p \in PricesOn(b, s) => c.levels[s][p] = b.levels[s][p]

LEMMA RestLevel ==
  ASSUME NEW b, BookTypeOK(b), NEW o \in Order
  PROVE  /\ OnlyLevel(b, Rest(b, o), o.side, o.price)
         /\ o.price \in PricesOn(Rest(b, o), o.side)
         /\ Rest(b, o).levels[o.side][o.price] =
              [queue    |-> Append(QueueOf(b, o.side, o.price), o),
               totalQty |-> LevelQty(b, o.side, o.price) + o.remaining]
         /\ Rest(b, o).refs = Put(b.refs, o.orderId, At(o.side, o.price))
<1> DEFINE tree  == b.levels[o.side]
           level == IF o.price \in DOMAIN tree THEN tree[o.price]
                    ELSE [queue |-> << >>, totalQty |-> 0]
           grown == [queue    |-> Append(level.queue, o),
                     totalQty |-> level.totalQty + o.remaining]
           c     == Rest(b, o)
<1>1. o.side \in Sides /\ b.levels = [s \in Sides |-> b.levels[s]]
  BY DEF Order, BookTypeOK
<1>2. c = [levels |-> [b.levels EXCEPT ![o.side] = Put(tree, o.price, grown)],
           refs   |-> Put(b.refs, o.orderId, At(o.side, o.price))]
  BY DEF Rest
<1>3. /\ level.queue = QueueOf(b, o.side, o.price)
      /\ level.totalQty = LevelQty(b, o.side, o.price)
  BY DEF QueueOf, QueueAt, LevelQty, PricesOn
<1>4. grown = [queue    |-> Append(QueueOf(b, o.side, o.price), o),
               totalQty |-> LevelQty(b, o.side, o.price) + o.remaining]
  <2> HIDE DEF level
  <2> QED BY <1>3
<1> HIDE DEF grown, c
<1>5. /\ c.levels[o.side] = Put(tree, o.price, grown)
      /\ \A s \in Sides : s # o.side => c.levels[s] = b.levels[s]
      /\ c.refs = Put(b.refs, o.orderId, At(o.side, o.price))
  <2> HIDE DEF tree
  <2> QED BY <1>1, <1>2
<1>6. /\ PricesOn(c, o.side) = PricesOn(b, o.side) \cup {o.price}
      /\ c.levels[o.side][o.price] = grown
      /\ \A p \in PricesOn(b, o.side) : p # o.price => c.levels[o.side][p] = b.levels[o.side][p]
  BY <1>5 DEF Put, PricesOn
<1>7. OnlyLevel(b, c, o.side, o.price)
  <2> SUFFICES ASSUME NEW s \in Sides, NEW p, At(s, p) # At(o.side, o.price)
               PROVE  /\ p \in PricesOn(c, s) <=> p \in PricesOn(b, s)
                      /\ p \in PricesOn(b, s) => c.levels[s][p] = b.levels[s][p]
    BY DEF OnlyLevel
  <2>1. s # o.side \/ p # o.price
    BY AtProperties
  <2> QED BY <1>5, <1>6, <2>1 DEF PricesOn
<1> QED BY <1>4, <1>5, <1>6, <1>7 DEF c

(* A level loses an order of quantity taken, and keeps the queue r.        *)
LevelShrinks(b, c, s0, p0, r, taken) ==
  /\ p0 \in PricesOn(c, s0) <=> r # << >>
  /\ r # << >> => QueueAt(c, s0, p0) = r
  /\ r # << >> => c.levels[s0][p0].totalQty = LevelQty(b, s0, p0) - taken

LEMMA UnlinkLevel ==
  ASSUME NEW b, BookTypeOK(b), NEW s0 \in Sides, NEW p0 \in PricesOn(b, s0),
         NEW i0 \in DOMAIN QueueAt(b, s0, p0),
         NEW r, r = RemoveAt(QueueAt(b, s0, p0), i0)
  PROVE  /\ OnlyLevel(b, Unlink(b, s0, p0, i0), s0, p0)
         /\ LevelShrinks(b, Unlink(b, s0, p0, i0), s0, p0, r,
                         QueueAt(b, s0, p0)[i0].remaining)
         /\ Unlink(b, s0, p0, i0).refs =
              Restrict(b.refs, DOMAIN b.refs \ {QueueAt(b, s0, p0)[i0].orderId})
<1> DEFINE tree == b.levels[s0]
           rest == [queue    |-> r,
                    totalQty |-> LevelQty(b, s0, p0) - QueueAt(b, s0, p0)[i0].remaining]
           T    == IF r = << >> THEN Restrict(tree, DOMAIN tree \ {p0})
                   ELSE [tree EXCEPT ![p0] = rest]
           c    == Unlink(b, s0, p0, i0)
<1>1. b.levels = [s \in Sides |-> b.levels[s]] /\ tree = [p \in DOMAIN tree |-> tree[p]]
  BY DEF BookTypeOK
<1>2. /\ c.levels = [b.levels EXCEPT ![s0] = T]
      /\ c.refs = Restrict(b.refs, DOMAIN b.refs \ {QueueAt(b, s0, p0)[i0].orderId})
  BY DEF Unlink, QueueAt, LevelQty, PricesOn
<1> HIDE DEF c, rest
<1>3. c.levels[s0] = T /\ \A s \in Sides : s # s0 => c.levels[s] = b.levels[s]
  <2> HIDE DEF T
  <2> QED BY <1>1, <1>2
<1>4. /\ p0 \in DOMAIN tree
      /\ p0 \in DOMAIN T <=> r # << >>
      /\ r # << >> => T[p0] = rest
      /\ \A p : p # p0 => (p \in DOMAIN T <=> p \in DOMAIN tree)
      /\ \A p \in DOMAIN tree : p # p0 => T[p] = tree[p]
  <2>1. p0 \in DOMAIN tree
    BY DEF PricesOn
  <2>2. CASE r = << >>
    BY <2>1, <2>2 DEF Restrict
  <2>3. CASE r # << >>
    <3>1. T = [tree EXCEPT ![p0] = rest]
      BY <2>3
    <3> HIDE DEF T, tree
    <3> QED BY <1>1, <2>1, <2>3, <3>1
  <2> QED BY <2>2, <2>3
<1> HIDE DEF T
<1>5. OnlyLevel(b, c, s0, p0)
  <2> SUFFICES ASSUME NEW s \in Sides, NEW p, At(s, p) # At(s0, p0)
               PROVE  /\ p \in PricesOn(c, s) <=> p \in PricesOn(b, s)
                      /\ p \in PricesOn(b, s) => c.levels[s][p] = b.levels[s][p]
    BY DEF OnlyLevel
  <2>1. s # s0 \/ p # p0
    BY AtProperties
  <2> QED BY <1>3, <1>4, <2>1 DEF PricesOn
<1>6. r # << >> => /\ QueueAt(c, s0, p0) = r
                   /\ c.levels[s0][p0].totalQty =
                        LevelQty(b, s0, p0) - QueueAt(b, s0, p0)[i0].remaining
  BY <1>3, <1>4 DEF QueueAt, rest
<1>7. p0 \in PricesOn(c, s0) <=> r # << >>
  BY <1>3, <1>4 DEF PricesOn
<1> QED BY <1>2, <1>5, <1>6, <1>7 DEF c, LevelShrinks

LEMMA ReduceLevel ==
  ASSUME NEW b, BookTypeOK(b), NEW s0 \in Sides, NEW p0 \in PricesOn(b, s0), NEW fillQty,
         NEW r, r = [QueueAt(b, s0, p0) EXCEPT ![1].remaining = @ - fillQty]
  PROVE  /\ OnlyLevel(b, ReduceHead(b, s0, p0, fillQty), s0, p0)
         /\ p0 \in PricesOn(ReduceHead(b, s0, p0, fillQty), s0)
         /\ ReduceHead(b, s0, p0, fillQty).levels[s0][p0] =
              [queue |-> r, totalQty |-> LevelQty(b, s0, p0) - fillQty]
         /\ ReduceHead(b, s0, p0, fillQty).refs = b.refs
<1> DEFINE tree    == b.levels[s0]
           reduced == [queue |-> r, totalQty |-> LevelQty(b, s0, p0) - fillQty]
           T       == [tree EXCEPT ![p0] = reduced]
           c       == ReduceHead(b, s0, p0, fillQty)
<1>1. b.levels = [s \in Sides |-> b.levels[s]] /\ tree = [p \in DOMAIN tree |-> tree[p]]
  BY DEF BookTypeOK
<1>2. c.levels = [b.levels EXCEPT ![s0] = T] /\ c.refs = b.refs
  BY DEF ReduceHead, QueueAt, LevelQty, PricesOn
<1> HIDE DEF c, reduced
<1>3. c.levels[s0] = T /\ \A s \in Sides : s # s0 => c.levels[s] = b.levels[s]
  <2> HIDE DEF T
  <2> QED BY <1>1, <1>2
<1>4. /\ p0 \in DOMAIN tree /\ DOMAIN T = DOMAIN tree /\ T[p0] = reduced
      /\ \A p \in DOMAIN tree : p # p0 => T[p] = tree[p]
  <2>1. p0 \in DOMAIN tree
    BY DEF PricesOn
  <2> HIDE DEF tree
  <2> QED BY <1>1, <2>1
<1> HIDE DEF T
<1>5. OnlyLevel(b, c, s0, p0)
  <2> SUFFICES ASSUME NEW s \in Sides, NEW p, At(s, p) # At(s0, p0)
               PROVE  /\ p \in PricesOn(c, s) <=> p \in PricesOn(b, s)
                      /\ p \in PricesOn(b, s) => c.levels[s][p] = b.levels[s][p]
    BY DEF OnlyLevel
  <2>1. s # s0 \/ p # p0
    BY AtProperties
  <2> QED BY <1>3, <1>4, <2>1 DEF PricesOn
<1> QED BY <1>2, <1>3, <1>4, <1>5 DEF c, reduced, PricesOn

-----------------------------------------------------------------------------
(* Quantities and orders before and after an operation. *)

(* refs and the queue lead from an id to the order that bears it.          *)
LEMMA OrderFound ==
  ASSUME NEW b, BookWellFormed(b), NEW s \in Sides, NEW p \in PricesOn(b, s),
         NEW i \in DOMAIN QueueAt(b, s, p), NEW x, x = QueueAt(b, s, p)[i]
  PROVE  /\ IsResting(b, x.orderId) /\ RefOf(b, x.orderId) = At(s, p)
         /\ GetOrder(b, x.orderId) = x
<1> DEFINE q == QueueAt(b, s, p)
<1>1. LevelOK(b, s, p) /\ q \in Seq(Order)
  BY LevelFacts, LevelTypes DEF BookWellFormed
<1>2. IsResting(b, x.orderId) /\ RefOf(b, x.orderId) = At(s, p)
  BY <1>1 DEF LevelOK
<1>3. QueueOfRef(b, x.orderId) = q
  BY <1>2, AtProperties DEF QueueOfRef
<1>4. \A j \in DOMAIN q : q[j].orderId = x.orderId => j = i
  <2>1. InOrder(q)
    BY <1>1 DEF LevelOK
  <2> HIDE DEF q
  <2>2. Len(q) \in Nat /\ DOMAIN q = 1..Len(q) /\ \A j \in DOMAIN q : q[j].orderId \in Nat
    BY <1>1, QueueTypes
  <2>3. i \in DOMAIN q /\ x = q[i]
    BY DEF q
  <2> SUFFICES ASSUME NEW j \in DOMAIN q, q[j].orderId = q[i].orderId, j # i PROVE FALSE
    BY <2>3
  <2>4. j < i \/ i < j
    BY <2>2, <2>3
  <2>5. q[j].orderId < q[i].orderId \/ q[i].orderId < q[j].orderId
    BY <2>1, <2>3, <2>4 DEF InOrder
  <2> QED BY <2>2, <2>3, <2>5
<1>5. PositionOf(b, x.orderId) = i
  BY <1>3, <1>4 DEF PositionOf
<1> QED BY <1>2, <1>3, <1>5 DEF GetOrder

(* Where the order of an id waits.                                         *)
LEMMA OrderPlace ==
  ASSUME NEW b, BookWellFormed(b), NEW id, IsResting(b, id)
  PROVE  \E s \in Sides : \E p \in PricesOn(b, s) : \E i \in DOMAIN QueueAt(b, s, p) :
           /\ RefOf(b, id) = At(s, p) /\ QueueAt(b, s, p)[i] = GetOrder(b, id)
           /\ GetOrder(b, id).orderId = id
           /\ GetOrder(b, id).side = s /\ GetOrder(b, id).price = p
           /\ GetOrder(b, id).remaining > 0
<1> DEFINE s == RefOf(b, id).side
           p == RefOf(b, id).price
           i == PositionOf(b, id)
<1>1. /\ s \in Sides /\ p \in PricesOn(b, s) /\ i \in DOMAIN QueueAt(b, s, p)
      /\ QueueAt(b, s, p)[i] = GetOrder(b, id) /\ GetOrder(b, id).orderId = id
  BY GetOrderProperties DEF GetOrder, QueueOfRef
<1>2. RefOf(b, id) = At(s, p)
  BY RefTypes DEF BookWellFormed
<1> HIDE DEF s, p, i
<1>3. Belongs(GetOrder(b, id), s, p)
  BY <1>1, LevelFacts DEF LevelOK
<1> QED BY <1>1, <1>2, <1>3 DEF Belongs

LEMMA OrderAt ==
  ASSUME NEW b, BookWellFormed(b), NEW id, IsResting(b, id),
         NEW s, NEW p, RefOf(b, id) = At(s, p)
  PROVE  /\ s \in Sides /\ p \in PricesOn(b, s)
         /\ \E i \in DOMAIN QueueAt(b, s, p) :
              QueueAt(b, s, p)[i] = GetOrder(b, id) /\ QueueAt(b, s, p)[i].orderId = id
<1>1. RefOf(b, id).side = s /\ RefOf(b, id).price = p
  BY AtProperties
<1> QED BY <1>1, GetOrderProperties DEF GetOrder, QueueOfRef

(* An order that is still in its queue is still what its id leads to.      *)
LEMMA OrderKept ==
  ASSUME NEW b, BookWellFormed(b), NEW c, BookWellFormed(c), NEW id, IsResting(b, id),
         NEW s0 \in Sides, NEW p0, OnlyLevel(b, c, s0, p0),
         RefOf(b, id) = At(s0, p0) =>
           /\ p0 \in PricesOn(c, s0)
           /\ \E j \in DOMAIN QueueAt(c, s0, p0) : QueueAt(c, s0, p0)[j] = GetOrder(b, id)
  PROVE  GetOrder(c, id) = GetOrder(b, id)
<1>1. PICK s \in Sides : \E p \in PricesOn(b, s) : \E i \in DOMAIN QueueAt(b, s, p) :
        /\ RefOf(b, id) = At(s, p) /\ QueueAt(b, s, p)[i] = GetOrder(b, id)
        /\ GetOrder(b, id).orderId = id
  BY OrderPlace
<1>2. PICK p \in PricesOn(b, s) : \E i \in DOMAIN QueueAt(b, s, p) :
        /\ RefOf(b, id) = At(s, p) /\ QueueAt(b, s, p)[i] = GetOrder(b, id)
        /\ GetOrder(b, id).orderId = id
  BY <1>1
<1>3. p \in PricesOn(c, s) /\
      \E j \in DOMAIN QueueAt(c, s, p) : QueueAt(c, s, p)[j] = GetOrder(b, id)
  <2>1. CASE At(s, p) = At(s0, p0)
    BY <1>2, <2>1, AtProperties
  <2>2. CASE At(s, p) # At(s0, p0)
    BY <1>2, <2>2 DEF OnlyLevel, QueueAt
  <2> QED BY <2>1, <2>2
<1> QED BY <1>2, <1>3, OrderFound

(* A level is there exactly while there is quantity at its price.          *)
LEMMA LevelPositive ==
  ASSUME NEW b, BookWellFormed(b), TotalsExact(b), NEW s \in Sides, NEW p
  PROVE  /\ LevelQty(b, s, p) \in Nat
         /\ p \in PricesOn(b, s) <=> LevelQty(b, s, p) > 0
         /\ p \in PricesOn(b, s) => b.levels[s][p] =
              [queue |-> QueueAt(b, s, p), totalQty |-> QtyOf(ToSet(QueueAt(b, s, p)))]
<1>1. CASE p \notin PricesOn(b, s)
  BY <1>1 DEF LevelQty
<1>2. CASE p \in PricesOn(b, s)
  <2> DEFINE q == QueueAt(b, s, p)
  <2>1. LevelOK(b, s, p) /\ q \in Seq(Order) /\ b.levels[s][p] \in Level
    BY <1>2, LevelFacts, LevelTypes DEF BookWellFormed
  <2>2. 1 \in DOMAIN q /\ q[1].remaining > 0 /\ q[1].remaining \in Nat
    <3>1. q # << >> /\ \A i \in DOMAIN q : Belongs(q[i], s, p)
      BY <2>1 DEF LevelOK
    <3> HIDE DEF q
    <3> QED BY <2>1, <3>1, QueueTypes DEF Belongs
  <2>3. b.levels[s][p].totalQty = QtyOf(ToSet(q)) /\ b.levels[s][p].queue = q
    BY <1>2 DEF TotalsExact, QueueAt
  <2> HIDE DEF q
  <2>4. InOrder(q)
    BY <2>1 DEF LevelOK, q
  <2>5. /\ QtyOf(ToSet(q)) \in Nat
        /\ QtyOf(ToSet(q)) = q[1].remaining + QtyOf(ToSet(q) \ {q[1]})
        /\ QtyOf(ToSet(q) \ {q[1]}) \in Nat
    <3>1. ToSet(q) \in SUBSET Order /\ IsFiniteSet(ToSet(q)) /\ q[1] \in ToSet(q)
      BY <2>1, <2>2, QueueSet
    <3>2. ToSet(q) \ {q[1]} \in SUBSET Order /\ IsFiniteSet(ToSet(q) \ {q[1]})
      BY <3>1, FS_Subset
    <3> QED BY <3>1, <3>2, QtyLaws
  <2>6. QtyOf(ToSet(q)) > 0
    BY <2>2, <2>5
  <2>7. b.levels[s][p] = [queue |-> q, totalQty |-> QtyOf(ToSet(q))]
    BY <2>1, <2>3 DEF Level
  <2> QED BY <1>2, <2>3, <2>5, <2>6, <2>7 DEF LevelQty, q
<1> QED BY <1>1, <1>2

(* A book keeps exact totals if the one level that changes has one.        *)
LEMMA TotalsKept ==
  ASSUME NEW b, TotalsExact(b), NEW c, NEW s0 \in Sides, NEW p0, OnlyLevel(b, c, s0, p0),
         p0 \in PricesOn(c, s0) =>
           c.levels[s0][p0].totalQty = QtyOf(ToSet(c.levels[s0][p0].queue))
  PROVE  TotalsExact(c)
<1> SUFFICES ASSUME NEW s \in Sides, NEW p \in PricesOn(c, s)
             PROVE  c.levels[s][p].totalQty = QtyOf(ToSet(QueueAt(c, s, p)))
  BY DEF TotalsExact
<1>1. CASE At(s, p) = At(s0, p0)
  BY <1>1, AtProperties DEF QueueAt
<1>2. CASE At(s, p) # At(s0, p0)
  BY <1>2 DEF OnlyLevel, TotalsExact, QueueAt
<1> QED BY <1>1, <1>2

(* Resting an order: its quantity comes to its level, every order keeps    *)
(* its place.                                                              *)
LEMMA RestQuantities ==
  ASSUME NEW b, BookWellFormed(b), TotalsExact(b), NEW o \in Order, o.remaining > 0,
         \A id : IsResting(b, id) => id < o.orderId
  PROVE  /\ TotalsExact(Rest(b, o))
         /\ \A s \in Sides : \A p :
              LevelQty(Rest(b, o), s, p) =
                LevelQty(b, s, p) + IF At(s, p) = At(o.side, o.price) THEN o.remaining ELSE 0
         /\ GetOrder(Rest(b, o), o.orderId) = o
         /\ \A id : IsResting(b, id) => GetOrder(Rest(b, o), id) = GetOrder(b, id)
<1> DEFINE c  == Rest(b, o)
           s0 == o.side
           p0 == o.price
           q  == QueueOf(b, s0, p0)
           Q  == Append(q, o)
<1>1. s0 \in Sides /\ p0 \in Nat /\ o.remaining \in Nat /\ BookTypeOK(b)
  BY DEF Order, BookWellFormed
<1>2. /\ OnlyLevel(b, c, s0, p0) /\ p0 \in PricesOn(c, s0)
      /\ c.levels[s0][p0] = [queue |-> Q, totalQty |-> LevelQty(b, s0, p0) + o.remaining]
  BY <1>1, RestLevel
<1>3. BookWellFormed(c)
  BY RestWellFormed
<1> HIDE DEF c
<1>4. /\ q \in Seq(Order) /\ QtyOf(ToSet(q)) = LevelQty(b, s0, p0)
      /\ \A i \in DOMAIN q : IsResting(b, q[i].orderId)
  <2>1. CASE p0 \in PricesOn(b, s0)
    <3>1. q = QueueAt(b, s0, p0)
      BY <2>1 DEF QueueOf
    <3>2. q \in Seq(Order)
      BY <1>1, <2>1, <3>1, LevelTypes
    <3>3. \A i \in DOMAIN q : IsResting(b, q[i].orderId)
      BY <1>1, <2>1, <3>1, LevelFacts DEF LevelOK
    <3>4. QtyOf(ToSet(q)) = LevelQty(b, s0, p0)
      BY <1>1, <2>1, <3>1 DEF TotalsExact, LevelQty
    <3> QED BY <3>2, <3>3, <3>4
  <2>2. CASE p0 \notin PricesOn(b, s0)
    <3>1. q = << >> /\ LevelQty(b, s0, p0) = 0
      BY <2>2 DEF QueueOf, LevelQty
    <3> HIDE DEF q
    <3>2. ToSet(q) = {}
      BY <3>1, QueueSet, EmptySeq
    <3>3. QtyOf({}) = 0
      <4>1. IsFiniteSet({}) /\ {} \in SUBSET Order
        BY FS_EmptySet
      <4> QED BY <4>1, QtyLaws
    <3>4. q \in Seq(Order) /\ DOMAIN q = {}
      BY <3>1, EmptySeq
    <3> QED BY <3>1, <3>2, <3>3, <3>4
  <2> QED BY <2>1, <2>2
<1> HIDE DEF q
<1>5. /\ c.levels[s0][p0].queue = Q /\ QueueAt(c, s0, p0) = Q
      /\ c.levels[s0][p0].totalQty = LevelQty(b, s0, p0) + o.remaining
  BY <1>2 DEF QueueAt
<1>6. TotalsExact(c)
  <2>1. QtyOf(ToSet(Q)) = QtyOf(ToSet(q)) + o.remaining
    BY <1>4, QueueAppended
  <2> HIDE DEF Q
  <2>2. c.levels[s0][p0].totalQty = QtyOf(ToSet(c.levels[s0][p0].queue))
    BY <1>4, <1>5, <2>1
  <2> QED BY <1>1, <1>2, <2>2, TotalsKept
<1>7. ASSUME NEW s \in Sides, NEW p
      PROVE  LevelQty(c, s, p) =
               LevelQty(b, s, p) + IF At(s, p) = At(s0, p0) THEN o.remaining ELSE 0
  <2>1. CASE At(s, p) = At(s0, p0)
    <3>1. s = s0 /\ p = p0
      BY <2>1, AtProperties
    <3>2. LevelQty(c, s0, p0) = LevelQty(b, s0, p0) + o.remaining
      BY <1>2, <1>5 DEF LevelQty
    <3> QED BY <2>1, <3>1, <3>2
  <2>2. CASE At(s, p) # At(s0, p0)
    <3>1. LevelQty(c, s, p) = LevelQty(b, s, p)
      BY <1>2, <2>2 DEF OnlyLevel, LevelQty
    <3>2. LevelQty(b, s, p) \in Nat
      BY LevelPositive
    <3> QED BY <2>2, <3>1, <3>2
  <2> QED BY <2>1, <2>2
<1>8. /\ Len(q) + 1 \in DOMAIN Q /\ Q[Len(q) + 1] = o
      /\ \A i \in DOMAIN q : i \in DOMAIN Q /\ Q[i] = q[i]
  <2>1. Len(q) \in Nat /\ DOMAIN q = 1..Len(q)
    BY <1>4, LenProperties
  <2> QED BY <1>4, <2>1
<1> HIDE DEF Q
<1>9. GetOrder(c, o.orderId) = o
  BY <1>1, <1>2, <1>3, <1>5, <1>8, OrderFound
<1>10. ASSUME NEW id, IsResting(b, id)
       PROVE  GetOrder(c, id) = GetOrder(b, id)
  <2>1. ASSUME RefOf(b, id) = At(s0, p0)
        PROVE  \E j \in DOMAIN QueueAt(c, s0, p0) : QueueAt(c, s0, p0)[j] = GetOrder(b, id)
    <3>1. p0 \in PricesOn(b, s0) /\
          \E i \in DOMAIN QueueAt(b, s0, p0) : QueueAt(b, s0, p0)[i] = GetOrder(b, id)
      BY <1>10, <2>1, OrderAt
    <3>2. q = QueueAt(b, s0, p0)
      BY <3>1 DEF q, QueueOf
    <3> QED BY <1>5, <1>8, <3>1, <3>2
  <2> HIDE DEF s0, p0
  <2> QED BY <1>1, <1>2, <1>3, <1>10, <2>1, OrderKept
<1> QED BY <1>6, <1>7, <1>9, <1>10 DEF c

(* Unlinking an order: its quantity leaves its level, the others stay.     *)
LEMMA UnlinkQuantities ==
  ASSUME NEW b, BookWellFormed(b), TotalsExact(b), NEW s0 \in Sides,
         NEW p0 \in PricesOn(b, s0), NEW i0 \in DOMAIN QueueAt(b, s0, p0),
         NEW x, x = QueueAt(b, s0, p0)[i0]
  PROVE  /\ TotalsExact(Unlink(b, s0, p0, i0))
         /\ \A s \in Sides : \A p :
              LevelQty(Unlink(b, s0, p0, i0), s, p) =
                LevelQty(b, s, p) - IF At(s, p) = At(s0, p0) THEN x.remaining ELSE 0
         /\ \A id : IsResting(b, id) /\ id # x.orderId =>
              GetOrder(Unlink(b, s0, p0, i0), id) = GetOrder(b, id)
<1> DEFINE c == Unlink(b, s0, p0, i0)
           q == QueueAt(b, s0, p0)
           r == RemoveAt(q, i0)
<1>1. BookTypeOK(b) /\ q \in Seq(Order) /\ InOrder(q) /\ i0 \in DOMAIN q
  BY LevelFacts, LevelTypes DEF BookWellFormed, LevelOK
<1>2. /\ OnlyLevel(b, c, s0, p0)
      /\ p0 \in PricesOn(c, s0) <=> r # << >>
      /\ r # << >> => QueueAt(c, s0, p0) = r
      /\ r # << >> => c.levels[s0][p0].totalQty = LevelQty(b, s0, p0) - x.remaining
  <2>1. BookTypeOK(b)
    BY <1>1
  <2>2. /\ OnlyLevel(b, c, s0, p0)
        /\ LevelShrinks(b, c, s0, p0, r, QueueAt(b, s0, p0)[i0].remaining)
    BY <2>1, UnlinkLevel
  <2> HIDE DEF c, q, r
  <2> QED BY <2>2 DEF LevelShrinks
<1>3. BookWellFormed(c)
  BY UnlinkWellFormed
<1> HIDE DEF c
<1>4. q[i0] = x /\ QtyOf(ToSet(q)) = LevelQty(b, s0, p0)
  BY DEF TotalsExact, LevelQty
<1> HIDE DEF q
<1>5. /\ r \in Seq(Order)
      /\ \A k \in DOMAIN q : k # i0 => \E j \in DOMAIN r : r[j] = q[k]
  BY <1>1, QueueRemoval
<1>6. /\ QtyOf(ToSet(r)) = LevelQty(b, s0, p0) - x.remaining
      /\ x.remaining \in Nat /\ LevelQty(b, s0, p0) \in Nat
  BY <1>1, <1>4, QueueShortened
<1> HIDE DEF r
<1>7. r = << >> => LevelQty(b, s0, p0) - x.remaining = 0
  <2>1. r = << >> => ToSet(r) = {}
    BY <1>5, QueueSet
  <2>2. QtyOf({}) = 0
    <3>1. IsFiniteSet({}) /\ {} \in SUBSET Order
      BY FS_EmptySet
    <3> QED BY <3>1, QtyLaws
  <2> QED BY <1>6, <2>1, <2>2
<1>8. r # << >> => /\ c.levels[s0][p0].queue = r /\ QueueAt(c, s0, p0) = r
                   /\ c.levels[s0][p0].totalQty = LevelQty(b, s0, p0) - x.remaining
  BY <1>2 DEF QueueAt
<1>9. TotalsExact(c)
  <2>1. p0 \in PricesOn(c, s0) =>
          c.levels[s0][p0].totalQty = QtyOf(ToSet(c.levels[s0][p0].queue))
    BY <1>2, <1>6, <1>8
  <2> QED BY <1>2, <2>1, TotalsKept
<1>10. ASSUME NEW s \in Sides, NEW p
       PROVE  LevelQty(c, s, p) =
                LevelQty(b, s, p) - IF At(s, p) = At(s0, p0) THEN x.remaining ELSE 0
  <2>1. CASE At(s, p) = At(s0, p0)
    <3>1. s = s0 /\ p = p0
      BY <2>1, AtProperties
    <3>2. LevelQty(c, s0, p0) = LevelQty(b, s0, p0) - x.remaining
      <4>1. CASE r = << >>
        BY <1>2, <1>7, <4>1 DEF LevelQty
      <4>2. CASE r # << >>
        BY <1>2, <1>8, <4>2 DEF LevelQty
      <4> QED BY <4>1, <4>2
    <3> QED BY <2>1, <3>1, <3>2
  <2>2. CASE At(s, p) # At(s0, p0)
    <3>1. LevelQty(c, s, p) = LevelQty(b, s, p)
      BY <1>2, <2>2 DEF OnlyLevel, LevelQty
    <3>2. LevelQty(b, s, p) \in Nat
      BY LevelPositive
    <3> QED BY <2>2, <3>1, <3>2
  <2> QED BY <2>1, <2>2
<1>11. ASSUME NEW id, IsResting(b, id), id # x.orderId
       PROVE  GetOrder(c, id) = GetOrder(b, id)
  <2>1. ASSUME RefOf(b, id) = At(s0, p0)
        PROVE  /\ p0 \in PricesOn(c, s0)
               /\ \E j \in DOMAIN QueueAt(c, s0, p0) : QueueAt(c, s0, p0)[j] = GetOrder(b, id)
    <3>1. PICK k \in DOMAIN q : q[k] = GetOrder(b, id) /\ q[k].orderId = id
      BY <1>11, <2>1, OrderAt DEF q
    <3>2. k # i0
      BY <1>4, <1>11, <3>1
    <3>3. PICK j \in DOMAIN r : r[j] = GetOrder(b, id)
      BY <1>5, <3>1, <3>2
    <3>4. r # << >>
      BY <1>5, <3>3, QueueSet
    <3> QED BY <1>2, <1>8, <3>3, <3>4
  <2> QED BY <1>2, <1>3, <1>11, <2>1, OrderKept
<1> QED BY <1>9, <1>10, <1>11 DEF c

(* A partial fill of the head of a level.                                  *)
LEMMA ReduceQuantities ==
  ASSUME NEW b, BookWellFormed(b), TotalsExact(b), NEW s0 \in Sides,
         NEW p0 \in PricesOn(b, s0), NEW x, x = QueueAt(b, s0, p0)[1],
         NEW fillQty \in Nat, fillQty < x.remaining
  PROVE  /\ TotalsExact(ReduceHead(b, s0, p0, fillQty))
         /\ \A s \in Sides : \A p :
              LevelQty(ReduceHead(b, s0, p0, fillQty), s, p) =
                LevelQty(b, s, p) - IF At(s, p) = At(s0, p0) THEN fillQty ELSE 0
         /\ GetOrder(ReduceHead(b, s0, p0, fillQty), x.orderId) =
              [x EXCEPT !.remaining = x.remaining - fillQty]
         /\ \A id : IsResting(b, id) /\ id # x.orderId =>
              GetOrder(ReduceHead(b, s0, p0, fillQty), id) = GetOrder(b, id)
<1> DEFINE c    == ReduceHead(b, s0, p0, fillQty)
           q    == QueueAt(b, s0, p0)
           r    == [q EXCEPT ![1].remaining = @ - fillQty]
           head == [x EXCEPT !.remaining = x.remaining - fillQty]
<1>1. BookTypeOK(b) /\ q \in Seq(Order) /\ InOrder(q) /\ q # << >>
  BY LevelFacts, LevelTypes DEF BookWellFormed, LevelOK
<1>2. /\ OnlyLevel(b, c, s0, p0) /\ p0 \in PricesOn(c, s0)
      /\ c.levels[s0][p0] = [queue |-> r, totalQty |-> LevelQty(b, s0, p0) - fillQty]
  BY <1>1, ReduceLevel
<1>3. BookWellFormed(c)
  BY ReduceHeadWellFormed
<1> HIDE DEF c
<1>4. q[1] = x /\ QtyOf(ToSet(q)) = LevelQty(b, s0, p0)
  BY DEF TotalsExact, LevelQty
<1> HIDE DEF q
<1>5. 1 \in DOMAIN q /\ x \in Order /\ x.orderId \in Nat
  BY <1>1, <1>4, QueueTypes
<1>6. DOMAIN r = DOMAIN q /\ r[1] = head /\ \A i \in DOMAIN q : i # 1 => r[i] = q[i]
  <2>1. r = [q EXCEPT ![1] = head]
    BY <1>4
  <2> HIDE DEF r, head
  <2> QED BY <1>1, <1>5, <2>1
<1>7. QtyOf(ToSet(r)) = LevelQty(b, s0, p0) - fillQty
  BY <1>1, <1>4, QueueReduced
<1>8. head.orderId = x.orderId
  BY <1>5 DEF Order
<1> HIDE DEF r, head
<1>9. /\ c.levels[s0][p0].queue = r /\ QueueAt(c, s0, p0) = r
      /\ c.levels[s0][p0].totalQty = LevelQty(b, s0, p0) - fillQty
  BY <1>2 DEF QueueAt
<1>10. TotalsExact(c)
  BY <1>2, <1>7, <1>9, TotalsKept
<1>11. ASSUME NEW s \in Sides, NEW p
       PROVE  LevelQty(c, s, p) =
                LevelQty(b, s, p) - IF At(s, p) = At(s0, p0) THEN fillQty ELSE 0
  <2>1. CASE At(s, p) = At(s0, p0)
    <3>1. s = s0 /\ p = p0
      BY <2>1, AtProperties
    <3>2. LevelQty(c, s0, p0) = LevelQty(b, s0, p0) - fillQty
      BY <1>2, <1>9 DEF LevelQty
    <3> QED BY <2>1, <3>1, <3>2
  <2>2. CASE At(s, p) # At(s0, p0)
    <3>1. LevelQty(c, s, p) = LevelQty(b, s, p)
      BY <1>2, <2>2 DEF OnlyLevel, LevelQty
    <3>2. LevelQty(b, s, p) \in Nat
      BY LevelPositive
    <3> QED BY <2>2, <3>1, <3>2
  <2> QED BY <2>1, <2>2
<1>12. GetOrder(c, x.orderId) = head
  BY <1>2, <1>3, <1>5, <1>6, <1>8, <1>9, OrderFound
<1>13. ASSUME NEW id, IsResting(b, id), id # x.orderId
       PROVE  GetOrder(c, id) = GetOrder(b, id)
  <2>1. ASSUME RefOf(b, id) = At(s0, p0)
        PROVE  \E j \in DOMAIN QueueAt(c, s0, p0) : QueueAt(c, s0, p0)[j] = GetOrder(b, id)
    <3>1. PICK k \in DOMAIN q : q[k] = GetOrder(b, id) /\ q[k].orderId = id
      BY <1>13, <2>1, OrderAt DEF q
    <3>2. k # 1
      BY <1>4, <1>13, <3>1
    <3> QED BY <1>6, <1>9, <3>1, <3>2
  <2> QED BY <1>2, <1>3, <1>13, <2>1, OrderKept
<1> QED BY <1>10, <1>11, <1>12, <1>13 DEF c, head

(* A fill at the top of a side: the quantity at the best price goes down   *)
(* by what was filled, and the order on top by as much, or it is gone.     *)
LEMMA ReduceTopQuantities ==
  ASSUME NEW b, BookWellFormed(b), TotalsExact(b), NEW s0 \in Sides, NEW p0,
         IsBest(b, s0, p0), NEW x, x = Head(QueueAt(b, s0, p0)),
         NEW fillQty \in Nat, fillQty <= x.remaining,
         NEW c, c = ReduceTopOrder(b, s0, fillQty)
  PROVE  /\ TotalsExact(c)
         /\ \A s \in Sides : \A p :
              LevelQty(c, s, p) =
                LevelQty(b, s, p) - IF At(s, p) = At(s0, p0) THEN fillQty ELSE 0
         /\ IsResting(c, x.orderId) <=> fillQty # x.remaining
         /\ fillQty # x.remaining =>
              GetOrder(c, x.orderId) = [x EXCEPT !.remaining = x.remaining - fillQty]
         /\ \A id : id # x.orderId =>
              /\ IsResting(c, id) <=> IsResting(b, id)
              /\ IsResting(b, id) => GetOrder(c, id) = GetOrder(b, id)
<1> DEFINE q == QueueAt(b, s0, p0)
<1>1. p0 \in PricesOn(b, s0) /\ BestPrice(b, s0) = p0
  BY BestPriceUnique DEF IsBest, BookWellFormed
<1>2. 1 \in DOMAIN q /\ x = q[1] /\ q[1].remaining \in Nat
  <2>1. q \in Seq(Order) /\ q # << >>
    BY <1>1, LevelTypes, LevelFacts DEF BookWellFormed, LevelOK
  <2>2. x = Head(q)
    OBVIOUS
  <2> HIDE DEF q
  <2> QED BY <2>1, <2>2, QueueTypes
<1>3. c = IF fillQty = x.remaining THEN Unlink(b, s0, p0, 1)
          ELSE ReduceHead(b, s0, p0, fillQty)
  BY <1>1, <1>2 DEF ReduceTopOrder, PeekTopOrder
<1>4. IsResting(b, x.orderId)
  BY <1>1, <1>2, OrderFound
<1>5. CASE fillQty = x.remaining
  <2>1. c = Unlink(b, s0, p0, 1) /\ x = QueueAt(b, s0, p0)[1] /\ 1 \in DOMAIN QueueAt(b, s0, p0)
    BY <1>2, <1>3, <1>5
  <2>2. \A id : IsResting(c, id) <=> IsResting(b, id) /\ id # x.orderId
    BY <1>1, <2>1, UnlinkWellFormed
  <2>3. /\ TotalsExact(c)
        /\ \A s \in Sides : \A p :
             LevelQty(c, s, p) =
               LevelQty(b, s, p) - IF At(s, p) = At(s0, p0) THEN x.remaining ELSE 0
        /\ \A id : IsResting(b, id) /\ id # x.orderId => GetOrder(c, id) = GetOrder(b, id)
    BY <1>1, <2>1, UnlinkQuantities
  <2> QED BY <1>5, <2>2, <2>3
<1>6. CASE fillQty # x.remaining
  <2>1. c = ReduceHead(b, s0, p0, fillQty) /\ fillQty < x.remaining /\ x = QueueAt(b, s0, p0)[1]
    BY <1>2, <1>3, <1>6
  <2>2. \A id : IsResting(c, id) <=> IsResting(b, id)
    BY <1>1, <2>1, ReduceHeadWellFormed
  <2>3. /\ TotalsExact(c)
        /\ \A s \in Sides : \A p :
             LevelQty(c, s, p) =
               LevelQty(b, s, p) - IF At(s, p) = At(s0, p0) THEN fillQty ELSE 0
        /\ GetOrder(c, x.orderId) = [x EXCEPT !.remaining = x.remaining - fillQty]
        /\ \A id : IsResting(b, id) /\ id # x.orderId => GetOrder(c, id) = GetOrder(b, id)
    BY <1>1, <2>1, ReduceQuantities
  <2> QED BY <1>4, <1>6, <2>2, <2>3
<1> QED BY <1>5, <1>6

(* A cancel: what the order had left leaves its level.                     *)
LEMMA CancelQuantities ==
  ASSUME NEW b, BookWellFormed(b), TotalsExact(b), NEW id, IsResting(b, id),
         NEW c, c = CancelOrder(b, id), NEW x, x = GetOrder(b, id)
  PROVE  /\ TotalsExact(c)
         /\ \A s \in Sides : \A p :
              LevelQty(c, s, p) =
                LevelQty(b, s, p) - IF At(s, p) = At(x.side, x.price) THEN x.remaining ELSE 0
         /\ \A y : IsResting(b, y) /\ y # id => GetOrder(c, y) = GetOrder(b, y)
<1> DEFINE s0 == RefOf(b, id).side
           p0 == RefOf(b, id).price
           i0 == PositionOf(b, id)
<1>1. /\ s0 \in Sides /\ p0 \in PricesOn(b, s0) /\ i0 \in DOMAIN QueueAt(b, s0, p0)
      /\ x = QueueAt(b, s0, p0)[i0] /\ x.orderId = id
  BY GetOrderProperties DEF GetOrder, QueueOfRef
<1>2. c = Unlink(b, s0, p0, i0)
  BY DEF CancelOrder
<1> HIDE DEF s0, p0, i0
<1>3. x.side = s0 /\ x.price = p0
  BY <1>1, LevelFacts DEF LevelOK, Belongs
<1> QED BY <1>1, <1>2, <1>3, UnlinkQuantities
==============================================================================
