----------------------------- MODULE FoldTheorems -----------------------------
(***************************************************************************)
(* Induction over a sequence for FoldLeft: what holds of the base and is   *)
(* carried on by each step holds of the result.  The step and the          *)
(* invariant are parameters of the module, so a module that proves         *)
(* something about a fold takes an instance of this one and gets the       *)
(* theorem for its own step and its own invariant.                         *)
(***************************************************************************)
EXTENDS SequencesExt, WellFoundedInduction, TLAPS

CONSTANTS
  Op(_, _, _, _),  \* two parameters of the fold, what was gathered, an element
  Inv(_, _, _)     \* a parameter, what was gathered, the number of elements

Folded(p, q, base, seq) == FoldLeft(LAMBDA gathered, e : Op(p, q, gathered, e), base, seq)

-----------------------------------------------------------------------------
(* Induction over the natural numbers, for sets *)

LEMMA LeastElement ==
  ASSUME NEW T \in SUBSET Nat, T # {}
  PROVE  \E x \in T : \A y \in T : x <= y
<1> DEFINE R == OpToRel(<, Nat)
<1>1. IsWellFoundedOn(R, Nat)
  BY NatLessThanWellFounded
<1>2. \A x, y \in Nat : <<y, x>> \in R <=> y < x
  BY DEF OpToRel
<1> HIDE DEF R
<1>3. PICK x \in T : \A y \in T : ~ (<<y, x>> \in R)
  BY <1>1, WFMin
<1>4. \A y \in T : ~ (y < x) /\ y \in Nat /\ x \in Nat
  BY <1>2, <1>3
<1> QED
  BY <1>4

LEMMA SetInduction ==
  ASSUME NEW T, 0 \in T, \A n \in Nat : n \in T => n + 1 \in T
  PROVE  \A n \in Nat : n \in T
<1> SUFFICES ASSUME NEW n \in Nat \ T PROVE FALSE
  OBVIOUS
<1>1. PICK x \in Nat \ T : \A y \in Nat \ T : x <= y
  BY LeastElement
<1>2. x # 0 /\ x - 1 \in Nat /\ (x - 1) + 1 = x
  BY <1>1
<1>3. x - 1 \in T
  BY <1>1, <1>2
<1> QED
  BY <1>1, <1>2, <1>3

-----------------------------------------------------------------------------
(* The function in the definition of FoldLeft *)

LEMMA GreatestOf ==
  ASSUME NEW k \in Nat, NEW s \in SUBSET (1..k), NEW x \in s, \A y \in s : x >= y
  PROVE  Max(s) = x
<1>1. Max(s) \in s /\ \A y \in s : Max(s) >= y
  BY DEF Max
<1>2. Max(s) >= x /\ x >= Max(s)
  BY <1>1
<1>3. Max(s) \in 1..k /\ x \in 1..k
  BY <1>1
<1> QED
  BY <1>2, <1>3

LEMMA GreatestIn ==
  ASSUME NEW k \in Nat, NEW s \in SUBSET (1..k), s # {}
  PROVE  Max(s) \in s
<1> DEFINE T == {k - x : x \in s}
<1>1. \A x \in s : x \in Nat /\ k - x \in Nat
  OBVIOUS
<1>2. PICK z \in T : \A y \in T : z <= y
  <2>1. T \in SUBSET Nat /\ T # {}
    BY <1>1
  <2> QED
    BY <2>1, LeastElement
<1>3. PICK x \in s : z = k - x
  BY <1>2
<1>4. ASSUME NEW y \in s PROVE x >= y
  <2>1. k - y \in T
    OBVIOUS
  <2>2. k - x <= k - y
    BY <1>2, <1>3, <2>1
  <2> QED
    BY <1>1, <2>2
<1> QED
  BY <1>4, GreatestOf

Steps(p, q, base, seq, f, k) ==
  f = [s \in SUBSET (1..k) |->
         IF s = {} THEN base ELSE Op(p, q, f[s \ {Max(s)}], seq[Max(s)])]

LEMMA StepsExist ==
  ASSUME NEW p, NEW q, NEW base, NEW seq
  PROVE  \A n \in Nat : \E f : Steps(p, q, base, seq, f, n)
<1> DEFINE T == {n \in Nat : \E f : Steps(p, q, base, seq, f, n)}
<1>1. 0 \in T
  <2> DEFINE f == [s \in SUBSET (1..0) |-> base]
  <2>1. Steps(p, q, base, seq, f, 0)
    BY DEF Steps
  <2> QED
    BY <2>1
<1>2. ASSUME NEW n \in Nat, n \in T PROVE n + 1 \in T
  <2>1. PICK f : Steps(p, q, base, seq, f, n)
    BY <1>2
  <2> DEFINE g == [s \in SUBSET (1..(n + 1)) |->
                     IF n + 1 \in s THEN Op(p, q, f[s \ {n + 1}], seq[n + 1]) ELSE f[s]]
             h == [s \in SUBSET (1..(n + 1)) |->
                     IF s = {} THEN base ELSE Op(p, q, g[s \ {Max(s)}], seq[Max(s)])]
  <2>2. ASSUME NEW s \in SUBSET (1..(n + 1)) PROVE g[s] = h[s]
    <3>1. CASE n + 1 \in s
      <4>1. Max(s) = n + 1
        BY <3>1, GreatestOf
      <4>2. s \ {n + 1} \in SUBSET (1..n)
        OBVIOUS
      <4>3. g[s \ {n + 1}] = f[s \ {n + 1}]
        BY <4>2
      <4> QED
        BY <3>1, <4>1, <4>3
    <3>2. CASE n + 1 \notin s /\ s # {}
      <4>1. s \in SUBSET (1..n)
        BY <3>2
      <4>2. Max(s) \in s
        BY <3>2, <4>1, GreatestIn
      <4>3. s \ {Max(s)} \in SUBSET (1..(n + 1)) /\ n + 1 \notin s \ {Max(s)}
        BY <3>2
      <4>4. g[s \ {Max(s)}] = f[s \ {Max(s)}]
        BY <4>3
      <4>5. f[s] = Op(p, q, f[s \ {Max(s)}], seq[Max(s)])
        BY <2>1, <3>2, <4>1 DEF Steps
      <4> QED
        BY <3>2, <4>4, <4>5
    <3>3. CASE s = {}
      BY <2>1, <3>3 DEF Steps
    <3> QED
      BY <3>1, <3>2, <3>3
  <2>3. g = h
    BY <2>2
  <2>4. Steps(p, q, base, seq, g, n + 1)
    BY <2>3 DEF Steps
  <2> QED
    BY <2>4
<1> HIDE DEF T
<1>3. \A n \in Nat : n \in T
  BY <1>1, <1>2, SetInduction
<1> QED
  BY <1>3 DEF T

-----------------------------------------------------------------------------
(* What holds of the base, and after each element if it held before it,   *)
(* holds when all elements have been gathered.                             *)
LEMMA FoldLeftInduction ==
  ASSUME NEW p, NEW q, NEW env, NEW base, NEW seq, NEW n \in Nat,
         DOMAIN seq = 1..n,
         Inv(env, base, 0),
         \A i \in 1..n : \A a : Inv(env, a, i - 1) => Inv(env, Op(p, q, a, seq[i]), i)
  PROVE  Inv(env, Folded(p, q, base, seq), n)
<1> DEFINE f == CHOOSE f : Steps(p, q, base, seq, f, n)
<1>1. Steps(p, q, base, seq, f, n)
  BY StepsExist
<1>2. Folded(p, q, base, seq) = f[1..n]
  BY DEF Folded, FoldLeft, MapThenFoldSet, Steps
<1> HIDE DEF f
<1> DEFINE T == {k \in Nat : k <= n => Inv(env, f[1..k], k)}
<1>3. 0 \in T
  BY <1>1 DEF Steps
<1>4. ASSUME NEW k \in Nat, k \in T PROVE k + 1 \in T
  <2> SUFFICES ASSUME k + 1 <= n PROVE Inv(env, f[1..(k + 1)], k + 1)
    OBVIOUS
  <2>1. Max(1..(k + 1)) = k + 1
    <3>1. 1..(k + 1) \in SUBSET (1..(k + 1)) /\ k + 1 \in 1..(k + 1)
      OBVIOUS
    <3>2. k + 1 \in Nat /\ \A y \in 1..(k + 1) : k + 1 >= y
      OBVIOUS
    <3> QED
      BY <3>1, <3>2, GreatestOf
  <2>2. (1..(k + 1)) \ {k + 1} = 1..k
    OBVIOUS
  <2>3. 1..(k + 1) \in SUBSET (1..n) /\ k + 1 \in 1..(k + 1)
    <3>1. \A x \in 1..(k + 1) : x \in 1..n
      OBVIOUS
    <3> QED
      BY <3>1
  <2>4. f[1..(k + 1)] = Op(p, q, f[1..k], seq[k + 1])
    BY <1>1, <2>1, <2>2, <2>3 DEF Steps
  <2>5. Inv(env, f[1..k], k)
    BY <1>4
  <2> QED
    BY <2>4, <2>5
<1> HIDE DEF T
<1>5. n \in T
  BY <1>3, <1>4, SetInduction
<1> QED
  BY <1>2, <1>5 DEF T

\* A fold of a single element is one step.
LEMMA FoldLeftOne ==
  ASSUME NEW p, NEW q, NEW base, NEW e
  PROVE  Folded(p, q, base, <<e>>) = Op(p, q, base, e)
<1> DEFINE f == CHOOSE f : Steps(p, q, base, <<e>>, f, 1)
<1>1. Steps(p, q, base, <<e>>, f, 1)
  BY StepsExist
<1>2. DOMAIN <<e>> = 1..1 /\ <<e>>[1] = e
  OBVIOUS
<1>3. Folded(p, q, base, <<e>>) = f[1..1]
  BY <1>2 DEF Folded, FoldLeft, MapThenFoldSet, Steps
<1> HIDE DEF f
<1>4. 1..1 = {1} /\ {1} \ {1} = {} /\ {} \in SUBSET (1..1) /\ {1} \in SUBSET (1..1) /\ {1} # {}
  OBVIOUS
<1>5. Max({1}) = 1
  BY <1>4, GreatestIn
<1>6. f[{}] = base
  BY <1>1, <1>4 DEF Steps
<1>7. f[{1}] = Op(p, q, f[{}], <<e>>[1])
  BY <1>1, <1>4, <1>5 DEF Steps
<1> QED
  BY <1>2, <1>3, <1>4, <1>6, <1>7
=============================================================================
