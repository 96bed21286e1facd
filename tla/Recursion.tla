----------------------------- MODULE Recursion ------------------------------
(***************************************************************************)
(* Induction over the natural numbers for the proofs about the recursive   *)
(* functions of the patterns, the delays that double with every attempt    *)
(* and what they add up to, and over finite sets for the sums of the       *)
(* scheduled batch.  The properties and the recursive definitions are      *)
(* given as sets and functions, so that the provers can instantiate them.  *)
(***************************************************************************)
EXTENDS Powers, TLAPS, FiniteSetTheorems, WellFoundedInduction

\* The order of the natural numbers is well-founded.
LEMMA LessIsWellFounded == IsWellFoundedOn({p \in Nat \X Nat : p[1] < p[2]}, Nat)
BY NatLessThanWellFounded DEF OpToRel

\* A set with 0 and the successors of its members has every natural number.
LEMMA Induction ==
  ASSUME NEW S, 0 \in S, \A n \in Nat : n \in S => n + 1 \in S
  PROVE  \A n \in Nat : n \in S
<1> DEFINE T == Nat \ S
           R == {p \in Nat \X Nat : p[1] < p[2]}
<1>1. SUFFICES ASSUME T # {} PROVE FALSE
  OBVIOUS
<1>2. PICK x \in T : \A y \in T : ~ (<<y, x>> \in R)
  <2>1. IsWellFoundedOn(R, Nat) /\ T \subseteq Nat
    BY LessIsWellFounded
  <2> HIDE DEF R, T
  <2> QED
    BY <1>1, <2>1, WFMin
<1>3. \A y \in T : ~ (y < x)
  BY <1>2
<1>4. x # 0 /\ x \in Nat
  OBVIOUS
<1>5. x - 1 \in S
  BY <1>3, <1>4
<1>6. (x - 1) + 1 \in S
  BY <1>4, <1>5
<1> QED
  BY <1>4, <1>6

\* The functions that follow a recursive definition as far as n: they start
\* with b, and step takes an argument and the value before it to the value.
Prefixes(S, b, step, n) ==
  {g \in [0 .. n -> S] : g[0] = b /\ \A i \in 1 .. n : g[i] = step[<<i, g[i - 1]>>]}

LEMMA PrefixExists ==
  ASSUME NEW S, NEW b \in S, NEW step \in [Nat \X S -> S]
  PROVE  \A n \in Nat : Prefixes(S, b, step, n) # {}
<1> DEFINE Good == {n \in Nat : Prefixes(S, b, step, n) # {}}
<1>1. 0 \in Good
  <2> DEFINE g == [i \in 0 .. 0 |-> b]
  <2>1. g \in Prefixes(S, b, step, 0)
    BY DEF Prefixes
  <2> QED
    BY <2>1
<1>2. ASSUME NEW n \in Nat, n \in Good PROVE n + 1 \in Good
  <2>1. PICK g : g \in Prefixes(S, b, step, n)
    BY <1>2
  <2> DEFINE h == [i \in 0 .. n + 1 |-> IF i = n + 1 THEN step[<<i, g[i - 1]>>] ELSE g[i]]
  <2>2. g \in [0 .. n -> S] /\ g[0] = b /\ \A i \in 1 .. n : g[i] = step[<<i, g[i - 1]>>]
    BY <2>1 DEF Prefixes
  <2>3. h \in [0 .. n + 1 -> S]
    <3>1. ASSUME NEW i \in 0 .. n + 1 PROVE h[i] \in S
      <4>1. CASE i = n + 1
        <5>1. g[i - 1] \in S /\ i \in Nat
          BY <2>2, <4>1
        <5> QED
          BY <4>1, <5>1
      <4>2. CASE i # n + 1
        BY <2>2, <4>2
      <4> QED
        BY <4>1, <4>2
    <3> QED
      BY <3>1
  <2>4. h[0] = b
    BY <2>2
  <2>5. \A i \in 1 .. n + 1 : h[i] = step[<<i, h[i - 1]>>]
    BY <2>2
  <2> HIDE DEF h
  <2>6. h \in Prefixes(S, b, step, n + 1)
    BY <2>3, <2>4, <2>5 DEF Prefixes
  <2> QED
    BY <2>6
<1> HIDE DEF Good
<1>3. \A n \in Nat : n \in Good
  BY <1>1, <1>2, Induction
<1> QED
  BY <1>3 DEF Good

LEMMA PrefixesAgree ==
  ASSUME NEW S, NEW b, NEW step, NEW m \in Nat, NEW n \in Nat, m <= n,
         NEW g \in Prefixes(S, b, step, m), NEW h \in Prefixes(S, b, step, n)
  PROVE  \A i \in 0 .. m : g[i] = h[i]
<1> DEFINE Good == {i \in Nat : i <= m => g[i] = h[i]}
<1>1. 0 \in Good
  BY DEF Prefixes
<1>2. ASSUME NEW i \in Nat, i \in Good PROVE i + 1 \in Good
  <2>1. SUFFICES ASSUME i + 1 <= m PROVE g[i + 1] = h[i + 1]
    OBVIOUS
  <2>2. i + 1 \in 1 .. m /\ i + 1 \in 1 .. n /\ (i + 1) - 1 = i /\ g[i] = h[i]
    BY <1>2, <2>1
  <2>3. g[i + 1] = step[<<i + 1, g[(i + 1) - 1]>>] /\ h[i + 1] = step[<<i + 1, h[(i + 1) - 1]>>]
    BY <2>2 DEF Prefixes
  <2> QED
    BY <2>2, <2>3
<1> HIDE DEF Good
<1>3. \A i \in Nat : i \in Good
  BY <1>1, <1>2, Induction
<1> QED
  BY <1>3 DEF Good

Follows(f, S, b, step) ==
  f \in [Nat -> S] /\ f[0] = b /\ \A n \in Nat \ {0} : f[n] = step[<<n, f[n - 1]>>]

\* Primitive recursion defines a function.
LEMMA PrimitiveRecursion ==
  ASSUME NEW S, NEW b \in S, NEW step \in [Nat \X S -> S]
  PROVE  \E f : Follows(f, S, b, step)
<1> DEFINE P(n) == CHOOSE g : g \in Prefixes(S, b, step, n)
           f == [n \in Nat |-> P(n)[n]]
<1>1. \A n \in Nat : P(n) \in Prefixes(S, b, step, n)
  BY PrefixExists
<1> HIDE DEF P
<1>2. f \in [Nat -> S]
  BY <1>1 DEF Prefixes
<1>3. f[0] = b
  BY <1>1 DEF Prefixes
<1>4. ASSUME NEW n \in Nat \ {0} PROVE f[n] = step[<<n, f[n - 1]>>]
  <2>1. n - 1 \in Nat /\ n - 1 \in 0 .. n - 1
    OBVIOUS
  <2>2. P(n - 1)[n - 1] = P(n)[n - 1]
    BY <1>1, <2>1, PrefixesAgree
  <2>3. P(n)[n] = step[<<n, P(n)[n - 1]>>]
    BY <1>1 DEF Prefixes
  <2> QED
    BY <2>1, <2>2, <2>3
<1> QED
  BY <1>2, <1>3, <1>4 DEF Follows

-----------------------------------------------------------------------------
\* The powers of two are what their recursive definition says, and positive.
LEMMA Power2Recursive ==
  /\ Power2 \in [Nat -> Nat \ {0}]
  /\ Power2[0] = 1 /\ \A n \in Nat \ {0} : Power2[n] = 2 * Power2[n - 1]
<1> DEFINE Pos == Nat \ {0}
           step == [p \in Nat \X Pos |-> 2 * p[2]]
           Def(g) == [n \in Nat |-> IF n = 0 THEN 1 ELSE 2 * g[n - 1]]
<1>1. step \in [Nat \X Pos -> Pos]
  OBVIOUS
<1>2. \A n \in Nat : \A v \in Pos : step[<<n, v>>] = 2 * v
  OBVIOUS
<1> HIDE DEF step
<1>3. PICK f : Follows(f, Pos, 1, step)
  <2>1. 1 \in Pos
    OBVIOUS
  <2> HIDE DEF Pos
  <2> QED
    BY <1>1, <2>1, PrimitiveRecursion
<1>4. ASSUME NEW n \in Nat PROVE f[n] = Def(f)[n]
  <2>1. CASE n = 0
    BY <1>3, <2>1 DEF Follows
  <2>2. CASE n # 0
    <3>1. f[n - 1] \in Pos /\ f[n] = step[<<n, f[n - 1]>>]
      BY <1>3, <2>2 DEF Follows
    <3> QED
      BY <1>2, <2>2, <3>1
  <2> QED
    BY <2>1, <2>2
<1>5. f = Def(f)
  BY <1>3, <1>4 DEF Follows
<1>6. Power2 = CHOOSE g : g = Def(g)
  BY DEF Power2
<1>7. Power2 = Def(Power2)
  <2> HIDE DEF Def
  <2> QED
    BY <1>5, <1>6
<1> DEFINE Good == {n \in Nat : Power2[n] \in Pos}
<1>8. 0 \in Good
  BY <1>7
<1>9. ASSUME NEW n \in Nat, n \in Good PROVE n + 1 \in Good
  BY <1>7, <1>9
<1> HIDE DEF Good
<1>10. \A n \in Nat : n \in Good
  BY <1>8, <1>9, Induction
<1> QED
  BY <1>7, <1>10 DEF Good
-----------------------------------------------------------------------------
(* Finite sets.                                                            *)

\* What holds of a set if it holds of the set without any one of its members
\* holds of every finite set.
LEMMA SubsetInduction ==
  ASSUME NEW S, IsFiniteSet(S), NEW P,
         \A T \in SUBSET S : (\A x \in T : T \ {x} \in P) => T \in P
  PROVE  \A T \in SUBSET S : T \in P
<1> DEFINE Good == {n \in Nat : \A T \in SUBSET S : Cardinality(T) = n => T \in P}
<1>1. \A T \in SUBSET S : IsFiniteSet(T) /\ Cardinality(T) \in Nat
  BY FS_Subset, FS_CardinalityType
<1>2. 0 \in Good
  BY <1>1, FS_EmptySet
<1>3. ASSUME NEW n \in Nat, n \in Good PROVE n + 1 \in Good
  <2>1. ASSUME NEW T \in SUBSET S, Cardinality(T) = n + 1 PROVE T \in P
    <3>1. ASSUME NEW x \in T PROVE T \ {x} \in P
      <4>1. Cardinality(T \ {x}) = n
        BY <1>1, <2>1, FS_RemoveElement
      <4> QED
        BY <1>3, <4>1
    <3> QED
      BY <3>1
  <2> QED
    BY <2>1
<1> HIDE DEF Good
<1>4. \A n \in Nat : n \in Good
  BY <1>2, <1>3, Induction
<1> QED
  BY <1>1, <1>4 DEF Good

-----------------------------------------------------------------------------
(* Sums of a function over finite sets: SumFunctionOnSet is defined by a   *)
(* fold that chooses the members of the set one after the other.           *)

Choice(s) == CHOOSE x \in s : TRUE
SumStep(g, w, s) == IF s = {} THEN 0 ELSE w[Choice(s)] + g[s \ {Choice(s)}]

\* g has the sums of w over the subsets of S.
HasSums(g, w, S) ==
  g \in [SUBSET S -> Nat] /\ \A s \in SUBSET S : g[s] = SumStep(g, w, s)

Small(S, n) == {s \in SUBSET S : Cardinality(s) <= n}

LEMMA Chosen ==
  ASSUME NEW S, IsFiniteSet(S), NEW s \in SUBSET S, s # {}
  PROVE  /\ Choice(s) \in s /\ s \ {Choice(s)} \in SUBSET S
         /\ Cardinality(s) \in Nat /\ Cardinality(s \ {Choice(s)}) = Cardinality(s) - 1
<1>1. Choice(s) \in s
  BY DEF Choice
<1>2. IsFiniteSet(s) /\ Cardinality(s) \in Nat
  BY FS_Subset, FS_CardinalityType
<1> QED
  BY <1>1, <1>2, FS_RemoveElement

LEMMA SumsExist ==
  ASSUME NEW S, IsFiniteSet(S), NEW w, \A x \in S : w[x] \in Nat
  PROVE  \E g : HasSums(g, w, S)
<1> DEFINE Good == {n \in Nat : \E g \in [Small(S, n) -> Nat] :
                                  \A s \in Small(S, n) : g[s] = SumStep(g, w, s)}
<1>1. \A s \in SUBSET S : IsFiniteSet(s) /\ Cardinality(s) \in Nat
  BY FS_Subset, FS_CardinalityType
<1>2. 0 \in Good
  <2> DEFINE g == [s \in Small(S, 0) |-> 0]
  <2>1. \A s \in Small(S, 0) : s = {}
    BY <1>1, FS_EmptySet DEF Small
  <2>2. \A s \in Small(S, 0) : g[s] = SumStep(g, w, s)
    BY <2>1 DEF SumStep
  <2>3. g \in [Small(S, 0) -> Nat]
    OBVIOUS
  <2> HIDE DEF g
  <2> QED
    BY <2>2, <2>3
<1>3. ASSUME NEW n \in Nat, n \in Good PROVE n + 1 \in Good
  <2>1. PICK g \in [Small(S, n) -> Nat] : \A s \in Small(S, n) : g[s] = SumStep(g, w, s)
    BY <1>3
  <2> DEFINE h == [s \in Small(S, n + 1) |-> SumStep(g, w, s)]
  <2>2. ASSUME NEW s \in Small(S, n + 1), s # {}
        PROVE  s \ {Choice(s)} \in Small(S, n) /\ s \ {Choice(s)} \in Small(S, n + 1)
               /\ w[Choice(s)] \in Nat
    <3>1. s \in SUBSET S /\ Cardinality(s) <= n + 1
      BY DEF Small
    <3>2. /\ Choice(s) \in s /\ s \ {Choice(s)} \in SUBSET S
          /\ Cardinality(s) \in Nat /\ Cardinality(s \ {Choice(s)}) = Cardinality(s) - 1
      BY <2>2, <3>1, Chosen
    <3> QED
      BY <3>1, <3>2 DEF Small
  <2>3. h \in [Small(S, n + 1) -> Nat]
    BY <2>2 DEF SumStep
  <2>4. \A s \in Small(S, n) : h[s] = g[s]
    BY <1>1, <2>1 DEF Small
  <2>5. \A s \in Small(S, n + 1) : h[s] = SumStep(h, w, s)
    <3>1. \A s \in Small(S, n + 1) : SumStep(h, w, s) = SumStep(g, w, s)
      <4> HIDE DEF h
      <4> QED
        BY <2>2, <2>4 DEF SumStep
    <3> QED
      BY <3>1
  <2> HIDE DEF h
  <2> QED
    BY <2>3, <2>5
<1> HIDE DEF Good
<1>4. \A n \in Nat : n \in Good
  BY <1>2, <1>3, Induction
<1>5. Cardinality(S) \in Nat /\ Small(S, Cardinality(S)) = SUBSET S
  BY <1>1, FS_Subset, FS_CardinalityType DEF Small
<1>6. Cardinality(S) \in Good
  BY <1>4, <1>5
<1> QED
  BY <1>5, <1>6 DEF Good, HasSums

\* There is one such function, and it does not depend on the set around.
LEMMA SumsAgree ==
  ASSUME NEW S, IsFiniteSet(S), NEW T \in SUBSET S, NEW w, NEW g, NEW h,
         HasSums(g, w, S), HasSums(h, w, T)
  PROVE  \A s \in SUBSET T : g[s] = h[s]
<1> DEFINE P == {s \in SUBSET T : g[s] = h[s]}
<1>1. IsFiniteSet(T)
  BY FS_Subset
<1>2. ASSUME NEW s \in SUBSET T, \A x \in s : s \ {x} \in P PROVE s \in P
  <2>1. g[s] = SumStep(g, w, s) /\ h[s] = SumStep(h, w, s)
    BY DEF HasSums
  <2>2. s # {} => Choice(s) \in s
    BY DEF Choice
  <2> QED
    BY <1>2, <2>1, <2>2 DEF SumStep
<1> HIDE DEF P
<1>3. \A s \in SUBSET T : s \in P
  BY <1>1, <1>2, SubsetInduction
<1> QED
  BY <1>3 DEF P

\* The fold computes it.
LEMMA SumIs ==
  ASSUME NEW S, IsFiniteSet(S), NEW w, NEW g, HasSums(g, w, S)
  PROVE  SumFunctionOnSet(w, S) = g[S]
<1> DEFINE Def(f) == [s \in SUBSET S |->
                       IF s = {} THEN 0
                       ELSE w[CHOOSE x \in s : TRUE] + f[s \ {CHOOSE x \in s : TRUE}]]
           it == CHOOSE f : f = Def(f)
<1>1. SumFunctionOnSet(w, S) = it[S]
  BY DEF SumFunctionOnSet, FoldFunctionOnSet, MapThenFoldSet
<1>2. g = Def(g)
  BY DEF HasSums, SumStep, Choice
<1>3. it = Def(it)
  <2> HIDE DEF Def
  <2> QED
    BY <1>2
<1> HIDE DEF it
<1> DEFINE P == {s \in SUBSET S : it[s] = g[s]}
<1>4. ASSUME NEW s \in SUBSET S, \A x \in s : s \ {x} \in P PROVE s \in P
  <2>1. g[s] = SumStep(g, w, s)
    BY DEF HasSums
  <2>2. it[s] = SumStep(it, w, s)
    BY <1>3 DEF SumStep, Choice
  <2>3. s # {} => Choice(s) \in s
    BY DEF Choice
  <2> QED
    BY <1>4, <2>1, <2>2, <2>3 DEF SumStep
<1> HIDE DEF P
<1>5. \A s \in SUBSET S : s \in P
  BY <1>4, SubsetInduction
<1> QED
  BY <1>1, <1>5 DEF P

\* A sum, member by member, in any order.
LEMMA SumOfMembers ==
  ASSUME NEW S, IsFiniteSet(S), NEW w, \A x \in S : w[x] \in Nat
  PROVE  /\ SumFunctionOnSet(w, S) \in Nat
         /\ S = {} => SumFunctionOnSet(w, S) = 0
         /\ \A x \in S : SumFunctionOnSet(w, S) = w[x] + SumFunctionOnSet(w, S \ {x})
<1>1. PICK g : HasSums(g, w, S)
  BY SumsExist
<1>2. SumFunctionOnSet(w, S) = g[S]
  BY <1>1, SumIs
<1>3. /\ \A s \in SUBSET S : g[s] \in Nat /\ g[s] = SumStep(g, w, s)
      /\ \A s \in SUBSET S : s # {} => Choice(s) \in s
  BY <1>1 DEF HasSums, Choice
<1> DEFINE P == {s \in SUBSET S : \A x \in s : g[s] = w[x] + g[s \ {x}]}
<1>4. ASSUME NEW s \in SUBSET S, \A x \in s : s \ {x} \in P PROVE s \in P
  <2> SUFFICES ASSUME NEW x \in s PROVE g[s] = w[x] + g[s \ {x}]
    OBVIOUS
  <2>1. PICK c \in s : c = Choice(s)
    BY <1>3
  <2>2. g[s] = w[c] + g[s \ {c}]
    BY <1>3, <2>1 DEF SumStep
  <2>3. CASE x = c
    BY <2>2, <2>3
  <2>4. CASE x # c
    <3>1. x \in s \ {c} /\ c \in s \ {x} /\ (s \ {c}) \ {x} = (s \ {x}) \ {c}
      BY <2>4
    <3>2. g[s \ {c}] = w[x] + g[(s \ {c}) \ {x}]
      BY <1>4, <3>1
    <3>3. g[s \ {x}] = w[c] + g[(s \ {x}) \ {c}]
      BY <1>4, <3>1
    <3>4. PICK z \in Nat : z = g[(s \ {c}) \ {x}]
      BY <1>3
    <3>5. w[x] \in Nat /\ w[c] \in Nat
      OBVIOUS
    <3>6. g[s \ {c}] = w[x] + z /\ g[s \ {x}] = w[c] + z
      BY <3>1, <3>2, <3>3, <3>4
    <3> QED
      BY <2>2, <3>4, <3>5, <3>6
  <2> QED
    BY <2>3, <2>4
<1> HIDE DEF P
<1>5. \A T \in SUBSET S : T \in P
  BY <1>4, SubsetInduction
<1>6. ASSUME NEW x \in S PROVE SumFunctionOnSet(w, S \ {x}) = g[S \ {x}]
  <2>1. IsFiniteSet(S \ {x}) /\ S \ {x} \in SUBSET S
    BY FS_Subset
  <2>2. PICK h : HasSums(h, w, S \ {x})
    BY <2>1, SumsExist
  <2>3. SumFunctionOnSet(w, S \ {x}) = h[S \ {x}]
    BY <2>1, <2>2, SumIs
  <2> QED
    BY <1>1, <2>1, <2>2, <2>3, SumsAgree
<1>7. g[S] \in Nat /\ (S = {} => g[S] = 0)
  BY <1>3 DEF SumStep
<1>8. \A x \in S : g[S] = w[x] + g[S \ {x}]
  <2>1. S \in P
    BY <1>5
  <2> QED
    BY <2>1 DEF P
<1> QED
  BY <1>2, <1>6, <1>7, <1>8

\* A sum depends on the members of the set alone.
LEMMA SumsEqual ==
  ASSUME NEW S, IsFiniteSet(S), NEW v, NEW w,
         \A x \in S : v[x] \in Nat /\ w[x] = v[x]
  PROVE  SumFunctionOnSet(w, S) = SumFunctionOnSet(v, S)
<1> DEFINE P == {T \in SUBSET S : SumFunctionOnSet(w, T) = SumFunctionOnSet(v, T)}
<1>1. ASSUME NEW T \in SUBSET S, \A x \in T : T \ {x} \in P PROVE T \in P
  <2>1. IsFiniteSet(T) /\ (\A x \in T : v[x] \in Nat) /\ \A x \in T : w[x] \in Nat
    BY FS_Subset
  <2>2. CASE T = {}
    BY <2>1, <2>2, SumOfMembers
  <2>3. CASE T # {}
    <3>1. PICK x \in T : TRUE
      BY <2>3
    <3>2. /\ SumFunctionOnSet(w, T) = w[x] + SumFunctionOnSet(w, T \ {x})
          /\ SumFunctionOnSet(v, T) = v[x] + SumFunctionOnSet(v, T \ {x})
      BY <2>1, SumOfMembers
    <3> QED
      BY <1>1, <3>2
  <2> QED
    BY <2>2, <2>3
<1> HIDE DEF P
<1>2. \A T \in SUBSET S : T \in P
  BY <1>1, SubsetInduction
<1> QED
  BY <1>2 DEF P

\* A sum is bounded, member by member.
LEMMA SumsBounded ==
  ASSUME NEW S, IsFiniteSet(S), NEW v, NEW w,
         \A x \in S : v[x] \in Nat /\ w[x] \in Nat /\ w[x] <= v[x]
  PROVE  SumFunctionOnSet(w, S) <= SumFunctionOnSet(v, S)
<1> DEFINE P == {T \in SUBSET S : SumFunctionOnSet(w, T) <= SumFunctionOnSet(v, T)}
<1>1. ASSUME NEW T \in SUBSET S, \A x \in T : T \ {x} \in P PROVE T \in P
  <2>1. IsFiniteSet(T) /\ (\A x \in T : v[x] \in Nat) /\ \A x \in T : w[x] \in Nat
    BY FS_Subset
  <2>2. CASE T = {}
    BY <2>1, <2>2, SumOfMembers
  <2>3. CASE T # {}
    <3>1. PICK x \in T : TRUE
      BY <2>3
    <3>2. /\ SumFunctionOnSet(w, T) = w[x] + SumFunctionOnSet(w, T \ {x})
          /\ SumFunctionOnSet(v, T) = v[x] + SumFunctionOnSet(v, T \ {x})
      BY <2>1, SumOfMembers
    <3>3. /\ SumFunctionOnSet(w, T \ {x}) \in Nat /\ SumFunctionOnSet(v, T \ {x}) \in Nat
      <4>1. IsFiniteSet(T \ {x})
        BY <2>1, FS_Subset
      <4> QED
        BY <2>1, <4>1, SumOfMembers
    <3>4. SumFunctionOnSet(w, T \ {x}) <= SumFunctionOnSet(v, T \ {x})
      BY <1>1
    <3> QED
      BY <3>2, <3>3, <3>4
  <2> QED
    BY <2>2, <2>3
<1> HIDE DEF P
<1>2. \A T \in SUBSET S : T \in P
  BY <1>1, SubsetInduction
<1> QED
  BY <1>2 DEF P

\* One member changes: the sum changes by as much.
LEMMA SumChanges ==
  ASSUME NEW S, IsFiniteSet(S), NEW v, NEW w, NEW x \in S, v[x] \in Nat, w[x] \in Nat,
         \A y \in S \ {x} : v[y] \in Nat /\ w[y] = v[y]
  PROVE  SumFunctionOnSet(w, S) + v[x] = SumFunctionOnSet(v, S) + w[x]
<1>1. IsFiniteSet(S \ {x})
  BY FS_Subset
<1>2. SumFunctionOnSet(w, S \ {x}) = SumFunctionOnSet(v, S \ {x})
  BY <1>1, SumsEqual
<1>3. PICK z \in Nat : z = SumFunctionOnSet(v, S \ {x})
  BY <1>1, SumOfMembers
<1>4. SumFunctionOnSet(w, S) = w[x] + z /\ SumFunctionOnSet(v, S) = v[x] + z
  <2>1. (\A y \in S : v[y] \in Nat) /\ \A y \in S : w[y] \in Nat
    OBVIOUS
  <2> QED
    BY <1>2, <1>3, <2>1, SumOfMembers
<1> QED
  BY <1>3, <1>4

\* The sum of equal members is a product.
LEMMA SumOfEquals ==
  ASSUME NEW S, IsFiniteSet(S), NEW n \in Nat, NEW w, \A x \in S : w[x] = n
  PROVE  SumFunctionOnSet(w, S) = n * Cardinality(S)
<1> DEFINE P == {T \in SUBSET S : SumFunctionOnSet(w, T) = n * Cardinality(T)}
<1>1. ASSUME NEW T \in SUBSET S, \A x \in T : T \ {x} \in P PROVE T \in P
  <2>1. IsFiniteSet(T) /\ (\A x \in T : w[x] \in Nat) /\ Cardinality(T) \in Nat
    BY FS_Subset, FS_CardinalityType
  <2>2. CASE T = {}
    <3>1. n * Cardinality(T) = 0
      BY <2>2, FS_EmptySet
    <3> QED
      BY <2>1, <2>2, <3>1, SumOfMembers
  <2>3. CASE T # {}
    <3>1. PICK x \in T : TRUE
      BY <2>3
    <3>2. SumFunctionOnSet(w, T) = n + SumFunctionOnSet(w, T \ {x})
      BY <2>1, SumOfMembers
    <3>3. PICK m \in Nat : m = Cardinality(T \ {x}) /\ Cardinality(T) = m + 1
      <4>1. IsFiniteSet(T \ {x}) /\ Cardinality(T \ {x}) = Cardinality(T) - 1
        BY <2>1, FS_RemoveElement
      <4>2. Cardinality(T \ {x}) \in Nat
        BY <4>1, FS_CardinalityType
      <4> QED
        BY <2>1, <4>1, <4>2
    <3>4. SumFunctionOnSet(w, T \ {x}) = n * m
      BY <1>1, <3>3
    <3>5. n * (m + 1) = n + n * m
      OBVIOUS
    <3> QED
      BY <3>2, <3>3, <3>4, <3>5
  <2> QED
    BY <2>2, <2>3
<1> HIDE DEF P
<1>2. \A T \in SUBSET S : T \in P
  BY <1>1, SubsetInduction
<1> QED
  BY <1>2 DEF P

\* The sum of the sums.
LEMMA SumsAdd ==
  ASSUME NEW S, IsFiniteSet(S), NEW u, NEW v, NEW w,
         \A x \in S : u[x] \in Nat /\ v[x] \in Nat /\ w[x] = u[x] + v[x]
  PROVE  SumFunctionOnSet(w, S) = SumFunctionOnSet(u, S) + SumFunctionOnSet(v, S)
<1> DEFINE P == {T \in SUBSET S : SumFunctionOnSet(w, T) =
                                   SumFunctionOnSet(u, T) + SumFunctionOnSet(v, T)}
<1>1. ASSUME NEW T \in SUBSET S, \A x \in T : T \ {x} \in P PROVE T \in P
  <2>1. /\ IsFiniteSet(T) /\ (\A x \in T : u[x] \in Nat)
        /\ (\A x \in T : v[x] \in Nat) /\ \A x \in T : w[x] \in Nat
    BY FS_Subset
  <2>2. CASE T = {}
    BY <2>1, <2>2, SumOfMembers
  <2>3. CASE T # {}
    <3>1. PICK x \in T : TRUE
      BY <2>3
    <3>2. /\ SumFunctionOnSet(w, T) = w[x] + SumFunctionOnSet(w, T \ {x})
          /\ SumFunctionOnSet(u, T) = u[x] + SumFunctionOnSet(u, T \ {x})
          /\ SumFunctionOnSet(v, T) = v[x] + SumFunctionOnSet(v, T \ {x})
      BY <2>1, SumOfMembers
    <3>3. /\ SumFunctionOnSet(u, T \ {x}) \in Nat /\ SumFunctionOnSet(v, T \ {x}) \in Nat
      <4>1. IsFiniteSet(T \ {x})
        BY <2>1, FS_Subset
      <4> QED
        BY <2>1, <4>1, SumOfMembers
    <3>4. PICK a \in Nat, b \in Nat, c \in Nat, d \in Nat :
            /\ a = u[x] /\ b = v[x]
            /\ c = SumFunctionOnSet(u, T \ {x}) /\ d = SumFunctionOnSet(v, T \ {x})
      BY <2>1, <3>3
    <3>5. w[x] = a + b /\ SumFunctionOnSet(w, T \ {x}) = c + d
      BY <1>1, <3>4
    <3>6. SumFunctionOnSet(w, T) = (a + b) + (c + d)
      BY <3>2, <3>5
    <3>7. SumFunctionOnSet(u, T) = a + c /\ SumFunctionOnSet(v, T) = b + d
      BY <3>2, <3>4
    <3>8. (a + b) + (c + d) = (a + c) + (b + d)
      OBVIOUS
    <3> QED
      BY <3>6, <3>7, <3>8
  <2> QED
    BY <2>2, <2>3
<1> HIDE DEF P
<1>2. \A T \in SUBSET S : T \in P
  BY <1>1, SubsetInduction
<1> QED
  BY <1>2 DEF P

\* A sum over a set, when only a part of it has more than 0 and none more than n.
LEMMA SumOfPart ==
  ASSUME NEW S, IsFiniteSet(S), NEW R \in SUBSET S, NEW n \in Nat, NEW w,
         \A x \in R : w[x] \in Nat /\ w[x] <= n, \A x \in S \ R : w[x] = 0
  PROVE  SumFunctionOnSet(w, S) <= n * Cardinality(R)
<1> DEFINE f == [x \in S |-> IF x \in R THEN n ELSE 0]
           P == {T \in SUBSET S : SumFunctionOnSet(f, T) = n * Cardinality(T \cap R)}
<1>1. ASSUME NEW T \in SUBSET S, \A x \in T : T \ {x} \in P PROVE T \in P
  <2>1. IsFiniteSet(T) /\ (\A x \in T : f[x] \in Nat)
    BY FS_Subset
  <2>2. CASE T = {}
    <3>1. T \cap R = {} /\ n * Cardinality(T \cap R) = 0
      BY <2>2, FS_EmptySet
    <3> QED
      BY <2>1, <2>2, <3>1, SumOfMembers
  <2>3. CASE T # {}
    <3>1. PICK x \in T : TRUE
      BY <2>3
    <3>2. SumFunctionOnSet(f, T) = f[x] + SumFunctionOnSet(f, T \ {x})
      BY <2>1, SumOfMembers
    <3>3. IsFiniteSet(T \cap R) /\ IsFiniteSet((T \ {x}) \cap R)
      BY <2>1, FS_Subset
    <3>4. PICK m \in Nat : m = Cardinality((T \ {x}) \cap R)
      BY <3>3, FS_CardinalityType
    <3>5. SumFunctionOnSet(f, T \ {x}) = n * m
      BY <1>1, <3>4
    <3>6. CASE x \in R
      <4>1. T \cap R = ((T \ {x}) \cap R) \cup {x} /\ x \notin (T \ {x}) \cap R
        BY <3>6
      <4>2. Cardinality(T \cap R) = m + 1
        BY <3>3, <3>4, <4>1, FS_AddElement
      <4>3. n * (m + 1) = n + n * m
        OBVIOUS
      <4>4. f[x] = n
        BY <3>6
      <4> QED
        BY <3>2, <3>5, <4>2, <4>3, <4>4
    <3>7. CASE x \notin R
      <4>1. T \cap R = (T \ {x}) \cap R
        BY <3>7
      <4>2. f[x] = 0
        BY <3>7
      <4>3. PICK k \in Nat : k = n * m
        OBVIOUS
      <4>4. SumFunctionOnSet(f, T) = k
        BY <3>2, <3>5, <4>2, <4>3
      <4>5. n * Cardinality(T \cap R) = k
        BY <3>4, <4>1, <4>3
      <4> QED
        BY <4>4, <4>5
    <3> QED
      BY <3>6, <3>7
  <2> QED
    BY <2>2, <2>3
<1> HIDE DEF P
<1>2. \A T \in SUBSET S : T \in P
  BY <1>1, SubsetInduction
<1>3. SumFunctionOnSet(f, S) = n * Cardinality(R)
  <2>1. S \in P /\ S \cap R = R
    BY <1>2
  <2> QED
    BY <2>1 DEF P
<1>4. \A x \in S : f[x] \in Nat /\ w[x] \in Nat /\ w[x] <= f[x]
  OBVIOUS
<1> HIDE DEF f
<1>5. SumFunctionOnSet(w, S) <= SumFunctionOnSet(f, S)
  BY <1>4, SumsBounded
<1> QED
  BY <1>3, <1>5
=============================================================================
