----------------------------- MODULE ListLemmas ------------------------------
(***************************************************************************)
(* Facts about lists that the proofs of several components cite: what      *)
(* Append, a change in one place and filter make of a list, least and      *)
(* greatest members of sets of positions, and sums over finite sets.       *)
(***************************************************************************)
EXTENDS Lists, Integers, FiniteSetsExt, FiniteSetTheorems, SequenceTheorems,
        WellFoundedInduction, TLAPS

\* What a list is after Append.
LEMMA AppendedAt ==
  ASSUME NEW S, NEW s \in Seq(S), NEW e \in S
  PROVE  LET t == Append(s, e)
         IN  /\ t \in Seq(S) /\ Len(t) = Len(s) + 1 /\ Len(s) \in Nat
             /\ DOMAIN t = DOMAIN s \cup {Len(s) + 1} /\ Len(s) + 1 \notin DOMAIN s
             /\ t[Len(s) + 1] = e /\ \A i \in DOMAIN s : t[i] = s[i]
<1> DEFINE t == Append(s, e)
<1>1. /\ t \in Seq(S) /\ Len(t) = Len(s) + 1
      /\ t[Len(s) + 1] = e /\ \A i \in 1..Len(s) : t[i] = s[i]
  BY AppendProperties
<1>2. DOMAIN s = 1..Len(s) /\ Len(s) \in Nat /\ DOMAIN t = 1..(Len(s) + 1)
  BY <1>1, LenProperties
<1>3. 1..(Len(s) + 1) = 1..Len(s) \cup {Len(s) + 1}
  BY <1>2
<1>4. Len(s) + 1 \notin 1..Len(s)
  BY <1>2
<1> HIDE DEF t
<1> QED
  BY <1>1, <1>2, <1>3, <1>4 DEF t

\* What a list is after a change in one place.
LEMMA ChangedAt ==
  ASSUME NEW S, NEW s \in Seq(S), NEW i \in DOMAIN s, NEW e \in S
  PROVE  LET t == [s EXCEPT ![i] = e]
         IN  /\ t \in Seq(S) /\ Len(t) = Len(s) /\ DOMAIN t = DOMAIN s
             /\ t[i] = e /\ \A j \in DOMAIN s : j # i => t[j] = s[j]
<1> DEFINE t == [s EXCEPT ![i] = e]
<1>1. DOMAIN s = 1..Len(s)
  BY LenProperties
<1>2. /\ t \in Seq(S) /\ Len(t) = Len(s)
      /\ \A j \in 1..Len(s) : t[j] = IF j = i THEN e ELSE s[j]
  BY <1>1, ExceptSeq
<1>3. DOMAIN t = DOMAIN s
  OBVIOUS
<1> HIDE DEF t
<1> QED
  BY <1>1, <1>2, <1>3 DEF t

\* A set of numbers has a least one: the form in which the proofs use
\* induction.
LEMMA LeastNat ==
  ASSUME NEW T, T \subseteq Nat, T # {}
  PROVE  \E x \in T : \A y \in T : x <= y
<1> DEFINE R == OpToRel(<, Nat)
<1>1. IsWellFoundedOn(R, Nat)
  BY NatLessThanWellFounded
<1>2. PICK x \in T : \A y \in T : ~(<<y, x>> \in R)
  <2> HIDE DEF R
  <2> QED
    BY <1>1, WFMin
<1>3. \A y \in T : ~(y < x)
  BY <1>2 DEF OpToRel
<1> QED
  BY <1>3

\* Max of a nonempty set of positions is the greatest of them.
LEMMA MaxIsGreatest ==
  ASSUME NEW n \in Nat, NEW S, S \subseteq 0..n, S # {}
  PROVE  Max(S) \in S /\ \A y \in S : Max(S) >= y
<1> DEFINE T == {n - x : x \in S}
<1>1. T \subseteq Nat /\ T # {}
  <2>1. \A x \in S : n - x \in Nat
    OBVIOUS
  <2> QED
    BY <2>1
<1>2. PICK m \in T : \A k \in T : m <= k
  <2> HIDE DEF T
  <2> QED
    BY <1>1, LeastNat
<1>3. PICK x \in S : m = n - x
  BY <1>2
<1>4. \A y \in S : x >= y
  <2> SUFFICES ASSUME NEW y \in S PROVE x >= y
    OBVIOUS
  <2>1. m <= n - y
    BY <1>2
  <2>2. x \in 0..n /\ y \in 0..n
    BY <1>3
  <2> QED
    BY <1>3, <2>1, <2>2
<1> QED
  BY <1>3, <1>4 DEF Max

-----------------------------------------------------------------------------
(* filter                                                                  *)

\* What filter has kept of a list at each position.
Keeps(kept, list, positions) ==
  kept = [n \in 0..Len(list) |->
            IF n = 0 THEN <<>>
            ELSE IF n \in positions THEN Append(kept[n - 1], list[n]) ELSE kept[n - 1]]

\* The recursion of filter defines a function.
LEMMA KeepsExists ==
  ASSUME NEW list, Len(list) \in Nat, NEW P
  PROVE  \E kept : Keeps(kept, list, P) /\ filter(list, P) = kept[Len(list)]
<1> DEFINE Upto(m, v) == v = [n \in 0..m |->
                                IF n = 0 THEN <<>>
                                ELSE IF n \in P THEN Append(v[n - 1], list[n]) ELSE v[n - 1]]
           T == {m \in Nat : ~\E v : Upto(m, v)}
<1>1. T = {}
  <2> SUFFICES ASSUME T # {} PROVE FALSE
    OBVIOUS
  <2>1. PICK m \in T : \A k \in T : m <= k
    <3> HIDE DEF T
    <3>1. T \subseteq Nat
      BY DEF T
    <3> QED
      BY <3>1, LeastNat
  <2>2. m \in Nat /\ ~\E v : Upto(m, v)
    OBVIOUS
  <2>3. CASE m = 0
    <3> DEFINE v == [n \in 0..0 |-> <<>>]
    <3>1. \A n \in 0..0 : n = 0
      OBVIOUS
    <3>2. Upto(0, v)
      BY <3>1
    <3> QED
      BY <2>2, <2>3, <3>2
  <2>4. CASE m # 0
    <3>1. m - 1 \in Nat /\ m - 1 \notin T
      <4> HIDE DEF T
      <4> QED
        BY <2>1, <2>2, <2>4
    <3>2. PICK v : Upto(m - 1, v)
      BY <3>1 DEF T
    <3> DEFINE w == [n \in 0..m |->
                       IF n = m THEN IF m \in P THEN Append(v[m - 1], list[m]) ELSE v[m - 1]
                       ELSE v[n]]
    <3>3. ASSUME NEW n \in 0..m
          PROVE  w[n] = IF n = 0 THEN <<>>
                        ELSE IF n \in P THEN Append(w[n - 1], list[n]) ELSE w[n - 1]
      <4>1. CASE n = m
        <5>1. w[m - 1] = v[m - 1]
          BY <2>2, <3>1
        <5> QED
          BY <2>4, <4>1, <5>1
      <4>2. CASE n # m
        <5>1. n \in 0..(m - 1)
          BY <2>2, <4>2
        <5>2. v[n] = IF n = 0 THEN <<>>
                     ELSE IF n \in P THEN Append(v[n - 1], list[n]) ELSE v[n - 1]
          BY <3>2, <5>1
        <5>3. n # 0 => w[n - 1] = v[n - 1]
          BY <2>2, <5>1
        <5> QED
          BY <4>2, <5>2, <5>3
      <4> QED
        BY <4>1, <4>2
    <3>4. w = [n \in 0..m |-> w[n]]
      OBVIOUS
    <3> HIDE DEF w
    <3>5. Upto(m, w)
      BY <3>3, <3>4
    <3> QED
      BY <2>2, <3>5
  <2> QED
    BY <2>3, <2>4
<1>2. \E v : Keeps(v, list, P)
  BY <1>1 DEF Keeps
<1> DEFINE kept == CHOOSE v : Keeps(v, list, P)
<1>3. Keeps(kept, list, P)
  BY <1>2
<1>4. filter(list, P) = kept[Len(list)]
  BY DEF filter, Keeps
<1> QED
  BY <1>3, <1>4

\* A list r holds the members of list at the positions of P up to n, in their
\* order: place[k] is where the k-th of them comes from.
KeptTo(r, list, P, n) ==
  \E place \in [1..Len(r) -> {p \in P : p \in 1..n}] :
    /\ \A k \in 1..Len(r) : r[k] = list[place[k]]
    /\ \A j, k \in 1..Len(r) : j < k => place[j] < place[k]
    /\ \A p \in P : p \in 1..n => \E k \in 1..Len(r) : place[k] = p

\* filter keeps exactly what is at the given positions, in order.
LEMMA FilterKeeps ==
  ASSUME NEW S, NEW list \in Seq(S), NEW P
  PROVE  filter(list, P) \in Seq(S) /\ KeptTo(filter(list, P), list, P, Len(list))
<1>1. Len(list) \in Nat /\ DOMAIN list = 1..Len(list)
  BY LenProperties
<1>2. PICK v : Keeps(v, list, P) /\ filter(list, P) = v[Len(list)]
  BY <1>1, KeepsExists
<1> DEFINE T == {n \in 0..Len(list) : ~(v[n] \in Seq(S) /\ KeptTo(v[n], list, P, n))}
<1>3. T = {}
  <2> SUFFICES ASSUME T # {} PROVE FALSE
    OBVIOUS
  <2>1. PICK n \in T : \A k \in T : n <= k
    <3> HIDE DEF T
    <3>1. T \subseteq Nat
      BY <1>1 DEF T
    <3> QED
      BY <3>1, LeastNat
  <2>2. n \in 0..Len(list) /\ n \in Nat /\ ~(v[n] \in Seq(S) /\ KeptTo(v[n], list, P, n))
    BY <1>1
  <2>3. CASE n = 0
    <3>1. v[n] = <<>>
      BY <1>2, <2>2, <2>3 DEF Keeps
    <3>2. KeptTo(<<>>, list, P, 0)
      <4> DEFINE place == [k \in 1..0 |-> 0]
      <4>1. Len(<<>>) = 0 /\ 1..0 = {}
        OBVIOUS
      <4>2. place \in [1..0 -> {p \in P : p \in 1..0}]
        BY <4>1
      <4> QED
        BY <4>1, <4>2 DEF KeptTo
    <3> QED
      BY <2>2, <2>3, <3>1, <3>2
  <2>4. CASE n # 0
    <3> DEFINE m == n - 1
               u == v[m]
    <3>1. m \in Nat /\ m \in 0..Len(list) /\ m \notin T /\ n \in 1..Len(list) /\ n = m + 1
      <4> HIDE DEF T
      <4> QED
        BY <2>1, <2>2, <2>4, <1>1
    <3>2. u \in Seq(S) /\ KeptTo(u, list, P, m)
      BY <3>1
    <3>3. v[n] = IF n \in P THEN Append(u, list[n]) ELSE u
      BY <1>2, <2>2, <2>4 DEF Keeps
    <3>4. list[n] \in S
      BY <1>1, <3>1, ElementOfSeq
    <3>5. 1..n = 1..m \cup {n} /\ n \notin 1..m
      BY <3>1
    <3> HIDE DEF T, u, m
    <3>6. PICK place \in [1..Len(u) -> {p \in P : p \in 1..m}] :
            /\ \A k \in 1..Len(u) : u[k] = list[place[k]]
            /\ \A j, k \in 1..Len(u) : j < k => place[j] < place[k]
            /\ \A p \in P : p \in 1..m => \E k \in 1..Len(u) : place[k] = p
      BY <3>2 DEF KeptTo
    <3>7. CASE n \notin P
      <4>1. v[n] = u
        BY <3>3, <3>7
      <4>2. {p \in P : p \in 1..n} = {p \in P : p \in 1..m}
        BY <3>5, <3>7
      <4>3. KeptTo(u, list, P, n)
        BY <3>5, <3>6, <3>7, <4>2 DEF KeptTo
      <4> QED
        BY <2>2, <3>2, <4>1, <4>3
    <3>8. CASE n \in P
      <4> DEFINE t == Append(u, list[n])
                 l == Len(u)
                 to == [k \in 1..(l + 1) |-> IF k = l + 1 THEN n ELSE place[k]]
      <4>1. v[n] = t
        BY <3>3, <3>8
      <4>2. /\ t \in Seq(S) /\ Len(t) = l + 1 /\ l \in Nat /\ t[l + 1] = list[n]
            /\ \A k \in DOMAIN u : t[k] = u[k]
        BY <3>2, <3>4, AppendedAt
      <4>3. DOMAIN u = 1..l /\ 1..(l + 1) = 1..l \cup {l + 1} /\ l + 1 \notin 1..l
        BY <3>2, <4>2, LenProperties
      <4>4. /\ to \in [1..(l + 1) -> {p \in P : p \in 1..n}]
            /\ to[l + 1] = n /\ \A k \in 1..l : to[k] = place[k] /\ place[k] \in 1..m
        BY <3>5, <3>6, <3>8, <4>2, <4>3
      <4> HIDE DEF t, to
      <4>5. \A k \in 1..(l + 1) : t[k] = list[to[k]]
        BY <3>6, <4>2, <4>3, <4>4
      <4>6. ASSUME NEW j \in 1..(l + 1), NEW k \in 1..(l + 1), j < k
            PROVE  to[j] < to[k]
        <5>1. j \in 1..l
          BY <4>2, <4>6
        <5>2. CASE k = l + 1
          BY <3>1, <4>4, <5>1, <5>2
        <5>3. CASE k \in 1..l
          BY <3>6, <4>4, <4>6, <5>1, <5>3
        <5> QED
          BY <4>3, <5>2, <5>3
      <4>7. ASSUME NEW p \in P, p \in 1..n PROVE \E k \in 1..(l + 1) : to[k] = p
        <5>1. CASE p = n
          BY <4>3, <4>4, <5>1
        <5>2. CASE p \in 1..m
          <6>1. PICK k \in 1..l : place[k] = p
            BY <3>6, <5>2
          <6> QED
            BY <4>3, <4>4, <6>1
        <5> QED
          BY <3>5, <4>7, <5>1, <5>2
      <4>8. KeptTo(t, list, P, n)
        <5>1. 1..Len(t) = 1..(l + 1)
          BY <4>2
        <5> DEFINE D == 1..(l + 1)
        <5>2. \A j, k \in D : j < k => to[j] < to[k]
          BY <4>6
        <5>3. \A p \in P : p \in 1..n => \E k \in D : to[k] = p
          BY <4>7
        <5>4. to \in [D -> {p \in P : p \in 1..n}] /\ \A k \in D : t[k] = list[to[k]]
          BY <4>4, <4>5
        <5>5. 1..Len(t) = D
          BY <5>1
        <5> HIDE DEF D
        <5> QED
          BY <5>2, <5>3, <5>4, <5>5, Zenon DEF KeptTo
      <4> QED
        BY <2>2, <4>1, <4>2, <4>8
    <3> QED
      BY <3>7, <3>8
  <2> QED
    BY <2>3, <2>4
<1>4. v[Len(list)] \in Seq(S) /\ KeptTo(v[Len(list)], list, P, Len(list))
  BY <1>1, <1>3
<1> QED
  BY <1>2, <1>4
-----------------------------------------------------------------------------
(* Sums over finite sets                                                   *)

\* Of any finite sets, one is smallest: the form of induction for them.
LEMMA SmallestFinite ==
  ASSUME NEW C, C # {}, \A S \in C : IsFiniteSet(S)
  PROVE  \E S \in C : \A T \in C : Cardinality(S) <= Cardinality(T)
<1> DEFINE N == {Cardinality(S) : S \in C}
<1>1. N \subseteq Nat /\ N # {}
  BY FS_CardinalityType
<1>2. PICK n \in N : \A k \in N : n <= k
  <2> HIDE DEF N
  <2> QED
    BY <1>1, LeastNat
<1> QED
  BY <1>2

\* The partial sums behind SumFunctionOnSet.
Sums(g, f, S) ==
  g = [s \in SUBSET S |-> IF s = {} THEN 0
                          ELSE LET x == CHOOSE x \in s : TRUE IN f[x] + g[s \ {x}]]

\* Removing a member of a finite set makes it smaller.
LEMMA SmallerSet ==
  ASSUME NEW S, IsFiniteSet(S), NEW x \in S
  PROVE  /\ IsFiniteSet(S \ {x}) /\ Cardinality(S \ {x}) \in Nat /\ Cardinality(S) \in Nat
         /\ ~(Cardinality(S) <= Cardinality(S \ {x}))
<1>1. IsFiniteSet(S \ {x}) /\ Cardinality(S \ {x}) = Cardinality(S) - 1
  BY FS_RemoveElement
<1>2. Cardinality(S) \in Nat /\ Cardinality(S \ {x}) \in Nat
  BY <1>1, FS_CardinalityType
<1> QED
  BY <1>1, <1>2

\* The recursion of SumFunctionOnSet defines a function.
LEMMA SumsExist ==
  ASSUME NEW f, NEW S, IsFiniteSet(S)
  PROVE  \E g : Sums(g, f, S)
<1> DEFINE Small(n) == {s \in SUBSET S : Cardinality(s) <= n}
           step(g, s) == IF s = {} THEN 0
                         ELSE LET x == CHOOSE x \in s : TRUE IN f[x] + g[s \ {x}]
           Upto(n, g) == g = [s \in Small(n) |-> step(g, s)]
           T == {n \in Nat : ~\E g : Upto(n, g)}
<1>1. \A s \in SUBSET S : /\ IsFiniteSet(s) /\ Cardinality(s) \in Nat
                          /\ Cardinality(s) <= Cardinality(S) /\ Cardinality(S) \in Nat
                          /\ Cardinality(s) = 0 => s = {}
  BY FS_Subset, FS_CardinalityType, FS_EmptySet
<1>2. \A s \in SUBSET S : s # {} =>
        LET x == CHOOSE x \in s : TRUE
        IN  x \in s /\ s \ {x} \in SUBSET S /\ Cardinality(s \ {x}) = Cardinality(s) - 1
  BY <1>1, FS_RemoveElement
<1>3. T = {}
  <2> SUFFICES ASSUME T # {} PROVE FALSE
    OBVIOUS
  <2>1. PICK n \in T : \A k \in T : n <= k
    <3> HIDE DEF T
    <3>1. T \subseteq Nat
      BY DEF T
    <3> QED
      BY <3>1, LeastNat
  <2>2. n \in Nat /\ ~\E g : Upto(n, g)
    OBVIOUS
  <2>3. CASE n = 0
    <3> DEFINE g == [s \in Small(0) |-> 0]
    <3>1. \A s \in Small(0) : s = {}
      BY <1>1
    <3>2. \A s \in Small(0) : step(g, s) = 0
      BY <3>1
    <3> HIDE DEF step
    <3>3. Upto(0, g)
      BY <3>2
    <3> QED
      BY <2>2, <2>3, <3>3
  <2>4. CASE n # 0
    <3>1. n - 1 \in Nat /\ n - 1 \notin T
      <4> HIDE DEF T
      <4> QED
        BY <2>1, <2>2, <2>4
    <3>2. PICK g : Upto(n - 1, g)
      BY <3>1 DEF T
    <3> DEFINE h == [s \in Small(n) |-> step(g, s)]
    <3>3. ASSUME NEW s \in Small(n), s # {}
          PROVE  LET x == CHOOSE x \in s : TRUE
                 IN  s \ {x} \in Small(n - 1) /\ s \ {x} \in Small(n)
      BY <1>1, <1>2, <2>2, <3>1, <3>3
    <3>4. ASSUME NEW s \in Small(n - 1) PROVE h[s] = g[s]
      <4>1. s \in Small(n)
        BY <1>1, <2>2
      <4>2. g[s] = step(g, s)
        BY <3>2
      <4> QED
        BY <4>1, <4>2
    <3>5. ASSUME NEW s \in Small(n) PROVE step(h, s) = step(g, s)
      <4>1. CASE s = {}
        BY <4>1
      <4>2. CASE s # {}
        <5> DEFINE x == CHOOSE x \in s : TRUE
        <5>1. s \ {x} \in Small(n - 1)
          BY <3>3, <4>2
        <5>2. h[s \ {x}] = g[s \ {x}]
          BY <3>4, <5>1
        <5> HIDE DEF h
        <5> QED
          BY <4>2, <5>2
      <4> QED
        BY <4>1, <4>2
    <3>6. Upto(n, h)
      <4> HIDE DEF step, Small
      <4> QED
        BY <3>5
    <3> QED
      BY <2>2, <3>6
  <2> QED
    BY <2>3, <2>4
<1>4. Cardinality(S) \in Nat
  BY <1>1
<1>5. PICK g : Upto(Cardinality(S), g)
  BY <1>3, <1>4
<1>6. Small(Cardinality(S)) = SUBSET S
  BY <1>1
<1> QED
  BY <1>5, <1>6 DEF Sums

\* The partial sums do not depend on the set they are part of.
LEMMA SumsAgree ==
  ASSUME NEW f, NEW S, IsFiniteSet(S), NEW g, Sums(g, f, S),
         NEW U \in SUBSET S, NEW h, Sums(h, f, U)
  PROVE  \A s \in SUBSET U : g[s] = h[s]
<1> DEFINE C == {s \in SUBSET U : g[s] # h[s]}
<1> SUFFICES ASSUME C # {} PROVE FALSE
  OBVIOUS
<1>1. \A s \in C : IsFiniteSet(s)
  BY FS_Subset
<1>2. PICK s \in C : \A t \in C : Cardinality(s) <= Cardinality(t)
  <2> HIDE DEF C
  <2> QED
    BY <1>1, SmallestFinite
<1>3. s # {}
  BY <1>2 DEF Sums
<1> DEFINE x == CHOOSE x \in s : TRUE
<1>4. x \in s
  BY <1>3
<1>5. s \ {x} \notin C
  <2> HIDE DEF C, x
  <2> QED
    BY <1>1, <1>2, <1>4, SmallerSet
<1>6. g[s \ {x}] = h[s \ {x}]
  BY <1>2, <1>5
<1>7. g[s] = f[x] + g[s \ {x}] /\ h[s] = f[x] + h[s \ {x}]
  BY <1>2, <1>3 DEF Sums
<1> QED
  BY <1>2, <1>6, <1>7

\* The sum of a nonempty set: that of some member and of the rest.
LEMMA SumOfSome ==
  ASSUME NEW f, NEW S, IsFiniteSet(S)
  PROVE  /\ SumFunctionOnSet(f, {}) = 0
         /\ S # {} => \E x \in S : SumFunctionOnSet(f, S) = f[x] + SumFunctionOnSet(f, S \ {x})
<1>1. ASSUME NEW U, IsFiniteSet(U)
      PROVE  \E g : Sums(g, f, U) /\ SumFunctionOnSet(f, U) = g[U]
  <2> DEFINE g == CHOOSE g : Sums(g, f, U)
  <2>1. Sums(g, f, U)
    BY <1>1, SumsExist
  <2>2. SumFunctionOnSet(f, U) = g[U]
    BY DEF SumFunctionOnSet, FoldFunctionOnSet, MapThenFoldSet, Sums
  <2> QED
    BY <2>1, <2>2
<1>2. SumFunctionOnSet(f, {}) = 0
  BY <1>1, FS_EmptySet DEF Sums
<1>3. ASSUME S # {}
      PROVE  \E x \in S : SumFunctionOnSet(f, S) = f[x] + SumFunctionOnSet(f, S \ {x})
  <2> DEFINE x == CHOOSE x \in S : TRUE
             U == S \ {x}
  <2>1. x \in S
    BY <1>3
  <2>2. IsFiniteSet(U) /\ U \in SUBSET S
    BY FS_Subset
  <2>3. PICK g : Sums(g, f, S) /\ SumFunctionOnSet(f, S) = g[S]
    BY <1>1
  <2>4. g[S] = f[x] + g[U]
    BY <1>3, <2>3 DEF Sums
  <2> HIDE DEF x, U
  <2>5. PICK h : Sums(h, f, U) /\ SumFunctionOnSet(f, U) = h[U]
    BY <1>1, <2>2
  <2>6. g[U] = h[U]
    BY <2>2, <2>3, <2>5, SumsAgree
  <2> QED
    BY <2>1, <2>3, <2>4, <2>5, <2>6 DEF U
<1> QED
  BY <1>2, <1>3

\* A sum of numbers is one, and any member may be taken out of it.
LEMMA SumTakesOut ==
  ASSUME NEW S, IsFiniteSet(S), NEW f, \A x \in S : f[x] \in Nat
  PROVE  /\ SumFunctionOnSet(f, S) \in Nat
         /\ \A x \in S : SumFunctionOnSet(f, S) = f[x] + SumFunctionOnSet(f, S \ {x})
<1> DEFINE Holds(U) == /\ SumFunctionOnSet(f, U) \in Nat
                       /\ \A x \in U : SumFunctionOnSet(f, U) = f[x] + SumFunctionOnSet(f, U \ {x})
           C == {U \in SUBSET S : ~Holds(U)}
<1> SUFFICES ASSUME C # {} PROVE FALSE
  OBVIOUS
<1>1. \A U \in C : IsFiniteSet(U)
  BY FS_Subset
<1>2. PICK U \in C : \A V \in C : Cardinality(U) <= Cardinality(V)
  <2> HIDE DEF C
  <2> QED
    BY <1>1, SmallestFinite
<1>3. U \in SUBSET S /\ IsFiniteSet(U) /\ ~Holds(U)
  BY <1>1, <1>2
<1>4. ASSUME NEW x \in U PROVE Holds(U \ {x})
  <2>1. U \ {x} \in SUBSET S /\ U \ {x} \notin C
    <3> HIDE DEF Holds
    <3>1. U \ {x} \in SUBSET S
      BY <1>3
    <3>2. U \ {x} \notin C
      <4> HIDE DEF C
      <4> QED
        BY <1>2, <1>3, SmallerSet
    <3> QED
      BY <3>1, <3>2
  <2> HIDE DEF Holds
  <2> QED
    BY <2>1
<1>5. U # {}
  BY <1>3, SumOfSome
<1>6. PICK x \in U : SumFunctionOnSet(f, U) = f[x] + SumFunctionOnSet(f, U \ {x})
  BY <1>3, <1>5, SumOfSome
<1>7. f[x] \in Nat /\ SumFunctionOnSet(f, U \ {x}) \in Nat
  BY <1>3, <1>4
<1>8. ASSUME NEW y \in U, y # x
      PROVE  SumFunctionOnSet(f, U) = f[y] + SumFunctionOnSet(f, U \ {y})
  <2>1. y \in U \ {x} /\ x \in U \ {y} /\ (U \ {x}) \ {y} = (U \ {y}) \ {x}
    BY <1>8
  <2>2. SumFunctionOnSet(f, U \ {x}) = f[y] + SumFunctionOnSet(f, (U \ {x}) \ {y})
    BY <1>4, <2>1
  <2>3. SumFunctionOnSet(f, U \ {y}) = f[x] + SumFunctionOnSet(f, (U \ {y}) \ {x})
    BY <1>4, <2>1
  <2>4. f[y] \in Nat /\ IsFiniteSet((U \ {x}) \ {y})
    BY <1>3, FS_Subset
  <2>5. SumFunctionOnSet(f, (U \ {x}) \ {y}) \in Int
    <3>1. SumFunctionOnSet(f, U \ {y}) \in Nat
      BY <1>4
    <3> DEFINE W == U \ {x, y}
    <3>2. W \in SUBSET S /\ W = (U \ {x}) \ {y}
      BY <1>3
    <3>3. W \notin C
      <4>1. IsFiniteSet(U \ {x}) /\ y \in U \ {x}
        BY <1>3, <2>1, SmallerSet
      <4>2. ~(Cardinality(U) <= Cardinality(U \ {x})) /\ Cardinality(U) \in Nat
            /\ Cardinality(U \ {x}) \in Nat
        BY <1>3, SmallerSet
      <4>3. ~(Cardinality(U \ {x}) <= Cardinality(W)) /\ Cardinality(W) \in Nat
        BY <3>2, <4>1, SmallerSet
      <4> HIDE DEF C, W
      <4> QED
        BY <1>2, <4>2, <4>3
    <3> HIDE DEF W
    <3>4. Holds(W)
      BY <3>2, <3>3
    <3> QED
      BY <3>2, <3>4
  <2> QED
    BY <1>6, <1>7, <2>1, <2>2, <2>3, <2>4, <2>5
<1>9. SumFunctionOnSet(f, U) \in Nat
  BY <1>6, <1>7
<1> QED
  BY <1>3, <1>6, <1>8, <1>9

\* Two functions that agree on a set have the same sum over it.
LEMMA SumCongruent ==
  ASSUME NEW S, IsFiniteSet(S), NEW f, NEW g, \A x \in S : f[x] = g[x] /\ f[x] \in Nat
  PROVE  SumFunctionOnSet(f, S) = SumFunctionOnSet(g, S)
<1> DEFINE C == {U \in SUBSET S : SumFunctionOnSet(f, U) # SumFunctionOnSet(g, U)}
<1> SUFFICES ASSUME C # {} PROVE FALSE
  OBVIOUS
<1>1. \A U \in C : IsFiniteSet(U)
  BY FS_Subset
<1>2. PICK U \in C : \A V \in C : Cardinality(U) <= Cardinality(V)
  <2> HIDE DEF C
  <2> QED
    BY <1>1, SmallestFinite
<1>3. U \in SUBSET S /\ IsFiniteSet(U) /\ SumFunctionOnSet(f, U) # SumFunctionOnSet(g, U)
  BY <1>1, <1>2
<1>4. U # {}
  BY <1>3, SumOfSome
<1>5. PICK x \in U : TRUE
  BY <1>4
<1>6. U \ {x} \notin C /\ U \ {x} \in SUBSET S
  <2>1. U \ {x} \notin C
    <3> HIDE DEF C
    <3> QED
      BY <1>2, <1>3, SmallerSet
  <2> QED
    BY <1>3, <2>1
<1>7. SumFunctionOnSet(f, U \ {x}) = SumFunctionOnSet(g, U \ {x})
  BY <1>6
<1>8. SumFunctionOnSet(f, U) = f[x] + SumFunctionOnSet(f, U \ {x})
  BY <1>3, SumTakesOut
<1>9. SumFunctionOnSet(g, U) = g[x] + SumFunctionOnSet(g, U \ {x})
  BY <1>3, SumTakesOut
<1> QED
  BY <1>3, <1>7, <1>8, <1>9

\* The sums over a part and over the rest make up the whole.
LEMMA SumSplits ==
  ASSUME NEW S, IsFiniteSet(S), NEW f, \A x \in S : f[x] \in Nat, NEW B \in SUBSET S
  PROVE  SumFunctionOnSet(f, S) = SumFunctionOnSet(f, B) + SumFunctionOnSet(f, S \ B)
<1> DEFINE C == {U \in SUBSET B :
                   SumFunctionOnSet(f, (S \ B) \cup U)
                     # SumFunctionOnSet(f, U) + SumFunctionOnSet(f, S \ B)}
<1>1. IsFiniteSet(B) /\ IsFiniteSet(S \ B) /\ \A U \in SUBSET S : IsFiniteSet(U)
  BY FS_Subset
<1>2. SumFunctionOnSet(f, S \ B) \in Nat
  BY <1>1, SumTakesOut
<1>3. C = {}
  <2> SUFFICES ASSUME C # {} PROVE FALSE
    OBVIOUS
  <2>1. \A U \in C : IsFiniteSet(U)
    BY <1>1
  <2>2. PICK U \in C : \A V \in C : Cardinality(U) <= Cardinality(V)
    <3> HIDE DEF C
    <3> QED
      BY <2>1, SmallestFinite
  <2>3. /\ U \in SUBSET B /\ IsFiniteSet(U)
        /\ SumFunctionOnSet(f, (S \ B) \cup U)
             # SumFunctionOnSet(f, U) + SumFunctionOnSet(f, S \ B)
    BY <2>1, <2>2
  <2>4. ASSUME U = {} PROVE FALSE
    <3> DEFINE n == SumFunctionOnSet(f, S \ B)
    <3>1. (S \ B) \cup U = S \ B
      BY <2>4
    <3>2. SumFunctionOnSet(f, U) = 0
      BY <1>1, <2>4, SumOfSome
    <3>3. n \in Nat /\ SumFunctionOnSet(f, (S \ B) \cup U) = n
      BY <1>2, <3>1
    <3>4. SumFunctionOnSet(f, (S \ B) \cup U) # SumFunctionOnSet(f, U) + n
      BY <2>3
    <3> HIDE DEF n
    <3>5. 0 + n = n
      BY <3>3
    <3> QED
      BY <3>2, <3>3, <3>4, <3>5
  <2>5. PICK x \in U : TRUE
    BY <2>4
  <2> DEFINE W == U \ {x}
             V == (S \ B) \cup U
  <2>6. W \notin C /\ W \in SUBSET B
    <3>1. W \notin C
      <4> HIDE DEF C
      <4> QED
        BY <2>2, <2>3, SmallerSet
    <3> QED
      BY <2>3, <3>1
  <2>7. SumFunctionOnSet(f, (S \ B) \cup W) = SumFunctionOnSet(f, W) + SumFunctionOnSet(f, S \ B)
    BY <2>6
  <2>8. x \in V /\ V \in SUBSET S /\ V \ {x} = (S \ B) \cup W /\ f[x] \in Nat
    BY <2>3, <2>5
  <2> HIDE DEF V, W
  <2>9. SumFunctionOnSet(f, V) = f[x] + SumFunctionOnSet(f, V \ {x})
    BY <1>1, <2>8, SumTakesOut
  <2>10. SumFunctionOnSet(f, U) = f[x] + SumFunctionOnSet(f, W)
    BY <2>3, <2>5, SumTakesOut DEF W
  <2>11. SumFunctionOnSet(f, W) \in Nat
    BY <1>1, <2>6, SumTakesOut
  <2> QED
    BY <1>2, <2>3, <2>7, <2>8, <2>9, <2>10, <2>11 DEF V
<1>4. B \notin C /\ (S \ B) \cup B = S
  BY <1>3
<1> QED
  BY <1>4

\* What a change in one place makes of a sum.
LEMMA SumChangedAt ==
  ASSUME NEW S, IsFiniteSet(S), NEW f, NEW g, NEW x \in S, f[x] \in Nat, g[x] \in Nat,
         \A y \in S \ {x} : g[y] = f[y] /\ f[y] \in Nat
  PROVE  /\ SumFunctionOnSet(f, S) \in Nat /\ f[x] <= SumFunctionOnSet(f, S)
         /\ SumFunctionOnSet(g, S) = SumFunctionOnSet(f, S) - f[x] + g[x]
<1> DEFINE R == S \ {x}
<1>1. \A y \in R : f[y] = g[y] /\ f[y] \in Nat
  OBVIOUS
<1>2. \A y \in S : g[y] \in Nat /\ f[y] \in Nat
  OBVIOUS
<1>3. IsFiniteSet(R)
  BY FS_Subset
<1>4. SumFunctionOnSet(g, S) = g[x] + SumFunctionOnSet(g, R)
  BY <1>2, SumTakesOut
<1>5. SumFunctionOnSet(f, S) = f[x] + SumFunctionOnSet(f, R)
  BY <1>2, SumTakesOut
<1> HIDE DEF R
<1>6. SumFunctionOnSet(f, R) = SumFunctionOnSet(g, R)
  BY <1>1, <1>3, SumCongruent
<1>7. SumFunctionOnSet(f, R) \in Nat
  BY <1>1, <1>3, SumTakesOut
<1> QED
  BY <1>4, <1>5, <1>6, <1>7

\* The sum of the sums of two functions.
LEMMA SumAdds ==
  ASSUME NEW S, IsFiniteSet(S), NEW f, NEW g, NEW k,
         \A x \in S : f[x] \in Nat /\ g[x] \in Nat /\ k[x] = f[x] + g[x]
  PROVE  SumFunctionOnSet(k, S) = SumFunctionOnSet(f, S) + SumFunctionOnSet(g, S)
<1> DEFINE C == {U \in SUBSET S :
                   SumFunctionOnSet(k, U) # SumFunctionOnSet(f, U) + SumFunctionOnSet(g, U)}
<1> SUFFICES ASSUME C # {} PROVE FALSE
  OBVIOUS
<1>1. \A U \in C : IsFiniteSet(U)
  BY FS_Subset
<1>2. PICK U \in C : \A V \in C : Cardinality(U) <= Cardinality(V)
  <2> HIDE DEF C
  <2> QED
    BY <1>1, SmallestFinite
<1>3. /\ U \in SUBSET S /\ IsFiniteSet(U)
      /\ SumFunctionOnSet(k, U) # SumFunctionOnSet(f, U) + SumFunctionOnSet(g, U)
  BY <1>1, <1>2
<1>4. U # {}
  <2> SUFFICES ASSUME U = {} PROVE FALSE
    OBVIOUS
  <2>1. SumFunctionOnSet(k, U) = 0 /\ SumFunctionOnSet(f, U) = 0 /\ SumFunctionOnSet(g, U) = 0
    BY FS_EmptySet, SumOfSome
  <2> QED
    BY <1>3, <2>1
<1>5. PICK x \in U : TRUE
  BY <1>4
<1>6. U \ {x} \notin C /\ U \ {x} \in SUBSET S /\ IsFiniteSet(U \ {x})
  <2>1. U \ {x} \notin C
    <3> HIDE DEF C
    <3> QED
      BY <1>2, <1>3, SmallerSet
  <2> QED
    BY <1>3, <2>1, FS_Subset
<1> DEFINE W == U \ {x}
<1>7. SumFunctionOnSet(k, W) = SumFunctionOnSet(f, W) + SumFunctionOnSet(g, W)
  BY <1>6
<1>8. f[x] \in Nat /\ g[x] \in Nat /\ k[x] = f[x] + g[x] /\ x \in U
  BY <1>3, <1>5
<1>9. \A y \in U : f[y] \in Nat /\ g[y] \in Nat /\ k[y] \in Nat
  BY <1>3
<1>10. SumFunctionOnSet(k, U) = k[x] + SumFunctionOnSet(k, W)
  BY <1>3, <1>8, <1>9, SumTakesOut
<1>11. SumFunctionOnSet(f, U) = f[x] + SumFunctionOnSet(f, W)
  BY <1>3, <1>8, <1>9, SumTakesOut
<1>12. SumFunctionOnSet(g, U) = g[x] + SumFunctionOnSet(g, W)
  BY <1>3, <1>8, <1>9, SumTakesOut
<1>13. SumFunctionOnSet(f, W) \in Nat /\ SumFunctionOnSet(g, W) \in Nat
  BY <1>6, <1>9, SumTakesOut
<1> HIDE DEF W
<1> QED
  BY <1>3, <1>7, <1>8, <1>10, <1>11, <1>12, <1>13

\* Amounts summed key by key make up the sum of them all.
LEMMA SumByKey ==
  ASSUME NEW H, IsFiniteSet(H), NEW D, NEW key \in [D -> H], NEW a \in [D -> Nat],
         NEW S \in SUBSET D, IsFiniteSet(S)
  PROVE  SumFunctionOnSet([h \in H |->
           SumFunctionOnSet([i \in D |-> IF key[i] = h THEN a[i] ELSE 0], S)], H)
             = SumFunctionOnSet(a, S)
<1> DEFINE Of(h) == [i \in D |-> IF key[i] = h THEN a[i] ELSE 0]
           F(U) == [h \in H |-> SumFunctionOnSet(Of(h), U)]
           C == {U \in SUBSET S : SumFunctionOnSet(F(U), H) # SumFunctionOnSet(a, U)}
<1> SUFFICES C = {}
  OBVIOUS
<1> SUFFICES ASSUME C # {} PROVE FALSE
  OBVIOUS
<1>1. \A U \in C : IsFiniteSet(U)
  BY FS_Subset
<1>2. PICK U \in C : \A V \in C : Cardinality(U) <= Cardinality(V)
  <2> HIDE DEF C
  <2> QED
    BY <1>1, SmallestFinite
<1>3. /\ U \in SUBSET S /\ U \in SUBSET D /\ IsFiniteSet(U)
      /\ SumFunctionOnSet(F(U), H) # SumFunctionOnSet(a, U)
  BY <1>1, <1>2
<1>4. ASSUME NEW V \in SUBSET D, IsFiniteSet(V)
      PROVE  F(V) \in [H -> Nat] /\ \A h \in H : F(V)[h] = SumFunctionOnSet(Of(h), V)
  <2>1. ASSUME NEW h \in H PROVE SumFunctionOnSet(Of(h), V) \in Nat
    <3>1. \A i \in V : Of(h)[i] \in Nat
      OBVIOUS
    <3> HIDE DEF Of
    <3> QED
      BY <1>4, <3>1, SumTakesOut
  <2> HIDE DEF Of
  <2> QED
    BY <2>1
<1>5. U # {}
  <2> SUFFICES ASSUME U = {} PROVE FALSE
    OBVIOUS
  <2>1. SumFunctionOnSet(a, U) = 0
    BY FS_EmptySet, SumOfSome
  <2>2. \A h \in H : F(U)[h] = 0
    <3> HIDE DEF Of
    <3> QED
      BY FS_EmptySet, SumOfSome
  <2> DEFINE z == F(U)
             n == SumFunctionOnSet(z, H)
  <2>3. \A h \in H : z[h] = 0
    BY <2>2
  <2> HIDE DEF z
  <2>4. n \in Nat
    BY <2>3, SumTakesOut
  <2>5. n = n + n
    BY <2>3, SumAdds
  <2>6. n # 0
    BY <1>3, <2>1 DEF z
  <2> HIDE DEF n
  <2> QED
    BY <2>4, <2>5, <2>6
<1>6. PICK x \in U : TRUE
  BY <1>5
<1> DEFINE W == U \ {x}
           u == key[x]
<1>7. W \notin C /\ W \in SUBSET S /\ W \in SUBSET D /\ IsFiniteSet(W)
  <2>1. W \notin C
    <3> HIDE DEF C
    <3> QED
      BY <1>2, <1>3, SmallerSet
  <2> QED
    BY <1>3, <2>1, FS_Subset
<1>8. SumFunctionOnSet(F(W), H) = SumFunctionOnSet(a, W)
  BY <1>7
<1>9. u \in H /\ a[x] \in Nat /\ x \in U /\ x \in D
  BY <1>3, <1>6
<1>10. F(U) \in [H -> Nat] /\ F(W) \in [H -> Nat]
  <2> HIDE DEF F, W
  <2> QED
    BY <1>3, <1>4, <1>7
<1>11. ASSUME NEW h \in H
       PROVE  F(U)[h] = (IF u = h THEN a[x] ELSE 0) + F(W)[h]
  <2>1. \A i \in U : Of(h)[i] \in Nat
    BY <1>3
  <2>2. Of(h)[x] = IF u = h THEN a[x] ELSE 0
    BY <1>9
  <2>3. F(U)[h] = SumFunctionOnSet(Of(h), U) /\ F(W)[h] = SumFunctionOnSet(Of(h), W)
    OBVIOUS
  <2>4. SumFunctionOnSet(Of(h), U) = Of(h)[x] + SumFunctionOnSet(Of(h), W)
    <3> HIDE DEF Of
    <3> QED
      BY <1>3, <1>9, <2>1, SumTakesOut
  <2> HIDE DEF Of, F, u
  <2> QED
    BY <2>2, <2>3, <2>4
<1> DEFINE m == a[x] + F(W)[u]
<1> HIDE DEF F, Of, W, u
<1>12. m \in Nat /\ F(W)[u] \in Nat
  BY <1>9, <1>10
<1>13. F(U)[u] = m /\ \A h \in H \ {u} : F(U)[h] = F(W)[h] /\ F(W)[h] \in Nat
  BY <1>9, <1>10, <1>11 DEF m
<1>14. SumFunctionOnSet(F(U), H) = SumFunctionOnSet(F(W), H) - F(W)[u] + m
  <2> DEFINE p == F(W)
             q == F(U)
  <2>1. p[u] \in Nat /\ q[u] = m /\ \A h \in H \ {u} : q[h] = p[h] /\ p[h] \in Nat
    BY <1>12, <1>13
  <2> HIDE DEF m, p, q
  <2>2. SumFunctionOnSet(q, H) = SumFunctionOnSet(p, H) - p[u] + q[u]
    <3> HIDE DEF C
    <3>1. u \in H /\ p[u] \in Nat /\ q[u] \in Nat
      BY <1>9, <1>12, <2>1
    <3>2. \A h \in H \ {u} : q[h] = p[h] /\ p[h] \in Nat
      BY <2>1
    <3> QED
      BY <3>1, <3>2, SumChangedAt
  <2> QED
    BY <2>1, <2>2 DEF p, q
<1>15. SumFunctionOnSet(a, U) = a[x] + SumFunctionOnSet(a, W)
  BY <1>3, <1>9, SumTakesOut DEF W
<1>16. SumFunctionOnSet(a, W) \in Nat
  BY <1>7, SumTakesOut
<1> QED
  BY <1>3, <1>8, <1>9, <1>12, <1>14, <1>15, <1>16
=============================================================================
