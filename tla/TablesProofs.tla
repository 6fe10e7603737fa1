----------------------------- MODULE TablesProofs -----------------------------
(* A recursive query collects the least set of rows that it starts from    *)
(* and that its references do not lead out of.                             *)
EXTENDS Tables, Integers, Functions, FiniteSetTheorems, WellFoundedInduction, TLAPS

(* Induction on the naturals, as a fact about sets: a set of naturals that *)
(* is not empty has a least element.                                       *)
LEMMA LeastNatural ==
    ASSUME NEW T, T \subseteq Nat, T # {}
    PROVE  \E x \in T : \A y \in T : x <= y
<1> DEFINE R == OpToRel(<, Nat)
<1>1. IsWellFoundedOn(R, Nat)
  BY NatLessThanWellFounded
<1>2. ASSUME NEW a \in Nat, NEW b \in Nat, ~(<<a, b>> \in R) PROVE ~(a < b)
  BY <1>2 DEF OpToRel
<1> HIDE DEF R
<1>3. PICK x \in T : \A y \in T : ~(<<y, x>> \in R)
  BY <1>1, WFMin
<1>4. \A y \in T : ~(y < x)
  BY <1>2, <1>3
<1> QED
  BY <1>3, <1>4

(* ... in the form the proofs below use it: what holds of 0, and of k + 1  *)
(* when it holds of k, holds up to the bound.                              *)
LEMMA UpTo ==
    ASSUME NEW n \in Nat, NEW Good, 0 \in Good,
           \A k \in 0 .. n - 1 : k \in Good => k + 1 \in Good
    PROVE  \A k \in 0 .. n : k \in Good
<1> SUFFICES ASSUME (0 .. n) \ Good # {} PROVE FALSE
  OBVIOUS
<1> DEFINE T == (0 .. n) \ Good
<1>0. T \subseteq Nat /\ T # {}
  OBVIOUS
<1> HIDE DEF T
<1>1. PICK x \in T : \A y \in T : x <= y
  BY <1>0, LeastNatural
<1> USE DEF T
<1>2. x \in (0 .. n) \ Good /\ \A y \in (0 .. n) \ Good : x <= y
  BY <1>1
<1>3. x # 0 /\ x - 1 \in 0 .. n - 1
  BY <1>2
<1>4. x - 1 \in Good
  BY <1>2, <1>3
<1> QED
  BY <1>2, <1>3, <1>4

Rounds(f, edges, from, n) ==
    f = [k \in 0 .. n |-> IF k = 0 THEN from ELSE Widened(edges, f[k - 1])]

(* The rounds of a query are well defined.                                 *)
LEMMA RoundsExist ==
    ASSUME NEW edges, NEW from, NEW n \in Nat
    PROVE  \E f : Rounds(f, edges, from, n)
<1> DEFINE Good == {k \in 0 .. n : \E f : Rounds(f, edges, from, k)}
<1>1. 0 \in Good
  <2> DEFINE f == [k \in 0 .. 0 |-> from]
  <2>1. Rounds(f, edges, from, 0)
    BY DEF Rounds
  <2> QED
    BY <2>1
<1>2. ASSUME NEW k \in 0 .. n - 1, k \in Good PROVE k + 1 \in Good
  <2>1. PICK f : Rounds(f, edges, from, k)
    BY <1>2
  <2> DEFINE g == [j \in 0 .. k + 1 |-> IF j <= k THEN f[j] ELSE Widened(edges, f[k])]
  <2>2. ASSUME NEW j \in 0 .. k + 1
        PROVE  g[j] = IF j = 0 THEN from ELSE Widened(edges, g[j - 1])
    <3>1. CASE j <= k
      <4>1. g[j] = f[j] /\ (j # 0 => g[j - 1] = f[j - 1])
        BY <3>1
      <4>2. f[j] = IF j = 0 THEN from ELSE Widened(edges, f[j - 1])
        BY <2>1, <3>1 DEF Rounds
      <4> QED
        BY <4>1, <4>2
    <3>2. CASE j = k + 1
      <4>1. g[j] = Widened(edges, f[k]) /\ g[j - 1] = f[k] /\ j # 0
        BY <3>2
      <4> QED
        BY <4>1
    <3> QED
      BY <3>1, <3>2
  <2>3. Rounds(g, edges, from, k + 1)
    <3> HIDE DEF g
    <3>1. g = [j \in 0 .. k + 1 |-> g[j]]
      BY DEF g
    <3> QED
      BY <2>2, <3>1 DEF Rounds
  <2> QED
    BY <2>3
<1> HIDE DEF Good
<1>3. \A k \in 0 .. n : k \in Good
  BY <1>1, <1>2, UpTo
<1> QED
  BY <1>3 DEF Good

(* ... and the last of them is what the query returns.                     *)
LEMMA CollectedByRounds ==
    ASSUME NEW edges, NEW from, NEW rows, Cardinality(rows) \in Nat
    PROVE  \E f : /\ Rounds(f, edges, from, Cardinality(rows))
                  /\ Collected(edges, from, rows) = f[Cardinality(rows)]
<1>1. PICK f : Rounds(f, edges, from, Cardinality(rows))
  BY RoundsExist
<1> QED
  BY <1>1 DEF Collected, Rounds

(* WITH RECURSIVE and ON DELETE CASCADE over a table of finitely many      *)
(* rows: all that is collected is started from or referred to, nothing     *)
(* referred to is left out, and no smaller set is like that.               *)
THEOREM QueryIsClosure ==
    ASSUME NEW rows, IsFiniteSet(rows), NEW edges, edges \subseteq rows \X rows,
           NEW from, from \subseteq rows
    PROVE  LET all == Collected(edges, from, rows)
           IN  /\ from \subseteq all /\ all \subseteq rows
               /\ \A e \in edges : e[1] \in all => e[2] \in all
               /\ \A C : /\ from \subseteq C
                         /\ \A e \in edges : e[1] \in C => e[2] \in C
                         => all \subseteq C
<1> DEFINE n == Cardinality(rows)
<1>0. n \in Nat
  BY FS_CardinalityType
<1>1. PICK f : Rounds(f, edges, from, n) /\ Collected(edges, from, rows) = f[n]
  BY <1>0, CollectedByRounds
<1> HIDE DEF n
<1>2. f[0] = from /\ \A k \in 0 .. n - 1 : f[k + 1] = Widened(edges, f[k])
  <2>1. \A k \in 0 .. n : f[k] = IF k = 0 THEN from ELSE Widened(edges, f[k - 1])
    BY <1>1 DEF Rounds
  <2> QED
    BY <1>0, <2>1
<1>3. ASSUME NEW C, from \subseteq C, \A e \in edges : e[1] \in C => e[2] \in C
      PROVE  \A k \in 0 .. n : f[k] \subseteq C
  <2> DEFINE Good == {k \in 0 .. n : f[k] \subseteq C}
  <2>1. 0 \in Good
    BY <1>0, <1>2, <1>3
  <2>2. ASSUME NEW k \in 0 .. n - 1, k \in Good PROVE k + 1 \in Good
    <3>1. f[k + 1] = Widened(edges, f[k]) /\ f[k] \subseteq C
      BY <1>2, <2>2
    <3>2. f[k + 1] \subseteq C
      BY <1>3, <3>1 DEF Widened
    <3> QED
      BY <1>0, <3>2
  <2> HIDE DEF Good
  <2>3. \A k \in 0 .. n : k \in Good
    BY <1>0, <2>1, <2>2, UpTo
  <2> QED
    BY <2>3 DEF Good
<1>4. \A k \in 0 .. n : f[k] \subseteq rows
  BY <1>3
<1> DEFINE Stable(k) == Widened(edges, f[k]) = f[k]
<1>5. \A k \in 0 .. n : Stable(k) \/ Cardinality(f[k]) >= k
  <2> DEFINE Good == {k \in 0 .. n : Stable(k) \/ Cardinality(f[k]) >= k}
  <2>0. \A k \in 0 .. n : IsFiniteSet(f[k]) /\ Cardinality(f[k]) \in Nat
    BY <1>4, FS_Subset, FS_CardinalityType
  <2>1. 0 \in Good
    BY <1>0, <2>0
  <2>2. ASSUME NEW k \in 0 .. n - 1, k \in Good PROVE k + 1 \in Good
    <3>0. k \in 0 .. n /\ k + 1 \in 0 .. n /\ k \in Nat
      BY <1>0
    <3>1. CASE Stable(k)
      BY <1>2, <3>0, <3>1
    <3>2. CASE ~Stable(k)
      <4>1. f[k] \subseteq f[k + 1] /\ f[k] # f[k + 1]
        BY <1>2, <3>2 DEF Widened
      <4>2. Cardinality(f[k]) <= Cardinality(f[k + 1]) /\ Cardinality(f[k]) # Cardinality(f[k + 1])
        BY <2>0, <3>0, <4>1, FS_Subset
      <4>3. Cardinality(f[k]) >= k
        BY <2>2, <3>2
      <4>4. Cardinality(f[k]) \in Nat /\ Cardinality(f[k + 1]) \in Nat
        BY <2>0, <3>0
      <4>5. Cardinality(f[k + 1]) >= k + 1
        BY <3>0, <4>2, <4>3, <4>4
      <4> QED
        BY <3>0, <4>5
    <3> QED
      BY <3>1, <3>2
  <2> HIDE DEF Good
  <2>3. \A k \in 0 .. n : k \in Good
    BY <1>0, <2>1, <2>2, UpTo
  <2> QED
    BY <2>3 DEF Good
<1>6. Stable(n)
  <2>1. CASE Cardinality(f[n]) >= n
    <3>1. f[n] \subseteq rows /\ Cardinality(f[n]) <= Cardinality(rows)
          /\ (Cardinality(rows) = Cardinality(f[n]) => rows = f[n])
      BY <1>0, <1>4, FS_Subset
    <3>2. Cardinality(f[n]) \in Nat
      BY <1>0, <1>4, FS_Subset, FS_CardinalityType
    <3>3. rows = f[n]
      BY <1>0, <2>1, <3>1, <3>2 DEF n
    <3> QED
      BY <3>3 DEF Widened
  <2> QED
    BY <1>0, <1>5, <2>1
<1>7. from \subseteq f[n]
  <2> DEFINE Good == {k \in 0 .. n : from \subseteq f[k]}
  <2>1. 0 \in Good
    BY <1>0, <1>2
  <2>2. ASSUME NEW k \in 0 .. n - 1, k \in Good PROVE k + 1 \in Good
    BY <1>0, <1>2, <2>2 DEF Widened
  <2> HIDE DEF Good
  <2>3. n \in Good
    BY <1>0, <2>1, <2>2, UpTo
  <2> QED
    BY <2>3 DEF Good
<1>8. \A e \in edges : e[1] \in f[n] => e[2] \in f[n]
  BY <1>6 DEF Widened
<1>9. \A C : from \subseteq C /\ (\A e \in edges : e[1] \in C => e[2] \in C) => f[n] \subseteq C
  BY <1>0, <1>3
<1> QED
  BY <1>0, <1>1, <1>4, <1>7, <1>8, <1>9 DEF n

-----------------------------------------------------------------------------
(* Going up *)

(* Ancestors collects n and what is above it, and nothing else.            *)
LEMMA AncestorsAre ==
    ASSUME NEW rows, IsFiniteSet(rows), NEW S \in SUBSET rows, NEW up, NEW n \in rows
    PROVE  LET all == Ancestors(up, n, S, rows)
           IN  /\ n \in all /\ all \subseteq rows
               /\ \A x \in all \cap S : up[x] \in rows => up[x] \in all
               /\ \A C : n \in C /\ (\A x \in C \cap S : up[x] \in rows => up[x] \in C)
                            => all \subseteq C
<1> DEFINE edges == References(up, S, rows)
           all == Collected(edges, {n}, rows)
<1>1. edges \subseteq rows \X rows /\ {n} \subseteq rows /\ {n} \cap rows = {n}
  BY DEF References
<1>2. \A e \in edges : e[1] \in S /\ up[e[1]] = e[2] /\ e[2] \in rows
  BY DEF References
<1>3. \A x \in S : up[x] \in rows => <<x, up[x]>> \in edges
  BY DEF References
<1> HIDE DEF edges
<1>4. /\ {n} \subseteq all /\ all \subseteq rows
      /\ \A e \in edges : e[1] \in all => e[2] \in all
      /\ \A C : /\ {n} \subseteq C
                /\ \A e \in edges : e[1] \in C => e[2] \in C
                => all \subseteq C
  BY <1>1, QueryIsClosure
<1>5. Ancestors(up, n, S, rows) = all
  BY <1>1 DEF Ancestors, edges
<1> HIDE DEF all
<1>6. ASSUME NEW x \in all \cap S, up[x] \in rows PROVE up[x] \in all
  <2>1. <<x, up[x]>> \in edges
    BY <1>3, <1>6
  <2>2. <<x, up[x]>>[1] = x /\ <<x, up[x]>>[2] = up[x]
    OBVIOUS
  <2> QED
    BY <1>4, <2>1, <2>2
<1>7. ASSUME NEW C, n \in C, \A x \in C \cap S : up[x] \in rows => up[x] \in C
      PROVE  all \subseteq C
  BY <1>2, <1>4, <1>7
<1> QED
  BY <1>4, <1>5, <1>6, <1>7

(* One step up at a time.                                                  *)
LEMMA AncestorsStep ==
    ASSUME NEW rows, IsFiniteSet(rows), NEW S \in SUBSET rows, NEW up, NEW n \in rows
    PROVE  /\ n \in S /\ up[n] \in rows
                 => Ancestors(up, n, S, rows) = {n} \cup Ancestors(up, up[n], S, rows)
           /\ n \notin S \/ up[n] \notin rows => Ancestors(up, n, S, rows) = {n}
<1> DEFINE A(m) == Ancestors(up, m, S, rows)
<1>0. n \in A(n)
  BY AncestorsAre
<1>1. CASE n \in S /\ up[n] \in rows
  <2>1. A(n) \subseteq {n} \cup A(up[n])
    <3> DEFINE C == {n} \cup A(up[n])
    <3>1. \A x \in C \cap S : up[x] \in rows => up[x] \in C
      BY <1>1, AncestorsAre
    <3> HIDE DEF C
    <3>2. n \in C
      BY DEF C
    <3>3. A(n) \subseteq C
      BY <3>1, <3>2, AncestorsAre
    <3> QED
      BY <3>3 DEF C
  <2>2. A(up[n]) \subseteq A(n)
    <3> DEFINE C == A(n)
    <3>1. \A x \in C \cap S : up[x] \in rows => up[x] \in C
      BY AncestorsAre
    <3> DEFINE u == up[n]
    <3>2. u \in C /\ u \in rows
      BY <1>0, <1>1, <3>1
    <3> HIDE DEF C, u
    <3>3. A(u) \subseteq C
      BY <3>1, <3>2, AncestorsAre
    <3> QED
      BY <3>3 DEF C, u
  <2> QED
    BY <1>0, <1>1, <2>1, <2>2
<1>2. CASE n \notin S \/ up[n] \notin rows
  <2> DEFINE C == {n}
  <2>1. n \in C /\ \A x \in C \cap S : up[x] \in rows => up[x] \in C
    BY <1>2
  <2> HIDE DEF C
  <2>2. A(n) \subseteq C
    BY <2>1, AncestorsAre
  <2> QED
    BY <1>0, <1>2, <2>2 DEF C
<1> QED
  BY <1>1, <1>2

(* What is above something above n is above n.                             *)
LEMMA AncestorsOn ==
    ASSUME NEW rows, IsFiniteSet(rows), NEW S \in SUBSET rows, NEW up, NEW n \in rows,
           NEW m \in Ancestors(up, n, S, rows)
    PROVE  m \in rows /\ Ancestors(up, m, S, rows) \subseteq Ancestors(up, n, S, rows)
<1> DEFINE C == Ancestors(up, n, S, rows)
<1>1. m \in rows /\ \A x \in C \cap S : up[x] \in rows => up[x] \in C
  BY AncestorsAre
<1> HIDE DEF C
<1>2. m \in C
  BY DEF C
<1>3. Ancestors(up, m, S, rows) \subseteq C
  BY <1>1, <1>2, AncestorsAre
<1> QED
  BY <1>1, <1>3 DEF C

(* There is one way up: of two rows above n, one is above the other.       *)
LEMMA AncestorsInLine ==
    ASSUME NEW rows, IsFiniteSet(rows), NEW S \in SUBSET rows, NEW up, NEW n \in rows,
           NEW a \in Ancestors(up, n, S, rows), NEW b \in Ancestors(up, n, S, rows)
    PROVE  b \in Ancestors(up, a, S, rows) \/ a \in Ancestors(up, b, S, rows)
<1> DEFINE A(m) == Ancestors(up, m, S, rows)
           C == {x \in A(n) : b \in A(x) \/ x \in A(b)}
<1>0. b \in rows /\ A(n) \subseteq rows
  BY AncestorsAre
<1>1. n \in C
  BY AncestorsAre
<1>2. ASSUME NEW x \in C \cap S, up[x] \in rows PROVE up[x] \in C
  <2>1. x \in rows /\ x \in S /\ up[x] \in A(n)
    BY <1>0, <1>2, AncestorsAre
  <2>2. A(x) = {x} \cup A(up[x])
    BY <1>2, <2>1, AncestorsStep
  <2>3. b = x => up[x] \in A(b)
    BY <1>2, <2>2, AncestorsAre
  <2>4. x \in A(b) => up[x] \in A(b)
    BY <1>0, <1>2, <2>1, AncestorsAre
  <2> QED
    BY <2>1, <2>2, <2>3, <2>4
<1> HIDE DEF C
<1>3. A(n) \subseteq C
  BY <1>1, <1>2, AncestorsAre
<1> QED
  BY <1>3 DEF C

(* Fewer rows to go through lead no further.                               *)
LEMMA AncestorsFewer ==
    ASSUME NEW rows, IsFiniteSet(rows), NEW S \in SUBSET rows, NEW up, NEW n \in rows,
           NEW T \in SUBSET S
    PROVE  Ancestors(up, n, T, rows) \subseteq Ancestors(up, n, S, rows)
<1> DEFINE C == Ancestors(up, n, S, rows)
<1>1. n \in C /\ \A x \in C \cap T : up[x] \in rows => up[x] \in C
  BY AncestorsAre
<1> HIDE DEF C
<1>2. Ancestors(up, n, T, rows) \subseteq C
  BY <1>1, AncestorsAre
<1> QED
  BY <1>2 DEF C

-----------------------------------------------------------------------------
(* Adding up a column *)

(* How SumFunction adds up the values of f: one argument at a time.        *)
Adds(sum, f, S) ==
    sum = [s \in SUBSET S |->
              IF s = {} THEN 0
              ELSE f[CHOOSE x \in s : TRUE] + sum[s \ {CHOOSE x \in s : TRUE}]]

(* ... which is well defined when there are finitely many.                 *)
LEMMA AddsExist ==
    ASSUME NEW f, NEW S, IsFiniteSet(S)
    PROVE  \E sum : Adds(sum, f, S)
<1> DEFINE n == Cardinality(S)
           pick(s) == CHOOSE x \in s : TRUE
           Below(k) == {s \in SUBSET S : Cardinality(s) <= k}
           Sum(g, s) == IF s = {} THEN 0 ELSE f[pick(s)] + g[s \ {pick(s)}]
           Good == {k \in 0 .. n : \E g : g = [s \in Below(k) |-> Sum(g, s)]}
<1>0. n \in Nat
  BY FS_CardinalityType
<1>1. ASSUME NEW s \in SUBSET S
      PROVE  /\ IsFiniteSet(s) /\ Cardinality(s) \in Nat /\ Cardinality(s) <= n
             /\ Cardinality(s) = 0 <=> s = {}
             /\ s # {} => /\ pick(s) \in s
                          /\ s \ {pick(s)} \in SUBSET S
                          /\ Cardinality(s \ {pick(s)}) = Cardinality(s) - 1
  <2>1. IsFiniteSet(s) /\ Cardinality(s) <= n
    BY FS_Subset
  <2>2. Cardinality(s) \in Nat /\ (Cardinality(s) = 0 <=> s = {})
    BY <2>1, FS_CardinalityType, FS_EmptySet
  <2>3. s # {} => pick(s) \in s
    OBVIOUS
  <2> HIDE DEF pick
  <2> QED
    BY <2>1, <2>2, <2>3, FS_RemoveElement
<1> HIDE DEF n, pick
<1>2. 0 \in Good
  <2> DEFINE g == [s \in Below(0) |-> 0]
  <2>1. ASSUME NEW s \in Below(0) PROVE s = {}
    <3>1. s \in SUBSET S /\ Cardinality(s) <= 0
      OBVIOUS
    <3>2. Cardinality(s) \in Nat /\ (Cardinality(s) = 0 <=> s = {})
      BY <1>1, <3>1
    <3> QED
      BY <3>1, <3>2
  <2>2. g = [s \in Below(0) |-> Sum(g, s)]
    BY <2>1
  <2>3. 0 \in 0 .. n
    BY <1>0
  <2> HIDE DEF g
  <2> QED
    BY <2>2, <2>3
<1>3. ASSUME NEW k \in 0 .. n - 1, k \in Good PROVE k + 1 \in Good
  <2>1. PICK g : g = [s \in Below(k) |-> Sum(g, s)]
    BY <1>3
  <2> DEFINE h == [s \in Below(k + 1) |-> Sum(g, s)]
  <2>2. ASSUME NEW s \in Below(k + 1) PROVE h[s] = Sum(h, s)
    <3>1. CASE s = {}
      BY <3>1
    <3>2. CASE s # {}
      <4> DEFINE t == s \ {pick(s)}
      <4>1. t \in Below(k) /\ t \in Below(k + 1)
        BY <1>1, <3>2, <1>0
      <4>2. g[t] = Sum(g, t)
        BY <2>1, <4>1
      <4>3. h[t] = Sum(g, t)
        BY <4>1
      <4> HIDE DEF t
      <4>4. h[s] = f[pick(s)] + g[t]
        BY <3>2 DEF t
      <4> HIDE DEF h
      <4> QED
        BY <3>2, <4>2, <4>3, <4>4 DEF t
    <3> QED
      BY <3>1, <3>2
  <2>3. h = [s \in Below(k + 1) |-> h[s]]
    OBVIOUS
  <2> HIDE DEF h
  <2>4. h = [s \in Below(k + 1) |-> Sum(h, s)]
    BY <2>2, <2>3
  <2>5. k + 1 \in 0 .. n
    BY <1>0
  <2> QED
    BY <2>4, <2>5
<1>4. n \in Good
  <2> HIDE DEF Good
  <2>1. \A k \in 0 .. n : k \in Good
    BY <1>0, <1>2, <1>3, UpTo
  <2> QED
    BY <1>0, <2>1
<1>5. PICK g : g = [s \in Below(n) |-> Sum(g, s)]
  BY <1>4
<1>6. Below(n) = SUBSET S
  BY <1>1
<1> QED
  BY <1>5, <1>6 DEF Adds, pick

(* SumFunction does so.                                                    *)
LEMMA SumAdds ==
    ASSUME NEW f, IsFiniteSet(DOMAIN f)
    PROVE  \E sum : Adds(sum, f, DOMAIN f) /\ SumFunction(f) = sum[DOMAIN f]
<1>1. PICK sum : Adds(sum, f, DOMAIN f)
  BY AddsExist
<1> QED
  BY <1>1 DEF Adds, SumFunction, SumFunctionOnSet, FoldFunctionOnSet, MapThenFoldSet

(* Whatever is taken first, the sum is the same.                           *)
LEMMA AddsAnyhow ==
    ASSUME NEW f, NEW S, IsFiniteSet(S), \A x \in S : f[x] \in Int,
           NEW sum, Adds(sum, f, S)
    PROVE  \A s \in SUBSET S : /\ sum[s] \in Int
                               /\ \A x \in s : sum[s] = f[x] + sum[s \ {x}]
<1> DEFINE n == Cardinality(S)
           pick(s) == CHOOSE x \in s : TRUE
           Fine(s) == sum[s] \in Int /\ \A x \in s : sum[s] = f[x] + sum[s \ {x}]
           Good == {k \in 0 .. n : \A s \in SUBSET S : Cardinality(s) <= k => Fine(s)}
<1>0. n \in Nat
  BY FS_CardinalityType
<1>1. ASSUME NEW s \in SUBSET S
      PROVE  /\ IsFiniteSet(s) /\ Cardinality(s) \in 0 .. n
             /\ Cardinality(s) = 0 <=> s = {}
             /\ \A x \in s : s \ {x} \in SUBSET S /\ Cardinality(s \ {x}) = Cardinality(s) - 1
  <2>1. IsFiniteSet(s) /\ Cardinality(s) <= n
    BY FS_Subset
  <2>2. Cardinality(s) \in Nat /\ (Cardinality(s) = 0 <=> s = {})
    BY <2>1, FS_CardinalityType, FS_EmptySet
  <2> QED
    BY <1>0, <2>1, <2>2, FS_RemoveElement
<1>2. ASSUME NEW s \in SUBSET S
      PROVE  /\ s = {} => sum[s] = 0
             /\ s # {} => pick(s) \in s /\ sum[s] = f[pick(s)] + sum[s \ {pick(s)}]
  BY DEF Adds
<1> HIDE DEF n, pick
<1>3. 0 \in Good
  <2>1. ASSUME NEW s \in SUBSET S, Cardinality(s) <= 0 PROVE Fine(s)
    <3>1. Cardinality(s) \in 0 .. n /\ (Cardinality(s) = 0 <=> s = {})
      BY <1>1
    <3>2. s = {}
      BY <1>0, <2>1, <3>1
    <3>3. sum[s] = 0
      BY <1>2, <3>2
    <3> QED
      BY <3>2, <3>3
  <2>2. 0 \in 0 .. n
    BY <1>0
  <2> HIDE DEF Fine
  <2> QED
    BY <2>1, <2>2
<1>4. ASSUME NEW k \in 0 .. n - 1, k \in Good PROVE k + 1 \in Good
  <2>1. ASSUME NEW s \in SUBSET S, Cardinality(s) <= k + 1 PROVE Fine(s)
    <3>1. ASSUME NEW t \in SUBSET S, Cardinality(t) <= k PROVE Fine(t)
      BY <1>4, <3>1
    <3>2. CASE Cardinality(s) <= k
      BY <3>1, <3>2
    <3>3. CASE ~(Cardinality(s) <= k)
      <4>1. Cardinality(s) = k + 1 /\ s # {}
        BY <1>0, <1>1, <2>1, <3>3
      <4>2. ASSUME NEW x \in s PROVE Fine(s \ {x})
        <5>1. s \ {x} \in SUBSET S /\ Cardinality(s \ {x}) <= k
          BY <1>1, <4>1
        <5> QED
          BY <3>1, <5>1
      <4>3. ASSUME NEW x \in s, NEW y \in s, x # y PROVE sum[(s \ {x}) \ {y}] \in Int
        <5>1. s \ {x} \in SUBSET S /\ Cardinality(s \ {x}) = k /\ y \in s \ {x}
          BY <1>1, <4>1, <4>3
        <5>2. (s \ {x}) \ {y} \in SUBSET S /\ Cardinality((s \ {x}) \ {y}) <= k
          <6>1. (s \ {x}) \ {y} \in SUBSET S /\ Cardinality((s \ {x}) \ {y}) = k - 1
            BY <1>1, <5>1
          <6> QED
            BY <1>0, <6>1
        <5> QED
          BY <3>1, <5>2
      <4> DEFINE p == pick(s)
      <4>4. p \in s /\ sum[s] = f[p] + sum[s \ {p}]
        BY <1>2, <4>1
      <4> HIDE DEF p
      <4>5. f[p] \in Int /\ sum[s \ {p}] \in Int
        BY <4>2, <4>4
      <4>6. ASSUME NEW x \in s, x # p PROVE sum[s] = f[x] + sum[s \ {x}]
        <5>1. sum[s \ {p}] = f[x] + sum[(s \ {p}) \ {x}]
          BY <4>2, <4>4, <4>6
        <5>2. sum[s \ {x}] = f[p] + sum[(s \ {x}) \ {p}]
          BY <4>2, <4>4, <4>6
        <5>3. sum[(s \ {p}) \ {x}] = sum[(s \ {x}) \ {p}]
          <6>1. (s \ {p}) \ {x} = (s \ {x}) \ {p}
            OBVIOUS
          <6> QED
            BY <6>1
        <5>4. sum[(s \ {x}) \ {p}] \in Int /\ f[x] \in Int
          BY <4>3, <4>4, <4>6
        <5> DEFINE a == sum[s]
                   b == sum[s \ {p}]
                   c == sum[s \ {x}]
                   d == sum[(s \ {x}) \ {p}]
                   fp == f[p]
                   fx == f[x]
        <5>5. a = fp + b /\ b = fx + d /\ c = fp + d /\ d \in Int /\ fx \in Int /\ fp \in Int
          BY <4>4, <4>5, <5>1, <5>2, <5>3, <5>4
        <5> HIDE DEF a, b, c, d, fp, fx
        <5>6. a = fx + c
          BY <5>5
        <5> QED
          BY <5>6 DEF a, c, fx
      <4>7. sum[s] \in Int
        BY <4>4, <4>5
      <4>8. \A x \in s : sum[s] = f[x] + sum[s \ {x}]
        BY <4>4, <4>6
      <4> QED
        BY <4>7, <4>8
    <3> QED
      BY <3>2, <3>3
  <2>2. k + 1 \in 0 .. n
    BY <1>0
  <2> HIDE DEF Fine
  <2> QED
    BY <2>1, <2>2
<1>5. \A k \in 0 .. n : k \in Good
  <2> HIDE DEF Good
  <2> QED
    BY <1>0, <1>3, <1>4, UpTo
<1> QED
  BY <1>1, <1>5

(* ... and it is the same whatever else could have been added.             *)
LEMMA AddsOnce ==
    ASSUME NEW f, NEW S, NEW sum, Adds(sum, f, S),
           NEW T \in SUBSET S, IsFiniteSet(T), NEW g, \A x \in T : g[x] = f[x],
           NEW low, Adds(low, g, T)
    PROVE  \A s \in SUBSET T : low[s] = sum[s]
<1> DEFINE n == Cardinality(T)
           pick(s) == CHOOSE x \in s : TRUE
           Good == {k \in 0 .. n : \A s \in SUBSET T : Cardinality(s) = k => low[s] = sum[s]}
<1>0. n \in Nat
  BY FS_CardinalityType
<1>1. ASSUME NEW s \in SUBSET T
      PROVE  /\ Cardinality(s) \in 0 .. n
             /\ Cardinality(s) = 0 <=> s = {}
             /\ \A x \in s : s \ {x} \in SUBSET T /\ Cardinality(s \ {x}) = Cardinality(s) - 1
  <2>1. IsFiniteSet(s) /\ Cardinality(s) <= n
    BY FS_Subset
  <2>2. Cardinality(s) \in Nat /\ (Cardinality(s) = 0 <=> s = {})
    BY <2>1, FS_CardinalityType, FS_EmptySet
  <2> QED
    BY <1>0, <2>1, <2>2, FS_RemoveElement
<1>2. ASSUME NEW s \in SUBSET T
      PROVE  /\ s = {} => sum[s] = 0 /\ low[s] = 0
             /\ s # {} => /\ pick(s) \in s
                          /\ sum[s] = f[pick(s)] + sum[s \ {pick(s)}]
                          /\ low[s] = g[pick(s)] + low[s \ {pick(s)}]
  BY DEF Adds
<1> HIDE DEF n, pick
<1>3. 0 \in Good
  <2>1. ASSUME NEW s \in SUBSET T, Cardinality(s) = 0 PROVE low[s] = sum[s]
    BY <1>1, <1>2, <2>1
  <2>2. 0 \in 0 .. n
    BY <1>0
  <2> QED
    BY <2>1, <2>2
<1>4. ASSUME NEW k \in 0 .. n - 1, k \in Good PROVE k + 1 \in Good
  <2>1. ASSUME NEW s \in SUBSET T, Cardinality(s) = k + 1 PROVE low[s] = sum[s]
    <3> DEFINE p == pick(s)
    <3>1. s # {}
      BY <1>0, <1>1, <2>1
    <3>2. p \in s /\ sum[s] = f[p] + sum[s \ {p}] /\ low[s] = g[p] + low[s \ {p}]
      BY <1>2, <3>1
    <3> HIDE DEF p
    <3>3. s \ {p} \in SUBSET T /\ Cardinality(s \ {p}) = k
      BY <1>0, <1>1, <2>1, <3>2
    <3>4. low[s \ {p}] = sum[s \ {p}]
      BY <1>4, <3>3
    <3>5. g[p] = f[p]
      BY <3>2
    <3> QED
      BY <3>2, <3>4, <3>5
  <2>2. k + 1 \in 0 .. n
    BY <1>0
  <2> QED
    BY <2>1, <2>2
<1>5. \A k \in 0 .. n : k \in Good
  <2> HIDE DEF Good
  <2> QED
    BY <1>0, <1>3, <1>4, UpTo
<1> QED
  BY <1>1, <1>5

(* Sums over the domain of f and over a part of it go together.            *)
LEMMA SumTakes ==
    ASSUME NEW f, IsFiniteSet(DOMAIN f), \A x \in DOMAIN f : f[x] \in Int
    PROVE  /\ SumFunction(f) \in Int
           /\ DOMAIN f = {} => SumFunction(f) = 0
           /\ \A x \in DOMAIN f : SumFunction(f) = f[x] + SumFunction(Restrict(f, DOMAIN f \ {x}))
<1> DEFINE S == DOMAIN f
<1>1. PICK sum : Adds(sum, f, S) /\ SumFunction(f) = sum[S]
  BY SumAdds
<1>2. \A s \in SUBSET S : sum[s] \in Int /\ \A x \in s : sum[s] = f[x] + sum[s \ {x}]
  BY <1>1, AddsAnyhow
<1>3. S = {} => sum[S] = 0
  BY <1>1 DEF Adds
<1>4. ASSUME NEW x \in S PROVE SumFunction(Restrict(f, DOMAIN f \ {x})) = sum[S \ {x}]
  <2> DEFINE g == Restrict(f, DOMAIN f \ {x})
             T == S \ {x}
  <2>1. DOMAIN g = T /\ T \in SUBSET S /\ IsFiniteSet(T) /\ \A y \in T : g[y] = f[y]
    BY FS_Subset DEF Restrict
  <2> HIDE DEF g
  <2>2. PICK low : Adds(low, g, T) /\ SumFunction(g) = low[T]
    BY <2>1, SumAdds
  <2>3. T \in SUBSET T /\ \A s \in SUBSET T : low[s] = sum[s]
    BY <1>1, <2>1, <2>2, AddsOnce
  <2> QED
    BY <2>2, <2>3 DEF g
<1> QED
  BY <1>1, <1>2, <1>3, <1>4

(* Induction on the subsets of a finite set, as a fact about sets of them. *)
LEMMA AllSubsets ==
    ASSUME NEW S, IsFiniteSet(S), NEW Good, {} \in Good,
           \A s \in SUBSET S : \A x \in s : s \ {x} \in Good => s \in Good
    PROVE  \A s \in SUBSET S : s \in Good
<1> DEFINE n == Cardinality(S)
           Fine == {k \in 0 .. n : \A s \in SUBSET S : Cardinality(s) = k => s \in Good}
<1>0. n \in Nat
  BY FS_CardinalityType
<1>1. ASSUME NEW s \in SUBSET S
      PROVE  /\ Cardinality(s) \in 0 .. n
             /\ Cardinality(s) = 0 <=> s = {}
             /\ \A x \in s : s \ {x} \in SUBSET S /\ Cardinality(s \ {x}) = Cardinality(s) - 1
  <2>1. IsFiniteSet(s) /\ Cardinality(s) <= n
    BY FS_Subset
  <2>2. Cardinality(s) \in Nat /\ (Cardinality(s) = 0 <=> s = {})
    BY <2>1, FS_CardinalityType, FS_EmptySet
  <2> QED
    BY <1>0, <2>1, <2>2, FS_RemoveElement
<1> HIDE DEF n
<1>2. 0 \in Fine
  <2>1. 0 \in 0 .. n
    BY <1>0
  <2> QED
    BY <1>1, <2>1
<1>3. ASSUME NEW k \in 0 .. n - 1, k \in Fine PROVE k + 1 \in Fine
  <2>1. ASSUME NEW s \in SUBSET S, Cardinality(s) = k + 1 PROVE s \in Good
    <3>1. PICK x \in s : TRUE
      BY <1>0, <1>1, <2>1
    <3>2. s \ {x} \in SUBSET S /\ Cardinality(s \ {x}) = k
      BY <1>0, <1>1, <2>1, <3>1
    <3> QED
      BY <1>3, <3>1, <3>2
  <2>2. k + 1 \in 0 .. n
    BY <1>0
  <2> QED
    BY <2>1, <2>2
<1>4. \A k \in 0 .. n : k \in Fine
  <2> HIDE DEF Fine
  <2> QED
    BY <1>0, <1>2, <1>3, UpTo
<1> QED
  BY <1>1, <1>4

(* SumTakes for the part of f that is in s.                                *)
LEMMA SumOfPart ==
    ASSUME NEW f, NEW s, IsFiniteSet(s), \A x \in s : f[x] \in Int
    PROVE  /\ SumFunction(Restrict(f, s)) \in Int
           /\ s = {} => SumFunction(Restrict(f, s)) = 0
           /\ \A x \in s :
                 SumFunction(Restrict(f, s)) = f[x] + SumFunction(Restrict(f, s \ {x}))
<1> DEFINE g == Restrict(f, s)
<1>1. DOMAIN g = s /\ \A x \in s : g[x] = f[x]
  BY DEF Restrict
<1>2. ASSUME NEW x \in s PROVE Restrict(g, DOMAIN g \ {x}) = Restrict(f, s \ {x})
  BY <1>1 DEF Restrict
<1> HIDE DEF g
<1>3. /\ SumFunction(g) \in Int
      /\ s = {} => SumFunction(g) = 0
      /\ \A x \in s : SumFunction(g) = g[x] + SumFunction(Restrict(g, DOMAIN g \ {x}))
  BY <1>1, SumTakes
<1> QED
  BY <1>1, <1>2, <1>3 DEF g

(* A sum is that of a part of it and that of the rest.                     *)
LEMMA SumSplits ==
    ASSUME NEW f, NEW S, IsFiniteSet(S), \A x \in S : f[x] \in Int, NEW A \in SUBSET S
    PROVE  SumFunction(Restrict(f, S)) =
               SumFunction(Restrict(f, A)) + SumFunction(Restrict(f, S \ A))
<1> DEFINE sum(s) == SumFunction(Restrict(f, s))
           Good == {s \in SUBSET S : sum(S) = sum(s) + sum(S \ s)}
<1>1. ASSUME NEW s \in SUBSET S
      PROVE  sum(s) \in Int /\ (s = {} => sum(s) = 0) /\ \A x \in s : sum(s) = f[x] + sum(s \ {x})
  <2>1. IsFiniteSet(s) /\ \A x \in s : f[x] \in Int
    BY FS_Subset
  <2> QED
    BY <2>1, SumOfPart
<1> HIDE DEF sum
<1>2. {} \in Good
  <2>1. S \ {} = S
    OBVIOUS
  <2> QED
    BY <1>1, <2>1
<1>3. ASSUME NEW s \in SUBSET S, NEW x \in s, s \ {x} \in Good PROVE s \in Good
  <2>1. sum(S) = sum(s \ {x}) + sum(S \ (s \ {x}))
    BY <1>3
  <2>2. sum(s) = f[x] + sum(s \ {x})
    BY <1>1
  <2>3. sum(S \ (s \ {x})) = f[x] + sum(S \ s)
    <3>1. x \in S \ (s \ {x}) /\ (S \ (s \ {x})) \ {x} = S \ s
      OBVIOUS
    <3> QED
      BY <1>1, <3>1
  <2>4. f[x] \in Int /\ sum(s \ {x}) \in Int /\ sum(S \ s) \in Int
    BY <1>1
  <2>5. sum(S) = sum(s) + sum(S \ s)
    BY <2>1, <2>2, <2>3, <2>4
  <2> QED
    BY <2>5
<1>4. \A s \in SUBSET S : s \in Good
  <2> HIDE DEF Good
  <2> QED
    BY <1>2, <1>3, AllSubsets
<1> QED
  BY <1>4 DEF sum

(* The sum of two columns.                                                 *)
LEMMA SumOfSums ==
    ASSUME NEW f, NEW g, NEW h, NEW S, IsFiniteSet(S),
           \A x \in S : f[x] \in Int /\ g[x] \in Int /\ h[x] = f[x] + g[x]
    PROVE  SumFunction(Restrict(h, S)) =
               SumFunction(Restrict(f, S)) + SumFunction(Restrict(g, S))
<1> DEFINE sum(c, s) == SumFunction(Restrict(c, s))
           Good == {s \in SUBSET S : sum(h, s) = sum(f, s) + sum(g, s)}
<1>1. ASSUME NEW c \in {f, g, h}, NEW s \in SUBSET S
      PROVE  /\ sum(c, s) \in Int
             /\ s = {} => sum(c, s) = 0
             /\ \A x \in s : sum(c, s) = c[x] + sum(c, s \ {x})
  <2>1. IsFiniteSet(s) /\ \A x \in s : c[x] \in Int
    <3>1. \A x \in s : f[x] \in Int /\ g[x] \in Int /\ h[x] \in Int
      OBVIOUS
    <3> QED
      BY <3>1, FS_Subset
  <2> QED
    BY <2>1, SumOfPart
<1> HIDE DEF sum
<1>2. {} \in Good
  BY <1>1
<1>3. ASSUME NEW s \in SUBSET S, NEW x \in s, s \ {x} \in Good PROVE s \in Good
  <2>1. /\ sum(f, s) = f[x] + sum(f, s \ {x}) /\ sum(g, s) = g[x] + sum(g, s \ {x})
        /\ sum(h, s) = h[x] + sum(h, s \ {x})
    BY <1>1
  <2>2. sum(f, s \ {x}) \in Int /\ sum(g, s \ {x}) \in Int
    BY <1>1
  <2>3. h[x] = f[x] + g[x] /\ f[x] \in Int /\ g[x] \in Int
    OBVIOUS
  <2>4. sum(h, s \ {x}) = sum(f, s \ {x}) + sum(g, s \ {x})
    BY <1>3
  <2>5. sum(h, s) = sum(f, s) + sum(g, s)
    BY <2>1, <2>2, <2>3, <2>4
  <2> QED
    BY <2>5
<1>4. S \in Good
  <2> HIDE DEF Good
  <2> QED
    BY <1>2, <1>3, AllSubsets
<1> QED
  BY <1>4 DEF sum

(* Rows that are copied one by one have the same sum.                      *)
LEMMA SumOfCopies ==
    ASSUME NEW f, NEW g, NEW S, IsFiniteSet(S), NEW new,
           \A x \in S : g[x] \in Int /\ f[new[x]] = g[x],
           \A x, y \in S : new[x] = new[y] => x = y
    PROVE  SumFunction(Restrict(f, {new[x] : x \in S})) = SumFunction(Restrict(g, S))
<1> DEFINE sum(c, s) == SumFunction(Restrict(c, s))
           image(s) == {new[x] : x \in s}
           Good == {s \in SUBSET S : sum(f, image(s)) = sum(g, s)}
<1>1. ASSUME NEW s \in SUBSET S
      PROVE  /\ s = {} => sum(g, s) = 0 /\ sum(f, image(s)) = 0
             /\ \A x \in s : /\ sum(g, s) = g[x] + sum(g, s \ {x})
                             /\ sum(f, image(s)) = f[new[x]] + sum(f, image(s) \ {new[x]})
  <2>1. IsFiniteSet(s) /\ \A x \in s : g[x] \in Int
    BY FS_Subset
  <2>2. IsFiniteSet(image(s))
    <3>1. [x \in s |-> new[x]] \in Surjection(s, image(s))
      BY DEF Surjection
    <3> QED
      BY <2>1, <3>1, FS_Surjection
  <2>3. \A y \in image(s) : f[y] \in Int
    OBVIOUS
  <2>4. s = {} => image(s) = {}
    OBVIOUS
  <2>5. \A x \in s : new[x] \in image(s)
    OBVIOUS
  <2> HIDE DEF image
  <2> QED
    BY <2>1, <2>2, <2>3, <2>4, <2>5, SumOfPart
<1>2. ASSUME NEW s \in SUBSET S, NEW x \in s PROVE image(s) \ {new[x]} = image(s \ {x})
  OBVIOUS
<1> HIDE DEF sum, image
<1>3. {} \in Good
  BY <1>1
<1>4. ASSUME NEW s \in SUBSET S, NEW x \in s, s \ {x} \in Good PROVE s \in Good
  <2>1. sum(f, image(s)) = f[new[x]] + sum(f, image(s \ {x}))
    <3>1. sum(f, image(s)) = f[new[x]] + sum(f, image(s) \ {new[x]})
      BY <1>1
    <3>2. image(s) \ {new[x]} = image(s \ {x})
      BY <1>2
    <3> QED
      BY <3>1, <3>2
  <2>2. sum(g, s) = g[x] + sum(g, s \ {x})
    BY <1>1
  <2>3. sum(f, image(s \ {x})) = sum(g, s \ {x}) /\ f[new[x]] = g[x]
    BY <1>4
  <2>4. sum(f, image(s)) = sum(g, s)
    BY <2>1, <2>2, <2>3
  <2> QED
    BY <2>4
<1>5. S \in Good
  <2> HIDE DEF Good
  <2> QED
    BY <1>3, <1>4, AllSubsets
<1> QED
  BY <1>5 DEF sum, image

(* A column of naturals: no part of a sum is more than the whole.          *)
LEMMA SumOfNaturals ==
    ASSUME NEW f, NEW S, IsFiniteSet(S), \A x \in S : f[x] \in Nat
    PROVE  /\ SumFunction(Restrict(f, S)) \in Nat
           /\ (\A x \in S : f[x] = 0) => SumFunction(Restrict(f, S)) = 0
<1> DEFINE sum(s) == SumFunction(Restrict(f, s))
           Good == {s \in SUBSET S : sum(s) \in Nat /\ ((\A x \in s : f[x] = 0) => sum(s) = 0)}
<1>1. ASSUME NEW s \in SUBSET S
      PROVE  (s = {} => sum(s) = 0) /\ \A x \in s : sum(s) = f[x] + sum(s \ {x})
  <2>1. IsFiniteSet(s) /\ \A x \in s : f[x] \in Int
    BY FS_Subset
  <2> QED
    BY <2>1, SumOfPart
<1> HIDE DEF sum
<1>2. {} \in Good
  BY <1>1
<1>3. ASSUME NEW s \in SUBSET S, NEW x \in s, s \ {x} \in Good PROVE s \in Good
  <2>1. sum(s) = f[x] + sum(s \ {x}) /\ f[x] \in Nat
    BY <1>1
  <2>2. sum(s \ {x}) \in Nat /\ ((\A y \in s \ {x} : f[y] = 0) => sum(s \ {x}) = 0)
    BY <1>3
  <2>3. sum(s) \in Nat
    BY <2>1, <2>2
  <2>4. (\A y \in s : f[y] = 0) => sum(s) = 0
    BY <2>1, <2>2
  <2> QED
    BY <2>3, <2>4
<1>4. S \in Good
  <2> HIDE DEF Good
  <2> QED
    BY <1>2, <1>3, AllSubsets
<1> QED
  BY <1>4 DEF sum

(* Marking some rows with one, the sum is their number.                    *)
LEMMA SumOfOnes ==
    ASSUME NEW f, NEW S, IsFiniteSet(S), NEW A \in SUBSET S,
           \A x \in S : f[x] = IF x \in A THEN 1 ELSE 0
    PROVE  SumFunction(Restrict(f, S)) = Cardinality(A)
<1> DEFINE sum(s) == SumFunction(Restrict(f, s))
           Good == {s \in SUBSET S : sum(s) = Cardinality(A \cap s)}
<1>1. ASSUME NEW s \in SUBSET S
      PROVE  /\ s = {} => sum(s) = 0
             /\ \A x \in s : sum(s) = f[x] + sum(s \ {x})
             /\ IsFiniteSet(A \cap s)
  <2>1. IsFiniteSet(s) /\ \A x \in s : f[x] \in Int
    BY FS_Subset
  <2> QED
    BY <2>1, SumOfPart, FS_Subset
<1> HIDE DEF sum
<1>2. {} \in Good
  <2>1. A \cap {} = {}
    OBVIOUS
  <2> QED
    BY <1>1, <2>1, FS_EmptySet
<1>3. ASSUME NEW s \in SUBSET S, NEW x \in s, s \ {x} \in Good PROVE s \in Good
  <2>1. sum(s) = f[x] + Cardinality(A \cap (s \ {x}))
    BY <1>1, <1>3
  <2>2. Cardinality(A \cap s) \in Nat
    BY <1>1, FS_CardinalityType
  <2>3. CASE x \in A
    <3>1. A \cap (s \ {x}) = (A \cap s) \ {x} /\ x \in A \cap s
      BY <2>3
    <3>2. Cardinality(A \cap (s \ {x})) = Cardinality(A \cap s) - 1
      BY <1>1, <3>1, FS_RemoveElement
    <3>3. f[x] = 1
      BY <2>3
    <3>4. sum(s) = Cardinality(A \cap s)
      BY <2>1, <2>2, <3>2, <3>3
    <3> QED
      BY <3>4
  <2>4. CASE x \notin A
    <3>1. A \cap (s \ {x}) = A \cap s /\ f[x] = 0
      BY <2>4
    <3>2. sum(s) = Cardinality(A \cap s)
      BY <2>1, <2>2, <3>1
    <3> QED
      BY <3>2
  <2> QED
    BY <2>3, <2>4
<1>4. \A s \in SUBSET S : s \in Good
  <2> HIDE DEF Good
  <2> QED
    BY <1>2, <1>3, AllSubsets
<1>5. A \cap S = A
  OBVIOUS
<1> QED
  BY <1>4, <1>5 DEF sum

(* Where a column is zero, nothing is added.                               *)
LEMMA SumOfSome ==
    ASSUME NEW f, NEW S, IsFiniteSet(S), \A x \in S : f[x] \in Int,
           NEW A \in SUBSET S, \A x \in S \ A : f[x] = 0
    PROVE  SumFunction(Restrict(f, S)) = SumFunction(Restrict(f, A))
<1>1. IsFiniteSet(S \ A) /\ IsFiniteSet(A)
  BY FS_Subset
<1>2. SumFunction(Restrict(f, S \ A)) = 0
  BY <1>1, SumOfNaturals
<1>3. SumFunction(Restrict(f, A)) \in Int
  BY <1>1, SumOfPart
<1> QED
  BY <1>2, <1>3, SumSplits

=============================================================================
