-------------------------- MODULE SilentSendProofs --------------------------
(***************************************************************************)
(* Proofs about SilentSend, for any field, any hash functions, any coins,  *)
(* amounts and fee rates.                                                  *)
(***************************************************************************)
EXTENDS SilentSend, LedgerProofs

-----------------------------------------------------------------------------
(* Sums of functions.                                                      *)

\* The sum of the values of a function.
Sigma(v) == (CHOOSE it : AddsUp(it, v, DOMAIN v))[DOMAIN v]

LEMMA SigmaIs ==
    ASSUME NEW v, IsFiniteSet(DOMAIN v)
    PROVE  \E it : AddsUp(it, v, DOMAIN v) /\ Sigma(v) = it[DOMAIN v]
<1>1. \E it : AddsUp(it, v, DOMAIN v)
  BY SumExists
<1> QED
  BY <1>1 DEF Sigma

\* A sum over part of the domain is within the sum of all.
LEMMA SigmaMono ==
    ASSUME NEW S, IsFiniteSet(S), NEW v \in [S -> Nat], NEW R \in SUBSET S
    PROVE  /\ Sigma(v) \in Nat
           /\ Sigma([x \in R |-> v[x]]) \in Nat
           /\ Sigma([x \in R |-> v[x]]) <= Sigma(v)
<1> DEFINE w == [x \in R |-> v[x]]
<1>1. IsFiniteSet(R) /\ DOMAIN v = S /\ DOMAIN w = R
  BY FS_Subset
<1>2. PICK it : AddsUp(it, v, S) /\ Sigma(v) = it[S]
  BY <1>1, SigmaIs
<1>3. PICK jt : AddsUp(jt, w, R) /\ Sigma(w) = jt[R]
  BY <1>1, SigmaIs
<1>4. (\A x \in R : v[x] = w[x]) /\ \A x \in S : v[x] \in Nat
  OBVIOUS
<1> HIDE DEF w
<1>5. it[R] = jt[R]
  BY <1>1, <1>2, <1>3, <1>4, SumSame
<1>6. it[R] <= it[S]
  BY <1>2, <1>4, SumMono
<1>7. it[R] \in Nat /\ it[S] \in Nat
  BY <1>2, <1>4, SumFacts
<1> QED
  BY <1>2, <1>3, <1>5, <1>6, <1>7 DEF w

\* One value more.
LEMMA SigmaAdd ==
    ASSUME NEW S, IsFiniteSet(S), NEW v \in [S -> Nat], NEW x \in S
    PROVE  Sigma(v) = Sigma([y \in S \ {x} |-> v[y]]) + v[x]
<1> DEFINE R == S \ {x}
           w == [y \in R |-> v[y]]
<1>1. IsFiniteSet(R) /\ DOMAIN v = S /\ DOMAIN w = R
  BY FS_Subset
<1>2. PICK it : AddsUp(it, v, S) /\ Sigma(v) = it[S]
  BY <1>1, SigmaIs
<1>3. PICK jt : AddsUp(jt, w, R) /\ Sigma(w) = jt[R]
  BY <1>1, SigmaIs
<1>4. (\A y \in R : v[y] = w[y]) /\ \A y \in S : v[y] \in Nat
  OBVIOUS
<1>5. R \in SUBSET S /\ x \in S \ R /\ R \cup {x} = S
  OBVIOUS
<1> HIDE DEF w, R
<1>6. it[R] = jt[R]
  BY <1>1, <1>2, <1>3, <1>4, <1>5, SumSame
<1>7. it[R \cup {x}] = it[R] + v[x]
  BY <1>2, <1>4, <1>5, SumFacts
<1> QED
  BY <1>2, <1>3, <1>5, <1>6, <1>7 DEF w, R

LEMMA SigmaEmpty == ASSUME NEW v, DOMAIN v = {} PROVE Sigma(v) = 0
<1>1. IsFiniteSet({})
  BY FS_EmptySet
<1>2. PICK it : AddsUp(it, v, {}) /\ Sigma(v) = it[{}]
  BY <1>1, SigmaIs
<1> QED
  BY <1>1, <1>2, SumFacts

\* The order of the values does not matter.
LEMMA SigmaPermuted ==
    ASSUME NEW S, IsFiniteSet(S), NEW D, NEW v \in [S -> Nat], NEW p \in Bijection(D, S)
    PROVE  Sigma([i \in D |-> v[p[i]]]) = Sigma(v)
<1> DEFINE V(R) == [x \in R |-> v[x]]
           W(E) == [i \in E |-> v[p[i]]]
           Image(E) == {p[i] : i \in E}
           T == {n \in Nat : \A E \in SUBSET D : IsFiniteSet(E) /\ Cardinality(E) = n =>
                                Sigma(W(E)) = Sigma(V(Image(E)))}
<1>0. /\ p \in [D -> S] /\ \A i, j \in D : p[i] = p[j] => i = j
      /\ \A x \in S : \E i \in D : p[i] = x
  BY DEF Bijection, Injection, Surjection, IsInjective
<1>1. IsFiniteSet(D)
  BY FS_Injection DEF Bijection
<1>2. 0 \in T
  <2>1. ASSUME NEW E \in SUBSET D, IsFiniteSet(E), Cardinality(E) = 0
        PROVE  Sigma(W(E)) = Sigma(V(Image(E)))
    <3>1. E = {}
      BY <2>1, FS_EmptySet
    <3>2. DOMAIN W(E) = {} /\ DOMAIN V(Image(E)) = {}
      BY <3>1
    <3> HIDE DEF W, V
    <3>3. Sigma(W(E)) = 0 /\ Sigma(V(Image(E))) = 0
      BY <3>2, SigmaEmpty
    <3> QED
      BY <3>3
  <2> QED
    BY <2>1
<1>3. ASSUME NEW n \in T PROVE n + 1 \in T
  <2>1. ASSUME NEW E \in SUBSET D, IsFiniteSet(E), Cardinality(E) = n + 1
        PROVE  Sigma(W(E)) = Sigma(V(Image(E)))
    <3>1. PICK e \in E : TRUE
      <4>1. n \in Nat
        BY <1>3
      <4> QED
        BY <2>1, <4>1, FS_EmptySet
    <3> DEFINE F == E \ {e}
    <3>2. F \in SUBSET D /\ IsFiniteSet(F) /\ Cardinality(F) = n
      <4>1. n \in Nat
        BY <1>3
      <4>2. IsFiniteSet(F) /\ Cardinality(F) = Cardinality(E) - 1
        BY <2>1, <3>1, FS_RemoveElement
      <4> QED
        BY <2>1, <4>1, <4>2
    <3>3. Sigma(W(F)) = Sigma(V(Image(F)))
      BY <3>2
    <3>4. Image(E) \ {p[e]} = Image(F) /\ p[e] \in Image(E) /\ Image(E) \subseteq S
      <4>1. \A i \in E : i # e => p[i] # p[e]
        BY <1>0, <3>1
      <4> QED
        BY <1>0, <3>1, <4>1
    <3>5. Sigma(W(E)) = Sigma(W(F)) + v[p[e]]
      <4>1. W(E) \in [E -> Nat]
        BY <1>0
      <4>2. [i \in E \ {e} |-> W(E)[i]] = W(F) /\ W(E)[e] = v[p[e]]
        BY <3>1
      <4> HIDE DEF W, F
      <4>3. Sigma(W(E)) = Sigma([i \in E \ {e} |-> W(E)[i]]) + W(E)[e]
        BY <2>1, <3>1, <4>1, SigmaAdd
      <4> QED
        BY <4>2, <4>3
    <3>6. Sigma(V(Image(E))) = Sigma(V(Image(F))) + v[p[e]]
      <4> DEFINE R == Image(E)
      <4>1. V(R) \in [R -> Nat]
        BY <3>4
      <4>2. [x \in R \ {p[e]} |-> V(R)[x]] = V(Image(F)) /\ V(R)[p[e]] = v[p[e]]
        BY <3>4
      <4>3. IsFiniteSet(R)
        BY <3>4, FS_Subset
      <4>4. p[e] \in R
        BY <3>4
      <4> HIDE DEF V, F, R, Image
      <4>5. Sigma(V(R)) = Sigma([x \in R \ {p[e]} |-> V(R)[x]]) + V(R)[p[e]]
        BY <4>1, <4>3, <4>4, SigmaAdd
      <4> QED
        BY <4>2, <4>5 DEF R
    <3> QED
      BY <3>3, <3>5, <3>6
  <2> QED
    BY <1>3, <2>1
<1>4. T = Nat
  <2> HIDE DEF T
  <2>1. T \in SUBSET Nat
    BY DEF T
  <2> QED
    BY <1>2, <1>3, <2>1, Induct
<1>5. Cardinality(D) \in T
  BY <1>1, <1>4, FS_CardinalityType
<1>6. Sigma(W(D)) = Sigma(V(Image(D)))
  BY <1>1, <1>5
<1>7. Image(D) = S
  BY <1>0
<1>8. V(S) = v
  OBVIOUS
<1> QED
  BY <1>6, <1>7, <1>8

-----------------------------------------------------------------------------
(* Coin selection.                                                         *)

LEMMA WorthIs ==
    ASSUME NEW S, IsFiniteSet(S)
    PROVE  Worth(S) = Sigma([c \in S |-> c.sats])
<1> DEFINE v == [c \in S |-> c.sats]
           Iter(it) == it = [s \in SUBSET S |-> IF s = {} THEN 0
                                ELSE (CHOOSE x \in s : TRUE).sats
                                     + it[s \ {CHOOSE x \in s : TRUE}]]
<1>1. Worth(S) = (CHOOSE it : Iter(it))[S]
  BY DEF Worth, MapThenSumSet, MapThenFoldSet
<1>2. ASSUME NEW it PROVE AddsUp(it, v, S) <=> Iter(it)
  BY DEF AddsUp
<1>3. (CHOOSE it : Iter(it)) = (CHOOSE it : AddsUp(it, v, S))
  <2> HIDE DEF Iter, v
  <2> QED
    BY <1>2, Zenon
<1>4. DOMAIN v = S
  OBVIOUS
<1> QED
  BY <1>1, <1>3, <1>4 DEF Sigma

LEMMA WorthFacts ==
    ASSUME NEW S, IsFiniteSet(S), \A c \in S : c.sats \in Nat
    PROVE  /\ Worth(S) \in Nat
           /\ \A R \in SUBSET S : Worth(R) \in Nat /\ Worth(R) <= Worth(S)
           /\ \A c \in S : Worth(S) = Worth(S \ {c}) + c.sats
<1> DEFINE v == [c \in S |-> c.sats]
<1>1. v \in [S -> Nat] /\ Worth(S) = Sigma(v)
  BY WorthIs
<1>2. ASSUME NEW R \in SUBSET S
      PROVE  Worth(R) = Sigma([c \in R |-> v[c]])
  <2>1. IsFiniteSet(R)
    BY FS_Subset
  <2>2. [c \in R |-> v[c]] = [c \in R |-> c.sats]
    OBVIOUS
  <2> QED
    BY <2>1, <2>2, WorthIs
<1>3. \A c \in S : v[c] = c.sats
  OBVIOUS
<1> HIDE DEF v
<1>4. ASSUME NEW R \in SUBSET S PROVE Worth(S) \in Nat /\ Worth(R) \in Nat /\ Worth(R) <= Worth(S)
  BY <1>1, <1>2, SigmaMono
<1>5. Worth(S) \in Nat
  BY <1>4
<1>6. ASSUME NEW c \in S PROVE Worth(S) = Worth(S \ {c}) + c.sats
  <2>1. Sigma(v) = Sigma([y \in S \ {c} |-> v[y]]) + v[c]
    BY <1>1, SigmaAdd
  <2>2. Worth(S \ {c}) = Sigma([y \in S \ {c} |-> v[y]])
    BY <1>2
  <2> QED
    BY <1>1, <1>3, <2>1, <2>2
<1> QED
  BY <1>4, <1>5, <1>6

Descending(s) == \A i, j \in DOMAIN s : i < j => s[i].sats >= s[j].sats

\* A nonempty set of coins has a smallest one.
LEMMA SmallestCoin ==
    ASSUME NEW S, S # {}, \A c \in S : c.sats \in Nat
    PROVE  \E c \in S : \A d \in S : c.sats <= d.sats
<1> DEFINE A == {c.sats : c \in S}
<1>1. A \subseteq Nat /\ A # {}
  OBVIOUS
<1>2. PICK a \in A : \A b \in A : ~(<<b, a>> \in OpToRel(<, Nat))
  <2> HIDE DEF A
  <2> QED
    BY <1>1, NatLessThanWellFounded, WFMin
<1>3. \A b \in A : a <= b
  <2> HIDE DEF A
  <2>1. a \in Nat /\ \A b \in A : b \in Nat /\ ~(b < a)
    BY <1>1, <1>2 DEF OpToRel
  <2> QED
    BY <2>1
<1> QED
  BY <1>2, <1>3

\* Any finite set of coins can be put in order.
LEMMA SortedExists ==
    ASSUME NEW S, IsFiniteSet(S), \A c \in S : c.sats \in Nat
    PROVE  \E s \in SetToSeqs(S) : Descending(s)
<1> DEFINE T == {n \in Nat : \A R \in SUBSET S : Cardinality(R) = n => \E s \in SetToSeqs(R) : Descending(s)}
<1>0. \A R \in SUBSET S : IsFiniteSet(R) /\ Cardinality(R) \in Nat
  BY FS_Subset, FS_CardinalityType
<1>1. 0 \in T
  <2>1. ASSUME NEW R \in SUBSET S, Cardinality(R) = 0 PROVE \E s \in SetToSeqs(R) : Descending(s)
    <3> DEFINE s == [i \in 1..0 |-> 0]
    <3>1. s \in SetToSeqs(R)
      BY <2>1 DEF SetToSeqs
    <3>2. Descending(s)
      BY DEF Descending
    <3> QED
      BY <3>1, <3>2
  <2> QED
    BY <2>1
<1>2. ASSUME NEW n \in T PROVE n + 1 \in T
  <2>1. ASSUME NEW R \in SUBSET S, Cardinality(R) = n + 1 PROVE \E s \in SetToSeqs(R) : Descending(s)
    <3>0. n \in Nat
      BY <1>2
    <3>1. PICK c \in R : \A d \in R : c.sats <= d.sats
      <4>1. R # {}
        BY <1>0, <2>1, <3>0, FS_EmptySet
      <4> QED
        BY <2>1, <4>1, SmallestCoin
    <3>2. R \ {c} \in SUBSET S /\ Cardinality(R \ {c}) = n
      <4>1. Cardinality(R \ {c}) = Cardinality(R) - 1
        BY <1>0, <2>1, <3>1, FS_RemoveElement
      <4> QED
        BY <2>1, <3>0, <4>1
    <3>3. PICK s \in SetToSeqs(R \ {c}) : Descending(s)
      BY <3>2
    <3>4. /\ s \in [1..n -> R \ {c}]
          /\ \A i, j \in 1..n : i # j => s[i] # s[j]
          /\ \A i, j \in 1..n : i < j => s[i].sats >= s[j].sats
      BY <3>2, <3>3 DEF SetToSeqs, Descending
    <3> DEFINE t == [i \in 1..(n + 1) |-> IF i <= n THEN s[i] ELSE c]
    <3>5. t \in SetToSeqs(R)
      <4>1. t \in [1..(n + 1) -> R]
        BY <3>0, <3>1, <3>4
      <4>2. \A i, j \in 1..(n + 1) : i # j => t[i] # t[j]
        BY <3>0, <3>1, <3>4
      <4> HIDE DEF t
      <4> QED
        BY <2>1, <4>1, <4>2 DEF SetToSeqs
    <3>6. Descending(t)
      <4>1. \A d \in R : d.sats \in Nat
        BY <2>1
      <4>2. ASSUME NEW i \in 1..(n + 1), NEW j \in 1..(n + 1), i < j PROVE t[i].sats >= t[j].sats
        <5>1. i \in 1..n /\ t[i] = s[i] /\ s[i] \in R
          BY <3>0, <3>4, <4>2
        <5>2. CASE j \in 1..n
          BY <3>4, <4>2, <5>1, <5>2
        <5>3. CASE j = n + 1
          <6>1. t[j] = c
            BY <3>0, <5>3
          <6> HIDE DEF t
          <6> QED
            BY <3>1, <4>1, <5>1, <6>1
        <5> QED
          BY <3>0, <5>2, <5>3
      <4>3. DOMAIN t = 1..(n + 1)
        OBVIOUS
      <4> HIDE DEF t
      <4> QED
        BY <4>2, <4>3 DEF Descending
    <3> HIDE DEF t
    <3> QED
      BY <3>5, <3>6
  <2> QED
    BY <1>2, <2>1
<1>3. T = Nat
  <2> HIDE DEF T
  <2>1. T \in SUBSET Nat
    BY DEF T
  <2> QED
    BY <1>1, <1>2, <2>1, Induct
<1>4. Cardinality(S) \in T
  BY <1>0, <1>3
<1> QED
  BY <1>4

\* The first n coins of the order.
First(s, n) == {s[i] : i \in 1..n}

LEMMA LargestFirstFacts ==
    ASSUME NEW S, IsFiniteSet(S), \A c \in S : c.sats \in Nat, NEW s, s = LargestFirst(S)
    PROVE  /\ s \in [1..Cardinality(S) -> S] /\ Len(s) = Cardinality(S) /\ Cardinality(S) \in Nat
           /\ \A i, j \in 1..Cardinality(S) : i # j => s[i] # s[j]
           /\ \A i, j \in 1..Cardinality(S) : i < j => s[i].sats >= s[j].sats
           /\ \A c \in S : \E i \in 1..Cardinality(S) : s[i] = c
<1>0. Cardinality(S) \in Nat
  BY FS_CardinalityType
<1>1. s \in SetToSeqs(S) /\ Descending(s)
  <2>1. \E t \in SetToSeqs(S) : Descending(t)
    BY SortedExists
  <2>2. s = CHOOSE t \in SetToSeqs(S) : Descending(t)
    BY DEF LargestFirst, Descending
  <2> QED
    BY <2>1, <2>2
<1>2. /\ s \in [1..Cardinality(S) -> S]
      /\ \A i, j \in 1..Cardinality(S) : i # j => s[i] # s[j]
      /\ \A i, j \in 1..Cardinality(S) : i < j => s[i].sats >= s[j].sats
  BY <1>1 DEF SetToSeqs, Descending
<1>3. s \in Injection(1..Cardinality(S), S)
  BY <1>2 DEF Injection, IsInjective
<1>4. s \in Surjection(1..Cardinality(S), S)
  <2>1. Cardinality(1..Cardinality(S)) = Cardinality(S)
    BY <1>0, FS_Interval
  <2> QED
    BY <1>3, <2>1, FS_Injection
<1>5. \A c \in S : \E i \in 1..Cardinality(S) : s[i] = c
  BY <1>4 DEF Surjection
<1>6. Len(s) = Cardinality(S)
  BY <1>0, <1>2
<1> QED
  BY <1>0, <1>2, <1>5, <1>6

\* The first n coins are n coins.
LEMMA FirstFacts ==
    ASSUME NEW S, IsFiniteSet(S), \A c \in S : c.sats \in Nat, NEW s, s = LargestFirst(S),
           NEW n \in 0..Cardinality(S)
    PROVE  First(s, n) \in SUBSET S /\ IsFiniteSet(First(s, n)) /\ Cardinality(First(s, n)) = n
<1>1. /\ s \in [1..Cardinality(S) -> S] /\ Cardinality(S) \in Nat
      /\ \A i, j \in 1..Cardinality(S) : i # j => s[i] # s[j]
  BY LargestFirstFacts
<1>2. First(s, n) \in SUBSET S
  BY <1>1 DEF First
<1> DEFINE f == [i \in 1..n |-> s[i]]
<1>3. f \in Bijection(1..n, First(s, n))
  BY <1>1 DEF Bijection, Injection, Surjection, IsInjective, First
<1>4. IsFiniteSet(1..n) /\ Cardinality(1..n) = n
  BY FS_Interval
<1>5. IsFiniteSet(First(s, n)) /\ Cardinality(First(s, n)) = Cardinality(1..n)
  <2> HIDE DEF f
  <2>1. ExistsBijection(1..n, First(s, n))
    BY <1>3 DEF ExistsBijection
  <2> QED
    BY <1>4, <2>1, FS_Bijection
<1> QED
  BY <1>2, <1>4, <1>5

\* No n coins are worth more than the first n.
LEMMA Greedy ==
    ASSUME NEW S, IsFiniteSet(S), \A c \in S : c.sats \in Nat, NEW s, s = LargestFirst(S),
           NEW R \in SUBSET S
    PROVE  Worth(R) <= Worth(First(s, Cardinality(R)))
<1> DEFINE T == {n \in Nat : \A r \in SUBSET S : Cardinality(r) = n => Worth(r) <= Worth(First(s, n))}
<1>0. /\ s \in [1..Cardinality(S) -> S] /\ Cardinality(S) \in Nat
      /\ \A i, j \in 1..Cardinality(S) : i < j => s[i].sats >= s[j].sats
      /\ \A c \in S : \E i \in 1..Cardinality(S) : s[i] = c
      /\ \A i, j \in 1..Cardinality(S) : i # j => s[i] # s[j]
  BY LargestFirstFacts
<1>1. \A r \in SUBSET S : /\ IsFiniteSet(r) /\ Cardinality(r) \in Nat /\ Cardinality(r) <= Cardinality(S)
                          /\ Worth(r) \in Nat
  BY FS_Subset, FS_CardinalityType, WorthFacts
<1>2. 0 \in T
  <2>1. ASSUME NEW r \in SUBSET S, Cardinality(r) = 0 PROVE Worth(r) <= Worth(First(s, 0))
    <3>1. r = {} /\ First(s, 0) = {}
      BY <1>1, <2>1, FS_EmptySet DEF First
    <3> QED
      BY <1>1, <3>1
  <2> QED
    BY <2>1
<1>3. ASSUME NEW n \in T PROVE n + 1 \in T
  <2>0. n \in Nat
    BY <1>3
  <2>1. ASSUME NEW r \in SUBSET S, Cardinality(r) = n + 1 PROVE Worth(r) <= Worth(First(s, n + 1))
    <3>0. n \in 0..Cardinality(S) /\ n + 1 \in 0..Cardinality(S) /\ n + 1 \in 1..Cardinality(S)
      BY <1>0, <1>1, <2>0, <2>1
    <3>1. PICK y \in r : y \notin First(s, n)
      <4>1. IsFiniteSet(First(s, n)) /\ Cardinality(First(s, n)) = n
        BY <3>0, FirstFacts
      <4>2. ~(r \subseteq First(s, n))
        <5>1. ASSUME r \subseteq First(s, n) PROVE FALSE
          <6>1. Cardinality(r) <= n
            BY <4>1, <5>1, FS_Subset
          <6> QED
            BY <2>0, <2>1, <6>1
        <5> QED
          BY <5>1
      <4> QED
        BY <4>2
    <3>2. PICK j \in 1..Cardinality(S) : s[j] = y
      BY <1>0, <2>1
    <3>3. j >= n + 1
      BY <2>0, <3>1, <3>2 DEF First
    <3>4. y.sats <= s[n + 1].sats /\ y.sats \in Nat /\ s[n + 1] \in S /\ s[n + 1].sats \in Nat
      <4>1. s[n + 1] \in S /\ y \in S
        BY <1>0, <2>1, <3>0
      <4>2. CASE j = n + 1
        BY <3>2, <4>1, <4>2
      <4>3. CASE j # n + 1
        <5>1. s[n + 1].sats >= s[j].sats
          BY <1>0, <2>0, <3>0, <3>3, <4>3
        <5> QED
          BY <3>2, <4>1, <5>1
      <4> QED
        BY <4>2, <4>3
    <3>5. r \ {y} \in SUBSET S /\ Cardinality(r \ {y}) = n
      <4>1. Cardinality(r \ {y}) = Cardinality(r) - 1
        BY <1>1, <2>1, FS_RemoveElement
      <4> QED
        BY <2>0, <2>1, <4>1
    <3>6. Worth(r \ {y}) <= Worth(First(s, n))
      BY <3>5
    <3>7. Worth(r) = Worth(r \ {y}) + y.sats
      <4>1. IsFiniteSet(r) /\ \A c \in r : c.sats \in Nat
        BY <1>1, <2>1
      <4> QED
        BY <4>1, WorthFacts
    <3>8. Worth(First(s, n + 1)) = Worth(First(s, n)) + s[n + 1].sats
      <4> DEFINE F == First(s, n + 1)
      <4>1. F \in SUBSET S /\ IsFiniteSet(F)
        BY <3>0, FirstFacts
      <4>2. s[n + 1] \in F
        BY <2>0 DEF First
      <4>3. F \ {s[n + 1]} = First(s, n)
        <5>1. \A i \in 1..n : i \in 1..Cardinality(S) /\ s[i] # s[n + 1]
          BY <1>0, <2>0, <3>0
        <5>2. \A i \in 1..(n + 1) : i \in 1..n \/ i = n + 1
          BY <2>0
        <5>3. \A i \in 1..n : i \in 1..(n + 1)
          BY <2>0
        <5> QED
          BY <5>1, <5>2, <5>3 DEF First
      <4>4. \A c \in F : c.sats \in Nat
        BY <4>1
      <4> HIDE DEF F
      <4>5. Worth(F) = Worth(F \ {s[n + 1]}) + s[n + 1].sats
        BY <4>1, <4>2, <4>4, WorthFacts
      <4> QED
        BY <4>3, <4>5 DEF F
    <3>9. Worth(r \ {y}) \in Nat /\ Worth(First(s, n)) \in Nat
      BY <1>1, <3>0, <3>5, FirstFacts
    <3> QED
      BY <3>4, <3>6, <3>7, <3>8, <3>9
  <2> QED
    BY <2>0, <2>1
<1>4. T = Nat
  <2> HIDE DEF T
  <2>1. T \in SUBSET Nat
    BY DEF T
  <2> QED
    BY <1>2, <1>3, <2>1, Induct
<1>5. Cardinality(R) \in T
  BY <1>1, <1>4
<1> QED
  BY <1>5

\* A nonempty set of naturals has a least element, and Min finds it.
LEMMA MinFacts ==
    ASSUME NEW A \in SUBSET Nat, A # {}
    PROVE  Min(A) \in A /\ \A a \in A : Min(A) <= a
<1>1. PICK a \in A : \A b \in A : ~(<<b, a>> \in OpToRel(<, Nat))
  BY NatLessThanWellFounded, WFMin
<1>2. \A b \in A : a <= b
  <2>1. a \in Nat /\ \A b \in A : b \in Nat /\ ~(b < a)
    BY <1>1 DEF OpToRel
  <2> QED
    BY <2>1
<1>3. \E x \in A : \A y \in A : x <= y
  BY <1>2
<1> QED
  BY <1>3 DEF Min

\* What chain::select_largest_first returns: enough with as few coins as possible,
\* or nothing when no subset is enough.
Selection(res, S, sats, fr, prefunded, pinned) ==
    /\ res.ok \in BOOLEAN /\ res.coins \in SUBSET S
    /\ res.ok => /\ prefunded + Worth(res.coins)
                         >= target(sats, fr, Cardinality(res.coins), pinned)
                 /\ \A R \in SUBSET S :
                       prefunded + Worth(R) >= target(sats, fr, Cardinality(R), pinned)
                           => Cardinality(res.coins) <= Cardinality(R)
    /\ ~res.ok => \A R \in SUBSET S :
                     ~(prefunded + Worth(R) >= target(sats, fr, Cardinality(R), pinned))

LEMMA SelectFacts ==
    ASSUME NEW S, IsFiniteSet(S), \A c \in S : c.sats \in Nat,
           NEW sats \in Nat, NEW fr \in Nat, NEW prefunded \in Nat, NEW pinned \in Nat,
           NEW res, res = select_largest_first(S, sats, fr, prefunded, pinned)
    PROVE  Selection(res, S, sats, fr, prefunded, pinned)
<1> DEFINE s == LargestFirst(S)
           enough == {n \in 0..Len(s) : prefunded + Worth(First(s, n)) >= target(sats, fr, n, pinned)}
<1>1. /\ res.ok = (enough # {})
      /\ res.coins = IF enough = {} THEN {} ELSE First(s, Min(enough))
  BY DEF select_largest_first, First
<1>2. Len(s) = Cardinality(S) /\ Cardinality(S) \in Nat
  BY LargestFirstFacts
<1>3. ASSUME NEW R \in SUBSET S,
             prefunded + Worth(R) >= target(sats, fr, Cardinality(R), pinned)
      PROVE  Cardinality(R) \in enough
  <2>1. IsFiniteSet(R) /\ Cardinality(R) \in 0..Cardinality(S)
    BY <1>2, FS_Subset, FS_CardinalityType
  <2>2. Worth(R) <= Worth(First(s, Cardinality(R)))
    BY Greedy
  <2>3. Worth(R) \in Nat /\ Worth(First(s, Cardinality(R))) \in Nat
    BY <2>1, FirstFacts, WorthFacts
  <2>4. target(sats, fr, Cardinality(R), pinned) \in Int
    BY <2>1, WidthAssumption DEF target, saturating_add
  <2>5. prefunded + Worth(First(s, Cardinality(R))) >= target(sats, fr, Cardinality(R), pinned)
    BY <1>3, <2>2, <2>3, <2>4
  <2> HIDE DEF s
  <2> QED
    BY <1>2, <2>1, <2>5
<1>4. enough # {} => /\ Min(enough) \in enough /\ \A n \in enough : Min(enough) <= n
                     /\ Cardinality(First(s, Min(enough))) = Min(enough)
                     /\ First(s, Min(enough)) \in SUBSET S
  <2>1. enough \in SUBSET Nat
    BY <1>2
  <2>2. enough # {} => Min(enough) \in enough /\ \A n \in enough : Min(enough) <= n
    <3> HIDE DEF enough
    <3> QED
      BY <2>1, MinFacts
  <2>3. enough \subseteq 0..Cardinality(S)
    BY <1>2
  <2>4. ASSUME NEW n \in 0..Cardinality(S)
        PROVE  Cardinality(First(s, n)) = n /\ First(s, n) \in SUBSET S
    BY FirstFacts
  <2> HIDE DEF enough, s
  <2> QED
    BY <2>2, <2>3, <2>4
<1>5. \A n \in enough : prefunded + Worth(First(s, n)) >= target(sats, fr, n, pinned)
  OBVIOUS
<1> HIDE DEF enough, s
<1> QED
  BY <1>1, <1>3, <1>4, <1>5 DEF Selection

-----------------------------------------------------------------------------
(* The inputs of a send.                                                   *)

LEMMA SetToSeqFacts ==
    ASSUME NEW S, IsFiniteSet(S)
    PROVE  /\ SetToSeq(S) \in [1..Cardinality(S) -> S] /\ Cardinality(S) \in Nat
           /\ \A i, j \in 1..Cardinality(S) : SetToSeq(S)[i] = SetToSeq(S)[j] => i = j
<1>1. Cardinality(S) \in Nat /\ ExistsBijection(1..Cardinality(S), S)
  BY FS_CardinalityType
<1>2. PICK f \in [1..Cardinality(S) -> S] : IsInjective(f)
  BY <1>1 DEF ExistsBijection, Bijection, Injection
<1>3. SetToSeq(S) \in [1..Cardinality(S) -> S] /\ IsInjective(SetToSeq(S))
  BY <1>2 DEF SetToSeq
<1> QED
  BY <1>1, <1>3 DEF IsInjective

\* The input that spends a received output, and the one that spends a coin.
SpendsIncome(in, u) ==
    /\ in.outpoint = u.outpoint
    /\ in.point = x_only(spend_keypair(PayerSpend, u.tweak))
    /\ in.key = taproot_input_key(spend_keypair(PayerSpend, u.tweak))
SpendsCoin(in, c) ==
    /\ in.outpoint = c.outpoint
    /\ in.point = x_only(TapTweak(c.leaf))
    /\ in.key = taproot_input_key(TapTweak(c.leaf))

LEMMA SpInputsFacts ==
    ASSUME NEW income, IsFiniteSet(income), NEW chosen, IsFiniteSet(chosen),
           NEW inputs, inputs = SpInputs(income, chosen)
    PROVE  /\ DOMAIN inputs = 1..(Cardinality(income) + Cardinality(chosen))
           /\ Len(inputs) = Cardinality(income) + Cardinality(chosen)
           /\ Cardinality(income) \in Nat /\ Cardinality(chosen) \in Nat
           /\ \A i \in DOMAIN inputs : \/ \E u \in income : SpendsIncome(inputs[i], u)
                                       \/ \E c \in chosen : SpendsCoin(inputs[i], c)
<1> DEFINE received == SetToSeq(income)
           own == SetToSeq(chosen)
           m == Cardinality(income)
           n == Cardinality(chosen)
           In(u) == [outpoint |-> u.outpoint,
                     key |-> taproot_input_key(spend_keypair(PayerSpend, u.tweak)),
                     point |-> x_only(spend_keypair(PayerSpend, u.tweak))]
           Of1(c) == [outpoint |-> c.outpoint, key |-> taproot_input_secret(c.leaf),
                     point |-> x_only(TapTweak(c.leaf))]
           a == [i \in DOMAIN received |-> In(received[i])]
           b == [i \in DOMAIN own |-> Of1(own[i])]
<1>1. /\ received \in [1..m -> income] /\ m \in Nat
      /\ own \in [1..n -> chosen] /\ n \in Nat
  BY SetToSeqFacts
<1>2. inputs = a \o b
  BY DEF SpInputs
<1>3. \A u : SpendsIncome(In(u), u)
  BY DEF SpendsIncome
<1>4. \A c : SpendsCoin(Of1(c), c)
  BY DEF SpendsCoin, taproot_input_secret
<1> HIDE DEF In, Of1, received, own, m, n
<1> DEFINE A == {In(u) : u \in income}
           B == {Of1(c) : c \in chosen}
<1>5. a \in Seq(A) /\ Len(a) = m /\ \A i \in 1..m : a[i] = In(received[i])
  BY <1>1
<1>6. b \in Seq(B) /\ Len(b) = n /\ \A i \in 1..n : b[i] = Of1(own[i])
  BY <1>1
<1> HIDE DEF a, b, A, B
<1>7. a \in Seq(A \cup B) /\ b \in Seq(A \cup B)
  BY <1>5, <1>6
<1>8. /\ Len(a \o b) = m + n /\ DOMAIN (a \o b) = 1..(m + n)
      /\ \A i \in 1..(m + n) : (a \o b)[i] = IF i <= m THEN a[i] ELSE b[i - m]
  BY <1>1, <1>5, <1>6, <1>7
<1>9. ASSUME NEW i \in 1..(m + n)
      PROVE  \/ \E u \in income : SpendsIncome(inputs[i], u)
             \/ \E c \in chosen : SpendsCoin(inputs[i], c)
  <2>1. CASE i <= m
    <3>1. i \in 1..m /\ inputs[i] = In(received[i]) /\ received[i] \in income
      BY <1>1, <1>2, <1>5, <1>8, <2>1
    <3> QED
      BY <1>3, <3>1
  <2>2. CASE ~(i <= m)
    <3>1. i - m \in 1..n
      BY <1>1, <2>2
    <3>2. inputs[i] = Of1(own[i - m]) /\ own[i - m] \in chosen
      BY <1>1, <1>2, <1>6, <1>8, <2>2, <3>1
    <3> QED
      BY <1>4, <3>2
  <2> QED
    BY <2>1, <2>2
<1> QED
  BY <1>1, <1>2, <1>8, <1>9 DEF m, n

-----------------------------------------------------------------------------
(* SelectionSolvent                                                        *)

LEMMA FeerateFacts ==
    ASSUME NEW e \in Estimates, NEW mainnet \in BOOLEAN
    PROVE  recommended_feerate(e, mainnet) \in 1..MAX_FEERATE_SAT_PER_VB
<1> DEFINE known == {n \in {1, 2, 3, 6} : n \in DOMAIN e}
<1>1. known # {} => Max(known) \in known
  <2>1. known # {} => \E x \in known : \A y \in known : x >= y
    OBVIOUS
  <2> HIDE DEF known
  <2> QED
    BY <2>1 DEF Max
<1>2. known # {} => e[Max(known)] \in Nat
  BY <1>1, InputAssumption
<1> DEFINE rate == IF known # {} THEN e[Max(known)] ELSE IF mainnet THEN 6 ELSE 1
<1>3. rate \in Nat
  BY <1>2
<1>4. recommended_feerate(e, mainnet) = clamp_feerate(rate)
  BY DEF recommended_feerate
<1> HIDE DEF rate
<1> QED
  BY <1>3, <1>4 DEF clamp_feerate, MAX_FEERATE_SAT_PER_VB

\* What the selection reckons for n inputs covers bdk's fee without change.
LEMMA FeeCovered ==
    ASSUME NEW n \in Nat, NEW fr \in Nat, fr >= 1
    PROVE  FeeOf(n, 1, fr) \in Nat /\ FeeOf(n, 1, fr) <= fr * (97 + n * 58)
<1> DEFINE m == fr * n
<1>1. m \in Nat
  OBVIOUS
<1>2. fr * (42 + 230 * n + 172 * 1) = 214 * fr + 230 * m /\ fr * (97 + n * 58) = 97 * fr + 58 * m
  OBVIOUS
<1>3. FeeOf(n, 1, fr) = (214 * fr + 230 * m + 3) \div 4
  BY <1>2 DEF FeeOf
<1> HIDE DEF m
<1>4. (214 * fr + 230 * m + 3) \div 4 \in Nat /\ (214 * fr + 230 * m + 3) \div 4 <= 97 * fr + 58 * m
  BY <1>1
<1> QED
  BY <1>2, <1>3, <1>4

\* Enough for the target of the selection is enough for bdk.
LEMMA TargetCovered ==
    ASSUME NEW total \in Nat, total < MaxU64, NEW sats \in Nat, NEW fr \in Nat, fr >= 1,
           NEW n \in Nat, NEW pinned \in Nat, total >= target(sats, fr, n, pinned)
    PROVE  total >= sats + FeeOf(pinned + n, 1, fr)
<1>1. fr * (11 + (n + pinned) * 58 + 43 + 43) = fr * (97 + (pinned + n) * 58)
  OBVIOUS
<1>2. fr * (97 + (pinned + n) * 58) \in Nat
  OBVIOUS
<1> DEFINE fee == fr * (97 + (pinned + n) * 58)
<1>3. target(sats, fr, n, pinned) = IF sats + fee > MaxU64 THEN MaxU64 ELSE sats + fee
  BY <1>1 DEF target, saturating_add
<1>4. FeeOf(pinned + n, 1, fr) \in Nat /\ FeeOf(pinned + n, 1, fr) <= fee
  <2> DEFINE N == pinned + n
  <2>1. N \in Nat
    OBVIOUS
  <2> HIDE DEF N
  <2>2. FeeOf(N, 1, fr) \in Nat /\ FeeOf(N, 1, fr) <= fr * (97 + N * 58)
    BY <2>1, FeeCovered
  <2> QED
    BY <2>2 DEF N
<1> HIDE DEF fee
<1> QED
  BY <1>2, <1>3, <1>4, WidthAssumption DEF fee

\* Some of the wallet's coins are together worth less than the largest amount.
LEMMA WalletFacts ==
    ASSUME NEW coins \in SUBSET Coin, NEW income \in SUBSET Income
    PROVE  /\ IsFiniteSet(coins) /\ \A c \in coins : c.sats \in Nat
           /\ IsFiniteSet(income) /\ Worth(income) \in Nat /\ Cardinality(income) \in Nat
           /\ Worth(coins) \in Nat /\ Worth(income) + Worth(coins) < MaxU64
<1>1. /\ IsFiniteSet(Coin) /\ \A c \in Coin : c.sats \in Nat
      /\ IsFiniteSet(Income) /\ \A c \in Income : c.sats \in Nat
      /\ Worth(Coin) + Worth(Income) < MaxU64
  BY WalletAssumption
<1>2. IsFiniteSet(coins) /\ IsFiniteSet(income) /\ Cardinality(income) \in Nat
  BY <1>1, FS_Subset, FS_CardinalityType
<1>3. Worth(coins) \in Nat /\ Worth(Coin) \in Nat /\ Worth(coins) <= Worth(Coin)
  BY <1>1, WorthFacts
<1>4. Worth(income) \in Nat /\ Worth(Income) \in Nat /\ Worth(income) <= Worth(Income)
  BY <1>1, WorthFacts
<1> QED
  BY <1>1, <1>2, <1>3, <1>4, WidthAssumption

\* How a build ends, by what the selection gave.
LEMMA BuildEnds ==
    ASSUME NEW coins, NEW income, NEW sats, NEW fr,
           build_signed_to_sp(coins, income, sats, fr),
           NEW selected,
           selected = select_largest_first(coins, sats, fr, Worth(income), Cardinality(income)),
           NEW inputs, inputs = SpInputs(income, selected.coins)
    PROVE  /\ phase' = "signed" => selected.ok /\ picked' = selected.coins
           /\ phase' = "no_funds" => ~selected.ok
           /\ phase' = "build" => selected.ok /\ Worth(income) + Worth(selected.coins)
                                                   < sats + FeeOf(Len(inputs), 1, fr)
BY DEF build_signed_to_sp, Refuse

LEMMA SendSolvent == ASSUME sp_send PROVE SelectionSolvent'
<1>1. PICK coins \in SUBSET Coin, income \in SUBSET Income, sats \in Ask, e \in Estimates :
        LET fr == recommended_feerate(e, net = "mainnet")
        IN  /\ asked' = [coins |-> coins, income |-> income, sats |-> sats, rate |-> fr]
            /\ IF sats < SP_MIN_SATS THEN Refuse("too_small")
               ELSE IF decode(encode(net)) # net THEN Refuse("network")
               ELSE build_signed_to_sp(coins, income, sats, fr)
  BY DEF sp_send
<1> DEFINE fr == recommended_feerate(e, net = "mainnet")
           selected == select_largest_first(coins, sats, fr, Worth(income), Cardinality(income))
<1>2. fr \in Nat /\ fr >= 1 /\ sats \in Nat
  <2> DEFINE mainnet == net = "mainnet"
  <2>1. mainnet \in BOOLEAN
    OBVIOUS
  <2> HIDE DEF mainnet
  <2>2. recommended_feerate(e, mainnet) \in 1..MAX_FEERATE_SAT_PER_VB
    BY <2>1, FeerateFacts
  <2>3. fr \in 1..200
    BY <2>2 DEF mainnet, MAX_FEERATE_SAT_PER_VB
  <2>4. sats \in Nat
    BY InputAssumption, WidthAssumption
  <2> HIDE DEF fr
  <2> QED
    BY <2>3, <2>4
<1>3. asked' = [coins |-> coins, income |-> income, sats |-> sats, rate |-> fr]
  BY <1>1
<1>4. /\ IsFiniteSet(coins) /\ \A c \in coins : c.sats \in Nat
      /\ IsFiniteSet(income) /\ Worth(income) \in Nat /\ Cardinality(income) \in Nat
  BY WalletFacts
<1>s. selected = select_largest_first(coins, sats, fr, Worth(income), Cardinality(income))
  OBVIOUS
<1> HIDE DEF fr, selected
<1>5. /\ selected.coins \in SUBSET coins
      /\ selected.ok => /\ Worth(income) + Worth(selected.coins)
                                >= target(sats, fr, Cardinality(selected.coins), Cardinality(income))
                        /\ \A R \in SUBSET coins :
                              Worth(income) + Worth(R) >= target(sats, fr, Cardinality(R), Cardinality(income))
                                  => Cardinality(selected.coins) <= Cardinality(R)
      /\ ~selected.ok => \A R \in SUBSET coins :
                            ~(Worth(income) + Worth(R) >= target(sats, fr, Cardinality(R), Cardinality(income)))
  <2> DEFINE prefunded == Worth(income)
             pinned == Cardinality(income)
  <2>1. prefunded \in Nat /\ pinned \in Nat
    BY <1>4
  <2>2. selected = select_largest_first(coins, sats, fr, prefunded, pinned)
    BY <1>s
  <2> HIDE DEF prefunded, pinned
  <2>3. /\ selected.coins \in SUBSET coins
        /\ selected.ok => /\ prefunded + Worth(selected.coins)
                                 >= target(sats, fr, Cardinality(selected.coins), pinned)
                          /\ \A R \in SUBSET coins :
                                prefunded + Worth(R) >= target(sats, fr, Cardinality(R), pinned)
                                    => Cardinality(selected.coins) <= Cardinality(R)
        /\ ~selected.ok => \A R \in SUBSET coins :
                              ~(prefunded + Worth(R) >= target(sats, fr, Cardinality(R), pinned))
    <3>1. sats \in Nat /\ fr \in Nat /\ IsFiniteSet(coins) /\ \A c \in coins : c.sats \in Nat
      BY <1>2, <1>4
    <3>2. Selection(selected, coins, sats, fr, prefunded, pinned)
      BY ONLY <2>1, <2>2, <3>1, SelectFacts
    <3> QED
      BY <3>2 DEF Selection
  <2> QED
    BY <2>3 DEF prefunded, pinned
<1>6. selected.ok => ~(Worth(income) + Worth(selected.coins)
                           < sats + FeeOf(Len(SpInputs(income, selected.coins)), 1, fr))
  <2>0. SUFFICES ASSUME selected.ok
                 PROVE  ~(Worth(income) + Worth(selected.coins)
                            < sats + FeeOf(Len(SpInputs(income, selected.coins)), 1, fr))
    OBVIOUS
  <2>1. selected.coins \in SUBSET Coin
    BY <1>5
  <2>2. /\ IsFiniteSet(selected.coins) /\ Worth(selected.coins) \in Nat
        /\ Worth(income) + Worth(selected.coins) < MaxU64
    BY <2>1, WalletFacts
  <2>3. Cardinality(selected.coins) \in Nat
    BY <2>2, FS_CardinalityType
  <2>4. Len(SpInputs(income, selected.coins)) = Cardinality(income) + Cardinality(selected.coins)
    BY <1>4, <2>2, SpInputsFacts
  <2> DEFINE total == Worth(income) + Worth(selected.coins)
             n == Cardinality(selected.coins)
             pinned == Cardinality(income)
  <2>5. total \in Nat /\ total < MaxU64 /\ total >= target(sats, fr, n, pinned) /\ n \in Nat /\ pinned \in Nat
    BY <1>4, <1>5, <2>0, <2>2, <2>3
  <2> HIDE DEF total, n, pinned
  <2>6. total >= sats + FeeOf(pinned + n, 1, fr)
    BY <1>2, <2>5, TargetCovered
  <2>7. FeeOf(pinned + n, 1, fr) \in Int
    <3> DEFINE N == pinned + n
    <3>1. N \in Nat
      BY <2>5
    <3> HIDE DEF N
    <3>2. FeeOf(N, 1, fr) \in Nat
      BY <1>2, <3>1, FeeCovered
    <3> QED
      BY <3>2 DEF N
  <2> QED
    BY <1>2, <2>4, <2>5, <2>6, <2>7 DEF total, n, pinned
<1>7. /\ phase' = "signed" => selected.ok /\ picked' = selected.coins
      /\ phase' = "no_funds" => ~selected.ok
      /\ phase' # "build"
  <2>1. CASE sats < SP_MIN_SATS
    BY <1>1, <2>1 DEF Refuse
  <2>2. CASE ~(sats < SP_MIN_SATS) /\ decode(encode(net)) # net
    BY <1>1, <2>2 DEF Refuse
  <2>3. CASE ~(sats < SP_MIN_SATS) /\ decode(encode(net)) = net
    <3>1. build_signed_to_sp(coins, income, sats, fr)
      BY <1>1, <2>3 DEF fr
    <3> QED
      BY <1>6, <3>1, BuildEnds DEF selected
  <2> QED
    BY <2>1, <2>2, <2>3
<1>8. /\ (asked.coins)' = coins /\ (asked.income)' = income
      /\ (asked.sats)' = sats /\ (asked.rate)' = fr
  BY <1>3
<1> QED
  BY <1>5, <1>7, <1>8 DEF SelectionSolvent

\* A send that is built was given enough coins, with as few of them as would do;
\* and a send is refused for want of funds only when no choice of coins pays for it
\* (chain::select_largest_first, chain::build_signed_to_sp).
THEOREM SelectionSolventHolds == Spec => []SelectionSolvent
<1>1. Init => SelectionSolvent
  BY DEF Init, SelectionSolvent
<1>2. ASSUME SelectionSolvent, [Next]_vars PROVE SelectionSolvent'
  <2>1. CASE sp_send
    BY <2>1, SendSolvent
  <2>2. CASE foreign_tx
    BY <2>2 DEF foreign_tx, SelectionSolvent
  <2>3. CASE scan_to_tip
    BY <2>3 DEF scan_to_tip, SelectionSolvent
  <2>4. CASE UNCHANGED vars
    BY <1>2, <2>4 DEF SelectionSolvent, vars
  <2> QED
    BY <1>2, <2>1, <2>2, <2>3, <2>4 DEF Next, Done
<1> QED
  BY <1>1, <1>2, PTL DEF Spec

-----------------------------------------------------------------------------
(* The loop of the receiver.                                               *)

\* One round of sp::receive_inner.
Round(ecdh, outputs, spend_pk, before, k) ==
    LET hits == {o \in outputs : /\ o.key = output_at(ecdh, spend_pk, k - 1).key
                                 /\ \A j \in 1..Len(before) : before[j] # o}
    IN  IF Len(before) < k - 1 \/ hits = {} THEN before
        ELSE Append(before, CHOOSE o \in hits : \A p \in hits : o.vout <= p.vout)

\* The rounds 0 to n.
Rounds(f, ecdh, outputs, spend_pk, n) ==
    f = [k \in 0..n |-> IF k = 0 THEN <<>> ELSE Round(ecdh, outputs, spend_pk, f[k - 1], k)]

LEMMA RoundsExist ==
    ASSUME NEW ecdh, NEW outputs, NEW spend_pk, NEW n \in Nat
    PROVE  \E f : Rounds(f, ecdh, outputs, spend_pk, n)
<1> DEFINE R(b, k) == Round(ecdh, outputs, spend_pk, b, k)
           Upto(f, m) == f = [k \in 0..m |-> IF k = 0 THEN <<>> ELSE R(f[k - 1], k)]
           T == {m \in Nat : \E f : Upto(f, m)}
<1> HIDE DEF R
<1>1. 0 \in T
  <2> DEFINE f == [k \in 0..0 |-> <<>>]
  <2>1. Upto(f, 0)
    OBVIOUS
  <2> QED
    BY <2>1
<1>2. ASSUME NEW m \in T PROVE m + 1 \in T
  <2>0. m \in Nat
    BY <1>2
  <2>1. PICK f : Upto(f, m)
    BY <1>2
  <2> DEFINE g == [k \in 0..(m + 1) |-> IF k = 0 THEN <<>> ELSE R(f[k - 1], k)]
  <2>2. \A k \in 0..m : k \in 0..(m + 1) /\ g[k] = f[k]
    BY <2>0, <2>1
  <2>3. \A k \in 0..(m + 1) : k # 0 => k - 1 \in 0..m /\ g[k - 1] = f[k - 1]
    <3>1. \A k \in 0..(m + 1) : k # 0 => k - 1 \in 0..m
      BY <2>0
    <3> HIDE DEF g
    <3> QED
      BY <2>2, <3>1
  <2>4. Upto(g, m + 1)
    <3>1. g = [k \in 0..(m + 1) |-> IF k = 0 THEN <<>> ELSE R(f[k - 1], k)]
      OBVIOUS
    <3> HIDE DEF g
    <3>2. \A k \in 0..(m + 1) : k # 0 => R(f[k - 1], k) = R(g[k - 1], k)
      BY <2>3
    <3>3. g = [k \in 0..(m + 1) |-> IF k = 0 THEN <<>> ELSE R(g[k - 1], k)]
      BY <3>1, <3>2
    <3> QED
      BY <3>3
  <2>5. \E h : Upto(h, m + 1)
    <3> HIDE DEF g, Upto
    <3> QED
      BY <2>4
  <2> HIDE DEF Upto
  <2> QED
    BY <2>0, <2>5
<1>3. T = Nat
  <2> HIDE DEF T
  <2>1. T \in SUBSET Nat
    BY DEF T
  <2> QED
    BY <1>1, <1>2, <2>1, Induct
<1>4. PICK f : Upto(f, n)
  BY <1>3
<1>5. Rounds(f, ecdh, outputs, spend_pk, n)
  BY <1>4 DEF Rounds, R
<1> QED
  BY <1>5

LEMMA LoopIs ==
    ASSUME NEW ecdh, NEW outputs, NEW spend_pk, Cardinality(outputs) \in Nat
    PROVE  \E f : /\ Rounds(f, ecdh, outputs, spend_pk, Cardinality(outputs))
                  /\ receive_loop(ecdh, outputs, spend_pk) = f[Cardinality(outputs)]
<1>1. receive_loop(ecdh, outputs, spend_pk)
        = (CHOOSE f : Rounds(f, ecdh, outputs, spend_pk, Cardinality(outputs)))[Cardinality(outputs)]
  BY DEF receive_loop, Rounds, Round
<1>2. \E f : Rounds(f, ecdh, outputs, spend_pk, Cardinality(outputs))
  BY RoundsExist
<1> QED
  BY <1>1, <1>2

\* An output that is left over and has the k-th key.
Hit(o, got, ecdh, spend_pk) ==
    o.key = output_at(ecdh, spend_pk, Len(got)).key /\ \A j \in 1..Len(got) : got[j] # o

\* What the rounds have found: outputs with the keys of their places, none twice.
InPlace(got, ecdh, outputs, spend_pk) ==
    /\ got \in Seq(outputs)
    /\ \A i \in 1..Len(got) : got[i].key = output_at(ecdh, spend_pk, i - 1).key
    /\ \A i, j \in 1..Len(got) : got[i] = got[j] => i = j

\* A nonempty set of outputs has a first one.
LEMMA FirstOutput ==
    ASSUME NEW S, S # {}, \A o \in S : o.vout \in Nat
    PROVE  \E o \in S : \A p \in S : o.vout <= p.vout
<1> DEFINE A == {o.vout : o \in S}
<1>1. A \in SUBSET Nat /\ A # {}
  OBVIOUS
<1>2. Min(A) \in A /\ \A a \in A : Min(A) <= a
  <2> HIDE DEF A
  <2> QED
    BY <1>1, MinFacts
<1>3. PICK o \in S : o.vout = Min(A)
  BY <1>2
<1>4. \A p \in S : p.vout \in A
  OBVIOUS
<1> HIDE DEF A
<1> QED
  BY <1>2, <1>3, <1>4

LEMMA RoundFacts ==
    ASSUME NEW ecdh, NEW outputs, NEW spend_pk, \A o \in outputs : o.vout \in Nat,
           NEW k \in Nat, NEW before, InPlace(before, ecdh, outputs, spend_pk),
           Len(before) <= k,
           Len(before) < k => \A o \in outputs : ~Hit(o, before, ecdh, spend_pk),
           NEW after, after = Round(ecdh, outputs, spend_pk, before, k + 1)
    PROVE  /\ InPlace(after, ecdh, outputs, spend_pk)
           /\ Len(after) <= k + 1
           /\ Len(after) < k + 1 => \A o \in outputs : ~Hit(o, after, ecdh, spend_pk)
<1> DEFINE hits == {o \in outputs : /\ o.key = output_at(ecdh, spend_pk, (k + 1) - 1).key
                                    /\ \A j \in 1..Len(before) : before[j] # o}
           first == CHOOSE o \in hits : \A p \in hits : o.vout <= p.vout
<1>0. Len(before) \in Nat /\ before \in Seq(outputs)
  BY DEF InPlace
<1>1. after = IF Len(before) < (k + 1) - 1 \/ hits = {} THEN before ELSE Append(before, first)
  BY DEF Round
<1>2. (k + 1) - 1 = k
  OBVIOUS
<1>3. CASE Len(before) < k
  BY <1>0, <1>1, <1>2, <1>3
<1>4. CASE Len(before) = k /\ hits = {}
  <2>1. after = before
    BY <1>1, <1>4
  <2>2. \A o \in outputs : ~Hit(o, before, ecdh, spend_pk)
    BY <1>2, <1>4 DEF Hit
  <2> QED
    BY <1>0, <1>4, <2>1, <2>2
<1>5. CASE Len(before) = k /\ hits # {}
  <2>1. after = Append(before, first)
    BY <1>1, <1>2, <1>5
  <2>2. first \in hits
    <3>1. \A o \in hits : o.vout \in Nat
      OBVIOUS
    <3> HIDE DEF hits
    <3>2. \E o \in hits : \A p \in hits : o.vout <= p.vout
      BY <1>5, <3>1, FirstOutput
    <3> QED
      BY <3>2
  <2>3. /\ first \in outputs /\ first.key = output_at(ecdh, spend_pk, k).key
        /\ \A j \in 1..Len(before) : before[j] # first
    BY <1>2, <2>2
  <2> HIDE DEF first, hits
  <2>4. /\ after \in Seq(outputs) /\ Len(after) = k + 1 /\ after[k + 1] = first
        /\ \A i \in 1..k : after[i] = before[i]
    BY <1>0, <1>5, <2>1, <2>3
  <2>5. \A i \in 1..(k + 1) : i \in 1..k \/ i = k + 1
    OBVIOUS
  <2>6. \A i \in 1..k : before[i].key = output_at(ecdh, spend_pk, i - 1).key /\ before[i] # first
    BY <1>5, <2>3 DEF InPlace
  <2>7. \A i, j \in 1..k : before[i] = before[j] => i = j
    BY <1>5 DEF InPlace
  <2>8. \A i \in 1..(k + 1) : after[i].key = output_at(ecdh, spend_pk, i - 1).key
    BY <1>2, <2>3, <2>4, <2>5, <2>6
  <2>9. \A i, j \in 1..(k + 1) : after[i] = after[j] => i = j
    BY <2>4, <2>5, <2>6, <2>7
  <2> QED
    BY <2>4, <2>8, <2>9 DEF InPlace
<1> QED
  BY <1>0, <1>3, <1>4, <1>5

\* The search finds the outputs of consecutive keys, and ends at a miss.
LEMMA LoopFacts ==
    ASSUME NEW ecdh, NEW outputs, NEW spend_pk, \A o \in outputs : o.vout \in Nat,
           Cardinality(outputs) \in Nat,
           NEW got, got = receive_loop(ecdh, outputs, spend_pk)
    PROVE  /\ InPlace(got, ecdh, outputs, spend_pk)
           /\ Len(got) <= Cardinality(outputs)
           /\ Len(got) < Cardinality(outputs) => \A o \in outputs : ~Hit(o, got, ecdh, spend_pk)
<1> DEFINE n == Cardinality(outputs)
           P(b, k) == /\ InPlace(b, ecdh, outputs, spend_pk)
                      /\ Len(b) <= k
                      /\ Len(b) < k => \A o \in outputs : ~Hit(o, b, ecdh, spend_pk)
<1>1. PICK f : Rounds(f, ecdh, outputs, spend_pk, n) /\ got = f[n]
  BY LoopIs
<1>2. /\ f[0] = <<>>
      /\ \A k \in Nat : k + 1 <= n => f[k + 1] = Round(ecdh, outputs, spend_pk, f[k], k + 1)
  <2>1. \A k \in 0..n : f[k] = IF k = 0 THEN <<>> ELSE Round(ecdh, outputs, spend_pk, f[k - 1], k)
    BY <1>1 DEF Rounds
  <2>2. \A k \in Nat : k + 1 <= n => k + 1 \in 0..n /\ k + 1 # 0 /\ (k + 1) - 1 = k
    OBVIOUS
  <2>3. 0 \in 0..n
    OBVIOUS
  <2> HIDE DEF n
  <2> QED
    BY <2>1, <2>2, <2>3
<1> DEFINE T == {k \in Nat : k <= n => P(f[k], k)}
<1>3. 0 \in T
  <2>1. <<>> \in Seq(outputs) /\ Len(<<>>) = 0
    OBVIOUS
  <2>2. InPlace(<<>>, ecdh, outputs, spend_pk)
    BY <2>1 DEF InPlace
  <2>3. P(f[0], 0)
    BY <1>2, <2>1, <2>2
  <2> HIDE DEF P
  <2> QED
    BY <2>3
<1>4. ASSUME NEW k \in T PROVE k + 1 \in T
  <2>1. k \in Nat
    BY <1>4
  <2>2. ASSUME k + 1 <= n PROVE P(f[k + 1], k + 1)
    <3>1. P(f[k], k)
      BY <1>4, <2>1, <2>2
    <3>2. f[k + 1] = Round(ecdh, outputs, spend_pk, f[k], k + 1)
      BY <1>2, <2>1, <2>2
    <3> QED
      BY <2>1, <3>1, <3>2, RoundFacts
  <2> HIDE DEF P
  <2> QED
    BY <2>1, <2>2
<1>5. T = Nat
  <2> HIDE DEF T
  <2>1. T \in SUBSET Nat
    BY DEF T
  <2> QED
    BY <1>3, <1>4, <2>1, Induct
<1>6. P(f[n], n)
  BY <1>5
<1> QED
  BY <1>1, <1>6

-----------------------------------------------------------------------------
(* FoundIsSpendable                                                        *)

LEMMA QOdd == Q \in Nat /\ Q > 2 /\ Q % 2 = 1
<1>1. Q \in Nat /\ Q > 2
  BY FieldAssumption
<1>2. CASE Q = 3
  BY <1>2
<1>3. CASE Q > 3
  <2>1. 2 \in 2..(Q - 1) /\ 2 * 2 <= Q
    BY <1>1, <1>3
  <2>2. Q % 2 # 0
    BY <2>1, FieldAssumption
  <2> QED
    BY <1>1, <2>2
<1> QED
  BY <1>1, <1>2, <1>3

LEMMA PlusType == \A a, b \in Int : Plus(a, b) \in 0..(Q - 1)
BY QOdd DEF Plus

\* The even one of a point and its negative is even, and stays what it is.
LEMMA XOnlyFacts ==
    ASSUME NEW P \in 0..(Q - 1)
    PROVE  /\ x_only(P) \in 0..(Q - 1) /\ (x_only(P) = 0 <=> P = 0)
           /\ x_only(x_only(P)) = x_only(P)
           /\ taproot_input_key(P) = x_only(P)
<1>1. x_only(P) \in 0..(Q - 1) /\ x_only(P) % 2 = 0 /\ (x_only(P) = 0 <=> P = 0)
  BY QOdd DEF x_only
<1>2. x_only(x_only(P)) = x_only(P)
  BY <1>1 DEF x_only
<1> QED
  BY <1>1, <1>2 DEF x_only, taproot_input_key

\* The keys of the wallet's outputs.
LEMMA WalletKeys ==
    /\ \A u \in Income : spend_keypair(PayerSpend, u.tweak) \in Scalar
    /\ \A c \in Coin : TapTweak(c.leaf) \in Scalar
<1>1. ASSUME NEW u \in Income PROVE spend_keypair(PayerSpend, u.tweak) \in Scalar
  <2>1. PayerSpend \in Int /\ u.tweak \in Int /\ spend_keypair(PayerSpend, u.tweak) # 0
    BY WalletAssumption DEF Scalar
  <2>2. spend_keypair(PayerSpend, u.tweak) \in 0..(Q - 1)
    BY <2>1, PlusType DEF spend_keypair
  <2> QED
    BY <2>1, <2>2, QOdd DEF Scalar
<1>2. ASSUME NEW c \in Coin PROVE TapTweak(c.leaf) \in Scalar
  <2>1. c.leaf \in Scalar /\ TapTweak(c.leaf) # 0
    BY WalletAssumption
  <2>2. x_only(c.leaf) \in Scalar
    <3>1. c.leaf \in 0..(Q - 1) /\ c.leaf # 0
      BY <2>1, QOdd DEF Scalar
    <3>2. x_only(c.leaf) \in 0..(Q - 1) /\ x_only(c.leaf) # 0
      BY <3>1, XOnlyFacts
    <3> QED
      BY <3>2, QOdd DEF Scalar
  <2>3. TapHash[x_only(c.leaf)] \in Scalar
    BY <2>2, FieldAssumption
  <2>4. TapTweak(c.leaf) \in 0..(Q - 1)
    <3>1. x_only(c.leaf) \in Int /\ TapHash[x_only(c.leaf)] \in Int
      BY <2>2, <2>3 DEF Scalar
    <3> QED
      BY <3>1, PlusType DEF TapTweak
  <2> QED
    BY <2>1, <2>4, QOdd DEF Scalar
<1> QED
  BY <1>1, <1>2

\* An input of a send: its key is the even form of the secret, its point the same.
LEMMA InputKeys ==
    ASSUME NEW income \in SUBSET Income, NEW chosen \in SUBSET Coin,
           NEW in, (\E u \in income : SpendsIncome(in, u)) \/ (\E c \in chosen : SpendsCoin(in, c))
    PROVE  in.point \in Scalar /\ in.key = in.point /\ x_only(in.point) = in.point /\ in.outpoint \in OutPoint
<1>1. ASSUME NEW sk \in Scalar, in.point = x_only(sk), in.key = taproot_input_key(sk)
      PROVE  in.point \in Scalar /\ in.key = in.point /\ x_only(in.point) = in.point
  <2>1. sk \in 0..(Q - 1) /\ sk # 0
    BY QOdd DEF Scalar
  <2>2. /\ x_only(sk) \in 0..(Q - 1) /\ x_only(sk) # 0
        /\ x_only(x_only(sk)) = x_only(sk) /\ taproot_input_key(sk) = x_only(sk)
    BY <2>1, XOnlyFacts
  <2> QED
    BY <1>1, <2>2, QOdd DEF Scalar
<1>2. CASE \E u \in income : SpendsIncome(in, u)
  BY <1>1, <1>2, WalletKeys, WalletAssumption DEF SpendsIncome
<1>3. CASE \E c \in chosen : SpendsCoin(in, c)
  BY <1>1, <1>3, WalletKeys, WalletAssumption DEF SpendsCoin
<1> QED
  BY <1>2, <1>3

\* Each input is signed by the key of the output it spends: outpoints are distinct.
Owned(inputs, income, chosen) ==
    \A i \in DOMAIN inputs : \/ \E u \in income : SpendsIncome(inputs[i], u)
                             \/ \E c \in chosen : SpendsCoin(inputs[i], c)
Signed(vin, inputs) ==
    /\ DOMAIN vin = DOMAIN inputs
    /\ \A i \in DOMAIN vin :
         /\ x_only(vin[i].signer) = vin[i].point
         /\ vin[i].point = inputs[i].point /\ vin[i].outpoint = inputs[i].outpoint
         /\ vin[i].script = "p2tr" /\ vin[i].items = 1 /\ vin[i].annex = FALSE /\ vin[i].nums = FALSE

LEMMA SignedByOwner ==
    ASSUME NEW income \in SUBSET Income, NEW chosen \in SUBSET Coin,
           NEW inputs, Owned(inputs, income, chosen)
    PROVE  Signed(finalize_mixed_psbt(inputs, income), inputs)
<1> DEFINE vin == finalize_mixed_psbt(inputs, income)
<1>0. \A i \in DOMAIN inputs : \/ \E u \in income : SpendsIncome(inputs[i], u)
                               \/ \E c \in chosen : SpendsCoin(inputs[i], c)
  BY DEF Owned
<1> DEFINE received(i) == {u \in income : u.outpoint = inputs[i].outpoint}
<1>1. /\ DOMAIN vin = DOMAIN inputs
      /\ \A i \in DOMAIN inputs :
            /\ vin[i].signer = IF received(i) = {} THEN inputs[i].key
                               ELSE spend_keypair(PayerSpend, (CHOOSE u \in received(i) : TRUE).tweak)
            /\ vin[i].point = inputs[i].point /\ vin[i].outpoint = inputs[i].outpoint
            /\ vin[i].script = "p2tr" /\ vin[i].items = 1 /\ vin[i].annex = FALSE /\ vin[i].nums = FALSE
  BY DEF finalize_mixed_psbt
<1> HIDE DEF vin
<1>2. ASSUME NEW i \in DOMAIN inputs PROVE x_only(vin[i].signer) = inputs[i].point
  <2>1. inputs[i].key = inputs[i].point /\ x_only(inputs[i].point) = inputs[i].point
    BY <1>0, InputKeys
  <2>2. ASSUME NEW u \in income, SpendsIncome(inputs[i], u)
        PROVE  x_only(vin[i].signer) = inputs[i].point
    <3>1. received(i) = {u}
      BY <2>2, WalletAssumption DEF SpendsIncome
    <3>2. (CHOOSE w \in received(i) : TRUE) = u
      BY <3>1
    <3>3. vin[i].signer = spend_keypair(PayerSpend, u.tweak)
      BY <1>1, <3>1, <3>2
    <3> QED
      BY <2>2, <3>3 DEF SpendsIncome
  <2>3. ASSUME NEW c \in chosen, SpendsCoin(inputs[i], c)
        PROVE  x_only(vin[i].signer) = inputs[i].point
    <3>1. received(i) = {}
      BY <2>3, WalletAssumption DEF SpendsCoin
    <3>2. vin[i].signer = inputs[i].key
      BY <1>1, <3>1
    <3> QED
      BY <2>1, <3>2
  <2> QED
    BY <1>0, <2>2, <2>3
<1>3. Signed(vin, inputs)
  BY <1>1, <1>2 DEF Signed
<1> QED
  BY <1>3 DEF vin

\* A shuffle is a permutation.
LEMMA ShuffleFacts ==
    ASSUME NEW s, IsFiniteSet(DOMAIN s), NEW t \in Shuffles(s)
    PROVE  /\ DOMAIN t = DOMAIN s
           /\ \E p \in Bijection(DOMAIN s, DOMAIN s) : \A i \in DOMAIN s : p[i] \in DOMAIN s /\ t[i] = s[p[i]]
<1>1. PICK p \in [DOMAIN s -> DOMAIN s] :
          /\ \A i, j \in DOMAIN s : p[i] = p[j] => i = j
          /\ t = [i \in DOMAIN s |-> s[p[i]]]
  BY DEF Shuffles
<1>2. p \in Injection(DOMAIN s, DOMAIN s)
  BY <1>1 DEF Injection, IsInjective
<1>3. p \in Surjection(DOMAIN s, DOMAIN s)
  BY <1>2, FS_Injection
<1>4. p \in Bijection(DOMAIN s, DOMAIN s)
  BY <1>2, <1>3 DEF Bijection
<1>5. DOMAIN t = DOMAIN s /\ \A i \in DOMAIN s : p[i] \in DOMAIN s /\ t[i] = s[p[i]]
  BY <1>1
<1> QED
  BY <1>4, <1>5

-----------------------------------------------------------------------------
(* Arithmetic modulo Q.                                                    *)

LEMMA DivMod ==
    ASSUME NEW x \in Nat, NEW d \in Nat \ {0}
    PROVE  x \div d \in Nat /\ x % d \in 0..(d - 1) /\ x = d * (x \div d) + (x % d)
OBVIOUS

\* Quotient and remainder are unique.
LEMMA ModUnique ==
    ASSUME NEW d \in Nat \ {0}, NEW k \in Nat, NEW r \in 0..(d - 1)
    PROVE  (d * k + r) % d = r
<1> DEFINE x == d * k + r
           q == x \div d
           m == x % d
<1>1. x \in Nat
  OBVIOUS
<1>2. q \in Nat /\ m \in 0..(d - 1) /\ x = d * q + m
  <2> HIDE DEF x
  <2> QED
    BY <1>1, DivMod
<1>3. d * k + r = d * q + m
  BY <1>2
<1> HIDE DEF x, q, m
<1>4. ASSUME NEW a \in Nat, NEW b \in Nat, a < b PROVE d * b >= d * a + d
  <2>1. b - a - 1 \in Nat
    BY <1>4
  <2>2. d * (b - a - 1) \in Nat
    BY <2>1
  <2>3. d * b = d * a + d + d * (b - a - 1)
    OBVIOUS
  <2> QED
    BY <2>2, <2>3
<1>5. d * k \in Nat /\ d * q \in Nat
  BY <1>2
<1>6. ~(k < q)
  <2>1. k < q => d * q >= d * k + d
    BY <1>2, <1>4
  <2> QED
    BY <1>2, <1>3, <1>5, <2>1
<1>7. ~(q < k)
  <2>1. q < k => d * k >= d * q + d
    BY <1>2, <1>4
  <2> QED
    BY <1>2, <1>3, <1>5, <2>1
<1>8. k = q
  BY <1>2, <1>6, <1>7
<1>9. m = r
  BY <1>2, <1>3, <1>5, <1>8
<1> QED
  BY <1>9 DEF m, x

\* A multiple of d more does not change the remainder.
LEMMA ModShift ==
    ASSUME NEW d \in Nat \ {0}, NEW k \in Nat, NEW z \in Nat
    PROVE  (d * k + z) % d = z % d
<1> DEFINE q == z \div d
           r == z % d
<1>1. q \in Nat /\ r \in 0..(d - 1) /\ z = d * q + r
  BY DivMod
<1> HIDE DEF q, r
<1>2. d * k + z = d * (k + q) + r
  BY <1>1
<1>3. k + q \in Nat
  BY <1>1
<1>4. (d * (k + q) + r) % d = r
  BY <1>1, <1>3, ModUnique
<1> QED
  BY <1>2, <1>4 DEF r

LEMMA ModPlus ==
    ASSUME NEW d \in Nat \ {0}, NEW a \in Nat, NEW b \in Nat
    PROVE  ((a % d) + b) % d = (a + b) % d
<1> DEFINE q == a \div d
           r == a % d
<1>1. q \in Nat /\ r \in 0..(d - 1) /\ a = d * q + r
  BY DivMod
<1> HIDE DEF q, r
<1>2. r + b \in Nat /\ a + b = d * q + (r + b)
  BY <1>1
<1>3. (d * q + (r + b)) % d = (r + b) % d
  BY <1>1, <1>2, ModShift
<1> QED
  BY <1>2, <1>3 DEF r

LEMMA ModTimes ==
    ASSUME NEW d \in Nat \ {0}, NEW a \in Nat, NEW b \in Nat
    PROVE  ((a % d) * b) % d = (a * b) % d
<1> DEFINE q == a \div d
           r == a % d
<1>1. q \in Nat /\ r \in 0..(d - 1) /\ a = d * q + r
  BY DivMod
<1> HIDE DEF q, r
<1>2. r \in Nat
  BY <1>1
<1>3. r * b \in Nat /\ q * b \in Nat
  BY <1>1, <1>2
<1>4. a * b = d * (q * b) + r * b
  BY <1>1, <1>2
<1>5. (d * (q * b) + r * b) % d = (r * b) % d
  BY <1>3, ModShift
<1> QED
  BY <1>4, <1>5 DEF r

\* Sender and receiver multiply in different orders.
LEMMA TimesSwap ==
    ASSUME NEW h \in Nat, NEW a \in Nat, NEW s \in Nat
    PROVE  Times(Times(h, a), s) = Times(Times(h, s), a)
<1>0. Q \in Nat \ {0}
  BY QOdd
<1>1. h * a \in Nat /\ h * s \in Nat
  OBVIOUS
<1>2. (((h * a) % Q) * s) % Q = ((h * a) * s) % Q
  BY <1>0, <1>1, ModTimes
<1>3. (((h * s) % Q) * a) % Q = ((h * s) * a) % Q
  BY <1>0, <1>1, ModTimes
<1>4. (h * a) * s = (h * s) * a
  OBVIOUS
<1> QED
  BY <1>2, <1>3, <1>4 DEF Times

-----------------------------------------------------------------------------
(* Sums of keys.                                                           *)

\* The sums of KeySum, up to the n-th key.
Partial(f, keys, n) ==
    f = [i \in 1..n |-> IF i = 1 THEN keys[1]
                        ELSE IF f[i - 1] = 0 THEN 0 ELSE Plus(f[i - 1], keys[i])]

LEMMA PartialExists ==
    ASSUME NEW keys, NEW n \in Nat
    PROVE  \E f : Partial(f, keys, n)
<1> DEFINE T == {m \in Nat : \E f : Partial(f, keys, m)}
           Add(s, i) == IF s = 0 THEN 0 ELSE Plus(s, keys[i])
<1>0. ASSUME NEW f, NEW m
      PROVE  Partial(f, keys, m) <=> f = [i \in 1..m |-> IF i = 1 THEN keys[1] ELSE Add(f[i - 1], i)]
  BY DEF Partial
<1> HIDE DEF Add
<1>1. 0 \in T
  <2> DEFINE f == [i \in 1..0 |-> 0]
  <2>1. Partial(f, keys, 0)
    BY DEF Partial
  <2> QED
    BY <2>1
<1>2. ASSUME NEW m \in T PROVE m + 1 \in T
  <2>0. m \in Nat
    BY <1>2
  <2>1. PICK f : Partial(f, keys, m)
    BY <1>2
  <2>2. f = [i \in 1..m |-> IF i = 1 THEN keys[1] ELSE Add(f[i - 1], i)]
    BY <1>0, <2>1
  <2> DEFINE g == [i \in 1..(m + 1) |-> IF i = 1 THEN keys[1] ELSE Add(f[i - 1], i)]
  <2>3. \A i \in 1..m : i \in 1..(m + 1) /\ g[i] = f[i]
    BY <2>0, <2>2
  <2>4. g = [i \in 1..(m + 1) |-> IF i = 1 THEN keys[1] ELSE Add(f[i - 1], i)]
    OBVIOUS
  <2> HIDE DEF g
  <2>5. \A i \in 1..(m + 1) : i # 1 => Add(f[i - 1], i) = Add(g[i - 1], i)
    <3>1. \A i \in 1..(m + 1) : i # 1 => i - 1 \in 1..m
      BY <2>0
    <3> QED
      BY <2>3, <3>1
  <2>6. g = [i \in 1..(m + 1) |-> IF i = 1 THEN keys[1] ELSE Add(g[i - 1], i)]
    BY <2>4, <2>5
  <2>7. Partial(g, keys, m + 1)
    BY <1>0, <2>6
  <2> QED
    BY <2>0, <2>7
<1>3. T = Nat
  <2> HIDE DEF T
  <2>1. T \in SUBSET Nat
    BY DEF T
  <2> QED
    BY <1>1, <1>2, <2>1, Induct
<1> QED
  BY <1>3

\* Keys that do not cancel on the way add up to their sum modulo Q.
LEMMA KeySumFacts ==
    ASSUME NEW n \in Nat, NEW keys \in [1..n -> Scalar]
    PROVE  /\ KeySum(keys) \in 0..(Q - 1)
           /\ KeySum(keys) # 0 => n > 0 /\ KeySum(keys) = Sigma(keys) % Q
<1>0. Q \in Nat \ {0} /\ Len(keys) = n /\ (keys = <<>> <=> n = 0)
  BY QOdd
<1>1. CASE n = 0
  <2>1. KeySum(keys) = 0
    BY <1>0, <1>1 DEF KeySum
  <2> QED
    BY <2>1, QOdd
<1>2. CASE n > 0
  <2>1. KeySum(keys) = (CHOOSE f : Partial(f, keys, n))[n]
    BY <1>0, <1>2 DEF KeySum, Partial
  <2>2. PICK f : Partial(f, keys, n) /\ KeySum(keys) = f[n]
    BY <2>1, PartialExists
  <2> DEFINE Prefix(i) == [j \in 1..i |-> keys[j]]
             Good(i) == f[i] \in 0..(Q - 1) /\ (f[i] # 0 => f[i] = Sigma(Prefix(i)) % Q)
             T == {m \in Nat : m + 1 <= n => Good(m + 1)}
  <2>3. \A i \in 1..n : f[i] = IF i = 1 THEN keys[1]
                               ELSE IF f[i - 1] = 0 THEN 0 ELSE Plus(f[i - 1], keys[i])
    BY <2>2 DEF Partial
  <2>4. ASSUME NEW i \in 1..n
        PROVE  /\ Sigma(Prefix(i)) \in Nat /\ keys[i] \in 1..(Q - 1)
               /\ Sigma(Prefix(i)) = Sigma(Prefix(i - 1)) + keys[i]
    <3>1. keys[i] \in 1..(Q - 1)
      BY DEF Scalar
    <3>2. Prefix(i) \in [1..i -> Nat] /\ i \in 1..i /\ (1..i) \ {i} = 1..(i - 1)
      BY QOdd DEF Scalar
    <3>3. IsFiniteSet(1..i)
      BY FS_Interval
    <3>4. [j \in (1..i) \ {i} |-> Prefix(i)[j]] = Prefix(i - 1) /\ Prefix(i)[i] = keys[i]
      BY <3>2
    <3> HIDE DEF Prefix
    <3>5. Sigma(Prefix(i)) = Sigma([j \in (1..i) \ {i} |-> Prefix(i)[j]]) + Prefix(i)[i]
      BY <3>2, <3>3, SigmaAdd
    <3>6. Sigma(Prefix(i)) \in Nat
      BY <3>2, <3>3, SigmaMono
    <3> QED
      BY <3>1, <3>4, <3>5, <3>6
  <2>5. 0 \in T
    <3>1. f[1] = keys[1] /\ keys[1] \in 1..(Q - 1)
      <4>1. 1 \in 1..n
        BY <1>2
      <4>2. keys[1] \in Scalar
        BY <4>1
      <4> QED
        BY <2>3, <4>1, <4>2 DEF Scalar
    <3>2. Sigma(Prefix(0)) = 0
      <4>1. DOMAIN Prefix(0) = {}
        OBVIOUS
      <4> HIDE DEF Prefix
      <4> QED
        BY <4>1, SigmaEmpty
    <3>3. Sigma(Prefix(1)) = keys[1]
      <4>1. 1 \in 1..n
        BY <1>2
      <4>2. Sigma(Prefix(1)) = Sigma(Prefix(1 - 1)) + keys[1]
        BY <2>4, <4>1
      <4> HIDE DEF Prefix
      <4> QED
        BY <3>1, <3>2, <4>2
    <3>4. keys[1] % Q = keys[1]
      <4> DEFINE r == keys[1]
      <4>1. r \in 0..(Q - 1) /\ Q * 0 + r = r
        BY <1>0, <3>1
      <4>2. (Q * 0 + r) % Q = r
        BY <1>0, <4>1, ModUnique
      <4> QED
        BY <4>1, <4>2
    <3> HIDE DEF Prefix
    <3> QED
      BY <1>0, <3>1, <3>3, <3>4
  <2>6. ASSUME NEW m \in T PROVE m + 1 \in T
    <3>0. m \in Nat
      BY <2>6
    <3>1. ASSUME (m + 1) + 1 <= n PROVE Good((m + 1) + 1)
      <4> DEFINE i == m + 1
                 s == Sigma(Prefix(i))
      <4>1. i \in 1..n /\ i + 1 \in 1..n /\ i + 1 # 1 /\ (i + 1) - 1 = i
        BY <3>0, <3>1
      <4>2. Good(i)
        BY <2>6, <3>0, <3>1
      <4>3. f[i + 1] = IF f[i] = 0 THEN 0 ELSE Plus(f[i], keys[i + 1])
        <5> HIDE DEF i
        <5> QED
          BY <2>3, <4>1
      <4>4. s \in Nat /\ keys[i + 1] \in 1..(Q - 1) /\ Sigma(Prefix(i + 1)) = s + keys[i + 1]
        <5> HIDE DEF i, Prefix
        <5> QED
          BY <2>4, <4>1
      <4> HIDE DEF i, Prefix, s
      <4>5. CASE f[i] = 0
        BY <4>3, <4>5, QOdd DEF i
      <4>6. CASE f[i] # 0
        <5>1. f[i] = s % Q
          BY <4>2, <4>6 DEF s
        <5>2. f[i + 1] = (f[i] + keys[i + 1]) % Q
          BY <4>3, <4>6 DEF Plus
        <5>3. keys[i + 1] \in Nat
          BY <4>4
        <5>4. ((s % Q) + keys[i + 1]) % Q = (s + keys[i + 1]) % Q
          BY <1>0, <4>4, <5>3, ModPlus
        <5>5. f[i + 1] = Sigma(Prefix(i + 1)) % Q
          BY <4>4, <5>1, <5>2, <5>4
        <5>6. f[i + 1] \in 0..(Q - 1)
          <6>1. f[i] \in Int /\ keys[i + 1] \in Int
            BY <4>2, <5>3
          <6> QED
            BY <5>2, <6>1, PlusType DEF Plus
        <5> QED
          BY <5>5, <5>6 DEF i
      <4> QED
        BY <4>5, <4>6
    <3>2. m + 1 \in Nat
      BY <3>0
    <3> HIDE DEF Good
    <3> QED
      BY <3>1, <3>2
  <2>7. T = Nat
    <3> HIDE DEF T
    <3>1. T \in SUBSET Nat
      BY DEF T
    <3> QED
      BY <2>5, <2>6, <3>1, Induct
  <2>8. Good(n)
    <3>1. n - 1 \in T /\ (n - 1) + 1 = n
      <4> HIDE DEF T
      <4> QED
        BY <1>2, <2>7
    <3> HIDE DEF Good
    <3> QED
      BY <3>1
  <2>9. Prefix(n) = keys
    OBVIOUS
  <2> QED
    BY <1>2, <2>2, <2>8, <2>9
<1> QED
  BY <1>1, <1>2

LEMMA SumOfIs ==
    ASSUME NEW n \in Nat, NEW keys \in [1..n -> Scalar]
    PROVE  SumOf(keys) = Sigma(keys) % Q /\ SumOf(keys) \in 0..(Q - 1)
<1> DEFINE S == DOMAIN keys
           Iter(it) == it = [s \in SUBSET S |-> IF s = {} THEN 0
                                ELSE keys[CHOOSE x \in s : TRUE]
                                     + it[s \ {CHOOSE x \in s : TRUE}]]
<1>1. SumOf(keys) = (CHOOSE it : Iter(it))[S] % Q
  BY DEF SumOf, MapThenSumSet, MapThenFoldSet
<1>2. (CHOOSE it : Iter(it)) = (CHOOSE it : AddsUp(it, keys, S))
  BY DEF AddsUp
<1>3. SumOf(keys) = Sigma(keys) % Q
  BY <1>1, <1>2 DEF Sigma
<1>4. IsFiniteSet(1..n) /\ keys \in [1..n -> Nat]
  <2>1. IsFiniteSet(1..n)
    BY FS_Interval
  <2> QED
    BY <2>1, QOdd DEF Scalar
<1>5. Sigma(keys) \in Nat
  BY <1>4, SigmaMono
<1> QED
  BY <1>3, <1>5, QOdd

-----------------------------------------------------------------------------
(* The search finds the payments.                                          *)

\* When the outputs P hold the first n keys, one each, and no other output one of
\* the first n + 1, then the search finds just P.
LEMMA LoopExact ==
    ASSUME NEW ecdh, NEW spend_pk, NEW O, IsFiniteSet(O), \A o \in O : o.vout \in Nat,
           NEW P \in SUBSET O, NEW n, n = Cardinality(P),
           NEW b \in Bijection(1..n, P),
           \A k \in 1..n : b[k].key = output_at(ecdh, spend_pk, k - 1).key,
           \A o \in O \ P : \A k \in 0..n : o.key # output_at(ecdh, spend_pk, k).key,
           NEW got, got = receive_loop(ecdh, O, spend_pk)
    PROVE  /\ got \in Seq(O) /\ Len(got) = n
           /\ {got[k] : k \in 1..n} = P
<1> DEFINE key(k) == output_at(ecdh, spend_pk, k).key
           L == Len(got)
<1>0. /\ IsFiniteSet(P) /\ n \in Nat /\ Cardinality(O) \in Nat /\ n <= Cardinality(O)
      /\ IsFiniteSet(1..n) /\ Cardinality(1..n) = n
  <2>1. IsFiniteSet(P) /\ n \in Nat /\ Cardinality(O) \in Nat /\ n <= Cardinality(O)
    BY FS_Subset, FS_CardinalityType
  <2> QED
    BY <2>1, FS_Interval
<1>1. /\ InPlace(got, ecdh, O, spend_pk)
      /\ L < Cardinality(O) => \A o \in O : ~Hit(o, got, ecdh, spend_pk)
  BY <1>0, LoopFacts
<1>2. /\ got \in Seq(O) /\ L \in Nat
      /\ \A j \in 1..L : got[j] \in O /\ got[j].key = key(j - 1)
      /\ \A i, j \in 1..L : got[i] = got[j] => i = j
  BY <1>1 DEF InPlace
<1>3. /\ b \in [1..n -> P] /\ \A i, j \in 1..n : b[i] = b[j] => i = j
      /\ \A k \in 1..n : b[k].key = key(k - 1)
  BY DEF Bijection, Injection, IsInjective
<1>4. \A o \in O \ P : \A k \in 0..n : o.key # key(k)
  OBVIOUS
<1>h. \A o \in O : (\A j \in 1..L : got[j] # o) /\ L < Cardinality(O) => o.key # key(L)
  BY <1>1 DEF Hit
<1> HIDE DEF key, L
<1>5. \A j \in 1..L : j <= n + 1 => got[j] \in P
  <2>1. \A j \in 1..L : j <= n + 1 => j - 1 \in 0..n
    BY <1>0, <1>2
  <2> QED
    BY <1>2, <1>4, <2>1
<1>6. L <= n
  <2>1. SUFFICES ASSUME L >= n + 1 PROVE FALSE
    BY <1>0, <1>2
  <2> DEFINE f == [j \in 1..(n + 1) |-> got[j]]
  <2>2. \A j \in 1..(n + 1) : j \in 1..L /\ j <= n + 1
    BY <1>0, <1>2, <2>1
  <2>3. f \in [1..(n + 1) -> P] /\ \A i, j \in 1..(n + 1) : f[i] = f[j] => i = j
    BY <1>2, <1>5, <2>2
  <2>4. IsFiniteSet(1..(n + 1)) /\ Cardinality(1..(n + 1)) = n + 1
    <3> DEFINE N == n + 1
    <3>1. N \in Nat /\ N >= 1
      BY <1>0
    <3> HIDE DEF N
    <3>2. IsFiniteSet(1..N) /\ Cardinality(1..N) = IF 1 > N THEN 0 ELSE N - 1 + 1
      BY <3>1, FS_Interval
    <3>3. Cardinality(1..N) = N
      BY <3>1, <3>2
    <3> QED
      BY <3>2, <3>3 DEF N
  <2> HIDE DEF f
  <2>5. \E x, y \in 1..(n + 1) : x # y /\ f[x] = f[y]
    <3> DEFINE D == 1..(n + 1)
    <3>1. Cardinality(P) < Cardinality(D) /\ IsFiniteSet(D) /\ IsFiniteSet(P) /\ f \in [D -> P]
      BY <1>0, <2>3, <2>4
    <3> HIDE DEF D
    <3>2. \E x, y \in D : x # y /\ f[x] = f[y]
      BY ONLY <3>1, FS_PigeonHole
    <3> QED
      BY <3>2 DEF D
  <2> QED
    BY <2>3, <2>5
<1>7. L >= n
  <2>1. SUFFICES ASSUME L < n PROVE FALSE
    BY <1>0, <1>2
  <2>2. L < Cardinality(O) /\ L + 1 \in 1..n /\ (L + 1) - 1 = L
    BY <1>0, <1>2, <2>1
  <2> DEFINE D == {k \in 1..n : key(k - 1) = key(L)}
             E == {j \in 1..L : key(j - 1) = key(L)}
             g == [k \in D |-> CHOOSE j \in E : got[j] = b[k]]
  <2>3. ASSUME NEW k \in D PROVE \E j \in E : got[j] = b[k]
    <3>1. k \in 1..n /\ b[k] \in O /\ b[k].key = key(L)
      BY <1>3
    <3>2. PICK j \in 1..L : got[j] = b[k]
      BY <1>h, <2>2, <3>1
    <3>3. key(j - 1) = key(L)
      BY <1>2, <3>1, <3>2
    <3> QED
      BY <3>2, <3>3
  <2>4. \A k \in D : g[k] \in E /\ got[g[k]] = b[k]
    BY <2>3
  <2>5. g \in [D -> E]
    BY <2>4
  <2>6. \A x, y \in D : g[x] = g[y] => x = y
    <3>1. ASSUME NEW x \in D, NEW y \in D, g[x] = g[y] PROVE x = y
      <4>1. b[x] = b[y]
        <5> HIDE DEF g
        <5> QED
          BY <2>4, <3>1
      <4> QED
        BY <1>3, <4>1
    <3> QED
      BY <3>1
  <2>7. IsFiniteSet(D) /\ E \in SUBSET (D \ {L + 1}) /\ L + 1 \in D
    <3>1. IsFiniteSet(D)
      <4>1. D \in SUBSET (1..n)
        OBVIOUS
      <4> HIDE DEF D
      <4> QED
        BY <1>0, <4>1, FS_Subset
    <3>2. \A j \in 1..L : j \in 1..n /\ j # L + 1
      BY <1>0, <1>2, <2>1
    <3> QED
      BY <2>2, <3>1, <3>2
  <2> HIDE DEF D, E, g
  <2>8. IsFiniteSet(E) /\ Cardinality(E) < Cardinality(D)
    <3>1. IsFiniteSet(D \ {L + 1}) /\ Cardinality(D \ {L + 1}) = Cardinality(D) - 1
      BY <2>7, FS_RemoveElement
    <3>2. IsFiniteSet(E) /\ Cardinality(E) <= Cardinality(D \ {L + 1})
      BY <2>7, <3>1, FS_Subset
    <3>3. Cardinality(D) \in Nat /\ Cardinality(E) \in Nat
      BY <2>7, <3>2, FS_CardinalityType
    <3> QED
      BY <3>1, <3>2, <3>3
  <2>9. \E x, y \in D : x # y /\ g[x] = g[y]
    BY <2>5, <2>7, <2>8, FS_PigeonHole
  <2> QED
    BY <2>6, <2>9
<1>8. L = n
  BY <1>0, <1>2, <1>6, <1>7
<1> DEFINE f == [j \in 1..n |-> got[j]]
<1>9. \A j \in 1..n : j \in 1..L /\ j <= n + 1 /\ got[j] \in P
  BY <1>0, <1>5, <1>8
<1>10. f \in Injection(1..n, P)
  <2>1. f \in [1..n -> P] /\ DOMAIN f = 1..n
    BY <1>9
  <2>2. \A i, j \in 1..n : f[i] = f[j] => i = j
    BY <1>2, <1>9
  <2> HIDE DEF f
  <2> QED
    BY <2>1, <2>2 DEF Injection, IsInjective
<1>11. f \in Surjection(1..n, P)
  <2> HIDE DEF f
  <2> QED
    BY <1>0, <1>10, FS_Injection
<1>12. {got[k] : k \in 1..n} = P
  <2>1. \A o \in P : \E j \in 1..n : f[j] = o
    <3> HIDE DEF f
    <3> QED
      BY <1>11 DEF Surjection
  <2>2. \A o \in P : \E j \in 1..n : got[j] = o
    BY <2>1
  <2> QED
    BY <1>9, <2>2
<1> QED
  BY <1>2, <1>8, <1>12 DEF L

-----------------------------------------------------------------------------
(* Q is a prime, so a product of scalars is a scalar.                      *)

\* FieldAssumption speaks of divisors up to the root of Q.
LEMMA NoDivisor == \A d \in 2..(Q - 1) : Q % d # 0
<1> SUFFICES ASSUME NEW d \in 2..(Q - 1), Q % d = 0 PROVE FALSE
  OBVIOUS
<1> DEFINE e == Q \div d
<1>1. Q \in Nat /\ Q > 2 /\ d \in Nat \ {0} /\ d >= 2 /\ d < Q
  BY QOdd
<1>2. e \in Nat /\ Q = d * e
  <2>1. e \in Nat /\ Q = d * e + (Q % d)
    BY <1>1, DivMod
  <2>2. d * e \in Nat
    BY <1>1, <2>1
  <2> QED
    BY <2>1, <2>2
<1>3. ~(d * d <= Q)
  BY FieldAssumption
<1> HIDE DEF e
<1>4. e < d
  <2>1. SUFFICES ASSUME e >= d PROVE FALSE
    BY <1>1, <1>2
  <2>2. d * d <= d * e
    BY <1>1, <1>2, <2>1
  <2> QED
    BY <1>2, <1>3, <2>2
<1>5. e >= 2
  <2>1. e # 0
    BY <1>1, <1>2
  <2>2. e # 1
    BY <1>1, <1>2
  <2> QED
    BY <1>2, <2>1, <2>2
<1>6. e * e <= Q
  <2>1. e * e <= d * e
    BY <1>1, <1>2, <1>4
  <2> QED
    BY <1>2, <2>1
<1>7. Q % e = 0
  <2>1. e \in Nat \ {0} /\ 0 \in 0..(e - 1)
    BY <1>2, <1>5
  <2>2. (e * d + 0) % e = 0
    BY <1>1, <2>1, ModUnique
  <2>3. e * d + 0 = Q
    BY <1>1, <1>2
  <2> QED
    BY <2>2, <2>3
<1>8. e \in 2..(Q - 1)
  BY <1>1, <1>2, <1>4, <1>5
<1> QED
  BY <1>6, <1>7, <1>8, FieldAssumption

\* Take the smallest multiplier that makes b vanish; the remainder of Q by it
\* would be a smaller one.
LEMMA Euclid == \A a, b \in Scalar : (a * b) % Q # 0
<1> SUFFICES ASSUME NEW z \in Scalar, NEW b \in Scalar, (z * b) % Q = 0 PROVE FALSE
  OBVIOUS
<1> DEFINE A == {x \in Scalar : (x * b) % Q = 0}
           a == Min(A)
<1>0. Q \in Nat /\ Q > 2 /\ b \in Nat /\ b >= 1 /\ b < Q /\ Q \in Nat \ {0}
  BY QOdd DEF Scalar
<1>1. A \in SUBSET Nat /\ A # {}
  <2>1. Scalar \in SUBSET Nat
    BY <1>0 DEF Scalar
  <2>2. z \in A
    OBVIOUS
  <2> QED
    BY <2>1, <2>2
<1>2. a \in A /\ \A x \in A : a <= x
  <2> HIDE DEF A
  <2> QED
    BY <1>1, MinFacts
<1>3. a \in Nat /\ a >= 1 /\ a < Q /\ (a * b) % Q = 0
  BY <1>0, <1>2 DEF Scalar
<1>4. \A x \in Nat : x >= 1 /\ x < a => (x * b) % Q # 0
  <2>1. ASSUME NEW x \in Nat, x >= 1, x < a, (x * b) % Q = 0 PROVE FALSE
    <3> HIDE DEF a
    <3>1. x \in A
      BY <1>0, <1>3, <2>1 DEF Scalar
    <3> QED
      BY <1>2, <1>3, <2>1, <3>1
  <2> QED
    BY <2>1
<1> HIDE DEF A, a
<1> DEFINE c == (a * b) \div Q
           q == Q \div a
           r == Q % a
<1>5. a # 1
  <2>1. SUFFICES ASSUME a = 1 PROVE FALSE
    OBVIOUS
  <2>2. b % Q = 0
    BY <1>0, <1>3, <2>1
  <2>3. (Q * 0 + b) % Q = b
    BY <1>0, ModUnique
  <2>4. Q * 0 + b = b
    BY <1>0
  <2> QED
    BY <1>0, <2>2, <2>3, <2>4
<1>6. r # 0
  BY <1>0, <1>3, <1>5, NoDivisor
<1>7. q \in Nat /\ r \in 0..(a - 1) /\ Q = a * q + r
  <2>1. a \in Nat \ {0}
    BY <1>3
  <2> QED
    BY <1>0, <2>1, DivMod
<1>8. c \in Nat /\ a * b = Q * c
  <2> DEFINE P == a * b
  <2>1. P \in Nat /\ P % Q = 0
    BY <1>0, <1>3
  <2> HIDE DEF P
  <2>2. P \div Q \in Nat /\ P = Q * (P \div Q) + (P % Q)
    BY <1>0, <2>1, DivMod
  <2>3. P = Q * (P \div Q)
    BY <1>0, <2>1, <2>2
  <2> QED
    BY <2>2, <2>3 DEF P
<1> HIDE DEF c, q, r
<1> DEFINE k == b - q * c
<1>9. r * b = Q * k
  <2>1. r \in Int /\ r = Q - a * q
    BY <1>0, <1>3, <1>7
  <2>2. r * b = Q * b - (a * q) * b
    BY <1>0, <1>3, <1>7, <2>1
  <2>3. (a * q) * b = (a * b) * q
    BY <1>0, <1>3, <1>7
  <2>4. (a * b) * q = Q * (q * c)
    <3>1. (a * b) * q = (Q * c) * q
      BY <1>8
    <3>2. (Q * c) * q = Q * (q * c)
      BY <1>0, <1>7, <1>8
    <3> QED
      BY <3>1, <3>2
  <2>5. Q * k = Q * b - Q * (q * c)
    BY <1>0, <1>7, <1>8
  <2> QED
    BY <2>2, <2>3, <2>4, <2>5
<1>10. k \in Nat
  <2>1. k \in Int /\ r \in Nat /\ r >= 1
    BY <1>0, <1>3, <1>6, <1>7, <1>8
  <2> HIDE DEF k
  <2>2. r * b >= 1
    BY <1>0, <2>1
  <2>3. SUFFICES ASSUME k <= 0 PROVE FALSE
    BY <2>1
  <2>4. Q * k <= 0
    BY ONLY <1>0, <2>1, <2>3
  <2>5. Q * k >= 1
    BY <1>9, <2>2
  <2>6. Q * k \in Int
    BY ONLY <1>0, <2>1
  <2> QED
    BY ONLY <2>4, <2>5, <2>6
<1> HIDE DEF k
<1>11. (r * b) % Q = 0
  <2>1. 0 \in 0..(Q - 1)
    BY <1>0
  <2>2. (Q * k + 0) % Q = 0
    BY <1>0, <1>10, <2>1, ModUnique
  <2>3. Q * k + 0 = r * b
    BY <1>0, <1>9, <1>10
  <2> QED
    BY <2>2, <2>3
<1>12. r \in Nat /\ r >= 1 /\ r < a
  BY <1>3, <1>6, <1>7
<1> QED
  BY <1>4, <1>11, <1>12

LEMMA TimesScalar == \A a, b \in Scalar : Times(a, b) \in Scalar
<1> SUFFICES ASSUME NEW a \in Scalar, NEW b \in Scalar PROVE Times(a, b) \in Scalar
  OBVIOUS
<1>1. Q \in Nat /\ Q \in Nat \ {0} /\ a \in Nat /\ b \in Nat
  BY QOdd DEF Scalar
<1>2. (a * b) % Q \in 0..(Q - 1)
  BY <1>1
<1>3. (a * b) % Q # 0
  BY Euclid
<1> QED
  BY <1>1, <1>2, <1>3 DEF Times, Scalar

-----------------------------------------------------------------------------
(* The keys both sides take from a transaction.                            *)

Rank(I, i) == Cardinality({j \in I : j < i})

\* Every place in the order of a set of numbers is taken.
LEMMA RankFacts ==
    ASSUME NEW m \in Nat, NEW I \in SUBSET (1..m), NEW k \in 1..Cardinality(I)
    PROVE  \E i \in I : Rank(I, i) = k - 1
<1> DEFINE K == Cardinality(I)
           f == [i \in I |-> Rank(I, i) + 1]
           Below(i) == {j \in I : j < i}
<1>1. IsFiniteSet(I) /\ K \in Nat
  <2>1. IsFiniteSet(1..m)
    BY FS_Interval
  <2>2. IsFiniteSet(I)
    BY <2>1, FS_Subset
  <2> QED
    BY <2>2, FS_CardinalityType
<1>2. I \in SUBSET Nat
  OBVIOUS
<1>3. \A i \in I : IsFiniteSet(Below(i)) /\ Rank(I, i) \in Nat /\ Rank(I, i) < K
  <2> SUFFICES ASSUME NEW i \in I
               PROVE  IsFiniteSet(Below(i)) /\ Rank(I, i) \in Nat /\ Rank(I, i) < K
    OBVIOUS
  <2> DEFINE B == Below(i)
  <2>1. B \in SUBSET (I \ {i})
    BY <1>2
  <2>2. Rank(I, i) = Cardinality(B)
    BY DEF Rank
  <2> HIDE DEF B
  <2>3. IsFiniteSet(I \ {i}) /\ Cardinality(I \ {i}) = K - 1
    BY <1>1, FS_RemoveElement
  <2>4. IsFiniteSet(B) /\ Cardinality(B) <= K - 1
    BY <2>1, <2>3, FS_Subset
  <2>5. Cardinality(B) \in Nat
    BY <2>4, FS_CardinalityType
  <2> HIDE DEF K
  <2> QED
    BY <1>1, <2>2, <2>4, <2>5 DEF B
<1>4. \A x, y \in I : x < y => Rank(I, x) < Rank(I, y)
  <2> SUFFICES ASSUME NEW x \in I, NEW y \in I, x < y PROVE Rank(I, x) < Rank(I, y)
    OBVIOUS
  <2> DEFINE B == Below(x)
             C == Below(y)
  <2>0. x \in Nat /\ y \in Nat /\ \A j \in I : j \in Nat
    BY <1>2
  <2>1. B \in SUBSET (C \ {x}) /\ x \in C
    <3>1. \A j \in B : j \in I /\ j < y /\ j # x
      BY <2>0
    <3> QED
      BY <3>1
  <2>2. Rank(I, x) = Cardinality(B) /\ Rank(I, y) = Cardinality(C) /\ IsFiniteSet(C)
    BY <1>3 DEF Rank
  <2> HIDE DEF B, C
  <2>3. IsFiniteSet(C \ {x}) /\ Cardinality(C \ {x}) = Cardinality(C) - 1
    BY <2>1, <2>2, FS_RemoveElement
  <2>4. Cardinality(B) <= Cardinality(C) - 1
    <3> DEFINE D == C \ {x}
    <3>1. B \in SUBSET D /\ IsFiniteSet(D) /\ Cardinality(D) = Cardinality(C) - 1
      BY <2>1, <2>3
    <3> HIDE DEF D
    <3>2. Cardinality(B) <= Cardinality(D)
      BY <3>1, FS_Subset
    <3> QED
      BY <3>1, <3>2
  <2>5. Rank(I, x) \in Nat /\ Rank(I, y) \in Nat
    BY <1>3
  <2> QED
    BY <2>2, <2>4, <2>5
<1>r. \A i \in I : Rank(I, i) \in Nat /\ Rank(I, i) < K
  BY <1>3
<1>5. f \in Injection(I, 1..K)
  <2>1. f \in [I -> 1..K]
    <3> HIDE DEF K
    <3>1. \A i \in I : Rank(I, i) + 1 \in 1..K
      BY <1>1, <1>r
    <3> QED
      BY <3>1
  <2>2. \A x, y \in I : f[x] = f[y] => x = y
    <3>1. ASSUME NEW x \in I, NEW y \in I, f[x] = f[y] PROVE x = y
      <4>0. f[x] = Rank(I, x) + 1 /\ f[y] = Rank(I, y) + 1 /\ x \in Nat /\ y \in Nat
        BY <1>2
      <4> HIDE DEF f
      <4>1. Rank(I, x) = Rank(I, y)
        <5> DEFINE u == Rank(I, x)
                   v == Rank(I, y)
        <5>1. u \in Nat /\ v \in Nat
          BY <1>r
        <5>2. u + 1 = v + 1
          BY <3>1, <4>0
        <5> HIDE DEF u, v
        <5>3. u = v
          BY <5>1, <5>2
        <5> QED
          BY <5>3 DEF u, v
      <4>2. ~(x < y) /\ ~(y < x)
        <5>1. Rank(I, x) \in Nat
          BY <1>r
        <5>2. x < y => Rank(I, x) < Rank(I, y)
          BY <1>4
        <5>3. y < x => Rank(I, y) < Rank(I, x)
          BY <1>4
        <5> QED
          BY ONLY <4>1, <5>1, <5>2, <5>3
      <4> QED
        BY <4>0, <4>2
    <3> QED
      BY <3>1
  <2> HIDE DEF f, K
  <2> QED
    BY <2>1, <2>2 DEF Injection, IsInjective
<1>6. IsFiniteSet(1..K) /\ Cardinality(1..K) = K
  <2> HIDE DEF K
  <2>1. IsFiniteSet(1..K) /\ Cardinality(1..K) = IF 1 > K THEN 0 ELSE K - 1 + 1
    BY <1>1, FS_Interval
  <2> QED
    BY <1>1, <2>1
<1>7. f \in Surjection(I, 1..K)
  <2>1. Cardinality(I) = Cardinality(1..K)
    BY <1>6
  <2> HIDE DEF f, K
  <2> QED
    BY <1>5, <1>6, <2>1, FS_Injection
<1>8. PICK i \in I : f[i] = k
  <2> HIDE DEF f
  <2> QED
    BY <1>7 DEF Surjection
<1>9. Rank(I, i) + 1 = k
  BY <1>8
<1> QED
  BY <1>r, <1>9

\* t lists elements of s at positions of I.
Lists(t, s, I) ==
    /\ Cardinality(I) \in Nat
    /\ DOMAIN t = 1..Cardinality(I)
    /\ \A k \in 1..Cardinality(I) : \E i \in I : t[k] = s[i]

LEMMA SublistFacts ==
    ASSUME NEW m \in Nat, NEW I \in SUBSET (1..m), NEW s
    PROVE  Lists(Sublist(s, I), s, I)
<1>1. Cardinality(I) \in Nat
  <2>1. IsFiniteSet(1..m)
    BY FS_Interval
  <2>2. IsFiniteSet(I)
    BY <2>1, FS_Subset
  <2> QED
    BY <2>2, FS_CardinalityType
<1>2. Sublist(s, I) = [k \in 1..Cardinality(I) |-> s[CHOOSE i \in I : Rank(I, i) = k - 1]]
  BY DEF Sublist, Rank
<1>3. ASSUME NEW k \in 1..Cardinality(I)
      PROVE  \E i \in I : Sublist(s, I)[k] = s[i]
  <2>1. \E i \in I : Rank(I, i) = k - 1
    BY RankFacts
  <2>2. (CHOOSE i \in I : Rank(I, i) = k - 1) \in I
    BY <2>1
  <2> QED
    BY <1>2, <2>2
<1> QED
  BY <1>1, <1>2, <1>3 DEF Lists

\* All elements: the sequence itself.
LEMMA SublistAll ==
    ASSUME NEW m \in Nat, NEW s
    PROVE  Sublist(s, 1..m) = [k \in 1..m |-> s[k]]
<1> DEFINE I == 1..m
<1>1. Cardinality(I) = m
  <2>1. Cardinality(1..m) = IF 1 > m THEN 0 ELSE m - 1 + 1
    BY FS_Interval
  <2> QED
    BY <2>1
<1>2. \A i \in I : Rank(I, i) = i - 1
  <2> SUFFICES ASSUME NEW i \in I PROVE Rank(I, i) = i - 1
    OBVIOUS
  <2> DEFINE n == i - 1
  <2>1. n \in Nat /\ {j \in I : j < i} = 1..n
    OBVIOUS
  <2> HIDE DEF n
  <2>2. Cardinality(1..n) = IF 1 > n THEN 0 ELSE n - 1 + 1
    BY <2>1, FS_Interval
  <2>3. Cardinality(1..n) = n
    BY <2>1, <2>2
  <2> QED
    BY <2>1, <2>3 DEF Rank, n
<1>3. Sublist(s, I) = [k \in 1..m |-> s[CHOOSE i \in I : Rank(I, i) = k - 1]]
  BY <1>1 DEF Sublist, Rank
<1>4. \A k \in 1..m : (CHOOSE i \in I : Rank(I, i) = k - 1) = k
  <2> SUFFICES ASSUME NEW k \in 1..m PROVE (CHOOSE i \in I : Rank(I, i) = k - 1) = k
    OBVIOUS
  <2>1. \A i \in I : (Rank(I, i) = k - 1 <=> i = k)
    BY <1>2
  <2>2. k \in I
    OBVIOUS
  <2> HIDE DEF I
  <2> QED
    BY <2>1, <2>2
<1> QED
  BY <1>3, <1>4

Formed(in) == /\ in.outpoint \in OutPoint /\ in.point \in Scalar
              /\ in.items \in Nat /\ in.annex \in BOOLEAN /\ in.nums \in BOOLEAN

\* Where the scanner has a key, it is that of BIP-352; apart from the inputs it says
\* it does not read, its case distinction (scan::input_pubkey) is that of BIP-352.
LEMMA SameKey ==
    ASSUME NEW in, Formed(in)
    PROVE  /\ KeyOf(in) \in Scalar
           /\ input_pubkey(in) # 0 => input_pubkey(in) = KeyOf(in)
           /\ ~Skipped(in) => (Eligible(in) <=> input_pubkey(in) # 0)
<1>0. in.point # 0 /\ in.point \in 0..(Q - 1) /\ in.point \in Scalar /\ in.items \in Nat /\ in.annex \in BOOLEAN
      /\ in.nums \in BOOLEAN
  BY QOdd DEF Formed, Scalar
<1>1. x_only(in.point) \in 0..(Q - 1) /\ x_only(in.point) # 0
  BY <1>0, XOnlyFacts
<1>2. x_only(in.point) \in Scalar
  BY <1>1, QOdd DEF Scalar
<1>3. CASE in.script = "p2tr"
  <2>1. input_pubkey(in) = IF in.items - (IF in.items >= 2 /\ in.annex THEN 1 ELSE 0) = 1
                           THEN x_only(in.point) ELSE 0
    BY <1>3 DEF input_pubkey
  <2>2. KeyPath(in) <=> in.items - (IF in.items >= 2 /\ in.annex THEN 1 ELSE 0) = 1
    BY <1>0 DEF KeyPath
  <2>3. KeyPath(in) => in.items > 0
    BY <1>0 DEF KeyPath
  <2>4. ~Skipped(in) => (Eligible(in) <=> KeyPath(in))
    BY <1>3, <2>3 DEF Eligible, Skipped
  <2>5. KeyOf(in) = x_only(in.point)
    BY <1>3 DEF KeyOf
  <2> QED
    BY <1>1, <1>2, <2>1, <2>2, <2>4, <2>5
<1>4. CASE in.script = "p2wpkh"
  BY <1>0, <1>4 DEF input_pubkey, Eligible, KeyOf
<1>5. CASE in.script # "p2tr" /\ in.script # "p2wpkh"
  <2>1. input_pubkey(in) = 0
    BY <1>5 DEF input_pubkey
  <2> QED
    BY <1>0, <1>5, <2>1 DEF Eligible, Skipped, KeyOf
<1> QED
  BY <1>3, <1>4, <1>5

LEMMA KeysType ==
    ASSUME NEW m \in Nat, NEW vin, DOMAIN vin = 1..m, \A i \in 1..m : Formed(vin[i])
    PROVE  \E n \in Nat : Keys(vin) \in [1..n -> Scalar] /\ (n > 0 => m > 0)
<1> DEFINE I == {i \in DOMAIN vin : Eligible(vin[i])}
           s == Sublist(vin, I)
           n == Cardinality(I)
<1>1. I \in SUBSET (1..m) /\ \A i \in I : Eligible(vin[i]) /\ Formed(vin[i])
  OBVIOUS
<1>2. /\ n \in Nat /\ DOMAIN s = 1..n
      /\ \A k \in 1..n : \E i \in I : s[k] = vin[i]
  <2>1. I \in SUBSET (1..m)
    BY <1>1
  <2> HIDE DEF I
  <2>2. Lists(Sublist(vin, I), vin, I)
    BY <2>1, SublistFacts
  <2>3. n = Cardinality(I) /\ s = Sublist(vin, I)
    OBVIOUS
  <2> HIDE DEF n, s
  <2> QED
    BY <2>2, <2>3 DEF Lists
<1>3. Keys(vin) = [k \in DOMAIN s |-> KeyOf(s[k])]
  BY DEF Keys
<1> HIDE DEF I, s, n
<1>4. \A k \in 1..n : KeyOf(s[k]) \in Scalar
  <2> SUFFICES ASSUME NEW k \in 1..n PROVE KeyOf(s[k]) \in Scalar
    OBVIOUS
  <2>1. PICK i \in I : s[k] = vin[i]
    BY <1>2
  <2>2. Formed(vin[i]) /\ Eligible(vin[i])
    BY <1>1
  <2> QED
    BY <2>1, <2>2, SameKey
<1>5. Keys(vin) \in [1..n -> Scalar]
  BY <1>2, <1>3, <1>4
<1>6. n > 0 => m > 0
  <2>1. SUFFICES ASSUME n > 0 PROVE m > 0
    OBVIOUS
  <2>2. 1 \in 1..n
    BY <1>2, <2>1
  <2>3. PICK i \in I : s[1] = vin[i]
    BY <1>2, <2>2
  <2>4. i \in 1..m
    BY <1>1
  <2> QED
    BY <2>4
<1> QED
  BY <1>2, <1>5, <1>6

LEMMA ScannedKeysType ==
    ASSUME NEW m \in Nat, NEW vin, DOMAIN vin = 1..m, \A i \in 1..m : Formed(vin[i])
    PROVE  \E n \in Nat : input_pubkeys(vin) \in [1..n -> Scalar] /\ (n > 0 => m > 0)
<1> DEFINE I == {i \in DOMAIN vin : input_pubkey(vin[i]) # 0}
           s == Sublist(vin, I)
           n == Cardinality(I)
<1>1. I \in SUBSET (1..m) /\ \A i \in I : input_pubkey(vin[i]) # 0 /\ Formed(vin[i])
  OBVIOUS
<1>2. /\ n \in Nat /\ DOMAIN s = 1..n
      /\ \A k \in 1..n : \E i \in I : s[k] = vin[i]
  <2>1. I \in SUBSET (1..m)
    BY <1>1
  <2> HIDE DEF I
  <2>2. Lists(Sublist(vin, I), vin, I)
    BY <2>1, SublistFacts
  <2>3. n = Cardinality(I) /\ s = Sublist(vin, I)
    OBVIOUS
  <2> HIDE DEF n, s
  <2> QED
    BY <2>2, <2>3 DEF Lists
<1>3. input_pubkeys(vin) = [k \in DOMAIN s |-> input_pubkey(s[k])]
  BY DEF input_pubkeys
<1> HIDE DEF I, s, n
<1>4. \A k \in 1..n : input_pubkey(s[k]) \in Scalar
  <2> SUFFICES ASSUME NEW k \in 1..n PROVE input_pubkey(s[k]) \in Scalar
    OBVIOUS
  <2>1. PICK i \in I : s[k] = vin[i]
    BY <1>2
  <2>2. Formed(vin[i]) /\ input_pubkey(vin[i]) # 0
    BY <1>1
  <2> QED
    BY <2>1, <2>2, SameKey
<1>5. input_pubkeys(vin) \in [1..n -> Scalar]
  BY <1>2, <1>3, <1>4
<1>6. n > 0 => m > 0
  <2>1. SUFFICES ASSUME n > 0 PROVE m > 0
    OBVIOUS
  <2>2. 1 \in 1..n
    BY <1>2, <2>1
  <2>3. PICK i \in I : s[1] = vin[i]
    BY <1>2, <2>2
  <2>4. i \in 1..m
    BY <1>1
  <2> QED
    BY <2>4
<1> QED
  BY <1>2, <1>5, <1>6

LEMMA SameKeys ==
    ASSUME NEW m \in Nat, NEW vin, DOMAIN vin = 1..m,
           \A i \in 1..m : Formed(vin[i]) /\ ~Skipped(vin[i])
    PROVE  input_pubkeys(vin) = Keys(vin)
<1> DEFINE I == {i \in DOMAIN vin : Eligible(vin[i])}
           J == {i \in DOMAIN vin : input_pubkey(vin[i]) # 0}
           s == Sublist(vin, I)
           n == Cardinality(I)
<1>1. I = J
  BY SameKey
<1>2. I \in SUBSET (1..m) /\ \A i \in I : input_pubkey(vin[i]) # 0 /\ Formed(vin[i])
  BY <1>1
<1>3. /\ n \in Nat /\ DOMAIN s = 1..n
      /\ \A k \in 1..n : \E i \in I : s[k] = vin[i]
  <2>1. I \in SUBSET (1..m)
    BY <1>2
  <2> HIDE DEF I
  <2>2. Lists(Sublist(vin, I), vin, I)
    BY <2>1, SublistFacts
  <2>3. n = Cardinality(I) /\ s = Sublist(vin, I)
    OBVIOUS
  <2> HIDE DEF n, s
  <2> QED
    BY <2>2, <2>3 DEF Lists
<1>4. /\ Keys(vin) = [k \in DOMAIN s |-> KeyOf(s[k])]
      /\ input_pubkeys(vin) = [k \in DOMAIN s |-> input_pubkey(s[k])]
  BY <1>1 DEF Keys, input_pubkeys
<1> HIDE DEF I, J, s, n
<1>5. \A k \in 1..n : input_pubkey(s[k]) = KeyOf(s[k])
  <2> SUFFICES ASSUME NEW k \in 1..n PROVE input_pubkey(s[k]) = KeyOf(s[k])
    OBVIOUS
  <2>1. PICK i \in I : s[k] = vin[i]
    BY <1>3
  <2>2. Formed(vin[i]) /\ input_pubkey(vin[i]) # 0
    BY <1>2
  <2> QED
    BY <2>1, <2>2, SameKey
<1> QED
  BY <1>3, <1>4, <1>5

-----------------------------------------------------------------------------
(* What the scanner makes of a transaction.                                *)

\* The secret of sp::receive_inner.
Ecdh(vin, scan_sk) ==
    Times(Times(input_hash(Min({vin[i].outpoint : i \in DOMAIN vin}), KeySum(input_pubkeys(vin))),
                scan_sk),
          KeySum(input_pubkeys(vin)))

LEMMA OutputFacts ==
    ASSUME NEW n \in Nat, NEW vout, DOMAIN vout = 1..n, NEW O, O = taproot_outputs(vout)
    PROVE  /\ IsFiniteSet(O) /\ Cardinality(O) \in Nat /\ Cardinality(O) <= n
           /\ \A o \in O : /\ o.vout \in 1..n /\ o.vout \in Nat
                           /\ vout[o.vout].script = "p2tr" /\ vout[o.vout].key # 0
                           /\ o = [vout |-> o.vout, sats |-> vout[o.vout].sats, key |-> vout[o.vout].key]
           /\ \A i \in 1..n : vout[i].script = "p2tr" /\ vout[i].key # 0
                  => [vout |-> i, sats |-> vout[i].sats, key |-> vout[i].key] \in O
<1> DEFINE I == {j \in 1..n : taproot_output_key(vout[j]) # 0}
           Out(i) == [vout |-> i, sats |-> vout[i].sats, key |-> vout[i].key]
           f == [i \in I |-> Out(i)]
<1>1. O = {Out(i) : i \in I}
  BY DEF taproot_outputs
<1>2. IsFiniteSet(I) /\ Cardinality(I) <= n
  <2>1. I \in SUBSET (1..n)
    OBVIOUS
  <2>2. IsFiniteSet(1..n) /\ Cardinality(1..n) = IF 1 > n THEN 0 ELSE n - 1 + 1
    BY FS_Interval
  <2>3. Cardinality(1..n) = n
    BY <2>2
  <2> HIDE DEF I
  <2> QED
    BY <2>1, <2>2, <2>3, FS_Subset
<1>3. \A i \in I : i \in 1..n /\ vout[i].script = "p2tr" /\ vout[i].key # 0
  BY DEF taproot_output_key
<1>4. \A i \in 1..n : vout[i].script = "p2tr" /\ vout[i].key # 0 => i \in I
  BY DEF taproot_output_key
<1> HIDE DEF I
<1>5. IsFiniteSet(O) /\ Cardinality(O) <= Cardinality(I)
  <2>1. O = {f[i] : i \in I}
    BY <1>1
  <2>2. f \in Surjection(I, O)
    <3>1. f \in [I -> O]
      BY <1>1
    <3>2. \A o \in O : \E i \in I : f[i] = o
      BY <1>1
    <3> HIDE DEF f
    <3> QED
      BY <3>1, <3>2 DEF Surjection
  <2> HIDE DEF f
  <2> QED
    BY <1>2, <2>2, FS_Surjection
<1>6. Cardinality(O) \in Nat /\ Cardinality(I) \in Nat
  BY <1>2, <1>5, FS_CardinalityType
<1>7. Cardinality(O) <= n
  BY <1>2, <1>5, <1>6
<1>8. ASSUME NEW o \in O
      PROVE  /\ o.vout \in 1..n /\ o.vout \in Nat
             /\ vout[o.vout].script = "p2tr" /\ vout[o.vout].key # 0
             /\ o = Out(o.vout)
  <2>1. PICK i \in I : o = Out(i)
    BY <1>1
  <2>2. o.vout = i
    BY <2>1
  <2> QED
    BY <1>3, <2>1, <2>2
<1>9. ASSUME NEW i \in 1..n, vout[i].script = "p2tr" /\ vout[i].key # 0 PROVE Out(i) \in O
  BY <1>1, <1>4, <1>9
<1> QED
  BY <1>5, <1>6, <1>7, <1>8, <1>9

\* A match is an output of the transaction with the key of the stored tweak.
Match(f, t, scan, spend, n) ==
    /\ f.vout \in 1..n /\ f.sats = t.vout[f.vout].sats
    /\ x_only(Plus(spend, f.tweak)) = t.vout[f.vout].key
    /\ KeySum(input_pubkeys(t.vin)) # 0
    /\ \E k \in 0..(n - 1) : f.tweak = SharedHash[<<Ecdh(t.vin, scan), k>>]

LEMMA MatchFacts ==
    ASSUME NEW t, NEW n \in Nat, DOMAIN t.vout = 1..n, NEW scan, NEW spend,
           NEW f \in tx_matches(t, scan, spend)
    PROVE  Match(f, t, scan, spend, n)
<1> DEFINE O == taproot_outputs(t.vout)
           e == Ecdh(t.vin, scan)
           got == receive_loop(e, O, spend)
<1>1. /\ IsFiniteSet(O) /\ Cardinality(O) \in Nat /\ Cardinality(O) <= n
      /\ \A o \in O : /\ o.vout \in 1..n /\ o.vout \in Nat
                      /\ o = [vout |-> o.vout, sats |-> t.vout[o.vout].sats, key |-> t.vout[o.vout].key]
  <2> HIDE DEF O
  <2>1. O = taproot_outputs(t.vout)
    BY DEF O
  <2> QED
    BY <2>1, OutputFacts
<1>2. KeySum(input_pubkeys(t.vin)) # 0
  BY DEF tx_matches, receive_check
<1>3. f \in {[vout |-> got[k].vout, sats |-> got[k].sats,
              tweak |-> output_at(e, spend, k - 1).tweak] : k \in 1..Len(got)}
  BY DEF tx_matches, receive_check, Ecdh, smallest_outpoint
<1> HIDE DEF e, O
<1>4. InPlace(got, e, O, spend) /\ Len(got) <= Cardinality(O)
  <2> HIDE DEF got
  <2>1. \A o \in O : o.vout \in Nat
    BY <1>1
  <2>2. got = receive_loop(e, O, spend)
    BY DEF got
  <2> QED
    BY <1>1, <2>1, <2>2, LoopFacts
<1> HIDE DEF got
<1>5. PICK k \in 1..Len(got) : f = [vout |-> got[k].vout, sats |-> got[k].sats,
                                    tweak |-> output_at(e, spend, k - 1).tweak]
  BY <1>3
<1>6. Len(got) \in Nat /\ got[k] \in O /\ got[k].key = output_at(e, spend, k - 1).key
  BY <1>4 DEF InPlace
<1>7. /\ f.vout = got[k].vout /\ f.sats = got[k].sats /\ f.tweak = SharedHash[<<e, k - 1>>]
      /\ got[k].key = x_only(Plus(spend, f.tweak))
  BY <1>5, <1>6 DEF output_at
<1>8. got[k].vout \in 1..n /\ got[k].sats = t.vout[got[k].vout].sats /\ got[k].key = t.vout[got[k].vout].key
  <2> DEFINE o == got[k]
  <2>1. o \in O
    BY <1>6
  <2> HIDE DEF o
  <2>2. o.vout \in 1..n /\ o = [vout |-> o.vout, sats |-> t.vout[o.vout].sats, key |-> t.vout[o.vout].key]
    BY <1>1, <2>1
  <2>3. o.sats = t.vout[o.vout].sats /\ o.key = t.vout[o.vout].key
    BY <2>2
  <2> QED
    BY <2>2, <2>3 DEF o
<1>9. k - 1 \in 0..(n - 1)
  BY <1>1, <1>4, <1>6
<1> QED
  BY <1>2, <1>7, <1>8, <1>9 DEF Match, e

-----------------------------------------------------------------------------
(* Payer and payee derive the same secret.                                 *)

LEMMA Smallest ==
    ASSUME NEW m \in Nat, m > 0, NEW vin, DOMAIN vin = 1..m, \A i \in 1..m : vin[i].outpoint \in OutPoint
    PROVE  Min({vin[i].outpoint : i \in DOMAIN vin}) \in OutPoint
<1> DEFINE A == {vin[i].outpoint : i \in DOMAIN vin}
<1>1. A \in SUBSET OutPoint /\ A \in SUBSET Nat
  BY FieldAssumption
<1>2. A # {}
  <2>1. 1 \in DOMAIN vin
    OBVIOUS
  <2> QED
    BY <2>1
<1> HIDE DEF A
<1>3. Min(A) \in A
  BY <1>1, <1>2, MinFacts
<1> QED
  BY <1>1, <1>3 DEF A

LEMMA SecretScalar ==
    ASSUME payee \in Payee, NEW m \in Nat, m > 0, NEW vin, DOMAIN vin = 1..m,
           \A i \in 1..m : Formed(vin[i]), SumOf(Keys(vin)) # 0
    PROVE  Secret(vin) \in Scalar
<1> DEFINE sum == SumOf(Keys(vin))
           small == Min({vin[i].outpoint : i \in DOMAIN vin})
           h == InputHash[<<small, sum>>]
<1>1. sum \in Scalar
  <2>1. PICK n \in Nat : Keys(vin) \in [1..n -> Scalar]
    BY KeysType
  <2>2. sum \in 0..(Q - 1)
    BY <2>1, SumOfIs
  <2>3. sum # 0
    OBVIOUS
  <2> HIDE DEF sum
  <2> QED
    BY <2>2, <2>3, QOdd DEF Scalar
<1>2. small \in OutPoint
  BY Smallest DEF Formed
<1>3. Secret(vin) = Times(Times(h, sum), payee.scan)
  BY DEF Secret
<1> HIDE DEF sum, small
<1>4. h \in Scalar
  BY <1>1, <1>2, FieldAssumption
<1>5. payee.scan \in Scalar
  BY WalletAssumption
<1> HIDE DEF h
<1>6. Times(h, sum) \in Scalar
  BY <1>1, <1>4, TimesScalar
<1> QED
  BY <1>3, <1>5, <1>6, TimesScalar

\* The scanner's secret is a scalar, whatever inputs it has skipped.
LEMMA EcdhScalar ==
    ASSUME payee \in Payee, NEW m \in Nat, NEW vin, DOMAIN vin = 1..m,
           \A i \in 1..m : Formed(vin[i]), KeySum(input_pubkeys(vin)) # 0
    PROVE  Ecdh(vin, payee.scan) \in Scalar
<1> DEFINE sum == KeySum(input_pubkeys(vin))
           small == Min({vin[i].outpoint : i \in DOMAIN vin})
           h == InputHash[<<small, sum>>]
<1>1. PICK n \in Nat : input_pubkeys(vin) \in [1..n -> Scalar] /\ (n > 0 => m > 0)
  BY ScannedKeysType
<1>2. sum \in 0..(Q - 1) /\ sum # 0 /\ m > 0
  BY <1>1, KeySumFacts
<1>3. Ecdh(vin, payee.scan) = Times(Times(h, payee.scan), sum)
  BY DEF Ecdh, input_hash
<1>4. small \in OutPoint
  BY <1>2, Smallest DEF Formed
<1> HIDE DEF sum, small
<1>5. sum \in Scalar /\ payee.scan \in Scalar
  BY <1>2, WalletAssumption, QOdd DEF Scalar
<1>6. h \in Scalar
  BY <1>4, <1>5, FieldAssumption
<1> HIDE DEF h
<1>7. Times(h, payee.scan) \in Scalar
  BY <1>5, <1>6, TimesScalar
<1> QED
  BY <1>3, <1>5, <1>7, TimesScalar

\* The payee adds up the points of the inputs that the payer (or BIP-352) adds up
\* the keys of, and multiplies in another order.
LEMMA SharedSecret ==
    ASSUME payee \in Payee, NEW m \in Nat, NEW vin, DOMAIN vin = 1..m,
           \A i \in 1..m : Formed(vin[i]) /\ ~Skipped(vin[i]), KeySum(Keys(vin)) # 0
    PROVE  /\ m > 0 /\ SumOf(Keys(vin)) # 0
           /\ Ecdh(vin, payee.scan) = Secret(vin) /\ Secret(vin) \in Scalar
<1> DEFINE sum == KeySum(Keys(vin))
           small == Min({vin[i].outpoint : i \in DOMAIN vin})
           h == InputHash[<<small, sum>>]
<1>1. PICK n \in Nat : Keys(vin) \in [1..n -> Scalar] /\ (n > 0 => m > 0)
  BY KeysType
<1>2. sum = SumOf(Keys(vin)) /\ sum \in 0..(Q - 1) /\ sum # 0 /\ m > 0
  <2>1. n > 0 /\ sum = Sigma(Keys(vin)) % Q /\ sum \in 0..(Q - 1)
    BY <1>1, KeySumFacts
  <2>2. SumOf(Keys(vin)) = Sigma(Keys(vin)) % Q
    BY <1>1, SumOfIs
  <2> QED
    BY <1>1, <2>1, <2>2
<1>3. Ecdh(vin, payee.scan) = Times(Times(h, payee.scan), sum)
  <2>1. input_pubkeys(vin) = Keys(vin)
    BY SameKeys
  <2> QED
    BY <2>1 DEF Ecdh, input_hash
<1>4. Secret(vin) = Times(Times(h, sum), payee.scan)
  BY <1>2 DEF Secret
<1>5. small \in OutPoint
  BY <1>2, Smallest DEF Formed
<1>6. SumOf(Keys(vin)) # 0
  BY <1>2
<1> HIDE DEF sum, small
<1>7. h \in Nat /\ sum \in Nat /\ payee.scan \in Nat
  <2>1. sum \in Scalar /\ payee.scan \in Scalar
    BY <1>2, WalletAssumption, QOdd DEF Scalar
  <2>2. h \in Scalar
    BY <1>5, <2>1, FieldAssumption
  <2>3. Scalar \in SUBSET Nat
    BY QOdd DEF Scalar
  <2> QED
    BY <2>1, <2>2, <2>3
<1>8. Ecdh(vin, payee.scan) = Secret(vin)
  <2> DEFINE s == payee.scan
  <2> HIDE DEF h, s
  <2>1. s \in Nat
    BY <1>7 DEF s
  <2>2. Times(Times(h, sum), s) = Times(Times(h, s), sum)
    BY <1>7, <2>1, TimesSwap
  <2> QED
    BY <1>3, <1>4, <2>2 DEF s
<1>9. Secret(vin) \in Scalar
  BY <1>2, <1>6, SecretScalar
<1> QED
  BY <1>2, <1>6, <1>8, <1>9

LEMMA OneTimeKeyType ==
    ASSUME payee \in Payee, NEW vin, Secret(vin) \in Scalar, NEW k \in 0..MaxIndex
    PROVE  OneTimeKey(vin, k) \in 0..(Q - 1)
<1> DEFINE P == Plus(payee.spend, SharedHash[<<Secret(vin), k>>])
<1>1. SharedHash[<<Secret(vin), k>>] \in Scalar /\ payee.spend \in Scalar
  BY FieldAssumption, WalletAssumption
<1>2. Scalar \in SUBSET Int
  BY QOdd DEF Scalar
<1>3. P \in 0..(Q - 1)
  BY <1>1, <1>2, PlusType
<1>4. OneTimeKey(vin, k) = x_only(P)
  BY DEF OneTimeKey
<1> HIDE DEF P
<1> QED
  BY <1>3, <1>4, XOnlyFacts

-----------------------------------------------------------------------------
(* Every transaction the payee looks at, with the outputs p that pay it: they *)
(* hold its one-time keys, one each, without a gap.                         *)

Built(t, p) ==
    /\ t.coinbase = FALSE
    /\ \E m \in Nat : DOMAIN t.vin = 1..m
    /\ \E n \in 0..(MaxIndex + 1) : DOMAIN t.vout = 1..n
    /\ \A i \in DOMAIN t.vin : Formed(t.vin[i])
    /\ \A i \in DOMAIN t.vout : t.vout[i].key \in Scalar /\ t.vout[i].sats \in Nat
    /\ \A i \in p : i \in DOMAIN t.vout /\ t.vout[i].script = "p2tr"
    /\ \E b \in Bijection(1..Cardinality(p), p) :
           \A k \in 1..Cardinality(p) : t.vout[b[k]].key = OneTimeKey(t.vin, k - 1)

\* The scanner finds the payments, and nothing else.
LEMMA Arrives ==
    ASSUME payee \in Payee, NEW t, NEW p, Built(t, p), \A i \in DOMAIN t.vin : ~Skipped(t.vin[i]),
           KeySum(Keys(t.vin)) # 0, OneTimeKey(t.vin, Cardinality(p)) # 0,
           \A i \in DOMAIN t.vout \ p : \A k \in 0..Cardinality(p) :
               t.vout[i].script = "p2tr" => t.vout[i].key # OneTimeKey(t.vin, k)
    PROVE  {f.vout : f \in tx_matches(t, payee.scan, payee.spend)} = p
<1>1. PICK m \in Nat : DOMAIN t.vin = 1..m
  BY DEF Built
<1>2. PICK n \in 0..(MaxIndex + 1) : DOMAIN t.vout = 1..n
  BY DEF Built
<1> DEFINE O == taproot_outputs(t.vout)
           P == {o \in O : o.vout \in p}
           c == Cardinality(p)
           e == Ecdh(t.vin, payee.scan)
           got == receive_loop(e, O, payee.spend)
           Out(i) == [vout |-> i, sats |-> t.vout[i].sats, key |-> t.vout[i].key]
<1>3. n \in Nat /\ \A i \in 1..n : t.vout[i].key \in Scalar /\ t.vout[i].key # 0
  BY <1>2, QOdd, InputAssumption DEF Built, Scalar
<1>4. IsFiniteSet(p) /\ c \in Nat /\ p \in SUBSET (1..n) /\ \A i \in p : t.vout[i].script = "p2tr"
  <2>1. p \in SUBSET (1..n) /\ \A i \in p : t.vout[i].script = "p2tr"
    BY <1>2 DEF Built
  <2>2. IsFiniteSet(1..n)
    BY <1>3, FS_Interval
  <2>3. IsFiniteSet(p)
    BY <2>1, <2>2, FS_Subset
  <2> QED
    BY <2>1, <2>3, FS_CardinalityType
<1>5. PICK b \in Bijection(1..c, p) : \A k \in 1..c : t.vout[b[k]].key = OneTimeKey(t.vin, k - 1)
  BY DEF Built
<1>6. /\ b \in [1..c -> p] /\ \A i, j \in 1..c : b[i] = b[j] => i = j
      /\ \A x \in p : \E i \in 1..c : b[i] = x
  <2> HIDE DEF c
  <2> QED
    BY <1>5 DEF Bijection, Injection, Surjection, IsInjective
<1>7. /\ IsFiniteSet(O) /\ Cardinality(O) \in Nat
      /\ \A o \in O : /\ o.vout \in 1..n /\ o.vout \in Nat /\ t.vout[o.vout].script = "p2tr"
                      /\ o = Out(o.vout)
      /\ \A i \in 1..n : t.vout[i].script = "p2tr" => Out(i) \in O
  <2>1. O = taproot_outputs(t.vout)
    OBVIOUS
  <2> HIDE DEF O
  <2> QED
    BY <1>2, <1>3, <2>1, OutputFacts
<1>8. e = Secret(t.vin)
  <2>1. \A i \in 1..m : Formed(t.vin[i]) /\ ~Skipped(t.vin[i])
    BY <1>1 DEF Built
  <2> QED
    BY <1>1, <2>1, SharedSecret
<1>9. \A k : output_at(e, payee.spend, k).key = OneTimeKey(t.vin, k)
  <2> HIDE DEF e
  <2> QED
    BY <1>8 DEF output_at, OneTimeKey
<1> DEFINE g == [k \in 1..c |-> Out(b[k])]
<1>10. /\ g \in Bijection(1..c, P) /\ Cardinality(P) = c /\ P \in SUBSET O
       /\ \A k \in 1..c : g[k].key = OneTimeKey(t.vin, k - 1)
  <2>1. \A i \in p : Out(i) \in P
    <3> HIDE DEF O
    <3> QED
      BY <1>4, <1>7
  <2>2. \A o \in P : o.vout \in p /\ o = Out(o.vout)
    <3> HIDE DEF O
    <3> QED
      BY <1>7
  <2> HIDE DEF P, c
  <2>3. g \in [1..c -> P]
    BY <1>6, <2>1
  <2>4. \A i, j \in 1..c : g[i] = g[j] => i = j
    <3>1. \A i \in 1..c : g[i].vout = b[i]
      OBVIOUS
    <3> HIDE DEF g
    <3> QED
      BY <1>6, <3>1
  <2>5. \A o \in P : \E i \in 1..c : g[i] = o
    BY <1>6, <2>2
  <2>6. \A k \in 1..c : g[k].key = OneTimeKey(t.vin, k - 1)
    BY <1>5
  <2> HIDE DEF g
  <2>7. g \in Bijection(1..c, P)
    BY <2>3, <2>4, <2>5 DEF Bijection, Injection, Surjection, IsInjective
  <2>8. Cardinality(P) = c
    <3>1. IsFiniteSet(1..c) /\ Cardinality(1..c) = IF 1 > c THEN 0 ELSE c - 1 + 1
      BY <1>4, FS_Interval
    <3>2. Cardinality(1..c) = c
      BY <1>4, <3>1
    <3>3. ExistsBijection(1..c, P)
      BY <2>7 DEF ExistsBijection
    <3> QED
      BY <3>1, <3>2, <3>3, FS_Bijection
  <2> QED
    BY <2>6, <2>7, <2>8 DEF P
<1>11. \A o \in O \ P : \A k \in 0..c : o.key # OneTimeKey(t.vin, k)
  <2> SUFFICES ASSUME NEW o \in O \ P, NEW k \in 0..c PROVE o.key # OneTimeKey(t.vin, k)
    OBVIOUS
  <2>1. o.vout \in 1..n \ p /\ t.vout[o.vout].script = "p2tr" /\ o = Out(o.vout)
    <3> HIDE DEF O
    <3> QED
      BY <1>7
  <2>2. o.key = t.vout[o.vout].key
    <3> HIDE DEF O, P
    <3> QED
      BY <2>1
  <2> HIDE DEF O, P, c
  <2> QED
    BY <1>2, <2>1, <2>2 DEF c
<1>12. got \in Seq(O) /\ Len(got) = c /\ {got[k] : k \in 1..c} = P
  <2>1. \A o \in O : o.vout \in Nat
    <3> HIDE DEF O
    <3> QED
      BY <1>7
  <2>2. \A k \in 1..c : g[k].key = output_at(e, payee.spend, k - 1).key
    <3> HIDE DEF e, g, c
    <3> QED
      BY <1>9, <1>10
  <2>3. \A o \in O \ P : \A k \in 0..c : o.key # output_at(e, payee.spend, k).key
    <3> HIDE DEF e, O, P, c
    <3> QED
      BY <1>9, <1>11
  <2>4. got = receive_loop(e, O, payee.spend) /\ c = Cardinality(P) /\ IsFiniteSet(O)
    <3> HIDE DEF c, P, O
    <3> QED
      BY <1>7, <1>10
  <2> HIDE DEF O, P, c, e, got, g
  <2> QED
    BY <1>10, <2>1, <2>2, <2>3, <2>4, LoopExact
<1>13. tx_matches(t, payee.scan, payee.spend)
        = IF O = {} THEN {}
          ELSE {[vout |-> got[k].vout, sats |-> got[k].sats,
                 tweak |-> output_at(e, payee.spend, k - 1).tweak] : k \in 1..Len(got)}
  <2>1. input_pubkeys(t.vin) = Keys(t.vin)
    BY <1>1, SameKeys DEF Built
  <2>2. input_pubkeys(t.vin) # <<>> /\ KeySum(input_pubkeys(t.vin)) # 0
    BY <2>1 DEF KeySum
  <2>3. output_at(e, payee.spend, Len(got)).key # 0
    <3> HIDE DEF e, got
    <3> QED
      BY <1>9, <1>12
  <2>4. t.coinbase = FALSE
    BY DEF Built
  <2>5. tx_matches(t, payee.scan, payee.spend)
          = IF O = {} THEN {} ELSE receive_check(input_pubkeys(t.vin),
                 Min({t.vin[i].outpoint : i \in DOMAIN t.vin}), O, payee.scan, payee.spend)
    BY <2>2, <2>4 DEF tx_matches, smallest_outpoint
  <2>6. receive_check(input_pubkeys(t.vin),
                 Min({t.vin[i].outpoint : i \in DOMAIN t.vin}), O, payee.scan, payee.spend)
          = {[vout |-> got[k].vout, sats |-> got[k].sats,
              tweak |-> output_at(e, payee.spend, k - 1).tweak] : k \in 1..Len(got)}
    <3> HIDE DEF O
    <3> QED
      BY <2>2, <2>3 DEF receive_check, Ecdh
  <2> QED
    BY <2>5, <2>6
<1>14. {o.vout : o \in P} = p
  <2>1. \A i \in p : Out(i) \in P
    <3> HIDE DEF O
    <3> QED
      BY <1>4, <1>7
  <2>2. \A i \in p : \E o \in P : o.vout = i
    BY <2>1
  <2> QED
    BY <2>2
<1> HIDE DEF O, e, got, c
<1>15. CASE O = {}
  BY <1>13, <1>14, <1>15
<1>16. CASE O # {}
  <2>1. {f.vout : f \in tx_matches(t, payee.scan, payee.spend)} = {got[k].vout : k \in 1..c}
    <3> DEFINE R(k) == [vout |-> got[k].vout, sats |-> got[k].sats,
                        tweak |-> output_at(e, payee.spend, k - 1).tweak]
               M == tx_matches(t, payee.scan, payee.spend)
    <3>1. M = {R(k) : k \in 1..c}
      BY <1>12, <1>13, <1>16
    <3>2. \A k : R(k).vout = got[k].vout
      OBVIOUS
    <3> HIDE DEF M, R
    <3>3. \A f \in M : \E k \in 1..c : f.vout = got[k].vout
      BY <3>1, <3>2
    <3>4. \A k \in 1..c : R(k) \in M /\ R(k).vout = got[k].vout
      BY <3>1, <3>2
    <3>5. \A k \in 1..c : \E f \in M : f.vout = got[k].vout
      BY <3>4
    <3>6. {f.vout : f \in M} = {got[k].vout : k \in 1..c}
      BY <3>3, <3>5
    <3> QED
      BY <3>6 DEF M
  <2>2. {got[k].vout : k \in 1..c} = {o.vout : o \in P}
    <3> HIDE DEF P
    <3> QED
      BY <1>12
  <2> QED
    BY <1>14, <2>1, <2>2
<1> QED
  BY <1>15, <1>16

-----------------------------------------------------------------------------
(* The transaction of a send.                                              *)

\* The inputs of a send, with the key of its payment.
Sends(vin, recipient) ==
    /\ \E m \in Nat : DOMAIN vin = 1..m
    /\ \A i \in DOMAIN vin : Formed(vin[i]) /\ x_only(vin[i].signer) = vin[i].point
    /\ recipient = OneTimeKey(vin, 0) /\ recipient \in Scalar

\* The one-time key derived from the inputs in the order of selection is the one
\* of the shuffled transaction.
LEMMA SendKey ==
    ASSUME payee \in Payee, NEW income \in SUBSET Income, NEW chosen \in SUBSET Coin,
           NEW inputs, inputs = SpInputs(income, chosen),
           NEW recipient, recipient = send_address(inputs, payee.scan, payee.spend), recipient # 0,
           NEW v \in Shuffles(inputs), NEW vin, vin = finalize_mixed_psbt(v, income)
    PROVE  Sends(vin, recipient)
<1> DEFINE m == Cardinality(income) + Cardinality(chosen)
           From(in) == \/ \E u \in income : SpendsIncome(in, u)
                       \/ \E c \in chosen : SpendsCoin(in, c)
           ks == [i \in DOMAIN inputs |-> inputs[i].key]
<1>1. m \in Nat /\ DOMAIN inputs = 1..m /\ \A i \in 1..m : From(inputs[i])
  <2>1. IsFiniteSet(income) /\ IsFiniteSet(chosen)
    BY WalletAssumption, FS_Subset
  <2>2. /\ DOMAIN inputs = 1..(Cardinality(income) + Cardinality(chosen))
        /\ Cardinality(income) \in Nat /\ Cardinality(chosen) \in Nat
        /\ \A i \in DOMAIN inputs : \/ \E u \in income : SpendsIncome(inputs[i], u)
                                    \/ \E c \in chosen : SpendsCoin(inputs[i], c)
    BY <2>1, SpInputsFacts
  <2> QED
    BY <2>2
<1> HIDE DEF m
<1>2. PICK p \in Bijection(1..m, 1..m) : DOMAIN v = 1..m /\ \A i \in 1..m : p[i] \in 1..m /\ v[i] = inputs[p[i]]
  <2>1. IsFiniteSet(DOMAIN inputs)
    BY <1>1, FS_Interval
  <2>2. /\ DOMAIN v = DOMAIN inputs
        /\ \E p \in Bijection(DOMAIN inputs, DOMAIN inputs) :
              \A i \in DOMAIN inputs : p[i] \in DOMAIN inputs /\ v[i] = inputs[p[i]]
    BY <2>1, ShuffleFacts
  <2> HIDE DEF From
  <2> QED
    BY <1>1, <2>2
<1>3. \A i \in 1..m : From(v[i])
  <2> HIDE DEF From
  <2> QED
    BY <1>1, <1>2
<1>4. /\ DOMAIN vin = 1..m
      /\ \A i \in 1..m : /\ x_only(vin[i].signer) = vin[i].point
                         /\ vin[i].point = v[i].point /\ vin[i].outpoint = v[i].outpoint
                         /\ vin[i].script = "p2tr" /\ vin[i].items = 1 /\ vin[i].annex = FALSE
                         /\ vin[i].nums = FALSE
  <2>1. Owned(v, income, chosen)
    BY <1>2, <1>3 DEF Owned
  <2>2. Signed(vin, v)
    BY <2>1, SignedByOwner
  <2>3. DOMAIN v = 1..m
    BY <1>2
  <2> QED
    BY <2>2, <2>3, Zenon DEF Signed
<1>5. \A i \in 1..m : /\ v[i].point \in Scalar /\ v[i].key = v[i].point
                      /\ x_only(v[i].point) = v[i].point /\ v[i].outpoint \in OutPoint
  BY <1>3, InputKeys
<1>6. \A i \in 1..m : Formed(vin[i])
  <2> SUFFICES ASSUME NEW i \in 1..m PROVE Formed(vin[i])
    OBVIOUS
  <2>1. vin[i].annex \in BOOLEAN /\ vin[i].nums \in BOOLEAN
    BY <1>4, Zenon
  <2>2. vin[i].items \in Nat /\ vin[i].point \in Scalar /\ vin[i].outpoint \in OutPoint
    BY <1>4, <1>5
  <2> QED
    BY <2>1, <2>2, Zenon DEF Formed
<1>7. Keys(vin) = [k \in 1..m |-> ks[p[k]]]
  <2>1. {i \in DOMAIN vin : Eligible(vin[i])} = 1..m
    BY <1>4 DEF Eligible, KeyPath
  <2>2. Sublist(vin, 1..m) = [k \in 1..m |-> vin[k]]
    BY <1>1, SublistAll
  <2>3. \A k \in 1..m : KeyOf(vin[k]) = ks[p[k]]
    <3> SUFFICES ASSUME NEW k \in 1..m PROVE KeyOf(vin[k]) = ks[p[k]]
      OBVIOUS
    <3>1. vin[k].script = "p2tr" /\ vin[k].point = v[k].point
      BY <1>4
    <3>2. x_only(v[k].point) = v[k].point /\ v[k].key = v[k].point
      BY <1>5
    <3>3. p[k] \in 1..m /\ v[k] = inputs[p[k]]
      BY <1>2
    <3>4. ks[p[k]] = v[k].key
      BY <1>1, <3>3
    <3> QED
      BY <3>1, <3>2, <3>4 DEF KeyOf
  <2> HIDE DEF ks
  <2>4. Keys(vin) = [k \in DOMAIN Sublist(vin, 1..m) |-> KeyOf(Sublist(vin, 1..m)[k])]
    BY <2>1 DEF Keys
  <2>5. /\ DOMAIN Sublist(vin, 1..m) = 1..m
        /\ \A k \in 1..m : Sublist(vin, 1..m)[k] = vin[k]
    BY <2>2
  <2>6. \A k \in 1..m : KeyOf(Sublist(vin, 1..m)[k]) = ks[p[k]]
    BY <2>3, <2>5, Zenon
  <2> DEFINE s == Sublist(vin, 1..m)
             e(k) == KeyOf(s[k])
  <2>7. Keys(vin) = [k \in 1..m |-> e(k)] /\ \A k \in 1..m : e(k) = ks[p[k]]
    BY <2>4, <2>5, <2>6, Zenon
  <2> HIDE DEF e
  <2> QED
    BY <2>7
<1>8. ks \in [1..m -> Scalar] /\ ks \in [1..m -> Nat] /\ IsFiniteSet(1..m)
  <2>1. \A i \in 1..m : inputs[i].key \in Scalar
    BY <1>1, InputKeys
  <2>2. ks \in [1..m -> Scalar]
    BY <1>1, <2>1
  <2>3. Scalar \in SUBSET Nat
    BY QOdd DEF Scalar
  <2>4. IsFiniteSet(1..m)
    BY <1>1, FS_Interval
  <2> HIDE DEF ks
  <2> QED
    BY <2>2, <2>3, <2>4
<1> DEFINE a_sum == KeySum(ks)
           small == Min({inputs[i].outpoint : i \in DOMAIN inputs})
           ecdh == Times(Times(InputHash[<<small, a_sum>>], a_sum), payee.scan)
<1>9. a_sum # 0 /\ recipient = x_only(Plus(payee.spend, SharedHash[<<ecdh, 0>>]))
  BY DEF send_address, output_at, input_hash, smallest_outpoint
<1> HIDE DEF ks
<1>10. m > 0 /\ a_sum = SumOf(Keys(vin))
  <2>1. m > 0 /\ a_sum = Sigma(ks) % Q
    BY <1>1, <1>8, <1>9, KeySumFacts
  <2>2. Sigma([k \in 1..m |-> ks[p[k]]]) = Sigma(ks)
    <3> DEFINE D == 1..m
    <3>1. IsFiniteSet(D) /\ ks \in [D -> Nat] /\ p \in Bijection(D, D)
      BY <1>2, <1>8
    <3> HIDE DEF D
    <3>2. Sigma([k \in D |-> ks[p[k]]]) = Sigma(ks)
      BY <3>1, SigmaPermuted
    <3> QED
      BY <3>2 DEF D
  <2>3. Keys(vin) \in [1..m -> Scalar]
    BY <1>2, <1>7, <1>8
  <2>4. SumOf(Keys(vin)) = Sigma(Keys(vin)) % Q
    BY <1>1, <2>3, SumOfIs
  <2> QED
    BY <1>7, <2>1, <2>2, <2>4
<1>11. {vin[i].outpoint : i \in DOMAIN vin} = {inputs[i].outpoint : i \in DOMAIN inputs}
  <2>1. \A i \in 1..m : vin[i].outpoint = inputs[p[i]].outpoint
    BY <1>2, <1>4
  <2>2. \A j \in 1..m : \E i \in 1..m : p[i] = j
    BY <1>2 DEF Bijection, Surjection
  <2>3. \A j \in 1..m : \E i \in 1..m : vin[i].outpoint = inputs[j].outpoint
    BY <2>1, <2>2
  <2>4. \A i \in 1..m : p[i] \in 1..m
    BY <1>2
  <2> DEFINE A == {vin[i].outpoint : i \in 1..m}
             B == {inputs[i].outpoint : i \in 1..m}
  <2>5. \A x \in A : x \in B
    BY <2>1, <2>4
  <2>6. \A x \in B : x \in A
    BY <2>3
  <2>7. A = B
    <3> HIDE DEF A, B
    <3> QED
      BY <2>5, <2>6
  <2>8. DOMAIN vin = 1..m /\ DOMAIN inputs = 1..m
    BY <1>1, <1>4
  <2> QED
    BY <2>7, <2>8, Zenon
<1>12. ecdh = Secret(vin)
  BY <1>10, <1>11 DEF Secret
<1>13. recipient = OneTimeKey(vin, 0)
  BY <1>9, <1>12 DEF OneTimeKey
<1>14. recipient \in Scalar
  <2>1. Secret(vin) \in Scalar
    BY <1>1, <1>4, <1>6, <1>9, <1>10, SecretScalar
  <2>2. 0 \in 0..MaxIndex
    BY InputAssumption
  <2>3. OneTimeKey(vin, 0) \in 0..(Q - 1)
    BY <2>1, <2>2, OneTimeKeyType
  <2> QED
    BY <1>13, <2>3, QOdd DEF Scalar
<1> QED
  BY <1>1, <1>4, <1>6, <1>13, <1>14 DEF Sends

\* What build_signed_to_sp leaves when it signs.
LEMMA SignedTx ==
    ASSUME NEW coins, NEW income, NEW sats, NEW fr,
           build_signed_to_sp(coins, income, sats, fr), phase' = "signed",
           NEW selected,
           selected = select_largest_first(coins, sats, fr, Worth(income), Cardinality(income)),
           NEW inputs, inputs = SpInputs(income, selected.coins),
           NEW recipient, recipient = send_address(inputs, payee.scan, payee.spend),
           NEW change,
           change = Change(Worth(income) + Worth(selected.coins), Len(inputs), sats, fr),
           NEW pays, pays = [script |-> "p2tr", key |-> recipient, sats |-> sats]
    PROVE  /\ recipient # 0 /\ picked' = selected.coins
           /\ \E v \in Shuffles(inputs),
                 vout \in Shuffles(IF change = 0 THEN <<pays>>
                                   ELSE <<pays, [script |-> "p2tr", key |-> ChangeKey, sats |-> change]>>) :
                /\ tx' = [coinbase |-> FALSE, vin |-> finalize_mixed_psbt(v, income), vout |-> vout]
                /\ paid' = {CHOOSE i \in DOMAIN vout : vout[i] = pays}
BY DEF build_signed_to_sp, Refuse

\* One payment, with or without change.
LEMMA OnePayment ==
    ASSUME NEW pays, NEW rest, NEW s, s = <<pays>> \/ s = <<pays, rest>>,
           NEW vout \in Shuffles(s), NEW i, i = CHOOSE j \in DOMAIN vout : vout[j] = pays
    PROVE  /\ DOMAIN vout = 1..1 \/ DOMAIN vout = 1..2
           /\ \A j \in DOMAIN vout : vout[j] = pays \/ (s = <<pays, rest>> /\ vout[j] = rest)
           /\ i \in DOMAIN vout /\ vout[i] = pays
<1>1. /\ DOMAIN s = 1..1 \/ DOMAIN s = 1..2
      /\ s[1] = pays /\ 1 \in DOMAIN s
      /\ \A j \in DOMAIN s : s[j] = pays \/ (s = <<pays, rest>> /\ s[j] = rest)
  <2>1. CASE s = <<pays>>
    <3>1. DOMAIN s = 1..1 /\ s[1] = pays
      BY <2>1
    <3>2. \A j \in 1..1 : j = 1
      OBVIOUS
    <3> QED
      BY <3>1, <3>2
  <2>2. CASE s = <<pays, rest>>
    <3>1. DOMAIN s = 1..2 /\ s[1] = pays /\ s[2] = rest
      BY <2>2
    <3>2. \A j \in 1..2 : j = 1 \/ j = 2
      OBVIOUS
    <3> QED
      BY <2>2, <3>1, <3>2
  <2> QED
    BY <2>1, <2>2
<1>2. IsFiniteSet(DOMAIN s)
  <2>1. \A n \in Nat : IsFiniteSet(1..n)
    BY FS_Interval
  <2>2. \E n \in Nat : DOMAIN s = 1..n
    BY <1>1
  <2> QED
    BY <2>1, <2>2
<1>3. /\ DOMAIN vout = DOMAIN s
      /\ \E p \in Bijection(DOMAIN s, DOMAIN s) :
             \A j \in DOMAIN s : p[j] \in DOMAIN s /\ vout[j] = s[p[j]]
  BY <1>2, ShuffleFacts
<1>4. PICK p \in Bijection(DOMAIN s, DOMAIN s) :
          \A j \in DOMAIN s : p[j] \in DOMAIN s /\ vout[j] = s[p[j]]
  BY <1>3
<1>5. \E j \in DOMAIN s : p[j] = 1
  BY <1>1, <1>4 DEF Bijection, Surjection
<1>6. \E j \in DOMAIN vout : vout[j] = pays
  BY <1>1, <1>3, <1>4, <1>5
<1>7. i \in DOMAIN vout /\ vout[i] = pays
  BY <1>6
<1> QED
  BY <1>1, <1>3, <1>4, <1>7

LEMMA SendBuilt ==
    ASSUME payee \in Payee, sp_send, phase' = "signed"
    PROVE  /\ Built(tx', paid') /\ picked' \in SUBSET asked'.coins
           /\ \A i \in DOMAIN tx'.vin : x_only(tx'.vin[i].signer) = tx'.vin[i].point
<1>1. PICK coins \in SUBSET Coin, income \in SUBSET Income, sats \in Ask, e \in Estimates :
        LET fr == recommended_feerate(e, net = "mainnet")
        IN  /\ asked' = [coins |-> coins, income |-> income, sats |-> sats, rate |-> fr]
            /\ IF sats < SP_MIN_SATS THEN Refuse("too_small")
               ELSE IF decode(encode(net)) # net THEN Refuse("network")
               ELSE build_signed_to_sp(coins, income, sats, fr)
  BY DEF sp_send
<1> DEFINE fr == recommended_feerate(e, net = "mainnet")
           selected == select_largest_first(coins, sats, fr, Worth(income), Cardinality(income))
           chosen == selected.coins
           inputs == SpInputs(income, chosen)
           recipient == send_address(inputs, payee.scan, payee.spend)
           change == Change(Worth(income) + Worth(chosen), Len(inputs), sats, fr)
           pays == [script |-> "p2tr", key |-> recipient, sats |-> sats]
           rest == [script |-> "p2tr", key |-> ChangeKey, sats |-> change]
           s == IF change = 0 THEN <<pays>> ELSE <<pays, rest>>
<1>2. asked' = [coins |-> coins, income |-> income, sats |-> sats, rate |-> fr]
  BY <1>1
<1>3. build_signed_to_sp(coins, income, sats, fr)
  BY <1>1 DEF Refuse
<1>4. /\ recipient # 0 /\ picked' = chosen
      /\ \E v \in Shuffles(inputs), vout \in Shuffles(s) :
            /\ tx' = [coinbase |-> FALSE, vin |-> finalize_mixed_psbt(v, income), vout |-> vout]
            /\ paid' = {CHOOSE i \in DOMAIN vout : vout[i] = pays}
  <2>1. /\ selected = select_largest_first(coins, sats, fr, Worth(income), Cardinality(income))
        /\ inputs = SpInputs(income, selected.coins)
        /\ recipient = send_address(inputs, payee.scan, payee.spend)
        /\ change = Change(Worth(income) + Worth(selected.coins), Len(inputs), sats, fr)
        /\ pays = [script |-> "p2tr", key |-> recipient, sats |-> sats]
        /\ s = (IF change = 0 THEN <<pays>>
                ELSE <<pays, [script |-> "p2tr", key |-> ChangeKey, sats |-> change]>>)
        /\ chosen = selected.coins
    OBVIOUS
  <2> HIDE DEF fr, selected, inputs, recipient, change, pays, s, chosen
  <2> QED
    BY <1>3, <2>1, SignedTx
<1>5. fr \in Nat /\ sats \in Nat
  <2>1. fr \in 1..MAX_FEERATE_SAT_PER_VB
    BY FeerateFacts
  <2>2. sats \in 0..MaxU64
    BY InputAssumption
  <2> HIDE DEF fr
  <2> QED
    BY <2>1, <2>2 DEF MAX_FEERATE_SAT_PER_VB
<1>6. /\ IsFiniteSet(coins) /\ \A c \in coins : c.sats \in Nat
      /\ Worth(income) \in Nat /\ Cardinality(income) \in Nat /\ IsFiniteSet(income)
  BY WalletFacts
<1>7. chosen \in SUBSET coins /\ chosen \in SUBSET Coin
  <2> HIDE DEF fr
  <2>1. selected.coins \in SUBSET coins
    <3> DEFINE W == Worth(income)
               C == Cardinality(income)
    <3>1. W \in Nat /\ C \in Nat /\ selected = select_largest_first(coins, sats, fr, W, C)
      BY <1>6
    <3>2. sats \in Nat /\ fr \in Nat /\ IsFiniteSet(coins) /\ \A c \in coins : c.sats \in Nat
      BY <1>5, <1>6
    <3> HIDE DEF selected, W, C
    <3>3. Selection(selected, coins, sats, fr, W, C)
      BY ONLY <3>1, <3>2, SelectFacts
    <3> QED
      BY <3>3 DEF Selection
  <2> HIDE DEF selected
  <2> QED
    BY <2>1
<1>8. change \in Nat
  <2> HIDE DEF fr, chosen
  <2>1. Worth(chosen) \in Nat
    BY <1>7, WalletFacts
  <2>2. Len(inputs) \in Nat
    <3>1. IsFiniteSet(chosen)
      BY <1>6, <1>7, FS_Subset
    <3>2. /\ Len(SpInputs(income, chosen)) = Cardinality(income) + Cardinality(chosen)
          /\ Cardinality(income) \in Nat /\ Cardinality(chosen) \in Nat
      BY <1>6, <3>1, SpInputsFacts
    <3> QED
      BY <3>2
  <2> HIDE DEF inputs
  <2>3. FeeOf(Len(inputs), 2, fr) \in Int
    <3> DEFINE n == Len(inputs)
    <3>1. n \in Nat
      BY <2>2
    <3> HIDE DEF n
    <3>2. fr * (42 + 230 * n + 172 * 2) + 3 \in Int
      BY <1>5, <3>1
    <3> QED
      BY <3>2 DEF FeeOf, n
  <2> DEFINE total == Worth(income) + Worth(chosen)
             fee == FeeOf(Len(inputs), 2, fr)
  <2>4. total \in Nat /\ fee \in Int
    BY <1>6, <2>1, <2>3
  <2>5. change = IF (total - sats) - fee >= 330 THEN (total - sats) - fee ELSE 0
    BY DEF Change
  <2> HIDE DEF total, fee, change
  <2> QED
    BY <1>5, <2>4, <2>5
<1> HIDE DEF fr, selected, chosen, inputs, recipient, change
<1>9. PICK v \in Shuffles(inputs), vout \in Shuffles(s) :
            /\ tx' = [coinbase |-> FALSE, vin |-> finalize_mixed_psbt(v, income), vout |-> vout]
            /\ paid' = {CHOOSE i \in DOMAIN vout : vout[i] = pays}
  BY <1>4
<1> DEFINE vin == finalize_mixed_psbt(v, income)
           i0 == CHOOSE i \in DOMAIN vout : vout[i] = pays
<1>10. tx'.coinbase = FALSE /\ tx'.vin = vin /\ tx'.vout = vout /\ paid' = {i0}
  BY <1>9
<1>11. /\ \E m \in Nat : DOMAIN vin = 1..m
       /\ \A i \in DOMAIN vin : Formed(vin[i]) /\ x_only(vin[i].signer) = vin[i].point
       /\ recipient = OneTimeKey(vin, 0) /\ recipient \in Scalar
  <2> HIDE DEF vin
  <2>1. vin = finalize_mixed_psbt(v, income)
    BY DEF vin
  <2>2. inputs = SpInputs(income, chosen) /\ recipient = send_address(inputs, payee.scan, payee.spend)
    BY DEF inputs, recipient
  <2>3. recipient # 0
    BY <1>4
  <2>4. Sends(vin, recipient)
    BY <1>7, <2>1, <2>2, <2>3, SendKey
  <2> QED
    BY <2>4 DEF Sends
<1> HIDE DEF vin
<1>12. /\ DOMAIN vout = 1..1 \/ DOMAIN vout = 1..2
       /\ \A j \in DOMAIN vout : vout[j] = pays \/ vout[j] = rest
       /\ i0 \in DOMAIN vout /\ vout[i0] = pays
  <2>1. s = <<pays>> \/ s = <<pays, rest>>
    OBVIOUS
  <2>2. i0 = CHOOSE j \in DOMAIN vout : vout[j] = pays
    OBVIOUS
  <2> HIDE DEF pays, rest, s, i0
  <2> QED
    BY <2>1, <2>2, OnePayment
<1> HIDE DEF i0
<1>13. \A j \in DOMAIN vout : vout[j].key \in Scalar /\ vout[j].sats \in Nat
  <2>1. pays.key \in Scalar /\ pays.sats \in Nat /\ rest.key \in Scalar /\ rest.sats \in Nat
    BY <1>5, <1>8, <1>11, WalletAssumption
  <2> HIDE DEF pays, rest
  <2> QED
    BY <1>12, <2>1
<1>14. \E n \in 0..(MaxIndex + 1) : DOMAIN vout = 1..n
  <2>1. 1 \in 0..(MaxIndex + 1) /\ 2 \in 0..(MaxIndex + 1)
    BY InputAssumption
  <2> HIDE DEF pays, rest
  <2> QED
    BY <1>12, <2>1
<1>15. vout[i0].script = "p2tr" /\ vout[i0].key = OneTimeKey(vin, 0)
  BY <1>11, <1>12
<1>16. \E b \in Bijection(1..Cardinality({i0}), {i0}) :
          \A k \in 1..Cardinality({i0}) : vout[b[k]].key = OneTimeKey(vin, k - 1)
  <2> DEFINE b == [k \in 1..1 |-> i0]
  <2>1. Cardinality({i0}) = 1
    BY FS_Singleton
  <2>2. \A k \in 1..1 : k = 1 /\ k - 1 = 0 /\ b[k] = i0
    OBVIOUS
  <2>3. b \in [1..1 -> {i0}] /\ \A x \in {i0} : \E k \in 1..1 : b[k] = x
    OBVIOUS
  <2> HIDE DEF b
  <2>4. b \in Bijection(1..1, {i0})
    BY <2>2, <2>3 DEF Bijection, Injection, Surjection, IsInjective
  <2>5. \A k \in 1..1 : vout[b[k]].key = OneTimeKey(vin, k - 1)
    BY <1>15, <2>2
  <2> QED
    BY <2>1, <2>4, <2>5
<1>17. Built([coinbase |-> FALSE, vin |-> vin, vout |-> vout], {i0})
  BY <1>11, <1>12, <1>13, <1>14, <1>15, <1>16 DEF Built
<1>18. tx' = [coinbase |-> FALSE, vin |-> vin, vout |-> vout]
  BY <1>9 DEF vin
<1>19. Built(tx', paid')
  BY <1>10, <1>17, <1>18
<1>20. picked' \in SUBSET asked'.coins
  BY <1>2, <1>4, <1>7
<1> QED
  BY <1>10, <1>11, <1>19, <1>20

-----------------------------------------------------------------------------
(* The transaction of another wallet.                                      *)

LEMMA UpTo == \A n \in Nat : IsFiniteSet(1..n) /\ Cardinality(1..n) = n
<1> SUFFICES ASSUME NEW n \in Nat PROVE IsFiniteSet(1..n) /\ Cardinality(1..n) = n
  OBVIOUS
<1>1. IsFiniteSet(1..n) /\ Cardinality(1..n) = IF 1 > n THEN 0 ELSE n - 1 + 1
  BY FS_Interval
<1> QED
  BY <1>1

\* The payments among shuffled outputs: all but the last one of the list.
Places(vout, q, s, n) ==
    /\ DOMAIN vout = 1..(n + 1) /\ Cardinality(q) = n
    /\ \A i \in DOMAIN vout : \E k \in 1..(n + 1) : vout[i] = s[k]
    /\ \A i \in q : i \in DOMAIN vout /\ \E k \in 1..n : vout[i] = s[k]
    /\ \E b \in Bijection(1..n, q) : \A k \in 1..n : vout[b[k]] = s[k]

LEMMA ManyPayments ==
    ASSUME NEW n \in Nat, NEW s, DOMAIN s = 1..(n + 1), NEW other, s[n + 1] = other,
           \A k \in 1..n : s[k] # other, NEW vout \in Shuffles(s),
           NEW q, q = {i \in DOMAIN vout : vout[i] # other}
    PROVE  Places(vout, q, s, n)
<1> DEFINE N == n + 1
           D == 1..N
<1>1. N \in Nat /\ DOMAIN s = D /\ IsFiniteSet(D)
  <2>1. N \in Nat
    OBVIOUS
  <2> HIDE DEF N
  <2>2. IsFiniteSet(1..N)
    BY <2>1, FS_Interval
  <2> QED
    BY <2>1, <2>2 DEF N
<1>2. /\ DOMAIN vout = DOMAIN s
      /\ \E p \in Bijection(DOMAIN s, DOMAIN s) :
             \A j \in DOMAIN s : p[j] \in DOMAIN s /\ vout[j] = s[p[j]]
  BY <1>1, ShuffleFacts
<1>3. PICK p \in Bijection(D, D) : \A j \in D : p[j] \in D /\ vout[j] = s[p[j]]
  <2> HIDE DEF D
  <2> QED
    BY <1>1, <1>2
<1>4. /\ DOMAIN vout = D /\ p \in [D -> D] /\ \A i, j \in D : p[i] = p[j] => i = j
      /\ \A k \in D : \E i \in D : p[i] = k
  <2> HIDE DEF D
  <2> QED
    BY <1>1, <1>2, <1>3 DEF Bijection, Injection, Surjection, IsInjective
<1>5. \A i \in D : i \in q <=> p[i] \in 1..n
  <2>1. \A k \in D : (s[k] # other <=> k \in 1..n)
    <3>1. \A k \in D : k \in 1..n \/ k = n + 1
      OBVIOUS
    <3>2. ~(n + 1 \in 1..n)
      OBVIOUS
    <3> HIDE DEF D
    <3> QED
      BY <3>1, <3>2
  <2> HIDE DEF D
  <2> QED
    BY <1>3, <1>4, <2>1
<1>6. q \in SUBSET D /\ \A k \in 1..n : k \in D
  <2>1. q \in SUBSET DOMAIN vout
    OBVIOUS
  <2>2. \A k \in 1..n : k \in D
    OBVIOUS
  <2> HIDE DEF D
  <2> QED
    BY <1>4, <2>1, <2>2
<1> DEFINE b == [k \in 1..n |-> CHOOSE i \in D : p[i] = k]
<1> HIDE DEF D, N
<1>7. \A k \in 1..n : b[k] \in D /\ p[b[k]] = k
  BY <1>4, <1>6
<1>8. \A k \in 1..n : b[k] \in q /\ vout[b[k]] = s[k]
  BY <1>3, <1>5, <1>7
<1>9. b \in [1..n -> q]
  BY <1>8
<1> HIDE DEF b
<1>10. \A i, j \in 1..n : b[i] = b[j] => i = j
  BY <1>7
<1>11. \A x \in q : \E k \in 1..n : b[k] = x
  <2> SUFFICES ASSUME NEW x \in q PROVE \E k \in 1..n : b[k] = x
    OBVIOUS
  <2>1. x \in D /\ p[x] \in 1..n
    BY <1>5, <1>6
  <2>2. b[p[x]] \in D /\ p[b[p[x]]] = p[x]
    BY <1>7, <2>1
  <2> QED
    BY <1>4, <2>1, <2>2
<1>12. b \in Bijection(1..n, q)
  BY <1>9, <1>10, <1>11 DEF Bijection, Injection, Surjection, IsInjective
<1>13. Cardinality(q) = n
  <2>1. IsFiniteSet(1..n) /\ Cardinality(1..n) = n
    BY UpTo
  <2>2. ExistsBijection(1..n, q)
    BY <1>12 DEF ExistsBijection
  <2> QED
    BY <2>1, <2>2, FS_Bijection
<1>14. \A i \in q : i \in D /\ \E k \in 1..n : vout[i] = s[k]
  BY <1>3, <1>5, <1>6
<1>15. \A i \in D : \E k \in D : vout[i] = s[k]
  BY <1>3
<1>16. D = 1..(n + 1)
  BY DEF D, N
<1> QED
  BY <1>4, <1>8, <1>12, <1>13, <1>14, <1>15, <1>16 DEF Places

LEMMA ForeignBuilt == ASSUME payee \in Payee, foreign_tx PROVE Built(tx', paid')
<1> DEFINE Pays(n, sats, vin) ==
               [k \in 1..n |-> [script |-> "p2tr", sats |-> sats, key |-> OneTimeKey(vin, k - 1)]]
           Other(sats) == [script |-> "p2wpkh", key |-> ChangeKey, sats |-> sats]
           Body(m, n, sats, vin) ==
               /\ \A i, j \in 1..m : vin[i].outpoint = vin[j].outpoint => i = j
               /\ n > 0 => SumOf(Keys(vin)) # 0
               /\ \A k \in 1..n : Pays(n, sats, vin)[k].key # 0
               /\ \E vout \in Shuffles(Append(Pays(n, sats, vin), Other(sats))) :
                     /\ tx' = [coinbase |-> FALSE, vin |-> vin, vout |-> vout]
                     /\ paid' = {i \in DOMAIN vout : vout[i] # Other(sats)}
<1>1. \E m \in 1..MaxForeign, n \in 0..MaxForeign, sats \in {DUST_FLOOR - 1, DUST_FLOOR} :
      \E vin \in [1..m -> ForeignInput] : Body(m, n, sats, vin)
  BY Zenon DEF foreign_tx
<1> HIDE DEF Body
<1>a. PICK m \in 1..MaxForeign, n \in 0..MaxForeign, sats \in {DUST_FLOOR - 1, DUST_FLOOR} :
      \E vin \in [1..m -> ForeignInput] : Body(m, n, sats, vin)
  BY <1>1
<1>2. PICK vin \in [1..m -> ForeignInput] : Body(m, n, sats, vin)
  BY <1>a
<1> DEFINE pays == Pays(n, sats, vin)
           other == Other(sats)
           s == Append(pays, other)
<1>3. PICK vout \in Shuffles(s) : /\ tx' = [coinbase |-> FALSE, vin |-> vin, vout |-> vout]
                                  /\ paid' = {i \in DOMAIN vout : vout[i] # other}
  BY <1>2 DEF Body
<1>4. /\ MaxIndex \in Nat /\ MaxForeign \in Nat /\ MaxForeign <= MaxIndex
      /\ m \in Nat /\ m > 0 /\ n \in Nat /\ n <= MaxIndex /\ sats \in Nat
  <2>1. MaxIndex \in Nat /\ MaxForeign \in Nat /\ MaxForeign <= MaxIndex
    BY InputAssumption
  <2> QED
    BY <2>1 DEF DUST_FLOOR
<1>5. DOMAIN vin = 1..m /\ \A i \in 1..m : Formed(vin[i])
  BY InputAssumption DEF Formed
<1>6. \A k \in 1..n : OneTimeKey(vin, k - 1) \in Scalar
  <2> SUFFICES ASSUME NEW k \in 1..n PROVE OneTimeKey(vin, k - 1) \in Scalar
    OBVIOUS
  <2>1. n > 0 /\ k - 1 \in 0..MaxIndex
    BY <1>4
  <2>2. SumOf(Keys(vin)) # 0 /\ OneTimeKey(vin, k - 1) # 0
    BY <1>2, <2>1 DEF Body
  <2>3. Secret(vin) \in Scalar
    BY <1>4, <1>5, <2>2, SecretScalar
  <2> DEFINE j == k - 1
  <2>4. j \in 0..MaxIndex
    BY <2>1
  <2> HIDE DEF j
  <2>5. OneTimeKey(vin, j) \in 0..(Q - 1)
    BY <2>3, <2>4, OneTimeKeyType
  <2> QED
    BY <2>2, <2>5, QOdd DEF Scalar, j
<1>7. /\ DOMAIN s = 1..(n + 1) /\ s[n + 1] = other
      /\ \A k \in 1..n : s[k] = pays[k]
  <2> DEFINE A == {pays[k] : k \in 1..n} \cup {other}
  <2>1. DOMAIN pays = 1..n /\ \A k \in 1..n : pays[k] \in A
    OBVIOUS
  <2>2. pays = [k \in 1..n |-> pays[k]]
    OBVIOUS
  <2>3. other \in A
    OBVIOUS
  <2> HIDE DEF pays, other, A
  <2>4. pays \in Seq(A) /\ Len(pays) = n
    BY <1>4, <2>1, <2>2
  <2> QED
    BY <1>4, <2>3, <2>4
<1>8. \A k \in 1..n : /\ pays[k].script = "p2tr" /\ pays[k].sats = sats
                      /\ pays[k].key = OneTimeKey(vin, k - 1) /\ pays[k] # other
  OBVIOUS
<1>9. other.script = "p2wpkh" /\ other.key \in Scalar /\ other.sats \in Nat
  BY <1>4, WalletAssumption
<1> HIDE DEF pays, other, s
<1>10. Places(vout, paid', s, n)
  <2> DEFINE q == paid'
  <2>1. q = {i \in DOMAIN vout : vout[i] # other}
    BY <1>3
  <2>2. \A k \in 1..n : s[k] # other
    BY <1>7, <1>8
  <2> HIDE DEF q
  <2>3. Places(vout, q, s, n)
    BY <1>4, <1>7, <2>1, <2>2, ManyPayments
  <2> QED
    BY <2>3 DEF q
<1>11. \A k \in 1..(n + 1) : s[k].key \in Scalar /\ s[k].sats \in Nat
  <2>1. \A k \in 1..(n + 1) : k \in 1..n \/ k = n + 1
    BY <1>4
  <2> QED
    BY <1>4, <1>6, <1>7, <1>8, <1>9, <2>1
<1>12. \A i \in DOMAIN vout : vout[i].key \in Scalar /\ vout[i].sats \in Nat
  BY <1>10, <1>11 DEF Places
<1>13. \A i \in paid' : i \in DOMAIN vout /\ vout[i].script = "p2tr"
  <2> SUFFICES ASSUME NEW i \in paid' PROVE i \in DOMAIN vout /\ vout[i].script = "p2tr"
    OBVIOUS
  <2>1. i \in DOMAIN vout /\ \E k \in 1..n : vout[i] = s[k]
    BY <1>10 DEF Places
  <2>2. PICK k \in 1..n : vout[i] = s[k]
    BY <2>1
  <2>3. s[k].script = "p2tr"
    BY <1>7, <1>8
  <2> QED
    BY <2>1, <2>2, <2>3
<1>14. Cardinality(paid') = n
       /\ \E b \in Bijection(1..n, paid') : \A k \in 1..n : vout[b[k]].key = OneTimeKey(vin, k - 1)
  <2>1. PICK b \in Bijection(1..n, paid') : \A k \in 1..n : vout[b[k]] = s[k]
    BY <1>10 DEF Places
  <2>2. \A k \in 1..n : vout[b[k]].key = OneTimeKey(vin, k - 1)
    BY <1>7, <1>8, <2>1
  <2> QED
    BY <1>10, <2>1, <2>2 DEF Places
<1>15. DOMAIN vout = 1..(n + 1) /\ n + 1 \in 0..(MaxIndex + 1)
  BY <1>4, <1>10 DEF Places
<1>16. \E l \in 0..(MaxIndex + 1) : DOMAIN vout = 1..l
  BY <1>15
<1>17. tx'.coinbase = FALSE /\ tx'.vin = vin /\ tx'.vout = vout
  BY <1>3
<1> QED
  BY <1>4, <1>5, <1>12, <1>13, <1>14, <1>16, <1>17 DEF Built

-----------------------------------------------------------------------------
(* The invariant.                                                          *)

SendInv ==
    /\ TypeOK
    /\ Built(tx, paid)
    /\ phase # "scanned" => found = {}
    /\ phase = "idle" => picked = {}
    /\ FoundIsSpendable
    /\ PaymentArrives

LEMMA SendInvInit == Init => SendInv
<1> SUFFICES ASSUME Init PROVE SendInv
  OBVIOUS
<1> USE DEF Init, NoTx, NotAsked
<1>0. tx.coinbase = FALSE /\ DOMAIN tx.vin = {} /\ DOMAIN tx.vout = {} /\ 1..0 = {}
  OBVIOUS
<1>1. TypeOK
  BY <1>0 DEF TypeOK, MAX_FEERATE_SAT_PER_VB
<1>2. Built(tx, paid)
  <2>1. Cardinality({}) = 0
    BY FS_EmptySet
  <2>2. 0 \in Nat /\ 0 \in 0..(MaxIndex + 1)
    BY InputAssumption
  <2>3. \E b \in Bijection(1..0, {}) : \A k \in 1..0 : tx.vout[b[k]].key = OneTimeKey(tx.vin, k - 1)
    <3> DEFINE b == [k \in {} |-> k]
    <3>1. b \in Bijection({}, {})
      BY DEF Bijection, Injection, Surjection, IsInjective
    <3> HIDE DEF b
    <3> QED
      BY <1>0, <3>1
  <2> QED
    BY <1>0, <2>1, <2>2, <2>3 DEF Built
<1> QED
  BY <1>1, <1>2 DEF SendInv, FoundIsSpendable, PaymentArrives

LEMMA BuiltNext == ASSUME payee' = payee, Built(tx', paid') PROVE Built(tx, paid)'
BY DEF Built, OneTimeKey, Secret

LEMMA SendInvSame == ASSUME SendInv, UNCHANGED vars PROVE SendInv'
<1>1. Built(tx, paid)'
  BY BuiltNext DEF SendInv, vars
<1>2. TypeOK' /\ FoundIsSpendable'
  BY DEF SendInv, vars, TypeOK, FoundIsSpendable
<1>3. PaymentArrives'
  BY DEF SendInv, vars, PaymentArrives, Mixed, Cancelled, Coincidence, OneTimeKey, Secret
<1> QED
  BY <1>1, <1>2, <1>3 DEF SendInv, vars

\* How a send ends.
LEMMA SendEnds ==
    ASSUME sp_send
    PROVE  /\ phase = "idle" /\ phase' \in Refusal \cup {"signed"}
           /\ phase' # "signed" => UNCHANGED <<picked, tx, paid>>
           /\ asked'.coins \subseteq Coin /\ asked'.income \subseteq Income
           /\ asked'.sats \in Ask /\ asked'.rate \in 0..MAX_FEERATE_SAT_PER_VB
           /\ UNCHANGED <<net, payee, found>>
<1>1. PICK coins \in SUBSET Coin, income \in SUBSET Income, sats \in Ask, e \in Estimates :
        LET fr == recommended_feerate(e, net = "mainnet")
        IN  /\ asked' = [coins |-> coins, income |-> income, sats |-> sats, rate |-> fr]
            /\ IF sats < SP_MIN_SATS THEN Refuse("too_small")
               ELSE IF decode(encode(net)) # net THEN Refuse("network")
               ELSE build_signed_to_sp(coins, income, sats, fr)
  BY DEF sp_send
<1> DEFINE fr == recommended_feerate(e, net = "mainnet")
<1>2. fr \in 0..MAX_FEERATE_SAT_PER_VB
  <2>1. fr \in 1..MAX_FEERATE_SAT_PER_VB
    BY FeerateFacts
  <2> HIDE DEF fr
  <2> QED
    BY <2>1
<1>3. /\ asked'.coins = coins /\ asked'.income = income
      /\ asked'.sats = sats /\ asked'.rate = fr
  BY <1>1
<1>4. \/ Refuse("too_small") \/ Refuse("network") \/ build_signed_to_sp(coins, income, sats, fr)
  BY <1>1
<1> HIDE DEF fr
<1>5. build_signed_to_sp(coins, income, sats, fr)
        => \/ phase' = "signed"
           \/ \E why \in {"no_funds", "no_key", "build", "fee", "blocked"} : Refuse(why)
  BY DEF build_signed_to_sp
<1>6. \/ phase' = "signed"
      \/ \E why \in Refusal : Refuse(why)
  BY <1>4, <1>5 DEF Refusal
<1>7. /\ phase' \in Refusal \cup {"signed"}
      /\ phase' # "signed" => UNCHANGED <<picked, tx, paid>>
  BY <1>6 DEF Refuse
<1>8. phase = "idle" /\ UNCHANGED <<net, payee, found>>
  BY DEF sp_send
<1> QED
  BY <1>2, <1>3, <1>7, <1>8

LEMMA SendInvSend == ASSUME SendInv, sp_send PROVE SendInv'
<1>1. /\ phase = "idle" /\ phase' \in Refusal \cup {"signed"}
      /\ phase' # "signed" => UNCHANGED <<picked, tx, paid>>
      /\ asked'.coins \subseteq Coin /\ asked'.income \subseteq Income
      /\ asked'.sats \in Ask /\ asked'.rate \in 0..MAX_FEERATE_SAT_PER_VB
      /\ UNCHANGED <<net, payee, found>>
  BY SendEnds
<1>2. payee \in Payee /\ net \in Network /\ found = {} /\ picked = {} /\ Built(tx, paid)
  BY <1>1 DEF SendInv, TypeOK
<1>3. Built(tx', paid') /\ picked' \subseteq asked'.coins
  <2>1. CASE phase' = "signed"
    BY <1>2, <2>1, SendBuilt
  <2>2. CASE phase' # "signed"
    BY <1>1, <1>2, <2>2
  <2> QED
    BY <2>1, <2>2
<1>4. phase' = "signed" => \A i \in DOMAIN tx'.vin : x_only(tx'.vin[i].signer) = tx'.vin[i].point
  BY <1>2, SendBuilt
<1>5. Built(tx, paid)'
  BY <1>1, <1>3, BuiltNext
<1>6. phase' # "scanned" /\ phase' # "idle" /\ phase' \in Refusal \cup {"idle", "signed", "seen", "scanned"}
  BY <1>1 DEF Refusal
<1>7. TypeOK'
  <2>1. /\ \A i \in DOMAIN tx'.vin : tx'.vin[i].point \in Scalar
        /\ \A i \in DOMAIN tx'.vout : tx'.vout[i].key \in Scalar /\ tx'.vout[i].sats \in Nat
        /\ paid' \subseteq DOMAIN tx'.vout
    BY <1>3 DEF Built, Formed
  <2> QED
    BY <1>1, <1>2, <1>3, <1>6, <2>1 DEF TypeOK
<1>8. FoundIsSpendable'
  BY <1>1, <1>2, <1>4 DEF FoundIsSpendable
<1>9. PaymentArrives'
  BY <1>6 DEF PaymentArrives
<1> QED
  BY <1>1, <1>2, <1>5, <1>6, <1>7, <1>8, <1>9 DEF SendInv

LEMMA SendInvForeign == ASSUME SendInv, foreign_tx PROVE SendInv'
<1>1. phase = "idle" /\ phase' = "seen" /\ UNCHANGED <<net, payee, asked, picked, found>>
  BY DEF foreign_tx
<1>2. TypeOK /\ payee \in Payee /\ found = {}
  BY <1>1 DEF SendInv, TypeOK
<1>3. Built(tx', paid')
  BY <1>2, ForeignBuilt
<1>4. Built(tx, paid)'
  BY <1>1, <1>3, BuiltNext
<1>5. TypeOK'
  <2>1. /\ \A i \in DOMAIN tx'.vin : tx'.vin[i].point \in Scalar
        /\ \A i \in DOMAIN tx'.vout : tx'.vout[i].key \in Scalar /\ tx'.vout[i].sats \in Nat
        /\ paid' \subseteq DOMAIN tx'.vout
    BY <1>3 DEF Built, Formed
  <2> QED
    BY <1>1, <1>2, <2>1 DEF TypeOK
<1> QED
  BY <1>1, <1>2, <1>4, <1>5 DEF SendInv, FoundIsSpendable, PaymentArrives

LEMMA SendInvScan == ASSUME SendInv, scan_to_tip PROVE SendInv'
<1> DEFINE M == tx_matches(tx, payee.scan, payee.spend)
<1>1. /\ phase' = "scanned" /\ UNCHANGED <<net, payee, asked, picked, tx, paid>>
      /\ found' = {f \in M : f.sats >= DUST_FLOOR}
  BY DEF scan_to_tip
<1>2. TypeOK /\ payee \in Payee /\ Built(tx, paid)
  BY DEF SendInv, TypeOK
<1>3. PICK m \in Nat : DOMAIN tx.vin = 1..m /\ \A i \in 1..m : Formed(tx.vin[i])
  BY <1>2 DEF Built
<1>4. PICK n \in 0..(MaxIndex + 1) : DOMAIN tx.vout = 1..n
  BY <1>2 DEF Built
<1>5. MaxIndex \in Nat /\ n \in Nat /\ n <= MaxIndex + 1
  BY InputAssumption
<1> HIDE DEF M
<1>6. \A f \in M : Match(f, tx, payee.scan, payee.spend, n)
  BY <1>4, <1>5, MatchFacts DEF M
<1>7. \A f \in M : /\ f.vout \in DOMAIN tx.vout /\ f.tweak \in Scalar
                   /\ f.sats = tx.vout[f.vout].sats
                   /\ x_only(spend_keypair(payee.spend, f.tweak)) = tx.vout[f.vout].key
  <2> SUFFICES ASSUME NEW f \in M
               PROVE  /\ f.vout \in DOMAIN tx.vout /\ f.tweak \in Scalar
                      /\ f.sats = tx.vout[f.vout].sats
                      /\ x_only(spend_keypair(payee.spend, f.tweak)) = tx.vout[f.vout].key
    OBVIOUS
  <2>1. Match(f, tx, payee.scan, payee.spend, n)
    BY <1>6
  <2>2. Ecdh(tx.vin, payee.scan) \in Scalar
    <3>1. KeySum(input_pubkeys(tx.vin)) # 0
      BY <2>1 DEF Match
    <3> QED
      BY <1>2, <1>3, <3>1, EcdhScalar
  <2>3. PICK k \in 0..(n - 1) : f.tweak = SharedHash[<<Ecdh(tx.vin, payee.scan), k>>]
    BY <2>1 DEF Match
  <2>4. k \in 0..MaxIndex
    BY <1>5
  <2>5. f.tweak \in Scalar
    BY <2>2, <2>3, <2>4, FieldAssumption
  <2> QED
    BY <1>4, <2>1, <2>5 DEF Match, spend_keypair
<1>8. \A f \in found' : f \in M
  BY <1>1
<1>9. TypeOK'
  <2>1. /\ \A i \in DOMAIN tx.vin : tx.vin[i].point \in Scalar
        /\ \A i \in DOMAIN tx.vout : tx.vout[i].key \in Scalar /\ tx.vout[i].sats \in Nat
        /\ paid \subseteq DOMAIN tx.vout
    BY <1>2 DEF TypeOK
  <2>2. \A f \in found' : f.vout \in DOMAIN tx.vout /\ f.tweak \in Scalar
    BY <1>7, <1>8
  <2>3. /\ net \in Network /\ payee \in Payee
        /\ asked.coins \subseteq Coin /\ asked.income \subseteq Income
        /\ asked.sats \in Ask \cup {0} /\ asked.rate \in 0..MAX_FEERATE_SAT_PER_VB
        /\ picked \subseteq asked.coins
    BY <1>2 DEF TypeOK
  <2> QED
    BY <1>1, <2>1, <2>2, <2>3 DEF TypeOK
<1>10. FoundIsSpendable'
  <2>1. \A f \in found' : x_only(spend_keypair(payee.spend, f.tweak)) = tx.vout[f.vout].key
    BY <1>7, <1>8
  <2> QED
    BY <1>1, <2>1 DEF FoundIsSpendable
<1>11. ~Mixed /\ ~Cancelled /\ ~Coincidence => {f.vout : f \in found'} = {i \in paid : tx.vout[i].sats >= DUST_FLOOR}
  <2>1. SUFFICES ASSUME ~Mixed, ~Cancelled, ~Coincidence
                 PROVE  {f.vout : f \in found'} = {i \in paid : tx.vout[i].sats >= DUST_FLOOR}
    OBVIOUS
  <2>2. /\ KeySum(Keys(tx.vin)) # 0 /\ OneTimeKey(tx.vin, Cardinality(paid)) # 0
        /\ \A i \in DOMAIN tx.vout \ paid : \A k \in 0..Cardinality(paid) :
               tx.vout[i].script = "p2tr" => tx.vout[i].key # OneTimeKey(tx.vin, k)
        /\ \A i \in DOMAIN tx.vin : ~Skipped(tx.vin[i])
    BY <2>1 DEF Mixed, Cancelled, Coincidence
  <2>3. {f.vout : f \in M} = paid
    BY <1>2, <2>2, Arrives DEF M
  <2>4. \A f \in M : f.sats = tx.vout[f.vout].sats
    BY <1>7
  <2> DEFINE A == {f.vout : f \in found'}
             B == {i \in paid : tx.vout[i].sats >= DUST_FLOOR}
  <2>5. ASSUME NEW x \in A PROVE x \in B
    <3>1. PICK f \in found' : x = f.vout
      OBVIOUS
    <3>2. f \in M /\ f.sats >= DUST_FLOOR
      BY <1>1
    <3> QED
      BY <2>3, <2>4, <3>1, <3>2
  <2>6. ASSUME NEW x \in B PROVE x \in A
    <3>1. PICK f \in M : x = f.vout
      BY <2>3
    <3>2. f.sats >= DUST_FLOOR
      BY <2>4, <3>1
    <3>3. f \in found'
      BY <1>1, <3>2
    <3> QED
      BY <3>1, <3>3
  <2> QED
    BY <2>5, <2>6
<1>12. PaymentArrives'
  BY <1>1, <1>11 DEF PaymentArrives, Mixed, Cancelled, Coincidence, OneTimeKey, Secret
<1>13. Built(tx, paid)'
  BY <1>1, <1>2, BuiltNext
<1> QED
  BY <1>1, <1>9, <1>10, <1>12, <1>13 DEF SendInv

LEMMA SendInvStep == ASSUME SendInv, [Next]_vars PROVE SendInv'
BY SendInvSame, SendInvSend, SendInvForeign, SendInvScan DEF Next, Done

LEMMA SendInvAlways == Spec => []SendInv
<1>1. Init => SendInv
  BY SendInvInit
<1>2. SendInv /\ [Next]_vars => SendInv'
  BY SendInvStep
<1> QED
  BY <1>1, <1>2, PTL DEF Spec

\* Every key, tweak and amount of the send, of the transaction and of what the
\* scanner finds is one: products of scalars never vanish, since Q is prime.
THEOREM SendTypeCorrect == Spec => []TypeOK
<1>1. SendInv => TypeOK
  BY DEF SendInv
<1> QED
  BY <1>1, SendInvAlways, PTL

\* What the scanner books can be spent with the stored tweak (scan::tx_matches,
\* sp::receive_inner, sp::spend_keypair), and every input of a built transaction is
\* signed by the key of its output (chain::finalize_mixed_psbt).
THEOREM FoundIsSpendableHolds == Spec => []FoundIsSpendable
<1>1. SendInv => FoundIsSpendable
  BY DEF SendInv
<1> QED
  BY <1>1, SendInvAlways, PTL

\* The scanner finds every payment and nothing else (sp::send_address and the
\* rules of BIP-352 against scan::tx_matches), for every set of keys and every hash
\* function, unless the transaction mixes in an input it does not read.
THEOREM PaymentArrivesHolds == Spec => []PaymentArrives
<1>1. SendInv => PaymentArrives
  BY DEF SendInv
<1> QED
  BY <1>1, SendInvAlways, PTL

=============================================================================
