---------------------------- MODULE LedgerProofs ----------------------------
(***************************************************************************)
(* What the folds of module Ledger return when one entry is appended, and  *)
(* the sums over positions of a ledger.  Induction over data is on sets of *)
(* naturals: a set that holds 0 and, with n, n + 1 holds every natural.    *)
(***************************************************************************)
EXTENDS Ledger, FiniteSetTheorems, TLAPS

\* A nonempty set of positions has a largest one: the fold that keeps the last
\* match (Ledger::latest_status) is well defined.
LEMMA LastPosition ==
    ASSUME NEW n \in Nat, NEW S \in SUBSET (1..n), S # {}
    PROVE  \E m \in S : \A k \in S : k <= m
<1> DEFINE T == {i \in Nat : n - i \in S}
<1>1. T \subseteq Nat /\ T # {}
  <2>1. PICK s \in S : TRUE
    OBVIOUS
  <2>2. n - s \in T
    BY <2>1
  <2> QED
    BY <2>2
<1>2. \E x \in T : \A y \in T : ~(<<y, x>> \in OpToRel(<, Nat))
  <2> HIDE DEF T
  <2> QED
    BY <1>1, NatLessThanWellFounded, WFMin
<1>3. PICK x \in T : \A y \in T : ~(<<y, x>> \in OpToRel(<, Nat))
  BY <1>2
<1>4. \A y \in T : ~(y < x)
  BY <1>1, <1>3 DEF OpToRel
<1>5. ASSUME NEW k \in S PROVE k <= n - x
  <2>1. n - k \in T
    BY <1>5
  <2>2. ~(n - k < x)
    BY <1>4, <2>1
  <2> QED
    BY <2>2, <1>1
<1> QED
  BY <1>5

\* Appending an entry: the effective status of a txid is the entry's status if
\* the entry mentions it and what it was otherwise.
LEMMA LatestAppend ==
    ASSUME NEW E, NEW es \in Seq(E), NEW e \in E, NEW t
    PROVE  latest_status(Append(es, e), t) =
             IF Mentions(e, t) THEN e.status ELSE latest_status(es, t)
<1> DEFINE n  == Len(es)
           as == Append(es, e)
           A  == {i \in 1..n : Mentions(es[i], t)}
           B  == {i \in 1..Len(as) : Mentions(as[i], t)}
<1>1. /\ n \in Nat
      /\ Len(as) = n + 1
      /\ as[n + 1] = e
      /\ \A i \in 1..n : as[i] = es[i]
  OBVIOUS
<1> HIDE DEF n, as
<1>2. latest_status(as, t) = IF B = {} THEN NoStatus
                             ELSE as[CHOOSE i \in B : \A j \in B : j <= i].status
  BY DEF latest_status
<1>3. latest_status(es, t) = IF A = {} THEN NoStatus
                             ELSE es[CHOOSE i \in A : \A j \in A : j <= i].status
  BY DEF latest_status, n
<1>4. /\ n + 1 \in 1..(n + 1)
      /\ 1..n \subseteq 1..(n + 1)
      /\ \A i \in 1..(n + 1) : i \in 1..n \/ i = n + 1
      /\ n + 1 \notin 1..n
  BY <1>1
<1>5. /\ A \subseteq 1..n
      /\ B \subseteq 1..(n + 1)
      /\ n + 1 \in B <=> Mentions(e, t)
      /\ \A i \in 1..n : i \in B <=> i \in A
  BY <1>1, <1>4, Zenon
<1>6. ASSUME NEW m \in B, \A j \in B : j <= m
      PROVE  m = CHOOSE i \in B : \A j \in B : j <= i
  <2> HIDE DEF A, B
  <2>1. \A i \in B : (\A j \in B : j <= i) => i = m
    BY <1>1, <1>5, <1>6
  <2> QED
    BY <1>6, <2>1
<1>7. CASE Mentions(e, t)
  <2>1. n + 1 \in B /\ \A j \in B : j <= n + 1
    <3> HIDE DEF A, B
    <3> QED
      BY <1>1, <1>5, <1>7
  <2> QED
    BY <1>1, <1>2, <1>6, <1>7, <2>1 DEF as
<1>8. CASE ~Mentions(e, t)
  <2>1. B = A
    BY <1>4, <1>5, <1>8, Zenon
  <2>2. CASE A = {}
    BY <1>2, <1>3, <1>8, <2>1, <2>2 DEF as
  <2>3. CASE A # {}
    <3> DEFINE m == CHOOSE i \in A : \A j \in A : j <= i
    <3>1. \E i \in A : \A j \in A : j <= i
      <4> HIDE DEF A, B
      <4> QED
        BY <1>1, <1>5, <2>3, LastPosition
    <3>2. m \in A
      <4> HIDE DEF A, B
      <4> QED
        BY <3>1
    <3>3. as[m] = es[m]
      BY <1>1, <1>5, <3>2, Zenon
    <3> QED
      BY <1>2, <1>3, <1>8, <2>1, <2>3, <3>3, Zenon DEF as
  <2> QED
    BY <2>2, <2>3
<1> QED
  BY <1>7, <1>8

\* Appending an entry: the Sent txids grow by the entry's, if it is a Sent.
LEMMA RecordedAppend ==
    ASSUME NEW E, NEW es \in Seq(E), NEW e \in E
    PROVE  recorded(Append(es, e)) =
             IF e.kind = "Sent" THEN recorded(es) \cup {e.txid} ELSE recorded(es)
<1> DEFINE as == Append(es, e)
<1>1. /\ Len(es) \in Nat
      /\ Len(as) = Len(es) + 1
      /\ as[Len(es) + 1] = e
      /\ \A i \in 1..Len(es) : as[i] = es[i]
  OBVIOUS
<1> HIDE DEF as
<1>2. /\ Len(es) + 1 \in 1..(Len(es) + 1)
      /\ 1..Len(es) \subseteq 1..(Len(es) + 1)
      /\ \A i \in 1..(Len(es) + 1) : i \in 1..Len(es) \/ i = Len(es) + 1
  BY <1>1
<1>3. ASSUME NEW t PROVE t \in recorded(as) <=>
            t \in recorded(es) \/ (e.kind = "Sent" /\ t = e.txid)
  <2>1. t \in recorded(as) <=> \E i \in 1..(Len(es) + 1) : as[i].kind = "Sent" /\ t = as[i].txid
    BY <1>1, Zenon DEF recorded
  <2>2. t \in recorded(es) <=> \E i \in 1..Len(es) : es[i].kind = "Sent" /\ t = es[i].txid
    BY Zenon DEF recorded
  <2>3. (\E i \in 1..(Len(es) + 1) : as[i].kind = "Sent" /\ t = as[i].txid)
        <=> \/ \E i \in 1..Len(es) : es[i].kind = "Sent" /\ t = es[i].txid
            \/ e.kind = "Sent" /\ t = e.txid
    BY <1>1, <1>2, Zenon
  <2> QED
    BY <2>1, <2>2, <2>3
<1> QED
  BY <1>3, Zenon DEF as

\* The work queue holds payments that are not terminal; where the only payments
\* are sends, it holds recorded sends.
LEMMA PendingFacts ==
    ASSUME NEW es, NEW t \in pending(es)
    PROVE  /\ latest_status(es, t) \notin Terminal
           /\ (\A i \in 1..Len(es) : es[i].kind \in {"Sent", "StatusUpdate"})
                => t \in recorded(es)
<1>1. latest_status(es, t) \notin Terminal
  BY Zenon DEF pending
<1>2. PICK i \in 1..Len(es) : /\ es[i].kind \in {"Sent", "Received", "SpReceived"}
                              /\ t = es[i].txid
  BY Zenon DEF pending
<1>3. es[i].kind = "Sent" => t \in recorded(es)
  BY <1>2, Zenon DEF recorded
<1> QED
  BY <1>1, <1>2, <1>3

\* What a fresh ledger says: no Sent entry, no status.
LEMMA EmptyLedger ==
    /\ recorded(<<>>) = {}
    /\ \A t : latest_status(<<>>, t) = NoStatus
BY DEF recorded, latest_status

\* The effective status of a txid some entry mentions is the status of that
\* entry or of a later one that mentions it.
LEMMA LatestMentioned ==
    ASSUME NEW es, Len(es) \in Nat, NEW t, NEW i \in 1..Len(es), Mentions(es[i], t)
    PROVE  \E j \in i..Len(es) : Mentions(es[j], t) /\ latest_status(es, t) = es[j].status
<1> DEFINE A == {k \in 1..Len(es) : Mentions(es[k], t)}
           m == CHOOSE k \in A : \A j \in A : j <= k
<1>1. A # {} /\ A \in SUBSET (1..Len(es))
  BY Zenon
<1>2. \E k \in A : \A j \in A : j <= k
  <2> HIDE DEF A
  <2> QED
    BY <1>1, LastPosition
<1>3. m \in A /\ i <= m
  BY <1>2, Zenon
<1>4. latest_status(es, t) = es[m].status
  BY <1>1, Zenon DEF latest_status
<1>5. m \in 1..Len(es) /\ Mentions(es[m], t)
  BY <1>3, Zenon
<1> HIDE DEF m
<1>6. m \in i..Len(es)
  BY <1>3, <1>5
<1> QED
  BY <1>4, <1>5, <1>6, Zenon

\* An entry numbered by Ledger::next_seq of the view it is appended to keeps
\* the numbers of that view increasing.
LEMMA SeqAppend ==
    ASSUME NEW E, \A x \in E : x.seq \in Nat, NEW es \in Seq(E), NEW e \in E,
           e.seq = next_seq(es),
           \A i \in 1..Len(es) : \A j \in 1..(i - 1) : es[j].seq < es[i].seq
    PROVE  \A i \in 1..Len(Append(es, e)) : \A j \in 1..(i - 1) :
               Append(es, e)[j].seq < Append(es, e)[i].seq
<1> DEFINE n == Len(es)
           as == Append(es, e)
<1>1. /\ n \in Nat
      /\ Len(as) = n + 1
      /\ as[n + 1] = e
      /\ \A i \in 1..n : as[i] = es[i] /\ es[i] \in E
  OBVIOUS
<1>2. e.seq = IF n = 0 THEN 0 ELSE es[n].seq + 1
  BY DEF next_seq
<1>3. \A i \in 1..n : es[i].seq \in Nat
  BY <1>1
<1>4. e.seq \in Nat
  OBVIOUS
<1>5. ASSUME NEW j \in 1..n PROVE es[j].seq < e.seq
  <2>1. n # 0 /\ n \in 1..n
    BY <1>1
  <2>2. e.seq = es[n].seq + 1
    BY <1>2, <2>1
  <2>3. j = n \/ j \in 1..(n - 1)
    BY <1>1
  <2>4. j = n \/ es[j].seq < es[n].seq
    BY <2>1, <2>3
  <2> QED
    BY <1>3, <2>1, <2>2, <2>4
<1> SUFFICES ASSUME NEW i \in 1..Len(as), NEW j \in 1..(i - 1)
             PROVE  as[j].seq < as[i].seq
  OBVIOUS
<1>6. i \in 1..n \/ i = n + 1
  BY <1>1
<1>7. CASE i \in 1..n
  <2>1. j \in 1..n
    BY <1>1, <1>7
  <2> QED
    BY <1>1, <1>7, <2>1
<1>8. CASE i = n + 1
  <2>1. j \in 1..n
    BY <1>1, <1>8
  <2> QED
    BY <1>1, <1>5, <1>8, <2>1
<1> QED
  BY <1>6, <1>7, <1>8

\* Ledger::has_sp_output of a ledger that has grown by one entry, and of an
\* empty one.
LEMMA HasAppend ==
    ASSUME NEW E, NEW es \in Seq(E), NEW e \in E, NEW op
    PROVE  has_sp_output(Append(es, e), op) <=>
             has_sp_output(es, op) \/ (e.kind = "SpReceived" /\ Outpoint(e) = op)
<1> DEFINE as == Append(es, e)
<1>1. /\ Len(es) \in Nat /\ Len(as) = Len(es) + 1 /\ as[Len(es) + 1] = e
      /\ \A i \in 1..Len(es) : as[i] = es[i]
  OBVIOUS
<1> HIDE DEF as
<1>2. has_sp_output(as, op) <=>
        \E i \in 1..(Len(es) + 1) : as[i].kind = "SpReceived" /\ Outpoint(as[i]) = op
  BY <1>1 DEF has_sp_output, Of
<1>3. has_sp_output(es, op) <=>
        \E i \in 1..Len(es) : as[i].kind = "SpReceived" /\ Outpoint(as[i]) = op
  BY <1>1 DEF has_sp_output, Of
<1>4. has_sp_output(as, op) <=>
        has_sp_output(es, op) \/ (e.kind = "SpReceived" /\ Outpoint(e) = op)
  <2>1. \A i : i \in 1..(Len(es) + 1) <=> i \in 1..Len(es) \/ i = Len(es) + 1
    BY <1>1
  <2> QED
    BY <1>1, <1>2, <1>3, <2>1, Zenon
<1> QED
  BY <1>4 DEF as

LEMMA HasNothing == \A op : ~has_sp_output(<<>>, op)
BY DEF has_sp_output, Of

\* An entry that does not book an outpoint a second time keeps every outpoint
\* booked once.
LEMMA OnceAppend ==
    ASSUME NEW E, NEW es \in Seq(E), NEW e \in E,
           e.kind = "SpReceived" => ~has_sp_output(es, Outpoint(e)),
           \A i, j \in Of(es, "SpReceived") : Outpoint(es[i]) = Outpoint(es[j]) => i = j
    PROVE  \A i, j \in Of(Append(es, e), "SpReceived") :
               Outpoint(Append(es, e)[i]) = Outpoint(Append(es, e)[j]) => i = j
<1> DEFINE as == Append(es, e)
<1>1. /\ Len(es) \in Nat /\ Len(as) = Len(es) + 1 /\ as[Len(es) + 1] = e
      /\ \A i \in 1..Len(es) : as[i] = es[i]
  OBVIOUS
<1> HIDE DEF as
<1>2. \A i \in Of(as, "SpReceived") : \/ i \in Of(es, "SpReceived") /\ as[i] = es[i]
                                      \/ i = Len(es) + 1 /\ as[i] = e /\ e.kind = "SpReceived"
  <2>1. \A i \in 1..(Len(es) + 1) : i \in 1..Len(es) \/ i = Len(es) + 1
    BY <1>1
  <2> QED
    BY <1>1, <2>1, Zenon DEF Of
<1>3. \A i \in Of(es, "SpReceived") : e.kind = "SpReceived" => Outpoint(es[i]) # Outpoint(e)
  BY Zenon DEF has_sp_output
<1>4. \A i, j \in Of(as, "SpReceived") : Outpoint(as[i]) = Outpoint(as[j]) => i = j
  BY <1>2, <1>3, Zenon
<1> QED
  BY <1>4 DEF as

\* Ledger::sp_spent_set of a ledger that has grown by one entry, and of an empty
\* one.
LEMMA SpentAppend ==
    ASSUME NEW E, NEW es \in Seq(E), NEW e \in E
    PROVE  sp_spent_set(Append(es, e)) =
             IF e.kind = "SpSpent" THEN sp_spent_set(es) \cup {Outpoint(e)} ELSE sp_spent_set(es)
<1> DEFINE as == Append(es, e)
<1>1. /\ Len(es) \in Nat /\ Len(as) = Len(es) + 1 /\ as[Len(es) + 1] = e
      /\ \A i \in 1..Len(es) : as[i] = es[i]
  OBVIOUS
<1> HIDE DEF as
<1>2. \A i : i \in 1..(Len(es) + 1) <=> i \in 1..Len(es) \/ i = Len(es) + 1
  BY <1>1
<1>3. Of(as, "SpSpent") = Of(es, "SpSpent") \cup IF e.kind = "SpSpent" THEN {Len(es) + 1} ELSE {}
  BY <1>1, <1>2, Zenon DEF Of
<1>4. \A i \in Of(es, "SpSpent") : as[i] = es[i]
  BY <1>1, Zenon DEF Of
<1>5. sp_spent_set(as) =
         IF e.kind = "SpSpent" THEN sp_spent_set(es) \cup {Outpoint(e)} ELSE sp_spent_set(es)
  <2>1. CASE e.kind = "SpSpent"
    BY <1>1, <1>3, <1>4, <2>1, Zenon DEF sp_spent_set
  <2>2. CASE e.kind # "SpSpent"
    BY <1>3, <1>4, <2>2, Zenon DEF sp_spent_set
  <2> QED
    BY <2>1, <2>2
<1> QED
  BY <1>5 DEF as

LEMMA NothingSpent == sp_spent_set(<<>>) = {}
BY DEF sp_spent_set, Of

-----------------------------------------------------------------------------
(* Sums: the fold of MapThenSumSet.                                        *)

\* Induction over the naturals, on a set instead of a predicate.
LEMMA Induct ==
    ASSUME NEW T \in SUBSET Nat, 0 \in T, \A n \in T : n + 1 \in T
    PROVE  T = Nat
<1> DEFINE C == Nat \ T
<1>1. SUFFICES ASSUME C # {} PROVE FALSE
  OBVIOUS
<1>2. PICK x \in C : \A y \in C : ~(<<y, x>> \in OpToRel(<, Nat))
  <2>1. C \subseteq Nat
    OBVIOUS
  <2> HIDE DEF C
  <2> QED
    BY <1>1, <2>1, NatLessThanWellFounded, WFMin
<1>3. x \in Nat /\ x # 0 /\ x - 1 \in Nat
  OBVIOUS
<1>4. \A y \in C : ~(y < x)
  BY <1>2, <1>3 DEF OpToRel
<1> QED
  BY <1>3, <1>4

\* The function the fold of MapThenSumSet iterates: the sum of the values v over
\* the subsets of S.
AddsUp(it, v, S) ==
    it = [s \in SUBSET S |-> IF s = {} THEN 0
                             ELSE v[CHOOSE x \in s : TRUE] + it[s \ {CHOOSE x \in s : TRUE}]]

\* The sum over a finite set exists.
LEMMA SumExists ==
    ASSUME NEW S, IsFiniteSet(S), NEW v
    PROVE  \E it : AddsUp(it, v, S)
<1> DEFINE Some(s) == CHOOSE x \in s : TRUE
           Level(n) == {s \in SUBSET S : Cardinality(s) <= n}
           Upto(g, n) == g = [s \in Level(n) |-> IF s = {} THEN 0
                                                 ELSE v[Some(s)] + g[s \ {Some(s)}]]
           T == {n \in Nat : \E g : Upto(g, n)}
<1>1. \A s \in SUBSET S : s # {} => /\ Some(s) \in s /\ s \ {Some(s)} \in SUBSET S
                                    /\ Cardinality(s \ {Some(s)}) = Cardinality(s) - 1
                                    /\ Cardinality(s) \in Nat
  BY FS_Subset, FS_RemoveElement, FS_CardinalityType
<1>2. 0 \in T
  <2> DEFINE g == [s \in Level(0) |-> 0]
  <2>1. \A s \in Level(0) : s = {}
    BY FS_Subset, FS_EmptySet, FS_CardinalityType
  <2>2. Upto(g, 0)
    BY <2>1
  <2> QED
    BY <2>2
<1>3. ASSUME NEW n \in T PROVE n + 1 \in T
  <2>1. PICK g : Upto(g, n)
    BY <1>3
  <2> DEFINE h == [s \in Level(n + 1) |-> IF s = {} THEN 0
                                          ELSE v[Some(s)] + g[s \ {Some(s)}]]
  <2>2. \A s \in Level(n) : s \in Level(n + 1) /\ h[s] = g[s]
    <3>1. \A s \in Level(n) : s \in Level(n + 1)
      BY FS_Subset, FS_CardinalityType
    <3> QED
      BY <2>1, <3>1
  <2>3. \A s \in Level(n + 1) : s # {} => s \ {Some(s)} \in Level(n)
    BY <1>1
  <2>4. \A s \in Level(n + 1) : s # {} => h[s \ {Some(s)}] = g[s \ {Some(s)}]
    BY <2>2, <2>3
  <2>5. Upto(h, n + 1)
    <3> HIDE DEF Level, Some
    <3> QED
      BY <2>4
  <2>6. \E k : Upto(k, n + 1)
    <3> HIDE DEF h, Upto
    <3> QED
      BY <2>5
  <2>7. n + 1 \in Nat
    BY <1>3
  <2> HIDE DEF Upto
  <2> QED
    BY <2>6, <2>7
<1>4. T = Nat
  <2> HIDE DEF T
  <2>1. T \in SUBSET Nat
    BY DEF T
  <2> QED
    BY <1>2, <1>3, <2>1, Induct
<1>5. Cardinality(S) \in Nat /\ Level(Cardinality(S)) = SUBSET S
  BY FS_Subset, FS_CardinalityType
<1>6. PICK g : Upto(g, Cardinality(S))
  BY <1>4, <1>5
<1>7. AddsUp(g, v, S)
  BY <1>5, <1>6 DEF AddsUp
<1> QED
  BY <1>7

\* Its values, and the sum of a set with one element more.
LEMMA SumFacts ==
    ASSUME NEW S, IsFiniteSet(S), NEW v, \A x \in S : v[x] \in Nat, NEW it, AddsUp(it, v, S)
    PROVE  /\ it[{}] = 0
           /\ \A s \in SUBSET S : it[s] \in Nat
           /\ \A s \in SUBSET S : \A x \in S \ s : it[s \cup {x}] = it[s] + v[x]
<1> DEFINE Some(s) == CHOOSE x \in s : TRUE
<1>0. \A s \in SUBSET S : it[s] = IF s = {} THEN 0 ELSE v[Some(s)] + it[s \ {Some(s)}]
  BY DEF AddsUp
<1>1. \A s \in SUBSET S : s # {} => Some(s) \in s
  OBVIOUS
<1> HIDE DEF Some
<1>2. \A s \in SUBSET S : IsFiniteSet(s) /\ Cardinality(s) \in Nat /\ (Cardinality(s) = 0 <=> s = {})
  BY FS_Subset, FS_CardinalityType, FS_EmptySet
<1>3. \A s \in SUBSET S : \A x \in s : s \ {x} \in SUBSET S /\ Cardinality(s \ {x}) = Cardinality(s) - 1
  BY <1>2, FS_RemoveElement
<1>4. it[{}] = 0
  BY <1>0
<1>5. \A s \in SUBSET S : it[s] \in Nat
  <2> DEFINE T == {n \in Nat : \A s \in SUBSET S : Cardinality(s) = n => it[s] \in Nat}
  <2>1. 0 \in T
    BY <1>2, <1>4
  <2>2. ASSUME NEW n \in T PROVE n + 1 \in T
    <3>1. ASSUME NEW s \in SUBSET S, Cardinality(s) = n + 1 PROVE it[s] \in Nat
      <4>1. s # {} /\ Some(s) \in s /\ v[Some(s)] \in Nat
        BY <1>1, <1>2, <3>1
      <4>2. s \ {Some(s)} \in SUBSET S /\ Cardinality(s \ {Some(s)}) = n
        BY <1>3, <3>1, <4>1
      <4>3. it[s \ {Some(s)}] \in Nat
        BY <4>2
      <4>4. it[s] = v[Some(s)] + it[s \ {Some(s)}]
        BY <1>0, <4>1
      <4> QED
        BY <4>1, <4>3, <4>4
    <3> QED
      BY <3>1
  <2>3. T = Nat
    <3> HIDE DEF T
    <3>1. T \in SUBSET Nat
      BY DEF T
    <3> QED
      BY <2>1, <2>2, <3>1, Induct
  <2> QED
    BY <1>2, <2>3
<1>6. \A s \in SUBSET S : \A x \in s : it[s] = it[s \ {x}] + v[x]
  <2> DEFINE T == {n \in Nat : \A s \in SUBSET S : Cardinality(s) = n =>
                                 \A x \in s : it[s] = it[s \ {x}] + v[x]}
  <2>1. 0 \in T
    BY <1>2
  <2>2. ASSUME NEW n \in T PROVE n + 1 \in T
    <3>1. ASSUME NEW s \in SUBSET S, Cardinality(s) = n + 1, NEW x \in s
          PROVE  it[s] = it[s \ {x}] + v[x]
      <4> DEFINE y == Some(s)
      <4>1. s # {} /\ y \in s
        BY <1>1, <3>1
      <4>2. it[s] = v[y] + it[s \ {y}]
        BY <1>0, <4>1
      <4> HIDE DEF y
      <4>3. CASE y = x
        BY <1>5, <3>1, <4>1, <4>2, <4>3
      <4>4. CASE y # x
        <5>1. s \ {y} \in SUBSET S /\ Cardinality(s \ {y}) = n /\ x \in s \ {y}
          BY <1>3, <3>1, <4>1, <4>4
        <5>2. it[s \ {y}] = it[(s \ {y}) \ {x}] + v[x]
          BY <5>1
        <5>3. s \ {x} \in SUBSET S /\ Cardinality(s \ {x}) = n /\ y \in s \ {x}
          BY <1>3, <3>1, <4>1, <4>4
        <5>4. it[s \ {x}] = it[(s \ {x}) \ {y}] + v[y]
          BY <5>3
        <5>5. (s \ {x}) \ {y} = (s \ {y}) \ {x}
          OBVIOUS
        <5>6. (s \ {x}) \ {y} \in SUBSET S /\ x \in S /\ y \in S
          BY <4>1
        <5>7. it[(s \ {x}) \ {y}] \in Nat /\ v[x] \in Nat /\ v[y] \in Nat
          BY <1>5, <5>6
        <5> DEFINE base == it[(s \ {x}) \ {y}]
        <5>8. base \in Nat /\ it[s \ {y}] = base + v[x] /\ it[s \ {x}] = base + v[y]
          BY <5>2, <5>4, <5>5, <5>7
        <5> HIDE DEF base
        <5> QED
          BY <4>2, <5>7, <5>8
      <4> QED
        BY <4>3, <4>4
    <3> QED
      BY <3>1
  <2>3. T = Nat
    <3> HIDE DEF T
    <3>1. T \in SUBSET Nat
      BY DEF T
    <3> QED
      BY <2>1, <2>2, <3>1, Induct
  <2> QED
    BY <1>2, <2>3
<1>7. ASSUME NEW s \in SUBSET S, NEW x \in S \ s PROVE it[s \cup {x}] = it[s] + v[x]
  <2>1. s \cup {x} \in SUBSET S /\ x \in s \cup {x} /\ (s \cup {x}) \ {x} = s
    OBVIOUS
  <2> QED
    BY <1>6, <2>1
<1> QED
  BY <1>4, <1>5, <1>7

\* The second of them, for one set and one element.
LEMMA SumOneMore ==
    ASSUME NEW S, IsFiniteSet(S), NEW v, \A x \in S : v[x] \in Nat, NEW it, AddsUp(it, v, S),
           NEW s \in SUBSET S, NEW y \in S \ s
    PROVE  it[s \cup {y}] = it[s] + v[y]
BY SumFacts

\* A larger set has a larger sum.
LEMMA SumMono ==
    ASSUME NEW S, IsFiniteSet(S), NEW v, \A x \in S : v[x] \in Nat, NEW it, AddsUp(it, v, S),
           NEW r \in SUBSET S, NEW s \in SUBSET r
    PROVE  it[s] <= it[r]
<1> DEFINE T == {n \in Nat : \A q \in SUBSET S : s \subseteq q /\ Cardinality(q) = n => it[s] <= it[q]}
<1>0. /\ \A q \in SUBSET S : it[q] \in Nat
      /\ \A q \in SUBSET S : \A x \in S \ q : it[q \cup {x}] = it[q] + v[x]
  BY SumFacts
<1>1. \A q \in SUBSET S : IsFiniteSet(q) /\ Cardinality(q) \in Nat /\ (Cardinality(q) = 0 <=> q = {})
  BY FS_Subset, FS_CardinalityType, FS_EmptySet
<1>2. 0 \in T
  <2>1. ASSUME NEW q \in SUBSET S, s \subseteq q, Cardinality(q) = 0 PROVE it[s] <= it[q]
    <3>1. s = q
      BY <1>1, <2>1
    <3> QED
      BY <1>0, <3>1
  <2> QED
    BY <2>1
<1>3. ASSUME NEW n \in T PROVE n + 1 \in T
  <2>1. ASSUME NEW q \in SUBSET S, s \subseteq q, Cardinality(q) = n + 1 PROVE it[s] <= it[q]
    <3>1. CASE s = q
      BY <1>0, <3>1
    <3>2. CASE s # q
      <4>1. PICK x \in q : x \notin s
        BY <2>1, <3>2
      <4>2. q \ {x} \in SUBSET S /\ s \subseteq q \ {x} /\ x \in S \ (q \ {x}) /\ (q \ {x}) \cup {x} = q
        BY <2>1, <4>1
      <4>3. Cardinality(q \ {x}) = n
        <5>1. Cardinality(q \ {x}) = Cardinality(q) - 1
          BY <1>1, <4>1, FS_RemoveElement
        <5> QED
          BY <1>3, <2>1, <5>1
      <4>4. it[s] <= it[q \ {x}]
        BY <4>2, <4>3
      <4>5. it[q] = it[q \ {x}] + v[x]
        BY <1>0, <4>2
      <4>6. s \in SUBSET S /\ v[x] \in Nat
        BY <4>2
      <4> QED
        BY <1>0, <4>2, <4>4, <4>5, <4>6
    <3> QED
      BY <3>1, <3>2
  <2> QED
    BY <2>1
<1>4. T = Nat
  <2> HIDE DEF T
  <2>1. T \in SUBSET Nat
    BY DEF T
  <2> QED
    BY <1>2, <1>3, <2>1, Induct
<1> QED
  BY <1>1, <1>4

\* The sum over a set depends on the values of its elements only.
LEMMA SumSame ==
    ASSUME NEW S, IsFiniteSet(S), NEW v, NEW it, AddsUp(it, v, S),
           NEW R, NEW w, NEW jt, AddsUp(jt, w, R),
           NEW r \in SUBSET S, r \subseteq R, \A x \in r : v[x] = w[x]
    PROVE  it[r] = jt[r]
<1> DEFINE Some(s) == CHOOSE x \in s : TRUE
           T == {n \in Nat : \A s \in SUBSET r : Cardinality(s) = n => it[s] = jt[s]}
<1>0. /\ \A s \in SUBSET S : it[s] = IF s = {} THEN 0 ELSE v[Some(s)] + it[s \ {Some(s)}]
      /\ \A s \in SUBSET R : jt[s] = IF s = {} THEN 0 ELSE w[Some(s)] + jt[s \ {Some(s)}]
  BY DEF AddsUp
<1>1. \A s \in SUBSET S : s # {} => Some(s) \in s
  OBVIOUS
<1> HIDE DEF Some
<1>2. \A s \in SUBSET S : IsFiniteSet(s) /\ Cardinality(s) \in Nat /\ (Cardinality(s) = 0 <=> s = {})
  BY FS_Subset, FS_CardinalityType, FS_EmptySet
<1>3. 0 \in T
  BY <1>0, <1>2
<1>4. ASSUME NEW n \in T PROVE n + 1 \in T
  <2>1. ASSUME NEW s \in SUBSET r, Cardinality(s) = n + 1 PROVE it[s] = jt[s]
    <3>1. s \in SUBSET S /\ s \in SUBSET R /\ s # {} /\ Some(s) \in s
      BY <1>1, <1>2, <2>1
    <3>2. s \ {Some(s)} \in SUBSET r /\ Cardinality(s \ {Some(s)}) = n
      <4>1. Cardinality(s \ {Some(s)}) = Cardinality(s) - 1
        BY <1>2, <3>1, FS_RemoveElement
      <4> QED
        BY <1>4, <2>1, <4>1
    <3>3. it[s \ {Some(s)}] = jt[s \ {Some(s)}]
      BY <3>2
    <3>4. v[Some(s)] = w[Some(s)]
      BY <3>1
    <3> QED
      BY <1>0, <3>1, <3>3, <3>4
  <2> QED
    BY <2>1
<1>5. T = Nat
  <2> HIDE DEF T
  <2>1. T \in SUBSET Nat
    BY DEF T
  <2> QED
    BY <1>3, <1>4, <2>1, Induct
<1>6. Cardinality(r) \in T
  BY <1>2, <1>5
<1> QED
  BY <1>6

=============================================================================
