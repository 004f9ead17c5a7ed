--------------------------- MODULE SpSpendProofs ----------------------------
(***************************************************************************)
(* Proofs about SpSpend, for any transactions, outputs, coins, processes   *)
(* and any number of faults, while the mempool forgets nothing (Spec).     *)
(***************************************************************************)
EXTENDS SpSpend, LedgerProofs, FiniteSetTheorems, SequenceTheorems

-----------------------------------------------------------------------------
(* Types.                                                                  *)

Sending == {"signed", "staged", "booked", "sent"}

\* The income is Final and stays so: reconcile has nothing to do with it, and
\* its queue holds sends only.
StatusInv ==
    /\ \A o \in Sp : latest_status(disk, o) = "Final"
    /\ \A p \in Proc : pc[p] # "idle" => \A o \in Sp : latest_status(mem[p], o) = "Final"

TypeInv ==
    /\ TypeOK
    /\ StatusInv
    /\ \A p \in Proc : pc[p] \in Sending => cur[p] \in Tx

LEMMA EntryFacts ==
    \A e \in Entry :
        /\ e.kind \in {"SpReceived", "SpSpent", "Sent", "StatusUpdate"}
        /\ e.kind \in {"SpReceived", "SpSpent"} => e.txid \in Sp
        /\ e.kind = "Sent" => e.txid \in Tx
        /\ e.kind = "StatusUpdate" => e.txid \in Sp \cup Tx
        /\ e.kind \in {"SpReceived", "Sent", "StatusUpdate"} => e.status \in Status
BY DEF Entry, Status

LEMMA WrittenTypes ==
    /\ \A t \in Tx : Sent(0, t) \in Entry
    /\ \A o \in Sp : SpSpent(0, o, 0) \in Entry
    /\ \A t \in Sp \cup Tx : \A s \in Status : StatusUpdate(0, t, s) \in Entry
    /\ \A o \in Sp : SpReceived(0, o, 0, 1) \in Entry
<1>1. \A t \in Tx : Sent(0, t) \in Entry
  BY DEF Sent, Entry
<1>2. \A o \in Sp : SpSpent(0, o, 0) \in Entry
  BY DEF SpSpent, Entry
<1>3. \A t \in Sp \cup Tx : \A s \in Status : StatusUpdate(0, t, s) \in Entry
  BY DEF StatusUpdate, Entry
<1>4. \A o \in Sp : SpReceived(0, o, 0, 1) \in Entry
  BY DEF SpReceived, Entry
<1> QED
  BY <1>1, <1>2, <1>3, <1>4

\* What a send pins are silent-payment outputs.
LEMMA PinnedType ==
    ASSUME NEW es \in Seq(Entry)
    PROVE  {es[i].txid : i \in sp_utxos(es)} \subseteq Sp
<1>1. \A i \in sp_utxos(es) : i \in 1..Len(es) /\ es[i].kind = "SpReceived"
  BY Zenon DEF sp_utxos, Of
<1>2. \A i \in 1..Len(es) : es[i] \in Entry
  OBVIOUS
<1>3. \A i \in sp_utxos(es) : es[i].txid \in Sp
  BY <1>1, <1>2, EntryFacts
<1> QED
  BY <1>3, Zenon

\* The queue of reconcile, where the income is Final.
LEMMA QueueType ==
    ASSUME NEW es \in Seq(Entry), \A o \in Sp : latest_status(es, o) = "Final"
    PROVE  pending(es) \subseteq Tx \cap recorded(es)
<1> SUFFICES ASSUME NEW t \in pending(es) PROVE t \in Tx /\ t \in recorded(es)
  OBVIOUS
<1>1. latest_status(es, t) \notin Terminal
  BY Zenon DEF pending
<1>2. PICK i \in 1..Len(es) : /\ es[i].kind \in {"Sent", "Received", "SpReceived"}
                              /\ t = es[i].txid
  BY Zenon DEF pending
<1>3. es[i] \in Entry
  BY <1>2
<1>4. es[i].kind = "Sent"
  <2>1. t \notin Sp
    BY <1>1 DEF Terminal
  <2> QED
    BY <1>2, <1>3, <2>1, EntryFacts
<1>5. t \in Tx
  BY <1>2, <1>3, <1>4, EntryFacts
<1>6. t \in recorded(es)
  BY <1>2, <1>4, Zenon DEF recorded
<1> QED
  BY <1>5, <1>6

\* The ledger at the start: the income, Final, and nothing else.
LEMMA BookedFacts ==
    ASSUME NEW n \in Nat, NEW s \in [1..n -> Sp], \A o \in Sp : \E i \in 1..n : s[i] = o
    PROVE  /\ Booked(s) \in Seq(Entry)
           /\ \A o \in Sp : latest_status(Booked(s), o) = "Final"
           /\ recorded(Booked(s)) = {} /\ sp_spent_set(Booked(s)) = {}
           /\ \A i \in 1..Len(Booked(s)) : Booked(s)[i].txid \in Sp
<1> DEFINE a == [i \in 1..n |-> SpReceived(0, s[i], 0, 1)]
           b == [i \in 1..n |-> StatusUpdate(0, s[i], "Final")]
           es == Booked(s)
<1>1. Len(s) = n
  OBVIOUS
<1>2. a \in Seq(Entry) /\ Len(a) = n
  <2>1. \A i \in 1..n : SpReceived(0, s[i], 0, 1) \in Entry
    BY WrittenTypes
  <2> QED
    BY <2>1
<1>3. b \in Seq(Entry) /\ Len(b) = n
  <2>1. \A i \in 1..n : StatusUpdate(0, s[i], "Final") \in Entry
    BY WrittenTypes DEF Status
  <2> QED
    BY <2>1
<1>4. es = a \o b
  BY <1>1 DEF Booked
<1>c. /\ \A i \in 1..n : a[i] = SpReceived(0, s[i], 0, 1)
      /\ \A i \in 1..n : b[i] = StatusUpdate(0, s[i], "Final")
  OBVIOUS
<1> HIDE DEF a, b, es
<1>5. /\ es \in Seq(Entry) /\ Len(es) = n + n
      /\ \A i \in 1..n : es[i] = a[i]
      /\ \A i \in (n + 1)..(n + n) : es[i] = b[i - n]
  <2>0. a \o b \in Seq(Entry) /\ Len(a \o b) = Len(a) + Len(b)
    BY <1>2, <1>3, ConcatProperties
  <2>1. es \in Seq(Entry) /\ Len(es) = n + n
    BY <1>2, <1>3, <1>4, <2>0, Zenon
  <2>2. \A i \in 1..(Len(a) + Len(b)) : (a \o b)[i] = IF i <= Len(a) THEN a[i] ELSE b[i - Len(a)]
    BY <1>2, <1>3, ConcatProperties
  <2>3. \A i \in 1..(n + n) : es[i] = IF i <= n THEN a[i] ELSE b[i - n]
    BY <1>2, <1>3, <1>4, <2>2, Zenon
  <2>4. ASSUME NEW i \in 1..n PROVE es[i] = a[i]
    <3>1. i \in 1..(n + n) /\ i <= n
      OBVIOUS
    <3> QED
      BY <2>3, <3>1, Zenon
  <2>5. ASSUME NEW i \in (n + 1)..(n + n) PROVE es[i] = b[i - n]
    <3>1. i \in 1..(n + n) /\ ~(i <= n)
      OBVIOUS
    <3> QED
      BY <2>3, <3>1, Zenon
  <2> QED
    BY <2>1, <2>4, <2>5
<1>6. /\ \A i \in 1..n : es[i] = SpReceived(0, s[i], 0, 1)
      /\ \A i \in (n + 1)..(n + n) : es[i] = StatusUpdate(0, s[i - n], "Final")
  <2>1. ASSUME NEW i \in 1..n PROVE es[i] = SpReceived(0, s[i], 0, 1)
    BY <1>c, <1>5, Zenon
  <2>2. ASSUME NEW i \in (n + 1)..(n + n) PROVE es[i] = StatusUpdate(0, s[i - n], "Final")
    <3>1. i - n \in 1..n
      OBVIOUS
    <3> QED
      BY <1>c, <1>5, <3>1, Zenon
  <2> QED
    BY <2>1, <2>2, Zenon
<1>7. \A i \in 1..Len(es) : i \in 1..n \/ i \in (n + 1)..(n + n)
  BY <1>5
<1>8. \A i \in 1..Len(es) : es[i].kind \in {"SpReceived", "StatusUpdate"}
  <2>1. /\ \A i \in 1..n : es[i].kind = "SpReceived"
        /\ \A i \in (n + 1)..(n + n) : es[i].kind = "StatusUpdate"
    <3>1. \A o : SpReceived(0, o, 0, 1).kind = "SpReceived" /\ StatusUpdate(0, o, "Final").kind = "StatusUpdate"
      BY DEF SpReceived, StatusUpdate
    <3> QED
      BY <1>6, <3>1
  <2> QED
    BY <1>7, <2>1
<1>9. recorded(es) = {} /\ sp_spent_set(es) = {}
  <2>1. \A i \in 1..Len(es) : es[i].kind # "Sent" /\ es[i].kind # "SpSpent"
    BY <1>8
  <2>2. recorded(es) = {}
    BY <2>1, Zenon DEF recorded
  <2>3. Of(es, "SpSpent") = {}
    BY <2>1, Zenon DEF Of
  <2> QED
    BY <2>2, <2>3, Zenon DEF sp_spent_set
<1>10. ASSUME NEW o \in Sp PROVE latest_status(es, o) = "Final"
  <2>1. PICK i \in 1..n : s[i] = o
    OBVIOUS
  <2>2. n + i \in 1..Len(es) /\ n + i \in (n + 1)..(n + n) /\ n + i - n = i
    BY <1>5
  <2>3. es[n + i] = StatusUpdate(0, s[n + i - n], "Final")
    BY <1>6, <2>2
  <2>4. Mentions(es[n + i], o)
    BY <2>1, <2>2, <2>3 DEF Mentions, StatusUpdate
  <2>5. PICK j \in (n + i)..Len(es) : Mentions(es[j], o) /\ latest_status(es, o) = es[j].status
    <3> DEFINE k == n + i
    <3>1. k \in 1..Len(es) /\ Mentions(es[k], o) /\ Len(es) \in Nat
      BY <1>5, <2>2, <2>4
    <3> HIDE DEF k
    <3>2. \E j \in k..Len(es) : Mentions(es[j], o) /\ latest_status(es, o) = es[j].status
      BY <3>1, LatestMentioned
    <3> QED
      BY <3>2 DEF k
  <2>6. es[j] = StatusUpdate(0, s[j - n], "Final")
    BY <1>5, <1>6, <2>5
  <2> QED
    BY <2>5, <2>6 DEF StatusUpdate
<1>11. \A i \in 1..Len(es) : es[i].txid \in Sp
  <2>1. \A o : SpReceived(0, o, 0, 1).txid = o /\ StatusUpdate(0, o, "Final").txid = o
    BY DEF SpReceived, StatusUpdate
  <2>2. \A i \in (n + 1)..(n + n) : i - n \in 1..n
    OBVIOUS
  <2> QED
    BY <1>6, <1>7, <2>1, <2>2
<1> QED
  BY <1>5, <1>9, <1>10, <1>11 DEF es

LEMMA InitLedger ==
    ASSUME Init
    PROVE  /\ disk \in Seq(Entry)
           /\ \A o \in Sp : latest_status(disk, o) = "Final"
           /\ recorded(disk) = {} /\ sp_spent_set(disk) = {}
           /\ \A i \in 1..Len(disk) : disk[i].txid \in Sp
<1> DEFINE n == Cardinality(Sp)
           s == CHOOSE s \in [1..n -> Sp] : \A o \in Sp : \E i \in DOMAIN s : s[i] = o
<1>1. n \in Nat /\ ExistsBijection(1..n, Sp)
  BY ConstAssumption, FS_CardinalityType
<1>2. \E f \in [1..n -> Sp] : \A o \in Sp : \E i \in DOMAIN f : f[i] = o
  <2> HIDE DEF n
  <2>1. PICK f : f \in Bijection(1..n, Sp)
    BY <1>1, Zenon DEF ExistsBijection
  <2>2. f \in Surjection(1..n, Sp)
    BY <2>1, Zenon DEF Bijection
  <2>3. f \in [1..n -> Sp] /\ \A o \in Sp : \E i \in 1..n : f[i] = o
    BY <2>2, Zenon DEF Surjection
  <2> QED
    BY <2>3
<1>3. s \in [1..n -> Sp] /\ \A o \in Sp : \E i \in DOMAIN s : s[i] = o
  BY <1>2, Zenon
<1>4. disk = Booked(s)
  BY DEF Init
<1> HIDE DEF s, n
<1>5. \A o \in Sp : \E i \in 1..n : s[i] = o
  BY <1>3
<1> QED
  BY <1>1, <1>3, <1>4, <1>5, BookedFacts

LEMMA TypeInit == Init => TypeInv
<1> SUFFICES ASSUME Init PROVE TypeInv
  OBVIOUS
<1>1. TypeOK
  BY InitLedger, ConstAssumption DEF Init, TypeOK, FinalDepth
<1>2. StatusInv
  BY InitLedger DEF Init, StatusInv
<1> QED
  BY <1>1, <1>2 DEF TypeInv, Init, Sending

-----------------------------------------------------------------------------
(* What a step writes.                                                     *)

\* A Sent entry, a spent output, or a status of a txid in a queue.
Allowed(e) ==
    \/ \E p \in Proc : append_sent(p) /\ e = Sent(0, cur[p])
    \/ \E p \in Proc, o \in Sp : /\ o \in todo[p] /\ e = SpSpent(0, o, 0)
                                 /\ pc[p] = "sent" \/ SpentOnChain(o)
    \/ \E p \in Proc, t \in Tx : /\ t \in queue[p] /\ e = StatusUpdate(0, t, "Failed")
                                 /\ ~Acceptable(t)
    \/ \E p \in Proc, t \in Tx : /\ t \in queue[p]
                                 /\ \E s \in Status \ {"Failed"} : e = StatusUpdate(0, t, s)

\* A view stays, is dropped, is read from the file, or grows by the entry the
\* file grows by.
Seen(q) ==
    \/ mem'[q] = mem[q] /\ (pc[q] = "idle" => pc'[q] = "idle")
    \/ mem'[q] = <<>> /\ pc'[q] = "idle"
    \/ mem'[q] = disk /\ disk' = disk
    \/ \E e \in Entry : /\ mem'[q] = Append(mem[q], e) /\ disk' = Append(disk, e)
                        /\ pc[q] # "idle"

Written == disk' = disk \/ \E e \in Entry : disk' = Append(disk, e) /\ Allowed(e)

\* One output is booked or found unspent (Ledger::record_sp_spent).
LEMMA OutputDone ==
    ASSUME TypeInv, NEW p \in Proc, NEW o \in Sp, pc[p] \in {"sent", "spends"},
           record_sp_spent(p, o) \/ (DoneWith(p, o, mem[p]) /\ UNCHANGED disk)
    PROVE  /\ disk' = disk \/ disk' = Append(disk, SpSpent(0, o, 0))
           /\ \A q \in Proc : Seen(q)
           /\ \/ Dropped(p) /\ todo[p] = {o}
              \/ todo' = [todo EXCEPT ![p] = todo[p] \ {o}] /\ UNCHANGED <<pc, cur, queue>>
<1> DEFINE e == SpSpent(0, o, 0)
<1>0. /\ mem \in [Proc -> Seq(Entry)] /\ pc[p] # "idle" /\ e \in Entry
      /\ pc \in [Proc -> {"idle", "open", "signed", "staged", "booked", "sent", "pass", "spends"}]
  BY WrittenTypes DEF TypeInv, TypeOK
<1>1. \/ DoneWith(p, o, mem[p]) /\ disk' = disk
      \/ DoneWith(p, o, Append(mem[p], e)) /\ disk' = Append(disk, e)
  BY DEF record_sp_spent
<1> HIDE DEF e
<1>2. \/ Dropped(p) /\ todo[p] = {o}
      \/ todo' = [todo EXCEPT ![p] = todo[p] \ {o}] /\ UNCHANGED <<pc, cur, queue>>
  BY <1>1 DEF DoneWith
<1>3. CASE Dropped(p)
  <2>1. \A q \in Proc : Seen(q)
    BY <1>0, <1>3 DEF Dropped, Goto, Seen
  <2> QED
    BY <1>1, <1>2, <2>1 DEF e
<1>4. CASE ~Dropped(p)
  <2>1. \/ mem' = [mem EXCEPT ![p] = mem[p]] /\ UNCHANGED <<disk, pc>>
        \/ mem' = [mem EXCEPT ![p] = Append(mem[p], e)] /\ disk' = Append(disk, e) /\ UNCHANGED pc
    BY <1>1, <1>4 DEF DoneWith
  <2>2. \A q \in Proc : Seen(q)
    BY <1>0, <2>1 DEF Seen
  <2> QED
    BY <1>1, <1>2, <2>2 DEF e
<1> QED
  BY <1>3, <1>4

LEMMA WriteStep ==
    ASSUME TypeInv, [Next]_vars
    PROVE  Written /\ \A q \in Proc : Seen(q)
<1>0. /\ mem \in [Proc -> Seq(Entry)]
      /\ pc \in [Proc -> {"idle", "open", "signed", "staged", "booked", "sent", "pass", "spends"}]
      /\ \A p \in Proc : pc[p] \in Sending => cur[p] \in Tx
  BY DEF TypeInv, TypeOK
<1>1. ASSUME NEW p \in Proc, NEW step, Goto(p, step), pc[p] # "idle", UNCHANGED <<disk, mem>>
      PROVE  Written /\ \A q \in Proc : Seen(q)
  BY <1>0, <1>1 DEF Goto, Written, Seen
<1>2. ASSUME NEW p \in Proc, Dropped(p), UNCHANGED disk PROVE Written /\ \A q \in Proc : Seen(q)
  BY <1>0, <1>2 DEF Dropped, Goto, Written, Seen
<1>3. ASSUME NEW p \in Proc, OpenLedger(p) PROVE Written /\ \A q \in Proc : Seen(q)
  <2>1. /\ disk' = disk /\ \A q \in Proc : mem'[q] = IF q = p THEN disk ELSE mem[q]
        /\ \A q \in Proc : q # p => pc'[q] = pc[q]
    BY <1>0, <1>3 DEF OpenLedger, Goto, files
  <2> QED
    BY <2>1 DEF Written, Seen
<1>4. ASSUME NEW p \in Proc, NEW e \in Entry, append(p, e), Allowed(e), pc[p] # "idle",
             \A q \in Proc : q # p => pc'[q] = pc[q]
      PROVE  Written /\ \A q \in Proc : Seen(q)
  <2>1. \A q \in Proc : mem'[q] = IF q = p THEN Append(mem[p], e) ELSE mem[q]
    BY <1>0, <1>4 DEF append
  <2>2. \A q \in Proc : Seen(q)
    BY <1>4, <2>1 DEF append, Seen
  <2>3. Written
    BY <1>4 DEF append, Written
  <2> QED
    BY <2>2, <2>3
<1>5. ASSUME NEW p \in Proc, append_sent(p) PROVE Written /\ \A q \in Proc : Seen(q)
  <2> DEFINE e == Sent(0, cur[p])
  <2>1. e \in Entry
    BY <1>0, <1>5, WrittenTypes DEF append_sent, Sending
  <2>2. Allowed(e)
    BY <1>5, Zenon DEF Allowed
  <2>3. append(p, e) /\ pc[p] # "idle" /\ \A q \in Proc : q # p => pc'[q] = pc[q]
    BY <1>0, <1>5 DEF append_sent, Goto
  <2> HIDE DEF e
  <2> QED
    BY <1>4, <2>1, <2>2, <2>3
<1>6. ASSUME NEW p \in Proc, NEW t \in Tx, reconcile_dead(p, t) PROVE Written /\ \A q \in Proc : Seen(q)
  <2> DEFINE e == StatusUpdate(0, t, "Failed")
  <2>1. e \in Entry
    BY WrittenTypes DEF Status
  <2>2. Allowed(e)
    <3>1. t \in queue[p] /\ ~Acceptable(t)
      BY <1>6 DEF reconcile_dead
    <3> QED
      BY <3>1, Zenon DEF Allowed
  <2>3. append(p, e) /\ pc[p] # "idle" /\ UNCHANGED pc
    BY <1>6 DEF reconcile_dead
  <2> HIDE DEF e
  <2> QED
    BY <1>4, <2>1, <2>2, <2>3
<1>7. ASSUME NEW p \in Proc, NEW t \in Tx, reconcile_alive(p, t) PROVE Written /\ \A q \in Proc : Seen(q)
  <2> DEFINE new == from_confirmations(confirmations(t))
             e == StatusUpdate(0, t, new)
  <2>1. new \in Status \ {"Failed"}
    BY DEF from_confirmations, Status
  <2>2. pc[p] # "idle" /\ t \in queue[p] /\ UNCHANGED pc /\ (UNCHANGED <<disk, mem>> \/ append(p, e))
    BY <1>7 DEF reconcile_alive
  <2> HIDE DEF new
  <2>3. e \in Entry
    BY <2>1, WrittenTypes
  <2>4. Allowed(e)
    BY <2>1, <2>2, Zenon DEF Allowed
  <2>5. CASE UNCHANGED <<disk, mem>>
    BY <2>2, <2>5 DEF Written, Seen
  <2> HIDE DEF e
  <2>6. CASE append(p, e)
    BY <1>4, <2>2, <2>3, <2>4, <2>6
  <2> QED
    BY <2>2, <2>5, <2>6
<1>8. ASSUME NEW p \in Proc, book_spent(p) \/ look_up(p) PROVE Written /\ \A q \in Proc : Seen(q)
  <2>1. PICK o \in Sp : /\ o \in todo[p] /\ pc[p] \in {"sent", "spends"}
                        /\ \/ record_sp_spent(p, o) /\ (pc[p] = "sent" \/ SpentOnChain(o))
                           \/ DoneWith(p, o, mem[p]) /\ UNCHANGED disk
    BY <1>8 DEF book_spent, look_up, NextTodo
  <2>2. /\ disk' = disk \/ disk' = Append(disk, SpSpent(0, o, 0))
        /\ \A q \in Proc : Seen(q)
    BY <2>1, OutputDone
  <2>3. CASE disk' = disk
    BY <2>2, <2>3 DEF Written
  <2>4. CASE disk' = Append(disk, SpSpent(0, o, 0)) /\ (pc[p] = "sent" \/ SpentOnChain(o))
    <3>1. Allowed(SpSpent(0, o, 0)) /\ SpSpent(0, o, 0) \in Entry
      <4>1. SpSpent(0, o, 0) \in Entry
        BY WrittenTypes
      <4>2. Allowed(SpSpent(0, o, 0))
        BY <2>1, <2>4, Zenon DEF Allowed
      <4> QED
        BY <4>1, <4>2
    <3> QED
      BY <2>2, <2>4, <3>1 DEF Written
  <2> QED
    BY <2>1, <2>2, <2>3, <2>4
<1>9. ASSUME NEW p \in Proc,
             \/ build_signed_spending_sp(p) \/ write_sidecar(p) \/ start_reconcile(p) \/ track_spends(p)
      PROVE  Written /\ \A q \in Proc : Seen(q)
  <2>1. UNCHANGED <<disk, mem>> /\ pc[p] # "idle" /\ \E step : Goto(p, step)
    BY <1>9 DEF build_signed_spending_sp, write_sidecar, start_reconcile, track_spends, files, local
  <2> QED
    BY <1>1, <2>1
<1>10. ASSUME NEW p \in Proc,
              \/ Crash(p) \/ broadcast_known(p) \/ broadcast_unanswered(p) \/ broadcast_rejected(p)
              \/ end_reconcile(p)
       PROVE  Written /\ \A q \in Proc : Seen(q)
  <2>1. Dropped(p) /\ UNCHANGED disk
    BY <1>10 DEF Crash, broadcast_known, broadcast_unanswered, broadcast_rejected, CutShort, end_reconcile,
       files, chain
  <2> QED
    BY <1>2, <2>1
<1>11. ASSUME NEW p \in Proc, broadcast(p) PROVE Written /\ \A q \in Proc : Seen(q)
  <2>1. /\ UNCHANGED disk /\ pc[p] # "idle"
        /\ Dropped(p) \/ (UNCHANGED mem /\ Goto(p, "sent"))
    BY <1>11 DEF broadcast, files, local
  <2> QED
    BY <1>1, <1>2, <2>1
<1>12. ASSUME MineBlocks \/ UNCHANGED vars PROVE Written /\ \A q \in Proc : Seen(q)
  BY <1>12 DEF MineBlocks, vars, files, local, Written, Seen
<1> QED
  BY <1>3, <1>5, <1>6, <1>7, <1>8, <1>9, <1>10, <1>11, <1>12 DEF Next, ProcNext

LEMMA StatusStep ==
    ASSUME TypeInv, [Next]_vars
    PROVE  StatusInv'
<1>0. /\ disk \in Seq(Entry) /\ \A p \in Proc : mem[p] \in Seq(Entry)
      /\ \A o \in Sp : latest_status(disk, o) = "Final"
      /\ \A p \in Proc : pc[p] # "idle" => \A o \in Sp : latest_status(mem[p], o) = "Final"
  BY DEF TypeInv, TypeOK, StatusInv
<1>1. \A e : Allowed(e) => \A o \in Sp : ~Mentions(e, o)
  <2>1. \A t \in Tx : \A o \in Sp : t # o
    BY ConstAssumption
  <2>2. \A p \in Proc : append_sent(p) => cur[p] \in Tx
    BY DEF append_sent, TypeInv, Sending
  <2> QED
    BY <2>1, <2>2 DEF Allowed, Mentions, Sent, SpSpent, StatusUpdate
<1>2. \A e \in Entry : disk' = Append(disk, e) => \A o \in Sp : ~Mentions(e, o)
  <2> SUFFICES ASSUME NEW e \in Entry, disk' = Append(disk, e) PROVE \A o \in Sp : ~Mentions(e, o)
    OBVIOUS
  <2>1. disk' # disk
    BY <1>0
  <2>2. PICK f \in Entry : disk' = Append(disk, f) /\ Allowed(f)
    BY <2>1, WriteStep DEF Written
  <2>3. \A g \in Entry : Append(disk, g)[Len(disk) + 1] = g
    BY <1>0
  <2>4. e = f
    BY <2>2, <2>3
  <2> QED
    BY <1>1, <2>2, <2>4
<1>3. \A o \in Sp : latest_status(disk', o) = "Final"
  <2>1. disk' = disk \/ \E e \in Entry : disk' = Append(disk, e)
    BY WriteStep DEF Written
  <2>2. ASSUME NEW e \in Entry, disk' = Append(disk, e), NEW o \in Sp
        PROVE  latest_status(disk', o) = "Final"
    <3>1. ~Mentions(e, o)
      BY <1>2, <2>2
    <3>2. latest_status(Append(disk, e), o) = IF Mentions(e, o) THEN e.status ELSE latest_status(disk, o)
      BY <1>0, LatestAppend
    <3> QED
      BY <1>0, <2>2, <3>1, <3>2
  <2> QED
    BY <1>0, <2>1, <2>2
<1>4. ASSUME NEW p \in Proc, pc'[p] # "idle", NEW o \in Sp PROVE latest_status(mem'[p], o) = "Final"
  <2>1. Seen(p)
    BY WriteStep
  <2>2. CASE mem'[p] = mem[p] /\ (pc[p] = "idle" => pc'[p] = "idle")
    BY <1>0, <1>4, <2>2
  <2>3. CASE mem'[p] = disk
    BY <1>0, <2>3
  <2>4. ASSUME NEW e \in Entry, mem'[p] = Append(mem[p], e), disk' = Append(disk, e), pc[p] # "idle"
        PROVE  latest_status(mem'[p], o) = "Final"
    <3>1. ~Mentions(e, o) /\ mem[p] \in Seq(Entry) /\ latest_status(mem[p], o) = "Final"
      BY <1>0, <1>2, <2>4
    <3> QED
      BY <2>4, <3>1, LatestAppend
  <2> QED
    BY <1>4, <2>1, <2>2, <2>3, <2>4 DEF Seen
<1> QED
  BY <1>3, <1>4 DEF StatusInv

LEMMA TypeStep ==
    ASSUME TypeInv, [Next]_vars
    PROVE  TypeInv'
<1> USE ConstAssumption
<1> DEFINE Steps == {"idle", "open", "signed", "staged", "booked", "sent", "pass", "spends"}
           Ledgers == disk' \in Seq(Entry) /\ mem' \in [Proc -> Seq(Entry)] /\ StatusInv'
           Moves == /\ sidecars' \subseteq Tx
                    /\ inputs' \in [Tx -> SUBSET (Sp \cup Coin)]
                    /\ net' \in [Tx -> {-1, 0, FinalDepth}]
           Local == /\ pc' \in [Proc -> Steps]
                    /\ cur' \in [Proc -> Tx \cup {NoTx}]
                    /\ todo' \in [Proc -> SUBSET Sp]
                    /\ queue' \in [Proc -> SUBSET Tx]
                    /\ \A q \in Proc : pc'[q] \in Sending => cur'[q] \in Tx
           Counts == faults' \in 0..MaxFaults /\ evictions' \in 0..MaxEvictions /\ cut' \subseteq Tx
<1>0. /\ disk \in Seq(Entry) /\ mem \in [Proc -> Seq(Entry)]
      /\ sidecars \subseteq Tx
      /\ inputs \in [Tx -> SUBSET (Sp \cup Coin)]
      /\ net \in [Tx -> {-1, 0, FinalDepth}]
      /\ pc \in [Proc -> Steps]
      /\ cur \in [Proc -> Tx \cup {NoTx}]
      /\ todo \in [Proc -> SUBSET Sp]
      /\ queue \in [Proc -> SUBSET Tx]
      /\ faults \in 0..MaxFaults /\ evictions \in 0..MaxEvictions /\ cut \subseteq Tx
      /\ \A q \in Proc : pc[q] \in Sending => cur[q] \in Tx
  BY DEF TypeInv, TypeOK
<1>1. disk' \in Seq(Entry)
  <2>1. disk' = disk \/ \E e \in Entry : disk' = Append(disk, e)
    BY WriteStep, Zenon DEF Written
  <2>2. disk \in Seq(Entry) /\ \A e \in Entry : Append(disk, e) \in Seq(Entry)
    BY <1>0
  <2> QED
    BY <2>1, <2>2, Zenon
<1>2. mem' \in [Proc -> Seq(Entry)]
  <2>1. ASSUME NEW q \in Proc PROVE mem'[q] \in Seq(Entry)
    <3>1. /\ mem[q] \in Seq(Entry) /\ disk \in Seq(Entry) /\ <<>> \in Seq(Entry)
          /\ \A e \in Entry : Append(mem[q], e) \in Seq(Entry)
      BY <1>0
    <3>2. Seen(q)
      BY WriteStep, Zenon
    <3>3. \/ mem'[q] = mem[q]
          \/ mem'[q] = <<>>
          \/ mem'[q] = disk
          \/ \E e \in Entry : mem'[q] = Append(mem[q], e)
      BY <3>2, Zenon DEF Seen
    <3> QED
      BY <3>1, <3>3, Zenon
  <2>2. UNCHANGED mem \/ \E p \in Proc : \E v : mem' = [mem EXCEPT ![p] = v]
    BY DEF vars, local, Next, ProcNext, OpenLedger, Crash, Dropped, build_signed_spending_sp,
       write_sidecar, append_sent, append, broadcast, broadcast_known, broadcast_unanswered,
       broadcast_rejected, CutShort, book_spent, record_sp_spent, DoneWith, start_reconcile, end_reconcile, reconcile_dead,
       reconcile_alive, track_spends, look_up, MineBlocks
  <2>3. ASSUME NEW p \in Proc, NEW v, mem' = [mem EXCEPT ![p] = v] PROVE mem' \in [Proc -> Seq(Entry)]
    <3>1. v \in Seq(Entry)
      BY <1>0, <2>1, <2>3
    <3> QED
      BY <1>0, <2>3, <3>1
  <2> QED
    BY <1>0, <2>2, <2>3
<1>3. Ledgers
  BY <1>1, <1>2, StatusStep
<1>4. UNCHANGED chain => inputs' \in [Tx -> SUBSET (Sp \cup Coin)] /\ net' \in [Tx -> {-1, 0, FinalDepth}]
  BY <1>0 DEF chain
<1>5. ASSUME NEW p \in Proc, Dropped(p) PROVE Local
  BY <1>0, <1>5 DEF Dropped, Goto, Sending
<1>6. ASSUME NEW p \in Proc, NEW step \in Steps, Goto(p, step), UNCHANGED <<cur, todo, queue>>,
             step \in Sending => pc[p] \in Sending
      PROVE  Local
  BY <1>0, <1>6 DEF Goto, Sending
<1>7. ASSUME NEW t \in Tx PROVE Accepted(t) \in [Tx -> {-1, 0, FinalDepth}]
  BY <1>0 DEF Accepted
<1>8. \A p \in Proc : mem[p] \in Seq(Entry) /\ (pc[p] # "idle" => pending(mem[p]) \subseteq Tx)
      /\ {mem[p][i].txid : i \in sp_utxos(mem[p])} \subseteq Sp
  <2> SUFFICES ASSUME NEW p \in Proc
               PROVE  /\ mem[p] \in Seq(Entry) /\ (pc[p] # "idle" => pending(mem[p]) \subseteq Tx)
                      /\ {mem[p][i].txid : i \in sp_utxos(mem[p])} \subseteq Sp
    OBVIOUS
  <2>1. mem[p] \in Seq(Entry)
    BY <1>0
  <2>2. pc[p] # "idle" => pending(mem[p]) \subseteq Tx
    BY <2>1, QueueType DEF TypeInv, StatusInv
  <2> QED
    BY <2>1, <2>2, PinnedType
<1>f. Fault => faults' \in 0..MaxFaults
  BY <1>0 DEF Fault
<1>u. UNCHANGED ended => faults' = faults /\ cut' = cut
  BY DEF ended
<1>s. ASSUME NEW p \in Proc, CutShort(p) PROVE Local /\ cut' \subseteq Tx
  <2>1. Dropped(p) /\ cut' \subseteq Tx
    BY <1>0, <1>s DEF CutShort, Sending
  <2> QED
    BY <1>5, <2>1
<1> HIDE DEF Ledgers
<1>10. ASSUME NEW p \in Proc, OpenLedger(p) PROVE Moves /\ Local /\ Counts
  BY <1>0, <1>6, <1>u, <1>10 DEF OpenLedger, files, chain, Sending
<1>11. ASSUME NEW p \in Proc, Crash(p) \/ broadcast_rejected(p) \/ broadcast_known(p)
       PROVE  Moves /\ Local /\ Counts
  BY <1>0, <1>s, <1>f, <1>11 DEF Crash, broadcast_rejected, broadcast_known, files, chain
<1>12. ASSUME NEW p \in Proc, build_signed_spending_sp(p) PROVE Moves /\ Local /\ Counts
  <2> DEFINE pinned == {mem[p][i].txid : i \in sp_utxos(mem[p])}
  <2>1. pinned \subseteq Sp
    BY <1>8
  <2>2. PICK t \in Tx, more \in SUBSET {c \in Coin : ~SpentOnChain(c)} :
            /\ inputs' = [inputs EXCEPT ![t] = pinned \cup more]
            /\ cur' = [cur EXCEPT ![p] = t]
            /\ todo' = [todo EXCEPT ![p] = pinned]
    BY <1>12, Zenon DEF build_signed_spending_sp
  <2> HIDE DEF pinned
  <2>3. UNCHANGED <<sidecars, net, evictions, queue, cut, faults>> /\ Goto(p, "signed")
    BY <1>12 DEF build_signed_spending_sp, files, ended
  <2>4. Moves
    BY <1>0, <2>1, <2>2, <2>3
  <2>5. Local
    BY <1>0, <2>1, <2>2, <2>3 DEF Goto, Sending
  <2> QED
    BY <1>0, <2>3, <2>4, <2>5
<1>13. ASSUME NEW p \in Proc, write_sidecar(p) PROVE Moves /\ Local /\ Counts
  <2>1. cur[p] \in Tx
    BY <1>0, <1>13 DEF write_sidecar, Sending
  <2> QED
    BY <1>0, <1>6, <1>u, <1>13, <2>1 DEF write_sidecar, chain, local, Sending
<1>14. ASSUME NEW p \in Proc, append_sent(p) PROVE Moves /\ Local /\ Counts
  BY <1>0, <1>6, <1>u, <1>14 DEF append_sent, chain, Sending
<1>15. ASSUME NEW p \in Proc, broadcast(p) \/ broadcast_unanswered(p) PROVE Moves /\ Local /\ Counts
  <2>1. cur[p] \in Tx
    BY <1>0, <1>15 DEF broadcast, broadcast_unanswered, Sending
  <2>2. Moves /\ Counts
    BY <1>0, <1>7, <1>f, <1>u, <1>s, <1>15, <2>1 DEF broadcast, broadcast_unanswered, files
  <2>3. Dropped(p) \/ (Goto(p, "sent") /\ UNCHANGED local /\ pc[p] = "booked")
    BY <1>15 DEF broadcast, broadcast_unanswered, CutShort
  <2>4. Local
    BY <1>5, <1>6, <2>3 DEF local, Sending
  <2> QED
    BY <2>2, <2>4
<1>16. ASSUME NEW p \in Proc, book_spent(p) \/ look_up(p) PROVE Moves /\ Local /\ Counts
  <2>1. UNCHANGED <<sidecars, chain, cut, faults>>
    BY <1>16 DEF book_spent, look_up, ended
  <2>2. PICK o \in Sp : /\ pc[p] \in {"sent", "spends"}
                        /\ record_sp_spent(p, o) \/ (DoneWith(p, o, mem[p]) /\ UNCHANGED disk)
    BY <1>16 DEF book_spent, look_up
  <2>3. \/ Dropped(p)
        \/ todo' = [todo EXCEPT ![p] = todo[p] \ {o}] /\ UNCHANGED <<pc, cur, queue>>
    BY <2>2, OutputDone
  <2>4. Local
    <3>1. CASE Dropped(p)
      BY <1>5, <3>1
    <3>2. CASE todo' = [todo EXCEPT ![p] = todo[p] \ {o}] /\ UNCHANGED <<pc, cur, queue>>
      BY <1>0, <3>2
    <3> QED
      BY <2>3, <3>1, <3>2
  <2> QED
    BY <1>0, <2>1, <2>4 DEF chain
<1>17. ASSUME NEW p \in Proc, start_reconcile(p) PROVE Moves /\ Local /\ Counts
  <2>1. queue' \in [Proc -> SUBSET Tx]
    BY <1>0, <1>8, <1>17 DEF start_reconcile
  <2> QED
    BY <1>0, <1>u, <1>17, <2>1 DEF start_reconcile, files, chain, Goto, Sending
<1>18. ASSUME NEW p \in Proc, NEW t \in Tx, reconcile_dead(p, t) PROVE Moves /\ Local /\ Counts
  BY <1>0, <1>u, <1>18 DEF reconcile_dead, chain
<1>19. ASSUME NEW p \in Proc, NEW t \in Tx, reconcile_alive(p, t) PROVE Moves /\ Local /\ Counts
  BY <1>0, <1>7, <1>u, <1>19 DEF reconcile_alive
<1>20. ASSUME NEW p \in Proc, end_reconcile(p) PROVE Moves /\ Local /\ Counts
  BY <1>0, <1>5, <1>u, <1>20 DEF end_reconcile, chain
<1>21. ASSUME NEW p \in Proc, track_spends(p) PROVE Moves /\ Local /\ Counts
  <2>1. todo' \in [Proc -> SUBSET Sp]
    BY <1>0, <1>8, <1>21 DEF track_spends
  <2> QED
    BY <1>0, <1>u, <1>21, <2>1 DEF track_spends, files, chain, Goto, Sending
<1>22. ASSUME MineBlocks PROVE Moves /\ Local /\ Counts
  BY <1>0, <1>u, <1>22 DEF MineBlocks, files, local
<1>23. ASSUME UNCHANGED vars PROVE Moves /\ Local /\ Counts
  BY <1>0, <1>23 DEF vars
<1> HIDE DEF Moves, Local, Counts
<1>24. Moves /\ Local /\ Counts
  BY <1>10, <1>11, <1>12, <1>13, <1>14, <1>15, <1>16, <1>17, <1>18, <1>19, <1>20, <1>21, <1>22, <1>23
     DEF Next, ProcNext
<1> QED
  BY <1>3, <1>24 DEF TypeInv, TypeOK, Ledgers, Moves, Local, Counts

LEMMA TypeAlways == Spec => []TypeInv
BY TypeInit, TypeStep, PTL DEF Spec

\* Every state of the senders, reconciles and scans is well formed; reconcile
\* never touches the income it finds Final (ledger::reconcile).
THEOREM SpSpendTypeCorrect == Spec => []TypeOK
<1>1. TypeInv => TypeOK
  BY DEF TypeInv
<1> QED
  BY <1>1, TypeAlways, PTL

-----------------------------------------------------------------------------
(* The ledger and the chain.                                               *)

\* An opened ledger is a part of the file, and reconcile works on sends that
\* are in the file.
ViewInv ==
    \A p \in Proc : /\ sp_spent_set(mem[p]) \subseteq sp_spent_set(disk)
                    /\ recorded(mem[p]) \subseteq recorded(disk)
                    /\ queue[p] \subseteq recorded(disk)

\* A send has signed its transaction, has all its silent-payment inputs still
\* to book until it is broadcast, and is in the file before that.
SendInv ==
    \A p \in Proc :
        /\ pc[p] \in Sending => inputs[cur[p]] # {}
        /\ pc[p] \in {"signed", "staged", "booked"} => todo[p] = inputs[cur[p]] \cap Sp
        /\ pc[p] = "sent" => todo[p] \subseteq inputs[cur[p]] /\ Known(cur[p])
        /\ pc[p] \in {"booked", "sent"} => cur[p] \in recorded(disk)

\* Only what is in the file reaches the network, and only what was signed is in
\* the file.
ChainInv ==
    \A t \in Tx : /\ Known(t) => t \in recorded(disk)
                  /\ t \in recorded(disk) => inputs[t] # {}

\* What is booked as spent is spent.
SpentInv == \A o \in Sp : Point(o) \in sp_spent_set(disk) => SpentOnChain(o)

\* A Failed send can never reach the network.
DeadInv == \A t \in Tx : latest_status(disk, t) = "Failed" => ~Acceptable(t)

\* The send of transaction t has still to book output o, or all it consumes.
Carries(p, t, o) == cur[p] = t /\ (pc[p] = "booked" \/ (pc[p] = "sent" /\ o \in todo[p]))

\* A recorded send has booked all it consumes, is about to, or was cut short.
FreeInv ==
    \A t \in Tx : t \in recorded(disk) /\ t \notin cut =>
        \A o \in inputs[t] \cap Sp :
            Point(o) \in sp_spent_set(disk) \/ \E p \in Proc : Carries(p, t, o)

SpendInv == ViewInv /\ SendInv /\ ChainInv /\ SpentInv /\ DeadInv /\ FreeInv

\* The file only grows, and a view never gets ahead of it.
LEMMA ViewStep ==
    ASSUME TypeInv, ViewInv, [Next]_vars
    PROVE  /\ ViewInv'
           /\ sp_spent_set(disk) \subseteq sp_spent_set(disk')
           /\ recorded(disk) \subseteq recorded(disk')
<1>0. disk \in Seq(Entry) /\ \A p \in Proc : mem[p] \in Seq(Entry)
  BY DEF TypeInv, TypeOK
<1>1. ASSUME NEW es \in Seq(Entry), NEW e \in Entry
      PROVE  /\ sp_spent_set(es) \subseteq sp_spent_set(Append(es, e))
             /\ recorded(es) \subseteq recorded(Append(es, e))
             /\ \A fs \in Seq(Entry) :
                  /\ sp_spent_set(fs) \subseteq sp_spent_set(es)
                       => sp_spent_set(Append(fs, e)) \subseteq sp_spent_set(Append(es, e))
                  /\ recorded(fs) \subseteq recorded(es)
                       => recorded(Append(fs, e)) \subseteq recorded(Append(es, e))
  <2>1. \A fs \in Seq(Entry) :
          /\ sp_spent_set(Append(fs, e)) =
               IF e.kind = "SpSpent" THEN sp_spent_set(fs) \cup {Outpoint(e)} ELSE sp_spent_set(fs)
          /\ recorded(Append(fs, e)) =
               IF e.kind = "Sent" THEN recorded(fs) \cup {e.txid} ELSE recorded(fs)
    BY SpentAppend, RecordedAppend
  <2> QED
    BY <2>1
<1>2. /\ sp_spent_set(disk) \subseteq sp_spent_set(disk')
      /\ recorded(disk) \subseteq recorded(disk')
  <2>1. disk' = disk \/ \E e \in Entry : disk' = Append(disk, e)
    BY WriteStep DEF Written
  <2> QED
    BY <1>0, <1>1, <2>1
<1>3. ASSUME NEW p \in Proc
      PROVE  /\ sp_spent_set(mem'[p]) \subseteq sp_spent_set(disk')
             /\ recorded(mem'[p]) \subseteq recorded(disk')
  <2>1. Seen(p)
    BY WriteStep
  <2>2. CASE mem'[p] = mem[p]
    BY <1>2, <2>2 DEF ViewInv
  <2>3. CASE mem'[p] = <<>>
    BY <2>3, NothingSpent, EmptyLedger
  <2>4. CASE mem'[p] = disk /\ disk' = disk
    BY <2>4
  <2>5. ASSUME NEW e \in Entry, mem'[p] = Append(mem[p], e), disk' = Append(disk, e)
        PROVE  /\ sp_spent_set(mem'[p]) \subseteq sp_spent_set(disk')
               /\ recorded(mem'[p]) \subseteq recorded(disk')
    <3>1. mem[p] \in Seq(Entry) /\ sp_spent_set(mem[p]) \subseteq sp_spent_set(disk)
          /\ recorded(mem[p]) \subseteq recorded(disk)
      BY <1>0 DEF ViewInv
    <3> QED
      BY <1>0, <1>1, <2>5, <3>1
  <2> QED
    BY <2>1, <2>2, <2>3, <2>4, <2>5 DEF Seen
<1>4. ASSUME NEW p \in Proc PROVE queue'[p] \subseteq recorded(disk')
  <2>1. queue'[p] \subseteq queue[p] \/ start_reconcile(p)
    <3>1. queue \in [Proc -> SUBSET Tx]
      BY DEF TypeInv, TypeOK
    <3>2. ASSUME NEW q \in Proc, book_spent(q) \/ look_up(q) PROVE queue'[p] \subseteq queue[p]
      <4>1. PICK o \in Sp : /\ pc[q] \in {"sent", "spends"}
                            /\ record_sp_spent(q, o) \/ (DoneWith(q, o, mem[q]) /\ UNCHANGED disk)
        BY <3>2 DEF book_spent, look_up
      <4>2. Dropped(q) \/ UNCHANGED queue
        BY <4>1, OutputDone
      <4> QED
        BY <3>1, <4>2 DEF Dropped
    <3>3. ASSUME NEW q \in Proc,
                 \/ Crash(q) \/ broadcast_known(q) \/ broadcast_unanswered(q) \/ broadcast_rejected(q)
                 \/ end_reconcile(q) \/ broadcast(q)
          PROVE  queue'[p] \subseteq queue[p]
      <4>1. Dropped(q) \/ UNCHANGED queue
        BY <3>3 DEF Crash, broadcast_known, broadcast_unanswered, broadcast_rejected, CutShort,
           end_reconcile, broadcast, local
      <4> QED
        BY <3>1, <4>1 DEF Dropped
    <3>4. ASSUME NEW q \in Proc, NEW t \in Tx, reconcile_dead(q, t) \/ reconcile_alive(q, t)
          PROVE  queue'[p] \subseteq queue[p]
      BY <3>1, <3>4 DEF reconcile_dead, reconcile_alive
    <3>5. ASSUME NEW q \in Proc, start_reconcile(q) PROVE queue'[p] \subseteq queue[p] \/ start_reconcile(p)
      BY <3>1, <3>5 DEF start_reconcile
    <3>6. ASSUME \/ MineBlocks \/ UNCHANGED vars
                 \/ \E q \in Proc : \/ OpenLedger(q) \/ build_signed_spending_sp(q) \/ write_sidecar(q)
                                    \/ append_sent(q) \/ track_spends(q)
          PROVE  queue' = queue
      BY <3>6 DEF MineBlocks, vars, OpenLedger, build_signed_spending_sp, write_sidecar, append_sent,
         track_spends, local
    <3> QED
      BY <3>2, <3>3, <3>4, <3>5, <3>6 DEF Next, ProcNext
  <2>2. CASE queue'[p] \subseteq queue[p]
    BY <1>2, <2>2 DEF ViewInv
  <2>3. CASE start_reconcile(p)
    <3>1. queue'[p] = pending(mem[p]) /\ pc[p] # "idle"
      BY <2>3 DEF start_reconcile, TypeInv, TypeOK
    <3>2. pending(mem[p]) \subseteq recorded(mem[p])
      BY <1>0, <3>1, QueueType DEF TypeInv, StatusInv
    <3> QED
      BY <1>2, <3>1, <3>2 DEF ViewInv
  <2> QED
    BY <2>1, <2>2, <2>3
<1> QED
  BY <1>2, <1>3, <1>4 DEF ViewInv

\* What a step does to one process: nothing, something outside a send, a step
\* of a send, or its end with an error.
LEMMA ProcStep ==
    ASSUME TypeInv, [Next]_vars, NEW q \in Proc
    PROVE  \/ pc'[q] = pc[q] /\ cur'[q] = cur[q] /\ todo'[q] = todo[q]
           \/ pc[q] \notin Sending /\ pc'[q] \notin Sending
           \/ build_signed_spending_sp(q) \/ write_sidecar(q) \/ append_sent(q)
           \/ broadcast(q) \/ book_spent(q) \/ CutShort(q)
<1> DEFINE Stays == pc'[q] = pc[q] /\ cur'[q] = cur[q] /\ todo'[q] = todo[q]
           Apart == pc[q] \notin Sending /\ pc'[q] \notin Sending
<1>0. /\ pc \in [Proc -> {"idle", "open", "signed", "staged", "booked", "sent", "pass", "spends"}]
      /\ cur \in [Proc -> Tx \cup {NoTx}]
      /\ todo \in [Proc -> SUBSET Sp]
  BY DEF TypeInv, TypeOK
<1>1. ASSUME NEW p \in Proc, Dropped(p) PROVE IF p = q THEN pc'[q] = "idle" ELSE Stays
  BY <1>0, <1>1 DEF Dropped, Goto
<1>2. ASSUME NEW p \in Proc, NEW step, Goto(p, step), UNCHANGED <<cur, todo>>
      PROVE  IF p = q THEN pc'[q] = step ELSE Stays
  BY <1>0, <1>2 DEF Goto
<1>3. ASSUME NEW p \in Proc, OpenLedger(p) \/ start_reconcile(p) PROVE Stays \/ Apart
  BY <1>0, <1>2, <1>3 DEF OpenLedger, start_reconcile, Sending
<1>4. ASSUME NEW p \in Proc,
             \/ Crash(p) \/ broadcast_known(p) \/ broadcast_unanswered(p) \/ broadcast_rejected(p)
      PROVE  Stays \/ CutShort(q)
  <2>1. CutShort(p)
    BY <1>4 DEF Crash, broadcast_known, broadcast_unanswered, broadcast_rejected
  <2> QED
    BY <1>1, <2>1 DEF CutShort
<1>5. ASSUME NEW p \in Proc, build_signed_spending_sp(p) PROVE p = q \/ Stays
  <2>1. \E t \in Tx : \E pinned : cur' = [cur EXCEPT ![p] = t] /\ todo' = [todo EXCEPT ![p] = pinned]
    BY <1>5 DEF build_signed_spending_sp
  <2> QED
    BY <1>0, <1>5, <2>1 DEF build_signed_spending_sp, Goto
<1>6. ASSUME NEW p \in Proc, write_sidecar(p) \/ append_sent(p) PROVE p = q \/ Stays
  BY <1>2, <1>6 DEF write_sidecar, append_sent, local
<1>7. ASSUME NEW p \in Proc, broadcast(p) PROVE p = q \/ Stays
  BY <1>1, <1>2, <1>7 DEF broadcast, local
<1>8. ASSUME NEW p \in Proc, book_spent(p) \/ look_up(p)
      PROVE  (p = q /\ book_spent(p)) \/ Stays \/ Apart
  <2>1. PICK o \in Sp : /\ pc[p] \in {"sent", "spends"}
                        /\ record_sp_spent(p, o) \/ (DoneWith(p, o, mem[p]) /\ UNCHANGED disk)
    BY <1>8 DEF book_spent, look_up
  <2>2. \/ Dropped(p)
        \/ todo' = [todo EXCEPT ![p] = todo[p] \ {o}] /\ UNCHANGED <<pc, cur, queue>>
    BY <2>1, OutputDone
  <2>3. p # q => Stays
    BY <1>0, <1>1, <2>2
  <2>4. p = q /\ look_up(p) => Apart
    BY <1>0, <1>1, <2>2 DEF look_up, Sending
  <2> QED
    BY <1>8, <2>3, <2>4
<1>9. ASSUME NEW p \in Proc, end_reconcile(p) PROVE Stays \/ Apart
  BY <1>1, <1>9 DEF end_reconcile, Sending
<1>10. ASSUME NEW p \in Proc, track_spends(p) PROVE Stays \/ Apart
  BY <1>0, <1>10 DEF track_spends, Goto, Sending
<1>11. ASSUME \/ MineBlocks \/ UNCHANGED vars
              \/ \E p \in Proc, t \in Tx : reconcile_dead(p, t) \/ reconcile_alive(p, t)
       PROVE  Stays
  BY <1>11 DEF MineBlocks, vars, reconcile_dead, reconcile_alive, local
<1> HIDE DEF Stays, Apart
<1>12. \/ Stays \/ Apart \/ CutShort(q)
       \/ build_signed_spending_sp(q) \/ write_sidecar(q) \/ append_sent(q)
       \/ broadcast(q) \/ book_spent(q)
  BY <1>3, <1>4, <1>5, <1>6, <1>7, <1>8, <1>9, <1>10, <1>11 DEF Next, ProcNext
<1> QED
  BY <1>12 DEF Stays, Apart

\* What a step does to the chain: a signed transaction keeps its inputs, the
\* network forgets nothing, takes only what is acceptable and in the file, and
\* never takes a conflicting transaction later.
LEMMA ChainStep ==
    ASSUME TypeInv, ViewInv, SendInv, ChainInv, [Next]_vars
    PROVE  /\ \A t \in Tx : inputs[t] # {} => inputs'[t] = inputs[t]
           /\ \A t \in Tx : Known(t) => Known(t)'
           /\ \A t \in Tx : Known(t)' => \/ Known(t)
                                         \/ t \in recorded(disk) /\ Acceptable(t) /\ inputs' = inputs
           /\ \A o : SpentOnChain(o) => SpentOnChain(o)'
           /\ \A t \in Tx : ~Acceptable(t) => ~Acceptable(t)'
<1> DEFINE Taken == \A t \in Tx : /\ Known(t) => Known(t)'
                                  /\ Known(t)' => \/ Known(t)
                                                  \/ t \in recorded(disk) /\ Acceptable(t)
                                                     /\ inputs' = inputs
<1>0. /\ inputs \in [Tx -> SUBSET (Sp \cup Coin)] /\ net \in [Tx -> {-1, 0, FinalDepth}]
      /\ \A p \in Proc : pc[p] \in Sending => cur[p] \in Tx
  BY DEF TypeInv, TypeOK
<1>1. ASSUME NEW t \in Tx, inputs[t] # {} PROVE inputs'[t] = inputs[t]
  <2>1. \/ inputs' = inputs
        \/ \E p \in Proc : \E u \in Tx : \E new : inputs[u] = {} /\ inputs' = [inputs EXCEPT ![u] = new]
    <3>1. ASSUME NEW p \in Proc, build_signed_spending_sp(p)
          PROVE  \E u \in Tx : \E new : inputs[u] = {} /\ inputs' = [inputs EXCEPT ![u] = new]
      BY <3>1, Zenon DEF build_signed_spending_sp
    <3>2. ASSUME [Next]_vars, \A p \in Proc : ~build_signed_spending_sp(p)
          PROVE  inputs' = inputs
      BY <3>2 DEF Next, ProcNext, OpenLedger, Crash, write_sidecar, append_sent, broadcast,
         broadcast_known, broadcast_unanswered, broadcast_rejected, book_spent, start_reconcile, end_reconcile,
         reconcile_dead, reconcile_alive, track_spends, look_up, MineBlocks, chain, vars
    <3> QED
      BY <3>1, <3>2
  <2> QED
    BY <1>0, <1>1, <2>1
<1>2. ASSUME net' = net PROVE Taken
  BY <1>2 DEF Known
<1>3. ASSUME NEW t \in Tx, t \in recorded(disk), Acceptable(t), inputs' = inputs, net' = Accepted(t)
      PROVE  Taken
  <2>1. \A u \in Tx : net'[u] = IF u = t /\ ~Known(t) THEN 0 ELSE net[u]
    BY <1>0, <1>3 DEF Accepted
  <2> QED
    BY <1>3, <2>1 DEF Known
<1>4. ASSUME MineBlocks PROVE Taken
  BY <1>0, <1>4 DEF MineBlocks, Known, FinalDepth
<1>5. ASSUME NEW p \in Proc, broadcast(p) \/ broadcast_unanswered(p) PROVE Taken
  <2>1. /\ pc[p] = "booked" /\ Acceptable(cur[p]) /\ net' = Accepted(cur[p]) /\ inputs' = inputs
    BY <1>5 DEF broadcast, broadcast_unanswered
  <2>2. cur[p] \in Tx /\ cur[p] \in recorded(disk)
    BY <1>0, <2>1 DEF SendInv, Sending
  <2> QED
    BY <1>3, <2>1, <2>2
<1>6. ASSUME NEW p \in Proc, NEW t \in Tx, reconcile_alive(p, t) PROVE Taken
  <2>1. /\ inputs' = inputs /\ t \in recorded(disk)
        /\ net' = net \/ (net' = Accepted(t) /\ Acceptable(t))
    BY <1>6 DEF reconcile_alive, ViewInv
  <2> QED
    BY <1>2, <1>3, <2>1
<1>7. ASSUME [Next]_vars, ~MineBlocks,
             \A p \in Proc : /\ ~broadcast(p) /\ ~broadcast_unanswered(p)
                             /\ \A t \in Tx : ~reconcile_alive(p, t)
      PROVE  net' = net
  BY <1>7 DEF Next, ProcNext, OpenLedger, Crash, build_signed_spending_sp, write_sidecar, append_sent,
     broadcast_known, broadcast_rejected, book_spent, start_reconcile, end_reconcile, reconcile_dead,
     track_spends, look_up, chain, vars
<1>8. Taken
  <2> HIDE DEF Taken
  <2> QED
    BY <1>2, <1>4, <1>5, <1>6, <1>7
<1>9. ASSUME NEW o, SpentOnChain(o) PROVE SpentOnChain(o)'
  <2>1. PICK t \in Tx : Known(t) /\ o \in inputs[t]
    BY <1>9 DEF SpentOnChain
  <2>2. Known(t)' /\ o \in inputs'[t]
    BY <1>1, <1>8, <2>1
  <2> QED
    BY <2>2 DEF SpentOnChain
<1>10. ASSUME NEW t \in Tx, ~Acceptable(t) PROVE ~Acceptable(t)'
  <2>1. PICK o \in inputs[t] : SpentOnChain(o)
    BY <1>10 DEF Acceptable
  <2>2. inputs'[t] = inputs[t] /\ SpentOnChain(o)'
    BY <1>1, <1>9, <2>1
  <2>3. ~Known(t)'
    BY <1>8, <1>10 DEF Acceptable
  <2> QED
    BY <2>1, <2>2, <2>3 DEF Acceptable
<1> QED
  BY <1>1, <1>8, <1>9, <1>10

LEMMA SendStep ==
    ASSUME TypeInv, ViewInv, SendInv, ChainInv, [Next]_vars
    PROVE  SendInv'
<1> DEFINE Goal(q) ==
        /\ pc'[q] \in Sending => inputs'[cur'[q]] # {}
        /\ pc'[q] \in {"signed", "staged", "booked"} => todo'[q] = inputs'[cur'[q]] \cap Sp
        /\ pc'[q] = "sent" => todo'[q] \subseteq inputs'[cur'[q]] /\ net'[cur'[q]] >= 0
        /\ pc'[q] \in {"booked", "sent"} => cur'[q] \in recorded(disk')
<1>0. /\ inputs \in [Tx -> SUBSET (Sp \cup Coin)] /\ net \in [Tx -> {-1, 0, FinalDepth}]
      /\ pc \in [Proc -> {"idle", "open", "signed", "staged", "booked", "sent", "pass", "spends"}]
      /\ cur \in [Proc -> Tx \cup {NoTx}]
      /\ todo \in [Proc -> SUBSET Sp]
      /\ disk \in Seq(Entry)
      /\ \A p \in Proc : pc[p] \in Sending => cur[p] \in Tx
  BY DEF TypeInv, TypeOK
<1>1. /\ \A t \in Tx : inputs[t] # {} => inputs'[t] = inputs[t]
      /\ \A t \in Tx : net[t] >= 0 => net'[t] >= 0
      /\ recorded(disk) \subseteq recorded(disk')
  BY ChainStep, ViewStep DEF Known
<1> SUFFICES ASSUME NEW q \in Proc PROVE Goal(q)
  BY DEF SendInv, Known
<1>i. /\ pc[q] \in Sending => inputs[cur[q]] # {} /\ inputs'[cur[q]] = inputs[cur[q]]
      /\ pc[q] \in {"signed", "staged", "booked"} => todo[q] = inputs[cur[q]] \cap Sp
      /\ pc[q] = "sent" => todo[q] \subseteq inputs[cur[q]] /\ net'[cur[q]] >= 0
      /\ pc[q] \in {"booked", "sent"} => cur[q] \in recorded(disk')
  BY <1>0, <1>1 DEF SendInv, Known, Sending
<1>2. ASSUME pc'[q] = pc[q], cur'[q] = cur[q], todo'[q] = todo[q] PROVE Goal(q)
  BY <1>i, <1>2 DEF Sending
<1>3. ASSUME pc'[q] \notin Sending PROVE Goal(q)
  BY <1>3 DEF Sending
<1>4. ASSUME build_signed_spending_sp(q) PROVE Goal(q)
  <2> DEFINE pinned == {mem[q][i].txid : i \in sp_utxos(mem[q])}
  <2>1. PICK t \in Tx, more \in SUBSET {c \in Coin : ~SpentOnChain(c)} :
            /\ pinned \cup more # {}
            /\ inputs' = [inputs EXCEPT ![t] = pinned \cup more]
            /\ cur' = [cur EXCEPT ![q] = t]
            /\ todo' = [todo EXCEPT ![q] = pinned]
    BY <1>4, Zenon DEF build_signed_spending_sp
  <2>2. pinned \subseteq Sp
    <3>1. mem[q] \in Seq(Entry)
      BY DEF TypeInv, TypeOK
    <3> QED
      BY <3>1, PinnedType
  <2> HIDE DEF pinned
  <2>3. pc'[q] = "signed"
    BY <1>0, <1>4 DEF build_signed_spending_sp, Goto
  <2>4. inputs'[cur'[q]] = pinned \cup more /\ todo'[q] = pinned
    BY <1>0, <2>1
  <2>5. more \cap Sp = {}
    BY ConstAssumption, <2>1
  <2> QED
    BY <2>1, <2>2, <2>3, <2>4, <2>5
<1>5. ASSUME write_sidecar(q) PROVE Goal(q)
  <2>1. pc[q] = "signed" /\ pc'[q] = "staged" /\ UNCHANGED <<cur, todo>>
    BY <1>0, <1>5 DEF write_sidecar, Goto, local
  <2> QED
    BY <1>i, <2>1 DEF Sending
<1>6. ASSUME append_sent(q) PROVE Goal(q)
  <2>1. pc[q] = "staged" /\ pc'[q] = "booked" /\ UNCHANGED <<cur, todo>> /\ cur[q] \in Tx
    BY <1>0, <1>6 DEF append_sent, Goto, Sending
  <2>2. cur[q] \in recorded(disk')
    <3> DEFINE e == Sent(0, cur[q])
    <3>1. disk' = Append(disk, e)
      BY <1>6 DEF append_sent, append
    <3>2. e \in Entry /\ e.kind = "Sent" /\ e.txid = cur[q]
      BY <2>1, WrittenTypes DEF Sent
    <3> HIDE DEF e
    <3> QED
      BY <1>0, <3>1, <3>2, RecordedAppend
  <2> QED
    BY <1>i, <2>1, <2>2 DEF Sending
<1>7. ASSUME broadcast(q) PROVE Goal(q)
  <2>1. pc[q] = "booked" /\ net' = Accepted(cur[q]) /\ cur[q] \in Tx
    BY <1>0, <1>7 DEF broadcast, Sending
  <2>2. \/ pc'[q] = "idle"
        \/ pc'[q] = "sent" /\ UNCHANGED <<cur, todo>>
    BY <1>0, <1>7 DEF broadcast, Dropped, Goto, local
  <2>3. net'[cur[q]] >= 0
    BY <1>0, <2>1 DEF Accepted, Known
  <2> QED
    BY <1>i, <2>1, <2>2, <2>3 DEF Sending
<1>8. ASSUME book_spent(q) PROVE Goal(q)
  <2>1. PICK o \in Sp : pc[q] = "sent" /\ record_sp_spent(q, o)
    BY <1>8 DEF book_spent
  <2>2. \/ Dropped(q)
        \/ todo' = [todo EXCEPT ![q] = todo[q] \ {o}] /\ UNCHANGED <<pc, cur, queue>>
    BY <2>1, OutputDone
  <2>3. ASSUME Dropped(q) PROVE Goal(q)
    BY <1>0, <1>3, <2>3 DEF Dropped, Goto, Sending
  <2>4. ASSUME todo' = [todo EXCEPT ![q] = todo[q] \ {o}], UNCHANGED <<pc, cur, queue>> PROVE Goal(q)
    <3>1. todo'[q] \subseteq todo[q]
      BY <1>0, <2>4
    <3> QED
      BY <1>i, <2>1, <2>4, <3>1 DEF Sending
  <2> HIDE DEF Goal
  <2> QED
    BY <2>2, <2>3, <2>4
<1>9. ASSUME CutShort(q) PROVE Goal(q)
  <2>1. pc'[q] = "idle"
    BY <1>0, <1>9 DEF CutShort, Dropped, Goto
  <2> QED
    BY <1>3, <2>1 DEF Sending
<1> HIDE DEF Goal
<1> QED
  BY ProcStep, <1>2, <1>3, <1>4, <1>5, <1>6, <1>7, <1>8, <1>9

\* What a step appends, if anything, in terms of the folds.
LEMMA EntryWritten ==
    ASSUME TypeInv, [Next]_vars
    PROVE  \/ disk' = disk
           \/ \E e \in Entry : /\ disk' = Append(disk, e)
                               /\ \/ \E p \in Proc : /\ append_sent(p) /\ cur[p] \in Tx
                                                     /\ e.kind = "Sent" /\ e.txid = cur[p]
                                                     /\ e.status = "Pending"
                                  \/ \E p \in Proc, o \in Sp :
                                        /\ o \in todo[p] /\ e.kind = "SpSpent" /\ Outpoint(e) = Point(o)
                                        /\ pc[p] = "sent" \/ SpentOnChain(o)
                                  \/ \E t \in Tx : /\ e.kind = "StatusUpdate" /\ e.txid = t
                                                   /\ e.status = "Failed" => ~Acceptable(t)
<1>1. CASE disk' = disk
  BY <1>1
<1>2. ASSUME NEW e \in Entry, disk' = Append(disk, e), Allowed(e)
      PROVE  \/ \E p \in Proc : /\ append_sent(p) /\ cur[p] \in Tx
                                /\ e.kind = "Sent" /\ e.txid = cur[p] /\ e.status = "Pending"
             \/ \E p \in Proc, o \in Sp :
                   /\ o \in todo[p] /\ e.kind = "SpSpent" /\ Outpoint(e) = Point(o)
                   /\ pc[p] = "sent" \/ SpentOnChain(o)
             \/ \E t \in Tx : /\ e.kind = "StatusUpdate" /\ e.txid = t
                              /\ e.status = "Failed" => ~Acceptable(t)
  <2>1. ASSUME NEW p \in Proc, append_sent(p), e = Sent(0, cur[p])
        PROVE  cur[p] \in Tx /\ e.kind = "Sent" /\ e.txid = cur[p] /\ e.status = "Pending"
    BY <2>1 DEF append_sent, TypeInv, Sending, Sent
  <2>2. ASSUME NEW o \in Sp, e = SpSpent(0, o, 0)
        PROVE  e.kind = "SpSpent" /\ Outpoint(e) = Point(o)
    BY <2>2 DEF SpSpent, Outpoint, Point
  <2>3. ASSUME NEW t \in Tx, NEW s \in Status, e = StatusUpdate(0, t, s)
        PROVE  e.kind = "StatusUpdate" /\ e.txid = t /\ e.status = s
    BY <2>3 DEF StatusUpdate
  <2>4. "Failed" \in Status
    BY DEF Status
  <2> QED
    BY <1>2, <2>1, <2>2, <2>3, <2>4, Zenon DEF Allowed
<1> QED
  BY <1>1, <1>2, WriteStep, Zenon DEF Written

LEMMA ChainInvStep ==
    ASSUME TypeInv, ViewInv, SendInv, ChainInv, [Next]_vars
    PROVE  ChainInv'
<1>0. /\ \A t \in Tx : inputs[t] # {} => inputs'[t] = inputs[t]
      /\ \A t \in Tx : Known(t)' => Known(t) \/ t \in recorded(disk)
      /\ recorded(disk) \subseteq recorded(disk')
  BY ChainStep, ViewStep
<1>1. ASSUME NEW t \in Tx, Known(t)' PROVE t \in recorded(disk')
  BY <1>0, <1>1 DEF ChainInv
<1>2. ASSUME NEW t \in Tx, t \in recorded(disk') PROVE inputs'[t] # {}
  <2>1. t \in recorded(disk) \/ \E p \in Proc : append_sent(p) /\ t = cur[p]
    <3>1. disk \in Seq(Entry)
      BY DEF TypeInv, TypeOK
    <3>2. CASE disk' = disk
      BY <1>2, <3>2
    <3>3. ASSUME NEW e \in Entry, disk' = Append(disk, e),
                 e.kind = "Sent" => \E p \in Proc : append_sent(p) /\ e.txid = cur[p]
          PROVE  t \in recorded(disk) \/ \E p \in Proc : append_sent(p) /\ t = cur[p]
      <4>1. recorded(disk') = IF e.kind = "Sent" THEN recorded(disk) \cup {e.txid} ELSE recorded(disk)
        BY <3>1, <3>3, RecordedAppend
      <4> QED
        BY <1>2, <3>3, <4>1, Zenon
    <3> QED
      BY EntryWritten, <3>2, <3>3
  <2>2. CASE t \in recorded(disk)
    BY <1>0, <2>2 DEF ChainInv
  <2>3. ASSUME NEW p \in Proc, append_sent(p), t = cur[p] PROVE inputs'[t] # {}
    BY <1>0, <2>3 DEF append_sent, SendInv, Sending
  <2> QED
    BY <2>1, <2>2, <2>3
<1> QED
  BY <1>1, <1>2 DEF ChainInv

LEMMA SpentStep ==
    ASSUME TypeInv, ViewInv, SendInv, ChainInv, SpentInv, [Next]_vars
    PROVE  SpentInv'
<1> SUFFICES ASSUME NEW o \in Sp, Point(o) \in sp_spent_set(disk') PROVE SpentOnChain(o)'
  BY DEF SpentInv
<1>0. disk \in Seq(Entry)
  BY DEF TypeInv, TypeOK
<1>1. SpentOnChain(o)
  <2>1. CASE disk' = disk
    BY <2>1 DEF SpentInv
  <2>2. ASSUME NEW e \in Entry, disk' = Append(disk, e),
               e.kind = "SpSpent" => \E p \in Proc, u \in Sp :
                    /\ u \in todo[p] /\ Outpoint(e) = Point(u)
                    /\ pc[p] = "sent" \/ SpentOnChain(u)
        PROVE  SpentOnChain(o)
    <3>1. sp_spent_set(disk') = IF e.kind = "SpSpent" THEN sp_spent_set(disk) \cup {Outpoint(e)}
                                ELSE sp_spent_set(disk)
      BY <1>0, <2>2, SpentAppend
    <3>2. CASE Point(o) \in sp_spent_set(disk)
      BY <3>2 DEF SpentInv
    <3>3. CASE Point(o) \notin sp_spent_set(disk)
      <4>1. e.kind = "SpSpent" /\ Outpoint(e) = Point(o)
        BY <3>1, <3>3
      <4>2. PICK p \in Proc, u \in Sp : /\ u \in todo[p] /\ Point(o) = Point(u)
                                        /\ pc[p] = "sent" \/ SpentOnChain(u)
        BY <2>2, <4>1
      <4>3. u = o
        BY <4>2 DEF Point
      <4>4. CASE pc[p] = "sent"
        <5>1. cur[p] \in Tx /\ Known(cur[p]) /\ o \in inputs[cur[p]]
          BY <4>2, <4>3, <4>4 DEF TypeInv, SendInv, Sending
        <5> QED
          BY <5>1 DEF SpentOnChain
      <4> QED
        BY <4>2, <4>3, <4>4
    <3> QED
      BY <3>2, <3>3
  <2> QED
    BY EntryWritten, <2>1, <2>2
<1> QED
  BY <1>1, ChainStep

LEMMA DeadStep ==
    ASSUME TypeInv, ViewInv, SendInv, ChainInv, DeadInv, [Next]_vars
    PROVE  DeadInv'
<1> SUFFICES ASSUME NEW t \in Tx, latest_status(disk', t) = "Failed" PROVE ~Acceptable(t)'
  BY DEF DeadInv
<1>0. disk \in Seq(Entry)
  BY DEF TypeInv, TypeOK
<1>1. ~Acceptable(t)
  <2>1. CASE disk' = disk
    BY <2>1 DEF DeadInv
  <2>2. ASSUME NEW e \in Entry, disk' = Append(disk, e),
               \/ e.kind = "Sent" /\ e.status = "Pending"
               \/ e.kind = "SpSpent"
               \/ \E u \in Tx : e.txid = u /\ (e.status = "Failed" => ~Acceptable(u))
        PROVE  ~Acceptable(t)
    <3>1. latest_status(disk', t) = IF Mentions(e, t) THEN e.status ELSE latest_status(disk, t)
      BY <1>0, <2>2, LatestAppend
    <3>2. CASE ~Mentions(e, t)
      BY <3>1, <3>2 DEF DeadInv
    <3>3. CASE Mentions(e, t)
      BY <2>2, <3>1, <3>3 DEF Mentions
    <3> QED
      BY <3>2, <3>3
  <2> QED
    BY EntryWritten, <2>1, <2>2
<1> QED
  BY <1>1, ChainStep

\* A send that has an output to book goes on carrying it until it is booked, or
\* is cut short.
LEMMA CarryStep ==
    ASSUME TypeInv, ViewInv, SendInv, ChainInv, [Next]_vars,
           NEW p \in Proc, NEW t \in Tx, NEW o \in inputs[t] \cap Sp, Carries(p, t, o)
    PROVE  \/ Point(o) \in sp_spent_set(disk')
           \/ Carries(p, t, o)'
           \/ t \in cut'
<1> DEFINE Goal == \/ Point(o) \in sp_spent_set(disk')
                   \/ cur'[p] = t /\ (pc'[p] = "booked" \/ (pc'[p] = "sent" /\ o \in todo'[p]))
                   \/ t \in cut'
<1>0. /\ pc \in [Proc -> {"idle", "open", "signed", "staged", "booked", "sent", "pass", "spends"}]
      /\ cur \in [Proc -> Tx \cup {NoTx}]
      /\ todo \in [Proc -> SUBSET Sp]
      /\ disk \in Seq(Entry) /\ mem[p] \in Seq(Entry)
  BY DEF TypeInv, TypeOK
<1>1. /\ cur[p] = t /\ pc[p] \in {"booked", "sent"}
      /\ pc[p] = "sent" => o \in todo[p]
  BY DEF Carries
<1> SUFFICES Goal
  BY DEF Carries
<1>2. ASSUME pc'[p] = pc[p], cur'[p] = cur[p], todo'[p] = todo[p] PROVE Goal
  BY <1>1, <1>2
<1>3. ASSUME broadcast(p) PROVE Goal
  <2>1. pc[p] = "booked" /\ todo[p] = inputs[t] \cap Sp
    BY <1>1, <1>3 DEF broadcast, SendInv
  <2>2. pc'[p] = "sent" /\ UNCHANGED <<cur, todo>>
    BY <1>0, <1>3, <2>1 DEF broadcast, Goto, local
  <2> QED
    BY <1>1, <2>1, <2>2
<1>4. ASSUME CutShort(p) PROVE Goal
  BY <1>1, <1>4 DEF CutShort
<1>5. ASSUME book_spent(p) PROVE Goal
  <2>1. PICK u \in Sp : pc[p] = "sent" /\ record_sp_spent(p, u)
    BY <1>5 DEF book_spent
  <2>2. \/ Dropped(p) /\ todo[p] = {u}
        \/ todo' = [todo EXCEPT ![p] = todo[p] \ {u}] /\ UNCHANGED <<pc, cur, queue>>
    BY <2>1, OutputDone
  <2>3. ASSUME o # u PROVE Goal
    BY <1>0, <1>1, <2>1, <2>2, <2>3
  <2>4. ASSUME o = u PROVE Goal
    <3> DEFINE e == SpSpent(0, o, 0)
    <3>1. Point(o) \in sp_spent_set(mem[p]) \/ disk' = Append(disk, e)
      BY <2>1, <2>4 DEF record_sp_spent
    <3>2. e \in Entry /\ e.kind = "SpSpent" /\ Outpoint(e) = Point(o)
      BY WrittenTypes DEF SpSpent, Outpoint, Point
    <3> HIDE DEF e
    <3>3. disk' = Append(disk, e) => Point(o) \in sp_spent_set(disk')
      BY <1>0, <3>2, SpentAppend
    <3>4. Point(o) \in sp_spent_set(mem[p]) => Point(o) \in sp_spent_set(disk')
      BY ViewStep DEF ViewInv
    <3> QED
      BY <3>1, <3>3, <3>4
  <2> QED
    BY <2>3, <2>4
<1>6. /\ pc[p] \in Sending
      /\ ~build_signed_spending_sp(p) /\ ~write_sidecar(p) /\ ~append_sent(p)
  BY <1>0, <1>1 DEF Sending, build_signed_spending_sp, write_sidecar, append_sent
<1> HIDE DEF Goal
<1> QED
  BY ProcStep, <1>2, <1>3, <1>4, <1>5, <1>6

LEMMA FreeStep ==
    ASSUME TypeInv, ViewInv, SendInv, ChainInv, FreeInv, [Next]_vars
    PROVE  FreeInv'
<1> SUFFICES ASSUME NEW t \in Tx, t \in recorded(disk'), t \notin cut', NEW o \in inputs'[t] \cap Sp
             PROVE  Point(o) \in sp_spent_set(disk') \/ \E p \in Proc : Carries(p, t, o)'
  BY DEF FreeInv
<1>0. /\ pc \in [Proc -> {"idle", "open", "signed", "staged", "booked", "sent", "pass", "spends"}]
      /\ disk \in Seq(Entry)
  BY DEF TypeInv, TypeOK
<1>1. cut \subseteq cut'
  BY DEF Next, ProcNext, OpenLedger, Crash, build_signed_spending_sp, write_sidecar, append_sent,
     broadcast, broadcast_known, broadcast_unanswered, broadcast_rejected, CutShort, book_spent,
     start_reconcile, end_reconcile, reconcile_dead, reconcile_alive, track_spends, look_up,
     MineBlocks, ended, vars
<1>2. /\ inputs[t] # {} => inputs'[t] = inputs[t]
      /\ sp_spent_set(disk) \subseteq sp_spent_set(disk')
  BY ChainStep, ViewStep
<1>3. CASE t \in recorded(disk)
  <2>1. o \in inputs[t] \cap Sp
    BY <1>2, <1>3 DEF ChainInv
  <2>2. Point(o) \in sp_spent_set(disk) \/ \E p \in Proc : Carries(p, t, o)
    BY <1>1, <1>3, <2>1 DEF FreeInv
  <2>3. ASSUME NEW p \in Proc, Carries(p, t, o)
        PROVE  Point(o) \in sp_spent_set(disk') \/ Carries(p, t, o)'
    BY <2>1, <2>3, CarryStep
  <2> QED
    BY <1>2, <2>2, <2>3
<1>4. CASE t \notin recorded(disk)
  <2>1. ASSUME NEW e \in Entry, disk' = Append(disk, e),
               e.kind = "Sent" => \E p \in Proc : append_sent(p) /\ e.txid = cur[p]
        PROVE  \E p \in Proc : append_sent(p) /\ t = cur[p]
    <3>1. recorded(disk') = IF e.kind = "Sent" THEN recorded(disk) \cup {e.txid} ELSE recorded(disk)
      BY <1>0, <2>1, RecordedAppend
    <3> QED
      BY <1>4, <2>1, <3>1, Zenon
  <2>2. \E p \in Proc : append_sent(p) /\ t = cur[p]
    BY <1>4, EntryWritten, <2>1
  <2>3. \E p \in Proc : pc'[p] = "booked" /\ cur'[p] = t
    BY <1>0, <2>2 DEF append_sent, Goto
  <2> QED
    BY <2>3 DEF Carries
<1> QED
  BY <1>3, <1>4

LEMMA SpendInit == Init => SpendInv
<1> SUFFICES ASSUME Init PROVE SpendInv
  OBVIOUS
<1>1. recorded(disk) = {} /\ sp_spent_set(disk) = {} /\ \A t \in Tx : ~Known(t) /\ inputs[t] = {}
  BY InitLedger DEF Init, Known
<1>2. ViewInv
  BY NothingSpent, EmptyLedger DEF Init, ViewInv
<1>3. SendInv
  BY DEF Init, SendInv, Sending
<1>4. ChainInv /\ SpentInv /\ FreeInv
  BY <1>1 DEF ChainInv, SpentInv, FreeInv
<1>5. DeadInv
  <2>1. ASSUME NEW t \in Tx PROVE latest_status(disk, t) # "Failed"
    <3>1. \A i \in 1..Len(disk) : ~Mentions(disk[i], t)
      BY InitLedger, ConstAssumption DEF Mentions
    <3>2. latest_status(disk, t) = NoStatus
      BY <3>1, Zenon DEF latest_status
    <3> QED
      BY <3>2 DEF NoStatus
  <2> QED
    BY <2>1 DEF DeadInv
<1> QED
  BY <1>2, <1>3, <1>4, <1>5 DEF SpendInv

LEMMA SpendAlways == Spec => []SpendInv
<1>1. TypeInv /\ TypeInv' /\ SpendInv /\ [Next]_vars => SpendInv'
  BY ViewStep, SendStep, ChainInvStep, SpentStep, DeadStep, FreeStep DEF SpendInv
<1> QED
  BY <1>1, TypeAlways, SpendInit, PTL DEF Spec

\* The ledger and the chain agree on the silent-payment outputs: what is booked
\* as spent was consumed by a recorded send that is not Failed
\* (Ledger::record_sp_spent after chain::broadcast, scan::track_spends), and an
\* output that pay::send_spending_sp would pin next is spent only by a send that
\* is still at work or that an error ended between its entry and its bookings
\* (a crash, a lost answer, chain::broadcast refusing a transaction that another
\* process rebroadcast first), whatever senders, reconciles and scanners run.
THEOREM SpBooksMatchChainHolds == Spec => []SpBooksMatchChain
<1>1. ASSUME TypeInv, SpendInv PROVE GivenBack
  <2> SUFFICES ASSUME NEW o \in Sp, Point(o) \in sp_spent_set(disk)
               PROVE  \E t \in Tx : o \in inputs[t] /\ latest_status(disk, t) \notin {NoStatus, "Failed"}
    BY DEF GivenBack
  <2>0. disk \in Seq(Entry) /\ Len(disk) \in Nat
    BY <1>1 DEF TypeInv, TypeOK
  <2>1. PICK t \in Tx : Known(t) /\ o \in inputs[t]
    BY <1>1 DEF SpendInv, SpentInv, SpentOnChain
  <2>2. latest_status(disk, t) # "Failed"
    BY <1>1, <2>1 DEF SpendInv, DeadInv, Acceptable
  <2>3. t \in recorded(disk)
    BY <1>1, <2>1 DEF SpendInv, ChainInv
  <2>4. PICK i \in 1..Len(disk) : disk[i].kind = "Sent" /\ t = disk[i].txid
    BY <2>3, Zenon DEF recorded
  <2>5. Mentions(disk[i], t)
    BY <2>4 DEF Mentions
  <2>6. PICK j \in i..Len(disk) : Mentions(disk[j], t) /\ latest_status(disk, t) = disk[j].status
    BY <2>0, <2>5, LatestMentioned
  <2>7. disk[j] \in Entry
    BY <2>0, <2>6
  <2>8. disk[j].status \in Status
    BY <2>6, <2>7, EntryFacts DEF Mentions
  <2> QED
    BY <2>1, <2>2, <2>6, <2>8 DEF Status, NoStatus
<1>2. ASSUME TypeInv, SpendInv PROVE SpendableIsFree
  <2> SUFFICES ASSUME NEW i \in sp_utxos(disk), NEW t \in Tx, Known(t), disk[i].txid \in inputs[t],
                      t \notin cut
               PROVE  \E p \in Proc : cur[p] = t /\ pc[p] \in {"booked", "sent"}
    BY DEF SpendableIsFree
  <2>1. /\ i \in 1..Len(disk) /\ disk[i].kind = "SpReceived"
        /\ Outpoint(disk[i]) \notin sp_spent_set(disk)
    BY Zenon DEF sp_utxos, Of
  <2>2. disk[i] \in Entry
    BY <1>2, <2>1 DEF TypeInv, TypeOK
  <2>3. disk[i].txid \in Sp /\ Outpoint(disk[i]) = Point(disk[i].txid)
    BY <2>1, <2>2 DEF Entry, Outpoint, Point
  <2>4. t \in recorded(disk)
    BY <1>2 DEF SpendInv, ChainInv
  <2> QED
    BY <1>2, <2>1, <2>3, <2>4 DEF SpendInv, FreeInv, Carries
<1>3. TypeInv /\ SpendInv => SpBooksMatchChain
  BY <1>1, <1>2 DEF SpBooksMatchChain
<1> QED
  BY <1>3, TypeAlways, SpendAlways, PTL

=============================================================================
