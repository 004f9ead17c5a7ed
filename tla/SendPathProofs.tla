--------------------------- MODULE SendPathProofs ---------------------------
(***************************************************************************)
(* Proofs about SendPath, for any number of transactions, coins and        *)
(* processes and any bounds.                                               *)
(***************************************************************************)
EXTENDS SendPath, LedgerProofs

\* The largest count that is told apart.
LEMMA MaxConfsRange == MaxConfs \in Nat /\ MaxConfs >= FinalDepth /\ FinalDepth = 3
BY ConstAssumption DEF MaxConfs, FinalDepth

\* The sequence numbers and statuses that are written have their types.
LEMMA EntryTypes ==
    /\ \A es \in Seq(Entry) : next_seq(es) \in Nat
    /\ \A c \in 0..MaxConfs : from_confirmations(c) \in Status
<1>1. ASSUME NEW es \in Seq(Entry) PROVE next_seq(es) \in Nat
  <2>1. CASE es = <<>>
    BY <2>1 DEF next_seq
  <2>2. CASE es # <<>>
    <3>1. es[Len(es)] \in Entry
      BY <2>2
    <3>2. es[Len(es)].seq \in Nat
      BY <3>1 DEF Entry
    <3> QED
      BY <2>2, <3>2 DEF next_seq
  <2> QED
    BY <2>1, <2>2
<1>2. ASSUME NEW c \in 0..MaxConfs PROVE from_confirmations(c) \in Status
  BY <1>2 DEF from_confirmations, Status
<1> QED
  BY <1>1, <1>2

\* What Ledger::append does to file and memory keeps their types.
LEMMA AppendType ==
    ASSUME TypeOK, NEW p \in Proc, NEW e \in Entry, append(p, e)
    PROVE  disk' \in Seq(Entry) /\ mem' \in [Proc -> Seq(Entry)]
BY DEF TypeOK, append

LEMMA SentType ==
    ASSUME TypeOK, NEW p \in Proc, cur[p] \in Tx
    PROVE  Sent(next_seq(mem[p]), cur[p]) \in Entry
BY EntryTypes DEF TypeOK, Sent, Entry

LEMMA UpdateType ==
    ASSUME TypeOK, NEW p \in Proc, cur[p] \in Tx, NEW s \in Status
    PROVE  StatusUpdate(next_seq(mem[p]), cur[p], s) \in Entry
BY EntryTypes DEF TypeOK, StatusUpdate, Entry

LEMMA DroppedType ==
    ASSUME TypeOK, NEW p \in Proc, Dropped(p)
    PROVE  /\ pc' \in [Proc -> {"idle", "open"} \cup SendStep \cup PassStep]
           /\ mem' \in [Proc -> Seq(Entry)]
           /\ cur' \in [Proc -> Tx \cup {Unsigned}]
           /\ \A q \in Proc : pc'[q] \in (SendStep \cup PassStep) \ {"next", "sweep"}
                              => cur'[q] \in Tx
           /\ confs' \in [Proc -> 0..MaxConfs]
           /\ queue' \in [Proc -> SUBSET Tx]
           /\ orphans' \in [Proc -> SUBSET Tx]
<1>1. <<>> \in Seq(Entry)
  OBVIOUS
<1>2. 0 \in 0..MaxConfs
  BY MaxConfsRange
<1>3. "idle" \notin SendStep \cup PassStep
  BY DEF SendStep, PassStep
<1> QED
  BY <1>1, <1>2, <1>3 DEF TypeOK, Dropped, Goto

LEMMA EndPassType ==
    ASSUME TypeOK, NEW p \in Proc, EndPass(p)
    PROVE  /\ pc' \in [Proc -> {"idle", "open"} \cup SendStep \cup PassStep]
           /\ mem' \in [Proc -> Seq(Entry)]
           /\ cur' \in [Proc -> Tx \cup {Unsigned}]
           /\ \A q \in Proc : pc'[q] \in (SendStep \cup PassStep) \ {"next", "sweep"}
                              => cur'[q] \in Tx
           /\ confs' \in [Proc -> 0..MaxConfs]
           /\ queue' \in [Proc -> SUBSET Tx]
           /\ orphans' \in [Proc -> SUBSET Tx]
<1>1. 0 \in 0..MaxConfs
  BY MaxConfsRange
<1>2. "open" \notin SendStep \cup PassStep
  BY DEF SendStep, PassStep
<1>3. CASE p \in Daemon
  BY <1>1, <1>2, <1>3, ZenonT(40) DEF TypeOK, EndPass, Goto
<1>4. CASE p \notin Daemon
  BY <1>4, DroppedType DEF EndPass
<1> QED
  BY <1>3, <1>4

LEMMA DeliverType ==
    ASSUME TypeOK, NEW t \in Tx, Deliver(t)
    PROVE  net' \in [Tx -> -1..MaxConfs] /\ relayed' \subseteq Tx
BY MaxConfsRange DEF TypeOK, Deliver

\* One step keeps the types: one case per action.
LEMMA TypeStep == TypeOK /\ [Next]_vars => TypeOK'
<1> SUFFICES ASSUME TypeOK, [Next]_vars
             PROVE  TypeOK'
  OBVIOUS
<1> USE DEF files, chain, local
<1>1. ASSUME NEW p \in Proc, OpenLedger(p) PROVE TypeOK'
  BY <1>1 DEF OpenLedger, Goto, TypeOK, SendStep, PassStep
<1>2. ASSUME NEW p \in Proc, Close(p) PROVE TypeOK'
  BY <1>2, DroppedType DEF Close, TypeOK
<1>3. ASSUME NEW p \in Proc, Crash(p) PROVE TypeOK'
  <2>1. faults' \in 0..MaxFaults
    BY <1>3, ConstAssumption DEF Crash, Fault, TypeOK
  <2> QED
    BY <1>3, <2>1, DroppedType DEF Crash, TypeOK
<1>4. ASSUME NEW p \in Proc, build_signed(p) PROVE TypeOK'
  BY <1>4 DEF build_signed, Goto, TypeOK, SendStep, PassStep
<1>5. ASSUME NEW p \in Proc, write_sidecar(p) PROVE TypeOK'
  BY <1>5 DEF write_sidecar, Goto, TypeOK, SendStep, PassStep
<1>6. ASSUME NEW p \in Proc, append_sent(p) PROVE TypeOK'
  <2>1. cur[p] \in Tx
    BY <1>6 DEF append_sent, TypeOK, SendStep, PassStep
  <2>2. disk' \in Seq(Entry) /\ mem' \in [Proc -> Seq(Entry)]
    BY <1>6, <2>1, SentType, AppendType DEF append_sent
  <2> QED
    BY <1>6, <2>1, <2>2 DEF append_sent, Goto, TypeOK, SendStep, PassStep
<1>7. ASSUME NEW p \in Proc, broadcast_delivered(p) PROVE TypeOK'
  <2>1. cur[p] \in Tx
    BY <1>7 DEF broadcast_delivered, TypeOK, SendStep, PassStep
  <2> QED
    BY <1>7, <2>1, DeliverType, DroppedType DEF broadcast_delivered, TypeOK
<1>8. ASSUME NEW p \in Proc, broadcast_failed(p) PROVE TypeOK'
  BY <1>8, DroppedType DEF broadcast_failed, TypeOK
<1>9. ASSUME NEW p \in Proc, start_reconcile(p) PROVE TypeOK'
  <2>1. pending(mem[p]) \subseteq Tx
    <3>1. \A i \in 1..Len(mem[p]) : mem[p][i] \in Entry
      BY DEF TypeOK
    <3>2. \A e \in Entry : e.txid \in Tx
      BY DEF Entry
    <3> QED
      BY <3>1, <3>2, Zenon DEF pending
  <2> QED
    BY <1>9, <2>1 DEF start_reconcile, Goto, TypeOK, SendStep, PassStep
<1>10. ASSUME NEW p \in Proc, NEW t \in Tx, read_confirmations(p, t) PROVE TypeOK'
  <2>1. confirmations(t) \in 0..MaxConfs
    BY MaxConfsRange DEF confirmations, TypeOK
  <2> QED
    BY <1>10, <2>1 DEF read_confirmations, Goto, TypeOK, SendStep, PassStep
<1>11. ASSUME NEW p \in Proc, pass_error(p) PROVE TypeOK'
  <2>1. faults' \in 0..MaxFaults
    BY <1>11, ConstAssumption DEF pass_error, Fault, TypeOK
  <2> QED
    BY <1>11, <2>1, EndPassType DEF pass_error, TypeOK
<1>12. ASSUME NEW p \in Proc, read_sidecar(p) PROVE TypeOK'
  BY <1>12 DEF read_sidecar, Goto, TypeOK, SendStep, PassStep
<1>13. ASSUME NEW p \in Proc, rebroadcast_accepted(p) PROVE TypeOK'
  <2>1. cur[p] \in Tx
    BY <1>13 DEF rebroadcast_accepted, TypeOK, SendStep, PassStep
  <2> QED
    BY <1>13, <2>1, DeliverType
       DEF rebroadcast_accepted, Goto, TypeOK, SendStep, PassStep
<1>14. ASSUME NEW p \in Proc, rebroadcast_lost(p) PROVE TypeOK'
  <2>1. faults' \in 0..MaxFaults
    BY <1>14, ConstAssumption DEF rebroadcast_lost, Fault, TypeOK
  <2> QED
    BY <1>14, <2>1 DEF rebroadcast_lost, Goto, TypeOK, SendStep, PassStep
<1>15. ASSUME NEW p \in Proc, rebroadcast_rejected(p) PROVE TypeOK'
  BY <1>15 DEF rebroadcast_rejected, Goto, TypeOK, SendStep, PassStep
<1>16. ASSUME NEW p \in Proc, mark_failed(p) PROVE TypeOK'
  <2>1. cur[p] \in Tx
    BY <1>16 DEF mark_failed, TypeOK, SendStep, PassStep
  <2>2. disk' \in Seq(Entry) /\ mem' \in [Proc -> Seq(Entry)]
    <3>1. "Failed" \in Status
      BY DEF Status
    <3> QED
      BY <1>16, <2>1, <3>1, UpdateType, AppendType DEF mark_failed
  <2> QED
    BY <1>16, <2>1, <2>2 DEF mark_failed, Goto, TypeOK, SendStep, PassStep
<1>17. ASSUME NEW p \in Proc, update_status(p) PROVE TypeOK'
  <2>1. cur[p] \in Tx
    BY <1>17 DEF update_status, TypeOK, SendStep, PassStep
  <2>2. disk' \in Seq(Entry) /\ mem' \in [Proc -> Seq(Entry)]
    <3>1. from_confirmations(confs[p]) \in Status
      BY EntryTypes DEF TypeOK
    <3>2. CASE latest_status(mem[p], cur[p]) # from_confirmations(confs[p])
      BY <1>17, <2>1, <3>1, <3>2, UpdateType, AppendType DEF update_status
    <3>3. CASE latest_status(mem[p], cur[p]) = from_confirmations(confs[p])
      BY <1>17, <3>3 DEF update_status, TypeOK
    <3> QED
      BY <3>2, <3>3
  <2> QED
    BY <1>17, <2>1, <2>2 DEF update_status, Goto, TypeOK, SendStep, PassStep
<1>18. ASSUME NEW p \in Proc, remove_sidecar(p) PROVE TypeOK'
  BY <1>18 DEF remove_sidecar, Goto, TypeOK, SendStep, PassStep
<1>19. ASSUME NEW p \in Proc, list_sidecars(p) PROVE TypeOK'
  BY <1>19 DEF list_sidecars, Goto, TypeOK, SendStep, PassStep
<1>20. ASSUME NEW p \in Proc, sweep_orphan(p) PROVE TypeOK'
  BY <1>20 DEF sweep_orphan, TypeOK
<1>21. ASSUME NEW p \in Proc, end_reconcile(p) PROVE TypeOK'
  BY <1>21, EndPassType DEF end_reconcile, TypeOK
<1>22. CASE MineBlock
  <2>1. PICK S \in SUBSET Minable :
               \E kicked \in SUBSET (InMempool \ S) : Block(S, kicked)
    BY <1>22 DEF MineBlock
  <2>2. PICK kicked \in SUBSET (InMempool \ S) : Block(S, kicked)
    BY <2>1
  <2>3. net' \in [Tx -> -1..MaxConfs]
    <3>1. \A t \in Tx : net[t] \in -1..MaxConfs
      BY DEF TypeOK
    <3> QED
      BY <2>2, <3>1, MaxConfsRange DEF Block
  <2> QED
    BY <2>2, <2>3 DEF Block, TypeOK
<1>23. CASE Evict
  BY <1>23, MaxConfsRange DEF Evict, TypeOK
<1>24. CASE Reorg
  <2>1. net' \in [Tx -> -1..MaxConfs]
    <3>1. \A t \in Tx : net[t] \in -1..MaxConfs
      BY DEF TypeOK
    <3> QED
      BY <1>24, <3>1, MaxConfsRange DEF Reorg
  <2> QED
    BY <1>24, <2>1, ConstAssumption DEF Reorg, TypeOK
<1>25. CASE UNCHANGED vars
  BY <1>25 DEF vars, TypeOK
<1> QED
  BY <1>1, <1>2, <1>3, <1>4, <1>5, <1>6, <1>7, <1>8, <1>9, <1>10, <1>11, <1>12,
     <1>13, <1>14, <1>15, <1>16, <1>17, <1>18, <1>19, <1>20, <1>21, <1>22, <1>23,
     <1>24, <1>25
     DEF Next, ProcNext, SendNext, PassNext

\* The variables keep their types in every behaviour.
THEOREM TypeCorrect == Spec => []TypeOK
<1>1. Init => TypeOK
  BY ConstAssumption, MaxConfsRange DEF Init, TypeOK, SendStep, PassStep
<1> QED
  BY <1>1, TypeStep, PTL DEF Spec

-----------------------------------------------------------------------------
(* Write-ahead, for any number of concurrent processes.                    *)

\* Ledger::append, seen by the folds over the file and over the memory of p.
LEMMA AppendFolds ==
    ASSUME TypeOK, NEW p \in Proc, NEW e \in Entry, append(p, e)
    PROVE  /\ recorded(disk') =
                IF e.kind = "Sent" THEN recorded(disk) \cup {e.txid} ELSE recorded(disk)
           /\ recorded(mem'[p]) =
                IF e.kind = "Sent" THEN recorded(mem[p]) \cup {e.txid} ELSE recorded(mem[p])
           /\ \A q \in Proc \ {p} : mem'[q] = mem[q]
           /\ \A t : latest_status(disk', t) =
                IF t = e.txid THEN e.status ELSE latest_status(disk, t)
<1>1. disk \in Seq(Entry) /\ mem[p] \in Seq(Entry)
  BY DEF TypeOK
<1>2. /\ disk' = Append(disk, e)
      /\ mem'[p] = Append(mem[p], e)
      /\ \A q \in Proc \ {p} : mem'[q] = mem[q]
  BY DEF append, TypeOK
<1>3. \A t : Mentions(e, t) <=> t = e.txid
  BY DEF Mentions, Entry
<1>4. recorded(Append(disk, e)) =
          IF e.kind = "Sent" THEN recorded(disk) \cup {e.txid} ELSE recorded(disk)
  BY <1>1, RecordedAppend
<1>5. recorded(Append(mem[p], e)) =
          IF e.kind = "Sent" THEN recorded(mem[p]) \cup {e.txid} ELSE recorded(mem[p])
  BY <1>1, RecordedAppend
<1>6. \A t : latest_status(Append(disk, e), t) =
          IF Mentions(e, t) THEN e.status ELSE latest_status(disk, t)
  BY <1>1, LatestAppend
<1> QED
  BY <1>2, <1>3, <1>4, <1>5, <1>6

\* The queue of a pass holds recorded sends that are not terminal.
LEMMA QueueFacts ==
    ASSUME NEW es \in Seq(Entry), NEW t \in pending(es)
    PROVE  t \in recorded(es) /\ latest_status(es, t) \notin Terminal
<1>1. \A i \in 1..Len(es) : es[i].kind \in {"Sent", "StatusUpdate"}
  BY DEF Entry
<1> QED
  BY <1>1, PendingFacts

\* The steps of a pass that work on cur.
CurStep == PassStep \ {"next", "sweep"}

\* The strengthening of WriteAhead: what a process remembers, has queued or is
\* about to broadcast is in the file.
WriteAheadInv ==
    /\ TypeOK
    /\ WriteAhead
    /\ \A p \in Proc : /\ recorded(mem[p]) \subseteq recorded(disk)
                       /\ queue[p] \subseteq recorded(disk)
                       /\ pc[p] \in {"booked"} \cup CurStep => cur[p] \in recorded(disk)

LEMMA WriteAheadInit == Init => WriteAheadInv
<1> SUFFICES ASSUME Init PROVE WriteAheadInv
  OBVIOUS
<1>1. TypeOK
  BY ConstAssumption, MaxConfsRange DEF Init, TypeOK, SendStep, PassStep
<1>2. WriteAhead
  BY DEF Init, WriteAhead, Known
<1> QED
  BY <1>1, <1>2, EmptyLedger DEF Init, WriteAheadInv, CurStep, PassStep

\* A process that drops its ledger, or ends a pass, keeps nothing unrecorded.
LEMMA WriteAheadDropped ==
    ASSUME WriteAheadInv, TypeOK', NEW p \in Proc, EndPass(p) \/ Dropped(p),
           UNCHANGED files,
           \A t \in Tx : (Known(t)' \/ t \in relayed') => t \in recorded(disk)
    PROVE  WriteAheadInv'
<1>1. recorded(<<>>) = {}
  BY EmptyLedger
<1>2. /\ mem' = mem \/ mem' = [mem EXCEPT ![p] = <<>>]
      /\ queue' = [queue EXCEPT ![p] = {}]
      /\ pc'[p] \in {"idle", "open"}
      /\ \A q \in Proc \ {p} : pc'[q] = pc[q] /\ cur'[q] = cur[q]
  BY DEF WriteAheadInv, TypeOK, EndPass, Dropped, Goto
<1>3. disk' = disk
  BY DEF files
<1>4. WriteAhead'
  BY <1>3 DEF WriteAhead
<1>5. ASSUME NEW q \in Proc
      PROVE /\ recorded(mem'[q]) \subseteq recorded(disk)
            /\ queue'[q] \subseteq recorded(disk)
            /\ pc'[q] \in {"booked"} \cup CurStep => cur'[q] \in recorded(disk)
  <2>1. mem'[q] = mem[q] \/ mem'[q] = <<>>
    BY <1>2 DEF WriteAheadInv, TypeOK
  <2> QED
    BY <1>1, <1>2, <2>1 DEF WriteAheadInv, TypeOK, CurStep, PassStep
<1> QED
  BY <1>3, <1>4, <1>5 DEF WriteAheadInv

\* An append by a process to whose file entry cur already belongs, or a Sent.
LEMMA WriteAheadAppend ==
    ASSUME WriteAheadInv, TypeOK', NEW p \in Proc, NEW e \in Entry, append(p, e),
           NEW step, pc' = [pc EXCEPT ![p] = step],
           step \in {"booked"} \cup CurStep => cur[p] \in recorded(disk) \/ e = Sent(e.seq, cur[p]),
           UNCHANGED <<net, relayed, cur, queue>>
    PROVE  WriteAheadInv'
<1>1. TypeOK
  BY DEF WriteAheadInv
<1>2. recorded(disk) \subseteq recorded(disk')
  BY <1>1, AppendFolds
<1>3. WriteAhead'
  BY <1>2 DEF WriteAhead, Known, WriteAheadInv
<1>4. cur[p] \in recorded(disk) \/ e = Sent(e.seq, cur[p]) => cur[p] \in recorded(disk')
  <2>1. CASE e = Sent(e.seq, cur[p])
    <3>1. e.kind = "Sent" /\ e.txid = cur[p]
      BY <2>1 DEF Sent
    <3> QED
      BY <1>1, <3>1, AppendFolds
  <2> QED
    BY <1>2, <2>1
<1>5. ASSUME NEW q \in Proc
      PROVE /\ recorded(mem'[q]) \subseteq recorded(disk')
            /\ queue'[q] \subseteq recorded(disk')
            /\ pc'[q] \in {"booked"} \cup CurStep => cur'[q] \in recorded(disk')
  <2>1. CASE q = p
    <3>1. recorded(mem'[p]) \subseteq recorded(disk')
      BY <1>1, AppendFolds DEF WriteAheadInv
    <3> QED
      BY <1>2, <1>4, <2>1, <3>1 DEF WriteAheadInv, TypeOK
  <2>2. CASE q # p
    <3>1. mem'[q] = mem[q] /\ pc'[q] = pc[q]
      BY <1>1, <2>2, AppendFolds DEF TypeOK
    <3> QED
      BY <1>2, <3>1 DEF WriteAheadInv
  <2> QED
    BY <2>1, <2>2
<1> QED
  BY <1>3, <1>5 DEF WriteAheadInv

\* One step keeps the strengthened invariant.
LEMMA WriteAheadStep == WriteAheadInv /\ [Next]_vars => WriteAheadInv'
<1> SUFFICES ASSUME WriteAheadInv, [Next]_vars
             PROVE  WriteAheadInv'
  OBVIOUS
<1>t. TypeOK /\ TypeOK'
  BY TypeStep DEF WriteAheadInv
<1>w. \A t \in Tx : Known(t) \/ t \in relayed => t \in recorded(disk)
  BY DEF WriteAheadInv, WriteAhead
<1> USE DEF files, chain, local
<1>1. ASSUME NEW p \in Proc, OpenLedger(p) PROVE WriteAheadInv'
  BY <1>1, <1>t DEF OpenLedger, Goto, TypeOK, WriteAheadInv, WriteAhead, Known,
                    CurStep, PassStep
<1>2. ASSUME NEW p \in Proc, Close(p) \/ Crash(p) \/ broadcast_failed(p)
      PROVE  WriteAheadInv'
  BY <1>2, <1>t, <1>w, WriteAheadDropped DEF Close, Crash, broadcast_failed, Known
<1>3. ASSUME NEW p \in Proc, pass_error(p) \/ end_reconcile(p) PROVE WriteAheadInv'
  BY <1>3, <1>t, <1>w, WriteAheadDropped DEF pass_error, end_reconcile, Known
<1>4. ASSUME NEW p \in Proc, build_signed(p) PROVE WriteAheadInv'
  BY <1>4, <1>t DEF build_signed, Goto, TypeOK, WriteAheadInv, WriteAhead, Known,
                    CurStep, PassStep
<1>5. ASSUME NEW p \in Proc, write_sidecar(p) PROVE WriteAheadInv'
  BY <1>5, <1>t DEF write_sidecar, Goto, TypeOK, WriteAheadInv, WriteAhead, Known,
                    CurStep, PassStep
<1>6. ASSUME NEW p \in Proc, append_sent(p) PROVE WriteAheadInv'
  <2> DEFINE e == Sent(next_seq(mem[p]), cur[p])
  <2>1. e \in Entry
    BY <1>6, <1>t, SentType DEF append_sent, TypeOK, SendStep, PassStep
  <2>2. e = Sent(e.seq, cur[p])
    BY DEF Sent
  <2> QED
    BY <1>6, <1>t, <2>1, <2>2, WriteAheadAppend DEF append_sent, Goto
<1>7. ASSUME NEW p \in Proc, broadcast_delivered(p) PROVE WriteAheadInv'
  <2>1. cur[p] \in Tx /\ cur[p] \in recorded(disk)
    BY <1>7, <1>t DEF broadcast_delivered, WriteAheadInv, TypeOK, SendStep, PassStep
  <2>2. \A t \in Tx : (Known(t)' \/ t \in relayed') => t \in recorded(disk)
    BY <1>7, <1>t, <1>w, <2>1 DEF broadcast_delivered, Deliver, Known, TypeOK
  <2> QED
    BY <1>7, <1>t, <2>2, WriteAheadDropped DEF broadcast_delivered
<1>8. ASSUME NEW p \in Proc, start_reconcile(p) PROVE WriteAheadInv'
  <2>1. pending(mem[p]) \subseteq recorded(disk)
    BY <1>t, QueueFacts DEF WriteAheadInv, TypeOK
  <2> QED
    BY <1>8, <1>t, <2>1 DEF start_reconcile, Goto, TypeOK, WriteAheadInv, WriteAhead,
                            Known, CurStep, PassStep
<1>9. ASSUME NEW p \in Proc, NEW t \in Tx, read_confirmations(p, t) PROVE WriteAheadInv'
  BY <1>9, <1>t DEF read_confirmations, Goto, TypeOK, WriteAheadInv, WriteAhead, Known
<1>10. ASSUME NEW p \in Proc, read_sidecar(p) \/ rebroadcast_lost(p) \/ rebroadcast_rejected(p)
       PROVE  WriteAheadInv'
  BY <1>10, <1>t DEF read_sidecar, rebroadcast_lost, rebroadcast_rejected, Goto, TypeOK,
                     WriteAheadInv, WriteAhead, Known, CurStep, PassStep
<1>11. ASSUME NEW p \in Proc, rebroadcast_accepted(p) PROVE WriteAheadInv'
  <2>1. cur[p] \in Tx /\ cur[p] \in recorded(disk)
    BY <1>11, <1>t DEF rebroadcast_accepted, WriteAheadInv, TypeOK, SendStep, PassStep, CurStep
  <2>2. \A t \in Tx : (Known(t)' \/ t \in relayed') => t \in recorded(disk)
    BY <1>11, <1>t, <1>w, <2>1 DEF rebroadcast_accepted, Deliver, Known, TypeOK
  <2> QED
    BY <1>11, <1>t, <2>1, <2>2 DEF rebroadcast_accepted, Goto, TypeOK, WriteAheadInv,
                                   WriteAhead, CurStep, PassStep
<1>12. ASSUME NEW p \in Proc, mark_failed(p) PROVE WriteAheadInv'
  <2>1. cur[p] \in Tx /\ cur[p] \in recorded(disk)
    BY <1>12, <1>t DEF mark_failed, WriteAheadInv, TypeOK, SendStep, PassStep, CurStep
  <2>2. StatusUpdate(next_seq(mem[p]), cur[p], "Failed") \in Entry
    BY <1>t, <2>1, UpdateType DEF Status
  <2> QED
    BY <1>12, <1>t, <2>1, <2>2, WriteAheadAppend DEF mark_failed, Goto
<1>13. ASSUME NEW p \in Proc, update_status(p) PROVE WriteAheadInv'
  <2> DEFINE new == from_confirmations(confs[p])
  <2>1. cur[p] \in Tx /\ cur[p] \in recorded(disk)
    BY <1>13, <1>t DEF update_status, WriteAheadInv, TypeOK, SendStep, PassStep, CurStep
  <2>2. StatusUpdate(next_seq(mem[p]), cur[p], new) \in Entry
    BY <1>t, <2>1, UpdateType, EntryTypes DEF TypeOK
  <2>3. CASE latest_status(mem[p], cur[p]) # new
    BY <1>13, <1>t, <2>1, <2>2, <2>3, WriteAheadAppend DEF update_status, Goto
  <2>4. CASE latest_status(mem[p], cur[p]) = new
    BY <1>13, <1>t, <2>1, <2>4 DEF update_status, Goto, TypeOK, WriteAheadInv, WriteAhead,
                                   Known, CurStep, PassStep
  <2> QED
    BY <2>3, <2>4
<1>14. ASSUME NEW p \in Proc, remove_sidecar(p) \/ list_sidecars(p) \/ sweep_orphan(p)
       PROVE  WriteAheadInv'
  BY <1>14, <1>t DEF remove_sidecar, list_sidecars, sweep_orphan, Goto, TypeOK,
                     WriteAheadInv, WriteAhead, Known, CurStep, PassStep
<1>15. CASE MineBlock
  <2>1. PICK S \in SUBSET Minable :
               \E kicked \in SUBSET (InMempool \ S) : Block(S, kicked)
    BY <1>15 DEF MineBlock
  <2>2. PICK kicked \in SUBSET (InMempool \ S) : Block(S, kicked)
    BY <2>1
  <2>3. \A t \in Tx : Known(t)' => Known(t) \/ t \in relayed
    BY <1>t, <2>2 DEF Block, Minable, InMempool, Known, TypeOK
  <2> QED
    BY <1>t, <2>2, <2>3 DEF Block, WriteAheadInv, WriteAhead
<1>16. CASE Evict \/ Reorg
  <2>1. \A t \in Tx : Known(t)' => Known(t)
    <3>1. CASE Evict
      BY <3>1, <1>t DEF Evict, Known, TypeOK
    <3>2. CASE Reorg
      BY <3>2, <1>t DEF Reorg, Known, TypeOK
    <3> QED
      BY <1>16, <3>1, <3>2
  <2> QED
    BY <1>16, <1>t, <2>1 DEF Evict, Reorg, WriteAheadInv, WriteAhead
<1>17. CASE UNCHANGED vars
  BY <1>17, <1>t DEF vars, WriteAheadInv, WriteAhead, Known
<1> QED
  BY <1>1, <1>2, <1>3, <1>4, <1>5, <1>6, <1>7, <1>8, <1>9, <1>10, <1>11, <1>12,
     <1>13, <1>14, <1>15, <1>16, <1>17
     DEF Next, ProcNext, SendNext, PassNext

\* However many processes share the ledger and wherever they crash, nothing
\* reaches the network without a durable Sent entry (pay::send's ordering).
THEOREM WriteAheadHolds == Spec => []WriteAhead
<1>1. WriteAheadInv => WriteAhead
  BY DEF WriteAheadInv
<1> QED
  BY <1>1, WriteAheadInit, WriteAheadStep, PTL DEF Spec

-----------------------------------------------------------------------------
(* One writer: recovery, truthful refunds, truthful confirmations.         *)

\* One process uses the wallet at a time, the tip is not reorganised, and
\* miners see the mempool esplora sees.
SingleWriter ==
    /\ \A p, q \in Proc : p = q
    /\ MaxReorgs = 0
    /\ ~HiddenMempools

\* What the writer knows at each step.
WriterInv(p) ==
    /\ pc[p] # "idle" => mem[p] = disk
    /\ pc[p] \in SendStep => input[cur[p]] # Unsigned
    /\ pc[p] \in {"signed", "staged"} => latest_status(disk, cur[p]) = NoStatus
    /\ pc[p] = "staged" => cur[p] \in sidecars
    /\ pc[p] = "booked" => latest_status(disk, cur[p]) = "Pending"
    /\ pc[p] \in CurStep =>
        /\ cur[p] \notin queue[p]
        /\ confs[p] >= 1 => net[cur[p]] >= confs[p]
    /\ pc[p] \in {"limbo", "held", "dead", "status"} =>
           latest_status(disk, cur[p]) \notin Terminal
    /\ pc[p] = "dead" => ~Known(cur[p])
    /\ pc[p] = "failed" => latest_status(disk, cur[p]) = "Failed"
    /\ pc[p] = "settled" => confs[p] >= 1
    /\ \A t \in queue[p] : latest_status(disk, t) \notin Terminal
    /\ pc[p] = "sweep" => orphans[p] \cap recorded(disk) = {}

\* The strengthening of the three properties: the sidecar is needed until the
\* first confirmation, not only while the network has lost the transaction,
\* because an eviction may come at any time.
BookInv ==
    /\ \A t \in recorded(disk) : input[t] # Unsigned
    /\ \A t \in Tx : input[t] = Unsigned => latest_status(disk, t) = NoStatus
    /\ \A t \in recorded(disk) :
           latest_status(disk, t) \notin Terminal /\ net[t] <= 0 => t \in sidecars
    /\ FailedNeverMoved
    /\ BookedIsConfirmed

RecoveryInv ==
    /\ WriteAheadInv
    /\ \A p \in Proc : WriterInv(p)
    /\ BookInv

LEMMA RecoveryInit == Init => RecoveryInv
<1> SUFFICES ASSUME Init PROVE RecoveryInv
  OBVIOUS
<1>1. BookInv
  BY EmptyLedger DEF Init, BookInv, FailedNeverMoved, BookedIsConfirmed, NoStatus
<1>2. \A p \in Proc : WriterInv(p)
  BY DEF Init, WriterInv, SendStep, PassStep, CurStep
<1> QED
  BY <1>1, <1>2, WriteAheadInit DEF RecoveryInv

\* The ledger is dropped or the pass ends: nothing is left to know.
LEMMA WriterDropped ==
    ASSUME TypeOK, NEW p \in Proc, EndPass(p) \/ Dropped(p), disk' = disk,
           pc[p] # "idle" => mem[p] = disk, pc[p] # "idle"
    PROVE  WriterInv(p)'
<1>1. queue'[p] = {}
  BY DEF TypeOK, EndPass, Dropped
<1>2. pc'[p] = "idle" \/ (pc'[p] = "open" /\ mem'[p] = disk)
  BY DEF TypeOK, EndPass, Dropped, Goto
<1> QED
  BY <1>1, <1>2 DEF WriterInv, SendStep, PassStep, CurStep

\* An append of the writer changes the status of its entry's txid only.
LEMMA BookAppend ==
    ASSUME TypeOK, BookInv, NEW p \in Proc, NEW e \in Entry, append(p, e),
           UNCHANGED <<input, net, sidecars>>,
           input[e.txid] # Unsigned,
           e.status \notin Terminal /\ net[e.txid] <= 0 => e.txid \in sidecars,
           e.status = "Failed" => ~Known(e.txid),
           e.status = "Soft"   => net[e.txid] >= 1,
           e.status = "Final"  => net[e.txid] >= FinalDepth
    PROVE  BookInv'
<1>1. /\ recorded(disk') \subseteq recorded(disk) \cup {e.txid}
      /\ \A t : latest_status(disk', t) =
             IF t = e.txid THEN e.status ELSE latest_status(disk, t)
  BY AppendFolds
<1>2. \A t \in recorded(disk') : input'[t] # Unsigned
  BY <1>1 DEF BookInv
<1>3. \A t \in Tx : input'[t] = Unsigned => latest_status(disk', t) = NoStatus
  BY <1>1 DEF BookInv
<1>4. \A t \in recorded(disk') :
          latest_status(disk', t) \notin Terminal /\ net'[t] <= 0 => t \in sidecars'
  BY <1>1 DEF BookInv
<1>5. FailedNeverMoved'
  BY <1>1 DEF BookInv, FailedNeverMoved, Known
<1>6. BookedIsConfirmed'
  BY <1>1 DEF BookInv, BookedIsConfirmed
<1> QED
  BY <1>2, <1>3, <1>4, <1>5, <1>6 DEF BookInv

LEMMA NetRange ==
    ASSUME NEW f \in [Tx -> -1..MaxConfs], NEW t \in Tx
    PROVE  f[t] \in Int /\ f[t] <= MaxConfs
<1>1. f[t] \in -1..MaxConfs
  OBVIOUS
<1> QED
  BY <1>1, MaxConfsRange

LEMMA RecordedTx ==
    ASSUME NEW es \in Seq(Entry)
    PROVE  recorded(es) \subseteq Tx
<1>1. \A i \in 1..Len(es) : es[i] \in Entry
  OBVIOUS
<1>2. \A e \in Entry : e.txid \in Tx
  BY DEF Entry
<1> QED
  BY <1>1, <1>2, Zenon DEF recorded

\* The network moves: a confirmed transaction stays confirmed, and one the
\* ledger calls Failed does not come back.
LEMMA BookNet ==
    ASSUME TypeOK, TypeOK', BookInv, UNCHANGED <<disk, input, sidecars>>,
           \A t \in Tx : net[t] >= 1 => net'[t] >= net[t],
           \A t \in Tx : latest_status(disk, t) = "Failed" /\ ~Known(t) => ~Known(t)'
    PROVE  BookInv'
<1>1. \A t \in Tx : /\ net[t] \in Int /\ net[t] <= MaxConfs
                     /\ net'[t] \in Int /\ net'[t] <= MaxConfs
  <2>1. net \in [Tx -> -1..MaxConfs] /\ net' \in [Tx -> -1..MaxConfs]
    BY DEF TypeOK
  <2> QED
    BY <2>1, NetRange
<1>2. \A t \in recorded(disk) : t \in Tx
  BY RecordedTx DEF TypeOK
<1>3. \A t \in recorded(disk) :
          latest_status(disk, t) \notin Terminal /\ net'[t] <= 0 => t \in sidecars
  BY <1>1, <1>2 DEF BookInv
<1>4. FailedNeverMoved'
  BY DEF BookInv, FailedNeverMoved
<1>5. BookedIsConfirmed'
  BY <1>1 DEF BookInv, BookedIsConfirmed, FinalDepth
<1> QED
  BY <1>3, <1>4, <1>5 DEF BookInv

\* A delivered broadcast touches its own transaction only, and only if the
\* network did not know it.
LEMMA DeliverMoves ==
    ASSUME TypeOK, NEW t \in Tx, Deliver(t)
    PROVE  /\ \A u \in Tx : net[u] >= 0 => net'[u] = net[u]
           /\ \A u \in Tx : u # t => net'[u] = net[u]
<1>1. net \in [Tx -> -1..MaxConfs]
  BY DEF TypeOK
<1>2. CASE Known(t)
  BY <1>2 DEF Deliver
<1>3. CASE ~Known(t)
  BY <1>1, <1>3 DEF Deliver, Known
<1> QED
  BY <1>2, <1>3

\* A network step other than a reorganisation, when miners and esplora share
\* one mempool: nothing unknown appears and nothing confirmed goes away.
LEMMA ChainMoves ==
    ASSUME TypeOK, ~HiddenMempools, MineBlock \/ Evict
    PROVE  /\ \A t \in Tx : net[t] >= 1 => net'[t] >= net[t]
           /\ \A t \in Tx : ~Known(t) => ~Known(t)'
<1>1. \A t \in Tx : net[t] \in Int
  BY DEF TypeOK
<1>2. CASE MineBlock
  <2>1. PICK S \in SUBSET InMempool :
               \E kicked \in SUBSET (InMempool \ S) : Block(S, kicked)
    BY <1>2 DEF MineBlock, Minable
  <2>2. PICK kicked \in SUBSET (InMempool \ S) : Block(S, kicked)
    BY <2>1
  <2>3. ASSUME NEW t \in Tx
        PROVE  net'[t] = CASE t \in S -> 1
                           [] t \in kicked -> -1
                           [] net[t] \in 1..(MaxConfs - 1) -> net[t] + 1
                           [] OTHER -> net[t]
    BY <2>2 DEF Block
  <2>4. \A t \in Tx : t \in S \/ t \in kicked => net[t] = 0
    BY DEF InMempool
  <2> QED
    BY <1>1, <2>3, <2>4, MaxConfsRange DEF Known
<1>3. CASE Evict
  BY <1>1, <1>3 DEF Evict, InMempool, Known
<1> QED
  BY <1>2, <1>3

\* One step keeps the strengthened invariant.
LEMMA RecoveryStep ==
    ASSUME SingleWriter
    PROVE  RecoveryInv /\ [Next]_vars => RecoveryInv'
<1> SUFFICES ASSUME RecoveryInv, [Next]_vars
             PROVE  (\A q \in Proc : WriterInv(q)') /\ BookInv'
  BY WriteAheadStep DEF RecoveryInv
<1>t. TypeOK /\ TypeOK' /\ BookInv /\ \A q \in Proc : WriterInv(q)
  BY TypeStep DEF RecoveryInv, WriteAheadInv
<1>o. ASSUME NEW p \in Proc, WriterInv(p)' PROVE \A q \in Proc : WriterInv(q)'
  BY <1>o DEF SingleWriter
<1>b. ASSUME UNCHANGED <<disk, input, net, sidecars>> PROVE BookInv'
  BY <1>b, <1>t DEF BookInv, FailedNeverMoved, BookedIsConfirmed, Known
<1>n. \A t \in Tx : net[t] \in Int
  BY <1>t DEF TypeOK
<1>w. \A q \in Proc : pc[q] \in CurStep => cur[q] \in recorded(disk)
  BY DEF RecoveryInv, WriteAheadInv
<1> DEFINE Goal == (\A q \in Proc : WriterInv(q)') /\ BookInv'
<1> USE DEF files, chain, local
<1>1. ASSUME NEW p \in Proc, OpenLedger(p) PROVE Goal
  <2>1. WriterInv(p)'
    BY <1>1, <1>t DEF OpenLedger, Goto, TypeOK, WriterInv, SendStep, PassStep, CurStep
  <2> QED
    BY <1>1, <1>o, <1>b, <2>1 DEF OpenLedger
<1>2. ASSUME NEW p \in Proc, Close(p) \/ Crash(p) \/ broadcast_failed(p) PROVE Goal
  <2>1. WriterInv(p)'
    BY <1>2, <1>t, WriterDropped DEF Close, Crash, broadcast_failed, WriterInv
  <2> QED
    BY <1>2, <1>o, <1>b, <2>1 DEF Close, Crash, broadcast_failed
<1>3. ASSUME NEW p \in Proc, pass_error(p) \/ end_reconcile(p) PROVE Goal
  <2>1. WriterInv(p)'
    BY <1>3, <1>t, WriterDropped DEF pass_error, end_reconcile, WriterInv, PassStep
  <2> QED
    BY <1>3, <1>o, <1>b, <2>1 DEF pass_error, end_reconcile
<1>4. ASSUME NEW p \in Proc, build_signed(p) PROVE Goal
  <2>1. PICK t \in Tx, o \in Coin \cup Tx :
            /\ input[t] = Unsigned
            /\ input' = [input EXCEPT ![t] = o]
            /\ cur' = [cur EXCEPT ![p] = t]
    BY <1>4 DEF build_signed
  <2>2. o # Unsigned
    BY <2>1, ConstAssumption
  <2>3. WriterInv(p)'
    BY <1>4, <1>t, <2>1, <2>2
       DEF build_signed, Goto, TypeOK, WriterInv, BookInv, SendStep, PassStep, CurStep
  <2>4. BookInv'
    BY <1>4, <1>t, <2>1, <2>2
       DEF build_signed, TypeOK, BookInv, FailedNeverMoved, BookedIsConfirmed, Known
  <2> QED
    BY <1>o, <2>3, <2>4
<1>5. ASSUME NEW p \in Proc, write_sidecar(p) PROVE Goal
  <2>1. WriterInv(p)'
    BY <1>5, <1>t DEF write_sidecar, Goto, TypeOK, WriterInv, SendStep, PassStep, CurStep
  <2>2. BookInv'
    BY <1>5, <1>t DEF write_sidecar, BookInv, FailedNeverMoved, BookedIsConfirmed, Known
  <2> QED
    BY <1>o, <2>1, <2>2
<1>6. ASSUME NEW p \in Proc, append_sent(p) PROVE Goal
  <2> DEFINE e == Sent(next_seq(mem[p]), cur[p])
  <2>1. /\ cur[p] \in Tx /\ cur[p] \in sidecars /\ input[cur[p]] # Unsigned
        /\ mem[p] = disk
    BY <1>6, <1>t DEF append_sent, TypeOK, WriterInv, SendStep, PassStep
  <2>2. e \in Entry /\ e.txid = cur[p] /\ e.status = "Pending"
    BY <1>t, <2>1, SentType DEF Sent
  <2>3. append(p, e) /\ UNCHANGED <<input, net, sidecars, cur, queue, confs, orphans>>
    BY <1>6 DEF append_sent
  <2> HIDE DEF e
  <2>4. BookInv'
    BY <1>t, <2>1, <2>2, <2>3, BookAppend
  <2>5. latest_status(disk', cur[p]) = "Pending" /\ mem'[p] = disk'
    <3>1. latest_status(disk', cur[p]) = "Pending"
      BY <1>t, <2>2, <2>3, AppendFolds
    <3> QED
      BY <1>t, <2>1, <2>3, <3>1 DEF append, TypeOK
  <2>6. \A t \in queue[p] : latest_status(disk', t) \notin Terminal
    BY <1>t, <2>2, <2>3, AppendFolds, ZenonT(40) DEF WriterInv, Terminal
  <2>7. WriterInv(p)'
    BY <1>6, <1>t, <2>1, <2>3, <2>5, <2>6
       DEF append_sent, Goto, TypeOK, WriterInv, SendStep, PassStep, CurStep
  <2> QED
    BY <1>o, <2>4, <2>7
<1>7. ASSUME NEW p \in Proc, broadcast_delivered(p) PROVE Goal
  <2>1. cur[p] \in Tx /\ latest_status(disk, cur[p]) = "Pending"
    BY <1>7, <1>t DEF broadcast_delivered, TypeOK, WriterInv, SendStep, PassStep
  <2>2. WriterInv(p)'
    BY <1>7, <1>t, WriterDropped DEF broadcast_delivered, WriterInv
  <2>3. Deliver(cur[p]) /\ UNCHANGED <<disk, input, sidecars>>
    BY <1>7 DEF broadcast_delivered
  <2>4. BookInv'
    BY <1>n, <1>t, <2>1, <2>3, DeliverMoves, BookNet DEF Known
  <2> QED
    BY <1>o, <2>2, <2>4
<1>8. ASSUME NEW p \in Proc, start_reconcile(p) PROVE Goal
  <2>1. \A t \in pending(mem[p]) : latest_status(mem[p], t) \notin Terminal
    BY <1>t, QueueFacts DEF TypeOK
  <2>2. WriterInv(p)'
    BY <1>8, <1>t, <2>1
       DEF start_reconcile, Goto, TypeOK, WriterInv, SendStep, PassStep, CurStep
  <2> QED
    BY <1>8, <1>o, <1>b, <2>2 DEF start_reconcile
<1>9. ASSUME NEW p \in Proc, NEW t \in Tx, read_confirmations(p, t) PROVE Goal
  <2>1. confirmations(t) >= 1 => net[t] >= confirmations(t)
    BY <1>n DEF confirmations
  <2>2. WriterInv(p)'
    BY <1>9, <1>t, <2>1
       DEF read_confirmations, Goto, TypeOK, WriterInv, SendStep, PassStep, CurStep
  <2> QED
    BY <1>9, <1>o, <1>b, <2>2 DEF read_confirmations
<1>10. ASSUME NEW p \in Proc, read_sidecar(p) \/ rebroadcast_lost(p) \/ rebroadcast_rejected(p)
       PROVE  Goal
  <2>1. WriterInv(p)'
    BY <1>10, <1>t DEF read_sidecar, rebroadcast_lost, rebroadcast_rejected, Acceptable,
                       Known, Goto, TypeOK, WriterInv, SendStep, PassStep, CurStep
  <2> QED
    BY <1>10, <1>o, <1>b, <2>1 DEF read_sidecar, rebroadcast_lost, rebroadcast_rejected
<1>11. ASSUME NEW p \in Proc, rebroadcast_accepted(p) PROVE Goal
  <2>1. cur[p] \in Tx /\ latest_status(disk, cur[p]) \notin Terminal
    BY <1>11, <1>t DEF rebroadcast_accepted, TypeOK, WriterInv, SendStep, PassStep
  <2>2. Deliver(cur[p]) /\ UNCHANGED <<disk, input, sidecars, local>>
    BY <1>11 DEF rebroadcast_accepted
  <2>3. BookInv'
    BY <1>n, <1>t, <2>1, <2>2, DeliverMoves, BookNet DEF Known, Terminal
  <2>4. confs[p] >= 1 => net'[cur[p]] >= confs[p]
    <3>1. confs[p] \in Int /\ net[cur[p]] \in Int
      BY <1>n, <1>t, <2>1 DEF TypeOK
    <3>2. confs[p] >= 1 => net[cur[p]] >= confs[p]
      BY <1>11, <1>t DEF rebroadcast_accepted, WriterInv, CurStep, PassStep
    <3>3. net[cur[p]] >= 0 => net'[cur[p]] = net[cur[p]]
      BY <1>t, <2>1, <2>2, DeliverMoves
    <3> QED
      BY <3>1, <3>2, <3>3
  <2>5. WriterInv(p)'
    BY <1>11, <1>t, <2>1, <2>2, <2>4
       DEF rebroadcast_accepted, Goto, TypeOK, WriterInv, SendStep, PassStep, CurStep
  <2> QED
    BY <1>o, <2>3, <2>5
<1>12. ASSUME NEW p \in Proc, mark_failed(p) PROVE Goal
  <2> DEFINE e == StatusUpdate(next_seq(mem[p]), cur[p], "Failed")
  <2>1. /\ cur[p] \in Tx /\ ~Known(cur[p]) /\ mem[p] = disk
        /\ input[cur[p]] # Unsigned /\ cur[p] \notin queue[p]
    BY <1>12, <1>t, <1>w DEF mark_failed, TypeOK, WriterInv, BookInv, SendStep, PassStep, CurStep
  <2>2. e \in Entry /\ e.txid = cur[p] /\ e.status = "Failed"
    BY <1>t, <2>1, UpdateType DEF Status, StatusUpdate
  <2>3. append(p, e) /\ UNCHANGED <<input, net, sidecars, cur, queue, confs, orphans>>
    BY <1>12 DEF mark_failed
  <2> HIDE DEF e
  <2>4. BookInv'
    BY <1>t, <2>1, <2>2, <2>3, BookAppend DEF Terminal
  <2>5. latest_status(disk', cur[p]) = "Failed" /\ mem'[p] = disk'
    <3>1. latest_status(disk', cur[p]) = "Failed"
      BY <1>t, <2>2, <2>3, AppendFolds
    <3> QED
      BY <1>t, <2>1, <2>3, <3>1 DEF append, TypeOK
  <2>6. \A t \in queue[p] : latest_status(disk', t) \notin Terminal
    BY <1>t, <2>1, <2>2, <2>3, AppendFolds, ZenonT(40) DEF WriterInv
  <2>7. WriterInv(p)'
    BY <1>12, <1>t, <2>1, <2>3, <2>5, <2>6
       DEF mark_failed, Goto, TypeOK, WriterInv, SendStep, PassStep, CurStep
  <2> QED
    BY <1>o, <2>4, <2>7
<1>13. ASSUME NEW p \in Proc, update_status(p) PROVE Goal
  <2> DEFINE new == from_confirmations(confs[p])
             e == StatusUpdate(next_seq(mem[p]), cur[p], new)
  <2>1. /\ cur[p] \in Tx /\ mem[p] = disk
        /\ cur[p] \in recorded(disk) /\ cur[p] \notin queue[p]
        /\ confs[p] \in 0..MaxConfs
        /\ confs[p] >= 1 => net[cur[p]] >= confs[p]
        /\ latest_status(disk, cur[p]) \notin Terminal
    BY <1>13, <1>t, <1>w DEF update_status, TypeOK, WriterInv, SendStep, PassStep, CurStep
  <2>2. /\ new = "Pending" \/ (new = "Soft" /\ confs[p] >= 1) \/ (new = "Final" /\ confs[p] >= FinalDepth)
        /\ new \in Status
    BY <2>1 DEF from_confirmations, FinalDepth, Status
  <2>3. CASE latest_status(mem[p], cur[p]) # new
    <3>1. e \in Entry /\ e.txid = cur[p] /\ e.status = new
      BY <1>t, <2>1, <2>2, UpdateType DEF StatusUpdate
    <3>2. append(p, e) /\ UNCHANGED <<input, net, sidecars, cur, queue, confs, orphans>>
      BY <1>13, <2>3 DEF update_status
    <3>3. net[cur[p]] \in Int
      BY <1>t, <2>1, NetRange DEF TypeOK
    <3> HIDE DEF e, new
    <3>4. /\ input[cur[p]] # Unsigned
          /\ net[cur[p]] <= 0 => cur[p] \in sidecars
      BY <1>t, <2>1 DEF BookInv
    <3>5. /\ new = "Soft" => net[cur[p]] >= 1
          /\ new = "Final" => net[cur[p]] >= FinalDepth
          /\ new # "Failed"
      BY <2>1, <2>2, <3>3 DEF FinalDepth
    <3>6. BookInv'
      BY <1>t, <3>1, <3>2, <3>4, <3>5, BookAppend
    <3>7. mem'[p] = disk'
      BY <1>t, <2>1, <3>2 DEF append, TypeOK
    <3>8. \A t \in queue[p] : latest_status(disk', t) \notin Terminal
      BY <1>t, <2>1, <3>1, <3>2, AppendFolds, ZenonT(40) DEF WriterInv
    <3>9. WriterInv(p)'
      BY <1>13, <1>t, <2>1, <3>2, <3>7, <3>8
         DEF update_status, Goto, TypeOK, WriterInv, SendStep, PassStep, CurStep
    <3> QED
      BY <1>o, <3>6, <3>9
  <2>4. CASE latest_status(mem[p], cur[p]) = new
    <3>1. WriterInv(p)'
      BY <1>13, <1>t, <2>1, <2>4
         DEF update_status, Goto, TypeOK, WriterInv, SendStep, PassStep, CurStep
    <3> QED
      BY <1>13, <1>o, <1>b, <2>4, <3>1 DEF update_status
  <2> QED
    BY <2>3, <2>4
<1>14. ASSUME NEW p \in Proc, remove_sidecar(p) PROVE Goal
  <2>1. /\ cur[p] \in Tx
        /\ latest_status(disk, cur[p]) \in Terminal \/ net[cur[p]] >= 1
    <3>1. cur[p] \in Tx
      BY <1>14, <1>t DEF remove_sidecar, TypeOK, SendStep, PassStep
    <3>c. confs[p] \in Int
      BY <1>t DEF TypeOK
    <3>2. \/ latest_status(disk, cur[p]) = "Failed"
          \/ confs[p] >= 1 /\ net[cur[p]] >= confs[p]
      BY <1>14, <1>t DEF remove_sidecar, WriterInv, PassStep, CurStep
    <3> QED
      BY <1>n, <3>1, <3>2, <3>c DEF Terminal
  <2>2. \A t \in recorded(disk) :
            latest_status(disk, t) \notin Terminal /\ net[t] <= 0 => t # cur[p]
    BY <1>n, <2>1
  <2>3. BookInv'
    BY <1>14, <1>t, <2>2 DEF remove_sidecar, BookInv, FailedNeverMoved, BookedIsConfirmed, Known
  <2>4. WriterInv(p)'
    BY <1>14, <1>t DEF remove_sidecar, Goto, TypeOK, WriterInv, SendStep, PassStep, CurStep
  <2> QED
    BY <1>o, <2>3, <2>4
<1>15. ASSUME NEW p \in Proc, list_sidecars(p) PROVE Goal
  <2>1. WriterInv(p)'
    BY <1>15, <1>t DEF list_sidecars, Goto, TypeOK, WriterInv, SendStep, PassStep, CurStep
  <2> QED
    BY <1>15, <1>o, <1>b, <2>1 DEF list_sidecars
<1>16. ASSUME NEW p \in Proc, sweep_orphan(p) PROVE Goal
  <2>1. PICK t \in orphans[p] : /\ sidecars' = sidecars \ {t}
                                /\ orphans' = [orphans EXCEPT ![p] = @ \ {t}]
    BY <1>16 DEF sweep_orphan
  <2>2. t \notin recorded(disk)
    BY <1>16, <1>t DEF sweep_orphan, WriterInv
  <2>3. BookInv'
    BY <1>16, <1>t, <2>1, <2>2 DEF sweep_orphan, BookInv, FailedNeverMoved, BookedIsConfirmed, Known
  <2>4. WriterInv(p)'
    BY <1>16, <1>t, <2>1 DEF sweep_orphan, TypeOK, WriterInv, SendStep, PassStep, CurStep
  <2> QED
    BY <1>o, <2>3, <2>4
<1>17. CASE MineBlock \/ Evict
  <2>1. UNCHANGED <<disk, input, sidecars, pc, local>>
    BY <1>17 DEF MineBlock, Block, Evict
  <2>2. /\ \A t \in Tx : net[t] >= 1 => net'[t] >= net[t]
        /\ \A t \in Tx : ~Known(t) => ~Known(t)'
    BY <1>17, <1>t, ChainMoves DEF SingleWriter
  <2>3. BookInv'
    BY <1>t, <2>1, <2>2, BookNet
  <2>4. ASSUME NEW p \in Proc PROVE WriterInv(p)'
    <3>1. pc[p] \in CurStep => cur[p] \in Tx
      BY <1>t DEF TypeOK, CurStep, SendStep, PassStep
    <3>2. pc[p] \in CurStep /\ confs[p] >= 1 => net'[cur[p]] >= confs[p]
      <4>1. \A t \in Tx : net'[t] \in Int
        BY <1>t DEF TypeOK
      <4>2. confs[p] \in Int
        BY <1>t DEF TypeOK
      <4> QED
        BY <1>n, <1>t, <2>2, <3>1, <4>1, <4>2 DEF WriterInv
    <3>3. pc[p] = "dead" => ~Known(cur[p])'
      BY <1>t, <2>1, <2>2, <3>1 DEF WriterInv, CurStep, PassStep, Known
    <3> QED
      BY <1>t, <2>1, <3>2, <3>3 DEF WriterInv
  <2> QED
    BY <2>3, <2>4
<1>18. CASE Reorg
  BY <1>18, <1>t DEF Reorg, SingleWriter, TypeOK
<1>19. CASE UNCHANGED vars
  <2>1. \A q \in Proc : WriterInv(q)'
    BY <1>19, <1>t DEF vars, WriterInv, Known
  <2> QED
    BY <1>19, <1>b, <2>1 DEF vars
<1> QED
  BY <1>1, <1>2, <1>3, <1>4, <1>5, <1>6, <1>7, <1>8, <1>9, <1>10, <1>11, <1>12,
     <1>13, <1>14, <1>15, <1>16, <1>17, <1>18, <1>19
     DEF Next, ProcNext, SendNext, PassNext

\* The strengthened invariant gives the three properties.
LEMMA RecoveryGives ==
    ASSUME RecoveryInv
    PROVE  Recoverable /\ FailedNeverMoved /\ BookedIsConfirmed
<1>1. \A t \in recorded(disk) : t \in Tx /\ net[t] \in Int
  BY RecordedTx DEF RecoveryInv, WriteAheadInv, TypeOK
<1>2. Recoverable
  BY <1>1 DEF RecoveryInv, BookInv, Recoverable, Known
<1> QED
  BY <1>2 DEF RecoveryInv, BookInv

LEMMA RecoveryAlways == ASSUME SingleWriter PROVE Spec => []RecoveryInv
BY RecoveryInit, RecoveryStep, PTL DEF Spec

\* With one writer a payment that is not settled can always be rebroadcast:
\* wherever the process dies between the steps of pay::send and of
\* ledger::reconcile, the signed transaction of a payment the network has lost
\* is still in its sidecar.
THEOREM RecoverableHolds == ASSUME SingleWriter PROVE Spec => []Recoverable
BY RecoveryAlways, RecoveryGives, PTL

\* With one writer a send that reconcile marks Failed, and that the balance
\* gives back, is never on the network, then or later.
THEOREM FailedNeverMovedHolds ==
    ASSUME SingleWriter PROVE Spec => []FailedNeverMoved
BY RecoveryAlways, RecoveryGives, PTL

\* With one writer Soft and Final never claim more confirmations than the chain
\* has, although the count was read some steps before it is booked.
THEOREM BookedIsConfirmedHolds ==
    ASSUME SingleWriter PROVE Spec => []BookedIsConfirmed
BY RecoveryAlways, RecoveryGives, PTL

-----------------------------------------------------------------------------
(* What a step can do to the file and to the network.                      *)

\* Only three steps write to the ledger file, each one entry with the number of
\* the writer's view: pay::send's Sent, reconcile's Failed and reconcile's
\* status from a confirmation count.
LEMMA DiskStep ==
    ASSUME TypeOK, [Next]_vars
    PROVE  \/ disk' = disk
           \/ /\ UNCHANGED <<input, net>>
              /\ \E p \in Proc : \E e \in Entry :
                  /\ append(p, e) /\ cur[p] \in Tx
                  /\ e.txid = cur[p] /\ e.seq = next_seq(mem[p])
                  /\ \/ pc[p] = "staged" /\ e.kind = "Sent" /\ e.status = "Pending"
                     \/ pc[p] = "dead" /\ e.kind = "StatusUpdate" /\ e.status = "Failed"
                     \/ /\ pc[p] = "status" /\ e.kind = "StatusUpdate"
                        /\ e.status = from_confirmations(confs[p])
<1> USE DEF files, chain, local
<1> DEFINE Written == /\ UNCHANGED <<input, net>>
                      /\ \E p \in Proc : \E e \in Entry :
                          /\ append(p, e) /\ cur[p] \in Tx
                          /\ e.txid = cur[p] /\ e.seq = next_seq(mem[p])
                          /\ \/ pc[p] = "staged" /\ e.kind = "Sent" /\ e.status = "Pending"
                             \/ pc[p] = "dead" /\ e.kind = "StatusUpdate" /\ e.status = "Failed"
                             \/ /\ pc[p] = "status" /\ e.kind = "StatusUpdate"
                                /\ e.status = from_confirmations(confs[p])
<1>1. ASSUME NEW p \in Proc,
             OpenLedger(p) \/ Close(p) \/ Crash(p) \/ build_signed(p) \/ write_sidecar(p)
             \/ broadcast_delivered(p) \/ broadcast_failed(p) \/ start_reconcile(p)
             \/ (\E t \in Tx : read_confirmations(p, t)) \/ pass_error(p) \/ read_sidecar(p)
             \/ rebroadcast_accepted(p) \/ rebroadcast_lost(p) \/ rebroadcast_rejected(p)
             \/ remove_sidecar(p) \/ list_sidecars(p) \/ sweep_orphan(p) \/ end_reconcile(p)
      PROVE  disk' = disk
  BY <1>1 DEF OpenLedger, Close, Crash, build_signed, write_sidecar, broadcast_delivered,
              broadcast_failed, start_reconcile, read_confirmations, pass_error, read_sidecar,
              rebroadcast_accepted, rebroadcast_lost, rebroadcast_rejected, remove_sidecar,
              list_sidecars, sweep_orphan, end_reconcile
<1>2. ASSUME NEW p \in Proc, append_sent(p) PROVE Written
  <2> DEFINE e == Sent(next_seq(mem[p]), cur[p])
  <2>1. cur[p] \in Tx /\ pc[p] = "staged"
    BY <1>2 DEF append_sent, TypeOK, SendStep, PassStep
  <2>2. e \in Entry /\ e.txid = cur[p] /\ e.seq = next_seq(mem[p]) /\ e.kind = "Sent"
        /\ e.status = "Pending"
    BY <2>1, SentType DEF Sent
  <2>3. append(p, e) /\ UNCHANGED <<input, net>>
    BY <1>2 DEF append_sent
  <2> HIDE DEF e
  <2> QED
    BY <2>1, <2>2, <2>3
<1>3. ASSUME NEW p \in Proc, mark_failed(p) PROVE Written
  <2> DEFINE e == StatusUpdate(next_seq(mem[p]), cur[p], "Failed")
  <2>1. cur[p] \in Tx /\ pc[p] = "dead"
    BY <1>3 DEF mark_failed, TypeOK, SendStep, PassStep
  <2>2. e \in Entry /\ e.txid = cur[p] /\ e.seq = next_seq(mem[p]) /\ e.kind = "StatusUpdate"
        /\ e.status = "Failed"
    BY <2>1, UpdateType DEF StatusUpdate, Status
  <2>3. append(p, e) /\ UNCHANGED <<input, net>>
    BY <1>3 DEF mark_failed
  <2> HIDE DEF e
  <2> QED
    BY <2>1, <2>2, <2>3
<1>4. ASSUME NEW p \in Proc, update_status(p) PROVE disk' = disk \/ Written
  <2> DEFINE new == from_confirmations(confs[p])
             e == StatusUpdate(next_seq(mem[p]), cur[p], new)
  <2>1. cur[p] \in Tx /\ pc[p] = "status" /\ new \in Status
    BY <1>4, EntryTypes DEF update_status, TypeOK, SendStep, PassStep
  <2>2. CASE latest_status(mem[p], cur[p]) # new
    <3>1. e \in Entry /\ e.txid = cur[p] /\ e.seq = next_seq(mem[p])
          /\ e.kind = "StatusUpdate" /\ e.status = new
      BY <2>1, UpdateType DEF StatusUpdate
    <3>2. append(p, e) /\ UNCHANGED <<input, net>>
      BY <1>4, <2>2 DEF update_status
    <3> HIDE DEF e
    <3> QED
      BY <2>1, <3>1, <3>2
  <2>3. CASE latest_status(mem[p], cur[p]) = new
    BY <1>4, <2>3 DEF update_status
  <2> QED
    BY <2>2, <2>3
<1>5. CASE MineBlock \/ Evict \/ Reorg \/ UNCHANGED vars
  BY <1>5 DEF MineBlock, Block, Evict, Reorg, vars
<1> QED
  BY <1>1, <1>2, <1>3, <1>4, <1>5 DEF Next, ProcNext, SendNext, PassNext

\* A confirmed transaction loses a confirmation to a replaced block only: blocks
\* take what has no confirmations, evictions what is in the mempool, and a
\* broadcast of a known transaction changes nothing.
LEMMA ConfirmedKept ==
    ASSUME TypeOK, [Next]_vars, NEW t \in Tx, net[t] >= 1
    PROVE  \/ net'[t] >= net[t] /\ reorgs' = reorgs
           \/ net'[t] = net[t] - 1 /\ reorgs' = reorgs + 1
<1> USE DEF files, chain, local
<1>n. net \in [Tx -> -1..MaxConfs] /\ net[t] \in Int /\ reorgs \in Nat
  BY MaxConfsRange DEF TypeOK
<1>1. ASSUME NEW p \in Proc, Deliver(cur[p]), cur[p] \in Tx
      PROVE  net'[t] = net[t]
  BY <1>1, <1>n, DeliverMoves
<1>2. ASSUME NEW p \in Proc, ProcNext(p)
      PROVE  /\ UNCHANGED net \/ (Deliver(cur[p]) /\ cur[p] \in Tx)
             /\ UNCHANGED reorgs
  BY <1>2 DEF ProcNext, SendNext, PassNext, OpenLedger, Close, Crash, build_signed,
              write_sidecar, append_sent, broadcast_delivered, broadcast_failed,
              start_reconcile, read_confirmations, pass_error, read_sidecar,
              rebroadcast_accepted, rebroadcast_lost, rebroadcast_rejected, mark_failed,
              update_status, remove_sidecar, list_sidecars, sweep_orphan, end_reconcile,
              TypeOK, SendStep, PassStep
<1>3. ASSUME NEW p \in Proc, ProcNext(p) PROVE net'[t] >= net[t] /\ reorgs' = reorgs
  <2>1. net'[t] = net[t]
    BY <1>1, <1>2, <1>3
  <2> QED
    BY <1>2, <1>3, <1>n, <2>1
<1>4. CASE MineBlock
  <2>1. PICK S \in SUBSET Minable :
               \E kicked \in SUBSET (InMempool \ S) : Block(S, kicked)
    BY <1>4 DEF MineBlock
  <2>2. PICK kicked \in SUBSET (InMempool \ S) : Block(S, kicked)
    BY <2>1
  <2>3. t \notin S /\ t \notin kicked
    BY <1>n, <2>2 DEF Minable, InMempool
  <2>4. net'[t] = IF net[t] \in 1..(MaxConfs - 1) THEN net[t] + 1 ELSE net[t]
    BY <2>2, <2>3 DEF Block
  <2> QED
    BY <1>n, <2>2, <2>4 DEF Block
<1>5. CASE Evict
  BY <1>5, <1>n DEF Evict, InMempool
<1>6. CASE Reorg
  BY <1>6 DEF Reorg
<1>7. CASE UNCHANGED vars
  BY <1>7, <1>n DEF vars
<1> QED
  BY <1>3, <1>4, <1>5, <1>6, <1>7 DEF Next

-----------------------------------------------------------------------------
(* The delivery gate, for any number of processes, reorganisations and     *)
(* hidden mempools.                                                        *)

LEMMA ReorgsMove ==
    ASSUME TypeOK, [Next]_vars
    PROVE  reorgs' \in {reorgs, reorgs + 1}
<1> USE DEF files, chain, local
<1>1. ASSUME NEW p \in Proc, ProcNext(p) PROVE UNCHANGED reorgs
  BY <1>1 DEF ProcNext, SendNext, PassNext, OpenLedger, Close, Crash, build_signed,
              write_sidecar, append_sent, broadcast_delivered, broadcast_failed,
              start_reconcile, read_confirmations, pass_error, read_sidecar,
              rebroadcast_accepted, rebroadcast_lost, rebroadcast_rejected, mark_failed,
              update_status, remove_sidecar, list_sidecars, sweep_orphan, end_reconcile
<1>2. CASE MineBlock \/ Evict \/ Reorg \/ UNCHANGED vars
  BY <1>2 DEF MineBlock, Block, Evict, Reorg, vars
<1> QED
  BY <1>1, <1>2 DEF Next

\* Three confirmations, less the replaced blocks.
Deep(n, r) == r < FinalDepth => n >= FinalDepth - r

LEMMA BuriedStays ==
    ASSUME TypeOK, [Next]_vars, NEW t \in Tx, Deep(net[t], reorgs)
    PROVE  Deep(net'[t], reorgs')
<1>1. reorgs \in Nat /\ net[t] \in Int
  BY MaxConfsRange DEF TypeOK
<1>2. CASE reorgs < FinalDepth
  <2>1. net[t] >= 1
    BY <1>1, <1>2 DEF Deep, FinalDepth
  <2>2. \/ net'[t] >= net[t] /\ reorgs' = reorgs
        \/ net'[t] = net[t] - 1 /\ reorgs' = reorgs + 1
    BY <2>1, ConfirmedKept
  <2> QED
    <3>1. net[t] >= 3 - reorgs
      BY <1>2 DEF Deep, FinalDepth
    <3>2. net'[t] \in Int
      BY TypeStep, MaxConfsRange DEF TypeOK
    <3> QED
      BY <1>1, <2>2, <3>1, <3>2 DEF Deep, FinalDepth
<1>3. CASE ~(reorgs < FinalDepth)
  <2>1. reorgs' \in {reorgs, reorgs + 1}
    BY ReorgsMove
  <2> QED
    BY <1>1, <1>3, <2>1 DEF Deep, FinalDepth
<1> QED
  BY <1>2, <1>3

\* The strengthening of FinalIsBuried: a count that calls for Final has fallen by
\* no more than the replaced blocks when it is booked, however long ago a pass
\* has read it.
GateInv ==
    /\ TypeOK
    /\ FinalIsBuried
    /\ \A p \in Proc : pc[p] \in CurStep /\ confs[p] >= FinalDepth
                       => Deep(net[cur[p]], reorgs)

LEMMA GateStep == GateInv /\ [Next]_vars => GateInv'
<1> SUFFICES ASSUME GateInv, [Next]_vars PROVE GateInv'
  OBVIOUS
<1> USE DEF files, chain, local
<1>t. TypeOK /\ TypeOK'
  BY TypeStep DEF GateInv
<1>b. \A t \in Tx : Deep(net[t], reorgs) => Deep(net'[t], reorgs')
  BY <1>t, BuriedStays
<1>g. \A p \in Proc : pc[p] \in CurStep => cur[p] \in Tx
  BY <1>t DEF TypeOK, CurStep, SendStep, PassStep
<1>1. FinalIsBuried'
  <2>1. CASE disk' = disk
    <3>1. \A t \in Tx : latest_status(disk, t) = "Final" => Deep(net[t], reorgs)
      BY DEF GateInv, FinalIsBuried, Deep
    <3>2. \A t \in Tx : latest_status(disk', t) = "Final" => Deep(net'[t], reorgs')
      BY <1>b, <2>1, <3>1
    <3> QED
      BY <3>2 DEF FinalIsBuried, Deep
  <2>2. ASSUME NEW p \in Proc, NEW e \in Entry, append(p, e), cur[p] \in Tx, e.txid = cur[p],
               e.status # "Final" \/ (pc[p] = "status" /\ e.status = from_confirmations(confs[p]))
        PROVE  FinalIsBuried'
    <3>1. \A t : latest_status(disk', t) = IF t = cur[p] THEN e.status ELSE latest_status(disk, t)
      BY <1>t, <2>2, AppendFolds
    <3>2. e.status = "Final" => Deep(net'[cur[p]], reorgs')
      <4> SUFFICES ASSUME e.status = "Final" PROVE Deep(net'[cur[p]], reorgs')
        OBVIOUS
      <4>1. confs[p] >= FinalDepth
        <5>1. confs[p] \in Nat
          BY <1>t DEF TypeOK
        <5>2. from_confirmations(confs[p]) = "Final"
          BY <2>2
        <5> QED
          BY <5>1, <5>2 DEF from_confirmations, FinalDepth
      <4>2. Deep(net[cur[p]], reorgs)
        BY <2>2, <4>1 DEF GateInv, CurStep, PassStep
      <4> QED
        BY <1>b, <2>2, <4>2
    <3>3. \A t \in Tx : latest_status(disk, t) = "Final" => Deep(net'[t], reorgs')
      BY <1>b DEF GateInv, FinalIsBuried, Deep
    <3> QED
      BY <3>1, <3>2, <3>3 DEF FinalIsBuried, Deep
  <2> QED
    BY <1>t, <2>1, <2>2, DiskStep
<1>2. ASSUME NEW q \in Proc, pc'[q] = pc[q] \/ pc'[q] \notin CurStep \/ pc[q] \in CurStep,
             cur'[q] = cur[q] \/ pc'[q] \notin CurStep, confs'[q] = confs[q] \/ pc'[q] \notin CurStep
      PROVE  pc'[q] \in CurStep /\ confs'[q] >= FinalDepth => Deep(net'[cur'[q]], reorgs')
  BY <1>2, <1>b, <1>g DEF GateInv
<1>3. ASSUME NEW p \in Proc, NEW t \in Tx, read_confirmations(p, t), NEW q \in Proc
      PROVE  pc'[q] \in CurStep /\ confs'[q] >= FinalDepth => Deep(net'[cur'[q]], reorgs')
  <2>1. CASE q = p
    <3>1. net[t] \in Int /\ reorgs \in Nat
      BY <1>t, MaxConfsRange DEF TypeOK
    <3>2. /\ cur'[q] = t /\ confs'[q] = confirmations(t)
          /\ UNCHANGED <<net, reorgs>>
      BY <1>3, <1>t, <2>1 DEF read_confirmations, TypeOK
    <3> QED
      BY <3>1, <3>2 DEF confirmations, Deep, FinalDepth
  <2>2. CASE q # p
    BY <1>2, <1>3, <1>t, <2>2 DEF read_confirmations, Goto, TypeOK
  <2> QED
    BY <2>1, <2>2
<1>4. ASSUME NEW p \in Proc, EndPass(p) \/ Dropped(p), NEW q \in Proc
      PROVE  pc'[q] \in CurStep /\ confs'[q] >= FinalDepth => Deep(net'[cur'[q]], reorgs')
  <2>1. CASE q = p
    <3>1. pc'[q] \notin CurStep
      BY <1>4, <1>t, <2>1 DEF EndPass, Dropped, Goto, TypeOK, CurStep, PassStep
    <3> QED
      BY <3>1
  <2>2. CASE q # p
    BY <1>2, <1>4, <1>t, <2>2, SMTT(30) DEF EndPass, Dropped, Goto, TypeOK
  <2> QED
    BY <2>1, <2>2
<1>5. ASSUME NEW p \in Proc,
             OpenLedger(p) \/ build_signed(p) \/ write_sidecar(p) \/ append_sent(p)
             \/ start_reconcile(p) \/ read_sidecar(p) \/ rebroadcast_accepted(p)
             \/ rebroadcast_lost(p) \/ rebroadcast_rejected(p) \/ mark_failed(p)
             \/ update_status(p) \/ remove_sidecar(p) \/ list_sidecars(p) \/ sweep_orphan(p),
             NEW q \in Proc
      PROVE  pc'[q] \in CurStep /\ confs'[q] >= FinalDepth => Deep(net'[cur'[q]], reorgs')
  <2> DEFINE Kept == /\ pc'[q] = pc[q] \/ pc'[q] \notin CurStep \/ pc[q] \in CurStep
                     /\ cur'[q] = cur[q] \/ pc'[q] \notin CurStep
                     /\ confs'[q] = confs[q]
  <2>1. ASSUME OpenLedger(p) \/ build_signed(p) \/ write_sidecar(p) \/ append_sent(p)
               \/ start_reconcile(p) \/ list_sidecars(p) \/ sweep_orphan(p)
        PROVE  Kept
    <3>1. CASE q = p
      BY <1>t, <2>1, <3>1
         DEF OpenLedger, build_signed, write_sidecar, append_sent, start_reconcile,
             list_sidecars, sweep_orphan, Goto, TypeOK, CurStep, PassStep
    <3>2. CASE q # p
      BY <1>t, <2>1, <3>2
         DEF OpenLedger, build_signed, write_sidecar, append_sent, start_reconcile,
             list_sidecars, sweep_orphan, Goto, TypeOK
    <3> QED
      BY <3>1, <3>2
  <2>2. ASSUME read_sidecar(p) \/ rebroadcast_accepted(p) \/ rebroadcast_lost(p)
               \/ rebroadcast_rejected(p) \/ mark_failed(p) \/ update_status(p)
               \/ remove_sidecar(p)
        PROVE  Kept
    <3>1. pc[p] \in CurStep
      BY <2>2 DEF read_sidecar, rebroadcast_accepted, rebroadcast_lost, rebroadcast_rejected,
                  mark_failed, update_status, remove_sidecar, CurStep, PassStep
    <3>2. /\ q # p => pc'[q] = pc[q]
          /\ cur' = cur /\ confs' = confs
      BY <1>t, <2>2
         DEF read_sidecar, rebroadcast_accepted, rebroadcast_lost, rebroadcast_rejected,
             mark_failed, update_status, remove_sidecar, Goto, TypeOK
    <3> QED
      BY <3>1, <3>2
  <2> QED
    BY <1>2, <1>5, <2>1, <2>2
<1>6. ASSUME MineBlock \/ Evict \/ Reorg \/ UNCHANGED vars, NEW q \in Proc
      PROVE  pc'[q] \in CurStep /\ confs'[q] >= FinalDepth => Deep(net'[cur'[q]], reorgs')
  BY <1>2, <1>6 DEF MineBlock, Block, Evict, Reorg, vars
<1>7. \A q \in Proc : pc'[q] \in CurStep /\ confs'[q] >= FinalDepth => Deep(net'[cur'[q]], reorgs')
  BY <1>3, <1>4, <1>5, <1>6
     DEF Next, ProcNext, SendNext, PassNext, Close, Crash, broadcast_delivered,
         broadcast_failed, pass_error, end_reconcile
<1> QED
  BY <1>1, <1>7, <1>t DEF GateInv

\* Whatever number of processes reconcile one ledger, in whatever order they
\* read counts and write them down, and whatever blocks are replaced meanwhile,
\* a payment the file calls Final has three confirmations less the replaced
\* blocks (Status::from_confirmations of a count read earlier).
THEOREM FinalIsBuriedHolds == Spec => []FinalIsBuried
<1>1. Init => GateInv
  <2> SUFFICES ASSUME Init PROVE GateInv
    OBVIOUS
  <2>1. TypeOK
    BY WriteAheadInit DEF WriteAheadInv
  <2>2. FinalIsBuried
    BY EmptyLedger DEF Init, FinalIsBuried, NoStatus
  <2> QED
    BY <2>1, <2>2 DEF Init, GateInv, CurStep, PassStep
<1>2. GateInv => FinalIsBuried
  BY DEF GateInv
<1> QED
  BY <1>1, <1>2, GateStep, PTL DEF Spec

-----------------------------------------------------------------------------
(* One process at a time, whatever the chain does: terminal statuses and   *)
(* sequence numbers.                                                       *)

\* One process uses the wallet at a time.
OneWriter == \A p, q \in Proc : p = q

\* What the process has in memory is the file, what it works on and what it has
\* queued is not terminal, and what it has signed is not booked yet.
ViewOf(p) ==
    /\ pc[p] # "idle" => mem[p] = disk
    /\ pc[p] \in {"signed", "staged"} =>
           latest_status(disk, cur[p]) = NoStatus /\ input[cur[p]] # Unsigned
    /\ pc[p] \in CurStep => cur[p] \notin queue[p]
    /\ pc[p] \in {"limbo", "held", "dead", "status"} =>
           latest_status(disk, cur[p]) \notin Terminal
    /\ \A t \in queue[p] : latest_status(disk, t) \notin Terminal

\* The strengthening of SeqIncreases and TerminalForever.
ViewInv ==
    /\ WriteAheadInv
    /\ \A t \in recorded(disk) : input[t] # Unsigned
    /\ \A t \in Tx : input[t] = Unsigned => latest_status(disk, t) = NoStatus
    /\ SeqIncreases
    /\ \A p \in Proc : ViewOf(p)

LEMMA ViewInit == Init => ViewInv
<1> SUFFICES ASSUME Init PROVE ViewInv
  OBVIOUS
<1>1. SeqIncreases
  BY DEF Init, SeqIncreases
<1>2. \A p \in Proc : ViewOf(p)
  BY DEF Init, ViewOf, CurStep, PassStep
<1> QED
  BY <1>1, <1>2, WriteAheadInit, EmptyLedger DEF Init, ViewInv

\* The process writes an entry and goes on with a step that does not look at
\* the status of cur again, or has written no terminal status.
LEMMA ViewAppend ==
    ASSUME OneWriter, ViewInv, NEW p \in Proc, NEW e \in Entry, append(p, e),
           pc[p] # "idle", cur[p] \in Tx, e.txid = cur[p], e.seq = next_seq(mem[p]),
           input[cur[p]] # Unsigned,
           UNCHANGED <<input, cur, queue>>, WriteAheadInv',
           cur[p] \notin queue[p] \/ e.status \notin Terminal,
           pc'[p] \in {"booked", "failed", "settled", "next"},
           pc'[p] \in CurStep => cur[p] \notin queue[p]
    PROVE  ViewInv'
<1>t. TypeOK
  BY DEF ViewInv, WriteAheadInv
<1>1. /\ recorded(disk') \subseteq recorded(disk) \cup {cur[p]}
      /\ \A t : latest_status(disk', t) = IF t = cur[p] THEN e.status ELSE latest_status(disk, t)
  BY <1>t, AppendFolds
<1>2. mem[p] = disk
  BY DEF ViewInv, ViewOf
<1>3. SeqIncreases'
  <2>1. disk' = Append(disk, e) /\ disk \in Seq(Entry)
    BY <1>t DEF append, TypeOK
  <2>2. \A x \in Entry : x.seq \in Nat
    BY DEF Entry
  <2>3. e.seq = next_seq(disk)
    BY <1>2
  <2>4. \A i \in 1..Len(disk) : \A j \in 1..(i - 1) : disk[j].seq < disk[i].seq
    BY DEF ViewInv, SeqIncreases
  <2> QED
    BY <2>1, <2>2, <2>3, <2>4, SeqAppend DEF SeqIncreases
<1>4. mem'[p] = disk'
  BY <1>t, <1>2 DEF append, TypeOK
<1>5. \A t \in queue[p] : latest_status(disk', t) \notin Terminal
  BY <1>1 DEF ViewInv, ViewOf
<1>6. ViewOf(p)'
  BY <1>4, <1>5 DEF ViewOf
<1>7. \A q \in Proc : ViewOf(q)'
  BY <1>6 DEF OneWriter
<1> QED
  BY <1>1, <1>3, <1>7 DEF ViewInv

LEMMA ViewStep == ASSUME OneWriter PROVE ViewInv /\ [Next]_vars => ViewInv'
<1> SUFFICES ASSUME ViewInv, [Next]_vars PROVE ViewInv'
  OBVIOUS
<1> USE DEF files, chain, local
<1>w. WriteAheadInv /\ WriteAheadInv' /\ TypeOK
  BY WriteAheadStep DEF ViewInv, WriteAheadInv
<1>c. \A q \in Proc : pc[q] \in CurStep => cur[q] \in recorded(disk) /\ cur[q] \in Tx
  BY <1>w DEF WriteAheadInv, TypeOK, CurStep, SendStep, PassStep
<1>o. ASSUME NEW p \in Proc, ViewOf(p)', UNCHANGED <<disk, input>> PROVE ViewInv'
  <2>1. \A q \in Proc : ViewOf(q)'
    BY <1>o DEF OneWriter
  <2> QED
    BY <1>w, <1>o, <2>1 DEF ViewInv, SeqIncreases
<1>1. ASSUME NEW p \in Proc, OpenLedger(p) PROVE ViewInv'
  <2>1. ViewOf(p)'
    BY <1>1, <1>w DEF OpenLedger, Goto, TypeOK, ViewInv, ViewOf, CurStep, PassStep
  <2> QED
    BY <1>1, <1>o, <2>1 DEF OpenLedger
<1>2. ASSUME NEW p \in Proc, pc[p] # "idle", EndPass(p) \/ Dropped(p), UNCHANGED <<disk, input>>
      PROVE  ViewInv'
  <2>1. queue'[p] = {}
    BY <1>2, <1>w DEF TypeOK, EndPass, Dropped
  <2>2. pc'[p] = "idle" \/ (pc'[p] = "open" /\ mem'[p] = disk)
    BY <1>2, <1>w DEF TypeOK, EndPass, Dropped, Goto, ViewInv, ViewOf
  <2>3. ViewOf(p)'
    BY <1>2, <2>1, <2>2 DEF ViewOf, CurStep, PassStep
  <2> QED
    BY <1>2, <1>o, <2>3
<1>3. ASSUME NEW p \in Proc,
             Close(p) \/ Crash(p) \/ broadcast_delivered(p) \/ broadcast_failed(p)
             \/ pass_error(p) \/ end_reconcile(p)
      PROVE  ViewInv'
  BY <1>2, <1>3 DEF Close, Crash, broadcast_delivered, broadcast_failed, pass_error,
                    end_reconcile, PassStep
<1>4. ASSUME NEW p \in Proc, build_signed(p) PROVE ViewInv'
  <2>1. PICK t \in Tx, o \in Coin \cup Tx :
            /\ input[t] = Unsigned
            /\ input' = [input EXCEPT ![t] = o]
            /\ cur' = [cur EXCEPT ![p] = t]
    BY <1>4 DEF build_signed
  <2>2. o # Unsigned
    BY <2>1, ConstAssumption
  <2>3. ViewOf(p)'
    BY <1>4, <1>w, <2>1, <2>2
       DEF build_signed, Goto, TypeOK, ViewInv, ViewOf, CurStep, PassStep
  <2>4. disk' = disk /\ \A u \in Tx : u # t => input'[u] = input[u]
    BY <1>4, <1>w, <2>1 DEF build_signed, TypeOK
  <2>5. input'[t] # Unsigned
    BY <1>w, <2>1, <2>2 DEF TypeOK
  <2>6. recorded(disk) \subseteq Tx
    BY <1>w, RecordedTx DEF TypeOK
  <2>7. \A q \in Proc : ViewOf(q)'
    BY <2>3 DEF OneWriter
  <2>8. SeqIncreases'
    BY <2>4 DEF ViewInv, SeqIncreases
  <2> QED
    BY <1>w, <2>4, <2>5, <2>6, <2>7, <2>8 DEF ViewInv
<1>5. ASSUME NEW p \in Proc, write_sidecar(p) PROVE ViewInv'
  <2>1. ViewOf(p)'
    BY <1>5, <1>w DEF write_sidecar, Goto, TypeOK, ViewInv, ViewOf, CurStep, PassStep
  <2> QED
    BY <1>5, <1>o, <2>1 DEF write_sidecar
<1>6. ASSUME NEW p \in Proc, append_sent(p) PROVE ViewInv'
  <2> DEFINE e == Sent(next_seq(mem[p]), cur[p])
  <2>1. cur[p] \in Tx /\ input[cur[p]] # Unsigned
    BY <1>6, <1>w DEF append_sent, TypeOK, ViewInv, ViewOf, SendStep, PassStep
  <2>2. e \in Entry /\ e.txid = cur[p] /\ e.seq = next_seq(mem[p]) /\ e.status \notin Terminal
    BY <1>w, <2>1, SentType DEF Sent, Terminal
  <2>3. /\ append(p, e) /\ UNCHANGED <<input, cur, queue>>
        /\ pc[p] # "idle" /\ pc'[p] = "booked" /\ "booked" \notin CurStep
    BY <1>6, <1>w DEF append_sent, Goto, TypeOK, CurStep, PassStep
  <2> HIDE DEF e
  <2> QED
    BY <1>w, <2>1, <2>2, <2>3, ViewAppend
<1>7. ASSUME NEW p \in Proc, start_reconcile(p) PROVE ViewInv'
  <2>1. \A t \in pending(mem[p]) : latest_status(mem[p], t) \notin Terminal
    BY <1>w, QueueFacts DEF TypeOK
  <2>2. ViewOf(p)'
    BY <1>7, <1>w, <2>1 DEF start_reconcile, Goto, TypeOK, ViewInv, ViewOf, CurStep, PassStep
  <2> QED
    BY <1>7, <1>o, <2>2 DEF start_reconcile
<1>8. ASSUME NEW p \in Proc, NEW t \in Tx, read_confirmations(p, t) PROVE ViewInv'
  <2>1. ViewOf(p)'
    BY <1>8, <1>w DEF read_confirmations, Goto, TypeOK, ViewInv, ViewOf, CurStep, PassStep
  <2> QED
    BY <1>8, <1>o, <2>1 DEF read_confirmations
<1>9. ASSUME NEW p \in Proc,
             read_sidecar(p) \/ rebroadcast_accepted(p) \/ rebroadcast_lost(p)
             \/ rebroadcast_rejected(p)
      PROVE  ViewInv'
  <2>1. ViewOf(p)'
    BY <1>9, <1>w DEF read_sidecar, rebroadcast_accepted, rebroadcast_lost, rebroadcast_rejected,
                      Goto, TypeOK, ViewInv, ViewOf, CurStep, PassStep
  <2> QED
    BY <1>9, <1>o, <2>1 DEF read_sidecar, rebroadcast_accepted, rebroadcast_lost,
                            rebroadcast_rejected
<1>10. ASSUME NEW p \in Proc, mark_failed(p) PROVE ViewInv'
  <2> DEFINE e == StatusUpdate(next_seq(mem[p]), cur[p], "Failed")
  <2>1. cur[p] \in Tx /\ input[cur[p]] # Unsigned /\ cur[p] \notin queue[p]
    BY <1>10, <1>c DEF mark_failed, ViewInv, ViewOf, CurStep, PassStep
  <2>2. e \in Entry /\ e.txid = cur[p] /\ e.seq = next_seq(mem[p])
    BY <1>w, <2>1, UpdateType DEF StatusUpdate, Status
  <2>3. /\ append(p, e) /\ UNCHANGED <<input, cur, queue>>
        /\ pc[p] # "idle" /\ pc'[p] = "failed"
    BY <1>10, <1>w DEF mark_failed, Goto, TypeOK
  <2> HIDE DEF e
  <2> QED
    BY <1>w, <2>1, <2>2, <2>3, ViewAppend
<1>11. ASSUME NEW p \in Proc, update_status(p) PROVE ViewInv'
  <2> DEFINE new == from_confirmations(confs[p])
             e == StatusUpdate(next_seq(mem[p]), cur[p], new)
  <2>1. cur[p] \in Tx /\ input[cur[p]] # Unsigned /\ cur[p] \notin queue[p]
    BY <1>11, <1>c DEF update_status, ViewInv, ViewOf, CurStep, PassStep
  <2>2. CASE latest_status(mem[p], cur[p]) # new
    <3>1. e \in Entry /\ e.txid = cur[p] /\ e.seq = next_seq(mem[p])
      <4>1. new \in Status
        BY <1>w, EntryTypes DEF TypeOK
      <4> QED
        BY <1>w, <2>1, <4>1, UpdateType DEF StatusUpdate
    <3>2. /\ append(p, e) /\ UNCHANGED <<input, cur, queue>>
          /\ pc[p] # "idle" /\ pc'[p] \in {"settled", "next"}
      BY <1>11, <1>w, <2>2 DEF update_status, Goto, TypeOK
    <3> HIDE DEF e
    <3> QED
      BY <1>w, <2>1, <3>1, <3>2, ViewAppend
  <2>3. CASE latest_status(mem[p], cur[p]) = new
    <3>1. ViewOf(p)'
      BY <1>11, <1>w, <2>1, <2>3
         DEF update_status, Goto, TypeOK, ViewInv, ViewOf, CurStep, PassStep
    <3> QED
      BY <1>11, <1>o, <2>3, <3>1 DEF update_status
  <2> QED
    BY <2>2, <2>3
<1>12. ASSUME NEW p \in Proc, remove_sidecar(p) \/ list_sidecars(p) \/ sweep_orphan(p)
       PROVE  ViewInv'
  <2>1. ViewOf(p)'
    BY <1>12, <1>w DEF remove_sidecar, list_sidecars, sweep_orphan, Goto, TypeOK, ViewInv,
                       ViewOf, CurStep, PassStep
  <2> QED
    BY <1>12, <1>o, <2>1 DEF remove_sidecar, list_sidecars, sweep_orphan
<1>13. CASE MineBlock \/ Evict \/ Reorg \/ UNCHANGED vars
  <2>1. UNCHANGED <<disk, input, pc, local>>
    BY <1>13 DEF MineBlock, Block, Evict, Reorg, vars
  <2> QED
    BY <1>w, <2>1 DEF ViewInv, ViewOf, SeqIncreases
<1> QED
  BY <1>1, <1>3, <1>4, <1>5, <1>6, <1>7, <1>8, <1>9, <1>10, <1>11, <1>12, <1>13
     DEF Next, ProcNext, SendNext, PassNext

LEMMA ViewAlways == ASSUME OneWriter PROVE Spec => []ViewInv
BY ViewInit, ViewStep, PTL DEF Spec

\* With one process at a time the numbers of the entries increase along the
\* file, through crashes at any step and reorganisations: the process numbers
\* from a copy that is the file (Ledger::next_seq).
THEOREM SeqIncreasesHolds == ASSUME OneWriter PROVE Spec => []SeqIncreases
<1>1. ViewInv => SeqIncreases
  BY DEF ViewInv
<1> QED
  BY <1>1, ViewAlways, PTL

\* With one process at a time nothing is ever written after Final or Failed
\* that changes it, whatever the network does with the transaction later: the
\* queue of a pass has only payments that are not terminal, each one once.
THEOREM TerminalForeverHolds == ASSUME OneWriter PROVE Spec => TerminalForever
<1> DEFINE Kept == \A t \in Tx : latest_status(disk, t) \in Terminal
                       => latest_status(disk', t) = latest_status(disk, t)
<1>1. ViewInv /\ [Next]_vars => [Kept]_disk
  <2> SUFFICES ASSUME ViewInv, [Next]_vars, disk' # disk PROVE Kept
    OBVIOUS
  <2>t. TypeOK
    BY DEF ViewInv, WriteAheadInv
  <2>1. PICK p \in Proc, e \in Entry :
            append(p, e) /\ e.txid = cur[p] /\ pc[p] \in {"staged", "dead", "status"}
    BY <2>t, DiskStep
  <2>2. \A t : latest_status(disk', t) = IF t = e.txid THEN e.status ELSE latest_status(disk, t)
    BY <2>t, <2>1, AppendFolds
  <2>3. latest_status(disk, cur[p]) \notin Terminal
    BY <2>1 DEF ViewInv, ViewOf, NoStatus, Terminal
  <2> QED
    BY <2>1, <2>2, <2>3
<1> QED
  BY <1>1, ViewAlways, PTL DEF Spec, TerminalForever

-----------------------------------------------------------------------------
(* The send path implements the promise of module Payment.                 *)

\* A recorded payment has an effective status, and every effective status is
\* one of the four (or none).
LEMMA LatestRange ==
    ASSUME NEW es \in Seq(Entry), NEW t
    PROVE  /\ latest_status(es, t) \in Status \cup {NoStatus}
           /\ t \in recorded(es) => latest_status(es, t) \in Status
<1>1. Len(es) \in Nat /\ \A i \in 1..Len(es) : es[i] \in Entry
  OBVIOUS
<1>2. \A e \in Entry : e.status \in Status
  BY DEF Entry, Status
<1>3. ASSUME NEW i \in 1..Len(es), Mentions(es[i], t)
      PROVE  latest_status(es, t) \in Status
  BY <1>1, <1>2, <1>3, LatestMentioned
<1>4. CASE \E i \in 1..Len(es) : Mentions(es[i], t)
  BY <1>3, <1>4
<1>5. CASE ~\E i \in 1..Len(es) : Mentions(es[i], t)
  <2>1. {i \in 1..Len(es) : Mentions(es[i], t)} = {}
    BY <1>5, Zenon
  <2>2. latest_status(es, t) = NoStatus
    BY <2>1 DEF latest_status
  <2>3. t \notin recorded(es)
    BY <1>5, Zenon DEF recorded, Mentions
  <2> QED
    BY <2>2, <2>3
<1> QED
  BY <1>4, <1>5

\* The network after a step that does not write the file, under the writer's
\* assumptions: what the ledger calls Failed or does not mention stays unknown.
LEMMA NetStep ==
    ASSUME SingleWriter, RecoveryInv, [Next]_vars, NEW t \in Tx,
           latest_status(disk, t) \in {NoStatus, "Failed"}
    PROVE  net[t] = -1 /\ (disk' = disk => net'[t] = -1)
<1>t. /\ TypeOK /\ TypeOK' /\ WriteAhead /\ WriteAhead'
      /\ RecoveryInv'
  BY TypeStep, WriteAheadStep, RecoveryStep DEF RecoveryInv, WriteAheadInv
<1>1. ASSUME latest_status(disk, t) = NoStatus, t \in recorded(disk) PROVE FALSE
  BY <1>1, <1>t, LatestRange DEF TypeOK, Status, NoStatus
<1>2. net[t] \in -1..MaxConfs /\ net'[t] \in -1..MaxConfs
  BY <1>t DEF TypeOK
<1>3. ~Known(t)
  BY <1>1, <1>t DEF WriteAhead, RecoveryInv, BookInv, FailedNeverMoved
<1>4. disk' = disk => ~Known(t)'
  <2> SUFFICES ASSUME disk' = disk PROVE ~Known(t)'
    OBVIOUS
  <2>1. CASE latest_status(disk, t) = NoStatus
    BY <1>1, <1>t, <2>1 DEF WriteAhead
  <2>2. CASE latest_status(disk, t) = "Failed"
    BY <1>t, <2>2 DEF RecoveryInv, BookInv, FailedNeverMoved
  <2> QED
    BY <2>1, <2>2
<1> QED
  BY <1>2, <1>3, <1>4, MaxConfsRange DEF Known

\* Every step of the writer or of the network is a step of Payment, or none: a
\* Sent entry commits, a StatusUpdate books, the network moves.
LEMMA PaymentStep ==
    ASSUME SingleWriter, RecoveryInv, [Next]_vars
    PROVE  [Abstract!Next]_(Abstract!vars)
<1> DEFINE book  == [t \in Tx |-> latest_status(disk, t)]
           money == [t \in Tx |-> PlaceOf(t)]
<1>t. TypeOK /\ TypeOK' /\ WriteAheadInv /\ RecoveryInv'
  BY TypeStep, RecoveryStep DEF RecoveryInv, WriteAheadInv
<1>1. CASE disk' = disk
  <2>1. book' = book
    BY <1>1
  <2>2. money' \in [Tx -> Abstract!Places]
    BY DEF PlaceOf, Abstract!Places
  <2>3. ASSUME NEW t \in Tx, money'[t] # money[t]
        PROVE  book[t] \notin {"None", "Failed"} /\ money[t] # "buried"
    <3>1. PlaceOf(t)' # PlaceOf(t)
      BY <2>3
    <3>2. net'[t] # net[t]
      BY <3>1 DEF PlaceOf
    <3>3. PlaceOf(t) # "buried"
      <4> SUFFICES ASSUME net[t] >= FinalDepth PROVE FALSE
        BY DEF PlaceOf
      <4>1. net[t] \in Int /\ net'[t] \in Int /\ reorgs = 0 /\ reorgs' = 0
        BY <1>t, MaxConfsRange DEF TypeOK, SingleWriter
      <4>2. net'[t] >= net[t]
        BY <1>t, <4>1, ConfirmedKept DEF FinalDepth
      <4> QED
        BY <3>1, <4>1, <4>2 DEF PlaceOf, FinalDepth
    <3>4. latest_status(disk, t) \notin {NoStatus, "Failed"}
      BY <1>1, <3>2, NetStep
    <3> QED
      BY <3>3, <3>4 DEF NoStatus
  <2>4. Abstract!Move
    BY <2>1, <2>2, <2>3 DEF Abstract!Move
  <2> QED
    BY <2>4 DEF Abstract!Next
<1>2. CASE disk' # disk
  <2>1. PICK p \in Proc, e \in Entry :
            /\ append(p, e) /\ cur[p] \in Tx /\ e.txid = cur[p]
            /\ \/ pc[p] = "staged" /\ e.status = "Pending"
               \/ pc[p] = "dead" /\ e.status = "Failed"
               \/ pc[p] = "status" /\ e.status = from_confirmations(confs[p])
    BY <1>2, <1>t, DiskStep
  <2>2. UNCHANGED net
    BY <1>2, <1>t, DiskStep
  <2>3. \A t : latest_status(disk', t) = IF t = cur[p] THEN e.status ELSE latest_status(disk, t)
    BY <1>t, <2>1, AppendFolds
  <2>4. book' = [book EXCEPT ![cur[p]] = e.status]
    BY <2>1, <2>3
  <2>5. money' = money
    BY <2>2 DEF PlaceOf
  <2>6. net[cur[p]] \in -1..MaxConfs
    BY <1>t, <2>1 DEF TypeOK
  <2>7. CASE pc[p] = "staged" /\ e.status = "Pending"
    <3>1. book[cur[p]] = "None"
      BY <2>1, <2>7 DEF RecoveryInv, WriterInv, NoStatus
    <3>2. Abstract!Commit(cur[p])
      BY <2>4, <2>5, <2>7, <3>1 DEF Abstract!Commit
    <3> QED
      BY <2>1, <3>2 DEF Abstract!Next
  <2>8. CASE pc[p] \in {"dead", "status"}
    <3>1. book[cur[p]] \in {"Pending", "Soft"}
      <4>1. cur[p] \in recorded(disk)
        BY <1>t, <2>8 DEF WriteAheadInv, CurStep, PassStep
      <4>2. latest_status(disk, cur[p]) \in Status
        BY <1>t, <4>1, LatestRange DEF TypeOK
      <4>3. latest_status(disk, cur[p]) \notin Terminal
        BY <2>8 DEF RecoveryInv, WriterInv
      <4> QED
        BY <2>1, <4>2, <4>3 DEF Status, Terminal
    <3>2. latest_status(disk', cur[p]) = e.status
      BY <2>3
    <3>3. e.status \in Status
      BY DEF Entry, Status
    <3>4. e.status = "Final" => money[cur[p]] = "buried"
      BY <1>t, <2>1, <2>2, <3>2 DEF RecoveryInv, BookInv, BookedIsConfirmed, PlaceOf, FinalDepth
    <3>5. e.status = "Failed" => money[cur[p]] = "home"
      BY <1>t, <2>1, <2>2, <2>6, <3>2
         DEF RecoveryInv, BookInv, FailedNeverMoved, Known, PlaceOf, FinalDepth
    <3>6. Abstract!Book(cur[p], e.status)
      BY <2>4, <2>5, <3>1, <3>4, <3>5 DEF Abstract!Book
    <3>7. e.status \in Abstract!Books \ {"None"}
      BY <3>3 DEF Abstract!Books, Status
    <3> QED
      BY <2>1, <3>6, <3>7 DEF Abstract!Next
  <2> QED
    BY <2>1, <2>7, <2>8
<1> QED
  BY <1>1, <1>2

\* The send path with one writer implements module Payment: a payment is booked
\* before its money moves, refunds are for money that stayed at home, Final is
\* for buried money and both are the last word, through every interleaving of
\* crashes, evictions and blocks with the steps of pay::send and
\* ledger::reconcile.
THEOREM ImplementsPaymentHolds == ASSUME SingleWriter PROVE Spec => ImplementsPayment
<1>1. Init => Abstract!Init
  <2> SUFFICES ASSUME Init PROVE Abstract!Init
    OBVIOUS
  <2>1. \A t \in Tx : PlaceOf(t) = "home"
    <3>1. \A t \in Tx : net[t] = -1
      BY DEF Init
    <3> QED
      BY <3>1 DEF PlaceOf, FinalDepth
  <2>2. \A t \in Tx : latest_status(disk, t) = "None"
    BY EmptyLedger DEF Init, NoStatus
  <2> QED
    BY <2>1, <2>2 DEF Abstract!Init
<1>2. RecoveryInv /\ [Next]_vars => [Abstract!Next]_(Abstract!vars)
  BY PaymentStep
<1> QED
  BY <1>1, <1>2, RecoveryAlways, PTL DEF Spec, ImplementsPayment, Abstract!Spec

=============================================================================
