---------------------------- MODULE SpScanProofs ----------------------------
(***************************************************************************)
(* Proofs about SpScan, for any outputs, threads, processes, heights and   *)
(* any bounds on errors, crashes and replaced blocks.                      *)
(***************************************************************************)
EXTENDS SpScan, LedgerProofs

-----------------------------------------------------------------------------
(* Types.                                                                  *)

\* A pass that has read the tip has read a height.
TypeInv ==
    /\ TypeOK
    /\ \A p \in Thread : pc[p] \in {"synced", "blocks", "saved", "spends"} => top[p] >= BirthHeight

LEMMA BoundNat ==
    /\ START_LOOKBACK \in Nat /\ DUST_FLOOR \in Nat /\ MaxHeight \in Nat /\ MaxHeight >= 1
    /\ MaxErrors \in Nat /\ MaxCrashes \in Nat /\ MaxReorgs \in Nat
BY ConstAssumption

LEMMA TypeInit == Init => TypeInv
<1> SUFFICES ASSUME Init PROVE TypeInv
  OBVIOUS
<1>1. checkpoint \in BirthHeight..MaxHeight \cup {NoHeight} /\ anchored \in BOOLEAN
  BY BoundNat DEF Init, anchor_birth, BirthHeight
<1>2. \A p \in Thread : pc[p] \notin InPass /\ lock[Host[p]] # p
  BY ConstAssumption DEF Init, InPass, Process
<1>3. TypeOK
  BY BoundNat, <1>1, <1>2 DEF Init, TypeOK, BirthHeight
<1> QED
  BY <1>3 DEF Init, TypeInv

\* The entries that are written.
LEMMA EntryFacts ==
    \A e \in Entry : /\ e.seq \in Nat /\ e.txid \in Txid
                     /\ e.kind \in {"SpReceived", "SpSpent", "StatusUpdate"}
                     /\ e.kind \in {"SpReceived", "StatusUpdate"} => e.status \in Status
BY DEF Entry, Status

LEMMA SeqType ==
    ASSUME NEW es \in Seq(Entry)
    PROVE  next_seq(es) \in Nat /\ pending(es) \subseteq Txid
<1>1. Len(es) \in Nat /\ \A i \in 1..Len(es) : es[i] \in Entry
  OBVIOUS
<1>2. next_seq(es) \in Nat
  BY <1>1, EntryFacts DEF next_seq
<1>3. pending(es) \subseteq Txid
  BY <1>1, EntryFacts, Zenon DEF pending
<1> QED
  BY <1>2, <1>3

LEMMA WrittenTypes ==
    ASSUME NEW n \in Nat
    PROVE  /\ \A o \in Output : /\ SpReceived(n, o.txid, o.vout, o.sats) \in Entry
                                /\ SpSpent(n, o.txid, o.vout) \in Entry
           /\ \A t \in Txid : \A c : StatusUpdate(n, t, from_confirmations(c)) \in Entry
<1>1. \A o \in Output : o.txid \in Txid
  BY DEF Txid
<1>2. \A c : from_confirmations(c) \in Status
  BY DEF from_confirmations, Status
<1>3. \A o \in Output : SpReceived(n, o.txid, o.vout, o.sats) \in Entry
  BY <1>1 DEF SpReceived, Entry
<1>4. \A o \in Output : SpSpent(n, o.txid, o.vout) \in Entry
  BY <1>1 DEF SpSpent, Entry
<1>5. \A t \in Txid : \A c : StatusUpdate(n, t, from_confirmations(c)) \in Entry
  BY <1>2 DEF StatusUpdate, Entry
<1> QED
  BY <1>3, <1>4, <1>5

\* The lock of a process and the thread that is in a pass go together when the
\* thread takes it, returns it, or moves on within the pass or outside of it.
LEMMA MoveLock ==
    ASSUME TypeOK, NEW p \in Thread, NEW step, Goto(p, step), UNCHANGED lock,
           step \in InPass <=> pc[p] \in InPass,
           step \in {"idle", "ready", "reconciled", "opened", "scanned", "statuses"} \cup InPass
    PROVE  /\ pc' \in [Thread -> {"idle", "ready", "reconciled", "opened", "scanned", "statuses"} \cup InPass]
           /\ \A q \in Thread : pc'[q] = IF q = p THEN step ELSE pc[q]
           /\ \A q \in Thread : pc'[q] \in InPass <=> lock'[Host[q]] = q
<1>1. \A q \in Thread : pc'[q] = IF q = p THEN step ELSE pc[q]
  BY DEF TypeOK, Goto
<1>2. \A q \in Thread : pc'[q] \in InPass <=> lock'[Host[q]] = q
  BY <1>1 DEF TypeOK
<1>3. pc' \in [Thread -> {"idle", "ready", "reconciled", "opened", "scanned", "statuses"} \cup InPass]
  BY DEF TypeOK, Goto
<1> QED
  BY <1>1, <1>2, <1>3

LEMMA TypeStep ==
    ASSUME TypeInv, [Next]_vars
    PROVE  TypeInv'
<1> USE BoundNat
<1> DEFINE Steps == {"idle", "ready", "reconciled", "opened", "scanned", "statuses"} \cup InPass
           HasRead == {"synced", "blocks", "saved", "spends"}
<1>0. /\ TypeOK
      /\ \A p \in Thread : pc[p] \in HasRead => top[p] >= BirthHeight
  BY DEF TypeInv
<1>a. HasRead \subseteq InPass /\ "locked" \in InPass /\ "locked" \notin HasRead
  BY DEF InPass
<1>b. {"idle", "ready", "reconciled", "opened", "scanned", "statuses"} \cap InPass = {}
  BY DEF InPass
<1>l. \A q \in Thread : pc[q] \in InPass <=> lock[Host[q]] = q
  BY <1>0 DEF TypeOK
<1>n. /\ \A p \in Thread : Nobody # p
      /\ "scanned" \notin InPass /\ "idle" \notin InPass
  BY ConstAssumption DEF InPass
<1>h. /\ BirthHeight = 1 /\ tip \in 1..MaxHeight
      /\ \A p \in Thread : /\ top[p] \in 0..MaxHeight /\ height[p] \in 0..(MaxHeight + 1)
                           /\ mem[p] \in Seq(Entry) /\ led[p] \in Seq(Entry) /\ Host[p] \in Process
  BY <1>0 DEF TypeOK, BirthHeight, Process
\* A thread moves within its pass, or outside of one.
<1>g. ASSUME NEW p \in Thread, NEW step \in Steps, Goto(p, step), UNCHANGED lock,
             step \in InPass <=> pc[p] \in InPass
      PROVE  /\ pc' \in [Thread -> Steps]
             /\ \A q \in Thread : pc'[q] = IF q = p THEN step ELSE pc[q]
             /\ \A q \in Thread : pc'[q] \in InPass <=> lock'[Host[q]] = q
  BY <1>0, <1>g, MoveLock
\* An entry is appended to the file and to the view of the pass.
<1>w. ASSUME NEW p \in Thread, NEW e \in Entry, append(p, e)
      PROVE  disk' \in Seq(Entry) /\ mem' \in [Thread -> Seq(Entry)]
  <2>1. Append(disk, e) \in Seq(Entry) /\ Append(mem[p], e) \in Seq(Entry)
    BY <1>0, <1>h DEF TypeOK
  <2> QED
    BY <1>0, <1>w, <2>1 DEF append, TypeOK
<1>1. ASSUME NEW p \in Thread, open_ledger(p) PROVE TypeInv'
  <2>1. /\ pc' \in [Thread -> Steps]
        /\ \A q \in Thread : pc'[q] = IF q = p THEN "opened" ELSE pc[q]
        /\ \A q \in Thread : pc'[q] \in InPass <=> lock'[Host[q]] = q
    BY <1>a, <1>b, <1>g, <1>1 DEF open_ledger
  <2> QED
    BY <1>0, <1>a, <1>h, <1>1, <2>1 DEF open_ledger, TypeInv, TypeOK, chain, scan
<1>2. ASSUME NEW p \in Thread, scan_lock(p) PROVE TypeInv'
  <2>1. \A q \in Thread : pc'[q] = IF q = p THEN "locked" ELSE pc[q]
    BY <1>0, <1>2 DEF scan_lock, Goto, TypeOK
  <2>2. lock' \in [Process -> Thread \cup {Nobody}] /\ pc' \in [Thread -> Steps]
    BY <1>0, <1>a, <1>h, <1>2 DEF scan_lock, Goto, TypeOK
  <2>3. \A q \in Thread : lock'[Host[q]] = IF Host[q] = Host[p] THEN p ELSE lock[Host[q]]
    BY <1>0, <1>h, <1>2 DEF scan_lock, TypeOK
  <2>4. \A q \in Thread : pc'[q] \in InPass <=> lock'[Host[q]] = q
    <3>1. \A q \in Thread : Host[q] = Host[p] => pc[q] \notin InPass
      BY <1>0, <1>2, ConstAssumption DEF scan_lock, TypeOK
    <3> QED
      BY <1>0, <1>a, <2>1, <2>3, <3>1 DEF TypeOK
  <2> QED
    BY <1>0, <1>a, <1>2, <2>1, <2>2, <2>4 DEF scan_lock, TypeInv, TypeOK, chain, scan
<1>3. ASSUME NEW p \in Thread, read_tip(p) PROVE TypeInv'
  <2>1. /\ pc' \in [Thread -> Steps]
        /\ \A q \in Thread : pc'[q] = IF q = p THEN "synced" ELSE pc[q]
        /\ \A q \in Thread : pc'[q] \in InPass <=> lock'[Host[q]] = q
    BY <1>a, <1>b, <1>g, <1>3 DEF read_tip
  <2>2. top' \in [Thread -> 0..MaxHeight] /\ top'[p] >= BirthHeight
        /\ \A q \in Thread : q # p => top'[q] = top[q]
    BY <1>0, <1>h, <1>3 DEF read_tip, TypeOK
  <2> QED
    BY <1>0, <1>a, <1>h, <1>3, <2>1, <2>2 DEF read_tip, TypeInv, TypeOK, chain, scan
<1>4. ASSUME NEW p \in Thread, load_checkpoint(p) PROVE TypeInv'
  <2>1. /\ pc' \in [Thread -> Steps]
        /\ \A q \in Thread : pc'[q] = IF q = p THEN "blocks" ELSE pc[q]
        /\ \A q \in Thread : pc'[q] \in InPass <=> lock'[Host[q]] = q
    BY <1>a, <1>b, <1>g, <1>4 DEF load_checkpoint
  <2>2. height' \in [Thread -> 0..(MaxHeight + 1)]
    <3> DEFINE h == IF checkpoint # NoHeight THEN checkpoint + 1
                    ELSE IF top[p] >= START_LOOKBACK THEN top[p] - START_LOOKBACK ELSE 0
    <3>1. h \in 0..(MaxHeight + 1)
      BY <1>0, <1>h DEF TypeOK
    <3> HIDE DEF h
    <3>2. height' = [height EXCEPT ![p] = h]
      BY <1>4 DEF load_checkpoint, h
    <3> QED
      BY <1>0, <3>1, <3>2 DEF TypeOK
  <2> QED
    BY <1>0, <1>a, <1>h, <1>4, <2>1, <2>2 DEF load_checkpoint, TypeInv, TypeOK, chain, scan
<1>5. ASSUME NEW p \in Thread, read_block(p) PROVE TypeInv'
  <2>1. height' \in [Thread -> 0..(MaxHeight + 1)]
    BY <1>0, <1>h, <1>5 DEF read_block, TypeOK
  <2>2. todo' \in [Thread -> SUBSET Output]
    BY <1>0, <1>5 DEF read_block, tx_matches, TypeOK
  <2> QED
    BY <1>0, <1>5, <2>1, <2>2 DEF read_block, TypeInv, TypeOK, chain
<1>6. ASSUME NEW p \in Thread, NEW o \in Output, record_sp_received(p, o) PROVE TypeInv'
  <2> DEFINE e == SpReceived(next_seq(mem[p]), o.txid, o.vout, o.sats)
  <2>1. e \in Entry
    BY <1>h, SeqType, WrittenTypes
  <2>2. UNCHANGED <<disk, mem>> \/ append(p, e)
    BY <1>6 DEF record_sp_received
  <2> HIDE DEF e
  <2>3. disk' \in Seq(Entry) /\ mem' \in [Thread -> Seq(Entry)]
    BY <1>0, <1>w, <2>1, <2>2 DEF TypeOK
  <2>4. todo' \in [Thread -> SUBSET Output]
    BY <1>0, <1>6 DEF record_sp_received, TypeOK
  <2> QED
    BY <1>0, <1>6, <2>3, <2>4 DEF record_sp_received, TypeInv, TypeOK, chain
<1>7. ASSUME NEW p \in Thread, save_checkpoint(p) PROVE TypeInv'
  <2>1. /\ pc' \in [Thread -> Steps]
        /\ \A q \in Thread : pc'[q] = IF q = p THEN "saved" ELSE pc[q]
        /\ \A q \in Thread : pc'[q] \in InPass <=> lock'[Host[q]] = q
    BY <1>a, <1>b, <1>g, <1>7 DEF save_checkpoint
  <2>2. checkpoint' \in BirthHeight..MaxHeight
    BY <1>0, <1>h, <1>7 DEF save_checkpoint
  <2> QED
    BY <1>0, <1>a, <1>h, <1>7, <2>1, <2>2 DEF save_checkpoint, TypeInv, TypeOK, chain, scan
<1>8. ASSUME NEW p \in Thread, track_spends(p) PROVE TypeInv'
  <2>1. /\ pc' \in [Thread -> Steps]
        /\ \A q \in Thread : pc'[q] = IF q = p THEN "spends" ELSE pc[q]
        /\ \A q \in Thread : pc'[q] \in InPass <=> lock'[Host[q]] = q
    BY <1>a, <1>b, <1>g, <1>8 DEF track_spends
  <2> QED
    BY <1>0, <1>a, <1>h, <1>8, <2>1 DEF track_spends, TypeInv, TypeOK, chain, scan
<1>9. ASSUME NEW p \in Thread, NEW o \in Output, record_sp_spent(p, o) PROVE TypeInv'
  <2> DEFINE e == SpSpent(next_seq(mem[p]), o.txid, o.vout)
  <2>1. e \in Entry
    BY <1>h, SeqType, WrittenTypes
  <2>2. UNCHANGED <<disk, mem>> \/ append(p, e)
    BY <1>9 DEF record_sp_spent
  <2> HIDE DEF e
  <2>3. disk' \in Seq(Entry) /\ mem' \in [Thread -> Seq(Entry)]
    BY <1>0, <1>w, <2>1, <2>2 DEF TypeOK
  <2>4. todo' \in [Thread -> SUBSET Output]
    BY <1>0, <1>9 DEF record_sp_spent, TypeOK
  <2> QED
    BY <1>0, <1>9, <2>3, <2>4 DEF record_sp_spent, TypeInv, TypeOK, chain
<1>10. ASSUME NEW p \in Thread, EndScan(p), pc[p] \in InPass, errors' \in 0..MaxErrors PROVE TypeInv'
  <2>1. \A q \in Thread : pc'[q] = IF q = p THEN "scanned" ELSE pc[q]
    BY <1>0, <1>10 DEF EndScan, Goto, TypeOK
  <2>2. lock' \in [Process -> Thread \cup {Nobody}] /\ pc' \in [Thread -> Steps]
    BY <1>0, <1>h, <1>10 DEF EndScan, Goto, TypeOK
  <2>3. \A q \in Thread : lock'[Host[q]] = IF Host[q] = Host[p] THEN Nobody ELSE lock[Host[q]]
    BY <1>0, <1>h, <1>10 DEF EndScan, TypeOK
  <2>4. \A q \in Thread : pc'[q] \in InPass <=> lock'[Host[q]] = q
    <3>1. \A q \in Thread : Host[q] = Host[p] /\ q # p => pc[q] \notin InPass
      BY <1>0, <1>10 DEF TypeOK
    <3> QED
      BY <1>l, <1>n, <2>1, <2>3, <3>1
  <2>5. todo' \in [Thread -> SUBSET Output]
    BY <1>0, <1>10 DEF EndScan, TypeOK
  <2> QED
    BY <1>0, <1>a, <1>b, <1>10, <2>1, <2>2, <2>4, <2>5 DEF EndScan, TypeInv, TypeOK, chain
<1>11. ASSUME NEW p \in Thread, end_scan(p) \/ scan_error(p) PROVE TypeInv'
  <2>1. errors' \in 0..MaxErrors
    BY <1>0, <1>11 DEF end_scan, scan_error, TypeOK
  <2>2. EndScan(p) /\ pc[p] \in InPass
    BY <1>a, <1>11 DEF end_scan, scan_error
  <2> QED
    BY <1>10, <2>1, <2>2
<1>12. ASSUME NEW p \in Thread, serve_start(p) PROVE TypeInv'
  <2>1. /\ pc' \in [Thread -> Steps]
        /\ \A q \in Thread : pc'[q] = IF q = p THEN "ready" ELSE pc[q]
        /\ \A q \in Thread : pc'[q] \in InPass <=> lock'[Host[q]] = q
    BY <1>a, <1>b, <1>g, <1>12 DEF serve_start
  <2> QED
    BY <1>0, <1>a, <1>h, <1>12, <2>1 DEF serve_start, TypeInv, TypeOK, chain, scan
<1>13. ASSUME NEW p \in Thread, start_reconcile(p) PROVE TypeInv'
  <2>1. /\ pc' \in [Thread -> Steps]
        /\ \A q \in Thread : pc'[q] = IF q = p THEN "statuses" ELSE pc[q]
        /\ \A q \in Thread : pc'[q] \in InPass <=> lock'[Host[q]] = q
    BY <1>a, <1>b, <1>g, <1>13 DEF start_reconcile
  <2>2. queue' \in [Thread -> SUBSET Txid]
    <3>1. pending(View(p)) \subseteq Txid
      BY <1>h, SeqType DEF View
    <3> QED
      BY <1>0, <1>13, <3>1 DEF start_reconcile, TypeOK
  <2> QED
    BY <1>0, <1>a, <1>h, <1>13, <2>1, <2>2 DEF start_reconcile, TypeInv, TypeOK, chain, scan
<1>14. ASSUME NEW p \in Thread, NEW t \in Txid, update_status(p, t) PROVE TypeInv'
  <2> DEFINE e == StatusUpdate(next_seq(View(p)), t, from_confirmations(confirmations(t)))
  <2>1. e \in Entry
    BY <1>h, SeqType, WrittenTypes DEF View
  <2>2. \/ UNCHANGED <<disk, mem, led>>
        \/ /\ disk' = Append(disk, e)
           /\ \/ led' = [led EXCEPT ![p] = Append(led[p], e)] /\ UNCHANGED mem
              \/ mem' = [mem EXCEPT ![p] = Append(mem[p], e)] /\ UNCHANGED led
    BY <1>14 DEF update_status
  <2> HIDE DEF e
  <2>3. /\ disk' \in Seq(Entry)
        /\ mem' \in [Thread -> Seq(Entry)]
        /\ led' \in [Thread -> Seq(Entry)]
    <3>1. /\ Append(disk, e) \in Seq(Entry)
          /\ Append(mem[p], e) \in Seq(Entry) /\ Append(led[p], e) \in Seq(Entry)
      BY <1>0, <1>h, <2>1 DEF TypeOK
    <3> QED
      BY <1>0, <2>2, <3>1 DEF TypeOK
  <2>4. queue' \in [Thread -> SUBSET Txid]
    BY <1>0, <1>14 DEF update_status, TypeOK
  <2> QED
    BY <1>0, <1>14, <2>3, <2>4 DEF update_status, TypeInv, TypeOK, chain
<1>15. ASSUME NEW p \in Thread, end_reconcile(p) PROVE TypeInv'
  <2>1. errors' \in 0..MaxErrors
    BY <1>0, <1>15 DEF end_reconcile, TypeOK
  <2>2. CASE p \in Daemon
    <3>1. /\ pc' \in [Thread -> Steps]
          /\ \A q \in Thread : pc'[q] = IF q = p THEN "reconciled" ELSE pc[q]
          /\ \A q \in Thread : pc'[q] \in InPass <=> lock'[Host[q]] = q
      BY <1>a, <1>b, <1>g, <1>15, <2>2 DEF end_reconcile
    <3> QED
      BY <1>0, <1>a, <1>15, <2>1, <2>2, <3>1 DEF end_reconcile, TypeInv, TypeOK, chain, scan
  <2>3. CASE p \notin Daemon
    <3>1. /\ pc' \in [Thread -> Steps]
          /\ \A q \in Thread : pc'[q] = IF q = p THEN "idle" ELSE pc[q]
          /\ \A q \in Thread : pc'[q] \in InPass <=> lock'[Host[q]] = q
      BY <1>a, <1>b, <1>g, <1>15, <2>3 DEF end_reconcile, Closed
    <3>2. Closed(p) /\ queue' = [queue EXCEPT ![p] = {}]
      BY <1>15, <2>3 DEF end_reconcile
    <3> QED
      BY <1>0, <1>a, <1>h, <2>1, <3>1, <3>2 DEF Closed, TypeInv, TypeOK, chain
  <2> QED
    BY <2>2, <2>3
<1>16. ASSUME NEW p \in Thread, after_scan(p) PROVE TypeInv'
  <2> DEFINE step == IF p \in Daemon THEN "ready" ELSE "idle"
  <2>1. step \in Steps /\ step \notin InPass
    BY <1>b
  <2> HIDE DEF step
  <2>2. /\ pc' \in [Thread -> Steps]
        /\ \A q \in Thread : pc'[q] = IF q = p THEN step ELSE pc[q]
        /\ \A q \in Thread : pc'[q] \in InPass <=> lock'[Host[q]] = q
    BY <1>b, <1>g, <1>16, <2>1 DEF after_scan, Closed, step
  <2>3. Closed(p) /\ UNCHANGED <<queue, errors>>
    BY <1>16 DEF after_scan
  <2> QED
    BY <1>0, <1>a, <1>h, <2>1, <2>2, <2>3 DEF Closed, TypeInv, TypeOK, chain
<1>17. ASSUME NEW h \in Process, Crash(h) PROVE TypeInv'
  <2>1. /\ \A q \in Thread : pc'[q] = IF Host[q] = h THEN "idle" ELSE pc[q]
        /\ \A q \in Thread : top'[q] = IF Host[q] = h THEN 0 ELSE top[q]
        /\ pc' \in [Thread -> Steps]
        /\ top' \in [Thread -> 0..MaxHeight]
        /\ height' \in [Thread -> 0..(MaxHeight + 1)]
    BY <1>0, <1>h, <1>17, SMTT(30) DEF Crash, TypeOK
  <2>2. /\ led' \in [Thread -> Seq(Entry)]
        /\ mem' \in [Thread -> Seq(Entry)]
        /\ todo' \in [Thread -> SUBSET Output]
        /\ queue' \in [Thread -> SUBSET Txid]
    BY <1>0, <1>h, <1>17 DEF Crash, TypeOK
  <2>3. lock' \in [Process -> Thread \cup {Nobody}]
    BY <1>0, <1>17 DEF Crash, TypeOK
  <2>4. \A q \in Thread : lock'[Host[q]] = IF Host[q] = h THEN Nobody ELSE lock[Host[q]]
    BY <1>0, <1>h, <1>17 DEF Crash, TypeOK
  <2>5. \A q \in Thread : pc'[q] \in InPass <=> lock'[Host[q]] = q
    BY <1>l, <1>n, <2>1, <2>4
  <2>6. crashes' \in 0..MaxCrashes
    BY <1>0, <1>17 DEF Crash, TypeOK
  <2>7. \A q \in Thread : pc'[q] \in HasRead => top'[q] >= BirthHeight
    BY <1>0, <2>1
  <2> QED
    BY <1>0, <1>17, <2>1, <2>2, <2>3, <2>5, <2>6, <2>7 DEF Crash, TypeInv, TypeOK, chain
<1>18. CASE MineBlock
  <2>1. tip' \in BirthHeight..MaxHeight
    BY <1>0, <1>h, <1>18 DEF MineBlock
  <2>2. at' \in [Output -> 0..MaxHeight]
    BY <1>0, <1>h, <2>1, <1>18 DEF MineBlock, TypeOK
  <2> QED
    BY <1>0, <1>18, <2>1, <2>2 DEF MineBlock, TypeInv, TypeOK, scan
<1>19. CASE Reorg
  <2>1. tip' \in BirthHeight..MaxHeight /\ reorgs' \in 0..MaxReorgs
    BY <1>0, <1>h, <1>19 DEF Reorg, TypeOK
  <2>2. at' \in [Output -> 0..MaxHeight]
    BY <1>0, <1>19 DEF Reorg, TypeOK
  <2> QED
    BY <1>0, <1>19, <2>1, <2>2 DEF Reorg, TypeInv, TypeOK, scan
<1>20. CASE SpendAndDie
  <2>1. spent' \subseteq Output
    BY <1>0, <1>20 DEF SpendAndDie, TypeOK
  <2> QED
    BY <1>0, <1>20, <2>1 DEF SpendAndDie, TypeInv, TypeOK, scan
<1>21. CASE UNCHANGED vars
  BY <1>0, <1>21 DEF vars, TypeInv, TypeOK
<1> QED
  BY <1>1, <1>2, <1>3, <1>4, <1>5, <1>6, <1>7, <1>8, <1>9, <1>11, <1>12,
     <1>13, <1>14, <1>15, <1>16, <1>17, <1>18, <1>19, <1>20, <1>21
     DEF Next, ThreadNext, ScanNext

LEMMA TypeAlways == Spec => []TypeInv
BY TypeInit, TypeStep, PTL DEF Spec

\* Every state of the scanning threads, the checkpoint and the chain is well
\* formed; a thread is in a pass just while it holds SCAN_LOCK of its process
\* (scan::scan_to_tip).
THEOREM SpScanTypeCorrect == Spec => []TypeOK
<1>1. TypeInv => TypeOK
  BY DEF TypeInv
<1> QED
  BY <1>1, TypeAlways, PTL

-----------------------------------------------------------------------------
(* What a step writes.                                                     *)

\* The pass of p books output o, which it does not know to be booked.
Books(p, o, e) ==
    record_sp_received(p, o) /\ ~has_sp_output(mem[p], Point(o)) /\ Outpoint(e) = Point(o)

\* What a step may write: income, a spend, or the status that the confirmations
\* of the moment give.
Allowed(e) ==
    \/ /\ e.kind = "SpReceived" /\ e.status = "Pending"
       /\ \E p \in Thread, o \in Output : Books(p, o, e)
    \/ e.kind = "SpSpent"
    \/ \E t \in Txid, n \in Nat : e = StatusUpdate(n, t, from_confirmations(confirmations(t)))

\* A step appends at most one entry to the file.  A view stays, is dropped, is
\* read from the file, or grows by the entry the file grows by.
LEMMA WriteStep ==
    ASSUME TypeInv, [Next]_vars
    PROVE  /\ \/ disk' = disk
              \/ /\ UNCHANGED <<chain, checkpoint>>
                 /\ \E e \in Entry :
                      /\ disk' = Append(disk, e)
                      /\ Allowed(e)
           /\ \A q \in Thread : \/ mem'[q] = mem[q]
                                \/ mem'[q] = <<>>
                                \/ mem'[q] = disk /\ disk' = disk
                                \/ \E e \in Entry : /\ mem'[q] = Append(mem[q], e)
                                                    /\ disk' = Append(disk, e)
<1> DEFINE Written == \/ disk' = disk
                      \/ /\ UNCHANGED <<chain, checkpoint>>
                         /\ \E e \in Entry : disk' = Append(disk, e) /\ Allowed(e)
           Seen(q) == \/ mem'[q] = mem[q]
                      \/ mem'[q] = <<>>
                      \/ mem'[q] = disk /\ disk' = disk
                      \/ \E e \in Entry : mem'[q] = Append(mem[q], e) /\ disk' = Append(disk, e)
<1>0. /\ \A p \in Thread : mem[p] \in Seq(Entry) /\ led[p] \in Seq(Entry)
      /\ mem \in [Thread -> Seq(Entry)]
  BY DEF TypeInv, TypeOK
<1> HIDE DEF Written, Seen
\* Steps that write nothing.
<1>1. ASSUME disk' = disk, UNCHANGED mem PROVE Written /\ \A q \in Thread : Seen(q)
  BY <1>1 DEF Written, Seen
<1>2. ASSUME NEW p \in Thread, open_ledger(p) PROVE Written /\ \A q \in Thread : Seen(q)
  BY <1>0, <1>2 DEF open_ledger, Written, Seen
<1>3. ASSUME NEW p \in Thread, Closed(p) PROVE Written /\ \A q \in Thread : Seen(q)
  BY <1>0, <1>3 DEF Closed, Written, Seen
<1>4. ASSUME NEW h \in Process, Crash(h) PROVE Written /\ \A q \in Thread : Seen(q)
  BY <1>0, <1>4 DEF Crash, Written, Seen
\* Steps that write.
<1>5. ASSUME NEW p \in Thread, NEW e \in Entry, append(p, e) PROVE \A q \in Thread : Seen(q)
  <2>1. \A q \in Thread : mem'[q] = IF q = p THEN Append(mem[p], e) ELSE mem[q]
    BY <1>0, <1>5 DEF append
  <2> QED
    BY <1>5, <2>1 DEF append, Seen
<1>6. ASSUME NEW p \in Thread, NEW o \in Output, record_sp_received(p, o)
      PROVE  Written /\ \A q \in Thread : Seen(q)
  <2> DEFINE e == SpReceived(next_seq(mem[p]), o.txid, o.vout, o.sats)
  <2>1. e \in Entry /\ e.kind = "SpReceived" /\ e.status = "Pending"
    BY <1>0, SeqType, WrittenTypes DEF SpReceived
  <2>4. Outpoint(e) = Point(o)
    BY DEF SpReceived, Outpoint, Point
  <2>2. \/ UNCHANGED <<disk, mem>>
        \/ append(p, e) /\ Books(p, o, e)
    BY <1>6, <2>4 DEF record_sp_received, Books
  <2>5. Books(p, o, e) => Allowed(e)
    BY <2>1, Zenon DEF Allowed
  <2>3. UNCHANGED <<chain, checkpoint>>
    BY <1>6 DEF record_sp_received
  <2> HIDE DEF e
  <2> QED
    BY <1>1, <1>5, <2>1, <2>2, <2>3, <2>5 DEF append, Written
<1>7. ASSUME NEW p \in Thread, NEW o \in Output, record_sp_spent(p, o)
      PROVE  Written /\ \A q \in Thread : Seen(q)
  <2> DEFINE e == SpSpent(next_seq(mem[p]), o.txid, o.vout)
  <2>1. e \in Entry /\ e.kind = "SpSpent"
    BY <1>0, SeqType, WrittenTypes DEF SpSpent
  <2>2. \/ UNCHANGED <<disk, mem>>
        \/ append(p, e)
    BY <1>7 DEF record_sp_spent
  <2>3. UNCHANGED <<chain, checkpoint>>
    BY <1>7 DEF record_sp_spent
  <2>4. Allowed(e)
    BY <2>1, Zenon DEF Allowed
  <2> HIDE DEF e
  <2> QED
    BY <1>1, <1>5, <2>1, <2>2, <2>3, <2>4 DEF append, Written
<1>8. ASSUME NEW p \in Thread, NEW t \in Txid, update_status(p, t)
      PROVE  Written /\ \A q \in Thread : Seen(q)
  <2> DEFINE n == next_seq(View(p))
             e == StatusUpdate(n, t, from_confirmations(confirmations(t)))
  <2>1. n \in Nat
    BY <1>0, SeqType DEF View
  <2>2. e \in Entry /\ Allowed(e)
    <3> HIDE DEF n
    <3>1. e \in Entry
      BY <2>1, WrittenTypes
    <3>2. Allowed(e)
      BY <2>1, Zenon DEF Allowed
    <3> QED
      BY <3>1, <3>2
  <2>3. \/ UNCHANGED <<disk, mem>>
        \/ disk' = Append(disk, e) /\ UNCHANGED mem
        \/ append(p, e)
    BY <1>8 DEF update_status, append
  <2>4. UNCHANGED <<chain, checkpoint>>
    BY <1>8 DEF update_status
  <2> HIDE DEF e
  <2>5. Written
    BY <2>2, <2>3, <2>4 DEF append, Written
  <2>6. \A q \in Thread : Seen(q)
    BY <1>5, <2>2, <2>3 DEF Seen
  <2> QED
    BY <2>5, <2>6
<1>9. \/ UNCHANGED <<disk, mem>>
      \/ \E p \in Thread : \/ open_ledger(p) \/ Closed(p)
                           \/ \E o \in Output : record_sp_received(p, o) \/ record_sp_spent(p, o)
                           \/ \E t \in Txid : update_status(p, t)
      \/ \E h \in Process : Crash(h)
  BY DEF vars, Next, ThreadNext, ScanNext, scan_lock, read_tip, load_checkpoint, read_block,
     save_checkpoint, track_spends, end_scan, scan_error, EndScan, serve_start, start_reconcile,
     end_reconcile, after_scan, MineBlock, Reorg, SpendAndDie, scan
<1>10. Written /\ \A q \in Thread : Seen(q)
  BY <1>1, <1>2, <1>3, <1>4, <1>6, <1>7, <1>8, <1>9
<1> QED
  BY <1>10 DEF Written, Seen

-----------------------------------------------------------------------------
(* Confirmations.                                                          *)

\* The outputs of one transaction are mined together, below the tip.
HeightInv ==
    /\ \A o \in Output : at[o] <= tip
    /\ \A o, q \in Output : o.txid = q.txid => at[o] = at[q]

\* Only the chain itself moves the chain.
LEMMA ChainStep == [Next]_vars => \/ UNCHANGED <<tip, at, reorgs, anchored>>
                                  \/ MineBlock
                                  \/ Reorg
BY DEF vars, chain, Next, ThreadNext, ScanNext, open_ledger, scan_lock, read_tip, load_checkpoint,
     read_block, record_sp_received, save_checkpoint, track_spends, record_sp_spent, end_scan,
     scan_error, EndScan, serve_start, start_reconcile, update_status, end_reconcile, after_scan,
     Closed, Crash, SpendAndDie

LEMMA HeightStep ==
    ASSUME TypeInv, HeightInv, [Next]_vars
    PROVE  HeightInv'
<1>0. tip \in Nat /\ at \in [Output -> 0..MaxHeight] /\ \A o \in Output : at[o] \in Nat
  BY BoundNat DEF TypeInv, TypeOK, BirthHeight
<1>1. CASE MineBlock
  <2>1. PICK S \in SUBSET {o \in Output : at[o] = 0} :
            /\ WholeTxs(S)
            /\ at' = [o \in Output |-> IF o \in S THEN tip' ELSE at[o]]
    BY <1>1 DEF MineBlock
  <2>2. tip' = tip + 1
    BY <1>1 DEF MineBlock
  <2>3. \A o \in Output : at'[o] = IF o \in S THEN tip + 1 ELSE at[o]
    BY <2>1, <2>2
  <2>4. \A o, q \in Output : o.txid = q.txid => (o \in S <=> q \in S)
    BY <2>1 DEF WholeTxs
  <2> QED
    BY <1>0, <2>2, <2>3, <2>4 DEF HeightInv
<1>2. CASE Reorg
  <2>1. tip' = tip - 1 /\ \A o \in Output : at'[o] = IF at[o] = tip THEN 0 ELSE at[o]
    BY <1>2 DEF Reorg
  <2>2. tip >= 1
    BY <1>0, <1>2 DEF Reorg, BirthHeight
  <2> QED
    BY <1>0, <2>1, <2>2 DEF HeightInv
<1>3. UNCHANGED <<tip, at>> \/ MineBlock \/ Reorg
  BY ChainStep
<1>4. CASE UNCHANGED <<tip, at>>
  BY <1>4 DEF HeightInv
<1> QED
  BY <1>1, <1>2, <1>3, <1>4

\* chain::confirmations where the outputs of a transaction have one height.
LEMMA ConfirmationsAt ==
    ASSUME NEW a, NEW h, NEW o \in Output,
           \A q, r \in Output : q.txid = r.txid => a[q] = a[r]
    PROVE  (LET heights == {a[r] : r \in {q \in Output : q.txid = o.txid}}
            IN  IF 0 \in heights THEN 0 ELSE h - (CHOOSE x \in heights : TRUE) + 1)
           = IF a[o] = 0 THEN 0 ELSE h - a[o] + 1
<1> DEFINE heights == {a[r] : r \in {q \in Output : q.txid = o.txid}}
<1>1. heights = {a[o]}
  BY Zenon
<1>2. 0 \in heights <=> a[o] = 0
  BY <1>1, Zenon
<1>3. (CHOOSE x \in heights : TRUE) = a[o]
  BY <1>1, Zenon
<1> QED
  BY <1>2, <1>3, Zenon

\* A block that is replaced takes one confirmation back; nothing else takes any.
LEMMA ConfirmationsStep ==
    ASSUME TypeInv, HeightInv, [Next]_vars, NEW t \in Txid
    PROVE  /\ confirmations(t) \in Nat /\ confirmations(t)' \in Nat
           /\ reorgs \in Nat /\ reorgs' \in Nat /\ reorgs' >= reorgs
           /\ confirmations(t)' + (reorgs' - reorgs) >= confirmations(t)
<1>1. PICK o \in Output : o.txid = t
  BY DEF Txid
<1>2. HeightInv' /\ TypeInv'
  BY HeightStep, TypeStep
<1>3. confirmations(t) = IF at[o] = 0 THEN 0 ELSE tip - at[o] + 1
  BY <1>1, ConfirmationsAt DEF HeightInv, confirmations
<1>4. confirmations(t)' = IF at'[o] = 0 THEN 0 ELSE tip' - at'[o] + 1
  BY <1>1, <1>2, ConfirmationsAt DEF HeightInv, confirmations
<1>5. /\ tip \in Nat /\ tip' \in Nat /\ at[o] \in Nat /\ at'[o] \in Nat
      /\ reorgs \in Nat /\ reorgs' \in Nat
      /\ at[o] <= tip /\ at'[o] <= tip'
  BY <1>2, BoundNat DEF TypeInv, TypeOK, HeightInv, BirthHeight
<1>6. CASE UNCHANGED <<tip, at, reorgs>>
  BY <1>3, <1>4, <1>5, <1>6
<1>7. CASE MineBlock
  <2>1. tip' = tip + 1 /\ reorgs' = reorgs
    BY <1>7 DEF MineBlock
  <2>2. at'[o] = at[o] \/ at[o] = 0
    BY <1>7 DEF MineBlock
  <2> QED
    BY <1>3, <1>4, <1>5, <2>1, <2>2
<1>8. CASE Reorg
  <2>1. /\ tip' = tip - 1 /\ reorgs' = reorgs + 1
        /\ at'[o] = IF at[o] = tip THEN 0 ELSE at[o]
    BY <1>8 DEF Reorg
  <2> QED
    BY <1>3, <1>4, <1>5, <2>1
<1>9. UNCHANGED <<tip, at, reorgs>> \/ MineBlock \/ Reorg
  BY ChainStep
<1> QED
  BY <1>6, <1>7, <1>8, <1>9

\* What makes SpendableIsFinal inductive: it holds of every txid the file calls
\* Final, whether its outputs are spent or not.
FinalInv ==
    \A t \in Txid : latest_status(disk, t) = "Final" => confirmations(t) >= FinalDepth - reorgs

LEMMA FinalStep ==
    ASSUME TypeInv, HeightInv, FinalInv, [Next]_vars
    PROVE  FinalInv'
<1>0. disk \in Seq(Entry)
  BY DEF TypeInv, TypeOK
<1> SUFFICES ASSUME NEW t \in Txid, latest_status(disk', t) = "Final"
             PROVE  confirmations(t)' >= FinalDepth - reorgs'
  BY DEF FinalInv
<1>1. /\ confirmations(t) \in Nat /\ confirmations(t)' \in Nat
      /\ reorgs \in Nat /\ reorgs' \in Nat /\ reorgs' >= reorgs
      /\ confirmations(t)' + (reorgs' - reorgs) >= confirmations(t)
  BY ConfirmationsStep
<1>2. CASE latest_status(disk, t) = "Final"
  BY <1>1, <1>2 DEF FinalInv, FinalDepth
<1>3. CASE latest_status(disk, t) # "Final"
  <2>1. PICK e \in Entry :
           /\ disk' = Append(disk, e)
           /\ \/ e.kind = "SpReceived" /\ e.status = "Pending"
              \/ e.kind = "SpSpent"
              \/ \E u \in Txid, n \in Nat :
                   e = StatusUpdate(n, u, from_confirmations(confirmations(u)))
    BY <1>3, WriteStep DEF Allowed
  <2>2. Mentions(e, t) /\ e.status = "Final"
    BY <1>0, <1>3, <2>1, LatestAppend
  <2>3. PICK u \in Txid, n \in Nat : e = StatusUpdate(n, u, from_confirmations(confirmations(u)))
    BY <2>1, <2>2 DEF Mentions
  <2>4. u = t /\ from_confirmations(confirmations(t)) = "Final"
    BY <2>2, <2>3 DEF Mentions, StatusUpdate
  <2>5. confirmations(t) >= FinalDepth
    BY <1>1, <2>4 DEF from_confirmations, FinalDepth
  <2> QED
    BY <1>1, <2>5 DEF FinalDepth
<1> QED
  BY <1>2, <1>3

LEMMA FinalInit == Init => HeightInv /\ FinalInv
<1> SUFFICES ASSUME Init PROVE HeightInv /\ FinalInv
  OBVIOUS
<1>1. HeightInv
  BY DEF Init, HeightInv, BirthHeight
<1>2. FinalInv
  BY EmptyLedger DEF Init, FinalInv, NoStatus
<1> QED
  BY <1>1, <1>2

LEMMA FinalAlways == Spec => [](HeightInv /\ FinalInv)
<1>1. TypeInv /\ HeightInv /\ FinalInv /\ [Next]_vars => HeightInv' /\ FinalInv'
  BY HeightStep, FinalStep
<1> QED
  BY <1>1, FinalInit, TypeAlways, PTL DEF Spec

\* What the file calls spendable has the confirmations of Final, but for one per
\* replaced block (Ledger::sp_utxos, ledger::reconcile), with any number of
\* threads and processes that book, scan and reconcile at the same time.
THEOREM SpendableIsFinalHolds == Spec => []SpendableIsFinal
<1>1. TypeInv /\ FinalInv => SpendableIsFinal
  <2> SUFFICES ASSUME TypeInv, FinalInv, NEW i \in sp_utxos(disk)
               PROVE  confirmations(disk[i].txid) >= FinalDepth - reorgs
    BY DEF SpendableIsFinal
  <2>1. i \in 1..Len(disk) /\ latest_status(disk, disk[i].txid) = "Final"
    BY Zenon DEF sp_utxos, Of
  <2>2. disk[i] \in Entry
    BY <2>1 DEF TypeInv, TypeOK
  <2> QED
    BY <2>1, <2>2, EntryFacts DEF FinalInv
<1> QED
  BY <1>1, FinalAlways, TypeAlways, PTL

-----------------------------------------------------------------------------
(* Income and the checkpoint.                                              *)

\* What a pass believes booked is booked: its view is a part of the file.
ViewInv ==
    \A p \in Thread : \A o \in Output :
        has_sp_output(mem[p], Point(o)) => has_sp_output(disk, Point(o))

LEMMA ViewStep ==
    ASSUME TypeInv, ViewInv, [Next]_vars
    PROVE  /\ ViewInv'
           /\ \A o \in Output : has_sp_output(disk, Point(o)) => has_sp_output(disk', Point(o))
<1>0. disk \in Seq(Entry) /\ \A p \in Thread : mem[p] \in Seq(Entry)
  BY DEF TypeInv, TypeOK
<1>1. \A o \in Output : has_sp_output(disk, Point(o)) => has_sp_output(disk', Point(o))
  <2>1. disk' = disk \/ \E e \in Entry : disk' = Append(disk, e)
    BY WriteStep
  <2> QED
    BY <1>0, <2>1, HasAppend
<1>2. ASSUME NEW p \in Thread, NEW o \in Output, has_sp_output(mem'[p], Point(o))
      PROVE  has_sp_output(disk', Point(o))
  <2>1. \/ mem'[p] = mem[p]
        \/ mem'[p] = <<>>
        \/ mem'[p] = disk /\ disk' = disk
        \/ \E e \in Entry : mem'[p] = Append(mem[p], e) /\ disk' = Append(disk, e)
    BY WriteStep
  <2>2. CASE mem'[p] = mem[p]
    BY <1>1, <1>2, <2>2 DEF ViewInv
  <2>3. CASE mem'[p] = <<>>
    BY <1>2, <2>3, HasNothing
  <2>4. CASE mem'[p] = disk /\ disk' = disk
    BY <1>2, <2>4
  <2>5. ASSUME NEW e \in Entry, mem'[p] = Append(mem[p], e), disk' = Append(disk, e)
        PROVE  has_sp_output(disk', Point(o))
    <3>1. has_sp_output(mem[p], Point(o)) \/ (e.kind = "SpReceived" /\ Outpoint(e) = Point(o))
      BY <1>0, <1>2, <2>5, HasAppend
    <3>2. has_sp_output(disk, Point(o)) \/ (e.kind = "SpReceived" /\ Outpoint(e) = Point(o))
      BY <3>1 DEF ViewInv
    <3> QED
      BY <1>0, <2>5, <3>2, HasAppend
  <2> QED
    BY <2>1, <2>2, <2>3, <2>4, <2>5
<1> QED
  BY <1>1, <1>2 DEF ViewInv

\* An output worth booking in a block below h.
Due(o, h) == o.sats >= DUST_FLOOR /\ at[o] # 0 /\ at[o] < h

\* What makes IncomeBooked inductive.  A pass never goes beyond the chain, so a
\* new block is above every checkpoint and every pass; and what is due below
\* the next block of a pass is in the file or still to be looked at.
WalkInv ==
    anchored /\ reorgs = 0 =>
        /\ checkpoint \in Nat /\ checkpoint <= tip
        /\ \A p \in Thread : top[p] <= tip /\ height[p] <= tip + 1
        /\ \A p \in Thread : \A o \in Output : pc[p] = "blocks" /\ Due(o, height[p])
               => has_sp_output(disk, Point(o)) \/ o \in todo[p]
        /\ \A o \in Output : Due(o, checkpoint + 1) => has_sp_output(disk, Point(o))

\* The steps of a thread other than the three that move along the chain: no
\* pass enters the walk, and what a pass drops from its list is booked.
LEMMA WalkKept ==
    ASSUME TypeInv, ViewInv, [Next]_vars, UNCHANGED <<tip, at>>,
           \A p \in Thread : ~load_checkpoint(p) /\ ~read_block(p) /\ ~save_checkpoint(p)
    PROVE  /\ UNCHANGED <<checkpoint, anchored, reorgs>>
           /\ \A q \in Thread :
                /\ top'[q] \in {top[q], 0, tip}
                /\ height'[q] \in {height[q], 0}
                /\ pc'[q] = "blocks" =>
                     /\ pc[q] = "blocks" /\ height'[q] = height[q]
                     /\ \A o \in todo[q] : o \in todo'[q] \/ has_sp_output(disk', Point(o))
<1> DEFINE Kept(q) == /\ top'[q] \in {top[q], 0, tip}
                      /\ height'[q] \in {height[q], 0}
                      /\ pc'[q] = "blocks" =>
                           /\ pc[q] = "blocks" /\ height'[q] = height[q]
                           /\ \A o \in todo[q] : o \in todo'[q] \/ has_sp_output(disk', Point(o))
<1>0. /\ pc \in [Thread -> {"idle", "ready", "reconciled", "opened", "scanned", "statuses"} \cup InPass]
      /\ top \in [Thread -> 0..MaxHeight]
      /\ height \in [Thread -> 0..(MaxHeight + 1)]
      /\ todo \in [Thread -> SUBSET Output]
  BY DEF TypeInv, TypeOK
<1>t. tip \in Nat
  BY BoundNat DEF TypeInv, TypeOK, BirthHeight
<1>1. ASSUME NEW p \in Thread, open_ledger(p) \/ scan_lock(p) \/ serve_start(p) \/ start_reconcile(p)
      PROVE  \A q \in Thread : Kept(q)
  BY <1>0, <1>1 DEF open_ledger, scan_lock, serve_start, start_reconcile, Goto, scan
<1>2. ASSUME NEW p \in Thread, read_tip(p) PROVE \A q \in Thread : Kept(q)
  BY <1>0, <1>2 DEF read_tip, Goto
<1>3. ASSUME NEW p \in Thread, NEW o \in Output, record_sp_received(p, o)
      PROVE  \A q \in Thread : Kept(q)
  <2>1. has_sp_output(disk', Point(o))
    <3>1. CASE has_sp_output(mem[p], Point(o))
      BY <3>1, ViewStep DEF ViewInv
    <3>2. CASE ~has_sp_output(mem[p], Point(o))
      <4> DEFINE n == next_seq(mem[p])
                 e == SpReceived(n, o.txid, o.vout, o.sats)
      <4>1. disk' = Append(disk, e)
        BY <1>3, <3>2 DEF record_sp_received, append
      <4>2. e \in Entry
        BY SeqType, WrittenTypes DEF TypeInv, TypeOK
      <4>3. e.kind = "SpReceived" /\ Outpoint(e) = Point(o)
        BY DEF SpReceived, Outpoint, Point
      <4> HIDE DEF e
      <4>4. disk \in Seq(Entry)
        BY DEF TypeInv, TypeOK
      <4> QED
        BY <4>1, <4>2, <4>3, <4>4, HasAppend
    <3> QED
      BY <3>1, <3>2
  <2>2. /\ UNCHANGED <<pc, top, height>>
        /\ \A q \in Thread : \A r \in todo[q] : r \in todo'[q] \/ r = o
    BY <1>0, <1>3 DEF record_sp_received
  <2> QED
    BY <2>1, <2>2
<1>4. ASSUME NEW p \in Thread, track_spends(p) PROVE \A q \in Thread : Kept(q)
  <2>1. UNCHANGED <<top, height>>
    BY <1>4 DEF track_spends
  <2>2. \A q \in Thread : pc'[q] = "blocks" => pc[q] = "blocks" /\ todo'[q] = todo[q]
    BY <1>0, <1>4 DEF track_spends, Goto
  <2> QED
    BY <2>1, <2>2
<1>5. ASSUME NEW p \in Thread, NEW o \in Output, record_sp_spent(p, o)
      PROVE  \A q \in Thread : Kept(q)
  <2>1. UNCHANGED <<pc, top, height>>
    BY <1>5 DEF record_sp_spent
  <2>2. \A q \in Thread : pc[q] = "blocks" => todo'[q] = todo[q]
    BY <1>0, <1>5 DEF record_sp_spent
  <2> QED
    BY <2>1, <2>2
<1>6. ASSUME NEW p \in Thread, EndScan(p) PROVE \A q \in Thread : Kept(q)
  BY <1>0, <1>6 DEF EndScan, Goto
<1>7. ASSUME NEW p \in Thread, NEW t \in Txid, update_status(p, t) PROVE \A q \in Thread : Kept(q)
  BY <1>7 DEF update_status
<1>8. ASSUME NEW p \in Thread, NEW step, step # "blocks", Goto(p, step), Closed(p)
      PROVE  \A q \in Thread : Kept(q)
  BY <1>0, <1>8 DEF Goto, Closed
<1>9. ASSUME NEW p \in Thread, end_reconcile(p) \/ after_scan(p) PROVE \A q \in Thread : Kept(q)
  <2>1. CASE \E step : step # "blocks" /\ Goto(p, step) /\ Closed(p)
    BY <1>8, <2>1
  <2>2. CASE Goto(p, "reconciled") /\ UNCHANGED scan
    BY <1>0, <2>2 DEF Goto, scan
  <2>3. \/ Goto(p, "reconciled") /\ UNCHANGED scan
        \/ Goto(p, "idle") /\ Closed(p)
        \/ Goto(p, "ready") /\ Closed(p)
    BY <1>9 DEF end_reconcile, after_scan
  <2> QED
    BY <2>1, <2>2, <2>3
<1>10. ASSUME NEW h \in Process, Crash(h) PROVE \A q \in Thread : Kept(q)
  <2>1. \A q \in Thread : \/ /\ pc'[q] = "idle" /\ top'[q] = 0 /\ height'[q] = 0
                          \/ /\ pc'[q] = pc[q] /\ top'[q] = top[q]
                             /\ height'[q] = height[q] /\ todo'[q] = todo[q]
    BY <1>10 DEF Crash
  <2> QED
    BY <2>1
<1>11. ASSUME SpendAndDie PROVE \A q \in Thread : Kept(q)
  BY <1>11 DEF SpendAndDie, scan
<1>12. ASSUME UNCHANGED vars PROVE \A q \in Thread : Kept(q)
  BY <1>12 DEF vars
<1>13. ~MineBlock /\ ~Reorg
  BY <1>t DEF MineBlock, Reorg
<1> HIDE DEF Kept
<1>14. \A q \in Thread : Kept(q)
  BY <1>1, <1>2, <1>3, <1>4, <1>5, <1>6, <1>7, <1>9, <1>10, <1>11, <1>12, <1>13
     DEF Next, ThreadNext, ScanNext, end_scan, scan_error
<1>15. UNCHANGED <<checkpoint, anchored, reorgs>>
  BY <1>13 DEF vars, chain, Next, ThreadNext, ScanNext, open_ledger, scan_lock, read_tip,
     record_sp_received, track_spends, record_sp_spent, end_scan, scan_error, EndScan, serve_start,
     start_reconcile, update_status, end_reconcile, after_scan, Closed, Crash, SpendAndDie
<1> QED
  BY <1>14, <1>15 DEF Kept

LEMMA WalkStep ==
    ASSUME TypeInv, HeightInv, ViewInv, WalkInv, [Next]_vars
    PROVE  WalkInv'
<1> SUFFICES ASSUME anchored', reorgs' = 0
             PROVE  /\ checkpoint' \in Nat /\ checkpoint' <= tip'
                    /\ \A p \in Thread : top'[p] <= tip' /\ height'[p] <= tip' + 1
                    /\ \A p \in Thread : \A o \in Output : pc'[p] = "blocks" /\ Due(o, height[p])'
                           => has_sp_output(disk', Point(o)) \/ o \in todo'[p]
                    /\ \A o \in Output : Due(o, checkpoint + 1)' => has_sp_output(disk', Point(o))
  BY DEF WalkInv
<1> DEFINE Goal == /\ checkpoint' \in Nat /\ checkpoint' <= tip'
                   /\ \A p \in Thread : top'[p] <= tip' /\ height'[p] <= tip' + 1
                   /\ \A p \in Thread : \A o \in Output : pc'[p] = "blocks" /\ Due(o, height[p])'
                          => has_sp_output(disk', Point(o)) \/ o \in todo'[p]
                   /\ \A o \in Output : Due(o, checkpoint + 1)' => has_sp_output(disk', Point(o))
<1>0. /\ pc \in [Thread -> {"idle", "ready", "reconciled", "opened", "scanned", "statuses"} \cup InPass]
      /\ top \in [Thread -> 0..MaxHeight]
      /\ height \in [Thread -> 0..(MaxHeight + 1)]
      /\ todo \in [Thread -> SUBSET Output]
      /\ at \in [Output -> 0..MaxHeight]
  BY DEF TypeInv, TypeOK
<1>t. /\ tip \in Nat /\ MaxHeight \in Nat /\ NoHeight \notin Nat
      /\ \A o \in Output : at[o] \in Nat /\ at[o] <= tip
  BY <1>0, BoundNat, ConstAssumption DEF TypeInv, TypeOK, BirthHeight, HeightInv
<1>n. \A p \in Thread : top[p] \in Nat /\ height[p] \in Nat
  BY <1>0, <1>t
<1>a. anchored /\ reorgs = 0
  <2>1. reorgs \in Nat
    BY BoundNat DEF TypeInv, TypeOK
  <2>2. MineBlock \/ Reorg => anchored' = anchored /\ (reorgs' = reorgs \/ reorgs' = reorgs + 1)
    BY DEF MineBlock, Reorg
  <2>3. anchored' = anchored /\ (reorgs' = reorgs \/ reorgs' = reorgs + 1)
    BY <2>2, ChainStep, Zenon
  <2>4. reorgs = 0
    BY <2>1, <2>3
  <2>5. anchored
    BY <2>3, Zenon
  <2> QED
    BY <2>4, <2>5
<1>w. /\ checkpoint \in Nat /\ checkpoint <= tip
      /\ \A p \in Thread : top[p] <= tip /\ height[p] <= tip + 1
      /\ \A p \in Thread : \A o \in Output : pc[p] = "blocks" /\ Due(o, height[p])
             => has_sp_output(disk, Point(o)) \/ o \in todo[p]
      /\ \A o \in Output : Due(o, checkpoint + 1) => has_sp_output(disk, Point(o))
  BY <1>a DEF WalkInv
<1>d. \A o \in Output : has_sp_output(disk, Point(o)) => has_sp_output(disk', Point(o))
  BY ViewStep
<1>1. ASSUME NEW p \in Thread, load_checkpoint(p) PROVE Goal
  <2>1. /\ UNCHANGED <<tip, at, disk, checkpoint, top, todo>>
        /\ \A q \in Thread : pc'[q] = IF q = p THEN "blocks" ELSE pc[q]
        /\ \A q \in Thread : height'[q] = IF q = p THEN checkpoint + 1 ELSE height[q]
    BY <1>0, <1>t, <1>w, <1>1 DEF load_checkpoint, Goto, chain
  <2> QED
    BY <1>t, <1>n, <1>w, <2>1 DEF Due
<1>2. ASSUME NEW p \in Thread, read_block(p) PROVE Goal
  <2>1. /\ UNCHANGED <<tip, at, disk, checkpoint, top, pc>>
        /\ todo[p] = {} /\ height[p] <= top[p]
        /\ \A q \in Thread : height'[q] = IF q = p THEN height[p] + 1 ELSE height[q]
        /\ \A q \in Thread : q # p => todo'[q] = todo[q]
    BY <1>0, <1>2 DEF read_block, chain
  <2>4. todo'[p] = {o \in tx_matches(height[p]) : o.sats >= DUST_FLOOR}
    BY <1>0, <1>2 DEF read_block
  <2>5. \A o \in Output : height[p] > 0 /\ at[o] = height[p] /\ o.sats >= DUST_FLOOR => o \in todo'[p]
    BY <2>4, Zenon DEF tx_matches
  <2>2. ASSUME NEW o \in Output, pc'[p] = "blocks", Due(o, height[p])'
        PROVE  has_sp_output(disk', Point(o)) \/ o \in todo'[p]
    <3>1. CASE at[o] = height[p]
      BY <1>t, <1>n, <2>1, <2>2, <2>5, <3>1 DEF Due
    <3>2. CASE at[o] # height[p]
      BY <1>t, <1>n, <1>w, <2>1, <2>2, <3>2 DEF Due
    <3> QED
      BY <3>1, <3>2
  <2>3. ASSUME NEW q \in Thread, NEW o \in Output, q # p, pc'[q] = "blocks", Due(o, height[q])'
        PROVE  has_sp_output(disk', Point(o)) \/ o \in todo'[q]
    BY <1>w, <2>1, <2>3 DEF Due
  <2> QED
    BY <1>t, <1>n, <1>w, <2>1, <2>2, <2>3 DEF Due
<1>3. ASSUME NEW p \in Thread, save_checkpoint(p) PROVE Goal
  <2>1. /\ UNCHANGED <<tip, at, disk, top, height, todo>> /\ checkpoint' = top[p]
        /\ pc[p] = "blocks" /\ todo[p] = {} /\ height[p] > top[p]
        /\ \A q \in Thread : pc'[q] = IF q = p THEN "saved" ELSE pc[q]
    BY <1>0, <1>3 DEF save_checkpoint, Goto, chain, scan
  <2>2. \A o \in Output : Due(o, checkpoint + 1)' => Due(o, height[p])
    BY <1>t, <1>n, <2>1 DEF Due
  <2> QED
    BY <1>t, <1>n, <1>w, <2>1, <2>2 DEF Due
<1>4. ASSUME MineBlock PROVE Goal
  <2>1. /\ UNCHANGED <<disk, checkpoint, pc, top, height, todo>> /\ tip' = tip + 1
        /\ \A o \in Output : at'[o] = at[o] \/ at'[o] = tip + 1
    BY <1>0, <1>4 DEF MineBlock, scan
  <2>2. \A o \in Output : \A h \in Nat : h <= tip + 1 /\ Due(o, h)' => Due(o, h)
    BY <1>t, <2>1 DEF Due
  <2>3. ASSUME NEW p \in Thread, NEW o \in Output, pc'[p] = "blocks", Due(o, height[p])'
        PROVE  has_sp_output(disk', Point(o)) \/ o \in todo'[p]
    BY <1>t, <1>n, <1>w, <2>1, <2>3 DEF Due
  <2>4. ASSUME NEW o \in Output, Due(o, checkpoint + 1)' PROVE has_sp_output(disk', Point(o))
    BY <1>t, <1>n, <1>w, <2>1, <2>4 DEF Due
  <2> QED
    BY <1>t, <1>n, <1>w, <2>1, <2>3, <2>4
<1>5. ASSUME Reorg PROVE Goal
  BY <1>a, <1>5 DEF Reorg
<1>6. ASSUME UNCHANGED <<tip, at>>,
             \A p \in Thread : ~load_checkpoint(p) /\ ~read_block(p) /\ ~save_checkpoint(p)
      PROVE  Goal
  <2>1. /\ UNCHANGED <<checkpoint, anchored, reorgs>>
        /\ \A q \in Thread :
             /\ top'[q] \in {top[q], 0, tip}
             /\ height'[q] \in {height[q], 0}
             /\ pc'[q] = "blocks" =>
                  /\ pc[q] = "blocks" /\ height'[q] = height[q]
                  /\ \A o \in todo[q] : o \in todo'[q] \/ has_sp_output(disk', Point(o))
    BY <1>6, WalkKept
  <2>2. ASSUME NEW p \in Thread, NEW o \in Output, pc'[p] = "blocks", Due(o, height[p])'
        PROVE  has_sp_output(disk', Point(o)) \/ o \in todo'[p]
    <3>1. pc[p] = "blocks" /\ Due(o, height[p])
      BY <1>6, <2>1, <2>2 DEF Due
    <3> QED
      BY <1>d, <1>w, <2>1, <2>2, <3>1
  <2>3. ASSUME NEW o \in Output, Due(o, checkpoint + 1)' PROVE has_sp_output(disk', Point(o))
    BY <1>d, <1>w, <1>6, <2>1, <2>3 DEF Due
  <2>4. \A p \in Thread : top'[p] <= tip' /\ height'[p] <= tip' + 1
    BY <1>t, <1>n, <1>w, <1>6, <2>1
  <2> QED
    BY <1>w, <1>6, <2>1, <2>2, <2>3, <2>4
<1>7. UNCHANGED <<tip, at>> \/ MineBlock \/ Reorg
  BY ChainStep
<1> HIDE DEF Goal
<1>8. Goal
  BY <1>1, <1>2, <1>3, <1>4, <1>5, <1>6, <1>7
<1> QED
  BY <1>8 DEF Goal

LEMMA WalkInit == Init => ViewInv /\ WalkInv
<1> SUFFICES ASSUME Init PROVE ViewInv /\ WalkInv
  OBVIOUS
<1>1. ViewInv
  BY HasNothing DEF Init, ViewInv
<1>2. WalkInv
  BY DEF Init, WalkInv, Due, anchor_birth, BirthHeight
<1> QED
  BY <1>1, <1>2

LEMMA WalkAlways == Spec => [](ViewInv /\ WalkInv)
<1>1. TypeInv /\ HeightInv /\ ViewInv /\ WalkInv /\ [Next]_vars => ViewInv' /\ WalkInv'
  BY ViewStep, WalkStep
<1> QED
  BY <1>1, WalkInit, TypeAlways, FinalAlways, PTL DEF Spec

\* The checkpoint never passes income by (scan::scan_to_tip, save_checkpoint):
\* while no scanned block was replaced, every output worth booking at or below
\* the checkpoint of an anchored wallet is in the file, whatever threads and
\* processes scan at the same time, fail or die.
THEOREM IncomeBookedHolds == Spec => []IncomeBooked
<1>1. TypeInv /\ WalkInv => IncomeBooked
  <2> SUFFICES ASSUME TypeInv, WalkInv, anchored, reorgs = 0, NEW o \in Output,
                      o.sats >= DUST_FLOOR, at[o] # 0, at[o] <= checkpoint
               PROVE  has_sp_output(disk, Point(o))
    BY DEF IncomeBooked
  <2>1. at[o] \in Nat /\ checkpoint \in Nat
    BY BoundNat DEF TypeInv, TypeOK, WalkInv
  <2>2. Due(o, checkpoint + 1)
    BY <2>1 DEF Due
  <2> QED
    BY <2>2 DEF WalkInv
<1> QED
  BY <1>1, WalkAlways, TypeAlways, PTL

-----------------------------------------------------------------------------
(* Income is booked once.                                                  *)

\* A step books nothing twice if the pass that books knows what it has booked.
LEMMA BookedOnce ==
    ASSUME TypeInv, NoDoubleBooking, [Next]_vars,
           \A p \in Thread, o \in Output :
               record_sp_received(p, o) /\ has_sp_output(disk, Point(o)) => has_sp_output(mem[p], Point(o))
    PROVE  NoDoubleBooking'
<1>0. disk \in Seq(Entry)
  BY DEF TypeInv, TypeOK
<1>1. CASE disk' = disk
  BY <1>1 DEF NoDoubleBooking
<1>2. ASSUME NEW e \in Entry, disk' = Append(disk, e),
             e.kind = "SpReceived" => \E p \in Thread, o \in Output : Books(p, o, e)
      PROVE  NoDoubleBooking'
  <2>1. e.kind = "SpReceived" => ~has_sp_output(disk, Outpoint(e))
    BY <1>2, Zenon DEF Books
  <2>2. \A i, j \in Of(disk, "SpReceived") : Outpoint(disk[i]) = Outpoint(disk[j]) => i = j
    BY DEF NoDoubleBooking
  <2>3. \A i, j \in Of(Append(disk, e), "SpReceived") :
            Outpoint(Append(disk, e)[i]) = Outpoint(Append(disk, e)[j]) => i = j
    BY <1>0, <2>1, <2>2, OnceAppend
  <2> QED
    BY <1>2, <2>3 DEF NoDoubleBooking
<1>3. \/ disk' = disk
      \/ \E e \in Entry : /\ disk' = Append(disk, e)
                          /\ e.kind = "SpReceived" => \E p \in Thread, o \in Output : Books(p, o, e)
  <2>1. \A e : Allowed(e) => (e.kind = "SpReceived" => \E p \in Thread, o \in Output : Books(p, o, e))
    BY DEF Allowed, StatusUpdate
  <2> QED
    BY <2>1, WriteStep
<1> QED
  BY <1>1, <1>2, <1>3

\* One thread scans: `cm' commands one after another, or a daemon alone.
OneScanner == \A p, q \in Thread : p = q

\* From the opening of the ledger to the end of the report.
HasView(p) == \/ pc[p] \in {"opened", "scanned"} \cup InPass
              \/ p \notin Daemon /\ pc[p] = "statuses"

\* The view of the only thread is the file.
SoleInv == \A p \in Thread : HasView(p) => mem[p] = disk

LEMMA SoleStep ==
    ASSUME OneScanner, TypeInv, SoleInv, [Next]_vars
    PROVE  SoleInv'
<1> SUFFICES ASSUME NEW p \in Thread, HasView(p)' PROVE mem'[p] = disk'
  BY DEF SoleInv
<1>0. /\ pc \in [Thread -> {"idle", "ready", "reconciled", "opened", "scanned", "statuses"} \cup InPass]
      /\ mem \in [Thread -> Seq(Entry)]
      /\ \A q \in Thread : q = p
  BY DEF TypeInv, TypeOK, OneScanner
<1>1. CASE open_ledger(p)
  BY <1>0, <1>1 DEF open_ledger
<1>2. ASSUME HasView(p), UNCHANGED <<disk, mem>> PROVE mem'[p] = disk'
  BY <1>2 DEF SoleInv
<1>3. CASE scan_lock(p) \/ read_tip(p) \/ load_checkpoint(p) \/ read_block(p) \/ save_checkpoint(p)
           \/ track_spends(p) \/ end_scan(p) \/ scan_error(p)
  BY <1>2, <1>3 DEF scan_lock, read_tip, load_checkpoint, read_block, save_checkpoint, track_spends,
     end_scan, scan_error, EndScan, scan, HasView, InPass
<1>4. ASSUME NEW e, append(p, e), HasView(p) PROVE mem'[p] = disk'
  BY <1>0, <1>4 DEF append, SoleInv
<1>5. ASSUME NEW o \in Output, record_sp_received(p, o) PROVE mem'[p] = disk'
  BY <1>2, <1>4, <1>5 DEF record_sp_received, HasView, InPass
<1>6. ASSUME NEW o \in Output, record_sp_spent(p, o) PROVE mem'[p] = disk'
  BY <1>2, <1>4, <1>6 DEF record_sp_spent, HasView, InPass
<1>7. CASE serve_start(p) \/ after_scan(p)
  BY <1>0, <1>7 DEF serve_start, after_scan, Goto, HasView, InPass
<1>8. CASE start_reconcile(p)
  BY <1>0, <1>2, <1>8 DEF start_reconcile, Goto, scan, HasView, InPass
<1>9. ASSUME NEW t \in Txid, update_status(p, t) PROVE mem'[p] = disk'
  <2>1. pc[p] = "statuses" /\ UNCHANGED pc
    BY <1>9 DEF update_status
  <2>2. p \notin Daemon /\ HasView(p)
    BY <2>1 DEF HasView, InPass
  <2>3. UNCHANGED <<disk, mem>> \/ \E e : append(p, e)
    BY <1>9, <2>2 DEF update_status, append
  <2> QED
    BY <1>2, <1>4, <2>2, <2>3
<1>10. CASE end_reconcile(p)
  BY <1>0, <1>10 DEF end_reconcile, Goto, HasView, InPass
<1>11. ASSUME NEW h \in Process, Crash(h) PROVE mem'[p] = disk'
  <2>1. pc'[p] = "idle"
    BY <1>0, <1>11 DEF Crash
  <2> QED
    BY <2>1 DEF HasView, InPass
<1>12. CASE MineBlock \/ Reorg \/ SpendAndDie \/ UNCHANGED vars
  BY <1>2, <1>12 DEF MineBlock, Reorg, SpendAndDie, vars, scan, HasView
<1> QED
  BY <1>0, <1>1, <1>3, <1>5, <1>6, <1>7, <1>8, <1>9, <1>10, <1>11, <1>12
     DEF Next, ThreadNext, ScanNext

\* One scanning thread books no outpoint twice (Ledger::record_sp_received),
\* whatever passes fail, whenever it dies, and when blocks are replaced under it
\* and scanned again.
THEOREM NoDoubleBookingAlone ==
    ASSUME OneScanner
    PROVE  Spec => []NoDoubleBooking
<1>1. Init => SoleInv /\ NoDoubleBooking
  BY DEF Init, SoleInv, HasView, InPass, NoDoubleBooking, Of
<1>2. ASSUME TypeInv, SoleInv, NoDoubleBooking, [Next]_vars PROVE SoleInv' /\ NoDoubleBooking'
  <2>1. \A p \in Thread, o \in Output :
           record_sp_received(p, o) /\ has_sp_output(disk, Point(o)) => has_sp_output(mem[p], Point(o))
    BY <1>2 DEF record_sp_received, SoleInv, HasView, InPass
  <2>2. SoleInv'
    BY <1>2, SoleStep
  <2> QED
    BY <1>2, <2>1, <2>2, BookedOnce
<1> QED
  BY <1>1, <1>2, TypeAlways, PTL DEF Spec

\* Threads of one process, which share SCAN_LOCK; no pass fails and no block is
\* replaced.  An outpoint names one output.
SharedLock ==
    /\ \A p, q \in Thread : Host[p] = Host[q]
    /\ MaxErrors = 0 /\ MaxReorgs = 0
    /\ \A o, q \in Output : Point(o) = Point(q) => o = q

\* The thread has opened its ledger and has not ended its pass.
Open(p) == pc[p] \in {"opened"} \cup InPass

HasCheckpoint == checkpoint # NoHeight

\* A pass is beyond the checkpoint and not beyond the tip it has read, and what
\* it has to look at is in the block it has read last.
PassInv(p) ==
    /\ pc[p] \notin {"blocks", "spends"} => todo[p] = {}
    /\ pc[p] \in {"synced", "blocks"} =>
         top[p] <= tip /\ (HasCheckpoint => checkpoint <= top[p])
    /\ pc[p] = "blocks" =>
         /\ height[p] <= top[p] + 1
         /\ HasCheckpoint => checkpoint < height[p]
         /\ \A o \in todo[p] : /\ at[o] # 0 /\ at[o] + 1 = height[p]
                               /\ HasCheckpoint => checkpoint < at[o]

\* An output that is booked is below the checkpoint, or the pass that is under
\* way has dealt with it, or every open ledger shows it.
Accounted(o) ==
    /\ at[o] # 0
    /\ \/ HasCheckpoint /\ at[o] <= checkpoint
       \/ \E p \in Thread : pc[p] = "blocks" /\ at[o] < height[p] /\ o \notin todo[p]
       \/ \A p \in Thread : Open(p) => has_sp_output(mem[p], Point(o))

SharedInv ==
    /\ HasCheckpoint => checkpoint <= tip
    /\ \A p \in Thread : PassInv(p)
    /\ \A o \in Output : has_sp_output(disk, Point(o)) => Accounted(o)

\* Only record_sp_received makes an output booked.
LEMMA NotBooked ==
    ASSUME TypeInv, [Next]_vars, \A p \in Thread, o \in Output : ~record_sp_received(p, o)
    PROVE  \A o \in Output : has_sp_output(disk', Point(o)) => has_sp_output(disk, Point(o))
<1>0. disk \in Seq(Entry)
  BY DEF TypeInv, TypeOK
<1>1. ASSUME NEW e \in Entry, disk' = Append(disk, e), Allowed(e)
      PROVE  \A o \in Output : has_sp_output(disk', Point(o)) => has_sp_output(disk, Point(o))
  <2>1. e.kind # "SpReceived"
    BY <1>1 DEF Allowed, Books, StatusUpdate
  <2> QED
    BY <1>0, <1>1, <2>1, HasAppend
<1> QED
  BY <1>1, WriteStep

\* At most one thread of the process is in a pass.
LEMMA OnePass ==
    ASSUME SharedLock, TypeInv, NEW p \in Thread, NEW q \in Thread,
           pc[p] \in InPass, pc[q] \in InPass
    PROVE  p = q
<1>1. lock[Host[p]] = p /\ lock[Host[q]] = q
  BY DEF TypeInv, TypeOK
<1> QED
  BY <1>1 DEF SharedLock

\* A thread stays where it is in its walk, or is not in one before and after,
\* and an open ledger keeps what it shows.
Still(q) ==
    /\ pc'[q] \in {"synced", "blocks"} =>
         pc'[q] = pc[q] /\ top'[q] = top[q] /\ height'[q] = height[q] /\ todo'[q] = todo[q]
    /\ pc[q] = "blocks" => pc'[q] = "blocks"
    /\ pc'[q] \notin {"blocks", "spends"} =>
         todo'[q] = {} \/ (todo'[q] = todo[q] /\ pc[q] \notin {"blocks", "spends"})
    /\ Open(q)' => \/ Open(q) /\ \A o \in Output : has_sp_output(mem[q], Point(o)) => has_sp_output(mem'[q], Point(o))
                   \/ \A o \in Output : has_sp_output(disk, Point(o)) => has_sp_output(mem'[q], Point(o))

LEMMA StillShared ==
    ASSUME SharedInv, UNCHANGED <<tip, at, checkpoint>>, \A q \in Thread : Still(q),
           \A o \in Output : has_sp_output(disk', Point(o)) => has_sp_output(disk, Point(o))
    PROVE  SharedInv'
<1>1. \A p \in Thread : PassInv(p)'
  <2> SUFFICES ASSUME NEW p \in Thread PROVE PassInv(p)'
    OBVIOUS
  <2>1. PassInv(p) /\ Still(p) /\ (HasCheckpoint' <=> HasCheckpoint)
    BY DEF SharedInv, HasCheckpoint
  <2> QED
    BY <2>1 DEF PassInv, Still
<1>2. ASSUME NEW o \in Output, has_sp_output(disk', Point(o)) PROVE Accounted(o)'
  <2>1. Accounted(o) /\ has_sp_output(disk, Point(o))
    BY <1>2 DEF SharedInv
  <2>2. CASE HasCheckpoint /\ at[o] <= checkpoint
    BY <2>1, <2>2 DEF Accounted, HasCheckpoint
  <2>3. ASSUME NEW p \in Thread, pc[p] = "blocks", at[o] < height[p], o \notin todo[p]
        PROVE  Accounted(o)'
    <3>1. pc'[p] = "blocks" /\ height'[p] = height[p] /\ todo'[p] = todo[p]
      BY <2>3 DEF Still
    <3> QED
      BY <2>1, <2>3, <3>1 DEF Accounted
  <2>4. CASE \A p \in Thread : Open(p) => has_sp_output(mem[p], Point(o))
    <3>1. \A p \in Thread : Open(p)' => has_sp_output(mem'[p], Point(o))
      BY <2>1, <2>4 DEF Still
    <3> QED
      BY <2>1, <3>1 DEF Accounted
  <2> QED
    BY <2>1, <2>2, <2>3, <2>4 DEF Accounted
<1>3. HasCheckpoint' => checkpoint' <= tip'
  BY DEF SharedInv, HasCheckpoint
<1> QED
  BY <1>1, <1>2, <1>3 DEF SharedInv

LEMMA SharedStep ==
    ASSUME SharedLock, TypeInv, SharedInv, [Next]_vars
    PROVE  SharedInv'
<1>0. /\ pc \in [Thread -> {"idle", "ready", "reconciled", "opened", "scanned", "statuses"} \cup InPass]
      /\ mem \in [Thread -> Seq(Entry)]
      /\ top \in [Thread -> 0..MaxHeight]
      /\ height \in [Thread -> 0..(MaxHeight + 1)]
      /\ todo \in [Thread -> SUBSET Output]
      /\ at \in [Output -> 0..MaxHeight]
      /\ disk \in Seq(Entry)
  BY DEF TypeInv, TypeOK
<1>t. /\ tip \in Nat /\ MaxHeight \in Nat /\ NoHeight \notin Nat
      /\ HasCheckpoint => checkpoint \in Nat
      /\ \A o \in Output : at[o] \in Nat
      /\ \A p \in Thread : top[p] \in Nat /\ height[p] \in Nat
  BY <1>0, BoundNat, ConstAssumption DEF TypeInv, TypeOK, BirthHeight, HasCheckpoint
<1>i. /\ HasCheckpoint => checkpoint <= tip
      /\ \A p \in Thread : PassInv(p)
      /\ \A o \in Output : has_sp_output(disk, Point(o)) => Accounted(o)
  BY DEF SharedInv
<1>b. (\A p \in Thread, o \in Output : ~record_sp_received(p, o)) =>
        \A o \in Output : has_sp_output(disk', Point(o)) => has_sp_output(disk, Point(o))
  BY NotBooked
\* Steps outside the walk.
<1>1. ASSUME NEW p \in Thread, open_ledger(p) PROVE \A q \in Thread : Still(q)
  BY <1>0, <1>1, <1>i DEF open_ledger, Goto, Still, Open, InPass, PassInv
<1>2. ASSUME NEW p \in Thread, scan_lock(p) \/ serve_start(p) \/ start_reconcile(p)
      PROVE  \A q \in Thread : Still(q)
  <2>1. UNCHANGED <<mem, top, height, todo>>
    BY <1>2 DEF scan_lock, serve_start, start_reconcile, scan
  <2>2. PICK step \in {"locked", "ready", "statuses"} : /\ Goto(p, step)
                                                        /\ step = "locked" => pc[p] = "opened"
                                                        /\ pc[p] \notin {"synced"} \cup {"blocks", "spends"}
    BY <1>2 DEF scan_lock, serve_start, start_reconcile
  <2> QED
    BY <1>0, <1>i, <2>1, <2>2 DEF Goto, Still, Open, InPass, PassInv
<1>3. ASSUME NEW p \in Thread, track_spends(p) PROVE \A q \in Thread : Still(q)
  <2>1. /\ UNCHANGED <<mem, top, height>> /\ pc[p] = "saved"
        /\ \A q \in Thread : pc'[q] = IF q = p THEN "spends" ELSE pc[q]
        /\ \A q \in Thread : q # p => todo'[q] = todo[q]
    BY <1>0, <1>3 DEF track_spends, Goto
  <2> QED
    BY <1>i, <2>1 DEF Still, Open, InPass, PassInv
<1>4. ASSUME NEW p \in Thread, NEW e \in Entry, append(p, e)
      PROVE  \A q \in Thread : \A o \in Output :
                 has_sp_output(mem[q], Point(o)) => has_sp_output(mem'[q], Point(o))
  <2>1. \A q \in Thread : mem'[q] = IF q = p THEN Append(mem[p], e) ELSE mem[q]
    BY <1>0, <1>4 DEF append
  <2>2. \A o \in Output : has_sp_output(mem[p], Point(o)) => has_sp_output(Append(mem[p], e), Point(o))
    <3>1. mem[p] \in Seq(Entry)
      BY <1>0
    <3> QED
      BY <3>1, HasAppend
  <2> QED
    BY <2>1, <2>2
<1>5. ASSUME NEW p \in Thread, NEW o \in Output, record_sp_spent(p, o) PROVE \A q \in Thread : Still(q)
  <2>1. \A q \in Thread : \A r \in Output :
            has_sp_output(mem[q], Point(r)) => has_sp_output(mem'[q], Point(r))
    <3> DEFINE e == SpSpent(next_seq(mem[p]), o.txid, o.vout)
    <3>1. e \in Entry
      BY <1>0, SeqType, WrittenTypes
    <3>2. UNCHANGED mem \/ append(p, e)
      BY <1>5 DEF record_sp_spent
    <3> HIDE DEF e
    <3> QED
      BY <1>4, <3>1, <3>2
  <2>2. /\ UNCHANGED <<pc, top, height>> /\ pc[p] = "spends"
        /\ \A q \in Thread : q # p => todo'[q] = todo[q]
    BY <1>0, <1>5 DEF record_sp_spent
  <2> QED
    BY <1>i, <2>1, <2>2 DEF Still, Open, PassInv
<1>6. ASSUME NEW p \in Thread, end_scan(p) PROVE \A q \in Thread : Still(q)
  <2>1. /\ UNCHANGED <<mem, top, height>> /\ pc[p] = "spends"
        /\ \A q \in Thread : pc'[q] = IF q = p THEN "scanned" ELSE pc[q]
        /\ \A q \in Thread : todo'[q] = IF q = p THEN {} ELSE todo[q]
    BY <1>0, <1>6 DEF end_scan, EndScan, Goto
  <2> QED
    BY <1>i, <2>1 DEF Still, Open, InPass, PassInv
<1>7. ASSUME NEW p \in Thread, NEW t \in Txid, update_status(p, t) PROVE \A q \in Thread : Still(q)
  <2>1. \A q \in Thread : \A r \in Output :
            has_sp_output(mem[q], Point(r)) => has_sp_output(mem'[q], Point(r))
    <3> DEFINE n == next_seq(View(p))
               e == StatusUpdate(n, t, from_confirmations(confirmations(t)))
    <3>1. n \in Nat
      BY SeqType DEF View, TypeInv, TypeOK
    <3>2. e \in Entry
      <4> HIDE DEF n
      <4> QED
        BY <3>1, WrittenTypes
    <3>3. UNCHANGED mem \/ append(p, e)
      BY <1>7 DEF update_status, append
    <3> HIDE DEF e
    <3> QED
      BY <1>4, <3>2, <3>3
  <2>2. UNCHANGED <<pc, top, height, todo>>
    BY <1>7 DEF update_status
  <2> QED
    BY <1>i, <2>1, <2>2 DEF Still, Open, PassInv
<1>8. ASSUME NEW p \in Thread, end_reconcile(p) \/ after_scan(p) PROVE \A q \in Thread : Still(q)
  <2>1. PICK step \in {"reconciled", "idle", "ready"} :
            Goto(p, step) /\ (UNCHANGED scan \/ Closed(p)) /\ pc[p] \in {"statuses", "scanned"}
    BY <1>8 DEF end_reconcile, after_scan
  <2>2. \A q \in Thread : pc'[q] = IF q = p THEN step ELSE pc[q]
    BY <1>0, <2>1 DEF Goto
  <2>3. \A q \in Thread : q # p =>
            mem'[q] = mem[q] /\ top'[q] = top[q] /\ height'[q] = height[q] /\ todo'[q] = todo[q]
    BY <1>0, <2>1 DEF scan, Closed
  <2>4. todo'[p] = {}
    BY <1>0, <1>i, <2>1 DEF scan, Closed, PassInv
  <2> QED
    BY <1>i, <2>1, <2>2, <2>3, <2>4 DEF Still, Open, InPass, PassInv
<1>9. ASSUME SpendAndDie \/ UNCHANGED vars PROVE \A q \in Thread : Still(q)
  <2>1. UNCHANGED <<pc, mem, top, height, todo>>
    BY <1>9 DEF SpendAndDie, vars, scan
  <2> QED
    BY <1>i, <2>1 DEF Still, Open, PassInv
\* Steps of the walk.
<1>10. ASSUME NEW p \in Thread, read_tip(p) PROVE SharedInv'
  <2>1. /\ UNCHANGED <<tip, at, disk, checkpoint, mem, height, todo>> /\ pc[p] = "locked"
        /\ \A q \in Thread : pc'[q] = IF q = p THEN "synced" ELSE pc[q]
        /\ \A q \in Thread : top'[q] = IF q = p THEN tip ELSE top[q]
    BY <1>0, <1>10 DEF read_tip, Goto, chain
  <2>2. \A q \in Thread : PassInv(q)'
    BY <1>t, <1>i, <2>1 DEF PassInv, HasCheckpoint
  <2>3. ASSUME NEW o \in Output, Accounted(o) PROVE Accounted(o)'
    BY <2>1, <2>3 DEF Accounted, HasCheckpoint, Open, InPass
  <2> QED
    BY <1>i, <2>1, <2>2, <2>3 DEF SharedInv, HasCheckpoint
<1>11. ASSUME NEW p \in Thread, load_checkpoint(p) PROVE SharedInv'
  <2>1. /\ UNCHANGED <<tip, at, disk, checkpoint, mem, top, todo>> /\ pc[p] = "synced"
        /\ \A q \in Thread : pc'[q] = IF q = p THEN "blocks" ELSE pc[q]
        /\ \A q \in Thread : q # p => height'[q] = height[q]
    BY <1>0, <1>11 DEF load_checkpoint, Goto, chain
  <2>2. /\ HasCheckpoint => height'[p] = checkpoint + 1
        /\ ~HasCheckpoint => height'[p] \in Nat /\ height'[p] <= top[p]
    <3> DEFINE h == IF checkpoint # NoHeight THEN checkpoint + 1
                    ELSE IF top[p] >= START_LOOKBACK THEN top[p] - START_LOOKBACK ELSE 0
    <3>1. /\ HasCheckpoint => h = checkpoint + 1
          /\ ~HasCheckpoint => h \in Nat /\ h <= top[p]
      BY <1>t, BoundNat DEF HasCheckpoint
    <3> HIDE DEF h
    <3>2. height' = [height EXCEPT ![p] = h]
      BY <1>11 DEF load_checkpoint, h
    <3> QED
      BY <1>0, <3>1, <3>2
  <2>3. \A q \in Thread : PassInv(q)'
    <3>1. todo[p] = {} /\ PassInv(p)
      BY <1>i, <2>1 DEF PassInv
    <3>2. PassInv(p)'
      BY <1>t, <2>1, <2>2, <3>1 DEF PassInv, HasCheckpoint
    <3>3. \A q \in Thread : q # p => PassInv(q)'
      BY <1>i, <2>1 DEF PassInv, HasCheckpoint
    <3> QED
      BY <3>2, <3>3
  <2>4. ASSUME NEW o \in Output, Accounted(o) PROVE Accounted(o)'
    BY <2>1, <2>4 DEF Accounted, HasCheckpoint, Open, InPass
  <2> QED
    BY <1>i, <2>1, <2>3, <2>4 DEF SharedInv, HasCheckpoint
<1>12. ASSUME NEW p \in Thread, read_block(p) PROVE SharedInv'
  <2>1. /\ UNCHANGED <<tip, at, disk, checkpoint, mem, top, pc>> /\ pc[p] = "blocks"
        /\ todo[p] = {} /\ height[p] <= top[p]
        /\ \A q \in Thread : height'[q] = IF q = p THEN height[p] + 1 ELSE height[q]
        /\ \A q \in Thread : q # p => todo'[q] = todo[q]
    BY <1>0, <1>12 DEF read_block, chain
  <2>2. \A o \in todo'[p] : o \in Output /\ at[o] = height[p] /\ height[p] > 0
    <3>1. todo'[p] = {o \in tx_matches(height[p]) : o.sats >= DUST_FLOOR}
      BY <1>0, <1>12 DEF read_block
    <3> QED
      BY <3>1, Zenon DEF tx_matches
  <2>3. \A q \in Thread : PassInv(q)'
    <3>1. PassInv(p)'
      BY <1>t, <1>i, <2>1, <2>2 DEF PassInv, HasCheckpoint
    <3>2. \A q \in Thread : q # p => PassInv(q)'
      BY <1>i, <2>1 DEF PassInv, HasCheckpoint
    <3> QED
      BY <3>1, <3>2
  <2>4. ASSUME NEW o \in Output, Accounted(o) PROVE Accounted(o)'
    <3>1. CASE \E q \in Thread : pc[q] = "blocks" /\ at[o] < height[q] /\ o \notin todo[q]
      <4>1. PICK q \in Thread : pc[q] = "blocks" /\ at[o] < height[q] /\ o \notin todo[q]
        BY <3>1
      <4>2. pc'[q] = "blocks" /\ at[o] < height'[q] /\ o \notin todo'[q]
        BY <1>t, <2>1, <2>2, <4>1
      <4> QED
        BY <2>1, <2>4, <4>2 DEF Accounted
    <3>2. CASE ~\E q \in Thread : pc[q] = "blocks" /\ at[o] < height[q] /\ o \notin todo[q]
      BY <2>1, <2>4, <3>2 DEF Accounted, HasCheckpoint, Open
    <3> QED
      BY <3>1, <3>2
  <2> QED
    BY <1>i, <2>1, <2>3, <2>4 DEF SharedInv, HasCheckpoint
<1>13. ASSUME NEW p \in Thread, NEW o \in Output, record_sp_received(p, o) PROVE SharedInv'
  <2> DEFINE e == SpReceived(next_seq(mem[p]), o.txid, o.vout, o.sats)
  <2>1. /\ UNCHANGED <<tip, at, checkpoint, top, height, pc>> /\ pc[p] = "blocks" /\ o \in todo[p]
        /\ \A q \in Thread : todo'[q] = IF q = p THEN todo[p] \ {o} ELSE todo[q]
    BY <1>0, <1>13 DEF record_sp_received, chain
  <2>2. e \in Entry /\ Outpoint(e) = Point(o)
    BY <1>0, SeqType, WrittenTypes DEF SpReceived, Outpoint, Point
  <2>3. UNCHANGED <<disk, mem>> \/ append(p, e)
    BY <1>13 DEF record_sp_received
  <2> HIDE DEF e
  <2>4. \A q \in Thread : \A r \in Output :
            has_sp_output(mem[q], Point(r)) => has_sp_output(mem'[q], Point(r))
    BY <1>4, <2>2, <2>3
  <2>5. \A r \in Output : has_sp_output(disk', Point(r)) => has_sp_output(disk, Point(r)) \/ r = o
    <3>1. CASE append(p, e)
      BY <1>0, <2>2, <3>1, HasAppend DEF append, SharedLock
    <3> QED
      BY <2>3, <3>1
  <2>6. \A q \in Thread : PassInv(q)'
    BY <1>i, <2>1 DEF PassInv, HasCheckpoint
  <2>7. Accounted(o)'
    <3>1. at[o] # 0 /\ at[o] < height[p]
      BY <1>t, <1>i, <2>1 DEF PassInv
    <3> QED
      BY <2>1, <3>1 DEF Accounted
  <2>8. ASSUME NEW r \in Output, Accounted(r) PROVE Accounted(r)'
    BY <2>1, <2>4, <2>8 DEF Accounted, HasCheckpoint, Open
  <2> QED
    BY <1>i, <2>1, <2>5, <2>6, <2>7, <2>8 DEF SharedInv, HasCheckpoint
<1>14. ASSUME NEW p \in Thread, save_checkpoint(p) PROVE SharedInv'
  <2>1. /\ UNCHANGED <<tip, at, disk, mem, top, height, todo>> /\ pc[p] = "blocks"
        /\ checkpoint' = top[p] /\ todo[p] = {} /\ height[p] > top[p]
        /\ \A q \in Thread : pc'[q] = IF q = p THEN "saved" ELSE pc[q]
    BY <1>0, <1>14 DEF save_checkpoint, Goto, chain, scan
  <2>2. \A q \in Thread : pc[q] \in {"synced", "blocks"} => q = p
    BY <2>1, OnePass DEF InPass
  <2>3. \A q \in Thread : PassInv(q)'
    BY <1>i, <2>1, <2>2 DEF PassInv
  <2>4. /\ HasCheckpoint' /\ checkpoint' <= tip' /\ height[p] <= top[p] + 1
        /\ HasCheckpoint => checkpoint <= top[p]
    BY <1>t, <1>i, <2>1 DEF PassInv, HasCheckpoint
  <2>5. ASSUME NEW o \in Output, Accounted(o) PROVE Accounted(o)'
    <3>1. at[o] # 0
      BY <2>5 DEF Accounted
    <3>2. CASE at[o] <= top[p]
      BY <2>1, <2>4, <3>1, <3>2 DEF Accounted
    <3>3. CASE ~(at[o] <= top[p])
      <4>1. \A q \in Thread : Open(q) => has_sp_output(mem[q], Point(o))
        BY <1>t, <2>1, <2>2, <2>4, <2>5, <3>3 DEF Accounted
      <4> QED
        BY <2>1, <3>1, <4>1 DEF Accounted, Open, InPass
    <3> QED
      BY <3>2, <3>3
  <2> QED
    BY <1>i, <2>1, <2>3, <2>4, <2>5 DEF SharedInv
<1>15. ASSUME MineBlock PROVE SharedInv'
  <2>1. /\ UNCHANGED <<disk, checkpoint, pc, mem, top, height, todo>> /\ tip' = tip + 1
        /\ \A o \in Output : at[o] # 0 => at'[o] = at[o]
    BY <1>0, <1>15 DEF MineBlock, scan
  <2>2. \A q \in Thread : PassInv(q)'
    BY <1>0, <1>t, <1>i, <2>1 DEF PassInv, HasCheckpoint
  <2>3. ASSUME NEW o \in Output, Accounted(o) PROVE Accounted(o)'
    BY <2>1, <2>3 DEF Accounted, HasCheckpoint, Open
  <2> QED
    BY <1>t, <1>i, <2>1, <2>2, <2>3 DEF SharedInv, HasCheckpoint
<1>16. ASSUME NEW h \in Process, Crash(h) PROVE SharedInv'
  <2>1. UNCHANGED <<tip, at, disk, checkpoint>>
    BY <1>16 DEF Crash, chain
  <2>2. \A q \in Thread : pc'[q] = "idle" /\ todo'[q] = {}
    BY <1>16 DEF Crash, Process, SharedLock
  <2>3. \A q \in Thread : PassInv(q)'
    BY <2>2 DEF PassInv
  <2>4. ASSUME NEW o \in Output, Accounted(o) PROVE Accounted(o)'
    BY <2>1, <2>2, <2>4 DEF Accounted, Open, InPass
  <2> QED
    BY <1>i, <2>1, <2>3, <2>4 DEF SharedInv, HasCheckpoint
<1>17. ~Reorg /\ \A p \in Thread : ~scan_error(p)
  BY DEF Reorg, scan_error, SharedLock, TypeInv, TypeOK
<1>18. ASSUME \/ \E p \in Thread : \/ open_ledger(p) \/ scan_lock(p) \/ serve_start(p)
                                   \/ start_reconcile(p) \/ track_spends(p) \/ end_scan(p)
                                   \/ end_reconcile(p) \/ after_scan(p)
                                   \/ \E o \in Output : record_sp_spent(p, o)
                                   \/ \E t \in Txid : update_status(p, t)
              \/ SpendAndDie \/ UNCHANGED vars
       PROVE  SharedInv'
  <2>1. \A q \in Thread : Still(q)
    BY <1>1, <1>2, <1>3, <1>5, <1>6, <1>7, <1>8, <1>9, <1>18
  <2>2. UNCHANGED <<tip, at, checkpoint>>
    BY <1>18 DEF open_ledger, scan_lock, serve_start, start_reconcile, track_spends, end_scan, EndScan,
       end_reconcile, after_scan, Closed, record_sp_spent, update_status, SpendAndDie, vars, chain
  <2>3. CASE \E p \in Thread, o \in Output : record_sp_received(p, o)
    BY <1>13, <2>3
  <2>4. CASE \A p \in Thread, o \in Output : ~record_sp_received(p, o)
    BY <1>b, <2>1, <2>2, <2>4, StillShared
  <2> QED
    BY <2>3, <2>4
<1> QED
  BY <1>10, <1>11, <1>12, <1>13, <1>14, <1>15, <1>16, <1>17, <1>18
     DEF Next, ThreadNext, ScanNext

\* Threads of one process that take turns under SCAN_LOCK book no outpoint twice
\* (scan.rs:46-50), though each has opened its ledger before it waits for the
\* lock: what it does not see is below the checkpoint it reads under the lock.
\* The process may die at any time; the passes that reach an end succeed and no
\* scanned block is replaced.
THEOREM NoDoubleBookingShared ==
    ASSUME SharedLock
    PROVE  Spec => []NoDoubleBooking
<1>1. Init => SharedInv /\ NoDoubleBooking
  <2> SUFFICES ASSUME Init PROVE SharedInv /\ NoDoubleBooking
    OBVIOUS
  <2>1. \A p \in Thread : PassInv(p)
    BY DEF Init, PassInv
  <2>2. HasCheckpoint => checkpoint <= tip
    BY DEF Init, HasCheckpoint, anchor_birth, BirthHeight
  <2>3. \A o \in Output : ~has_sp_output(disk, Point(o))
    BY HasNothing DEF Init
  <2>4. NoDoubleBooking
    BY DEF Init, NoDoubleBooking, Of
  <2> QED
    BY <2>1, <2>2, <2>3, <2>4 DEF SharedInv
<1>2. ASSUME TypeInv, SharedInv, NoDoubleBooking, [Next]_vars PROVE SharedInv' /\ NoDoubleBooking'
  <2>1. ASSUME NEW p \in Thread, NEW o \in Output, record_sp_received(p, o), has_sp_output(disk, Point(o))
        PROVE  has_sp_output(mem[p], Point(o))
    <3>1. pc[p] = "blocks" /\ o \in todo[p]
      BY <2>1 DEF record_sp_received
    <3>2. Accounted(o) /\ PassInv(p)
      BY <1>2, <2>1 DEF SharedInv
    <3>3. ~(HasCheckpoint /\ at[o] <= checkpoint)
      <4>1. at[o] \in Nat /\ (HasCheckpoint => checkpoint \in Nat)
        BY <1>2, BoundNat DEF TypeInv, TypeOK, BirthHeight, HasCheckpoint
      <4> QED
        BY <3>1, <3>2, <4>1 DEF PassInv
    <3>4. \A q \in Thread : pc[q] = "blocks" => q = p
      BY <1>2, <3>1, OnePass DEF InPass
    <3>5. Open(p)
      BY <3>1 DEF Open, InPass
    <3> QED
      BY <3>1, <3>2, <3>3, <3>4, <3>5 DEF Accounted
  <2>2. SharedInv'
    BY <1>2, SharedStep
  <2> QED
    BY <1>2, <2>1, <2>2, BookedOnce
<1> QED
  BY <1>1, <1>2, TypeAlways, PTL DEF Spec

=============================================================================
