------------------------------- MODULE SpScan -------------------------------
(***************************************************************************)
(* Silent-payment income: scan::scan_to_tip (src/src/scan.rs) with its     *)
(* checkpoint and its lock, and the commands around it: the WATCH tick of  *)
(* `cm serve' (serve::chain_watch), the balance report and the collections *)
(* report of the CLI and of the MCP server.                                *)
(*                                                                         *)
(* A thread is one such command or the daemon.  The threads of one process *)
(* share SCAN_LOCK; every network read and every file write is a step.     *)
(* Which outputs of a block pay the wallet (sp::receive_check) is given:   *)
(* a block holds the wallet's outputs.                                     *)
(***************************************************************************)
EXTENDS Ledger, FiniteSets

CONSTANTS
    Output,      \* the outputs that may pay the wallet: [txid, vout, sats]
    Thread,      \* the threads that scan
    Daemon,      \* those that run `cm serve'
    Host,        \* Host[p]: the process of thread p
    Nobody,      \* the owner of a free lock
    NoHeight,    \* no scan.json yet
    START_LOOKBACK, DUST_FLOOR,
    MaxHeight,   \* bound on the height of the chain
    MaxErrors,   \* bound on failed passes
    MaxCrashes,  \* bound on processes that die
    MaxReorgs    \* bound on replaced tip blocks

ASSUME ConstAssumption ==
    /\ \A o \in Output : DOMAIN o = {"txid", "vout", "sats"} /\ o.sats \in Nat
    /\ Daemon \subseteq Thread
    /\ Nobody \notin Thread
    /\ NoHeight \notin Nat
    /\ {START_LOOKBACK, DUST_FLOOR, MaxHeight, MaxErrors, MaxCrashes, MaxReorgs} \subseteq Nat
    /\ MaxHeight > 0

VARIABLES
    tip,        \* the height of the chain
    at,         \* the height at which an output was mined, 0 if it was not
    spent,      \* the outputs a transaction of the wallet has consumed
    disk,       \* the entries of the ledger file
    checkpoint, \* scan.json
    lock,       \* SCAN_LOCK of each process
    pc,
    led,        \* the ledger a daemon opened when it started
    mem,        \* the ledger opened for this pass
    top,        \* the tip a pass has read
    height,     \* the next block of a pass
    todo,       \* the outputs a pass has still to look at
    queue,      \* the txids a reconcile has still to look at
    anchored,   \* did anchor_birth succeed when the wallet was made?
    errors, crashes, reorgs

chain == <<tip, at, spent, reorgs>>
scan  == <<mem, top, height, todo>>
vars  == <<tip, at, spent, disk, checkpoint, lock, pc, led, mem, top, height,
           todo, queue, anchored, errors, crashes, reorgs>>

Point(o) == <<o.txid, o.vout>>
Txid == {o.txid : o \in Output}
Process == {Host[p] : p \in Thread}

\* The wallet was made at this height, and all its income is younger.
BirthHeight == 1
FinalDepth == 3

InPass == {"locked", "synced", "blocks", "saved", "spends"}

Entry == [kind : {"SpReceived"}, seq : Nat, txid : Txid,
          vout : {o.vout : o \in Output}, sats : {o.sats : o \in Output},
          status : {"Pending"}]
         \cup [kind : {"SpSpent"}, seq : Nat, txid : Txid, vout : {o.vout : o \in Output}]
         \cup [kind : {"StatusUpdate"}, seq : Nat, txid : Txid, status : Status]

TypeOK ==
    /\ tip \in BirthHeight..MaxHeight
    /\ at \in [Output -> 0..MaxHeight]
    /\ spent \subseteq Output
    /\ disk \in Seq(Entry)
    /\ checkpoint \in BirthHeight..MaxHeight \cup {NoHeight}
    /\ lock \in [Process -> Thread \cup {Nobody}]
    /\ pc \in [Thread -> {"idle", "ready", "reconciled", "opened", "scanned", "statuses"} \cup InPass]
    /\ \A p \in Thread : pc[p] \in InPass <=> lock[Host[p]] = p
    /\ led \in [Thread -> Seq(Entry)]
    /\ mem \in [Thread -> Seq(Entry)]
    /\ top \in [Thread -> 0..MaxHeight]
    /\ height \in [Thread -> 0..(MaxHeight + 1)]
    /\ todo \in [Thread -> SUBSET Output]
    /\ queue \in [Thread -> SUBSET Txid]
    /\ anchored \in BOOLEAN
    /\ errors \in 0..MaxErrors
    /\ crashes \in 0..MaxCrashes
    /\ reorgs \in 0..MaxReorgs

\* scan::anchor_birth: a new wallet writes the tip to scan.json, best effort.
anchor_birth ==
    /\ anchored \in BOOLEAN
    /\ checkpoint = IF anchored THEN BirthHeight ELSE NoHeight

Init ==
    /\ tip = BirthHeight
    /\ at = [o \in Output |-> 0]
    /\ spent = {}
    /\ disk = <<>>
    /\ anchor_birth
    /\ lock = [h \in Process |-> Nobody]
    /\ pc = [p \in Thread |-> "idle"]
    /\ led = [p \in Thread |-> <<>>]
    /\ mem = [p \in Thread |-> <<>>]
    /\ top = [p \in Thread |-> 0]
    /\ height = [p \in Thread |-> 0]
    /\ todo = [p \in Thread |-> {}]
    /\ queue = [p \in Thread |-> {}]
    /\ errors = 0
    /\ crashes = 0
    /\ reorgs = 0

-----------------------------------------------------------------------------
(* The chain.                                                              *)

\* A transaction's outputs come together.
WholeTxs(S) == \A o, q \in Output : o \in S /\ o.txid = q.txid => q \in S

\* Income stops while there is room for it to become final.
MineBlock ==
    /\ tip < MaxHeight
    /\ tip' = tip + 1
    /\ \E S \in SUBSET {o \in Output : at[o] = 0} :
        /\ WholeTxs(S)
        /\ S # {} => tip' + FinalDepth - 1 <= MaxHeight
        /\ at' = [o \in Output |-> IF o \in S THEN tip' ELSE at[o]]
    /\ UNCHANGED <<spent, disk, checkpoint, lock, pc, led, scan, queue, anchored,
                   errors, crashes, reorgs>>

\* The tip block is disconnected; what it held waits to be mined again.
Reorg ==
    /\ reorgs < MaxReorgs
    /\ tip > BirthHeight
    /\ tip' = tip - 1
    /\ at' = [o \in Output |-> IF at[o] = tip THEN 0 ELSE at[o]]
    /\ reorgs' = reorgs + 1
    /\ UNCHANGED <<spent, disk, checkpoint, lock, pc, led, scan, queue, anchored,
                   errors, crashes>>

\* chain::confirmations of a receiving transaction.
confirmations(t) ==
    LET heights == {at[o] : o \in {q \in Output : q.txid = t}}
    IN  IF 0 \in heights THEN 0 ELSE tip - (CHOOSE h \in heights : TRUE) + 1

\* pay::send_spending_sp or pay::sp_send broadcasts a transaction that consumes
\* every spendable output of the file and dies before record_sp_spent.
SpendAndDie ==
    /\ sp_utxos(disk) # {}
    /\ {o \in Output : Point(o) \in {Outpoint(disk[i]) : i \in sp_utxos(disk)}} \cap spent = {}
    /\ spent' = spent \cup {o \in Output :
                    Point(o) \in {Outpoint(disk[i]) : i \in sp_utxos(disk)}}
    /\ UNCHANGED <<tip, at, reorgs, disk, checkpoint, lock, pc, led, scan, queue,
                   anchored, errors, crashes>>

-----------------------------------------------------------------------------
(* scan::scan_to_tip                                                       *)

Goto(p, step) == pc' = [pc EXCEPT ![p] = step]

\* The ledger is opened before the lock is asked for.
open_ledger(p) ==
    /\ pc[p] = IF p \in Daemon THEN "reconciled" ELSE "idle"
    /\ mem' = [mem EXCEPT ![p] = disk]
    /\ Goto(p, "opened")
    /\ UNCHANGED <<chain, disk, checkpoint, lock, led, top, height, todo, queue,
                   anchored, errors, crashes>>

\* Mutant: passes of one process are not serialised.
scan_lock_free(p) ==
    /\ pc[p] = "opened"
    /\ lock' = [lock EXCEPT ![Host[p]] = p]
    /\ Goto(p, "locked")
    /\ UNCHANGED <<chain, disk, checkpoint, led, scan, queue, anchored, errors, crashes>>

scan_lock(p) ==
    /\ pc[p] = "opened"
    /\ lock[Host[p]] = Nobody
    /\ lock' = [lock EXCEPT ![Host[p]] = p]
    /\ Goto(p, "locked")
    /\ UNCHANGED <<chain, disk, checkpoint, led, scan, queue, anchored, errors, crashes>>

read_tip(p) ==
    /\ pc[p] = "locked"
    /\ top' = [top EXCEPT ![p] = tip]
    /\ Goto(p, "synced")
    /\ UNCHANGED <<chain, disk, checkpoint, lock, led, mem, height, todo, queue,
                   anchored, errors, crashes>>

\* The first block of the pass: after the checkpoint, or START_LOOKBACK below
\* the tip (saturating) when there is none.
load_checkpoint(p) ==
    /\ pc[p] = "synced"
    /\ height' = [height EXCEPT ![p] =
           IF checkpoint # NoHeight THEN checkpoint + 1
           ELSE IF top[p] >= START_LOOKBACK THEN top[p] - START_LOOKBACK ELSE 0]
    /\ Goto(p, "blocks")
    /\ UNCHANGED <<chain, disk, checkpoint, lock, led, mem, top, todo, queue,
                   anchored, errors, crashes>>

\* scan::tx_matches over one block: the outputs that pay the wallet.
tx_matches(h) == {o \in Output : h > 0 /\ at[o] = h}

\* One block: its outputs that pay the wallet, without the dust.
read_block(p) ==
    /\ pc[p] = "blocks"
    /\ todo[p] = {}
    /\ height[p] <= top[p]
    /\ todo' = [todo EXCEPT ![p] = {o \in tx_matches(height[p]) :
                   o.sats >= DUST_FLOOR}]
    /\ height' = [height EXCEPT ![p] = @ + 1]
    /\ UNCHANGED <<chain, disk, checkpoint, lock, pc, led, mem, top, queue,
                   anchored, errors, crashes>>

\* Ledger::append on the ledger of the pass.
append(p, entry) ==
    /\ disk' = Append(disk, entry)
    /\ mem' = [mem EXCEPT ![p] = Append(@, entry)]

\* Mutant: an outpoint found again is booked again.
record_sp_received_again(p, o) ==
    /\ pc[p] = "blocks"
    /\ o \in todo[p]
    /\ todo' = [todo EXCEPT ![p] = @ \ {o}]
    /\ append(p, SpReceived(next_seq(mem[p]), o.txid, o.vout, o.sats))
    /\ UNCHANGED <<chain, checkpoint, lock, pc, led, top, height, queue, anchored,
                   errors, crashes>>

\* Ledger::record_sp_received: nothing if this ledger has the outpoint.
record_sp_received(p, o) ==
    /\ pc[p] = "blocks"
    /\ o \in todo[p]
    /\ todo' = [todo EXCEPT ![p] = @ \ {o}]
    /\ IF has_sp_output(mem[p], Point(o))
       THEN UNCHANGED <<disk, mem>>
       ELSE append(p, SpReceived(next_seq(mem[p]), o.txid, o.vout, o.sats))
    /\ UNCHANGED <<chain, checkpoint, lock, pc, led, top, height, queue, anchored,
                   errors, crashes>>

\* Mutant: the tip of now is saved, not the one the pass has walked to.
save_checkpoint_now(p) ==
    /\ pc[p] = "blocks"
    /\ todo[p] = {}
    /\ height[p] > top[p]
    /\ checkpoint' = tip
    /\ Goto(p, "saved")
    /\ UNCHANGED <<chain, disk, lock, led, scan, queue, anchored, errors, crashes>>

save_checkpoint(p) ==
    /\ pc[p] = "blocks"
    /\ todo[p] = {}
    /\ height[p] > top[p]
    /\ checkpoint' = top[p]
    /\ Goto(p, "saved")
    /\ UNCHANGED <<chain, disk, lock, led, scan, queue, anchored, errors, crashes>>

\* Mutant: spends are looked for among the outputs found in this pass only.
track_spends_none(p) ==
    /\ pc[p] = "saved"
    /\ todo' = [todo EXCEPT ![p] = {}]
    /\ Goto(p, "spends")
    /\ UNCHANGED <<chain, disk, checkpoint, lock, led, mem, top, height, queue,
                   anchored, errors, crashes>>

\* scan::track_spends: the spendable outputs of this ledger, looked up one by
\* one.
track_spends(p) ==
    /\ pc[p] = "saved"
    /\ todo' = [todo EXCEPT ![p] = {o \in Output :
                   Point(o) \in {Outpoint(mem[p][i]) : i \in sp_utxos(mem[p])}}]
    /\ Goto(p, "spends")
    /\ UNCHANGED <<chain, disk, checkpoint, lock, led, mem, top, height, queue,
                   anchored, errors, crashes>>

record_sp_spent(p, o) ==
    /\ pc[p] = "spends"
    /\ o \in todo[p]
    /\ todo' = [todo EXCEPT ![p] = @ \ {o}]
    /\ IF o \in spent /\ Point(o) \notin sp_spent_set(mem[p])
       THEN append(p, SpSpent(next_seq(mem[p]), o.txid, o.vout))
       ELSE UNCHANGED <<disk, mem>>
    /\ UNCHANGED <<chain, checkpoint, lock, pc, led, top, height, queue, anchored,
                   errors, crashes>>

\* Mutant: the guard outlives the pass.
EndScan_guarded(p) ==
    /\ todo' = [todo EXCEPT ![p] = {}]
    /\ Goto(p, "scanned")
    /\ UNCHANGED <<chain, disk, checkpoint, lock, led, mem, top, height, queue, anchored, crashes>>

\* The pass returns and its guard is dropped.
EndScan(p) ==
    /\ lock' = [lock EXCEPT ![Host[p]] = Nobody]
    /\ todo' = [todo EXCEPT ![p] = {}]
    /\ Goto(p, "scanned")
    /\ UNCHANGED <<chain, disk, checkpoint, led, mem, top, height, queue, anchored, crashes>>

end_scan(p) ==
    /\ pc[p] = "spends"
    /\ todo[p] = {}
    /\ EndScan(p)
    /\ UNCHANGED errors

\* A failed request or file access ends the pass; what was booked stays.
scan_error(p) ==
    /\ pc[p] \in InPass
    /\ errors < MaxErrors
    /\ errors' = errors + 1
    /\ EndScan(p)

-----------------------------------------------------------------------------
(* The commands around a pass.                                             *)

\* serve::run opens its ledger once.
serve_start(p) ==
    /\ p \in Daemon
    /\ pc[p] = "idle"
    /\ led' = [led EXCEPT ![p] = disk]
    /\ Goto(p, "ready")
    /\ UNCHANGED <<chain, disk, checkpoint, lock, scan, queue, anchored, errors, crashes>>

\* ledger::reconcile: the daemon with the ledger it opened at its start, before
\* the scan; the balance report with the ledger of the pass, after it.
View(p) == IF p \in Daemon THEN led[p] ELSE mem[p]

start_reconcile(p) ==
    /\ pc[p] = IF p \in Daemon THEN "ready" ELSE "scanned"
    /\ queue' = [queue EXCEPT ![p] = pending(View(p))]
    /\ Goto(p, "statuses")
    /\ UNCHANGED <<chain, disk, checkpoint, lock, led, scan, anchored, errors, crashes>>

\* One txid of the queue: the count is read, a changed status is appended.
update_status(p, t) ==
    LET new == from_confirmations(confirmations(t))
        entry == StatusUpdate(next_seq(View(p)), t, new)
    IN  /\ pc[p] = "statuses"
        /\ t \in queue[p]
        /\ IsFirst(View(p), t, queue[p])
        /\ queue' = [queue EXCEPT ![p] = @ \ {t}]
        /\ IF latest_status(View(p), t) = new
           THEN UNCHANGED <<disk, mem, led>>
           ELSE /\ disk' = Append(disk, entry)
                /\ IF p \in Daemon
                   THEN led' = [led EXCEPT ![p] = Append(@, entry)] /\ UNCHANGED mem
                   ELSE mem' = [mem EXCEPT ![p] = Append(@, entry)] /\ UNCHANGED led
        /\ UNCHANGED <<chain, checkpoint, lock, pc, top, height, todo, anchored,
                       errors, crashes>>

\* The command is over and its ledger is dropped.
Closed(p) ==
    /\ mem' = [mem EXCEPT ![p] = <<>>]
    /\ top' = [top EXCEPT ![p] = 0]
    /\ height' = [height EXCEPT ![p] = 0]
    /\ todo' = [todo EXCEPT ![p] = {}]
    /\ UNCHANGED <<chain, disk, checkpoint, lock, led, anchored, crashes>>

\* Every txid has been looked at, or a query has failed.
end_reconcile(p) ==
    /\ pc[p] = "statuses"
    /\ \/ queue[p] = {} /\ UNCHANGED errors
       \/ errors < MaxErrors /\ errors' = errors + 1
    /\ queue' = [queue EXCEPT ![p] = {}]
    /\ IF p \in Daemon
       THEN Goto(p, "reconciled")
            /\ UNCHANGED <<chain, disk, checkpoint, lock, led, scan, anchored, crashes>>
       ELSE Goto(p, "idle") /\ Closed(p)

\* The collections report does not reconcile; the daemon waits for its next
\* WATCH tick.
after_scan(p) ==
    /\ pc[p] = "scanned"
    /\ Goto(p, IF p \in Daemon THEN "ready" ELSE "idle")
    /\ Closed(p)
    /\ UNCHANGED <<queue, errors>>

\* A process dies with all its threads and its lock.
Crash(h) ==
    /\ crashes < MaxCrashes
    /\ crashes' = crashes + 1
    /\ LET dead == {p \in Thread : Host[p] = h}
           Keep(f, v) == [p \in Thread |-> IF p \in dead THEN v ELSE f[p]]
       IN  /\ \E p \in dead : pc[p] # "idle"
           /\ pc' = Keep(pc, "idle")
           /\ led' = Keep(led, <<>>)
           /\ mem' = Keep(mem, <<>>)
           /\ top' = Keep(top, 0)
           /\ height' = Keep(height, 0)
           /\ todo' = Keep(todo, {})
           /\ queue' = Keep(queue, {})
    /\ lock' = [lock EXCEPT ![h] = Nobody]
    /\ UNCHANGED <<chain, disk, checkpoint, anchored, errors>>

-----------------------------------------------------------------------------
ScanNext(p) ==
    \/ open_ledger(p) \/ scan_lock(p) \/ read_tip(p) \/ load_checkpoint(p)
    \/ read_block(p) \/ (\E o \in Output : record_sp_received(p, o))
    \/ save_checkpoint(p) \/ track_spends(p)
    \/ (\E o \in Output : record_sp_spent(p, o)) \/ end_scan(p)

ThreadNext(p) ==
    \/ ScanNext(p) \/ scan_error(p) \/ serve_start(p) \/ start_reconcile(p)
    \/ (\E t \in Txid : update_status(p, t)) \/ end_reconcile(p) \/ after_scan(p)

Next ==
    \/ \E p \in Thread : ThreadNext(p)
    \/ \E h \in Process : Crash(h)
    \/ MineBlock \/ Reorg \/ SpendAndDie

Spec == Init /\ [][Next]_vars

(***************************************************************************)
(* Fairness: a command that has begun goes on, a scanning thread that is   *)
(* waiting for the lock gets it some day, commands are run again and again *)
(* (the WATCH tick, an agent that polls its balance), a report that can    *)
(* reconcile does so now and then, and blocks are found.                   *)
(***************************************************************************)
Fairness ==
    /\ \A p \in Thread :
        /\ WF_vars(ScanNext(p) \/ serve_start(p) \/ end_reconcile(p) \/ after_scan(p)
                   \/ \E t \in Txid : update_status(p, t))
        /\ SF_vars(scan_lock(p))
        /\ SF_vars(start_reconcile(p))
    /\ WF_vars(MineBlock)

FairSpec == Spec /\ Fairness

-----------------------------------------------------------------------------
(* Properties.                                                             *)

\* No outpoint is booked twice, so no income is counted twice (scan.rs:46-50,
\* "one can never book an output the other has already recorded").
NoDoubleBooking ==
    \A i, j \in Of(disk, "SpReceived") : Outpoint(disk[i]) = Outpoint(disk[j]) => i = j

\* The checkpoint never passes income by: with an anchored wallet, an output
\* worth booking in a block at or below the checkpoint is in the file, whatever
\* pass or process failed on the way, as long as no scanned block was replaced
\* (scan.rs:71-73, scan.rs:263).
IncomeBooked ==
    anchored /\ reorgs = 0 => \A o \in Output :
        /\ o.sats >= DUST_FLOOR
        /\ at[o] # 0
        /\ at[o] <= checkpoint
        => has_sp_output(disk, Point(o))

\* What the file calls spendable has its confirmations, but for those a replaced
\* block has taken back (ledger.rs:394-395).
SpendableIsFinal ==
    \A i \in sp_utxos(disk) : confirmations(disk[i].txid) >= FinalDepth - reorgs

\* Final is terminal (ledger.rs:515): income that was spendable stays Final.
FinalForever ==
    [][\A t \in Txid : latest_status(disk, t) = "Final"
            => latest_status(disk', t) = "Final"]_disk

\* Income is found and becomes final some day (scan.rs:71-73, ledger.rs:340-341,
\* "a Pending entry the reconcile loop advances to Final"), unless its block is
\* replaced.
IncomeFinal ==
    \A o \in Output :
        anchored /\ at[o] # 0 /\ o.sats >= DUST_FLOOR
            ~> \/ has_sp_output(disk, Point(o)) /\ latest_status(disk, o.txid) = "Final"
               \/ reorgs > 0

\* A spend whose booking was lost in a crash is noticed by a later scan
\* (pay.rs:134-136, "a crash in the gap self-heals").
SpendNoticed ==
    \A o \in Output : o \in spent ~> Point(o) \in sp_spent_set(disk)

=============================================================================
