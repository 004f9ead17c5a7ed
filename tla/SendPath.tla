------------------------------ MODULE SendPath ------------------------------
(***************************************************************************)
(* The crash-safe send path: pay::send (src/src/pay.rs) and                *)
(* ledger::reconcile (src/src/ledger.rs) over one ledger file, the         *)
(* directory of sidecars (signed transactions that have not settled) and   *)
(* the Bitcoin network behind esplora.                                     *)
(*                                                                         *)
(* A process opens the ledger file, which copies its entries to memory,    *)
(* and then runs one operation: a send or a reconcile pass.  A daemon (`cm *)
(* serve') opens the file once and reconciles over and over with that      *)
(* copy.  Every file or network access is a step of its own, so processes  *)
(* interleave, and a crash can fall, between any two of them.              *)
(***************************************************************************)
EXTENDS Ledger, FiniteSets

CONSTANTS
    Tx,             \* the transactions that can be signed
    Coin,           \* the wallet's confirmed outputs at the start
    Proc,           \* processes (CLI commands, MCP calls, the daemon)
    Daemon,         \* those that keep one opened ledger for their whole life
    Unsigned,       \* the input of a transaction that is not built yet
    MaxFaults,      \* bound on crashes, failed passes and lost rebroadcasts
    MaxReorgs,      \* bound on one-block reorganisations
    HiddenMempools  \* may a miner keep a transaction esplora has evicted?

ASSUME ConstAssumption ==
    /\ Daemon \subseteq Proc
    /\ Tx \cap Coin = {}
    /\ Unsigned \notin Tx \cup Coin
    /\ MaxFaults \in Nat
    /\ MaxReorgs \in Nat
    /\ HiddenMempools \in BOOLEAN

VARIABLES
    disk,      \* the entries of the ledger file
    sidecars,  \* the txids with a file pending/<txid>.tx
    input,     \* the output a transaction spends: a coin or another's change
    net,       \* -1: esplora does not know it, 0: in its mempool, n: n confirmations
    relayed,   \* the transactions some broadcast has delivered
    pc,        \* where each process is
    mem,       \* the entries of each process's opened ledger
    cur,       \* the transaction each process works on
    confs,     \* the confirmation count a pass has read for cur
    queue,     \* the txids a pass has still to look at
    orphans,   \* the sidecars a pass is going to sweep
    faults, reorgs

files == <<disk, sidecars>>
chain == <<input, net, relayed, reorgs>>
local == <<mem, cur, confs, queue, orphans>>
vars  == <<disk, sidecars, input, net, relayed, pc, mem, cur, confs, queue,
           orphans, faults, reorgs>>

FinalDepth == 3

\* Confirmations beyond this count are not told apart: no run of replaced blocks
\* takes such a count below FinalDepth.
MaxConfs == FinalDepth + MaxReorgs

SendStep == {"signed", "staged", "booked"}
PassStep == {"next", "limbo", "held", "dead", "failed", "status", "settled",
             "sweep"}

Entry == [kind : {"Sent"}, seq : Nat, txid : Tx, status : {"Pending"}]
         \cup [kind : {"StatusUpdate"}, seq : Nat, txid : Tx, status : Status]

TypeOK ==
    /\ disk \in Seq(Entry)
    /\ sidecars \subseteq Tx
    /\ input \in [Tx -> Coin \cup Tx \cup {Unsigned}]
    /\ net \in [Tx -> -1..MaxConfs]
    /\ relayed \subseteq Tx
    /\ pc \in [Proc -> {"idle", "open"} \cup SendStep \cup PassStep]
    /\ mem \in [Proc -> Seq(Entry)]
    /\ cur \in [Proc -> Tx \cup {Unsigned}]
    /\ \A p \in Proc : pc[p] \in (SendStep \cup PassStep) \ {"next", "sweep"}
                       => cur[p] \in Tx
    /\ confs \in [Proc -> 0..MaxConfs]
    /\ queue \in [Proc -> SUBSET Tx]
    /\ orphans \in [Proc -> SUBSET Tx]
    /\ faults \in 0..MaxFaults
    /\ reorgs \in 0..MaxReorgs

Init ==
    /\ disk = <<>>
    /\ sidecars = {}
    /\ input = [t \in Tx |-> Unsigned]
    /\ net = [t \in Tx |-> -1]
    /\ relayed = {}
    /\ pc = [p \in Proc |-> "idle"]
    /\ mem = [p \in Proc |-> <<>>]
    /\ cur = [p \in Proc |-> Unsigned]
    /\ confs = [p \in Proc |-> 0]
    /\ queue = [p \in Proc |-> {}]
    /\ orphans = [p \in Proc |-> {}]
    /\ faults = 0
    /\ reorgs = 0

-----------------------------------------------------------------------------
(* The network, as chain.rs sees it through esplora.                       *)

Known(t) == net[t] >= 0

\* esplora lists the output as unspent: it exists and nothing known spends it.
Spendable(o) ==
    /\ o \in Tx => Known(o)
    /\ \A u \in Tx : Known(u) => input[u] # o

\* Mutant: an unknown transaction is not counted as unconfirmed.
confirmations_raw(t) == net[t]

\* chain::confirmations.  The code asks for the status and then for the tip
\* height; the count is the one at the second request, unless the block of the
\* transaction itself is replaced between the two.
confirmations(t) == IF net[t] >= 1 THEN net[t] ELSE 0

\* A node takes a transaction it knows, or one whose input is there and free.
\* Everything else is a hard rejection (missing inputs, mempool conflict).
Acceptable(t) == Known(t) \/ Spendable(input[t])

\* The network after a delivered broadcast of an acceptable transaction.
Deliver(t) ==
    /\ Acceptable(t)
    /\ net' = IF Known(t) THEN net ELSE [net EXCEPT ![t] = 0]
    /\ relayed' = relayed \cup {t}

InMempool == {t \in Tx : net[t] = 0}

\* What a miner may put in a block: the public mempool, and with hidden
\* mempools whatever was delivered once.
Minable == InMempool \cup
    (IF HiddenMempools THEN {t \in relayed : net[t] = -1} ELSE {})

\* No transaction of the set is left behind by its parent.
ClosedUnderChildren(S) == \A u \in InMempool : input[u] \in S => u \in S

\* A block confirms the transactions of S; those of `kicked' conflict with it.
Block(S, kicked) ==
    /\ \A t \in S :
        /\ input[t] \in Tx => input[t] \in S \/ net[input[t]] >= 1
        /\ \A u \in Tx \ {t} : input[u] = input[t] => u \notin S /\ net[u] <= 0
    /\ ClosedUnderChildren(kicked)
    /\ \A u \in InMempool \ S : (\E t \in S : input[t] = input[u]) => u \in kicked
    /\ S \subseteq InMempool => kicked = {}
    /\ net' = [t \in Tx |->
                 CASE t \in S -> 1
                   [] t \in kicked -> -1
                   [] net[t] \in 1..(MaxConfs - 1) -> net[t] + 1
                   [] OTHER -> net[t]]
    /\ UNCHANGED <<files, pc, local, faults, input, relayed, reorgs>>

MineBlock ==
    \E S \in SUBSET Minable : \E kicked \in SUBSET (InMempool \ S) :
        Block(S, kicked)

\* esplora's mempool forgets a transaction, and with it those that spend it.
Evict ==
    /\ \E S \in SUBSET InMempool :
        /\ S # {}
        /\ ClosedUnderChildren(S)
        /\ net' = [t \in Tx |-> IF t \in S THEN -1 ELSE net[t]]
    /\ UNCHANGED <<files, pc, local, faults, input, relayed, reorgs>>

\* The tip block is disconnected: every confirmed transaction has one confirmation
\* less, and those of the block itself return to the mempool.
Reorg ==
    /\ reorgs < MaxReorgs
    /\ \E t \in Tx : net[t] >= 1
    /\ net' = [t \in Tx |-> IF net[t] >= 1 THEN net[t] - 1 ELSE net[t]]
    /\ reorgs' = reorgs + 1
    /\ UNCHANGED <<files, pc, local, faults, input, relayed>>

-----------------------------------------------------------------------------
(* Opening and leaving the ledger.                                         *)

Goto(p, step) == pc' = [pc EXCEPT ![p] = step]

\* Ledger::open_inner: the file's entries are read into memory.
OpenLedger(p) ==
    /\ pc[p] = "idle"
    /\ mem' = [mem EXCEPT ![p] = disk]
    /\ Goto(p, "open")
    /\ UNCHANGED <<files, chain, cur, confs, queue, orphans, faults>>

\* The `Ledger' value is dropped.
Dropped(p) ==
    /\ mem' = [mem EXCEPT ![p] = <<>>]
    /\ cur' = [cur EXCEPT ![p] = Unsigned]
    /\ confs' = [confs EXCEPT ![p] = 0]
    /\ queue' = [queue EXCEPT ![p] = {}]
    /\ orphans' = [orphans EXCEPT ![p] = {}]
    /\ Goto(p, "idle")

Fault == faults < MaxFaults /\ faults' = faults + 1

\* The command returns without moving money: a refusal by the policy, no
\* funds, a failed network read while building, a declined fee.
Close(p) ==
    /\ pc[p] \in {"open", "signed"}
    /\ p \notin Daemon
    /\ Dropped(p)
    /\ UNCHANGED <<files, chain, faults>>

\* The process dies, or a file error ends the command; its memory is lost and
\* the files stay.
Crash(p) ==
    /\ pc[p] # "idle"
    /\ Fault
    /\ Dropped(p)
    /\ UNCHANGED <<files, chain>>

\* Ledger::append: the line goes to the end of the file, then to memory.
append(p, entry) ==
    /\ disk' = Append(disk, entry)
    /\ mem' = [mem EXCEPT ![p] = Append(@, entry)]

-----------------------------------------------------------------------------
(* pay::send: build, sidecar, durable Pending entry, broadcast.            *)

\* chain::build_signed: pick an unspent output and sign.
build_signed(p) ==
    /\ pc[p] = "open"
    /\ p \notin Daemon
    /\ \E t \in Tx, o \in Coin \cup Tx :
        /\ input[t] = Unsigned
        /\ o # t
        /\ Spendable(o)
        /\ input' = [input EXCEPT ![t] = o]
        /\ cur' = [cur EXCEPT ![p] = t]
    /\ Goto(p, "signed")
    /\ UNCHANGED <<files, net, relayed, reorgs, mem, confs, queue, orphans, faults>>

\* Mutant: the transaction is broadcast without its durable entry.
write_sidecar_unbooked(p) ==
    /\ pc[p] = "signed"
    /\ sidecars' = sidecars \cup {cur[p]}
    /\ Goto(p, "booked")
    /\ UNCHANGED <<disk, chain, local, faults>>

\* Ledger::write_sidecar
write_sidecar(p) ==
    /\ pc[p] = "signed"
    /\ sidecars' = sidecars \cup {cur[p]}
    /\ Goto(p, "staged")
    /\ UNCHANGED <<disk, chain, local, faults>>

append_sent(p) ==
    /\ pc[p] = "staged"
    /\ append(p, Sent(next_seq(mem[p]), cur[p]))
    /\ Goto(p, "booked")
    /\ UNCHANGED <<sidecars, chain, cur, confs, queue, orphans, faults>>

\* chain::broadcast reaches a node that takes the transaction (whether or not
\* the answer comes back); the command ends.
broadcast_delivered(p) ==
    /\ pc[p] = "booked"
    /\ Deliver(cur[p])
    /\ Dropped(p)
    /\ UNCHANGED <<files, input, reorgs, faults>>

\* chain::broadcast fails, by rejection or by a network error; the command
\* ends with the error.
broadcast_failed(p) ==
    /\ pc[p] = "booked"
    /\ Dropped(p)
    /\ UNCHANGED <<files, chain, faults>>

-----------------------------------------------------------------------------
(* ledger::reconcile                                                       *)

\* The queue of the pass is computed once, from memory.
start_reconcile(p) ==
    /\ pc[p] = "open"
    /\ queue' = [queue EXCEPT ![p] = pending(mem[p])]
    /\ Goto(p, "next")
    /\ UNCHANGED <<files, chain, mem, cur, confs, orphans, faults>>

\* The next txid in ledger order; its confirmation count is read.
read_confirmations(p, t) ==
    /\ pc[p] = "next"
    /\ t \in queue[p]
    /\ IsFirst(mem[p], t, queue[p])
    /\ cur' = [cur EXCEPT ![p] = t]
    /\ queue' = [queue EXCEPT ![p] = @ \ {t}]
    /\ confs' = [confs EXCEPT ![p] = confirmations(t)]
    /\ Goto(p, IF confirmations(t) = 0 THEN "limbo" ELSE "status")
    /\ UNCHANGED <<files, chain, mem, orphans, faults>>

\* The pass is over: a daemon keeps its ledger, a command drops it.
EndPass(p) ==
    IF p \in Daemon
    THEN /\ Goto(p, "open")
         /\ cur' = [cur EXCEPT ![p] = Unsigned]
         /\ confs' = [confs EXCEPT ![p] = 0]
         /\ queue' = [queue EXCEPT ![p] = {}]
         /\ orphans' = [orphans EXCEPT ![p] = {}]
         /\ UNCHANGED mem
    ELSE Dropped(p)

\* An error aborts the whole pass, the sweep included: a confirmations query
\* that fails, or an unreadable or unwritable file.
pass_error(p) ==
    /\ pc[p] \in PassStep
    /\ Fault
    /\ EndPass(p)
    /\ UNCHANGED <<files, chain>>

read_sidecar(p) ==
    /\ pc[p] = "limbo"
    /\ Goto(p, IF cur[p] \in sidecars THEN "held" ELSE "status")
    /\ UNCHANGED <<files, chain, local, faults>>

\* chain::rebroadcast_hex is taken: the payment stays as it is.
rebroadcast_accepted(p) ==
    /\ pc[p] = "held"
    /\ Deliver(cur[p])
    /\ Goto(p, "status")
    /\ UNCHANGED <<files, input, reorgs, local, faults>>

\* A transport error is classified as Accepted although nothing was sent.
rebroadcast_lost(p) ==
    /\ pc[p] = "held"
    /\ Fault
    /\ Goto(p, "status")
    /\ UNCHANGED <<files, chain, local>>

\* Mutant: any error counts as a hard rejection.
rebroadcast_rejected_any(p) ==
    /\ pc[p] = "held"
    /\ Goto(p, "dead")
    /\ UNCHANGED <<files, chain, local, faults>>

\* is_hard_rejection: the input is gone or a conflicting spend is known.
rebroadcast_rejected(p) ==
    /\ pc[p] = "held"
    /\ ~Acceptable(cur[p])
    /\ Goto(p, "dead")
    /\ UNCHANGED <<files, chain, local, faults>>

mark_failed(p) ==
    /\ pc[p] = "dead"
    /\ append(p, StatusUpdate(next_seq(mem[p]), cur[p], "Failed"))
    /\ Goto(p, "failed")
    /\ UNCHANGED <<sidecars, chain, cur, confs, queue, orphans, faults>>

\* Mutant: the sidecar is dropped whatever the confirmation count.
update_status_unsettled(p) ==
    LET new == from_confirmations(confs[p])
    IN  /\ pc[p] = "status"
        /\ IF latest_status(mem[p], cur[p]) # new
           THEN append(p, StatusUpdate(next_seq(mem[p]), cur[p], new))
           ELSE UNCHANGED <<disk, mem>>
        /\ Goto(p, "settled")
        /\ UNCHANGED <<sidecars, chain, cur, confs, queue, orphans, faults>>

\* A StatusUpdate is appended when the count maps to another status.
update_status(p) ==
    LET new == from_confirmations(confs[p])
    IN  /\ pc[p] = "status"
        /\ IF latest_status(mem[p], cur[p]) # new
           THEN append(p, StatusUpdate(next_seq(mem[p]), cur[p], new))
           ELSE UNCHANGED <<disk, mem>>
        /\ Goto(p, IF confs[p] >= 1 THEN "settled" ELSE "next")
        /\ UNCHANGED <<sidecars, chain, cur, confs, queue, orphans, faults>>

\* Ledger::remove_sidecar after Failed, Soft or Final.
remove_sidecar(p) ==
    /\ pc[p] \in {"failed", "settled"}
    /\ sidecars' = sidecars \ {cur[p]}
    /\ Goto(p, "next")
    /\ UNCHANGED <<disk, chain, local, faults>>

\* Sidecars with no Sent entry in this process's memory are orphans.
list_sidecars(p) ==
    /\ pc[p] = "next"
    /\ queue[p] = {}
    /\ orphans' = [orphans EXCEPT ![p] = sidecars \ recorded(mem[p])]
    /\ Goto(p, "sweep")
    /\ UNCHANGED <<files, chain, mem, cur, confs, queue, faults>>

sweep_orphan(p) ==
    /\ pc[p] = "sweep"
    /\ \E t \in orphans[p] :
        /\ sidecars' = sidecars \ {t}
        /\ orphans' = [orphans EXCEPT ![p] = @ \ {t}]
    /\ UNCHANGED <<disk, chain, pc, mem, cur, confs, queue, faults>>

end_reconcile(p) ==
    /\ pc[p] = "sweep"
    /\ orphans[p] = {}
    /\ EndPass(p)
    /\ UNCHANGED <<files, chain, faults>>

-----------------------------------------------------------------------------
SendNext(p) ==
    \/ build_signed(p) \/ write_sidecar(p) \/ append_sent(p)
    \/ broadcast_delivered(p) \/ broadcast_failed(p)

PassNext(p) ==
    \/ start_reconcile(p) \/ \E t \in Tx : read_confirmations(p, t)
    \/ pass_error(p) \/ read_sidecar(p)
    \/ rebroadcast_accepted(p) \/ rebroadcast_lost(p) \/ rebroadcast_rejected(p)
    \/ mark_failed(p) \/ update_status(p) \/ remove_sidecar(p)
    \/ list_sidecars(p) \/ sweep_orphan(p) \/ end_reconcile(p)

ProcNext(p) ==
    \/ OpenLedger(p) \/ Close(p) \/ Crash(p) \/ SendNext(p) \/ PassNext(p)

Next == (\E p \in Proc : ProcNext(p)) \/ MineBlock \/ Evict \/ Reorg

Spec == Init /\ [][Next]_vars

\* The steps a process takes by itself once an operation has begun.
Progress(p) ==
    \/ OpenLedger(p) \/ Close(p)
    \/ write_sidecar(p) \/ append_sent(p) \/ broadcast_delivered(p) \/ broadcast_failed(p)
    \/ \E t \in Tx : read_confirmations(p, t)
    \/ read_sidecar(p) \/ rebroadcast_accepted(p) \/ rebroadcast_rejected(p)
    \/ mark_failed(p) \/ update_status(p) \/ remove_sidecar(p)
    \/ list_sidecars(p) \/ sweep_orphan(p) \/ end_reconcile(p)

(***************************************************************************)
(* Fairness.  An operation that has begun goes on; every so often an       *)
(* opened ledger is reconciled (the daemon's WATCH tick, `cm balance', an  *)
(* MCP call); blocks are found, and some day one takes a transaction that  *)
(* keeps coming back to the mempool.  Nothing makes anybody send, evictions*)
(* go on for ever and faults are bounded by MaxFaults.                     *)
(***************************************************************************)
Fairness ==
    /\ \A p \in Proc : WF_vars(Progress(p)) /\ SF_vars(start_reconcile(p))
    /\ WF_vars(MineBlock)
    /\ \A t \in Tx : SF_vars(\E S \in SUBSET InMempool : t \in S /\ Block(S, {}))

FairSpec == Spec /\ Fairness

-----------------------------------------------------------------------------
(* Properties.                                                             *)

\* Write-ahead (pay.rs:5-8, pay.rs:50): whatever the network knows, or was ever
\* given, has a durable Sent entry, so no crash moves money without a record.
WriteAhead == \A t \in Tx : Known(t) \/ t \in relayed => t \in recorded(disk)

\* Recovery (pay.rs:7-10, ledger.rs:550-553): a payment that is still on the
\* work queue and that the network does not know has its signed transaction on
\* disk, so reconcile can rebroadcast it or prove it dead.
Recoverable ==
    \A t \in recorded(disk) :
        latest_status(disk, t) \notin Terminal /\ ~Known(t) => t \in sidecars

\* A payment the ledger un-debits as Failed is not on the network
\* (ledger.rs:31-34, "A Failed send never moved money").
FailedNeverMoved ==
    \A t \in Tx : latest_status(disk, t) = "Failed" => ~Known(t)

\* What the ledger books as settling or settled really has the confirmations
\* (ledger.rs:30-31; Status::from_confirmations applied to a count that may
\* be old when it is written).
BookedIsConfirmed ==
    \A t \in Tx : LET s == latest_status(disk, t)
                  IN  /\ s = "Soft"  => net[t] >= 1
                      /\ s = "Final" => net[t] >= FinalDepth

\* The delivery gate (ledger.rs:31, "3 confs = Final (delivery gate)"): a Final
\* payment falls short of three confirmations by no more than the blocks that
\* were replaced, also when one is replaced between the reading of the count and
\* the booking of the status.
FinalIsBuried ==
    \A t \in Tx : latest_status(disk, t) = "Final" /\ reorgs < FinalDepth
                  => net[t] >= FinalDepth - reorgs

\* Final and Failed are terminal in the file (ledger.rs:515, "off the work
\* queue"): no later entry changes the effective status.  With one process at a
\* time that rests on the queue and on the crash points of a pass; a second
\* process whose count is older breaks it (send_reopened.cfg).
TerminalForever ==
    [][\A t \in Tx : latest_status(disk, t) \in Terminal
            => latest_status(disk', t) = latest_status(disk, t)]_disk

\* `seq' is monotonic along the file (ledger.rs:57).
SeqIncreases ==
    \A i \in 1..Len(disk) : \A j \in 1..(i - 1) : disk[j].seq < disk[i].seq

\* The payment of the abstract specification: the effective status in the file
\* and where the network has the transaction.
PlaceOf(t) == CASE net[t] = -1 -> "home"
                [] net[t] >= FinalDepth -> "buried"
                [] OTHER -> "away"

Abstract == INSTANCE Payment WITH
    book  <- [t \in Tx |-> latest_status(disk, t)],
    money <- [t \in Tx |-> PlaceOf(t)]

\* The send path with one writer implements the promise of module Payment
\* (pay.rs:1-10, ledger.rs:30-34).
ImplementsPayment == Abstract!Spec

\* Every recorded payment is settled or declared dead some day, faults, evictions
\* and hidden mempools notwithstanding: the work queue drains (ledger.rs:7-10,
\* pay.rs:61-62).  After a reorganisation a payment whose sidecar is gone may stay.
Settles ==
    \A t \in Tx : t \in recorded(disk) ~> latest_status(disk, t) \in Terminal \/ reorgs > 0

\* The directory holds not-yet-settled transactions only (ledger.rs:550,
\* ledger.rs:590): the sidecar of a terminal payment goes away.
SidecarsCleaned ==
    \A t \in Tx : latest_status(disk, t) \in Terminal ~> t \notin sidecars

=============================================================================
