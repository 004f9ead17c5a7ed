------------------------------ MODULE SpSpend -------------------------------
(***************************************************************************)
(* Spending silent-payment income: pay::send_spending_sp and pay::sp_send  *)
(* (src/src/pay.rs), which consume every spendable silent-payment output   *)
(* together with descriptor coins and book SpSpent entries after the       *)
(* broadcast, next to ledger::reconcile and scan::track_spends.            *)
(*                                                                         *)
(* A transaction has several inputs here, and the network may forget it.   *)
(* The file and network accesses of one reconciled txid are one step;      *)
(* SendPath takes them apart, and has the numbers of the entries (here 0)  *)
(* and change outputs.  Keys and coin selection are in SilentSend.         *)
(***************************************************************************)
EXTENDS Ledger, FiniteSets

CONSTANTS
    Tx,           \* the transactions that can be signed
    Sp,           \* silent-payment outputs, booked and Final
    Coin,         \* descriptor coins
    Proc,         \* processes
    NoTx,         \* the current transaction of a process that has none
    MaxFaults,    \* bound on crashes, lost requests and lost answers
    MaxEvictions  \* bound on transactions the mempool forgets

ASSUME ConstAssumption ==
    /\ Tx \cap Sp = {} /\ Sp \cap Coin = {} /\ NoTx \notin Tx
    /\ IsFiniteSet(Sp)
    /\ MaxFaults \in Nat /\ MaxEvictions \in Nat

VARIABLES
    disk,      \* the entries of the ledger file
    sidecars,  \* the txids with a file pending/<txid>.tx
    inputs,    \* what a transaction spends; {} before it is signed
    net,       \* -1: unknown to esplora, 0: in its mempool, else its confirmations
    pc, mem,
    cur,       \* the transaction a process works on
    todo,      \* outpoints a process has still to book or to look up
    queue,     \* txids a reconcile has still to look at
    cut,       \* the sends that ended after their entry and before their last booking
    faults, evictions

files == <<disk, sidecars>>
chain == <<inputs, net, evictions>>
local == <<mem, cur, todo, queue>>
ended == <<cut, faults>>
vars  == <<disk, sidecars, inputs, net, pc, mem, cur, todo, queue, cut, faults, evictions>>

FinalDepth == 3

\* An output of Sp is output 0 of a transaction of the same name.
Point(o) == <<o, 0>>

Entry == [kind : {"SpReceived"}, seq : {0}, txid : Sp, vout : {0}, sats : {1}, status : {"Pending"}]
         \cup [kind : {"SpSpent"}, seq : {0}, txid : Sp, vout : {0}]
         \cup [kind : {"Sent"}, seq : {0}, txid : Tx, status : {"Pending"}]
         \cup [kind : {"StatusUpdate"}, seq : {0}, txid : Sp \cup Tx, status : Status]

TypeOK ==
    /\ disk \in Seq(Entry)
    /\ sidecars \subseteq Tx
    /\ inputs \in [Tx -> SUBSET (Sp \cup Coin)]
    /\ net \in [Tx -> {-1, 0, FinalDepth}]
    /\ pc \in [Proc -> {"idle", "open", "signed", "staged", "booked", "sent", "pass", "spends"}]
    /\ mem \in [Proc -> Seq(Entry)]
    /\ cur \in [Proc -> Tx \cup {NoTx}]
    /\ todo \in [Proc -> SUBSET Sp]
    /\ queue \in [Proc -> SUBSET Tx]
    /\ cut \subseteq Tx
    /\ faults \in 0..MaxFaults
    /\ evictions \in 0..MaxEvictions

\* The scanner has booked the income, and reconcile has seen it become Final.
Booked(order) ==
    [i \in 1..Len(order) |-> SpReceived(0, order[i], 0, 1)]
    \o [i \in 1..Len(order) |-> StatusUpdate(0, order[i], "Final")]

Init ==
    /\ disk = Booked(CHOOSE s \in [1..Cardinality(Sp) -> Sp] : \A o \in Sp : \E i \in DOMAIN s : s[i] = o)
    /\ sidecars = {}
    /\ inputs = [t \in Tx |-> {}]
    /\ net = [t \in Tx |-> -1]
    /\ pc = [p \in Proc |-> "idle"]
    /\ mem = [p \in Proc |-> <<>>]
    /\ cur = [p \in Proc |-> NoTx]
    /\ todo = [p \in Proc |-> {}]
    /\ queue = [p \in Proc |-> {}]
    /\ cut = {}
    /\ faults = 0
    /\ evictions = 0

-----------------------------------------------------------------------------
(* The network behind esplora.                                             *)

Known(t) == net[t] >= 0
SpentOnChain(o) == \E t \in Tx : Known(t) /\ o \in inputs[t]

\* A node takes a transaction it knows, or one whose inputs are all free.
Acceptable(t) == Known(t) \/ \A o \in inputs[t] : ~SpentOnChain(o)

Accepted(t) == IF Known(t) THEN net ELSE [net EXCEPT ![t] = 0]

confirmations(t) == IF net[t] >= 1 THEN net[t] ELSE 0

\* Blocks come until a transaction of the mempool is buried; SendPath has the
\* confirmations in between.
MineBlocks ==
    /\ \E t \in Tx : net[t] = 0 /\ net' = [net EXCEPT ![t] = FinalDepth]
    /\ UNCHANGED <<files, inputs, evictions, pc, local, ended>>

Evict ==
    /\ evictions < MaxEvictions
    /\ \E t \in Tx : net[t] = 0 /\ net' = [net EXCEPT ![t] = -1]
    /\ evictions' = evictions + 1
    /\ UNCHANGED <<files, inputs, pc, local, ended>>

-----------------------------------------------------------------------------
(* Opening and leaving the ledger.                                         *)

Goto(p, step) == pc' = [pc EXCEPT ![p] = step]

OpenLedger(p) ==
    /\ pc[p] = "idle"
    /\ mem' = [mem EXCEPT ![p] = disk]
    /\ Goto(p, "open")
    /\ UNCHANGED <<files, chain, cur, todo, queue, ended>>

Dropped(p) ==
    /\ mem' = [mem EXCEPT ![p] = <<>>]
    /\ cur' = [cur EXCEPT ![p] = NoTx]
    /\ todo' = [todo EXCEPT ![p] = {}]
    /\ queue' = [queue EXCEPT ![p] = {}]
    /\ Goto(p, "idle")

Fault == faults < MaxFaults /\ faults' = faults + 1

\* The command ends with an error, before the bookings that follow its entry.
CutShort(p) ==
    /\ cut' = IF pc[p] \in {"booked", "sent"} THEN cut \cup {cur[p]} ELSE cut
    /\ Dropped(p)

\* The process dies, or a failed request or file access ends the command.
Crash(p) ==
    /\ pc[p] \notin {"idle", "open"}
    /\ Fault
    /\ CutShort(p)
    /\ UNCHANGED <<files, chain>>

append(p, entry) ==
    /\ disk' = Append(disk, entry)
    /\ mem' = [mem EXCEPT ![p] = Append(@, entry)]

-----------------------------------------------------------------------------
(* pay::send_spending_sp, pay::sp_send                                     *)

\* chain::build_signed_spending_sp, chain::build_signed_to_sp: all spendable
\* silent-payment outputs of the opened ledger, with no look at the chain, and
\* descriptor coins that esplora lists as unspent.
build_signed_spending_sp(p) ==
    /\ pc[p] = "open"
    /\ \E t \in Tx, more \in SUBSET {c \in Coin : ~SpentOnChain(c)} :
        LET pinned == {mem[p][i].txid : i \in sp_utxos(mem[p])}
        IN  /\ inputs[t] = {}
            /\ pinned \cup more # {}
            /\ inputs' = [inputs EXCEPT ![t] = pinned \cup more]
            /\ cur' = [cur EXCEPT ![p] = t]
            /\ todo' = [todo EXCEPT ![p] = pinned]
    /\ Goto(p, "signed")
    /\ UNCHANGED <<files, net, evictions, mem, queue, ended>>

write_sidecar(p) ==
    /\ pc[p] = "signed"
    /\ sidecars' = sidecars \cup {cur[p]}
    /\ Goto(p, "staged")
    /\ UNCHANGED <<disk, chain, local, ended>>

\* Mutant: the outputs are booked as spent before the broadcast.
append_sent_early(p) ==
    /\ pc[p] = "staged"
    /\ LET sent == Sent(0, cur[p])
           spends == {SpSpent(0, o, 0) : o \in todo[p]}
       IN  \E s \in [1..Cardinality(spends) -> spends] :
            /\ \A e \in spends : \E i \in DOMAIN s : s[i] = e
            /\ disk' = disk \o <<sent>> \o s
            /\ mem' = [mem EXCEPT ![p] = @ \o <<sent>> \o s]
    /\ Goto(p, "booked")
    /\ UNCHANGED <<sidecars, chain, cur, todo, queue, ended>>

append_sent(p) ==
    /\ pc[p] = "staged"
    /\ append(p, Sent(0, cur[p]))
    /\ Goto(p, "booked")
    /\ UNCHANGED <<sidecars, chain, cur, todo, queue, ended>>

\* chain::broadcast is taken and the answer comes back.  A node may also answer
\* so for what is in its mempool already, never for what is in a block.
broadcast(p) ==
    /\ pc[p] = "booked"
    /\ Acceptable(cur[p]) /\ confirmations(cur[p]) = 0
    /\ net' = Accepted(cur[p])
    /\ IF todo[p] = {} THEN Dropped(p) ELSE Goto(p, "sent") /\ UNCHANGED local
    /\ UNCHANGED <<files, inputs, evictions, ended>>

\* Another process has rebroadcast the entry: "txn-already-known", "already in
\* block chain".  For chain::broadcast that is an error, and the command ends
\* with nothing booked.
broadcast_known(p) ==
    /\ pc[p] = "booked"
    /\ Known(cur[p])
    /\ CutShort(p)
    /\ UNCHANGED <<files, chain, faults>>

\* It is taken and the answer is lost: the command ends with an error.
broadcast_unanswered(p) ==
    /\ pc[p] = "booked"
    /\ Acceptable(cur[p])
    /\ Fault
    /\ net' = Accepted(cur[p])
    /\ CutShort(p)
    /\ UNCHANGED <<files, inputs, evictions>>

\* It is rejected.  A request that is lost is a Crash at this step.
broadcast_rejected(p) ==
    /\ pc[p] = "booked"
    /\ ~Acceptable(cur[p])
    /\ CutShort(p)
    /\ UNCHANGED <<files, chain, faults>>

\* The next output to book or to look up, in the order of the ledger.
NextTodo(p, o) == o \in todo[p] /\ IsFirst(mem[p], o, todo[p])

\* One output is done; the command ends with the last one.
DoneWith(p, o, view) ==
    IF todo[p] = {o} THEN Dropped(p)
    ELSE /\ todo' = [todo EXCEPT ![p] = @ \ {o}]
         /\ mem' = [mem EXCEPT ![p] = view]
         /\ UNCHANGED <<pc, cur, queue>>

\* Ledger::record_sp_spent, for one outpoint after the other.
record_sp_spent(p, o) ==
    LET entry == SpSpent(0, o, 0)
    IN  IF Point(o) \in sp_spent_set(mem[p]) THEN DoneWith(p, o, mem[p]) /\ UNCHANGED disk
        ELSE DoneWith(p, o, Append(mem[p], entry)) /\ disk' = Append(disk, entry)

book_spent(p) ==
    /\ pc[p] = "sent"
    /\ \E o \in Sp : NextTodo(p, o) /\ record_sp_spent(p, o)
    /\ UNCHANGED <<sidecars, chain, ended>>

-----------------------------------------------------------------------------
(* ledger::reconcile and scan::track_spends                                *)

\* Mutant: settled entries are reconciled as well.
start_reconcile_all(p) ==
    /\ pc[p] = "open"
    /\ queue' = [queue EXCEPT ![p] = {mem[p][i].txid : i \in DOMAIN mem[p]}]
    /\ Goto(p, "pass")
    /\ UNCHANGED <<files, chain, mem, cur, todo, ended>>

start_reconcile(p) ==
    /\ pc[p] = "open"
    /\ queue' = [queue EXCEPT ![p] = pending(mem[p])]
    /\ Goto(p, "pass")
    /\ UNCHANGED <<files, chain, mem, cur, todo, ended>>

\* One txid without confirmations whose rebroadcast is a hard rejection.
reconcile_dead(p, t) ==
    /\ pc[p] = "pass" /\ t \in queue[p] /\ IsFirst(mem[p], t, queue[p])
    /\ confirmations(t) = 0 /\ t \in sidecars /\ ~Acceptable(t)
    /\ append(p, StatusUpdate(0, t, "Failed"))
    /\ sidecars' = sidecars \ {t}
    /\ queue' = [queue EXCEPT ![p] = @ \ {t}]
    /\ UNCHANGED <<chain, pc, cur, todo, ended>>

\* One txid that is confirmed, or whose rebroadcast is taken, or that has no
\* sidecar.
reconcile_alive(p, t) ==
    LET new == from_confirmations(confirmations(t))
        resent == confirmations(t) = 0 /\ t \in sidecars
    IN  /\ pc[p] = "pass" /\ t \in queue[p] /\ IsFirst(mem[p], t, queue[p])
        /\ resent => Acceptable(t)
        /\ net' = IF resent THEN Accepted(t) ELSE net
        /\ IF latest_status(mem[p], t) = new THEN UNCHANGED <<disk, mem>>
           ELSE append(p, StatusUpdate(0, t, new))
        /\ sidecars' = IF confirmations(t) >= 1 THEN sidecars \ {t} ELSE sidecars
        /\ queue' = [queue EXCEPT ![p] = @ \ {t}]
        /\ UNCHANGED <<inputs, evictions, pc, cur, todo, ended>>

\* The sidecars without a Sent entry are swept.
end_reconcile(p) ==
    /\ pc[p] = "pass"
    /\ queue[p] = {}
    /\ sidecars' = sidecars \cap recorded(mem[p])
    /\ Dropped(p)
    /\ UNCHANGED <<disk, chain, ended>>

\* scan::track_spends: the spendable outputs of the opened ledger, one by one.
track_spends(p) ==
    /\ pc[p] = "open"
    /\ sp_utxos(mem[p]) # {}
    /\ todo' = [todo EXCEPT ![p] = {mem[p][i].txid : i \in sp_utxos(mem[p])}]
    /\ Goto(p, "spends")
    /\ UNCHANGED <<files, chain, mem, cur, queue, ended>>

look_up(p) ==
    /\ pc[p] = "spends"
    /\ \E o \in Sp :
        /\ NextTodo(p, o)
        /\ IF SpentOnChain(o) THEN record_sp_spent(p, o)
           ELSE DoneWith(p, o, mem[p]) /\ UNCHANGED disk
    /\ UNCHANGED <<sidecars, chain, ended>>

-----------------------------------------------------------------------------
ProcNext(p) ==
    \/ OpenLedger(p) \/ Crash(p)
    \/ build_signed_spending_sp(p) \/ write_sidecar(p) \/ append_sent(p)
    \/ broadcast(p) \/ broadcast_known(p) \/ broadcast_unanswered(p) \/ broadcast_rejected(p)
    \/ book_spent(p)
    \/ start_reconcile(p) \/ end_reconcile(p)
    \/ \E t \in Tx : reconcile_dead(p, t) \/ reconcile_alive(p, t)
    \/ track_spends(p) \/ look_up(p)

Next == (\E p \in Proc : ProcNext(p)) \/ MineBlocks

Spec == Init /\ [][Next]_vars

\* The same with a mempool that forgets.
EvictSpec == Init /\ [][Next \/ Evict]_vars

-----------------------------------------------------------------------------
(* Properties.                                                             *)

\* An output is booked as spent only for a recorded payment that has not failed:
\* a Failed send "never moved money" (ledger.rs:34), so what it would have
\* consumed is not taken off sp_balance.
GivenBack ==
    \A o \in Sp : Point(o) \in sp_spent_set(disk) =>
        \E t \in Tx : o \in inputs[t] /\ latest_status(disk, t) \notin {NoStatus, "Failed"}

\* An output that Ledger::sp_utxos offers to the next send is spent on the chain
\* only by a send that is still between its entry in the ledger (from which
\* another process may rebroadcast it) and its bookings, or that ended there: by a
\* crash, a lost answer, or the error that chain::broadcast makes of a transaction
\* another process was faster to rebroadcast.  Every send that returns its txid
\* has booked all it consumed (pay.rs:166-168), whoever else writes.
SpendableIsFree ==
    \A i \in sp_utxos(disk) : \A t \in Tx :
        Known(t) /\ disk[i].txid \in inputs[t] =>
            t \in cut \/ \E p \in Proc : cur[p] = t /\ pc[p] \in {"booked", "sent"}

\* The ledger and the chain agree on which silent-payment outputs are spent, in
\* both directions (pay.rs:133-136, pay.rs:166-168): nothing is written off for
\* a send that never moved money, and nothing a completed send spent is offered again.
SpBooksMatchChain == GivenBack /\ SpendableIsFree
=============================================================================
