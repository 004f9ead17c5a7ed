------------------------------- MODULE Spend --------------------------------
(***************************************************************************)
(* What stands between a request to pay and pay::send: the spend policy of *)
(* src/src/policy.rs, checked at the call sites against one opened ledger  *)
(* (mcp::send_payment, sp_pay and its twin in main.rs, net::run_payer) and *)
(* in chain::build_signed, and the endpoint loop of mcp::pay_peer and      *)
(* `cm pay'.  A payer is a process that runs one command after another.    *)
(* The inside of pay::send is module SendPath; here its durable entry and  *)
(* its broadcast are one step each.  Time is counted in units of which     *)
(* Window make the daily window.  Amounts have the width of Word.          *)
(***************************************************************************)
EXTENDS Integers, Sequences, FiniteSetsExt

CONSTANTS
    Payer,         \* processes that pay
    Policies,      \* the contents policy.json may have
    Mainnet,       \* TRUE on mainnet
    Amount,        \* amounts a caller may ask for
    Fee,           \* fees a built transaction may have
    Address,       \* payees: addresses and silent-payment codes
    Funds,         \* what the wallet holds
    Word,          \* one above the largest u64
    Window,        \* DAILY_WINDOW_SECS
    Endpoints,     \* how many endpoints a card lists
    SP_MIN_SATS,   \* the smallest silent payment
    MaxClock, MaxCommands, MaxFaults

\* A limit that is not set (`None').
NoLimit == -1

Policy == [max_payment : Nat \cup {NoLimit}, daily_limit : Nat \cup {NoLimit},
           max_fee : Nat \cup {NoLimit}, blocked : SUBSET Address]

ASSUME ConstAssumption ==
    /\ Policies \subseteq Policy
    /\ Mainnet \in BOOLEAN
    /\ Word \in Nat \ {0}
    /\ Amount \subseteq 1..(Word - 1)
    /\ Fee \subseteq Nat
    /\ Funds \in 0..(Word - 1)
    /\ Window \in Nat /\ Endpoints \in Nat \ {0} /\ SP_MIN_SATS \in Nat
    /\ MaxClock \in Nat /\ MaxCommands \in Nat /\ MaxFaults \in Nat

VARIABLES
    policy,    \* policy.json
    clock,     \* now_unix
    disk,      \* the Sent entries of the ledger file
    moved,     \* the entries whose transaction has reached the network
    pc,        \* where each payer is
    req,       \* the command each payer runs
    mem,       \* the Sent entries in each payer's memory
    eps,       \* endpoints still to try
    report,    \* the entry a payer names as its payment
    commands, faults

vars == <<policy, clock, disk, moved, pc, req, mem, eps, report, commands, faults>>

Path == {"send", "sp_pay", "tunnel"}
NoReq == [cmd |-> 0, path |-> "send", sats |-> 0, to |-> CHOOSE a \in Address : TRUE, fee |-> 0]

Sent == [cmd : 1..MaxCommands, path : Path, sats : Amount, to : Address, fee : Fee,
         at : 0..MaxClock]

TypeOK ==
    /\ policy \in Policies
    /\ clock \in 0..MaxClock
    /\ disk \in Seq(Sent)
    /\ moved \subseteq 1..Len(disk)
    /\ pc \in [Payer -> {"idle", "open", "connect", "amount", "ask", "address", "build",
                         "derived", "book", "broadcast", "notify", "readback", "done"}]
    /\ \A p \in Payer :
        /\ req[p] = NoReq \/ req[p] \in
               [cmd : 1..MaxCommands, path : Path, sats : Amount, to : Address, fee : Fee \cup {0}]
        /\ mem[p] \in Seq(Sent) /\ Len(mem[p]) <= Len(disk)
        /\ eps[p] \in 0..Endpoints
        /\ report[p] \in 0..Len(disk)
    /\ commands \in 0..MaxCommands
    /\ faults \in 0..MaxFaults

Init ==
    /\ policy \in Policies
    /\ clock = 0
    /\ disk = <<>>
    /\ moved = {}
    /\ pc = [p \in Payer |-> "idle"]
    /\ req = [p \in Payer |-> NoReq]
    /\ mem = [p \in Payer |-> <<>>]
    /\ eps = [p \in Payer |-> 0]
    /\ report = [p \in Payer |-> 0]
    /\ commands = 0
    /\ faults = 0

-----------------------------------------------------------------------------
(* The policy.                                                             *)

Total(es, positions) == MapThenSumSet(LAMBDA i : es[i].sats, positions)

\* Ledger::spent_since
spent_since(es, cutoff) == Total(es, {i \in 1..Len(es) : es[i].at >= cutoff})

\* Mutant: the day's spending is left out of the daily check.
check_amount_alone(sats, spent) ==
    /\ policy.max_payment # NoLimit => sats <= policy.max_payment
    /\ policy.daily_limit # NoLimit => sats <= policy.daily_limit

\* Policy::check_amount; the sum wraps around in a release build.
check_amount(sats, spent) ==
    /\ policy.max_payment # NoLimit => sats <= policy.max_payment
    /\ policy.daily_limit # NoLimit => (spent + sats) % Word <= policy.daily_limit

\* Policy::check_address
check_address(a) == a \notin policy.blocked

\* The fee gate of chain::build_signed, with the caller's max_fee_sats.
check_fee(fee) == policy.max_fee # NoLimit => fee <= policy.max_fee

\* Mutant: a spend cap is enough.
ensure_mainnet_spend_capped ==
    Mainnet => policy.max_payment # NoLimit \/ policy.daily_limit # NoLimit

\* policy::ensure_mainnet_capped
ensure_mainnet_capped ==
    Mainnet => /\ policy.max_payment # NoLimit \/ policy.daily_limit # NoLimit
               /\ policy.max_fee # NoLimit

-----------------------------------------------------------------------------
(* A payment, step by step.                                                *)

Goto(p, step) == pc' = [pc EXCEPT ![p] = step]
Fault == faults < MaxFaults /\ faults' = faults + 1

Tick ==
    /\ clock < MaxClock
    /\ clock' = clock + 1
    /\ UNCHANGED <<policy, disk, moved, pc, req, mem, eps, report, commands, faults>>

\* A call or a command line; a tunnel goes to the one endpoint of a direct link
\* or to the endpoints of a card in turn.
command(p) ==
    /\ pc[p] \in {"idle", "done"}
    /\ commands < MaxCommands
    /\ commands' = commands + 1
    /\ \E path \in Path, sats \in Amount, to \in Address :
        /\ req' = [req EXCEPT ![p] = [cmd |-> commands + 1, path |-> path, sats |-> sats,
                                      to |-> to, fee |-> 0]]
        /\ \E n \in {1, Endpoints} :
            eps' = [eps EXCEPT ![p] = IF path = "tunnel" THEN n - 1 ELSE 0]
    /\ Goto(p, "open")
    /\ UNCHANGED <<policy, clock, disk, moved, mem, report, faults>>

\* Mutant: the loop over the endpoints runs one too far.
Failed_again(p) ==
    /\ mem' = [mem EXCEPT ![p] = <<>>]
    /\ IF req[p].path = "tunnel" /\ eps[p] >= 0
       THEN Goto(p, "open") /\ eps' = [eps EXCEPT ![p] = @ - 1] /\ UNCHANGED req
       ELSE Goto(p, "idle") /\ req' = [req EXCEPT ![p] = NoReq] /\ UNCHANGED eps

\* A session that ends with an error, any error, moves on to the next endpoint;
\* the last error, and every error of the other paths, ends the command.
Failed(p) ==
    /\ mem' = [mem EXCEPT ![p] = <<>>]
    /\ IF req[p].path = "tunnel" /\ eps[p] > 0
       THEN Goto(p, "open") /\ eps' = [eps EXCEPT ![p] = @ - 1] /\ UNCHANGED req
       ELSE Goto(p, "idle") /\ req' = [req EXCEPT ![p] = NoReq] /\ UNCHANGED eps

\* A gate of the payment: the next step if it opens, an error if not.
Gate(p, open, step) ==
    \/ open /\ Goto(p, step) /\ UNCHANGED <<req, mem, eps>>
    \/ ~open /\ Failed(p)

\* The ledger is opened for this command, and again for every endpoint.
open_ledger(p) ==
    /\ pc[p] = "open"
    /\ mem' = [mem EXCEPT ![p] = disk]
    /\ Goto(p, IF req[p].path = "tunnel" THEN "connect" ELSE "amount")
    /\ UNCHANGED <<policy, clock, disk, moved, req, eps, report, commands, faults>>

\* The handshake with the endpoint.
connect(p) ==
    /\ pc[p] = "connect"
    /\ Goto(p, "amount")
    /\ UNCHANGED <<policy, clock, disk, moved, req, mem, eps, report, commands, faults>>

\* Before the payee is contacted: the amount and the day's total of this view.
gate_amount(p) ==
    /\ pc[p] = "amount"
    /\ LET cutoff == IF clock > Window THEN clock - Window ELSE 0
       IN  Gate(p, check_amount(req[p].sats, spent_since(mem[p], cutoff)),
                IF req[p].path = "tunnel" THEN "ask" ELSE "address")
    /\ UNCHANGED <<policy, clock, disk, moved, report, commands, faults>>

\* The peer answers with an address of its choice.
told_address(p) ==
    /\ pc[p] = "ask"
    /\ \E a \in Address : req' = [req EXCEPT ![p].to = a]
    /\ Goto(p, "address")
    /\ UNCHANGED <<policy, clock, disk, moved, mem, eps, report, commands, faults>>

\* The payee: an address, or a silent-payment code of at least SP_MIN_SATS.
gate_address(p) ==
    /\ pc[p] = "address"
    /\ Gate(p, check_address(req[p].to)
               /\ (req[p].path = "sp_pay" => req[p].sats >= SP_MIN_SATS), "build")
    /\ UNCHANGED <<policy, clock, disk, moved, report, commands, faults>>

\* chain::build_signed and its silent-payment versions: the mainnet guard, the
\* funds esplora shows, the fee cap.
build_signed(p) ==
    /\ pc[p] = "build"
    /\ ensure_mainnet_capped
    /\ req[p].sats <= Funds - Total(disk, moved)
    /\ \E fee \in Fee : check_fee(fee) /\ req' = [req EXCEPT ![p].fee = fee]
    /\ Goto(p, IF req[p].path = "sp_pay" THEN "derived" ELSE "book")
    /\ UNCHANGED <<policy, clock, disk, moved, mem, eps, report, commands, faults>>

build_refused(p) ==
    /\ pc[p] = "build"
    /\ \/ ~ensure_mainnet_capped
       \/ req[p].sats > Funds - Total(disk, moved)
       \/ \E fee \in Fee : ~check_fee(fee)
    /\ Failed(p)
    /\ UNCHANGED <<policy, clock, disk, moved, report, commands, faults>>

\* pay::sp_send: the derived one-time address passes the blocklist too.
gate_derived(p) ==
    /\ pc[p] = "derived"
    /\ \E a \in Address : Gate(p, check_address(a), "book")
    /\ UNCHANGED <<policy, clock, disk, moved, report, commands, faults>>

\* The durable Sent entry.
append_sent(p) ==
    LET entry == [cmd |-> req[p].cmd, path |-> req[p].path, sats |-> req[p].sats,
                  to |-> req[p].to, fee |-> req[p].fee, at |-> clock]
    IN  /\ pc[p] = "book"
        /\ disk' = Append(disk, entry)
        /\ mem' = [mem EXCEPT ![p] = Append(@, entry)]
        /\ Goto(p, "broadcast")
        /\ UNCHANGED <<policy, clock, moved, req, eps, report, commands, faults>>

\* The entry this payer's command has booked last.
Booked(p) == CHOOSE i \in 1..Len(disk) :
    disk[i].cmd = req[p].cmd /\ \A j \in 1..Len(disk) : disk[j].cmd = req[p].cmd => j <= i

\* The network takes the transaction and the answer arrives.
broadcast(p) ==
    /\ pc[p] = "broadcast"
    /\ req[p].sats <= Funds - Total(disk, moved)
    /\ moved' = moved \cup {Booked(p)}
    /\ Goto(p, IF req[p].path = "tunnel" THEN "notify" ELSE "done")
    /\ report' = IF req[p].path = "tunnel" THEN report
                 ELSE [report EXCEPT ![p] = Booked(p)]
    /\ UNCHANGED <<policy, clock, disk, req, mem, eps, commands, faults>>

\* The broadcast ends with an error, whether or not the network took it.
broadcast_error(p) ==
    /\ pc[p] = "broadcast"
    /\ \/ Fault /\ UNCHANGED moved
       \/ Fault /\ req[p].sats <= Funds - Total(disk, moved)
                /\ moved' = moved \cup {Booked(p)}
       \/ req[p].sats > Funds - Total(disk, moved) /\ UNCHANGED <<moved, faults>>
    /\ Failed(p)
    /\ UNCHANGED <<policy, clock, disk, report, commands>>

\* ledger::reconcile rebroadcasts a booked transaction, some time later.
rebroadcast ==
    /\ \E i \in (1..Len(disk)) \ moved :
        /\ disk[i].sats <= Funds - Total(disk, moved)
        /\ moved' = moved \cup {i}
    /\ UNCHANGED <<policy, clock, disk, pc, req, mem, eps, report, commands, faults>>

\* The Notify is sent.
notify(p) ==
    /\ pc[p] = "notify"
    /\ Goto(p, "readback")
    /\ UNCHANGED <<policy, clock, disk, moved, req, mem, eps, report, commands, faults>>

\* A handshake or a request that is not answered, a Notify that cannot be sent.
session_error(p) ==
    /\ pc[p] \in {"connect", "ask", "notify"}
    /\ Fault
    /\ Failed(p)
    /\ UNCHANGED <<policy, clock, disk, moved, report, commands>>

\* The process dies.
Crash(p) ==
    /\ pc[p] \notin {"idle", "done"}
    /\ Fault
    /\ Goto(p, "idle")
    /\ req' = [req EXCEPT ![p] = NoReq]
    /\ mem' = [mem EXCEPT ![p] = <<>>]
    /\ eps' = [eps EXCEPT ![p] = 0]
    /\ UNCHANGED <<policy, clock, disk, moved, report, commands>>

\* mcp::pay_peer opens the ledger again and names the newest Sent entry; the
\* command line just ends here.
readback(p) ==
    /\ pc[p] = "readback"
    /\ report' = [report EXCEPT ![p] = Len(disk)]
    /\ Goto(p, "done")
    /\ UNCHANGED <<policy, clock, disk, moved, req, mem, eps, commands, faults>>

-----------------------------------------------------------------------------
PayNext(p) ==
    \/ command(p) \/ open_ledger(p) \/ connect(p) \/ gate_amount(p) \/ told_address(p)
    \/ gate_address(p) \/ build_signed(p) \/ build_refused(p) \/ gate_derived(p)
    \/ append_sent(p) \/ broadcast(p) \/ broadcast_error(p) \/ notify(p)
    \/ session_error(p) \/ Crash(p) \/ readback(p)

Next == Tick \/ rebroadcast \/ \E p \in Payer : PayNext(p)

Spec == Init /\ [][Next]_vars

-----------------------------------------------------------------------------
(* Properties.                                                             *)

\* Whatever path a payment took, it passed every gate of the policy: the
\* per-payment cap, the blocklist, the fee cap, and on mainnet a policy that
\* has caps (policy.rs:84-92).
PolicyHolds ==
    \A i \in 1..Len(disk) :
        /\ policy.max_payment # NoLimit => disk[i].sats <= policy.max_payment
        /\ disk[i].to \notin policy.blocked
        /\ policy.max_fee # NoLimit => disk[i].fee <= policy.max_fee
        /\ Mainnet => /\ policy.max_fee # NoLimit
                      /\ policy.max_payment # NoLimit \/ policy.daily_limit # NoLimit

\* No window of the daily length holds more spending than the daily limit: time
\* passes between the check and the entry, endpoints are retried, sums wrap
\* (policy.rs:31-32).
DailyCap ==
    policy.daily_limit # NoLimit =>
        \A c \in 0..MaxClock :
            Total(disk, {i \in 1..Len(disk) : disk[i].at \in c..(c + Window)})
                <= policy.daily_limit

\* The txid a command reports is its own payment (mcp.rs:873-875, 920-921): it is
\* read back as the newest Sent entry of a file every process appends to.
ReportedIsOwn ==
    \A p \in Payer : pc[p] = "done" => disk[report[p]].cmd = req[p].cmd

\* One command moves money once (pay.rs:3-6).
PaidOnce ==
    \A i, j \in moved : disk[i].cmd = disk[j].cmd => i = j

=============================================================================
