------------------------------ MODULE Receive -------------------------------
(***************************************************************************)
(* A seller's daemon (serve::run) and the buyers that dial it: the shared  *)
(* UDP socket (tunnel::FramedTunnel), the receive protocol                 *)
(* (net::run_receiver, protocol::Receiver), the payer's side               *)
(* (tunnel::pay, net::run_payer) and the WATCH duty that books deposits    *)
(* from the chain (serve::chain_watch, Ledger::record_received), ending    *)
(* with a silent-payment scan that writes through a ledger of its own      *)
(* (serve::scan_fresh).                                                    *)
(*                                                                         *)
(* A buyer is one run of tunnel::pay with a socket of its own; a retry is  *)
(* another buyer.  Its payment transaction has its name.  Datagrams are    *)
(* lost at the moment they are sent; WireGuard drops replays.  The details *)
(* of a scan (checkpoint, lock, spends) are in module SpScan.              *)
(***************************************************************************)
EXTENDS Ledger, FiniteSets

CONSTANTS
    Buyer,       \* runs of `cm pay'
    Income,      \* silent-payment transactions that pay the seller
    Amount,      \* what a payment may be worth
    Nobody,      \* no session
    NoIndex,     \* no address issued
    MaxFaults,   \* bound on lost datagrams and failed esplora calls
    MaxCrashes   \* bound on daemon deaths

ASSUME ConstAssumption ==
    /\ Nobody \notin Buyer
    /\ NoIndex \notin Nat
    /\ Buyer \cap Income = {}
    /\ \A t \in Buyer \cup Income : t \notin Nat  \* `work' holds txids and indexes
    /\ MaxFaults \in Nat
    /\ MaxCrashes \in Nat

VARIABLES
    disk,       \* the entries of the seller's ledger file
    led,        \* the ledger the daemon has opened
    pc,         \* where the daemon is
    peer,       \* the buyer of the open session
    next_index, \* Receiver::next_index
    issued,     \* the index issued in this session
    claim,      \* the txid of the Notify being verified
    then,       \* where the daemon goes on after a reconcile
    work,       \* what a reconcile, a poll or a scan has still to look at
    inbox,      \* the datagrams in the seller's socket buffer
    reply,      \* the datagrams in each buyer's socket buffer
    buyer,      \* where each buyer is
    address,    \* the index each buyer was told to pay
    paid,       \* [index, sats] of each buyer's transaction
    confs,      \* -1: no such transaction on esplora, n: n confirmations.  A scan
                \* reads blocks only, so income starts at 0
    faults, crashes

seller == <<led, pc, peer, next_index, issued, claim, then, work>>
buyers == <<reply, buyer, address>>
chain  == <<paid, confs>>
vars   == <<disk, led, pc, peer, next_index, issued, claim, then, work, inbox,
            reply, buyer, address, paid, confs, faults, crashes>>

FinalDepth == 3
NotPaid == [index |-> NoIndex, sats |-> 0]

Message == [from : Buyer, type : {"init", "AddrRequest"}]
           \cup [from : Buyer, type : {"Notify"}, txid : Buyer]
Reply   == [type : {"response"}] \cup [type : {"AddrResponse"}, index : Nat]

Entry == [kind : {"AddressIssued"}, seq : Nat, index : Nat]
         \cup [kind : {"Received"}, seq : Nat, txid : Buyer, sats : Amount,
               index : Nat, status : {"Pending"}]
         \cup [kind : {"SpReceived"}, seq : Nat, txid : Income, vout : {0}, sats : {1},
               status : {"Pending"}]
         \cup [kind : {"StatusUpdate"}, seq : Nat, txid : Buyer \cup Income,
               status : Status]

TypeOK ==
    /\ disk \in Seq(Entry)
    /\ led \in Seq(Entry)
    /\ pc \in {"down", "reconcile", "poll", "scan", "accept", "session", "issue", "verify"}
    /\ peer \in Buyer \cup {Nobody}
    /\ next_index \in Nat
    /\ issued \in Nat \cup {NoIndex}
    /\ claim \in Buyer \cup {Nobody}
    /\ then \in {"poll", "accept"}
    /\ pc \in {"session", "issue", "verify"} <=> peer # Nobody
    /\ work \subseteq Nat \cup Buyer \cup Income
    /\ inbox \in Seq(Message)
    /\ reply \in [Buyer -> Seq(Reply)]
    /\ buyer \in [Buyer -> {"idle", "dialing", "asking", "paying", "notifying", "done", "failed"}]
    /\ address \in [Buyer -> Nat \cup {NoIndex}]
    /\ paid \in [Buyer -> [index : Nat, sats : Amount] \cup {NotPaid}]
    /\ confs \in [Buyer \cup Income -> -1..FinalDepth]
    /\ faults \in 0..MaxFaults
    /\ crashes \in 0..MaxCrashes

Init ==
    /\ disk = <<>>
    /\ led = <<>>
    /\ pc = "down"
    /\ peer = Nobody
    /\ next_index = 0
    /\ issued = NoIndex
    /\ claim = Nobody
    /\ then = "poll"
    /\ work = {}
    /\ inbox = <<>>
    /\ reply = [b \in Buyer |-> <<>>]
    /\ buyer = [b \in Buyer |-> "idle"]
    /\ address = [b \in Buyer |-> NoIndex]
    /\ paid = [b \in Buyer |-> NotPaid]
    /\ confs = [t \in Buyer \cup Income |-> IF t \in Income THEN 0 ELSE -1]
    /\ faults = 0
    /\ crashes = 0

-----------------------------------------------------------------------------
(* Datagrams.                                                              *)

\* A datagram or an esplora call is lost.
Lost == faults < MaxFaults /\ faults' = faults + 1

\* A datagram arrives at the end of the receiver's buffer or is lost.
ToSeller(m) ==
    \/ inbox' = Append(inbox, m) /\ UNCHANGED faults
    \/ Lost /\ UNCHANGED inbox

\* The socket of a buyer that has ended is closed.
ToBuyer(b, m) ==
    \/ /\ reply' = IF buyer[b] \in {"done", "failed"} THEN reply
                   ELSE [reply EXCEPT ![b] = Append(@, m)]
       /\ UNCHANGED faults
    \/ Lost /\ UNCHANGED reply

-----------------------------------------------------------------------------
(* The buyer: tunnel::pay, FramedTunnel::connect, net::run_payer.          *)

\* One handshake initiation, never retransmitted.
dial(b) ==
    /\ buyer[b] = "idle"
    /\ ToSeller([from |-> b, type |-> "init"])
    /\ buyer' = [buyer EXCEPT ![b] = "dialing"]
    /\ UNCHANGED <<disk, seller, reply, address, chain, crashes>>

\* The handshake response completes connect; run_payer asks for an address.
connected(b) ==
    /\ buyer[b] = "dialing"
    /\ reply[b] # <<>>
    /\ Head(reply[b]).type = "response"
    /\ reply' = [reply EXCEPT ![b] = Tail(@)]
    /\ ToSeller([from |-> b, type |-> "AddrRequest"])
    /\ buyer' = [buyer EXCEPT ![b] = "asking"]
    /\ UNCHANGED <<disk, seller, address, chain, crashes>>

\* The address arrives.
told_address(b) ==
    /\ buyer[b] = "asking"
    /\ reply[b] # <<>>
    /\ Head(reply[b]).type = "AddrResponse"
    /\ address' = [address EXCEPT ![b] = Head(reply[b]).index]
    /\ reply' = [reply EXCEPT ![b] = Tail(@)]
    /\ buyer' = [buyer EXCEPT ![b] = "paying"]
    /\ UNCHANGED <<disk, seller, inbox, chain, faults, crashes>>

\* pay::send; the transaction reaches esplora a while later.
pay_send(b) ==
    /\ buyer[b] = "paying"
    /\ \E sats \in Amount :
        paid' = [paid EXCEPT ![b] = [index |-> address[b], sats |-> sats]]
    /\ buyer' = [buyer EXCEPT ![b] = "notifying"]
    /\ UNCHANGED <<disk, seller, inbox, reply, address, confs, faults, crashes>>

\* The receiver is told a txid; a Notify may name any transaction.
notify(b) ==
    /\ buyer[b] = "notifying"
    /\ \E t \in Buyer : ToSeller([from |-> b, type |-> "Notify", txid |-> t])
    /\ buyer' = [buyer EXCEPT ![b] = "done"]
    /\ UNCHANGED <<disk, seller, reply, address, chain, crashes>>

\* A budget runs out (HANDSHAKE_BUDGET, RECV_TIMEOUT) with no datagram to read,
\* also while the answer is on its way; the payment is refused or the process
\* dies.
give_up(b) ==
    /\ buyer[b] \in {"dialing", "asking", "paying", "notifying"}
    /\ buyer[b] \in {"dialing", "asking"} => reply[b] = <<>>
    /\ buyer' = [buyer EXCEPT ![b] = "failed"]
    /\ UNCHANGED <<disk, seller, inbox, reply, address, chain, faults, crashes>>

-----------------------------------------------------------------------------
(* The chain.                                                              *)

\* A transaction shows on esplora, or is one block deeper.
Land(t) ==
    /\ t \in Buyer => paid[t] # NotPaid
    /\ confs[t] < FinalDepth
    /\ confs' = [confs EXCEPT ![t] = @ + 1]
    /\ UNCHANGED <<disk, seller, inbox, buyers, paid, faults, crashes>>

\* chain::deposits_to: the transactions esplora shows for an address.
deposits_to(index) == {b \in Buyer : confs[b] >= 0 /\ paid[b].index = index}

-----------------------------------------------------------------------------
(* The daemon.                                                             *)

\* serve::run opens the ledger once; its first WATCH is due at once, and begins
\* with a reconcile.
serve_start ==
    /\ pc = "down"
    /\ led' = disk
    /\ work' = pending(disk)
    /\ then' = "poll"
    /\ pc' = "reconcile"
    /\ UNCHANGED <<disk, peer, next_index, issued, claim, inbox, buyers, chain, faults,
                   crashes>>

\* The daemon dies; its socket buffer goes with it.
Crash ==
    /\ pc # "down"
    /\ crashes < MaxCrashes
    /\ crashes' = crashes + 1
    /\ pc' = "down"
    /\ led' = <<>>
    /\ peer' = Nobody
    /\ next_index' = 0
    /\ issued' = NoIndex
    /\ claim' = Nobody
    /\ then' = "poll"
    /\ work' = {}
    /\ inbox' = <<>>
    /\ UNCHANGED <<disk, buyers, chain, faults>>

\* Ledger::append on the daemon's ledger.
append(entry) == disk' = Append(disk, entry) /\ led' = Append(led, entry)

\* ledger::reconcile, one txid.
update_status(t) ==
    LET new == from_confirmations(IF confs[t] >= 1 THEN confs[t] ELSE 0)
    IN  /\ pc = "reconcile"
        /\ t \in work
        /\ IsFirst(led, t, work)
        /\ work' = work \ {t}
        /\ IF latest_status(led, t) = new
           THEN UNCHANGED <<disk, led>>
           ELSE append(StatusUpdate(next_seq(led), t, new))
        /\ UNCHANGED <<pc, peer, next_index, issued, claim, then, inbox, buyers, chain,
                       faults, crashes>>

\* The pass is over, or a failed query aborts it: the poll of the issued
\* addresses, or the next accept.
end_reconcile ==
    /\ pc = "reconcile"
    /\ \/ work = {} /\ UNCHANGED faults
       \/ Lost
    /\ pc' = then
    /\ work' = IF then = "poll" THEN issued_unpaid(led) ELSE {}
    /\ UNCHANGED <<disk, led, peer, next_index, issued, claim, then, inbox, buyers, chain,
                   crashes>>

\* Ledger::record_received: nothing if the txid is known.
record_received(t, index) ==
    IF has_txid(led, t) THEN UNCHANGED <<disk, led>>
    ELSE append(Received(next_seq(led), t, paid[t].sats, index))

\* One issued address is polled; the deposits found join the work.  An esplora
\* error is retried on the next tick.
poll_address(index) ==
    /\ pc = "poll"
    /\ index \in work
    /\ work \cap Buyer = {}
    /\ \/ work' = (work \ {index}) \cup deposits_to(index) /\ UNCHANGED faults
       \/ work' = work \ {index} /\ Lost
    /\ UNCHANGED <<disk, led, pc, peer, next_index, issued, claim, then, inbox, buyers,
                   chain, crashes>>

\* One deposit to the polled address is recorded.
record_deposit(t) ==
    /\ pc = "poll"
    /\ t \in work
    /\ work' = work \ {t}
    /\ record_received(t, paid[t].index)
    /\ UNCHANGED <<pc, peer, next_index, issued, claim, then, inbox, buyers, chain,
                   faults, crashes>>

\* serve::scan_fresh opens the file again; its pass looks at the blocks up to the
\* tip for income the file does not have.
scan_fresh ==
    /\ pc = "poll"
    /\ work = {}
    /\ work' = {t \in Income : confs[t] >= 1 /\ ~has_sp_output(disk, <<t, 0>>)}
    /\ pc' = "scan"
    /\ UNCHANGED <<disk, led, peer, next_index, issued, claim, then, inbox, buyers, chain,
                   faults, crashes>>

\* Ledger::record_sp_received on that ledger: the entry reaches the file and not
\* the ledger the daemon keeps.
record_sp_received(t) ==
    /\ pc = "scan"
    /\ t \in work
    /\ work' = work \ {t}
    /\ disk' = Append(disk, SpReceived(next_seq(disk), t, 0, 1))
    /\ UNCHANGED <<led, pc, peer, next_index, issued, claim, then, inbox, buyers, chain,
                   faults, crashes>>

\* The scan is over, or a failed query ends it until the next tick.
end_watch ==
    /\ pc = "scan"
    /\ \/ work = {} /\ UNCHANGED faults
       \/ Lost
    /\ work' = {}
    /\ pc' = "accept"
    /\ UNCHANGED <<disk, led, peer, next_index, issued, claim, then, inbox, buyers, chain,
                   crashes>>

\* FramedTunnel::accept_any: an initiation opens a session with a Receiver that
\* continues the addresses of the ledger.
accept_any ==
    /\ pc = "accept"
    /\ inbox # <<>>
    /\ Head(inbox).type = "init"
    /\ inbox' = Tail(inbox)
    /\ peer' = Head(inbox).from
    /\ next_index' = next_address_index(led)
    /\ issued' = NoIndex
    /\ ToBuyer(Head(inbox).from, [type |-> "response"])
    /\ pc' = "session"
    /\ UNCHANGED <<disk, led, claim, then, work, buyer, address, chain, crashes>>

\* accept_any finds a quiet socket or consumes a datagram that starts no session.
NoSession ==
    /\ pc = "accept"
    /\ inbox # <<>> => Head(inbox).type # "init"
    /\ inbox' = IF inbox = <<>> THEN inbox ELSE Tail(inbox)

\* Then the timers are looked at.  WATCH is due: reconcile first.
chain_watch ==
    /\ NoSession
    /\ work' = pending(led)
    /\ then' = "poll"
    /\ pc' = "reconcile"
    /\ UNCHANGED <<disk, led, peer, next_index, issued, claim, buyers, chain, faults,
                   crashes>>

\* No duty is due.
not_due ==
    /\ NoSession
    /\ UNCHANGED <<disk, seller, buyers, chain, faults, crashes>>

\* In a session the datagrams of everybody else, initiations too, fail to
\* authenticate and are dropped.
drop_stranger ==
    /\ pc = "session"
    /\ inbox # <<>>
    /\ Head(inbox).from # peer
    /\ inbox' = Tail(inbox)
    /\ UNCHANGED <<disk, seller, buyers, chain, faults, crashes>>

\* Mutant: the address is handed out before it is in the ledger.
issue_address_first ==
    /\ pc = "session"
    /\ inbox # <<>>
    /\ Head(inbox).from = peer
    /\ Head(inbox).type = "AddrRequest"
    /\ inbox' = Tail(inbox)
    /\ issued' = next_index
    /\ next_index' = next_index + 1
    /\ pc' = "issue"
    /\ UNCHANGED <<disk, led, peer, claim, then, work, buyers, chain, faults, crashes>>

\* AddrRequest: Receiver::handle takes the next index and it is written down.
issue_address ==
    /\ pc = "session"
    /\ inbox # <<>>
    /\ Head(inbox).from = peer
    /\ Head(inbox).type = "AddrRequest"
    /\ inbox' = Tail(inbox)
    /\ append(AddressIssued(next_seq(led), next_index))
    /\ issued' = next_index
    /\ next_index' = next_index + 1
    /\ pc' = "issue"
    /\ UNCHANGED <<peer, claim, then, work, buyers, chain, faults, crashes>>

\* Then the answer is sent.
send_address ==
    /\ pc = "issue"
    /\ ToBuyer(peer, [type |-> "AddrResponse", index |-> issued])
    /\ pc' = "session"
    /\ UNCHANGED <<disk, led, peer, next_index, issued, claim, then, work, inbox, buyer,
                   address, chain, crashes>>

\* Notify: the claimed txid is looked up on the chain.
recv_notify ==
    /\ pc = "session"
    /\ inbox # <<>>
    /\ Head(inbox).from = peer
    /\ Head(inbox).type = "Notify"
    /\ inbox' = Tail(inbox)
    /\ claim' = Head(inbox).txid
    /\ pc' = "verify"
    /\ UNCHANGED <<disk, led, peer, next_index, issued, then, work, buyers, chain,
                   faults, crashes>>

\* Mutant: the session is left open.
SessionOver_open == UNCHANGED peer /\ issued' = NoIndex /\ claim' = Nobody /\ next_index' = 0

\* The session value is dropped.
SessionOver == peer' = Nobody /\ issued' = NoIndex /\ claim' = Nobody /\ next_index' = 0

\* Mutant: the claim is booked for the issued address without a look at the chain.
verify_trusting ==
    /\ pc = "verify"
    /\ issued # NoIndex
    /\ paid[claim] # NotPaid
    /\ record_received(claim, issued)
    /\ work' = pending(led')
    /\ then' = "accept"
    /\ pc' = "reconcile"
    /\ SessionOver
    /\ UNCHANGED <<inbox, buyers, chain, faults, crashes>>

\* A transaction that pays the address of this session is booked, with the
\* amount of the chain, and reconciled; the session is over.
verify_notify ==
    /\ pc = "verify"
    /\ issued # NoIndex
    /\ claim \in deposits_to(issued)
    /\ record_received(claim, issued)
    /\ work' = pending(led')
    /\ then' = "accept"
    /\ pc' = "reconcile"
    /\ SessionOver
    /\ UNCHANGED <<inbox, buyers, chain, faults, crashes>>

\* Any other claim books nothing: no address was issued in this session, the
\* transaction does not show or pays something else, or esplora fails.
ignore_notify ==
    /\ pc = "verify"
    /\ \/ issued = NoIndex /\ UNCHANGED faults
       \/ issued # NoIndex /\ claim \notin deposits_to(issued) /\ UNCHANGED faults
       \/ Lost
    /\ pc' = "accept"
    /\ SessionOver
    /\ UNCHANGED <<disk, led, then, work, inbox, buyers, chain, crashes>>

\* The session idles out, also under a buyer that is still building its payment
\* or whose Notify comes too late.
session_timeout ==
    /\ pc = "session"
    /\ inbox = <<>>
    /\ SessionOver
    /\ pc' = "accept"
    /\ UNCHANGED <<disk, led, then, work, inbox, buyers, chain, faults, crashes>>

-----------------------------------------------------------------------------
BuyerNext(b) ==
    \/ dial(b) \/ connected(b) \/ told_address(b) \/ pay_send(b) \/ notify(b) \/ give_up(b)

SellerNext ==
    \/ serve_start \/ chain_watch \/ not_due
    \/ (\E t \in Buyer \cup Income : update_status(t)) \/ end_reconcile
    \/ (\E i \in IssuedIndexes(led) : poll_address(i))
    \/ (\E t \in Buyer : record_deposit(t))
    \/ scan_fresh \/ (\E t \in Income : record_sp_received(t)) \/ end_watch
    \/ accept_any \/ drop_stranger \/ issue_address \/ send_address
    \/ recv_notify \/ verify_notify \/ ignore_notify \/ session_timeout

Next ==
    \/ \E b \in Buyer : BuyerNext(b)
    \/ \E t \in Buyer \cup Income : Land(t)
    \/ SellerNext \/ Crash

Spec == Init /\ [][Next]_vars

(***************************************************************************)
(* Fairness: the daemon's loop goes on and is restarted, and transactions  *)
(* confirm.  Buyers may stop anywhere.  A quiet socket leaves the daemon   *)
(* nothing but its next WATCH, so the timer needs no fairness of its own.  *)
(***************************************************************************)
Fairness == WF_vars(SellerNext) /\ WF_vars(\E b \in Buyer : Land(b))

FairSpec == Spec /\ Fairness

-----------------------------------------------------------------------------
(* Properties.                                                             *)

\* No address is handed out twice by the daemon, across sessions, crashes,
\* restarts and what its scans write beside its ledger, so the index identifies
\* the payment (protocol.rs:59-62, ledger.rs:227-229).  (`cm_setup' and
\* `cm_address' also show the address of index 0, which no ledger records:
\* mcp.rs:469, mcp.rs:521-523.)
NoAddressReuse ==
    /\ \A i, j \in Of(disk, "AddressIssued") : disk[i].index = disk[j].index => i = j
    /\ \A b, c \in Buyer : address[b] = address[c] /\ address[b] # NoIndex => b = c

\* What is booked is on the chain, for that address and with that amount: a
\* Notify is a hint, never a proof (net.rs:50-57).
ReceivedIsReal ==
    \A i \in Of(disk, "Received") :
        /\ confs[disk[i].txid] >= 0
        /\ paid[disk[i].txid] = [index |-> disk[i].index, sats |-> disk[i].sats]

\* Final is never booked early (ledger.rs:31): the seller delivers on it.  The
\* count, the Received entry and the SpReceived entry come from three different
\* reads, and the entry may have been written by another ledger than the status.
DeliveryGate ==
    \A t \in Buyer \cup Income : latest_status(disk, t) = "Final" => confs[t] = FinalDepth

\* Every payment to an issued address is booked and becomes Final some day,
\* also when its Notify is lost, early or wrong, or the daemon dies
\* (net.rs:55-57, serve.rs:157-160).
PaymentBooked ==
    \A b \in Buyer : paid[b] # NotPaid ~> latest_status(disk, b) = "Final"

\* An initiation that has reached the daemon's socket is answered some day
\* (tunnel.rs:40-42, serve.rs:105-110).
InitAnswered ==
    \A b \in Buyer :
        (\E i \in 1..Len(inbox) : inbox[i] = [from |-> b, type |-> "init"])
            ~> (peer = b)

=============================================================================
