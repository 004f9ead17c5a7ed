------------------------------- MODULE Ledger -------------------------------
(***************************************************************************)
(* The append-only ledger of src/src/ledger.rs: the entries and the folds  *)
(* over them.  A `Ledger' value is the sequence of entries that one opened *)
(* instance holds in memory; every fold reads that sequence and nothing    *)
(* else.  Signatures, JSON and amounts a property does not look at are     *)
(* left out.  The folds are written with index sets, not with RECURSIVE    *)
(* operators, so that modules with proofs can use them.                    *)
(***************************************************************************)
EXTENDS Integers, Sequences

\* The effective status of a txid the ledger does not mention (`None').
NoStatus == "None"

Status == {"Pending", "Soft", "Final", "Failed"}

\* Final and Failed leave the work queue for good.
Terminal == {"Final", "Failed"}

\* Mutant: the delivery gate opens one confirmation early.
from_confirmations_early(confs) ==
    CASE confs = 0 -> "Pending"
      [] confs = 1 -> "Soft"
      [] OTHER     -> "Final"

\* Status::from_confirmations: 0 is Pending, 1 and 2 are Soft, more is Final.
from_confirmations(confs) ==
    CASE confs = 0      -> "Pending"
      [] confs \in 1..2 -> "Soft"
      [] OTHER          -> "Final"

-----------------------------------------------------------------------------
(* Entries, by the fields the folds read.                                  *)

Sent(seq, txid) ==
    [kind |-> "Sent", seq |-> seq, txid |-> txid, status |-> "Pending"]
StatusUpdate(seq, txid, status) ==
    [kind |-> "StatusUpdate", seq |-> seq, txid |-> txid, status |-> status]
AddressIssued(seq, index) ==
    [kind |-> "AddressIssued", seq |-> seq, index |-> index]
Received(seq, txid, sats, index) ==
    [kind |-> "Received", seq |-> seq, txid |-> txid, sats |-> sats,
     index |-> index, status |-> "Pending"]
SpReceived(seq, txid, vout, sats) ==
    [kind |-> "SpReceived", seq |-> seq, txid |-> txid, vout |-> vout,
     sats |-> sats, status |-> "Pending"]
SpSpent(seq, txid, vout) ==
    [kind |-> "SpSpent", seq |-> seq, txid |-> txid, vout |-> vout]

-----------------------------------------------------------------------------
(* Folds.                                                                  *)

\* The entry carries a status for txid.
Mentions(e, txid) ==
    /\ e.kind \in {"Sent", "Received", "SpReceived", "StatusUpdate"}
    /\ e.txid = txid

\* Mutant: the increment is forgotten.
next_seq_reused(es) == IF es = <<>> THEN 0 ELSE es[Len(es)].seq

\* Ledger::next_seq: one above the last entry of this view.
next_seq(es) == IF es = <<>> THEN 0 ELSE es[Len(es)].seq + 1

\* Ledger::latest_status: the status of the last entry that mentions txid.
latest_status(es, txid) ==
    LET at == {i \in 1..Len(es) : Mentions(es[i], txid)}
    IN  IF at = {} THEN NoStatus
        ELSE es[CHOOSE i \in at : \A j \in at : j <= i].status

\* The entry is a payment (not a StatusUpdate) of txid.
IsPayment(e, txid) ==
    /\ e.kind \in {"Sent", "Received", "SpReceived"}
    /\ e.txid = txid

\* Ledger::has_txid: some payment entry is about txid.
has_txid(es, txid) == \E i \in 1..Len(es) : IsPayment(es[i], txid)

\* The txids of Sent entries (the `recorded' set of reconcile).
recorded(es) == {es[i].txid : i \in {j \in 1..Len(es) : es[j].kind = "Sent"}}

\* Mutant: only Final is taken off the work queue.
pending_with_failed(es) ==
    {txid \in {es[i].txid : i \in {j \in 1..Len(es) :
                   es[j].kind \in {"Sent", "Received", "SpReceived"}}} :
        latest_status(es, txid) # "Final"}

\* Mutant: a payment leaves the work queue at its first confirmation.
pending_until_soft(es) ==
    {txid \in {es[i].txid : i \in {j \in 1..Len(es) :
                   es[j].kind \in {"Sent", "Received", "SpReceived"}}} :
        latest_status(es, txid) = "Pending"}

\* Ledger::pending, as a set: the txids of payment entries whose effective
\* status is neither Final nor Failed.
pending(es) ==
    {txid \in {es[i].txid : i \in {j \in 1..Len(es) :
                   es[j].kind \in {"Sent", "Received", "SpReceived"}}} :
        latest_status(es, txid) \notin Terminal}

\* The order in which Ledger::pending lists txids: by first payment entry.
IsFirst(es, txid, queue) ==
    \E i \in 1..Len(es) :
        /\ IsPayment(es[i], txid)
        /\ \A j \in 1..(i - 1) : \A u \in queue : ~IsPayment(es[j], u)

-----------------------------------------------------------------------------
(* Receive addresses.                                                      *)

\* The positions of the entries of one kind.
Of(es, kind) == {i \in 1..Len(es) : es[i].kind = kind}

\* The receive indexes that were handed out.
IssuedIndexes(es) == {es[i].index : i \in Of(es, "AddressIssued")}

\* Ledger::next_address_index: one above the highest index handed out.
next_address_index(es) ==
    LET used == IssuedIndexes(es)
    IN  IF used = {} THEN 0 ELSE 1 + CHOOSE i \in used : \A j \in used : j <= i

\* Mutant: the range of indexes ends one too early.
issued_unpaid_short(es) ==
    {i \in IssuedIndexes(es) : i + 1 < next_address_index(es)}
        \ {es[i].index : i \in Of(es, "Received")}

\* Ledger::issued_unpaid: handed out and never paid.
issued_unpaid(es) ==
    IssuedIndexes(es) \ {es[i].index : i \in Of(es, "Received")}

-----------------------------------------------------------------------------
(* Silent-payment outputs.  An outpoint is a pair <<txid, vout>>.          *)

Outpoint(e) == <<e.txid, e.vout>>

\* Ledger::has_sp_output
has_sp_output(es, op) == \E i \in Of(es, "SpReceived") : Outpoint(es[i]) = op

\* Ledger::sp_spent_set; is_sp_spent is membership.
sp_spent_set(es) == {Outpoint(es[i]) : i \in Of(es, "SpSpent")}

\* Ledger::sp_utxos, by position: Final outputs that are not marked spent.
\* Ledger::sp_balance adds the amounts of the same entries.
sp_utxos(es) ==
    {i \in Of(es, "SpReceived") :
        /\ latest_status(es, es[i].txid) = "Final"
        /\ Outpoint(es[i]) \notin sp_spent_set(es)}

=============================================================================
