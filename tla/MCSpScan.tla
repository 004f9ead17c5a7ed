------------------------------ MODULE MCSpScan ------------------------------
(* Instances of SpScan: one transaction with two outputs, one other         *)
(* transaction and a dust output.                                           *)
EXTENDS SpScan

CONSTANTS watch, report, mcp

OneTx == {[txid |-> "a", vout |-> 0, sats |-> 330], [txid |-> "a", vout |-> 1, sats |-> 400]}
TwoTx == {[txid |-> "a", vout |-> 0, sats |-> 330], [txid |-> "b", vout |-> 0, sats |-> 400]}
Mixed == OneTx \cup {[txid |-> "b", vout |-> 0, sats |-> 329]}

OneProcess == [p \in Thread |-> mcp]
=============================================================================
