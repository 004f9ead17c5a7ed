------------------------------ MODULE Payment -------------------------------
(***************************************************************************)
(* What the send path promises about every payment, whatever crashes: the  *)
(* book never lags behind the money, a refund is only booked for money     *)
(* that stayed at home, and what is booked as Final is buried for good     *)
(* (src/src/pay.rs module comment, src/src/ledger.rs Status).              *)
(***************************************************************************)
CONSTANT Tx

VARIABLES
    book,   \* what the ledger says of a payment
    money   \* where its money is: at home, on the network, or buried

vars == <<book, money>>

Books  == {"None", "Pending", "Soft", "Final", "Failed"}
Places == {"home", "away", "buried"}

Init ==
    /\ book = [t \in Tx |-> "None"]
    /\ money = [t \in Tx |-> "home"]

\* A payment is booked before its money moves.
Commit(t) ==
    /\ book[t] = "None"
    /\ book' = [book EXCEPT ![t] = "Pending"]
    /\ UNCHANGED money

\* The network takes, forgets, confirms or buries transactions; only money of
\* booked payments that were not refunded moves, and buried money stays.
Move ==
    /\ money' \in [Tx -> Places]
    /\ \A t \in Tx : money'[t] # money[t] =>
           /\ book[t] \notin {"None", "Failed"}
           /\ money[t] # "buried"
    /\ UNCHANGED book

\* The book catches up; Final and Failed are the last word.
Book(t, s) ==
    /\ book[t] \in {"Pending", "Soft"}
    /\ s = "Final"  => money[t] = "buried"
    /\ s = "Failed" => money[t] = "home"
    /\ book' = [book EXCEPT ![t] = s]
    /\ UNCHANGED money

Next ==
    \/ Move
    \/ \E t \in Tx : Commit(t) \/ \E s \in Books \ {"None"} : Book(t, s)

Spec == Init /\ [][Next]_vars

=============================================================================
