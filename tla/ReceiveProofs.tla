---------------------------- MODULE ReceiveProofs ---------------------------
(***************************************************************************)
(* Proofs about Receive, for any number of buyers and silent payments, any *)
(* amounts and any bounds on faults and crashes.                           *)
(***************************************************************************)
EXTENDS Receive, LedgerProofs

-----------------------------------------------------------------------------
(* Types.                                                                  *)

\* What the type invariant needs: a buyer has paid nothing before it is told an
\* address, and then only to that address; an unpaid transaction is on no
\* chain; what a poll has found is on the chain.
PaidInv ==
    /\ \A b \in Buyer : /\ buyer[b] \in {"idle", "dialing", "asking", "paying"} => paid[b] = NotPaid
                        /\ buyer[b] = "paying" => address[b] # NoIndex
                        /\ paid[b] = NotPaid => confs[b] = -1
    /\ pc = "issue" => issued \in Nat
    /\ pc = "poll" => \A t \in work \cap Buyer : confs[t] >= 0

\* The index of an AddressIssued entry is below the entry's position in the
\* file, so that the fold of Ledger::next_address_index has a maximum to find;
\* the daemon's ledger lacks what its scans have written, but it has every
\* address of the file, and the Receiver of a session counts on from above all of
\* them.
Numbered(es) == \A k \in Of(es, "AddressIssued") : es[k].index < k

InSession == pc \in {"session", "issue", "verify"}

NumberInv ==
    /\ Numbered(disk)
    /\ pc # "down" => IssuedIndexes(led) = IssuedIndexes(disk)
    /\ InSession => /\ next_index <= Len(disk)
                    /\ \A i \in IssuedIndexes(disk) : i < next_index

TypeInv == TypeOK /\ PaidInv /\ NumberInv

LEMMA TypeInit == Init => TypeInv
<1> SUFFICES ASSUME Init PROVE TypeInv
  OBVIOUS
<1>1. TypeOK
  BY ConstAssumption DEF Init, TypeOK, FinalDepth
<1>2. PaidInv
  BY ConstAssumption DEF Init, PaidInv
<1>3. NumberInv
  BY DEF Init, NumberInv, Numbered, InSession, Of
<1> QED
  BY <1>1, <1>2, <1>3 DEF TypeInv

\* The datagrams of the socket buffers.
LEMMA InboxHead ==
    ASSUME TypeOK, inbox # <<>>
    PROVE  /\ Head(inbox) \in Message /\ Tail(inbox) \in Seq(Message)
           /\ Head(inbox).from \in Buyer
           /\ Head(inbox).type = "Notify" => Head(inbox).txid \in Buyer
<1>1. Head(inbox) \in Message /\ Tail(inbox) \in Seq(Message)
  BY DEF TypeOK
<1>2. \A m \in Message : m.from \in Buyer /\ (m.type = "Notify" => m.txid \in Buyer)
  BY DEF Message
<1> QED
  BY <1>1, <1>2

LEMMA ReplyHead ==
    ASSUME TypeOK, NEW b \in Buyer, reply[b] # <<>>
    PROVE  /\ Head(reply[b]) \in Reply /\ Tail(reply[b]) \in Seq(Reply)
           /\ Head(reply[b]).type = "AddrResponse" => Head(reply[b]).index \in Nat
<1>1. reply[b] \in Seq(Reply)
  BY DEF TypeOK
<1>2. Head(reply[b]) \in Reply /\ Tail(reply[b]) \in Seq(Reply)
  BY <1>1
<1>3. \A m \in Reply : m.type = "AddrResponse" => m.index \in Nat
  BY DEF Reply
<1> QED
  BY <1>2, <1>3

LEMMA LostType ==
    ASSUME TypeOK, Lost
    PROVE  faults' \in 0..MaxFaults
BY ConstAssumption DEF TypeOK, Lost

LEMMA ToSellerType ==
    ASSUME TypeOK, NEW m \in Message, ToSeller(m)
    PROVE  inbox' \in Seq(Message) /\ faults' \in 0..MaxFaults
<1>1. inbox \in Seq(Message) /\ faults \in 0..MaxFaults
  BY DEF TypeOK
<1>2. Append(inbox, m) \in Seq(Message)
  BY <1>1
<1>3. CASE inbox' = Append(inbox, m) /\ UNCHANGED faults
  BY <1>1, <1>2, <1>3
<1>4. CASE Lost /\ UNCHANGED inbox
  BY <1>1, <1>4, LostType
<1> QED
  BY <1>3, <1>4 DEF ToSeller

LEMMA ToBuyerType ==
    ASSUME TypeOK, NEW b \in Buyer, NEW m \in Reply, ToBuyer(b, m)
    PROVE  reply' \in [Buyer -> Seq(Reply)] /\ faults' \in 0..MaxFaults
<1>1. reply[b] \in Seq(Reply)
  BY DEF TypeOK
<1>2. Append(reply[b], m) \in Seq(Reply)
  BY <1>1
<1> QED
  BY <1>2, LostType DEF TypeOK, ToBuyer

\* Ledger::append writes to the file and to the daemon's copy.
LEMMA AppendType ==
    ASSUME TypeOK, NEW e \in Entry, append(e)
    PROVE  /\ disk' \in Seq(Entry) /\ disk' = Append(disk, e)
           /\ led' \in Seq(Entry) /\ led' = Append(led, e)
BY DEF TypeOK, append

\* The numbers and statuses that are written have their types.
LEMMA EntryTypes ==
    ASSUME NEW es \in Seq(Entry)
    PROVE  /\ next_seq(es) \in Nat
           /\ \A c \in 0..FinalDepth : from_confirmations(c) \in Status
           /\ pending(es) \subseteq Buyer \cup Income
           /\ IssuedIndexes(es) \subseteq Nat
<1>1. Len(es) \in Nat /\ \A i \in 1..Len(es) : es[i] \in Entry
  OBVIOUS
<1>2. \A e \in Entry : /\ e.seq \in Nat
                       /\ e.kind \in {"Sent", "Received", "SpReceived"} => e.txid \in Buyer \cup Income
                       /\ e.kind = "AddressIssued" => e.index \in Nat
  BY DEF Entry
<1>3. next_seq(es) \in Nat
  BY <1>1, <1>2 DEF next_seq
<1>4. \A c \in 0..FinalDepth : from_confirmations(c) \in Status
  BY DEF from_confirmations, Status, FinalDepth
<1>5. pending(es) \subseteq Buyer \cup Income
  BY <1>1, <1>2, Zenon DEF pending
<1>6. IssuedIndexes(es) \subseteq Nat
  BY <1>1, <1>2, Zenon DEF IssuedIndexes, Of
<1> QED
  BY <1>3, <1>4, <1>5, <1>6

\* A status update of reconcile is an entry.
LEMMA UpdateEntry ==
    ASSUME TypeOK, NEW t \in Buyer \cup Income
    PROVE  StatusUpdate(next_seq(led), t, from_confirmations(IF confs[t] >= 1 THEN confs[t] ELSE 0))
               \in Entry
<1>1. (IF confs[t] >= 1 THEN confs[t] ELSE 0) \in 0..FinalDepth
  BY DEF TypeOK, FinalDepth
<1>2. from_confirmations(IF confs[t] >= 1 THEN confs[t] ELSE 0) \in Status
  BY <1>1, EntryTypes DEF TypeOK
<1>3. next_seq(led) \in Nat
  BY EntryTypes DEF TypeOK
<1> QED
  BY <1>2, <1>3 DEF StatusUpdate, Entry

\* What a scan books is an entry.
LEMMA SpEntry ==
    ASSUME TypeOK, NEW t \in Income
    PROVE  SpReceived(next_seq(disk), t, 0, 1) \in Entry
<1>1. next_seq(disk) \in Nat
  BY EntryTypes DEF TypeOK
<1> QED
  BY <1>1 DEF SpReceived, Entry

\* A deposit that the chain shows is booked with an entry.
LEMMA ReceivedEntry ==
    ASSUME TypeInv, NEW t \in Buyer, confs[t] >= 0, NEW index, paid[t].index = index
    PROVE  /\ Received(next_seq(led), t, paid[t].sats, index) \in Entry
           /\ paid[t] = [index |-> index, sats |-> paid[t].sats]
<1>1. paid[t] # NotPaid
  BY DEF TypeInv, PaidInv
<1>2. paid[t] \in [index : Nat, sats : Amount]
  BY <1>1 DEF TypeInv, TypeOK
<1>3. next_seq(led) \in Nat
  BY EntryTypes DEF TypeInv, TypeOK
<1> QED
  BY <1>2, <1>3 DEF Received, Entry

\* Ledger::next_address_index: a number above every index that was handed out;
\* where these are below n it is at most n.
LEMMA NextIndexAbove ==
    ASSUME NEW es, NEW n \in Nat, IssuedIndexes(es) \subseteq 0..(n - 1)
    PROVE  /\ next_address_index(es) \in 0..n
           /\ \A i \in IssuedIndexes(es) : i < next_address_index(es)
<1> DEFINE U == IssuedIndexes(es)
           m == CHOOSE i \in U : \A j \in U : j <= i
<1>1. next_address_index(es) = IF U = {} THEN 0 ELSE 1 + m
  BY DEF next_address_index
<1> HIDE DEF U
<1>2. CASE U = {}
  BY <1>1, <1>2 DEF U
<1>3. CASE U # {}
  <2> DEFINE S == {i \in 1..n : i - 1 \in U}
  <2>1. U \subseteq 0..(n - 1)
    BY DEF U
  <2>2. \A i \in U : i + 1 \in S
    BY <2>1
  <2>3. S # {} /\ S \in SUBSET (1..n)
    BY <1>3, <2>2
  <2>4. \A k \in S : k - 1 \in U
    OBVIOUS
  <2>5. PICK k \in S : \A j \in S : j <= k
    <3> HIDE DEF S
    <3> QED
      BY <2>3, LastPosition
  <2>6. k \in 1..n /\ k - 1 \in U
    BY <2>3, <2>4, <2>5
  <2>7. \A j \in U : j <= k - 1
    <3> HIDE DEF S
    <3> QED
      BY <2>1, <2>2, <2>5, <2>6
  <2>8. m \in U /\ \A j \in U : j <= m
    <3>1. \E i \in U : \A j \in U : j <= i
      BY <2>6, <2>7
    <3> QED
      BY <3>1, Zenon
  <2> QED
    <3> HIDE DEF m
    <3> QED
      BY <1>1, <1>3, <2>1, <2>8 DEF U
<1> QED
  BY <1>2, <1>3

LEMMA NumberedBound ==
    ASSUME NEW es \in Seq(Entry), Numbered(es)
    PROVE  IssuedIndexes(es) \subseteq 0..(Len(es) - 1)
<1>1. Len(es) \in Nat /\ \A i \in 1..Len(es) : es[i] \in Entry
  OBVIOUS
<1>2. \A e \in Entry : e.kind = "AddressIssued" => e.index \in Nat
  BY DEF Entry
<1> SUFFICES ASSUME NEW i \in IssuedIndexes(es) PROVE i \in 0..(Len(es) - 1)
  OBVIOUS
<1>3. PICK k \in Of(es, "AddressIssued") : i = es[k].index
  BY Zenon DEF IssuedIndexes
<1>4. k \in 1..Len(es) /\ es[k].kind = "AddressIssued"
  BY Zenon DEF Of
<1>5. es[k].index < k
  BY Zenon DEF Numbered
<1> QED
  BY <1>1, <1>2, <1>3, <1>4, <1>5

\* What an appended entry does to the issued indexes: an AddressIssued entry
\* adds its own, at the position of the entry.
LEMMA IssuedAppend ==
    ASSUME NEW es \in Seq(Entry), NEW e \in Entry
    PROVE  /\ \A k : k \in Of(Append(es, e), "AddressIssued") <=>
                        \/ k \in Of(es, "AddressIssued")
                        \/ k = Len(es) + 1 /\ e.kind = "AddressIssued"
           /\ \A k \in Of(es, "AddressIssued") : Append(es, e)[k] = es[k]
           /\ Append(es, e)[Len(es) + 1] = e
           /\ IssuedIndexes(Append(es, e)) =
                IF e.kind = "AddressIssued" THEN IssuedIndexes(es) \cup {e.index}
                ELSE IssuedIndexes(es)
<1> DEFINE as == Append(es, e)
           A  == Of(es, "AddressIssued")
           B  == Of(as, "AddressIssued")
<1>1. /\ Len(es) \in Nat
      /\ Len(as) = Len(es) + 1
      /\ as[Len(es) + 1] = e
      /\ \A i \in 1..Len(es) : as[i] = es[i]
  OBVIOUS
<1>2. \A k : k \in B <=> k \in A \/ (k = Len(es) + 1 /\ e.kind = "AddressIssued")
  <2>1. /\ Len(es) + 1 \in 1..(Len(es) + 1)
        /\ 1..Len(es) \subseteq 1..(Len(es) + 1)
        /\ \A i \in 1..(Len(es) + 1) : i \in 1..Len(es) \/ i = Len(es) + 1
    BY <1>1
  <2>2. \A k : k \in A <=> k \in 1..Len(es) /\ es[k].kind = "AddressIssued"
    BY Zenon DEF Of
  <2>3. \A k : k \in B <=> k \in 1..(Len(es) + 1) /\ as[k].kind = "AddressIssued"
    BY <1>1, Zenon DEF Of
  <2> HIDE DEF as, A, B
  <2> QED
    BY <1>1, <2>1, <2>2, <2>3, Zenon
<1>3. \A k \in A : as[k] = es[k]
  BY <1>1, Zenon DEF Of
<1>4. ASSUME NEW i PROVE i \in IssuedIndexes(as) <=>
            i \in IssuedIndexes(es) \/ (e.kind = "AddressIssued" /\ i = e.index)
  <2>1. i \in IssuedIndexes(as) <=> \E k \in B : i = as[k].index
    BY Zenon DEF IssuedIndexes
  <2>2. i \in IssuedIndexes(es) <=> \E k \in A : i = es[k].index
    BY Zenon DEF IssuedIndexes
  <2> HIDE DEF as, A, B
  <2> QED
    BY <1>1, <1>2, <1>3, <2>1, <2>2, Zenon
<1> QED
  BY <1>1, <1>2, <1>3, <1>4, Zenon

LEMMA NumberedAppend ==
    ASSUME NEW es \in Seq(Entry), NEW e \in Entry, Numbered(es),
           e.kind = "AddressIssued" => e.index <= Len(es)
    PROVE  Numbered(Append(es, e))
<1>1. \A k \in Of(Append(es, e), "AddressIssued") : Append(es, e)[k].index < k
  <2> SUFFICES ASSUME NEW k \in Of(Append(es, e), "AddressIssued")
               PROVE  Append(es, e)[k].index < k
    OBVIOUS
  <2>1. CASE k \in Of(es, "AddressIssued")
    <3>1. Append(es, e)[k] = es[k]
      BY <2>1, IssuedAppend
    <3>2. es[k].index < k
      BY <2>1, Zenon DEF Numbered
    <3> QED
      BY <3>1, <3>2
  <2>2. CASE k = Len(es) + 1 /\ e.kind = "AddressIssued"
    <3>1. e.index \in Nat /\ Len(es) \in Nat
      BY <2>2 DEF Entry
    <3>2. Append(es, e)[k] = e
      BY <2>2, IssuedAppend
    <3> QED
      BY <2>2, <3>1, <3>2
  <2> QED
    BY <2>1, <2>2, IssuedAppend
<1> QED
  BY <1>1, Zenon DEF Numbered

\* An entry that hands out no address leaves file and copy with the same
\* addresses.
LEMMA NumberKept ==
    ASSUME TypeOK, NumberInv, pc # "down", NEW e \in Entry, e.kind # "AddressIssued",
           UNCHANGED <<disk, led>> \/ append(e) \/ (disk' = Append(disk, e) /\ led' = led)
    PROVE  /\ disk' \in Seq(Entry) /\ led' \in Seq(Entry)
           /\ Numbered(disk')
           /\ IssuedIndexes(led') = IssuedIndexes(disk')
<1>1. disk \in Seq(Entry) /\ led \in Seq(Entry)
  BY DEF TypeOK
<1>2. Numbered(disk) /\ IssuedIndexes(led) = IssuedIndexes(disk)
  BY DEF NumberInv
<1>3. /\ IssuedIndexes(Append(disk, e)) = IssuedIndexes(disk)
      /\ IssuedIndexes(Append(led, e)) = IssuedIndexes(led)
  BY <1>1, IssuedAppend
<1>4. Numbered(Append(disk, e))
  BY <1>1, <1>2, NumberedAppend
<1>5. Append(disk, e) \in Seq(Entry) /\ Append(led, e) \in Seq(Entry)
  BY <1>1
<1> QED
  BY <1>1, <1>2, <1>3, <1>4, <1>5 DEF append

LEMMA TypeStep ==
    ASSUME TypeInv, [Next]_vars
    PROVE  TypeInv'
<1> USE ConstAssumption
<1>0. TypeOK /\ PaidInv /\ NumberInv
  BY DEF TypeInv
<1>1. ASSUME NEW b \in Buyer, dial(b) PROVE TypeInv'
  <2>1. [from |-> b, type |-> "init"] \in Message
    BY DEF Message
  <2>2. inbox' \in Seq(Message) /\ faults' \in 0..MaxFaults
    BY <1>0, <1>1, <2>1, ToSellerType DEF dial
  <2>3. TypeOK'
    BY <1>0, <1>1, <2>2 DEF dial, TypeOK, seller, chain
  <2>4. PaidInv'
    BY <1>0, <1>1 DEF dial, TypeOK, PaidInv, seller, chain
  <2> QED
    BY <1>0, <1>1, <2>3, <2>4 DEF dial, seller, TypeInv, NumberInv, InSession
<1>2. ASSUME NEW b \in Buyer, connected(b) PROVE TypeInv'
  <2>1. [from |-> b, type |-> "AddrRequest"] \in Message
    BY DEF Message
  <2>2. inbox' \in Seq(Message) /\ faults' \in 0..MaxFaults
    BY <1>0, <1>2, <2>1, ToSellerType DEF connected
  <2>3. Tail(reply[b]) \in Seq(Reply)
    BY <1>0, <1>2, ReplyHead DEF connected
  <2>4. TypeOK'
    BY <1>0, <1>2, <2>2, <2>3 DEF connected, TypeOK, seller, chain
  <2>5. PaidInv'
    BY <1>0, <1>2 DEF connected, TypeOK, PaidInv, seller, chain
  <2> QED
    BY <1>0, <1>2, <2>4, <2>5 DEF connected, seller, TypeInv, NumberInv, InSession
<1>3. ASSUME NEW b \in Buyer, told_address(b) PROVE TypeInv'
  <2>1. Tail(reply[b]) \in Seq(Reply) /\ Head(reply[b]).index \in Nat
    BY <1>0, <1>3, ReplyHead DEF told_address
  <2>2. TypeOK'
    BY <1>0, <1>3, <2>1 DEF told_address, TypeOK, seller, chain
  <2>3. PaidInv'
    BY <1>0, <1>3, <2>1 DEF told_address, TypeOK, PaidInv, seller, chain
  <2> QED
    BY <1>0, <1>3, <2>2, <2>3 DEF told_address, seller, TypeInv, NumberInv, InSession
<1>4. ASSUME NEW b \in Buyer, pay_send(b) PROVE TypeInv'
  <2>1. PICK sats \in Amount : paid' = [paid EXCEPT ![b] = [index |-> address[b], sats |-> sats]]
    BY <1>4 DEF pay_send
  <2>2. address[b] \in Nat
    BY <1>0, <1>4 DEF pay_send, TypeOK, PaidInv
  <2>3. [index |-> address[b], sats |-> sats] \in [index : Nat, sats : Amount]
    BY <2>2
  <2>4. TypeOK'
    BY <1>0, <1>4, <2>1, <2>3 DEF pay_send, TypeOK, seller
  <2>5. PaidInv'
    <3>1. paid[b] = NotPaid
      BY <1>0, <1>4 DEF pay_send, PaidInv
    <3>2. \A c \in Buyer : paid'[c] = NotPaid => paid[c] = NotPaid
      BY <1>0, <2>1, <3>1 DEF TypeOK
    <3> QED
      BY <1>0, <1>4, <2>1, <3>2 DEF pay_send, TypeOK, PaidInv, seller
  <2> QED
    BY <1>0, <1>4, <2>4, <2>5 DEF pay_send, seller, TypeInv, NumberInv, InSession
<1>5. ASSUME NEW b \in Buyer, notify(b) PROVE TypeInv'
  <2>1. PICK t \in Buyer : ToSeller([from |-> b, type |-> "Notify", txid |-> t])
    BY <1>5 DEF notify
  <2>2. [from |-> b, type |-> "Notify", txid |-> t] \in Message
    BY DEF Message
  <2>3. inbox' \in Seq(Message) /\ faults' \in 0..MaxFaults
    BY <1>0, <2>1, <2>2, ToSellerType
  <2>4. TypeOK'
    BY <1>0, <1>5, <2>3 DEF notify, TypeOK, seller, chain
  <2>5. PaidInv'
    BY <1>0, <1>5 DEF notify, TypeOK, PaidInv, seller, chain
  <2> QED
    BY <1>0, <1>5, <2>4, <2>5 DEF notify, seller, TypeInv, NumberInv, InSession
<1>6. ASSUME NEW b \in Buyer, give_up(b) PROVE TypeInv'
  <2>1. TypeOK'
    BY <1>0, <1>6 DEF give_up, TypeOK, seller, chain
  <2>2. PaidInv'
    BY <1>0, <1>6 DEF give_up, TypeOK, PaidInv, seller, chain
  <2> QED
    BY <1>0, <1>6, <2>1, <2>2 DEF give_up, seller, TypeInv, NumberInv, InSession
<1>7. ASSUME NEW b \in Buyer \cup Income, Land(b) PROVE TypeInv'
  <2>1. confs[b] + 1 \in -1..FinalDepth
    <3>1. confs[b] \in -1..FinalDepth
      BY <1>0 DEF TypeOK
    <3>2. confs[b] < FinalDepth
      BY <1>7 DEF Land
    <3> QED
      BY <3>1, <3>2 DEF FinalDepth
  <2>2. TypeOK'
    BY <1>0, <1>7, <2>1 DEF Land, TypeOK, seller, buyers
  <2>3. PaidInv'
    <3>0. \A c \in Buyer \cup Income : confs[c] \in -1..FinalDepth
      BY <1>0 DEF TypeOK
    <3>1. \A c \in Buyer \cup Income : confs[c] \in Int /\ confs'[c] = IF c = b THEN confs[c] + 1 ELSE confs[c]
      BY <1>0, <1>7, <3>0 DEF Land, TypeOK, FinalDepth
    <3>2. \A c \in Buyer : confs[c] >= 0 => confs'[c] >= 0
      BY <3>1
    <3>3. \A c \in Buyer : paid'[c] = NotPaid => confs'[c] = -1
      BY <1>0, <1>7, <3>1 DEF Land, PaidInv
    <3> QED
      BY <1>0, <1>7, <3>2, <3>3 DEF Land, PaidInv, seller, buyers
  <2> QED
    BY <1>0, <1>7, <2>2, <2>3 DEF Land, seller, TypeInv, NumberInv, InSession
<1>8. CASE serve_start
  <2>1. pending(disk) \subseteq Buyer \cup Income
    BY <1>0, EntryTypes DEF TypeOK
  <2>2. TypeOK'
    BY <1>0, <1>8, <2>1 DEF serve_start, TypeOK, buyers, chain
  <2>3. PaidInv'
    BY <1>0, <1>8 DEF serve_start, PaidInv, buyers, chain
  <2> QED
    BY <1>0, <1>8, <2>2, <2>3 DEF serve_start, TypeInv, NumberInv, InSession
<1>9. CASE Crash
  <2>1. TypeOK'
    BY <1>0, <1>9 DEF Crash, TypeOK, buyers, chain
  <2>2. PaidInv'
    BY <1>0, <1>9 DEF Crash, PaidInv, buyers, chain
  <2> QED
    BY <1>0, <1>9, <2>1, <2>2 DEF Crash, TypeInv, NumberInv, InSession
<1>10. ASSUME NEW t \in Buyer \cup Income, update_status(t) PROVE TypeInv'
  <2> DEFINE e == StatusUpdate(next_seq(led), t,
                      from_confirmations(IF confs[t] >= 1 THEN confs[t] ELSE 0))
  <2>1. e \in Entry /\ e.kind = "StatusUpdate"
    BY <1>0, UpdateEntry DEF StatusUpdate
  <2>2. UNCHANGED <<disk, led>> \/ append(e)
    BY <1>10 DEF update_status
  <2> HIDE DEF e
  <2>3. /\ disk' \in Seq(Entry) /\ led' \in Seq(Entry)
        /\ Numbered(disk')
        /\ IssuedIndexes(led') = IssuedIndexes(disk')
    <3>1. pc # "down"
      BY <1>10 DEF update_status
    <3> QED
      BY <1>0, <2>1, <2>2, <3>1, NumberKept
  <2>4. TypeOK'
    BY <1>0, <1>10, <2>3 DEF update_status, TypeOK, buyers, chain
  <2>5. PaidInv'
    BY <1>0, <1>10 DEF update_status, PaidInv, buyers, chain
  <2> QED
    BY <1>10, <2>3, <2>4, <2>5 DEF update_status, TypeInv, NumberInv, InSession
<1>11. CASE end_reconcile
  <2>1. issued_unpaid(led) \subseteq Nat
    BY <1>0, EntryTypes DEF TypeOK, issued_unpaid
  <2>2. faults' \in 0..MaxFaults
    BY <1>0, <1>11, LostType DEF end_reconcile, TypeOK
  <2>3. TypeOK'
    BY <1>0, <1>11, <2>1, <2>2 DEF end_reconcile, TypeOK, buyers, chain
  <2>4. PaidInv'
    BY <1>0, <1>11, <2>1 DEF end_reconcile, PaidInv, TypeOK, buyers, chain
  <2> QED
    BY <1>0, <1>11, <2>3, <2>4 DEF end_reconcile, TypeInv, TypeOK, NumberInv, InSession
<1>12. ASSUME NEW i \in IssuedIndexes(led), poll_address(i) PROVE TypeInv'
  <2>1. deposits_to(i) \subseteq Buyer /\ \A t \in deposits_to(i) : confs[t] >= 0
    BY DEF deposits_to
  <2>2. faults' \in 0..MaxFaults
    BY <1>0, <1>12, LostType DEF poll_address, TypeOK
  <2>3. TypeOK'
    BY <1>0, <1>12, <2>1, <2>2 DEF poll_address, TypeOK, buyers, chain
  <2>4. PaidInv'
    BY <1>0, <1>12, <2>1 DEF poll_address, PaidInv, buyers, chain
  <2> QED
    BY <1>0, <1>12, <2>3, <2>4 DEF poll_address, TypeInv, NumberInv, InSession
<1>13. ASSUME NEW t \in Buyer, record_deposit(t) PROVE TypeInv'
  <2> DEFINE e == Received(next_seq(led), t, paid[t].sats, paid[t].index)
  <2>1. confs[t] >= 0
    BY <1>0, <1>13 DEF record_deposit, PaidInv
  <2>2. e \in Entry /\ e.kind = "Received"
    BY <2>1, ReceivedEntry DEF Received
  <2>3. UNCHANGED <<disk, led>> \/ append(e)
    BY <1>13 DEF record_deposit, record_received
  <2> HIDE DEF e
  <2>4. /\ disk' \in Seq(Entry) /\ led' \in Seq(Entry)
        /\ Numbered(disk')
        /\ IssuedIndexes(led') = IssuedIndexes(disk')
    <3>1. pc # "down"
      BY <1>13 DEF record_deposit
    <3> QED
      BY <1>0, <2>2, <2>3, <3>1, NumberKept
  <2>5. TypeOK'
    BY <1>0, <1>13, <2>4 DEF record_deposit, TypeOK, buyers, chain
  <2>6. PaidInv'
    BY <1>0, <1>13 DEF record_deposit, PaidInv, buyers, chain
  <2> QED
    BY <1>13, <2>4, <2>5, <2>6 DEF record_deposit, TypeInv, NumberInv, InSession
<1>14. CASE end_watch
  <2>0. faults' \in 0..MaxFaults
    BY <1>0, <1>14, LostType DEF end_watch, TypeOK
  <2>1. TypeOK'
    BY <1>0, <1>14, <2>0 DEF end_watch, TypeOK, buyers, chain
  <2>2. PaidInv'
    BY <1>0, <1>14 DEF end_watch, PaidInv, buyers, chain
  <2> QED
    BY <1>0, <1>14, <2>1, <2>2 DEF end_watch, TypeInv, NumberInv, InSession
<1>15. CASE accept_any
  <2>1. /\ Head(inbox).from \in Buyer
        /\ Tail(inbox) \in Seq(Message)
    BY <1>0, <1>15, InboxHead DEF accept_any
  <2>2. [type |-> "response"] \in Reply
    BY DEF Reply
  <2>3. reply' \in [Buyer -> Seq(Reply)] /\ faults' \in 0..MaxFaults
    BY <1>0, <1>15, <2>1, <2>2, ToBuyerType DEF accept_any
  <2>4. disk \in Seq(Entry) /\ Len(disk) \in Nat
    BY <1>0 DEF TypeOK
  <2>5. /\ next_index' \in 0..Len(disk)
        /\ \A i \in IssuedIndexes(disk) : i < next_index'
    <3>1. IssuedIndexes(led) = IssuedIndexes(disk)
      BY <1>0, <1>15 DEF accept_any, NumberInv
    <3>2. IssuedIndexes(led) \subseteq 0..(Len(disk) - 1)
      BY <1>0, <2>4, <3>1, NumberedBound DEF NumberInv
    <3> QED
      BY <1>15, <2>4, <3>1, <3>2, NextIndexAbove DEF accept_any
  <2>6. TypeOK'
    BY <1>0, <1>15, <2>1, <2>3, <2>5, SMTT(30) DEF accept_any, TypeOK, chain
  <2>7. PaidInv'
    BY <1>0, <1>15 DEF accept_any, PaidInv, chain
  <2> QED
    BY <1>0, <1>15, <2>4, <2>5, <2>6, <2>7 DEF accept_any, TypeInv, NumberInv, InSession
<1>16. CASE chain_watch
  <2>1. pending(led) \subseteq Buyer \cup Income
    BY <1>0, EntryTypes DEF TypeOK
  <2>2. inbox' \in Seq(Message)
    BY <1>0, <1>16, InboxHead DEF chain_watch, NoSession, TypeOK
  <2>3. TypeOK'
    BY <1>0, <1>16, <2>1, <2>2 DEF chain_watch, NoSession, TypeOK, buyers, chain
  <2>4. PaidInv'
    BY <1>0, <1>16 DEF chain_watch, NoSession, PaidInv, buyers, chain
  <2> QED
    BY <1>0, <1>16, <2>3, <2>4 DEF chain_watch, NoSession, TypeInv, NumberInv, InSession
<1>17. CASE not_due
  <2>1. inbox' \in Seq(Message)
    BY <1>0, <1>17, InboxHead DEF not_due, NoSession, TypeOK
  <2>2. TypeOK'
    BY <1>0, <1>17, <2>1 DEF not_due, NoSession, TypeOK, seller, buyers, chain
  <2>3. PaidInv'
    BY <1>0, <1>17 DEF not_due, NoSession, PaidInv, seller, buyers, chain
  <2> QED
    BY <1>0, <1>17, <2>2, <2>3 DEF not_due, seller, TypeInv, NumberInv, InSession
<1>18. CASE drop_stranger
  <2>1. inbox' \in Seq(Message)
    BY <1>0, <1>18, InboxHead DEF drop_stranger
  <2>2. TypeOK'
    BY <1>0, <1>18, <2>1 DEF drop_stranger, TypeOK, seller, buyers, chain
  <2>3. PaidInv'
    BY <1>0, <1>18 DEF drop_stranger, PaidInv, seller, buyers, chain
  <2> QED
    BY <1>0, <1>18, <2>2, <2>3 DEF drop_stranger, seller, TypeInv, NumberInv, InSession
<1>19. CASE issue_address
  <2> DEFINE e == AddressIssued(next_seq(led), next_index)
  <2>1. inbox' \in Seq(Message)
    BY <1>0, <1>19, InboxHead DEF issue_address
  <2>2. /\ disk \in Seq(Entry)
        /\ pc # "down"
        /\ next_index \in Nat
        /\ next_seq(led) \in Nat
    BY <1>0, <1>19, EntryTypes DEF issue_address, TypeOK
  <2>3. e \in Entry /\ e.kind = "AddressIssued" /\ e.index = next_index
    BY <2>2 DEF AddressIssued, Entry
  <2>4. append(e)
    BY <1>19 DEF issue_address
  <2> HIDE DEF e
  <2>5. /\ disk' \in Seq(Entry) /\ disk' = Append(disk, e)
        /\ led' \in Seq(Entry) /\ led' = Append(led, e)
    BY <1>0, <2>3, <2>4, AppendType
  <2>6. next_index <= Len(disk) /\ \A i \in IssuedIndexes(disk) : i < next_index
    BY <1>0, <1>19 DEF issue_address, NumberInv, InSession
  <2>7. Numbered(disk')
    BY <1>0, <2>2, <2>3, <2>5, <2>6, NumberedAppend DEF NumberInv
  <2>8. IssuedIndexes(disk') = IssuedIndexes(disk) \cup {next_index} /\ Len(disk') = Len(disk) + 1
    BY <2>2, <2>3, <2>5, IssuedAppend
  <2>9. next_index' <= Len(disk') /\ \A i \in IssuedIndexes(disk') : i < next_index'
    <3>1. next_index' = next_index + 1 /\ Len(disk) \in Nat /\ IssuedIndexes(disk) \subseteq Nat
      BY <1>19, <2>2, EntryTypes DEF issue_address
    <3> QED
      BY <2>2, <2>6, <2>8, <3>1
  <2>12. IssuedIndexes(led') = IssuedIndexes(disk')
    <3>1. led \in Seq(Entry) /\ IssuedIndexes(led) = IssuedIndexes(disk)
      BY <1>0, <2>2 DEF TypeOK, NumberInv
    <3> QED
      BY <2>3, <2>5, <2>8, <3>1, IssuedAppend
  <2>10. TypeOK'
    <3>1. /\ peer' = peer /\ claim' = claim /\ then' = then /\ work' = work
          /\ UNCHANGED <<reply, buyer, address, paid, confs, faults, crashes>>
          /\ pc = "session" /\ pc' = "issue" /\ issued' = next_index
          /\ next_index' = next_index + 1
      BY <1>19 DEF issue_address, buyers, chain
    <3>2. TypeOK
      BY <1>0
    <3>3. issued' \in Nat /\ next_index' \in Nat
      BY <2>2, <3>1
    <3> QED
      BY <2>1, <2>5, <3>1, <3>2, <3>3 DEF TypeOK
  <2>11. PaidInv'
    BY <1>0, <1>19, <2>2 DEF issue_address, PaidInv, buyers, chain
  <2> QED
    BY <2>7, <2>9, <2>10, <2>11, <2>12 DEF TypeInv, NumberInv
<1>20. CASE send_address
  <2>1. peer \in Buyer
    BY <1>0, <1>20 DEF send_address, TypeOK
  <2>2. [type |-> "AddrResponse", index |-> issued] \in Reply
    BY <1>0, <1>20 DEF send_address, PaidInv, Reply
  <2>3. reply' \in [Buyer -> Seq(Reply)] /\ faults' \in 0..MaxFaults
    BY <1>0, <1>20, <2>1, <2>2, ToBuyerType DEF send_address
  <2>4. TypeOK'
    BY <1>0, <1>20, <2>3 DEF send_address, TypeOK, chain
  <2>5. PaidInv'
    BY <1>0, <1>20 DEF send_address, PaidInv, chain
  <2> QED
    BY <1>0, <1>20, <2>4, <2>5 DEF send_address, TypeInv, NumberInv, InSession
<1>21. CASE recv_notify
  <2>1. inbox' \in Seq(Message) /\ claim' \in Buyer
    BY <1>0, <1>21, InboxHead DEF recv_notify
  <2>2. TypeOK'
    BY <1>0, <1>21, <2>1 DEF recv_notify, TypeOK, buyers, chain
  <2>3. PaidInv'
    BY <1>0, <1>21 DEF recv_notify, PaidInv, buyers, chain
  <2> QED
    BY <1>0, <1>21, <2>2, <2>3 DEF recv_notify, TypeInv, NumberInv, InSession
<1>22. CASE verify_notify
  <2> DEFINE e == Received(next_seq(led), claim, paid[claim].sats, issued)
  <2>1. claim \in Buyer /\ confs[claim] >= 0 /\ paid[claim].index = issued
    BY <1>22 DEF verify_notify, deposits_to
  <2>2. e \in Entry /\ e.kind = "Received"
    BY <2>1, ReceivedEntry DEF Received
  <2>3. UNCHANGED <<disk, led>> \/ append(e)
    BY <1>22 DEF verify_notify, record_received
  <2> HIDE DEF e
  <2>4. /\ disk' \in Seq(Entry) /\ led' \in Seq(Entry)
        /\ Numbered(disk')
        /\ IssuedIndexes(led') = IssuedIndexes(disk')
    <3>1. pc # "down"
      BY <1>22 DEF verify_notify
    <3> QED
      BY <1>0, <2>2, <2>3, <3>1, NumberKept
  <2>5. work' \subseteq Buyer \cup Income
    BY <1>22, <2>4, EntryTypes DEF verify_notify
  <2>6. TypeOK'
    BY <1>0, <1>22, <2>4, <2>5 DEF verify_notify, SessionOver, TypeOK, buyers, chain
  <2>7. PaidInv'
    BY <1>0, <1>22 DEF verify_notify, PaidInv, buyers, chain
  <2> QED
    BY <1>22, <2>4, <2>6, <2>7 DEF verify_notify, TypeInv, NumberInv, InSession
<1>23. CASE ignore_notify
  <2>1. faults' \in 0..MaxFaults
    BY <1>0, <1>23, LostType DEF ignore_notify, TypeOK
  <2>2. TypeOK'
    BY <1>0, <1>23, <2>1 DEF ignore_notify, SessionOver, TypeOK, buyers, chain
  <2>3. PaidInv'
    BY <1>0, <1>23 DEF ignore_notify, PaidInv, buyers, chain
  <2> QED
    BY <1>0, <1>23, <2>2, <2>3 DEF ignore_notify, TypeInv, NumberInv, InSession
<1>24. CASE session_timeout
  <2>1. TypeOK'
    BY <1>0, <1>24 DEF session_timeout, SessionOver, TypeOK, buyers, chain
  <2>2. PaidInv'
    BY <1>0, <1>24 DEF session_timeout, PaidInv, buyers, chain
  <2> QED
    BY <1>0, <1>24, <2>1, <2>2 DEF session_timeout, TypeInv, NumberInv, InSession
<1>26. CASE scan_fresh
  <2>1. TypeOK'
    BY <1>0, <1>26 DEF scan_fresh, TypeOK, buyers, chain
  <2>2. PaidInv'
    BY <1>0, <1>26 DEF scan_fresh, PaidInv, buyers, chain
  <2> QED
    BY <1>0, <1>26, <2>1, <2>2 DEF scan_fresh, TypeInv, NumberInv, InSession
<1>27. ASSUME NEW t \in Income, record_sp_received(t) PROVE TypeInv'
  <2> DEFINE e == SpReceived(next_seq(disk), t, 0, 1)
  <2>1. e \in Entry /\ e.kind = "SpReceived"
    BY <1>0, SpEntry DEF SpReceived
  <2>2. disk' = Append(disk, e) /\ led' = led /\ pc # "down"
    BY <1>27 DEF record_sp_received
  <2> HIDE DEF e
  <2>3. /\ disk' \in Seq(Entry) /\ led' \in Seq(Entry)
        /\ Numbered(disk')
        /\ IssuedIndexes(led') = IssuedIndexes(disk')
    BY <1>0, <2>1, <2>2, NumberKept
  <2>4. TypeOK'
    BY <1>0, <1>27, <2>3 DEF record_sp_received, TypeOK, buyers, chain
  <2>5. PaidInv'
    BY <1>0, <1>27 DEF record_sp_received, PaidInv, buyers, chain
  <2> QED
    BY <1>27, <2>3, <2>4, <2>5 DEF record_sp_received, TypeInv, NumberInv, InSession
<1>25. CASE UNCHANGED vars
  <2>1. TypeOK'
    BY <1>0, <1>25 DEF vars, TypeOK
  <2>2. PaidInv'
    BY <1>0, <1>25 DEF vars, PaidInv
  <2> QED
    BY <1>0, <1>25, <2>1, <2>2 DEF vars, TypeInv, NumberInv, InSession
<1> QED
  BY <1>1, <1>2, <1>3, <1>4, <1>5, <1>6, <1>7, <1>8, <1>9, <1>10, <1>11, <1>12, <1>13,
     <1>14, <1>15, <1>16, <1>17, <1>18, <1>19, <1>20, <1>21, <1>22, <1>23, <1>24, <1>25,
     <1>26, <1>27
     DEF Next, BuyerNext, SellerNext

LEMMA TypeAlways == Spec => []TypeInv
BY TypeInit, TypeStep, PTL DEF Spec

\* Every state of the daemon, the buyers, the sockets and the chain is well
\* formed, with a ledger in memory that need not be the file (serve::scan_fresh):
\* a session is open just while it has a peer, and whatever is written, by the
\* daemon or beside it, is an entry about a buyer, an address or an income.
THEOREM ReceiveTypeCorrect == Spec => []TypeOK
<1>1. TypeInv => TypeOK
  BY DEF TypeInv
<1> QED
  BY <1>1, TypeAlways, PTL

-----------------------------------------------------------------------------
(* What is booked.                                                         *)

\* A step writes nothing, or one entry: a status that the chain justifies, a
\* deposit that the chain shows, the address the session goes on with, or an
\* income that a scan has found.
LEMMA FileStep ==
    ASSUME TypeInv, [Next]_vars
    PROVE  \/ disk' = disk
           \/ /\ UNCHANGED <<paid, confs, reply, address>>
              /\ \E e \in Entry :
                   /\ disk' = Append(disk, e)
                   /\ \/ \E t \in Buyer \cup Income : e = StatusUpdate(next_seq(led), t,
                            from_confirmations(IF confs[t] >= 1 THEN confs[t] ELSE 0))
                      \/ /\ e.kind = "Received"
                         /\ e.txid \in Buyer
                         /\ e.status = "Pending"
                         /\ confs[e.txid] >= 0
                         /\ paid[e.txid] = [index |-> e.index, sats |-> e.sats]
                      \/ issue_address /\ e = AddressIssued(next_seq(led), next_index)
                      \/ e.kind = "SpReceived" /\ e.status = "Pending"
<1>0. TypeOK /\ PaidInv
  BY DEF TypeInv
<1>1. ASSUME NEW t \in Buyer \cup Income, update_status(t), disk' # disk
      PROVE  /\ UNCHANGED <<paid, confs, reply, address>>
             /\ \E e \in Entry :
                   /\ disk' = Append(disk, e)
                   /\ e = StatusUpdate(next_seq(led), t,
                            from_confirmations(IF confs[t] >= 1 THEN confs[t] ELSE 0))
  <2> DEFINE e == StatusUpdate(next_seq(led), t,
                      from_confirmations(IF confs[t] >= 1 THEN confs[t] ELSE 0))
  <2>1. e \in Entry
    BY <1>0, UpdateEntry
  <2>2. append(e)
    BY <1>1 DEF update_status
  <2>3. disk' = Append(disk, e)
    BY <2>2 DEF append
  <2> QED
    BY <1>1, <2>1, <2>3 DEF update_status, buyers, chain
<1>2. ASSUME NEW t \in Buyer, NEW index, confs[t] >= 0, paid[t].index = index,
             record_received(t, index), disk' # disk
      PROVE  \E e \in Entry : /\ disk' = Append(disk, e)
                              /\ e.kind = "Received"
                              /\ e.txid \in Buyer
                              /\ e.status = "Pending"
                              /\ confs[e.txid] >= 0
                              /\ paid[e.txid] = [index |-> e.index, sats |-> e.sats]
  <2> DEFINE e == Received(next_seq(led), t, paid[t].sats, index)
  <2>1. e \in Entry /\ paid[t] = [index |-> index, sats |-> paid[t].sats]
    BY <1>2, ReceivedEntry
  <2>2. /\ e.kind = "Received" /\ e.txid = t /\ e.status = "Pending"
        /\ e.index = index /\ e.sats = paid[t].sats
    BY DEF Received
  <2>3. disk' = Append(disk, e)
    BY <1>2 DEF record_received, append
  <2> HIDE DEF e
  <2> QED
    BY <1>2, <2>1, <2>2, <2>3
<1>3. ASSUME NEW t \in Buyer, record_deposit(t), disk' # disk
      PROVE  /\ UNCHANGED <<paid, confs, reply, address>>
             /\ confs[t] >= 0
             /\ record_received(t, paid[t].index)
  BY <1>0, <1>3 DEF record_deposit, PaidInv, buyers, chain
<1>4. ASSUME verify_notify
      PROVE  /\ UNCHANGED <<paid, confs, reply, address>>
             /\ claim \in Buyer
             /\ confs[claim] >= 0
             /\ paid[claim].index = issued
             /\ record_received(claim, issued)
  BY <1>4 DEF verify_notify, deposits_to, buyers, chain
<1>5. ASSUME issue_address
      PROVE  /\ UNCHANGED <<paid, confs, reply, address>>
             /\ \E e \in Entry : /\ disk' = Append(disk, e)
                                 /\ e = AddressIssued(next_seq(led), next_index)
  <2>1. next_index \in Nat /\ next_seq(led) \in Nat
    BY <1>0, EntryTypes DEF TypeOK
  <2>2. AddressIssued(next_seq(led), next_index) \in Entry
    BY <2>1 DEF AddressIssued, Entry
  <2> QED
    BY <1>5, <2>2 DEF issue_address, append, buyers, chain
<1>6. ASSUME NEW b, BuyerNext(b) \/ Land(b) PROVE disk' = disk
  BY <1>6 DEF BuyerNext, dial, connected, told_address, pay_send, notify, give_up, Land
<1>s. ASSUME NEW t \in Income, record_sp_received(t)
      PROVE  /\ UNCHANGED <<paid, confs, reply, address>>
             /\ \E e \in Entry : /\ disk' = Append(disk, e)
                                 /\ e.kind = "SpReceived" /\ e.status = "Pending"
  <2> DEFINE e == SpReceived(next_seq(disk), t, 0, 1)
  <2>1. e \in Entry /\ e.kind = "SpReceived" /\ e.status = "Pending"
    BY <1>0, SpEntry DEF SpReceived
  <2>2. disk' = Append(disk, e) /\ UNCHANGED <<paid, confs, reply, address>>
    BY <1>s DEF record_sp_received, buyers, chain
  <2> HIDE DEF e
  <2> QED
    BY <2>1, <2>2
<1>7. \/ disk' = disk
      \/ issue_address \/ verify_notify
      \/ \E t \in Buyer \cup Income : update_status(t)
      \/ \E t \in Buyer : record_deposit(t)
      \/ \E t \in Income : record_sp_received(t)
  BY <1>6 DEF scan_fresh, vars, Next, SellerNext, Crash, serve_start, chain_watch, not_due,
     end_reconcile, poll_address, end_watch, accept_any, drop_stranger, send_address,
     recv_notify, ignore_notify, session_timeout
<1>8. CASE disk' = disk
  BY <1>8
<1>9. CASE disk' # disk /\ issue_address
  BY <1>5, <1>9
<1>10. CASE disk' # disk /\ verify_notify
  BY <1>2, <1>4, <1>10
<1>11. CASE disk' # disk /\ \E t \in Buyer \cup Income : update_status(t)
  BY <1>1, <1>11
<1>12. CASE disk' # disk /\ \E t \in Buyer : record_deposit(t)
  BY <1>2, <1>3, <1>12
<1>13. CASE \E t \in Income : record_sp_received(t)
  BY <1>s, <1>13
<1> QED
  BY <1>7, <1>8, <1>9, <1>10, <1>11, <1>12, <1>13

\* Confirmations only grow, and a transaction that is on the chain is what it
\* was.
LEMMA ChainStep ==
    ASSUME TypeInv, [Next]_vars, NEW b \in Buyer \cup Income, confs[b] >= 0
    PROVE  /\ confs'[b] >= confs[b]
           /\ b \in Buyer => paid'[b] = paid[b]
<1>0. TypeOK /\ PaidInv
  BY DEF TypeInv
<1>1. confs[b] \in -1..FinalDepth
  BY <1>0 DEF TypeOK
<1>2. confs[b] \in Int /\ confs[b] >= confs[b]
  BY <1>1 DEF FinalDepth
<1>3. ASSUME NEW c \in Buyer \cup Income, Land(c)
      PROVE  confs'[b] >= confs[b] /\ paid' = paid
  <2>1. confs'[b] = IF b = c THEN confs[b] + 1 ELSE confs[b]
    BY <1>0, <1>3 DEF Land, TypeOK
  <2> QED
    BY <1>2, <1>3, <2>1 DEF Land
<1>4. ASSUME NEW c \in Buyer, pay_send(c)
      PROVE  confs' = confs /\ (b \in Buyer => paid'[b] = paid[b])
  <2>1. confs[c] = -1
    BY <1>0, <1>4 DEF pay_send, PaidInv
  <2>2. b # c
    BY <2>1
  <2> QED
    BY <1>0, <1>2, <1>4, <2>2 DEF pay_send, TypeOK
<1>5. \/ UNCHANGED <<paid, confs>>
      \/ \E c \in Buyer \cup Income : Land(c)
      \/ \E c \in Buyer : pay_send(c)
  BY DEF scan_fresh, record_sp_received, vars, chain, Next, BuyerNext, SellerNext, dial, connected, told_address, notify,
     give_up, Crash, serve_start, chain_watch, not_due, update_status, end_reconcile,
     poll_address, record_deposit, end_watch, accept_any, drop_stranger, issue_address,
     send_address, recv_notify, verify_notify, ignore_notify, session_timeout
<1> QED
  BY <1>2, <1>3, <1>4, <1>5

LEMMA BookStep ==
    ASSUME TypeInv, TypeInv', [Next]_vars, ReceivedIsReal, DeliveryGate
    PROVE  ReceivedIsReal' /\ DeliveryGate'
<1>1. /\ disk \in Seq(Entry) /\ Len(disk) \in Nat
      /\ \A b \in Buyer \cup Income : confs[b] \in -1..FinalDepth
  <2>1. disk \in Seq(Entry) /\ confs \in [Buyer \cup Income -> -1..FinalDepth]
    BY Zenon DEF TypeInv, TypeOK
  <2>2. Len(disk) \in Nat
    BY <2>1
  <2> QED
    BY <2>1, <2>2, Zenon
<1>2. \A b \in Buyer \cup Income : confs'[b] \in -1..FinalDepth
  <2>1. confs' \in [Buyer \cup Income -> -1..FinalDepth]
    BY Zenon DEF TypeInv, TypeOK
  <2> QED
    BY <2>1, Zenon
<1>3. \A e \in Entry : /\ e.kind = "Received" => e.txid \in Buyer
                       /\ e.kind = "AddressIssued" => \A t : ~Mentions(e, t)
  BY DEF Entry, Mentions
<1>4. \A i \in Of(disk, "Received") : disk[i].txid \in Buyer
  BY <1>1, <1>3 DEF Of
<1>5. CASE disk' = disk
  <2>1. ReceivedIsReal'
    <3> SUFFICES ASSUME NEW i \in Of(disk, "Received")
                 PROVE  /\ confs'[disk[i].txid] >= 0
                        /\ paid'[disk[i].txid] = [index |-> disk[i].index, sats |-> disk[i].sats]
      BY <1>5 DEF ReceivedIsReal
    <3> DEFINE t == disk[i].txid
    <3>1. t \in Buyer /\ confs[t] >= 0
      BY <1>4 DEF ReceivedIsReal
    <3>2. confs'[t] >= confs[t] /\ paid'[t] = paid[t]
      BY <3>1, ChainStep
    <3> QED
      BY <1>1, <1>2, <3>1, <3>2 DEF ReceivedIsReal, FinalDepth
  <2>2. DeliveryGate'
    <3> SUFFICES ASSUME NEW b \in Buyer \cup Income, latest_status(disk, b) = "Final"
                 PROVE  confs'[b] = FinalDepth
      BY <1>5 DEF DeliveryGate
    <3>1. confs[b] = FinalDepth
      BY DEF DeliveryGate
    <3>2. confs'[b] >= confs[b]
      BY <3>1, ChainStep DEF FinalDepth
    <3> QED
      BY <1>2, <3>1, <3>2 DEF FinalDepth
  <2> QED
    BY <2>1, <2>2
<1>6. ASSUME NEW e \in Entry, disk' = Append(disk, e), UNCHANGED <<paid, confs>>,
             e.kind = "Received" => /\ confs[e.txid] >= 0
                                    /\ paid[e.txid] = [index |-> e.index, sats |-> e.sats]
      PROVE  ReceivedIsReal'
  <2>1. /\ \A i \in 1..Len(disk) : disk'[i] = disk[i]
        /\ Len(disk') = Len(disk) + 1
        /\ disk'[Len(disk) + 1] = e
    BY <1>1, <1>6
  <2> SUFFICES ASSUME NEW i \in Of(disk', "Received")
               PROVE  /\ confs[disk'[i].txid] >= 0
                      /\ paid[disk'[i].txid] = [index |-> disk'[i].index, sats |-> disk'[i].sats]
    BY <1>6 DEF ReceivedIsReal
  <2>2. i \in 1..(Len(disk) + 1) /\ disk'[i].kind = "Received"
    BY <2>1 DEF Of
  <2>3. CASE i \in 1..Len(disk)
    <3>1. i \in Of(disk, "Received")
      BY <2>1, <2>2, <2>3 DEF Of
    <3> QED
      BY <2>1, <2>3, <3>1 DEF ReceivedIsReal
  <2>4. CASE i = Len(disk) + 1
    BY <1>6, <2>1, <2>2, <2>4
  <2> QED
    BY <1>1, <2>2, <2>3, <2>4
<1>7. ASSUME NEW e \in Entry, disk' = Append(disk, e), UNCHANGED <<paid, confs>>,
             \A b \in Buyer \cup Income : Mentions(e, b) /\ e.status = "Final" => confs[b] = FinalDepth
      PROVE  DeliveryGate'
  <2> SUFFICES ASSUME NEW b \in Buyer \cup Income, latest_status(disk', b) = "Final"
               PROVE  confs[b] = FinalDepth
    BY <1>7 DEF DeliveryGate
  <2>1. latest_status(disk', b) = IF Mentions(e, b) THEN e.status ELSE latest_status(disk, b)
    BY <1>1, <1>7, LatestAppend
  <2> QED
    BY <1>7, <2>1 DEF DeliveryGate
<1>8. ASSUME NEW e \in Entry, disk' = Append(disk, e), UNCHANGED <<paid, confs>>,
             NEW t \in Buyer \cup Income, e = StatusUpdate(next_seq(led), t,
                            from_confirmations(IF confs[t] >= 1 THEN confs[t] ELSE 0))
      PROVE  ReceivedIsReal' /\ DeliveryGate'
  <2> DEFINE n == IF confs[t] >= 1 THEN confs[t] ELSE 0
  <2>1. /\ e.kind = "StatusUpdate" /\ e.txid = t
        /\ e.status = from_confirmations(n)
    BY <1>8 DEF StatusUpdate
  <2>2. n \in 0..FinalDepth
    BY <1>1 DEF FinalDepth
  <2>3. from_confirmations(n) = "Final" => n = FinalDepth
    BY <2>2 DEF from_confirmations, FinalDepth
  <2>4. \A b \in Buyer \cup Income : Mentions(e, b) /\ e.status = "Final" => confs[b] = FinalDepth
    BY <2>1, <2>3 DEF Mentions, FinalDepth
  <2> QED
    BY <1>6, <1>7, <1>8, <2>1, <2>4
<1>9. ASSUME NEW e \in Entry, disk' = Append(disk, e), UNCHANGED <<paid, confs>>,
             e.kind = "Received", e.status = "Pending", confs[e.txid] >= 0,
             paid[e.txid] = [index |-> e.index, sats |-> e.sats]
      PROVE  ReceivedIsReal' /\ DeliveryGate'
  BY <1>6, <1>7, <1>9
<1>10. ASSUME NEW e \in Entry, disk' = Append(disk, e), UNCHANGED <<paid, confs>>,
              e = AddressIssued(next_seq(led), next_index)
       PROVE  ReceivedIsReal' /\ DeliveryGate'
  <2>1. e.kind = "AddressIssued"
    BY <1>10 DEF AddressIssued
  <2> QED
    BY <1>3, <1>6, <1>7, <1>10, <2>1
<1>11. ASSUME NEW e \in Entry, disk' = Append(disk, e), UNCHANGED <<paid, confs>>,
              e.kind = "SpReceived", e.status = "Pending"
       PROVE  ReceivedIsReal' /\ DeliveryGate'
  BY <1>6, <1>7, <1>11
<1> QED
  BY <1>5, <1>8, <1>9, <1>10, <1>11, FileStep

LEMMA BookInit == Init => ReceivedIsReal /\ DeliveryGate
<1> SUFFICES ASSUME Init PROVE ReceivedIsReal /\ DeliveryGate
  OBVIOUS
<1>1. \A b : latest_status(disk, b) # "Final"
  BY EmptyLedger DEF Init, NoStatus
<1>2. Of(disk, "Received") = {}
  BY DEF Init, Of
<1> QED
  BY <1>1, <1>2 DEF ReceivedIsReal, DeliveryGate

\* What is booked as received is on the chain, for that address and with that
\* amount, whatever a Notify claims (net::run_receiver, chain::deposits_to), for
\* any number of buyers and through any number of crashes.
THEOREM ReceivedIsRealHolds == Spec => []ReceivedIsReal
<1> DEFINE Booked == ReceivedIsReal /\ DeliveryGate
<1>1. Init => Booked
  BY BookInit
<1>2. TypeInv /\ TypeInv' /\ [Next]_vars /\ Booked => Booked'
  BY BookStep
<1> QED
  BY <1>1, <1>2, TypeAlways, PTL DEF Spec

\* Final is booked of a payment or an income with three confirmations and no
\* other, whichever ledger has booked it: the delivery gate of the seller
\* (Status::from_confirmations, ledger::reconcile).
THEOREM DeliveryGateHolds == Spec => []DeliveryGate
<1> DEFINE Booked == ReceivedIsReal /\ DeliveryGate
<1>1. Init => Booked
  BY BookInit
<1>2. TypeInv /\ TypeInv' /\ [Next]_vars /\ Booked => Booked'
  BY BookStep
<1> QED
  BY <1>1, <1>2, TypeAlways, PTL DEF Spec

-----------------------------------------------------------------------------
(* The addresses.                                                          *)

\* The indexes that the datagrams of a buffer carry, and all that a buyer has
\* been told or is about to read.
Carried(r) == {r[k].index : k \in {j \in 1..Len(r) : r[j].type = "AddrResponse"}}

Told(b) == Carried(reply[b]) \cup ({address[b]} \ {NoIndex})

\* No index is in the file twice.
DistinctIndexes(es) ==
    \A i, j \in Of(es, "AddressIssued") : es[i].index = es[j].index => i = j

\* What makes NoAddressReuse inductive: every index a buyer knows or will read
\* is in the file, no two buyers share one, and the index between the write and
\* the answer (net::run_receiver) is in the file and known to nobody.
ReuseInv ==
    /\ DistinctIndexes(disk)
    /\ pc = "issue" => issued \in IssuedIndexes(disk) /\ \A b \in Buyer : issued \notin Told(b)
    /\ \A b \in Buyer : Told(b) \subseteq IssuedIndexes(disk)
    /\ \A b, c \in Buyer : b # c => Told(b) \cap Told(c) = {}

LEMMA CarriedTail ==
    ASSUME NEW r \in Seq(Reply), r # <<>>
    PROVE  /\ Carried(Tail(r)) \subseteq Carried(r)
           /\ Head(r).type = "AddrResponse" => Head(r).index \in Carried(r)
<1>1. /\ Len(r) \in Nat /\ Len(r) >= 1
      /\ Len(Tail(r)) = Len(r) - 1
      /\ \A k \in 1..(Len(r) - 1) : Tail(r)[k] = r[k + 1] /\ k + 1 \in 1..Len(r)
      /\ Head(r) = r[1] /\ 1 \in 1..Len(r)
  OBVIOUS
<1>2. ASSUME NEW s, NEW i
      PROVE  i \in Carried(s) <=> \E k \in 1..Len(s) : s[k].type = "AddrResponse" /\ i = s[k].index
  BY Zenon DEF Carried
<1>3. ASSUME NEW i \in Carried(Tail(r)) PROVE i \in Carried(r)
  <2>0. \E k \in 1..Len(Tail(r)) : Tail(r)[k].type = "AddrResponse" /\ i = Tail(r)[k].index
    BY <1>3, Zenon DEF Carried
  <2>1. PICK k \in 1..(Len(r) - 1) : Tail(r)[k].type = "AddrResponse" /\ i = Tail(r)[k].index
    BY <1>1, <2>0, Zenon
  <2> QED
    BY <1>1, <1>2, <2>1
<1> QED
  BY <1>1, <1>2, <1>3

LEMMA CarriedAppend ==
    ASSUME NEW r \in Seq(Reply), NEW m \in Reply
    PROVE  \A i \in Carried(Append(r, m)) :
               i \in Carried(r) \/ (m.type = "AddrResponse" /\ i = m.index)
<1>1. /\ Len(r) \in Nat
      /\ Len(Append(r, m)) = Len(r) + 1
      /\ Append(r, m)[Len(r) + 1] = m
      /\ \A k \in 1..Len(r) : Append(r, m)[k] = r[k]
  OBVIOUS
<1>2. ASSUME NEW s, NEW i
      PROVE  i \in Carried(s) <=> \E k \in 1..Len(s) : s[k].type = "AddrResponse" /\ i = s[k].index
  BY Zenon DEF Carried
<1> SUFFICES ASSUME NEW i \in Carried(Append(r, m))
             PROVE  i \in Carried(r) \/ (m.type = "AddrResponse" /\ i = m.index)
  OBVIOUS
<1>3. PICK k \in 1..(Len(r) + 1) : /\ Append(r, m)[k].type = "AddrResponse"
                                   /\ i = Append(r, m)[k].index
  <2>1. \E k \in 1..Len(Append(r, m)) : /\ Append(r, m)[k].type = "AddrResponse"
                                        /\ i = Append(r, m)[k].index
    BY Zenon DEF Carried
  <2> QED
    BY <1>1, <2>1, Zenon
<1>4. k \in 1..Len(r) \/ k = Len(r) + 1
  BY <1>1
<1> QED
  BY <1>1, <1>2, <1>3, <1>4

\* An answer reaches one buyer.
LEMMA ToBuyerTold ==
    ASSUME TypeOK, NEW b \in Buyer, NEW m \in Reply, ToBuyer(b, m), address' = address,
           NEW c \in Buyer
    PROVE  \A i \in Told(c)' :
               i \in Told(c) \/ (c = b /\ m.type = "AddrResponse" /\ i = m.index)
<1>1. reply \in [Buyer -> Seq(Reply)] /\ reply[b] \in Seq(Reply)
  BY DEF TypeOK
<1>2. reply'[c] = reply[c] \/ (c = b /\ reply'[c] = Append(reply[b], m))
  BY <1>1 DEF ToBuyer
<1>3. CASE reply'[c] = reply[c]
  BY <1>3 DEF Told
<1>4. CASE c = b /\ reply'[c] = Append(reply[b], m)
  <2>1. \A i \in Carried(reply'[c]) :
            i \in Carried(reply[b]) \/ (m.type = "AddrResponse" /\ i = m.index)
    BY <1>1, <1>4, CarriedAppend
  <2> QED
    BY <1>4, <2>1 DEF Told
<1> QED
  BY <1>2, <1>3, <1>4

\* Nobody is told an index except by the answer of an open session.
LEMMA ToldStep ==
    ASSUME TypeInv, [Next]_vars, NEW c \in Buyer
    PROVE  \A i \in Told(c)' : i \in Told(c) \/ (send_address /\ c = peer /\ i = issued)
<1>0. TypeOK /\ PaidInv
  BY DEF TypeInv
<1>1. /\ reply \in [Buyer -> Seq(Reply)] /\ reply[c] \in Seq(Reply)
      /\ address \in [Buyer -> Nat \cup {NoIndex}]
  BY <1>0 DEF TypeOK
<1>2. CASE UNCHANGED <<reply, address>>
  BY <1>2 DEF Told
<1>3. ASSUME NEW b \in Buyer, connected(b) PROVE Told(c)' \subseteq Told(c)
  <2>1. CASE c # b
    BY <1>1, <1>3, <2>1 DEF connected, Told
  <2>2. CASE c = b
    <3>1. reply'[c] = Tail(reply[c]) /\ reply[c] # <<>> /\ address' = address
      BY <1>1, <1>3, <2>2 DEF connected
    <3> QED
      BY <1>1, <3>1, CarriedTail DEF Told
  <2> QED
    BY <2>1, <2>2
<1>4. ASSUME NEW b \in Buyer, told_address(b) PROVE Told(c)' \subseteq Told(c)
  <2>1. CASE c # b
    BY <1>1, <1>4, <2>1 DEF told_address, Told
  <2>2. CASE c = b
    <3>1. /\ reply'[c] = Tail(reply[c]) /\ reply[c] # <<>>
          /\ Head(reply[c]).type = "AddrResponse"
          /\ address'[c] = Head(reply[c]).index
      BY <1>1, <1>4, <2>2 DEF told_address
    <3>2. Carried(reply'[c]) \subseteq Carried(reply[c]) /\ address'[c] \in Carried(reply[c])
      BY <1>1, <3>1, CarriedTail, Zenon
    <3> QED
      BY <3>2, Zenon DEF Told
  <2> QED
    BY <2>1, <2>2
<1>5. CASE accept_any
  <2>1. Head(inbox).from \in Buyer
    BY <1>0, <1>5, InboxHead DEF accept_any
  <2>2. [type |-> "response"] \in Reply /\ [type |-> "response"].type # "AddrResponse"
    BY DEF Reply
  <2> QED
    BY <1>0, <1>5, <2>1, <2>2, ToBuyerTold DEF accept_any
<1>6. CASE send_address
  <2>1. peer \in Buyer
    BY <1>0, <1>6 DEF send_address, TypeOK
  <2>2. [type |-> "AddrResponse", index |-> issued] \in Reply
    BY <1>0, <1>6 DEF send_address, PaidInv, Reply
  <2>3. [type |-> "AddrResponse", index |-> issued].index = issued
    OBVIOUS
  <2> QED
    BY <1>0, <1>6, <2>1, <2>2, <2>3, ToBuyerTold DEF send_address
<1>7. \/ UNCHANGED <<reply, address>>
      \/ \E b \in Buyer : connected(b) \/ told_address(b)
      \/ accept_any \/ send_address
  BY DEF vars, buyers, Next, BuyerNext, SellerNext, dial, pay_send, notify, Land,
     give_up, Crash, serve_start, chain_watch, not_due, update_status, end_reconcile,
     poll_address, record_deposit, scan_fresh, record_sp_received, end_watch,
     drop_stranger, issue_address, recv_notify, verify_notify, ignore_notify, session_timeout
<1> QED
  BY <1>2, <1>3, <1>4, <1>5, <1>6, <1>7

LEMMA ReuseStep ==
    ASSUME TypeInv, [Next]_vars, ReuseInv
    PROVE  ReuseInv'
<1>0. TypeOK /\ NumberInv /\ disk \in Seq(Entry) /\ Len(disk) \in Nat
  BY DEF TypeInv, TypeOK
\* The file.
<1>1. /\ IssuedIndexes(disk) \subseteq IssuedIndexes(disk')
      /\ DistinctIndexes(disk')
      /\ issue_address => next_index \in IssuedIndexes(disk')
  <2>1. CASE disk' = disk
    <3>1. ~issue_address
      <4>1. Len(Append(disk, AddressIssued(next_seq(led), next_index))) # Len(disk)
        BY <1>0
      <4> QED
        BY <2>1, <4>1 DEF issue_address, append
    <3> QED
      BY <2>1, <3>1 DEF ReuseInv
  <2>2. ASSUME NEW e \in Entry, disk' = Append(disk, e), e.kind # "AddressIssued"
        PROVE  /\ IssuedIndexes(disk) \subseteq IssuedIndexes(disk')
               /\ DistinctIndexes(disk')
               /\ ~issue_address
    <3>1. IssuedIndexes(disk') = IssuedIndexes(disk)
      BY <1>0, <2>2, IssuedAppend
    <3>2. \A k : k \in Of(disk', "AddressIssued") <=> k \in Of(disk, "AddressIssued")
      BY <1>0, <2>2, IssuedAppend
    <3>3. \A k \in Of(disk, "AddressIssued") : disk'[k] = disk[k]
      BY <1>0, <2>2, IssuedAppend
    <3>4. DistinctIndexes(disk')
      BY <3>2, <3>3, Zenon DEF DistinctIndexes, ReuseInv
    <3>5. ~issue_address
      <4> SUFFICES ASSUME issue_address PROVE FALSE
        OBVIOUS
      <4> DEFINE a == AddressIssued(next_seq(led), next_index)
      <4>1. disk' = Append(disk, a)
        BY DEF issue_address, append
      <4>2. a.kind = "AddressIssued"
        BY DEF AddressIssued
      <4> HIDE DEF a
      <4>3. Append(disk, a)[Len(disk) + 1] = a /\ Append(disk, e)[Len(disk) + 1] = e
        BY <1>0, SMT
      <4> QED
        BY <2>2, <4>1, <4>2, <4>3, Zenon
    <3> QED
      BY <3>1, <3>4, <3>5
  <2>3. ASSUME NEW e \in Entry, disk' = Append(disk, e), issue_address,
               e = AddressIssued(next_seq(led), next_index)
        PROVE  /\ IssuedIndexes(disk) \subseteq IssuedIndexes(disk')
               /\ DistinctIndexes(disk')
               /\ next_index \in IssuedIndexes(disk')
    <3>1. e.kind = "AddressIssued" /\ e.index = next_index
      BY <2>3 DEF AddressIssued
    <3>2. IssuedIndexes(disk') = IssuedIndexes(disk) \cup {next_index}
      BY <1>0, <2>3, <3>1, IssuedAppend
    <3>3. next_index \in Nat /\ \A i \in IssuedIndexes(disk) : i < next_index
      BY <1>0, <2>3 DEF NumberInv, InSession, issue_address, TypeOK
    <3>4. next_index \notin IssuedIndexes(disk)
      BY <3>3
    <3>5. \A k : k \in Of(disk', "AddressIssued") <=>
                    k \in Of(disk, "AddressIssued") \/ k = Len(disk) + 1
      BY <1>0, <2>3, <3>1, IssuedAppend
    <3>6. \A k \in Of(disk, "AddressIssued") :
              disk'[k] = disk[k] /\ disk[k].index \in IssuedIndexes(disk)
      <4>1. \A k \in Of(disk, "AddressIssued") : disk'[k] = disk[k]
        BY <1>0, <2>3, IssuedAppend
      <4> QED
        BY <4>1, Zenon DEF IssuedIndexes
    <3>7. disk'[Len(disk) + 1].index = next_index
      BY <1>0, <2>3, <3>1, IssuedAppend
    <3>8. DistinctIndexes(disk')
      BY <3>4, <3>5, <3>6, <3>7, Zenon DEF DistinctIndexes, ReuseInv
    <3> QED
      BY <3>2, <3>8
  <2>4. \A t, n : StatusUpdate(next_seq(led), t, n).kind # "AddressIssued"
    BY DEF StatusUpdate
  <2> QED
    BY <2>1, <2>2, <2>3, <2>4, FileStep
\* The index that waits for its answer.
<1>2. pc' = "issue" => issue_address \/ (pc = "issue" /\ issued' = issued /\ ~send_address)
  BY <1>0 DEF vars, seller, Next, BuyerNext, SellerNext, dial, connected, told_address, pay_send,
     notify, Land, give_up, Crash, serve_start, chain_watch, not_due, update_status, end_reconcile,
     poll_address, record_deposit, scan_fresh, record_sp_received, end_watch, accept_any,
     drop_stranger, issue_address, send_address, recv_notify, verify_notify, ignore_notify,
     session_timeout, TypeOK
<1>3. ASSUME issue_address
      PROVE  /\ issued' = next_index
             /\ next_index \notin IssuedIndexes(disk)
             /\ ~send_address
  <2>1. next_index \in Nat /\ \A i \in IssuedIndexes(disk) : i < next_index
    BY <1>0, <1>3 DEF NumberInv, InSession, issue_address, TypeOK
  <2>2. next_index \notin IssuedIndexes(disk)
    BY <2>1
  <2> QED
    BY <1>3, <2>2 DEF issue_address, send_address
<1>4. \A b \in Buyer : \A i \in Told(b)' : i \in Told(b) \/ (send_address /\ b = peer /\ i = issued)
  BY ToldStep
<1>5. send_address => /\ issued \in IssuedIndexes(disk)
                      /\ \A b \in Buyer : issued \notin Told(b)
  BY DEF send_address, ReuseInv
<1>6. \A b \in Buyer : Told(b)' \subseteq IssuedIndexes(disk')
  BY <1>1, <1>4, <1>5 DEF ReuseInv
<1>7. \A b, c \in Buyer : b # c => Told(b)' \cap Told(c)' = {}
  BY <1>4, <1>5 DEF ReuseInv
<1>8. pc' = "issue" => issued' \in IssuedIndexes(disk') /\ \A b \in Buyer : issued' \notin Told(b)'
  BY <1>1, <1>2, <1>3, <1>4 DEF ReuseInv
<1> QED
  BY <1>1, <1>6, <1>7, <1>8 DEF ReuseInv

LEMMA ReuseInit == Init => ReuseInv
<1> SUFFICES ASSUME Init PROVE ReuseInv
  OBVIOUS
<1>1. \A b \in Buyer : Told(b) = {}
  BY DEF Init, Told, Carried
<1>2. Of(disk, "AddressIssued") = {}
  BY DEF Init, Of
<1> QED
  BY <1>1, <1>2 DEF Init, ReuseInv, DistinctIndexes

\* No receive address is handed out twice, by no number of sessions, daemons
\* that die between the write and the answer, and restarts
\* (Receiver::handle, Ledger::next_address_index).
THEOREM NoAddressReuseHolds == Spec => []NoAddressReuse
<1>1. ReuseInv => NoAddressReuse
  <2> SUFFICES ASSUME ReuseInv PROVE NoAddressReuse
    OBVIOUS
  <2>1. \A i, j \in Of(disk, "AddressIssued") : disk[i].index = disk[j].index => i = j
    BY DEF ReuseInv, DistinctIndexes
  <2>2. \A b, c \in Buyer : address[b] = address[c] /\ address[b] # NoIndex => b = c
    <3>1. \A b \in Buyer : address[b] # NoIndex => address[b] \in Told(b)
      BY DEF Told
    <3>2. \A b, c \in Buyer : b # c => Told(b) \cap Told(c) = {}
      BY DEF ReuseInv
    <3> QED
      BY <3>1, <3>2, Zenon
  <2> QED
    BY <2>1, <2>2 DEF NoAddressReuse
<1> QED
  BY <1>1, ReuseInit, ReuseStep, TypeAlways, PTL DEF Spec

=============================================================================
