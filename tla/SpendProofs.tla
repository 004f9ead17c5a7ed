---------------------------- MODULE SpendProofs -----------------------------
(***************************************************************************)
(* Proofs about Spend, for any payers, policies, amounts, fees, addresses  *)
(* and bounds.                                                             *)
(***************************************************************************)
EXTENDS Spend, FiniteSetTheorems, TLAPS

\* The positions of a file and the sums over them; its entries are those of Spend.
Positions == INSTANCE LedgerProofs

-----------------------------------------------------------------------------
(* Types.                                                                  *)

Request == [cmd : 1..MaxCommands, path : Path, sats : Amount, to : Address, fee : Fee \cup {0}]

\* The entry of the running command is in the file.
AfterBook == {"broadcast", "notify", "readback"}

\* A payer that is not idle has a command, and one that has built its
\* transaction has a real fee.
TypeInv ==
    /\ TypeOK
    /\ req \in [Payer -> Request \cup {NoReq}]
    /\ mem \in [Payer -> Seq(Sent)]
    /\ eps \in [Payer -> 0..Endpoints]
    /\ report \in [Payer -> Nat]
    /\ \A p \in Payer :
        /\ pc[p] # "idle" => req[p] \in Request
        /\ pc[p] \in {"derived", "book"} => req[p].fee \in Fee
        /\ pc[p] \in AfterBook => \E i \in 1..Len(disk) : disk[i].cmd = req[p].cmd

\* The entry a broadcast is about exists and is the command's own.
LEMMA BookedIsOwn ==
    ASSUME TypeInv, NEW p \in Payer, pc[p] \in AfterBook
    PROVE  Booked(p) \in 1..Len(disk) /\ disk[Booked(p)].cmd = req[p].cmd
<1> DEFINE S == {i \in 1..Len(disk) : disk[i].cmd = req[p].cmd}
<1>1. Len(disk) \in Nat /\ S # {} /\ S \in SUBSET (1..Len(disk))
  BY DEF TypeInv, TypeOK
<1>2. PICK m \in S : \A k \in S : k <= m
  <2> HIDE DEF S
  <2> QED
    BY <1>1, Positions!LastPosition
<1>3. \E i \in 1..Len(disk) :
        disk[i].cmd = req[p].cmd /\ \A j \in 1..Len(disk) : disk[j].cmd = req[p].cmd => j <= i
  BY <1>2, Zenon
<1> QED
  BY <1>3, Zenon DEF Booked

LEMMA TypeInit == Init => TypeInv
BY ConstAssumption DEF Init, TypeInv, TypeOK, AfterBook

Steps == {"idle", "open", "connect", "amount", "ask", "address", "build", "derived", "book",
          "broadcast", "notify", "readback", "done"}

\* A payer's state, next to a file.
Fits(file, step, r, view, left, named) ==
    /\ step \in Steps
    /\ r \in Request \cup {NoReq}
    /\ view \in Seq(Sent) /\ Len(view) <= Len(file)
    /\ left \in 0..Endpoints
    /\ named \in 0..Len(file)
    /\ step # "idle" => r \in Request
    /\ step \in {"derived", "book"} => r.fee \in Fee
    /\ step \in AfterBook => \E i \in 1..Len(file) : file[i].cmd = r.cmd

\* The state of all payers.
Payers ==
    /\ pc \in [Payer -> Steps]
    /\ req \in [Payer -> Request \cup {NoReq}]
    /\ mem \in [Payer -> Seq(Sent)]
    /\ eps \in [Payer -> 0..Endpoints]
    /\ report \in [Payer -> Nat]
    /\ \A p \in Payer : Fits(disk, pc[p], req[p], mem[p], eps[p], report[p])

\* The rest of the state.
Shared ==
    /\ policy \in Policies
    /\ clock \in 0..MaxClock
    /\ disk \in Seq(Sent)
    /\ moved \subseteq 1..Len(disk)
    /\ commands \in 0..MaxCommands
    /\ faults \in 0..MaxFaults

LEMMA TypeParts == TypeInv <=> Shared /\ Payers
<1>1. TypeInv => Shared
  BY DEF TypeInv, TypeOK, Shared
<1>2. ASSUME TypeInv PROVE Payers
  <2>1. ASSUME NEW p \in Payer PROVE Fits(disk, pc[p], req[p], mem[p], eps[p], report[p])
    BY <1>2 DEF TypeInv, TypeOK, Fits, Steps, Request
  <2> QED
    BY <1>2, <2>1 DEF TypeInv, TypeOK, Payers, Steps
<1>3. ASSUME Shared, Payers PROVE TypeInv
  <2>1. ASSUME NEW p \in Payer
        PROVE  /\ req[p] = NoReq \/ req[p] \in Request
               /\ mem[p] \in Seq(Sent) /\ Len(mem[p]) <= Len(disk)
               /\ eps[p] \in 0..Endpoints /\ report[p] \in 0..Len(disk)
               /\ pc[p] # "idle" => req[p] \in Request
               /\ pc[p] \in {"derived", "book"} => req[p].fee \in Fee
               /\ pc[p] \in AfterBook => \E i \in 1..Len(disk) : disk[i].cmd = req[p].cmd
    BY <1>3 DEF Payers, Fits
  <2>2. TypeOK
    BY <1>3, <2>1 DEF TypeOK, Shared, Payers, Steps, Request
  <2> QED
    BY <1>3, <2>1, <2>2 DEF TypeInv, Payers
<1> QED
  BY <1>1, <1>2, <1>3

\* One payer moves and fits the file, which stays or grows by an entry: all do.
LEMMA OneMoves ==
    ASSUME Shared, Payers, NEW p \in Payer, NEW step, NEW r, NEW view, NEW left, NEW named,
           disk' = disk \/ \E e \in Sent : disk' = Append(disk, e),
           pc' = [pc EXCEPT ![p] = step], req' = [req EXCEPT ![p] = r],
           mem' = [mem EXCEPT ![p] = view], eps' = [eps EXCEPT ![p] = left],
           report' = [report EXCEPT ![p] = named],
           Fits(disk', step, r, view, left, named)
    PROVE  Payers'
<1>0. /\ pc \in [Payer -> Steps] /\ req \in [Payer -> Request \cup {NoReq}]
      /\ mem \in [Payer -> Seq(Sent)] /\ eps \in [Payer -> 0..Endpoints]
      /\ report \in [Payer -> Nat]
      /\ disk \in Seq(Sent)
  BY DEF Payers, Shared
<1>1. /\ Len(disk) \in Nat /\ Len(disk') \in Nat /\ Len(disk) <= Len(disk')
      /\ \A i \in 1..Len(disk) : i \in 1..Len(disk') /\ disk'[i] = disk[i]
  <2>1. CASE disk' = disk
    BY <1>0, <2>1
  <2>2. ASSUME NEW e \in Sent, disk' = Append(disk, e)
        PROVE  /\ Len(disk) \in Nat /\ Len(disk') \in Nat /\ Len(disk) <= Len(disk')
               /\ \A i \in 1..Len(disk) : i \in 1..Len(disk') /\ disk'[i] = disk[i]
    BY <1>0, <2>2
  <2> QED
    BY <2>1, <2>2
<1>2. /\ pc' \in [Payer -> Steps] /\ req' \in [Payer -> Request \cup {NoReq}]
      /\ mem' \in [Payer -> Seq(Sent)] /\ eps' \in [Payer -> 0..Endpoints]
      /\ report' \in [Payer -> Nat]
  <2>1. step \in Steps /\ r \in Request \cup {NoReq} /\ view \in Seq(Sent) /\ left \in 0..Endpoints
        /\ named \in Nat
    BY <1>1 DEF Fits
  <2> QED
    BY <1>0, <2>1
<1>3. ASSUME NEW q \in Payer PROVE Fits(disk', pc'[q], req'[q], mem'[q], eps'[q], report'[q])
  <2>1. CASE q = p
    BY <1>0, <2>1
  <2>2. CASE q # p
    <3>1. /\ pc'[q] = pc[q] /\ req'[q] = req[q] /\ mem'[q] = mem[q] /\ eps'[q] = eps[q]
          /\ report'[q] = report[q]
      BY <1>0, <2>2
    <3>2. Fits(disk, pc[q], req[q], mem[q], eps[q], report[q])
      BY DEF Payers
    <3>3. pc[q] \in AfterBook => \E i \in 1..Len(disk') : disk'[i].cmd = req[q].cmd
      BY <1>1, <3>2 DEF Fits
    <3>4. Len(mem[q]) <= Len(disk') /\ report[q] \in 0..Len(disk')
      <4>1. Len(mem[q]) \in Nat
        BY <1>0
      <4> QED
        BY <1>1, <3>2, <4>1 DEF Fits
    <3> QED
      BY <3>1, <3>2, <3>3, <3>4 DEF Fits
  <2> QED
    BY <2>1, <2>2
<1> QED
  BY <1>2, <1>3 DEF Payers

\* The same where the file and the reported entry stay.
LEMMA OneGoes ==
    ASSUME Shared, Payers, NEW p \in Payer, NEW step, NEW r, NEW view, NEW left,
           UNCHANGED <<disk, report>>,
           pc' = [pc EXCEPT ![p] = step], req' = [req EXCEPT ![p] = r],
           mem' = [mem EXCEPT ![p] = view], eps' = [eps EXCEPT ![p] = left],
           Fits(disk, step, r, view, left, report[p])
    PROVE  Payers'
<1>1. report' = [report EXCEPT ![p] = report[p]]
  BY DEF Payers
<1> QED
  BY <1>1, OneMoves

\* An error: the next endpoint, or the end of the command.
LEMMA FailedFits ==
    ASSUME Shared, Payers, NEW p \in Payer, pc[p] # "idle", Failed(p), UNCHANGED <<disk, report>>
    PROVE  Payers'
<1>0. /\ Fits(disk, pc[p], req[p], mem[p], eps[p], report[p])
      /\ req \in [Payer -> Request \cup {NoReq}] /\ eps \in [Payer -> 0..Endpoints]
      /\ disk \in Seq(Sent)
  BY DEF Payers, Shared
<1>1. <<>> \in Seq(Sent) /\ Len(<<>>) = 0 /\ Len(disk) \in Nat
  BY <1>0
<1>2. CASE req[p].path = "tunnel" /\ eps[p] > 0
  <2>1. /\ mem' = [mem EXCEPT ![p] = <<>>] /\ pc' = [pc EXCEPT ![p] = "open"]
        /\ eps' = [eps EXCEPT ![p] = eps[p] - 1] /\ req' = [req EXCEPT ![p] = req[p]]
    BY <1>0, <1>2 DEF Failed, Goto
  <2>2. Fits(disk, "open", req[p], <<>>, eps[p] - 1, report[p])
    BY <1>0, <1>1, <1>2, ConstAssumption DEF Fits, Steps, AfterBook
  <2> QED
    BY <2>1, <2>2, OneGoes
<1>3. CASE ~(req[p].path = "tunnel" /\ eps[p] > 0)
  <2>1. /\ mem' = [mem EXCEPT ![p] = <<>>] /\ pc' = [pc EXCEPT ![p] = "idle"]
        /\ eps' = [eps EXCEPT ![p] = eps[p]] /\ req' = [req EXCEPT ![p] = NoReq]
    BY <1>0, <1>3 DEF Failed, Goto
  <2>2. Fits(disk, "idle", NoReq, <<>>, eps[p], report[p])
    BY <1>0, <1>1 DEF Fits, Steps, AfterBook
  <2> QED
    BY <2>1, <2>2, OneGoes
<1> QED
  BY <1>2, <1>3

\* A step of the running command that leaves its data alone.
LEMMA GoesOn ==
    ASSUME Shared, Payers, NEW p \in Payer, NEW step \in Steps, Goto(p, step),
           UNCHANGED <<disk, req, mem, eps, report>>,
           step # "idle" => pc[p] # "idle",
           step \in {"derived", "book"} => pc[p] \in {"derived", "book"},
           step \in AfterBook => pc[p] \in AfterBook
    PROVE  Payers'
<1>0. /\ Fits(disk, pc[p], req[p], mem[p], eps[p], report[p])
      /\ req \in [Payer -> Request \cup {NoReq}] /\ eps \in [Payer -> 0..Endpoints]
      /\ mem \in [Payer -> Seq(Sent)]
  BY DEF Payers
<1>1. Fits(disk, step, req[p], mem[p], eps[p], report[p])
  BY <1>0 DEF Fits
<1>2. /\ pc' \in [Payer -> Steps] /\ pc'[p] = step
      /\ \A q \in Payer : q # p => pc'[q] = pc[q]
  BY DEF Goto, Payers
<1>3. \A q \in Payer : Fits(disk, pc'[q], req[q], mem[q], eps[q], report[q])
  BY <1>1, <1>2 DEF Payers
<1> QED
  BY <1>2, <1>3 DEF Payers

LEMMA GateFits ==
    ASSUME Shared, Payers, NEW p \in Payer, NEW open, NEW step \in Steps, Gate(p, open, step),
           UNCHANGED <<disk, report>>, pc[p] # "idle", step \notin AfterBook,
           step \in {"derived", "book"} => pc[p] \in {"derived", "book"}
    PROVE  Payers'
<1>1. CASE Failed(p)
  BY <1>1, FailedFits
<1>2. CASE Goto(p, step) /\ UNCHANGED <<req, mem, eps>>
  BY <1>2, GoesOn
<1> QED
  BY <1>1, <1>2 DEF Gate

LEMMA TypeStep ==
    ASSUME TypeInv, [Next]_vars
    PROVE  TypeInv'
<1> USE ConstAssumption
<1>0. Shared /\ Payers
  BY TypeParts
<1>1. /\ policy \in Policies /\ clock \in 0..MaxClock /\ disk \in Seq(Sent)
      /\ moved \subseteq 1..Len(disk) /\ commands \in 0..MaxCommands /\ faults \in 0..MaxFaults
  BY <1>0 DEF Shared
<1>2. /\ req \in [Payer -> Request \cup {NoReq}] /\ mem \in [Payer -> Seq(Sent)]
      /\ eps \in [Payer -> 0..Endpoints] /\ report \in [Payer -> Nat] /\ pc \in [Payer -> Steps]
      /\ \A p \in Payer : Fits(disk, pc[p], req[p], mem[p], eps[p], report[p])
  BY <1>0 DEF Payers
<1>3. Fault => faults' \in 0..MaxFaults
  BY <1>1 DEF Fault
<1>4. ASSUME UNCHANGED <<policy, clock, disk, moved, commands>>, faults' = faults \/ Fault
      PROVE  Shared'
  BY <1>1, <1>3, <1>4 DEF Shared
<1>5. ASSUME UNCHANGED <<disk, pc, req, mem, eps, report>> PROVE Payers'
  BY <1>0, <1>5 DEF Payers
<1>6. ASSUME Tick PROVE Shared' /\ Payers'
  <2>1. Shared'
    BY <1>1, <1>6 DEF Tick, Shared
  <2> QED
    BY <1>5, <1>6, <2>1 DEF Tick
<1>7. ASSUME rebroadcast PROVE Shared' /\ Payers'
  <2>1. Shared'
    BY <1>1, <1>7 DEF rebroadcast, Shared
  <2> QED
    BY <1>5, <1>7, <2>1 DEF rebroadcast
<1>8. ASSUME NEW p \in Payer, command(p) PROVE Shared' /\ Payers'
  <2>1. Shared'
    BY <1>1, <1>8 DEF command, Shared
  <2>2. PICK path \in Path, sats \in Amount, to \in Address, n \in {1, Endpoints} :
          /\ req' = [req EXCEPT ![p] = [cmd |-> commands + 1, path |-> path, sats |-> sats,
                                        to |-> to, fee |-> 0]]
          /\ eps' = [eps EXCEPT ![p] = IF path = "tunnel" THEN n - 1 ELSE 0]
    BY <1>8 DEF command
  <2> DEFINE r == [cmd |-> commands + 1, path |-> path, sats |-> sats, to |-> to, fee |-> 0]
             left == IF path = "tunnel" THEN n - 1 ELSE 0
  <2>3. r \in Request /\ left \in 0..Endpoints
    BY <1>1, <1>8 DEF command, Request
  <2>4. /\ pc' = [pc EXCEPT ![p] = "open"] /\ mem' = [mem EXCEPT ![p] = mem[p]]
        /\ UNCHANGED <<disk, report>>
    BY <1>2, <1>8 DEF command, Goto
  <2>5. req' = [req EXCEPT ![p] = r] /\ eps' = [eps EXCEPT ![p] = left]
    BY <2>2
  <2> HIDE DEF r, left
  <2>6. Fits(disk, "open", r, mem[p], left, report[p])
    BY <1>2, <2>3 DEF Fits, Steps, AfterBook
  <2>7. Payers'
    BY <1>0, <2>4, <2>5, <2>6, OneGoes
  <2> QED
    BY <2>1, <2>7
<1>9. ASSUME NEW p \in Payer, open_ledger(p) PROVE Shared' /\ Payers'
  <2> DEFINE step == IF req[p].path = "tunnel" THEN "connect" ELSE "amount"
  <2>1. /\ pc' = [pc EXCEPT ![p] = step] /\ mem' = [mem EXCEPT ![p] = disk]
        /\ req' = [req EXCEPT ![p] = req[p]] /\ eps' = [eps EXCEPT ![p] = eps[p]]
        /\ UNCHANGED <<disk, report>>
    BY <1>2, <1>9 DEF open_ledger, Goto
  <2>2. step \in {"connect", "amount"} /\ pc[p] = "open"
    BY <1>9 DEF open_ledger
  <2> HIDE DEF step
  <2>3. Fits(disk, step, req[p], disk, eps[p], report[p])
    BY <1>1, <1>2, <2>2 DEF Fits, Steps, AfterBook
  <2>4. Payers'
    BY <1>0, <2>1, <2>3, OneGoes
  <2> QED
    BY <1>4, <1>9, <2>4 DEF open_ledger
<1>10. ASSUME NEW p \in Payer, connect(p) \/ notify(p) PROVE Shared' /\ Payers'
  <2>1. Payers'
    BY <1>0, <1>10, GoesOn DEF connect, notify, Steps, AfterBook
  <2> QED
    BY <1>4, <1>10, <2>1 DEF connect, notify
<1>11. ASSUME NEW p \in Payer, gate_amount(p) \/ gate_address(p) \/ gate_derived(p) PROVE Shared' /\ Payers'
  <2>1. UNCHANGED <<policy, clock, disk, moved, report, commands, faults>>
    BY <1>11 DEF gate_amount, gate_address, gate_derived
  <2>2. PICK open, step :
          /\ step \in Steps
          /\ Gate(p, open, step) /\ pc[p] # "idle" /\ step \notin AfterBook
          /\ step \in {"derived", "book"} => pc[p] = "derived"
    <3>1. ASSUME gate_amount(p)
          PROVE  \E open : \E step \in {"ask", "address"} : Gate(p, open, step) /\ pc[p] = "amount"
      BY <3>1 DEF gate_amount
    <3>2. ASSUME gate_address(p) PROVE \E open : Gate(p, open, "build") /\ pc[p] = "address"
      BY <3>2 DEF gate_address
    <3>3. ASSUME gate_derived(p) PROVE \E open : Gate(p, open, "book") /\ pc[p] = "derived"
      BY <3>3 DEF gate_derived
    <3> QED
      BY <1>11, <3>1, <3>2, <3>3 DEF Steps, AfterBook
  <2>3. Payers'
    BY <1>0, <2>1, <2>2, GateFits
  <2> QED
    BY <1>4, <2>1, <2>3
<1>12. ASSUME NEW p \in Payer, told_address(p) PROVE Shared' /\ Payers'
  <2>1. PICK a \in Address : req' = [req EXCEPT ![p] = [req[p] EXCEPT !.to = a]]
    BY <1>12 DEF told_address
  <2> DEFINE r == [req[p] EXCEPT !.to = a]
  <2>2. req[p] \in Request
    BY <1>2, <1>12 DEF told_address, Fits
  <2>3. r \in Request
    BY <2>2 DEF Request
  <2>4. /\ pc' = [pc EXCEPT ![p] = "address"] /\ mem' = [mem EXCEPT ![p] = mem[p]]
        /\ eps' = [eps EXCEPT ![p] = eps[p]] /\ req' = [req EXCEPT ![p] = r]
        /\ UNCHANGED <<disk, report>>
    BY <1>2, <1>12, <2>1 DEF told_address, Goto
  <2> HIDE DEF r
  <2>5. Fits(disk, "address", r, mem[p], eps[p], report[p])
    BY <1>2, <2>3 DEF Fits, Steps, AfterBook
  <2>6. Payers'
    BY <1>0, <2>4, <2>5, OneGoes
  <2> QED
    BY <1>4, <1>12, <2>6 DEF told_address
<1>13. ASSUME NEW p \in Payer, build_signed(p) PROVE Shared' /\ Payers'
  <2>1. PICK fee \in Fee : req' = [req EXCEPT ![p] = [req[p] EXCEPT !.fee = fee]]
    BY <1>13 DEF build_signed
  <2> DEFINE r == [req[p] EXCEPT !.fee = fee]
             step == IF req[p].path = "sp_pay" THEN "derived" ELSE "book"
  <2>2. req[p] \in Request
    BY <1>2, <1>13 DEF build_signed, Fits
  <2>3. r \in Request /\ r.fee \in Fee
    BY <2>2 DEF Request
  <2>4. /\ pc' = [pc EXCEPT ![p] = step] /\ mem' = [mem EXCEPT ![p] = mem[p]]
        /\ eps' = [eps EXCEPT ![p] = eps[p]] /\ req' = [req EXCEPT ![p] = r]
        /\ UNCHANGED <<disk, report>>
    BY <1>2, <1>13, <2>1 DEF build_signed, Goto
  <2>5. step \in {"derived", "book"}
    OBVIOUS
  <2> HIDE DEF r, step
  <2>6. Fits(disk, step, r, mem[p], eps[p], report[p])
    BY <1>2, <2>3, <2>5 DEF Fits, Steps, AfterBook
  <2>7. Payers'
    BY <1>0, <2>4, <2>6, OneGoes
  <2> QED
    BY <1>4, <1>13, <2>7 DEF build_signed
<1>14. ASSUME NEW p \in Payer, build_refused(p) \/ session_error(p) PROVE Shared' /\ Payers'
  <2>1. pc[p] # "idle" /\ Failed(p) /\ UNCHANGED <<disk, report>>
    BY <1>14 DEF build_refused, session_error
  <2>2. Payers'
    BY <1>0, <2>1, FailedFits
  <2> QED
    BY <1>4, <1>14, <2>2 DEF build_refused, session_error
<1>15. ASSUME NEW p \in Payer, append_sent(p) PROVE Shared' /\ Payers'
  <2> DEFINE e == [cmd |-> req[p].cmd, path |-> req[p].path, sats |-> req[p].sats,
                   to |-> req[p].to, fee |-> req[p].fee, at |-> clock]
  <2>1. req[p] \in Request /\ req[p].fee \in Fee
    BY <1>2, <1>15 DEF append_sent, Fits
  <2>2. e \in Sent /\ e.cmd = req[p].cmd
    BY <1>1, <2>1 DEF Request, Sent
  <2>3. /\ disk' = Append(disk, e) /\ mem' = [mem EXCEPT ![p] = Append(mem[p], e)]
        /\ pc' = [pc EXCEPT ![p] = "broadcast"] /\ req' = [req EXCEPT ![p] = req[p]]
        /\ eps' = [eps EXCEPT ![p] = eps[p]] /\ report' = [report EXCEPT ![p] = report[p]]
        /\ UNCHANGED <<policy, clock, moved, commands, faults>>
    BY <1>2, <1>15 DEF append_sent, Goto
  <2> HIDE DEF e
  <2>4. /\ disk' \in Seq(Sent) /\ Len(disk') = Len(disk) + 1 /\ disk'[Len(disk) + 1] = e
        /\ Len(disk) \in Nat
    BY <1>1, <2>2, <2>3
  <2>5. Shared'
    BY <1>1, <2>3, <2>4 DEF Shared
  <2>6. /\ Append(mem[p], e) \in Seq(Sent) /\ Len(Append(mem[p], e)) = Len(mem[p]) + 1
        /\ Len(mem[p]) \in Nat
    BY <1>2, <2>2
  <2>7. \E i \in 1..Len(disk') : disk'[i].cmd = req[p].cmd
    BY <2>2, <2>4
  <2>8. Fits(disk', "broadcast", req[p], Append(mem[p], e), eps[p], report[p])
    BY <1>2, <2>1, <2>4, <2>6, <2>7 DEF Fits, Steps, AfterBook
  <2>9. Payers'
    BY <1>0, <2>2, <2>3, <2>8, OneMoves
  <2> QED
    BY <2>5, <2>9
<1>16. ASSUME NEW p \in Payer, pc[p] = "broadcast" PROVE Booked(p) \in 1..Len(disk)
  BY <1>16, BookedIsOwn DEF AfterBook
<1>17. ASSUME NEW p \in Payer, broadcast(p) PROVE Shared' /\ Payers'
  <2>1. Booked(p) \in 1..Len(disk) /\ pc[p] = "broadcast"
    BY <1>16, <1>17 DEF broadcast
  <2>2. Shared'
    BY <1>1, <1>17, <2>1 DEF broadcast, Shared
  <2> DEFINE step == IF req[p].path = "tunnel" THEN "notify" ELSE "done"
             named == IF req[p].path = "tunnel" THEN report[p] ELSE Booked(p)
  <2>3. /\ pc' = [pc EXCEPT ![p] = step] /\ mem' = [mem EXCEPT ![p] = mem[p]]
        /\ eps' = [eps EXCEPT ![p] = eps[p]] /\ req' = [req EXCEPT ![p] = req[p]]
        /\ report' = [report EXCEPT ![p] = named]
        /\ disk' = disk
    BY <1>2, <1>17 DEF broadcast, Goto
  <2>4. step \in {"notify", "done"} /\ named \in 0..Len(disk)
    BY <1>2, <2>1 DEF Fits
  <2> HIDE DEF step, named
  <2>5. Fits(disk', step, req[p], mem[p], eps[p], named)
    BY <1>2, <2>1, <2>3, <2>4 DEF Fits, Steps, AfterBook
  <2>6. Payers'
    BY <1>0, <2>3, <2>5, OneMoves
  <2> QED
    BY <2>2, <2>6
<1>18. ASSUME NEW p \in Payer, broadcast_error(p) PROVE Shared' /\ Payers'
  <2>1. pc[p] = "broadcast" /\ Failed(p) /\ UNCHANGED <<policy, clock, disk, report, commands>>
    BY <1>18 DEF broadcast_error
  <2>2. moved' \subseteq 1..Len(disk) /\ faults' \in 0..MaxFaults
    BY <1>1, <1>3, <1>16, <1>18, <2>1 DEF broadcast_error
  <2>3. Shared'
    BY <1>1, <2>1, <2>2 DEF Shared
  <2>4. Payers'
    BY <1>0, <2>1, FailedFits
  <2> QED
    BY <2>3, <2>4
<1>19. ASSUME NEW p \in Payer, Crash(p) PROVE Shared' /\ Payers'
  <2>1. /\ pc' = [pc EXCEPT ![p] = "idle"] /\ mem' = [mem EXCEPT ![p] = <<>>]
        /\ eps' = [eps EXCEPT ![p] = 0] /\ req' = [req EXCEPT ![p] = NoReq]
        /\ UNCHANGED <<disk, report>>
    BY <1>19 DEF Crash, Goto
  <2>2. Fits(disk, "idle", NoReq, <<>>, 0, report[p])
    BY <1>1, <1>2 DEF Fits, Steps, AfterBook
  <2>3. Payers'
    BY <1>0, <2>1, <2>2, OneGoes
  <2> QED
    BY <1>4, <1>19, <2>3 DEF Crash
<1>20. ASSUME NEW p \in Payer, readback(p) PROVE Shared' /\ Payers'
  <2>1. /\ pc' = [pc EXCEPT ![p] = "done"] /\ mem' = [mem EXCEPT ![p] = mem[p]]
        /\ eps' = [eps EXCEPT ![p] = eps[p]] /\ req' = [req EXCEPT ![p] = req[p]]
        /\ report' = [report EXCEPT ![p] = Len(disk)] /\ disk' = disk /\ pc[p] = "readback"
    BY <1>2, <1>20 DEF readback, Goto
  <2>2. Fits(disk', "done", req[p], mem[p], eps[p], Len(disk))
    <3>1. Len(disk) \in 0..Len(disk)
      BY <1>1
    <3> QED
      BY <1>2, <2>1, <3>1 DEF Fits, Steps, AfterBook
  <2>3. Payers'
    BY <1>0, <2>1, <2>2, OneMoves
  <2> QED
    BY <1>4, <1>20, <2>3 DEF readback
<1>21. ASSUME UNCHANGED vars PROVE Shared' /\ Payers'
  BY <1>4, <1>5, <1>21 DEF vars
<1>22. Shared' /\ Payers'
  BY <1>6, <1>7, <1>8, <1>9, <1>10, <1>11, <1>12, <1>13, <1>14, <1>15, <1>17, <1>18, <1>19, <1>20, <1>21
     DEF Next, PayNext
<1>23. TypeInv' <=> Shared' /\ Payers'
  BY TypeParts, PTL
<1> QED
  BY <1>22, <1>23

LEMMA TypeAlways == Spec => []TypeInv
BY TypeInit, TypeStep, PTL DEF Spec

\* Every state of the commands, the retries over endpoints and the ledger file is
\* well formed; in particular a broadcast is always about an entry that is in
\* the file (pay::send writes ahead).
THEOREM SpendTypeCorrect == Spec => []TypeOK
<1>1. TypeInv => TypeOK
  BY DEF TypeInv
<1> QED
  BY <1>1, TypeAlways, PTL

-----------------------------------------------------------------------------
(* What a step does to one payer.                                          *)

Stays(q) == /\ pc'[q] = pc[q] /\ req'[q] = req[q]
            /\ eps'[q] = eps[q] /\ report'[q] = report[q]

\* The next endpoint of a tunnel payment.
Retries(q) == /\ pc[q] # "idle" /\ pc'[q] = "open" /\ req'[q] = req[q]
              /\ req[q].path = "tunnel" /\ eps[q] > 0

\* A gate that opened, or a step without one.
Advances(q) ==
    /\ \/ pc[q] = "open" /\ pc'[q] \in {"connect", "amount"}
       \/ pc[q] = "connect" /\ pc'[q] = "amount"
       \/ /\ pc[q] = "amount" /\ pc'[q] \in {"ask", "address"}
          /\ policy.max_payment # NoLimit => req[q].sats <= policy.max_payment
       \/ pc[q] = "address" /\ pc'[q] = "build" /\ check_address(req[q].to)
       \/ pc[q] = "derived" /\ pc'[q] = "book"
       \/ pc[q] = "notify" /\ pc'[q] = "readback"
    /\ req'[q] = req[q] /\ eps'[q] = eps[q]

LEMMA OthersStay ==
    ASSUME TypeInv, NEW p \in Payer, NEW q \in Payer, p # q, PayNext(p)
    PROVE  Stays(q)
<1>0. /\ pc \in [Payer -> Steps] /\ req \in [Payer -> Request \cup {NoReq}]
      /\ eps \in [Payer -> 0..Endpoints] /\ report \in [Payer -> Nat]
  BY TypeParts DEF Payers
<1>1. /\ \E x : pc' = [pc EXCEPT ![p] = x]
      /\ req' = req \/ \E x : req' = [req EXCEPT ![p] = x]
      /\ eps' = eps \/ \E x : eps' = [eps EXCEPT ![p] = x]
      /\ report' = report \/ \E x : report' = [report EXCEPT ![p] = x]
  <2>1. ASSUME Failed(p)
        PROVE  /\ \E x : pc' = [pc EXCEPT ![p] = x]
               /\ req' = req \/ \E x : req' = [req EXCEPT ![p] = x]
               /\ eps' = eps \/ \E x : eps' = [eps EXCEPT ![p] = x]
    BY <2>1 DEF Failed, Goto
  <2>2. ASSUME NEW open, NEW step, Gate(p, open, step)
        PROVE  /\ \E x : pc' = [pc EXCEPT ![p] = x]
               /\ req' = req \/ \E x : req' = [req EXCEPT ![p] = x]
               /\ eps' = eps \/ \E x : eps' = [eps EXCEPT ![p] = x]
    BY <2>1, <2>2 DEF Gate, Goto
  <2>3. CASE gate_amount(p) \/ gate_address(p) \/ gate_derived(p)
    <3>1. (\E open, step : Gate(p, open, step)) /\ UNCHANGED report
      BY <2>3 DEF gate_amount, gate_address, gate_derived
    <3> QED
      BY <2>2, <3>1
  <2>4. CASE build_refused(p) \/ broadcast_error(p) \/ session_error(p)
    BY <2>1, <2>4 DEF build_refused, broadcast_error, session_error
  <2>5. CASE command(p)
    BY <2>5 DEF command, Goto
  <2>6. CASE open_ledger(p) \/ connect(p) \/ told_address(p) \/ build_signed(p)
    BY <2>6 DEF open_ledger, connect, told_address, build_signed, Goto
  <2>7. CASE append_sent(p) \/ broadcast(p) \/ notify(p) \/ Crash(p) \/ readback(p)
    BY <2>7 DEF append_sent, broadcast, notify, Crash, readback, Goto
  <2> QED
    BY <2>3, <2>4, <2>5, <2>6, <2>7 DEF PayNext
<1> QED
  BY <1>0, <1>1 DEF Stays

LEMMA PayerStep ==
    ASSUME TypeInv, [Next]_vars, NEW q \in Payer
    PROVE  \/ Stays(q) \/ pc'[q] = "idle" \/ Retries(q) \/ Advances(q)
           \/ command(q) \/ told_address(q) \/ build_signed(q) \/ append_sent(q)
           \/ broadcast(q) \/ readback(q)
<1>0. /\ pc \in [Payer -> Steps] /\ req \in [Payer -> Request \cup {NoReq}]
      /\ eps \in [Payer -> 0..Endpoints]
  BY TypeParts DEF Payers
<1>1. CASE Tick \/ rebroadcast \/ UNCHANGED vars
  BY <1>1 DEF Tick, rebroadcast, vars, Stays
<1>2. ASSUME NEW p \in Payer, p # q, PayNext(p) PROVE Stays(q)
  BY <1>2, OthersStay
<1>3. ASSUME Failed(q), pc[q] # "idle" PROVE pc'[q] = "idle" \/ Retries(q)
  BY <1>0, <1>3 DEF Failed, Goto, Retries
<1>4. ASSUME NEW open, NEW step, Gate(q, open, step), pc[q] # "idle"
      PROVE  \/ pc'[q] = "idle" \/ Retries(q)
             \/ open /\ pc'[q] = step /\ req'[q] = req[q] /\ eps'[q] = eps[q]
  BY <1>0, <1>3, <1>4 DEF Gate, Goto
<1>5. CASE open_ledger(q) \/ connect(q) \/ notify(q)
  BY <1>0, <1>5 DEF open_ledger, connect, notify, Goto, Advances
<1>6. CASE gate_amount(q)
  <2>1. PICK open, step : /\ Gate(q, open, step) /\ pc[q] = "amount" /\ step \in {"ask", "address"}
                          /\ open => (policy.max_payment # NoLimit => req[q].sats <= policy.max_payment)
    BY <1>6 DEF gate_amount, check_amount
  <2> QED
    BY <1>4, <2>1 DEF Advances
<1>7. CASE gate_address(q)
  <2>1. PICK open : Gate(q, open, "build") /\ pc[q] = "address" /\ (open => check_address(req[q].to))
    BY <1>7 DEF gate_address
  <2> QED
    BY <1>4, <2>1 DEF Advances
<1>8. CASE gate_derived(q)
  <2>1. PICK open : Gate(q, open, "book") /\ pc[q] = "derived"
    BY <1>8 DEF gate_derived
  <2> QED
    BY <1>4, <2>1 DEF Advances
<1>9. CASE build_refused(q) \/ broadcast_error(q) \/ session_error(q)
  BY <1>3, <1>9 DEF build_refused, broadcast_error, session_error
<1>10. CASE Crash(q)
  BY <1>0, <1>10 DEF Crash, Goto
<1> QED
  BY <1>1, <1>2, <1>5, <1>6, <1>7, <1>8, <1>9, <1>10 DEF Next, PayNext

\* The policy is never written by a payment, and only append_sent writes the
\* ledger.
LEMMA FileStep ==
    ASSUME TypeInv, [Next]_vars
    PROVE  /\ policy' = policy
           /\ \/ disk' = disk
              \/ \E p \in Payer : append_sent(p)
<1>1. CASE Tick \/ rebroadcast \/ UNCHANGED vars
  BY <1>1 DEF Tick, rebroadcast, vars
<1>2. ASSUME NEW p \in Payer, PayNext(p), ~append_sent(p) PROVE policy' = policy /\ disk' = disk
  BY <1>2 DEF PayNext, command, open_ledger, connect, gate_amount, told_address, gate_address,
     build_signed, build_refused, gate_derived, broadcast, broadcast_error, notify, session_error,
     Crash, readback
<1>3. ASSUME NEW p \in Payer, append_sent(p) PROVE policy' = policy
  BY <1>3 DEF append_sent
<1> QED
  BY <1>1, <1>2, <1>3 DEF Next

\* The entry of append_sent.
LEMMA AppendFacts ==
    ASSUME TypeInv, NEW p \in Payer, append_sent(p)
    PROVE  /\ Len(disk) \in Nat /\ Len(disk') = Len(disk) + 1
           /\ \A i \in 1..Len(disk) : disk'[i] = disk[i]
           /\ disk'[Len(disk) + 1].cmd = req[p].cmd /\ disk'[Len(disk) + 1].path = req[p].path
           /\ disk'[Len(disk) + 1].sats = req[p].sats /\ disk'[Len(disk) + 1].to = req[p].to
           /\ disk'[Len(disk) + 1].fee = req[p].fee /\ disk'[Len(disk) + 1].at = clock
           /\ pc[p] = "book" /\ pc'[p] = "broadcast" /\ UNCHANGED <<req, eps, report, commands>>
<1> DEFINE e == [cmd |-> req[p].cmd, path |-> req[p].path, sats |-> req[p].sats,
                 to |-> req[p].to, fee |-> req[p].fee, at |-> clock]
<1>0. /\ disk \in Seq(Sent) /\ clock \in 0..MaxClock /\ req[p].fee \in Fee /\ req[p] \in Request
      /\ pc \in [Payer -> Steps]
  BY TypeParts DEF append_sent, TypeInv, TypeOK, Payers
<1>1. e \in Sent
  BY <1>0 DEF Request, Sent
<1>2. disk' = Append(disk, e) /\ pc[p] = "book" /\ pc'[p] = "broadcast"
      /\ UNCHANGED <<req, eps, report, commands>>
  BY <1>0 DEF append_sent, Goto
<1>3. /\ e.cmd = req[p].cmd /\ e.path = req[p].path /\ e.sats = req[p].sats /\ e.to = req[p].to
      /\ e.fee = req[p].fee /\ e.at = clock
  OBVIOUS
<1> HIDE DEF e
<1>4. /\ Len(disk) \in Nat /\ Len(disk') = Len(disk) + 1 /\ disk'[Len(disk) + 1] = e
      /\ \A i \in 1..Len(disk) : disk'[i] = disk[i]
  BY <1>0, <1>1, <1>2
<1> QED
  BY <1>2, <1>3, <1>4

-----------------------------------------------------------------------------
(* Every payment passed every gate.                                        *)

\* What the gates a payer has passed have established.
Passed(p) ==
    /\ pc[p] \in {"ask", "address", "build", "derived", "book"} =>
         (policy.max_payment # NoLimit => req[p].sats <= policy.max_payment)
    /\ pc[p] \in {"build", "derived", "book"} => check_address(req[p].to)
    /\ pc[p] \in {"derived", "book"} => check_fee(req[p].fee) /\ ensure_mainnet_capped

GateInv == PolicyHolds /\ \A p \in Payer : Passed(p)

LEMMA GateStep ==
    ASSUME TypeInv, GateInv, [Next]_vars
    PROVE  GateInv'
<1>0. /\ pc \in [Payer -> Steps] /\ req \in [Payer -> Request \cup {NoReq}] /\ policy' = policy
      /\ \A p \in Payer : pc[p] # "idle" => req[p] \in Request
  BY TypeParts, FileStep DEF Payers, TypeInv
<1> DEFINE Cap(sats) == policy.max_payment # NoLimit => sats <= policy.max_payment
           Goal(q) ==
             /\ pc'[q] \in {"ask", "address", "build", "derived", "book"} => Cap(req'[q].sats)
             /\ pc'[q] \in {"build", "derived", "book"} => check_address(req'[q].to)
             /\ pc'[q] \in {"derived", "book"} => check_fee(req'[q].fee) /\ ensure_mainnet_capped
<1>1. ASSUME NEW q \in Payer PROVE Goal(q)
  <2>0. /\ pc[q] \in {"ask", "address", "build", "derived", "book"} => Cap(req[q].sats)
        /\ pc[q] \in {"build", "derived", "book"} => check_address(req[q].to)
        /\ pc[q] \in {"derived", "book"} => check_fee(req[q].fee) /\ ensure_mainnet_capped
    BY DEF GateInv, Passed
  <2> HIDE DEF Cap
  <2>1. ASSUME Stays(q) PROVE Goal(q)
    BY <2>0, <2>1 DEF Stays
  <2>2. ASSUME Advances(q) PROVE Goal(q)
    <3>1. pc[q] = "amount" => Cap(req[q].sats)
      BY <2>2 DEF Advances, Cap
    <3> QED
      BY <2>0, <2>2, <3>1 DEF Advances
  <2>3. ASSUME told_address(q) PROVE Goal(q)
    <3>1. PICK a \in Address : req'[q] = [req[q] EXCEPT !.to = a]
      BY <1>0, <2>3 DEF told_address
    <3>2. pc[q] = "ask" /\ pc'[q] = "address" /\ req[q] \in Request
      BY <1>0, <2>3 DEF told_address, Goto
    <3>3. req'[q].sats = req[q].sats
      BY <3>1, <3>2 DEF Request
    <3> QED
      BY <2>0, <3>2, <3>3
  <2>4. ASSUME build_signed(q) PROVE Goal(q)
    <3>1. PICK fee \in Fee : check_fee(fee) /\ req'[q] = [req[q] EXCEPT !.fee = fee]
      BY <1>0, <2>4 DEF build_signed
    <3>2. pc[q] = "build" /\ pc'[q] \in {"derived", "book"} /\ req[q] \in Request
          /\ ensure_mainnet_capped
      BY <1>0, <2>4 DEF build_signed, Goto
    <3>3. req'[q].sats = req[q].sats /\ req'[q].to = req[q].to /\ req'[q].fee = fee
      BY <3>1, <3>2 DEF Request
    <3> QED
      BY <2>0, <3>1, <3>2, <3>3
  <2>5. /\ append_sent(q) => pc'[q] = "broadcast"
        /\ broadcast(q) => pc'[q] \in {"notify", "done"}
        /\ readback(q) => pc'[q] = "done"
        /\ command(q) => pc'[q] = "open"
        /\ Retries(q) => pc'[q] = "open"
    BY <1>0 DEF append_sent, broadcast, readback, command, Retries, Goto
  <2>6. pc'[q] \in {"idle", "open", "broadcast", "notify", "done"} => Goal(q)
    OBVIOUS
  <2> HIDE DEF Goal
  <2> QED
    BY PayerStep, <2>1, <2>2, <2>3, <2>4, <2>5, <2>6
<1>2. \A p \in Payer : Passed(p)'
  BY <1>0, <1>1 DEF Passed, check_address, check_fee, ensure_mainnet_capped
<1>3. PolicyHolds'
  <2>1. CASE disk' = disk
    BY <1>0, <2>1 DEF GateInv, PolicyHolds
  <2>2. ASSUME NEW p \in Payer, append_sent(p) PROVE PolicyHolds'
    <3>1. /\ Len(disk) \in Nat /\ Len(disk') = Len(disk) + 1
          /\ \A i \in 1..Len(disk) : disk'[i] = disk[i]
          /\ disk'[Len(disk) + 1].sats = req[p].sats /\ disk'[Len(disk) + 1].to = req[p].to
          /\ disk'[Len(disk) + 1].fee = req[p].fee /\ pc[p] = "book"
      BY <2>2, AppendFacts
    <3>2. /\ Cap(req[p].sats) /\ check_address(req[p].to) /\ check_fee(req[p].fee)
          /\ ensure_mainnet_capped
      BY <3>1 DEF GateInv, Passed
    <3>3. ASSUME NEW i \in 1..Len(disk')
          PROVE  /\ Cap(disk'[i].sats) /\ disk'[i].to \notin policy.blocked
                 /\ policy.max_fee # NoLimit => disk'[i].fee <= policy.max_fee
                 /\ Mainnet => /\ policy.max_fee # NoLimit
                               /\ policy.max_payment # NoLimit \/ policy.daily_limit # NoLimit
      <4>1. CASE i \in 1..Len(disk)
        BY <3>1, <4>1 DEF GateInv, PolicyHolds
      <4>2. CASE i = Len(disk) + 1
        BY <3>1, <3>2, <4>2 DEF check_address, check_fee, ensure_mainnet_capped
      <4> QED
        BY <3>1, <4>1, <4>2
    <3> QED
      BY <1>0, <3>3 DEF PolicyHolds
  <2> QED
    BY <2>1, <2>2, FileStep
<1> QED
  BY <1>2, <1>3 DEF GateInv

\* Every entry of the ledger, by whatever path, keeps the per-payment cap, the
\* blocklist and the fee cap, and on mainnet was made under a policy with caps
\* (Policy::check_amount, Policy::check_address, policy::ensure_mainnet_capped,
\* chain::build_signed), whatever payers run at the same time and however often
\* endpoints are retried.
THEOREM PolicyAlwaysHolds == Spec => []PolicyHolds
<1>1. Init => GateInv
  BY DEF Init, GateInv, PolicyHolds, Passed
<1>2. TypeInv /\ GateInv /\ [Next]_vars => GateInv'
  BY GateStep
<1>3. GateInv => PolicyHolds
  BY DEF GateInv
<1> QED
  BY <1>1, <1>2, <1>3, TypeAlways, PTL DEF Spec

-----------------------------------------------------------------------------
(* A command pays once, if it has one endpoint to try.                     *)

\* An entry keeps its place in a file that only grows.
LEMMA Grows ==
    ASSUME TypeInv, [Next]_vars
    PROVE  /\ Len(disk) \in Nat
           /\ \A i \in 1..Len(disk) : i \in 1..Len(disk') /\ disk'[i] = disk[i]
<1>1. Len(disk) \in Nat
  BY DEF TypeInv, TypeOK
<1>2. CASE disk' = disk
  BY <1>1, <1>2
<1>3. ASSUME NEW p \in Payer, append_sent(p)
      PROVE  \A i \in 1..Len(disk) : i \in 1..Len(disk') /\ disk'[i] = disk[i]
  BY <1>1, <1>3, AppendFacts
<1> QED
  BY <1>1, <1>2, <1>3, FileStep

\* The command has no endpoint to move on to.
Single(path) == path # "tunnel" \/ Endpoints = 1

\* A payer that has not booked yet has no entry, and no two commands have the
\* same number.
OnceInv ==
    /\ \A i \in 1..Len(disk) : disk[i].cmd <= commands
    /\ \A i, j \in 1..Len(disk) : disk[i].cmd = disk[j].cmd /\ Single(disk[i].path) => i = j
    /\ \A p \in Payer : pc[p] # "idle" =>
        /\ req[p].cmd <= commands
        /\ \A q \in Payer : pc[q] # "idle" /\ req[q].cmd = req[p].cmd => q = p
        /\ \A i \in 1..Len(disk) : disk[i].cmd = req[p].cmd => disk[i].path = req[p].path
        /\ Single(req[p].path) => eps[p] = 0
        /\ Single(req[p].path) /\ pc[p] \notin AfterBook \cup {"done"} =>
             \A i \in 1..Len(disk) : disk[i].cmd # req[p].cmd

\* A payer that runs a command has just been given it, with a new number, or goes
\* on with the one it had.
LEMMA CommandStep ==
    ASSUME TypeInv, [Next]_vars, NEW q \in Payer, pc'[q] # "idle"
    PROVE  \/ /\ command(q) /\ req'[q].cmd = commands + 1 /\ pc'[q] = "open" /\ disk' = disk
              /\ Single(req'[q].path) => eps'[q] = 0
           \/ /\ pc[q] # "idle" /\ req'[q].cmd = req[q].cmd /\ req'[q].path = req[q].path
              /\ eps'[q] = eps[q] \/ ~Single(req[q].path) \/ eps[q] > 0
              /\ pc'[q] \notin AfterBook \cup {"done"} => pc[q] \notin AfterBook \cup {"done"} \/ eps[q] > 0
<1>0. /\ pc \in [Payer -> Steps] /\ req \in [Payer -> Request \cup {NoReq}]
      /\ eps \in [Payer -> 0..Endpoints] /\ report \in [Payer -> Nat]
      /\ \A p \in Payer : pc[p] # "idle" => req[p] \in Request
  BY TypeParts DEF Payers, TypeInv
<1> DEFINE New == /\ command(q) /\ req'[q].cmd = commands + 1 /\ pc'[q] = "open" /\ disk' = disk
                  /\ Single(req'[q].path) => eps'[q] = 0
           Old == /\ pc[q] # "idle" /\ req'[q].cmd = req[q].cmd /\ req'[q].path = req[q].path
                  /\ eps'[q] = eps[q] \/ ~Single(req[q].path) \/ eps[q] > 0
                  /\ pc'[q] \notin AfterBook \cup {"done"} => pc[q] \notin AfterBook \cup {"done"} \/ eps[q] > 0
<1>1. ASSUME Stays(q) PROVE Old
  BY <1>1 DEF Stays
<1>2. ASSUME Retries(q) PROVE Old
  BY <1>2 DEF Retries
<1>3. ASSUME Advances(q) PROVE Old
  BY <1>3 DEF Advances, AfterBook
<1>4. ASSUME command(q) PROVE New
  <2>1. PICK path \in Path, sats \in Amount, to \in Address, n \in {1, Endpoints} :
          /\ req' = [req EXCEPT ![q] = [cmd |-> commands + 1, path |-> path, sats |-> sats,
                                        to |-> to, fee |-> 0]]
          /\ eps' = [eps EXCEPT ![q] = IF path = "tunnel" THEN n - 1 ELSE 0]
    BY <1>4 DEF command
  <2>2. req'[q].cmd = commands + 1 /\ req'[q].path = path /\ (Single(path) => eps'[q] = 0)
    BY <1>0, <2>1 DEF Single
  <2> QED
    BY <1>0, <1>4, <2>2 DEF command, Goto
<1>5. ASSUME told_address(q) PROVE Old
  <2>1. PICK a \in Address : req'[q] = [req[q] EXCEPT !.to = a]
    BY <1>0, <1>5 DEF told_address
  <2>2. pc[q] = "ask" /\ eps' = eps /\ req[q] \in Request
    BY <1>0, <1>5 DEF told_address
  <2>3. req'[q].cmd = req[q].cmd /\ req'[q].path = req[q].path
    BY <2>1, <2>2 DEF Request
  <2> QED
    BY <2>2, <2>3 DEF AfterBook
<1>6. ASSUME build_signed(q) PROVE Old
  <2>1. PICK fee \in Fee : req'[q] = [req[q] EXCEPT !.fee = fee]
    BY <1>0, <1>6 DEF build_signed
  <2>2. pc[q] = "build" /\ eps' = eps /\ req[q] \in Request
    BY <1>0, <1>6 DEF build_signed
  <2>3. req'[q].cmd = req[q].cmd /\ req'[q].path = req[q].path
    BY <2>1, <2>2 DEF Request
  <2> QED
    BY <2>2, <2>3 DEF AfterBook
<1>7. ASSUME append_sent(q) \/ broadcast(q) \/ readback(q) PROVE Old
  BY <1>0, <1>7 DEF append_sent, broadcast, readback, Goto, AfterBook
<1> HIDE DEF New, Old
<1>8. New \/ Old
  BY PayerStep, <1>1, <1>2, <1>3, <1>4, <1>5, <1>6, <1>7
<1> QED
  BY <1>8 DEF New, Old

LEMMA OnceStep ==
    ASSUME TypeInv, OnceInv, [Next]_vars
    PROVE  OnceInv'
<1>0. /\ pc \in [Payer -> Steps] /\ disk \in Seq(Sent) /\ commands \in Nat /\ Len(disk) \in Nat
      /\ \A p \in Payer : pc[p] # "idle" => req[p] \in Request
  BY TypeParts, ConstAssumption DEF Payers, TypeInv, TypeOK
<1>1. /\ \A i \in 1..Len(disk) : disk[i].cmd \in Nat
      /\ \A p \in Payer : pc[p] # "idle" => req[p].cmd \in Nat
  <2>1. \A e \in Sent : e.cmd \in Nat
    BY ConstAssumption DEF Sent
  <2>2. \A r \in Request : r.cmd \in Nat
    BY ConstAssumption DEF Request
  <2> QED
    BY <1>0, <2>1, <2>2
<1>2. /\ commands' = commands \/ commands' = commands + 1
      /\ \A p \in Payer : command(p) => commands' = commands + 1
  BY DEF vars, Next, PayNext, Tick, rebroadcast, command, open_ledger, connect, gate_amount, told_address,
     gate_address, build_signed, build_refused, gate_derived, append_sent, broadcast, broadcast_error,
     notify, session_error, Crash, readback
<1>3. \A i \in 1..Len(disk') :
        \/ i \in 1..Len(disk) /\ disk'[i] = disk[i]
        \/ /\ i = Len(disk) + 1 /\ disk' # disk
           /\ \E r \in Payer : /\ append_sent(r) /\ disk'[i].cmd = req[r].cmd
                               /\ disk'[i].path = req[r].path /\ pc[r] = "book" /\ pc'[r] = "broadcast"
  <2>1. CASE disk' = disk
    BY <2>1
  <2>2. ASSUME NEW r \in Payer, append_sent(r), NEW i \in 1..Len(disk')
        PROVE  \/ i \in 1..Len(disk) /\ disk'[i] = disk[i]
               \/ /\ i = Len(disk) + 1 /\ disk' # disk
                  /\ disk'[i].cmd = req[r].cmd /\ disk'[i].path = req[r].path
                  /\ pc[r] = "book" /\ pc'[r] = "broadcast"
    BY <2>2, AppendFacts
  <2> QED
    BY <2>1, <2>2, FileStep
<1>4. ASSUME NEW r \in Payer, pc[r] = "book"
      PROVE  /\ req[r].cmd \in Nat /\ req[r].cmd <= commands
             /\ \A q \in Payer : pc[q] # "idle" /\ req[q].cmd = req[r].cmd => q = r
             /\ \A i \in 1..Len(disk) : disk[i].cmd = req[r].cmd => disk[i].path = req[r].path
             /\ Single(req[r].path) => \A i \in 1..Len(disk) : disk[i].cmd # req[r].cmd
  BY <1>1, <1>4 DEF OnceInv, AfterBook
<1>5. \A i \in 1..Len(disk') : disk'[i].cmd <= commands'
  <2>1. \A i \in 1..Len(disk) : disk[i].cmd <= commands
    BY DEF OnceInv
  <2> QED
    BY <1>0, <1>1, <1>2, <1>3, <1>4, <2>1
<1>6. ASSUME NEW i \in 1..Len(disk'), NEW j \in 1..Len(disk'), disk'[i].cmd = disk'[j].cmd,
             Single(disk'[i].path)
      PROVE  i = j
  <2>1. CASE i \in 1..Len(disk) /\ j \in 1..Len(disk)
    <3>1. disk'[i] = disk[i] /\ disk'[j] = disk[j]
      BY <1>0, <2>1, Grows
    <3> QED
      BY <1>6, <2>1, <3>1 DEF OnceInv
  <2>2. CASE i = Len(disk) + 1 /\ j \in 1..Len(disk)
    <3>1. disk'[j] = disk[j] /\ i \notin 1..Len(disk)
      BY <1>0, <2>2, Grows
    <3>2. PICK r \in Payer : pc[r] = "book" /\ disk'[i].cmd = req[r].cmd /\ disk'[i].path = req[r].path
      BY <1>3, <3>1
    <3> QED
      BY <1>4, <1>6, <2>2, <3>1, <3>2
  <2>3. CASE j = Len(disk) + 1 /\ i \in 1..Len(disk)
    <3>1. disk'[i] = disk[i] /\ j \notin 1..Len(disk)
      BY <1>0, <2>3, Grows
    <3>2. PICK r \in Payer : pc[r] = "book" /\ disk'[j].cmd = req[r].cmd
      BY <1>3, <3>1
    <3>3. disk[i].path = req[r].path
      BY <1>4, <1>6, <2>3, <3>1, <3>2
    <3> QED
      BY <1>4, <1>6, <2>3, <3>1, <3>2, <3>3
  <2> QED
    BY <1>3, <2>1, <2>2, <2>3
<1>7. ASSUME NEW p \in Payer, pc'[p] # "idle"
      PROVE  /\ req'[p].cmd <= commands'
             /\ \A q \in Payer : pc'[q] # "idle" /\ req'[q].cmd = req'[p].cmd => q = p
             /\ \A i \in 1..Len(disk') : disk'[i].cmd = req'[p].cmd => disk'[i].path = req'[p].path
             /\ Single(req'[p].path) => eps'[p] = 0
             /\ Single(req'[p].path) /\ pc'[p] \notin AfterBook \cup {"done"} =>
                  \A i \in 1..Len(disk') : disk'[i].cmd # req'[p].cmd
  <2> DEFINE New(q) == command(q) /\ req'[q].cmd = commands + 1 /\ pc'[q] = "open" /\ disk' = disk
             Old(q) == pc[q] # "idle" /\ req'[q].cmd = req[q].cmd /\ req'[q].path = req[q].path
  <2>1. \A q \in Payer : pc'[q] # "idle" => New(q) \/ Old(q)
    BY CommandStep
  <2>2. ASSUME NEW q \in Payer, New(p), New(q) PROVE q = p
    <3>1. p # q => Stays(q)
      BY <2>2, OthersStay DEF PayNext
    <3> QED
      BY <2>2, <3>1 DEF Stays, command
  <2>3. \A q \in Payer : Old(q) => req'[q].cmd \in Nat /\ req'[q].cmd <= commands
    BY <1>1 DEF OnceInv
  <2>4. req'[p].cmd <= commands'
    <3> HIDE DEF New, Old
    <3>1. New(p) => req'[p].cmd = commands' /\ commands' \in Nat
      BY <1>0, <1>2 DEF New
    <3> QED
      BY <1>0, <1>2, <1>7, <2>1, <2>3, <3>1
  <2>5. ASSUME NEW q \in Payer, pc'[q] # "idle", req'[q].cmd = req'[p].cmd PROVE q = p
    <3>1. CASE Old(p) /\ Old(q)
      BY <2>5, <3>1 DEF OnceInv
    <3>2. (Old(p) /\ New(q)) \/ (New(p) /\ Old(q)) => FALSE
      BY <1>0, <2>3, <2>5
    <3> QED
      BY <1>7, <2>1, <2>2, <2>5, <3>1, <3>2
  <2>6. \A i \in 1..Len(disk) : disk[i].cmd \in Nat /\ disk[i].cmd # commands + 1
    <3>1. \A i \in 1..Len(disk) : disk[i].cmd <= commands
      BY DEF OnceInv
    <3> QED
      BY <1>0, <1>1, <3>1
  <2>7. ASSUME NEW i \in 1..Len(disk'), disk'[i].cmd = req'[p].cmd
        PROVE  /\ disk'[i].path = req'[p].path
               /\ Single(req'[p].path) => pc'[p] \in AfterBook \cup {"done"}
    <3>1. Old(p)
      <4>1. New(p) => FALSE
        BY <1>3, <2>6, <2>7
      <4> QED
        BY <1>7, <2>1, <4>1
    <3>2. CASE i \in 1..Len(disk) /\ disk'[i] = disk[i]
      <4>1. /\ disk[i].path = req[p].path /\ (Single(req[p].path) => eps[p] = 0)
            /\ Single(req[p].path) => pc[p] \in AfterBook \cup {"done"}
        BY <2>7, <3>1, <3>2 DEF OnceInv
      <4>2. pc'[p] \notin AfterBook \cup {"done"} =>
              pc[p] \notin AfterBook \cup {"done"} \/ eps[p] > 0 \/ New(p)
        BY <1>7, CommandStep
      <4>3. ~New(p)
        BY <1>3, <2>6, <2>7
      <4> QED
        BY <3>1, <3>2, <4>1, <4>2, <4>3
    <3>3. ASSUME NEW r \in Payer, pc[r] = "book", pc'[r] = "broadcast", disk'[i].cmd = req[r].cmd,
                 disk'[i].path = req[r].path
          PROVE  /\ disk'[i].path = req'[p].path /\ pc'[p] \in AfterBook \cup {"done"}
      <4>1. p = r
        BY <1>4, <2>7, <3>1, <3>3
      <4> QED
        BY <3>1, <3>3, <4>1 DEF AfterBook
    <3> QED
      BY <1>3, <3>2, <3>3
  <2>8. Single(req'[p].path) => eps'[p] = 0
    <3>1. \/ Single(req'[p].path) => eps'[p] = 0
          \/ /\ Old(p) /\ (eps'[p] = eps[p] \/ ~Single(req[p].path) \/ eps[p] > 0)
      BY <1>7, CommandStep
    <3>2. Old(p) => (Single(req[p].path) => eps[p] = 0)
      BY DEF OnceInv
    <3> QED
      BY <3>1, <3>2
  <2> HIDE DEF New, Old
  <2> QED
    BY <2>4, <2>5, <2>7, <2>8
<1> QED
  BY <1>5, <1>6, <1>7 DEF OnceInv

LEMMA OnceAlways == Spec => []OnceInv
<1>1. Init => OnceInv
  BY DEF Init, OnceInv
<1>2. TypeInv /\ OnceInv /\ [Next]_vars => OnceInv'
  BY OnceStep
<1> QED
  BY <1>1, <1>2, TypeAlways, PTL DEF Spec

\* A send or a silent payment is booked once, whatever errors, crashes, retries
\* and other payers there are.
DirectPaidOnce ==
    \A i, j \in 1..Len(disk) :
        disk[i].path # "tunnel" /\ disk[i].cmd = disk[j].cmd => i = j

\* mcp::send_payment and sp_pay book one payment per call: only the loop over
\* endpoints of a tunnel payment can book two.
THEOREM DirectPaidOnceHolds == Spec => []DirectPaidOnce
<1>1. OnceInv => DirectPaidOnce
  BY DEF OnceInv, DirectPaidOnce, Single
<1> QED
  BY <1>1, OnceAlways, PTL

\* A card lists one endpoint, or the link is a direct one (net::run_payer).
OneEndpoint == Endpoints = 1

\* With one endpoint to try, one command moves money at most once, on every path
\* and next to any other payers: the loop of mcp::pay_peer over further endpoints
\* is the only way to pay twice.
THEOREM PaidOnceHolds ==
    ASSUME OneEndpoint
    PROVE  Spec => []PaidOnce
<1>1. TypeInv /\ OnceInv => PaidOnce
  BY DEF OneEndpoint, TypeInv, TypeOK, OnceInv, PaidOnce, Single
<1> QED
  BY <1>1, OnceAlways, TypeAlways, PTL

-----------------------------------------------------------------------------
(* Sums.                                                                   *)

\* Finite is finite in the instance too.
LEMMA Finite == \A S : IsFiniteSet(S) => Positions!IsFiniteSet(S)
BY DEF IsFiniteSet, Positions!IsFiniteSet

\* The total over some entries is the sum of their amounts, by the iteration of
\* MapThenSumSet.
LEMMA TotalIs ==
    ASSUME NEW es, NEW S, IsFiniteSet(S)
    PROVE  \E it : Positions!AddsUp(it, [i \in S |-> es[i].sats], S) /\ Total(es, S) = it[S]
<1> DEFINE v == [i \in S |-> es[i].sats]
           Iter(it) == it = [s \in SUBSET S |-> IF s = {} THEN 0
                                ELSE es[CHOOSE x \in s : TRUE].sats
                                     + it[s \ {CHOOSE x \in s : TRUE}]]
<1>1. Total(es, S) = (CHOOSE it : Iter(it))[S]
  BY DEF Total, MapThenSumSet, MapThenFoldSet
<1>2. ASSUME NEW it PROVE Positions!AddsUp(it, v, S) <=> Iter(it)
  BY DEF Positions!AddsUp
<1>3. PICK it : Positions!AddsUp(it, v, S)
  BY Finite, Positions!SumExists
<1>4. Iter(CHOOSE jt : Iter(jt))
  <2>1. Iter(it)
    BY <1>2, <1>3
  <2> HIDE DEF Iter
  <2> QED
    BY <2>1
<1> QED
  BY <1>1, <1>2, <1>4

\* More entries, a larger total.
LEMMA TotalMono ==
    ASSUME NEW es, NEW S, IsFiniteSet(S), \A i \in S : es[i].sats \in Nat, NEW R \in SUBSET S
    PROVE  Total(es, R) \in Nat /\ Total(es, S) \in Nat /\ Total(es, R) <= Total(es, S)
<1> DEFINE v == [i \in S |-> es[i].sats]
           w == [i \in R |-> es[i].sats]
<1>1. PICK it : Positions!AddsUp(it, v, S) /\ Total(es, S) = it[S]
  BY TotalIs
<1>2. IsFiniteSet(R)
  BY FS_Subset
<1>3. PICK jt : Positions!AddsUp(jt, w, R) /\ Total(es, R) = jt[R]
  BY <1>2, TotalIs
<1>4. (\A i \in R : v[i] = w[i]) /\ \A i \in S : v[i] \in Nat
  OBVIOUS
<1> HIDE DEF v, w
<1>5. it[R] = jt[R]
  BY <1>1, <1>3, <1>4, Finite, Positions!SumSame
<1>6. it[R] <= it[S]
  BY <1>1, <1>4, Finite, Positions!SumMono
<1>7. it[R] \in Nat /\ it[S] \in Nat
  BY <1>1, <1>4, Finite, Positions!SumFacts
<1> QED
  BY <1>1, <1>3, <1>5, <1>6, <1>7

\* A total counts only the entries at its positions.
LEMMA TotalSame ==
    ASSUME NEW es, NEW fs, NEW S, IsFiniteSet(S), \A i \in S : es[i] = fs[i]
    PROVE  Total(es, S) = Total(fs, S)
<1> DEFINE v == [i \in S |-> es[i].sats]
           w == [i \in S |-> fs[i].sats]
<1>1. PICK it : Positions!AddsUp(it, v, S) /\ Total(es, S) = it[S]
  BY TotalIs
<1>2. PICK jt : Positions!AddsUp(jt, w, S) /\ Total(fs, S) = jt[S]
  BY TotalIs
<1>3. \A i \in S : v[i] = w[i]
  OBVIOUS
<1> HIDE DEF v, w
<1>4. it[S] = jt[S]
  BY <1>1, <1>2, <1>3, Finite, Positions!SumSame
<1> QED
  BY <1>1, <1>2, <1>4

\* One entry more adds its amount.
LEMMA TotalAdd ==
    ASSUME NEW es, NEW S, IsFiniteSet(S), NEW x, x \notin S,
           \A i \in S \cup {x} : es[i].sats \in Nat
    PROVE  Total(es, S \cup {x}) = Total(es, S) + es[x].sats
<1> DEFINE S1 == S \cup {x}
           v == [i \in S1 |-> es[i].sats]
           w == [i \in S |-> es[i].sats]
<1>1. IsFiniteSet(S1)
  BY FS_AddElement
<1>2. S \in SUBSET S1 /\ x \in S1 \ S /\ S \cup {x} = S1
  OBVIOUS
<1>3. /\ \A i \in S : v[i] = w[i]
      /\ \A i \in S1 : v[i] \in Nat
      /\ v[x] = es[x].sats
  OBVIOUS
<1>4. PICK it : Positions!AddsUp(it, v, S1) /\ Total(es, S1) = it[S1]
  BY <1>1, TotalIs
<1>5. PICK jt : Positions!AddsUp(jt, w, S) /\ Total(es, S) = jt[S]
  BY TotalIs
<1> HIDE DEF S1, v, w
<1>6. it[S] = jt[S]
  BY <1>1, <1>2, <1>3, <1>4, <1>5, Finite, Positions!SumSame
<1>7. it[S \cup {x}] = it[S] + v[x]
  <2>1. Positions!IsFiniteSet(S1) /\ \A y \in S1 : v[y] \in Nat
    BY <1>1, <1>3, Finite, Zenon
  <2>2. Positions!AddsUp(it, v, S1)
    BY <1>4
  <2>3. S \in SUBSET S1 /\ x \in S1 \ S
    BY <1>2
  <2> QED
    BY <2>1, <2>2, <2>3, Positions!SumOneMore
<1> QED
  BY <1>2, <1>3, <1>4, <1>5, <1>6, <1>7

-----------------------------------------------------------------------------
(* The daily cap.                                                          *)

\* One process pays at a time.
OnePayer == \A p, q \in Payer : p = q

\* No amount the wallet can pay makes the sum with a daily limit wrap around.
NoWrap ==
    \A rules \in Policies, sats \in Amount :
        rules.daily_limit # NoLimit /\ sats <= Funds => rules.daily_limit + sats < Word

Since(c) == {i \in 1..Len(disk) : disk[i].at >= c}
Within(c) == {i \in 1..Len(disk) : disk[i].at \in c..(c + Window)}

\* Every window that can still hold the payment has room for it.
Room(sats) ==
    policy.daily_limit # NoLimit =>
        \A c \in Nat : c + Window >= clock => Total(disk, Since(c)) + sats <= policy.daily_limit

\* The view the amount is checked against is the file; between the check and the
\* entry the room stays, as time only passes, but a sum that wrapped around
\* is not noticed before the wallet is found to hold less.
CapInv ==
    /\ DailyCap
    /\ \A i \in 1..Len(disk) : disk[i].at <= clock
    /\ \A p \in Payer :
        /\ pc[p] \in {"connect", "amount"} => mem[p] = disk
        /\ pc[p] \in {"ask", "address", "build"} => (req[p].sats <= Funds => Room(req[p].sats))
        /\ pc[p] \in {"derived", "book"} => Room(req[p].sats)

\* What the sums of the ledger are made of.
LEMMA EntryFacts ==
    ASSUME TypeInv
    PROVE  /\ disk \in Seq(Sent) /\ Len(disk) \in Nat /\ clock \in Nat /\ clock <= MaxClock
           /\ \A S \in SUBSET (1..Len(disk)) : IsFiniteSet(S)
           /\ \A i \in 1..Len(disk) : disk[i].sats \in Nat /\ disk[i].at \in Nat
           /\ policy \in Policies /\ (policy.daily_limit = NoLimit \/ policy.daily_limit \in Nat)
           /\ Window \in Nat /\ Word \in Nat /\ Word > 0 /\ Funds \in Nat
<1>1. /\ disk \in Seq(Sent) /\ clock \in 0..MaxClock /\ policy \in Policies /\ MaxClock \in Nat
      /\ Window \in Nat /\ Word \in Nat \ {0} /\ Funds \in 0..(Word - 1)
      /\ Amount \subseteq 1..(Word - 1) /\ Policies \subseteq Policy
  BY ConstAssumption DEF TypeInv, TypeOK
<1>2. Len(disk) \in Nat /\ \A i \in 1..Len(disk) : disk[i] \in Sent
  BY <1>1
<1>3. \A S \in SUBSET (1..Len(disk)) : IsFiniteSet(S)
  <2>1. IsFiniteSet(1..Len(disk))
    BY <1>2, FS_Interval
  <2> QED
    BY <2>1, FS_Subset
<1>4. \A e \in Sent : e.sats \in Nat /\ e.at \in Nat
  <2>1. Amount \subseteq Nat /\ 0..MaxClock \subseteq Nat
    BY <1>1
  <2>2. \A e \in Sent : e.sats \in Amount /\ e.at \in 0..MaxClock
    BY DEF Sent
  <2> QED
    BY <2>1, <2>2, Zenon
<1>5. policy.daily_limit = NoLimit \/ policy.daily_limit \in Nat
  BY <1>1 DEF Policy
<1> QED
  BY <1>1, <1>2, <1>3, <1>4, <1>5

\* The clock of a step, and of one that writes.
LEMMA ClockStep ==
    ASSUME [Next]_vars
    PROVE  clock' = clock \/ (clock' = clock + 1 /\ UNCHANGED <<disk, pc, req, mem>>)
<1>1. ASSUME Tick \/ rebroadcast \/ UNCHANGED vars
      PROVE  clock' = clock \/ (clock' = clock + 1 /\ UNCHANGED <<disk, pc, req, mem>>)
  BY <1>1 DEF Tick, rebroadcast, vars
<1>2. ASSUME NEW p \in Payer, PayNext(p) PROVE clock' = clock
  BY <1>2 DEF PayNext, command, open_ledger, connect, gate_amount, told_address, gate_address,
     build_signed, build_refused, gate_derived, append_sent, broadcast, broadcast_error, notify,
     session_error, Crash, readback
<1>3. (Tick \/ rebroadcast \/ UNCHANGED vars) \/ \E p \in Payer : PayNext(p)
  BY DEF Next
<1> HIDE DEF vars
<1> QED
  BY <1>1, <1>2, <1>3

\* The day as gate_amount counts it.
Cutoff == IF clock > Window THEN clock - Window ELSE 0

\* A payer gets past the check of the amount only through it.
LEMMA AmountStep ==
    ASSUME TypeInv, [Next]_vars, NEW p \in Payer, pc[p] = "amount", pc'[p] \in {"ask", "address"}
    PROVE  check_amount(req[p].sats, spent_since(mem[p], Cutoff)) /\ req'[p] = req[p]
<1>0. pc \in [Payer -> Steps]
  BY TypeParts DEF Payers
<1>1. ASSUME NEW q \in Payer, q # p, PayNext(q) PROVE FALSE
  BY <1>1, OthersStay DEF Stays
<1>2. ~(Tick \/ rebroadcast \/ UNCHANGED vars)
  BY DEF Tick, rebroadcast, vars
<1>3. PayNext(p)
  BY <1>1, <1>2 DEF Next
<1>4. ~Failed(p)
  BY <1>0 DEF Failed, Goto
<1>5. /\ ~(command(p) \/ open_ledger(p) \/ connect(p) \/ told_address(p) \/ gate_address(p))
      /\ ~(build_signed(p) \/ build_refused(p) \/ gate_derived(p) \/ append_sent(p))
      /\ ~(broadcast(p) \/ broadcast_error(p) \/ notify(p) \/ session_error(p) \/ readback(p))
  BY DEF command, open_ledger, connect, told_address, gate_address, build_signed, build_refused,
     gate_derived, append_sent, broadcast, broadcast_error, notify, session_error, readback
<1>6. ~Crash(p)
  BY <1>0 DEF Crash, Goto
<1>7. gate_amount(p)
  BY <1>3, <1>5, <1>6, Zenon DEF PayNext
<1> QED
  BY <1>4, <1>7 DEF gate_amount, Gate, Cutoff

\* The check of the amount: a payment the wallet can make has room in the day.
LEMMA AmountRoom ==
    ASSUME NoWrap, TypeInv, CapInv, NEW sats \in Amount, sats <= Funds,
           check_amount(sats, spent_since(disk, Cutoff))
    PROVE  Room(sats)
<1>0. /\ Len(disk) \in Nat /\ clock \in Nat /\ clock <= MaxClock /\ MaxClock \in Nat
      /\ Window \in Nat /\ Word \in Nat /\ Word > 0 /\ Funds \in Nat
      /\ policy \in Policies /\ (policy.daily_limit = NoLimit \/ policy.daily_limit \in Nat)
      /\ \A i \in 1..Len(disk) : disk[i].sats \in Nat /\ disk[i].at \in Nat
      /\ \A S \in SUBSET (1..Len(disk)) : IsFiniteSet(S)
  BY EntryFacts, ConstAssumption
<1>1. SUFFICES ASSUME policy.daily_limit # NoLimit, NEW c \in Nat, c + Window >= clock
               PROVE  Total(disk, Since(c)) + sats <= policy.daily_limit
  BY DEF Room
<1> DEFINE T == Total(disk, Since(Cutoff))
<1>2. Cutoff \in 0..MaxClock /\ Cutoff <= c /\ clock <= Cutoff + Window
  BY <1>0, <1>1 DEF Cutoff
<1>3. Since(Cutoff) = Within(Cutoff)
  BY <1>0, <1>2 DEF Since, Within, CapInv
<1>4. T <= policy.daily_limit
  BY <1>1, <1>2, <1>3 DEF CapInv, DailyCap, Within
<1>5. Since(Cutoff) \in SUBSET (1..Len(disk)) /\ Since(c) \in SUBSET Since(Cutoff)
  BY <1>0, <1>2 DEF Since
<1>6. T \in Nat /\ Total(disk, Since(c)) \in Nat /\ Total(disk, Since(c)) <= T
  <2>1. IsFiniteSet(Since(Cutoff)) /\ \A i \in Since(Cutoff) : disk[i].sats \in Nat
    BY <1>0, <1>5
  <2> QED
    BY <1>5, <2>1, TotalMono
<1>7. sats \in Nat /\ policy.daily_limit \in Nat /\ policy.daily_limit + sats < Word
  BY <1>0, <1>1, ConstAssumption DEF NoWrap
<1>8. (T + sats) % Word <= policy.daily_limit
  BY <1>1 DEF check_amount, spent_since, Since
<1> HIDE DEF T
<1>9. T + sats \in 0..(Word - 1)
  BY <1>0, <1>4, <1>6, <1>7
<1>10. (T + sats) % Word = T + sats
  BY <1>0, <1>9
<1> QED
  BY <1>6, <1>7, <1>8, <1>10

\* The room of a payment stays while time passes and nothing is written.
LEMMA RoomStays ==
    ASSUME TypeInv, [Next]_vars, disk' = disk, NEW sats, Room(sats)
    PROVE  policy'.daily_limit # NoLimit =>
             \A c \in Nat : c + Window >= clock' =>
                 Total(disk', Since(c)') + sats <= policy'.daily_limit
<1>1. policy' = policy
  BY FileStep
<1>2. clock \in Nat /\ clock' \in Nat /\ clock <= clock' /\ Window \in Nat
  BY EntryFacts, ClockStep
<1>3. ASSUME NEW c \in Nat, c + Window >= clock', policy.daily_limit # NoLimit
      PROVE  Total(disk, Since(c)) + sats <= policy.daily_limit
  <2>1. c + Window >= clock
    BY <1>2, <1>3
  <2> QED
    BY <1>3, <2>1 DEF Room
<1> QED
  BY <1>1, <1>3 DEF Since

\* The only payer checks the amount against the file it has just read.
LEMMA ViewStep ==
    ASSUME OnePayer, TypeInv, CapInv, [Next]_vars, NEW p \in Payer, pc'[p] \in {"connect", "amount"}
    PROVE  mem'[p] = disk /\ disk' = disk
<1>0. pc \in [Payer -> Steps] /\ mem \in [Payer -> Seq(Sent)]
  BY TypeParts DEF Payers
<1>1. pc[p] \in {"connect", "amount"} => mem[p] = disk
  BY DEF CapInv
<1>2. CASE Tick \/ rebroadcast \/ UNCHANGED vars
  BY <1>1, <1>2 DEF Tick, rebroadcast, vars
<1>3. CASE PayNext(p)
  <2>1. ~Failed(p)
    BY <1>0 DEF Failed, Goto
  <2>2. ~(build_refused(p) \/ broadcast_error(p) \/ session_error(p))
    BY <2>1 DEF build_refused, broadcast_error, session_error
  <2>3. ~(gate_amount(p) \/ gate_address(p) \/ gate_derived(p))
    BY <1>0, <2>1 DEF gate_amount, gate_address, gate_derived, Gate, Goto
  <2>4. /\ ~(command(p) \/ told_address(p) \/ build_signed(p) \/ append_sent(p) \/ broadcast(p))
        /\ ~(notify(p) \/ Crash(p) \/ readback(p))
    BY <1>0 DEF command, told_address, build_signed, append_sent, broadcast, notify, Crash,
       readback, Goto
  <2>5. open_ledger(p) \/ connect(p)
    BY <1>3, <2>2, <2>3, <2>4, Zenon DEF PayNext
  <2> QED
    BY <1>0, <1>1, <2>5 DEF open_ledger, connect
<1>4. Tick \/ rebroadcast \/ UNCHANGED vars \/ PayNext(p)
  BY DEF Next, OnePayer
<1> QED
  BY <1>2, <1>3, <1>4

\* A payment the wallet can make has room when the gates open, and a built one
\* is one the wallet can make.
LEMMA RoomStep ==
    ASSUME NoWrap, TypeInv, CapInv, [Next]_vars, NEW p \in Payer
    PROVE  /\ pc'[p] \in {"ask", "address", "build"} => (req'[p].sats <= Funds => Room(req'[p].sats))
           /\ pc'[p] \in {"derived", "book"} => Room(req'[p].sats)
<1>0. /\ pc \in [Payer -> Steps] /\ req \in [Payer -> Request \cup {NoReq}]
      /\ pc[p] # "idle" => req[p] \in Request
  BY TypeParts DEF Payers, TypeInv
<1> DEFINE Open(step, sats) == /\ step \in {"ask", "address", "build"} => (sats <= Funds => Room(sats))
                               /\ step \in {"derived", "book"} => Room(sats)
<1>1. /\ Open(pc[p], req[p].sats)
      /\ pc[p] \in {"connect", "amount"} => mem[p] = disk
  BY DEF CapInv
<1>2. CASE Stays(p)
  BY <1>1, <1>2 DEF Stays
<1>3. CASE Advances(p)
  <2>1. CASE pc[p] = "amount" /\ pc'[p] \in {"ask", "address"}
    <3>1. /\ check_amount(req[p].sats, spent_since(disk, Cutoff)) /\ req'[p] = req[p]
          /\ req[p].sats \in Amount
      BY <1>0, <1>1, <2>1, AmountStep DEF Request
    <3> QED
      BY <2>1, <3>1, AmountRoom
  <2>2. CASE ~(pc[p] = "amount" /\ pc'[p] \in {"ask", "address"})
    <3> HIDE DEF Room
    <3> QED
      BY <1>1, <1>3, <2>2 DEF Advances
  <2> QED
    BY <2>1, <2>2
<1>4. CASE told_address(p)
  <2>1. pc[p] = "ask" /\ pc'[p] = "address" /\ req'[p].sats = req[p].sats
    BY <1>0, <1>4 DEF told_address, Goto, Request
  <2> QED
    BY <1>1, <2>1
<1>5. CASE build_signed(p)
  <2>1. /\ pc[p] = "build" /\ pc'[p] \in {"derived", "book"} /\ req'[p].sats = req[p].sats
        /\ req[p].sats <= Funds - Total(disk, moved) /\ req[p] \in Request
    BY <1>0, <1>5 DEF build_signed, Goto, Request
  <2>2. IsFiniteSet(moved) /\ \A i \in moved : disk[i].sats \in Nat
    BY EntryFacts DEF TypeInv, TypeOK
  <2>3. Total(disk, moved) \in Nat /\ Funds \in Nat /\ req[p].sats \in Nat
    <3>1. Total(disk, moved) \in Nat
      BY <2>2, TotalMono
    <3>2. Funds \in Nat /\ Amount \subseteq Nat
      BY EntryFacts, ConstAssumption
    <3> QED
      BY <2>1, <3>1, <3>2 DEF Request
  <2>4. req[p].sats <= Funds
    BY <2>1, <2>3
  <2> QED
    BY <1>1, <2>1, <2>4
<1>6. /\ append_sent(p) => pc'[p] = "broadcast"
      /\ broadcast(p) => pc'[p] \in {"notify", "done"}
      /\ readback(p) => pc'[p] = "done"
      /\ command(p) => pc'[p] = "open"
      /\ Retries(p) => pc'[p] = "open"
  BY <1>0 DEF append_sent, broadcast, readback, command, Retries, Goto
<1>7. pc'[p] \in {"idle", "open", "broadcast", "notify", "done"} => Open(pc'[p], req'[p].sats)
  OBVIOUS
<1> QED
  BY PayerStep, <1>2, <1>3, <1>4, <1>5, <1>6, <1>7

\* The new entry fits in every window it falls into.
LEMMA CapAppend ==
    ASSUME TypeInv, CapInv, [Next]_vars, NEW p \in Payer, append_sent(p)
    PROVE  DailyCap' /\ \A i \in 1..Len(disk') : disk'[i].at <= clock'
<1> DEFINE n == Len(disk)
<1>0. /\ n \in Nat /\ clock \in Nat /\ clock <= MaxClock /\ Window \in Nat
      /\ (policy.daily_limit = NoLimit \/ policy.daily_limit \in Nat)
      /\ \A i \in 1..n : disk[i].sats \in Nat /\ disk[i].at \in Nat /\ disk[i].at <= clock
      /\ \A S \in SUBSET (1..n) : IsFiniteSet(S)
  BY EntryFacts DEF CapInv
<1>1. /\ Len(disk') = n + 1 /\ \A i \in 1..n : disk'[i] = disk[i]
      /\ disk'[n + 1].sats = req[p].sats /\ disk'[n + 1].at = clock /\ pc[p] = "book"
  BY AppendFacts
<1>2. policy' = policy /\ clock' = clock
  BY FileStep DEF append_sent
<1>3. Room(req[p].sats)
  BY <1>1 DEF CapInv
<1>4. disk'[n + 1].sats \in Nat
  <2>1. req[p] \in Request /\ Amount \subseteq Nat
    BY <1>1, ConstAssumption DEF TypeInv
  <2> QED
    BY <1>1, <2>1 DEF Request
<1> HIDE DEF n
<1>5. ASSUME NEW c \in 0..MaxClock, policy.daily_limit # NoLimit
      PROVE  Total(disk', Within(c)') <= policy.daily_limit
  <2> DEFINE S == Within(c)
  <2>1. S \in SUBSET (1..n) /\ S \in SUBSET Since(c) /\ Since(c) \in SUBSET (1..n) /\ n + 1 \notin S
    BY <1>0, <1>5 DEF Within, Since, n
  <2>2. Within(c)' = IF clock \in c..(c + Window) THEN S \cup {n + 1} ELSE S
    <3>1. Within(c)' = {i \in 1..(n + 1) : disk'[i].at \in c..(c + Window)}
      BY <1>1 DEF Within
    <3>2. S = {i \in 1..n : disk[i].at \in c..(c + Window)}
      BY DEF Within, n
    <3>3. 1..(n + 1) = (1..n) \cup {n + 1}
      BY <1>0
    <3> HIDE DEF S
    <3> QED
      BY <1>1, <3>1, <3>2, <3>3
  <2>3. /\ IsFiniteSet(S) /\ IsFiniteSet(Since(c))
        /\ \A i \in Since(c) : disk[i].sats \in Nat
        /\ \A i \in S : disk'[i] = disk[i]
        /\ \A i \in S \cup {n + 1} : disk'[i].sats \in Nat
    BY <1>0, <1>1, <1>4, <2>1
  <2>4. Total(disk, S) <= policy.daily_limit
    BY <1>5 DEF CapInv, DailyCap, Within
  <2> HIDE DEF S
  <2>5. Total(disk', S) = Total(disk, S)
    BY <2>3, TotalSame
  <2>6. CASE clock \in c..(c + Window)
    <3>1. Total(disk', S \cup {n + 1}) = Total(disk', S) + req[p].sats
      <4>1. Total(disk', S \cup {n + 1}) = Total(disk', S) + disk'[n + 1].sats
        BY <2>1, <2>3, TotalAdd, Zenon
      <4> QED
        BY <1>1, <4>1
    <3>2. Total(disk, S) \in Nat /\ Total(disk, Since(c)) \in Nat
          /\ Total(disk, S) <= Total(disk, Since(c))
      BY <2>1, <2>3, TotalMono
    <3>3. Total(disk, Since(c)) + req[p].sats <= policy.daily_limit
      BY <1>0, <1>3, <1>5, <2>6 DEF Room
    <3>4. req[p].sats \in Nat /\ policy.daily_limit \in Nat
      BY <1>0, <1>1, <1>4, <1>5
    <3> QED
      BY <2>2, <2>5, <2>6, <3>1, <3>2, <3>3, <3>4
  <2>7. CASE clock \notin c..(c + Window)
    BY <2>2, <2>4, <2>5, <2>7
  <2> QED
    BY <2>6, <2>7
<1>6. DailyCap'
  BY <1>2, <1>5 DEF DailyCap, Within
<1>7. \A i \in 1..Len(disk') : disk'[i].at <= clock'
  BY <1>0, <1>1, <1>2
<1> QED
  BY <1>6, <1>7

LEMMA CapStep ==
    ASSUME OnePayer, NoWrap, TypeInv, CapInv, [Next]_vars
    PROVE  CapInv'
<1>1. CASE disk' = disk
  <2>1. clock \in Nat /\ clock' \in Nat /\ clock <= clock' /\ policy' = policy
    BY EntryFacts, ClockStep, FileStep
  <2>2. DailyCap'
    BY <1>1, <2>1 DEF CapInv, DailyCap
  <2>3. \A i \in 1..Len(disk') : disk'[i].at <= clock'
    BY <1>1, <2>1, EntryFacts DEF CapInv
  <2>4. ASSUME NEW p \in Payer
        PROVE  /\ pc'[p] \in {"connect", "amount"} => mem'[p] = disk'
               /\ pc'[p] \in {"ask", "address", "build"} =>
                    (req'[p].sats <= Funds => Room(req[p].sats)')
               /\ pc'[p] \in {"derived", "book"} => Room(req[p].sats)'
    <3>1. pc'[p] \in {"connect", "amount"} => mem'[p] = disk'
      BY <1>1, ViewStep
    <3>2. ASSUME NEW sats, Room(sats), sats = req'[p].sats PROVE Room(req[p].sats)'
      <4>1. policy'.daily_limit # NoLimit =>
              \A c \in Nat : c + Window >= clock' =>
                  Total(disk', Since(c)') + sats <= policy'.daily_limit
        BY <1>1, <3>2, RoomStays
      <4> QED
        BY <3>2, <4>1 DEF Room
    <3>3. /\ pc'[p] \in {"ask", "address", "build"} => (req'[p].sats <= Funds => Room(req'[p].sats))
          /\ pc'[p] \in {"derived", "book"} => Room(req'[p].sats)
      BY RoomStep
    <3> HIDE DEF Room
    <3> QED
      BY <3>1, <3>2, <3>3
  <2> QED
    BY <2>2, <2>3, <2>4 DEF CapInv
<1>2. ASSUME NEW q \in Payer, append_sent(q) PROVE CapInv'
  <2>1. \A p \in Payer : pc'[p] = "broadcast"
    BY <1>2, AppendFacts DEF OnePayer
  <2>2. DailyCap' /\ \A i \in 1..Len(disk') : disk'[i].at <= clock'
    BY <1>2, CapAppend
  <2> QED
    BY <2>1, <2>2 DEF CapInv
<1> QED
  BY <1>1, <1>2, FileStep

\* One process at a time spends no more than the daily limit in any window of
\* the daily length (Policy::check_amount with Ledger::spent_since): although
\* time passes between the check and the entry, a failed broadcast counts, endpoints
\* are tried again, and the sum of a payment the wallet cannot make may wrap
\* around.
THEOREM DailyCapHolds ==
    ASSUME OnePayer, NoWrap
    PROVE  Spec => []DailyCap
<1>1. Init => CapInv
  <2> SUFFICES ASSUME Init PROVE CapInv
    OBVIOUS
  <2>1. /\ disk = <<>> /\ Len(disk) = 0 /\ policy \in Policies
        /\ \A p \in Payer : pc[p] = "idle"
    BY DEF Init
  <2>2. ASSUME NEW c \in 0..MaxClock, policy.daily_limit # NoLimit
        PROVE  Total(disk, Within(c)) <= policy.daily_limit
    <3>1. Within(c) = {}
      BY <2>1 DEF Within
    <3>2. PICK it : Positions!AddsUp(it, [i \in {} |-> disk[i].sats], {}) /\ Total(disk, {}) = it[{}]
      BY FS_EmptySet, TotalIs
    <3>3. it[{}] = 0
      BY <3>2, FS_EmptySet, Finite, Positions!SumFacts
    <3>4. policy.daily_limit \in Nat
      BY <2>1, <2>2, ConstAssumption DEF Policy
    <3> QED
      BY <3>1, <3>2, <3>3, <3>4
  <2> QED
    BY <2>1, <2>2 DEF CapInv, DailyCap, Within
<1>2. TypeInv /\ CapInv /\ [Next]_vars => CapInv'
  BY CapStep
<1>3. CapInv => DailyCap
  BY DEF CapInv
<1> QED
  BY <1>1, <1>2, <1>3, TypeAlways, PTL DEF Spec

=============================================================================
