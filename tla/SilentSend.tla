----------------------------- MODULE SilentSend -----------------------------
(***************************************************************************)
(* One silent payment from end to end: pay::sp_send and                    *)
(* chain::build_signed_to_sp pick the coins of the payer's wallet, derive  *)
(* the one-time output from them and sign; the payee's scanner             *)
(* (scan::tx_matches) looks at the transaction and derives the key that    *)
(* spends what it finds.  The payee also meets transactions of other       *)
(* wallets, built by the rules of BIP-352.                                 *)
(*                                                                         *)
(* Recording and broadcasting are in SendPath and SpSpend, the policy      *)
(* checks before the build in Spend.                                       *)
(***************************************************************************)
EXTENDS SilentPay, CoinSelect, FiniteSets

CONSTANTS
    Coin,          \* descriptor coins of the payer: [outpoint, leaf, sats]
    Income,        \* silent payments it received: [outpoint, tweak, sats]
    Ask,           \* the amounts asked for
    Estimates,     \* what esplora may answer: functions from targets to rates
    MaxFee,        \* the policy's max_fee_sats
    Blocked,       \* one-time keys on the policy's blocklist
    PayerSpend,    \* the payer's spend secret
    Payee,         \* the secrets a payee may have: [scan, spend]
    ChangeKey,     \* the key of the change, and of outputs for others
    ForeignInput,  \* the inputs of other wallets' transactions
    MaxForeign,    \* bound on the inputs of one, and on its payments to the payee
    Network        \* the networks both may be on

SP_MIN_SATS == 330
DUST_FLOOR == 330

\* Every coin and every received output is an outpoint of its own with a key, and
\* all of them together are worth less than 64 bits hold.
ASSUME WalletAssumption ==
    /\ IsFiniteSet(Coin) /\ IsFiniteSet(Income)
    /\ \A c \in Coin : /\ c.outpoint \in OutPoint /\ c.sats \in Nat
                       /\ c.leaf \in Scalar /\ TapTweak(c.leaf) # 0
    /\ \A u \in Income : /\ u.outpoint \in OutPoint /\ u.sats \in Nat
                         /\ u.tweak \in Scalar /\ spend_keypair(PayerSpend, u.tweak) # 0
    /\ \A c, d \in Coin : c.outpoint = d.outpoint => c = d
    /\ \A u, w \in Income : u.outpoint = w.outpoint => u = w
    /\ \A c \in Coin, u \in Income : c.outpoint # u.outpoint
    /\ Worth(Coin) + Worth(Income) < MaxU64
    /\ PayerSpend \in Scalar /\ ChangeKey \in Scalar
    /\ \A p \in Payee : p.scan \in Scalar /\ p.spend \in Scalar

ASSUME InputAssumption ==
    /\ Ask \subseteq 0..MaxU64
    /\ \A e \in Estimates : \A n \in DOMAIN e : e[n] \in Nat
    /\ \A in \in ForeignInput : /\ in.outpoint \in OutPoint /\ in.point \in Scalar
                                /\ in.items \in Nat /\ in.annex \in BOOLEAN /\ in.nums \in BOOLEAN
    /\ MaxIndex \in Nat \ {0} /\ MaxForeign \in 0..MaxIndex

VARIABLES
    net,      \* CM_NETWORK of both wallets
    payee,    \* the payee's secrets
    asked,    \* [coins, income, sats, rate]: the payer's coins and the amount of the send
    phase,    \* how far the payment is, or why it was refused
    picked,   \* the descriptor coins of the selection
    tx,       \* the transaction the payee looks at
    paid,     \* its outputs that pay the payee
    found     \* what the payee's scanner finds

vars == <<net, payee, asked, phase, picked, tx, paid, found>>

NoTx == [coinbase |-> FALSE, vin |-> <<>>, vout |-> <<>>]
NotAsked == [coins |-> {}, income |-> {}, sats |-> 0, rate |-> 0]

Refusal == {"too_small", "network", "no_funds", "no_key", "build", "fee", "blocked"}

TypeOK ==
    /\ net \in Network
    /\ payee \in Payee
    /\ asked.coins \subseteq Coin /\ asked.income \subseteq Income
    /\ asked.sats \in Ask \cup {0} /\ asked.rate \in 0..MAX_FEERATE_SAT_PER_VB
    /\ phase \in Refusal \cup {"idle", "signed", "seen", "scanned"}
    /\ picked \subseteq asked.coins
    /\ \A i \in DOMAIN tx.vin : tx.vin[i].point \in Scalar
    /\ \A i \in DOMAIN tx.vout : tx.vout[i].key \in Scalar /\ tx.vout[i].sats \in Nat
    /\ paid \subseteq DOMAIN tx.vout
    /\ \A f \in found : f.vout \in DOMAIN tx.vout /\ f.tweak \in Scalar

Init ==
    /\ net \in Network
    /\ payee \in Payee
    /\ asked = NotAsked
    /\ phase = "idle"
    /\ picked = {}
    /\ tx = NoTx
    /\ paid = {}
    /\ found = {}

-----------------------------------------------------------------------------
(* The code a payee publishes.                                             *)

\* sp::encode: the human-readable part tells mainnet from the other networks.
encode(network) == IF network = "mainnet" THEN "sp" ELSE "tsp"

\* sp::decode
decode(hrp) == IF hrp = "sp" THEN "mainnet" ELSE "signet"

-----------------------------------------------------------------------------
(* bdk.                                                                    *)

\* The fee of n Taproot key-path inputs and m Taproot outputs at a rate.
FeeOf(n, m, fr) == (fr * (42 + 230 * n + 172 * m) + 3) \div 4

\* The change of a transaction over pinned inputs; below dust there is none.
Change(total, n, sats, fr) ==
    LET rest == total - sats - FeeOf(n, 2, fr)
    IN  IF rest >= 330 THEN rest ELSE 0

\* The inputs and the outputs of a built transaction are shuffled.
Shuffles(s) == {[i \in DOMAIN s |-> s[p[i]]] : p \in {q \in [DOMAIN s -> DOMAIN s] :
                    \A i, j \in DOMAIN s : q[i] = q[j] => i = j}}

-----------------------------------------------------------------------------
(* chain::build_signed_to_sp and pay::sp_send                              *)

\* The inputs in the order their keys are summed: b_spend + tweak of the
\* received outputs, then the tweaked leaves of the descriptor coins, each in
\* its even form.  `point' is the key the spent output holds.
SpInputs(income, chosen) ==
    LET received == SetToSeq(income)
        own == SetToSeq(chosen)
    IN  [i \in DOMAIN received |->
            LET sk == spend_keypair(PayerSpend, received[i].tweak)
            IN  [outpoint |-> received[i].outpoint, key |-> taproot_input_key(sk),
                 point |-> x_only(sk)]]
        \o [i \in DOMAIN own |->
            [outpoint |-> own[i].outpoint, key |-> taproot_input_secret(own[i].leaf),
             point |-> x_only(TapTweak(own[i].leaf))]]

\* Mutant: the received outputs are taken to be the first inputs.
finalize_mixed_psbt_ordered(inputs, income) ==
    [i \in DOMAIN inputs |->
        [outpoint |-> inputs[i].outpoint, script |-> "p2tr", point |-> inputs[i].point,
         items |-> 1, annex |-> FALSE, nums |-> FALSE,
         signer |-> IF i <= Cardinality(income)
                    THEN spend_keypair(PayerSpend, SetToSeq(income)[i].tweak)
                    ELSE inputs[i].key]]

\* chain::finalize_mixed_psbt: one signature for each input, by the key of the
\* received output with this outpoint, else the signature bdk made.  bdk signs
\* every descriptor input of a transaction it built, so none is without one.
finalize_mixed_psbt(inputs, income) ==
    [i \in DOMAIN inputs |->
        LET received == {u \in income : u.outpoint = inputs[i].outpoint}
        IN  [outpoint |-> inputs[i].outpoint, script |-> "p2tr", point |-> inputs[i].point,
             items |-> 1, annex |-> FALSE, nums |-> FALSE,
             signer |-> IF received = {} THEN inputs[i].key
                        ELSE spend_keypair(PayerSpend, (CHOOSE u \in received : TRUE).tweak)]]

Refuse(why) == phase' = why /\ UNCHANGED <<picked, tx, paid>>

build_signed_to_sp(coins, income, sats, fr) ==
    LET selected == select_largest_first(coins, sats, fr, Worth(income), Cardinality(income))
        inputs == SpInputs(income, selected.coins)
        total == Worth(income) + Worth(selected.coins)
        recipient == send_address(inputs, payee.scan, payee.spend)
        change == Change(total, Len(inputs), sats, fr)
        pays == [script |-> "p2tr", key |-> recipient, sats |-> sats]
        outputs == IF change = 0 THEN <<pays>>
                   ELSE <<pays, [script |-> "p2tr", key |-> ChangeKey, sats |-> change]>>
        problem == IF ~selected.ok THEN "no_funds"
                   ELSE IF recipient = 0 THEN "no_key"
                   ELSE IF total < sats + FeeOf(Len(inputs), 1, fr) THEN "build"
                   ELSE IF total - sats - change > MaxFee THEN "fee"
                   ELSE IF recipient \in Blocked THEN "blocked"
                   ELSE "none"
    IN  IF problem # "none" THEN Refuse(problem)
        ELSE /\ phase' = "signed"
             /\ picked' = selected.coins
             /\ \E vin \in Shuffles(inputs), vout \in Shuffles(outputs) :
                 /\ tx' = [coinbase |-> FALSE, vin |-> finalize_mixed_psbt(vin, income),
                           vout |-> vout]
                 /\ paid' = {CHOOSE i \in DOMAIN vout : vout[i] = pays}

sp_send ==
    /\ phase = "idle"
    /\ \E coins \in SUBSET Coin, income \in SUBSET Income, sats \in Ask, e \in Estimates :
        LET fr == recommended_feerate(e, net = "mainnet")
        IN  /\ asked' = [coins |-> coins, income |-> income, sats |-> sats, rate |-> fr]
            /\ IF sats < SP_MIN_SATS THEN Refuse("too_small")
               ELSE IF decode(encode(net)) # net THEN Refuse("network")
               ELSE build_signed_to_sp(coins, income, sats, fr)
    /\ UNCHANGED <<net, payee, found>>

-----------------------------------------------------------------------------
(* Transactions of other wallets, and the payee's scanner.                 *)

\* A Taproot output spent by its key: one signature and perhaps an annex.
KeyPath(in) == in.items = 1 \/ (in.items = 2 /\ in.annex)

\* BIP-352: the inputs whose keys count (a Taproot output spent by a script too,
\* unless its internal key is the NUMS point), the keys, and the secret a
\* transaction shares with the payee.
Eligible(in) == \/ in.script \in {"p2pkh", "p2sh_p2wpkh", "p2wpkh"}
                \/ in.script = "p2tr" /\ in.items > 0 /\ (KeyPath(in) \/ ~in.nums)
KeyOf(in) == IF in.script = "p2tr" THEN x_only(in.point) ELSE in.point

Keys(vin) ==
    LET eligible == Sublist(vin, {i \in DOMAIN vin : Eligible(vin[i])})
    IN  [k \in DOMAIN eligible |-> KeyOf(eligible[k])]
SumOf(keys) == MapThenSumSet(LAMBDA k : keys[k], DOMAIN keys) % Q
Secret(vin) ==
    LET sum == SumOf(Keys(vin))
        smallest == Min({vin[i].outpoint : i \in DOMAIN vin})
    IN  Times(Times(InputHash[<<smallest, sum>>], sum), payee.scan)
OneTimeKey(vin, k) == x_only(Plus(payee.spend, SharedHash[<<Secret(vin), k>>]))

\* A transaction with n payments to the payee and one output for somebody else.
foreign_tx ==
    /\ phase = "idle"
    /\ \E m \in 1..MaxForeign, n \in 0..MaxForeign, sats \in {DUST_FLOOR - 1, DUST_FLOOR} :
       \E vin \in [1..m -> ForeignInput] :
        LET pays == [k \in 1..n |-> [script |-> "p2tr", sats |-> sats, key |-> OneTimeKey(vin, k - 1)]]
            other == [script |-> "p2wpkh", key |-> ChangeKey, sats |-> sats]
        IN  /\ \A i, j \in 1..m : vin[i].outpoint = vin[j].outpoint => i = j
            /\ n > 0 => SumOf(Keys(vin)) # 0
            /\ \A k \in 1..n : pays[k].key # 0
            /\ \E vout \in Shuffles(Append(pays, other)) :
                /\ tx' = [coinbase |-> FALSE, vin |-> vin, vout |-> vout]
                /\ paid' = {i \in DOMAIN vout : vout[i] # other}
    /\ phase' = "seen"
    /\ UNCHANGED <<net, payee, asked, picked, found>>

\* scan::scan_to_tip on this transaction: matches below the floor are dropped.
scan_to_tip ==
    /\ phase \in {"signed", "seen"}
    /\ found' = {f \in tx_matches(tx, payee.scan, payee.spend) : f.sats >= DUST_FLOOR}
    /\ phase' = "scanned"
    /\ UNCHANGED <<net, payee, asked, picked, tx, paid>>

Done ==
    /\ phase \in Refusal \cup {"scanned"}
    /\ UNCHANGED vars

Next == sp_send \/ foreign_tx \/ scan_to_tip \/ Done

Spec == Init /\ [][Next]_vars

-----------------------------------------------------------------------------
(* Properties.                                                             *)

\* An input whose key counts although the scanner says it reads P2WPKH keys and
\* Taproot key paths only (scan.rs:13-16).
Skipped(in) == \/ in.script \in {"p2pkh", "p2sh_p2wpkh"}
               \/ in.script = "p2tr" /\ in.items > 0 /\ ~KeyPath(in) /\ ~in.nums
Mixed == \E i \in DOMAIN tx.vin : Skipped(tx.vin[i])

\* The keys of the inputs, in the order of the transaction, cancel out on the
\* way: no receiver can tell what such a transaction pays.
Cancelled == KeySum(Keys(tx.vin)) = 0

\* What a hash of 256 bits does not meet: an output for somebody else holds one of
\* the payee's keys, or the key after the last payment does not exist.
Coincidence ==
    \/ OneTimeKey(tx.vin, Cardinality(paid)) = 0
    \/ \E i \in DOMAIN tx.vout \ paid, k \in 0..Cardinality(paid) :
           tx.vout[i].script = "p2tr" /\ tx.vout[i].key = OneTimeKey(tx.vin, k)

(* Every payment of at least the dust floor is found by the payee's scanner,
   and nothing else is: sender (sp::send_address over normalised keys in the
   order of selection) and receiver (scan::tx_matches over the shuffled inputs
   of the chain) agree on the secret, for own outputs spent as inputs, for
   odd keys, inputs without a key, annexes and several payments at once.  Every
   send of this wallet is covered; of other wallets' transactions those that mix
   in keys the scanner does not read are not (Mixed). *)
PaymentArrives ==
    phase = "scanned" /\ ~Mixed /\ ~Cancelled /\ ~Coincidence =>
        {f.vout : f \in found} = {i \in paid : tx.vout[i].sats >= DUST_FLOOR}

(* What the scanner books can be spent: the key derived from the stored tweak
   (sp::spend_keypair) is the key in the output; and each input of a built
   transaction is signed by the key its spent output holds, whatever the order
   bdk gave the inputs (chain::finalize_mixed_psbt). *)
FoundIsSpendable ==
    /\ \A f \in found : x_only(spend_keypair(payee.spend, f.tweak)) = tx.vout[f.vout].key
    /\ phase = "signed" => \A i \in DOMAIN tx.vin : x_only(tx.vin[i].signer) = tx.vin[i].point

(* The selection of chain::select_largest_first is solvent and lazy: the builder
   never runs short of coins it was given; no smaller number of descriptor coins
   would have reached its own target; and a send is refused for want of funds
   only when no subset of the coins pays for the amount and its fee. *)
SelectionSolvent ==
    LET Enough(S) == Worth(asked.income) + Worth(S)
                        >= target(asked.sats, asked.rate, Cardinality(S), Cardinality(asked.income))
    IN  /\ phase # "build"
        /\ phase = "signed" => \A S \in SUBSET asked.coins :
                                   Enough(S) => Cardinality(picked) <= Cardinality(S)
        /\ phase = "no_funds" => \A S \in SUBSET asked.coins : ~Enough(S)

(* A wallet accepts the code of another wallet on its own network
   (sp::encode, sp::decode and the check in pay::sp_send). *)
CodeAccepted == phase # "network"
=============================================================================
