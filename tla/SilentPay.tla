----------------------------- MODULE SilentPay ------------------------------
(***************************************************************************)
(* The arithmetic of silent payments: src/src/sp.rs, the matching half of  *)
(* src/src/scan.rs and the input keys of src/src/chain.rs.                 *)
(*                                                                         *)
(* The group of the curve is the integers modulo a prime Q: the point s*G   *)
(* is written s, the point at infinity 0.  Of a point and its negative one *)
(* is even, and an x-only key is written as its even point.  The tagged    *)
(* hashes are arbitrary functions into the scalars.  An outpoint is its    *)
(* rank in the order of the consensus serialisation.  A library call that  *)
(* fails gives 0, which is no scalar and no point.                         *)
(***************************************************************************)
EXTENDS Integers, Sequences, FiniteSets, SequencesExt

CONSTANTS
    Q,
    OutPoint,    \* the outpoints of inputs
    MaxIndex,    \* bound on the outputs of a transaction
    InputHash,   \* the hash of <<outpoint, point>>
    SharedHash,  \* the hash of <<point, index>>
    TapHash      \* the BIP-341 tweak of an x-only key

Scalar == 1..(Q - 1)

ASSUME FieldAssumption ==
    /\ Q \in Nat /\ Q > 2
    /\ \A d \in 2..(Q - 1) : d * d <= Q => Q % d # 0
    /\ OutPoint \subseteq Nat
    /\ InputHash \in [OutPoint \X Scalar -> Scalar]
    /\ SharedHash \in [Scalar \X (0..MaxIndex) -> Scalar]
    /\ TapHash \in [Scalar -> Scalar]

Plus(a, b) == (a + b) % Q
Times(a, b) == (a * b) % Q

\* The elements of a sequence at the positions I, in their order.
Sublist(s, I) ==
    [k \in 1..Cardinality(I) |-> s[CHOOSE i \in I : Cardinality({j \in I : j < i}) = k - 1]]

\* The even one of a point and its negative.
x_only(P) == IF P % 2 = 0 THEN P ELSE Q - P

-----------------------------------------------------------------------------
(* Keys.                                                                   *)

\* sp::taproot_input_key: the secret of the even point.
taproot_input_key(sk) == IF sk % 2 = 0 THEN sk ELSE Q - sk

\* chain::taproot_input_secret: the BIP-86 leaf, tweaked to its output key.
\* tap_tweak lifts the internal key to its even point first.
TapTweak(leaf) == Plus(x_only(leaf), TapHash[x_only(leaf)])
taproot_input_secret(leaf) == taproot_input_key(TapTweak(leaf))

\* sp::spend_keypair: d = b_spend + t_k.
spend_keypair(spend_sk, tweak) == Plus(spend_sk, tweak)

-----------------------------------------------------------------------------
(* What sender and receiver share.                                         *)

smallest_outpoint(outpoints) == Min(outpoints)

\* Keys or points added up one by one: a sum that vanishes on the way is an
\* error of the library (SecretKey::add_tweak, PublicKey::combine).
KeySum(keys) ==
    LET sum[n \in 1..Len(keys)] ==
            IF n = 1 THEN keys[1]
            ELSE IF sum[n - 1] = 0 THEN 0 ELSE Plus(sum[n - 1], keys[n])
    IN  IF keys = <<>> THEN 0 ELSE sum[Len(keys)]

input_hash(smallest, a_sum) == InputHash[<<smallest, a_sum>>]

\* sp::output_at: the k-th one-time key, and its tweak.
output_at(ecdh, spend, k) ==
    [key |-> x_only(Plus(spend, SharedHash[<<ecdh, k>>])), tweak |-> SharedHash[<<ecdh, k>>]]

-----------------------------------------------------------------------------
(* The sender.  An input is [outpoint, key], its key normalised.           *)

\* sp::send_address with sp::sender_context: the one-time key of output 0.
send_address(inputs, scan, spend) ==
    LET a_sum == KeySum([i \in DOMAIN inputs |-> inputs[i].key])
        smallest == smallest_outpoint({inputs[i].outpoint : i \in DOMAIN inputs})
        ecdh == Times(Times(input_hash(smallest, a_sum), a_sum), scan)
    IN  IF a_sum = 0 THEN 0 ELSE output_at(ecdh, spend, 0).key

-----------------------------------------------------------------------------
(* The receiver.  A transaction is [coinbase, vin, vout]; an input is      *)
(* [outpoint, script, point, items, annex, nums], the point being the key  *)
(* in the spent script or in the witness, items the length of the witness  *)
(* and nums whether a Taproot internal key is the NUMS point; an output is *)
(* [script, key, sats].                                                    *)

\* scan::input_pubkey: a Taproot key spent by one signature, with or without
\* an annex, lifted to its even point; a P2WPKH key as it is; else none.
input_pubkey(in) ==
    CASE in.script = "p2tr" ->
            IF in.items - (IF in.items >= 2 /\ in.annex THEN 1 ELSE 0) = 1
            THEN x_only(in.point) ELSE 0
      [] in.script = "p2wpkh" -> in.point
      [] OTHER -> 0

\* scan::taproot_output_key
taproot_output_key(out) == IF out.script = "p2tr" THEN out.key ELSE 0

\* The eligible inputs' keys, in the order of the transaction.
input_pubkeys(vin) ==
    LET keyed == Sublist(vin, {i \in DOMAIN vin : input_pubkey(vin[i]) # 0})
    IN  [k \in DOMAIN keyed |-> input_pubkey(keyed[k])]

\* The loop of sp::receive_inner.  Round k looks for the k-th key among the
\* outputs that are left, the first one of the transaction first; a miss ends
\* the search.
receive_loop(ecdh, outputs, spend_pk) ==
    LET taken[k \in 0..Cardinality(outputs)] ==
            IF k = 0 THEN <<>>
            ELSE LET before == taken[k - 1]
                     hits == {o \in outputs : /\ o.key = output_at(ecdh, spend_pk, k - 1).key
                                              /\ \A j \in 1..Len(before) : before[j] # o}
                 IN  IF Len(before) < k - 1 \/ hits = {} THEN before
                     ELSE Append(before, CHOOSE o \in hits : \A p \in hits : o.vout <= p.vout)
    IN  taken[Cardinality(outputs)]

\* sp::receive_check with sp::receive_inner: an error of the library, also in the
\* round after the last hit, forgets what was found.
receive_check(pubkeys, smallest, outputs, scan_sk, spend_pk) ==
    LET a_sum == KeySum(pubkeys)
        ecdh == Times(Times(input_hash(smallest, a_sum), scan_sk), a_sum)
        found == receive_loop(ecdh, outputs, spend_pk)
        broken == /\ Len(found) < Cardinality(outputs)
                  /\ output_at(ecdh, spend_pk, Len(found)).key = 0
    IN  IF a_sum = 0 \/ broken THEN {}
        ELSE {[vout |-> found[k].vout, sats |-> found[k].sats,
               tweak |-> output_at(ecdh, spend_pk, k - 1).tweak] : k \in 1..Len(found)}

\* The Taproot outputs with their positions.
taproot_outputs(vout) ==
    {[vout |-> i, sats |-> vout[i].sats, key |-> vout[i].key] :
        i \in {j \in DOMAIN vout : taproot_output_key(vout[j]) # 0}}

\* Mutant: the smallest outpoint is looked for among the eligible inputs.
tx_matches_eligible(tx, scan_sk, spend_pk) ==
    LET pubkeys == input_pubkeys(tx.vin)
        outputs == taproot_outputs(tx.vout)
    IN  IF tx.coinbase \/ pubkeys = <<>> \/ outputs = {} THEN {}
        ELSE receive_check(pubkeys,
                           smallest_outpoint({tx.vin[i].outpoint : i \in
                               {j \in DOMAIN tx.vin : input_pubkey(tx.vin[j]) # 0}}),
                           outputs, scan_sk, spend_pk)

\* scan::tx_matches: the outputs of a transaction that pay the wallet.  The
\* smallest outpoint is that of all inputs, also of those without a key.
tx_matches(tx, scan_sk, spend_pk) ==
    LET pubkeys == input_pubkeys(tx.vin)
        outputs == taproot_outputs(tx.vout)
    IN  IF tx.coinbase \/ pubkeys = <<>> \/ outputs = {} THEN {}
        ELSE receive_check(pubkeys,
                           smallest_outpoint({tx.vin[i].outpoint : i \in DOMAIN tx.vin}),
                           outputs, scan_sk, spend_pk)

=============================================================================
