----------------------------- MODULE CoinSelect -----------------------------
(***************************************************************************)
(* Fee rate and coin selection of a silent-payment send                    *)
(* (src/src/chain.rs).  A coin is a record with a field `sats'.  Amounts   *)
(* are 64-bit in the code; MaxU64 stands for the largest one.              *)
(***************************************************************************)
EXTENDS Integers, Sequences, SequencesExt

CONSTANT MaxU64

ASSUME WidthAssumption == MaxU64 \in Nat

MAX_FEERATE_SAT_PER_VB == 200

\* Mutant: only the floor is applied.
clamp_feerate_floor(rate) == IF rate < 1 THEN 1 ELSE rate

\* chain::clamp_feerate
clamp_feerate(rate) ==
    IF rate < 1 THEN 1 ELSE IF rate > MAX_FEERATE_SAT_PER_VB THEN MAX_FEERATE_SAT_PER_VB ELSE rate

\* chain::recommended_feerate: the estimate for six blocks, else for three, two
\* or one, else a constant of the network; estimates are rounded up.
recommended_feerate(estimates, mainnet) ==
    LET known == {n \in {1, 2, 3, 6} : n \in DOMAIN estimates}
    IN  clamp_feerate(IF known # {} THEN estimates[Max(known)]
                      ELSE IF mainnet THEN 6 ELSE 1)

saturating_add(a, b) == IF a + b > MaxU64 THEN MaxU64 ELSE a + b

\* Mutant: the pinned inputs are left out of the size.
target_unpinned(sats, fr, n, pinned) ==
    saturating_add(sats, fr * (11 + n * 58 + 43 + 43))

\* What n descriptor inputs, with the pinned ones, have to be worth: 58 vB for
\* an input, 43 for the recipient and for the change.
target(sats, fr, n, pinned) ==
    saturating_add(sats, fr * (11 + (n + pinned) * 58 + 43 + 43))

Worth(coins) == MapThenSumSet(LAMBDA c : c.sats, coins)

\* The coins, the largest first; those of one worth in some order.
LargestFirst(coins) ==
    CHOOSE s \in SetToSeqs(coins) : \A i, j \in DOMAIN s : i < j => s[i].sats >= s[j].sats

\* chain::select_largest_first: the shortest prefix of the coins, the largest
\* first, that is enough together with what the pinned inputs are worth; not ok
\* if all of them are not enough.
select_largest_first(coins, sats, fr, prefunded, pinned) ==
    LET order == LargestFirst(coins)
        Taken(n) == {order[i] : i \in 1..n}
        enough == {n \in 0..Len(order) :
                      prefunded + Worth(Taken(n)) >= target(sats, fr, n, pinned)}
    IN  [ok |-> enough # {}, coins |-> IF enough = {} THEN {} ELSE Taken(Min(enough))]

=============================================================================
