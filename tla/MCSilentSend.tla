---------------------------- MODULE MCSilentSend ----------------------------
(* SilentSend over a small field, with arbitrary-looking hashes. *)
EXTENDS SilentSend

MCInputHash == [x \in OutPoint \X Scalar |-> 1 + ((x[1] * 389 + x[2] * 577 + 29) % (Q - 1))]
MCSharedHash == [x \in Scalar \X (0..MaxIndex) |-> 1 + ((x[1] * 211 + x[2] * 463 + 53) % (Q - 1))]
MCTapHash == [x \in Scalar |-> 1 + ((x * 733 + 17) % (Q - 1))]

\* The keys of the two received outputs and of the third coin add up to zero.
MCCoin == {[outpoint |-> 2, leaf |-> 101, sats |-> 5000],
           [outpoint |-> 4, leaf |-> 202, sats |-> 5000],
           [outpoint |-> 6, leaf |-> 584, sats |-> 9000]}
MCIncome == {[outpoint |-> 3, tweak |-> 77, sats |-> 700],
             [outpoint |-> 5, tweak |-> 412, sats |-> 3000]}
MCAsk == {329, 330, 2600, 8000, 15000, 20000, MaxU64}
MCEstimates == {<<>>, <<9, 7>>, [n \in {3, 6} |-> 400]}
MCPayee == {[scan |-> 11, spend |-> 500], [scan |-> 640, spend |-> 77]}

\* Taproot outputs spent by their key, with and without an annex, and by a
\* script, under the NUMS point and not; two P2WPKH keys that cancel; keys the
\* scanner does not read; an input without a key.
MCForeignInput ==
    LET Kind(script, point, items, annex, nums) ==
            {[outpoint |-> o, script |-> script, point |-> point, items |-> items,
              annex |-> annex, nums |-> nums] : o \in 1..MaxForeign}
    IN  Kind("p2tr", 400, 1, FALSE, FALSE) \cup Kind("p2tr", 246, 2, TRUE, FALSE)
        \cup Kind("p2tr", 246, 3, FALSE, TRUE) \cup Kind("p2tr", 310, 3, FALSE, FALSE)
        \cup Kind("p2wpkh", 351, 2, FALSE, FALSE) \cup Kind("p2wpkh", Q - 351, 2, FALSE, FALSE)
        \cup Kind("p2pkh", 90, 0, FALSE, FALSE) \cup Kind("p2wsh", 90, 3, FALSE, FALSE)
=============================================================================
