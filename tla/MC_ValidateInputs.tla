------------------------- MODULE MC_ValidateInputs -------------------------
(* Inputs that pass and that fail each check of connect_input, values that *)
(* reach max_money within a transaction or across the block's earlier      *)
(* ones, and redeem scripts counted accurately and pessimistically.        *)
EXTENDS ValidateInputs

In(found, ph, cb, val, p2sh, redeem, ok, spent) ==
    [found |-> found, prevHeight |-> ph, prevCoinbase |-> cb, value |-> val,
     p2sh |-> p2sh, redeem |-> redeem, script |-> ok, spent |-> spent]

\* op_0, op_1, op_16, checksig, checkmultisigverify.
MC_Redeems == SeqOf({0, 81, 96, Checksig, CheckmultisigVerify}, 2) \ {<<>>}

MC_Inputs ==
    { In(TRUE, 0, FALSE, 2, FALSE, NoRedeem, TRUE, FALSE),   \* plain
      In(TRUE, 1, TRUE, 2, FALSE, NoRedeem, TRUE, FALSE),    \* mature coinbase
      In(TRUE, 2, TRUE, 1, FALSE, NoRedeem, TRUE, FALSE),    \* immature coinbase
      In(TRUE, 0, FALSE, 5, FALSE, NoRedeem, TRUE, FALSE),   \* over max_money
      In(FALSE, 0, FALSE, 1, FALSE, NoRedeem, TRUE, FALSE),  \* not found
      In(TRUE, 0, FALSE, 1, FALSE, NoRedeem, FALSE, FALSE),  \* script fails
      In(TRUE, 0, FALSE, 1, FALSE, NoRedeem, TRUE, TRUE),    \* double spend
      In(TRUE, 0, FALSE, 0, TRUE, Malformed, TRUE, FALSE),   \* bad redeem
      In(TRUE, 0, FALSE, 0, TRUE, NoRedeem, TRUE, FALSE),    \* empty input script
      In(TRUE, 0, FALSE, 1, FALSE, <<Checksig>>, TRUE, FALSE) }  \* not p2sh
    \cup
    \* p2sh spends whose redeem script is any of up to two operations
    { In(TRUE, 0, FALSE, 0, TRUE, r, TRUE, FALSE) : r \in MC_Redeems }
=============================================================================
