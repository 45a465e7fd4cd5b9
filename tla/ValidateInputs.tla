--------------------------- MODULE ValidateInputs ---------------------------
(***************************************************************************)
(* validate_block::validate_inputs and connect_input, with                 *)
(* script_hash_signature_operations_count and count_script_sigops,         *)
(* src/src/validate_block.cpp.                                             *)
(*                                                                         *)
(* validate_inputs walks one transaction's inputs in order and stops at    *)
(* the first that fails to connect.  value_in and total_sigops are passed  *)
(* by reference and carry over from the block's earlier transactions.     *)
(* An input is the record of what connect_input reads of it: whether the   *)
(* previous transaction is found, its height and whether it is a coinbase, *)
(* the previous output's value and whether it pays to script hash, the     *)
(* input script's last push (NoRedeem for an empty script, Malformed if    *)
(* it does not parse), the script executor's verdict and whether the       *)
(* output is spent.  Heights are size_t, modulo Word.                      *)
(***************************************************************************)
EXTENDS Naturals, Integers, Sequences, SequencesExt

CONSTANTS
    Inputs,             \* the inputs a transaction may have
    MaxInputs,          \* inputs per transaction
    StartValues,        \* value_in on entry
    StartSigops,        \* total_sigops on entry
    BlockHeight,        \* height_
    MaxMoney,           \* max_money()
    MaxScriptSigops,    \* max_block_script_sig_operations
    CoinbaseMaturity,   \* coinbase_maturity
    Word,               \* 2^(bits of size_t)
    NoRedeem, Malformed

VARIABLES
    tx,         \* the inputs connected so far
    valueIn,    \* value_in
    sigops,     \* total_sigops
    start,      \* [value, sigops] on entry
    verdict     \* "running", or validate_inputs' result

vars == <<tx, valueIn, sigops, start, verdict>>

\* Raw opcode values: op_1 .. op_16, checksig(verify), checkmultisig(verify).
OpN == 81..96
Checksig == 172
ChecksigVerify == 173
Checkmultisig == 174
CheckmultisigVerify == 175
BadOperation == 255

\* Mutant: decode_op_n without the + 1.
DecodeOpNNoInc(code) == code - 81

\* decode_op_n: raw_code - op_1 + 1.
DecodeOpN(code) == code - 81 + 1

\* count_script_sigops: checksig(verify) counts 1; checkmultisig(verify)
\* the preceding op_n in accurate mode, else 20.
CountScriptSigops(ops, accurate) ==
    LET OpSigs(op, last) ==
            IF op \in {Checksig, ChecksigVerify} THEN 1
            ELSE IF op \in {Checkmultisig, CheckmultisigVerify}
                 THEN IF accurate /\ last \in OpN THEN DecodeOpN(last) ELSE 20
            ELSE 0
        Step(acc, op) == [total |-> acc.total + OpSigs(op, acc.last), last |-> op]
    IN FoldLeft(Step, [total |-> 0, last |-> BadOperation], ops).total

\* script_hash_signature_operations_count; Malformed stands for the
\* end_of_stream it throws.
ScriptHashSigops(in) ==
    IF ~in.p2sh \/ in.redeem = NoRedeem THEN 0
    ELSE IF in.redeem = Malformed THEN Malformed
    ELSE CountScriptSigops(in.redeem, TRUE)

\* Mutant: the maturity test with <= instead of <.
ImmatureLeq(in) ==
    in.prevCoinbase /\ (BlockHeight - in.prevHeight) % Word <= CoinbaseMaturity

\* The coinbase maturity test; BITCOIN_ASSERT(previous_height <= height_)
\* is compiled out of a release build, and the subtraction is size_t.
Immature(in) ==
    in.prevCoinbase /\ (BlockHeight - in.prevHeight) % Word < CoinbaseMaturity

\* connect_input: its checks in code order, from value_in and total_sigops
\* to [ok, value_in, total_sigops].
ConnectInput(in, v, s) ==
    LET Out(ok, v2, s2) == [ok |-> ok, valueIn |-> v2, sigops |-> s2]
        sh == ScriptHashSigops(in)
        s2 == s + sh
        v2 == v + in.value
    IN IF ~in.found THEN Out(FALSE, v, s)
       ELSE IF sh = Malformed THEN Out(FALSE, v, s)
       ELSE IF s2 > MaxScriptSigops THEN Out(FALSE, v, s2)
       ELSE IF in.value > MaxMoney THEN Out(FALSE, v, s2)
       ELSE IF Immature(in) THEN Out(FALSE, v, s2)
       ELSE IF ~in.script THEN Out(FALSE, v, s2)
       ELSE IF in.spent THEN Out(FALSE, v, s2)
       ELSE Out(v2 <= MaxMoney, v2, s2)

Init ==
    /\ tx = <<>>
    /\ valueIn \in StartValues
    /\ sigops \in StartSigops
    /\ start = [value |-> valueIn, sigops |-> sigops]
    /\ verdict = "running"

\* One iteration of validate_inputs' loop: connect_input on the next input,
\* returning false at the first failure.
ConnectNext(in) ==
    /\ verdict = "running" /\ Len(tx) < MaxInputs
    /\ LET r == ConnectInput(in, valueIn, sigops)
       IN /\ valueIn' = r.valueIn
          /\ sigops' = r.sigops
          /\ verdict' = IF r.ok THEN "running" ELSE "fail"
    /\ tx' = Append(tx, in)
    /\ UNCHANGED start

\* The loop ends after the last input (check_transaction rejects a
\* transaction with none): validate_inputs returns true.
InputsDone ==
    /\ verdict = "running" /\ tx # <<>>
    /\ verdict' = "ok"
    /\ UNCHANGED <<tx, valueIn, sigops, start>>

Next == (\E in \in Inputs : ConnectNext(in)) \/ InputsDone

Spec == Init /\ [][Next]_vars

-----------------------------------------------------------------------------
(* The reference, spec 4.E connect_block step 2 and the sigops-counting    *)
(* rule of 4.E, in plain integers and over whole prefixes.                 *)

SpecSigops(ops, accurate) ==
    LET Sig(k) ==
            IF ops[k] \in {Checksig, ChecksigVerify} THEN 1
            ELSE IF ops[k] \in {Checkmultisig, CheckmultisigVerify}
                 THEN IF accurate /\ k > 1 /\ ops[k - 1] \in OpN
                      THEN ops[k - 1] - 80 ELSE 20
            ELSE 0
    IN SumFunction([k \in DOMAIN ops |-> Sig(k)])

SpecP2shSigops(in) ==
    IF in.p2sh /\ in.redeem \notin {NoRedeem, Malformed}
    THEN SpecSigops(in.redeem, TRUE) ELSE 0

\* The k-th input connects given the totals of inputs 1..k.
SpecConnects(in, valueTotal, sigopTotal) ==
    /\ in.found
    /\ ~(in.p2sh /\ in.redeem = Malformed)
    /\ sigopTotal <= MaxScriptSigops
    /\ in.value <= MaxMoney
    /\ in.prevCoinbase => BlockHeight - in.prevHeight >= CoinbaseMaturity
    /\ in.script /\ ~in.spent
    /\ valueTotal <= MaxMoney

SpecAccepts(s, v0, g0) ==
    \A k \in DOMAIN s :
        LET pre == SubSeq(s, 1, k)
        IN SpecConnects(s[k],
                v0 + SumFunction([j \in DOMAIN pre |-> pre[j].value]),
                g0 + SumFunction([j \in DOMAIN pre |-> SpecP2shSigops(pre[j])]))

-----------------------------------------------------------------------------

TypeOK ==
    /\ tx \in Seq(Inputs) /\ Len(tx) <= MaxInputs
    /\ valueIn \in Nat /\ sigops \in Nat
    /\ verdict \in {"running", "ok", "fail"}

\* validate_inputs accepts a transaction exactly when every input connects
\* under spec 4.E step 2 with value_in and total_sigops summed over the
\* inputs before and including it, from the values the earlier transactions
\* left; on acceptance it leaves value_in and total_sigops at those sums,
\* so every redeem script's operations are counted as spec 4.E's sigops
\* rule says: one per checksig, n per checkmultisig after op_n, else 20.
InputsVerdictMatchesSpec ==
    verdict # "running" =>
        /\ (verdict = "ok") = SpecAccepts(tx, start.value, start.sigops)
        /\ verdict = "ok" =>
             /\ valueIn = start.value + SumFunction([j \in DOMAIN tx |-> tx[j].value])
             /\ sigops = start.sigops + SumFunction([j \in DOMAIN tx |-> SpecP2shSigops(tx[j])])

=============================================================================
