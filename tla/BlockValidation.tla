--------------------------- MODULE BlockValidation ---------------------------
(***************************************************************************)
(* What the validator promises (spec 4.E): check_block, then accept_block  *)
(* if it succeeded, each completes exactly once with the first failing     *)
(* test of its documented order, success, or service_stopped.  The two    *)
(* predicates on which the spec and the code might part are parameters.    *)
(***************************************************************************)
EXTENDS BlockData

CONSTANTS
    Blocks,
    Distinct(_),                \* the transaction set is distinct
    CoinbaseHeightValid(_, _)   \* (height, block): the BIP34 test passes

VARIABLES blk, results

\* Spec 4.E, check_block table, first failure wins.
CheckResult(b) ==
    LET txs == b.txs IN
    CASE txs = <<>> \/ "size" \in b.fails -> "size_limits"
      [] "pow" \in b.fails -> "proof_of_work"
      [] "time" \in b.fails -> "futuristic_timestamp"
      [] ~txs[1].coinbase -> "first_not_coinbase"
      [] \E i \in 2..Len(txs) : txs[i].coinbase -> "extra_coinbases"
      [] \E i \in 1..Len(txs) : ~txs[i].ok -> "invalid_transaction"
      [] ~Distinct(txs) -> "duplicate"
      [] LegacySigopsCount(txs) > MaxBlockSigops -> "too_many_sigs"
      [] "merkle" \in b.fails -> "merkle_mismatch"
      [] OTHER -> "success"

\* Spec 4.E, accept_block, first failure wins.
AcceptResult(b) ==
    CASE "bits" \in b.fails -> "incorrect_proof_of_work"
      [] "mtp" \in b.fails -> "timestamp_too_early"
      [] \E i \in 1..Len(b.txs) : ~b.txs[i].final -> "non_final_transaction"
      [] "checkpoint" \in b.fails -> "checkpoints_failed"
      [] b.version < 2 /\ b.height > MaxVersion1Height -> "old_version_block"
      [] b.version >= 2 /\ ~CoinbaseHeightValid(b.height, b)
           -> "coinbase_height_mismatch"
      [] OTHER -> "success"

Reference(phase, b) ==
    IF phase = "check" THEN CheckResult(b) ELSE AcceptResult(b)

Init == blk \in Blocks /\ results = <<>>

\* The next phase completes, provided the previous one succeeded.
Complete ==
    /\ Len(results) < 2
    /\ results = <<>> \/ results[1].code = "success"
    /\ LET phase == IF results = <<>> THEN "check" ELSE "accept" IN
         \E code \in {Reference(phase, blk), "service_stopped"} :
            results' = Append(results, [phase |-> phase, code |-> code])
    /\ UNCHANGED blk

Spec == Init /\ [][Complete]_<<blk, results>>

=============================================================================
