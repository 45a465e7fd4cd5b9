---------------------------- MODULE ValidateBlock ----------------------------
(***************************************************************************)
(* The block validator, src/src/validate_block.cpp: check_block,          *)
(* accept_block and connect_block run in turn on one block.                *)
(*                                                                         *)
(* check_block and accept_block are sequential functions whose only        *)
(* interaction with other threads is RETURN_IF_STOPPED, a read of the      *)
(* node's stop flag.  Each is modelled as its list of steps in code order, *)
(* a step being a test (with its error code) or a stop poll, and one       *)
(* action per step, so that the stop request may land between any two.     *)
(* connect_block fans the BIP30 test out over the dispatcher: one task     *)
(* per transaction, and for a transaction already in the chain one task    *)
(* per output, joined by synchronizers into next_step, an ordered          *)
(* delegate that runs connect_block1.                                      *)
(***************************************************************************)
EXTENDS BlockData

CONSTANT Blocks

VARIABLES
    blk,        \* current_block_ with height_
    phase,      \* "check", "accept", "connect" or "done"
    pc,         \* next step of the running phase (connect: 1 before start)
    stopReq,    \* what stop_callback_ returns
    results,    \* [phase, code] passed to each phase's completion handler
    txTasks,    \* check_spent_duplicate tasks not yet run (tx indices)
    outTasks,   \* check_output_spent tasks not yet run (<<tx, output>>)
    inner,      \* each transaction's "spent_output" synchronizer
    outer,      \* the "spent_tx" synchronizer
    next1Posts  \* connect_block1 calls posted and not yet run

vars == <<blk, phase, pc, stopReq, results, txTasks, outTasks, inner, outer,
          next1Posts>>
connectVars == <<txTasks, outTasks, inner, outer, next1Posts>>

Test(ok, code) == [kind |-> "test", ok |-> ok, code |-> code]
Poll == [kind |-> "poll", ok |-> TRUE, code |-> "service_stopped"]

\* The steps of a loop of k iterations, iteration i contributing body(i).
LoopSteps(k, body(_)) ==
    IF k <= 0 THEN <<>> ELSE FlattenSeq([i \in 1..k |-> body(i)])

\* is_distinct_tx_set: std::unique over the hash list, which collapses
\* only runs of adjacent equal hashes.
IsDistinctTxSet(txs) ==
    \A i \in 1..(Len(txs) - 1) : txs[i].hash # txs[i + 1].hash

\* is_valid_coinbase_height: exempt below max_version1_height, otherwise
\* the coinbase script must start with the serialized height.
IsValidCoinbaseHeight(height, b) ==
    \/ height < MaxVersion1Height
    \/ b.version >= 2 /\ b.txs # <<>> /\ b.pushed = height

\* Mutant: the distinctness test moved ahead of the per-transaction checks.
CheckBlockStepsDistinctFirst(b) ==
    LET txs == b.txs
        n == Len(txs)
    IN  << Test(n > 0 /\ "size" \notin b.fails, "size_limits"),
           Test("pow" \notin b.fails, "proof_of_work"),
           Poll, Test("time" \notin b.fails, "futuristic_timestamp"),
           Poll, Test(n > 0 /\ txs[1].coinbase, "first_not_coinbase") >>
        \o LoopSteps(n - 1, LAMBDA i :
                <<Poll, Test(~txs[i + 1].coinbase, "extra_coinbases")>>)
        \o << Poll, Test(IsDistinctTxSet(txs), "duplicate") >>
        \o LoopSteps(n, LAMBDA i :
                <<Poll, Test(txs[i].ok, "invalid_transaction")>>)
        \o << Poll, Test(LegacySigopsCount(txs) <= MaxBlockSigops,
                         "too_many_sigs"),
              Poll, Test("merkle" \notin b.fails, "merkle_mismatch") >>

CheckBlockSteps(b) ==
    LET txs == b.txs
        n == Len(txs)
    IN  << Test(n > 0 /\ "size" \notin b.fails, "size_limits"),
           Test("pow" \notin b.fails, "proof_of_work"),
           Poll, Test("time" \notin b.fails, "futuristic_timestamp"),
           Poll, Test(n > 0 /\ txs[1].coinbase, "first_not_coinbase") >>
        \o LoopSteps(n - 1, LAMBDA i :
                <<Poll, Test(~txs[i + 1].coinbase, "extra_coinbases")>>)
        \o LoopSteps(n, LAMBDA i :
                <<Poll, Test(txs[i].ok, "invalid_transaction")>>)
        \o << Poll, Test(IsDistinctTxSet(txs), "duplicate"),
              Poll, Test(LegacySigopsCount(txs) <= MaxBlockSigops,
                         "too_many_sigs"),
              Poll, Test("merkle" \notin b.fails, "merkle_mismatch") >>

AcceptBlockSteps(b) ==
    << Test("bits" \notin b.fails, "incorrect_proof_of_work"),
       Poll, Test("mtp" \notin b.fails, "timestamp_too_early"), Poll >>
    \o LoopSteps(Len(b.txs), LAMBDA i :
            <<Test(b.txs[i].final, "non_final_transaction"), Poll>>)
    \o << Test("checkpoint" \notin b.fails, "checkpoints_failed"),
          Poll, Test(~(b.version < 2 /\ b.height > MaxVersion1Height),
                     "old_version_block"),
          Poll, Test(~(b.version >= 2 /\ ~IsValidCoinbaseHeight(b.height, b)),
                     "coinbase_height_mismatch") >>

Steps(p, b) == IF p = "check" THEN CheckBlockSteps(b) ELSE AcceptBlockSteps(b)

NextPhase(p) ==
    CASE p = "check" -> "accept" [] p = "accept" -> "connect" [] OTHER -> "done"
\* complete(code): the phase's handler runs; the block goes on to the next
\* phase only on success.
Finish(code) ==
    /\ results' = Append(results, [phase |-> phase, code |-> code])
    /\ phase' = IF code = "success" THEN NextPhase(phase) ELSE "done"
    /\ pc' = 1

Init ==
    /\ blk \in Blocks
    /\ phase = "check"
    /\ pc = 1
    /\ stopReq = FALSE
    /\ results = <<>>
    /\ txTasks = {} /\ outTasks = {}
    /\ inner = <<>>
    /\ outer = [count |-> 0, fired |-> FALSE]
    /\ next1Posts = 0

-----------------------------------------------------------------------------
(* check_block and accept_block.                                           *)

\* One line of check_block or accept_block: a stop poll that completes with
\* service_stopped, a test that completes with its code, or the final
\* complete(error::success).
RunStep ==
    /\ phase \in {"check", "accept"}
    /\ LET steps == Steps(phase, blk) IN
       IF pc > Len(steps) THEN Finish("success")
       ELSE LET s == steps[pc] IN
            IF s.kind = "poll" /\ stopReq THEN Finish("service_stopped")
            ELSE IF ~s.ok THEN Finish(s.code)
            ELSE pc' = pc + 1 /\ UNCHANGED <<results, phase>>
    /\ UNCHANGED <<blk, stopReq, connectVars>>

\* The node's stop, seen by every later stopped() call.
RequestStop ==
    /\ ~stopReq
    /\ stopReq' = TRUE
    /\ UNCHANGED <<blk, phase, pc, results, connectVars>>

-----------------------------------------------------------------------------
(* connect_block.                                                          *)

\* A synchronizer built by dispatcher::parallel (libbitcoin-system):
\* the first error, or the last of total successes, calls the wrapped
\* handler; every later call is ignored.
\* Mutant: a synchronizer that does not latch once it has fired.
SyncNoLatch(s, ec, total) ==
    IF ec # "success" \/ s.count + 1 = total
    THEN [state |-> [count |-> s.count + 1, fired |-> TRUE], fire |-> TRUE]
    ELSE [state |-> [count |-> s.count + 1, fired |-> FALSE], fire |-> FALSE]

Sync(s, ec, total) ==
    IF s.fired THEN [state |-> s, fire |-> FALSE]
    ELSE IF ec # "success" \/ s.count + 1 = total
         THEN [state |-> [count |-> s.count + 1, fired |-> TRUE], fire |-> TRUE]
         ELSE [state |-> [count |-> s.count + 1, fired |-> FALSE], fire |-> FALSE]

\* The "spent_tx" synchronizer's handler is next_step, which posts
\* connect_block1 to the ordered strand.
OuterComplete(ec) ==
    LET r == Sync(outer, ec, Len(blk.txs)) IN
    /\ outer' = r.state
    /\ next1Posts' = next1Posts + (IF r.fire THEN 1 ELSE 0)

SkipBip30(b) == b.height \in {Bip30Exception1, Bip30Exception2}

\* connect_block: stop poll, then either the BIP30 exception heights call
\* next_step directly, or one check_spent_duplicate task per transaction.
ConnectBlock ==
    /\ phase = "connect" /\ pc = 1
    /\ IF stopReq
       THEN Finish("service_stopped") /\ UNCHANGED connectVars
       ELSE /\ pc' = 2
            /\ UNCHANGED <<results, phase>>
            /\ IF SkipBip30(blk)
               THEN /\ next1Posts' = next1Posts + 1
                    /\ UNCHANGED <<txTasks, outTasks, inner, outer>>
               ELSE /\ txTasks' = DOMAIN blk.txs
                    /\ inner' = [i \in DOMAIN blk.txs |->
                                   [count |-> 0, fired |-> FALSE]]
                    /\ UNCHANGED <<outTasks, outer, next1Posts>>
    /\ UNCHANGED <<blk, stopReq>>

\* check_spent_duplicate(tx): stop poll; success if no earlier transaction
\* has its hash; otherwise one check_output_spent task per output, joined
\* into this transaction's completion.
CheckSpentDuplicate(i) ==
    /\ i \in txTasks
    /\ txTasks' = txTasks \ {i}
    /\ IF stopReq \/ ~blk.txs[i].exists
       THEN /\ OuterComplete(IF stopReq THEN "service_stopped" ELSE "success")
            /\ UNCHANGED outTasks
       ELSE /\ outTasks' = outTasks \cup
                             {<<i, j>> : j \in DOMAIN blk.txs[i].spent}
            /\ UNCHANGED <<outer, next1Posts>>
    /\ UNCHANGED <<blk, phase, pc, stopReq, results, inner>>

\* check_output_spent(point): stop poll, then success only if that output
\* of the earlier transaction is spent.
CheckOutputSpent(t) ==
    /\ t \in outTasks
    /\ outTasks' = outTasks \ {t}
    /\ LET i == t[1]
           ec == IF stopReq THEN "service_stopped"
                 ELSE IF blk.txs[i].spent[t[2]] THEN "success"
                 ELSE "duplicate_or_spent"
           r == Sync(inner[i], ec, Len(blk.txs[i].spent))
       IN /\ inner' = [inner EXCEPT ![i] = r.state]
          /\ IF r.fire THEN OuterComplete(ec)
             ELSE UNCHANGED <<outer, next1Posts>>
    /\ UNCHANGED <<blk, phase, pc, stopReq, results, txTasks>>

\* connect_block1(ec, complete): stop poll, then complete(error::unknown)
\* whatever ec is.
ConnectBlock1 ==
    /\ next1Posts > 0
    /\ next1Posts' = next1Posts - 1
    /\ results' = Append(results, [phase |-> "connect",
                                   code |-> IF stopReq THEN "service_stopped"
                                            ELSE "unknown"])
    /\ phase' = "done"
    /\ UNCHANGED <<blk, pc, stopReq, txTasks, outTasks, inner, outer>>

Next ==
    \/ RunStep
    \/ RequestStop
    \/ ConnectBlock
    \/ \E i \in txTasks : CheckSpentDuplicate(i)
    \/ \E t \in outTasks : CheckOutputSpent(t)
    \/ ConnectBlock1

\* The dispatcher runs every step and task it is given; the stop request
\* comes from outside and need never come.
Fairness ==
    /\ WF_vars(RunStep)
    /\ WF_vars(ConnectBlock)
    /\ WF_vars(\E i \in txTasks : CheckSpentDuplicate(i))
    /\ WF_vars(\E t \in outTasks : CheckOutputSpent(t))
    /\ WF_vars(ConnectBlock1)

Spec == Init /\ [][Next]_vars /\ Fairness

-----------------------------------------------------------------------------
(* Properties.                                                             *)

Phases == {"check", "accept", "connect"}

TypeOK ==
    /\ blk \in Blocks
    /\ phase \in Phases \cup {"done"}
    /\ pc \in Nat \ {0}
    /\ phase \in {"check", "accept"} => pc <= Len(Steps(phase, blk)) + 1
    /\ stopReq \in BOOLEAN
    /\ results \in Seq([phase : Phases, code : STRING])
    /\ txTasks \subseteq DOMAIN blk.txs
    /\ outTasks \subseteq (DOMAIN blk.txs) \X Nat
    /\ outer \in [count : Nat, fired : BOOLEAN]
    /\ next1Posts \in Nat

\* The abstract validator sees the check and accept completions.
ValidationResults == SelectSeq(results, LAMBDA r : r.phase # "connect")

Order == INSTANCE BlockValidation
    WITH results <- ValidationResults,
         Distinct <- IsDistinctTxSet,
         CoinbaseHeightValid <- IsValidCoinbaseHeight

\* check_block and accept_block, with the stop request landing at any
\* line, complete with exactly the first failure of the documented order
\* (spec 4.E), success, or service_stopped, and accept_block runs only
\* after check_block succeeded.
ImplementsValidationOrder == Order!Spec

\* Every phase the block reaches completes exactly once: each
\* RETURN_IF_STOPPED returns after its callback, and the synchronizers
\* call next_step once however many BIP30 tasks fail.
EachPhaseCompletesOnce ==
    /\ <>(phase = "done")
    /\ [](\A p \in Phases :
            Cardinality({k \in DOMAIN results : results[k].phase = p}) <= 1)

\* Spec 4.E check_block test 7 and the design notes: the whole
\* transaction-hash set is distinct.
SpecDistinct(txs) == Cardinality(Hashes(txs)) = Len(txs)

\* Spec 8, boundary behaviours: at heights up to and including
\* max_version1_height the coinbase height is not enforced.
SpecCoinbaseHeightValid(height, b) ==
    height <= MaxVersion1Height \/ b.pushed = height

SpecDistinctOrder == INSTANCE BlockValidation
    WITH results <- ValidationResults,
         Distinct <- SpecDistinct,
         CoinbaseHeightValid <- IsValidCoinbaseHeight

SpecBoundaryOrder == INSTANCE BlockValidation
    WITH results <- ValidationResults,
         Distinct <- IsDistinctTxSet,
         CoinbaseHeightValid <- SpecCoinbaseHeightValid

\* check_block rejects every block whose transaction hashes are not all
\* distinct (spec 4.E test 7), not only blocks with two equal hashes side
\* by side as is_distinct_tx_set's std::unique does.
RejectsEveryDuplicateTx == SpecDistinctOrder!Spec

\* accept_block leaves the coinbase height unenforced at every height up
\* to max_version1_height (spec 8, boundary behaviours), as
\* is_valid_coinbase_height's height < max_version1_height does not at
\* max_version1_height itself.
CoinbaseHeightBoundary == SpecBoundaryOrder!Spec

=============================================================================
