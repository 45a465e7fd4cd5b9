---------------------------- MODULE PopulateBlock ----------------------------
(***************************************************************************)
(* The bucketed population of a block's previous outputs,                  *)
(* src/src/populate/populate_block.cpp.                                    *)
(*                                                                         *)
(* populate() runs on the caller's thread: it obtains the block's chain    *)
(* state, returns early under a checkpoint or with no non-coinbase inputs, *)
(* fixes up the coinbase, and spreads the rest over min(N, inputs) buckets *)
(* run concurrently.  Each bucket populates its transactions (every        *)
(* buckets-th position) and its inputs (global input position modulo       *)
(* buckets), then reports to a synchronizer that calls the single result   *)
(* handler once all buckets have reported.                                 *)
(*                                                                         *)
(* A block is the sequence of its transactions' input counts; positions    *)
(* are 0-based as in the code, so transaction position p is blk[p + 1].    *)
(***************************************************************************)
EXTENDS Naturals, Sequences, SequencesExt, FiniteSets

CONSTANTS
    Blocks,     \* candidate blocks: Seqs of input counts, coinbase first
    Threads     \* candidate dispatcher sizes dispatch_.size()

ASSUME /\ \A b \in Blocks : b \in Seq(Nat \ {0}) /\ Len(b) > 0 /\ b[1] = 1
       /\ Threads \subseteq Nat \ {0}

VARIABLES
    blk,        \* the block being populated
    phase,      \* "idle", "running" (buckets dispatched) or "done"
    buckets,    \* number of buckets dispatched
    skipTxs,    \* blocks are stale and allow_collisions is active
    bpc,        \* [0..buckets-1 -> {"txs", "inputs", "done"}]
    bpos,       \* next transaction position of each bucket's first loop
    bipos,      \* next global input position of each bucket's second loop
    txPops,     \* populate_transaction (or coinbase) calls per tx position
    outPops,    \* metadata writes per input <<tx position, input index>>
    joined,     \* bucket completions the synchronizer has counted
    results     \* codes passed to the populate result handler

vars == <<blk, phase, buckets, skipTxs, bpc, bpos, bipos, txPops, outPops,
          joined, results>>

Codes == {"success", "operation_failed"}
TxPositions(b) == 0..(Len(b) - 1)
Inputs(b) == UNION {{<<p, i>> : i \in 0..(b[p + 1] - 1)} : p \in TxPositions(b)}

\* The non-coinbase inputs in the order of the code's nested loops, so that
\* the element at index k + 1 has input_position k.
RECURSIVE InputsFrom(_, _)
InputsFrom(b, p) ==
    IF p >= Len(b) THEN <<>>
    ELSE [i \in 1..b[p + 1] |-> <<p, i - 1>>] \o InputsFrom(b, p + 1)
NonCoinbaseInputs(b) == InputsFrom(b, 1)

Min2(x, y) == IF x <= y THEN x ELSE y
Buckets == 0..(buckets - 1)

Init ==
    /\ blk = <<>>
    /\ phase = "idle"
    /\ buckets = 0
    /\ skipTxs = FALSE
    /\ bpc = <<>> /\ bpos = <<>> /\ bipos = <<>>
    /\ txPops = <<>> /\ outPops = <<>>
    /\ joined = 0
    /\ results = <<>>

-----------------------------------------------------------------------------

\* populate_coinbase: the coinbase input's metadata is set in place and the
\* coinbase transaction is populated with the state's forks.
PopulateCoinbase(tp, op) ==
    <<[tp EXCEPT ![0] = @ + 1], [op EXCEPT ![<<0, 0>>] = @ + 1]>>

\* The first transaction position a bucket populates: bucket 0 skips the
\* coinbase, already accounted for.
\* Mutants: bucket 0 does not skip the coinbase; positions shifted by one.
FirstPositionNoSkip(bucket, n) == bucket
FirstPositionOffByOne(bucket, n) == bucket - 1

FirstPosition(bucket, n) == IF bucket = 0 THEN n ELSE bucket

\* populate(block, fork_height, handler).  The chain state is null, under a
\* checkpoint, or ordinary; is_blocks_stale and allow_collisions are read
\* by the buckets but fixed for the call.
Populate ==
    /\ phase = "idle"
    /\ \E b \in Blocks, n \in Threads,
          state \in {"null", "checkpoint", "ordinary"},
          stale \in BOOLEAN, collisions \in BOOLEAN :
         LET I == Len(NonCoinbaseInputs(b))
             B == Min2(n, I)
             cb == PopulateCoinbase([p \in TxPositions(b) |-> 0],
                                    [x \in Inputs(b) |-> 0])
         IN /\ blk' = b
            /\ skipTxs' = (stale /\ collisions)
            /\ \/ /\ state = "null"
                  /\ results' = <<"operation_failed">>
                  /\ phase' = "done"
                  /\ UNCHANGED <<buckets, bpc, bpos, bipos, txPops, outPops>>
               \/ /\ state = "checkpoint"
                  /\ results' = <<"success">>
                  /\ phase' = "done"
                  /\ UNCHANGED <<buckets, bpc, bpos, bipos, txPops, outPops>>
               \/ /\ state = "ordinary" /\ I = 0
                  /\ txPops' = cb[1] /\ outPops' = cb[2]
                  /\ results' = <<"success">>
                  /\ phase' = "done"
                  /\ UNCHANGED <<buckets, bpc, bpos, bipos>>
               \/ /\ state = "ordinary" /\ I > 0
                  /\ txPops' = cb[1] /\ outPops' = cb[2]
                  /\ buckets' = B
                  /\ bpc' = [k \in 0..(B - 1) |-> "txs"]
                  /\ bpos' = [k \in 0..(B - 1) |-> FirstPosition(k, B)]
                  /\ bipos' = [k \in 0..(B - 1) |-> 0]
                  /\ phase' = "running"
                  /\ UNCHANGED results
    /\ UNCHANGED joined

\* populate_transactions, first loop: one populate_transaction call, or
\* the whole loop skipped when stale blocks allow collisions.
BucketTransaction(k) ==
    /\ phase = "running" /\ k \in Buckets /\ bpc[k] = "txs"
    /\ IF skipTxs \/ bpos[k] >= Len(blk)
       THEN /\ bpc' = [bpc EXCEPT ![k] = "inputs"]
            /\ UNCHANGED <<bpos, txPops>>
       ELSE /\ txPops' = [txPops EXCEPT ![bpos[k]] = @ + 1]
            /\ bpos' = [bpos EXCEPT ![k] = @ + buckets]
            /\ UNCHANGED bpc
    /\ UNCHANGED <<blk, phase, buckets, skipTxs, bipos, outPops, joined,
                   results>>

\* Whether input_position belongs to the bucket.
Owns(position, k) == position % buckets = k

\* populate_transactions, second loop: one input position, populated by
\* populate_output when it is the bucket's own.
BucketInput(k) ==
    /\ phase = "running" /\ k \in Buckets /\ bpc[k] = "inputs"
    /\ LET ins == NonCoinbaseInputs(blk)
           pos == bipos[k]
       IN IF pos >= Len(ins)
          THEN /\ bpc' = [bpc EXCEPT ![k] = "done"]
               /\ UNCHANGED <<bipos, outPops>>
          ELSE /\ outPops' = IF Owns(pos, k)
                             THEN [outPops EXCEPT ![ins[pos + 1]] = @ + 1]
                             ELSE outPops
               /\ bipos' = [bipos EXCEPT ![k] = @ + 1]
               /\ UNCHANGED bpc
    /\ UNCHANGED <<blk, phase, buckets, skipTxs, bpos, txPops, joined,
                   results>>

\* The count of completions at which the synchronizer calls the handler.
\* Mutants: a synchronizer sized one short, or one over.
JoinCountEarly == buckets - 1
JoinCountLate == buckets + 1

JoinCount == buckets

\* handler(error::success) into the synchronizer built by
\* synchronize(handler, buckets, NAME).
BucketComplete(k) ==
    /\ phase = "running" /\ k \in Buckets /\ bpc[k] = "done"
    /\ bpc' = [bpc EXCEPT ![k] = "reported"]
    /\ joined' = joined + 1
    /\ IF joined + 1 = JoinCount
       THEN results' = Append(results, "success")
       ELSE UNCHANGED results
    /\ UNCHANGED <<blk, phase, buckets, skipTxs, bpos, bipos, txPops, outPops>>

Next ==
    \/ Populate
    \/ \E k \in Buckets : BucketTransaction(k) \/ BucketInput(k)
                          \/ BucketComplete(k)

\* The concurrent dispatcher runs every bucket it was given.
Spec == Init /\ [][Next]_vars
             /\ \A k \in 0..(Max(Threads) - 1) :
                  WF_vars(BucketTransaction(k) \/ BucketInput(k)
                          \/ BucketComplete(k))

-----------------------------------------------------------------------------
(* Properties.                                                             *)

TypeOK ==
    /\ phase \in {"idle", "running", "done"}
    /\ buckets \in 0..Max(Threads)
    /\ skipTxs \in BOOLEAN
    /\ bpc \in [Buckets -> {"txs", "inputs", "done", "reported"}]
    /\ bpos \in [Buckets -> Nat] /\ bipos \in [Buckets -> Nat]
    /\ joined \in 0..buckets
    /\ results \in Seq(Codes)
    /\ phase # "idle" =>
         /\ blk \in Blocks
         /\ txPops \in [TxPositions(blk) -> Nat] \/ txPops = <<>>
         /\ outPops \in [Inputs(blk) -> Nat] \/ outPops = <<>>

\* Buckets run concurrently with no synchronization on metadata: that is
\* sound only if no transaction and no input is ever written by two
\* buckets, nor by a bucket and the coinbase fixup.
MetadataWrittenAtMostOnce ==
    /\ \A p \in DOMAIN txPops : txPops[p] <= 1
    /\ \A x \in DOMAIN outPops : outPops[x] <= 1

\* When the synchronizer calls the result handler with success, every
\* input's metadata has been written exactly once and every transaction
\* populated exactly once (non-coinbase ones not at all when the
\* collision pass is skipped): no bucket is still working.
ResultAfterAllWork ==
    (phase = "running" /\ results # <<>>) =>
       /\ \A x \in Inputs(blk) : outPops[x] = 1
       /\ \A p \in TxPositions(blk) :
            txPops[p] = IF p = 0 \/ ~skipTxs THEN 1 ELSE 0

\* Once populate is called, the result handler is eventually called, and
\* exactly once.
HandlerCalledOnce == (phase # "idle") ~> [](Len(results) = 1)

=============================================================================
