------------------------------ MODULE BlockData ------------------------------
(***************************************************************************)
(* The block abstraction shared by the validator and its specification,    *)
(* and the consensus constants of src/src/validate_block.cpp.              *)
(*                                                                         *)
(* A transaction is a record of what validation reads of it:               *)
(*   hash      its txid (a model value)                                    *)
(*   coinbase  is_coinbase()                                               *)
(*   ok        validate_transaction::check_transaction(tx) succeeds        *)
(*   final     is_final(height, timestamp)                                 *)
(*   sigops    legacy_sigops_count(tx), its scripts' pessimistic count     *)
(*   exists    transaction_exists(hash) in the indexed chain               *)
(*   spent     is_output_spent of each output of that earlier transaction  *)
(* A block is a record of its transactions and of its header facts:        *)
(*   txs       the transaction list                                        *)
(*   fails     the header tests it fails, a subset of HeaderTests          *)
(*   height    the height it is validated at                               *)
(*   version   header.version                                              *)
(*   pushed    the height its coinbase script starts by pushing, or -1     *)
(***************************************************************************)
EXTENDS Naturals, Integers, Sequences, SequencesExt, FiniteSets

\* Header facts abstracted to pass or fail: serialized size, proof of work,
\* timestamp not futuristic, merkle root, bits = work_required, timestamp
\* above median_time_past, checkpoint match.
HeaderTests == {"size", "pow", "time", "merkle", "bits", "mtp", "checkpoint"}

MaxBlockSize == 1000000
MaxBlockSigops == MaxBlockSize \div 50
MaxVersion1Height == 237370
Bip30Exception1 == 91842
Bip30Exception2 == 91880

\* legacy_sigops_count(txs): the sum over the block's transactions.
LegacySigopsCount(txs) == FoldLeft(LAMBDA acc, tx : acc + tx.sigops, 0, txs)

Hashes(txs) == {txs[i].hash : i \in DOMAIN txs}

=============================================================================
