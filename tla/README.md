# TLA+ models of libbitcoin-blockchain

This directory holds TLA+ models of the concurrent and order-sensitive parts of
libbitcoin-blockchain (`src/src/...`), the TLC configurations that check them,
and `PROJECT.json`, which maps every definition to the source lines it models.

## The system and how its parts interact

| Part | Source | What it does | State |
|---|---|---|---|
| Transaction pool | `src/src/transaction_pool.cpp` | A bounded `boost::circular_buffer` of unconfirmed transactions, each with its confirm handler. All buffer work runs on the threadpool's ordered strand (`dispatch_.ordered`). Validation (`validate_transaction`) runs concurrently and posts `validation_complete` back to the strand. The pool subscribes to the organizer's one-shot reorganize notification and resubscribes in each `reorganize`. | buffer, `stopped_`, strand queue, subscriptions |
| Block population | `src/src/populate/populate_block.cpp` | Before validation, fills every input's previous-output metadata through `fast_chain`. It spreads the work over `min(threads, inputs)` concurrent buckets, joined by a synchronizer. | per-input metadata, bucket progress, join count |
| Chain state population | `src/src/populate/populate_chain_state.cpp` | Reads the bits, version and timestamp windows of a header's chain state, from the header branch and falling back to the indexed chain, or promotes the parent header's kept state. | the state it stores on a promoted header |
| Block validator | `src/src/validate_block.cpp` | `check_block` (context-free), `accept_block` (contextual) and `connect_block` (BIP30, parallel per transaction and per output). They poll the node's stop flag between steps and complete through a handler. | step position, stop flag, BIP30 tasks, synchronizers |
| Organizer | `organizer.hpp` (the `.cpp` is not in the repository) | Commits heavier branches and notifies subscribers (the pool). | indexed chain, pending notices |
| fast_chain, header_entry | headers only | Interfaces and declarations. `fast_chain`'s readers and `reorganize` are modelled inside PopulateChainState. | the header index (fast_chain) |

The interactions that matter:
- **Organizer → pool.** The organizer relays a reorganization on its own thread. The pool's `reorganize` queues `delete_confirmed` or `invalidate_pool` on the strand, behind any `validation_complete` already queued.
- **Validator → pool.** `validate_transaction` finishes on another thread while the strand keeps changing the buffer.
- **Validator phases.** For one block the phases run `check → populate → accept → connect` in turn (spec §5).

## Modules

### TransactionPool (`TransactionPool.tla`, `MC_TransactionPool.tla`)

**State.**
- `buffer`: a sequence of `[tx, handler]` records.
- `stopped`, and the strand queue `ordered`.
- `validating`: validations in flight.
- `answers` and `confirms`: the codes each request's validate and confirm handlers received.
- `crashed`: an empty `std::function` was called, meaning `bad_function_call` and termination.
- The organizer's `chain` and `deliveries`.

**Actions.** One per handler: `Start`, `Stop`, `Submit` (`validate`/`store`), `DoValidate`, `ValidationDone` (`validate_transaction`'s completion, modelled from the spec), `ValidationComplete` (including `store_transaction`), `Reorganize`, `DeleteConfirmed` and `InvalidatePool`.

**Library semantics modelled by what they do.**
- `circular_buffer::push_back` evicts the front after calling its `pool_filled` handler.
- `std::remove_if` without `erase` keeps the size, moves the kept entries forward, and leaves matching entries intact and the others moved-from.
- Whether a moved-from handler is empty is the constant `MovedFromEmpty`: it is unspecified by the standard, and TRUE for libstdc++.

**Organizer.** Its commits (`Extend`, `Reorganization`, `OrganizerStop`) are modelled from spec §4.F. A commit is delivered to every live subscription and consumes it.

### PopulateBlock (`PopulateBlock.tla`, `MC_PopulateBlock.tla`)

`Populate` covers the whole `populate` call:
- the null-state, checkpoint and no-input early returns;
- `populate_coinbase`;
- the dispatch of `min(N, I)` buckets.

Each bucket runs `populate_transactions` as one step per loop iteration (`BucketTransaction` and `BucketInput`), so buckets interleave at the granularity of their writes. `BucketComplete` reports to the synchronizer. The block is a sequence of per-transaction input counts, and `txPops` and `outPops` count the writes to each transaction and input.

### ValidateBlock (`BlockData.tla`, `BlockValidation.tla`, `ValidateBlock.tla`, `MC_ValidateBlock.tla`)

- **`BlockData`** holds the block abstraction. A transaction is the record of what validation reads of it. A block is its transactions, the set of header tests it fails, its height, its version and the height its coinbase pushes. `BlockData` also holds the consensus constants and `legacy_sigops_count`.
- **`BlockValidation`** is the abstract specification (spec §4.E). `check_block`, then `accept_block` if the check succeeded, each complete once with the first failure of the documented order, with success, or with `service_stopped`. It is written independently as a `CASE` over the spec's table. Distinctness and the BIP34 test are its parameters.
- **`ValidateBlock`** models the code:
  - `CheckBlockSteps` and `AcceptBlockSteps` list the lines of `check_block` and `accept_block` in code order, either a test with its error code or a `RETURN_IF_STOPPED` poll.
  - `RunStep` executes one of these lines.
  - `RequestStop` may set the stop flag between any two lines.
  - `connect_block` is `ConnectBlock`, `CheckSpentDuplicate(i)`, `CheckOutputSpent(<<i, j>>)` and `ConnectBlock1`.
  - `Sync` is the dispatcher's synchronizer: the first error or the last success fires it, and later calls are ignored.
  - `is_distinct_tx_set` (adjacent hashes only) and `is_valid_coinbase_height` are operators translated from the code.
  - Refinement: `Order == INSTANCE BlockValidation WITH ...` maps the implementation's completions of check and accept onto the abstract `results`.

### PopulateChainState (`PopulateChainState.tla`, `MC_PopulateChainState.tla`)

**State.**
- `chain`: the fast chain's index, a sequence of headers, `chain[h + 1]` at height `h`. A header is a record of hash, bits, version and time.
- `call`: the `populate(bool)` in progress, with the chain as it was when the call began.
- `cache`: each header's `validation.state`.
- `results`: every returned state, beside the state the reference gives for it.

**Actions.**
- `populate(bool)` is three steps, one per `fast_chain` read: `ReadHeight`, `ReadHash` and `ReadAll`, which is `populate_all` over an empty branch.
- `PopulateBranch(b)` is `populate(branch)`. It returns null for an empty branch. It promotes the parent's kept state and stores the result on the top header. Otherwise it runs `populate_all` over the branch.
- `KeepState` is the organizer storing an accepted header's state.
- `ChainRead(c, h)` is `fast_chain`'s per-height readers: the header at an index height, or a failed read above the top. `View` puts the branch in front of it.
- `Reorganize` is `fast_chain::reorganize`. It runs only between calls, as `fast_chain.hpp` requires of its writers ("the database is not otherwise in use"). Between the three reads of `populate(bool)` it would make the call return nullptr or mix two chains.

**Operators.**
- `View` is the code's reads: the branch, else the fast chain.
- `WindowHeights` is the `size_t` loop `height = high - count; ++height`, modulo `Word`.
- `PopulateAll` is `populate_all` with its four helpers, failing as soon as a read fails.
- `GetMap` (`chain_state::get_map`), `Promote` (the chain_state constructor from a parent) and `Covers`/`TopParent` (`header_branch`) are libbitcoin-system code, modelled from spec 4.C.
- `FromScratch` is the reference: spec 4.C's window entry at `high - count + 1 + i`, read from a non-empty branch above its fork and from the chain otherwise, in plain integers.

### ValidateInputs (`ValidateInputs.tla`, `MC_ValidateInputs.tla`)

`validate_inputs` walks a transaction's inputs and stops at the first that `connect_input` rejects. `value_in` and `total_sigops` are by-reference accumulators that carry over from the block's earlier transactions.
- An input is the record of what `connect_input` reads: whether the previous transaction is found, its height and whether it is a coinbase, the output's value and whether it pays to script hash, the input script's last push (`NoRedeem`, `Malformed` or a script), the script executor's verdict and whether the output is spent.
- `ConnectNext(in)` is one loop iteration, and `InputsDone` is the loop's end.
- `ConnectInput` keeps `connect_input`'s checks in code order. `Immature` is the maturity test with the `size_t` subtraction modulo `Word`; the `BITCOIN_ASSERT` before it is compiled out.
- `ScriptHashSigops`, `CountScriptSigops`, `OpN` and `DecodeOpN` translate the sigops counting over raw opcode values.
- The reference, `SpecAccepts`, is spec 4.E connect step 2 stated over prefixes: input `k` connects given the sums over inputs `1..k`.

### WorkRequired (`WorkRequired.tla`, `MC_WorkRequired.tla`)

`work_required` in both builds and `is_valid_proof_of_work`, applied to each new header of a growing chain. `network` is the build (`main`, or `test` for `ENABLE_TESTNET`), chosen at the start and fixed.
- `chain` is the accepted headers as `[bits, time]` records, and `last` is the code the last submitted header got.
- `Submit(hash, bits, time)` applies the header tests in code order. First come `check_block`'s proof-of-work test and `is_valid_time_stamp` (at most `TwoHourFuture`). Then come `accept_block`'s `bits != work_required()` test and `timestamp <= median_time_past()`. A header that passes all four is appended. Miners offer either the required bits or `max_work_bits`.
- `MedianTimePast` is the virtual `median_time_past`, spec-modelled as the median of the last `MedianSpan` timestamps (fewer at low heights).
- `WorkRequired(c, time)` translates the function: `max_work_bits` at height 0. Off a readjustment height it gives the parent's bits on main net. On testnet it gives `max_work_bits` for a header dated after `MaxTimeGap` (the parent's time plus `2 * target_spacing`, narrowed to `uint32_t`), and `LastNonSpecialBits` otherwise. `Retarget` is the readjustment: the parent's target scaled by the clamped timespan, capped at `max_target` and re-encoded.
- `LastNonSpecialBits` is the testnet lambda's `while (true)` loop as a recursive operator. It stops at a readjustment height, or at the first header below that does not carry `max_work_bits`.
- `hash_number`'s `set_compact` and `compact` come from libbitcoin-system, which is not in this repository. They follow Bitcoin's compact format, scaled to 4-bit digits so TLC's 32-bit integers suffice: three mantissa digits with 0x800 as the sign bit, and `bits = size * 16^3 + mantissa`.
- `actual_timespan` and `previous_block_bits` are virtual. `ActualTimespan` subtracts `uint32` timestamps as the declared `uint64_t` return type implies, modulo `TimeWord`.

## Runs

| Run | cfg | Checks | Shows |
|---|---|---|---|
| pool_safety | `MC_TransactionPool.cfg` | `TypeOK` | Every interleaving of clients, start, stop, validations and the organizer's commits keeps the buffer within capacity; this run is the one that fires every pool action. |
| pool_live | `MC_TransactionPool_live.cfg` | `RequestsAnswered` | Every request that reached the strand gets an answer whatever stop, reorganization or eviction intervenes. |
| pool_confirm_once | `..._confirm_once.cfg` | `ConfirmFiresAtMostOnce` (violated) | The remove_if bug (see Findings). |
| pool_stale_store | `..._stale_store.cfg` | `StoreOnlyUnconfirmed` (violated) | A transaction confirmed during its validation is stored. |
| pool_store_stopped | `..._store_stopped.cfg` | `EveryCallAnswered` (violated) | `store` on a stopped pool never answers. |
| populate | `MC_PopulateBlock.cfg` | `TypeOK`, `MetadataWrittenAtMostOnce`, `ResultAfterAllWork`, `HandlerCalledOnce` | The buckets partition the writes exactly, and the handler fires once, after all of them. |
| block_order | `MC_ValidateBlock.cfg` | `ImplementsValidationOrder`, `EachPhaseCompletesOnce` | The code refines the first-failure specification for every stop timing, and every phase completes exactly once. |
| block_inputs | `MC_ValidateInputs.cfg` | `InputsVerdictMatchesSpec` | `validate_inputs` accepts exactly the spec's transactions, leaves the spec's sums in `value_in` and `total_sigops`, and counts every redeem script of up to two operations. |
| chain_state | `MC_PopulateChainState.cfg` | `TypeOK`, `PopulatedStateMatchesChain` | Full population and promotion both give the spec's state over the branch and the chain, at every low height, across reorganizations between calls. |
| block_work | `MC_WorkRequired.cfg` | `TypeOK`, `RequiredWorkIsMinable`, `BoundedAdjustment`, `TestnetTwentyMinuteRule` | In both builds `work_required` returns canonical bits that `is_valid_proof_of_work` accepts. On main net the target is fixed between readjustments and moves at most fourfold at each one, through rounding, the cap and backward-dated windows. On testnet the backward loop matches spec §6's rule in closed form: a late header gets `max_work_bits`, and any other gets its window's readjustment bits. |
| block_distinct | `MC_ValidateBlock_distinct.cfg` | `RejectsEveryDuplicateTx` (violated) | A block with sound headers and non-adjacent duplicate transactions passes `check_block`. |
| block_coinbase_boundary | `MC_ValidateBlock_boundary.cfg` | `CoinbaseHeightBoundary` (violated) | The off-by-one at `max_version1_height`. |

Every property of a passing run has a mutant in `PROJECT.json`: an operator placed just before the definition it replaces, which reproduces a plausible coding error. TLC finds the property violated when the mutant is used.

## Findings

1. **remove_if without erase** (`transaction_pool.cpp:326`).
   - Confirmed entries stay in the buffer, so their handler fires again on the next delete, invalidation or eviction.
   - The tail holds moved-from entries whose empty handlers can later be called, which throws `bad_function_call` on the strand. The model records this as `crashed`; it has the same cause as the double confirm, so no run of its own checks it.
2. **Stale store** (`transaction_pool.cpp:139`). `validation_complete` re-checks only the pool, not the chain. A transaction that a block confirms while it is being validated is stored after `delete_confirmed` has run, and it stays in the pool. `StoreOnlyUnconfirmed` only counts a store made when no notice is still being relayed and no `delete_confirmed` or `invalidate_pool` is still queued, so it does not flag the benign order in which the removal is still on its way. TLC's trace: the block is committed, `reorganize` queues `delete_confirmed`, the validation finishes, `delete_confirmed` runs on the empty buffer, then `validation_complete` pushes the transaction.
3. **Silent store** (`transaction_pool.cpp:164`). `store` on a stopped pool never calls its handler, contrary to spec §7.
4. **Duplicate transactions** (`validate_block.cpp:187`). `std::unique` on unsorted hashes misses non-adjacent duplicates. The run's blocks pass every header test (`MC_SoundHeaderBlocks`), and in TLC's trace a block with hashes h0, h1, h2, h1 completes `check_block` with success.
5. **Coinbase height** (`validate_block.cpp:411`). The height is enforced at `max_version1_height` itself, which spec §8 says is exempt.

## Bounds and why they suffice

**TransactionPool.**
- Two transactions, three requests (two stores of the same transaction, which makes the duplicate race possible), capacity 1 (each second store evicts), two chain events and two starts (restart after stop).
- Blocks are drawn from `{<<t1>>, <<t2>>, <<t1,t2>>}`, so a reorganization can confirm a pooled transaction.
- The violation runs use capacity 2, which is needed for `remove_if` to leave a confirmed or moved-from tail.
- Liveness uses a smaller configuration: one start and one event.

**PopulateBlock.**
- The blocks include the shapes where a bucket owns no transaction, or more inputs than transactions.
- Thread counts are 1 to 3, so bucket counts range from 1 up to the number of inputs.

**ValidateBlock.**
- Fourteen transaction lists that fail each test, some failing two tests at once so that the order is observable, including a non-adjacent duplicate and BIP30 transactions with spent and unspent outputs.
- Every set of at most two failing header tests.
- Heights `max_version1_height - 1`, `max_version1_height` and `+ 1`, and a BIP30 exception height.
- Versions 1 and 2, with the coinbase pushing the right height or none.

**ValidateInputs.**
- `max_money` is 4 and outputs are worth 0, 1, 2 or 5. `value_in` enters at 0 or 3, so the limit is met within one transaction and across transactions.
- The sigops limit is 23, entered at 0 or 20, so one pessimistic multisig or op_16 accurate count crosses it.
- Block height 3, maturity 2, previous coinbase heights 1 and 2: one mature, one immature. These are within the asserted `previous_height <= height_`.
- Up to three inputs, drawn from one input per failure kind and from P2SH spends whose redeem script is every sequence of up to two of op_0, op_1, op_16, checksig and checkmultisigverify.

**PopulateChainState.**
- Chains of heights 0..1 and 0..3 that share heights 0 and 1, and a chain that differs at height 2. The index starts empty, which exercises the `get_block_height` failure.
- Branches forking at 1 and at 3, with one or two headers, so the second header of each branch is promoted once the first one's state is kept.
- Window sizes 2, 3 and 3, so low heights get shorter windows and height 0 gets none, where `high - count` wraps modulo `Word = 8`.
- Retarget interval 2 and collisions height 2, so both optional reads are requested and unrequested.
- Three calls and two reorganizations.

**WorkRequired.**
- Seven-digit targets, with `max_target = 0x7FF000`. A readjustment every 4 headers at 2 seconds each gives a clamp range of [2, 32]. Heights run to 9, which covers two readjustments and one header past the second. This lets a testnet window open with `max_work_bits` after a window with other bits, which is where a loop that did not stop at the readjustment would read the wrong window.
- Both builds. Deltas of -11, 0, 1 and 12 seconds. A 12 is more than `2 * target_spacing`, so it makes a testnet header late. With a median over 3 headers, a step of 12 followed by one of -11 passes the median test and gives a readjustment window whose last header is earlier than its first. That exercises `actual_timespan`'s unsigned wrap.
- `TwoHourFuture = 64` rejects the fastest-growing chains, and the median over 3 rejects most backward steps, so every outcome of `Submit` occurs. These hit both clamps, a backward-dated window that wraps, the cap, and a target whose leading digit moves onto the sign bit and must be renormalised (a quarter target times 3/8).
- Hashes are 0, `max_target` and the largest hash, so both proof-of-work outcomes occur.

## Fairness

The threadpool runs every item posted to it, so the following are weakly fair:
- the strand steps of the pool (`DoValidate`, `ValidationComplete`, `DeleteConfirmed`, `InvalidatePool`);
- the completion of started validations;
- the organizer's relay to subscribers;
- every bucket step and every validator step and task.

Clients, `start`, `stop`, the organizer's commits and the node's stop request are environment actions with no fairness. `CHECK_DEADLOCK FALSE` is set because every one of these systems really does stop:
- the pool stops once its clients and the chain stop;
- population and validation stop once their handlers are called;
- chain-state population stops once its call bound is reached, and the header chain stops at `MaxHeight`. These runs check only safety, so no fairness is assumed.

## Not modelled

- **The wrap of testnet's `max_time_gap`.** `block_work` keeps timestamps below `TimeWord`. Setting `GenesisTime = 236`, `TwoHourFuture = 300` and `MaxHeight = 7` in `MC_WorkRequired.cfg` makes TLC find `TestnetTwentyMinuteRule` violated. The parent is dated 252, so `max_time_gap` wraps to 0, and a header dated 241 (after the median of 240) gets `max_work_bits`. In the real program this needs timestamps within 1200 seconds of 2^32 (the year 2106), so it is recorded as a hazard, not a run.
- **The direction of the timespan wrap.** `actual_timespan`'s body is not in `src`. The model takes the unsigned difference its type implies. Under it, a backward-dated window (reachable past the median test) eases the target fourfold.
- **The pool's fetch, exists, empty and size.** These only read the buffer: `fetch` and `exists` on the strand, and `empty` and `size` directly. Their answers are the buffer's contents, which the `remove_if` finding already describes. A `fetch` can return a transaction that `delete_confirmed` removed but left in the tail; this is listed as a hazard.
- **A stop inside a strand item.** Each strand item (`validation_complete`, `delete_confirmed`, `invalidate_pool`) is one atomic step, so `stop()` lands only between items and each item reads `stopped_` once. A stop between two `try_delete_tx` calls of one `delete_confirmed` is not modelled, and no property of a stopped pool is checked beyond `RequestsAnswered`.
- **connect_input past its assertion.** A previous height above `height_` wraps the maturity subtraction and passes. `validate_inputs` has no caller in `src`, and no run drives it there.
- **connect_block1.** It completes with `unknown` whatever the BIP30 tasks found. Spec §9 records it as incomplete, so no property asks it to surface the code.
- **Not modelled at all:**
  - the organizer's orphan pool and branch selection (`organizer.cpp` is absent);
  - the rest of `fast_chain` (`push`, `get_work`, the error caches, the stale checks): an interface whose implementation is not in the repository;
  - `header_entry` (declarations only);
  - the script executor and the database (not in the repository).
