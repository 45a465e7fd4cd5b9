--------------------------- MODULE TransactionPool ---------------------------
(***************************************************************************)
(* The transaction memory pool of src/src/transaction_pool.cpp.            *)
(*                                                                         *)
(* The pool owns a boost::circular_buffer of entries {hash, tx,            *)
(* handle_confirm}.  Every mutation of it runs as a work item of the       *)
(* pool's ordered dispatcher (an asio strand: FIFO, one item at a time),   *)
(* modelled by the queue `ordered`.  validate_transaction runs             *)
(* concurrently between do_validate and validation_complete (`validating`).*)
(* The organizer delivers reorganization notices on its own thread through *)
(* a one-shot subscription that the pool renews in its handler.            *)
(*                                                                         *)
(* An entry is [tx, handler]: `handler` is the store request whose         *)
(* handle_confirm the entry carries, or NoHandler for an entry whose       *)
(* std::function has been moved out of by std::remove_if.  Calling it      *)
(* throws std::bad_function_call out of the strand, which terminates the   *)
(* process (`crashed`).                                                    *)
(***************************************************************************)
EXTENDS Naturals, Sequences, SequencesExt, FiniteSets

CONSTANTS
    Txs,            \* transaction hashes (model values)
    Blocks,         \* blocks the organizer may commit: Seqs of distinct Txs
    Requests,       \* client calls of validate or store, one call each
    ReqTx,          \* [Requests -> Txs]: the transaction of a call
    ReqKind,        \* [Requests -> {"validate", "store"}]
    Capacity,       \* capacity of buffer_, fixed at construction
    NoHandler,      \* a moved-from (empty) std::function
    MovedFromEmpty, \* TRUE iff moving an entry leaves its handler empty
    MaxHeight,      \* bound on the length of the indexed chain
    MaxEvents,      \* bound on organizer commits
    MaxStarts       \* bound on calls of start()

ASSUME /\ ReqTx \in [Requests -> Txs]
       /\ ReqKind \in [Requests -> {"validate", "store"}]
       /\ \A b \in Blocks : b \in Seq(Txs) /\ Len(b) > 0 /\ IsInjective(b)
       /\ Capacity \in Nat \ {0}
       /\ NoHandler \notin Requests
       /\ MovedFromEmpty \in BOOLEAN
       /\ {MaxHeight, MaxEvents, MaxStarts} \subseteq Nat

VARIABLES
    buffer,         \* buffer_: Seq of entries, front first
    stopped,        \* stopped_
    subscriptions,  \* live reorganize subscriptions held by the pool
    starts,         \* calls of start() so far (bounded)
    ordered,        \* work items queued on the pool's ordered dispatcher
    validating,     \* validate_transaction runs in flight, with their result
    submitted,      \* calls the clients have made
    answers,        \* [Requests -> Seq(code)]: handle_validate invocations
    confirms,       \* [Requests -> Seq(code)]: handle_confirm invocations
    crashed,        \* an empty std::function was called: process terminated
    chain,          \* the organizer's indexed chain: Seq of blocks
    deliveries,     \* notices the organizer thread has still to hand over
    chainStopped,   \* the organizer has sent its stop notice
    events          \* organizer commits so far (bounded)

poolVars == <<buffer, stopped, subscriptions, starts, ordered, validating,
              submitted, answers, confirms, crashed>>
chainVars == <<chain, deliveries, chainStopped, events>>
vars == <<poolVars, chainVars>>

Codes == {"success", "service_stopped", "duplicate", "input_not_found",
          "invalid", "pool_filled", "blockchain_reorganized"}
Handlers == Requests \cup {NoHandler}
Entries == [tx : Txs, handler : Handlers]
Notices == [ec : {"success", "service_stopped"},
            new : Seq(Blocks), replaced : Seq(Blocks)]
WorkItems == [op : {"do_validate"}, req : Requests]
        \cup [op : {"validation_complete"}, req : Requests, ec : Codes]
        \cup [op : {"delete_confirmed"}, blocks : Seq(Blocks)]
        \cup [op : {"invalidate_pool"}]

Hashes(buf) == {buf[i].tx : i \in DOMAIN buf}
ChainTxs == UNION {Range(chain[i]) : i \in DOMAIN chain}
BlockTxs(blocks) == FoldLeft(\o, <<>>, blocks)

-----------------------------------------------------------------------------
(* Effects on the pool's data, threaded through loops as a record          *)
(* [buf, conf, dead] so that a throw part way through a loop is exact.     *)

\* entry.handle_confirm(code): an empty std::function throws.
Call(st, h, code) ==
    IF st.dead THEN st
    ELSE IF h = NoHandler THEN [st EXCEPT !.dead = TRUE]
    ELSE [st EXCEPT !.conf[h] = Append(@, code)]

\* The state an entry is left in after std::remove_if moved out of it.
MovedFrom(e) == IF MovedFromEmpty THEN [e EXCEPT !.handler = NoHandler] ELSE e

\* std::remove_if(buffer_.begin(), buffer_.end(), match_and_confirm) with no
\* erase: the kept entries are moved to the front, the size is unchanged,
\* the tail keeps matching entries intact and moved-from copies of the rest.
RemoveIf(buf, h) ==
    LET kept == SelectSeq(buf, LAMBDA e : e.tx # h)
    IN [i \in DOMAIN buf |->
          IF i <= Len(kept) THEN kept[i]
          ELSE IF buf[i].tx = h THEN buf[i] ELSE MovedFrom(buf[i])]

\* try_delete_tx(hash): the predicate confirms each match in order.
TryDeleteTx(st, h) ==
    LET called == FoldLeft(LAMBDA s, e : IF e.tx = h
                                         THEN Call(s, e.handler, "success")
                                         ELSE s,
                           st, st.buf)
    IN IF called.dead THEN called ELSE [called EXCEPT !.buf = RemoveIf(@, h)]

\* buffer_.push_back on a circular buffer, notifying the dropped front.
\* Mutant: push_back that grows past the buffer's capacity.
PushBackUnbounded(st, e) == [st EXCEPT !.buf = Append(@, e)]

PushBack(st, e) ==
    LET filled == IF Len(st.buf) = Capacity
                  THEN Call(st, st.buf[1].handler, "pool_filled") ELSE st
    IN IF filled.dead THEN filled
       ELSE [filled EXCEPT !.buf = IF Len(st.buf) = Capacity
                                   THEN Append(Tail(@), e) ELSE Append(@, e)]

PoolState == [buf |-> buffer, conf |-> confirms, dead |-> crashed]

\* Commit a record produced by the operators above.
SetPool(st) ==
    /\ buffer' = st.buf
    /\ confirms' = st.conf
    /\ crashed' = st.dead

\* Mutant: the service_stopped paths return without calling the handler.
AnswerDropStopped(r, code) ==
    IF code = "service_stopped" THEN UNCHANGED answers
    ELSE answers' = [answers EXCEPT ![r] = Append(@, code)]

Answer(r, code) == answers' = [answers EXCEPT ![r] = Append(@, code)]

TxExists(h) == h \in Hashes(buffer)

\* validate_transaction (not in src): it fails a transaction already in the
\* indexed chain or in the pool, else the script and input checks decide.
ValidationResults(r) ==
    IF ReqTx[r] \in ChainTxs \cup Hashes(buffer) THEN {"duplicate"}
    ELSE {"success", "invalid"}

-----------------------------------------------------------------------------
(* The pool's operations.                                                  *)

\* The constructor: an empty buffer of Capacity, stopped_(true).
Init ==
    /\ buffer = <<>>
    /\ stopped = TRUE
    /\ subscriptions = 0
    /\ starts = 0
    /\ ordered = <<>>
    /\ validating = {}
    /\ submitted = {}
    /\ answers = [r \in Requests |-> <<>>]
    /\ confirms = [r \in Requests |-> <<>>]
    /\ crashed = FALSE
    /\ chain = <<>>
    /\ deliveries = <<>>
    /\ chainStopped = FALSE
    /\ events = 0

\* start(): clear stopped_ and subscribe to reorganizations, unconditionally.
Start ==
    /\ starts < MaxStarts
    /\ starts' = starts + 1
    /\ stopped' = FALSE
    /\ subscriptions' = subscriptions + 1
    /\ UNCHANGED <<buffer, ordered, validating, submitted, answers, confirms,
                   crashed, chainVars>>

\* stop(): public, sets stopped_ only.
Stop ==
    /\ stopped' = TRUE
    /\ UNCHANGED <<buffer, subscriptions, starts, ordered, validating,
                   submitted, answers, confirms, crashed, chainVars>>

\* validate(tx, handler) queues do_validate; store(tx, ...) first returns
\* without calling any handler if the pool is stopped.
Submit(r) ==
    /\ r \notin submitted
    /\ submitted' = submitted \cup {r}
    /\ IF ReqKind[r] = "store" /\ stopped
       THEN UNCHANGED ordered
       ELSE ordered' = Append(ordered, [op |-> "do_validate", req |-> r])
    /\ UNCHANGED <<buffer, stopped, subscriptions, starts, validating,
                   answers, confirms, crashed, chainVars>>

Running(op) == /\ ~crashed
               /\ ordered # <<>>
               /\ Head(ordered).op = op
               /\ ordered' = Tail(ordered)

\* do_validate: answer service_stopped, or start validate_transaction.
DoValidate ==
    /\ Running("do_validate")
    /\ LET r == Head(ordered).req IN
         \/ /\ stopped
            /\ Answer(r, "service_stopped")
            /\ UNCHANGED validating
         \/ /\ ~stopped
            /\ \E ec \in ValidationResults(r) :
                 validating' = validating \cup {[req |-> r, ec |-> ec]}
            /\ UNCHANGED answers
    /\ UNCHANGED <<buffer, stopped, subscriptions, starts, submitted,
                   confirms, crashed, chainVars>>

\* validate_transaction finishes and its ordered_delegate queues
\* validation_complete behind whatever the strand already holds.
ValidationDone ==
    /\ ~crashed
    /\ \E v \in validating :
         /\ validating' = validating \ {v}
         /\ ordered' = Append(ordered, [op |-> "validation_complete",
                                        req |-> v.req, ec |-> v.ec])
    /\ UNCHANGED <<buffer, stopped, subscriptions, starts, submitted,
                   answers, confirms, crashed, chainVars>>

\* validation_complete, with store's wrap_validate around the handler: on
\* success and no duplicate in the buffer a store request pushes its entry
\* (store_transaction) before handle_validate(success) is called.
ValidationComplete ==
    /\ Running("validation_complete")
    /\ LET r == Head(ordered).req
           ec == Head(ordered).ec
           st == PushBack(PoolState, [tx |-> ReqTx[r], handler |-> r])
       IN \/ /\ stopped
             /\ Answer(r, "service_stopped")
             /\ UNCHANGED <<buffer, confirms, crashed>>
          \/ /\ ~stopped /\ ec # "success"
             /\ Answer(r, ec)
             /\ UNCHANGED <<buffer, confirms, crashed>>
          \/ /\ ~stopped /\ ec = "success" /\ TxExists(ReqTx[r])
             /\ Answer(r, "duplicate")
             /\ UNCHANGED <<buffer, confirms, crashed>>
          \/ /\ ~stopped /\ ec = "success" /\ ~TxExists(ReqTx[r])
             /\ IF ReqKind[r] = "store"
                THEN /\ SetPool(st)
                     /\ IF st.dead THEN UNCHANGED answers
                        ELSE Answer(r, "success")
                ELSE /\ Answer(r, "success")
                     /\ UNCHANGED <<buffer, confirms, crashed>>
    /\ UNCHANGED <<stopped, subscriptions, starts, validating, submitted,
                   chainVars>>

\* reorganize(ec, fork, new, replaced), run by the organizer's thread for
\* one subscription: stop on any error; otherwise queue delete_confirmed for
\* a pure extension or invalidate_pool for a true reorganization, and
\* subscribe again.
Reorganize ==
    /\ ~crashed
    /\ deliveries # <<>>
    /\ deliveries' = Tail(deliveries)
    /\ LET n == Head(deliveries) IN
         \/ /\ n.ec # "success"
            /\ stopped' = TRUE
            /\ UNCHANGED <<ordered, subscriptions>>
         \/ /\ n.ec = "success"
            /\ ordered' = Append(ordered,
                 IF n.replaced = <<>>
                 THEN [op |-> "delete_confirmed", blocks |-> n.new]
                 ELSE [op |-> "invalidate_pool"])
            /\ subscriptions' = subscriptions + 1
            /\ UNCHANGED stopped
    /\ UNCHANGED <<buffer, starts, validating, submitted, answers, confirms,
                   crashed, chain, chainStopped, events>>

\* delete_confirmed: unless stopped or empty, try_delete_tx for every
\* transaction of every new block, in block order.
DeleteConfirmed ==
    /\ Running("delete_confirmed")
    /\ IF stopped \/ buffer = <<>>
       THEN UNCHANGED <<buffer, confirms, crashed>>
       ELSE SetPool(FoldLeft(TryDeleteTx, PoolState,
                             BlockTxs(Head(ordered).blocks)))
    /\ UNCHANGED <<stopped, subscriptions, starts, validating, submitted,
                   answers, chainVars>>

\* invalidate_pool: unless stopped, confirm every entry with
\* blockchain_reorganized, front to back, then clear the buffer.
InvalidatePool ==
    /\ Running("invalidate_pool")
    /\ IF stopped
       THEN UNCHANGED <<buffer, confirms, crashed>>
       ELSE LET st == FoldLeft(LAMBDA s, e :
                          Call(s, e.handler, "blockchain_reorganized"),
                        PoolState, buffer)
            IN SetPool(IF st.dead THEN st ELSE [st EXCEPT !.buf = <<>>])
    /\ UNCHANGED <<stopped, subscriptions, starts, validating, submitted,
                   answers, chainVars>>

-----------------------------------------------------------------------------
(* The organizer (organizer.cpp is not in src; modelled from spec 4.F): it *)
(* commits a heavier branch to the indexed chain, then, on its own thread, *)
(* relays the notice to every current subscriber.  The subscription is     *)
(* one-shot: relaying consumes it.  It commits nothing while a relay is    *)
(* still in progress.                                                      *)

\* No transaction is confirmed twice in the indexed chain.
WellFormed(c) == IsInjective(BlockTxs(c))

Commit(c, notice) ==
    /\ ~crashed /\ ~chainStopped
    /\ deliveries = <<>>
    /\ events < MaxEvents
    /\ Len(c) <= MaxHeight /\ WellFormed(c)
    /\ events' = events + 1
    /\ chain' = c
    /\ deliveries' = [i \in 1..subscriptions |-> notice]
    /\ subscriptions' = 0
    /\ UNCHANGED <<buffer, stopped, starts, ordered, validating, submitted,
                   answers, confirms, crashed, chainStopped>>

\* A block extends the indexed top: nothing is replaced.
Extend ==
    \E b \in Blocks :
       Commit(Append(chain, b),
              [ec |-> "success", new |-> <<b>>, replaced |-> <<>>])

\* k indexed blocks are replaced by k + 1 blocks of a heavier branch.
Reorganization ==
    \E k \in 1..Len(chain) :
      \E nb \in [1..(k + 1) -> Blocks] :
        LET fork == Len(chain) - k
        IN Commit(SubSeq(chain, 1, fork) \o nb,
                  [ec |-> "success", new |-> nb,
                   replaced |-> SubSeq(chain, fork + 1, Len(chain))])

\* notify_stop: every subscriber receives service_stopped.
OrganizerStop ==
    /\ ~crashed /\ ~chainStopped
    /\ deliveries = <<>>
    /\ chainStopped' = TRUE
    /\ deliveries' = [i \in 1..subscriptions |->
                        [ec |-> "service_stopped", new |-> <<>>,
                         replaced |-> <<>>]]
    /\ subscriptions' = 0
    /\ UNCHANGED <<buffer, stopped, starts, ordered, validating, submitted,
                   answers, confirms, crashed, chain, events>>

-----------------------------------------------------------------------------

Next ==
    \/ ~crashed /\ (Start \/ Stop \/ \E r \in Requests : Submit(r))
    \/ DoValidate \/ ValidationDone \/ ValidationComplete
    \/ Reorganize \/ DeleteConfirmed \/ InvalidatePool
    \/ Extend \/ Reorganization \/ OrganizerStop

\* The threadpool runs every queued strand item and finishes every started
\* validation; the organizer's relay loop runs to its end.  Clients, start,
\* stop and the organizer's commits are not obliged to happen.
Fairness ==
    /\ WF_vars(DoValidate) /\ WF_vars(ValidationDone)
    /\ WF_vars(ValidationComplete) /\ WF_vars(Reorganize)
    /\ WF_vars(DeleteConfirmed) /\ WF_vars(InvalidatePool)

Spec == Init /\ [][Next]_vars /\ Fairness

-----------------------------------------------------------------------------
(* Properties.                                                             *)

TypeOK ==
    /\ buffer \in Seq(Entries) /\ Len(buffer) <= Capacity
    /\ stopped \in BOOLEAN /\ crashed \in BOOLEAN
    /\ subscriptions \in Nat /\ starts \in 0..MaxStarts
    /\ ordered \in Seq(WorkItems)
    /\ validating \subseteq [req : Requests, ec : Codes]
    /\ submitted \subseteq Requests
    /\ answers \in [Requests -> Seq(Codes)]
    /\ confirms \in [Requests -> Seq(Codes)]
    /\ chain \in Seq(Blocks) /\ Len(chain) <= MaxHeight
    /\ deliveries \in Seq(Notices)
    /\ chainStopped \in BOOLEAN /\ events \in 0..MaxEvents

\* The step in which store request r's entry is pushed (store_transaction
\* runs just before handle_validate(success) in wrap_validate).
StoreStep(r) ==
    /\ ReqKind[r] = "store"
    /\ answers'[r] = Append(answers[r], "success")

InFlight(r) ==
    \/ \E i \in DOMAIN ordered :
         /\ ordered[i].op \in {"do_validate", "validation_complete"}
         /\ ordered[i].req = r
    \/ \E v \in validating : v.req = r

\* Every call that reached the ordered dispatcher gets its handle_validate
\* called, whatever stop, reorganization or capacity eviction intervenes
\* (unless the process died).
RequestsAnswered ==
    \A r \in Requests : InFlight(r) ~> (answers[r] # <<>> \/ crashed)

(* Properties the code does not have (violation runs).                     *)

\* Spec 7 and 8.6: a confirm handler fires at most once per stored entry.
ConfirmFiresAtMostOnce == \A r \in Requests : Len(confirms[r]) <= 1

\* A notice still being relayed, or a delete_confirmed or invalidate_pool
\* still queued on the strand, may yet remove what is stored now.
RemovalPending ==
    \/ deliveries # <<>>
    \/ \E i \in DOMAIN ordered :
         ordered[i].op \in {"delete_confirmed", "invalidate_pool"}

\* Spec 3: a pool entry is destroyed when a new block confirms it; so once
\* every notice of the indexed chain has been relayed and its strand work
\* has run, no store pushes a transaction that chain already confirms.
StoreOnlyUnconfirmed ==
    [][\A r \in Requests :
         StoreStep(r) /\ ~RemovalPending => ReqTx[r] \notin ChainTxs]_vars

\* Spec 7: each handler is invoked exactly once per call.
EveryCallAnswered ==
    \A r \in Requests : r \in submitted ~> (answers[r] # <<>> \/ crashed)

=============================================================================
