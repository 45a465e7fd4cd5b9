------------------------- MODULE PopulateChainState -------------------------
(***************************************************************************)
(* Chain-state population, src/src/populate/populate_chain_state.cpp.      *)
(*                                                                         *)
(* A chain state is the data of chain_state::data: the ordered windows of  *)
(* bits, versions and timestamps that chain_state::get_map requests below  *)
(* a height, the "self" values at that height, the retarget timestamp and  *)
(* the allow-collisions hash.  Every value is read from the header branch  *)
(* first and from the fast chain when the branch does not cover the        *)
(* height.  populate(bool) reads the fast chain's top, its hash and then   *)
(* the windows in separate calls; populate(branch) promotes the parent's   *)
(* cached state when there is one.                                          *)
(*                                                                         *)
(* The fast chain is a sequence of headers, chain[h + 1] at height h, that *)
(* fast_chain::reorganize may replace; a header is a record of hash, bits, *)
(* version and time.  size_t arithmetic is modulo Word.                    *)
(***************************************************************************)
EXTENDS Naturals, Integers, Sequences, SequencesExt, FiniteSets

CONSTANTS
    Chains,             \* the fast chain's possible header indexes
    Branches,           \* header branches: [fork, parent, headers]
    BitsCount, VersionCount, TimestampCount,   \* get_map's window sizes
    RetargetInterval,   \* readjustment_interval
    CollisionsHeight,   \* the allow_collisions checkpoint height
    Word,               \* 2^(bits of size_t)
    Unrequested,        \* chain_state::map::unrequested
    Unspecified,        \* unspecified_timestamp
    NullHash,           \* null_hash
    NoHeader, NoState,  \* a read that fails; a null chain_state::ptr
    MaxCalls, MaxWrites

VARIABLES
    chain,      \* the fast chain's current index
    writes,     \* reorganizations so far
    call,       \* the populate(bool) in progress: pc, height, hash, start
    calls,      \* populate calls so far
    cache,      \* header hash -> its validation.state, or NoState
    results     \* [state, expected, top] of every completed populate

vars == <<chain, writes, call, calls, cache, results>>

Headers == UNION {Range(c) : c \in Chains} \cup
           UNION {Range(b.headers) : b \in Branches}
Heights == 0..(Word - 1)
EmptyBranch == [fork |-> 0, parent |-> NullHash, headers |-> <<>>]

\* header_branch (libbitcoin-system): covers fork + 1 .. fork + Len(headers).
Covers(b, h) == b.fork < h /\ h <= b.fork + Len(b.headers)
TopParent(b) == IF Len(b.headers) > 1 THEN b.headers[Len(b.headers) - 1]
                ELSE NoHeader

\* fast_chain's get_block_hash, get_bits, get_timestamp and get_version at
\* an index height: the header there, or a failed read above the top.
ChainRead(c, h) == IF h < Len(c) THEN c[h + 1] ELSE NoHeader

\* get_bits, get_version, get_timestamp, get_block_hash: the branch, or
\* else the fast chain; the header read at every height, or NoHeader.
View(c, b) ==
    [h \in Heights |-> IF Covers(b, h) THEN b.headers[h - b.fork]
                       ELSE ChainRead(c, h)]

\* chain_state::get_map (libbitcoin-system), per spec 4.C: windows ending
\* below the height, self values at it, the retarget timestamp at a
\* readjustment height, the collisions hash once its height is reached.
Window(height, n) == [high |-> (height - 1) % Word, count |-> Min({height, n})]
GetMap(height) ==
    [bits |-> Window(height, BitsCount), bitsSelf |-> height,
     version |-> Window(height, VersionCount), versionSelf |-> height,
     timestamp |-> Window(height, TimestampCount), timestampSelf |-> height,
     timestampRetarget |->
        IF height > 0 /\ height % RetargetInterval = 0
        THEN height - RetargetInterval ELSE Unrequested,
     collisions |-> IF CollisionsHeight <= height THEN CollisionsHeight
                    ELSE Unrequested]

\* Mutants: a window one short, or shifted one height up.
WindowHeightsShort(high, count) ==
    [i \in 1..(count - 1) |-> (high - count + i) % Word]
WindowHeightsShifted(high, count) ==
    [i \in 1..count |-> (high - count + i + 1) % Word]

\* height = high - count, then ++height before each read, in size_t.
WindowHeights(high, count) == [i \in 1..count |-> (high - count + i) % Word]

\* populate_all: populate_bits, populate_versions, populate_timestamps and
\* populate_checkpoint, failing (nullptr) if any read fails.
PopulateAll(height, hash, view) ==
    LET m == GetMap(height)
        bh == WindowHeights(m.bits.high, m.bits.count)
        vh == WindowHeights(m.version.high, m.version.count)
        th == WindowHeights(m.timestamp.high, m.timestamp.count)
        extra == {x \in {m.timestampRetarget, m.collisions} : x # Unrequested}
        needed == Range(bh) \cup Range(vh) \cup Range(th) \cup extra
                  \cup {m.bitsSelf, m.versionSelf, m.timestampSelf}
    IN IF \E h \in needed : view[h] = NoHeader THEN NoState
       ELSE [height |-> height, hash |-> hash,
             bits |-> [i \in DOMAIN bh |-> view[bh[i]].bits],
             bitsSelf |-> view[m.bitsSelf].bits,
             version |-> [i \in DOMAIN vh |-> view[vh[i]].version],
             versionSelf |-> view[m.versionSelf].version,
             timestamp |-> [i \in DOMAIN th |-> view[th[i]].time],
             timestampSelf |-> view[m.timestampSelf].time,
             retarget |-> IF m.timestampRetarget = Unrequested THEN Unspecified
                          ELSE view[m.timestampRetarget].time,
             collisionsHash |-> IF m.collisions = Unrequested THEN NullHash
                                ELSE view[m.collisions].hash]

\* The chain_state constructor from the parent's state and the new header
\* (libbitcoin-system), per spec 4.C promotion: append the parent's self
\* values to its windows, keep the last count, take the header's values.
Promote(ps, top) ==
    LET h == ps.height + 1
        m == GetMap(h)
        LastOf(s, n) == SubSeq(s, Len(s) - n + 1, Len(s))
        times == Append(ps.timestamp, ps.timestampSelf)  \* heights up to h - 1
    IN [height |-> h, hash |-> top.hash,
        bits |-> LastOf(Append(ps.bits, ps.bitsSelf), m.bits.count),
        bitsSelf |-> top.bits,
        version |-> LastOf(Append(ps.version, ps.versionSelf), m.version.count),
        versionSelf |-> top.version,
        timestamp |-> LastOf(times, m.timestamp.count),
        timestampSelf |-> top.time,
        retarget |-> IF m.timestampRetarget = Unrequested THEN Unspecified
                     ELSE times[Len(times) - (h - 1 - m.timestampRetarget)],
        collisionsHash |-> IF m.collisions = Unrequested THEN NullHash
                           ELSE IF m.collisions = h THEN top.hash
                           ELSE ps.collisionsHash]

-----------------------------------------------------------------------------
(* The reference: spec 4.C, the value at height high - count + 1 + i of    *)
(* the i-th window entry, read from a non-empty branch above its fork     *)
(* point and from the indexed chain otherwise; None if any is missing.     *)

SpecRead(c, b, h) ==
    IF b.headers # <<>> /\ h > b.fork
    THEN IF h - b.fork <= Len(b.headers) THEN b.headers[h - b.fork] ELSE NoHeader
    ELSE IF h < Len(c) THEN c[h + 1] ELSE NoHeader

FromScratch(height, hash, c, b) ==
    LET m == GetMap(height)
        Win(w) == [i \in 1..w.count |-> SpecRead(c, b, height - w.count + i - 1)]
        Needed(w) == {height - w.count + i - 1 : i \in 1..w.count}
        req == Needed(m.bits) \cup Needed(m.version) \cup Needed(m.timestamp)
               \cup {height}
               \cup {x \in {m.timestampRetarget, m.collisions} : x # Unrequested}
    IN IF \E h \in req : SpecRead(c, b, h) = NoHeader THEN NoState
       ELSE [height |-> height, hash |-> hash,
             bits |-> [i \in 1..m.bits.count |-> Win(m.bits)[i].bits],
             bitsSelf |-> SpecRead(c, b, height).bits,
             version |-> [i \in 1..m.version.count |-> Win(m.version)[i].version],
             versionSelf |-> SpecRead(c, b, height).version,
             timestamp |-> [i \in 1..m.timestamp.count |-> Win(m.timestamp)[i].time],
             timestampSelf |-> SpecRead(c, b, height).time,
             retarget |-> IF m.timestampRetarget = Unrequested THEN Unspecified
                          ELSE SpecRead(c, b, m.timestampRetarget).time,
             collisionsHash |-> IF m.collisions = Unrequested THEN NullHash
                                ELSE SpecRead(c, b, m.collisions).hash]

\* What populate(bool) should return for the fast chain c.
ExpectedTop(c) ==
    IF c = <<>> THEN NoState
    ELSE FromScratch(Len(c) - 1, c[Len(c)].hash, c, EmptyBranch)

\* What populate(branch) should return for branch b over fast chain c.
ExpectedBranch(c, b) ==
    IF b.headers = <<>> THEN NoState
    ELSE FromScratch(b.fork + Len(b.headers), Last(b.headers).hash, c, b)

-----------------------------------------------------------------------------
(* The populate calls and the fast chain's writer.                          *)

StatePending == [pc : {"idle"}] \cup [pc : {"hash", "all"}, height : Heights,
                                       hash : {h.hash : h \in Headers} \cup {NullHash},
                                       start : Chains]

Init ==
    /\ chain \in Chains
    /\ writes = 0
    /\ call = [pc |-> "idle"]
    /\ calls = 0
    /\ cache = [h \in {x.hash : x \in Headers} |-> NoState]
    /\ results = <<>>

Record(state, expected, top) ==
    results' = Append(results, [state |-> state, expected |-> expected,
                                top |-> top])

\* populate(bool): fast_chain_.get_block_height fails on an empty index.
ReadHeight ==
    /\ call.pc = "idle" /\ calls < MaxCalls
    /\ calls' = calls + 1
    /\ IF chain = <<>>
       THEN /\ Record(NoState, ExpectedTop(chain), NoHeader)
            /\ UNCHANGED call
       ELSE /\ call' = [pc |-> "hash", height |-> Len(chain) - 1,
                        hash |-> NullHash, start |-> chain]
            /\ UNCHANGED results
    /\ UNCHANGED <<chain, writes, cache>>

\* populate(bool): fast_chain_.get_block_hash(height), a separate read.
ReadHash ==
    /\ call.pc = "hash"
    /\ IF ChainRead(chain, call.height) # NoHeader
       THEN /\ call' = [call EXCEPT !.pc = "all", !.hash = ChainRead(chain, call.height).hash]
            /\ UNCHANGED results
       ELSE /\ Record(NoState, ExpectedTop(call.start), NoHeader)
            /\ call' = [pc |-> "idle"]
    /\ UNCHANGED <<chain, writes, calls, cache>>

\* populate(bool): populate_all over an empty branch, then make_shared.
ReadAll ==
    /\ call.pc = "all"
    /\ Record(PopulateAll(call.height, call.hash, View(chain, EmptyBranch)),
              ExpectedTop(call.start), NoHeader)
    /\ call' = [pc |-> "idle"]
    /\ UNCHANGED <<chain, writes, calls, cache>>

\* The organizer builds a branch on a fork point of the index (spec 4.F).
OnIndex(b) ==
    b.headers = <<>> \/ (b.fork < Len(chain) /\ chain[b.fork + 1].hash = b.parent)

\* populate(branch): empty -> {}; promote a cached parent state and store
\* it on the top header; else populate_all over the branch.
PopulateBranch(b) ==
    /\ call.pc = "idle" /\ calls < MaxCalls /\ OnIndex(b)
    /\ calls' = calls + 1
    /\ IF b.headers = <<>>
       THEN /\ Record(NoState, ExpectedBranch(chain, b), NoHeader)
            /\ UNCHANGED cache
       ELSE LET top == Last(b.headers)
                parent == TopParent(b)
            IN IF parent # NoHeader /\ cache[parent.hash] # NoState
               THEN LET state == Promote(cache[parent.hash], top)
                    IN /\ cache' = [cache EXCEPT ![top.hash] = state]
                       /\ Record(state, ExpectedBranch(chain, b), top)
               ELSE /\ Record(PopulateAll(b.fork + Len(b.headers), top.hash,
                                          View(chain, b)),
                              ExpectedBranch(chain, b), top)
                    /\ UNCHANGED cache
    /\ UNCHANGED <<chain, writes, call>>

\* The organizer keeps the state it validated a header with on that header
\* (header.validation.state), which later promotions read.
KeepState(k) ==
    /\ results[k].top # NoHeader /\ results[k].state # NoState
    /\ cache' = [cache EXCEPT ![results[k].top.hash] = results[k].state]
    /\ UNCHANGED <<chain, writes, call, calls, results>>

\* fast_chain::reorganize, which never pops the genesis.  fast_chain.hpp:
\* "Caller must ensure the database is not otherwise in use during these
\* calls", so it runs only between populate calls.
Reorganize(c) ==
    /\ writes < MaxWrites /\ c # chain /\ c # <<>>
    /\ call.pc = "idle"
    /\ chain' = c
    /\ writes' = writes + 1
    /\ UNCHANGED <<call, calls, cache, results>>

Next ==
    \/ ReadHeight \/ ReadHash \/ ReadAll
    \/ \E b \in Branches : PopulateBranch(b)
    \/ \E k \in DOMAIN results : KeepState(k)
    \/ \E c \in Chains : Reorganize(c)

Spec == Init /\ [][Next]_vars

-----------------------------------------------------------------------------

TypeOK ==
    /\ chain \in Chains
    /\ call \in StatePending
    /\ writes \in 0..MaxWrites /\ calls \in 0..MaxCalls
    /\ \A k \in DOMAIN results :
         LET s == results[k].state
         IN s # NoState =>
              /\ Len(s.bits) = GetMap(s.height).bits.count
              /\ Len(s.version) = GetMap(s.height).version.count
              /\ Len(s.timestamp) = GetMap(s.height).timestamp.count

\* Every chain state populate returns, read from scratch through the branch
\* and the fast chain or promoted from a header's kept state, is exactly
\* the one spec 4.C defines over the chain as it was when the call began,
\* and it is null exactly when a height that get_map requests is missing.
PopulatedStateMatchesChain ==
    \A k \in DOMAIN results : results[k].state = results[k].expected

=============================================================================
