---------------------------- MODULE WorkRequired ----------------------------
(***************************************************************************)
(* validate_block::work_required (both builds) and                         *)
(* validate_block::is_valid_proof_of_work, src/src/validate_block.cpp, as  *)
(* the tests accept_block and check_block apply to each new header of a    *)
(* growing chain.                                                          *)
(*                                                                         *)
(* hash_number's compact encoding (libbitcoin-system) is the Bitcoin one   *)
(* scaled down: a digit is 4 bits instead of 8, the mantissa has three     *)
(* digits with 0x800 as its sign bit, and bits = size * 16^3 + mantissa.   *)
(* A target has at most Digits digits.  The chain is a sequence of headers *)
(* [bits, time], chain[h + 1] at height h; a timestamp is a uint32, modulo *)
(* TimeWord.                                                               *)
(***************************************************************************)
EXTENDS Naturals, Integers, Sequences, SequencesExt

CONSTANTS
    Digits,             \* digits of a hash_number
    Interval,           \* readjustment_interval
    Spacing,            \* target_spacing
    MaxTarget,          \* max_target()
    MaxWorkBits,        \* max_work_bits, the compact form of MaxTarget
    GenesisTime,
    Deltas,             \* the time between a header and its parent
    Hashes,             \* header hashes, as numbers
    TimeWord,           \* 2^32, the range of a timestamp
    Networks,           \* the builds: "main", and "test" for ENABLE_TESTNET
    MedianSpan,         \* the timestamps median_time_past takes the median of
    TwoHourFuture,      \* current_time() + hours(2)
    MaxHeight

VARIABLES
    chain,      \* the accepted headers
    last,       \* the code of the last header submitted
    network     \* the build, fixed for a behaviour

vars == <<chain, last, network>>

Timespan == Interval * Spacing      \* target_timespan
Mant == 16 ^ 3                      \* the mantissa's range

\* hash_number::set_compact: [ok, value]; false when negative or overflowing.
SetCompact(bits) ==
    LET size == bits \div Mant
        word == (bits % Mant) % 2048
        value == IF size <= 3 THEN word \div 16 ^ (3 - size)
                 ELSE IF size - 3 > Digits THEN 0 ELSE word * 16 ^ (size - 3)
        negative == word # 0 /\ (bits % Mant) >= 2048
        overflow == word # 0 /\ (size - 3 > Digits \/ value >= 16 ^ Digits)
    IN [ok |-> ~negative /\ ~overflow, value |-> value]

\* The number of digits of n.
RECURSIVE DigitCount(_)
DigitCount(n) == IF n = 0 THEN 0 ELSE 1 + DigitCount(n \div 16)

\* Mutant: compact without moving a mantissa off the sign bit.
CompactNoNormalize(value) ==
    LET size == DigitCount(value)
        c == IF size <= 3 THEN value * 16 ^ (3 - size) ELSE value \div 16 ^ (size - 3)
    IN size * Mant + c

\* hash_number::compact: three leading digits, one more digit of size if the
\* sign bit would be set.
Compact(value) ==
    LET size == DigitCount(value)
        c == IF size <= 3 THEN value * 16 ^ (3 - size) ELSE value \div 16 ^ (size - 3)
    IN IF c >= 2048 THEN (size + 1) * Mant + c \div 16 ELSE size * Mant + c

\* is_valid_proof_of_work: the target decodes, lies in (0, max_target], and
\* the hash is at most the target.
IsValidProofOfWork(hash, bits) ==
    LET t == SetCompact(bits)
    IN t.ok /\ t.value > 0 /\ t.value <= MaxTarget /\ hash <= t.value

\* The virtual readers of validate_block: the parent's bits, and the time
\* from the header interval below to the parent, a difference of uint32
\* timestamps returned as uint64_t.
PreviousBlockBits(c) == Last(c).bits
ActualTimespan(c, interval) ==
    (Last(c).time - c[Len(c) - interval + 1].time) % TimeWord

\* range_constrain.
RangeConstrain(x, lo, hi) == IF x < lo THEN lo ELSE IF x > hi THEN hi ELSE x

\* Mutants: no max_target cap; no range_constrain.
RetargetNoCap(c) ==
    Compact((SetCompact(PreviousBlockBits(c)).value
             * RangeConstrain(ActualTimespan(c, Interval), Timespan \div 4, Timespan * 4))
            \div Timespan)
RetargetUnconstrained(c) ==
    LET r == (SetCompact(PreviousBlockBits(c)).value * ActualTimespan(c, Interval))
             \div Timespan
    IN Compact(IF r > MaxTarget THEN MaxTarget ELSE r)

\* The readjustment: the parent's target scaled by the constrained
\* timespan, capped at max_target, re-encoded.
Retarget(c) ==
    LET r == (SetCompact(PreviousBlockBits(c)).value
              * RangeConstrain(ActualTimespan(c, Interval), Timespan \div 4, Timespan * 4))
             \div Timespan
    IN Compact(IF r > MaxTarget THEN MaxTarget ELSE r)

\* Mutant: the loop without its stop at a readjustment height.
RECURSIVE LastNonSpecialBitsNoStop(_, _, _)
LastNonSpecialBitsNoStop(c, ph, bits) ==
    IF ph = 0 THEN bits
    ELSE IF c[ph].bits # MaxWorkBits THEN c[ph].bits
    ELSE LastNonSpecialBitsNoStop(c, ph - 1, c[ph].bits)

\* The testnet lambda last_non_special_bits: from previous_height = height_,
\* stop at a readjustment height, else step down, fetch that header
\* (c[ph] is the one at height ph - 1) and stop unless it has max_work_bits.
RECURSIVE LastNonSpecialBits(_, _, _)
LastNonSpecialBits(c, ph, bits) ==
    IF ph % Interval = 0 THEN bits
    ELSE IF c[ph].bits # MaxWorkBits THEN c[ph].bits
    ELSE LastNonSpecialBits(c, ph - 1, c[ph].bits)

\* Testnet's max_time_gap: the parent's timestamp plus 2 * target_spacing,
\* narrowed to uint32_t.
MaxTimeGap(c) == (Last(c).time + 2 * Spacing) % TimeWord

\* work_required for a header dated time at height Len(c): max_work_bits at
\* the genesis; off a readjustment height the parent's bits, or on testnet
\* max_work_bits for a late header and the last non-special bits otherwise;
\* else the readjustment.
WorkRequired(c, time) ==
    CASE Len(c) = 0 -> MaxWorkBits
      [] Len(c) % Interval # 0 /\ network = "test" ->
            IF time > MaxTimeGap(c) THEN MaxWorkBits
            ELSE LastNonSpecialBits(c, Len(c), 0)
      [] Len(c) % Interval # 0 -> PreviousBlockBits(c)
      [] OTHER -> Retarget(c)

\* is_valid_time_stamp: no later than two hours from now.
IsValidTimeStamp(time) == time <= TwoHourFuture

\* The virtual median_time_past: the median of the last MedianSpan
\* timestamps, fewer at low heights (spec 4.C), 0 below the genesis.
MedianTimePast(c) ==
    LET w == SubSeq(c, IF Len(c) > MedianSpan THEN Len(c) - MedianSpan + 1 ELSE 1, Len(c))
        ts == SortSeq([i \in DOMAIN w |-> w[i].time], <)
    IN IF c = <<>> THEN 0 ELSE ts[Len(ts) \div 2 + 1]

\* The timestamp of a header dated dt after the top.
HeaderTime(dt) == IF chain = <<>> THEN GenesisTime ELSE Last(chain).time + dt

Init ==
    /\ chain = <<>>
    /\ last = "none"
    /\ network \in Networks

\* A header arrives with a hash, its bits and a timestamp: check_block's
\* proof-of-work and timestamp tests, then accept_block's work_required
\* and median-time-past tests, in code order.
Submit(hash, bits, time) ==
    /\ Len(chain) <= MaxHeight /\ time \in 0..(TimeWord - 1)
    /\ IF ~IsValidProofOfWork(hash, bits)
       THEN last' = "proof_of_work" /\ UNCHANGED chain
       ELSE IF ~IsValidTimeStamp(time)
       THEN last' = "futuristic_timestamp" /\ UNCHANGED chain
       ELSE IF bits # WorkRequired(chain, time)
       THEN last' = "incorrect_proof_of_work" /\ UNCHANGED chain
       ELSE IF time <= MedianTimePast(chain)
       THEN last' = "timestamp_too_early" /\ UNCHANGED chain
       ELSE last' = "success" /\ chain' = Append(chain, [bits |-> bits, time |-> time])
    /\ UNCHANGED network

\* Miners offer the required bits or the easiest ones.
Next ==
    \E hash \in Hashes, dt \in Deltas :
        \E bits \in {WorkRequired(chain, HeaderTime(dt)), MaxWorkBits} :
            Submit(hash, bits, HeaderTime(dt))

Spec == Init /\ [][Next]_vars

-----------------------------------------------------------------------------

\* Bits are non-negative compact numbers: the mantissa's sign bit is clear,
\* in the chain and in what work_required returns for the next header.
CompactBits == {s * Mant + m : s \in 0..15, m \in 0..2047}

TypeOK ==
    /\ chain \in Seq([bits : CompactBits, time : 0..(TimeWord - 1)])
    /\ Len(chain) <= MaxHeight + 1
    /\ \A dt \in Deltas : WorkRequired(chain, HeaderTime(dt)) \in CompactBits
    /\ network \in Networks
    /\ last \in {"none", "success", "proof_of_work", "futuristic_timestamp",
                 "incorrect_proof_of_work", "timestamp_too_early"}

\* The work accept_block requires of the next header can always be met:
\* work_required's bits pass is_valid_proof_of_work for some hash, so the
\* two tests never reject every successor of a valid chain.
RequiredWorkIsMinable ==
    \A dt \in Deltas : IsValidProofOfWork(0, WorkRequired(chain, HeaderTime(dt)))

Target(k) == SetCompact(chain[k].bits).value

\* Difficulty moves only at readjustment heights, and there by at most a
\* factor of four either way (spec 8.2's clamp), up to the three-digit
\* precision of the compact form (a mantissa of at least 0x80 loses less
\* than 1/128 of the value).
BoundedAdjustment ==
    network = "main" =>
    \A k \in 2..Len(chain) :
        IF (k - 1) % Interval # 0 THEN Target(k) = Target(k - 1)
        ELSE /\ Target(k) <= 4 * Target(k - 1)
             /\ 4 * Target(k) >= Target(k - 1) - Target(k - 1) \div 128

\* Testnet's 20-minute rule (spec 6) in closed form: off a readjustment
\* height, a header dated more than 2 * target_spacing after its parent
\* carries max_work_bits, and any other carries the bits of the
\* readjustment header that opened its window, however many special
\* headers lie between them.
TestnetTwentyMinuteRule ==
    network = "test" =>
    \A k \in 2..Len(chain) :
        (k - 1) % Interval # 0 =>
            chain[k].bits = IF chain[k].time > chain[k - 1].time + 2 * Spacing
                            THEN MaxWorkBits
                            ELSE chain[k - ((k - 1) % Interval)].bits

=============================================================================
