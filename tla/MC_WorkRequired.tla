--------------------------- MODULE MC_WorkRequired ---------------------------
(* work_required at a scale TLC can check: targets of seven hex digits, a  *)
(* readjustment every 4 headers aiming at 2 seconds a header, so the clamp *)
(* range is [2, 32]; two readjustments by height 8.                        *)
EXTENDS WorkRequired

MC_MaxTarget == 16 ^ 5 * 7 + 16 ^ 4 * 15 + 16 ^ 3 * 15     \* 0x7FF000
MC_MaxWorkBits == 6 * 16 ^ 3 + 16 ^ 2 * 7 + 16 * 15 + 15    \* 0x67FF
MC_Hashes == {0, MC_MaxTarget, 16 ^ 7 - 1}
MC_Deltas == {-11, 0, 1, 12}
==============================================================================
