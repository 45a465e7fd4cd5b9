-------------------------- MODULE MC_PopulateBlock --------------------------
(* Blocks of one to three transactions with up to two inputs each: more   *)
(* inputs than threads, fewer, and equal, so that buckets = min(N, I)     *)
(* takes each of 1, 2 and 3.                                              *)
EXTENDS PopulateBlock

MC_Blocks == {<<1>>, <<1, 1>>, <<1, 2>>, <<1, 1, 1>>, <<1, 2, 1>>,
              <<1, 1, 2>>}
=============================================================================
