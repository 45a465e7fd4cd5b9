------------------------- MODULE MC_TransactionPool -------------------------
(* Two transactions; two overlapping stores of t1, a store of t2 and a     *)
(* plain validate of t2.                                                   *)
EXTENDS TransactionPool

MC_Blocks == {<<"t1">>, <<"t2">>, <<"t1", "t2">>}
MC_ReqTx == [r \in Requests |-> IF r \in {"r1", "r2"} THEN "t1" ELSE "t2"]
MC_ReqKind == [r \in Requests |-> IF r = "r4" THEN "validate" ELSE "store"]
\* For the liveness run: a store of each transaction and a validate of t1.
MC_LiveReqTx == [r \in Requests |-> IF r \in {"r1", "r3"} THEN "t1" ELSE "t2"]
MC_LiveReqKind == [r \in Requests |-> IF r = "r3" THEN "validate" ELSE "store"]
=============================================================================
