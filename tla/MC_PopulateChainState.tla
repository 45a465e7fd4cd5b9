----------------------- MODULE MC_PopulateChainState -----------------------
(* Two fast chains that share heights 0..1 and differ above; branches that *)
(* fork from each, some reaching above the chain they are read against.   *)
EXTENDS PopulateChainState

Hdr(n, b, v, t) == [hash |-> n, bits |-> b, version |-> v, time |-> t]
g0 == Hdr("g0", 1, 1, 10)
a1 == Hdr("a1", 1, 1, 11)
a2 == Hdr("a2", 2, 2, 12)
a3 == Hdr("a3", 2, 2, 13)
b2 == Hdr("b2", 3, 3, 20)
b3 == Hdr("b3", 3, 4, 21)
c4 == Hdr("c4", 4, 4, 30)
c5 == Hdr("c5", 5, 4, 31)

MC_Chains == {<<>>, <<g0, a1>>, <<g0, a1, a2, a3>>, <<g0, a1, b2>>}
MC_Branches ==
    {EmptyBranch,
     [fork |-> 1, parent |-> "a1", headers |-> <<b2>>],
     [fork |-> 1, parent |-> "a1", headers |-> <<b2, b3>>],
     [fork |-> 3, parent |-> "a3", headers |-> <<c4>>],
     [fork |-> 3, parent |-> "a3", headers |-> <<c4, c5>>]}
MC_Word == 8
=============================================================================
