--------------------------- MODULE MC_ValidateBlock ---------------------------
(***************************************************************************)
(* Blocks for the validator: transaction lists that fail each check_block  *)
(* and accept_block test, some two tests at once so that the order         *)
(* matters, and headers failing at most two header tests, at heights       *)
(* around max_version1_height and at a BIP30 exception height.             *)
(***************************************************************************)
EXTENDS ValidateBlock

MkTx(h, cb, ok, fin, sig, ex, sp) ==
    [hash |-> h, coinbase |-> cb, ok |-> ok, final |-> fin, sigops |-> sig,
     exists |-> ex, spent |-> sp]

cb    == MkTx("h0", TRUE,  TRUE,  TRUE,  1,     FALSE, <<>>)
ta    == MkTx("h1", FALSE, TRUE,  TRUE,  1,     FALSE, <<>>)
tb    == MkTx("h2", FALSE, TRUE,  TRUE,  1,     FALSE, <<>>)
bad   == MkTx("h3", FALSE, FALSE, TRUE,  1,     FALSE, <<>>)
early == MkTx("h4", FALSE, TRUE,  FALSE, 1,     FALSE, <<>>)
hv1   == MkTx("h5", FALSE, TRUE,  TRUE,  12000, FALSE, <<>>)
hv2   == MkTx("h6", FALSE, TRUE,  TRUE,  12000, FALSE, <<>>)
live1 == MkTx("h7", FALSE, TRUE,  TRUE,  1,     TRUE,  <<TRUE, FALSE>>)
live2 == MkTx("h8", FALSE, TRUE,  TRUE,  1,     TRUE,  <<FALSE>>)
gone  == MkTx("h9", FALSE, TRUE,  TRUE,  1,     TRUE,  <<TRUE, TRUE>>)

MC_TxLists ==
    { <<>>, <<ta>>, <<cb>>, <<cb, cb>>, <<cb, bad>>, <<cb, ta, ta>>,
      <<cb, ta, tb, ta>>, <<cb, hv1, hv2>>, <<cb, early>>, <<cb, bad, ta, ta>>,
      <<cb, hv1, hv2, bad>>, <<cb, early, bad>>, <<cb, live1, live2>>,
      <<cb, gone, ta>> }

MC_Heights == {MaxVersion1Height - 1, MaxVersion1Height,
               MaxVersion1Height + 1, Bip30Exception1}

MC_Fails == {f \in SUBSET HeaderTests : Cardinality(f) <= 2}

MC_Blocks ==
    {[txs |-> t, fails |-> f, height |-> h, version |-> v, pushed |-> p] :
        t \in MC_TxLists, f \in MC_Fails, h \in MC_Heights, v \in {1, 2},
        p \in {-1, MaxVersion1Height}}

\* The same blocks with every header test passing, so that check_block's
\* verdict rests on its transaction tests alone.
MC_SoundHeaderBlocks == {b \in MC_Blocks : b.fails = {}}

=============================================================================
