--------------------------- MODULE MCBlockDownload ---------------------------
(***************************************************************************)
(* An honest peer and one that need not answer, a branch of two blocks and *)
(* a fork of it with an invalid block; room for two blocks per peer and a  *)
(* window of one, so that both limits are met.                             *)
(***************************************************************************)
EXTENDS BlockDownload

TreePath ==
    [g |-> <<"g">>, a |-> <<"g", "a">>, b |-> <<"g", "a", "b">>, x |-> <<"g", "x">>]
TreeBlocks == DOMAIN TreePath
TreeWork == [g |-> 0, a |-> 1, b |-> 2, x |-> 1]

MCBlocks == TreeBlocks
MCPath == TreePath
MCWork == TreeWork
=============================================================================
