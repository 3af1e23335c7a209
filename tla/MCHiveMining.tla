---------------------------- MODULE MCHiveMining ----------------------------
(***************************************************************************)
(* A tree with a branch that overtakes at the same height and one that     *)
(* overtakes at a lower height; a transaction confirmed at different       *)
(* heights on the two branches; and a block this node can mint itself.     *)
(***************************************************************************)
EXTENDS HiveMining

TreePath ==
    [g |-> <<"g">>, a1 |-> <<"g", "a1">>, a2 |-> <<"g", "a1", "a2">>,
     a3 |-> <<"g", "a1", "a2", "a3">>,
     b2 |-> <<"g", "a1", "b2">>, b3 |-> <<"g", "a1", "b2", "b3">>,
     b4 |-> <<"g", "a1", "b2", "b3", "b4">>]
TreeBlocks == DOMAIN TreePath
TreeWork == [g |-> 0, a1 |-> 1, a2 |-> 2, a3 |-> 3, b2 |-> 4, b3 |-> 5, b4 |-> 6]
TreeOwn == [a2 |-> "a3"]
Bees == [t |-> 3, u |-> 1]
TreeBctIn == [t |-> {"a1"}, u |-> {"a2", "b3"}]
TreeWinning ==
    [g |-> {}, a1 |-> {<<"t", 0>>}, a2 |-> {<<"t", 1>>, <<"t", 2>>}, a3 |-> {},
     b2 |-> {<<"t", 1>>}, b3 |-> {}, b4 |-> {<<"u", 0>>}]

MCBlocks == TreeBlocks
MCPath == TreePath
MCWork == TreeWork
MCOwn == TreeOwn
MCHiveMined == {"a2", "a3"}
MCBcts == {"t", "u"}
MCWallet == <<"t", "u">>
MCBctIn == TreeBctIn
MCBeeCount == Bees
MCWinning == TreeWinning
=============================================================================
