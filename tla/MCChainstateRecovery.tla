------------------------ MODULE MCChainstateRecovery ------------------------
(***************************************************************************)
(* Genesis - s1, and over s1 the branches a2 and b2 - b3.  t (with     *)
(* outputs t and v) is mined on both, at heights 2 and 3; b3 also spends v. *)
(***************************************************************************)
EXTENDS ChainstateRecovery

TreeBlocks == {"g", "s1", "a2", "b2", "b3"}

TreeParent == [b \in TreeBlocks \ {"g"} |->
    CASE b = "s1" -> "g" [] b = "b3" -> "b2" [] OTHER -> "s1"]

TreeHeight == [b \in TreeBlocks |->
    CASE b = "g" -> 0 [] b = "s1" -> 1 [] b = "b3" -> 3 [] OTHER -> 2]

TreeSpent == [b \in TreeBlocks |->
    CASE b = "a2" -> {"s"} [] b = "b3" -> {"s", "v"} [] OTHER -> {}]

TreeCreated == [b \in TreeBlocks |->
    CASE b = "s1" -> {"s"} [] b = "a2" -> {"t", "v"} [] b = "b3" -> {"t", "v"} [] OTHER -> {}]

TreeOutpoints == {"s", "t", "v"}

TreeAncestors[b \in TreeBlocks] == {b} \cup IF b = "g" THEN {} ELSE TreeAncestors[TreeParent[b]]

TreeUtxoAt[b \in TreeBlocks] ==
    IF b = "g" THEN [o \in TreeOutpoints |-> NoCoin] ELSE UpdateCoins(TreeUtxoAt[TreeParent[b]], b)

\* TLC keeps the value of a definition, but not that of one a .cfg names: these
\* only point to the ones above.
MCBlocks == TreeBlocks
MCParent == TreeParent
MCHeight == TreeHeight
MCSpent == TreeSpent
MCCreated == TreeCreated
MCOutpoints == TreeOutpoints
MCAncestors == TreeAncestors
MCUtxoAt == TreeUtxoAt
=============================================================================
