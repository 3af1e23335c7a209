--------------------------- MODULE MCBCTDatabase ---------------------------
(***************************************************************************)
(* Over g - a1 - a2 the branches a3 - a4 and b3 - b4.  m, made by the       *)
(* wallet, is mined in a1 and rewarded in a2, in a3 and in b4; n, also the  *)
(* wallet's, is mined in a3 or in b4; f, somebody else's, in a2.            *)
(***************************************************************************)
EXTENDS BCTDatabase

TreeBlocks == {"g", "a1", "a2", "a3", "a4", "b3", "b4"}

TreeParent == [b \in TreeBlocks \ {"g"} |->
    CASE b = "a1" -> "g" [] b = "a2" -> "a1" [] b = "a4" -> "a3" [] b = "b4" -> "b3" [] OTHER -> "a2"]

TreeHeight == [b \in TreeBlocks |->
    CASE b = "g" -> 0 [] b = "a1" -> 1 [] b = "a2" -> 2 [] b \in {"a3", "b3"} -> 3 [] OTHER -> 4]

TreeAncestors[b \in TreeBlocks] == {b} \cup IF b = "g" THEN {} ELSE TreeAncestors[TreeParent[b]]

TreeCreates == [b \in TreeBlocks |->
    CASE b = "a1" -> {"m"} [] b = "a2" -> {"f"} [] b \in {"a3", "b4"} -> {"n"} [] OTHER -> {}]

TreeRewarded == [b \in TreeBlocks |-> IF b \in {"a2", "a3", "b4"} THEN "m" ELSE NoTx]

TreeAmount == [b \in TreeBlocks |-> IF b = "a3" THEN 2 ELSE 1]

A1OrA2 == {"a1", "a2"}
AtA2 == {"a2"}
WithWallet == {TRUE}
WithOrWithout == {TRUE, FALSE}

\* TLC keeps the value of a definition, but not that of one a .cfg names: these
\* only point to the ones above.
MCBlocks == TreeBlocks
MCParent == TreeParent
MCHeight == TreeHeight
MCAncestors == TreeAncestors
MCCreates == TreeCreates
MCRewarded == TreeRewarded
MCAmount == TreeAmount
=============================================================================
