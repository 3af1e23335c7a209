------------------------- MODULE MCRialtoWhitePages -------------------------
(* Two branches above a common first block at which Rialto is enabled. *)
EXTENDS RialtoWhitePages

R(n, k) == [nick |-> n, key |-> k]

MCBlocks == {"G", "F", "A1", "A2", "B1", "B2"}
MCParent == [b \in MCBlocks \ {"G"} |->
    CASE b = "F" -> "G" [] b \in {"A1", "B1"} -> "F" [] b = "A2" -> "A1" [] b = "B2" -> "B1"]
MCHeight == [b \in MCBlocks |->
    CASE b = "G" -> 0 [] b = "F" -> 1 [] b \in {"A1", "B1"} -> 2 [] b \in {"A2", "B2"} -> 3]
MCAncestors == [b \in MCBlocks |->
    {"G", b} \cup (IF b = "G" THEN {} ELSE {"F"})
             \cup (IF b = "A2" THEN {"A1"} ELSE IF b = "B2" THEN {"B1"} ELSE {})]
MCEnabled == MCBlocks \ {"G"}

MCNicks == {"bee", "mouse"}
MCKeys == {"k1", "k2", "k3"}

\* The branches register the same nicks with different keys, one of them twice in
\* one block; no branch registers a nick in two blocks.
OnBothBranches == [b \in MCBlocks |->
    CASE b = "A1" -> <<R("bee", "k1"), R("bee", "k2")>>
      [] b = "A2" -> <<R("mouse", "k1")>>
      [] b = "B1" -> <<R("mouse", "k2")>>
      [] b = "B2" -> <<R("bee", "k3")>>
      [] OTHER -> <<>>]
\* A2 tries to take a nick of A1.
Twice == [OnBothBranches EXCEPT !["A2"] = <<R("bee", "k3")>>]
\* The first block registers a nick.
InFirst == [OnBothBranches EXCEPT !["F"] = <<R("bee", "k1")>>, !["A1"] = <<>>, !["B2"] = <<>>]
=============================================================================
