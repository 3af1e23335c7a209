---------------------------- MODULE MCChainState ----------------------------
(* Two branches above G: A1 with A2, over which A3 and C3 compete, and B1. *)
EXTENDS ChainState, TLC

CONSTANTS G, A1, A2, A3, C3, B1

TreeBlocks == {G, A1, A2, A3, C3, B1}
TreeParent == A1 :> G @@ A2 :> A1 @@ A3 :> A2 @@ C3 :> A2 @@ B1 :> G
TreeHeight == G :> 0 @@ A1 :> 1 @@ A2 :> 2 @@ A3 :> 3 @@ C3 :> 3 @@ B1 :> 1
TreeAncestors ==
    G :> {G} @@ A1 :> {G, A1} @@ A2 :> {G, A1, A2} @@ A3 :> {G, A1, A2, A3}
    @@ C3 :> {G, A1, A2, C3} @@ B1 :> {G, B1}

TwoLayouts ==
    {G :> 0 @@ A1 :> 1 @@ A2 :> 2 @@ B1 :> 3 @@ A3 :> 4 @@ C3 :> 5,
     G :> 5 @@ A1 :> 4 @@ A2 :> 3 @@ B1 :> 2 @@ A3 :> 1 @@ C3 :> 0}

AsMuchAsA2 == [TreeHeight EXCEPT ![B1] = 2]
MoreThanA3 == [TreeHeight EXCEPT ![B1] = 4]
WithoutA3 == TreeBlocks \ {A3}
WithoutA3AndC3 == TreeBlocks \ {A3, C3}

\* TLC keeps the value of a definition, but not that of one a .cfg names: these
\* only point to the ones above.
MCBlocks == TreeBlocks
MCParent == TreeParent
MCHeight == TreeHeight
MCAncestors == TreeAncestors
MCAddresses == TwoLayouts

\* B1 carries as much work as any other block, as A1 and A2 together, or more than
\* the whole other branch.
EvenWork == TreeHeight
TiedB == AsMuchAsA2
HeavyB == MoreThanA3

All == TreeBlocks
NotA3 == WithoutA3
NotA3AndC3 == WithoutA3AndC3
=============================================================================
