-------------------------- MODULE MCCoinsViewCache --------------------------
EXTENDS CoinsViewCache, TLC

\* Outpoints, coins and blocks are interchangeable names.
MCSymmetry == Permutations(Outpoints) \cup Permutations(Coins) \cup Permutations(Blocks)
=============================================================================
