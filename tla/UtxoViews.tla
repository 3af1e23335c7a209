----------------------------- MODULE UtxoViews -----------------------------
(***************************************************************************)
(* What the stack of coin caches promises: two unspent-output sets, the    *)
(* tip's and that of a scratch view opened over it, each together with the *)
(* block it describes.  No cache, no flag and no flush is visible.         *)
(***************************************************************************)
CONSTANTS Outpoints, Coins, NoCoin, Blocks, NullBlock

VARIABLES
    tipUtxo,    \* unspent coin of each outpoint at the tip, or NoCoin
    tipBlock,   \* the block tipUtxo is the result of
    viewUtxo,   \* the same for the scratch view
    viewBlock,
    open        \* is a scratch view in use?

absVars == <<tipUtxo, tipBlock, viewUtxo, viewBlock, open>>

Utxos == [Outpoints -> Coins \cup {NoCoin}]

Init ==
    /\ tipUtxo = [o \in Outpoints |-> NoCoin]
    /\ tipBlock = NullBlock
    /\ viewUtxo = tipUtxo
    /\ viewBlock = tipBlock
    /\ open = FALSE

Begin ==
    /\ ~open
    /\ open' = TRUE
    /\ UNCHANGED <<tipUtxo, tipBlock, viewUtxo, viewBlock>>

Put(o, c) ==
    /\ open
    /\ viewUtxo' = [viewUtxo EXCEPT ![o] = c]
    /\ UNCHANGED <<tipUtxo, tipBlock, viewBlock, open>>

MoveTo(b) ==
    /\ open
    /\ viewBlock' = b
    /\ UNCHANGED <<tipUtxo, tipBlock, viewUtxo, open>>

Commit ==
    /\ open
    /\ tipUtxo' = viewUtxo
    /\ tipBlock' = viewBlock
    /\ open' = FALSE
    /\ UNCHANGED <<viewUtxo, viewBlock>>

Abandon ==
    /\ open
    /\ viewUtxo' = tipUtxo
    /\ viewBlock' = tipBlock
    /\ open' = FALSE
    /\ UNCHANGED <<tipUtxo, tipBlock>>

Next ==
    \/ Begin
    \/ \E o \in Outpoints, c \in Coins \cup {NoCoin} : Put(o, c)
    \/ \E b \in Blocks : MoveTo(b)
    \/ Commit
    \/ Abandon

Spec == Init /\ [][Next]_absVars
=============================================================================
