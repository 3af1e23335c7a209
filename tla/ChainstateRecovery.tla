------------------------- MODULE ChainstateRecovery -------------------------
(***************************************************************************)
(* The coin database across block connection, disconnection, flushes in    *)
(* several batches, crashes and ReplayBlocks.                              *)
(*                                                                         *)
(* FlushStateToDisk writes the block index and undo data first, then the   *)
(* changed coins in batches.  Each batch is atomic; the first one replaces *)
(* DB_BEST_BLOCK by DB_HEAD_BLOCKS = (new tip, old tip) and the last one    *)
(* does the reverse.  A node that starts on a database with head blocks    *)
(* rolls the old branch back and the new one forward, over coins of which  *)
(* any part may already have been written, and flushes the result the same *)
(* way, so that it may crash again at any batch.                           *)
(*                                                                         *)
(* A transaction may be mined at different heights on two branches: a coin *)
(* is the height that created it, so restoring the wrong version shows.    *)
(* Block and undo files are taken to be on disk once FlushStateToDisk has   *)
(* written the index; the coin database is written without fsync.          *)
(***************************************************************************)
EXTENDS Naturals

CONSTANTS
    Blocks,       \* the blocks that are valid where they stand in the tree
    Genesis,
    Parent,       \* pprev, a function on Blocks \ {Genesis}
    Height,       \* nHeight
    Spent,        \* Spent[b]: outpoints that b's transactions spend
    Created,      \* Created[b]: outpoints that b's transactions create
    Ancestors,    \* Ancestors[b]: b and every block below it
    UtxoAt,       \* UtxoAt[b]: the unspent outputs after b
    Outpoints,
    NoCoin,
    NoBlock,      \* a null hash or pointer
    NoUndo,       \* a null nUndoPos
    MaxCrashes

\* Connecting b to the coins left by its parent (UpdateCoins for each of its
\* transactions): what it spends is gone, also if b itself created it.
UpdateCoins(c, b) ==
    [o \in Outpoints |->
        IF o \in Spent[b] THEN NoCoin
        ELSE IF o \in Created[b] THEN Height[b] ELSE c[o]]

\* The checks of ConnectBlock on coins: every input not created by b itself
\* is unspent, and no output of b exists already (BIP30).
ConnectChecks(c, b) ==
    /\ \A o \in Spent[b] \ Created[b] : c[o] # NoCoin
    /\ \A o \in Created[b] : c[o] = NoCoin

ASSUME TreeAssumption ==
    /\ Genesis \in Blocks
    /\ NoBlock \notin Blocks
    /\ Parent \in [Blocks \ {Genesis} -> Blocks]
    /\ Height \in [Blocks -> Nat]
    /\ NoCoin \notin Nat
    /\ Spent \in [Blocks -> SUBSET Outpoints]
    /\ Created \in [Blocks -> SUBSET Outpoints]
    /\ Ancestors \in [Blocks -> SUBSET Blocks]
    /\ \A b \in Blocks : Genesis \in Ancestors[b]
    /\ UtxoAt \in [Blocks -> [Outpoints -> Nat \cup {NoCoin}]]
    /\ \A b \in Blocks : NoUndo \notin [Spent[b] -> Nat \cup {NoCoin}]
    /\ UtxoAt[Genesis] = [o \in Outpoints |-> NoCoin]
    /\ \A b \in Blocks \ {Genesis} :
          /\ ConnectChecks(UtxoAt[Parent[b]], b)
          /\ UtxoAt[b] = UpdateCoins(UtxoAt[Parent[b]], b)
    /\ MaxCrashes \in Nat

VARIABLES
    db,         \* the coin database: coins, DB_BEST_BLOCK, DB_HEAD_BLOCKS
    durable,    \* the last state of db known to survive a power loss
    index,      \* blocks in the block index database
    undoDisk,   \* undo data the block index database refers to
    known,      \* mapBlockIndex
    undo,       \* undo data mapBlockIndex refers to
    coins,      \* the coins pcoinsTip (or the cache of ReplayBlocks) shows
    best,       \* and its best block
    cursor,     \* pindexOld, then the block rolled forward last
    phase,
    crashes

volatile == <<known, undo, coins, best, cursor>>
disk == <<db, durable, index, undoDisk>>
vars == <<disk, volatile, phase, crashes>>

Coins == [Outpoints -> Nat \cup {NoCoin}]
Empty == [o \in Outpoints |-> NoCoin]
NoHeads == [new |-> NoBlock, old |-> NoBlock]
Undos(b) == [Spent[b] -> Nat \cup {NoCoin}] \cup {NoUndo}

----------------------------------------------------------------------------
(* What a block does to the coins.                                         *)

\* The coins ConnectBlock saves for DisconnectBlock.
UndoFor(c, b) ==
    [o \in Spent[b] |-> IF o \in Created[b] THEN Height[b] ELSE c[o]]

\* A mutated form: inputs are restored, outputs not removed.
DisconnectBlockKeepsOutputs(c, b, u) ==
    [o \in Outpoints |-> IF o \in Spent[b] THEN u[o] ELSE c[o]]

\* DisconnectBlock, transactions in reverse order: outputs are removed, inputs
\* restored from the undo data.  An output spent within b is first restored
\* and then removed.
DisconnectBlock(c, b, u) ==
    [o \in Outpoints |->
        IF o \in Created[b] THEN NoCoin
        ELSE IF o \in Spent[b] THEN u[o] ELSE c[o]]

\* DISCONNECT_OK rather than DISCONNECT_UNCLEAN.
DisconnectsCleanly(c, b) ==
    /\ \A o \in Created[b] \ Spent[b] : c[o] = Height[b]
    /\ \A o \in Spent[b] : c[o] = NoCoin

\* RollforwardBlock: spends what is there, overwrites what is there.
RollforwardBlock(c, b) == UpdateCoins(c, b)
----------------------------------------------------------------------------
Init ==
    /\ db = [coins |-> Empty, best |-> NoBlock, heads |-> NoHeads]
    /\ durable = db
    /\ index = {Genesis}
    /\ undoDisk = [b \in Blocks |-> NoUndo]
    /\ known = {Genesis}
    /\ undo = [b \in Blocks |-> NoUndo]
    /\ coins = Empty
    /\ best = NoBlock
    /\ cursor = NoBlock
    /\ phase = "running"
    /\ crashes = 0

\* AcceptBlock: the block is stored and indexed in memory.
AcceptBlock(b) ==
    /\ phase = "running"
    /\ b \notin known
    /\ Parent[b] \in known
    /\ known' = known \cup {b}
    /\ UNCHANGED <<disk, undo, coins, best, cursor, phase, crashes>>

\* ConnectTip.  The genesis block only moves the best block: its outputs are
\* not spendable.  Undo data is written unless an earlier connection did.
ConnectTip(b) ==
    /\ phase = "running"
    /\ b \in known
    /\ IF b = Genesis
       THEN best = NoBlock /\ UNCHANGED <<coins, undo>>
       ELSE /\ best = Parent[b]
            /\ ConnectChecks(coins, b)
            /\ coins' = UpdateCoins(coins, b)
            /\ undo' = IF undo[b] = NoUndo THEN [undo EXCEPT ![b] = UndoFor(coins, b)] ELSE undo
    /\ best' = b
    /\ UNCHANGED <<disk, known, cursor, phase, crashes>>

DisconnectTip ==
    /\ phase = "running"
    /\ best \notin {NoBlock, Genesis}
    /\ undo[best] # NoUndo
    /\ DisconnectsCleanly(coins, best)
    /\ coins' = DisconnectBlock(coins, best, undo[best])
    /\ best' = Parent[best]
    /\ UNCHANGED <<disk, known, undo, cursor, phase, crashes>>

\* FlushStateToDisk, periodic write: blocks, undo data and index only.
WriteBlockIndex ==
    /\ phase = "running"
    /\ index' = known
    /\ undoDisk' = undo
    /\ UNCHANGED <<db, durable, volatile, phase, crashes>>

\* A mutated form: the coins are written before the index.
FlushStateToDiskCoinsOnly ==
    /\ phase = "running"
    /\ best # NoBlock
    /\ phase' = "flushing"
    /\ UNCHANGED <<disk, volatile, crashes>>

\* FlushStateToDisk, full flush: the same, then the coins.
FlushStateToDisk ==
    /\ phase = "running"
    /\ best # NoBlock
    /\ index' = known
    /\ undoDisk' = undo
    /\ phase' = "flushing"
    /\ UNCHANGED <<db, durable, volatile, crashes>>

\* CCoinsViewDB::BatchWrite: the tip the database was consistent with.
OldTip == IF db.best # NoBlock THEN db.best ELSE db.heads.old

\* A partial batch.  Batches of one coin reach every mixture that larger ones do.
PartialBatch(o) ==
    /\ phase = "flushing"
    /\ coins[o] # db.coins[o]
    /\ db' = [coins |-> [db.coins EXCEPT ![o] = coins[o]],
              best  |-> NoBlock,
              heads |-> [new |-> best, old |-> OldTip]]
    /\ UNCHANGED <<durable, index, undoDisk, volatile, phase, crashes>>

\* The final batch holds whatever is left.  (After ReplayBlocks, LoadChainTip
\* then takes the database's best block as the tip.)
FinalBatch ==
    /\ phase = "flushing"
    /\ db' = [coins |-> coins, best |-> best, heads |-> NoHeads]
    /\ phase' = "running"
    /\ UNCHANGED <<durable, index, undoDisk, volatile, crashes>>

\* The storage engine syncs its log on its own account.
SyncDb ==
    /\ durable # db
    /\ durable' = db
    /\ UNCHANGED <<db, index, undoDisk, volatile, phase, crashes>>

\* The process or the machine stops: memory is lost.  A power loss may also
\* take the batches written since the last sync.
Crash ==
    /\ phase \notin {"down", "failed"}
    /\ crashes < MaxCrashes
    /\ db' \in {db, durable}
    /\ durable' = db'
    /\ known' = {}
    /\ undo' = [b \in Blocks |-> NoUndo]
    /\ coins' = Empty
    /\ best' = NoBlock
    /\ cursor' = NoBlock
    /\ phase' = "down"
    /\ crashes' = crashes + 1
    /\ UNCHANGED <<index, undoDisk>>

\* LoadBlockIndex, then the start of ReplayBlocks; without head blocks it
\* returns at once and LoadChainTip follows.
Start ==
    /\ phase = "down"
    /\ known' = index
    /\ undo' = undoDisk
    /\ coins' = db.coins
    /\ best' = db.best
    /\ IF db.heads = NoHeads
       THEN /\ phase' = IF db.best \in index \cup {NoBlock} THEN "running" ELSE "failed"
            /\ cursor' = NoBlock
       ELSE /\ phase' = IF db.heads.new \in index /\ db.heads.old \in index \cup {NoBlock}
                        THEN "rollback" ELSE "failed"
            /\ cursor' = IF db.heads.old = NoBlock THEN Genesis ELSE db.heads.old
    /\ UNCHANGED <<disk, crashes>>

\* A mutated form: a block that was not fully applied is left alone.
RollBackOnlyClean ==
    /\ phase = "rollback"
    /\ cursor \notin Ancestors[db.heads.new]
    /\ coins' = IF DisconnectsCleanly(coins, cursor)
                THEN DisconnectBlock(coins, cursor, undo[cursor]) ELSE coins
    /\ cursor' = Parent[cursor]
    /\ UNCHANGED <<disk, known, undo, best, phase, crashes>>

\* One turn of the rollback loop, until the last common ancestor.
RollBack ==
    /\ phase = "rollback"
    /\ cursor \notin Ancestors[db.heads.new]
    /\ IF undo[cursor] = NoUndo
       THEN phase' = "failed" /\ UNCHANGED <<coins, cursor>>
       ELSE /\ coins' = DisconnectBlock(coins, cursor, undo[cursor])
            /\ cursor' = Parent[cursor]
            /\ UNCHANGED phase
    /\ UNCHANGED <<disk, known, undo, best, crashes>>

RolledBack ==
    /\ phase = "rollback"
    /\ cursor \in Ancestors[db.heads.new]
    /\ phase' = "rollforward"
    /\ UNCHANGED <<disk, volatile, crashes>>

\* A mutated form: the block at the fork height is taken, not the next one.
RollForwardFromFork ==
    /\ phase = "rollforward"
    /\ cursor # db.heads.new
    /\ \E b \in Ancestors[db.heads.new] :
          /\ b = cursor
          /\ coins' = RollforwardBlock(coins, b)
          /\ cursor' = b
    /\ UNCHANGED <<disk, known, undo, best, phase, crashes>>

\* One turn of the roll-forward loop: the ancestor of the new tip next to cursor.
RollForward ==
    /\ phase = "rollforward"
    /\ cursor # db.heads.new
    /\ \E b \in Ancestors[db.heads.new] \ {Genesis} :
          /\ Parent[b] = cursor
          /\ coins' = RollforwardBlock(coins, b)
          /\ cursor' = b
    /\ UNCHANGED <<disk, known, undo, best, phase, crashes>>

\* cache.SetBestBlock and cache.Flush.
RolledForward ==
    /\ phase = "rollforward"
    /\ cursor = db.heads.new
    /\ best' = db.heads.new
    /\ phase' = "flushing"
    /\ UNCHANGED <<disk, known, undo, coins, cursor, crashes>>

Next ==
    \/ \E b \in Blocks \ {Genesis} : AcceptBlock(b)
    \/ \E b \in Blocks : ConnectTip(b)
    \/ DisconnectTip
    \/ WriteBlockIndex
    \/ FlushStateToDisk
    \/ \E o \in Outpoints : PartialBatch(o)
    \/ FinalBatch
    \/ SyncDb
    \/ Crash
    \/ Start
    \/ RollBack
    \/ RolledBack
    \/ RollForward
    \/ RolledForward

Spec == Init /\ [][Next]_vars

\* The node is started again, and ReplayBlocks and BatchWrite are loops that
\* run to their end unless the node crashes.
Fairness ==
    /\ WF_vars(Start)
    /\ WF_vars(RollBack \/ RolledBack \/ RollForward \/ RolledForward)
    /\ WF_vars(FinalBatch)

FairSpec == Spec /\ Fairness
----------------------------------------------------------------------------
TypeOK ==
    /\ db \in [coins : Coins, best : Blocks \cup {NoBlock},
               heads : [new : Blocks \cup {NoBlock}, old : Blocks \cup {NoBlock}]]
    /\ durable \in [coins : Coins, best : Blocks \cup {NoBlock},
                    heads : [new : Blocks \cup {NoBlock}, old : Blocks \cup {NoBlock}]]
    /\ index \subseteq Blocks
    /\ known \subseteq Blocks
    /\ DOMAIN undoDisk = Blocks /\ DOMAIN undo = Blocks
    /\ \A b \in Blocks : undoDisk[b] \in Undos(b) /\ undo[b] \in Undos(b)
    /\ coins \in Coins
    /\ best \in Blocks \cup {NoBlock}
    /\ cursor \in Blocks \cup {NoBlock}
    /\ phase \in {"running", "flushing", "down", "rollback", "rollforward", "failed"}
    /\ crashes \in 0..MaxCrashes

\* A database with a best block holds exactly that block's unspent outputs,
\* and so does pcoinsTip, whatever was interrupted before: ReplayBlocks and
\* the two marks of BatchWrite.
CoinsMatchBestBlock ==
    /\ db.best # NoBlock => db.coins = UtxoAt[db.best]
    /\ phase = "running" /\ best # NoBlock => coins = UtxoAt[best]

\* A start never ends in one of the errors of ReplayBlocks, DisconnectBlock or
\* LoadChainTip (unknown block, no undo data), and BatchWrite's assertion that
\* an interrupted flush is finished towards the same block holds.
RecoveryNeverFails ==
    /\ phase # "failed"
    /\ phase = "flushing" /\ db.best = NoBlock /\ db.heads # NoHeads => db.heads.new = best

\* Whatever recovery left behind, a block that is valid on the tip connects
\* and the tip's own block disconnects with DISCONNECT_OK.
TipCanMove ==
    phase = "running" =>
        /\ \A b \in known \ {Genesis} : Parent[b] = best => ConnectChecks(coins, b)
        /\ best \notin {NoBlock, Genesis} =>
              undo[best] # NoUndo /\ DisconnectsCleanly(coins, best)

\* An interrupted flush is finished, or lost as a whole with everything after
\* its start; it is never turned towards a third block.
HeadsAreFinished ==
    [][db.heads # NoHeads /\ db'.best # NoBlock =>
          db'.best = db.heads.new \/ db' = durable]_vars

\* A node that went down is up again unless it keeps crashing.
ComesBackUp == phase = "down" ~> phase = "running"
=============================================================================
