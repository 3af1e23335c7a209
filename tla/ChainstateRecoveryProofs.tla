---------------------- MODULE ChainstateRecoveryProofs ----------------------
(***************************************************************************)
(* For any tree of valid blocks and any number of crashes: a coin database *)
(* with a best block holds exactly that block's coins, recovery never      *)
(* fails, and the recovered tip can be extended and disconnected.          *)
(*                                                                         *)
(* The heart of the invariant is what a mixed database looks like: every   *)
(* coin is either as after the old tip or as after the new one.  Undoing a *)
(* block turns "as after the block" into "as before it" for whatever the   *)
(* block touched and keeps the rest, and redoing one does the opposite, so *)
(* the statement holds with the rollback cursor in place of the old tip,   *)
(* down to the fork and up again to the new tip, where both coincide.      *)
(***************************************************************************)
EXTENDS ChainstateRecovery, TLAPS

\* The provers, in turn, where a leaf names none.
USE ZenonT(5), SMTT(40), ZenonT(40), Z3T(40)

\* Every coin of c is as after block x or as after block y.
Between(c, x, y) == \A o \in Outpoints : c[o] \in {UtxoAt[x][o], UtxoAt[y][o]}

\* Without an old tip the coins start from none, as after the genesis block.
Base(b) == IF b = NoBlock THEN Genesis ELSE b

\* b is indexed, with undo data unless it is the genesis block.
Held(b, blocks, w) == b \in blocks /\ (b = Genesis \/ w[b] # NoUndo)

InMemory(b) == Held(b, known, undo)

\* A coin database is consistent with its best block, or mixes two blocks.
DbSound(d, blocks, w) ==
    /\ d.best # NoBlock => d.heads = NoHeads /\ Held(d.best, blocks, w) /\ d.coins = UtxoAt[d.best]
    /\ d.best = NoBlock /\ d.heads = NoHeads => d.coins = UtxoAt[Genesis]
    /\ d.heads # NoHeads => /\ d.heads.new \in Blocks
                            /\ Held(d.heads.new, blocks, w)
                            /\ Held(Base(d.heads.old), blocks, w)
                            /\ Between(d.coins, Base(d.heads.old), d.heads.new)

\* Undo data is right, complete down to the genesis block, and for indexed blocks.
UndoSound(w, blocks) ==
    /\ Genesis \in blocks
    /\ \A b \in Blocks \ {Genesis} : w[b] # NoUndo =>
          /\ b \in blocks
          /\ Parent[b] \in blocks
          /\ Parent[b] = Genesis \/ w[Parent[b]] # NoUndo
          /\ \A o \in Spent[b] \ Created[b] : w[b][o] = UtxoAt[Parent[b]][o]

MemorySound ==
    phase \in {"running", "flushing", "rollback", "rollforward"} =>
        /\ UndoSound(undo, known)
        /\ index \subseteq known
        /\ \A b \in Blocks : undoDisk[b] # NoUndo => undo[b] # NoUndo

Running ==
    phase = "running" =>
        /\ db.heads = NoHeads
        /\ coins = UtxoAt[Base(best)]
        /\ InMemory(Base(best))

Flushing ==
    phase = "flushing" =>
        /\ best \in Blocks
        /\ coins = UtxoAt[best]
        /\ Held(best, index, undoDisk)
        /\ InMemory(best)
        /\ db.heads # NoHeads => db.heads.new = best

Replaying ==
    phase \in {"rollback", "rollforward"} =>
        /\ db.heads # NoHeads
        /\ cursor \in Blocks
        /\ InMemory(db.heads.new)
        /\ Between(coins, cursor, db.heads.new)
        /\ phase = "rollback" => InMemory(cursor)

IInv ==
    /\ TypeOK
    /\ DbSound(db, index, undoDisk)
    /\ DbSound(durable, index, undoDisk)
    /\ UndoSound(undoDisk, index)
    /\ MemorySound
    /\ Running
    /\ Flushing
    /\ Replaying
    /\ phase # "failed"
----------------------------------------------------------------------------
(* What connecting, undoing and redoing one block does.                    *)

LEMMA BetweenSame ==
    ASSUME NEW c \in Coins, NEW x \in Blocks
    PROVE  Between(c, x, x) <=> c = UtxoAt[x]
<1>1. UtxoAt[x] \in Coins
  BY TreeAssumption DEF Coins
<1>2. QED
  BY <1>1 DEF Between, Coins

LEMMA UndoBlock ==
    ASSUME NEW c \in Coins, NEW b \in Blocks \ {Genesis}, NEW v \in Blocks,
           NEW u \in [Spent[b] -> Nat \cup {NoCoin}],
           Between(c, b, v),
           \A o \in Spent[b] \ Created[b] : u[o] = UtxoAt[Parent[b]][o]
    PROVE  /\ DisconnectBlock(c, b, u) \in Coins
           /\ Between(DisconnectBlock(c, b, u), Parent[b], v)
<1>1. /\ Parent[b] \in Blocks
      /\ \A o \in Created[b] : UtxoAt[Parent[b]][o] = NoCoin
      /\ UtxoAt[b] = UpdateCoins(UtxoAt[Parent[b]], b)
      /\ Created[b] \subseteq Outpoints /\ Spent[b] \subseteq Outpoints
  BY TreeAssumption DEF ConnectChecks
<1>2. \A o \in Outpoints : o \notin Spent[b] /\ o \notin Created[b] => UtxoAt[b][o] = UtxoAt[Parent[b]][o]
  BY <1>1 DEF UpdateCoins
<1>3. DisconnectBlock(c, b, u) \in Coins
  BY DEF DisconnectBlock, Coins
<1>4. ASSUME NEW o \in Outpoints
      PROVE  DisconnectBlock(c, b, u)[o] \in {UtxoAt[Parent[b]][o], UtxoAt[v][o]}
  BY <1>1, <1>2 DEF DisconnectBlock, Between
<1>5. QED
  BY <1>3, <1>4 DEF Between

LEMMA RedoBlock ==
    ASSUME NEW c \in Coins, NEW b \in Blocks \ {Genesis}, NEW v \in Blocks,
           Between(c, Parent[b], v)
    PROVE  /\ UpdateCoins(c, b) \in Coins
           /\ Between(UpdateCoins(c, b), b, v)
<1>1. UtxoAt[b] = UpdateCoins(UtxoAt[Parent[b]], b) /\ Height[b] \in Nat
  BY TreeAssumption
<1>2. UpdateCoins(c, b) \in Coins
  BY <1>1 DEF UpdateCoins, Coins
<1>3. QED
  BY <1>1, <1>2 DEF UpdateCoins, Between

\* The undo data ConnectBlock saves is what DisconnectBlock needs.
LEMMA UndoIsRight ==
    ASSUME NEW b \in Blocks \ {Genesis}
    PROVE  /\ UndoFor(UtxoAt[Parent[b]], b) \in [Spent[b] -> Nat \cup {NoCoin}]
           /\ UndoFor(UtxoAt[Parent[b]], b) # NoUndo
           /\ \A o \in Spent[b] \ Created[b] :
                 UndoFor(UtxoAt[Parent[b]], b)[o] = UtxoAt[Parent[b]][o]
<1>1. Parent[b] \in Blocks /\ Height[b] \in Nat /\ Spent[b] \subseteq Outpoints
  BY TreeAssumption
<1>2. UtxoAt[Parent[b]] \in [Outpoints -> Nat \cup {NoCoin}]
  BY <1>1, TreeAssumption
<1>3. UndoFor(UtxoAt[Parent[b]], b) \in [Spent[b] -> Nat \cup {NoCoin}]
  BY <1>1, <1>2 DEF UndoFor
<1>4. UndoFor(UtxoAt[Parent[b]], b) # NoUndo
  BY <1>3, TreeAssumption
<1>5. QED
  BY <1>3, <1>4 DEF UndoFor
----------------------------------------------------------------------------
(* The invariant.                                                          *)

LEMMA InitIInv == Init => IInv
<1> SUFFICES ASSUME Init PROVE IInv
  OBVIOUS
<1> USE DEF Init
<1>1. Empty = UtxoAt[Genesis] /\ Empty \in Coins /\ Genesis \in Blocks
  BY TreeAssumption DEF Empty, Coins
<1>2. NoHeads \in [new : Blocks \cup {NoBlock}, old : Blocks \cup {NoBlock}]
  BY DEF NoHeads
<1>3. TypeOK
  BY <1>1, <1>2, TreeAssumption DEF TypeOK, Undos
<1>4. DbSound(db, index, undoDisk) /\ DbSound(durable, index, undoDisk)
  BY <1>1 DEF DbSound
<1>5. UndoSound(undoDisk, index) /\ MemorySound
  BY <1>1 DEF UndoSound, MemorySound
<1>6. Running /\ Flushing /\ Replaying /\ phase # "failed"
  BY <1>1 DEF Running, Flushing, Replaying, InMemory, Held, Base
<1>7. QED
  BY <1>3, <1>4, <1>5, <1>6 DEF IInv

\* A sound database stays sound while the index and the undo data only grow.
LEMMA DbSoundMonotone ==
    ASSUME NEW d, NEW blocks, NEW more, NEW w, NEW x,
           DbSound(d, blocks, w), blocks \subseteq more,
           \A b \in Blocks : w[b] # NoUndo => x[b] # NoUndo,
           d.best \in Blocks \cup {NoBlock}, d.heads.old \in Blocks \cup {NoBlock}
    PROVE  DbSound(d, more, x)
<1>1. ASSUME NEW b \in Blocks, Held(b, blocks, w) PROVE Held(b, more, x)
  BY <1>1 DEF Held
<1>2. Base(d.heads.old) \in Blocks
  BY TreeAssumption DEF Base
<1>3. QED
  BY <1>1, <1>2 DEF DbSound

LEMMA StepIInv == IInv /\ [Next]_vars => IInv'
<1> SUFFICES ASSUME IInv, [Next]_vars PROVE IInv'
  OBVIOUS
<1>0. /\ TypeOK
      /\ DbSound(db, index, undoDisk) /\ DbSound(durable, index, undoDisk)
      /\ UndoSound(undoDisk, index)
      /\ MemorySound /\ Running /\ Flushing /\ Replaying /\ phase # "failed"
  BY DEF IInv
<1>1. Genesis \in Blocks /\ NoBlock \notin Blocks
  BY TreeAssumption
<1>2. ASSUME NEW b \in Blocks \ {Genesis}, AcceptBlock(b)
      PROVE  IInv'
  <2> USE <1>0, <1>1, <1>2
  <2>1. TypeOK'
    BY DEF TypeOK, AcceptBlock, disk
  <2>2. DbSound(db, index, undoDisk)' /\ DbSound(durable, index, undoDisk)' /\ UndoSound(undoDisk, index)'
    BY DEF AcceptBlock, disk
  <2>3. MemorySound' /\ Running' /\ Flushing' /\ Replaying' /\ phase' # "failed"
    BY DEF AcceptBlock, disk, MemorySound, UndoSound, Running, Flushing, Replaying, InMemory, Held
  <2>4. QED
    BY <2>1, <2>2, <2>3 DEF IInv
<1>3. ASSUME NEW b \in Blocks, ConnectTip(b), b = Genesis
      PROVE  IInv'
  <2> USE <1>0, <1>1, <1>3
  <2>1. TypeOK'
    BY DEF TypeOK, ConnectTip, disk
  <2>2. DbSound(db, index, undoDisk)' /\ DbSound(durable, index, undoDisk)' /\ UndoSound(undoDisk, index)'
    BY DEF ConnectTip, disk
  <2>3. MemorySound' /\ Running' /\ Flushing' /\ Replaying' /\ phase' # "failed"
    BY DEF ConnectTip, disk, MemorySound, Running, Flushing, Replaying, InMemory, Held, Base
  <2>4. QED
    BY <2>1, <2>2, <2>3 DEF IInv
<1>4. ASSUME NEW b \in Blocks, ConnectTip(b), b # Genesis
      PROVE  IInv'
  <2> USE <1>0, <1>1, <1>4
  <2>1. /\ best = Parent[b] /\ Parent[b] \in Blocks /\ Base(best) = best
        /\ phase = "running" /\ phase' = "running"
        /\ UNCHANGED disk /\ UNCHANGED <<known, cursor, crashes>>
        /\ best' = b /\ b \in known
        /\ coins' = UpdateCoins(coins, b)
        /\ undo' = IF undo[b] = NoUndo THEN [undo EXCEPT ![b] = UndoFor(coins, b)] ELSE undo
    BY TreeAssumption DEF ConnectTip, Base
  <2>2. coins = UtxoAt[Parent[b]] /\ Held(Parent[b], known, undo)
    BY <2>1 DEF Running, InMemory
  <2>3. coins' = UtxoAt[b]
    BY <2>1, <2>2, TreeAssumption
  <2>4. coins' \in Coins
    BY <2>3, TreeAssumption DEF Coins
  <2>5. /\ DOMAIN undo' = Blocks
        /\ undo'[b] \in Undos(b) /\ undo'[b] # NoUndo
        /\ \A a \in Blocks \ {b} : undo'[a] = undo[a]
    BY <2>1, <2>2, UndoIsRight DEF TypeOK, Undos
  <2>6. \A o \in Spent[b] \ Created[b] : undo'[b][o] = UtxoAt[Parent[b]][o]
    <3>1. CASE undo[b] = NoUndo
      BY <2>1, <2>2, <3>1, UndoIsRight DEF TypeOK
    <3>2. CASE undo[b] # NoUndo
      BY <2>1, <3>2 DEF MemorySound, UndoSound
    <3>3. QED
      BY <3>1, <3>2
  <2>7. TypeOK'
    BY <2>1, <2>4, <2>5 DEF TypeOK, disk
  <2>8. DbSound(db, index, undoDisk)' /\ DbSound(durable, index, undoDisk)' /\ UndoSound(undoDisk, index)'
    BY <2>1 DEF disk
  <2>9. UndoSound(undo, known)'
    BY <2>1, <2>2, <2>5, <2>6 DEF MemorySound, UndoSound, Held
  <2>10. MemorySound'
    BY <2>1, <2>5, <2>9 DEF MemorySound, disk
  <2>11. Running' /\ Flushing' /\ Replaying' /\ phase' # "failed"
    BY <2>1, <2>3, <2>5 DEF Running, Flushing, Replaying, InMemory, Held, Base, disk
  <2>12. QED
    BY <2>7, <2>8, <2>10, <2>11 DEF IInv
<1>5. CASE DisconnectTip
  <2> USE <1>0, <1>1, <1>5
  <2>1. /\ best \in Blocks \ {Genesis} /\ Parent[best] \in Blocks /\ Base(best) = best
        /\ phase = "running" /\ phase' = "running"
        /\ undo[best] # NoUndo
        /\ UNCHANGED disk /\ UNCHANGED <<known, undo, cursor, crashes>>
        /\ best' = Parent[best]
        /\ coins' = DisconnectBlock(coins, best, undo[best])
    BY TreeAssumption DEF DisconnectTip, Base, TypeOK
  <2>2. coins = UtxoAt[best] /\ coins \in Coins /\ Between(coins, best, Parent[best])
    BY <2>1 DEF Running, TypeOK, Between
  <2>3. undo[best] \in [Spent[best] -> Nat \cup {NoCoin}]
    BY <2>1 DEF TypeOK, Undos
  <2>4. /\ \A o \in Spent[best] \ Created[best] : undo[best][o] = UtxoAt[Parent[best]][o]
        /\ Parent[best] \in known
        /\ Parent[best] = Genesis \/ undo[Parent[best]] # NoUndo
    BY <2>1 DEF MemorySound, UndoSound
  <2>5. coins' \in Coins /\ Between(coins', Parent[best], Parent[best])
    BY <2>1, <2>2, <2>3, <2>4, UndoBlock
  <2>6. coins' = UtxoAt[Parent[best]]
    BY <2>1, <2>5, BetweenSame
  <2>7. TypeOK'
    BY <2>1, <2>5 DEF TypeOK, disk
  <2>8. DbSound(db, index, undoDisk)' /\ DbSound(durable, index, undoDisk)' /\ UndoSound(undoDisk, index)'
    BY <2>1 DEF disk
  <2>9. MemorySound'
    BY <2>1 DEF MemorySound, disk
  <2>10. Running' /\ Flushing' /\ Replaying' /\ phase' # "failed"
    BY <2>1, <2>4, <2>6 DEF Running, Flushing, Replaying, InMemory, Held, Base, disk
  <2>11. QED
    BY <2>7, <2>8, <2>9, <2>10 DEF IInv
<1>6. CASE WriteBlockIndex \/ FlushStateToDisk
  <2> USE <1>0, <1>1, <1>6
  <2>1. /\ phase = "running" /\ phase' \in {"running", "flushing"}
        /\ phase' = "flushing" => best # NoBlock
        /\ index' = known /\ undoDisk' = undo
        /\ UNCHANGED <<db, durable, volatile, crashes>>
    BY DEF WriteBlockIndex, FlushStateToDisk
  <2>2. /\ UndoSound(undo, known)
        /\ index \subseteq known
        /\ \A b \in Blocks : undoDisk[b] # NoUndo => undo[b] # NoUndo
    BY <2>1 DEF MemorySound
  <2>3. DbSound(db, known, undo) /\ DbSound(durable, known, undo)
    BY <2>2, DbSoundMonotone DEF TypeOK
  <2>4. TypeOK'
    BY <2>1 DEF TypeOK, volatile
  <2>5. DbSound(db, index, undoDisk)' /\ DbSound(durable, index, undoDisk)' /\ UndoSound(undoDisk, index)'
    BY <2>1, <2>2, <2>3 DEF volatile
  <2>6. MemorySound'
    BY <2>1, <2>2 DEF MemorySound, volatile
  <2>7. Running' /\ Flushing' /\ Replaying' /\ phase' # "failed"
    BY <2>1 DEF Running, Flushing, Replaying, InMemory, Held, Base, volatile, TypeOK
  <2>8. QED
    BY <2>4, <2>5, <2>6, <2>7 DEF IInv
<1>7. ASSUME NEW o \in Outpoints, PartialBatch(o)
      PROVE  IInv'
  <2> USE <1>0, <1>1, <1>7
  <2>1. /\ phase = "flushing" /\ phase' = "flushing"
        /\ UNCHANGED <<durable, index, undoDisk, volatile, crashes>>
        /\ db'.coins = [db.coins EXCEPT ![o] = coins[o]]
        /\ db'.best = NoBlock
        /\ db'.heads = [new |-> best, old |-> OldTip]
        /\ db' = [coins |-> db'.coins, best |-> db'.best, heads |-> db'.heads]
    BY DEF PartialBatch
  <2>2. /\ best \in Blocks /\ coins = UtxoAt[best] /\ Held(best, index, undoDisk)
        /\ db.heads # NoHeads => db.heads.new = best
    BY <2>1 DEF Flushing
  <2>3. /\ db.coins \in Coins /\ coins \in Coins /\ db.best \in Blocks \cup {NoBlock}
        /\ db.heads.old \in Blocks \cup {NoBlock}
    BY DEF TypeOK
  <2>4. OldTip \in Blocks \cup {NoBlock}
    BY <2>3 DEF OldTip
  <2>5. Held(Base(OldTip), index, undoDisk) /\ Between(db.coins, Base(OldTip), best)
    <3>1. CASE db.best # NoBlock
      BY <2>3, <3>1 DEF OldTip, Base, DbSound, Between
    <3>2. CASE db.best = NoBlock /\ db.heads = NoHeads
      <4>1. Base(OldTip) = Genesis
        BY <3>2 DEF OldTip, NoHeads, Base
      <4>2. db.coins = UtxoAt[Genesis]
        BY <3>2 DEF DbSound
      <4>3. Held(Genesis, index, undoDisk)
        BY DEF UndoSound, Held
      <4> QED
        BY <4>1, <4>2, <4>3 DEF Between
    <3>3. CASE db.best = NoBlock /\ db.heads # NoHeads
      BY <2>2, <3>3 DEF OldTip, Base, DbSound
    <3>4. QED
      BY <3>1, <3>2, <3>3
  <2>6. Between(db'.coins, Base(OldTip), best)
    BY <2>1, <2>2, <2>3, <2>5 DEF Between, Coins
  <2>7. db'.coins \in Coins
    BY <2>1, <2>3 DEF Coins
  <2>8. /\ db'.heads # NoHeads /\ db'.heads.new = best /\ db'.heads.old = OldTip
        /\ db'.heads \in [new : Blocks \cup {NoBlock}, old : Blocks \cup {NoBlock}]
    BY <2>1, <2>2, <2>4 DEF NoHeads
  <2>9. TypeOK'
    BY <2>1, <2>7, <2>8 DEF TypeOK, volatile
  <2>10. DbSound(db', index, undoDisk)
    BY <2>1, <2>2, <2>5, <2>6, <2>8 DEF DbSound
  <2>11. DbSound(db, index, undoDisk)' /\ DbSound(durable, index, undoDisk)' /\ UndoSound(undoDisk, index)'
    BY <2>1, <2>10
  <2>12. MemorySound'
    BY <2>1 DEF MemorySound, volatile
  <2>13. Running' /\ Flushing' /\ Replaying' /\ phase' # "failed"
    BY <2>1, <2>8 DEF Running, Flushing, Replaying, InMemory, Held, volatile
  <2>14. QED
    BY <2>9, <2>11, <2>12, <2>13 DEF IInv
<1>8. CASE FinalBatch
  <2> USE <1>0, <1>1, <1>8
  <2>1. /\ phase = "flushing" /\ phase' = "running"
        /\ UNCHANGED <<durable, index, undoDisk, volatile, crashes>>
        /\ db' = [coins |-> coins, best |-> best, heads |-> NoHeads]
    BY DEF FinalBatch
  <2>2. db'.coins = coins /\ db'.best = best /\ db'.heads = NoHeads
    BY <2>1
  <2>3. NoHeads \in [new : Blocks \cup {NoBlock}, old : Blocks \cup {NoBlock}]
    BY DEF NoHeads
  <2>4. TypeOK'
    BY <2>1, <2>2, <2>3 DEF TypeOK, volatile
  <2>5. DbSound(db', index, undoDisk)
    BY <2>1, <2>2 DEF DbSound, Flushing
  <2>6. DbSound(db, index, undoDisk)' /\ DbSound(durable, index, undoDisk)' /\ UndoSound(undoDisk, index)'
    BY <2>1, <2>5
  <2>7. MemorySound'
    BY <2>1 DEF MemorySound, volatile
  <2>8. Running' /\ Flushing' /\ Replaying' /\ phase' # "failed"
    BY <2>1, <2>2 DEF Running, Flushing, Replaying, InMemory, Held, Base, volatile
  <2>9. QED
    BY <2>4, <2>6, <2>7, <2>8 DEF IInv
<1>9. CASE SyncDb
  <2> USE <1>0, <1>9
  <2>1. /\ durable' = db /\ UNCHANGED <<db, index, undoDisk, volatile, phase, crashes>>
    BY DEF SyncDb
  <2>2. TypeOK'
    BY <2>1 DEF TypeOK, volatile
  <2>3. DbSound(db, index, undoDisk)' /\ DbSound(durable, index, undoDisk)' /\ UndoSound(undoDisk, index)'
    BY <2>1
  <2>4. MemorySound' /\ Running' /\ Flushing' /\ Replaying' /\ phase' # "failed"
    BY <2>1 DEF MemorySound, Running, Flushing, Replaying, InMemory, volatile
  <2>5. QED
    BY <2>2, <2>3, <2>4 DEF IInv
<1>10. CASE Crash
  <2> USE <1>0, <1>1, <1>10
  <2>1. TypeOK'
    <3>1. Empty \in Coins /\ crashes' \in 0..MaxCrashes
      BY TreeAssumption DEF Empty, Coins, Crash, TypeOK
    <3>2. QED
      BY <3>1 DEF Crash, TypeOK, Undos
  <2>2. DbSound(db, index, undoDisk)' /\ DbSound(durable, index, undoDisk)' /\ UndoSound(undoDisk, index)'
    BY DEF Crash
  <2>3. MemorySound' /\ Running' /\ Flushing' /\ Replaying' /\ phase' # "failed"
    BY DEF Crash, MemorySound, Running, Flushing, Replaying
  <2>4. QED
    BY <2>1, <2>2, <2>3 DEF IInv
<1>11. CASE Start
  <2> USE <1>0, <1>1, <1>11
  <2>1. /\ phase = "down" /\ known' = index /\ undo' = undoDisk
        /\ coins' = db.coins /\ best' = db.best
        /\ UNCHANGED <<disk, crashes>>
    BY DEF Start
  <2>2. /\ db.coins \in Coins /\ db.best \in Blocks \cup {NoBlock}
        /\ db.heads.old \in Blocks \cup {NoBlock}
    BY DEF TypeOK
  <2>3. DbSound(db, index, undoDisk)' /\ DbSound(durable, index, undoDisk)' /\ UndoSound(undoDisk, index)'
    BY <2>1 DEF disk
  <2>4. MemorySound'
    BY <2>1 DEF MemorySound, disk
  <2>5. CASE db.heads = NoHeads
    <3>1. phase' = "running" /\ cursor' = NoBlock
      BY <2>2, <2>5 DEF Start, DbSound, Held
    <3>2. TypeOK'
      BY <2>1, <2>2, <3>1 DEF TypeOK, disk
    <3>3. Running' /\ Flushing' /\ Replaying' /\ phase' # "failed"
      BY <2>1, <2>5, <3>1 DEF Running, Flushing, Replaying, InMemory, Held, Base, DbSound, UndoSound, disk
    <3>4. QED
      BY <2>3, <2>4, <3>2, <3>3 DEF IInv
  <2>6. CASE db.heads # NoHeads
    <3>1. /\ db.heads.new \in Blocks /\ Held(db.heads.new, index, undoDisk)
          /\ Held(Base(db.heads.old), index, undoDisk)
          /\ Between(db.coins, Base(db.heads.old), db.heads.new)
      BY <2>6 DEF DbSound
    <3>2. phase' = "rollback" /\ cursor' = Base(db.heads.old)
      BY <2>2, <2>6, <3>1 DEF Start, Held, Base
    <3>3. Base(db.heads.old) \in Blocks
      BY <2>2 DEF Base
    <3>4. TypeOK'
      BY <2>1, <2>2, <3>2, <3>3 DEF TypeOK, disk
    <3>5. Running' /\ Flushing' /\ Replaying' /\ phase' # "failed"
      BY <2>1, <2>6, <3>1, <3>2, <3>3 DEF Running, Flushing, Replaying, InMemory, disk
    <3>6. QED
      BY <2>3, <2>4, <3>4, <3>5 DEF IInv
  <2>7. QED
    BY <2>5, <2>6
<1>12. CASE RollBack
  <2> USE <1>0, <1>1, <1>12
  <2>1. /\ phase = "rollback" /\ cursor \in Blocks /\ db.heads # NoHeads
        /\ InMemory(cursor) /\ InMemory(db.heads.new)
        /\ Between(coins, cursor, db.heads.new)
        /\ db.heads.new \in Blocks
        /\ UNCHANGED <<disk, known, undo, best, crashes>>
    BY DEF RollBack, Replaying, DbSound
  <2>2. cursor # Genesis /\ undo[cursor] # NoUndo /\ Parent[cursor] \in Blocks
    BY <2>1, TreeAssumption DEF RollBack, InMemory, Held
  <2>3. /\ coins' = DisconnectBlock(coins, cursor, undo[cursor])
        /\ cursor' = Parent[cursor] /\ phase' = "rollback"
    BY <2>1, <2>2 DEF RollBack
  <2>4. /\ undo[cursor] \in [Spent[cursor] -> Nat \cup {NoCoin}]
        /\ coins \in Coins
    BY <2>1, <2>2 DEF TypeOK, Undos
  <2>5. /\ \A o \in Spent[cursor] \ Created[cursor] : undo[cursor][o] = UtxoAt[Parent[cursor]][o]
        /\ Held(Parent[cursor], known, undo)
    BY <2>1, <2>2 DEF MemorySound, UndoSound, Held
  <2>6. coins' \in Coins /\ Between(coins', Parent[cursor], db.heads.new)
    BY <2>1, <2>2, <2>3, <2>4, <2>5, UndoBlock
  <2>7. TypeOK'
    BY <2>1, <2>2, <2>3, <2>6 DEF TypeOK, disk
  <2>8. DbSound(db, index, undoDisk)' /\ DbSound(durable, index, undoDisk)' /\ UndoSound(undoDisk, index)'
    BY <2>1 DEF disk
  <2>9. MemorySound'
    BY <2>1, <2>3 DEF MemorySound, disk
  <2>10. Running' /\ Flushing' /\ Replaying' /\ phase' # "failed"
    BY <2>1, <2>2, <2>3, <2>5, <2>6 DEF Running, Flushing, Replaying, InMemory, disk
  <2>11. QED
    BY <2>7, <2>8, <2>9, <2>10 DEF IInv
<1>13. CASE RolledBack
  <2> USE <1>0, <1>13
  <2>1. TypeOK'
    BY DEF TypeOK, RolledBack, disk, volatile
  <2>2. DbSound(db, index, undoDisk)' /\ DbSound(durable, index, undoDisk)' /\ UndoSound(undoDisk, index)'
    BY DEF RolledBack, disk
  <2>3. MemorySound' /\ Running' /\ Flushing' /\ Replaying' /\ phase' # "failed"
    BY DEF RolledBack, disk, volatile, MemorySound, Running, Flushing, Replaying, InMemory
  <2>4. QED
    BY <2>1, <2>2, <2>3 DEF IInv
<1>14. CASE RollForward
  <2> USE <1>0, <1>1, <1>14
  <2>1. /\ phase = "rollforward" /\ phase' = "rollforward" /\ db.heads # NoHeads
        /\ InMemory(db.heads.new)
        /\ Between(coins, cursor, db.heads.new)
        /\ db.heads.new \in Blocks /\ coins \in Coins
        /\ UNCHANGED <<disk, known, undo, best, crashes>>
    BY DEF RollForward, Replaying, DbSound, TypeOK
  <2>2. PICK b \in Blocks \ {Genesis} :
          Parent[b] = cursor /\ coins' = UpdateCoins(coins, b) /\ cursor' = b
    BY <2>1, TreeAssumption DEF RollForward, RollforwardBlock
  <2>3. coins' \in Coins /\ Between(coins', cursor', db.heads.new)
    BY <2>1, <2>2, RedoBlock
  <2>4. TypeOK'
    BY <2>1, <2>2, <2>3 DEF TypeOK, disk
  <2>5. DbSound(db, index, undoDisk)' /\ DbSound(durable, index, undoDisk)' /\ UndoSound(undoDisk, index)'
    BY <2>1 DEF disk
  <2>6. MemorySound'
    BY <2>1 DEF MemorySound, disk
  <2>7. Running' /\ Flushing' /\ Replaying' /\ phase' # "failed"
    BY <2>1, <2>2, <2>3 DEF Running, Flushing, Replaying, InMemory, disk
  <2>8. QED
    BY <2>4, <2>5, <2>6, <2>7 DEF IInv
<1>15. CASE RolledForward
  <2> USE <1>0, <1>1, <1>15
  <2>1. /\ phase = "rollforward" /\ phase' = "flushing" /\ db.heads # NoHeads
        /\ InMemory(db.heads.new)
        /\ Between(coins, db.heads.new, db.heads.new)
        /\ db.heads.new \in Blocks /\ coins \in Coins
        /\ Held(db.heads.new, index, undoDisk)
        /\ best' = db.heads.new
        /\ UNCHANGED <<disk, known, undo, coins, cursor, crashes>>
    BY DEF RolledForward, Replaying, DbSound, TypeOK
  <2>2. coins = UtxoAt[db.heads.new]
    BY <2>1, BetweenSame
  <2>3. TypeOK'
    BY <2>1 DEF TypeOK, disk
  <2>4. DbSound(db, index, undoDisk)' /\ DbSound(durable, index, undoDisk)' /\ UndoSound(undoDisk, index)'
    BY <2>1 DEF disk
  <2>5. MemorySound'
    BY <2>1 DEF MemorySound, disk
  <2>6. Running' /\ Flushing' /\ Replaying' /\ phase' # "failed"
    BY <2>1, <2>2 DEF Running, Flushing, Replaying, InMemory, disk
  <2>7. QED
    BY <2>3, <2>4, <2>5, <2>6 DEF IInv
<1>16. CASE UNCHANGED vars
  <2> USE <1>0, <1>16
  <2>1. TypeOK'
    BY DEF TypeOK, vars, disk, volatile
  <2>2. DbSound(db, index, undoDisk)' /\ DbSound(durable, index, undoDisk)' /\ UndoSound(undoDisk, index)'
    BY DEF vars, disk
  <2>3. MemorySound' /\ Running' /\ Flushing' /\ Replaying' /\ phase' # "failed"
    BY DEF vars, disk, volatile, MemorySound, Running, Flushing, Replaying, InMemory
  <2>4. QED
    BY <2>1, <2>2, <2>3 DEF IInv
<1>17. QED
  BY <1>2, <1>3, <1>4, <1>5, <1>6, <1>7, <1>8, <1>9, <1>10, <1>11, <1>12, <1>13, <1>14, <1>15, <1>16 DEF Next

LEMMA Invariance == Spec => []IInv
<1>1. QED
  BY InitIInv, StepIInv, PTL DEF Spec

\* Whatever was interrupted, a database with a best block holds that block's
\* coins, and so does the running node.
THEOREM RecoveredCoinsAreRight == Spec => []CoinsMatchBestBlock
<1>1. IInv => CoinsMatchBestBlock
  BY DEF IInv, CoinsMatchBestBlock, DbSound, Running, Base
<1>2. QED
  BY <1>1, Invariance, PTL

\* Recovery never meets an unknown block or missing undo data.
THEOREM RecoveryAlwaysPossible == Spec => []RecoveryNeverFails
<1>1. IInv => RecoveryNeverFails
  BY DEF IInv, RecoveryNeverFails, Flushing
<1>2. QED
  BY <1>1, Invariance, PTL

\* A valid block connects to the tip, and the tip disconnects cleanly.
THEOREM TipAlwaysMoves == Spec => []TipCanMove
<1>1. IInv => TipCanMove
  <2> SUFFICES ASSUME IInv, phase = "running" PROVE TipCanMove
    BY DEF TipCanMove
  <2>1. best \in Blocks \cup {NoBlock} /\ coins = UtxoAt[Base(best)] /\ InMemory(Base(best))
        /\ known \subseteq Blocks
    BY DEF IInv, TypeOK, Running
  <2>2. ASSUME NEW b \in known \ {Genesis}, Parent[b] = best
        PROVE  ConnectChecks(coins, b)
    BY <2>1, <2>2, TreeAssumption DEF Base
  <2>3. ASSUME best \notin {NoBlock, Genesis}
        PROVE  undo[best] # NoUndo /\ DisconnectsCleanly(coins, best)
    <3>1. best \in Blocks \ {Genesis} /\ Base(best) = best
      BY <2>1, <2>3 DEF Base
    <3>2. coins = UpdateCoins(UtxoAt[Parent[best]], best)
      BY <2>1, <3>1, TreeAssumption
    <3>3. Spent[best] \subseteq Outpoints /\ Created[best] \subseteq Outpoints
      BY <3>1, TreeAssumption
    <3>4. QED
      BY <2>1, <3>1, <3>2, <3>3 DEF InMemory, Held, DisconnectsCleanly, UpdateCoins
  <2>4. QED
    BY <2>2, <2>3 DEF TipCanMove
<1>2. QED
  BY <1>1, Invariance, PTL

\* An interrupted flush is finished towards its own block or lost as a whole.
THEOREM FlushesAreFinished == Spec => HeadsAreFinished
<1>1. IInv /\ [Next]_vars =>
        [db.heads # NoHeads /\ db'.best # NoBlock => db'.best = db.heads.new \/ db' = durable]_vars
  <2> SUFFICES ASSUME IInv, [Next]_vars, db.heads # NoHeads, db'.best # NoBlock
               PROVE  db'.best = db.heads.new \/ db' = durable
    OBVIOUS
  <2>1. db.best = NoBlock
    BY DEF IInv, DbSound
  <2>2. CASE FinalBatch
    BY <2>2 DEF FinalBatch, IInv, Flushing
  <2>3. CASE Crash
    BY <2>1, <2>3 DEF Crash
  <2>4. CASE \E o \in Outpoints : PartialBatch(o)
    BY <2>4 DEF PartialBatch
  <2>5. CASE UNCHANGED db
    BY <2>1, <2>5
  <2>6. QED
    BY <2>2, <2>3, <2>4, <2>5 DEF Next, vars, disk, AcceptBlock, ConnectTip, DisconnectTip, WriteBlockIndex,
       FlushStateToDisk, SyncDb, Start, RollBack, RolledBack, RollForward, RolledForward
<1>2. QED
  BY <1>1, Invariance, PTL DEF Spec, HeadsAreFinished
=============================================================================
