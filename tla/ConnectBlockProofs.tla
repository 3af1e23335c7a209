------------------------- MODULE ConnectBlockProofs -------------------------
(***************************************************************************)
(* The two structures ConnectBlock works with, on their own: the coin      *)
(* caches it changes and the queue it hands script checks to.              *)
(*                                                                         *)
(* Caches.  For any sets of outpoints, coins and blocks: the flags of both *)
(* caches mean what coins.h says, the two logic_errors of coins.cpp are    *)
(* never thrown, and the stack of caches implements two plain              *)
(* unspent-output sets.  The lemmas say what each operation of one cache   *)
(* does to what it shows, over any base; the theorems put the two caches   *)
(* together.                                                               *)
(*                                                                         *)
(* Queue.  For any number of workers, any checks and any batch size: Wait  *)
(* tells the truth, nTodo counts what is outstanding, and the counters of  *)
(* threads are exact.  The invariant says what fAllOk and every thread's   *)
(* fOk know: a true value vouches for the checks already accounted for     *)
(* (fAllOk) or run (fOk), a false one means that the present control added *)
(* a check that fails.  It is stated for the middle of a critical section  *)
(* too, between the clean-up of the last batch and the choice of what to   *)
(* do next.                                                                *)
(***************************************************************************)
EXTENDS CoinsViewCache, CheckQueue, FiniteSetTheorems, TLAPS

\* The provers, in turn, where a leaf names none.
USE ZenonT(5), SMTT(40), ZenonT(40), Z3T(40)
-----------------------------------------------------------------------------
(* The coin caches.                                                        *)

\* FetchCoin changes nothing a cache shows.
LEMMA FetchSound ==
    ASSUME NEW cache \in Caches, NEW base \in Utxos, NEW o \in Outpoints,
           FlagsSound(cache, base)
    PROVE  /\ FetchCoin(cache, base, o) \in Caches
           /\ FlagsSound(FetchCoin(cache, base, o), base)
           /\ Shown(FetchCoin(cache, base, o), base) = Shown(cache, base)
BY CoinAssumption DEF Caches, Utxos, Entries, FlagsSound, FetchCoin, Shown, CacheGetCoin

\* AddCoin shows the new coin and nothing else new, provided a coin that
\* may not be overwritten does not exist.
LEMMA AddSound ==
    ASSUME NEW cache \in Caches, NEW base \in Utxos, NEW o \in Outpoints,
           NEW c \in Coins, NEW overwrite \in BOOLEAN,
           FlagsSound(cache, base),
           ~overwrite => CacheGetCoin(cache, base, o) = NoCoin
    PROVE  /\ AddCoin(cache, o, c, overwrite) \in Caches
           /\ FlagsSound(AddCoin(cache, o, c, overwrite), base)
           /\ Shown(AddCoin(cache, o, c, overwrite), base)
                = [Shown(cache, base) EXCEPT ![o] = c]
<1> DEFINE e == EntryAfterAdd(cache[o], c, overwrite)
<1>1. /\ e \in Entries
      /\ e.coin = c /\ e.dirty
      /\ e.fresh => base[o] = NoCoin
  BY CoinAssumption DEF Caches, Utxos, Entries, FlagsSound, EntryAfterAdd, CacheGetCoin
<1>2. AddCoin(cache, o, c, overwrite) = [cache EXCEPT ![o] = e]
  BY DEF AddCoin
<1> HIDE DEF e
<1>3. e # NoEntry /\ e.coin # NoCoin
  BY <1>1, CoinAssumption DEF Entries
<1>4. AddCoin(cache, o, c, overwrite) \in Caches
  BY <1>1, <1>2 DEF Caches
<1>5. FlagsSound(AddCoin(cache, o, c, overwrite), base)
  BY <1>1, <1>2, <1>3 DEF Caches, FlagsSound
<1>6. Shown(AddCoin(cache, o, c, overwrite), base) = [Shown(cache, base) EXCEPT ![o] = c]
  BY <1>1, <1>2, <1>3 DEF Caches, Shown, CacheGetCoin
<1>7. QED
  BY <1>4, <1>5, <1>6

\* SpendCoin hides the coin and nothing else.
LEMMA SpendSound ==
    ASSUME NEW cache \in Caches, NEW base \in Utxos, NEW o \in Outpoints,
           FlagsSound(cache, base)
    PROVE  /\ SpendCoin(cache, base, o) \in Caches
           /\ FlagsSound(SpendCoin(cache, base, o), base)
           /\ Shown(SpendCoin(cache, base, o), base)
                = [Shown(cache, base) EXCEPT ![o] = NoCoin]
<1> DEFINE f == FetchCoin(cache, base, o)
<1>1. f \in Caches /\ FlagsSound(f, base) /\ Shown(f, base) = Shown(cache, base)
  BY FetchSound
<1>2. SpendCoin(cache, base, o) =
        CASE f[o] = NoEntry -> f
          [] f[o] # NoEntry /\ f[o].fresh -> [f EXCEPT ![o] = NoEntry]
          [] OTHER -> [f EXCEPT ![o] = [coin |-> NoCoin, dirty |-> TRUE, fresh |-> FALSE]]
  BY DEF SpendCoin
<1>3. f[o] = NoEntry => base[o] = NoCoin
  <2> DEFINE r == [coin |-> base[o], dirty |-> FALSE, fresh |-> FALSE]
  <2>1. r \in Entries
    BY DEF Entries, Utxos
  <2>2. r # NoEntry
    BY <2>1, CoinAssumption
  <2>3. f = IF cache[o] = NoEntry /\ base[o] # NoCoin THEN [cache EXCEPT ![o] = r] ELSE cache
    BY DEF FetchCoin
  <2> HIDE DEF r, f
  <2>4. QED
    BY <2>2, <2>3 DEF Caches
<1> HIDE DEF f
<1>4. CASE f[o] = NoEntry
  BY <1>1, <1>2, <1>3, <1>4 DEF Shown, CacheGetCoin, Caches, Utxos
<1>5. CASE f[o] # NoEntry /\ f[o].fresh
  <2>1. SpendCoin(cache, base, o) = [f EXCEPT ![o] = NoEntry]
    BY <1>2, <1>5
  <2>2. base[o] = NoCoin
    BY <1>1, <1>5 DEF FlagsSound
  <2>3. SpendCoin(cache, base, o) \in Caches
    BY <1>1, <2>1 DEF Caches
  <2>4. FlagsSound(SpendCoin(cache, base, o), base)
    BY <1>1, <2>1 DEF Caches, FlagsSound
  <2>5. Shown(SpendCoin(cache, base, o), base) = [Shown(f, base) EXCEPT ![o] = NoCoin]
    BY <1>1, <2>1, <2>2 DEF Caches, Shown, CacheGetCoin
  <2>6. QED
    BY <1>1, <2>3, <2>4, <2>5
<1>6. CASE f[o] # NoEntry /\ ~f[o].fresh
  <2> DEFINE s == [coin |-> NoCoin, dirty |-> TRUE, fresh |-> FALSE]
  <2>1. SpendCoin(cache, base, o) = [f EXCEPT ![o] = s]
    BY <1>2, <1>6
  <2>2. s \in Entries /\ s.coin = NoCoin /\ s.dirty /\ ~s.fresh
    BY DEF Entries
  <2>3. s # NoEntry
    BY <2>2, CoinAssumption
  <2> HIDE DEF s
  <2>4. SpendCoin(cache, base, o) \in Caches
    BY <1>1, <2>1, <2>2 DEF Caches
  <2>5. FlagsSound(SpendCoin(cache, base, o), base)
    BY <1>1, <2>1, <2>2 DEF Caches, FlagsSound
  <2>6. Shown(SpendCoin(cache, base, o), base) = [Shown(f, base) EXCEPT ![o] = NoCoin]
    BY <1>1, <2>1, <2>2, <2>3 DEF Caches, Shown, CacheGetCoin
  <2>7. QED
    BY <1>1, <2>4, <2>5, <2>6
<1>7. QED
  BY <1>4, <1>5, <1>6

\* BatchWrite makes the parent show exactly what the child showed.
LEMMA BatchWriteSound ==
    ASSUME NEW cache \in Caches, NEW base \in Utxos, NEW child \in Caches,
           FlagsSound(cache, base), FlagsSound(child, Shown(cache, base))
    PROVE  /\ BatchWrite(cache, child) \in Caches
           /\ FlagsSound(BatchWrite(cache, child), base)
           /\ Shown(BatchWrite(cache, child), base) = Shown(child, Shown(cache, base))
<1>1. ASSUME NEW o \in Outpoints
      PROVE  LET b == BatchWriteEntry(cache[o], child[o]) IN
             /\ b \in Entries \cup {NoEntry}
             /\ b # NoEntry =>
                  /\ ~b.dirty => b.coin = base[o]
                  /\ b.fresh => b.dirty /\ base[o] = NoCoin
                  /\ b.coin = NoCoin => b.dirty /\ ~b.fresh
             /\ (IF b = NoEntry THEN base[o] ELSE b.coin)
                  = CacheGetCoin(child, Shown(cache, base), o)
  <2>1. /\ cache[o] \in Entries \cup {NoEntry}
        /\ child[o] \in Entries \cup {NoEntry}
        /\ Shown(cache, base)[o] = CacheGetCoin(cache, base, o)
    BY DEF Caches, Shown
  <2>2. CASE child[o] = NoEntry \/ ~child[o].dirty
    <3>1. BatchWriteEntry(cache[o], child[o]) = cache[o]
      BY <2>1, <2>2 DEF BatchWriteEntry
    <3>2. QED
      BY <2>1, <2>2, <3>1 DEF FlagsSound, CacheGetCoin
  <2>3. CASE child[o] # NoEntry /\ child[o].dirty /\ cache[o] = NoEntry
    <3>1. BatchWriteEntry(cache[o], child[o]) =
            IF child[o].fresh /\ child[o].coin = NoCoin THEN NoEntry
            ELSE [coin |-> child[o].coin, dirty |-> TRUE, fresh |-> child[o].fresh]
      BY <2>1, <2>3 DEF BatchWriteEntry
    <3>2. QED
      BY <2>1, <2>3, <3>1, CoinAssumption DEF FlagsSound, CacheGetCoin, Entries
  <2>4. CASE child[o] # NoEntry /\ child[o].dirty /\ cache[o] # NoEntry
    <3>1. BatchWriteEntry(cache[o], child[o]) =
            IF cache[o].fresh /\ child[o].coin = NoCoin THEN NoEntry
            ELSE [coin |-> child[o].coin, dirty |-> TRUE, fresh |-> cache[o].fresh]
      BY <2>1, <2>4 DEF BatchWriteEntry
    <3> DEFINE b == [coin |-> child[o].coin, dirty |-> TRUE, fresh |-> cache[o].fresh]
    <3>2. b \in Entries /\ b.coin = child[o].coin /\ b.dirty /\ b.fresh = cache[o].fresh
      BY <2>1, <2>4 DEF Entries
    <3>3. b # NoEntry
      BY <3>2, CoinAssumption
    <3>4. cache[o].fresh => base[o] = NoCoin
      BY <2>4 DEF FlagsSound
    <3> HIDE DEF b
    <3>5. CASE cache[o].fresh /\ child[o].coin = NoCoin
      BY <2>1, <2>4, <3>1, <3>4, <3>5 DEF CacheGetCoin
    <3>6. CASE ~(cache[o].fresh /\ child[o].coin = NoCoin)
      <4>1. BatchWriteEntry(cache[o], child[o]) = b
        BY <3>1, <3>6 DEF b
      <4>2. child[o].coin = CacheGetCoin(child, Shown(cache, base), o)
        BY <2>4 DEF CacheGetCoin
      <4>3. b.coin = NoCoin => ~b.fresh
        BY <3>2, <3>6
      <4>4. QED
        BY <3>2, <3>3, <3>4, <4>1, <4>2, <4>3
    <3>7. QED
      BY <3>5, <3>6
  <2>5. QED
    BY <2>2, <2>3, <2>4
<1> HIDE DEF BatchWriteEntry
<1>2. BatchWrite(cache, child) \in Caches
  BY <1>1 DEF BatchWrite, Caches
<1>3. FlagsSound(BatchWrite(cache, child), base)
  BY <1>1 DEF BatchWrite, FlagsSound
<1>4. \A o \in Outpoints : CacheGetCoin(BatchWrite(cache, child), base, o)
                             = CacheGetCoin(child, Shown(cache, base), o)
  BY <1>1 DEF BatchWrite, CacheGetCoin
<1>5. QED
  BY <1>2, <1>3, <1>4 DEF Shown

\* Writing a cache to the database stores exactly what the cache showed.
LEMMA DbBatchWriteSound ==
    ASSUME NEW cache \in Caches, NEW base \in Utxos, FlagsSound(cache, base)
    PROVE  DbBatchWrite(base, cache) = Shown(cache, base)
BY DEF FlagsSound, DbBatchWrite, Shown, CacheGetCoin, Caches, Entries

\* Uncache changes nothing a cache shows.
LEMMA UncacheSound ==
    ASSUME NEW cache \in Caches, NEW base \in Utxos, NEW o \in Outpoints,
           FlagsSound(cache, base)
    PROVE  /\ Uncache(cache, o) \in Caches
           /\ FlagsSound(Uncache(cache, o), base)
           /\ Shown(Uncache(cache, o), base) = Shown(cache, base)
BY DEF Caches, Utxos, Entries, FlagsSound, Uncache, Shown, CacheGetCoin

\* What a cache shows is an unspent-output set, and an empty one is transparent.
LEMMA ShownType ==
    ASSUME NEW cache \in Caches, NEW base \in Utxos
    PROVE  /\ Shown(cache, base) \in Utxos
           /\ NoEntries \in Caches
           /\ FlagsSound(NoEntries, base)
           /\ Shown(NoEntries, base) = base
BY DEF Shown, CacheGetCoin, Caches, Utxos, Entries, NoEntries, FlagsSound

----------------------------------------------------------------------------
(* The two caches together.  Beyond the meaning of the flags, the invariant *)
(* says that no entry outlives its view, and that a view without a best     *)
(* block of its own can only exist while no block was ever connected, so    *)
(* that a flush never replaces the tip's best block by a null one.          *)
CoinsInv ==
    /\ CoinsTypeOK
    /\ FlagsMeanWhatTheySay
    /\ ~open => view = NoEntries /\ viewBest = NullBlock
    /\ open /\ viewBest = NullBlock => tipBest = NullBlock /\ dbBest = NullBlock

LEMMA InitHolds == CoinsInit => CoinsInv /\ Abs!Init
<1> SUFFICES ASSUME CoinsInit PROVE CoinsInv /\ Abs!Init
  OBVIOUS
<1>1. db \in Utxos /\ NoEntries \in Caches
  BY DEF CoinsInit, Utxos, Caches, NoEntries
<1>2. Shown(NoEntries, db) = db /\ FlagsSound(NoEntries, db)
  BY <1>1, ShownType
<1>3. QED
  BY <1>1, <1>2 DEF CoinsInit, CoinsInv, CoinsTypeOK, FlagsMeanWhatTheySay, TipUtxo, ViewUtxo, TipBlock, ViewBlock, Abs!Init

\* Every step keeps the invariant and is a step of the abstract views, or
\* one that nobody sees.
LEMMA StepHolds == CoinsInv /\ [CoinsNext]_coinsVars => CoinsInv' /\ [Abs!Next]_(Abs!absVars)
<1> SUFFICES ASSUME CoinsInv, [CoinsNext]_coinsVars PROVE CoinsInv' /\ [Abs!Next]_(Abs!absVars)
  OBVIOUS
<1>1. /\ db \in Utxos /\ tip \in Caches /\ view \in Caches
      /\ FlagsSound(tip, db) /\ FlagsSound(view, TipUtxo)
      /\ dbBest \in Blocks \cup {NullBlock}
      /\ tipBest \in Blocks \cup {NullBlock}
      /\ viewBest \in Blocks \cup {NullBlock}
      /\ open \in BOOLEAN
      /\ ~open => view = NoEntries /\ viewBest = NullBlock
      /\ open /\ viewBest = NullBlock => tipBest = NullBlock /\ dbBest = NullBlock
  BY DEF CoinsInv, CoinsTypeOK, FlagsMeanWhatTheySay
<1>2. TipUtxo \in Utxos /\ ViewUtxo \in Utxos
  BY <1>1, ShownType DEF TipUtxo, ViewUtxo
<1>3. NoEntries \in Caches /\ FlagsSound(NoEntries, TipUtxo) /\ Shown(NoEntries, TipUtxo) = TipUtxo
  BY <1>1, <1>2, ShownType
<1>4. ASSUME NEW o \in Outpoints
      PROVE  LET t == TipAfterRead(o)
             IN t \in Caches /\ FlagsSound(t, db) /\ Shown(t, db) = TipUtxo
  BY <1>1, FetchSound DEF TipAfterRead, TipUtxo
<1>5. CASE OpenView
  <2>1. TipUtxo' = TipUtxo /\ ViewUtxo' = ViewUtxo
    BY <1>1, <1>5 DEF OpenView, TipUtxo, ViewUtxo
  <2>2. TipBlock' = TipBlock /\ ViewBlock' = ViewBlock
    BY <1>1, <1>5 DEF OpenView, TipBlock, ViewBlock
  <2>3. Abs!Next
    BY <1>5, <2>1, <2>2 DEF OpenView, Abs!Next, Abs!Begin
  <2>4. CoinsInv'
    BY <1>1, <1>3, <1>5, <2>1
    DEF OpenView, CoinsInv, CoinsTypeOK, FlagsMeanWhatTheySay, TipBlock
  <2>5. QED
    BY <2>3, <2>4
<1>6. ASSUME NEW o \in Outpoints, ReadView(o)
      PROVE  CoinsInv' /\ UNCHANGED Abs!absVars
  <2>1. TipUtxo' = TipUtxo
    BY <1>4, <1>6 DEF ReadView, TipUtxo
  <2>2. /\ view' \in Caches /\ FlagsSound(view', TipUtxo)
        /\ Shown(view', TipUtxo) = ViewUtxo
    BY <1>1, <1>2, <1>6, FetchSound DEF ReadView, ViewUtxo
  <2>3. ViewUtxo' = ViewUtxo
    BY <2>1, <2>2 DEF ViewUtxo
  <2>4. CoinsInv'
    BY <1>1, <1>4, <1>6, <2>1, <2>2 DEF ReadView, CoinsInv, CoinsTypeOK, FlagsMeanWhatTheySay
  <2>5. QED
    BY <1>6, <2>1, <2>3, <2>4 DEF ReadView, TipBlock, ViewBlock, Abs!absVars
<1>7. ASSUME NEW o \in Outpoints, NEW c \in Coins, AddCoinbase(o, c)
      PROVE  CoinsInv' /\ Abs!Next
  <2>1. TipUtxo' = TipUtxo
    BY <1>7 DEF AddCoinbase, TipUtxo
  <2>2. TRUE \/ CacheGetCoin(view, TipUtxo, o) = NoCoin
    BY <1>7 DEF AddCoinbase, ViewUtxo, Shown
  <2>3. /\ view' \in Caches /\ FlagsSound(view', TipUtxo)
        /\ Shown(view', TipUtxo) = [ViewUtxo EXCEPT ![o] = c]
    <3> DEFINE overwrite == TRUE
    <3>1. overwrite \in BOOLEAN /\ view' = AddCoin(view, o, c, overwrite)
      BY <1>7 DEF AddCoinbase
    <3>2. ~overwrite => CacheGetCoin(view, TipUtxo, o) = NoCoin
      BY <2>2
    <3> HIDE DEF overwrite
    <3>3. QED
      BY <1>1, <1>2, <3>1, <3>2, AddSound DEF ViewUtxo
  <2>4. ViewUtxo' = [ViewUtxo EXCEPT ![o] = c]
    BY <2>1, <2>3 DEF ViewUtxo
  <2>5. CoinsInv'
    BY <1>1, <1>7, <2>1, <2>3 DEF AddCoinbase, CoinsInv, CoinsTypeOK, FlagsMeanWhatTheySay
  <2>6. Abs!Put(o, c)
    BY <1>7, <2>1, <2>4 DEF AddCoinbase, TipBlock, ViewBlock, Abs!Put
  <2>7. QED
    BY <2>5, <2>6 DEF Abs!Next
<1>8. ASSUME NEW o \in Outpoints, NEW c \in Coins, AddNew(o, c)
      PROVE  CoinsInv' /\ Abs!Next
  <2>1. TipUtxo' = TipUtxo
    BY <1>8 DEF AddNew, TipUtxo
  <2>2. FALSE \/ CacheGetCoin(view, TipUtxo, o) = NoCoin
    BY <1>8 DEF AddNew, ViewUtxo, Shown
  <2>3. /\ view' \in Caches /\ FlagsSound(view', TipUtxo)
        /\ Shown(view', TipUtxo) = [ViewUtxo EXCEPT ![o] = c]
    <3> DEFINE overwrite == FALSE
    <3>1. overwrite \in BOOLEAN /\ view' = AddCoin(view, o, c, overwrite)
      BY <1>8 DEF AddNew
    <3>2. ~overwrite => CacheGetCoin(view, TipUtxo, o) = NoCoin
      BY <2>2
    <3> HIDE DEF overwrite
    <3>3. QED
      BY <1>1, <1>2, <3>1, <3>2, AddSound DEF ViewUtxo
  <2>4. ViewUtxo' = [ViewUtxo EXCEPT ![o] = c]
    BY <2>1, <2>3 DEF ViewUtxo
  <2>5. CoinsInv'
    BY <1>1, <1>8, <2>1, <2>3 DEF AddNew, CoinsInv, CoinsTypeOK, FlagsMeanWhatTheySay
  <2>6. Abs!Put(o, c)
    BY <1>8, <2>1, <2>4 DEF AddNew, TipBlock, ViewBlock, Abs!Put
  <2>7. QED
    BY <2>5, <2>6 DEF Abs!Next
<1>9. ASSUME NEW o \in Outpoints, NEW c \in Coins, AddChecked(o, c)
      PROVE  CoinsInv' /\ Abs!Next
  <2> DEFINE f == FetchCoin(view, TipUtxo, o)
  <2>1. TipUtxo' = TipUtxo
    BY <1>4, <1>9 DEF AddChecked, TipUtxo
  <2>2. f \in Caches /\ FlagsSound(f, TipUtxo) /\ Shown(f, TipUtxo) = ViewUtxo
    BY <1>1, <1>2, FetchSound DEF ViewUtxo
  <2>3. CacheGetCoin(f, TipUtxo, o) = ViewUtxo[o]
    BY <2>2 DEF Shown
  <2> HIDE DEF f
  <2>4. view' = AddCoin(f, o, c, ViewUtxo[o] # NoCoin)
    BY <1>9 DEF AddChecked, f
  <2>5. /\ view' \in Caches /\ FlagsSound(view', TipUtxo)
        /\ Shown(view', TipUtxo) = [ViewUtxo EXCEPT ![o] = c]
    <3> DEFINE overwrite == ViewUtxo[o] # NoCoin
    <3>1. overwrite \in BOOLEAN /\ view' = AddCoin(f, o, c, overwrite)
      BY <2>4
    <3>2. ~overwrite => CacheGetCoin(f, TipUtxo, o) = NoCoin
      BY <2>3
    <3> HIDE DEF overwrite
    <3>3. QED
      BY <1>2, <2>2, <3>1, <3>2, AddSound
  <2>6. ViewUtxo' = [ViewUtxo EXCEPT ![o] = c]
    BY <2>1, <2>5 DEF ViewUtxo
  <2>7. CoinsInv'
    BY <1>1, <1>4, <1>9, <2>1, <2>5 DEF AddChecked, CoinsInv, CoinsTypeOK, FlagsMeanWhatTheySay
  <2>8. Abs!Put(o, c)
    BY <1>9, <2>1, <2>6 DEF AddChecked, TipBlock, ViewBlock, Abs!Put
  <2>9. QED
    BY <2>7, <2>8 DEF Abs!Next
<1>10. ASSUME NEW o \in Outpoints, Spend(o)
       PROVE  CoinsInv' /\ Abs!Next
  <2>1. TipUtxo' = TipUtxo
    BY <1>4, <1>10 DEF Spend, TipUtxo
  <2>2. /\ view' \in Caches /\ FlagsSound(view', TipUtxo)
        /\ Shown(view', TipUtxo) = [ViewUtxo EXCEPT ![o] = NoCoin]
    BY <1>1, <1>2, <1>10, SpendSound DEF Spend, ViewUtxo
  <2>3. ViewUtxo' = [ViewUtxo EXCEPT ![o] = NoCoin]
    BY <2>1, <2>2 DEF ViewUtxo
  <2>4. CoinsInv'
    BY <1>1, <1>4, <1>10, <2>1, <2>2 DEF Spend, CoinsInv, CoinsTypeOK, FlagsMeanWhatTheySay
  <2>5. Abs!Put(o, NoCoin)
    BY <1>10, <2>1, <2>3 DEF Spend, TipBlock, ViewBlock, Abs!Put
  <2>6. QED
    BY <2>4, <2>5 DEF Abs!Next
<1>11. ASSUME NEW b \in Blocks, SetBestBlock(b)
       PROVE  CoinsInv' /\ Abs!Next
  <2>1. TipUtxo' = TipUtxo /\ ViewUtxo' = ViewUtxo
    BY <1>11 DEF SetBestBlock, TipUtxo, ViewUtxo
  <2>2. TipBlock' = TipBlock /\ ViewBlock' = b
    BY <1>11, CoinAssumption DEF SetBestBlock, TipBlock, ViewBlock
  <2>3. CoinsInv'
    BY <1>1, <1>11, <2>1, CoinAssumption
    DEF SetBestBlock, CoinsInv, CoinsTypeOK, FlagsMeanWhatTheySay
  <2>4. Abs!MoveTo(b)
    BY <1>11, <2>1, <2>2 DEF SetBestBlock, Abs!MoveTo
  <2>5. QED
    BY <2>3, <2>4 DEF Abs!Next
<1>12. CASE FlushView
  <2>1. /\ tip' \in Caches /\ FlagsSound(tip', db)
        /\ Shown(tip', db) = ViewUtxo
    BY <1>1, <1>12, BatchWriteSound DEF FlushView, TipUtxo, ViewUtxo
  <2>2. TipUtxo' = ViewUtxo
    BY <1>12, <2>1 DEF FlushView, TipUtxo
  <2>3. FlagsSound(NoEntries, ViewUtxo) /\ Shown(NoEntries, ViewUtxo) = ViewUtxo
    BY <1>1, <1>2, ShownType
  <2>4. ViewUtxo' = ViewUtxo
    BY <1>12, <2>2, <2>3 DEF FlushView, ViewUtxo
  <2>5. TipBlock' = ViewBlock /\ ViewBlock' = ViewBlock
    BY <1>1, <1>12 DEF FlushView, TipBlock, ViewBlock
  <2>6. CoinsInv'
    BY <1>1, <1>3, <1>12, <2>1, <2>2, <2>3 DEF FlushView, CoinsInv, CoinsTypeOK, FlagsMeanWhatTheySay
  <2>7. Abs!Commit
    BY <1>12, <2>2, <2>4, <2>5 DEF FlushView, Abs!Commit
  <2>8. QED
    BY <2>6, <2>7 DEF Abs!Next
<1>13. CASE DropView
  <2>1. TipUtxo' = TipUtxo /\ TipBlock' = TipBlock
    BY <1>13 DEF DropView, TipUtxo, TipBlock
  <2>2. ViewUtxo' = TipUtxo /\ ViewBlock' = TipBlock
    BY <1>3, <1>13, <2>1 DEF DropView, ViewUtxo, ViewBlock
  <2>3. CoinsInv'
    BY <1>1, <1>3, <1>13, <2>1 DEF DropView, CoinsInv, CoinsTypeOK, FlagsMeanWhatTheySay
  <2>4. Abs!Abandon
    BY <1>13, <2>1, <2>2 DEF DropView, Abs!Abandon
  <2>5. QED
    BY <2>3, <2>4 DEF Abs!Next
<1>14. CASE FlushTip
  <2>1. db' = TipUtxo
    BY <1>1, <1>14, DbBatchWriteSound DEF FlushTip, TipUtxo
  <2>2. TipUtxo' = TipUtxo /\ ViewUtxo' = ViewUtxo
    BY <1>3, <1>14, <2>1 DEF FlushTip, TipUtxo, ViewUtxo
  <2>3. TipBlock' = TipBlock /\ ViewBlock' = ViewBlock
    BY <1>14 DEF FlushTip, TipBlock, ViewBlock
  <2>4. CoinsInv'
    BY <1>1, <1>2, <1>3, <1>14, <2>1, <2>2
    DEF FlushTip, CoinsInv, CoinsTypeOK, FlagsMeanWhatTheySay, TipBlock
  <2>5. QED
    BY <1>14, <2>2, <2>3, <2>4 DEF FlushTip, Abs!absVars
<1>15. ASSUME NEW o \in Outpoints, ReadTip(o) \/ UncacheTip(o)
       PROVE  CoinsInv' /\ UNCHANGED Abs!absVars
  <2>1. tip' \in Caches /\ FlagsSound(tip', db) /\ Shown(tip', db) = TipUtxo
    BY <1>1, <1>15, FetchSound, UncacheSound DEF ReadTip, UncacheTip, TipUtxo
  <2>2. UNCHANGED <<db, dbBest, tipBest, view, viewBest, open>>
    BY <1>15 DEF ReadTip, UncacheTip
  <2>3. TipUtxo' = TipUtxo
    BY <2>1, <2>2 DEF TipUtxo
  <2>4. ViewUtxo' = ViewUtxo
    BY <2>2, <2>3 DEF ViewUtxo
  <2>5. CoinsInv'
    BY <1>1, <2>1, <2>2, <2>3 DEF CoinsInv, CoinsTypeOK, FlagsMeanWhatTheySay
  <2>6. QED
    BY <2>2, <2>3, <2>4, <2>5 DEF TipBlock, ViewBlock, Abs!absVars
<1>16. CASE UNCHANGED coinsVars
  BY <1>16 DEF coinsVars, CoinsInv, CoinsTypeOK, FlagsMeanWhatTheySay, FlagsSound, TipUtxo, ViewUtxo, TipBlock,
     ViewBlock, Shown, CacheGetCoin, Abs!absVars
<1>17. QED
  BY <1>5, <1>6, <1>7, <1>8, <1>9, <1>10, <1>11, <1>12, <1>13, <1>14, <1>15, <1>16 DEF CoinsNext

\* The flags of both caches always mean what coins.h says of them.
THEOREM FlagsAlwaysSound == CoinsSpec => []FlagsMeanWhatTheySay
<1>1. CoinsInit => CoinsInv
  BY InitHolds
<1>2. CoinsInv /\ [CoinsNext]_coinsVars => CoinsInv'
  BY StepHolds
<1>3. CoinsInv => FlagsMeanWhatTheySay
  BY DEF CoinsInv
<1>4. QED
  BY <1>1, <1>2, <1>3, PTL DEF CoinsSpec

\* AddCoin and BatchWrite never throw their logic_errors.
THEOREM NeverALogicError == CoinsSpec => []NoLogicError
<1>1. CoinsInit => CoinsInv
  BY InitHolds
<1>2. CoinsInv /\ [CoinsNext]_coinsVars => CoinsInv'
  BY StepHolds
<1>3. CoinsInv => NoLogicError
  <2> SUFFICES ASSUME CoinsInv PROVE NoLogicError
    OBVIOUS
  <2>1. FlagsSound(tip, db) /\ FlagsSound(view, TipUtxo) /\ tip \in Caches /\ view \in Caches
    BY DEF CoinsInv, CoinsTypeOK, FlagsMeanWhatTheySay
  <2>2. ~BatchWriteThrows(tip, view)
    BY <2>1 DEF BatchWriteThrows, FlagsSound, TipUtxo, Shown, CacheGetCoin
  <2>3. \A o \in Outpoints : ViewUtxo[o] = NoCoin => ~AddCoinThrows(view, o, FALSE)
    BY DEF AddCoinThrows, ViewUtxo, Shown, CacheGetCoin
  <2>4. QED
    BY <2>2, <2>3 DEF NoLogicError
<1>4. QED
  BY <1>1, <1>2, <1>3, PTL DEF CoinsSpec

\* The stack of caches implements the abstract pair of unspent-output sets.
THEOREM CachesImplementViews == CoinsSpec => ImplementsUtxoViews
<1>1. CoinsInit => CoinsInv /\ Abs!Init
  BY InitHolds
<1>2. CoinsInv /\ [CoinsNext]_coinsVars => CoinsInv' /\ [Abs!Next]_(Abs!absVars)
  BY StepHolds
<1>3. QED
  BY <1>1, <1>2, PTL DEF CoinsSpec, ImplementsUtxoViews, Abs!Spec
-----------------------------------------------------------------------------
(* The check queue.                                                        *)

PCs == {"outside", "adding", "enter", "returned"} \cup InLoop

Out(q, h) == {c \in Checks : c \in q \/ \E t \in Threads : c \in h[t]}

NoControl(p) == p[Master] \in {"outside", "returned"}

\* What a verdict v knows, of the checks in seen.
Knows(v, seen) == IF v THEN seen \subseteq Passing ELSE ~(added \subseteq Passing)

Types ==
    /\ queue \subseteq Checks
    /\ added \subseteq Checks
    /\ fAllOk \in BOOLEAN /\ fRet \in BOOLEAN
    /\ pc \in [Threads -> PCs]
    /\ held \in [Threads -> SUBSET Checks]
    /\ left \in [Threads -> SUBSET Checks]
    /\ fOk \in [Threads -> BOOLEAN]

Disjoint ==
    /\ \A t \in Threads : held[t] \cap queue = {}
    /\ \A t, u \in Threads : t # u => held[t] \cap held[u] = {}

\* What is true of a thread u at place p.
ThreadSound(u, p) ==
    /\ left[u] \subseteq held[u]
    /\ held[u] # {} <=> p = "working"
    /\ p \in {"outside", "adding", "returned"} => u = Master
    /\ p = "working" => Knows(fOk[u], held[u] \ left[u])

\* The verdict ok when the checks in O are outstanding and the threads at p.
VerdictSound(ok, O, p) ==
    /\ O \subseteq added
    /\ NoControl(p) => O = {} /\ ok
    /\ ~NoControl(p) => Knows(ok, added \ O)
    /\ p[Master] = "returned" => fRet = (added \subseteq Passing)

IInv ==
    /\ Types
    /\ Disjoint
    /\ nTodo = Cardinality(Out(queue, held))
    /\ \A u \in Threads : ThreadSound(u, pc[u])
    /\ VerdictSound(fAllOk, Out(queue, held), pc)

Emptied(t) == [held EXCEPT ![t] = {}]

\* In the middle of thread t's critical section.
Mid(t, ok, todo, p) ==
    /\ Types
    /\ Disjoint
    /\ ok \in BOOLEAN
    /\ p \in [Threads -> PCs]
    /\ left[t] = {}
    /\ t = Master => p[t] \notin {"outside", "returned"}
    /\ todo = Cardinality(Out(queue, Emptied(t)))
    /\ \A u \in Threads \ {t} : ThreadSound(u, p[u])
    /\ VerdictSound(ok, Out(queue, Emptied(t)), p)
----------------------------------------------------------------------------
LEMMA DisjointUnion ==
    ASSUME NEW S, NEW T, NEW U, IsFiniteSet(S), IsFiniteSet(T), S \cap T = {}, U = S \cup T
    PROVE  /\ IsFiniteSet(U)
           /\ Cardinality(S) \in Nat /\ Cardinality(T) \in Nat
           /\ Cardinality(U) = Cardinality(S) + Cardinality(T)
<1>1. IsFiniteSet(S \cup T)
      /\ Cardinality(S \cup T) = Cardinality(S) + Cardinality(T) - Cardinality(S \cap T)
    BY FS_Union
<1>2. Cardinality(S \cap T) = 0
    BY FS_EmptySet
<1>3. Cardinality(S) \in Nat /\ Cardinality(T) \in Nat
    BY FS_CardinalityType
<1>4. Cardinality(S \cup T) = Cardinality(S) + Cardinality(T)
    BY <1>1, <1>2, <1>3
<1>5. IsFiniteSet(U) /\ Cardinality(U) = Cardinality(S) + Cardinality(T)
    BY <1>1, <1>4
<1> QED
    BY <1>3, <1>5

LEMMA OutFinite ==
    ASSUME NEW q, NEW h
    PROVE  IsFiniteSet(Out(q, h)) /\ Cardinality(Out(q, h)) \in Nat
<1>1. Out(q, h) \in SUBSET Checks
    BY DEF Out
<1>2. IsFiniteSet(Checks)
    BY QueueAssumption
<1> QED
    BY <1>1, <1>2, FS_Subset, FS_CardinalityType

\* Adding checks that are not outstanding.
LEMMA OutAdd ==
    ASSUME NEW q \in SUBSET Checks, NEW h, NEW S \in SUBSET Checks, S \cap Out(q, h) = {}
    PROVE  /\ Out(q \cup S, h) = Out(q, h) \cup S
           /\ Cardinality(Out(q \cup S, h)) = Cardinality(Out(q, h)) + Cardinality(S)
<1>1. Out(q \cup S, h) = Out(q, h) \cup S
    BY DEF Out
<1>2. IsFiniteSet(S) /\ Cardinality(S) \in Nat
    BY QueueAssumption, FS_Subset, FS_CardinalityType
<1>3. IsFiniteSet(Out(q, h)) /\ Cardinality(Out(q, h)) \in Nat
    BY OutFinite
<1>4. Out(q, h) \cap S = {}
    OBVIOUS
<1>5. Cardinality(Out(q \cup S, h)) = Cardinality(Out(q, h)) + Cardinality(S)
    BY <1>1, <1>2, <1>3, <1>4, DisjointUnion
<1> QED
    BY <1>1, <1>5

\* Accounting for thread t's batch.
LEMMA OutDrop ==
    ASSUME NEW q \in SUBSET Checks, NEW h \in [Threads -> SUBSET Checks], NEW t \in Threads,
           h[t] \cap q = {},
           \A u \in Threads : t # u => h[t] \cap h[u] = {}
    PROVE  LET O == Out(q, [h EXCEPT ![t] = {}])
           IN /\ O = Out(q, h) \ h[t]
              /\ h[t] \subseteq Out(q, h)
              /\ Cardinality(O) = Cardinality(Out(q, h)) - Cardinality(h[t])
<1> DEFINE O == Out(q, [h EXCEPT ![t] = {}])
<1>1. O = Out(q, h) \ h[t]
    BY DEF Out
<1>2. h[t] \in SUBSET Checks /\ h[t] \subseteq Out(q, h)
    BY DEF Out
<1>3. IsFiniteSet(h[t]) /\ Cardinality(h[t]) \in Nat
    BY <1>2, QueueAssumption, FS_Subset, FS_CardinalityType
<1>4. IsFiniteSet(O) /\ Cardinality(O) \in Nat
    BY OutFinite
<1>5. O \cup h[t] = Out(q, h) /\ O \cap h[t] = {}
    BY <1>1, <1>2
<1>8. Cardinality(Out(q, h)) = Cardinality(O) + Cardinality(h[t])
    <2> HIDE DEF O
    <2> QED BY <1>3, <1>4, <1>5, DisjointUnion
<1>9. Cardinality(O) = Cardinality(Out(q, h)) - Cardinality(h[t])
    <2> HIDE DEF O
    <2> QED BY <1>3, <1>4, <1>8
<1> QED
    BY <1>1, <1>2, <1>9

\* Moving checks from the queue to thread t leaves the same ones outstanding.
LEMMA OutTake ==
    ASSUME NEW q \in SUBSET Checks, NEW h \in [Threads -> SUBSET Checks], NEW t \in Threads,
           NEW B \in SUBSET q
    PROVE  Out(q \ B, [h EXCEPT ![t] = B]) = Out(q, [h EXCEPT ![t] = {}])
BY DEF Out
----------------------------------------------------------------------------
\* A batch is never empty.
LEMMA NNowPositive ==
    ASSUME NEW total, NEW idle
    PROVE  NNow(total, idle) # 0
<1> DEFINE share == Cardinality(queue) \div (total + idle + 1)
<1>1. NNow(total, idle) = IF share < 1 THEN 1 ELSE IF share > BatchSize THEN BatchSize ELSE share
    BY DEF NNow
<1>2. BatchSize # 0
    BY QueueAssumption
<1>3. ~(share < 1) => share # 0
    <2> HIDE DEF share
    <2> QED OBVIOUS
<1> HIDE DEF share
<1> QED
    BY <1>1, <1>2, <1>3

LEMMA TakeBatchKeeps ==
    ASSUME NEW t \in Threads, NEW total, NEW idle, NEW ok, NEW todo, NEW p,
           Mid(t, ok, todo, p), TakeBatch(t, total, idle, ok, todo, p)
    PROVE  IInv'
<1>1. PICK batch \in SUBSET queue :
         /\ Cardinality(batch) = NNow(total, idle)
         /\ queue' = queue \ batch
         /\ held' = [held EXCEPT ![t] = batch]
         /\ left' = [left EXCEPT ![t] = batch]
    BY DEF TakeBatch
<1>2. batch # {}
    BY <1>1, NNowPositive, FS_EmptySet
<1>3. /\ fOk' = [fOk EXCEPT ![t] = ok]
      /\ pc' = [p EXCEPT ![t] = "working"]
      /\ fAllOk' = ok /\ nTodo' = todo /\ added' = added /\ fRet' = fRet
    BY DEF TakeBatch
<1>4. Types /\ Disjoint /\ ok \in BOOLEAN /\ p \in [Threads -> PCs]
    BY DEF Mid
<1>5. Types'
    BY <1>1, <1>3, <1>4 DEF Types, PCs, InLoop
<1>6. Disjoint'
    BY <1>1, <1>4 DEF Disjoint, Types
<1>7. Out(queue, held)' = Out(queue, Emptied(t))
    <2>1. Out(queue \ batch, [held EXCEPT ![t] = batch]) = Out(queue, [held EXCEPT ![t] = {}])
        BY <1>1, <1>4, OutTake, ZenonT(60) DEF Types
    <2> QED
        BY <2>1, <1>1 DEF Emptied, Out
<1>8. nTodo' = Cardinality(Out(queue, held)')
    BY <1>3, <1>7 DEF Mid
<1>9. VerdictSound(ok, Out(queue, Emptied(t)), p)
    BY DEF Mid
<1>10. p[Master] \notin {"outside", "returned"} => pc'[Master] \notin {"outside", "returned"}
    BY <1>3, <1>4 DEF Threads
<1>11. NoControl(p) => Out(queue, Emptied(t)) = {}
    BY <1>9 DEF VerdictSound
<1>12. ~NoControl(p)
    <2>1. batch \subseteq Out(queue, Emptied(t))
        BY <1>1, <1>4 DEF Out, Types
    <2> QED
        BY <2>1, <1>2, <1>11
<1>13. VerdictSound(fAllOk, Out(queue, held), pc)'
    <2>1. ~NoControl(pc')
        BY <1>10, <1>12 DEF NoControl
    <2>2. Knows(ok, added \ Out(queue, Emptied(t))) /\ Out(queue, Emptied(t)) \subseteq added
        BY <1>9, <1>12 DEF VerdictSound
    <2> QED
        BY <2>1, <2>2, <1>3, <1>7 DEF VerdictSound, NoControl, Knows
<1>14. ASSUME NEW u \in Threads
       PROVE  ThreadSound(u, pc[u])'
    <2>1. CASE u = t
        <3>1. left'[u] = batch /\ held'[u] = batch /\ pc'[u] = "working" /\ fOk'[u] = ok
            BY <2>1, <1>1, <1>3, <1>4 DEF Types
        <3>2. ok \/ ~(added \subseteq Passing)
            BY <1>9, <1>12 DEF VerdictSound, Knows
        <3> QED
            BY <3>1, <3>2, <1>2, <1>3, <1>4 DEF ThreadSound, Knows
    <2>2. CASE u # t
        <3>1. left'[u] = left[u] /\ held'[u] = held[u] /\ pc'[u] = p[u] /\ fOk'[u] = fOk[u]
            BY <2>2, <1>1, <1>3, <1>4 DEF Types
        <3>2. ThreadSound(u, p[u])
            BY <2>2 DEF Mid
        <3> QED
            BY <3>1, <3>2, <1>3 DEF ThreadSound, Knows
    <2> QED
        BY <2>1, <2>2
<1> QED
    BY <1>5, <1>6, <1>8, <1>13, <1>14 DEF IInv, Out

LEMMA ReturnKeeps ==
    ASSUME NEW t \in Threads, NEW total, NEW idle, NEW ok, NEW todo, NEW p,
           Mid(t, ok, todo, p), Return(t, total, idle, ok, todo, p)
    PROVE  IInv'
<1>1. /\ queue' = queue /\ t = Master /\ todo = 0 /\ left' = left /\ fOk' = fOk /\ added' = added
      /\ fRet' = ok /\ fAllOk' = TRUE /\ nTodo' = todo
      /\ held' = Emptied(t)
      /\ pc' = [p EXCEPT ![t] = "returned"]
    BY DEF Return, Emptied
<1>2. Types /\ Disjoint /\ ok \in BOOLEAN /\ p \in [Threads -> PCs] /\ left[t] = {}
    BY DEF Mid
<1>3. Types'
    BY <1>1, <1>2 DEF Types, PCs, InLoop, Emptied
<1>4. Disjoint'
    BY <1>1, <1>2 DEF Disjoint, Types, Emptied
<1>5. Out(queue, held)' = Out(queue, Emptied(t))
    BY <1>1 DEF Out
<1>6. nTodo' = Cardinality(Out(queue, held)')
    BY <1>1, <1>5 DEF Mid
<1>7. Out(queue, Emptied(t)) = {}
    BY <1>1, OutFinite, FS_EmptySet DEF Mid
<1>8. VerdictSound(ok, {}, p) /\ ~NoControl(p)
    BY <1>1, <1>7 DEF Mid, NoControl
<1>9. ok = (added \subseteq Passing)
    BY <1>2, <1>8 DEF VerdictSound, Knows
<1>10. VerdictSound(fAllOk, Out(queue, held), pc)'
    <2>1. pc'[Master] = "returned"
        BY <1>1, <1>2
    <2> QED
        BY <2>1, <1>1, <1>5, <1>7, <1>9 DEF VerdictSound, NoControl
<1>11. ASSUME NEW u \in Threads
       PROVE  ThreadSound(u, pc[u])'
    <2>1. CASE u = t
        <3>1. left'[u] = {} /\ held'[u] = {} /\ pc'[u] = "returned"
            BY <2>1, <1>1, <1>2 DEF Types, Emptied
        <3> QED
            BY <3>1, <2>1, <1>1 DEF ThreadSound
    <2>2. CASE u # t
        <3>1. left'[u] = left[u] /\ held'[u] = held[u] /\ pc'[u] = p[u] /\ fOk'[u] = fOk[u]
            BY <2>2, <1>1, <1>2 DEF Types, Emptied
        <3>2. ThreadSound(u, p[u])
            BY <2>2 DEF Mid
        <3> QED
            BY <3>1, <3>2, <1>1 DEF ThreadSound, Knows
    <2> QED
        BY <2>1, <2>2
<1> QED
    BY <1>3, <1>4, <1>6, <1>10, <1>11 DEF IInv, Out

LEMMA SleepKeeps ==
    ASSUME NEW t \in Threads, NEW total, NEW idle, NEW ok, NEW todo, NEW p,
           Mid(t, ok, todo, p), Sleep(t, total, idle, ok, todo, p)
    PROVE  IInv'
<1>1. /\ queue' = queue /\ left' = left /\ fOk' = fOk /\ added' = added
      /\ fRet' = fRet /\ fAllOk' = ok /\ nTodo' = todo
      /\ held' = Emptied(t)
      /\ pc' = [p EXCEPT ![t] = "waiting"]
    BY DEF Sleep, Emptied
<1>2. Types /\ Disjoint /\ ok \in BOOLEAN /\ p \in [Threads -> PCs] /\ left[t] = {}
    BY DEF Mid
<1>3. Types'
    BY <1>1, <1>2 DEF Types, PCs, InLoop, Emptied
<1>4. Disjoint'
    BY <1>1, <1>2 DEF Disjoint, Types, Emptied
<1>5. Out(queue, held)' = Out(queue, Emptied(t))
    BY <1>1 DEF Out
<1>6. nTodo' = Cardinality(Out(queue, held)')
    BY <1>1, <1>5 DEF Mid
<1>7. VerdictSound(ok, Out(queue, Emptied(t)), p)
    BY DEF Mid
<1>8. /\ NoControl(pc') <=> NoControl(p)
      /\ pc'[Master] = "returned" => p[Master] = "returned"
    BY <1>1, <1>2 DEF NoControl, Mid, Threads
<1>9. VerdictSound(fAllOk, Out(queue, held), pc)'
    BY <1>1, <1>5, <1>7, <1>8 DEF VerdictSound, NoControl, Knows
<1>10. ASSUME NEW u \in Threads
       PROVE  ThreadSound(u, pc[u])'
    <2>1. CASE u = t
        <3>1. left'[u] = {} /\ held'[u] = {} /\ pc'[u] = "waiting"
            BY <2>1, <1>1, <1>2 DEF Types, Emptied
        <3> QED
            BY <3>1 DEF ThreadSound
    <2>2. CASE u # t
        <3>1. left'[u] = left[u] /\ held'[u] = held[u] /\ pc'[u] = p[u] /\ fOk'[u] = fOk[u]
            BY <2>2, <1>1, <1>2 DEF Types, Emptied
        <3>2. ThreadSound(u, p[u])
            BY <2>2 DEF Mid
        <3> QED
            BY <3>1, <3>2, <1>1 DEF ThreadSound, Knows
    <2> QED
        BY <2>1, <2>2
<1> QED
    BY <1>3, <1>4, <1>6, <1>9, <1>10 DEF IInv, Out

\* Whatever a thread does next, the invariant holds when it lets go of the mutex.
LEMMA ContinueKeeps ==
    ASSUME NEW t \in Threads, NEW total, NEW idle, NEW ok, NEW todo, NEW p,
           Mid(t, ok, todo, p), Continue(t, total, idle, ok, todo, p)
    PROVE  IInv'
BY TakeBatchKeeps, ReturnKeeps, SleepKeeps DEF Continue
----------------------------------------------------------------------------
LEMMA InitIInv == Init => IInv
<1> SUFFICES ASSUME Init PROVE IInv
    OBVIOUS
<1>1. Types
    BY DEF Init, Types, PCs, Threads, InLoop
<1>2. Disjoint
    BY DEF Init, Disjoint
<1>3. Out(queue, held) = {}
    BY DEF Init, Out
<1>4. nTodo = Cardinality(Out(queue, held))
    BY <1>3, FS_EmptySet DEF Init
<1>5. pc[Master] = "outside"
    BY DEF Init, Threads
<1>6. VerdictSound(fAllOk, Out(queue, held), pc)
    BY <1>3, <1>5 DEF Init, VerdictSound, NoControl
<1>7. ASSUME NEW u \in Threads PROVE ThreadSound(u, pc[u])
    BY DEF Init, ThreadSound
<1> QED
    BY <1>1, <1>2, <1>4, <1>6, <1>7 DEF IInv

LEMMA NewControlKeeps == IInv /\ NewControl => IInv'
<1> SUFFICES ASSUME IInv, NewControl PROVE IInv'
    OBVIOUS
<1>1. /\ pc[Master] = "outside" /\ pc' = [pc EXCEPT ![Master] = "adding"] /\ added' = {}
      /\ UNCHANGED <<queue, fAllOk, nTodo, held, left, fOk, fRet>>
    BY DEF NewControl
<1>2. Types /\ Master \in Threads
    BY DEF IInv, Threads
<1>3. Types' /\ Disjoint'
    BY <1>1, <1>2 DEF Types, PCs, InLoop, IInv, Disjoint
<1>4. Out(queue, held)' = Out(queue, held)
    BY <1>1 DEF Out
<1>5. Out(queue, held) = {} /\ fAllOk
    BY <1>1 DEF IInv, VerdictSound, NoControl
<1>6. pc'[Master] = "adding"
    BY <1>1, <1>2 DEF Types
<1>7. VerdictSound(fAllOk, Out(queue, held), pc)'
    BY <1>1, <1>4, <1>5, <1>6 DEF VerdictSound, NoControl, Knows
<1>8. ASSUME NEW u \in Threads PROVE ThreadSound(u, pc[u])'
    <2>1. held[u] = {}
        BY <1>2, <1>5 DEF Out, Types
    <2>2. ThreadSound(u, pc[u])
        BY DEF IInv
    <2>3. pc'[u] = IF u = Master THEN "adding" ELSE pc[u]
        BY <1>1, <1>2 DEF Types
    <2> QED
        BY <2>1, <2>2, <2>3, <1>1 DEF ThreadSound
<1> QED
    BY <1>1, <1>3, <1>4, <1>7, <1>8 DEF IInv, Out

LEMMA AddKeeps == ASSUME IInv, NEW S \in SUBSET Checks, Add(S) PROVE IInv'
<1>1. /\ pc[Master] = "adding" /\ S \subseteq Checks \ added
      /\ queue' = queue \cup S /\ added' = added \cup S /\ nTodo' = nTodo + Cardinality(S)
      /\ UNCHANGED <<fAllOk, held, left, fOk, fRet>>
    BY DEF Add
<1>2. PICK woken \in SUBSET Asleep(Workers) :
         pc' = [t \in Threads |-> IF t \in woken THEN "woken" ELSE pc[t]]
    BY DEF Add
<1>3. Types /\ Master \in Threads /\ Disjoint /\ VerdictSound(fAllOk, Out(queue, held), pc)
    BY DEF IInv, Threads
<1>4. \A u \in Threads : pc'[u] = pc[u] \/ (pc[u] = "waiting" /\ pc'[u] = "woken")
    BY <1>2 DEF Asleep
<1>5. Types'
    BY <1>1, <1>2, <1>3 DEF Types, PCs, InLoop
<1>6. S \cap Out(queue, held) = {}
    BY <1>1, <1>3 DEF VerdictSound
<1>7. Disjoint'
    BY <1>1, <1>3, <1>6 DEF Types, Disjoint, Out
<1>8. /\ Out(queue \cup S, held) = Out(queue, held) \cup S
      /\ Cardinality(Out(queue \cup S, held)) = Cardinality(Out(queue, held)) + Cardinality(S)
    <2>1. queue \in SUBSET Checks
        BY <1>3 DEF Types
    <2> QED
        BY <2>1, <1>6, OutAdd
<1>9. Out(queue, held)' = Out(queue \cup S, held)
    BY <1>1 DEF Out
<1>10. nTodo' = Cardinality(Out(queue, held)')
    BY <1>1, <1>8, <1>9 DEF IInv
<1>11. pc'[Master] = "adding"
    BY <1>1, <1>3, <1>4
<1>12. VerdictSound(fAllOk, Out(queue, held), pc)'
    <2>1. Out(queue, held) \subseteq added /\ Knows(fAllOk, added \ Out(queue, held))
        BY <1>1, <1>3 DEF VerdictSound, NoControl
    <2>2. Out(queue, held)' = Out(queue, held) \cup S
        BY <1>8, <1>9
    <2> QED
        BY <1>1, <1>11, <2>1, <2>2 DEF VerdictSound, NoControl, Knows
<1>13. ASSUME NEW u \in Threads PROVE ThreadSound(u, pc[u])'
    <2>1. ThreadSound(u, pc[u])
        BY DEF IInv
    <2> QED
        BY <2>1, <1>1, <1>4 DEF ThreadSound, Knows
<1> QED
    BY <1>5, <1>7, <1>10, <1>12, <1>13 DEF IInv, Out

LEMMA WaitKeeps == IInv /\ Wait => IInv'
<1> SUFFICES ASSUME IInv, Wait PROVE IInv'
    OBVIOUS
<1>1. /\ pc[Master] = "adding" /\ pc' = [pc EXCEPT ![Master] = "enter"]
      /\ fOk' = [fOk EXCEPT ![Master] = TRUE]
      /\ UNCHANGED <<queue, fAllOk, nTodo, held, left, added, fRet>>
    BY DEF Wait
<1>2. Types /\ Master \in Threads
    BY DEF IInv, Threads
<1>3. Types' /\ Disjoint'
    BY <1>1, <1>2 DEF Types, PCs, InLoop, IInv, Disjoint
<1>4. pc'[Master] = "enter"
    BY <1>1, <1>2 DEF Types
<1>5. VerdictSound(fAllOk, Out(queue, held), pc)'
    BY <1>1, <1>4 DEF IInv, VerdictSound, NoControl, Knows, Out
<1>6. ASSUME NEW u \in Threads PROVE ThreadSound(u, pc[u])'
    <2>1. ThreadSound(u, pc[u])
        BY DEF IInv
    <2>2. u = Master => held[u] = {}
        BY <2>1, <1>1 DEF ThreadSound
    <2>3. pc'[u] = (IF u = Master THEN "enter" ELSE pc[u]) /\ (u # Master => fOk'[u] = fOk[u])
        BY <1>1, <1>2 DEF Types
    <2> QED
        BY <2>1, <2>2, <2>3, <1>1 DEF ThreadSound, Knows
<1> QED
    BY <1>1, <1>3, <1>5, <1>6 DEF IInv, Out

LEMMA LeaveControlKeeps == IInv /\ LeaveControl => IInv'
<1> SUFFICES ASSUME IInv, LeaveControl PROVE IInv'
    OBVIOUS
<1>1. /\ pc[Master] = "returned" /\ pc' = [pc EXCEPT ![Master] = "outside"]
      /\ UNCHANGED <<queue, fAllOk, nTodo, held, left, fOk, added, fRet>>
    BY DEF LeaveControl
<1>2. Types /\ Master \in Threads
    BY DEF IInv, Threads
<1>3. Types' /\ Disjoint'
    BY <1>1, <1>2 DEF Types, PCs, InLoop, IInv, Disjoint
<1>4. pc'[Master] = "outside"
    BY <1>1, <1>2 DEF Types
<1>5. VerdictSound(fAllOk, Out(queue, held), pc)'
    BY <1>1, <1>4 DEF IInv, VerdictSound, NoControl, Knows, Out
<1>6. ASSUME NEW u \in Threads PROVE ThreadSound(u, pc[u])'
    <2>1. ThreadSound(u, pc[u])
        BY DEF IInv
    <2>2. pc'[u] = IF u = Master THEN "outside" ELSE pc[u]
        BY <1>1, <1>2 DEF Types
    <2> QED
        BY <2>1, <2>2, <1>1 DEF ThreadSound, Knows
<1> QED
    BY <1>1, <1>3, <1>5, <1>6 DEF IInv, Out
----------------------------------------------------------------------------
\* A thread without a batch enters the critical section with the shared verdict.
LEMMA MidWithoutBatch ==
    ASSUME IInv, NEW t \in Threads, pc[t] \in {"enter", "woken"}
    PROVE  Mid(t, fAllOk, nTodo, pc)
<1>1. Types /\ Disjoint /\ ThreadSound(t, pc[t])
    BY DEF IInv
<1>2. held[t] = {} /\ left[t] = {}
    BY <1>1 DEF ThreadSound
<1>3. Emptied(t) = held
    BY <1>1, <1>2 DEF Emptied, Types
<1>4. fAllOk \in BOOLEAN /\ pc \in [Threads -> PCs]
    BY <1>1 DEF Types
<1>5. /\ nTodo = Cardinality(Out(queue, Emptied(t)))
      /\ VerdictSound(fAllOk, Out(queue, Emptied(t)), pc)
    BY <1>3 DEF IInv
<1> QED
    BY <1>1, <1>2, <1>4, <1>5 DEF Mid, IInv

LEMMA EnterKeeps == ASSUME IInv, NEW t \in Threads, Enter(t) PROVE IInv'
<1>1. pc[t] \in {"enter", "woken"} /\ Continue(t, nTotal + 1, nIdle, fAllOk, nTodo, pc)
    BY DEF Enter
<1>2. Mid(t, fAllOk, nTodo, pc)
    BY <1>1, MidWithoutBatch
<1> QED
    BY <1>1, <1>2, ContinueKeeps

LEMMA WakeUpKeeps == ASSUME IInv, NEW t \in Threads, WakeUp(t) PROVE IInv'
<1>1. pc[t] \in {"enter", "woken"} /\ Continue(t, nTotal, nIdle - 1, fAllOk, nTodo, pc)
    BY DEF WakeUp
<1>2. Mid(t, fAllOk, nTodo, pc)
    BY <1>1, MidWithoutBatch
<1> QED
    BY <1>1, <1>2, ContinueKeeps

LEMMA RunCheckKeeps == ASSUME IInv, NEW t \in Threads, NEW c, RunCheck(t, c) PROVE IInv'
<1>1. /\ pc[t] = "working" /\ c \in left[t]
      /\ left' = [left EXCEPT ![t] = left[t] \ {c}]
      /\ fOk' = [fOk EXCEPT ![t] = fOk[t] /\ c \in Passing]
      /\ UNCHANGED <<queue, fAllOk, nTodo, pc, held, added, fRet>>
    BY DEF RunCheck
<1>2. Types /\ ThreadSound(t, pc[t]) /\ VerdictSound(fAllOk, Out(queue, held), pc)
    BY DEF IInv
<1>3. Types' /\ Disjoint'
    BY <1>1, <1>2 DEF Types, IInv, Disjoint
<1>4. VerdictSound(fAllOk, Out(queue, held), pc)'
    BY <1>1, <1>2 DEF VerdictSound, NoControl, Knows, Out
<1>5. c \in added
    BY <1>1, <1>2 DEF ThreadSound, VerdictSound, Out, Types
<1>6. ASSUME NEW u \in Threads PROVE ThreadSound(u, pc[u])'
    <2>1. CASE u = t
        <3>1. left'[u] = left[u] \ {c} /\ held'[u] = held[u] /\ pc'[u] = "working"
              /\ fOk'[u] = (fOk[u] /\ c \in Passing)
            BY <2>1, <1>1, <1>2 DEF Types
        <3>2. fOk[u] \in BOOLEAN
            BY <1>2 DEF Types
        <3>3. Knows(fOk[u], held[u] \ left[u])
            BY <2>1, <1>1, <1>2 DEF ThreadSound
        <3>4. CASE fOk[u] /\ c \in Passing
            <4>1. held[u] \ left[u] \subseteq Passing
                BY <3>3, <3>4 DEF Knows
            <4> QED
                BY <4>1, <3>1, <3>4, <2>1, <1>1, <1>2 DEF ThreadSound, Knows
        <3>5. CASE ~(fOk[u] /\ c \in Passing)
            <4>1. ~(added \subseteq Passing)
                BY <3>3, <3>5, <1>5 DEF Knows
            <4> QED
                BY <4>1, <3>1, <3>5, <2>1, <1>1, <1>2 DEF ThreadSound, Knows
        <3> QED
            BY <3>4, <3>5
    <2>2. CASE u # t
        <3>1. left'[u] = left[u] /\ fOk'[u] = fOk[u]
            BY <2>2, <1>1, <1>2 DEF Types
        <3>2. ThreadSound(u, pc[u])
            BY DEF IInv
        <3> QED
            BY <3>1, <3>2, <1>1 DEF ThreadSound, Knows
    <2> QED
        BY <2>1, <2>2
<1> QED
    BY <1>1, <1>3, <1>4, <1>6 DEF IInv, Out

LEMMA CleanUpKeeps == ASSUME IInv, NEW t \in Threads, CleanUp(t) PROVE IInv'
<1> DEFINE todo == nTodo - Cardinality(held[t])
           ok == fAllOk /\ fOk[t]
           p == IF todo = 0 /\ t # Master /\ pc[Master] = "waiting"
                THEN [pc EXCEPT ![Master] = "woken"] ELSE pc
<1>1. pc[t] = "working" /\ left[t] = {} /\ Continue(t, nTotal, nIdle, ok, todo, p)
    BY DEF CleanUp
<1>2. Types /\ Disjoint /\ ThreadSound(t, pc[t]) /\ VerdictSound(fAllOk, Out(queue, held), pc)
    BY DEF IInv
<1>3. /\ Out(queue, Emptied(t)) = Out(queue, held) \ held[t]
      /\ held[t] \subseteq Out(queue, held)
      /\ Cardinality(Out(queue, Emptied(t))) = Cardinality(Out(queue, held)) - Cardinality(held[t])
    <2>1. queue \in SUBSET Checks /\ held \in [Threads -> SUBSET Checks]
        BY <1>2 DEF Types
    <2>2. held[t] \cap queue = {} /\ \A u \in Threads : t # u => held[t] \cap held[u] = {}
        BY <1>2 DEF Disjoint
    <2> QED
        BY <2>1, <2>2, OutDrop DEF Emptied
<1>4. todo = Cardinality(Out(queue, Emptied(t)))
    BY <1>3 DEF IInv
<1>5. ok \in BOOLEAN /\ fOk[t] \in BOOLEAN /\ fAllOk \in BOOLEAN
    BY <1>2 DEF Types
<1>6. /\ p \in [Threads -> PCs]
      /\ \A u \in Threads : p[u] = pc[u] \/ (pc[u] = "waiting" /\ p[u] = "woken")
    BY <1>2 DEF Types, PCs, InLoop
<1> HIDE DEF p, todo
<1>7. Master \in Threads
    BY DEF Threads
<1>8. ~NoControl(pc) /\ ~NoControl(p)
    <2>1. held[t] # {}
        BY <1>1, <1>2 DEF ThreadSound
    <2>2. ~NoControl(pc)
        BY <2>1, <1>2, <1>3 DEF VerdictSound
    <2> QED
        BY <2>2, <1>6, <1>7 DEF NoControl
<1>9. VerdictSound(ok, Out(queue, Emptied(t)), p)
    <2>1. Knows(fAllOk, added \ Out(queue, held)) /\ Out(queue, held) \subseteq added
        BY <1>2, <1>8 DEF VerdictSound
    <2>2. Knows(fOk[t], held[t])
        BY <1>1, <1>2 DEF ThreadSound
    <2>3. CASE ok
        <3>1. added \ Out(queue, held) \subseteq Passing /\ held[t] \subseteq Passing
            BY <2>1, <2>2, <2>3 DEF Knows
        <3> QED
            BY <3>1, <2>1, <2>3, <1>3, <1>8 DEF VerdictSound, Knows, NoControl
    <2>4. CASE ~ok
        <3>1. ~(added \subseteq Passing)
            BY <2>1, <2>2, <2>4, <1>5 DEF Knows
        <3> QED
            BY <3>1, <2>1, <2>4, <1>3, <1>8 DEF VerdictSound, Knows, NoControl
    <2> QED
        BY <2>3, <2>4
<1>10. \A u \in Threads \ {t} : ThreadSound(u, p[u])
    BY <1>6 DEF IInv, ThreadSound
<1>11. t = Master => p[t] \notin {"outside", "returned"}
    BY <1>8 DEF NoControl
<1> HIDE DEF ok
<1>12. Mid(t, ok, todo, p)
    BY <1>1, <1>2, <1>4, <1>5, <1>6, <1>9, <1>10, <1>11 DEF Mid
<1> QED
    BY <1>1, <1>12, ContinueKeeps

LEMMA SpuriousWakeUpKeeps == ASSUME IInv, NEW t \in Threads, SpuriousWakeUp(t) PROVE IInv'
<1>1. /\ pc[t] = "waiting" /\ pc' = [pc EXCEPT ![t] = "woken"]
      /\ UNCHANGED <<queue, fAllOk, nTodo, held, left, fOk, added, fRet>>
    BY DEF SpuriousWakeUp
<1>2. Types /\ Master \in Threads
    BY DEF IInv, Threads
<1>3. Types' /\ Disjoint'
    BY <1>1, <1>2 DEF Types, PCs, InLoop, IInv, Disjoint
<1>4. \A u \in Threads : pc'[u] = pc[u] \/ (pc[u] = "waiting" /\ pc'[u] = "woken")
    BY <1>1, <1>2 DEF Types
<1>5. VerdictSound(fAllOk, Out(queue, held), pc)'
    BY <1>1, <1>2, <1>4 DEF IInv, VerdictSound, NoControl, Knows, Out
<1>6. ASSUME NEW u \in Threads PROVE ThreadSound(u, pc[u])'
    BY <1>1, <1>4 DEF IInv, ThreadSound, Knows
<1> QED
    BY <1>1, <1>3, <1>5, <1>6 DEF IInv, Out

LEMMA NextIInv == IInv /\ [Next]_vars => IInv'
<1> SUFFICES ASSUME IInv, [Next]_vars PROVE IInv'
    OBVIOUS
<1>1. CASE NewControl
    BY <1>1, NewControlKeeps
<1>2. CASE Wait
    BY <1>2, WaitKeeps
<1>3. CASE LeaveControl
    BY <1>3, LeaveControlKeeps
<1>4. CASE \E S \in SUBSET Checks : Add(S)
    BY <1>4, AddKeeps
<1>5. CASE \E t \in Threads : Step(t)
    BY <1>5, EnterKeeps, RunCheckKeeps, CleanUpKeeps, WakeUpKeeps DEF Step
<1>6. CASE \E t \in Threads : SpuriousWakeUp(t)
    BY <1>6, SpuriousWakeUpKeeps
<1>7. CASE UNCHANGED vars
    <2>1. UNCHANGED <<queue, fAllOk, nTodo, pc, held, left, fOk, added, fRet>>
        BY <1>7 DEF vars
    <2> QED
        BY <2>1 DEF IInv, Types, Disjoint, ThreadSound, VerdictSound, NoControl, Knows, Out
<1> QED
    BY <1>1, <1>2, <1>3, <1>4, <1>5, <1>6, <1>7 DEF Next

LEMMA AlwaysIInv == Spec => []IInv
BY InitIInv, NextIInv, PTL DEF Spec

\* Wait returns true exactly when every check its control added passes
\* (CCheckQueue::Wait), for any number of workers and checks.
THEOREM WaitAlwaysTellsTheTruth == Spec => []WaitTellsTheTruth
<1>1. IInv => WaitTellsTheTruth
    BY DEF IInv, VerdictSound, WaitTellsTheTruth
<1> QED
    BY <1>1, AlwaysIInv, PTL

\* nTodo is the number of checks queued or in a batch, none is in two places,
\* and none outlives the Wait of its control.
THEOREM TodoAlwaysExact == Spec => []TodoCountsOutstanding
<1>1. IInv => TodoCountsOutstanding
    BY DEF IInv, Disjoint, VerdictSound, NoControl, TodoCountsOutstanding, Outstanding, Out
<1> QED
    BY <1>1, AlwaysIInv, PTL
----------------------------------------------------------------------------
(* The counters of threads.                                                *)

Idling == {"waiting", "woken"}

At(p, K) == {u \in Threads : p[u] \in K}
Others(p, K, t) == Cardinality(At(p, K) \ {t})

LEMMA ThreadsFinite == ASSUME NEW p, NEW K PROVE IsFiniteSet(At(p, K))
<1>1. IsFiniteSet(Threads)
    BY QueueAssumption, FS_AddElement DEF Threads
<1>2. At(p, K) \in SUBSET Threads
    BY DEF At
<1> QED
    BY <1>1, <1>2, FS_Subset

LEMMA CountOthers ==
    ASSUME NEW p, NEW K, NEW t \in Threads
    PROVE  /\ Others(p, K, t) \in Nat
           /\ Cardinality(At(p, K)) = Others(p, K, t) + (IF p[t] \in K THEN 1 ELSE 0)
<1>1. IsFiniteSet(At(p, K)) /\ Cardinality(At(p, K)) \in Nat
    BY ThreadsFinite, FS_CardinalityType
<1>2. /\ IsFiniteSet(At(p, K) \ {t})
      /\ Others(p, K, t) = IF t \in At(p, K) THEN Cardinality(At(p, K)) - 1 ELSE Cardinality(At(p, K))
    BY <1>1, FS_RemoveElement DEF Others
<1>3. Others(p, K, t) \in Nat
    BY <1>2, FS_CardinalityType DEF Others
<1>4. t \in At(p, K) <=> p[t] \in K
    BY DEF At
<1> QED
    BY <1>1, <1>2, <1>3, <1>4

LEMMA OthersUnmoved ==
    ASSUME NEW p \in [Threads -> PCs], NEW K, NEW t \in Threads, NEW v
    PROVE  Others([p EXCEPT ![t] = v], K, t) = Others(p, K, t)
<1>1. At([p EXCEPT ![t] = v], K) \ {t} = At(p, K) \ {t}
    BY DEF At
<1> QED
    BY <1>1 DEF Others

LEMMA ContinueCounts ==
    ASSUME NEW t \in Threads, NEW total, NEW idle, NEW ok, NEW todo, NEW p \in [Threads -> PCs],
           total = Others(p, InLoop, t) + 1, idle = Others(p, Idling, t),
           Continue(t, total, idle, ok, todo, p)
    PROVE  CountersMatch'
<1>1. /\ Others(p, InLoop, t) \in Nat /\ Others(p, Idling, t) \in Nat
    BY CountOthers
<1>2. ASSUME NEW v \in PCs, pc' = [p EXCEPT ![t] = v]
      PROVE  /\ Cardinality(At(pc', InLoop)) = Others(p, InLoop, t) + (IF v \in InLoop THEN 1 ELSE 0)
             /\ Cardinality(At(pc', Idling)) = Others(p, Idling, t) + (IF v \in Idling THEN 1 ELSE 0)
    <2> DEFINE q == [p EXCEPT ![t] = v]
    <2>1. q[t] = v
        OBVIOUS
    <2>2. Others(q, InLoop, t) = Others(p, InLoop, t) /\ Others(q, Idling, t) = Others(p, Idling, t)
        BY OthersUnmoved
    <2>3. /\ Cardinality(At(q, InLoop)) = Others(q, InLoop, t) + (IF q[t] \in InLoop THEN 1 ELSE 0)
          /\ Cardinality(At(q, Idling)) = Others(q, Idling, t) + (IF q[t] \in Idling THEN 1 ELSE 0)
        BY CountOthers
    <2>4. pc' = q
        BY <1>2
    <2> HIDE DEF q
    <2> QED
        BY <2>1, <2>2, <2>3, <2>4
<1>3. CASE TakeBatch(t, total, idle, ok, todo, p)
    <2>1. pc' = [p EXCEPT ![t] = "working"] /\ nTotal' = total /\ nIdle' = idle
        BY <1>3 DEF TakeBatch
    <2>2. "working" \in PCs /\ "working" \in InLoop /\ "working" \notin Idling
        BY DEF PCs, InLoop, Idling
    <2>3. /\ Cardinality(At(pc', InLoop)) = Others(p, InLoop, t) + (IF "working" \in InLoop THEN 1 ELSE 0)
          /\ Cardinality(At(pc', Idling)) = Others(p, Idling, t) + (IF "working" \in Idling THEN 1 ELSE 0)
        BY <2>1, <2>2, <1>2
    <2>4. Cardinality(At(pc', InLoop)) = total /\ Cardinality(At(pc', Idling)) = idle
        BY <2>2, <2>3, <1>1
    <2> QED
        BY <2>1, <2>4 DEF CountersMatch, At, Idling
<1>4. CASE Return(t, total, idle, ok, todo, p)
    <2>1. pc' = [p EXCEPT ![t] = "returned"] /\ nTotal' = total - 1 /\ nIdle' = idle
        BY <1>4 DEF Return
    <2>2. "returned" \in PCs /\ "returned" \notin InLoop /\ "returned" \notin Idling
        BY DEF PCs, InLoop, Idling
    <2>3. /\ Cardinality(At(pc', InLoop)) = Others(p, InLoop, t) + (IF "returned" \in InLoop THEN 1 ELSE 0)
          /\ Cardinality(At(pc', Idling)) = Others(p, Idling, t) + (IF "returned" \in Idling THEN 1 ELSE 0)
        BY <2>1, <2>2, <1>2
    <2>4. Cardinality(At(pc', InLoop)) = total - 1 /\ Cardinality(At(pc', Idling)) = idle
        BY <2>2, <2>3, <1>1
    <2> QED
        BY <2>1, <2>4 DEF CountersMatch, At, Idling
<1>5. CASE Sleep(t, total, idle, ok, todo, p)
    <2>1. pc' = [p EXCEPT ![t] = "waiting"] /\ nTotal' = total /\ nIdle' = idle + 1
        BY <1>5 DEF Sleep
    <2>2. "waiting" \in PCs /\ "waiting" \in InLoop /\ "waiting" \in Idling
        BY DEF PCs, InLoop, Idling
    <2>3. /\ Cardinality(At(pc', InLoop)) = Others(p, InLoop, t) + (IF "waiting" \in InLoop THEN 1 ELSE 0)
          /\ Cardinality(At(pc', Idling)) = Others(p, Idling, t) + (IF "waiting" \in Idling THEN 1 ELSE 0)
        BY <2>1, <2>2, <1>2
    <2>4. Cardinality(At(pc', InLoop)) = total /\ Cardinality(At(pc', Idling)) = idle + 1
        BY <2>2, <2>3, <1>1
    <2> QED
        BY <2>1, <2>4 DEF CountersMatch, At, Idling
<1> QED
    BY <1>3, <1>4, <1>5 DEF Continue

\* Threads that only go from sleeping to woken are counted as before.
LEMMA WakingUncounted ==
    ASSUME NEW p \in [Threads -> PCs], NEW q \in [Threads -> PCs],
           \A u \in Threads : q[u] = p[u] \/ (p[u] = "waiting" /\ q[u] = "woken")
    PROVE  At(q, InLoop) = At(p, InLoop) /\ At(q, Idling) = At(p, Idling)
BY DEF At, InLoop, Idling

\* A step of the master outside Loop is counted as before.
LEMMA OutsideUncounted ==
    ASSUME NEW p \in [Threads -> PCs], NEW v, p[Master] \notin InLoop, v \notin InLoop
    PROVE  LET q == [p EXCEPT ![Master] = v]
           IN At(q, InLoop) = At(p, InLoop) /\ At(q, Idling) = At(p, Idling)
BY DEF At, InLoop, Idling, Threads

LEMMA SameCounts ==
    ASSUME CountersMatch, UNCHANGED <<nTotal, nIdle>>,
           At(pc', InLoop) = At(pc, InLoop), At(pc', Idling) = At(pc, Idling)
    PROVE  CountersMatch'
<1>1. nTotal = Cardinality(At(pc, InLoop)) /\ nIdle = Cardinality(At(pc, Idling))
    BY DEF CountersMatch, At, Idling
<1>2. nTotal' = Cardinality(At(pc', InLoop)) /\ nIdle' = Cardinality(At(pc', Idling))
    BY <1>1
<1> QED
    BY <1>2 DEF CountersMatch, At, Idling

LEMMA InitCounts == Init => CountersMatch
<1> SUFFICES ASSUME Init PROVE CountersMatch
    OBVIOUS
<1>1. At(pc, InLoop) = {} /\ At(pc, Idling) = {}
    BY DEF Init, At, InLoop, Idling
<1>2. Cardinality(At(pc, InLoop)) = 0 /\ Cardinality(At(pc, Idling)) = 0
    BY <1>1, FS_EmptySet
<1> QED
    BY <1>2 DEF Init, CountersMatch, At, Idling

LEMMA StepCounts ==
    ASSUME IInv, CountersMatch, NEW t \in Threads, Step(t)
    PROVE  CountersMatch'
<1>1. pc \in [Threads -> PCs] /\ Master \in Threads
    BY DEF IInv, Types, Threads
<1>2. /\ Others(pc, InLoop, t) \in Nat /\ Others(pc, Idling, t) \in Nat
      /\ nTotal = Others(pc, InLoop, t) + (IF pc[t] \in InLoop THEN 1 ELSE 0)
      /\ nIdle = Others(pc, Idling, t) + (IF pc[t] \in Idling THEN 1 ELSE 0)
    <2>1. nTotal = Cardinality(At(pc, InLoop)) /\ nIdle = Cardinality(At(pc, Idling))
        BY DEF CountersMatch, At, Idling
    <2> QED
        BY <2>1, CountOthers
<1>3. CASE Enter(t)
    <2>1. pc[t] = "enter" /\ Continue(t, nTotal + 1, nIdle, fAllOk, nTodo, pc)
        BY <1>3 DEF Enter
    <2>2. nTotal + 1 = Others(pc, InLoop, t) + 1 /\ nIdle = Others(pc, Idling, t)
        BY <2>1, <1>2 DEF InLoop, Idling
    <2> QED
        BY <2>1, <2>2, <1>1, ContinueCounts
<1>4. CASE WakeUp(t)
    <2>1. pc[t] = "woken" /\ Continue(t, nTotal, nIdle - 1, fAllOk, nTodo, pc)
        BY <1>4 DEF WakeUp
    <2>2. nTotal = Others(pc, InLoop, t) + 1 /\ nIdle - 1 = Others(pc, Idling, t)
        BY <2>1, <1>2 DEF InLoop, Idling
    <2> QED
        BY <2>1, <2>2, <1>1, ContinueCounts
<1>5. CASE \E c \in Checks : RunCheck(t, c)
    BY <1>5, SameCounts DEF RunCheck
<1>6. CASE CleanUp(t)
    <2> DEFINE todo == nTodo - Cardinality(held[t])
               ok == fAllOk /\ fOk[t]
               p == IF todo = 0 /\ t # Master /\ pc[Master] = "waiting"
                    THEN [pc EXCEPT ![Master] = "woken"] ELSE pc
    <2>1. pc[t] = "working" /\ Continue(t, nTotal, nIdle, ok, todo, p)
        BY <1>6 DEF CleanUp
    <2>2. /\ p \in [Threads -> PCs]
          /\ \A u \in Threads : p[u] = pc[u] \/ (pc[u] = "waiting" /\ p[u] = "woken")
        BY <1>1 DEF PCs, InLoop
    <2> HIDE DEF p, todo, ok
    <2>3. At(p, InLoop) = At(pc, InLoop) /\ At(p, Idling) = At(pc, Idling)
        BY <2>2, <1>1, WakingUncounted
    <2>4. Others(p, InLoop, t) = Others(pc, InLoop, t) /\ Others(p, Idling, t) = Others(pc, Idling, t)
        BY <2>3 DEF Others
    <2>5. nTotal = Others(p, InLoop, t) + 1 /\ nIdle = Others(p, Idling, t)
        BY <2>1, <2>4, <1>2 DEF InLoop, Idling
    <2> QED
        BY <2>1, <2>2, <2>5, ContinueCounts
<1> QED
    BY <1>3, <1>4, <1>5, <1>6 DEF Step

LEMMA NextCounts == IInv /\ IInv' /\ CountersMatch /\ [Next]_vars => CountersMatch'
<1> SUFFICES ASSUME IInv, IInv', CountersMatch, [Next]_vars PROVE CountersMatch'
    OBVIOUS
<1>1. pc \in [Threads -> PCs] /\ pc' \in [Threads -> PCs]
    BY DEF IInv, Types
<1>2. CASE NewControl
    <2>1. /\ pc[Master] \notin InLoop /\ "adding" \notin InLoop
          /\ pc' = [pc EXCEPT ![Master] = "adding"] /\ UNCHANGED <<nTotal, nIdle>>
        BY <1>2 DEF NewControl, InLoop
    <2> QED
        BY <2>1, <1>1, OutsideUncounted, SameCounts
<1>3. CASE Wait
    <2>1. /\ pc[Master] \notin InLoop /\ "enter" \notin InLoop
          /\ pc' = [pc EXCEPT ![Master] = "enter"] /\ UNCHANGED <<nTotal, nIdle>>
        BY <1>3 DEF Wait, InLoop
    <2> QED
        BY <2>1, <1>1, OutsideUncounted, SameCounts
<1>4. CASE LeaveControl
    <2>1. /\ pc[Master] \notin InLoop /\ "outside" \notin InLoop
          /\ pc' = [pc EXCEPT ![Master] = "outside"] /\ UNCHANGED <<nTotal, nIdle>>
        BY <1>4 DEF LeaveControl, InLoop
    <2> QED
        BY <2>1, <1>1, OutsideUncounted, SameCounts
<1>5. ASSUME NEW S \in SUBSET Checks, Add(S) PROVE CountersMatch'
    <2>1. PICK woken \in SUBSET Asleep(Workers) :
             pc' = [t \in Threads |-> IF t \in woken THEN "woken" ELSE pc[t]]
        BY <1>5 DEF Add
    <2>2. \A u \in Threads : pc'[u] = pc[u] \/ (pc[u] = "waiting" /\ pc'[u] = "woken")
        BY <2>1 DEF Asleep
    <2>3. UNCHANGED <<nTotal, nIdle>>
        BY <1>5 DEF Add
    <2> QED
        BY <2>2, <2>3, <1>1, WakingUncounted, SameCounts
<1>6. ASSUME NEW t \in Threads, SpuriousWakeUp(t) PROVE CountersMatch'
    <2>1. \A u \in Threads : pc'[u] = pc[u] \/ (pc[u] = "waiting" /\ pc'[u] = "woken")
        BY <1>1, <1>6 DEF SpuriousWakeUp
    <2>2. UNCHANGED <<nTotal, nIdle>>
        BY <1>6 DEF SpuriousWakeUp
    <2> QED
        BY <2>1, <2>2, <1>1, WakingUncounted, SameCounts
<1>7. ASSUME NEW t \in Threads, Step(t) PROVE CountersMatch'
    BY <1>7, StepCounts
<1>8. CASE UNCHANGED vars
    BY <1>8, SameCounts DEF vars
<1> QED
    BY <1>2, <1>3, <1>4, <1>5, <1>6, <1>7, <1>8 DEF Next

\* nTotal is the number of threads in Loop and nIdle the number of those that
\* wait, at every step of Loop, Add and Wait.
THEOREM CountersAlwaysMatch == Spec => []CountersMatch
BY InitCounts, NextCounts, AlwaysIInv, PTL DEF Spec

\* nTodo, nTotal and nIdle are exact, for any number of workers and checks.
THEOREM CountersAlwaysExact == Spec => []CountersExact
BY TodoAlwaysExact, CountersAlwaysMatch, PTL DEF CountersExact

\* Types; in particular no unsigned counter falls below zero.
THEOREM QueueTypeCorrect == Spec => []TypeOK
<1>1. IInv /\ CountersMatch => TypeOK
    <2> SUFFICES ASSUME IInv, CountersMatch PROVE TypeOK
        OBVIOUS
    <2>1. Types /\ nTodo \in Nat
        BY OutFinite DEF IInv
    <2>2. nTotal \in Nat /\ nIdle \in Nat
        <3>1. nTotal = Cardinality(At(pc, InLoop)) /\ nIdle = Cardinality(At(pc, Idling))
            BY DEF CountersMatch, At, Idling
        <3> QED
            BY <3>1, ThreadsFinite, FS_CardinalityType
    <2> QED
        BY <2>1, <2>2 DEF TypeOK, Types, PCs
<1> QED
    BY <1>1, AlwaysIInv, CountersAlwaysMatch, PTL
=============================================================================
