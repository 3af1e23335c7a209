--------------------------- MODULE CoinsViewCache ---------------------------
(***************************************************************************)
(* The stack of coin caches of coins.cpp: a scratch CCoinsViewCache opened  *)
(* over pcoinsTip, itself a CCoinsViewCache over the coin database         *)
(* (CCoinsViewDB).  A cache maps an outpoint to an entry (a coin, or NoCoin *)
(* once spent) with the flags DIRTY and FRESH; what a layer does not hold  *)
(* it reads from the layer below.                                          *)
(*                                                                         *)
(* ConnectTip and DisconnectTip hold cs_main from the construction of the  *)
(* scratch view to its destruction, so the tip is flushed, trimmed and read *)
(* by others only while no view is open.  The database write is one step   *)
(* here; its batches and crashes are the subject of ChainstateRecovery.    *)
(***************************************************************************)
CONSTANTS
    Outpoints,   \* COutPoint
    Coins,       \* unspent Coin values
    NoCoin,      \* a spent (IsSpent) or missing Coin
    NoEntry,     \* the outpoint is not in the cacheCoins map
    Blocks,      \* block hashes
    NullBlock    \* uint256()

\* CCoinsCacheEntry
Entries == [coin : Coins \cup {NoCoin}, dirty : BOOLEAN, fresh : BOOLEAN]

ASSUME CoinAssumption ==
    /\ NoCoin \notin Coins
    /\ NullBlock \notin Blocks
    /\ NoEntry \notin Entries

VARIABLES
    db,         \* coins on disk, and the DB_BEST_BLOCK record
    dbBest,
    tip,        \* pcoinsTip: cacheCoins and hashBlock
    tipBest,
    view,       \* the scratch view: cacheCoins and hashBlock
    viewBest,
    open        \* does a scratch view exist?

coinsVars == <<db, dbBest, tip, tipBest, view, viewBest, open>>

Utxos == [Outpoints -> Coins \cup {NoCoin}]
Caches == [Outpoints -> Entries \cup {NoEntry}]

NoEntries == [o \in Outpoints |-> NoEntry]

----------------------------------------------------------------------------
(* The operations of one cache over what its base returns for GetCoin.     *)

\* GetCoin: the cached coin, else the base's.
CacheGetCoin(cache, base, o) ==
    IF cache[o] = NoEntry THEN base[o] ELSE cache[o].coin

\* The unspent outputs a cache shows to its users.
Shown(cache, base) == [o \in Outpoints |-> CacheGetCoin(cache, base, o)]

\* FetchCoin: a coin the base has is copied in, neither DIRTY nor FRESH.  (The
\* FRESH branch needs a base that returns a spent coin; neither base here does.)
FetchCoin(cache, base, o) ==
    IF cache[o] = NoEntry /\ base[o] # NoCoin
    THEN [cache EXCEPT ![o] = [coin |-> base[o], dirty |-> FALSE, fresh |-> FALSE]]
    ELSE cache

\* A mutated form: FRESH whenever no overwrite is expected.
EntryAfterAddAlwaysFresh(entry, c, overwrite) ==
    [coin |-> c, dirty |-> TRUE, fresh |-> ~overwrite]

\* AddCoin: FRESH only when no overwrite is possible and the entry, created
\* here without flags if missing, is not DIRTY.
EntryAfterAdd(entry, c, overwrite) ==
    LET was == IF entry = NoEntry THEN [coin |-> NoCoin, dirty |-> FALSE, fresh |-> FALSE]
                                  ELSE entry
    IN [coin |-> c, dirty |-> TRUE, fresh |-> was.fresh \/ (~overwrite /\ ~was.dirty)]

AddCoin(cache, o, c, overwrite) ==
    [cache EXCEPT ![o] = EntryAfterAdd(cache[o], c, overwrite)]

\* The logic_error of AddCoin: replacing an unspent entry without leave.
AddCoinThrows(cache, o, overwrite) ==
    ~overwrite /\ cache[o] # NoEntry /\ cache[o].coin # NoCoin

\* SpendCoin: a FRESH entry is erased, any other kept as a DIRTY spent one.
SpendCoin(cache, base, o) ==
    LET fetched == FetchCoin(cache, base, o)
    IN CASE fetched[o] = NoEntry -> fetched
         [] fetched[o] # NoEntry /\ fetched[o].fresh -> [fetched EXCEPT ![o] = NoEntry]
         [] OTHER -> [fetched EXCEPT ![o] = [coin |-> NoCoin, dirty |-> TRUE, fresh |-> FALSE]]

\* A mutated form: the child's FRESH flag is copied onto a pruned entry of ours.
BatchWriteEntryCopiesFresh(ours, child) ==
    IF child = NoEntry \/ ~child.dirty THEN ours
    ELSE IF (IF ours = NoEntry THEN child.fresh ELSE ours.fresh) /\ child.coin = NoCoin THEN NoEntry
    ELSE [coin |-> child.coin, dirty |-> TRUE, fresh |-> child.fresh]

\* BatchWrite for one entry of the child: the parent's entry after it.
BatchWriteEntry(ours, child) ==
    CASE child = NoEntry -> ours
      [] child # NoEntry /\ ~child.dirty -> ours
      [] child # NoEntry /\ child.dirty /\ ours = NoEntry ->
            IF child.fresh /\ child.coin = NoCoin THEN NoEntry
            ELSE [coin |-> child.coin, dirty |-> TRUE, fresh |-> child.fresh]
      [] OTHER ->
            IF ours.fresh /\ child.coin = NoCoin THEN NoEntry
            ELSE [coin |-> child.coin, dirty |-> TRUE, fresh |-> ours.fresh]

BatchWrite(cache, child) ==
    [o \in Outpoints |-> BatchWriteEntry(cache[o], child[o])]

\* The logic_error of BatchWrite: a FRESH child over an unspent parent entry.
BatchWriteThrows(cache, child) ==
    \E o \in Outpoints :
        /\ child[o] # NoEntry /\ child[o].dirty /\ child[o].fresh
        /\ cache[o] # NoEntry /\ cache[o].coin # NoCoin

\* CCoinsViewDB::BatchWrite: DIRTY entries are written, spent ones erased.
DbBatchWrite(coins, child) ==
    [o \in Outpoints |-> IF child[o] # NoEntry /\ child[o].dirty THEN child[o].coin ELSE coins[o]]

\* A mutated form: the flags are not looked at.
UncacheIgnoresFlags(cache, o) == [cache EXCEPT ![o] = NoEntry]

\* Uncache: only an entry without flags may go.
Uncache(cache, o) ==
    IF cache[o] # NoEntry /\ ~cache[o].dirty /\ ~cache[o].fresh
    THEN [cache EXCEPT ![o] = NoEntry]
    ELSE cache
----------------------------------------------------------------------------
TipUtxo == Shown(tip, db)
ViewUtxo == Shown(view, TipUtxo)

\* GetBestBlock: the cached hash, else the base's.
TipBlock == IF tipBest = NullBlock THEN dbBest ELSE tipBest
ViewBlock == IF viewBest = NullBlock THEN TipBlock ELSE viewBest

\* A read through the view that misses goes on to the tip, which keeps a copy.
TipAfterRead(o) ==
    IF view[o] = NoEntry THEN FetchCoin(tip, db, o) ELSE tip

CoinsInit ==
    /\ db = [o \in Outpoints |-> NoCoin]
    /\ dbBest = NullBlock
    /\ tip = NoEntries
    /\ tipBest = NullBlock
    /\ view = NoEntries
    /\ viewBest = NullBlock
    /\ open = FALSE

\* CCoinsViewCache view(pcoinsTip.get()), and the GetBestBlock its user asserts on.
OpenView ==
    /\ ~open
    /\ open' = TRUE
    /\ view' = NoEntries
    /\ tipBest' = TipBlock
    /\ viewBest' = TipBlock
    /\ UNCHANGED <<db, dbBest, tip>>

\* AccessCoin, HaveCoin or GetCoin on the view.
ReadView(o) ==
    /\ open
    /\ tip' = TipAfterRead(o)
    /\ view' = FetchCoin(view, TipUtxo, o)
    /\ UNCHANGED <<db, dbBest, tipBest, viewBest, open>>

\* AddCoins of a coinbase: an overwrite is always allowed for.
AddCoinbase(o, c) ==
    /\ open
    /\ view' = AddCoin(view, o, c, TRUE)
    /\ UNCHANGED <<db, dbBest, tip, tipBest, viewBest, open>>

\* AddCoins of any other transaction of a connected block, which the BIP30
\* check has found not to exist.
AddNew(o, c) ==
    /\ open
    /\ ViewUtxo[o] = NoCoin
    /\ view' = AddCoin(view, o, c, FALSE)
    /\ UNCHANGED <<db, dbBest, tip, tipBest, viewBest, open>>

\* ApplyTxInUndo, and AddCoins with check: HaveCoin says whether it overwrites.
AddChecked(o, c) ==
    /\ open
    /\ tip' = TipAfterRead(o)
    /\ view' = AddCoin(FetchCoin(view, TipUtxo, o), o, c, ViewUtxo[o] # NoCoin)
    /\ UNCHANGED <<db, dbBest, tipBest, viewBest, open>>

Spend(o) ==
    /\ open
    /\ tip' = TipAfterRead(o)
    /\ view' = SpendCoin(view, TipUtxo, o)
    /\ UNCHANGED <<db, dbBest, tipBest, viewBest, open>>

SetBestBlock(b) ==
    /\ open
    /\ viewBest' = b
    /\ UNCHANGED <<db, dbBest, tip, tipBest, view, open>>

\* view.Flush() and the end of the view's scope.
FlushView ==
    /\ open
    /\ tip' = BatchWrite(tip, view)
    /\ tipBest' = viewBest
    /\ view' = NoEntries
    /\ viewBest' = NullBlock
    /\ open' = FALSE
    /\ UNCHANGED <<db, dbBest>>

\* The block failed to connect: the view goes out of scope unflushed.
DropView ==
    /\ open
    /\ view' = NoEntries
    /\ viewBest' = NullBlock
    /\ open' = FALSE
    /\ UNCHANGED <<db, dbBest, tip, tipBest>>

\* FlushStateToDisk: pcoinsTip->Flush(), unless there is no best block yet.
FlushTip ==
    /\ ~open
    /\ TipBlock # NullBlock
    /\ db' = DbBatchWrite(db, tip)
    /\ dbBest' = TipBlock
    /\ tipBest' = TipBlock
    /\ tip' = NoEntries
    /\ UNCHANGED <<view, viewBest, open>>

\* Any other reader of pcoinsTip (mempool, RPC).
ReadTip(o) ==
    /\ ~open
    /\ tip' = FetchCoin(tip, db, o)
    /\ UNCHANGED <<db, dbBest, tipBest, view, viewBest, open>>

\* coins_to_uncache after a refused transaction.
UncacheTip(o) ==
    /\ ~open
    /\ tip' = Uncache(tip, o)
    /\ UNCHANGED <<db, dbBest, tipBest, view, viewBest, open>>

CoinsNext ==
    \/ OpenView
    \/ \E o \in Outpoints : ReadView(o) \/ Spend(o) \/ ReadTip(o) \/ UncacheTip(o)
    \/ \E o \in Outpoints, c \in Coins : AddCoinbase(o, c) \/ AddNew(o, c) \/ AddChecked(o, c)
    \/ \E b \in Blocks : SetBestBlock(b)
    \/ FlushView
    \/ DropView
    \/ FlushTip

CoinsSpec == CoinsInit /\ [][CoinsNext]_coinsVars
----------------------------------------------------------------------------
CoinsTypeOK ==
    /\ db \in Utxos
    /\ tip \in Caches
    /\ view \in Caches
    /\ dbBest \in Blocks \cup {NullBlock}
    /\ tipBest \in Blocks \cup {NullBlock}
    /\ viewBest \in Blocks \cup {NullBlock}
    /\ open \in BOOLEAN

\* The meaning of the flags over a base: without DIRTY an entry equals what
\* the base shows, with FRESH the base has no unspent coin, and a spent entry
\* is always one that still has to be written down.
FlagsSound(cache, base) ==
    \A o \in Outpoints : cache[o] # NoEntry =>
        /\ ~cache[o].dirty => cache[o].coin = base[o]
        /\ cache[o].fresh => cache[o].dirty /\ base[o] = NoCoin
        /\ cache[o].coin = NoCoin => cache[o].dirty /\ ~cache[o].fresh

\* coins.h, CCoinsCacheEntry::Flags: in both caches, after any sequence of
\* reads, additions, spends, flushes and uncachings, DIRTY and FRESH mean what
\* the header says of them.
FlagsMeanWhatTheySay ==
    /\ FlagsSound(tip, db)
    /\ FlagsSound(view, TipUtxo)

\* coins.cpp, the two logic_errors: AddCoin never replaces an unspent entry it
\* was told cannot exist, and a flush never finds a misapplied FRESH flag.
NoLogicError ==
    /\ open => ~BatchWriteThrows(tip, view)
    /\ \A o \in Outpoints : ViewUtxo[o] = NoCoin => ~AddCoinThrows(view, o, FALSE)

\* The caches implement two plain unspent-output sets.
Abs == INSTANCE UtxoViews WITH
    tipUtxo <- TipUtxo, tipBlock <- TipBlock,
    viewUtxo <- ViewUtxo, viewBlock <- ViewBlock

\* CCoinsViewCache as a whole: reading, flushing and uncaching change nothing
\* anyone can see, and a view's changes reach the tip together with the block
\* they belong to, or not at all.
ImplementsUtxoViews == Abs!Spec
=============================================================================
