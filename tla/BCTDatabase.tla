----------------------------- MODULE BCTDatabase -----------------------------
(***************************************************************************)
(* The SQLite database of bee creation transactions (BCTs) and how it      *)
(* follows the chain.                                                      *)
(*                                                                         *)
(* The chain moves under cs_main and only queues notifications.  A         *)
(* scheduler thread delivers each of them to the wallet first and then to  *)
(* BCTBlockHandler, which updates the database in one SQL transaction.     *)
(* At startup the database is filled from the wallet if it is empty, or    *)
(* has its totals brought up to date from the wallet, before the handler   *)
(* is registered.  The RPCs rescan it from the wallet at any time.         *)
(*                                                                         *)
(* A record is its creation height, its status and its two totals; the     *)
(* maturity and expiration heights and the profit are functions of those   *)
(* and of the cost.  A row of the table "rewards" is the block whose       *)
(* coinbase it records.  The in-memory cache is never read and left out.   *)
(***************************************************************************)
EXTENDS Integers, Sequences, FiniteSets, FiniteSetsExt, Functions

CONSTANTS
    Blocks, Genesis,
    Parent,         \* pprev, a function on Blocks \ {Genesis}
    Height,         \* nHeight
    Ancestors,      \* Ancestors[b]: b and every block below it
    Creates,        \* Creates[b]: the BCTs among b's transactions
    Rewarded,       \* Rewarded[b]: the BCT that b's coinbase rewards, or NoTx
    Amount,         \* Amount[b]: what b's coinbase pays to the honey address
    Txs,            \* BCTs
    Mine,           \* those for which IsAllFromMe holds in the first wallet
    NoTx, NoBlock, NoEvent,
    beeGestationBlocks, beeLifespanBlocks,
    InitTips,       \* where the chain may be when the database is first opened
    WalletLoaded,   \* the values vpwallets.empty() may have at a startup, negated
    MaxMoves, MaxStarts, MaxCrashes, MaxRescans

\* The notifications of the validation interface.
Events == [type : {"connected", "disconnected"}, block : Blocks]

ASSUME TreeAssumption ==
    /\ IsFiniteSet(Blocks) /\ Genesis \in Blocks /\ InitTips \subseteq Blocks /\ NoBlock \notin Blocks /\ NoEvent \notin Events
    /\ Parent \in [Blocks \ {Genesis} -> Blocks]
    /\ Height \in [Blocks -> Nat] /\ Height[Genesis] = 0
    /\ Ancestors[Genesis] = {Genesis}
    /\ \A b \in Blocks \ {Genesis} :
          /\ Height[b] = Height[Parent[b]] + 1
          /\ Ancestors[b] = Ancestors[Parent[b]] \cup {b}

\* What consensus demands of the blocks: a BCT is mined once on a chain, and a
\* coinbase rewards a BCT that is mature below it.
ASSUME BlocksAssumption ==
    /\ Mine \subseteq Txs /\ NoTx \notin Txs
    /\ beeGestationBlocks \in Nat \ {0} /\ beeLifespanBlocks \in Nat
    /\ Creates \in [Blocks -> SUBSET Txs] /\ Creates[Genesis] = {}
    /\ Rewarded \in [Blocks -> Txs \cup {NoTx}] /\ Rewarded[Genesis] = NoTx
    /\ Amount \in [Blocks -> Nat \ {0}]
    /\ \A b \in Blocks : \A a, c \in Ancestors[b] :
          a # c => Creates[a] \cap Creates[c] = {}
    /\ \A b \in Blocks : Rewarded[b] # NoTx =>
          \E a \in Ancestors[b] : /\ Rewarded[b] \in Creates[a]
                                  /\ Height[a] + beeGestationBlocks <= Height[b]

ASSUME BoundsAssumption ==
    /\ WalletLoaded \subseteq BOOLEAN
    /\ {MaxMoves, MaxStarts, MaxCrashes, MaxRescans} \subseteq Nat

VARIABLES
    tip,            \* chainActive.Tip()
    flushed,        \* the tip of the chainstate on disk
    index,          \* mapBlockIndex
    queue,          \* notifications not yet delivered
    delivering,     \* one delivered to the wallet and not yet to the handler
    created,        \* BCTs in mapWallet
    hashBlock,      \* CWalletTx::hashBlock of each of them
    coinbases,      \* blocks whose Hive coinbase is in mapWallet
    bcts,           \* the table "bcts", by txid
    rewards,        \* the table "rewards"
    lastProcessedHeight,
    node,           \* "down", "starting", "scanned" (handler not registered), "running"
    hasWallet,      \* ~vpwallets.empty()
    outOfStep,      \* a notification went to the wallet alone since the last scan,
                    \* or the last scan found a BCT of a block already disconnected
    fellBack,       \* a crash took the chain away from what the tables describe
    counted,        \* a scan has counted coinbases, which then have no row
    moves, starts, crashes, rescans

chainVars == <<tip, flushed, index>>
walletVars == <<created, hashBlock, coinbases>>
dbVars == <<bcts, rewards, lastProcessedHeight, counted>>
counters == <<moves, starts, crashes, rescans>>
vars == <<chainVars, queue, delivering, walletVars, dbVars, node, hasWallet, outOfStep, fellBack, counters>>
-----------------------------------------------------------------------------
(* Records *)

Statuses == {"unset", "immature", "mature", "expired"}
Records == [height : Nat, status : Statuses, blocksFound : Nat, rewardsPaid : Nat]
Empty == [t \in {} |-> 0]

\* BCTRecord::updateStatus on a new record: a record whose heights are unknown
\* keeps the status it has, which is the empty string.
updateStatus(height, currentHeight) ==
    CASE height = 0 -> "unset"
      [] height > 0 /\ currentHeight >= height + beeGestationBlocks + beeLifespanBlocks -> "expired"
      [] height > 0 /\ currentHeight < height + beeGestationBlocks -> "immature"
      [] OTHER -> "mature"

NewRecord(height, status) ==
    [height |-> height, status |-> status, blocksFound |-> 0, rewardsPaid |-> 0]

\* insertBCT for every record of new that bctExists does not find.
Insert(d, new) ==
    [t \in DOMAIN d \cup DOMAIN new |-> IF t \in DOMAIN d THEN d[t] ELSE new[t]]

\* SELECT SUM(amount), COUNT(*) over a set of coinbases for one BCT.
Total(S, t) == MapThenSumSet(LAMBDA b : Amount[b], {b \in S : Rewarded[b] = t})
Count(S, t) == Cardinality({b \in S : Rewarded[b] = t})

updateAllStatuses(d, currentHeight) ==
    [t \in DOMAIN d |->
        [d[t] EXCEPT !.status =
            IF d[t].height = 0 THEN @
            ELSE IF @ # "expired" /\ d[t].height + beeGestationBlocks + beeLifespanBlocks <= currentHeight
                 THEN "expired"
            ELSE IF @ = "immature" /\ d[t].height + beeGestationBlocks <= currentHeight
                 THEN "mature" ELSE @]]
-----------------------------------------------------------------------------
(* Reading the wallet *)

\* The height of the block a wallet transaction says it is in; 0 if it is in
\* none or the block index does not know the block.
WalletHeight(t) == IF hashBlock[t] \in index THEN Height[hashBlock[t]] ELSE 0

\* Hive coinbases of the wallet that GetDepthInMainChain() finds in the chain.
ConfirmedCoinbases == coinbases \cap Ancestors[tip]

\* The last part of every scan: totals are replaced for the BCTs with at least
\* one confirmed coinbase; "rewards" is not touched.
WithRewards(d) ==
    [t \in DOMAIN d |->
        IF Count(ConfirmedCoinbases, t) = 0 THEN d[t]
        ELSE [d[t] EXCEPT !.blocksFound = Count(ConfirmedCoinbases, t),
                          !.rewardsPaid = Total(ConfirmedCoinbases, t)]]

\* performInitialScan and rescanFromWallet: the wallet's BCTs between two
\* heights are inserted where missing, then the totals are set.
Scan(d, from, to) ==
    WithRewards(Insert(d, [t \in {t \in created : WalletHeight(t) \in from..to} |->
                              NewRecord(WalletHeight(t), updateStatus(WalletHeight(t), Height[tip]))]))

\* A block the wallet still names although it was disconnected and nobody is
\* about to be told.
Abandoned(b) ==
    /\ b \in index \ Ancestors[tip]
    /\ [type |-> "disconnected", block |-> b] \notin Range(queue) \cup {delivering}

\* A scan now would record a BCT of such a block.
ScanIsStale == \E t \in created : Abandoned(hashBlock[t])

\* The scan that leads to the next state counts coinbases.
ScanCounts == \E b \in ConfirmedCoinbases : Rewarded[b] \in DOMAIN bcts'

InitialScan(d) == Scan(d, 0, Max({Height[b] : b \in Blocks}))
-----------------------------------------------------------------------------
(* The chain *)

Init ==
    /\ tip \in InitTips /\ flushed = tip /\ index = Ancestors[tip]
    /\ queue = <<>> /\ delivering = NoEvent
    /\ \E S \in SUBSET Mine : created = S \cup {t \in Mine : \E b \in index : t \in Creates[b]}
    /\ hashBlock = [t \in Mine |-> IF \E b \in index : t \in Creates[b]
                                   THEN CHOOSE b \in index : t \in Creates[b] ELSE NoBlock]
    /\ coinbases = {b \in index : Rewarded[b] \in Mine}
    /\ bcts = Empty /\ rewards = {} /\ lastProcessedHeight = -1
    /\ node = "down" /\ hasWallet = FALSE /\ outOfStep = FALSE /\ fellBack = FALSE /\ counted = FALSE
    /\ moves = 0 /\ starts = 0 /\ crashes = 0 /\ rescans = 0

Up == node # "down"

\* The wallet makes a BCT.
CreateBCT(t) ==
    /\ Up /\ hasWallet /\ t \in Mine \ created
    /\ created' = created \cup {t}
    /\ UNCHANGED <<chainVars, queue, delivering, hashBlock, coinbases, dbVars, node, hasWallet, outOfStep, fellBack, counters>>

\* ConnectTip and the BlockConnected that follows it.
ConnectTip(b) ==
    /\ Up /\ moves < MaxMoves
    /\ b # Genesis /\ Parent[b] = tip /\ Creates[b] \cap Mine \subseteq created
    /\ tip' = b /\ index' = index \cup {b}
    /\ queue' = Append(queue, [type |-> "connected", block |-> b])
    /\ moves' = moves + 1
    /\ UNCHANGED <<flushed, delivering, walletVars, dbVars, node, hasWallet, outOfStep, fellBack, starts, crashes, rescans>>

\* DisconnectTip, which signals BlockDisconnected.
DisconnectTip ==
    /\ Up /\ moves < MaxMoves /\ tip # Genesis
    /\ tip' = Parent[tip]
    /\ queue' = Append(queue, [type |-> "disconnected", block |-> tip])
    /\ moves' = moves + 1
    /\ UNCHANGED <<flushed, index, delivering, walletVars, dbVars, node, hasWallet, outOfStep, fellBack, starts, crashes, rescans>>

FlushStateToDisk ==
    /\ Up /\ flushed # tip /\ flushed' = tip
    /\ UNCHANGED <<tip, index, queue, delivering, walletVars, dbVars, node, hasWallet, outOfStep, fellBack, counters>>
-----------------------------------------------------------------------------
(* Notifications *)

\* What the wallet learns from a block of the chain: hashBlock of its own
\* transactions and the coinbases that pay it.  A disconnected block leaves
\* hashBlock as it was.
WalletSees(S) ==
    /\ hashBlock' = [t \in Mine |-> IF t \in created /\ \E b \in S : t \in Creates[b]
                                    THEN CHOOSE b \in S : t \in Creates[b] ELSE hashBlock[t]]
    /\ coinbases' = coinbases \cup {b \in S : Rewarded[b] \in Mine}

\* The signal calls the wallet, then the handler if it was registered.
DeliverToWallet ==
    /\ Up /\ delivering = NoEvent /\ queue # <<>>
    /\ WalletSees(IF hasWallet /\ Head(queue).type = "connected" THEN {Head(queue).block} ELSE {})
    /\ queue' = Tail(queue)
    /\ delivering' = IF node = "running" THEN Head(queue) ELSE NoEvent
    /\ outOfStep' = (outOfStep \/ node # "running")
    /\ UNCHANGED <<chainVars, created, dbVars, node, hasWallet, fellBack, counters>>

\* BCTs of a block that get a record: those the wallet made, or everybody's if
\* there is no wallet.
Recorded(b) == IF hasWallet THEN Creates[b] \cap created ELSE Creates[b]

\* The reward of a Hive coinbase for a BCT that has a record.
Paid(d, b) ==
    IF Rewarded[b] \notin DOMAIN d THEN d
    ELSE [d EXCEPT ![Rewarded[b]].blocksFound = @ + 1, ![Rewarded[b]].rewardsPaid = @ + Amount[b]]

\* BlockConnected: the coinbase is the first transaction of the block.
processBlock(b) ==
    /\ rewards' = IF Rewarded[b] \in DOMAIN bcts THEN rewards \cup {b} ELSE rewards
    /\ bcts' = updateAllStatuses(Insert(Paid(bcts, b), [t \in Recorded(b) |-> NewRecord(Height[b], "immature")]),
                                 Height[b])
    /\ lastProcessedHeight' = Height[b]

\* BlockDisconnected, with forkHeight the height below the block.  Deleting a
\* BCT deletes its rewards; blocksFound is not recomputed.
handleReorgAbove(forkHeight) ==
    LET kept == {t \in DOMAIN bcts : bcts[t].height <= forkHeight + 1}
    IN  /\ rewards' = {b \in rewards : Height[b] <= forkHeight /\ Rewarded[b] \in kept}
        /\ bcts' = [t \in kept |-> [bcts[t] EXCEPT !.rewardsPaid = Total(rewards', t)]]
        /\ lastProcessedHeight' = forkHeight

handleReorgOnlyBCTs(forkHeight) ==
    LET kept == {t \in DOMAIN bcts : bcts[t].height <= forkHeight}
    IN  /\ rewards' = {b \in rewards : Rewarded[b] \in kept}
        /\ bcts' = [t \in kept |-> [bcts[t] EXCEPT !.rewardsPaid = Total(rewards', t)]]
        /\ lastProcessedHeight' = forkHeight

handleReorg(forkHeight) ==
    LET kept == {t \in DOMAIN bcts : bcts[t].height <= forkHeight}
    IN  /\ rewards' = {b \in rewards : Height[b] <= forkHeight /\ Rewarded[b] \in kept}
        /\ bcts' = [t \in kept |-> [bcts[t] EXCEPT !.rewardsPaid = Total(rewards', t)]]
        /\ lastProcessedHeight' = forkHeight

DeliverToHandler ==
    /\ Up /\ delivering # NoEvent
    /\ \/ delivering.type = "connected" /\ processBlock(delivering.block)
       \/ delivering.type = "disconnected" /\ handleReorg(Height[delivering.block] - 1)
    /\ delivering' = NoEvent
    /\ UNCHANGED <<chainVars, queue, walletVars, node, hasWallet, outOfStep, fellBack, counted, counters>>
-----------------------------------------------------------------------------
(* Startup, rescans, shutdown *)

\* The chainstate is loaded and the wallet, if there is one, catches up with it.
Start(w) ==
    /\ node = "down" /\ starts < MaxStarts
    /\ node' = "starting" /\ hasWallet' = w /\ starts' = starts + 1
    /\ WalletSees(IF w THEN Ancestors[tip] ELSE {})
    /\ UNCHANGED <<chainVars, queue, delivering, created, dbVars, outOfStep, fellBack, moves, crashes, rescans>>

\* validateWalletOwnership: records the wallet did not make.
Foreign == IF hasWallet THEN DOMAIN bcts \ created ELSE {}

\* The table is emptied and, with a wallet, filled by performInitialScan.
Rebuild ==
    /\ bcts' = IF hasWallet THEN InitialScan(Empty) ELSE Empty
    /\ rewards' = {}
    /\ lastProcessedHeight' = IF hasWallet THEN Height[tip]
                              ELSE IF DOMAIN bcts = {} THEN lastProcessedHeight ELSE -1
    /\ outOfStep' = (~hasWallet \/ ScanIsStale) /\ fellBack' = FALSE

\* With records, none of them foreign and none without a height (left by the
\* migration of a JSON cache or by an unconfirmed BCT), rescanRewardsOnly is all.
Startup ==
    IF DOMAIN bcts # {} /\ Foreign = {} /\ \A t \in DOMAIN bcts : bcts[t].height # 0
    THEN /\ bcts' = IF hasWallet THEN WithRewards(bcts) ELSE bcts
         /\ UNCHANGED <<rewards, lastProcessedHeight, outOfStep, fellBack>>
    ELSE Rebuild

initializeOnStartup ==
    /\ node = "starting"
    /\ Startup
    /\ counted' = (counted \/ (hasWallet /\ ScanCounts))
    /\ node' = "scanned"
    /\ UNCHANGED <<chainVars, queue, delivering, walletVars, hasWallet, counters>>

InitBCTBlockHandler ==
    /\ node = "scanned" /\ node' = "running"
    /\ UNCHANGED <<chainVars, queue, delivering, walletVars, dbVars, hasWallet, outOfStep, fellBack, counters>>

\* The RPCs rescanblockchain and rescanbctdatabase, up to the tip: only a rescan
\* from height 0 empties the tables first.
rescanFromWallet(startHeight) ==
    /\ node \in {"scanned", "running"} /\ hasWallet /\ rescans < MaxRescans
    /\ startHeight <= Height[tip]
    /\ bcts' = Scan(IF startHeight = 0 THEN Empty ELSE bcts, startHeight, Height[tip])
    /\ rewards' = IF startHeight = 0 THEN {} ELSE rewards
    /\ lastProcessedHeight' = Height[tip]
    /\ counted' = (counted \/ ScanCounts)
    /\ outOfStep' = (ScanIsStale \/ (startHeight # 0 /\ outOfStep))
    /\ fellBack' = (startHeight # 0 /\ fellBack)
    /\ rescans' = rescans + 1
    /\ UNCHANGED <<chainVars, queue, delivering, walletVars, node, hasWallet, moves, starts, crashes>>

\* Shutdown: FlushBackgroundCallbacks runs what is queued before the handler
\* is unregistered.
Shutdown ==
    /\ node = "running" /\ queue = <<>> /\ delivering = NoEvent
    /\ node' = "down" /\ flushed' = tip
    /\ UNCHANGED <<tip, index, queue, delivering, walletVars, dbVars, hasWallet, outOfStep, fellBack, counters>>

\* The process dies.  Committed transactions and the wallet survive; the chain
\* falls back to the last flush and the block index to some part of itself.
Crash ==
    /\ Up /\ crashes < MaxCrashes
    /\ node' = "down" /\ tip' = flushed
    /\ index' \in {S \in SUBSET index : Ancestors[flushed] \subseteq S}
    /\ queue' = <<>> /\ delivering' = NoEvent
    /\ crashes' = crashes + 1
    /\ fellBack' = (fellBack \/ tip # flushed \/ queue # <<>> \/ delivering # NoEvent)
    /\ UNCHANGED <<flushed, walletVars, dbVars, hasWallet, outOfStep, moves, starts, rescans>>

Next ==
    \/ \E t \in Mine : CreateBCT(t)
    \/ \E b \in Blocks : ConnectTip(b)
    \/ DisconnectTip \/ FlushStateToDisk
    \/ DeliverToWallet \/ DeliverToHandler
    \/ \E w \in WalletLoaded : Start(w)
    \/ initializeOnStartup \/ InitBCTBlockHandler
    \/ \E h \in {Height[b] : b \in Blocks} : rescanFromWallet(h)
    \/ Shutdown \/ Crash

Spec == Init /\ [][Next]_vars
-----------------------------------------------------------------------------
(* Properties *)

\* Type correctness of the chain, the wallet and the tables.
TypeOK ==
    /\ {tip, flushed} \subseteq Blocks /\ index \subseteq Blocks
    /\ queue \in Seq(Events) /\ delivering \in Events \cup {NoEvent}
    /\ created \subseteq Mine /\ hashBlock \in [Mine -> Blocks \cup {NoBlock}]
    /\ coinbases \subseteq Blocks
    /\ DOMAIN bcts \subseteq Txs /\ \A t \in DOMAIN bcts : bcts[t] \in Records
    /\ rewards \subseteq Blocks /\ lastProcessedHeight \in Int
    /\ node \in {"down", "starting", "scanned", "running"}
    /\ {hasWallet, outOfStep, fellBack, counted} \subseteq BOOLEAN
    /\ moves \in 0..MaxMoves /\ starts \in 0..MaxStarts
    /\ crashes \in 0..MaxCrashes /\ rescans \in 0..MaxRescans

\* Every notification has been delivered, and none went past the database.
Quiet == node = "running" /\ queue = <<>> /\ delivering = NoEvent
CaughtUp == Quiet /\ ~outOfStep /\ ~fellBack

OnChain(t) == \E b \in Ancestors[tip] : t \in Creates[b]
HeightOnChain(t) == Height[CHOOSE b \in Ancestors[tip] : t \in Creates[b]]

Rank == [unset |-> 0, immature |-> 1, mature |-> 2, expired |-> 3]

\* Once caught up, whatever was connected and disconnected meanwhile, the wallet's
\* BCTs of the chain have a record, at their height or at 0 if they were
\* recorded before they were mined, no other record has a height, no status lags
\* behind what the heights call for, and sync_state has the height of the chain.
\* While a wallet is loaded only BCTs it made are recorded, even if the node ran
\* without it before and recorded everybody's.
RecordsFollowChain ==
    /\ CaughtUp =>
          /\ lastProcessedHeight = Height[tip]
          /\ \A t \in created : OnChain(t) =>
                t \in DOMAIN bcts /\ bcts[t].height \in {0, HeightOnChain(t)}
          /\ \A t \in DOMAIN bcts :
                /\ bcts[t].height # 0 => OnChain(t)
                /\ Rank[bcts[t].status] >= Rank[updateStatus(bcts[t].height, Height[tip])]
    /\ node \in {"scanned", "running"} /\ hasWallet => DOMAIN bcts \subseteq Mine

\* Once caught up, if no scan has counted coinbases in their place, "rewards"
\* holds the Hive coinbases of the chain for the recorded BCTs and no others,
\* and each BCT has been paid the sum of its own.
RewardsFollowChain ==
    CaughtUp /\ ~counted =>
        /\ rewards = {b \in Ancestors[tip] : Rewarded[b] \in DOMAIN bcts}
        /\ \A t \in DOMAIN bcts : bcts[t].rewardsPaid = Total(Ancestors[tip], t)

\* "Recalculate rewards for remaining BCTs": when handleReorg has run for a
\* disconnected block, and nothing else waits, the BCTs of the chain have been
\* paid what performInitialScan on an empty database would find.
PaidAsAfterRescan ==
    LET rescanned == InitialScan(Empty)
    IN  \A t \in DOMAIN bcts \cap DOMAIN rescanned :
            OnChain(t) => bcts[t].rewardsPaid = rescanned[t].rewardsPaid
ReorgEquivalentToRescan ==
    [][delivering # NoEvent /\ delivering.type = "disconnected" /\ delivering' = NoEvent /\ CaughtUp'
       => PaidAsAfterRescan']_vars
=============================================================================
