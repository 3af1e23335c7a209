----------------------------- MODULE HiveMining -----------------------------
(***************************************************************************)
(* Hive mining: the BeeKeeper thread, the worker threads it starts for one *)
(* search, the thread that watches for a new block, and the threads that   *)
(* move the chain's tip under cs_main (src/src/miner.cpp, chain.cpp).      *)
(*                                                                         *)
(* The keeper reads the tip three times: its height under cs_main, the     *)
(* block itself without a lock at the start of BusyBees, and again under   *)
(* cs_main when the block is assembled.  Everything in between is computed *)
(* from the second reading.                                                *)
(*                                                                         *)
(* A bee is a pair <<bct, i>>: bee number i of a bee creation transaction. *)
(* What its hash is worth on top of a block is the constant Winning.       *)
(***************************************************************************)
EXTENDS Integers, Sequences, FiniteSets, Functions

CONSTANTS
    Blocks,        \* the block tree this node may see
    Path,          \* Path[b]: the blocks from the genesis block to b
    Work,          \* Work[b]: nChainWork
    HiveMined,     \* the hive mined blocks
    Own,           \* Own[p]: the block this node would mint on top of p
    Bcts,          \* bee creation transactions of the wallet
    Wallet,        \* the same, in the order mapWallet gives them
    BctIn,         \* BctIn[t]: the blocks that confirm t (one per branch)
    BeeCount,      \* BeeCount[t]: how many bees t paid for
    Winning,       \* Winning[b]: the bees whose hash on top of b meets the target
    Threads,       \* -hivecheckthreads, after defaulting
    CheckEvery,    \* a worker looks at the flags once per this many bees
    MaxHive,       \* maxConsecutiveHiveBlocks
    Gestation,     \* beeGestationBlocks
    Lifespan,      \* beeLifespanBlocks
    Start,         \* the tip when the keeper starts
    Null           \* the null pointer

Height(b) == Len(Path[b]) - 1

ASSUME PathAssumption ==
    /\ Null \notin Blocks
    /\ Path \in [Blocks -> Seq(Blocks) \ {<<>>}]
    /\ \A b \in Blocks : Path[b][Len(Path[b])] = b
    /\ \A b \in Blocks : \A i \in DOMAIN Path[b] : Path[Path[b][i]] = SubSeq(Path[b], 1, i)
    /\ \A b, c \in Blocks : Path[b][1] = Path[c][1]

ASSUME HiveAssumption ==
    /\ Start \in Blocks /\ HiveMined \subseteq Blocks
    /\ Work \in [Blocks -> Nat]
    /\ Own \in [DOMAIN Own -> Blocks] /\ DOMAIN Own \subseteq Blocks
    /\ \A p \in DOMAIN Own : Len(Path[Own[p]]) > 1 /\ Path[Own[p]][Len(Path[Own[p]]) - 1] = p
    /\ BctIn \in [Bcts -> SUBSET Blocks]
    /\ BeeCount \in [Bcts -> Nat]
    /\ Wallet \in Seq(Bcts)
    /\ Winning \in [Blocks -> SUBSET (Bcts \X Nat)]
    /\ Threads \in Nat \ {0} /\ CheckEvery \in Nat \ {0}
    /\ MaxHive \in Nat /\ Gestation \in Nat /\ Lifespan \in Nat

Parent(b) == Path[b][Len(Path[b]) - 1]
IsGenesis(b) == Len(Path[b]) = 1
Known0 == Blocks \ {Own[p] : p \in DOMAIN Own}

VARIABLES
    vChain,        \* chainActive.vChain
    resized,       \* SetTip has resized vChain and not yet written it
    moves,         \* the tips a thread inside cs_main has still to set; <<>>: cs_main free
    known,         \* blocks the node has, so may connect
    kp,            \* where the keeper is
    height,        \* BeeKeeper's height
    pindexPrev,    \* the tip BusyBees read
    flight,        \* the mature transactions of this search (potentialBcts)
    bins,          \* beeBins: per worker, its bees in order
    work,          \* per worker: how far it is
    watcher,       \* AbortWatchThread
    solutionFound, earlyAbort,
    solving,       \* solvingRange and solvingBee
    block,         \* the hive proof, then the block assembled around it
    useEarlyAbort, \* -hiveearlyout
    looked         \* history: the last tip BusyBees dealt with and did not abort

chainVars  == <<vChain, resized, moves>>
searchVars == <<pindexPrev, flight, bins>>
flagVars   == <<solutionFound, earlyAbort, solving>>
vars == <<vChain, resized, moves, known, kp, height, pindexPrev, flight, bins,
          work, watcher, solutionFound, earlyAbort, solving, block, useEarlyAbort, looked>>

(***************************************************************************)
(* The chain.  CChain::SetTip resizes vChain, which leaves a null pointer  *)
(* or an entry of the old branch at the end, and then writes the new       *)
(* branch from the top down until it meets an entry that is right.         *)
(***************************************************************************)
Tip == vChain[Len(vChain)]
csMainFree == moves = <<>>

Resize(vc, n) == [i \in 1..n |-> IF i <= Len(vc) THEN vc[i] ELSE Null]

Fill(vc, b) ==
    [i \in 1..Len(vc) |-> IF \E j \in i..Len(vc) : vc[j] = Path[b][j] THEN vc[i] ELSE Path[b][i]]

CommonLen(p, q) == Cardinality({i \in DOMAIN p \cap DOMAIN q : p[i] = q[i]})

\* The successive tips of one ActivateBestChainStep from tip a to tip b:
\* disconnect down to the fork, connect up to b.
Steps(a, b) ==
    LET k == CommonLen(Path[a], Path[b]) IN
    [i \in 1..(Len(Path[a]) - k) |-> Path[a][Len(Path[a]) - i]]
        \o [i \in 1..(Len(Path[b]) - k) |-> Path[b][k + i]]

\* A step stops at the first block with more work than the old tip, and
\* releases cs_main there.
ActivateBestChainStep(b) ==
    /\ kp # "dead" /\ csMainFree
    /\ b \in known /\ ~IsGenesis(b)
    /\ Work[b] > Work[Tip] /\ Work[Parent(b)] <= Work[Tip]
    /\ moves' = Steps(Tip, b)
    /\ UNCHANGED <<vChain, resized, known, kp, height, searchVars, work, watcher, flagVars,
                   block, useEarlyAbort, looked>>

SetTipResize ==
    /\ kp # "dead" /\ ~csMainFree /\ ~resized
    /\ vChain' = Resize(vChain, Len(Path[Head(moves)]))
    /\ resized' = TRUE
    /\ UNCHANGED <<moves, known, kp, height, searchVars, work, watcher, flagVars, block,
                   useEarlyAbort, looked>>

SetTipWrite ==
    /\ kp # "dead" /\ resized
    /\ vChain' = Fill(vChain, Head(moves))
    /\ resized' = FALSE
    /\ moves' = Tail(moves)
    /\ UNCHANGED <<known, kp, height, searchVars, work, watcher, flagVars, block,
                   useEarlyAbort, looked>>

(***************************************************************************)
(* Bees.                                                                   *)
(***************************************************************************)

\* The hive mined blocks in a row that end at b.
HiveRun(b) ==
    LET p == Path[b]
        n == Len(p)
    IN  Cardinality({i \in 1..n : \A j \in i..n : p[j] \in HiveMined})

HiveAllowed(b) == HiveRun(b) < MaxHive

\* What GetBCTs asks of a transaction: confirmed in vChain, not dead, and
\* older than the gestation period.
Mature(t) ==
    /\ Len(vChain) > 1
    /\ \E i \in DOMAIN vChain :
          LET depth == Len(vChain) - i + 1 IN
          /\ vChain[i] \in BctIn[t]
          /\ depth > Gestation /\ depth <= Gestation + Lifespan

\* GetBCTs walks mapWallet and keeps what it finds mature.
GetBCTs(mature) ==
    LET kept[n \in 0..Len(Wallet)] ==
            IF n = 0 THEN <<>>
            ELSE IF Wallet[n] \in mature THEN Append(kept[n - 1], Wallet[n]) ELSE kept[n - 1]
    IN  kept[Len(Wallet)]

Range0(t, from, n) == [i \in 1..n |-> <<t, from + i - 1>>]

\* totalBees, as the loop over the transactions adds it up.
RunningTotal(f) ==
    LET sum[n \in 0..Len(f)] == IF n = 0 THEN 0 ELSE sum[n - 1] + BeeCount[f[n]] IN sum
TotalBees(f) == RunningTotal(f)[Len(f)]

\* A mutated form: the rest of a transaction starts one bee too late.
BinStepSkips(f, perBin, s) ==
    LET rest  == BeeCount[f[s.it]] - s.off
        space == perBin - Len(s.bin)
        whole == s.bin \o Range0(f[s.it], s.off, rest)
    IN  IF rest <= space
        THEN IF s.it = Len(f)
             THEN [it |-> s.it + 1, off |-> 0, bin |-> <<>>, bins |-> Append(s.bins, whole)]
             ELSE [s EXCEPT !.it = @ + 1, !.off = 0, !.bin = whole]
        ELSE [it |-> s.it, off |-> s.off + space + 1, bin |-> <<>>,
              bins |-> Append(s.bins, s.bin \o Range0(f[s.it], s.off, space))]

\* One pass of the binning loop; s.it is bctIterator, s.off beeOffset, s.bin the
\* current bin.  A transaction that fits goes in whole; one that does not fills
\* the bin, and its rest starts the next.
BinStep(f, perBin, s) ==
    LET rest  == BeeCount[f[s.it]] - s.off
        space == perBin - Len(s.bin)
        whole == s.bin \o Range0(f[s.it], s.off, rest)
    IN  IF rest <= space
        THEN IF s.it = Len(f)
             THEN [it |-> s.it + 1, off |-> 0, bin |-> <<>>, bins |-> Append(s.bins, whole)]
             ELSE [s EXCEPT !.it = @ + 1, !.off = 0, !.bin = whole]
        ELSE [it |-> s.it, off |-> s.off + space, bin |-> <<>>,
              bins |-> Append(s.bins, s.bin \o Range0(f[s.it], s.off, space))]

\* A pass that neither takes a transaction nor a bee empties a full bin, so the loop
\* is over after two passes for every bee and every transaction.
BeeBins(f, perBin) ==
    LET last == 2 * (TotalBees(f) + Len(f))
        loop[n \in 0..last] ==
            IF n = 0 THEN [it |-> 1, off |-> 0, bin |-> <<>>, bins |-> <<>>]
            ELSE LET s == loop[n - 1] IN IF s.it > Len(f) THEN s ELSE BinStep(f, perBin, s)
    IN  loop[last].bins

\* ceil(totalBees / (float)threadCount): the quotient is rounded to a float
\* before ceil sees it, so just above a whole number it may come out one less.
BeesPerBin(total) ==
    {(total + Threads - 1) \div Threads} \cup ({total \div Threads} \ {0})

(***************************************************************************)
(* Workers: CheckBin and CheckBinMinotaur, which differ in the hash only.  *)
(* pos is the next bee; a worker that is to look at the flags before it    *)
(* has at = "flags".                                                       *)
(***************************************************************************)
At(pos) == IF (pos - 1) % CheckEvery = 0 THEN "flags" ELSE "hash"

\* A worker steps to the bee at pos, or returns when its bin has no more.
Goto(w, pos) ==
    [work EXCEPT ![w] = [pos |-> pos, at |-> IF pos > Len(bins[w]) THEN "done" ELSE At(pos)]]

CheckFlags(w) ==
    /\ kp = "join" /\ work[w].at = "flags"
    /\ work' = [work EXCEPT ![w].at = IF solutionFound \/ earlyAbort THEN "done" ELSE "hash"]
    /\ UNCHANGED <<chainVars, known, kp, height, searchVars, watcher, flagVars, block,
                   useEarlyAbort, looked>>

HashBee(w) ==
    /\ kp = "join" /\ work[w].at = "hash"
    /\ LET bee == bins[w][work[w].pos] IN
       IF bee \in Winning[pindexPrev]
       THEN /\ solutionFound' = TRUE
            /\ solving' = bee
            /\ work' = [work EXCEPT ![w].at = "done"]
       ELSE /\ work' = Goto(w, work[w].pos + 1)
            /\ UNCHANGED <<solutionFound, solving>>
    /\ UNCHANGED <<chainVars, known, kp, height, searchVars, watcher, earlyAbort, block,
                   useEarlyAbort, looked>>

(***************************************************************************)
(* AbortWatchThread.                                                       *)
(***************************************************************************)
WatchFlags ==
    /\ kp # "dead" /\ watcher = "flags"
    /\ watcher' = IF solutionFound \/ earlyAbort THEN "off" ELSE "height"
    /\ UNCHANGED <<chainVars, known, kp, height, searchVars, work, flagVars, block,
                   useEarlyAbort, looked>>

\* A mutated form: the watcher expects the height of the block being mined.
WatchHeightAbove ==
    /\ kp # "dead" /\ watcher = "height" /\ csMainFree
    /\ watcher' = IF Height(Tip) # height + 1 THEN "fire" ELSE "flags"
    /\ UNCHANGED <<chainVars, known, kp, height, searchVars, work, flagVars, block,
                   useEarlyAbort, looked>>

WatchHeight ==
    /\ kp # "dead" /\ watcher = "height" /\ csMainFree
    /\ watcher' = IF Height(Tip) # height THEN "fire" ELSE "flags"
    /\ UNCHANGED <<chainVars, known, kp, height, searchVars, work, flagVars, block,
                   useEarlyAbort, looked>>

WatchFire ==
    /\ kp # "dead" /\ watcher = "fire"
    /\ earlyAbort' = TRUE
    /\ watcher' = "off"
    /\ UNCHANGED <<chainVars, known, kp, height, searchVars, work, solutionFound, solving,
                   block, useEarlyAbort, looked>>

(***************************************************************************)
(* What CheckBlock asks of a hive mined block: CheckHiveProof.  It reads   *)
(* the bee creation transaction from the coins of the active chain, and    *)
(* from the block's own branch only when they do not have it.              *)
(***************************************************************************)
FoundHeights(chain, t) == {i - 1 : i \in {j \in DOMAIN chain : chain[j] \in BctIn[t]}}

\* The heights CheckHiveProof may find the transaction at.
BctFound(blk, chain) ==
    IF FoundHeights(chain, blk.bct) # {}
    THEN FoundHeights(chain, blk.bct)
    ELSE FoundHeights(Path[blk.parent], blk.bct) \cap {blk.bctHeight}

CheckHiveProof(blk, chain) ==
    /\ HiveAllowed(blk.parent)
    /\ <<blk.bct, blk.bee>> \in Winning[blk.parent]
    /\ blk.signed = blk.parent
    /\ blk.bctHeight \in BctFound(blk, chain)
    /\ LET bctDepth == Height(blk.parent) + 1 - blk.bctHeight IN
          bctDepth >= Gestation /\ bctDepth <= Gestation + Lifespan
    /\ blk.bee < BeeCount[blk.bct]

(***************************************************************************)
(* The keeper.                                                             *)
(***************************************************************************)
\* BusyBees returns or throws: its local variables are gone, the flags are globals.
Return ==
    /\ kp' = "sleep"
    /\ pindexPrev' = Null /\ flight' = <<>> /\ bins' = <<>> /\ work' = <<>> /\ block' = Null

Continue(at) == kp' = at /\ UNCHANGED <<searchVars, work>>

BeeKeeper ==
    /\ kp = "sleep" /\ csMainFree
    /\ Height(Tip) # height
    /\ height' = Height(Tip)
    /\ kp' = "tip"
    /\ UNCHANGED <<chainVars, known, searchVars, work, watcher, flagVars, block,
                   useEarlyAbort, looked>>

\* pindexPrev = chainActive.Tip(), without cs_main; the assertion on it ends
\* the process.
ReadTip ==
    /\ kp = "tip"
    /\ pindexPrev' = Tip
    /\ kp' = IF Tip = Null THEN "dead" ELSE "sane"
    /\ UNCHANGED <<chainVars, known, height, flight, bins, work, watcher, flagVars, block,
                   useEarlyAbort, looked>>

\* Not connected, in initial download, wallet missing or locked, or too many
\* hive blocks in a row.
SkipCheck ==
    /\ kp = "sane"
    /\ Return
    /\ looked' = pindexPrev
    /\ UNCHANGED <<chainVars, known, height, watcher, flagVars, useEarlyAbort>>

\* The wallet is asked for its mature bees; they are dealt into bins, the flags
\* are reset and the threads started.
ReleaseBees ==
    /\ kp = "sane" /\ HiveAllowed(pindexPrev)
    /\ flight' = GetBCTs({t \in Bcts : Mature(t)})
    /\ TotalBees(flight') > 0
    /\ \E perBin \in BeesPerBin(TotalBees(flight')) : bins' = BeeBins(flight', perBin)
    /\ work' = [w \in DOMAIN bins' |->
                   [pos |-> 1, at |-> IF bins'[w] = <<>> THEN "done" ELSE At(1)]]
    /\ solutionFound' = FALSE /\ earlyAbort' = FALSE
    /\ watcher' = IF useEarlyAbort THEN "flags" ELSE "off"
    /\ kp' = "join"
    /\ UNCHANGED <<chainVars, known, height, pindexPrev, solving, block, useEarlyAbort, looked>>

\* A mutated form: the watcher is not told to stop.
JoinWorkersOnly ==
    /\ kp = "join"
    /\ \A w \in DOMAIN work : work[w].at = "done"
    /\ \/ /\ useEarlyAbort /\ earlyAbort
          /\ Return
       \/ /\ useEarlyAbort /\ ~earlyAbort
          /\ Continue("joinwatcher")
          /\ UNCHANGED block
       \/ /\ ~useEarlyAbort
          /\ Continue("result")
          /\ UNCHANGED block
    /\ UNCHANGED <<chainVars, known, height, watcher, flagVars, useEarlyAbort, looked>>

\* Every worker has returned: an abort ends the search, otherwise the watcher is
\* told to stop.
JoinWorkers ==
    /\ kp = "join"
    /\ \A w \in DOMAIN work : work[w].at = "done"
    /\ \/ /\ useEarlyAbort /\ earlyAbort
          /\ Return
          /\ UNCHANGED earlyAbort
       \/ /\ useEarlyAbort /\ ~earlyAbort
          /\ earlyAbort' = TRUE
          /\ Continue("joinwatcher")
          /\ UNCHANGED block
       \/ /\ ~useEarlyAbort
          /\ Continue("result")
          /\ UNCHANGED <<earlyAbort, block>>
    /\ UNCHANGED <<chainVars, known, height, watcher, solutionFound, solving, useEarlyAbort, looked>>

JoinWatcher ==
    /\ kp = "joinwatcher" /\ watcher = "off"
    /\ kp' = "result"
    /\ UNCHANGED <<chainVars, known, height, searchVars, work, watcher, flagVars, block,
                   useEarlyAbort, looked>>

Result ==
    /\ kp = "result"
    /\ IF solutionFound THEN Continue("verify") /\ UNCHANGED block ELSE Return
    /\ looked' = pindexPrev
    /\ UNCHANGED <<chainVars, known, height, watcher, flagVars, useEarlyAbort>>

\* The winning transaction is looked up again in the active chain, and the
\* randomness of the search is signed; a missing key or a transaction that is
\* gone ends the attempt.
VerifyBct ==
    /\ kp = "verify" /\ csMainFree
    /\ \/ Return
       \/ \E h \in FoundHeights(vChain, solving[1]) :
             /\ block' = [bct |-> solving[1], bee |-> solving[2], bctHeight |-> h,
                          signed |-> pindexPrev]
             /\ Continue("create")
    /\ UNCHANGED <<chainVars, known, height, watcher, flagVars, useEarlyAbort, looked>>

\* A mutated form: the template is not tested.
CreateNewBlockUntested ==
    /\ kp = "create" /\ csMainFree
    /\ block' = [parent |-> Tip, bct |-> block.bct, bee |-> block.bee,
                 bctHeight |-> block.bctHeight, signed |-> block.signed]
    /\ Continue("stale")
    /\ UNCHANGED <<chainVars, known, height, watcher, flagVars, useEarlyAbort, looked>>

\* CreateNewBlock builds on the tip of now; TestBlockValidity runs CheckBlock on
\* the result and throws when it fails.
CreateNewBlock ==
    /\ kp = "create" /\ csMainFree
    /\ LET template == [parent |-> Tip, bct |-> block.bct, bee |-> block.bee,
                        bctHeight |-> block.bctHeight, signed |-> block.signed] IN
       IF CheckHiveProof(template, vChain)
       THEN Continue("stale") /\ block' = template
       ELSE Return
    /\ UNCHANGED <<chainVars, known, height, watcher, flagVars, useEarlyAbort, looked>>

StaleCheck ==
    /\ kp = "stale" /\ csMainFree
    /\ IF block.parent = Tip THEN Continue("process") /\ UNCHANGED block ELSE Return
    /\ UNCHANGED <<chainVars, known, height, watcher, flagVars, useEarlyAbort, looked>>

\* ProcessNewBlock checks the block once more and stores it, which makes it a
\* candidate for the tip.
ProcessNewBlock ==
    /\ kp = "process" /\ csMainFree
    /\ known' = IF CheckHiveProof(block, vChain) /\ block.parent \in DOMAIN Own
                THEN known \cup {Own[block.parent]} ELSE known
    /\ Return
    /\ UNCHANGED <<chainVars, height, watcher, flagVars, useEarlyAbort, looked>>

Keeper ==
    \/ BeeKeeper \/ ReadTip \/ SkipCheck \/ ReleaseBees \/ JoinWorkers \/ JoinWatcher
    \/ Result \/ VerifyBct \/ CreateNewBlock \/ StaleCheck \/ ProcessNewBlock
Worker(w) == CheckFlags(w) \/ HashBee(w)
Watcher == WatchFlags \/ WatchHeight \/ WatchFire
SetTip == SetTipResize \/ SetTipWrite

Init ==
    /\ vChain = Path[Start] /\ resized = FALSE /\ moves = <<>> /\ known = Known0
    /\ kp = "sleep" /\ height = Height(Start) /\ pindexPrev = Null
    /\ flight = <<>> /\ bins = <<>> /\ work = <<>> /\ watcher = "off"
    /\ solutionFound = FALSE /\ earlyAbort = FALSE /\ solving = Null /\ block = Null
    /\ useEarlyAbort \in BOOLEAN
    /\ looked = Start

Next ==
    \/ \E b \in Blocks : ActivateBestChainStep(b)
    \/ SetTipResize \/ SetTipWrite
    \/ \E w \in DOMAIN work : CheckFlags(w) \/ HashBee(w)
    \/ WatchFlags \/ WatchHeight \/ WatchFire
    \/ BeeKeeper \/ ReadTip \/ SkipCheck \/ ReleaseBees \/ JoinWorkers \/ JoinWatcher
    \/ Result \/ VerifyBct \/ CreateNewBlock \/ StaleCheck \/ ProcessNewBlock

\* Every thread that can go on is scheduled, and the thread inside cs_main leaves
\* it; nothing makes blocks arrive.
Fairness ==
    /\ WF_vars(SetTip)
    /\ WF_vars(Keeper)
    /\ \A w \in 1..(Threads + 1) : WF_vars(w \in DOMAIN work /\ Worker(w))
    /\ WF_vars(Watcher)

Spec == Init /\ [][Next]_vars /\ Fairness

(***************************************************************************)
(* Properties.                                                             *)
(***************************************************************************)

\* Every variable has its type.
TypeOK ==
    /\ vChain \in Seq(Blocks \cup {Null}) /\ vChain # <<>>
    /\ resized \in BOOLEAN /\ moves \in Seq(Blocks) /\ known \subseteq Blocks
    /\ kp \in {"sleep", "tip", "sane", "join", "joinwatcher", "result", "verify", "create",
               "stale", "process", "dead"}
    /\ height \in Nat /\ pindexPrev \in Blocks \cup {Null}
    /\ flight \in Seq(Bcts) /\ Len(bins) <= Threads + 1
    /\ DOMAIN work = DOMAIN bins
    /\ watcher \in {"off", "flags", "height", "fire"}
    /\ solutionFound \in BOOLEAN /\ earlyAbort \in BOOLEAN /\ useEarlyAbort \in BOOLEAN
    /\ looked \in Blocks

\* The bees of this search.
FlightBees == UNION {{t} \X (0..(BeeCount[t] - 1)) : t \in Range(flight)}

\* A search that was not aborted is exact: it ends with a solution exactly when
\* one of the wallet's mature bees meets the target on top of the block that
\* BusyBees read, and the solution is such a bee.  So the bins lose no bee at a
\* boundary, no worker stops early without cause, and no flag is left over from
\* an earlier search.
SearchIsExact ==
    kp = "result" =>
        /\ solutionFound <=> (FlightBees \cap Winning[pindexPrev] # {})
        /\ solutionFound => solving \in FlightBees \cap Winning[pindexPrev]

\* What the rules ask of a hive mined block, by its own branch alone.
ValidOnBranch(blk) == CheckHiveProof(blk, Path[blk.parent])

\* A block handed to ProcessNewBlock carries a proof for its own parent: the bee
\* wins there, its transaction is confirmed on that branch at the height the
\* proof gives, and the signature is over that branch's randomness, however the
\* tip moved between the search, the assembly and the last look at the tip.
ProofFitsParent == kp = "process" => ValidOnBranch(block)

\* The active chain is a branch of the tree whenever cs_main is free, whatever
\* entries resizing left behind.
ChainIsBranch == csMainFree => Tip \in Blocks /\ vChain = Path[Tip]

\* BusyBees returns: no search waits for a thread that waits for it.
BusyBeesReturns == kp \notin {"sleep", "dead"} ~> kp \in {"sleep", "dead"}

\* No other block has this height.
Alone(b) == \A c \in Blocks : Height(c) = Height(b) => c = b

\* If the tip settles on a block whose height the node has not met before, the
\* keeper deals with that block in full, even when it was in the middle of another
\* search or read the tip while it moved.
NewHeightsTried ==
    \A b \in Blocks : Alone(b) =>
        (<>[](csMainFree /\ Tip = b /\ kp # "dead") => <>(looked = b))
=============================================================================
