-------------------------- MODULE HiveMiningProofs --------------------------
(***************************************************************************)
(* For any block tree, wallet and number of threads: the active chain is a *)
(* branch of the tree whenever cs_main is free, a block that the keeper    *)
(* hands to ProcessNewBlock is valid on its own branch, and a search that  *)
(* was not aborted is exact.                                               *)
(*                                                                         *)
(* The first needs what vChain holds between the two halves of SetTip: the *)
(* old branch cut or padded to the new length.  Two branches that agree at *)
(* a height agree below it, so stopping the write loop at the first entry  *)
(* that is right is enough.  The second then follows from the check inside *)
(* CreateNewBlock, which runs with the block's parent as the tip, whatever *)
(* block the search was about.                                             *)
(***************************************************************************)
EXTENDS HiveMining, FiniteSetTheorems, TLAPS

\* The provers, in turn, where a leaf names none.
USE ZenonT(5), SMTT(40), ZenonT(40), Z3T(40)

\* What vChain holds: a branch, or inside SetTip a branch cut or padded.
ChainInv ==
    /\ moves \in Seq(Blocks)
    /\ resized \in BOOLEAN
    /\ ~resized => \E c \in Blocks : vChain = Path[c]
    /\ resized => /\ moves # <<>>
                  /\ \E c \in Blocks : vChain = Resize(Path[c], Len(Path[Head(moves)]))

\* What is known of the block once the check inside CreateNewBlock has passed.
BlockInv == kp \in {"stale", "process"} => ValidOnBranch(block)

KnownInv == known \subseteq Blocks

Inv == ChainInv /\ BlockInv /\ KnownInv

LEMMA PathFacts ==
    ASSUME NEW b \in Blocks
    PROVE  /\ Path[b] \in Seq(Blocks) /\ Len(Path[b]) \in Nat \ {0}
           /\ DOMAIN Path[b] = 1..Len(Path[b])
           /\ Path[b][Len(Path[b])] = b
           /\ \A i \in 1..Len(Path[b]) : Path[b][i] \in Blocks
  BY PathAssumption

\* Two branches that agree at a height agree below it.
LEMMA AgreeBelow ==
    ASSUME NEW b \in Blocks, NEW c \in Blocks,
           NEW j \in 1..Len(Path[b]), j \in 1..Len(Path[c]), Path[b][j] = Path[c][j],
           NEW i \in 1..j
    PROVE  Path[b][i] = Path[c][i]
<1>1. /\ Path[b] \in Seq(Blocks) /\ Path[c] \in Seq(Blocks)
      /\ DOMAIN Path[b] = 1..Len(Path[b]) /\ DOMAIN Path[c] = 1..Len(Path[c])
      /\ Len(Path[b]) \in Nat /\ Len(Path[c]) \in Nat
  BY PathFacts
<1>2. Path[Path[b][j]] = SubSeq(Path[b], 1, j) /\ Path[Path[c][j]] = SubSeq(Path[c], 1, j)
  BY <1>1, PathAssumption
<1>3. SubSeq(Path[b], 1, j) = SubSeq(Path[c], 1, j)
  BY <1>2
<1>4. SubSeq(Path[b], 1, j)[i] = Path[b][i] /\ SubSeq(Path[c], 1, j)[i] = Path[c][i]
  BY <1>1
<1> QED BY <1>3, <1>4

\* SetTip as a whole: writing branch t over branch c cut or padded gives branch t.
LEMMA FillGivesBranch ==
    ASSUME NEW c \in Blocks, NEW t \in Blocks
    PROVE  Fill(Resize(Path[c], Len(Path[t])), t) = Path[t]
<1> DEFINE n == Len(Path[t])
           vc == Resize(Path[c], n)
<1>1. /\ n \in Nat /\ Path[t] \in Seq(Blocks) /\ DOMAIN Path[t] = 1..n
      /\ Len(Path[c]) \in Nat
      /\ \A i \in 1..n : Path[t][i] \in Blocks
  BY PathFacts
<1>2. vc = [i \in 1..n |-> IF i <= Len(Path[c]) THEN Path[c][i] ELSE Null]
  BY DEF Resize
<1>3. Len(vc) = n
  BY <1>1, <1>2
<1>4. Fill(vc, t) = [i \in 1..n |-> IF \E j \in i..n : vc[j] = Path[t][j] THEN vc[i] ELSE Path[t][i]]
  BY <1>3 DEF Fill
<1>5. ASSUME NEW i \in 1..n PROVE Fill(vc, t)[i] = Path[t][i]
  <2>1. CASE \E j \in i..n : vc[j] = Path[t][j]
    <3>1. PICK j \in i..n : vc[j] = Path[t][j]
      BY <2>1
    <3>2. j \in 1..n /\ i \in 1..j
      BY <1>1
    <3>3. j <= Len(Path[c])
      BY <1>1, <1>2, <3>1, <3>2, PathAssumption
    <3>4. vc[j] = Path[c][j] /\ vc[i] = Path[c][i]
      BY <1>1, <1>2, <3>2, <3>3
    <3>5. j \in 1..Len(Path[c])
      BY <1>1, <3>2, <3>3
    <3>6. Path[c][i] = Path[t][i]
      BY <3>1, <3>2, <3>4, <3>5, AgreeBelow
    <3> HIDE DEF vc
    <3> QED BY <1>4, <2>1, <3>4, <3>6
  <2>2. CASE ~ \E j \in i..n : vc[j] = Path[t][j]
    <3> HIDE DEF vc
    <3> QED BY <1>4, <2>2
  <2> QED BY <2>1, <2>2
<1>6. Path[t] = [i \in 1..n |-> Path[t][i]]
  BY <1>1
<1> HIDE DEF vc, n
<1>7. Fill(vc, t) = [i \in 1..n |-> Path[t][i]]
  BY <1>4, <1>5
<1> QED BY <1>6, <1>7 DEF vc, n

\* Every tip on the way from a to b is a block.
LEMMA StepsAreBlocks ==
    ASSUME NEW a \in Blocks, NEW b \in Blocks
    PROVE  Steps(a, b) \in Seq(Blocks)
<1> DEFINE p == Path[a]
           q == Path[b]
           S == {i \in DOMAIN p \cap DOMAIN q : p[i] = q[i]}
           k == Cardinality(S)
<1>1. /\ p \in Seq(Blocks) /\ q \in Seq(Blocks) /\ Len(p) \in Nat \ {0} /\ Len(q) \in Nat \ {0}
      /\ DOMAIN p = 1..Len(p) /\ DOMAIN q = 1..Len(q)
      /\ \A i \in 1..Len(p) : p[i] \in Blocks
      /\ \A i \in 1..Len(q) : q[i] \in Blocks
  BY PathFacts
<1>2. S \subseteq 1..Len(p) /\ S \subseteq 1..Len(q)
  BY <1>1
<1>3. 1 \in S
  <2>1. p[1] = q[1]
    BY PathAssumption
  <2>2. 1 \in 1..Len(p) /\ 1 \in 1..Len(q)
    BY <1>1
  <2> QED BY <1>1, <2>1, <2>2
<1> HIDE DEF S
<1>4. /\ IsFiniteSet(1..Len(p)) /\ Cardinality(1..Len(p)) = Len(p)
      /\ IsFiniteSet(1..Len(q)) /\ Cardinality(1..Len(q)) = Len(q)
  <2>1. ASSUME NEW n \in Nat \ {0} PROVE IsFiniteSet(1..n) /\ Cardinality(1..n) = n
    <3>1. Cardinality(1..n) = IF 1 > n THEN 0 ELSE n - 1 + 1
      BY FS_Interval
    <3> QED BY <3>1, FS_Interval
  <2> QED BY <1>1, <2>1
<1>5. IsFiniteSet(S) /\ k <= Len(p) /\ k <= Len(q)
  BY <1>2, <1>4, FS_Subset
<1>6. k \in Nat /\ k # 0
  BY <1>3, <1>5, FS_CardinalityType, FS_EmptySet
<1> HIDE DEF k, p, q
<1>7. [i \in 1..(Len(p) - k) |-> p[Len(p) - i]] \in Seq(Blocks)
  <2>1. Len(p) - k \in Nat
    BY <1>1, <1>5, <1>6
  <2>2. ASSUME NEW i \in 1..(Len(p) - k) PROVE p[Len(p) - i] \in Blocks
    BY <1>1, <1>5, <1>6
  <2> QED BY <2>1, <2>2
<1>8. [i \in 1..(Len(q) - k) |-> q[k + i]] \in Seq(Blocks)
  <2>1. Len(q) - k \in Nat
    BY <1>1, <1>5, <1>6
  <2>2. ASSUME NEW i \in 1..(Len(q) - k) PROVE q[k + i] \in Blocks
    BY <1>1, <1>5, <1>6
  <2> QED BY <2>1, <2>2
<1>9. Steps(a, b) = [i \in 1..(Len(p) - k) |-> p[Len(p) - i]] \o [i \in 1..(Len(q) - k) |-> q[k + i]]
  BY DEF Steps, CommonLen, S, k, p, q
<1> QED BY <1>7, <1>8, <1>9

\* With cs_main free the active chain is the branch of its last entry.
LEMMA FreeChain ==
    ASSUME ChainInv, csMainFree
    PROVE  Tip \in Blocks /\ vChain = Path[Tip]
<1>1. PICK c \in Blocks : vChain = Path[c]
  BY DEF ChainInv, csMainFree
<1>2. Tip = c
  BY <1>1, PathFacts DEF Tip
<1> QED BY <1>1, <1>2

\* The three steps that touch vChain keep its shape.
LEMMA ChainStep ==
    ASSUME ChainInv,
           (\E b \in Blocks : ActivateBestChainStep(b)) \/ SetTipResize \/ SetTipWrite
    PROVE  ChainInv'
<1>1. ASSUME NEW b \in Blocks, ActivateBestChainStep(b) PROVE ChainInv'
  <2>1. Steps(Tip, b) \in Seq(Blocks)
    BY <1>1, FreeChain, StepsAreBlocks DEF ActivateBestChainStep
  <2>2. ~resized
    BY <1>1 DEF ActivateBestChainStep, ChainInv, csMainFree
  <2> QED BY <1>1, <2>1, <2>2 DEF ActivateBestChainStep, ChainInv
<1>2. CASE SetTipResize
  <2>1. PICK c \in Blocks : vChain = Path[c]
    BY <1>2 DEF SetTipResize, ChainInv
  <2>2. vChain' = Resize(Path[c], Len(Path[Head(moves')]))
    BY <1>2, <2>1 DEF SetTipResize
  <2>3. moves' \in Seq(Blocks) /\ moves' # <<>> /\ resized' = TRUE
    BY <1>2 DEF SetTipResize, ChainInv, csMainFree
  <2> QED BY <2>2, <2>3 DEF ChainInv
<1>3. CASE SetTipWrite
  <2>1. moves \in Seq(Blocks) /\ moves # <<>> /\ resized
    BY <1>3 DEF SetTipWrite, ChainInv
  <2>2. Head(moves) \in Blocks /\ Tail(moves) \in Seq(Blocks)
    BY <2>1
  <2>3. PICK c \in Blocks : vChain = Resize(Path[c], Len(Path[Head(moves)]))
    BY <2>1 DEF ChainInv
  <2>4. vChain' = Path[Head(moves)]
    BY <1>3, <2>2, <2>3, FillGivesBranch DEF SetTipWrite
  <2>5. resized' = FALSE /\ moves' = Tail(moves)
    BY <1>3 DEF SetTipWrite
  <2> QED BY <2>2, <2>4, <2>5 DEF ChainInv
<1> QED BY <1>1, <1>2, <1>3

\* The steps of the keeper, the workers and the watcher.
Rest ==
    \/ \E w \in DOMAIN work : CheckFlags(w) \/ HashBee(w)
    \/ WatchFlags \/ WatchHeight \/ WatchFire
    \/ BeeKeeper \/ ReadTip \/ SkipCheck \/ ReleaseBees \/ JoinWorkers \/ JoinWatcher
    \/ Result \/ VerifyBct \/ CreateNewBlock \/ StaleCheck \/ ProcessNewBlock

LEMMA RestKeepsChain ==
    ASSUME Rest
    PROVE  UNCHANGED chainVars
BY DEF Rest, CheckFlags, HashBee, WatchFlags, WatchHeight, WatchFire, BeeKeeper, ReadTip,
       SkipCheck, ReleaseBees, JoinWorkers, JoinWatcher, Result, VerifyBct, CreateNewBlock,
       StaleCheck, ProcessNewBlock

\* No step makes the block a candidate for ProcessNewBlock unchecked.
LEMMA BlockStep ==
    ASSUME Inv, Next
    PROVE  BlockInv'
<1>1. CASE (\E b \in Blocks : ActivateBestChainStep(b)) \/ SetTipResize \/ SetTipWrite
  <2>1. UNCHANGED <<kp, block>>
    BY <1>1 DEF ActivateBestChainStep, SetTipResize, SetTipWrite
  <2> QED BY <2>1 DEF Inv, BlockInv, ValidOnBranch, CheckHiveProof, BctFound, FoundHeights,
                      HiveAllowed, HiveRun, Height
<1>2. CASE WatchFlags \/ WatchHeight \/ WatchFire \/ \E w \in DOMAIN work : CheckFlags(w) \/ HashBee(w)
  <2>1. UNCHANGED <<kp, block>>
    BY <1>2 DEF CheckFlags, HashBee, WatchFlags, WatchHeight, WatchFire
  <2> QED BY <2>1 DEF Inv, BlockInv, ValidOnBranch, CheckHiveProof, BctFound, FoundHeights,
                      HiveAllowed, HiveRun, Height
<1>3. CASE BeeKeeper \/ ReadTip \/ SkipCheck \/ ReleaseBees \/ JoinWorkers \/ JoinWatcher
           \/ Result \/ VerifyBct \/ ProcessNewBlock
  <2>1. kp' \notin {"stale", "process"}
    BY <1>3 DEF BeeKeeper, ReadTip, SkipCheck, ReleaseBees, JoinWorkers, JoinWatcher, Result,
                VerifyBct, ProcessNewBlock, Return, Continue
  <2> QED BY <2>1 DEF BlockInv
<1>4. CASE CreateNewBlock
  <2>1. Tip \in Blocks /\ vChain = Path[Tip]
    BY <1>4, FreeChain DEF CreateNewBlock, Inv
  <2>2. CASE kp' \in {"stale", "process"}
    <3>1. kp' # "sleep"
      BY <2>2
    <3> DEFINE template == [parent |-> Tip, bct |-> block.bct, bee |-> block.bee,
                            bctHeight |-> block.bctHeight, signed |-> block.signed]
    <3>2. block' = template /\ CheckHiveProof(template, vChain)
      BY <1>4, <3>1 DEF CreateNewBlock, Return
    <3>3. CheckHiveProof(block', Path[Tip])
      <4> HIDE DEF template
      <4> QED
        BY <2>1, <3>2
    <3>4. ValidOnBranch(block)' <=> CheckHiveProof(block', Path[block'.parent])
      BY DEF ValidOnBranch, CheckHiveProof, BctFound, FoundHeights, HiveAllowed, HiveRun, Height
    <3>5. block'.parent = Tip
      BY <3>2
    <3> QED BY <3>3, <3>4, <3>5 DEF BlockInv
  <2>3. CASE kp' \notin {"stale", "process"}
    BY <2>3 DEF BlockInv
  <2> QED BY <2>2, <2>3
<1>5. CASE StaleCheck
  <2>1. CASE kp' = "process"
    <3>1. kp = "stale" /\ block' = block
      BY <1>5, <2>1 DEF StaleCheck, Return
    <3> QED BY <3>1, <2>1 DEF Inv, BlockInv, ValidOnBranch, CheckHiveProof, BctFound,
                              FoundHeights, HiveAllowed, HiveRun, Height
  <2>2. CASE kp' # "process"
    <3>1. kp' \notin {"stale", "process"}
      BY <1>5, <2>2 DEF StaleCheck, Return, Continue
    <3> QED BY <3>1 DEF BlockInv
  <2> QED BY <2>1, <2>2
<1> QED BY <1>1, <1>2, <1>3, <1>4, <1>5 DEF Next

LEMMA KnownStep ==
    ASSUME KnownInv, Next
    PROVE  KnownInv'
<1>1. CASE ProcessNewBlock
  BY <1>1, HiveAssumption DEF ProcessNewBlock, KnownInv
<1>2. CASE ~ProcessNewBlock
  <2>1. known' = known
    BY <1>2 DEF Next, ActivateBestChainStep, SetTipResize, SetTipWrite, CheckFlags, HashBee,
                WatchFlags, WatchHeight, WatchFire, BeeKeeper, ReadTip, SkipCheck, ReleaseBees,
                JoinWorkers, JoinWatcher, Result, VerifyBct, CreateNewBlock, StaleCheck
  <2> QED BY <2>1 DEF KnownInv
<1> QED BY <1>1, <1>2

\* Inv is inductive: whatever the threads do, vChain is a branch or a branch cut
\* or padded by SetTip, and a block past CreateNewBlock is valid on its branch.
THEOREM InvHolds == Spec => []Inv
<1>1. Init => Inv
  <2> SUFFICES ASSUME Init PROVE Inv
    OBVIOUS
  <2>1. ChainInv
    <3>1. vChain = Path[Start] /\ resized = FALSE /\ moves = <<>> /\ Start \in Blocks
      BY HiveAssumption DEF Init
    <3>2. moves \in Seq(Blocks)
      BY <3>1
    <3>4. resized \in BOOLEAN /\ ~resized
      BY <3>1
    <3>3. \E c \in Blocks : vChain = Path[c]
      BY <3>1
    <3> QED BY <3>2, <3>3, <3>4 DEF ChainInv
  <2>2. BlockInv
    BY DEF Init, BlockInv
  <2>3. KnownInv
    BY DEF Init, KnownInv, Known0
  <2> QED BY <2>1, <2>2, <2>3 DEF Inv
<1>2. Inv /\ [Next]_vars => Inv'
  <2> SUFFICES ASSUME Inv, [Next]_vars PROVE Inv'
    OBVIOUS
  <2>1. CASE Next
    <3>1. ChainInv'
      <4>1. CASE (\E b \in Blocks : ActivateBestChainStep(b)) \/ SetTipResize \/ SetTipWrite
        BY <4>1, ChainStep DEF Inv
      <4>2. CASE Rest
        <5>1. UNCHANGED <<vChain, resized, moves>>
          BY <4>2, RestKeepsChain DEF chainVars
        <5> QED BY <5>1 DEF Inv, ChainInv, Resize
      <4> QED BY <2>1, <4>1, <4>2 DEF Next, Rest
    <3>2. BlockInv'
      BY <2>1, BlockStep
    <3>3. KnownInv'
      BY <2>1, KnownStep DEF Inv
    <3> QED BY <3>1, <3>2, <3>3 DEF Inv
  <2>2. CASE UNCHANGED vars
    <3>1. UNCHANGED <<vChain, resized, moves, known, kp, block>>
      BY <2>2 DEF vars
    <3> QED BY <3>1 DEF Inv, ChainInv, BlockInv, KnownInv, Resize, ValidOnBranch, CheckHiveProof,
                        BctFound, FoundHeights, HiveAllowed, HiveRun, Height
  <2> QED BY <2>1, <2>2
<1> QED BY <1>1, <1>2, PTL DEF Spec

\* The active chain is a branch of the tree whenever cs_main is free.
THEOREM ChainAlwaysBranch == Spec => []ChainIsBranch
<1>1. Inv => ChainIsBranch
  BY FreeChain DEF Inv, ChainIsBranch
<1> QED BY <1>1, InvHolds, PTL

\* A block handed to ProcessNewBlock carries a proof for its own parent, for every
\* tree, wallet, number of threads and schedule.
THEOREM ProofAlwaysFits == Spec => []ProofFitsParent
<1>1. Inv => ProofFitsParent
  BY DEF Inv, BlockInv, ProofFitsParent
<1> QED BY <1>1, InvHolds, PTL

(***************************************************************************)
(* The search.  Two facts carry it.  The binning loop deals every bee of   *)
(* the flight into exactly one place, which is shown for the loop as the   *)
(* recursive function it is, by induction on the number of passes; that it *)
(* is over after `last' passes is shown by a measure.  And a worker that   *)
(* has returned has passed its whole bin, or saw a flag that is still set. *)
(***************************************************************************)
Bees == Bcts \X Nat

\* The bees in a list of bins.
Dealt(bs) == UNION {Range(bs[i]) : i \in DOMAIN bs}

\* The bees of the transactions of f.
BeesOf(f) == UNION {{t} \X (0..(BeeCount[t] - 1)) : t \in Range(f)}

\* How far a worker is: what it has passed does not win, and it only stops at a
\* flag or at the end of its bin.
WorkerInv(w) ==
    /\ work[w].pos \in Nat \ {0} /\ work[w].at \in {"flags", "hash", "done"}
    /\ \A i \in 1..Len(bins[w]) : i < work[w].pos => bins[w][i] \notin Winning[pindexPrev]
    /\ work[w].at # "done" => work[w].pos <= Len(bins[w])
    /\ work[w].at = "done" => solutionFound \/ earlyAbort \/ work[w].pos > Len(bins[w])

SearchInv ==
    /\ useEarlyAbort \in BOOLEAN /\ solutionFound \in BOOLEAN /\ earlyAbort \in BOOLEAN
    /\ ~useEarlyAbort => watcher = "off"
    /\ kp = "join" =>
          /\ bins \in Seq(Seq(Bees)) /\ Dealt(bins) = FlightBees
          /\ work \in [DOMAIN bins -> [pos : Nat, at : {"flags", "hash", "done"}]]
          /\ \A w \in DOMAIN bins : WorkerInv(w)
          /\ solutionFound => solving \in FlightBees \cap Winning[pindexPrev]
          /\ ~useEarlyAbort => ~earlyAbort
    /\ kp \in {"joinwatcher", "result"} =>
          /\ solutionFound <=> (FlightBees \cap Winning[pindexPrev] # {})
          /\ solutionFound => solving \in FlightBees \cap Winning[pindexPrev]

\* What the steps of the search that only test and return do to it.
LEMMA SameFlight ==
    ASSUME UNCHANGED flight PROVE FlightBees' = FlightBees
  BY DEF FlightBees, Range

LEMMA SameBins ==
    ASSUME UNCHANGED bins PROVE Dealt(bins)' = Dealt(bins)
  BY DEF Dealt, Range

LEMMA JoinAborted ==
    ASSUME JoinWorkers, useEarlyAbort, earlyAbort
    PROVE  kp' = "sleep" /\ earlyAbort' = earlyAbort
  BY DEF JoinWorkers, Return

LEMMA BeeFacts ==
    /\ BeeCount \in [Bcts -> Nat] /\ Wallet \in Seq(Bcts) /\ Threads \in Nat \ {0}
    /\ CheckEvery \in Nat \ {0}
  BY HiveAssumption

\* Induction on the naturals, for a set.
LEMMA Induction ==
    ASSUME NEW T, 0 \in T, \A n \in Nat : n \in T => n + 1 \in T
    PROVE  \A n \in Nat : n \in T
<1>1. \E R : IsWellFoundedOn(R, Nat) /\ \A x, y \in Nat : y < x => <<y, x>> \in R
  <2>1. \A x, y \in Nat : y < x => <<y, x>> \in OpToRel(<, Nat)
    BY DEF OpToRel
  <2> QED
    BY <2>1, NatLessThanWellFounded
<1>2. PICK R : IsWellFoundedOn(R, Nat) /\ \A x, y \in Nat : y < x => <<y, x>> \in R
  BY <1>1
<1> DEFINE U == {n \in Nat : n \notin T}
<1>3. SUFFICES ASSUME U # {} PROVE FALSE
  OBVIOUS
<1>4. U \subseteq Nat
  OBVIOUS
<1>5. \E x \in U : \A y \in U : ~(<<y, x>> \in R)
  <2> HIDE DEF U
  <2> QED
    BY <1>2, <1>3, <1>4, WFMin
<1>6. PICK x \in U : \A y \in U : ~(<<y, x>> \in R)
  BY <1>5
<1>7. x \in Nat /\ x # 0 /\ x - 1 \in Nat /\ x - 1 < x
  OBVIOUS
<1>8. x - 1 \notin U
  BY <1>2, <1>6, <1>7
<1> QED
  BY <1>7, <1>8

\* The functions on 0..n that iterate G from s.
Runs(n, s, G, S) ==
    {h \in [0..n -> S] : h[0] = s /\ \A i \in 1..n : h[i] = G[i][h[i - 1]]}

\* A recursion over 0..n whose steps stay in S has a solution.
LEMMA RunsExist ==
    ASSUME NEW S, NEW s \in S, NEW G \in [Nat -> [S -> S]]
    PROVE  \A n \in Nat : Runs(n, s, G, S) # {}
<1> DEFINE T == {n \in Nat : Runs(n, s, G, S) # {}}
<1>1. 0 \in T
  <2>1. [i \in 0..0 |-> s] \in Runs(0, s, G, S)
    BY DEF Runs
  <2> QED
    BY <2>1
<1>2. ASSUME NEW n \in Nat, n \in T PROVE n + 1 \in T
  <2>1. PICK h : h \in Runs(n, s, G, S)
    BY <1>2
  <2>2. h \in [0..n -> S] /\ h[0] = s /\ \A i \in 1..n : h[i] = G[i][h[i - 1]]
    BY <2>1 DEF Runs
  <2> DEFINE k == [i \in 0..(n + 1) |-> IF i = n + 1 THEN G[n + 1][h[n]] ELSE h[i]]
  <2>3. G[n + 1][h[n]] \in S
    BY <2>2
  <2>4. k \in [0..(n + 1) -> S] /\ k[0] = s
    BY <2>2, <2>3
  <2>5. ASSUME NEW i \in 1..(n + 1) PROVE k[i] = G[i][k[i - 1]]
    BY <2>2
  <2>6. k \in Runs(n + 1, s, G, S)
    <3> HIDE DEF k
    <3> QED
      BY <2>4, <2>5 DEF Runs
  <2> HIDE DEF k
  <2> QED
    BY <2>6
<1> HIDE DEF T
<1>3. \A n \in Nat : n \in T
  BY <1>1, <1>2, Induction
<1> QED
  BY <1>3 DEF T


\* What the recursive definition of RunningTotal computes.
LEMMA RunningTotalIs ==
    ASSUME NEW f \in Seq(Bcts)
    PROVE  /\ RunningTotal(f) \in [0..Len(f) -> Nat]
           /\ RunningTotal(f)[0] = 0
           /\ \A n \in 1..Len(f) : RunningTotal(f)[n] = RunningTotal(f)[n - 1] + BeeCount[f[n]]
<1> DEFINE r == RunningTotal(f)
           G == [n \in Nat |-> [x \in Nat |-> IF n \in 1..Len(f) THEN x + BeeCount[f[n]] ELSE x]]
<1>1. Len(f) \in Nat /\ 0 \in Nat /\ \A n \in 1..Len(f) : BeeCount[f[n]] \in Nat
  BY BeeFacts
<1>2. G \in [Nat -> [Nat -> Nat]]
  BY <1>1
<1>3. PICK h : h \in Runs(Len(f), 0, G, Nat)
  <2> HIDE DEF G
  <2> QED
    BY <1>1, <1>2, RunsExist, ZenonT(60)
<1>4. /\ h \in [0..Len(f) -> Nat] /\ h[0] = 0
      /\ \A n \in 1..Len(f) : n \in Nat /\ h[n - 1] \in Nat /\ h[n] = G[n][h[n - 1]]
  <2>1. h \in [0..Len(f) -> Nat] /\ h[0] = 0 /\ \A n \in 1..Len(f) : h[n] = G[n][h[n - 1]]
    <3> HIDE DEF G
    <3> QED
      BY <1>3 DEF Runs
  <2>2. \A n \in 1..Len(f) : n \in Nat /\ n - 1 \in 0..Len(f)
    BY <1>1
  <2> HIDE DEF G
  <2> QED
    BY <2>1, <2>2
<1>6. ASSUME NEW n \in 1..Len(f) PROVE h[n] = h[n - 1] + BeeCount[f[n]]
  <2>1. n \in Nat /\ h[n - 1] \in Nat /\ h[n] = G[n][h[n - 1]]
    <3> HIDE DEF G
    <3> QED
      BY <1>4
  <2> QED
    BY <2>1
<1>7. h = [n \in 0..Len(f) |-> IF n = 0 THEN 0 ELSE h[n - 1] + BeeCount[f[n]]]
  BY <1>1, <1>4, <1>6
<1>8. r = [n \in 0..Len(f) |-> IF n = 0 THEN 0 ELSE r[n - 1] + BeeCount[f[n]]]
  BY <1>7 DEF RunningTotal
<1> HIDE DEF r
<1>9. r[0] = 0 /\ \A n \in 1..Len(f) : r[n] = r[n - 1] + BeeCount[f[n]]
  BY <1>1, <1>8
<1>10. \A n \in Nat : n \in {k \in Nat : k <= Len(f) => r[k] \in Nat}
  <2> DEFINE T == {k \in Nat : k <= Len(f) => r[k] \in Nat}
  <2>1. 0 \in T
    BY <1>9
  <2>2. ASSUME NEW n \in Nat, n \in T PROVE n + 1 \in T
    <3>1. CASE n + 1 <= Len(f)
      <4>1. n + 1 \in 1..Len(f) /\ (n + 1) - 1 = n /\ r[n] \in Nat
        BY <1>1, <2>2, <3>1
      <4>2. r[n + 1] \in Nat
        BY <1>1, <1>9, <4>1
      <4> QED
        BY <4>2
    <3> QED
      BY <3>1
  <2> HIDE DEF T
  <2>3. \A n \in Nat : n \in T
    BY <2>1, <2>2, Induction
  <2> QED
    BY <2>3 DEF T
<1>11. r \in [0..Len(f) -> Nat]
  BY <1>1, <1>8, <1>10
<1> QED
  BY <1>9, <1>11 DEF r

\* No prefix has more bees than the whole.
LEMMA RunningTotalGrows ==
    ASSUME NEW f \in Seq(Bcts), NEW i \in 0..Len(f)
    PROVE  RunningTotal(f)[i] <= TotalBees(f)
<1> DEFINE r == RunningTotal(f)
           T == {k \in Nat : k <= Len(f) => r[Len(f) - k] <= r[Len(f)]}
<1>1. /\ Len(f) \in Nat
      /\ r \in [0..Len(f) -> Nat]
      /\ \A n \in 1..Len(f) : r[n] = r[n - 1] + BeeCount[f[n]] /\ BeeCount[f[n]] \in Nat
  BY BeeFacts, RunningTotalIs
<1> HIDE DEF r
<1>2. 0 \in T
  BY <1>1
<1>3. ASSUME NEW n \in Nat, n \in T PROVE n + 1 \in T
  <2>1. ASSUME n + 1 <= Len(f) PROVE r[Len(f) - (n + 1)] <= r[Len(f)]
    <3>1. /\ Len(f) - n \in 1..Len(f) /\ (Len(f) - n) - 1 = Len(f) - (n + 1)
          /\ Len(f) - (n + 1) \in 0..Len(f) /\ Len(f) \in 0..Len(f) /\ r[Len(f) - n] <= r[Len(f)]
      BY <1>1, <1>3, <2>1
    <3>2. r[Len(f) - n] = r[Len(f) - (n + 1)] + BeeCount[f[Len(f) - n]] /\ BeeCount[f[Len(f) - n]] \in Nat
      BY <1>1, <3>1
    <3>3. r[Len(f) - (n + 1)] \in Nat /\ r[Len(f)] \in Nat
      BY <1>1, <3>1
    <3> QED
      BY <3>1, <3>2, <3>3
  <2> QED
    BY <2>1
<1> HIDE DEF T
<1>4. \A n \in Nat : n \in T
  BY <1>2, <1>3, Induction
<1>5. Len(f) - i \in Nat /\ Len(f) - i <= Len(f) /\ Len(f) - (Len(f) - i) = i
  BY <1>1
<1>6. r[i] <= r[Len(f)]
  BY <1>4, <1>5 DEF T
<1> QED
  BY <1>6 DEF r, TotalBees

\* GetBCTs returns transactions of the wallet.
LEMMA GetBCTsIs ==
    ASSUME NEW mature
    PROVE  GetBCTs(mature) \in Seq(Bcts)
<1> DEFINE N == Len(Wallet)
           S == Seq(Bcts)
           Step(n, q) == IF Wallet[n] \in mature THEN Append(q, Wallet[n]) ELSE q
           G == [n \in Nat |-> [q \in S |-> IF n \in 1..N THEN Step(n, q) ELSE q]]
<1>1. N \in Nat /\ <<>> \in S /\ \A n \in 1..N : Wallet[n] \in Bcts
  BY BeeFacts
<1>2. \A n \in 1..N, q \in S : Step(n, q) \in S
  BY <1>1
<1>3. G \in [Nat -> [S -> S]]
  BY <1>1, <1>2
<1>4. PICK h : h \in Runs(N, <<>>, G, S)
  <2> HIDE DEF G, N, S
  <2> QED
    BY <1>1, <1>3, RunsExist
<1>5. /\ h \in [0..N -> S] /\ h[0] = <<>>
      /\ \A n \in 1..N : n \in Nat /\ h[n - 1] \in S /\ h[n] = G[n][h[n - 1]]
  <2>1. h \in [0..N -> S] /\ h[0] = <<>> /\ \A n \in 1..N : h[n] = G[n][h[n - 1]]
    <3> HIDE DEF G, N, S
    <3> QED
      BY <1>4 DEF Runs
  <2>2. \A n \in 1..N : n \in Nat /\ n - 1 \in 0..N
    <3> HIDE DEF N
    <3> QED
      BY <1>1
  <2> HIDE DEF G, N, S
  <2> QED
    BY <2>1, <2>2
<1> HIDE DEF N
<1>7. ASSUME NEW n \in 1..N PROVE h[n] = Step(n, h[n - 1])
  <2>1. n \in Nat /\ h[n - 1] \in S /\ h[n] = G[n][h[n - 1]]
    <3> HIDE DEF G
    <3> QED
      BY <1>5
  <2> HIDE DEF Step
  <2> QED
    BY <2>1
<1>8. h = [n \in 0..N |-> IF n = 0 THEN <<>>
                          ELSE IF Wallet[n] \in mature THEN Append(h[n - 1], Wallet[n]) ELSE h[n - 1]]
  <2>1. \A n \in 0..N : n # 0 => n \in 1..N
    BY <1>1
  <2> HIDE DEF G
  <2> QED
    BY <1>5, <1>7, <2>1
<1>9. \E g : /\ g = [n \in 0..N |-> IF n = 0 THEN <<>>
                          ELSE IF Wallet[n] \in mature THEN Append(g[n - 1], Wallet[n]) ELSE g[n - 1]]
             /\ GetBCTs(mature) = g[N]
  BY <1>8 DEF GetBCTs, N
<1>10. PICK g : /\ g = [n \in 0..N |-> IF n = 0 THEN <<>>
                          ELSE IF Wallet[n] \in mature THEN Append(g[n - 1], Wallet[n]) ELSE g[n - 1]]
               /\ GetBCTs(mature) = g[N]
  BY <1>9
<1>11. g[0] = <<>>
  BY <1>1, <1>10
<1>15. ASSUME NEW n \in 1..N PROVE g[n] = Step(n, g[n - 1])
  <2>1. n \in 0..N /\ n # 0
    BY <1>1
  <2> QED
    BY <1>10, <2>1
<1> DEFINE T == {n \in Nat : n <= N => g[n] \in S}
<1> HIDE DEF Step
<1>12. 0 \in T
  BY <1>1, <1>11
<1>13. ASSUME NEW n \in Nat, n \in T PROVE n + 1 \in T
  <2>1. ASSUME n + 1 <= N PROVE g[n + 1] \in S
    <3>1. n + 1 \in 1..N /\ (n + 1) - 1 = n /\ g[n] \in S
      BY <1>1, <1>13, <2>1
    <3> QED
      BY <1>2, <1>15, <3>1
  <2> QED
    BY <2>1
<1> HIDE DEF T
<1>14. \A n \in Nat : n \in T
  BY <1>12, <1>13, Induction
<1>16. g[N] \in S
  BY <1>1, <1>14 DEF T
<1> QED
  BY <1>10, <1>16

\* n bees of t, from number from on.
Bunch(t, from, n) == {b \in Bees : b[1] = t /\ from <= b[2] /\ b[2] < from + n}

\* Bee b belongs to transaction k of f, and comes before number off of number it.
Comes(f, it, off, b, k) ==
    b[1] = f[k] /\ ((k < it /\ b[2] < BeeCount[f[k]]) \/ (k = it /\ b[2] < off))

\* The bees of f that come before number off of its transaction number it.
Before(f, it, off) ==
    {b \in Bees : \E k \in 1..Len(f) : Comes(f, it, off, b, k)}

\* What is in two sequences put together.
LEMMA RangeOfJoined ==
    ASSUME NEW S, NEW a \in Seq(S), NEW b \in Seq(S)
    PROVE  /\ a \o b \in Seq(S) /\ Len(a \o b) = Len(a) + Len(b)
           /\ Range(a \o b) = Range(a) \cup Range(b)
<1>1. /\ a \o b \in Seq(S) /\ Len(a \o b) = Len(a) + Len(b)
      /\ Len(a) \in Nat /\ Len(b) \in Nat
      /\ DOMAIN a = 1..Len(a) /\ DOMAIN b = 1..Len(b) /\ DOMAIN (a \o b) = 1..(Len(a) + Len(b))
  OBVIOUS
<1>2. ASSUME NEW i \in DOMAIN (a \o b) PROVE (a \o b)[i] \in Range(a) \cup Range(b)
  <2>1. CASE i <= Len(a)
    <3>1. i \in DOMAIN a /\ (a \o b)[i] = a[i]
      BY <1>1, <2>1
    <3> QED
      BY <3>1 DEF Range
  <2>2. CASE i > Len(a)
    <3>1. i - Len(a) \in DOMAIN b /\ (a \o b)[i] = b[i - Len(a)]
      BY <1>1, <2>2
    <3> QED
      BY <3>1 DEF Range
  <2> QED
    BY <1>1, <2>1, <2>2
<1>3. ASSUME NEW i \in DOMAIN a PROVE a[i] \in Range(a \o b)
  <2>1. i \in DOMAIN (a \o b) /\ (a \o b)[i] = a[i]
    BY <1>1
  <2> QED
    BY <2>1 DEF Range
<1>4. ASSUME NEW i \in DOMAIN b PROVE b[i] \in Range(a \o b)
  <2>1. i + Len(a) \in DOMAIN (a \o b) /\ (a \o b)[i + Len(a)] = b[i]
    BY <1>1
  <2> QED
    BY <2>1 DEF Range
<1>5. Range(a \o b) = Range(a) \cup Range(b)
  BY <1>2, <1>3, <1>4 DEF Range
<1> QED
  BY <1>1, <1>5

\* What is in one range of bees.
LEMMA Range0Is ==
    ASSUME NEW t \in Bcts, NEW from \in Nat, NEW n \in Nat
    PROVE  /\ Range0(t, from, n) \in Seq(Bees) /\ Len(Range0(t, from, n)) = n
           /\ Range(Range0(t, from, n)) = Bunch(t, from, n)
<1> DEFINE q == Range0(t, from, n)
<1>1. q = [i \in 1..n |-> <<t, from + i - 1>>]
  BY DEF Range0
<1>2. \A i \in 1..n : from + i - 1 \in Nat /\ from <= from + i - 1 /\ from + i - 1 < from + n
  OBVIOUS
<1>3. \A i \in 1..n : <<t, from + i - 1>> \in Bees
  BY <1>2 DEF Bees
<1>4. q \in Seq(Bees) /\ Len(q) = n /\ DOMAIN q = 1..n
  <2>1. q \in [1..n -> Bees]
    BY <1>1, <1>3
  <2> HIDE DEF q
  <2> QED
    BY <2>1
<1> HIDE DEF q
<1>5. ASSUME NEW i \in 1..n PROVE q[i] \in Bunch(t, from, n)
  BY <1>1, <1>2, <1>3 DEF Bunch
<1>6. ASSUME NEW b \in Bunch(t, from, n) PROVE \E i \in 1..n : q[i] = b
  <2>1. b \in Bcts \X Nat /\ b[1] = t /\ from <= b[2] /\ b[2] < from + n
    BY DEF Bunch, Bees
  <2>2. b = <<t, b[2]>> /\ b[2] \in Nat
    BY <2>1
  <2>3. b[2] - from + 1 \in 1..n /\ from + (b[2] - from + 1) - 1 = b[2]
    BY <2>1, <2>2
  <2>4. q[b[2] - from + 1] = b
    BY <1>1, <2>2, <2>3
  <2> QED
    BY <2>3, <2>4
<1>7. Range(q) = Bunch(t, from, n)
  BY <1>4, <1>5, <1>6 DEF Range
<1> QED
  BY <1>4, <1>7 DEF q

\* What is in the bins with one more.
LEMMA DealtAppend ==
    ASSUME NEW bs \in Seq(Seq(Bees)), NEW x \in Seq(Bees)
    PROVE  /\ Append(bs, x) \in Seq(Seq(Bees))
           /\ Dealt(Append(bs, x)) = Dealt(bs) \cup Range(x)
<1>1. /\ Append(bs, x) \in Seq(Seq(Bees))
      /\ Len(bs) \in Nat /\ DOMAIN bs = 1..Len(bs) /\ DOMAIN Append(bs, x) = 1..(Len(bs) + 1)
      /\ \A i \in 1..Len(bs) : i \in 1..(Len(bs) + 1) /\ Append(bs, x)[i] = bs[i]
      /\ Append(bs, x)[Len(bs) + 1] = x /\ Len(bs) + 1 \in 1..(Len(bs) + 1)
      /\ \A i \in 1..(Len(bs) + 1) : i \in 1..Len(bs) \/ i = Len(bs) + 1
  OBVIOUS
<1>2. ASSUME NEW b PROVE b \in Dealt(Append(bs, x)) <=> b \in Dealt(bs) \/ b \in Range(x)
  <2>1. b \in Dealt(Append(bs, x)) <=> \E i \in 1..(Len(bs) + 1) : b \in Range(Append(bs, x)[i])
    BY <1>1 DEF Dealt
  <2>2. b \in Dealt(bs) <=> \E i \in 1..Len(bs) : b \in Range(bs[i])
    BY <1>1 DEF Dealt
  <2> QED
    BY <1>1, <2>1, <2>2
<1> QED
  BY <1>1, <1>2

LEMMA InBefore ==
    ASSUME NEW f, NEW it, NEW off, NEW b \in Bees
    PROVE  b \in Before(f, it, off) <=> \E k \in 1..Len(f) : Comes(f, it, off, b, k)
  BY DEF Before

\* n more bees of the current transaction.
LEMMA BeforeMore ==
    ASSUME NEW f \in Seq(Bcts), NEW it \in 1..Len(f), NEW off \in Nat, NEW n \in Nat
    PROVE  Before(f, it, off + n) = Before(f, it, off) \cup Bunch(f[it], off, n)
<1>1. \A b \in Bees : b[2] \in Nat
  BY DEF Bees
<1>2. ASSUME NEW b \in Bees
      PROVE  b \in Before(f, it, off + n) <=> b \in Before(f, it, off) \/ b \in Bunch(f[it], off, n)
  <2>1. ASSUME NEW k \in 1..Len(f)
        PROVE  Comes(f, it, off + n, b, k) <=>
               Comes(f, it, off, b, k) \/ (k = it /\ b \in Bunch(f[it], off, n))
    BY <1>1 DEF Comes, Bunch
  <2> QED
    BY <2>1, InBefore
<1> QED
  BY <1>2 DEF Before, Bunch

\* A transaction is through when its last bee is.
LEMMA BeforeNext ==
    ASSUME NEW f \in Seq(Bcts), NEW it \in 1..Len(f)
    PROVE  Before(f, it + 1, 0) = Before(f, it, BeeCount[f[it]])
<1>1. \A b \in Bees : b[2] \in Nat
  BY DEF Bees
<1>3. ASSUME NEW b \in Bees
      PROVE  b \in Before(f, it + 1, 0) <=> b \in Before(f, it, BeeCount[f[it]])
  <2>1. ASSUME NEW k \in 1..Len(f)
        PROVE  Comes(f, it + 1, 0, b, k) <=> Comes(f, it, BeeCount[f[it]], b, k)
    BY <1>1 DEF Comes
  <2> QED
    BY <2>1, InBefore
<1> QED
  BY <1>3 DEF Before

\* Past the last transaction is all of them.
LEMMA BeforeAll ==
    ASSUME NEW f \in Seq(Bcts), NEW off
    PROVE  Before(f, Len(f) + 1, off) = BeesOf(f)
<1>1. /\ Len(f) \in Nat /\ DOMAIN f = 1..Len(f)
      /\ \A k \in 1..Len(f) : k < Len(f) + 1 /\ k # Len(f) + 1 /\ f[k] \in Bcts /\ BeeCount[f[k]] \in Nat
  BY BeeFacts
<1>2. ASSUME NEW b PROVE b \in Before(f, Len(f) + 1, off) <=>
         \E k \in 1..Len(f) : b \in Bees /\ b[1] = f[k] /\ b[2] < BeeCount[f[k]]
  BY <1>1 DEF Before, Comes
<1>3. ASSUME NEW b PROVE b \in BeesOf(f) <=>
         \E k \in 1..Len(f) : b \in {f[k]} \X (0..(BeeCount[f[k]] - 1))
  BY <1>1 DEF BeesOf, Range
<1>4. ASSUME NEW b, NEW k \in 1..Len(f)
      PROVE  b \in {f[k]} \X (0..(BeeCount[f[k]] - 1)) <=>
             b \in Bees /\ b[1] = f[k] /\ b[2] < BeeCount[f[k]]
  BY <1>1 DEF Bees
<1> QED
  BY <1>2, <1>3, <1>4

LoopStates(f) == [it : 1..(Len(f) + 1), off : Nat, bin : Seq(Bees), bins : Seq(Seq(Bees))]

\* What the binning loop keeps: nothing dealt twice or skipped, no bin too full.
LoopInv(f, perBin, s) ==
    /\ s \in LoopStates(f)
    /\ Len(s.bin) <= perBin
    /\ s.it > Len(f) => s.bin = <<>>
    /\ s.it <= Len(f) => s.off <= BeeCount[f[s.it]]
    /\ Dealt(s.bins) \cup Range(s.bin) = Before(f, s.it, s.off)

\* Grows with every pass: bees and transactions count twice, a full bin takes one off.
Progress(f, perBin, s) ==
    2 * (RunningTotal(f)[s.it - 1] + s.off + s.it - 1) - (IF Len(s.bin) = perBin THEN 1 ELSE 0)

\* A loop that is not over has not made all the progress there is.
LEMMA ProgressType ==
    ASSUME NEW f \in Seq(Bcts), NEW perBin \in Nat \ {0}, NEW s, LoopInv(f, perBin, s), s.it <= Len(f)
    PROVE  Progress(f, perBin, s) \in Int /\ Progress(f, perBin, s) < 2 * (TotalBees(f) + Len(f))
<1> DEFINE r == RunningTotal(f)
           c == IF Len(s.bin) = perBin THEN 1 ELSE 0
<1>1. /\ Len(f) \in Nat /\ s.it \in 1..Len(f) /\ s.off \in Nat
      /\ s.off <= BeeCount[f[s.it]] /\ BeeCount[f[s.it]] \in Nat
  BY BeeFacts DEF LoopInv, LoopStates
<1>2. /\ r \in [0..Len(f) -> Nat] /\ s.it \in 0..Len(f) /\ s.it - 1 \in 0..Len(f) /\ Len(f) \in 0..Len(f)
      /\ r[s.it] = r[s.it - 1] + BeeCount[f[s.it]]
  BY <1>1, RunningTotalIs
<1>3. r[s.it] <= TotalBees(f)
  BY <1>2, RunningTotalGrows
<1>4. TotalBees(f) \in Nat /\ r[s.it - 1] \in Nat /\ r[s.it] \in Nat
  BY <1>2 DEF TotalBees
<1>5. c \in {0, 1}
  OBVIOUS
<1>6. Progress(f, perBin, s) = 2 * (r[s.it - 1] + s.off + s.it - 1) - c
  BY DEF Progress
<1> HIDE DEF r, c
<1>7. r[s.it - 1] + s.off <= TotalBees(f) /\ s.it - 1 < Len(f)
  BY <1>1, <1>2, <1>3, <1>4
<1>8. ASSUME NEW a \in Nat, NEW o \in Nat, NEW i \in Nat, NEW d \in {0, 1}, NEW T \in Nat, NEW L \in Nat,
             a + o <= T, i - 1 < L
      PROVE  2 * (a + o + i - 1) - d \in Int /\ 2 * (a + o + i - 1) - d < 2 * (T + L)
  BY <1>8
<1> QED
  BY <1>1, <1>4, <1>5, <1>6, <1>7, <1>8, SMTT(60)

\* A pass of the binning loop keeps its invariant and makes progress.
LEMMA BinStepKeeps ==
    ASSUME NEW f \in Seq(Bcts), NEW perBin \in Nat \ {0}, NEW s, LoopInv(f, perBin, s), s.it <= Len(f),
           NEW z, z = BinStep(f, perBin, s)
    PROVE  /\ LoopInv(f, perBin, z)
           /\ z.it <= Len(f) => Progress(f, perBin, z) > Progress(f, perBin, s)
<1> DEFINE t == f[s.it]
           rest == BeeCount[t] - s.off
           space == perBin - Len(s.bin)
           whole == s.bin \o Range0(t, s.off, rest)
           part == s.bin \o Range0(t, s.off, space)
           r == RunningTotal(f)
           L == Len(f)
<1>1. /\ L \in Nat /\ s.it \in 1..L /\ s.off \in Nat /\ s.bin \in Seq(Bees) /\ s.bins \in Seq(Seq(Bees))
      /\ s = [it |-> s.it, off |-> s.off, bin |-> s.bin, bins |-> s.bins]
      /\ Len(s.bin) \in Nat /\ Len(s.bin) <= perBin
      /\ t \in Bcts /\ BeeCount[t] \in Nat /\ s.off <= BeeCount[t]
  BY BeeFacts DEF LoopInv, LoopStates
<1>2. rest \in Nat /\ space \in Nat
  BY <1>1
<1>3. Dealt(s.bins) \cup Range(s.bin) = Before(f, s.it, s.off)
  BY DEF LoopInv
<1>4. /\ r \in [0..L -> Nat] /\ s.it \in 0..L /\ s.it - 1 \in 0..L
      /\ r[s.it] = r[s.it - 1] + BeeCount[t]
  BY <1>1, RunningTotalIs
<1>5. /\ whole \in Seq(Bees) /\ Len(whole) = Len(s.bin) + rest
      /\ Range(whole) = Range(s.bin) \cup Bunch(t, s.off, rest)
  <2> DEFINE q == Range0(t, s.off, rest)
  <2>1. q \in Seq(Bees) /\ Len(q) = rest /\ Range(q) = Bunch(t, s.off, rest)
    <3> HIDE DEF t, rest
    <3> QED
      BY <1>1, <1>2, Range0Is
  <2> HIDE DEF q, t, rest
  <2>2. /\ s.bin \o q \in Seq(Bees) /\ Len(s.bin \o q) = Len(s.bin) + Len(q)
        /\ Range(s.bin \o q) = Range(s.bin) \cup Range(q)
    BY <1>1, <2>1, RangeOfJoined, ZenonT(60)
  <2> QED
    BY <2>1, <2>2 DEF q
<1>6. /\ part \in Seq(Bees)
      /\ Range(part) = Range(s.bin) \cup Bunch(t, s.off, space)
  <2> DEFINE q == Range0(t, s.off, space)
  <2>1. q \in Seq(Bees) /\ Len(q) = space /\ Range(q) = Bunch(t, s.off, space)
    <3> HIDE DEF t, space
    <3> QED
      BY <1>1, <1>2, Range0Is
  <2> HIDE DEF q, t, space
  <2>2. /\ s.bin \o q \in Seq(Bees) /\ Len(s.bin \o q) = Len(s.bin) + Len(q)
        /\ Range(s.bin \o q) = Range(s.bin) \cup Range(q)
    BY <1>1, <2>1, RangeOfJoined, ZenonT(60)
  <2> QED
    BY <2>1, <2>2 DEF q
<1>7. Before(f, s.it + 1, 0) = Before(f, s.it, s.off) \cup Bunch(t, s.off, rest)
  <2>1. Before(f, s.it + 1, 0) = Before(f, s.it, s.off + rest)
    BY <1>1, BeforeNext
  <2> HIDE DEF rest
  <2> QED
    BY <1>1, <1>2, <2>1, BeforeMore
<1>8. Before(f, s.it, s.off + space) = Before(f, s.it, s.off) \cup Bunch(t, s.off, space)
  <2> HIDE DEF space
  <2> QED
    BY <1>1, <1>2, BeforeMore
<1>9. CASE rest <= space /\ s.it = L
  <2>1. z = [it |-> s.it + 1, off |-> 0, bin |-> <<>>, bins |-> Append(s.bins, whole)]
    BY <1>9 DEF BinStep
  <2> HIDE DEF whole, rest, space, t
  <2>2. /\ z.it = L + 1 /\ z.off = 0 /\ z.bin = <<>> /\ z.bins = Append(s.bins, whole)
        /\ s.it + 1 = L + 1
    BY <1>9, <2>1
  <2>3. z \in LoopStates(f)
    <3>1. s.it + 1 \in 1..(L + 1) /\ 0 \in Nat /\ <<>> \in Seq(Bees)
      BY <1>1
    <3>2. Append(s.bins, whole) \in Seq(Seq(Bees))
      BY <1>1, <1>5, DealtAppend
    <3> QED
      BY <2>1, <3>1, <3>2 DEF LoopStates
  <2>4. Dealt(z.bins) \cup Range(z.bin) = Before(f, z.it, z.off)
    <3>1. Dealt(Append(s.bins, whole)) = Dealt(s.bins) \cup Range(whole)
      BY <1>1, <1>5, DealtAppend
    <3>2. Range(<<>>) = {}
      BY DEF Range
    <3> QED
      BY <1>3, <1>5, <1>7, <2>2, <3>1, <3>2
  <2>5. Len(z.bin) <= perBin
    BY <2>2
  <2> QED
    BY <1>1, <2>2, <2>3, <2>4, <2>5 DEF LoopInv
<1>10. CASE rest <= space /\ s.it # L
  <2>1. z = [it |-> s.it + 1, off |-> 0, bin |-> whole, bins |-> s.bins]
    BY <1>1, <1>10 DEF BinStep
  <2>2. z.it = s.it + 1 /\ z.off = 0 /\ z.bin = whole /\ z.bins = s.bins
    <3> HIDE DEF whole
    <3> QED
      BY <2>1
  <2> HIDE DEF whole, t, r
  <2>3. z \in LoopStates(f)
    <3>1. s.it + 1 \in 1..(L + 1) /\ 0 \in Nat
      BY <1>1
    <3> QED
      BY <1>1, <1>5, <2>1, <3>1 DEF LoopStates
  <2>4. Dealt(z.bins) \cup Range(z.bin) = Before(f, z.it, z.off)
    <3> HIDE DEF rest, space
    <3> QED
      BY <1>3, <1>5, <1>7, <2>2
  <2>5. Len(z.bin) <= perBin
    BY <1>1, <1>2, <1>5, <1>10, <2>2
  <2>6. z.it <= L /\ ~(z.it > L) /\ BeeCount[f[z.it]] \in Nat /\ z.off <= BeeCount[f[z.it]]
    BY <1>1, <1>10, <2>2, BeeFacts
  <2>7. Progress(f, perBin, z) > Progress(f, perBin, s)
    <3>1. /\ r[s.it - 1] \in Nat /\ r[(s.it + 1) - 1] = r[s.it - 1] + BeeCount[t]
          /\ BeeCount[t] >= s.off
      BY <1>1, <1>4
    <3> DEFINE a == IF Len(z.bin) = perBin THEN 1 ELSE 0
               b == IF Len(s.bin) = perBin THEN 1 ELSE 0
    <3>2. a \in {0, 1} /\ b \in {0, 1}
      OBVIOUS
    <3>3. /\ Progress(f, perBin, z) = 2 * (r[(s.it + 1) - 1] + 0 + (s.it + 1) - 1) - a
          /\ Progress(f, perBin, s) = 2 * (r[s.it - 1] + s.off + s.it - 1) - b
      BY <2>2 DEF Progress, r
    <3> HIDE DEF a, b
    <3> QED
      BY <1>1, <3>1, <3>2, <3>3
  <2> QED
    BY <1>1, <2>3, <2>4, <2>5, <2>6, <2>7 DEF LoopInv
<1>11. CASE ~(rest <= space)
  <2>1. z = [it |-> s.it, off |-> s.off + space, bin |-> <<>>, bins |-> Append(s.bins, part)]
    BY <1>11 DEF BinStep
  <2>2. z.it = s.it /\ z.off = s.off + space /\ z.bin = <<>> /\ z.bins = Append(s.bins, part)
    <3> HIDE DEF part, space
    <3> QED
      BY <2>1
  <2> HIDE DEF part, t, r
  <2>3. z \in LoopStates(f)
    <3> HIDE DEF space
    <3>1. s.it \in 1..(L + 1) /\ s.off + space \in Nat /\ <<>> \in Seq(Bees)
      BY <1>1, <1>2
    <3>2. Append(s.bins, part) \in Seq(Seq(Bees))
      BY <1>1, <1>6, DealtAppend
    <3> QED
      BY <2>1, <3>1, <3>2 DEF LoopStates
  <2>4. Dealt(z.bins) \cup Range(z.bin) = Before(f, z.it, z.off)
    <3>1. Dealt(Append(s.bins, part)) = Dealt(s.bins) \cup Range(part)
      BY <1>1, <1>6, DealtAppend
    <3>2. Range(<<>>) = {}
      BY DEF Range
    <3> HIDE DEF rest, space
    <3> QED
      BY <1>3, <1>6, <1>8, <2>2, <3>1, <3>2
  <2>5. Len(z.bin) = 0 /\ Len(z.bin) <= perBin /\ Len(z.bin) # perBin
    BY <2>2
  <2>6. z.it <= L /\ ~(z.it > L) /\ z.off <= BeeCount[f[z.it]]
    BY <1>1, <1>2, <1>11, <2>2 DEF t
  <2>7. Progress(f, perBin, z) > Progress(f, perBin, s)
    <3>1. /\ Progress(f, perBin, z) = 2 * (r[s.it - 1] + (s.off + space) + s.it - 1) - 0
          /\ Progress(f, perBin, s) = 2 * (r[s.it - 1] + s.off + s.it - 1)
                                       - (IF Len(s.bin) = perBin THEN 1 ELSE 0)
      <4> HIDE DEF space
      <4> QED
        BY <2>2, <2>5 DEF Progress, r
    <3>2. r[s.it - 1] \in Nat
      BY <1>4
    <3> HIDE DEF r
    <3>3. CASE Len(s.bin) = perBin
      BY <1>1, <1>2, <3>1, <3>2, <3>3
    <3>4. CASE Len(s.bin) # perBin
      <4>1. space >= 1
        BY <1>1, <3>4
      <4> HIDE DEF space
      <4> QED
        BY <1>1, <1>2, <3>1, <3>2, <3>4, <4>1
    <3> QED
      BY <3>3, <3>4
  <2> QED
    BY <1>1, <2>3, <2>4, <2>5, <2>6, <2>7 DEF LoopInv
<1> QED
  BY <1>9, <1>10, <1>11

\* The bins hold exactly the bees of the transactions, whatever their size.
LEMMA BeeBinsIs ==
    ASSUME NEW f \in Seq(Bcts), NEW perBin \in Nat \ {0}
    PROVE  BeeBins(f, perBin) \in Seq(Seq(Bees)) /\ Dealt(BeeBins(f, perBin)) = BeesOf(f)
<1> DEFINE L == Len(f)
           last == 2 * (TotalBees(f) + L)
           s0 == [it |-> 1, off |-> 0, bin |-> <<>>, bins |-> <<>>]
           S == {s \in LoopStates(f) : LoopInv(f, perBin, s)}
           Pass(s) == IF s.it > L THEN s ELSE BinStep(f, perBin, s)
           G == [n \in Nat |-> [s \in S |-> Pass(s)]]
<1>1. L \in Nat /\ TotalBees(f) \in Nat /\ last \in Nat
  <2>1. L \in Nat /\ L \in 0..L
    OBVIOUS
  <2>2. TotalBees(f) \in Nat
    BY <2>1, RunningTotalIs DEF TotalBees
  <2> QED
    BY <2>1, <2>2
<1>2. s0 \in LoopStates(f) /\ LoopInv(f, perBin, s0)
  <2>1. s0 \in LoopStates(f) /\ s0.it = 1 /\ s0.off = 0 /\ s0.bin = <<>> /\ s0.bins = <<>>
    BY <1>1 DEF LoopStates
  <2>2. Dealt(<<>>) = {} /\ Range(<<>>) = {}
    BY DEF Dealt, Range
  <2>3. Before(f, 1, 0) = {}
    <3>1. \A b \in Bees : b[2] \in Nat
      BY DEF Bees
    <3> QED
      BY <1>1, <3>1 DEF Before, Comes
  <2>4. 1 <= L => 0 <= BeeCount[f[1]]
    BY BeeFacts, <1>1
  <2> HIDE DEF s0
  <2> QED
    BY <2>1, <2>2, <2>3, <2>4 DEF LoopInv
<1> HIDE DEF s0, last
<1>3. ASSUME NEW s, LoopInv(f, perBin, s) PROVE LoopInv(f, perBin, Pass(s))
  <2>1. s.it \in Nat
    BY <1>1, <1>3 DEF LoopInv, LoopStates
  <2>2. CASE s.it > L
    BY <1>3, <2>2
  <2>3. CASE s.it <= L
    <3>1. Pass(s) = BinStep(f, perBin, s)
      BY <1>1, <2>1, <2>3
    <3> HIDE DEF Pass
    <3> QED
      BY <1>3, <2>3, <3>1, BinStepKeeps
  <2> QED
    BY <1>1, <2>1, <2>2, <2>3
<1>4. \A s \in S : Pass(s) \in S
  <2> HIDE DEF Pass
  <2>1. \A s : LoopInv(f, perBin, s) => s \in LoopStates(f)
    BY DEF LoopInv
  <2> QED
    BY <1>3, <2>1
<1> HIDE DEF Pass
<1>5. G \in [Nat -> [S -> S]] /\ s0 \in S
  BY <1>2, <1>4
<1>6. PICK h : h \in Runs(last, s0, G, S)
  <2> HIDE DEF G, S
  <2>1. Runs(last, s0, G, S) # {}
    BY <1>1, <1>5, RunsExist
  <2> QED
    BY <2>1
<1>7. /\ h \in [0..last -> S] /\ h[0] = s0
      /\ \A n \in 1..last : n \in Nat /\ h[n - 1] \in S /\ h[n] = G[n][h[n - 1]]
  <2>1. h \in [0..last -> S] /\ h[0] = s0 /\ \A n \in 1..last : h[n] = G[n][h[n - 1]]
    <3> HIDE DEF G, S
    <3> QED
      BY <1>6 DEF Runs
  <2>2. \A n \in 1..last : n \in Nat /\ n - 1 \in 0..last
    BY <1>1
  <2> HIDE DEF G, S
  <2> QED
    BY <2>1, <2>2
<1>8. ASSUME NEW n \in 1..last PROVE h[n] = Pass(h[n - 1])
  <2>1. n \in Nat /\ h[n - 1] \in S /\ h[n] = G[n][h[n - 1]]
    <3> HIDE DEF G, S
    <3> QED
      BY <1>7
  <2> HIDE DEF S
  <2> QED
    BY <2>1
<1>9. h = [n \in 0..last |-> IF n = 0 THEN s0 ELSE Pass(h[n - 1])]
  <2>1. \A n \in 0..last : n # 0 => n \in 1..last
    BY <1>1
  <2> HIDE DEF G, S
  <2> QED
    BY <1>7, <1>8, <2>1
<1>10. \E g : /\ g = [n \in 0..last |-> IF n = 0 THEN s0 ELSE Pass(g[n - 1])]
              /\ BeeBins(f, perBin) = g[last].bins
  BY <1>9 DEF BeeBins, Pass, s0, last
<1>11. PICK g : /\ g = [n \in 0..last |-> IF n = 0 THEN s0 ELSE Pass(g[n - 1])]
                /\ BeeBins(f, perBin) = g[last].bins
  BY <1>10
<1>12. g[0] = s0 /\ \A n \in 1..last : g[n] = Pass(g[n - 1])
  <2>1. 0 \in 0..last /\ \A n \in 1..last : n \in 0..last /\ n # 0
    BY <1>1
  <2> QED
    BY <1>11, <2>1
\* After n passes the loop is over or has made progress n.
<1> DEFINE P(n) == LoopInv(f, perBin, g[n]) /\ (g[n].it <= L => n <= Progress(f, perBin, g[n]))
           T == {n \in Nat : n <= last => P(n)}
<1>13. 0 \in T
  <2>1. Progress(f, perBin, s0) = 0
    <3>1. RunningTotal(f)[1 - 1] = 0
      BY RunningTotalIs
    <3> QED
      BY <3>1 DEF Progress, s0
  <2> QED
    BY <1>2, <1>12, <2>1
<1>14. ASSUME NEW n \in Nat, n \in T PROVE n + 1 \in T
  <2> SUFFICES ASSUME n + 1 <= last PROVE P(n + 1)
    OBVIOUS
  <2>1. n <= last /\ n + 1 \in 1..last /\ (n + 1) - 1 = n
    BY <1>1
  <2>2. P(n)
    BY <1>14, <2>1
  <2>3. g[n + 1] = Pass(g[n])
    BY <1>12, <2>1
  <2>4. g[n].it \in Nat
    BY <2>2, <1>1 DEF LoopInv, LoopStates
  <2>5. CASE g[n].it > L
    <3>1. g[n + 1] = g[n]
      BY <2>3, <2>5 DEF Pass
    <3> QED
      BY <1>1, <2>2, <2>4, <2>5, <3>1
  <2>6. CASE g[n].it <= L
    <3>1. g[n + 1] = BinStep(f, perBin, g[n])
      BY <1>1, <2>3, <2>4, <2>6 DEF Pass
    <3>2. /\ LoopInv(f, perBin, g[n + 1])
          /\ g[n + 1].it <= L => Progress(f, perBin, g[n + 1]) > Progress(f, perBin, g[n])
      BY <2>2, <2>6, <3>1, BinStepKeeps
    <3>3. \A x : LoopInv(f, perBin, x) /\ x.it <= L => Progress(f, perBin, x) \in Int
      BY ProgressType
    <3> QED
      BY <2>2, <2>6, <3>2, <3>3
  <2> QED
    BY <1>1, <2>4, <2>5, <2>6
<1> HIDE DEF T, P
<1>15. \A n \in Nat : n \in T
  BY <1>13, <1>14, Induction
<1>16. P(last)
  BY <1>1, <1>15 DEF T
<1> DEFINE z == g[last]
<1>17. LoopInv(f, perBin, z) /\ (z.it <= L => last <= Progress(f, perBin, z))
  BY <1>16 DEF P
<1> HIDE DEF z
<1>18. z.it = L + 1
  <2>1. z.it \in 1..(L + 1)
    BY <1>17 DEF LoopInv, LoopStates
  <2>2. ASSUME z.it <= L PROVE FALSE
    <3>1. Progress(f, perBin, z) < last
      BY <1>17, <2>2, ProgressType DEF last
    <3> QED
      BY <1>1, <1>17, <2>2, <3>1, ProgressType
  <2> QED
    BY <1>1, <2>1, <2>2
<1>19. z.bins \in Seq(Seq(Bees)) /\ z.bin = <<>> /\ Dealt(z.bins) \cup Range(z.bin) = Before(f, L + 1, z.off)
  BY <1>1, <1>17, <1>18 DEF LoopInv, LoopStates
<1>20. Range(<<>>) = {}
  BY DEF Range
<1>21. BeeBins(f, perBin) = z.bins
  BY <1>11 DEF z
<1> QED
  BY <1>19, <1>20, <1>21, BeforeAll

\* However the quotient is rounded, a bin takes a bee.
LEMMA PerBinPositive ==
    ASSUME NEW total \in Nat, total > 0, NEW perBin \in BeesPerBin(total)
    PROVE  perBin \in Nat \ {0}
<1>1. Threads \in Nat \ {0}
  BY BeeFacts
<1>2. (total + Threads - 1) \div Threads \in Nat \ {0}
  BY <1>1
<1>3. total \div Threads \in Nat
  BY <1>1
<1> QED
  BY <1>2, <1>3 DEF BeesPerBin

\* Outside a search there is nothing to keep.
LEMMA NotSearching ==
    ASSUME SearchInv, UNCHANGED <<watcher, solutionFound, earlyAbort, useEarlyAbort>>,
           kp' \notin {"join", "joinwatcher", "result"}
    PROVE  SearchInv'
  BY DEF SearchInv

\* A step of another thread does not disturb a search.
LEMMA SameSearch ==
    ASSUME SearchInv, UNCHANGED <<kp, pindexPrev, flight, bins, work, solutionFound, solving, useEarlyAbort>>,
           earlyAbort' \in BOOLEAN, earlyAbort => earlyAbort', ~useEarlyAbort => earlyAbort' = earlyAbort,
           ~useEarlyAbort => watcher' = "off"
    PROVE  SearchInv'
<1>1. FlightBees' = FlightBees /\ Dealt(bins)' = Dealt(bins)
  BY SameFlight, SameBins
<1>2. ASSUME NEW w \in DOMAIN bins, WorkerInv(w) PROVE WorkerInv(w)'
  BY <1>2 DEF WorkerInv
<1> QED
  BY <1>1, <1>2 DEF SearchInv

LEMMA CheckFlagsKeeps ==
    ASSUME SearchInv, NEW w \in DOMAIN work, CheckFlags(w)
    PROVE  SearchInv'
<1>1. /\ kp = "join" /\ kp' = "join" /\ work[w].at = "flags"
      /\ work' = [work EXCEPT ![w].at = IF solutionFound \/ earlyAbort THEN "done" ELSE "hash"]
      /\ UNCHANGED <<pindexPrev, flight, bins, watcher, solutionFound, earlyAbort, solving, useEarlyAbort>>
  BY DEF CheckFlags, searchVars, flagVars
<1>2. /\ work \in [DOMAIN bins -> [pos : Nat, at : {"flags", "hash", "done"}]]
      /\ \A v \in DOMAIN bins : WorkerInv(v)
  BY <1>1 DEF SearchInv
<1>3. /\ work' \in [DOMAIN bins -> [pos : Nat, at : {"flags", "hash", "done"}]]
      /\ work'[w].pos = work[w].pos
      /\ work'[w].at = IF solutionFound \/ earlyAbort THEN "done" ELSE "hash"
      /\ \A v \in DOMAIN bins : v # w => work'[v] = work[v]
  BY <1>1, <1>2
<1>4. FlightBees' = FlightBees /\ Dealt(bins)' = Dealt(bins)
  BY <1>1, SameFlight, SameBins
<1>5. ASSUME NEW v \in DOMAIN bins PROVE WorkerInv(v)'
  <2>1. CASE v = w
    BY <1>1, <1>2, <1>3, <2>1 DEF WorkerInv
  <2>2. CASE v # w
    BY <1>1, <1>2, <1>3, <2>2 DEF WorkerInv
  <2> QED
    BY <2>1, <2>2
<1> QED
  BY <1>1, <1>3, <1>4, <1>5 DEF SearchInv

LEMMA HashBeeKeeps ==
    ASSUME SearchInv, NEW w \in DOMAIN work, HashBee(w)
    PROVE  SearchInv'
<1> DEFINE pos == work[w].pos
           bee == bins[w][pos]
           wins == bee \in Winning[pindexPrev]
<1>1. /\ kp = "join" /\ kp' = "join" /\ work[w].at = "hash"
      /\ wins => solutionFound' = TRUE /\ solving' = bee /\ work' = [work EXCEPT ![w].at = "done"]
      /\ ~wins => work' = Goto(w, pos + 1) /\ solutionFound' = solutionFound /\ solving' = solving
      /\ UNCHANGED <<pindexPrev, flight, bins, watcher, earlyAbort, useEarlyAbort>>
  BY DEF HashBee, searchVars
<1>2. /\ bins \in Seq(Seq(Bees)) /\ Dealt(bins) = FlightBees
      /\ work \in [DOMAIN bins -> [pos : Nat, at : {"flags", "hash", "done"}]]
      /\ \A v \in DOMAIN bins : WorkerInv(v)
  BY <1>1 DEF SearchInv
<1>3. FlightBees' = FlightBees /\ Dealt(bins)' = Dealt(bins)
  BY <1>1, SameFlight, SameBins
<1>4. /\ w \in DOMAIN bins /\ bins[w] \in Seq(Bees) /\ Len(bins[w]) \in Nat
      /\ pos \in Nat \ {0} /\ pos <= Len(bins[w]) /\ pos \in DOMAIN bins[w]
  BY <1>1, <1>2 DEF WorkerInv
<1>5. bee \in FlightBees
  <2>1. bee \in Range(bins[w])
    BY <1>4 DEF Range
  <2> QED
    BY <1>2, <1>4, <2>1 DEF Dealt
<1>6. CASE wins
  <2>1. /\ work' \in [DOMAIN bins -> [pos : Nat, at : {"flags", "hash", "done"}]]
        /\ work'[w].pos = pos /\ work'[w].at = "done"
        /\ \A v \in DOMAIN bins : v # w => work'[v] = work[v]
    <3>1. work' = [work EXCEPT ![w].at = "done"]
      BY <1>1, <1>6
    <3> QED
      BY <1>2, <1>4, <3>1
  <2>2. ASSUME NEW v \in DOMAIN bins PROVE WorkerInv(v)'
    <3>1. CASE v = w
      BY <1>1, <1>2, <1>6, <2>1, <3>1 DEF WorkerInv
    <3>2. CASE v # w
      BY <1>1, <1>2, <1>6, <2>1, <3>2 DEF WorkerInv
    <3> QED
      BY <3>1, <3>2
  <2> HIDE DEF bee
  <2> QED
    BY <1>1, <1>2, <1>3, <1>5, <1>6, <2>1, <2>2 DEF SearchInv
<1>7. CASE ~wins
  <2>1. /\ work' \in [DOMAIN bins -> [pos : Nat, at : {"flags", "hash", "done"}]]
        /\ work'[w].pos = pos + 1
        /\ work'[w].at = IF pos + 1 > Len(bins[w]) THEN "done" ELSE At(pos + 1)
        /\ \A v \in DOMAIN bins : v # w => work'[v] = work[v]
    <3>1. At(pos + 1) \in {"flags", "hash", "done"}
      BY DEF At
    <3> DEFINE a == IF pos + 1 > Len(bins[w]) THEN "done" ELSE At(pos + 1)
    <3>2. work' = [work EXCEPT ![w] = [pos |-> pos + 1, at |-> a]]
      BY <1>1, <1>7 DEF Goto
    <3>3. a \in {"flags", "hash", "done"} /\ pos + 1 \in Nat
      BY <1>4, <3>1
    <3> HIDE DEF a
    <3>4. [pos |-> pos + 1, at |-> a] \in [pos : Nat, at : {"flags", "hash", "done"}]
      BY <3>3
    <3>5. /\ work' \in [DOMAIN bins -> [pos : Nat, at : {"flags", "hash", "done"}]]
          /\ work'[w] = [pos |-> pos + 1, at |-> a]
          /\ \A v \in DOMAIN bins : v # w => work'[v] = work[v]
      <4> DEFINE x == [pos |-> pos + 1, at |-> a]
      <4> HIDE DEF x
      <4> QED
        BY <1>2, <1>4, <3>2, <3>4 DEF x
    <3> QED
      BY <3>5 DEF a
  <2>2. At(pos + 1) # "done"
    BY DEF At
  <2>3. ASSUME NEW v \in DOMAIN bins PROVE WorkerInv(v)'
    <3>1. CASE v = w
      <4>1. \A i \in 1..Len(bins[w]) : i < pos => bins[w][i] \notin Winning[pindexPrev]
        BY <1>2, <1>4 DEF WorkerInv
      <4>2. bins[w][pos] \notin Winning[pindexPrev]
        BY <1>7
      <4>3. \A i \in 1..Len(bins[w]) : i < pos + 1 => i < pos \/ i = pos
        BY <1>4
      <4>4. \A i \in 1..Len(bins[w]) : i < pos + 1 => bins[w][i] \notin Winning[pindexPrev]
        <5> HIDE DEF pos, wins
        <5> QED
          BY <4>1, <4>2, <4>3
      <4> HIDE DEF pos, wins
      <4>5. /\ work'[w].pos \in Nat \ {0} /\ work'[w].at \in {"flags", "hash", "done"}
            /\ work'[w].at # "done" => work'[w].pos <= Len(bins[w])
            /\ work'[w].at = "done" => work'[w].pos > Len(bins[w])
        BY <1>4, <2>1, <2>2, <3>1
      <4> QED
        BY <1>1, <2>1, <3>1, <4>4, <4>5 DEF WorkerInv
    <3>2. CASE v # w
      BY <1>1, <1>2, <1>7, <2>1, <3>2 DEF WorkerInv
    <3> QED
      BY <3>1, <3>2
  <2> HIDE DEF bee
  <2> QED
    BY <1>1, <1>2, <1>3, <1>7, <2>1, <2>3 DEF SearchInv
<1> QED
  BY <1>6, <1>7

LEMMA ReleaseBeesKeeps ==
    ASSUME SearchInv, ReleaseBees
    PROVE  SearchInv'
<1>1. /\ kp' = "join" /\ flight' = GetBCTs({t \in Bcts : Mature(t)}) /\ TotalBees(flight') > 0
      /\ \E perBin \in BeesPerBin(TotalBees(flight')) : bins' = BeeBins(flight', perBin)
      /\ work' = [w \in DOMAIN bins' |-> [pos |-> 1, at |-> IF bins'[w] = <<>> THEN "done" ELSE At(1)]]
      /\ solutionFound' = FALSE /\ earlyAbort' = FALSE
      /\ watcher' = IF useEarlyAbort THEN "flags" ELSE "off"
      /\ useEarlyAbort' = useEarlyAbort /\ useEarlyAbort \in BOOLEAN
  BY DEF ReleaseBees, SearchInv
<1>2. flight' \in Seq(Bcts)
  BY <1>1, GetBCTsIs
<1>3. TotalBees(flight') \in Nat
  <2>1. Len(flight') \in 0..Len(flight')
    BY <1>2
  <2> QED
    BY <1>2, <2>1, RunningTotalIs DEF TotalBees
<1>4. PICK perBin \in BeesPerBin(TotalBees(flight')) : bins' = BeeBins(flight', perBin)
  BY <1>1
<1>5. perBin \in Nat \ {0}
  BY <1>1, <1>3, PerBinPositive
<1>6. bins' \in Seq(Seq(Bees)) /\ Dealt(bins') = BeesOf(flight')
  BY <1>2, <1>4, <1>5, BeeBinsIs
<1>7. FlightBees' = BeesOf(flight')
  BY DEF FlightBees, BeesOf
<1>8. At(1) \in {"flags", "hash"}
  BY DEF At
<1>9. work' \in [DOMAIN bins' -> [pos : Nat, at : {"flags", "hash", "done"}]]
  BY <1>1, <1>8
<1>10. ASSUME NEW w \in DOMAIN bins' PROVE WorkerInv(w)'
  <2>1. bins'[w] \in Seq(Bees) /\ Len(bins'[w]) \in Nat /\ (bins'[w] # <<>> => 1 <= Len(bins'[w]))
    BY <1>6
  <2>2. work'[w].pos = 1 /\ work'[w].at = IF bins'[w] = <<>> THEN "done" ELSE At(1)
    BY <1>1
  <2> QED
    BY <1>8, <2>1, <2>2 DEF WorkerInv
<1> QED
  BY <1>1, <1>6, <1>7, <1>9, <1>10 DEF SearchInv, Dealt

LEMMA JoinWorkersKeeps ==
    ASSUME SearchInv, JoinWorkers
    PROVE  SearchInv'
<1>1. /\ kp = "join" /\ \A w \in DOMAIN work : work[w].at = "done"
      /\ UNCHANGED <<watcher, solutionFound, solving, useEarlyAbort>>
  BY DEF JoinWorkers
<1>2. CASE useEarlyAbort /\ earlyAbort
  <2>1. kp' = "sleep" /\ earlyAbort' = earlyAbort
    BY <1>2, JoinAborted
  <2> QED
    BY <1>1, <2>1, NotSearching
<1>3. CASE ~(useEarlyAbort /\ earlyAbort)
  <2>1. /\ kp' \in {"joinwatcher", "result"} /\ UNCHANGED <<pindexPrev, flight, bins>>
        /\ earlyAbort' \in BOOLEAN
    BY <1>3 DEF JoinWorkers, Continue, searchVars, SearchInv
  <2>2. /\ ~earlyAbort /\ bins \in Seq(Seq(Bees)) /\ Dealt(bins) = FlightBees
        /\ DOMAIN work = DOMAIN bins
        /\ \A w \in DOMAIN bins : WorkerInv(w)
        /\ solutionFound => solving \in FlightBees \cap Winning[pindexPrev]
    BY <1>1, <1>3 DEF SearchInv
  <2>3. ASSUME ~solutionFound, NEW b \in FlightBees PROVE b \notin Winning[pindexPrev]
    <3>1. PICK w \in DOMAIN bins : b \in Range(bins[w])
      BY <2>2 DEF Dealt
    <3>2. PICK i \in DOMAIN bins[w] : b = bins[w][i]
      BY <3>1 DEF Range
    <3>3. bins[w] \in Seq(Bees) /\ i \in 1..Len(bins[w]) /\ Len(bins[w]) \in Nat
      BY <2>2, <3>2
    <3>4. work[w].at = "done" /\ work[w].pos \in Nat /\ work[w].pos > Len(bins[w])
      BY <1>1, <2>2, <2>3 DEF WorkerInv
    <3>5. i < work[w].pos
      BY <3>3, <3>4
    <3> QED
      BY <2>2, <3>2, <3>3, <3>5 DEF WorkerInv
  <2>4. solutionFound <=> (FlightBees \cap Winning[pindexPrev] # {})
    BY <2>2, <2>3
  <2>5. FlightBees' = FlightBees
    BY <2>1, SameFlight
  <2> QED
    BY <1>1, <2>1, <2>2, <2>4, <2>5 DEF SearchInv
<1> QED
  BY <1>2, <1>3

LEMMA SearchStep ==
    ASSUME SearchInv, [Next]_vars
    PROVE  SearchInv'
<1>1. CASE (\E b \in Blocks : ActivateBestChainStep(b)) \/ SetTipResize \/ SetTipWrite
  <2>1. UNCHANGED <<kp, pindexPrev, flight, bins, work, watcher, solutionFound, earlyAbort, solving,
                    useEarlyAbort>>
    BY <1>1 DEF ActivateBestChainStep, SetTipResize, SetTipWrite, searchVars, flagVars
  <2> QED
    BY <2>1, SameSearch DEF SearchInv
<1>2. CASE WatchFlags \/ WatchHeight \/ WatchFire
  <2>1. /\ watcher # "off"
        /\ UNCHANGED <<kp, pindexPrev, flight, bins, work, solutionFound, solving, useEarlyAbort>>
        /\ earlyAbort' = earlyAbort \/ earlyAbort' = TRUE
    BY <1>2 DEF WatchFlags, WatchHeight, WatchFire, searchVars, flagVars
  <2>2. useEarlyAbort /\ earlyAbort \in BOOLEAN
    BY <2>1 DEF SearchInv
  <2> QED
    BY <2>1, <2>2, SameSearch
<1>3. CASE \E w \in DOMAIN work : CheckFlags(w) \/ HashBee(w)
  BY <1>3, CheckFlagsKeeps, HashBeeKeeps
<1>4. CASE BeeKeeper \/ ReadTip \/ SkipCheck \/ Result \/ VerifyBct \/ CreateNewBlock \/ StaleCheck
           \/ ProcessNewBlock
  <2>1. /\ kp' \notin {"join", "joinwatcher", "result"}
        /\ UNCHANGED <<watcher, solutionFound, earlyAbort, useEarlyAbort>>
    BY <1>4 DEF BeeKeeper, ReadTip, SkipCheck, Result, VerifyBct, CreateNewBlock, StaleCheck, ProcessNewBlock,
       Return, Continue, flagVars
  <2> QED
    BY <2>1, NotSearching
<1>5. CASE ReleaseBees
  BY <1>5, ReleaseBeesKeeps
<1>6. CASE JoinWorkers
  BY <1>6, JoinWorkersKeeps
<1>7. CASE JoinWatcher
  <2>1. /\ kp = "joinwatcher" /\ kp' = "result"
        /\ UNCHANGED <<pindexPrev, flight, bins, watcher, solutionFound, earlyAbort, solving, useEarlyAbort>>
    BY <1>7 DEF JoinWatcher, searchVars, flagVars
  <2>2. FlightBees' = FlightBees
    BY <2>1, SameFlight
  <2> QED
    BY <2>1, <2>2 DEF SearchInv
<1>8. CASE UNCHANGED vars
  <2>1. UNCHANGED <<kp, pindexPrev, flight, bins, work, watcher, solutionFound, earlyAbort, solving,
                    useEarlyAbort>>
    BY <1>8 DEF vars
  <2> QED
    BY <2>1, SameSearch DEF SearchInv
<1> QED
  BY <1>1, <1>2, <1>3, <1>4, <1>5, <1>6, <1>7, <1>8 DEF Next

\* A search that was not aborted finds a solution exactly when one of the mature
\* bees wins, for any transactions, bees and number of threads.
THEOREM SearchAlwaysExact == Spec => []SearchIsExact
<1>1. Init => SearchInv
  BY DEF Init, SearchInv
<1>2. SearchInv /\ [Next]_vars => SearchInv'
  BY SearchStep
<1>3. SearchInv => SearchIsExact
  BY DEF SearchInv, SearchIsExact
<1> QED
  BY <1>1, <1>2, <1>3, PTL DEF Spec
=============================================================================
