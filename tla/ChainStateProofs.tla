-------------------------- MODULE ChainStateProofs --------------------------
(***************************************************************************)
(* Proofs about ChainState, for any tree of blocks.                        *)
(*                                                                         *)
(* TreeInv is kept by every step of any number of threads: what the index, *)
(* mapBlocksUnlinked and the failure marks say of each other.  ActiveInv   *)
(* is kept as long as one thread at a time is in ActivateBestChain: among  *)
(* the candidates there is always one that connects with all that is       *)
(* better (Floor), and a target that is kept is the best candidate.        *)
(***************************************************************************)
EXTENDS ChainState, FiniteSetTheorems, TLAPS

\* The provers, in turn, where a leaf names none.
USE ZenonT(5), SMTT(40), ZenonT(40), Z3T(40)

-----------------------------------------------------------------------------
(* The tree of blocks, and the order of the candidates. *)

\* A set that is not empty has a least element in any measure.
LEMMA Least ==
    ASSUME NEW S, S # {}, NEW f \in [S -> Nat]
    PROVE  \E x \in S : \A y \in S : f[x] <= f[y]
<1>1. PICK R : IsWellFoundedOn(R, Nat) /\ \A x, y \in Nat : y < x => <<y, x>> \in R
  <2>1. \A x, y \in Nat : y < x => <<y, x>> \in OpToRel(<, Nat)
    BY DEF OpToRel
  <2> QED
    BY <2>1, NatLessThanWellFounded
<1> DEFINE U == {f[x] : x \in S}
<1>2. U \subseteq Nat /\ U # {}
  OBVIOUS
<1>3. \E x \in U : \A y \in U : ~(<<y, x>> \in R)
  <2> HIDE DEF U
  <2>1. U \subseteq Nat
    BY <1>2
  <2>2. U # {}
    BY <1>2
  <2>3. IsWellFoundedOn(R, Nat)
    BY <1>1
  <2> QED
    BY <2>1, <2>2, <2>3, WFMin
<1>4. PICK n \in U : \A k \in U : ~(<<k, n>> \in R)
  BY <1>3
<1>5. PICK x \in S : f[x] = n
  BY <1>4
<1>6. \A y \in S : f[y] \in U /\ f[y] \in Nat /\ ~(f[y] < n)
  BY <1>1, <1>2, <1>4
<1>7. \A y \in S : f[x] <= f[y]
  BY <1>2, <1>5, <1>6
<1> QED
  BY <1>7

\* What TreeAssumption says of a block and its parent.
LEMMA TreeFacts ==
    /\ Genesis \in Blocks /\ NoBlock \notin Blocks /\ Genesis \in Connects
    /\ \A b \in Blocks : Height[b] \in Nat /\ Work[b] \in Nat /\ Ancestors[b] \subseteq Blocks
    /\ Ancestors[Genesis] = {Genesis}
    /\ \A b \in Blocks \ {Genesis} :
          /\ Parent[b] \in Blocks /\ Height[Parent[b]] < Height[b] /\ Work[Parent[b]] < Work[b]
          /\ Ancestors[b] = Ancestors[Parent[b]] \cup {b}
<1>1. \A b \in Blocks : Height[b] \in Nat /\ Work[b] \in Nat /\ Ancestors[b] \subseteq Blocks
  BY TreeAssumption
<1>2. \A b \in Blocks \ {Genesis} : Parent[b] \in Blocks /\ Height[b] = Height[Parent[b]] + 1
  BY TreeAssumption
<1>3. \A b \in Blocks \ {Genesis} : Height[Parent[b]] < Height[b]
  BY <1>1, <1>2
<1>4. \A b \in Blocks \ {Genesis} : Work[Parent[b]] < Work[b]
  <2> TAKE b \in Blocks \ {Genesis}
  <2>1. Work[b] > Work[Parent[b]]
    BY TreeAssumption
  <2> QED
    BY <1>1, <1>2, <2>1
<1> QED
  BY <1>1, <1>2, <1>3, <1>4, TreeAssumption

\* Induction along a branch, for a set of blocks.
LEMMA Upwards ==
    ASSUME NEW T, Genesis \in T, \A b \in Blocks \ {Genesis} : Parent[b] \in T => b \in T
    PROVE  \A b \in Blocks : b \in T
<1> DEFINE S == {b \in Blocks : b \notin T}
           f == [b \in S |-> Height[b]]
<1>1. SUFFICES ASSUME S # {} PROVE FALSE
  OBVIOUS
<1>2. f \in [S -> Nat]
  BY TreeFacts
<1>3. \E x \in S : \A y \in S : f[x] <= f[y]
  <2> HIDE DEF S, f
  <2> QED
    BY <1>1, <1>2, Least
<1>4. PICK x \in S : \A y \in S : Height[x] <= Height[y]
  BY <1>3
<1>5. x \in Blocks \ {Genesis} /\ Parent[x] \notin T /\ Parent[x] \in Blocks
  BY TreeFacts
<1>6. Height[x] \in Nat /\ Height[Parent[x]] \in Nat /\ Height[Parent[x]] < Height[x]
  BY <1>5, TreeFacts
<1> QED
  BY <1>4, <1>5, <1>6

\* An ancestor's ancestors are ancestors, and it is lower and has less work.
LEMMA Below ==
    ASSUME NEW b \in Blocks, NEW a \in Ancestors[b]
    PROVE  /\ a \in Blocks /\ b \in Ancestors[b] /\ Ancestors[a] \subseteq Ancestors[b]
           /\ a # b => Height[a] < Height[b] /\ Work[a] < Work[b] /\ b \notin Ancestors[a]
<1> DEFINE Fine(x, y) == /\ Ancestors[x] \subseteq Ancestors[y]
                         /\ x # y => Height[x] < Height[y] /\ Work[x] < Work[y] /\ y \notin Ancestors[x]
           T == {y \in Blocks : \A x \in Ancestors[y] : Fine(x, y)}
<1>1. \A y \in Blocks : y \in Ancestors[y]
  BY TreeFacts
<1>2. Genesis \in T
  BY TreeFacts
<1>3. ASSUME NEW y \in Blocks \ {Genesis}, Parent[y] \in T PROVE y \in T
  <2> SUFFICES ASSUME NEW x \in Ancestors[y], x # y PROVE Fine(x, y)
    OBVIOUS
  <2>1. x \in Ancestors[Parent[y]] /\ Ancestors[Parent[y]] \subseteq Ancestors[y] /\ Fine(x, Parent[y])
    BY <1>3, TreeFacts
  <2>2. /\ x \in Blocks /\ Parent[y] \in Blocks /\ Height[Parent[y]] < Height[y] /\ Work[Parent[y]] < Work[y]
        /\ Height[x] \in Nat /\ Work[x] \in Nat /\ Height[y] \in Nat /\ Work[y] \in Nat
        /\ Height[Parent[y]] \in Nat /\ Work[Parent[y]] \in Nat
    BY <2>1, TreeFacts
  <2>3. Height[x] < Height[y] /\ Work[x] < Work[y]
    BY <2>1, <2>2
  <2>4. y \notin Ancestors[Parent[y]]
    <3>1. Parent[y] # y
      BY <2>2
    <3>2. y \in Ancestors[Parent[y]] => Height[y] < Height[Parent[y]]
      BY <1>3, <3>1
    <3> QED
      BY <2>2, <3>2
  <2> QED
    BY <2>1, <2>3, <2>4
<1>4. \A y \in Blocks : y \in T
  <2> HIDE DEF T
  <2> QED
    BY <1>2, <1>3, Upwards
<1> QED
  BY <1>1, <1>4, TreeFacts

\* Of two ancestors of a block one is an ancestor of the other.
LEMMA Linear ==
    ASSUME NEW b \in Blocks, NEW x \in Ancestors[b], NEW y \in Ancestors[b], x \notin Ancestors[y]
    PROVE  y \in Ancestors[x]
<1> DEFINE T == {c \in Blocks : \A u, v \in Ancestors[c] : u \in Ancestors[v] \/ v \in Ancestors[u]}
<1>1. Genesis \in T
  BY TreeFacts
<1>2. ASSUME NEW c \in Blocks \ {Genesis}, Parent[c] \in T PROVE c \in T
  BY <1>2, TreeFacts
<1>3. \A c \in Blocks : c \in T
  <2> HIDE DEF T
  <2> QED
    BY <1>1, <1>2, Upwards
<1> QED
  BY <1>3

\* CBlockIndexWorkComparator is a strict total order.
LEMMA Ordered ==
    ASSUME NEW s \in [Blocks -> Int], NEW m \in Addresses
    PROVE  /\ \A a \in Blocks : ~WorseAt(s, m, a, a)
           /\ \A a, b \in Blocks : a = b \/ WorseAt(s, m, a, b) \/ WorseAt(s, m, b, a)
           /\ \A a, b \in Blocks : WorseAt(s, m, a, b) => ~WorseAt(s, m, b, a)
           /\ \A a, b, c \in Blocks : WorseAt(s, m, a, b) /\ WorseAt(s, m, b, c) => WorseAt(s, m, a, c)
           /\ \A a, b \in Blocks : WorseAt(s, m, a, b) => Work[a] <= Work[b]
           /\ \A a, b \in Blocks : Work[a] < Work[b] => WorseAt(s, m, a, b)
<1>1. \A a \in Blocks : Work[a] \in Nat /\ s[a] \in Int /\ m[a] \in Nat
  BY TreeFacts, BoundsAssumption
<1>2. \A a, b \in Blocks : m[a] = m[b] => a = b
  BY BoundsAssumption
<1> QED
  BY <1>1, <1>2 DEF WorseAt

\* A set of blocks that is not empty has a best one.
LEMMA BestExists ==
    ASSUME NEW S \in SUBSET Blocks, S # {}, NEW s \in [Blocks -> Int], NEW m \in Addresses
    PROVE  \E c \in S : \A d \in S \ {c} : WorseAt(s, m, d, c)
<1> DEFINE Better(c) == {d \in S : WorseAt(s, m, c, d)}
           f == [c \in S |-> Cardinality(Better(c))]
<1>1. IsFiniteSet(S)
  BY TreeAssumption, FS_Subset
<1>2. \A c \in S : IsFiniteSet(Better(c)) /\ Cardinality(Better(c)) \in Nat
  BY <1>1, FS_Subset, FS_CardinalityType
<1>3. f \in [S -> Nat]
  BY <1>2
<1>4. \E c \in S : \A d \in S : f[c] <= f[d]
  <2> HIDE DEF f
  <2> QED
    BY <1>3, Least
<1>5. PICK c \in S : \A d \in S : Cardinality(Better(c)) <= Cardinality(Better(d))
  BY <1>4
<1>6. ASSUME NEW d \in S \ {c} PROVE WorseAt(s, m, d, c)
  <2> SUFFICES ASSUME WorseAt(s, m, c, d) PROVE FALSE
    BY Ordered
  <2>1. Better(d) \subseteq Better(c) /\ d \in Better(c) /\ d \notin Better(d)
    BY Ordered
  <2>2. Cardinality(Better(d)) <= Cardinality(Better(c)) /\ Cardinality(Better(d)) # Cardinality(Better(c))
    <3>1. Better(c) # Better(d) /\ IsFiniteSet(Better(c))
      BY <1>2, <2>1
    <3> HIDE DEF Better
    <3> QED
      BY <2>1, <3>1, FS_Subset
  <2>3. d \in S /\ Cardinality(Better(c)) \in Nat /\ Cardinality(Better(d)) \in Nat
    BY <1>2
  <2>4. Cardinality(Better(c)) <= Cardinality(Better(d))
    BY <1>5
  <2> HIDE DEF Better
  <2> QED
    BY <2>2, <2>3, <2>4
<1> QED
  BY <1>6
-----------------------------------------------------------------------------
(* What holds for any number of threads. *)

\* No block below b, nor b itself, is marked as failed.
Clean(b) == Ancestors[b] \cap Failed = {}

\* The index is a tree with its root, and what the sets hold.
Sets ==
    /\ index \subseteq Blocks /\ data \subseteq index /\ linked \subseteq data
    /\ Genesis \in linked /\ tip \in linked /\ candidates \subseteq linked
    /\ failedValid \subseteq index /\ failedChild \subseteq index /\ failedBlocks \subseteq linked
    /\ \A b \in index : Ancestors[b] \subseteq index

Numbers ==
    /\ seq \in [Blocks -> Int] /\ address \in Addresses
    /\ nBlockSequenceId \in Int /\ nBlockReverseSequenceId \in Int
    /\ activating \subseteq Threads /\ mostWork \in [Threads -> linked \cup {NoBlock}]

\* A block that waits for data is queued, unless a failed block, which cannot
\* arrive, is missing below it.
Links ==
    /\ \A b \in index : b \in linked <=> Ancestors[b] \subseteq data
    /\ Waiting \subseteq data \ linked
    /\ \A b \in data \ (linked \cup Waiting) : (Ancestors[b] \cap Failed) \ data # {}

\* A failed block has a cause, and one that is not linked a failed block missing.
Marks ==
    /\ FailuresHaveACause
    /\ \A b \in Failed \ linked : (Ancestors[b] \cap Failed) \ data # {}

TreeInv == Sets /\ Numbers /\ Links /\ Marks

LEMMA Kinds ==
    ASSUME TreeInv
    PROVE  /\ index \subseteq Blocks /\ data \subseteq index /\ linked \subseteq data /\ linked \subseteq Blocks
           /\ tip \in linked /\ candidates \subseteq linked /\ Failed \subseteq index /\ failedValid \subseteq Failed
           /\ Genesis \in linked
BY DEF TreeInv, Sets, Failed

\* The blocks below a linked one are linked.
LEMMA LinkedClosed ==
    ASSUME TreeInv, NEW b \in linked
    PROVE  Ancestors[b] \subseteq linked
<1>1. b \in Blocks /\ b \in index /\ Ancestors[b] \subseteq data
  BY Kinds DEF TreeInv, Links
<1> SUFFICES ASSUME NEW a \in Ancestors[b] PROVE a \in linked
  OBVIOUS
<1>2. a \in index /\ Ancestors[a] \subseteq data
  BY <1>1, Kinds, Below
<1> QED
  BY <1>2 DEF TreeInv, Links

\* More blocks are marked: each has a cause and, if it is not linked, a failed one
\* missing below it.
LEMMA MarksGrow ==
    ASSUME TreeInv, NEW X, Failed' = Failed \cup X, failedValid \subseteq failedValid',
           failedBlocks' \subseteq failedValid', data' = data, linked' = linked,
           \A x \in X : Ancestors[x] \cap failedValid' # {},
           \A x \in X \ linked : (Ancestors[x] \cap (Failed \cup X)) \ data # {}
    PROVE  Marks'
<1>1. \A x \in Failed : Ancestors[x] \cap failedValid # {}
  BY DEF TreeInv, Marks, FailuresHaveACause
<1>2. FailuresHaveACause'
  BY <1>1 DEF FailuresHaveACause
<1>3. \A x \in Failed \ linked : (Ancestors[x] \cap Failed) \ data # {}
  BY DEF TreeInv, Marks
<1>4. \A x \in Failed' \ linked : (Ancestors[x] \cap Failed') \ data # {}
  BY <1>3
<1> QED
  BY <1>2, <1>4 DEF Marks

LEMMA LinksKept ==
    ASSUME TreeInv, Failed \subseteq Failed', UNCHANGED <<index, data, linked, unlinked>>
    PROVE  Links'
BY DEF TreeInv, Links, Waiting

\* A failed ancestor is a cause.
LEMMA CauseBelow ==
    ASSUME TreeInv, NEW x \in Blocks, Ancestors[x] \cap Failed # {}
    PROVE  Ancestors[x] \cap failedValid # {}
<1>1. PICK f \in Ancestors[x] : f \in Failed
  OBVIOUS
<1>2. Ancestors[f] \subseteq Ancestors[x] /\ Ancestors[f] \cap failedValid # {}
  BY <1>1, Below DEF TreeInv, Marks, FailuresHaveACause
<1> QED
  BY <1>2

\* What lies above f on the branch of b has f below it.
LEMMA Between ==
    ASSUME NEW b \in Blocks, NEW f \in Ancestors[b], NEW x \in Ancestors[b] \ Ancestors[f]
    PROVE  x \in Blocks /\ f \in Ancestors[x]
BY Linear, Below

LEMMA RejectTree ==
    ASSUME TreeInv, NEW b \in Blocks \ {Genesis}, RejectHeader(b)
    PROVE  TreeInv'
<1>1. UNCHANGED <<index, data, linked, failedValid, failedBlocks, unlinked, seq, candidates, tip,
                  sequenceVars, activating, mostWork, boundVars>>
  BY DEF RejectHeader
<1>2. Numbers'
  BY <1>1 DEF TreeInv, Numbers, sequenceVars, boundVars
<1>3. CASE UNCHANGED failedChild
  BY <1>1, <1>2, <1>3 DEF TreeInv, Sets, Links, Marks, FailuresHaveACause, Failed, Waiting
<1>4. ASSUME NEW f \in FailedAncestors(b), Parent[b] \in index,
             failedChild' = failedChild \cup (Ancestors[Parent[b]] \ Ancestors[f])
      PROVE  TreeInv'
  <2> DEFINE X == Ancestors[Parent[b]] \ Ancestors[f]
  <2>1. f \in failedBlocks /\ f \in Ancestors[Parent[b]] /\ f \in failedValid /\ f \in linked
    BY DEF FailedAncestors, TreeInv, Sets, Marks, FailuresHaveACause
  <2>2. Parent[b] \in Blocks /\ X \subseteq index
    BY <1>4, TreeFacts DEF TreeInv, Sets
  <2>3. \A x \in X : x \in Blocks /\ f \in Ancestors[x]
    BY <2>1, <2>2, Between
  <2>4. Failed' = Failed \cup X
    BY <1>1, <1>4 DEF Failed
  <2>5. ASSUME NEW x \in X \ linked PROVE (Ancestors[x] \cap (Failed \cup X)) \ data # {}
    <3>1. PICK y \in Ancestors[x] : y \notin data
      BY <2>2 DEF TreeInv, Links
    <3>2. y \in Ancestors[Parent[b]]
      BY <2>2, <3>1, Below
    <3>3. y \notin Ancestors[f]
      BY <2>1, <3>1, LinkedClosed, Kinds
    <3> QED
      BY <3>1, <3>2, <3>3
  <2>6. Sets'
    BY <1>1, <1>4, <2>2 DEF TreeInv, Sets
  <2>7. Marks'
    <3>1. failedBlocks' \subseteq failedValid'
      BY <1>1 DEF TreeInv, Marks, FailuresHaveACause
    <3>2. \A x \in X : Ancestors[x] \cap failedValid' # {}
      BY <1>1, <2>1, <2>3
    <3> HIDE DEF X
    <3> QED
      BY <1>1, <2>4, <2>5, <3>1, <3>2, MarksGrow
  <2>8. Links'
    BY <1>1, <2>4, LinksKept
  <2> QED
    BY <1>2, <2>6, <2>7, <2>8 DEF TreeInv
<1> QED
  BY <1>3, <1>4 DEF RejectHeader

\* The header of b comes into the index, if it is not there.
LEMMA Indexed ==
    ASSUME TreeInv, NEW b \in Blocks \ {Genesis}, HeaderAccepted(b)
    PROVE  /\ b \notin Failed /\ Ancestors[b] \subseteq index \cup {b}
           /\ \A x \in index \cup {b} : x \in Blocks /\ Ancestors[x] \subseteq index \cup {b}
           /\ \A x \in index \cup {b} : x \in linked <=> Ancestors[x] \subseteq data
<1>1. b \notin Failed
  BY Kinds DEF HeaderAccepted
<1>2. Ancestors[b] \subseteq index \cup {b}
  <2>1. CASE b \in index
    BY <2>1 DEF TreeInv, Sets
  <2>2. CASE b \notin index
    BY <2>2, TreeFacts DEF HeaderAccepted, TreeInv, Sets
  <2> QED
    BY <2>1, <2>2
<1>3. \A x \in index : x \in Blocks /\ Ancestors[x] \subseteq index /\ (x \in linked <=> Ancestors[x] \subseteq data)
  BY DEF TreeInv, Sets, Links
<1>4. b \notin index => b \notin linked /\ ~(Ancestors[b] \subseteq data)
  <2>1. b \in Ancestors[b]
    BY TreeFacts
  <2> QED
    BY <2>1, Kinds
<1> QED
  BY <1>1, <1>2, <1>3, <1>4

LEMMA HeaderTree ==
    ASSUME TreeInv, NEW b \in Blocks \ {Genesis}, HeaderAccepted(b), index' = index \cup {b},
           activating' \subseteq Threads,
           UNCHANGED <<data, linked, failedValid, failedChild, failedBlocks, unlinked, seq, candidates, tip,
                       sequenceVars, mostWork, address>>
    PROVE  TreeInv'
<1>1. Numbers'
  BY DEF TreeInv, Numbers, sequenceVars
<1>2. Sets'
  BY Indexed DEF TreeInv, Sets
<1>3. Failed' = Failed /\ Waiting' = Waiting
  BY DEF Failed, Waiting
<1>4. Links'
  BY <1>3, Indexed DEF TreeInv, Links
<1>5. Marks'
  BY <1>3 DEF TreeInv, Marks, FailuresHaveACause
<1> QED
  BY <1>1, <1>2, <1>4, <1>5 DEF TreeInv
\* The sizes of sets of blocks.
LEMMA Sizes ==
    ASSUME NEW S \in SUBSET Blocks
    PROVE  Cardinality(S) \in Nat
BY TreeAssumption, FS_Subset, FS_CardinalityType

\* With the last missing ancestor b all that waited for it, and no other, is linked.
LEMMA LinkedByAll ==
    ASSUME TreeInv, NEW b \in Blocks \ {Genesis}, HeaderAccepted(b), b \notin data, Parent[b] \in linked,
           NEW x \in index \cup {b}
    PROVE  x \in linked \cup LinkedBy(b) <=> Ancestors[x] \subseteq data \cup {b}
<1>1. x \in Blocks /\ b \in Ancestors[b] /\ Ancestors[b] = Ancestors[Parent[b]] \cup {b} /\ x \in Ancestors[x]
  BY Indexed, TreeFacts
<1>2. Ancestors[Parent[b]] \subseteq data /\ Ancestors[b] \subseteq data \cup {b}
  BY <1>1, LinkedClosed, Kinds
<1>3. x \in linked <=> Ancestors[x] \subseteq data
  BY Indexed
<1>4. ASSUME x \in LinkedBy(b) PROVE Ancestors[x] \subseteq data \cup {b}
  <2>1. Waiting \subseteq data
    BY DEF TreeInv, Links
  <2>2. Ancestors[x] \ Ancestors[b] \subseteq Waiting
    BY <1>4 DEF LinkedBy
  <2> QED
    BY <1>2, <2>1, <2>2
<1>5. ASSUME Ancestors[x] \subseteq data \cup {b}, b \in Ancestors[x] PROVE x \in LinkedBy(b)
  <2>1. ASSUME NEW y \in Ancestors[x] \ Ancestors[b] PROVE y \in Waiting
    <3>1. y \in Blocks /\ b \in Ancestors[y] /\ Ancestors[y] \subseteq Ancestors[x]
      BY <1>1, <1>5, Between, Below
    <3>2. y \in data /\ y \notin linked
      <4>1. y \in data /\ y \in index
        BY <1>1, <1>5, Kinds
      <4> QED
        BY <3>1, <4>1 DEF TreeInv, Links
    <3>3. SUFFICES ASSUME y \notin Waiting PROVE FALSE
      OBVIOUS
    <3>4. PICK z \in Ancestors[y] : z \in Failed /\ z \notin data
      BY <3>2, <3>3 DEF TreeInv, Links
    <3>5. z = b
      BY <1>5, <3>1, <3>4
    <3> QED
      BY <3>4, <3>5, Indexed
  <2>2. x = b \/ x \in Waiting
    <3>1. CASE x \in Ancestors[b]
      BY <1>1, <1>5, <3>1, Below
    <3>2. CASE x \notin Ancestors[b]
      BY <1>1, <2>1, <3>2
    <3> QED
      BY <3>1, <3>2
  <2> QED
    BY <1>5, <2>1, <2>2 DEF LinkedBy
<1> QED
  BY <1>3, <1>4, <1>5

LEMMA ReceivedNumbers ==
    ASSUME TreeInv, NEW b \in Blocks \ {Genesis}, b \in LinkedBy(b), LinkedBy(b) \subseteq Blocks
    PROVE  /\ [x \in Blocks |-> IF x \in LinkedBy(b) THEN nBlockSequenceId + LinkedBefore(LinkedBy(b), x)
                                ELSE seq[x]] \in [Blocks -> Int]
           /\ nBlockSequenceId + Cardinality(LinkedBy(b)) \in Int
<1>1. nBlockSequenceId \in Int /\ seq \in [Blocks -> Int]
  BY DEF TreeInv, Numbers
<1>2. ASSUME NEW x PROVE LinkedBefore(LinkedBy(b), x) \in Nat
  <2> DEFINE S == LinkedBy(b)
             Before(y) ==
                \/ Height[y] < Height[x]
                \/ /\ Height[y] = Height[x]
                   /\ \E p \in Ancestors[y] \cap S, q \in Ancestors[x] \cap S :
                         p # q /\ Parent[p] = Parent[q] /\ unlinked[p] < unlinked[q]
  <2>1. {y \in S : Before(y)} \subseteq Blocks
    OBVIOUS
  <2>2. Cardinality({y \in S : Before(y)}) \in Nat
    <3> HIDE DEF S, Before
    <3> QED
      BY <2>1, Sizes
  <2> QED
    BY <2>2 DEF LinkedBefore
<1>3. Cardinality(LinkedBy(b)) \in Nat
  BY Sizes
<1> QED
  BY <1>1, <1>2, <1>3

LEMMA ReceivedTree ==
    ASSUME TreeInv, NEW b \in Blocks \ {Genesis}, HeaderAccepted(b), b \notin data,
           index' = index \cup {b}, ReceivedBlockTransactions(b), activating' \subseteq Threads,
           UNCHANGED <<failedValid, failedChild, failedBlocks, tip, nBlockReverseSequenceId, mostWork, address>>
    PROVE  TreeInv'
<1>0. b \notin Failed /\ Failed' = Failed /\ data' = data \cup {b} /\ b \in Ancestors[b] /\ b \notin linked
  BY Indexed, TreeFacts, Kinds DEF ReceivedBlockTransactions, Failed
<1>1. CASE Parent[b] \in linked
  <2> DEFINE new == LinkedBy(b)
  <2>1. /\ linked' = linked \cup new /\ Waiting' = Waiting \ new
        /\ seq' = [x \in Blocks |-> IF x \in new THEN nBlockSequenceId + LinkedBefore(new, x) ELSE seq[x]]
        /\ nBlockSequenceId' = nBlockSequenceId + Cardinality(new)
        /\ candidates' \subseteq candidates \cup new
    BY <1>1 DEF ReceivedBlockTransactions, Waiting
  <2>2. b \in new /\ new \subseteq data \cup {b} /\ new \subseteq Blocks
    BY <1>0, Kinds DEF LinkedBy, TreeInv, Links
  <2>3. \A x \in index \cup {b} : x \in linked \cup new <=> Ancestors[x] \subseteq data \cup {b}
    BY <1>1, LinkedByAll
  <2>4. Numbers'
    BY <2>1, <2>2, ReceivedNumbers DEF TreeInv, Numbers
  <2> HIDE DEF new
  <2>5. Sets'
    BY <1>0, <2>1, <2>2, Indexed DEF TreeInv, Sets
  <2>6. Links'
    <3>1. \A x \in index' : x \in linked' <=> Ancestors[x] \subseteq data'
      BY <1>0, <2>1, <2>3
    <3>2. Waiting' \subseteq data' \ linked'
      BY <1>0, <2>1 DEF TreeInv, Links
    <3>3. ASSUME NEW y \in data' \ (linked' \cup Waiting') PROVE (Ancestors[y] \cap Failed') \ data' # {}
      <4>1. y \in data \ (linked \cup Waiting)
        BY <1>0, <2>1, <2>2
      <4> QED
        BY <1>0, <4>1 DEF TreeInv, Links
    <3> QED
      BY <3>1, <3>2, <3>3 DEF Links
  <2>7. Marks'
    <3>1. ASSUME NEW y \in Failed' \ linked' PROVE (Ancestors[y] \cap Failed') \ data' # {}
      BY <1>0, <2>1 DEF TreeInv, Marks
    <3>2. FailuresHaveACause'
      BY <1>0 DEF TreeInv, Marks, FailuresHaveACause
    <3> QED
      BY <3>1, <3>2 DEF Marks
  <2> QED
    BY <2>4, <2>5, <2>6, <2>7 DEF TreeInv
<1>2. CASE Parent[b] \notin linked
  <2>1. /\ UNCHANGED <<linked, seq, nBlockSequenceId, candidates>>
        /\ Waiting' = IF Parent[b] \in Failed THEN Waiting ELSE Waiting \cup {b}
    BY <1>2 DEF ReceivedBlockTransactions, Waiting
  <2>2. Numbers'
    BY <2>1 DEF TreeInv, Numbers
  <2>3. Sets'
    BY <1>0, <2>1, Indexed DEF TreeInv, Sets
  <2>4. \A x \in index \cup {b} : x \in linked <=> Ancestors[x] \subseteq data \cup {b}
    <3> SUFFICES ASSUME NEW x \in index \cup {b}, Ancestors[x] \subseteq data \cup {b}, b \in Ancestors[x]
                 PROVE  FALSE
      BY Indexed
    <3>1. Parent[b] \in Blocks /\ Parent[b] \in Ancestors[Parent[b]] /\ Ancestors[Parent[b]] \subseteq Ancestors[b]
          /\ b \notin Ancestors[Parent[b]] /\ Ancestors[b] \subseteq Ancestors[x]
      <4>1. Parent[b] \in Blocks /\ Parent[b] \in Ancestors[Parent[b]] /\ Parent[b] \in Ancestors[b] /\ Parent[b] # b
        BY TreeFacts
      <4> QED
        BY <4>1, Below, Indexed
    <3>2. Ancestors[Parent[b]] \subseteq data
      BY <3>1
    <3> QED
      BY <1>2, <3>1, <3>2, Kinds DEF TreeInv, Links
  <2>5. ASSUME NEW y \in data' \ (linked' \cup Waiting') PROVE (Ancestors[y] \cap Failed') \ data' # {}
    <3>1. CASE y = b
      <4>1. Parent[b] \in Failed \ linked /\ Ancestors[Parent[b]] \subseteq Ancestors[b]
        BY <1>2, <2>1, <3>1, TreeFacts
      <4> QED
        BY <1>0, <3>1, <4>1 DEF TreeInv, Marks
    <3>2. CASE y # b
      BY <1>0, <2>1, <3>2 DEF TreeInv, Links
    <3> QED
      BY <3>1, <3>2
  <2>6. Links'
    <3>1. Waiting' \subseteq data' \ linked'
      BY <1>0, <2>1 DEF TreeInv, Links
    <3> QED
      BY <1>0, <2>1, <2>4, <2>5, <3>1 DEF Links
  <2>7. Marks'
    BY <1>0, <2>1 DEF TreeInv, Marks, FailuresHaveACause
  <2> QED
    BY <2>2, <2>3, <2>6, <2>7 DEF TreeInv
<1> QED
  BY <1>1, <1>2

LEMMA AcceptTree ==
    ASSUME TreeInv, NEW t \in Threads, NEW b \in Blocks \ {Genesis}, NEW fRequested \in BOOLEAN,
           AcceptBlock(t, b, fRequested)
    PROVE  TreeInv'
<1>1. /\ HeaderAccepted(b) /\ index' = index \cup {b} /\ activating' \subseteq Threads
      /\ UNCHANGED <<failedChild, failedBlocks, tip, nBlockReverseSequenceId, nLastPreciousChainwork, mostWork, address>>
  BY DEF AcceptBlock, boundVars, TreeInv, Numbers
<1>2. CASE UNCHANGED <<data, linked, failedValid, unlinked, seq, candidates, nBlockSequenceId>>
  BY <1>1, <1>2, HeaderTree DEF sequenceVars
<1>3. CASE /\ b \notin data /\ failedValid' = failedValid \cup {b}
           /\ UNCHANGED <<data, linked, unlinked, seq, candidates, nBlockSequenceId>>
  <2>1. Numbers'
    BY <1>1, <1>3 DEF TreeInv, Numbers
  <2>2. Sets'
    BY <1>1, <1>3, Indexed DEF TreeInv, Sets
  <2>3. Failed' = Failed \cup {b} /\ Waiting' = Waiting /\ b \in Ancestors[b]
    BY <1>1, <1>3, TreeFacts DEF Failed, Waiting
  <2>4. Links'
    BY <1>1, <1>3, <2>3, Indexed DEF TreeInv, Links
  <2>5. Marks'
    <3>1. failedBlocks' \subseteq failedValid'
      BY <1>1, <1>3 DEF TreeInv, Marks, FailuresHaveACause
    <3> QED
      BY <1>3, <2>3, <3>1, MarksGrow
  <2> QED
    BY <2>1, <2>2, <2>4, <2>5 DEF TreeInv
<1>4. CASE b \notin data /\ ReceivedBlockTransactions(b) /\ UNCHANGED failedValid
  BY <1>1, <1>4, ReceivedTree
<1> QED
  BY <1>2, <1>3, <1>4 DEF AcceptBlock
\* FindMostWorkChain stops at a failed block of the branch.
LEMMA FirstFailedIs ==
    ASSUME TreeInv, NEW c \in Unusable
    PROVE  c \in linked /\ FirstFailed(c) \in Ancestors[c] /\ FirstFailed(c) \in Failed
<1> DEFINE S == OffChain(c) \cap Failed
           f == [x \in S |-> Height[c] - Height[x]]
<1>1. c \in linked /\ c \in Blocks /\ S # {}
  BY Kinds DEF Unusable
<1>2. \A x \in S : x \in Ancestors[c] /\ Height[x] \in Nat /\ Height[c] \in Nat /\ Height[x] <= Height[c]
  <2> TAKE x \in S
  <2>1. x \in Ancestors[c] /\ x \in Blocks
    BY <1>1, TreeFacts DEF OffChain
  <2>2. x # c => Height[x] < Height[c]
    BY <1>1, <2>1, Below
  <2> QED
    BY <1>1, <2>1, <2>2, TreeFacts
<1>3. f \in [S -> Nat]
  BY <1>2
<1>4. \E x \in S : \A y \in S : f[x] <= f[y]
  <2> HIDE DEF S, f
  <2> QED
    BY <1>1, <1>3, Least
<1>5. \E x \in S : \A y \in S : Height[y] <= Height[x]
  <2>1. PICK x \in S : \A y \in S : f[x] <= f[y]
    BY <1>4
  <2>2. \A y \in S : Height[y] <= Height[x]
    BY <1>2, <2>1
  <2> QED
    BY <2>2
<1>6. FirstFailed(c) \in S
  BY <1>5 DEF FirstFailed
<1> QED
  BY <1>1, <1>2, <1>6

\* What is marked on the way is linked and lies above a failed block.
LEMMA MarkedIs ==
    ASSUME TreeInv
    PROVE  /\ Marked \subseteq linked /\ \A x \in Marked : x \in Blocks /\ Ancestors[x] \cap Failed # {}
           /\ Dropped \subseteq Failed \cup Marked
<1>1. \A c \in Met : c \in linked /\ c \in Blocks /\ FirstFailed(c) \in Ancestors[c] /\ FirstFailed(c) \in Failed
  BY FirstFailedIs, Kinds DEF Met
<1>2. ASSUME NEW x \in Marked PROVE x \in linked /\ x \in Blocks /\ Ancestors[x] \cap Failed # {}
  <2>1. PICK c \in Met : x \in Ancestors[c] \ Ancestors[FirstFailed(c)]
    BY DEF Marked
  <2>2. x \in Blocks /\ FirstFailed(c) \in Ancestors[x]
    BY <1>1, <2>1, Between
  <2>3. x \in linked
    BY <1>1, <2>1, LinkedClosed
  <2> QED
    BY <1>1, <2>2, <2>3
<1>3. Dropped \subseteq Failed \cup Marked
  BY <1>1 DEF Dropped
<1> QED
  BY <1>2, <1>3

\* FindMostWorkChain returns the best of the candidates that can be used.
LEMMA FoundIs ==
    ASSUME TreeInv
    PROVE  /\ candidates \ Unusable = {} => FindMostWorkChain = NoBlock
           /\ candidates \ Unusable # {} =>
                 /\ FindMostWorkChain \in candidates \ Unusable
                 /\ \A d \in candidates \ Unusable : d = FindMostWorkChain \/ Worse(seq, d, FindMostWorkChain)
<1> DEFINE S == candidates \ Unusable
<1>1. S \subseteq Blocks /\ seq \in [Blocks -> Int] /\ address \in Addresses
  BY Kinds DEF TreeInv, Numbers
<1>2. S = {} => FindMostWorkChain = NoBlock
  BY DEF FindMostWorkChain, Best
<1>3. ASSUME S # {}
      PROVE  FindMostWorkChain \in S /\ \A d \in S \ {FindMostWorkChain} : Worse(seq, d, FindMostWorkChain)
  <2>1. FindMostWorkChain = CHOOSE c \in S : \A d \in S \ {c} : Worse(seq, d, c)
    BY <1>3 DEF FindMostWorkChain, Best
  <2>2. \E c \in S : \A d \in S \ {c} : WorseAt(seq, address, d, c)
    <3> HIDE DEF S
    <3> QED
      BY <1>1, <1>3, BestExists
  <2>3. \E c \in S : \A d \in S \ {c} : Worse(seq, d, c)
    BY <2>2 DEF Worse
  <2> HIDE DEF S
  <2> QED
    BY <2>1, <2>3
<1> QED
  BY <1>2, <1>3

\* Where a step towards m ends, and what lies below.
LEMMA StepEndIs ==
    ASSUME TreeInv, NEW m \in linked
    PROVE  /\ StepEnd(m) \in Stops(m) /\ StepEnd(m) \in Ancestors[m] /\ StepEnd(m) \in linked
           /\ \A x \in Stops(m) : Height[StepEnd(m)] <= Height[x]
<1> DEFINE S == Stops(m)
           f == [x \in S |-> Height[x]]
<1>1. m \in Blocks /\ m \in Ancestors[m] /\ Ancestors[m] \subseteq linked
  BY Kinds, TreeFacts, LinkedClosed
<1>2. S # {} /\ S \subseteq Ancestors[m] /\ \A x \in S : Height[x] \in Nat
  BY <1>1, TreeFacts DEF Stops, OffChain
<1>3. f \in [S -> Nat]
  BY <1>2
<1>4. \E x \in S : \A y \in S : f[x] <= f[y]
  <2> HIDE DEF S, f
  <2> QED
    BY <1>2, <1>3, Least
<1>5. \E x \in S : \A y \in S : Height[x] <= Height[y]
  BY <1>4
<1>6. StepEnd(m) \in S /\ \A y \in S : Height[StepEnd(m)] <= Height[y]
  <2> HIDE DEF S
  <2>1. StepEnd(m) = CHOOSE x \in S : \A y \in S : Height[x] <= Height[y]
    BY DEF StepEnd, S
  <2> QED
    BY <1>5, <2>1
<1> QED
  BY <1>1, <1>2, <1>6

\* The tip after a step that ends at e.
NewTip(e) == IF e \in Connects THEN e ELSE Parent[e]

LEMMA NewTipIs ==
    ASSUME TreeInv, NEW e \in linked
    PROVE  NewTip(e) \in linked /\ NewTip(e) \in Ancestors[e] /\ (e \notin Connects => e # Genesis)
<1>1. e \in Blocks /\ (e \notin Connects => e # Genesis) /\ e \in Ancestors[e]
  BY Kinds, TreeFacts
<1>2. e # Genesis => Parent[e] \in Ancestors[e]
  BY <1>1, TreeFacts
<1> QED
  BY <1>1, <1>2, LinkedClosed DEF NewTip

\* The turn of ActivateBestChain that thread t takes.
Target(t) == IF mostWork[t] = NoBlock THEN FindMostWorkChain ELSE mostWork[t]
LeftOver(t) == IF mostWork[t] = NoBlock THEN candidates \ Dropped ELSE candidates
Passed(t) == IF mostWork[t] = NoBlock THEN Marked ELSE {}

LEMMA TargetIs ==
    ASSUME TreeInv, NEW t \in Threads
    PROVE  Target(t) = NoBlock \/ Target(t) \in linked
<1>1. mostWork[t] \in linked \cup {NoBlock}
  BY DEF TreeInv, Numbers
<1>2. FindMostWorkChain = NoBlock \/ FindMostWorkChain \in linked
  BY FoundIs, Kinds
<1> QED
  BY <1>1, <1>2 DEF Target

LEMMA ActivateTree ==
    ASSUME TreeInv, NEW t \in Threads, ActivateBestChain(t)
    PROVE  TreeInv'
<1> DEFINE m == Target(t)
           c == LeftOver(t)
           e == StepEnd(m)
<1>1. /\ UNCHANGED <<index, data, linked, unlinked, seq, sequenceVars, address>>
      /\ failedChild' = failedChild \cup Passed(t)
      /\ IF m \in {NoBlock, tip}
         THEN /\ candidates' = c
              /\ activating' = activating \ {t} /\ mostWork' = [mostWork EXCEPT ![t] = NoBlock]
              /\ UNCHANGED <<scripts, failedValid, failedBlocks, tip, aborted>>
         ELSE ActivateBestChainStep(t, m, c)
  BY DEF ActivateBestChain, Target, LeftOver, Passed, boundVars
<1>2. c \subseteq candidates /\ Passed(t) \subseteq linked
      /\ \A x \in Passed(t) : x \in Blocks /\ Ancestors[x] \cap Failed # {}
  BY MarkedIs DEF LeftOver, Passed
<1>3. m = NoBlock \/ m \in linked
  BY TargetIs
<1> HIDE DEF m, c
<1>4. /\ tip' \in linked /\ candidates' \subseteq candidates
      /\ activating' \subseteq activating /\ mostWork' \in [Threads -> linked \cup {NoBlock}]
      /\ \E X \in SUBSET linked : /\ failedValid' = failedValid \cup X /\ failedBlocks' = failedBlocks \cup X
  <2>0. mostWork \in [Threads -> linked \cup {NoBlock}] /\ tip \in linked
    BY DEF TreeInv, Numbers, Sets
  <2>1. CASE m \in {NoBlock, tip}
    <3>1. failedValid' = failedValid \cup {} /\ failedBlocks' = failedBlocks \cup {}
      BY <1>1, <2>1
    <3> QED
      BY <1>1, <1>2, <2>0, <2>1, <3>1
  <2>2. CASE m \notin {NoBlock, tip}
    <3>1. m \in linked /\ e \in linked /\ NewTip(e) \in linked
      BY <1>3, <2>2, StepEndIs, NewTipIs
    <3>2. ActivateBestChainStep(t, m, c)
      BY <1>1, <2>2
    <3>3. tip' = NewTip(e) /\ failedValid' = failedValid \cup InvalidBlockFound(e)
          /\ failedBlocks' = failedBlocks \cup InvalidBlockFound(e)
          /\ activating' \subseteq activating /\ candidates' \subseteq c
          /\ mostWork' = [mostWork EXCEPT ![t] = IF e \in Connects /\ e # m THEN m ELSE NoBlock]
      BY <3>2 DEF ActivateBestChainStep, NewTip, Prune
    <3>4. InvalidBlockFound(e) \subseteq linked
      BY <3>1 DEF InvalidBlockFound
    <3> QED
      BY <1>2, <2>0, <3>1, <3>3, <3>4
  <2> QED
    BY <2>1, <2>2
<1>5. Numbers'
  BY <1>1, <1>4 DEF TreeInv, Numbers, sequenceVars
<1>6. Sets'
  BY <1>1, <1>2, <1>4 DEF TreeInv, Sets
<1>7. PICK X \in SUBSET linked : failedValid' = failedValid \cup X /\ failedBlocks' = failedBlocks \cup X
  BY <1>4
<1>8. Failed' = Failed \cup (Passed(t) \cup X)
  BY <1>1, <1>7 DEF Failed
<1>9. Links'
  BY <1>1, <1>8, LinksKept
<1>10. Marks'
  <2>1. \A x \in Passed(t) \cup X : x \in linked /\ Ancestors[x] \cap failedValid' # {}
    BY <1>2, <1>7, CauseBelow, Kinds, TreeFacts
  <2>2. failedBlocks' \subseteq failedValid'
    BY <1>7 DEF TreeInv, Marks, FailuresHaveACause
  <2> QED
    BY <1>1, <1>7, <1>8, <2>1, <2>2, MarksGrow
<1> QED
  BY <1>5, <1>6, <1>9, <1>10 DEF TreeInv

LEMMA InvalidateTree ==
    ASSUME TreeInv, Careful, NEW t \in Threads, NEW b \in Blocks, InvalidateBlock(t, b)
    PROVE  TreeInv'
<1> DEFINE above == IF b \in Ancestors[tip] THEN Ancestors[tip] \ Ancestors[b] ELSE {}
           X == above \cup {b}
<1>1. /\ b \in linked /\ b # Genesis
      /\ tip' = (IF b \in Ancestors[tip] THEN Parent[b] ELSE tip)
      /\ failedChild' = failedChild \cup above /\ failedValid' = failedValid \cup {b}
      /\ failedBlocks' = failedBlocks \cup {b}
      /\ candidates' \subseteq candidates \cup linked
      /\ activating' = activating \cup {t}
      /\ UNCHANGED <<index, data, linked, unlinked, seq, sequenceVars, mostWork, address>>
  BY DEF InvalidateBlock, OperatorCall, CandidatesFrom
<1>2. tip \in linked /\ tip \in Blocks /\ b \in Ancestors[b] /\ Parent[b] \in Ancestors[b]
  BY <1>1, Kinds, TreeFacts
<1>3. above \subseteq linked /\ \A x \in above : b \in Ancestors[x]
  BY <1>2, LinkedClosed, Between
<1>4. Parent[b] \in linked
  BY <1>1, <1>2, LinkedClosed
<1>5. Failed' = Failed \cup X /\ X \subseteq linked
  BY <1>1, <1>3 DEF Failed
<1>6. Sets'
  BY <1>1, <1>2, <1>3, <1>4 DEF TreeInv, Sets
<1>7. Numbers'
  BY <1>1 DEF TreeInv, Numbers, sequenceVars
<1>8. Links'
  BY <1>1, <1>5, LinksKept
<1>9. Marks'
  <2>1. \A x \in X : Ancestors[x] \cap failedValid' # {}
    BY <1>1, <1>2, <1>3
  <2>2. failedBlocks' \subseteq failedValid'
    BY <1>1 DEF TreeInv, Marks, FailuresHaveACause
  <2> HIDE DEF X
  <2> QED
    BY <1>1, <1>5, <2>1, <2>2, MarksGrow
<1> QED
  BY <1>6, <1>7, <1>8, <1>9 DEF TreeInv

\* Of a block that is not above b reconsiderblock changes nothing, nor of what lies
\* below it; and what is above b has no mark left, nor its ancestors from b on.
LEMMA ResetMarks ==
    ASSUME TreeInv, Careful, NEW t \in Threads, NEW b \in Blocks, ResetBlockFailureFlags(t, b)
    PROVE  /\ \A x \in Blocks : b \in Ancestors[x] => x \notin Failed'
           /\ \A x \in Blocks : b \notin Ancestors[x] => /\ x \in Failed' <=> x \in Failed
                                                         /\ x \in failedValid' <=> x \in failedValid
           /\ Failed' \subseteq Failed
<1>1. /\ (Ancestors[b] \ {b}) \cap Failed = {}
      /\ failedValid' = failedValid \ (Reset(b) \cup Ancestors[b])
      /\ failedChild' = failedChild \ (Reset(b) \cup Ancestors[b])
  BY DEF ResetBlockFailureFlags, CarefulReset
<1>2. Failed' = Failed \ (Reset(b) \cup Ancestors[b])
  BY <1>1 DEF Failed
<1>3. b \in Ancestors[b]
  BY TreeFacts
<1>4. \A x \in Blocks : b \in Ancestors[x] => x \notin Failed'
  BY <1>2 DEF Reset
<1>5. ASSUME NEW x \in Blocks, b \notin Ancestors[x]
      PROVE  x \in Failed => x \notin Reset(b) \cup Ancestors[b]
  BY <1>1, <1>3, <1>5 DEF Reset
<1>6. failedValid \subseteq Failed
  BY DEF Failed
<1> QED
  BY <1>1, <1>2, <1>4, <1>5, <1>6

LEMMA ResetTree ==
    ASSUME TreeInv, Careful, NEW t \in Threads, NEW b \in Blocks, ResetBlockFailureFlags(t, b)
    PROVE  TreeInv'
<1>1. /\ failedBlocks' = failedBlocks \ Reset(b) /\ activating' = activating \cup {t}
      /\ candidates' \subseteq candidates \cup linked
      /\ failedValid' \subseteq failedValid /\ failedChild' \subseteq failedChild
      /\ UNCHANGED <<index, data, linked, unlinked, seq, sequenceVars, tip, mostWork, address>>
      /\ \A x \in data \ (linked \cup Waiting) : b \notin Ancestors[x]
  BY DEF ResetBlockFailureFlags, CarefulReset, OperatorCall, Reconsidered
<1>2. Sets'
  BY <1>1 DEF TreeInv, Sets
<1>3. Numbers'
  BY <1>1 DEF TreeInv, Numbers, sequenceVars
<1>4. ASSUME NEW x \in Blocks, b \notin Ancestors[x]
      PROVE  /\ Ancestors[x] \cap Failed' = Ancestors[x] \cap Failed
             /\ Ancestors[x] \cap failedValid' = Ancestors[x] \cap failedValid
  <2>1. \A y \in Ancestors[x] : y \in Blocks /\ b \notin Ancestors[y]
    BY <1>4, Below
  <2> QED
    BY <2>1, ResetMarks
<1>5. \A x \in Failed' : x \in Blocks /\ x \in Failed /\ b \notin Ancestors[x]
  BY ResetMarks, Kinds
<1>6. Links'
  <2>1. Waiting' = Waiting /\ data \subseteq Blocks
    BY <1>1, Kinds DEF Waiting
  <2>2. \A x \in data \ (linked \cup Waiting) : (Ancestors[x] \cap Failed') \ data # {}
    BY <1>1, <1>4, <2>1 DEF TreeInv, Links
  <2> QED
    BY <1>1, <2>1, <2>2 DEF TreeInv, Links
<1>7. Marks'
  <2>1. \A x \in Failed' : Ancestors[x] \cap failedValid' # {}
    BY <1>4, <1>5 DEF TreeInv, Marks, FailuresHaveACause
  <2>2. \A x \in Failed' \ linked : (Ancestors[x] \cap Failed') \ data # {}
    BY <1>4, <1>5 DEF TreeInv, Marks
  <2>3. failedBlocks' \subseteq failedValid'
    <3> SUFFICES ASSUME NEW x \in failedBlocks' PROVE x \in failedValid'
      OBVIOUS
    <3>1. x \in failedBlocks /\ x \in failedValid /\ x \in Failed /\ x \notin Reset(b) /\ x \in Blocks
      BY <1>1, Kinds DEF TreeInv, Marks, FailuresHaveACause
    <3>2. b \notin Ancestors[x]
      BY <3>1 DEF Reset
    <3> QED
      BY <3>1, <3>2, ResetMarks
  <2> QED
    BY <1>1, <2>1, <2>2, <2>3 DEF Marks, FailuresHaveACause
<1> QED
  BY <1>2, <1>3, <1>6, <1>7 DEF TreeInv

LEMMA PreciousTree ==
    ASSUME TreeInv, NEW t \in Threads, NEW b \in Blocks, PreciousBlock(t, b)
    PROVE  TreeInv'
<1> DEFINE id == IF Work[tip] > nLastPreciousChainwork THEN -1 ELSE nBlockReverseSequenceId
<1>1. id \in Int /\ seq \in [Blocks -> Int]
  BY DEF TreeInv, Numbers
<1>2. /\ seq' = [seq EXCEPT ![b] = id] /\ nBlockReverseSequenceId' = id - 1
      /\ candidates' \subseteq candidates \cup linked /\ activating' = activating \cup {t}
      /\ UNCHANGED <<index, data, linked, failedValid, failedChild, failedBlocks, unlinked, tip,
                     nBlockSequenceId, mostWork, address>>
  BY DEF PreciousBlock, OperatorCall, Prune, statusVars
<1> HIDE DEF id
<1>3. seq' \in [Blocks -> Int] /\ nBlockReverseSequenceId' \in Int
  BY <1>1, <1>2
<1>4. Numbers'
  BY <1>2, <1>3 DEF TreeInv, Numbers
<1>5. Sets'
  BY <1>2 DEF TreeInv, Sets
<1>6. Failed' = Failed
  BY <1>2 DEF Failed
<1>7. Links'
  BY <1>2, <1>6, LinksKept
<1>8. Marks'
  BY <1>2, <1>6 DEF TreeInv, Marks, FailuresHaveACause
<1> QED
  BY <1>4, <1>5, <1>7, <1>8 DEF TreeInv

\* What a start makes of the index: the links it had, and marks on all that lies
\* above a failed block.
LEMMA RestartTree ==
    ASSUME TreeInv, Restart
    PROVE  TreeInv' /\ linked' = linked
<1> DEFINE below == {b \in index \ Failed : Ancestors[b] \cap Failed # {}}
           waiting == {b \in data : b # Genesis /\ ~(Ancestors[Parent[b]] \subseteq data)}
<1>1. /\ address' \in Addresses /\ linked' = {b \in index : Ancestors[b] \subseteq data}
      /\ Waiting' = waiting
      /\ failedChild' = failedChild \cup below /\ failedBlocks' = {}
      /\ seq' = [b \in Blocks |-> 0] /\ nBlockSequenceId' = 1 /\ nBlockReverseSequenceId' = -1
      /\ candidates' \subseteq linked' /\ activating' \subseteq Threads
      /\ mostWork' = [t \in Threads |-> NoBlock]
      /\ UNCHANGED <<index, data, failedValid, tip>>
  BY DEF Restart, Waiting
<1>2. linked' = linked
  BY <1>1, Kinds DEF TreeInv, Links
<1>3. Failed' = Failed \cup below
  BY <1>1 DEF Failed
<1>4. Sets'
  BY <1>1, <1>2, Kinds DEF TreeInv, Sets
<1>5. Numbers'
  BY <1>1, <1>2 DEF Numbers
<1>6. waiting = data \ linked
  <2> SUFFICES ASSUME NEW b \in data PROVE b \in waiting <=> b \notin linked
    BY Kinds
  <2>1. b \in Blocks /\ (b \in linked <=> Ancestors[b] \subseteq data)
    BY Kinds DEF TreeInv, Links
  <2>2. CASE b = Genesis
    BY <2>2, Kinds
  <2>3. CASE b # Genesis
    BY <2>1, <2>3, TreeFacts
  <2> QED
    BY <2>2, <2>3
<1>7. Links'
  BY <1>1, <1>2, <1>6 DEF TreeInv, Links
<1>8. Marks'
  <2>1. \A x \in below : Ancestors[x] \cap failedValid # {}
    BY CauseBelow, Kinds
  <2>2. ASSUME NEW x \in below, x \notin linked PROVE (Ancestors[x] \cap (Failed \cup below)) \ data # {}
    <3>1. x \in Blocks /\ Ancestors[x] \subseteq index
      BY Kinds DEF TreeInv, Sets
    <3>2. PICK g \in Ancestors[x] : g \in Failed
      OBVIOUS
    <3>3. CASE g \in linked
      <4>1. PICK y \in Ancestors[x] : y \notin data
        BY <2>2 DEF TreeInv, Links
      <4>2. y \notin Ancestors[g]
        BY <3>3, <4>1, LinkedClosed, Kinds
      <4>3. g \in Ancestors[y]
        BY <3>1, <4>1, <4>2, Between
      <4>4. y \in Failed \cup below
        BY <3>1, <3>2, <4>1, <4>3
      <4> QED
        BY <4>1, <4>4
    <3>4. CASE g \notin linked
      <4>1. (Ancestors[g] \cap Failed) \ data # {}
        BY <3>2, <3>4 DEF TreeInv, Marks
      <4>2. Ancestors[g] \subseteq Ancestors[x]
        BY <3>1, Below
      <4> QED
        BY <4>1, <4>2
    <3> QED
      BY <3>3, <3>4
  <2> HIDE DEF below
  <2> QED
    BY <1>1, <1>2, <1>3, <2>1, <2>2, MarksGrow
<1> QED
  BY <1>2, <1>4, <1>5, <1>7, <1>8 DEF TreeInv

LEMMA TreeInitially ==
    ASSUME Init
    PROVE  TreeInv
<1>1. Ancestors[Genesis] = {Genesis} /\ Genesis \in Blocks
  BY TreeFacts
<1>2. Failed = {} /\ Waiting = {}
  BY DEF Init, Failed, Waiting
<1>3. seq \in [Blocks -> Int] /\ mostWork \in [Threads -> linked \cup {NoBlock}]
  BY DEF Init
<1>4. Sets
  BY <1>1 DEF Init, Sets
<1>5. Numbers
  BY <1>3 DEF Init, Numbers
<1>6. Links
  BY <1>1, <1>2 DEF Init, Links
<1>7. Marks
  BY <1>2 DEF Init, Marks, FailuresHaveACause
<1> QED
  BY <1>4, <1>5, <1>6, <1>7 DEF TreeInv

LEMMA TreeStep ==
    ASSUME Careful, TreeInv, [Next]_vars
    PROVE  TreeInv'
<1>1. CASE UNCHANGED vars
  BY <1>1 DEF vars, statusVars, boundVars, sequenceVars, TreeInv, Sets, Numbers, Links, Marks, Failed, Waiting,
              FailuresHaveACause
<1>2. ASSUME NEW b \in Blocks \ {Genesis}, AcceptBlockHeader(b) PROVE TreeInv'
  <2>1. activating' \subseteq Threads
    BY <1>2 DEF AcceptBlockHeader, TreeInv, Numbers
  <2> QED
    BY <1>2, <2>1, HeaderTree DEF AcceptBlockHeader, statusVars, boundVars
<1> QED
  BY <1>1, <1>2, RejectTree, AcceptTree, ActivateTree, InvalidateTree, ResetTree, PreciousTree, RestartTree DEF Next

LEMMA TreeInvariant ==
    ASSUME Careful
    PROVE  Spec => []TreeInv
BY TreeInitially, TreeStep, PTL DEF Spec

\* What CheckBlockIndex asserts of links and failures.
LEMMA TreeAsserts ==
    ASSUME TreeInv
    PROVE  LinkedWhenComplete /\ FailuresHaveACause
<1>1. ASSUME NEW b \in data \ linked, Ancestors[b] \cap failedValid = {} PROVE b \in Waiting
  BY <1>1, CauseBelow, Kinds DEF TreeInv, Links
<1> QED
  BY <1>1 DEF TreeInv, Links, Marks, LinkedWhenComplete

\* With any number of threads in ActivateBestChain, and an operator who is careful, a
\* block is linked as soon as its ancestors have all arrived, waits in
\* mapBlocksUnlinked while one that may still come is missing, and is marked as
\* failed only if a block below it is invalid: ReceivedBlockTransactions,
\* InvalidBlockFound, FindMostWorkChain, AcceptBlockHeader, InvalidateBlock,
\* ResetBlockFailureFlags and LoadBlockIndex together.
THEOREM BlockTreeSound ==
    ASSUME Careful
    PROVE  Spec => [](LinkedWhenComplete /\ FailuresHaveACause)
<1>1. TreeInv => LinkedWhenComplete /\ FailuresHaveACause
  BY TreeAsserts
<1> QED
  BY <1>1, TreeInvariant, PTL
-----------------------------------------------------------------------------
(* With one thread at a time in ActivateBestChain. *)

\* r is a floor of the candidates: a candidate that is known to connect, such that
\* every block that is no worse is a candidate.
Floor(r) ==
    /\ r \in candidates /\ Clean(r) /\ Ancestors[r] \subseteq Connects
    /\ \A b \in linked \ Failed : ~Worse(seq, b, r) => b \in candidates

\* The best of the candidates without a failed ancestor.
BestOf(m) ==
    /\ m \in candidates /\ Clean(m)
    /\ \A c \in candidates : Clean(c) => c = m \/ Worse(seq, c, m)

\* The active chain is valid, and no candidate is worse than its tip.
TipInv ==
    /\ ~aborted /\ Clean(tip) /\ Ancestors[tip] \subseteq Connects
    /\ \A c \in candidates : ~Worse(seq, c, tip)

\* The target that a thread keeps between two steps is the best candidate and lies
\* above the tip.
TargetInv ==
    \A t \in Threads : mostWork[t] # NoBlock =>
        t \in activating /\ BestOf(mostWork[t]) /\ tip \in Ancestors[mostWork[t]] \ {mostWork[t]}

ActiveInv ==
    /\ TipInv /\ TargetInv
    /\ \E r \in Blocks : Floor(r)
    /\ activating = {} => Floor(tip) /\ BestOf(tip)

\* What the theorems below suppose: one thread accepts blocks, activates and serves
\* the operator (with two, MCChainRaceAssert.cfg has a counterexample).
OneThread == \A t, u \in Threads : t = u

\* The order of the candidates.
LEMMA Ranked ==
    ASSUME TreeInv
    PROVE  /\ \A a \in Blocks : ~Worse(seq, a, a)
           /\ \A a, b \in Blocks : a = b \/ Worse(seq, a, b) \/ Worse(seq, b, a)
           /\ \A a, b \in Blocks : Worse(seq, a, b) => ~Worse(seq, b, a)
           /\ \A a, b, c \in Blocks : Worse(seq, a, b) /\ Worse(seq, b, c) => Worse(seq, a, c)
           /\ \A a, b \in Blocks : Worse(seq, a, b) => Work[a] <= Work[b]
           /\ \A a, b \in Blocks : Work[a] < Work[b] => Worse(seq, a, b)
<1>1. seq \in [Blocks -> Int] /\ address \in Addresses
  BY DEF TreeInv, Numbers
<1> QED
  BY <1>1, Ordered DEF Worse

\* A mark on what lies above a failed block makes no clean block unclean.
LEMMA CleanKept ==
    ASSUME NEW X, Failed' = Failed \cup X, \A x \in X : Ancestors[x] \cap Failed # {}
    PROVE  \A y \in Blocks : Clean(y)' <=> Clean(y)
<1> SUFFICES ASSUME NEW y \in Blocks PROVE Clean(y)' <=> Clean(y)
  OBVIOUS
<1>1. Clean(y)' => Clean(y)
  BY DEF Clean
<1>2. ASSUME Clean(y), NEW x \in Ancestors[y] \cap X PROVE FALSE
  <2>1. Ancestors[x] \subseteq Ancestors[y]
    BY Below
  <2> QED
    BY <1>2, <2>1 DEF Clean
<1> QED
  BY <1>1, <1>2 DEF Clean

\* A block that is clean and linked, and at least as good as a floor, is one.
LEMMA FloorUp ==
    ASSUME TreeInv, NEW r \in Blocks, Floor(r), NEW q \in linked, Clean(q), Ancestors[q] \subseteq Connects,
           q = r \/ Worse(seq, r, q)
    PROVE  Floor(q)
<1>1. q \in Blocks /\ q \in linked \ Failed
  BY Kinds, TreeFacts DEF Clean
<1>2. ~Worse(seq, q, r)
  BY <1>1, Ranked
<1>3. q \in candidates
  BY <1>1, <1>2 DEF Floor
<1>4. ASSUME NEW b \in linked \ Failed, ~Worse(seq, b, q) PROVE b \in candidates
  <2>1. b \in Blocks
    BY Kinds
  <2>2. ~Worse(seq, b, r)
    BY <1>1, <1>4, <2>1, Ranked
  <2> QED
    BY <2>2 DEF Floor
<1> QED
  BY <1>3, <1>4 DEF Floor

\* Dropping failed candidates and ones worse than the floor.
LEMMA FloorKept ==
    ASSUME NEW r \in Blocks, Floor(r), r \in candidates', Clean(r)', Failed \subseteq Failed',
           UNCHANGED <<linked, seq, address>>,
           \A b \in candidates \ candidates' : b \in Failed' \/ Worse(seq, b, r)
    PROVE  Floor(r)'
<1>1. \A b \in Blocks : Worse(seq, b, r)' <=> Worse(seq, b, r)
  BY DEF Worse, WorseAt
<1>2. ASSUME NEW b \in linked \ Failed', ~Worse(seq, b, r) PROVE b \in candidates'
  BY <1>2 DEF Floor
<1>3. \A b : Worse(seq, b, r)' <=> Worse(seq, b, r)
  BY DEF Worse, WorseAt
<1> QED
  BY <1>2, <1>3 DEF Floor

LEMMA BestKept ==
    ASSUME NEW m \in Blocks, BestOf(m), m \in candidates', Clean(m)', Failed \subseteq Failed',
           candidates' \subseteq candidates, UNCHANGED <<seq, address>>
    PROVE  BestOf(m)'
<1>1. \A b : Worse(seq, b, m)' <=> Worse(seq, b, m)
  BY DEF Worse, WorseAt
<1>2. \A b : Clean(b)' => Clean(b)
  BY DEF Clean
<1> QED
  BY <1>1, <1>2 DEF BestOf

\* A thread that is not in ActivateBestChain finds no other one there.
LEMMA Alone ==
    ASSUME OneThread, TreeInv, ActiveInv, NEW t \in Threads \ activating
    PROVE  activating = {} /\ Floor(tip) /\ BestOf(tip) /\ \A u \in Threads : mostWork[u] = NoBlock
<1>1. activating = {}
  BY DEF OneThread, TreeInv, Numbers
<1> QED
  BY <1>1 DEF ActiveInv, TargetInv

\* Only marks above failed blocks are new.
LEMMA MarksOnly ==
    ASSUME ActiveInv, NEW X, Failed' = Failed \cup X, TreeInv,
           \A y \in linked : Clean(y)' <=> Clean(y), ~aborted', linked \subseteq Blocks,
           UNCHANGED <<linked, seq, address, candidates, tip, activating, mostWork>>
    PROVE  ActiveInv'
<1>1. \A a, b : Worse(seq, a, b)' <=> Worse(seq, a, b)
  BY DEF Worse, WorseAt
<1>2. tip \in linked /\ candidates \subseteq linked
  BY Kinds
<1>3. \A r : Floor(r) => Floor(r)'
  BY <1>1, <1>2 DEF Floor
<1>4. \A m : BestOf(m) => BestOf(m)'
  BY <1>1, <1>2 DEF BestOf
<1>5. TipInv'
  BY <1>1, <1>2 DEF ActiveInv, TipInv
<1>6. TargetInv'
  BY <1>4 DEF ActiveInv, TargetInv
<1>7. (\E r \in Blocks : Floor(r))'
  BY <1>3 DEF ActiveInv
<1>8. (activating = {} => Floor(tip) /\ BestOf(tip))'
  BY <1>3, <1>4 DEF ActiveInv
<1> QED
  BY <1>5, <1>6, <1>7, <1>8 DEF ActiveInv

\* A call begins: its thread is the only one, and has no target yet.
LEMMA CallBegins ==
    ASSUME NEW t \in Threads, activating' = {t}, \A u \in Threads : mostWork'[u] = NoBlock,
           TipInv', Floor(tip)', tip' \in Blocks
    PROVE  ActiveInv'
<1>1. (\E r \in Blocks : Floor(r))'
  OBVIOUS
<1>2. TargetInv'
  BY DEF TargetInv
<1> QED
  BY <1>1, <1>2 DEF ActiveInv

\* Of a header only marks above a block of g_failed_blocks are new.
LEMMA RejectActive ==
    ASSUME TreeInv, ActiveInv, NEW b \in Blocks \ {Genesis}, RejectHeader(b)
    PROVE  ActiveInv'
<1>1. UNCHANGED <<linked, failedValid, seq, address, candidates, tip, activating, mostWork>> /\ ~aborted
  BY DEF RejectHeader, boundVars
<1>2. linked \subseteq Blocks /\ failedBlocks \subseteq failedValid
  BY Kinds DEF TreeInv, Marks, FailuresHaveACause
<1>3. CASE UNCHANGED <<aborted, failedChild>>
  <2>1. Failed' = Failed \cup {}
    BY <1>1, <1>3 DEF Failed
  <2>2. \A y \in linked : Clean(y)' <=> Clean(y)
    BY <2>1 DEF Clean
  <2> QED
    BY <1>1, <1>2, <1>3, <2>1, <2>2, MarksOnly
<1>4. ASSUME NEW f \in FailedAncestors(b), Parent[b] \in index, aborted' = (f \notin failedValid),
             failedChild' = failedChild \cup (Ancestors[Parent[b]] \ Ancestors[f])
      PROVE  ActiveInv'
  <2> DEFINE X == Ancestors[Parent[b]] \ Ancestors[f]
  <2>1. f \in Ancestors[Parent[b]] /\ f \in failedValid /\ f \in Failed /\ Parent[b] \in Blocks
    BY <1>2, <1>4, Kinds DEF FailedAncestors
  <2>2. \A x \in X : f \in Ancestors[x]
    BY <2>1, Between
  <2>3. Failed' = Failed \cup X
    BY <1>1, <1>4 DEF Failed
  <2>4. \A y \in Blocks : Clean(y)' <=> Clean(y)
    BY <2>1, <2>2, <2>3, CleanKept
  <2> HIDE DEF X
  <2> QED
    BY <1>1, <1>2, <1>4, <2>1, <2>3, <2>4, MarksOnly
<1> QED
  BY <1>3, <1>4 DEF RejectHeader

LEMMA HeaderActive ==
    ASSUME TreeInv, ActiveInv, NEW b \in Blocks, AcceptBlockHeader(b)
    PROVE  ActiveInv'
<1>1. UNCHANGED <<linked, failedValid, failedChild, seq, address, candidates, tip, activating, mostWork>> /\ ~aborted'
  BY DEF AcceptBlockHeader, boundVars, statusVars
<1>2. Failed' = Failed \cup {}
  BY <1>1 DEF Failed
<1>3. \A y \in linked : Clean(y)' <=> Clean(y)
  BY <1>2 DEF Clean
<1> QED
  BY <1>1, <1>2, <1>3, Kinds, MarksOnly

\* The first block with its number among the linked ones: what was linked keeps its
\* number, and what is new and no worse than the tip becomes a candidate.
LEMMA ReceivedActive ==
    ASSUME TreeInv, NEW b \in Blocks \ {Genesis}, b \notin data, Floor(tip), TipInv,
           ReceivedBlockTransactions(b), UNCHANGED <<failedValid, failedChild, tip, address, aborted>>
    PROVE  TipInv' /\ Floor(tip)'
<1>1. Failed' = Failed /\ tip \in linked /\ candidates \subseteq linked /\ linked \subseteq Blocks
  BY Kinds DEF Failed
<1>2. \A y : Clean(y)' <=> Clean(y)
  BY <1>1 DEF Clean
<1>3. CASE Parent[b] \in linked
  <2> DEFINE new == LinkedBy(b)
  <2>1. /\ linked' = linked \cup new
        /\ seq' = [x \in Blocks |-> IF x \in new THEN nBlockSequenceId + LinkedBefore(new, x) ELSE seq[x]]
        /\ candidates' = candidates \cup {x \in new : ~Worse(seq', x, tip)}
    BY <1>3 DEF ReceivedBlockTransactions
  <2>2. new \cap linked = {}
    <3>1. Waiting \cap linked = {} /\ b \notin linked
      BY Kinds DEF TreeInv, Links
    <3> QED
      BY <3>1 DEF LinkedBy
  <2> HIDE DEF new
  <2>3. \A x \in linked : seq'[x] = seq[x]
    BY <1>1, <2>1, <2>2
  <2>4. \A x \in linked : Worse(seq, x, tip)' <=> Worse(seq, x, tip)
    BY <1>1, <2>3 DEF Worse, WorseAt
  <2>5. \A x : Worse(seq, x, tip)' <=> Worse(seq', x, tip)
    BY DEF Worse, WorseAt
  <2>6. TipInv'
    BY <1>1, <1>2, <2>1, <2>4, <2>5 DEF TipInv
  <2>7. \A x \in linked' \ Failed' : ~Worse(seq, x, tip)' => x \in candidates'
    BY <1>1, <2>1, <2>4, <2>5 DEF Floor
  <2>8. Floor(tip)'
    BY <1>2, <2>1, <2>7 DEF Floor
  <2> QED
    BY <2>6, <2>8
<1>4. CASE Parent[b] \notin linked
  <2>1. UNCHANGED <<linked, seq, candidates>>
    BY <1>4 DEF ReceivedBlockTransactions
  <2>2. \A x : Worse(seq, x, tip)' <=> Worse(seq, x, tip)
    BY <2>1 DEF Worse, WorseAt
  <2> QED
    BY <1>1, <1>2, <2>1, <2>2 DEF TipInv, Floor
<1> QED
  BY <1>3, <1>4

LEMMA AcceptActive ==
    ASSUME OneThread, TreeInv, ActiveInv, NEW t \in Threads, NEW b \in Blocks \ {Genesis},
           NEW fRequested \in BOOLEAN, AcceptBlock(t, b, fRequested)
    PROVE  ActiveInv'
<1>1. /\ t \notin activating /\ UNCHANGED <<failedChild, tip, mostWork, aborted, address>>
  BY DEF AcceptBlock, boundVars
<1>2. activating = {} /\ Floor(tip) /\ TipInv /\ \A u \in Threads : mostWork'[u] = NoBlock
  BY <1>1, Alone DEF ActiveInv
<1>3. tip' \in Blocks /\ linked \subseteq Blocks /\ tip \in linked /\ ~aborted
  BY <1>1, <1>2, Kinds DEF TipInv
<1>4. CASE UNCHANGED <<linked, failedValid, seq, candidates>> /\ activating' = activating \cup {t}
  <2>1. activating' = {t} /\ Failed' = Failed
    BY <1>1, <1>2, <1>4 DEF Failed
  <2>2. \A x, y : Worse(seq, x, y)' <=> Worse(seq, x, y)
    BY <1>1, <1>4 DEF Worse, WorseAt
  <2>3. TipInv' /\ Floor(tip)'
    BY <1>1, <1>2, <1>4, <2>1, <2>2 DEF TipInv, Floor, Clean
  <2> QED
    BY <1>2, <1>3, <2>1, <2>3, CallBegins
<1>5. CASE /\ b \notin data /\ failedValid' = failedValid \cup {b}
           /\ UNCHANGED <<linked, seq, candidates, activating>>
  <2>1. Failed' = Failed \cup {b}
    BY <1>1, <1>5 DEF Failed
  <2>2. \A y \in linked : b \notin Ancestors[y]
    BY <1>5, LinkedClosed, Kinds
  <2>3. \A y \in linked : Clean(y)' <=> Clean(y)
    BY <2>1, <2>2 DEF Clean
  <2>4. ~aborted'
    BY <1>1, <1>3
  <2> QED
    BY <1>1, <1>3, <1>5, <2>1, <2>3, <2>4, MarksOnly
<1>6. CASE /\ b \notin data /\ ReceivedBlockTransactions(b) /\ activating' = activating \cup {t}
           /\ UNCHANGED failedValid
  <2>1. TipInv' /\ Floor(tip)'
    BY <1>1, <1>2, <1>6, ReceivedActive
  <2>2. activating' = {t}
    BY <1>2, <1>6
  <2> QED
    BY <1>2, <1>3, <2>1, <2>2, CallBegins
<1> QED
  BY <1>4, <1>5, <1>6 DEF AcceptBlock

\* The target of a turn: the best of the candidates.  What FindMostWorkChain dropped
\* is failed.
LEMMA TurnTarget ==
    ASSUME TreeInv, ActiveInv, NEW t \in Threads
    PROVE  /\ Target(t) \in linked /\ BestOf(Target(t))
           /\ LeftOver(t) \subseteq candidates /\ candidates \ LeftOver(t) \subseteq Failed \cup Passed(t)
           /\ \A x \in Passed(t) : Ancestors[x] \cap Failed # {}
<1>1. PICK r \in Blocks : Floor(r)
  BY DEF ActiveInv
<1>2. CASE mostWork[t] # NoBlock
  <2>1. Target(t) = mostWork[t] /\ LeftOver(t) = candidates /\ Passed(t) = {}
    BY <1>2 DEF Target, LeftOver, Passed
  <2>2. BestOf(mostWork[t])
    BY <1>2 DEF ActiveInv, TargetInv
  <2>3. mostWork[t] \in linked
    BY <2>2, Kinds DEF BestOf
  <2> QED
    BY <2>1, <2>2, <2>3
<1>3. CASE mostWork[t] = NoBlock
  <2> DEFINE m == FindMostWorkChain
  <2>1. Target(t) = m /\ LeftOver(t) = candidates \ Dropped /\ Passed(t) = Marked
    BY <1>3 DEF Target, LeftOver, Passed
  <2>2. \A c \in candidates : Clean(c) => c \notin Unusable
    BY DEF Clean, Unusable, OffChain
  <2>3. candidates \ Unusable # {}
    BY <1>1, <2>2 DEF Floor
  <2>4. m \in candidates \ Unusable /\ \A d \in candidates \ Unusable : d = m \/ Worse(seq, d, m)
    BY <2>3, FoundIs
  <2> HIDE DEF m
  <2>5. Clean(m)
    <3>1. OffChain(m) \cap Failed = {} /\ Ancestors[tip] \cap Failed = {}
      BY <2>4 DEF Unusable, ActiveInv, TipInv, Clean
    <3> QED
      BY <3>1 DEF OffChain, Clean
  <2>6. BestOf(m) /\ m \in linked
    BY <2>2, <2>4, <2>5, Kinds DEF BestOf
  <2> QED
    BY <2>1, <2>6, MarkedIs
<1> QED
  BY <1>2, <1>3

\* Where a step towards a target that is not the tip ends.
LEMMA StepGoes ==
    ASSUME TreeInv, ActiveInv, NEW m \in linked, BestOf(m), m # tip
    PROVE  /\ StepEnd(m) \in OffChain(m) /\ StepEnd(m) \in linked /\ Clean(StepEnd(m))
           /\ \A x \in Ancestors[StepEnd(m)] \ {StepEnd(m)} :
                 x \in Connects /\ (x \in OffChain(m) => Work[x] <= Work[tip])
           /\ m \notin Ancestors[StepEnd(m)] \ {StepEnd(m)}
           /\ StepEnd(m) = m \/ StepEnd(m) \notin Connects \/ Work[StepEnd(m)] > Work[tip]
<1> DEFINE e == StepEnd(m)
<1>1. m \in Blocks /\ tip \in Blocks /\ m \in Ancestors[m]
  BY Kinds, TreeFacts
<1>2. m \notin Ancestors[tip]
  <2>1. ~Worse(seq, m, tip)
    BY DEF ActiveInv, TipInv, BestOf
  <2>2. m \in Ancestors[tip] => Work[m] < Work[tip]
    BY <1>1, Below
  <2> QED
    BY <1>1, <2>1, <2>2, Ranked
<1>3. /\ e \in Stops(m) /\ e \in Ancestors[m] /\ e \in linked /\ e \in Blocks
      /\ \A x \in Stops(m) : Height[e] <= Height[x]
  BY StepEndIs, Kinds
<1> HIDE DEF e
<1>4. e \in OffChain(m) /\ (e = m \/ e \notin Connects \/ Work[e] > Work[tip])
  BY <1>1, <1>2, <1>3 DEF Stops, OffChain
<1>5. Ancestors[e] \subseteq Ancestors[m]
  BY <1>1, <1>3, Below
<1>6. Clean(e)
  BY <1>5 DEF BestOf, Clean
<1>7. \A x \in Ancestors[e] \ {e} : x \in Blocks /\ Height[x] < Height[e] /\ Height[x] \in Nat /\ Height[e] \in Nat
                                   /\ Work[x] \in Nat
  BY <1>3, Below, TreeFacts
<1>8. \A x \in Ancestors[e] \ {e} : x \notin Stops(m)
  BY <1>3, <1>7
<1>9. ASSUME NEW x \in Ancestors[e] \ {e}
      PROVE  x \in Connects /\ (x \in OffChain(m) => Work[x] <= Work[tip]) /\ x # m
  <2>1. CASE x \in OffChain(m)
    <3>1. x \in Connects /\ ~(Work[x] > Work[tip]) /\ x # m
      BY <1>8, <2>1 DEF Stops
    <3> QED
      BY <1>1, <1>7, <3>1, TreeFacts
  <2>2. CASE x \notin OffChain(m)
    <3>1. x \in Ancestors[tip]
      BY <1>5, <2>2 DEF OffChain
    <3> QED
      BY <1>8, <2>2, <3>1 DEF ActiveInv, TipInv, Stops
  <2> QED
    BY <2>1, <2>2
<1> QED
  BY <1>3, <1>4, <1>6, <1>9 DEF e

\* PruneBlockIndexCandidates with a tip that is known to connect leaves a floor.
LEMMA PrunedFloor ==
    ASSUME TreeInv, NEW r \in Blocks, Floor(r), NEW p \in linked, Clean(p), Ancestors[p] \subseteq Connects,
           NEW c \in SUBSET candidates, candidates \ c \subseteq Failed',
           NEW Y \in SUBSET Failed', candidates' = Prune(c, seq, p) \ Y,
           Clean(r)', Clean(p)', Failed \subseteq Failed', UNCHANGED <<linked, seq, address>>
    PROVE  (\E q \in Blocks : Floor(q)') /\ Prune(c, seq, p) # {}
<1>1. p \in Blocks /\ r \in linked /\ candidates \subseteq Blocks /\ Clean(r) /\ Ancestors[r] \subseteq Connects
  BY Kinds DEF Floor
<1>2. ASSUME NEW q \in linked, Clean(q), Clean(q)', Ancestors[q] \subseteq Connects,
             q = r \/ Worse(seq, r, q), q = p \/ Worse(seq, p, q)
      PROVE  q \in Blocks /\ Floor(q)' /\ q \in Prune(c, seq, p)
  <2>1. q \in Blocks /\ Floor(q)
    BY <1>2, FloorUp, Kinds
  <2>2. q \in candidates /\ q \notin Failed'
    <3>1. q \in Ancestors[q] /\ Ancestors[q] \cap Failed' = {}
      BY <1>2, <2>1, TreeFacts DEF Clean
    <3> QED
      BY <2>1, <3>1 DEF Floor
  <2>3. q \in Prune(c, seq, p) /\ q \in candidates'
    <3>1. ~Worse(seq, q, p)
      BY <1>1, <1>2, <2>1, Ranked
    <3> QED
      BY <2>2, <3>1 DEF Prune
  <2>4. \A b \in candidates \ candidates' : b \in Failed' \/ Worse(seq, b, q)
    <3> SUFFICES ASSUME NEW b \in candidates \ candidates', b \notin Failed' PROVE Worse(seq, b, q)
      OBVIOUS
    <3>1. b \in Blocks /\ Worse(seq, b, p)
      BY <1>1 DEF Prune
    <3> QED
      BY <1>1, <1>2, <2>1, <3>1, Ranked
  <2>5. Floor(q)'
    BY <1>2, <2>1, <2>3, <2>4, FloorKept
  <2> QED
    BY <2>1, <2>3, <2>5
<1>3. CASE Worse(seq, r, p)
  BY <1>1, <1>2, <1>3
<1>4. CASE ~Worse(seq, r, p)
  <2>1. r = p \/ Worse(seq, p, r)
    BY <1>1, <1>4, Ranked
  <2> QED
    BY <1>1, <1>2, <2>1
<1> QED
  BY <1>3, <1>4

\* A step that ends at a block e that connects: at the target, or with more work
\* than before.
LEMMA StepConnects ==
    ASSUME TreeInv, ActiveInv, NEW t \in activating, activating = {t}, NEW m \in linked, m # tip, BestOf(m),
           NEW c \in SUBSET candidates, NEW X, candidates \ c \subseteq Failed \cup X,
           \A x \in X : Ancestors[x] \cap Failed # {}, failedChild' = failedChild \cup X,
           UNCHANGED <<linked, seq, address>>, ActivateBestChainStep(t, m, c),
           NEW e \in Connects, e = StepEnd(m)
    PROVE  ActiveInv' /\ (t \in activating' => Work[tip'] > Work[tip])
<1>1. /\ e \in OffChain(m) /\ e \in linked /\ Clean(e) /\ e \in Blocks /\ m \in Blocks /\ e \in Ancestors[e]
      /\ Ancestors[e] \subseteq Connects /\ (e = m \/ Work[e] > Work[tip])
  BY StepGoes, Kinds, TreeFacts
<1>2. InvalidBlockFound(e) = {} /\ e \in OffChain(m) \cap Ancestors[e]
  BY <1>1 DEF InvalidBlockFound
<1>3. /\ tip' = e /\ candidates' = Prune(c, seq, e) \ {} /\ failedValid' = failedValid
      /\ aborted' = (Prune(c, seq, e) = {})
      /\ mostWork' = [mostWork EXCEPT ![t] = IF e # m THEN m ELSE NoBlock]
      /\ activating' = IF e = m THEN activating \ {t} ELSE activating
  BY <1>2 DEF ActivateBestChainStep
<1>4. Failed' = Failed \cup X
  BY <1>3 DEF Failed
<1>5. \A y \in Blocks : Clean(y)' <=> Clean(y)
  BY <1>4, CleanKept
<1>6. PICK r \in Blocks : Floor(r)
  BY DEF ActiveInv
<1>7. Clean(r)' /\ Clean(e)' /\ Clean(m)'
  BY <1>1, <1>5, <1>6 DEF Floor, BestOf
<1>8. (\E q \in Blocks : Floor(q)') /\ Prune(c, seq, e) # {}
  <2>1. {} \in SUBSET Failed' /\ candidates \ c \subseteq Failed' /\ Failed \subseteq Failed'
    BY <1>4
  <2> QED
    BY <1>1, <1>3, <1>6, <1>7, <2>1, PrunedFloor
<1>9. BestOf(m)'
  <2>1. ~Worse(seq, m, e)
    <3>1. e # m => Work[e] < Work[m]
      BY <1>1, Below DEF OffChain
    <3> QED
      BY <1>1, <3>1, Ranked
  <2>2. m \in candidates /\ m \notin Failed'
    BY <1>1, <1>7, TreeFacts DEF BestOf, Clean
  <2>3. m \in candidates' /\ candidates' \subseteq candidates
    BY <1>3, <1>4, <2>1, <2>2 DEF Prune
  <2>4. Failed \subseteq Failed'
    BY <1>4
  <2> QED
    BY <1>1, <1>7, <2>3, <2>4, BestKept
<1>10. TipInv'
  <2>1. \A b : Worse(seq, b, tip)' <=> Worse(seq, b, e)
    BY <1>3 DEF Worse, WorseAt
  <2>2. Clean(tip)'
    BY <1>3, <1>7 DEF Clean
  <2> QED
    BY <1>1, <1>3, <1>8, <2>1, <2>2 DEF TipInv, Prune
<1>11. mostWork \in [Threads -> linked \cup {NoBlock}] /\ activating \subseteq Threads
       /\ \A u \in Threads : u # t => mostWork[u] = NoBlock
  BY DEF TreeInv, Numbers, ActiveInv, TargetInv
<1>12. CASE e = m
  <2>1. activating' = {} /\ tip' = m /\ \A u \in Threads : mostWork'[u] = NoBlock
    BY <1>3, <1>11, <1>12
  <2>2. Floor(m)'
    <3>1. r = m \/ Worse(seq, r, m)
      BY <1>6 DEF BestOf, Floor
    <3>2. Floor(m)
      BY <1>1, <1>6, <1>12, <3>1, FloorUp
    <3>3. m \in candidates'
      BY <1>9 DEF BestOf
    <3>4. \A b \in candidates \ candidates' : b \in Failed' \/ Worse(seq, b, m)
      BY <1>3, <1>4, <1>12 DEF Prune
    <3>5. Failed \subseteq Failed'
      BY <1>4
    <3> QED
      BY <1>1, <1>7, <3>2, <3>3, <3>4, <3>5, FloorKept
  <2>3. TargetInv'
    BY <2>1 DEF TargetInv
  <2>4. (Floor(tip) /\ BestOf(tip))'
    <3>1. \A b : Worse(seq, b, tip)' <=> Worse(seq, b, m)'
      BY <2>1 DEF Worse, WorseAt
    <3> QED
      BY <1>9, <2>1, <2>2, <3>1 DEF Floor, BestOf, Clean
  <2> QED
    BY <1>8, <1>10, <2>1, <2>3, <2>4 DEF ActiveInv
<1>13. CASE e # m
  <2>1. activating' = activating /\ mostWork'[t] = m /\ \A u \in Threads : u # t => mostWork'[u] = NoBlock
    BY <1>3, <1>11, <1>13
  <2>2. TargetInv'
    <3>1. tip' \in Ancestors[m] \ {m}
      BY <1>1, <1>3, <1>13 DEF OffChain
    <3> SUFFICES ASSUME NEW u \in Threads, mostWork'[u] # NoBlock
                 PROVE  u \in activating' /\ BestOf(mostWork[u])' /\ tip' \in Ancestors[mostWork'[u]] \ {mostWork'[u]}
      BY DEF TargetInv
    <3>2. u = t /\ mostWork'[u] = m
      BY <2>1
    <3>3. BestOf(mostWork[u])'
      <4>1. \A b : Worse(seq, b, mostWork[u])' <=> Worse(seq, b, m)'
        BY <3>2 DEF Worse, WorseAt
      <4> QED
        BY <1>9, <3>2, <4>1 DEF BestOf, Clean
    <3> QED
      BY <2>1, <3>1, <3>2, <3>3
  <2>3. activating' # {} /\ Work[tip'] > Work[tip]
    BY <1>1, <1>3, <1>13, <2>1
  <2> QED
    BY <1>8, <1>10, <2>2, <2>3 DEF ActiveInv
<1> QED
  BY <1>12, <1>13

\* A step that ends at a block e that does not connect: e is marked, and its thread
\* looks for another target.
LEMMA StepFails ==
    ASSUME TreeInv, ActiveInv, NEW t \in activating, activating = {t}, NEW m \in linked, m # tip, BestOf(m),
           NEW c \in SUBSET candidates, NEW X, candidates \ c \subseteq Failed \cup X,
           \A x \in X : Ancestors[x] \cap Failed # {}, failedChild' = failedChild \cup X,
           UNCHANGED <<linked, seq, address>>, ActivateBestChainStep(t, m, c),
           NEW e \in linked, e = StepEnd(m), e \notin Connects
    PROVE  ActiveInv' /\ failedValid' # failedValid
<1>1. /\ e \in OffChain(m) /\ Clean(e) /\ e \in Blocks /\ m \in Blocks /\ e \in Ancestors[e] /\ tip \in Blocks
      /\ \A x \in Ancestors[e] \ {e} : x \in Connects /\ (x \in OffChain(m) => Work[x] <= Work[tip])
      /\ m \notin Ancestors[e] \ {e}
  BY StepGoes, Kinds, TreeFacts
<1>2. PICK p \in Blocks : p = Parent[e]
  BY <1>1, TreeFacts
<1>3. /\ p \in linked /\ Ancestors[p] = Ancestors[e] \ {e} /\ p \in Ancestors[p] /\ p # m
  <2>1. e # Genesis
    BY TreeFacts
  <2>2. Ancestors[e] = Ancestors[p] \cup {e} /\ Height[p] < Height[e] /\ Height[p] \in Nat /\ Height[e] \in Nat
    BY <1>1, <1>2, <2>1, TreeFacts
  <2>3. p \in Ancestors[p]
    BY TreeFacts
  <2>4. e \notin Ancestors[p]
    BY <2>2, Below
  <2>5. p \in linked
    BY <2>2, <2>3, LinkedClosed
  <2> QED
    BY <1>1, <2>2, <2>3, <2>4, <2>5
<1> DEFINE connected == OffChain(m) \cap Ancestors[p]
<1>4. InvalidBlockFound(e) = {e}
  BY DEF InvalidBlockFound
<1>5. /\ tip' = p /\ candidates' = (IF connected = {} THEN c ELSE Prune(c, seq, p)) \ {e}
      /\ failedValid' = failedValid \cup {e}
      /\ aborted' = (connected # {} /\ Prune(c, seq, p) = {})
      /\ mostWork' = [mostWork EXCEPT ![t] = NoBlock]
      /\ activating' = activating
  BY <1>2, <1>3, <1>4 DEF ActivateBestChainStep
<1>6. Failed' = (Failed \cup X) \cup {e}
  BY <1>5 DEF Failed
<1>7. \A y \in Blocks : Clean(y) /\ e \notin Ancestors[y] => Clean(y)'
  <2> SUFFICES ASSUME NEW y \in Blocks, Clean(y), e \notin Ancestors[y], NEW x \in Ancestors[y], x \in X PROVE FALSE
    BY <1>6 DEF Clean
  <2>1. Ancestors[x] \subseteq Ancestors[y]
    BY Below
  <2> QED
    BY <2>1 DEF Clean
<1>8. PICK r \in Blocks : Floor(r)
  BY DEF ActiveInv
<1>9. Clean(p) /\ Clean(p)' /\ Ancestors[p] \subseteq Connects
  BY <1>1, <1>3, <1>7 DEF Clean
<1>10. Clean(r)' /\ r \in candidates /\ r \notin Failed'
  <2>1. Clean(r) /\ e \notin Ancestors[r] /\ r \in candidates
    BY <1>8 DEF Floor
  <2>2. Clean(r)'
    BY <1>7, <2>1
  <2> QED
    BY <2>1, <2>2, TreeFacts DEF Clean
<1>11. {e} \in SUBSET Failed' /\ candidates \ c \subseteq Failed' /\ Failed \subseteq Failed'
  BY <1>6
<1>12. \A b : Worse(seq, b, tip)' <=> Worse(seq, b, p)
  BY <1>5 DEF Worse, WorseAt
<1>13. ASSUME connected = {}
       PROVE  (\E q \in Blocks : Floor(q)') /\ ~aborted' /\ \A b \in candidates' : ~Worse(seq, b, p)
  <2>1. candidates' = c \ {e} /\ ~aborted'
    BY <1>5, <1>13
  <2>2. r \in candidates' /\ \A b \in candidates \ candidates' : b \in Failed' \/ Worse(seq, b, r)
    BY <1>10, <1>11, <2>1
  <2>3. Floor(r)'
    BY <1>8, <1>10, <1>11, <2>2, FloorKept
  <2>4. p \in Ancestors[tip]
    <3>1. p \in Ancestors[m]
      BY <1>1, <1>3, Below DEF OffChain
    <3> QED
      BY <1>3, <1>13, <3>1 DEF OffChain
  <2>5. p = tip \/ Work[p] < Work[tip]
    BY <1>1, <2>4, Below
  <2>6. \A b \in candidates : b \in Blocks /\ ~Worse(seq, b, tip)
    BY Kinds DEF ActiveInv, TipInv
  <2>7. \A b \in candidates : ~Worse(seq, b, p)
    BY <1>1, <2>5, <2>6, Ranked
  <2> QED
    BY <2>1, <2>3, <2>7
<1>14. ASSUME connected # {}
       PROVE  (\E q \in Blocks : Floor(q)') /\ ~aborted' /\ \A b \in candidates' : ~Worse(seq, b, p)
  <2>1. candidates' = Prune(c, seq, p) \ {e} /\ (aborted' <=> Prune(c, seq, p) = {})
    BY <1>5, <1>14
  <2>2. (\E q \in Blocks : Floor(q)') /\ Prune(c, seq, p) # {}
    BY <1>3, <1>8, <1>9, <1>10, <1>11, <2>1, PrunedFloor
  <2> QED
    BY <2>1, <2>2 DEF Prune
<1>15. (\E q \in Blocks : Floor(q)') /\ ~aborted' /\ \A b \in candidates' : ~Worse(seq, b, p)
  BY <1>13, <1>14
<1>16. TipInv'
  <2>1. Clean(tip)' /\ Ancestors[tip'] \subseteq Connects
    BY <1>5, <1>9 DEF Clean
  <2> QED
    BY <1>12, <1>15, <2>1 DEF TipInv
<1>17. \A u \in Threads : mostWork'[u] = NoBlock
  <2>1. mostWork \in [Threads -> linked \cup {NoBlock}] /\ \A u \in Threads : u # t => mostWork[u] = NoBlock
    BY DEF TreeInv, Numbers, ActiveInv, TargetInv
  <2> QED
    BY <1>5, <2>1
<1>18. TargetInv' /\ activating' # {}
  BY <1>5, <1>17 DEF TargetInv
<1>19. e \notin failedValid
  BY <1>1 DEF Clean, Failed
<1> QED
  BY <1>5, <1>15, <1>16, <1>18, <1>19 DEF ActiveInv

LEMMA ActivateActive ==
    ASSUME OneThread, TreeInv, ActiveInv, NEW t \in Threads, ActivateBestChain(t)
    PROVE  /\ ActiveInv'
           /\ t \in activating' => failedValid' # failedValid \/ Work[tip'] > Work[tip]
<1>1. PICK m : m = Target(t)
  OBVIOUS
<1>2. PICK c : c = LeftOver(t)
  OBVIOUS
<1>3. PICK X : X = Passed(t)
  OBVIOUS
<1>4. /\ t \in activating /\ UNCHANGED <<linked, seq, address>> /\ failedChild' = failedChild \cup X
      /\ IF m \in {NoBlock, tip}
         THEN /\ candidates' = c
              /\ activating' = activating \ {t} /\ mostWork' = [mostWork EXCEPT ![t] = NoBlock]
              /\ UNCHANGED <<failedValid, tip, aborted>>
         ELSE ActivateBestChainStep(t, m, c)
  BY <1>1, <1>2, <1>3 DEF ActivateBestChain, Target, LeftOver, Passed, boundVars
<1>5. activating = {t}
  BY <1>4 DEF OneThread, TreeInv, Numbers
<1>6. /\ m \in linked /\ BestOf(m) /\ c \in SUBSET candidates /\ candidates \ c \subseteq Failed \cup X
      /\ \A x \in X : Ancestors[x] \cap Failed # {}
  BY <1>1, <1>2, <1>3, TurnTarget
<1>7. m \in Blocks /\ m # NoBlock /\ tip \in Blocks
  BY <1>6, Kinds, TreeFacts
<1>8. CASE m = tip
  <2>1. candidates' = c /\ activating' = {} /\ mostWork' = [mostWork EXCEPT ![t] = NoBlock]
        /\ UNCHANGED <<failedValid, tip, aborted>>
    BY <1>4, <1>5, <1>8
  <2>2. Failed' = Failed \cup X
    BY <1>4, <2>1 DEF Failed
  <2>3. \A y \in Blocks : Clean(y)' <=> Clean(y)
    BY <1>6, <2>2, CleanKept
  <2>4. PICK r \in Blocks : Floor(r)
    BY DEF ActiveInv
  <2>5. Floor(m)
    <3>1. r = m \/ Worse(seq, r, m)
      BY <1>6, <2>4 DEF BestOf, Floor
    <3>2. Clean(m) /\ Ancestors[m] \subseteq Connects
      BY <1>8 DEF ActiveInv, TipInv
    <3> QED
      BY <1>6, <2>4, <3>1, <3>2, FloorUp
  <2>6. Clean(m)' /\ m \in candidates' /\ candidates' \subseteq candidates /\ Failed \subseteq Failed'
        /\ \A b \in candidates \ candidates' : b \in Failed'
    <3>1. Clean(m)' /\ m \in candidates
      BY <1>6, <1>7, <2>3 DEF BestOf
    <3>2. m \notin Failed'
      BY <1>7, <3>1, TreeFacts DEF Clean
    <3> QED
      BY <1>6, <2>1, <2>2, <3>1, <3>2
  <2>7. Floor(m)' /\ BestOf(m)'
    BY <1>4, <1>6, <1>7, <2>5, <2>6, FloorKept, BestKept
  <2>8. \A b : Worse(seq, b, tip)' <=> Worse(seq, b, m)'
    BY <1>8, <2>1 DEF Worse, WorseAt
  <2>9. (Floor(tip) /\ BestOf(tip))'
    BY <1>8, <2>1, <2>7, <2>8 DEF Floor, BestOf, Clean
  <2>10. \A b : Worse(seq, b, tip)' <=> Worse(seq, b, tip)
    BY <1>4, <2>1 DEF Worse, WorseAt
  <2>11. TipInv'
    BY <1>7, <2>1, <2>3, <2>6, <2>10 DEF ActiveInv, TipInv, Clean
  <2>12. \A u \in Threads : mostWork'[u] = NoBlock
    <3>1. mostWork \in [Threads -> linked \cup {NoBlock}] /\ \A u \in Threads : u # t => mostWork[u] = NoBlock
      BY <1>5 DEF TreeInv, Numbers, ActiveInv, TargetInv
    <3> QED
      BY <2>1, <3>1
  <2>13. TargetInv'
    BY <2>12 DEF TargetInv
  <2> QED
    BY <1>7, <2>1, <2>7, <2>9, <2>11, <2>13 DEF ActiveInv
<1>9. CASE m # tip
  <2>1. ActivateBestChainStep(t, m, c)
    BY <1>4, <1>7, <1>9
  <2>2. PICK e \in linked : e = StepEnd(m)
    BY <1>6, StepEndIs
  <2>3. CASE e \in Connects
    BY <1>4, <1>5, <1>6, <1>9, <2>1, <2>2, <2>3, StepConnects
  <2>4. CASE e \notin Connects
    BY <1>4, <1>5, <1>6, <1>9, <2>1, <2>2, <2>4, StepFails
  <2> QED
    BY <2>3, <2>4
<1> QED
  BY <1>8, <1>9

LEMMA InvalidateActive ==
    ASSUME OneThread, Careful, TreeInv, ActiveInv, NEW t \in Threads, NEW b \in Blocks, InvalidateBlock(t, b)
    PROVE  ActiveInv'
<1>1. PICK above : above = IF b \in Ancestors[tip] THEN Ancestors[tip] \ Ancestors[b] ELSE {}
  OBVIOUS
<1>2. PICK p : p = IF b \in Ancestors[tip] THEN Parent[b] ELSE tip
  OBVIOUS
<1>3. /\ b \in linked /\ b # Genesis /\ t \notin activating /\ activating' = activating \cup {t}
      /\ tip' = p /\ failedChild' = failedChild \cup above /\ failedValid' = failedValid \cup {b}
      /\ candidates' = (candidates \ (above \cup {b}))
                       \cup {x \in (index \ (Failed \cup above \cup {b})) \cap linked : ~Worse(seq, x, p)}
      /\ UNCHANGED <<linked, seq, mostWork, aborted, address>>
  BY <1>1, <1>2 DEF InvalidateBlock, OperatorCall, CandidatesFrom
<1>4. activating' = {t} /\ TipInv /\ \A u \in Threads : mostWork'[u] = NoBlock
  BY <1>3, Alone DEF ActiveInv
<1>5. /\ tip \in Blocks /\ tip \in linked /\ b \in Ancestors[b] /\ Parent[b] \in Blocks
      /\ Ancestors[b] = Ancestors[Parent[b]] \cup {b} /\ Parent[b] \in Ancestors[b]
  BY <1>3, Kinds, TreeFacts
<1>6. b \notin Ancestors[Parent[b]]
  <2>1. Work[Parent[b]] < Work[b] /\ Work[b] \in Nat /\ Work[Parent[b]] \in Nat
    BY <1>3, TreeFacts
  <2>2. b \in Ancestors[Parent[b]] => b = Parent[b] \/ Work[b] < Work[Parent[b]]
    BY <1>5, Below
  <2> QED
    BY <2>1, <2>2
<1>7. Failed' = Failed \cup (above \cup {b})
  BY <1>3 DEF Failed
<1>8. /\ p \in linked /\ p \in Blocks /\ Ancestors[p] \subseteq Ancestors[tip]
      /\ Ancestors[p] \cap (above \cup {b}) = {} /\ (p = tip \/ Work[p] < Work[tip])
  <2>1. CASE b \in Ancestors[tip]
    <3>1. p = Parent[b] /\ above = Ancestors[tip] \ Ancestors[b] /\ Ancestors[b] \subseteq Ancestors[tip]
      BY <1>1, <1>2, <1>5, <2>1, Below
    <3>2. p \in Ancestors[tip]
      BY <1>5, <3>1
    <3>3. p \in linked /\ (p = tip \/ Work[p] < Work[tip])
      BY <1>5, <3>2, LinkedClosed, Below
    <3> QED
      BY <1>5, <1>6, <3>1, <3>3
  <2>2. CASE b \notin Ancestors[tip]
    BY <1>1, <1>2, <1>5, <2>2
  <2> QED
    BY <2>1, <2>2
<1>9. Clean(p)' /\ Ancestors[p] \subseteq Connects /\ p \in Ancestors[p]
  BY <1>4, <1>7, <1>8, TreeFacts DEF TipInv, Clean
<1>10. \A x : Worse(seq, x, tip)' <=> Worse(seq, x, p)
  BY <1>3 DEF Worse, WorseAt
<1>11. \A x \in candidates' : ~Worse(seq, x, p)
  <2>1. \A x \in candidates : x \in Blocks /\ ~Worse(seq, x, tip)
    BY <1>4, Kinds DEF TipInv
  <2>2. \A x \in candidates : ~Worse(seq, x, p)
    BY <1>5, <1>8, <2>1, Ranked
  <2> QED
    BY <1>3, <2>2
<1>12. \A x \in linked \ Failed' : ~Worse(seq, x, p) => x \in candidates'
  BY <1>3, <1>7, Kinds
<1>13. p \in candidates'
  <2>1. p \notin Failed' /\ ~Worse(seq, p, p)
    BY <1>8, <1>9, Ranked DEF Clean
  <2> QED
    BY <1>8, <1>12, <2>1
<1>14. TipInv'
  <2>1. Clean(tip)' /\ Ancestors[tip'] \subseteq Connects
    BY <1>3, <1>9 DEF Clean
  <2> QED
    BY <1>3, <1>4, <1>10, <1>11, <2>1 DEF TipInv
<1>15. Floor(tip)'
  <2>1. Clean(tip)' /\ Ancestors[tip'] \subseteq Connects
    BY <1>3, <1>9 DEF Clean
  <2> QED
    BY <1>3, <1>10, <1>12, <1>13, <2>1 DEF Floor
<1> QED
  BY <1>3, <1>4, <1>8, <1>14, <1>15, CallBegins

LEMMA ResetActive ==
    ASSUME OneThread, Careful, TreeInv, ActiveInv, NEW t \in Threads, NEW b \in Blocks, ResetBlockFailureFlags(t, b)
    PROVE  ActiveInv'
<1>1. /\ t \notin activating /\ activating' = activating \cup {t}
      /\ (Ancestors[b] \ {b}) \cap Failed = {}
      /\ candidates' = candidates \cup {x \in Reset(b) \cap linked : Worse(seq, tip, x)}
      /\ UNCHANGED <<linked, seq, tip, mostWork, aborted, address>>
      /\ Failed' = Failed \ (Reset(b) \cup Ancestors[b])
  BY DEF ResetBlockFailureFlags, CarefulReset, OperatorCall, Reconsidered, Failed
<1>2. activating' = {t} /\ TipInv /\ Floor(tip) /\ \A u \in Threads : mostWork'[u] = NoBlock
  BY <1>1, Alone DEF ActiveInv
<1>3. tip \in Blocks /\ linked \subseteq Blocks /\ tip \notin Failed /\ b \in Ancestors[b]
  BY <1>2, Kinds, TreeFacts DEF TipInv, Clean
<1>4. \A x, y : Worse(seq, x, y)' <=> Worse(seq, x, y)
  BY <1>1 DEF Worse, WorseAt
<1>5. Clean(tip)'
  BY <1>1, <1>2 DEF TipInv, Clean
<1>6. \A x \in candidates' : ~Worse(seq, x, tip)
  BY <1>1, <1>2, <1>3, Ranked DEF TipInv
<1>7. ASSUME NEW x \in linked \ Failed', ~Worse(seq, x, tip) PROVE x \in candidates'
  <2>1. CASE x \notin Failed
    BY <1>1, <1>2, <1>7, <2>1 DEF Floor
  <2>2. CASE x \in Failed
    <3>1. x \in Reset(b)
      BY <1>1, <1>3, <2>2 DEF Reset
    <3>2. Worse(seq, tip, x)
      BY <1>3, <1>7, <2>2, Ranked
    <3> QED
      BY <1>1, <3>1, <3>2
  <2> QED
    BY <2>1, <2>2
<1>8. TipInv'
  BY <1>1, <1>2, <1>4, <1>5, <1>6 DEF TipInv
<1>9. Floor(tip)'
  BY <1>1, <1>2, <1>4, <1>5, <1>7 DEF Floor
<1> QED
  BY <1>1, <1>2, <1>3, <1>8, <1>9, CallBegins

LEMMA PreciousActive ==
    ASSUME OneThread, Careful, TreeInv, ActiveInv, NEW t \in Threads, NEW b \in Blocks, PreciousBlock(t, b)
    PROVE  ActiveInv'
<1>1. PICK id \in Int :
        /\ b = tip => id <= seq[b]
        /\ seq' = [seq EXCEPT ![b] = id]
  <2> DEFINE i == IF Work[tip] > nLastPreciousChainwork THEN -1 ELSE nBlockReverseSequenceId
  <2>1. i \in Int
    BY DEF TreeInv, Numbers
  <2>2. (b = tip => i <= seq[b]) /\ seq' = [seq EXCEPT ![b] = i]
    BY DEF PreciousBlock
  <2> HIDE DEF i
  <2> QED
    BY <2>1, <2>2
<1>2. /\ t \notin activating /\ activating' = activating \cup {t}
      /\ candidates' = IF b \in linked \ Failed THEN Prune(candidates \cup {b}, seq', tip) ELSE candidates \ {b}
      /\ aborted' = (b \in linked \ Failed /\ candidates' = {})
      /\ UNCHANGED <<linked, failedValid, failedChild, tip, mostWork, address>>
  BY DEF PreciousBlock, OperatorCall, statusVars
<1>3. activating' = {t} /\ TipInv /\ Floor(tip) /\ \A u \in Threads : mostWork'[u] = NoBlock
  BY <1>2, Alone DEF ActiveInv
<1>4. Failed' = Failed
  BY <1>2 DEF Failed
<1>5. /\ tip \in Blocks /\ linked \subseteq Blocks /\ tip \in linked \ Failed /\ tip \in candidates
      /\ seq \in [Blocks -> Int] /\ address \in Addresses /\ candidates \subseteq linked
  BY <1>3, Kinds, TreeFacts DEF TipInv, Clean, Floor, TreeInv, Numbers
<1>6. \A x \in Blocks : seq[x] \in Int /\ seq'[x] = (IF x = b THEN id ELSE seq[x]) /\ Work[x] \in Nat
  BY <1>1, <1>5, TreeFacts
<1>7. \A x \in Blocks : x # b /\ Worse(seq, x, tip) => Worse(seq', x, tip)
  BY <1>1, <1>5, <1>6 DEF Worse, WorseAt
<1>8. b # tip => \A x \in Blocks : x # b => (Worse(seq', x, tip) <=> Worse(seq, x, tip))
  BY <1>5, <1>6 DEF Worse, WorseAt
<1>9. ~Worse(seq', tip, tip)
  <2>1. seq' \in [Blocks -> Int]
    BY <1>1, <1>5
  <2> QED
    BY <1>5, <2>1, Ordered DEF Worse
<1>10. tip \in candidates' /\ ~aborted'
  BY <1>2, <1>5, <1>9 DEF Prune
<1>11. \A x \in candidates' : ~Worse(seq', x, tip)
  <2>1. CASE b \in linked \ Failed
    BY <1>2, <2>1 DEF Prune
  <2>2. CASE b \notin linked \ Failed
    BY <1>2, <1>3, <1>5, <1>8, <2>2 DEF TipInv
  <2> QED
    BY <2>1, <2>2
<1>12. ASSUME NEW x \in linked \ Failed, ~Worse(seq', x, tip) PROVE x \in candidates'
  <2>1. x \in Blocks /\ (x # b => x \in candidates)
    BY <1>3, <1>5, <1>7, <1>12 DEF Floor
  <2> QED
    BY <1>2, <1>12, <2>1 DEF Prune
<1>13. \A x : Worse(seq, x, tip)' <=> Worse(seq', x, tip)
  BY <1>2 DEF Worse, WorseAt
<1>14. TipInv'
  BY <1>2, <1>3, <1>4, <1>10, <1>11, <1>13 DEF TipInv, Clean
<1>15. Floor(tip)'
  BY <1>2, <1>3, <1>4, <1>10, <1>12, <1>13 DEF Floor, Clean
<1> QED
  BY <1>2, <1>3, <1>5, <1>14, <1>15, CallBegins

LEMMA RestartActive ==
    ASSUME TreeInv, ActiveInv, Restart
    PROVE  ActiveInv'
<1>1. PICK below : below = {b \in index \ Failed : Ancestors[b] \cap Failed # {}}
  OBVIOUS
<1>2. /\ address' \in Addresses /\ seq' = [b \in Blocks |-> 0] /\ linked' = linked
      /\ failedChild' = failedChild \cup below
      /\ candidates' = {b \in linked \ (Failed \cup below) : ~WorseAt(seq', address', b, tip)}
      /\ aborted' = (candidates' = {})
      /\ \A u \in Threads : mostWork'[u] = NoBlock
      /\ UNCHANGED <<failedValid, tip>>
  BY <1>1, RestartTree DEF Restart
<1>3. PICK t \in Threads : activating' = {t}
  BY DEF Restart
<1>4. Failed' = Failed \cup below
  BY <1>2 DEF Failed
<1>5. \A y \in Blocks : Clean(y)' <=> Clean(y)
  BY <1>1, <1>4, CleanKept
<1>6. tip \in linked /\ tip \in Blocks /\ Clean(tip) /\ Ancestors[tip] \subseteq Connects
  BY Kinds DEF ActiveInv, TipInv
<1>7. Clean(tip)' /\ tip \notin Failed \cup below
  <2>1. Ancestors[tip] \cap Failed' = {}
    BY <1>5, <1>6 DEF Clean
  <2> QED
    BY <1>2, <1>4, <1>6, <2>1, TreeFacts DEF Clean
<1>8. seq' \in [Blocks -> Int]
  BY <1>2
<1>9. tip \in candidates'
  <2>1. ~WorseAt(seq', address', tip, tip)
    BY <1>2, <1>6, <1>8, Ordered
  <2> QED
    BY <1>2, <1>6, <1>7, <2>1
<1>10. \A x : Worse(seq, x, tip)' <=> WorseAt(seq', address', x, tip)
  BY <1>2 DEF Worse, WorseAt
<1>11. TipInv'
  BY <1>2, <1>6, <1>7, <1>9, <1>10 DEF TipInv
<1>12. Floor(tip)'
  BY <1>2, <1>4, <1>6, <1>7, <1>9, <1>10 DEF Floor
<1> QED
  BY <1>2, <1>3, <1>6, <1>11, <1>12, CallBegins

LEMMA ActiveInitially ==
    ASSUME Init
    PROVE  ActiveInv
<1>1. Ancestors[Genesis] = {Genesis} /\ Genesis \in Blocks /\ Genesis \in Connects
  BY TreeFacts
<1>2. TreeInv /\ Failed = {} /\ tip = Genesis /\ candidates = {Genesis} /\ linked = {Genesis} /\ ~aborted
      /\ \A t \in Threads : mostWork[t] = NoBlock
  BY TreeInitially DEF Init, Failed
<1>3. ~Worse(seq, Genesis, Genesis)
  BY <1>1, <1>2, Ranked
<1>4. TipInv /\ Floor(tip) /\ BestOf(tip)
  BY <1>1, <1>2, <1>3 DEF TipInv, Floor, BestOf, Clean
<1>5. TargetInv
  BY <1>2 DEF TargetInv
<1> QED
  BY <1>1, <1>2, <1>4, <1>5 DEF ActiveInv

LEMMA ActiveStep ==
    ASSUME OneThread, Careful, TreeInv, ActiveInv, [Next]_vars
    PROVE  ActiveInv'
<1>1. CASE UNCHANGED vars
  <2>1. UNCHANGED <<linked, failedValid, failedChild, seq, address, candidates, tip, activating, mostWork, aborted>>
    BY <1>1 DEF vars, statusVars, boundVars
  <2>2. Failed' = Failed \cup {} /\ ~aborted'
    BY <2>1 DEF Failed, ActiveInv, TipInv
  <2>3. \A y \in linked : Clean(y)' <=> Clean(y)
    BY <2>2 DEF Clean
  <2> QED
    BY <2>1, <2>2, <2>3, Kinds, MarksOnly
<1>2. ASSUME NEW b \in Blocks \ {Genesis}, AcceptBlockHeader(b) \/ RejectHeader(b) PROVE ActiveInv'
  BY <1>2, HeaderActive, RejectActive
<1>3. ASSUME NEW t \in Threads, NEW b \in Blocks,
             InvalidateBlock(t, b) \/ ResetBlockFailureFlags(t, b) \/ PreciousBlock(t, b)
      PROVE  ActiveInv'
  BY <1>3, InvalidateActive, ResetActive, PreciousActive
<1> QED
  BY <1>1, <1>2, <1>3, AcceptActive, ActivateActive, RestartActive DEF Next

LEMMA ActiveInvariant ==
    ASSUME OneThread, Careful
    PROVE  Spec => [](TreeInv /\ ActiveInv)
<1>1. Init => TreeInv /\ ActiveInv
  BY TreeInitially, ActiveInitially
<1>2. TreeInv /\ ActiveInv /\ [Next]_vars => (TreeInv /\ ActiveInv)'
  BY TreeStep, ActiveStep
<1> QED
  BY <1>1, <1>2, PTL DEF Spec

\* With one thread at a time in ActivateBestChain and a careful operator no assert of
\* the modelled code fails: PruneBlockIndexCandidates, in ActivateBestChainStep, in
\* PreciousBlock and at a start, leaves a candidate, and what AcceptBlockHeader finds
\* in g_failed_blocks is BLOCK_FAILED_VALID.
THEOREM AssertsHold ==
    ASSUME OneThread, Careful
    PROVE  Spec => []NoAssertFails
<1>1. ActiveInv => NoAssertFails
  BY DEF ActiveInv, TipInv, NoAssertFails
<1> QED
  BY <1>1, ActiveInvariant, PTL

\* A linked block without an invalid ancestor has no failed one.
LEMMA NoCause ==
    ASSUME TreeInv, NEW b \in linked, Ancestors[b] \cap failedValid = {}
    PROVE  Clean(b) /\ b \in linked \ Failed /\ b \in Blocks
<1>1. b \in Blocks /\ b \in Ancestors[b]
  BY Kinds, TreeFacts
<1>2. Clean(b)
  BY <1>1, CauseBelow DEF Clean
<1> QED
  BY <1>1, <1>2 DEF Clean

\* The active chain never holds a failed block; and when ActivateBestChain has
\* returned, after whatever blocks, calls of the operator and restarts, no valid chain
\* that has arrived and was not invalidated has more work.
THEOREM BestChainAlwaysActive ==
    ASSUME OneThread, Careful
    PROVE  Spec => []BestChainActive
<1>1. ASSUME TreeInv, ActiveInv PROVE BestChainActive
  <2>1. Ancestors[tip] \cap Failed = {}
    BY <1>1 DEF ActiveInv, TipInv, Clean
  <2>2. ASSUME Idle, NEW b \in linked, Ancestors[b] \subseteq Connects \ failedValid
        PROVE  Work[b] <= Work[tip]
    <3>1. Floor(tip) /\ BestOf(tip)
      BY <1>1, <2>2 DEF Idle, ActiveInv
    <3>2. Clean(b) /\ b \in linked \ Failed /\ b \in Blocks
      BY <1>1, <2>2, NoCause
    <3>3. tip \in Blocks /\ Work[tip] \in Nat /\ Work[b] \in Nat
      BY <1>1, <3>2, Kinds, TreeFacts
    <3>4. CASE Worse(seq, b, tip)
      BY <1>1, <3>2, <3>3, <3>4, Ranked
    <3>5. CASE ~Worse(seq, b, tip)
      BY <3>1, <3>2, <3>3, <3>5 DEF Floor, BestOf
    <3> QED
      BY <3>4, <3>5
  <2> QED
    BY <2>1, <2>2 DEF BestChainActive
<1> QED
  BY <1>1, ActiveInvariant, PTL

\* What CheckBlockIndex asserts of the block index between two calls holds always:
\* the candidates are the blocks as good as the tip that nothing disqualifies, links
\* and mapBlocksUnlinked are complete, and failures have a cause.
THEOREM IndexAlwaysConsistent ==
    ASSUME OneThread, Careful
    PROVE  Spec => []CheckBlockIndex
<1>1. ASSUME TreeInv, ActiveInv PROVE CheckBlockIndex
  <2>1. ASSUME Idle, NEW b \in index
        PROVE  IF b \in linked /\ ~Worse(seq, b, tip)
               THEN Ancestors[b] \cap failedValid = {} => b \in candidates
               ELSE b \notin candidates
    <3>1. Floor(tip) /\ \A c \in candidates : c \in linked /\ ~Worse(seq, c, tip)
      BY <1>1, <2>1, Kinds DEF Idle, ActiveInv, TipInv
    <3>2. b \in linked /\ Ancestors[b] \cap failedValid = {} => b \in linked \ Failed
      BY <1>1, NoCause
    <3> QED
      BY <3>1, <3>2 DEF Floor
  <2>2. CandidatesComplete
    BY <2>1 DEF CandidatesComplete
  <2> QED
    BY <1>1, <2>2, TreeAsserts DEF CheckBlockIndex
<1> QED
  BY <1>1, ActiveInvariant, PTL

\* Every turn of ActivateBestChain's loop that is not its last marks another block as
\* invalid or leaves a chain with more work: with finitely many blocks it returns.
THEOREM ActivationAlwaysAdvances ==
    ASSUME OneThread, Careful
    PROVE  Spec => ActivationAdvances
<1>1. TreeInv /\ ActiveInv =>
        [\A t \in activating \cap activating' :
            ActivateBestChain(t) =>
               \/ failedValid' # failedValid
               \/ Work[tip'] > Work[tip]]_vars
  BY ActivateActive DEF TreeInv, Numbers
<1> QED
  BY <1>1, ActiveInvariant, PTL DEF ActivationAdvances
=============================================================================
