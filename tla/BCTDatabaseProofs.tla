------------------------- MODULE BCTDatabaseProofs -------------------------
(***************************************************************************)
(* For every tree of blocks, any BCTs, and any number of moves of the      *)
(* chain, startups, crashes and rescans: whenever every notification has   *)
(* been delivered, the tables describe the active chain.                   *)
(*                                                                         *)
(* The notifications that the handler has not had yet are a walk in the    *)
(* tree, from the block that the handler has reached to the tip.  A record *)
(* need not be right while they wait, but it is put right by one of them:  *)
(* what is wrong and not on the chain is above a block that is going to be *)
(* disconnected, and what is missing is in a block that is going to be     *)
(* connected.  The wallet is related to the tip in the same way, by the    *)
(* notifications it has not had; that is what a scan of it rests on.       *)
(***************************************************************************)
EXTENDS BCTDatabase, FiniteSetTheorems, WellFoundedInduction, TLAPS

\* The provers, in turn, where a leaf names none.
USE ZenonT(5), SMTT(40), ZenonT(40), Z3T(40)

Conn(b) == [type |-> "connected", block |-> b]
Disc(b) == [type |-> "disconnected", block |-> b]

\* The blocks between which a notification leads.
Before(e) == IF e.type = "connected" THEN Parent[e.block] ELSE e.block
After(e) == IF e.type = "connected" THEN e.block ELSE Parent[e.block]

In(q, e) == \E i \in 1..Len(q) : q[i] = e
Later(q, i, e) == \E j \in (i + 1)..Len(q) : q[j] = e

\* A block at height h or below is disconnected in q.
Cut(q, h) == \E i \in 1..Len(q) : q[i].type = "disconnected" /\ Height[q[i].block] <= h

\* A block at height h or above is connected in q.
Raised(q, h) == \E i \in 1..Len(q) : q[i].type = "connected" /\ Height[q[i].block] >= h

\* q leads to z.  What is below z is below every block on the way, or is still
\* to be connected; what is connected on the way is below z or still to be
\* disconnected.
Path(q, z) ==
    /\ q \in Seq(Events) /\ z \in Blocks
    /\ \A i \in 1..Len(q) :
          /\ q[i].block # Genesis
          /\ After(q[i]) = IF i = Len(q) THEN z ELSE Before(q[i + 1])
          /\ \A a \in Ancestors[z] : a \in Ancestors[After(q[i])] \/ Later(q, i, Conn(a))
          /\ q[i].type = "connected" => q[i].block \in Ancestors[z] \/ Later(q, i, Disc(q[i].block))

\* Where q begins.
Reached(q, z) == IF q = <<>> THEN z ELSE Before(q[1])

\* Tables that q will have made right at z.
RecordsLead(d, made, q, z) ==
    /\ \A t \in DOMAIN d : d[t].height # 0 =>
          \E y \in Blocks : /\ t \in Creates[y] /\ Height[y] = d[t].height
                            /\ y \in Ancestors[z] \/ In(q, Disc(y))
    /\ \A b \in Ancestors[z] : \A t \in Creates[b] \cap made :
          \/ In(q, Conn(b))
          \/ t \in DOMAIN d /\ (d[t].height = 0 \/ (d[t].height = Height[b] /\ ~Cut(q, Height[b])))
    /\ \A t \in DOMAIN d :
          Rank[d[t].status] >= Rank[updateStatus(d[t].height, Height[z])] \/ Raised(q, Height[z])

RewardsLead(d, r, q, z) ==
    /\ r \subseteq Ancestors[Reached(q, z)]
    /\ \A b \in Ancestors[z] : Rewarded[b] \in DOMAIN d => In(q, Conn(b)) \/ (b \in r /\ ~Cut(q, Height[b]))
    /\ \A t \in DOMAIN d : d[t].rewardsPaid = Total(r, t)

\* What the handler has not had.
Pending == IF delivering = NoEvent THEN queue ELSE <<delivering>> \o queue

\* The tables follow the chain, unless they are to be filled at the next startup.
Following == ~outOfStep /\ ~fellBack /\ (node \in {"scanned", "running"} \/ DOMAIN bcts # {})

ChainInv ==
    /\ TypeOK
    /\ Path(Pending, tip)
    /\ node = "down" => Pending = <<>>
    /\ delivering # NoEvent => node = "running"
    /\ Ancestors[tip] \cup Ancestors[flushed] \subseteq index
    /\ \A b \in index : Creates[b] \cap Mine \subseteq created

\* What the wallet does not know of the chain is in the queue.
WalletInv ==
    /\ \A t \in Mine : hashBlock[t] # NoBlock => t \in Creates[hashBlock[t]]
    /\ Up /\ hasWallet => \A b \in Ancestors[tip] :
          /\ \A t \in Creates[b] \cap created : hashBlock[t] = b \/ In(queue, Conn(b))
          /\ Rewarded[b] \in Mine => b \in coinbases \/ In(queue, Conn(b))

TablesInv ==
    /\ \A t \in DOMAIN bcts : bcts[t].height # 0 => bcts[t].status # "unset"
    /\ \A b \in rewards : Rewarded[b] \in DOMAIN bcts
    /\ node \in {"scanned", "running"} /\ hasWallet => DOMAIN bcts \subseteq Mine

FollowInv ==
    Following =>
       /\ Pending = <<>> => lastProcessedHeight = Height[tip]
       /\ RecordsLead(bcts, created, Pending, tip)
       /\ ~counted => RewardsLead(bcts, rewards, Pending, tip)

IInv == ChainInv /\ WalletInv /\ TablesInv /\ FollowInv
----------------------------------------------------------------------------
(* The tree.                                                               *)

\* Induction on the naturals, for a set.
LEMMA Induction ==
    ASSUME NEW T, 0 \in T, \A n \in Nat : n \in T => n + 1 \in T
    PROVE  \A n \in Nat : n \in T
<1>1. \E R : IsWellFoundedOn(R, Nat) /\ \A x, y \in Nat : y < x => <<y, x>> \in R
  <2>1. \A x, y \in Nat : y < x => <<y, x>> \in OpToRel(<, Nat)
    BY DEF OpToRel
  <2> QED
    BY <2>1, NatLessThanWellFounded
<1>2. PICK R : IsWellFoundedOn(R, Nat) /\ \A x, y \in Nat : y < x => <<y, x>> \in R
  BY <1>1
<1> DEFINE U == {n \in Nat : n \notin T}
<1>3. SUFFICES ASSUME U # {} PROVE FALSE
  OBVIOUS
<1>4. U \subseteq Nat
  OBVIOUS
<1>5. \E x \in U : \A y \in U : ~(<<y, x>> \in R)
  <2> HIDE DEF U
  <2> QED
    BY <1>2, <1>3, <1>4, WFMin
<1>6. PICK x \in U : \A y \in U : ~(<<y, x>> \in R)
  BY <1>5
<1>7. x \in Nat /\ x # 0 /\ x - 1 \in Nat /\ x - 1 < x
  OBVIOUS
<1>8. x - 1 \notin U
  BY <1>2, <1>6, <1>7
<1> QED
  BY <1>7, <1>8

\* Induction along a branch, for a set of blocks.
LEMMA Upwards ==
    ASSUME NEW T, Genesis \in T, \A b \in Blocks \ {Genesis} : Parent[b] \in T => b \in T
    PROVE  \A b \in Blocks : b \in T
<1> DEFINE K == {n \in Nat : \A b \in Blocks : Height[b] <= n => b \in T}
<1>1. \A b \in Blocks \ {Genesis} : Parent[b] \in Blocks /\ Height[b] = Height[Parent[b]] + 1
  BY TreeAssumption
<1>2. \A b \in Blocks : Height[b] \in Nat
  BY TreeAssumption
<1>3. 0 \in K
  BY <1>1, <1>2
<1>4. ASSUME NEW n \in Nat, n \in K PROVE n + 1 \in K
  <2> SUFFICES ASSUME NEW b \in Blocks, Height[b] <= n + 1, b # Genesis PROVE b \in T
    OBVIOUS
  <2>1. Parent[b] \in Blocks /\ Height[Parent[b]] \in Nat /\ Height[b] = Height[Parent[b]] + 1
    BY <1>1, <1>2
  <2>2. Parent[b] \in T
    BY <1>4, <2>1
  <2> QED
    BY <2>2
<1> HIDE DEF K
<1>5. \A n \in Nat : n \in K
  BY <1>3, <1>4, Induction
<1> QED
  BY <1>2, <1>5 DEF K

\* What TreeAssumption says of a block and its parent.
LEMMA TreeFacts ==
    /\ Genesis \in Blocks /\ NoBlock \notin Blocks /\ NoEvent \notin Events /\ InitTips \subseteq Blocks
    /\ \A b \in Blocks : Height[b] \in Nat /\ Ancestors[b] \subseteq Blocks /\ b \in Ancestors[b]
    /\ \A b \in Blocks \ {Genesis} :
          /\ Parent[b] \in Blocks /\ Height[b] = Height[Parent[b]] + 1
          /\ Ancestors[b] = Ancestors[Parent[b]] \cup {b}
<1>1. \A b \in Blocks : Height[b] \in Nat
  BY TreeAssumption
<1>2. \A b \in Blocks \ {Genesis} :
          /\ Parent[b] \in Blocks /\ Height[b] = Height[Parent[b]] + 1
          /\ Ancestors[b] = Ancestors[Parent[b]] \cup {b}
  BY TreeAssumption
<1>3. Ancestors[Genesis] = {Genesis} /\ Genesis \in Blocks
  BY TreeAssumption
<1> DEFINE T == {b \in Blocks : Ancestors[b] \subseteq Blocks}
<1>4. Genesis \in T
  BY <1>3
<1>5. ASSUME NEW b \in Blocks \ {Genesis}, Parent[b] \in T PROVE b \in T
  BY <1>2, <1>5
<1>6. \A b \in Blocks : b \in T
  <2> HIDE DEF T
  <2> QED
    BY <1>4, <1>5, Upwards
<1>7. \A b \in Blocks : b \in Ancestors[b]
  BY <1>2, <1>3
<1> QED
  BY <1>1, <1>2, <1>6, <1>7, TreeAssumption

\* An ancestor's ancestors are ancestors, and it is lower.
LEMMA Below ==
    ASSUME NEW b \in Blocks, NEW a \in Ancestors[b]
    PROVE  /\ a \in Blocks /\ Ancestors[a] \subseteq Ancestors[b] /\ Height[a] \in Nat /\ Height[a] <= Height[b]
           /\ a # b => Height[a] < Height[b]
<1> DEFINE Fine(x, y) == Ancestors[x] \subseteq Ancestors[y] /\ (x # y => Height[x] < Height[y])
           T == {y \in Blocks : \A x \in Ancestors[y] : Fine(x, y)}
<1>1. Genesis \in T
  BY TreeAssumption
<1>2. ASSUME NEW y \in Blocks \ {Genesis}, Parent[y] \in T PROVE y \in T
  <2> SUFFICES ASSUME NEW x \in Ancestors[y], x # y PROVE Fine(x, y)
    OBVIOUS
  <2>1. x \in Ancestors[Parent[y]] /\ Ancestors[Parent[y]] \subseteq Ancestors[y] /\ Fine(x, Parent[y])
    BY <1>2, TreeFacts
  <2>2. x \in Blocks /\ Parent[y] \in Blocks /\ Height[y] = Height[Parent[y]] + 1
    BY <2>1, TreeFacts
  <2>3. Height[x] \in Nat /\ Height[Parent[y]] \in Nat
    BY <2>2, TreeFacts
  <2>4. Height[x] < Height[y]
    BY <2>1, <2>2, <2>3
  <2> QED
    BY <2>1, <2>4
<1>3. \A y \in Blocks : y \in T
  <2> HIDE DEF T
  <2> QED
    BY <1>1, <1>2, Upwards
<1>4. Fine(a, b)
  BY <1>3
<1>5. a \in Blocks /\ Height[a] \in Nat /\ Height[b] \in Nat
  BY TreeFacts
<1> QED
  BY <1>4, <1>5

\* The ancestors of a block other than it are those of its parent, and lower.
LEMMA Step ==
    ASSUME NEW b \in Blocks, b # Genesis
    PROVE  /\ Parent[b] \in Blocks /\ Height[b] \in Nat \ {0} /\ Height[Parent[b]] = Height[b] - 1
           /\ b \in Ancestors[b] /\ b \notin Ancestors[Parent[b]] /\ Ancestors[Parent[b]] \subseteq Ancestors[b]
           /\ \A a \in Ancestors[b] :
                 a \in Ancestors[Parent[b]] <=> Height[a] < Height[b]
<1>1. /\ Parent[b] \in Blocks /\ Height[b] = Height[Parent[b]] + 1 /\ Height[Parent[b]] \in Nat
      /\ Ancestors[b] = Ancestors[Parent[b]] \cup {b}
  BY TreeFacts
<1>2. \A a \in Ancestors[Parent[b]] : Height[a] \in Nat /\ Height[a] <= Height[Parent[b]]
  BY <1>1, Below
<1>3. \A a \in Ancestors[b] : a # b => Height[a] < Height[b]
  BY Below
<1> QED
  BY <1>1, <1>2, <1>3

\* A BCT is in one block of a branch, and rewarded above it.
LEMMA OneCreation ==
    ASSUME NEW b \in Blocks, NEW a \in Ancestors[b], NEW c \in Ancestors[b], NEW t \in Creates[a] \cap Creates[c]
    PROVE  a = c
  BY BlocksAssumption

LEMMA RewardedAbove ==
    ASSUME NEW b \in Blocks, Rewarded[b] # NoTx, NEW x \in Blocks, b \in Ancestors[x], Rewarded[b] \in Creates[x]
    PROVE  FALSE
<1>1. PICK a \in Ancestors[b] : Rewarded[b] \in Creates[a] /\ Height[a] + beeGestationBlocks <= Height[b]
  BY BlocksAssumption
<1>2. Height[a] \in Nat /\ Height[b] \in Nat /\ Height[x] \in Nat /\ beeGestationBlocks \in Nat \ {0}
  BY BlocksAssumption, TreeFacts
<1>3. a \in Ancestors[x] /\ x \in Ancestors[x] /\ Height[b] <= Height[x]
  BY Below, TreeFacts
<1>4. a = x
  BY <1>1, <1>3, OneCreation
<1> QED
  BY <1>1, <1>2, <1>3, <1>4
----------------------------------------------------------------------------
(* Sums.  Total is a recursion over subsets that takes their elements in   *)
(* an arbitrary order; it is that of a function that adds up.              *)

\* A function on the subsets of B that adds up what their members are paid.
AddsUp(g, B) ==
    /\ g \in [SUBSET B -> Nat] /\ g[{}] = 0
    /\ \A s \in SUBSET B : \A b \in B \ s : g[s \cup {b}] = g[s] + Amount[b]

LEMMA AmountFacts == \A b \in Blocks : Amount[b] \in Nat
  BY BlocksAssumption

LEMMA FiniteSubsets ==
    ASSUME NEW S \in SUBSET Blocks
    PROVE  IsFiniteSet(S) /\ Cardinality(S) \in Nat
  BY TreeAssumption, FS_Subset, FS_CardinalityType

LEMMA Removed ==
    ASSUME NEW S \in SUBSET Blocks, NEW n \in Nat, Cardinality(S) = n + 1
    PROVE  S # {} /\ \A x \in S : S \ {x} \in SUBSET Blocks /\ Cardinality(S \ {x}) = n
<1>1. IsFiniteSet(S)
  BY FiniteSubsets
<1>2. S # {}
  BY FS_EmptySet
<1>3. \A x \in S : Cardinality(S \ {x}) = Cardinality(S) - 1
  BY <1>1, FS_RemoveElement
<1> QED
  BY <1>2, <1>3

LEMMA SumExists ==
    ASSUME NEW S \in SUBSET Blocks
    PROVE  \E g : AddsUp(g, S)
<1> DEFINE T == {n \in Nat : \A B \in SUBSET Blocks : Cardinality(B) = n => \E g : AddsUp(g, B)}
<1>1. 0 \in T
  <2> SUFFICES ASSUME NEW B \in SUBSET Blocks, Cardinality(B) = 0 PROVE \E g : AddsUp(g, B)
    OBVIOUS
  <2>1. B = {}
    BY FiniteSubsets, FS_EmptySet
  <2>2. AddsUp([s \in SUBSET B |-> 0], B)
    BY <2>1 DEF AddsUp
  <2> QED
    BY <2>2
<1>2. ASSUME NEW n \in Nat, n \in T PROVE n + 1 \in T
  <2> SUFFICES ASSUME NEW B \in SUBSET Blocks, Cardinality(B) = n + 1 PROVE \E g : AddsUp(g, B)
    OBVIOUS
  <2>1. PICK c \in B : B \ {c} \in SUBSET Blocks /\ Cardinality(B \ {c}) = n
    BY Removed
  <2>2. PICK h : AddsUp(h, B \ {c})
    BY <1>2, <2>1
  <2> DEFINE g == [s \in SUBSET B |-> IF c \in s THEN h[s \ {c}] + Amount[c] ELSE h[s]]
  <2>3. \A s \in SUBSET B : s \ {c} \in SUBSET (B \ {c}) /\ h[s \ {c}] \in Nat /\ (c \notin s => s \ {c} = s)
    BY <2>2 DEF AddsUp
  <2>4. Amount[c] \in Nat
    BY AmountFacts
  <2>5. g \in [SUBSET B -> Nat]
    <3>1. ASSUME NEW s \in SUBSET B PROVE (IF c \in s THEN h[s \ {c}] + Amount[c] ELSE h[s]) \in Nat
      <4>1. h[s \ {c}] \in Nat /\ (c \notin s => h[s] = h[s \ {c}])
        BY <2>3
      <4> QED
        BY <2>4, <4>1
    <3> QED
      BY <3>1
  <2>6. g[{}] = 0
    BY <2>2 DEF AddsUp
  <2>7. ASSUME NEW s \in SUBSET B, NEW b \in B \ s PROVE g[s \cup {b}] = g[s] + Amount[b]
    <3>1. s \cup {b} \in SUBSET B
      OBVIOUS
    <3>2. CASE b = c
      <4>1. (s \cup {b}) \ {c} = s
        BY <3>2
      <4> QED
        BY <3>1, <3>2, <4>1
    <3>3. CASE b # c
      <4>1. (s \cup {b}) \ {c} = (s \ {c}) \cup {b} /\ b \in (B \ {c}) \ (s \ {c})
        BY <3>3
      <4>2. h[(s \cup {b}) \ {c}] = h[s \ {c}] + Amount[b] /\ Amount[b] \in Nat
        BY <2>2, <2>3, <4>1, AmountFacts DEF AddsUp
      <4>3. c \in s \cup {b} <=> c \in s
        BY <3>3
      <4>4. c \notin s => (s \cup {b}) \ {c} = s \cup {b} /\ s \ {c} = s
        BY <3>3
      <4>5. CASE c \in s
        <5>1. g[s] = h[s \ {c}] + Amount[c] /\ g[s \cup {b}] = h[(s \cup {b}) \ {c}] + Amount[c]
          BY <3>1, <4>3, <4>5
        <5>2. h[s \ {c}] \in Nat
          BY <2>3
        <5> QED
          BY <2>4, <4>2, <5>1, <5>2
      <4>6. CASE c \notin s
        <5>1. g[s] = h[s] /\ g[s \cup {b}] = h[s \cup {b}]
          BY <3>1, <4>3, <4>6
        <5> QED
          BY <4>2, <4>4, <4>6, <5>1
      <4> QED
        BY <4>5, <4>6
    <3> QED
      BY <3>2, <3>3
  <2> HIDE DEF g
  <2>8. AddsUp(g, B)
    BY <2>5, <2>6, <2>7 DEF AddsUp
  <2> QED
    BY <2>8
<1> HIDE DEF T
<1>3. \A n \in Nat : n \in T
  BY <1>1, <1>2, Induction
<1> QED
  BY <1>3, FiniteSubsets DEF T

Sum(S) == MapThenSumSet(LAMBDA b : Amount[b], S)

LEMMA SumIs ==
    ASSUME NEW S \in SUBSET Blocks, NEW g, AddsUp(g, S)
    PROVE  Sum(S) = g[S]
<1> DEFINE Solves(f) == f = [s \in SUBSET S |-> IF s = {} THEN 0
                                ELSE Amount[CHOOSE x \in s : TRUE] + f[s \ {CHOOSE x \in s : TRUE}]]
           f == CHOOSE f : Solves(f)
<1>1. Sum(S) = f[S]
  BY DEF Sum, MapThenSumSet, MapThenFoldSet
<1>2. \A s \in SUBSET S : s # {} => (CHOOSE x \in s : TRUE) \in s
  OBVIOUS
<1>3. Solves(g)
  <2>1. ASSUME NEW s \in SUBSET S, s # {}, NEW x \in s
        PROVE  g[s] = Amount[x] + g[s \ {x}]
    <3>1. s \ {x} \in SUBSET S /\ x \in S \ (s \ {x}) /\ (s \ {x}) \cup {x} = s
      OBVIOUS
    <3>2. g[s] = g[s \ {x}] + Amount[x] /\ g[s \ {x}] \in Nat /\ Amount[x] \in Nat
      BY <3>1, AmountFacts DEF AddsUp
    <3> QED
      BY <3>2
  <2>2. \A s \in SUBSET S : g[s] = IF s = {} THEN 0
                                   ELSE Amount[CHOOSE x \in s : TRUE] + g[s \ {CHOOSE x \in s : TRUE}]
    BY <1>2, <2>1 DEF AddsUp
  <2>3. g = [s \in SUBSET S |-> g[s]]
    BY DEF AddsUp
  <2> QED
    BY <2>2, <2>3
<1>4. Solves(f)
  <2> HIDE DEF Solves
  <2> QED
    BY <1>3
<1> HIDE DEF f
<1>5. \A s \in SUBSET S : s # {} => \E x \in s : f[s] = Amount[x] + f[s \ {x}] /\ g[s] = Amount[x] + g[s \ {x}]
  BY <1>2, <1>3, <1>4
<1> DEFINE T == {n \in Nat : \A s \in SUBSET S : Cardinality(s) = n => f[s] = g[s]}
<1>6. 0 \in T
  <2>1. \A s \in SUBSET S : Cardinality(s) = 0 => s = {}
    BY FiniteSubsets, FS_EmptySet
  <2>2. f[{}] = 0
    BY <1>4
  <2> QED
    BY <2>1, <2>2 DEF AddsUp
<1>7. ASSUME NEW n \in Nat, n \in T PROVE n + 1 \in T
  <2> SUFFICES ASSUME NEW s \in SUBSET S, Cardinality(s) = n + 1 PROVE f[s] = g[s]
    OBVIOUS
  <2>1. s # {} /\ \A x \in s : Cardinality(s \ {x}) = n
    BY Removed
  <2>2. PICK x \in s : f[s] = Amount[x] + f[s \ {x}] /\ g[s] = Amount[x] + g[s \ {x}]
    BY <1>5, <2>1
  <2>3. f[s \ {x}] = g[s \ {x}]
    BY <1>7, <2>1
  <2> QED
    BY <2>2, <2>3
<1> HIDE DEF T
<1>8. \A n \in Nat : n \in T
  BY <1>6, <1>7, Induction
<1>9. f[S] = g[S]
  BY <1>8, FiniteSubsets DEF T
<1> QED
  BY <1>1, <1>9

\* SELECT SUM of nothing, and of one row more.
LEMMA SumFacts ==
    /\ Sum({}) = 0
    /\ \A S \in SUBSET Blocks : Sum(S) \in Nat
    /\ \A S \in SUBSET Blocks : \A b \in Blocks \ S : Sum(S \cup {b}) = Sum(S) + Amount[b]
<1>1. PICK g : AddsUp(g, Blocks)
  BY SumExists
<1>2. ASSUME NEW S \in SUBSET Blocks PROVE Sum(S) = g[S]
  <2> DEFINE h == [s \in SUBSET S |-> g[s]]
  <2>1. AddsUp(h, S)
    <3>1. h \in [SUBSET S -> Nat] /\ h[{}] = 0
      BY <1>1 DEF AddsUp
    <3>2. ASSUME NEW s \in SUBSET S, NEW b \in S \ s PROVE h[s \cup {b}] = h[s] + Amount[b]
      <4>1. s \cup {b} \in SUBSET S /\ s \in SUBSET Blocks /\ b \in Blocks \ s
        OBVIOUS
      <4>2. g[s \cup {b}] = g[s] + Amount[b]
        BY <1>1, <4>1 DEF AddsUp
      <4> QED
        BY <4>1, <4>2
    <3> HIDE DEF h
    <3> QED
      BY <3>1, <3>2 DEF AddsUp
  <2>2. h[S] = g[S]
    OBVIOUS
  <2> HIDE DEF h
  <2> QED
    BY <2>1, <2>2, SumIs
<1>3. \A S \in SUBSET Blocks : \A b \in Blocks \ S : S \cup {b} \in SUBSET Blocks
  OBVIOUS
<1>4. g[{}] = 0 /\ \A S \in SUBSET Blocks : g[S] \in Nat
  BY <1>1 DEF AddsUp
<1>5. \A S \in SUBSET Blocks : \A b \in Blocks \ S : g[S \cup {b}] = g[S] + Amount[b]
  BY <1>1 DEF AddsUp
<1> QED
  BY <1>2, <1>3, <1>4, <1>5

\* What a BCT was paid by the coinbases of S, and by one more.
LEMMA TotalFacts ==
    ASSUME NEW S \in SUBSET Blocks, NEW t
    PROVE  /\ Total(S, t) \in Nat
           /\ (\A b \in S : Rewarded[b] # t) => Total(S, t) = 0
           /\ \A b \in Blocks \ S :
                 Total(S \cup {b}, t) = IF Rewarded[b] = t THEN Total(S, t) + Amount[b] ELSE Total(S, t)
<1> DEFINE P == {b \in S : Rewarded[b] = t}
<1>1. P \in SUBSET Blocks
  OBVIOUS
<1>2. Total(S, t) = Sum(P)
  BY DEF Total, Sum
<1>3. (\A b \in S : Rewarded[b] # t) => P = {}
  OBVIOUS
<1>4. ASSUME NEW b \in Blocks \ S
      PROVE  Total(S \cup {b}, t) = IF Rewarded[b] = t THEN Total(S, t) + Amount[b] ELSE Total(S, t)
  <2>1. Total(S \cup {b}, t) = Sum({x \in S \cup {b} : Rewarded[x] = t})
    BY DEF Total, Sum
  <2>2. {x \in S \cup {b} : Rewarded[x] = t} = IF Rewarded[b] = t THEN P \cup {b} ELSE P
    OBVIOUS
  <2>3. b \in Blocks \ P
    OBVIOUS
  <2> HIDE DEF P
  <2>4. Sum(P \cup {b}) = Sum(P) + Amount[b]
    BY <1>1, <2>3, SumFacts
  <2> QED
    BY <1>2, <2>1, <2>2, <2>4
<1> HIDE DEF P
<1>5. Sum(P) \in Nat /\ (P = {} => Sum(P) = 0)
  BY <1>1, SumFacts
<1> QED
  BY <1>2, <1>3, <1>4, <1>5
----------------------------------------------------------------------------
(* The walk.                                                               *)

LEMMA EventFacts ==
    /\ \A b \in Blocks : Conn(b) \in Events /\ Disc(b) \in Events
    /\ \A e \in Events : e.block \in Blocks /\ (e = Conn(e.block) \/ e = Disc(e.block))
    /\ \A b : /\ Conn(b).type = "connected" /\ Conn(b).block = b
              /\ Disc(b).type = "disconnected" /\ Disc(b).block = b
    /\ \A b, c : /\ Conn(b) # Disc(c)
                 /\ Conn(b) = Conn(c) => b = c
                 /\ Disc(b) = Disc(c) => b = c
  BY SMT DEF Events, Conn, Disc

LEMMA AppendFacts ==
    ASSUME NEW q \in Seq(Events), NEW e \in Events
    PROVE  /\ Append(q, e) \in Seq(Events) /\ Append(q, e) # <<>>
           /\ Len(q) \in Nat /\ Len(Append(q, e)) = Len(q) + 1
           /\ \A i \in 1..Len(q) : Append(q, e)[i] = q[i]
           /\ Append(q, e)[Len(q) + 1] = e
           /\ \A x : In(Append(q, e), x) <=> In(q, x) \/ x = e
           /\ \A i \in 1..Len(q) : \A x : Later(Append(q, e), i, x) <=> Later(q, i, x) \/ x = e
           /\ \A h : Cut(Append(q, e), h) <=> Cut(q, h) \/ (e.type = "disconnected" /\ Height[e.block] <= h)
           /\ \A h : Raised(Append(q, e), h) <=> Raised(q, h) \/ (e.type = "connected" /\ Height[e.block] >= h)
<1> DEFINE p == Append(q, e)
<1>1. /\ p \in Seq(Events) /\ p # <<>> /\ Len(q) \in Nat /\ Len(p) = Len(q) + 1
      /\ \A i \in 1..Len(q) : p[i] = q[i]
      /\ p[Len(q) + 1] = e
  OBVIOUS
<1> HIDE DEF p
<1>2. \A x : In(p, x) <=> In(q, x) \/ x = e
  BY <1>1 DEF In
<1>3. \A i \in 1..Len(q) : \A x : Later(p, i, x) <=> Later(q, i, x) \/ x = e
  BY <1>1 DEF Later
<1>4. \A h : Cut(p, h) <=> Cut(q, h) \/ (e.type = "disconnected" /\ Height[e.block] <= h)
  BY <1>1 DEF Cut
<1>5. \A h : Raised(p, h) <=> Raised(q, h) \/ (e.type = "connected" /\ Height[e.block] >= h)
  BY <1>1 DEF Raised
<1> QED
  BY <1>1, <1>2, <1>3, <1>4, <1>5 DEF p

LEMMA TailIs ==
    ASSUME NEW S, NEW q \in Seq(S), q # <<>>
    PROVE  /\ Tail(q) \in Seq(S) /\ Len(Tail(q)) = Len(q) - 1 /\ (Tail(q) = <<>> <=> Len(Tail(q)) = 0)
           /\ \A i \in 1..Len(Tail(q)) : Tail(q)[i] = q[i + 1]
<1>1. Tail(q) \in Seq(S) /\ Len(Tail(q)) = Len(q) - 1 /\ \A i \in 1..Len(Tail(q)) : Tail(q)[i] = q[i + 1]
  BY SMT
<1>2. \A p \in Seq(S) : p = <<>> <=> Len(p) = 0
  BY SMT
<1> QED
  BY <1>1, <1>2, Zenon

LEMMA SameSequence ==
    ASSUME NEW S, NEW p \in Seq(S), NEW q \in Seq(S), Len(p) = Len(q), \A i \in 1..Len(p) : p[i] = q[i]
    PROVE  p = q
  BY SMT

LEMMA TailFacts ==
    ASSUME NEW q \in Seq(Events), q # <<>>
    PROVE  /\ Tail(q) \in Seq(Events) /\ Len(q) \in Nat \ {0} /\ Len(Tail(q)) = Len(q) - 1 /\ q[1] \in Events
           /\ (Tail(q) = <<>> <=> Len(q) = 1)
           /\ \A i \in 1..Len(Tail(q)) : Tail(q)[i] = q[i + 1]
           /\ \A x : In(q, x) <=> In(Tail(q), x) \/ x = q[1]
           /\ \A x : Later(q, 1, x) <=> In(Tail(q), x)
           /\ \A i \in 1..Len(Tail(q)) : \A x : Later(q, i + 1, x) => Later(Tail(q), i, x)
           /\ \A h : Cut(q, h) <=> Cut(Tail(q), h) \/ (q[1].type = "disconnected" /\ Height[q[1].block] <= h)
           /\ \A h : Raised(q, h) <=> Raised(Tail(q), h) \/ (q[1].type = "connected" /\ Height[q[1].block] >= h)
<1> DEFINE p == Tail(q)
<1>1. /\ p \in Seq(Events) /\ Len(q) \in Nat \ {0} /\ Len(p) = Len(q) - 1 /\ q[1] \in Events
      /\ (p = <<>> <=> Len(q) = 1)
      /\ \A i \in 1..Len(p) : p[i] = q[i + 1]
  <2>1. Len(q) \in Nat \ {0} /\ q[1] \in Events
    OBVIOUS
  <2>2. /\ p \in Seq(Events) /\ Len(p) = Len(q) - 1 /\ (p = <<>> <=> Len(p) = 0)
        /\ \A i \in 1..Len(p) : p[i] = q[i + 1]
    BY TailIs
  <2> QED
    BY <2>1, <2>2
<1> HIDE DEF p
<1>2. \A i \in 2..Len(q) : i - 1 \in 1..Len(p) /\ q[i] = p[i - 1]
  BY <1>1
<1>3. \A i \in 1..Len(p) : i + 1 \in 2..Len(q) /\ q[i + 1] = p[i]
  BY <1>1
<1>4. \A i \in 1..Len(q) : i = 1 \/ i \in 2..Len(q)
  BY <1>1
<1>5. 1 \in 1..Len(q)
  BY <1>1
<1> DEFINE V(s) == {s[i] : i \in 1..Len(s)}
           W == {q[i] : i \in 2..Len(q)}
<1>6. V(q) = V(p) \cup {q[1]} /\ W = V(p)
  <2>1. W \subseteq V(p)
    BY <1>2
  <2>2. V(p) \subseteq W
    BY <1>3
  <2>3. V(q) \subseteq W \cup {q[1]}
    BY <1>4
  <2>4. 2..Len(q) \subseteq 1..Len(q)
    BY <1>1
  <2>5. W \cup {q[1]} \subseteq V(q)
    BY <1>5, <2>4
  <2> HIDE DEF V, W
  <2> QED
    BY <2>1, <2>2, <2>3, <2>5
<1>7. /\ \A s, x : In(s, x) <=> x \in V(s)
      /\ \A s, h : Cut(s, h) <=> \E e \in V(s) : e.type = "disconnected" /\ Height[e.block] <= h
      /\ \A s, h : Raised(s, h) <=> \E e \in V(s) : e.type = "connected" /\ Height[e.block] >= h
  BY DEF In, Cut, Raised
<1>8. \A x : Later(q, 1, x) <=> x \in W
  <2>1. 1 + 1 = 2
    OBVIOUS
  <2> QED
    BY <2>1 DEF Later
<1> HIDE DEF V, W
<1>9. \A i \in 1..Len(p) : \A x : Later(q, i + 1, x) => Later(p, i, x)
  <2> TAKE i \in 1..Len(p)
  <2> TAKE x
  <2> HAVE Later(q, i + 1, x)
  <2>1. PICK j \in (i + 1 + 1)..Len(q) : q[j] = x
    BY DEF Later
  <2>2. j - 1 \in (i + 1)..Len(p) /\ p[j - 1] = x
    BY <1>1, <2>1
  <2> QED
    BY <2>2 DEF Later
<1>10. \A x : (In(q, x) <=> In(p, x) \/ x = q[1]) /\ (Later(q, 1, x) <=> In(p, x))
  BY <1>6, <1>7, <1>8
<1>11. \A h : Cut(q, h) <=> Cut(p, h) \/ (q[1].type = "disconnected" /\ Height[q[1].block] <= h)
  BY <1>6, <1>7
<1>12. \A h : Raised(q, h) <=> Raised(p, h) \/ (q[1].type = "connected" /\ Height[q[1].block] >= h)
  BY <1>6, <1>7
<1> QED
  BY <1>1, <1>9, <1>10, <1>11, <1>12 DEF p

LEMMA NothingPending ==
    /\ \A x : ~In(<<>>, x)
    /\ \A h : ~Cut(<<>>, h) /\ ~Raised(<<>>, h)
    /\ \A z \in Blocks : Path(<<>>, z) /\ Reached(<<>>, z) = z
<1>1. 1..Len(<<>>) = {} /\ <<>> \in Seq(Events)
  OBVIOUS
<1> QED
  BY <1>1 DEF In, Cut, Raised, Path, Reached

\* ConnectTip and DisconnectTip lengthen the walk.
LEMMA PathConnects ==
    ASSUME NEW q, NEW z, Path(q, z), NEW b \in Blocks, b # Genesis, Parent[b] = z
    PROVE  Path(Append(q, Conn(b)), b)
<1> DEFINE p == Append(q, Conn(b))
<1>1. /\ q \in Seq(Events) /\ z \in Blocks /\ Conn(b) \in Events /\ Conn(b).type = "connected" /\ Conn(b).block = b
      /\ Before(Conn(b)) = z /\ After(Conn(b)) = b
  BY EventFacts DEF Path, Before, After
<1>2. /\ p \in Seq(Events) /\ Len(q) \in Nat /\ Len(p) = Len(q) + 1
      /\ \A i \in 1..Len(q) : p[i] = q[i]
      /\ p[Len(q) + 1] = Conn(b)
      /\ \A i \in 1..Len(q) : \A x : Later(p, i, x) <=> Later(q, i, x) \/ x = Conn(b)
  BY <1>1, AppendFacts
<1>3. Ancestors[b] = Ancestors[z] \cup {b} /\ b \in Ancestors[b]
  BY TreeFacts
<1> HIDE DEF p
<1>4. ASSUME NEW i \in 1..Len(p)
      PROVE  /\ p[i].block # Genesis
             /\ After(p[i]) = IF i = Len(p) THEN b ELSE Before(p[i + 1])
             /\ \A a \in Ancestors[b] : a \in Ancestors[After(p[i])] \/ Later(p, i, Conn(a))
             /\ p[i].type = "connected" => p[i].block \in Ancestors[b] \/ Later(p, i, Disc(p[i].block))
  <2>1. CASE i = Len(q) + 1
    BY <1>1, <1>2, <1>3, <2>1
  <2>2. CASE i \in 1..Len(q)
    <3>1. p[i] = q[i] /\ i # Len(p) /\ (i # Len(q) => i + 1 \in 1..Len(q) /\ p[i + 1] = q[i + 1])
          /\ (i = Len(q) => p[i + 1] = Conn(b))
      BY <1>2, <2>2
    <3>2. /\ q[i].block # Genesis
          /\ After(q[i]) = IF i = Len(q) THEN z ELSE Before(q[i + 1])
          /\ \A a \in Ancestors[z] : a \in Ancestors[After(q[i])] \/ Later(q, i, Conn(a))
          /\ q[i].type = "connected" => q[i].block \in Ancestors[z] \/ Later(q, i, Disc(q[i].block))
      BY <2>2 DEF Path
    <3>3. After(p[i]) = IF i = Len(p) THEN b ELSE Before(p[i + 1])
      BY <1>1, <3>1, <3>2
    <3>4. \A a \in Ancestors[b] : a \in Ancestors[After(p[i])] \/ Later(p, i, Conn(a))
      BY <1>2, <1>3, <2>2, <3>1, <3>2
    <3>5. p[i].type = "connected" => p[i].block \in Ancestors[b] \/ Later(p, i, Disc(p[i].block))
      BY <1>2, <1>3, <2>2, <3>1, <3>2
    <3> QED
      BY <3>1, <3>2, <3>3, <3>4, <3>5
  <2> QED
    BY <1>2, <2>1, <2>2
<1> QED
  BY <1>2, <1>4 DEF Path, p

LEMMA PathDisconnects ==
    ASSUME NEW q, NEW z, Path(q, z), z # Genesis
    PROVE  Path(Append(q, Disc(z)), Parent[z])
<1> DEFINE p == Append(q, Disc(z))
           b == Parent[z]
<1>1. /\ q \in Seq(Events) /\ z \in Blocks /\ Disc(z) \in Events /\ Disc(z).type = "disconnected" /\ Disc(z).block = z
      /\ Before(Disc(z)) = z /\ After(Disc(z)) = b
  BY EventFacts DEF Path, Before, After
<1>2. /\ p \in Seq(Events) /\ Len(q) \in Nat /\ Len(p) = Len(q) + 1
      /\ \A i \in 1..Len(q) : p[i] = q[i]
      /\ p[Len(q) + 1] = Disc(z)
      /\ \A i \in 1..Len(q) : \A x : Later(p, i, x) <=> Later(q, i, x) \/ x = Disc(z)
  BY <1>1, AppendFacts
<1>3. b \in Blocks /\ Ancestors[z] = Ancestors[b] \cup {z}
  BY <1>1, TreeFacts
<1> HIDE DEF p, b
<1>4. ASSUME NEW i \in 1..Len(p)
      PROVE  /\ p[i].block # Genesis
             /\ After(p[i]) = IF i = Len(p) THEN b ELSE Before(p[i + 1])
             /\ \A a \in Ancestors[b] : a \in Ancestors[After(p[i])] \/ Later(p, i, Conn(a))
             /\ p[i].type = "connected" => p[i].block \in Ancestors[b] \/ Later(p, i, Disc(p[i].block))
  <2>1. CASE i = Len(q) + 1
    BY <1>1, <1>2, <1>3, <2>1
  <2>2. CASE i \in 1..Len(q)
    <3>1. p[i] = q[i] /\ i # Len(p) /\ (i # Len(q) => i + 1 \in 1..Len(q) /\ p[i + 1] = q[i + 1])
          /\ (i = Len(q) => p[i + 1] = Disc(z))
      BY <1>2, <2>2
    <3>2. /\ q[i].block # Genesis
          /\ After(q[i]) = IF i = Len(q) THEN z ELSE Before(q[i + 1])
          /\ \A a \in Ancestors[z] : a \in Ancestors[After(q[i])] \/ Later(q, i, Conn(a))
          /\ q[i].type = "connected" => q[i].block \in Ancestors[z] \/ Later(q, i, Disc(q[i].block))
      BY <2>2 DEF Path
    <3>3. After(p[i]) = IF i = Len(p) THEN b ELSE Before(p[i + 1])
      BY <1>1, <3>1, <3>2
    <3>4. \A a \in Ancestors[b] : a \in Ancestors[After(p[i])] \/ Later(p, i, Conn(a))
      BY <1>2, <1>3, <2>2, <3>1, <3>2
    <3>5. p[i].type = "connected" => p[i].block \in Ancestors[b] \/ Later(p, i, Disc(p[i].block))
      BY <1>2, <1>3, <2>2, <3>1, <3>2
    <3> QED
      BY <3>1, <3>2, <3>3, <3>4, <3>5
  <2> QED
    BY <1>2, <2>1, <2>2
<1> QED
  BY <1>2, <1>3, <1>4 DEF Path, p, b

\* A delivery shortens it.
LEMMA PathDelivers ==
    ASSUME NEW q, NEW z, Path(q, z), q # <<>>
    PROVE  Path(Tail(q), z) /\ Reached(Tail(q), z) = After(q[1])
<1> DEFINE p == Tail(q)
<1>1. q \in Seq(Events) /\ z \in Blocks
  BY DEF Path
<1>2. /\ p \in Seq(Events) /\ Len(q) \in Nat \ {0} /\ Len(p) = Len(q) - 1
      /\ (p = <<>> <=> Len(q) = 1)
      /\ \A i \in 1..Len(p) : p[i] = q[i + 1]
      /\ \A i \in 1..Len(p) : \A x : Later(q, i + 1, x) => Later(p, i, x)
  BY <1>1, TailFacts
<1> HIDE DEF p
<1>3. ASSUME NEW i \in 1..Len(p)
      PROVE  /\ p[i].block # Genesis
             /\ After(p[i]) = IF i = Len(p) THEN z ELSE Before(p[i + 1])
             /\ \A a \in Ancestors[z] : a \in Ancestors[After(p[i])] \/ Later(p, i, Conn(a))
             /\ p[i].type = "connected" => p[i].block \in Ancestors[z] \/ Later(p, i, Disc(p[i].block))
  <2>1. /\ i + 1 \in 1..Len(q) /\ p[i] = q[i + 1] /\ (i = Len(p) <=> i + 1 = Len(q))
        /\ i # Len(p) => p[i + 1] = q[(i + 1) + 1]
    BY <1>2
  <2>2. /\ q[i + 1].block # Genesis
        /\ After(q[i + 1]) = IF i + 1 = Len(q) THEN z ELSE Before(q[(i + 1) + 1])
        /\ \A a \in Ancestors[z] : a \in Ancestors[After(q[i + 1])] \/ Later(q, i + 1, Conn(a))
        /\ q[i + 1].type = "connected" => q[i + 1].block \in Ancestors[z] \/ Later(q, i + 1, Disc(q[i + 1].block))
    BY <2>1 DEF Path
  <2> QED
    BY <1>2, <2>1, <2>2
<1>4. Path(p, z)
  BY <1>1, <1>2, <1>3 DEF Path
<1>5. Reached(p, z) = After(q[1])
  <2>1. 1 \in 1..Len(q) /\ After(q[1]) = IF 1 = Len(q) THEN z ELSE Before(q[1 + 1])
    BY <1>2 DEF Path
  <2>2. p # <<>> => p[1] = q[1 + 1]
    BY <1>2
  <2> QED
    BY <1>2, <2>1, <2>2 DEF Reached
<1> QED
  BY <1>4, <1>5 DEF p

\* Where the walk begins does not change when it is lengthened.
LEMMA ReachedAppend ==
    ASSUME NEW q \in Seq(Events), NEW z, NEW y, NEW e \in Events, Before(e) = z
    PROVE  Reached(Append(q, e), y) = Reached(q, z)
<1>1. Append(q, e) # <<>> /\ (q = <<>> => Append(q, e)[1] = e) /\ (q # <<>> => Append(q, e)[1] = q[1])
  OBVIOUS
<1> QED
  BY <1>1 DEF Reached

\* The first notification connects b.
LEMMA FirstConnects ==
    ASSUME NEW q, NEW z, Path(q, z), q # <<>>, NEW b, q[1] = Conn(b)
    PROVE  /\ z \in Blocks /\ b \in Blocks /\ b # Genesis
           /\ b \in Ancestors[z] \/ In(Tail(q), Disc(b))
           /\ \A a \in Ancestors[z] : a \in Ancestors[b] \/ In(Tail(q), Conn(a))
           /\ Height[b] >= Height[z] \/ Raised(Tail(q), Height[z])
           /\ Reached(q, z) = Parent[b] /\ Reached(Tail(q), z) = b
           /\ Tail(q) = <<>> => z = b
<1>1. q \in Seq(Events) /\ z \in Blocks /\ Len(q) \in Nat \ {0} /\ q[1] \in Events /\ 1 \in 1..Len(q)
  BY TailFacts DEF Path
<1>2. Conn(b).type = "connected" /\ Conn(b).block = b /\ b \in Blocks
  BY <1>1, EventFacts
<1>3. After(q[1]) = b /\ Before(q[1]) = Parent[b]
  BY <1>2 DEF After, Before
<1>4. b # Genesis /\ (b \in Ancestors[z] \/ Later(q, 1, Disc(b)))
  BY <1>1, <1>2 DEF Path
<1>5. \A a \in Ancestors[z] : a \in Ancestors[b] \/ Later(q, 1, Conn(a))
  BY <1>1, <1>3 DEF Path
<1>6. \A x : Later(q, 1, x) <=> In(Tail(q), x)
  BY <1>1, TailFacts
<1>7. Height[b] >= Height[z] \/ Raised(Tail(q), Height[z])
  <2>1. CASE z \in Ancestors[b]
    BY <1>2, <2>1, Below, TreeFacts
  <2>2. CASE In(Tail(q), Conn(z))
    <3>1. PICK i \in 1..Len(Tail(q)) : Tail(q)[i] = Conn(z)
      BY <2>2 DEF In
    <3>2. Conn(z).type = "connected" /\ Conn(z).block = z /\ Height[z] >= Height[z]
      BY <1>1, EventFacts, TreeFacts
    <3> QED
      BY <3>1, <3>2 DEF Raised
  <2> QED
    BY <1>1, <1>5, <1>6, <2>1, <2>2, TreeFacts
<1>8. Reached(q, z) = Parent[b]
  BY <1>3 DEF Reached
<1>9. Reached(Tail(q), z) = b
  BY <1>3, PathDelivers
<1> QED
  BY <1>1, <1>2, <1>4, <1>5, <1>6, <1>7, <1>8, <1>9 DEF Reached

\* The first notification disconnects x.
LEMMA FirstDisconnects ==
    ASSUME NEW q, NEW z, Path(q, z), q # <<>>, NEW x, q[1] = Disc(x)
    PROVE  /\ z \in Blocks /\ x \in Blocks /\ x # Genesis
           /\ Reached(q, z) = x /\ Reached(Tail(q), z) = Parent[x]
           /\ Tail(q) = <<>> => z = Parent[x]
<1>1. q \in Seq(Events) /\ z \in Blocks /\ Len(q) \in Nat \ {0} /\ q[1] \in Events /\ 1 \in 1..Len(q)
  BY TailFacts DEF Path
<1>2. Disc(x).type = "disconnected" /\ Disc(x).block = x /\ x \in Blocks
  BY <1>1, EventFacts
<1>3. After(q[1]) = Parent[x] /\ Before(q[1]) = x
  BY <1>2 DEF After, Before
<1>4. x # Genesis
  BY <1>1, <1>2 DEF Path
<1>5. Reached(q, z) = x
  BY <1>3 DEF Reached
<1>6. Reached(Tail(q), z) = Parent[x]
  BY <1>3, PathDelivers
<1> QED
  BY <1>1, <1>2, <1>4, <1>5, <1>6 DEF Reached

\* A block of the chain that is not below what is disconnected is connected again.
LEMMA Reconnected ==
    ASSUME NEW q, NEW z, Path(q, z), NEW b \in Ancestors[z], NEW i \in 1..Len(q), q[i].type = "disconnected",
           b \notin Ancestors[Parent[q[i].block]]
    PROVE  In(q, Conn(b))
<1>1. After(q[i]) = Parent[q[i].block]
  BY DEF After
<1>2. Later(q, i, Conn(b))
  BY <1>1 DEF Path
<1>3. PICK j \in (i + 1)..Len(q) : q[j] = Conn(b)
  BY <1>2 DEF Later
<1>4. j \in 1..Len(q)
  BY DEF Path
<1> QED
  BY <1>3, <1>4 DEF In

LEMMA CutReconnects ==
    ASSUME NEW q, NEW z, Path(q, z), NEW b \in Ancestors[z], Cut(q, Height[b])
    PROVE  In(q, Conn(b))
<1>1. PICK i \in 1..Len(q) : q[i].type = "disconnected" /\ Height[q[i].block] <= Height[b]
  BY DEF Cut
<1>2. q[i] \in Events /\ q[i].block # Genesis /\ z \in Blocks /\ q[i].block \in Blocks
  BY EventFacts DEF Path
<1>3. /\ Parent[q[i].block] \in Blocks /\ Height[q[i].block] \in Nat \ {0}
      /\ Height[Parent[q[i].block]] = Height[q[i].block] - 1
  BY <1>2, Step
<1>4. Height[b] \in Nat
  BY <1>2, Below
<1>5. b \notin Ancestors[Parent[q[i].block]]
  BY <1>1, <1>3, <1>4, Below
<1> QED
  BY <1>1, <1>5, Reconnected

\* A BCT that is in b, on the chain, and in y, which is to be disconnected: b is
\* to be connected.
LEMMA ElsewhereReconnects ==
    ASSUME NEW q, NEW z, Path(q, z), NEW b \in Ancestors[z], NEW y, In(q, Disc(y)),
           NEW t \in Creates[b] \cap Creates[y]
    PROVE  In(q, Conn(b))
<1>1. PICK i \in 1..Len(q) : q[i] = Disc(y)
  BY DEF In
<1>2. q[i] \in Events /\ q[i].block # Genesis
  BY DEF Path
<1>3. q[i].type = "disconnected" /\ q[i].block = y /\ y \in Blocks /\ y # Genesis
  BY <1>1, <1>2, EventFacts
<1>4. ASSUME b \in Ancestors[Parent[y]] PROVE FALSE
  <2>1. y \in Ancestors[y] /\ y \notin Ancestors[Parent[y]] /\ Ancestors[Parent[y]] \subseteq Ancestors[y]
    BY <1>3, Step
  <2>2. b = y
    BY <1>3, <1>4, <2>1, OneCreation
  <2> QED
    BY <1>4, <2>1, <2>2
<1> QED
  BY <1>3, <1>4, Reconnected
----------------------------------------------------------------------------
(* Records.                                                                *)

LEMMA Bees == beeGestationBlocks \in Nat \ {0} /\ beeLifespanBlocks \in Nat
  BY BlocksAssumption

LEMMA Ranks ==
    /\ Rank["unset"] = 0 /\ Rank["immature"] = 1 /\ Rank["mature"] = 2 /\ Rank["expired"] = 3
    /\ \A s \in Statuses : Rank[s] \in Nat
  BY DEF Rank, Statuses

LEMMA StatusType ==
    ASSUME NEW h \in Nat, NEW n \in Nat
    PROVE  updateStatus(h, n) \in Statuses /\ (h # 0 => updateStatus(h, n) # "unset") /\ (h = 0 => updateStatus(h, n) = "unset")
  BY Bees DEF updateStatus, Statuses

\* As the chain grows a status moves forward.
LEMMA StatusGrows ==
    ASSUME NEW h \in Nat, NEW m \in Nat, NEW n \in Nat, m <= n
    PROVE  Rank[updateStatus(h, m)] <= Rank[updateStatus(h, n)]
<1>1. h + beeGestationBlocks + beeLifespanBlocks \in Nat /\ h + beeGestationBlocks \in Nat
  BY Bees
<1>2. CASE h = 0
  BY <1>2, Ranks DEF updateStatus
<1>3. CASE h # 0
  <2>1. updateStatus(h, m) = IF m >= h + beeGestationBlocks + beeLifespanBlocks THEN "expired"
                             ELSE IF m < h + beeGestationBlocks THEN "immature" ELSE "mature"
    BY <1>1, <1>3, Bees DEF updateStatus
  <2>2. updateStatus(h, n) = IF n >= h + beeGestationBlocks + beeLifespanBlocks THEN "expired"
                             ELSE IF n < h + beeGestationBlocks THEN "immature" ELSE "mature"
    BY <1>1, <1>3, Bees DEF updateStatus
  <2> QED
    BY <1>1, <2>1, <2>2, Ranks, Bees
<1> QED
  BY <1>2, <1>3

Table(d) == DOMAIN d \subseteq Txs /\ \A t \in DOMAIN d : d[t] \in Records /\ (d[t].height # 0 => d[t].status # "unset")

LEMMA RecordFacts ==
    ASSUME NEW r \in Records
    PROVE  r.height \in Nat /\ r.status \in Statuses /\ r.blocksFound \in Nat /\ r.rewardsPaid \in Nat
  BY DEF Records

\* updateAllStatuses brings every status up to the height.
LEMMA UpdatedIs ==
    ASSUME NEW d, Table(d), NEW n \in Nat
    PROVE  LET u == updateAllStatuses(d, n)
           IN  /\ Table(u) /\ DOMAIN u = DOMAIN d
               /\ \A t \in DOMAIN d : /\ u[t].height = d[t].height /\ u[t].rewardsPaid = d[t].rewardsPaid
                                      /\ Rank[u[t].status] >= Rank[updateStatus(d[t].height, n)]
<1> DEFINE u == updateAllStatuses(d, n)
           s(t) == IF d[t].height = 0 THEN d[t].status
                   ELSE IF d[t].status # "expired" /\ d[t].height + beeGestationBlocks + beeLifespanBlocks <= n
                        THEN "expired"
                   ELSE IF d[t].status = "immature" /\ d[t].height + beeGestationBlocks <= n
                        THEN "mature" ELSE d[t].status
<1>1. DOMAIN u = DOMAIN d
  BY DEF updateAllStatuses
<1>2. ASSUME NEW t \in DOMAIN d
      PROVE  /\ u[t] \in Records /\ u[t].height = d[t].height /\ u[t].rewardsPaid = d[t].rewardsPaid
             /\ u[t].status = s(t)
  <2>1. d[t] \in Records
    BY DEF Table
  <2>2. s(t) \in Statuses
    BY <2>1, RecordFacts DEF Statuses
  <2>3. u[t] = [d[t] EXCEPT !.status = s(t)]
    BY <1>1 DEF updateAllStatuses
  <2> HIDE DEF s, u
  <2> QED
    BY <2>1, <2>2, <2>3, SMT DEF Records
<1>3. ASSUME NEW t \in DOMAIN d
      PROVE  (d[t].height # 0 => s(t) # "unset") /\ Rank[s(t)] >= Rank[updateStatus(d[t].height, n)]
  <2>1. d[t].height \in Nat /\ d[t].status \in Statuses /\ (d[t].height # 0 => d[t].status # "unset")
    BY RecordFacts DEF Table
  <2>2. CASE d[t].height = 0
    <3>1. s(t) = d[t].status /\ updateStatus(d[t].height, n) = "unset"
      BY <2>2 DEF updateStatus
    <3> HIDE DEF s
    <3> QED
      BY <2>1, <2>2, <3>1, Ranks
  <2>3. CASE d[t].height # 0
    <3>1. d[t].status \in {"immature", "mature", "expired"}
      BY <2>1, <2>3 DEF Statuses
    <3>2. updateStatus(d[t].height, n) =
             IF n >= d[t].height + beeGestationBlocks + beeLifespanBlocks THEN "expired"
             ELSE IF n < d[t].height + beeGestationBlocks THEN "immature" ELSE "mature"
      BY <2>1, <2>3, Bees DEF updateStatus
    <3>3. d[t].height + beeGestationBlocks \in Nat /\ d[t].height + beeGestationBlocks + beeLifespanBlocks \in Nat
      BY <2>1, Bees
    <3>4. s(t) # "unset"
      BY <2>3, <3>1
    <3>5. Rank[s(t)] >= Rank[updateStatus(d[t].height, n)]
      BY <2>3, <3>1, <3>2, <3>3, Ranks
    <3> QED
      BY <3>4, <3>5
  <2> QED
    BY <2>2, <2>3
<1> HIDE DEF u, s
<1>4. Table(u)
  BY <1>1, <1>2, <1>3 DEF Table
<1> QED
  BY <1>1, <1>2, <1>3, <1>4 DEF u

\* processBlock on the table "bcts", for a block b whose BCTs in R get a record.
Processed(d, b, R) ==
    updateAllStatuses(Insert(Paid(d, b), [t \in R |-> NewRecord(Height[b], "immature")]), Height[b])

IsProcessed(u, d, b, R) ==
    /\ Table(u) /\ DOMAIN u = DOMAIN d \cup R
    /\ \A t \in DOMAIN d : /\ u[t].height = d[t].height
                           /\ u[t].rewardsPaid = d[t].rewardsPaid + (IF Rewarded[b] = t THEN Amount[b] ELSE 0)
    /\ \A t \in R \ DOMAIN d : u[t].height = Height[b] /\ u[t].rewardsPaid = 0
    /\ \A t \in DOMAIN u : Rank[u[t].status] >= Rank[updateStatus(u[t].height, Height[b])]

LEMMA ProcessedIs ==
    ASSUME NEW d, Table(d), NEW b \in Blocks, b # Genesis, NEW R \in SUBSET Txs
    PROVE  IsProcessed(Processed(d, b, R), d, b, R)
<1> DEFINE p == Paid(d, b)
           new == [t \in R |-> NewRecord(Height[b], "immature")]
           i == Insert(p, new)
           u == updateAllStatuses(i, Height[b])
<1>1. Height[b] \in Nat /\ Amount[b] \in Nat
  BY TreeFacts, AmountFacts
<1>2. /\ DOMAIN p = DOMAIN d
      /\ \A t \in DOMAIN d : /\ p[t] \in Records /\ p[t].height = d[t].height /\ p[t].status = d[t].status
                             /\ p[t].rewardsPaid = d[t].rewardsPaid + (IF Rewarded[b] = t THEN Amount[b] ELSE 0)
  <2>1. DOMAIN p = DOMAIN d
    BY DEF Paid
  <2>2. ASSUME NEW t \in DOMAIN d
        PROVE  /\ p[t] \in Records /\ p[t].height = d[t].height /\ p[t].status = d[t].status
               /\ p[t].rewardsPaid = d[t].rewardsPaid + (IF Rewarded[b] = t THEN Amount[b] ELSE 0)
    <3>1. d[t] \in Records
      BY DEF Table
    <3>2. CASE Rewarded[b] = t
      <4>1. p[t] = [d[t] EXCEPT !.blocksFound = d[t].blocksFound + 1, !.rewardsPaid = d[t].rewardsPaid + Amount[b]]
        BY <3>1, <3>2 DEF Paid, Records
      <4>2. d[t].rewardsPaid + (IF Rewarded[b] = t THEN Amount[b] ELSE 0) = d[t].rewardsPaid + Amount[b]
        BY <3>2
      <4>3. d[t].blocksFound + 1 \in Nat /\ d[t].rewardsPaid + Amount[b] \in Nat
        BY <1>1, <3>1, RecordFacts
      <4> HIDE DEF p
      <4>4. /\ p[t] \in Records /\ p[t].height = d[t].height /\ p[t].status = d[t].status
            /\ p[t].rewardsPaid = d[t].rewardsPaid + Amount[b]
        <5> DEFINE n == d[t].blocksFound + 1
                   m == d[t].rewardsPaid + Amount[b]
        <5>1. p[t] = [d[t] EXCEPT !.blocksFound = n, !.rewardsPaid = m] /\ n \in Nat /\ m \in Nat
          BY <4>1, <4>3
        <5>2. p[t] \in Records /\ p[t].height = d[t].height /\ p[t].status = d[t].status /\ p[t].rewardsPaid = m
          <6> HIDE DEF n, m
          <6>1. \A r \in Records : \A s : s = [r EXCEPT !.blocksFound = n, !.rewardsPaid = m] =>
                   s \in Records /\ s.height = r.height /\ s.status = r.status /\ s.rewardsPaid = m
            BY <5>1 DEF Records
          <6>2. p[t] = [d[t] EXCEPT !.blocksFound = n, !.rewardsPaid = m]
            BY <5>1
          <6> QED
            BY <3>1, <6>1, <6>2
        <5> QED
          BY <5>2
      <4> QED
        BY <4>2, <4>4
    <3>3. CASE Rewarded[b] # t
      <4>1. p[t] = d[t]
        BY <3>3 DEF Paid
      <4>2. d[t].rewardsPaid \in Nat
        BY <3>1, RecordFacts
      <4>3. d[t].rewardsPaid + (IF Rewarded[b] = t THEN Amount[b] ELSE 0) = d[t].rewardsPaid
        BY <3>3, <4>2
      <4> HIDE DEF p
      <4> QED
        BY <3>1, <4>1, <4>3
    <3> QED
      BY <3>2, <3>3
  <2> QED
    BY <2>1, <2>2
<1> HIDE DEF p
<1>3. DOMAIN i = DOMAIN d \cup R
  BY <1>2 DEF Insert
<1>4. \A t \in DOMAIN d : i[t] = p[t]
  BY <1>2 DEF Insert
<1>5. \A t \in R \ DOMAIN d : i[t] = [height |-> Height[b], status |-> "immature", blocksFound |-> 0, rewardsPaid |-> 0]
  BY <1>2 DEF Insert, NewRecord
<1> HIDE DEF i
<1>6. \A t \in R \ DOMAIN d : /\ i[t] \in Records /\ i[t].height = Height[b] /\ i[t].status = "immature"
                              /\ i[t].rewardsPaid = 0
  BY <1>1, <1>5, SMT DEF Records, Statuses
<1>7. Table(i)
  BY <1>2, <1>3, <1>4, <1>6 DEF Table
<1>8. /\ Table(u) /\ DOMAIN u = DOMAIN i
      /\ \A t \in DOMAIN i : /\ u[t].height = i[t].height /\ u[t].rewardsPaid = i[t].rewardsPaid
                             /\ Rank[u[t].status] >= Rank[updateStatus(i[t].height, Height[b])]
  BY <1>1, <1>7, UpdatedIs
<1>9. u = Processed(d, b, R)
  BY DEF Processed, i, p
<1> HIDE DEF u
<1> QED
  BY <1>2, <1>3, <1>4, <1>6, <1>8, <1>9 DEF IsProcessed

\* handleReorg on the tables.
Kept(d, h) == {t \in DOMAIN d : d[t].height <= h}
KeptRewards(d, r, h) == {b \in r : Height[b] <= h /\ Rewarded[b] \in Kept(d, h)}
Reorged(d, r, h) ==
    [t \in Kept(d, h) |-> [d[t] EXCEPT !.rewardsPaid = Total(KeptRewards(d, r, h), t)]]

LEMMA ReorgedIs ==
    ASSUME NEW d, Table(d), NEW r \in SUBSET Blocks, NEW h \in Nat
    PROVE  LET u == Reorged(d, r, h)
           IN  /\ Table(u) /\ DOMAIN u = Kept(d, h)
               /\ \A t \in Kept(d, h) : /\ u[t].height = d[t].height /\ u[t].status = d[t].status
                                        /\ u[t].rewardsPaid = Total(KeptRewards(d, r, h), t)
<1> DEFINE u == Reorged(d, r, h)
           k == KeptRewards(d, r, h)
<1>1. k \in SUBSET Blocks
  BY DEF KeptRewards
<1>2. DOMAIN u = Kept(d, h) /\ Kept(d, h) \subseteq DOMAIN d
  BY DEF Reorged, Kept
<1>3. \A t \in Kept(d, h) : u[t] = [d[t] EXCEPT !.rewardsPaid = Total(k, t)]
  BY DEF Reorged
<1> HIDE DEF u, k
<1>4. ASSUME NEW t \in Kept(d, h)
      PROVE  /\ u[t] \in Records /\ u[t].height = d[t].height /\ u[t].status = d[t].status
             /\ u[t].rewardsPaid = Total(k, t)
  <2>1. d[t] \in Records
    BY <1>2 DEF Table
  <2>2. Total(k, t) \in Nat
    BY <1>1, TotalFacts
  <2>3. u[t] = [d[t] EXCEPT !.rewardsPaid = Total(k, t)]
    BY <1>3
  <2> QED
    BY <2>1, <2>2, <2>3, SMT DEF Records
<1>5. Table(u)
  BY <1>2, <1>4 DEF Table
<1> QED
  BY <1>2, <1>4, <1>5 DEF u, k

LEMMA RecordsConnect ==
    ASSUME NEW d, NEW made, NEW q, NEW z, RecordsLead(d, made, q, z), Path(q, z),
           NEW b \in Blocks, b # Genesis, Parent[b] = z
    PROVE  RecordsLead(d, made, Append(q, Conn(b)), b)
<1> DEFINE p == Append(q, Conn(b))
<1>1. q \in Seq(Events) /\ Conn(b) \in Events /\ Conn(b).type = "connected" /\ Conn(b).block = b
  BY EventFacts DEF Path
<1>2. /\ \A x : In(p, x) <=> In(q, x) \/ x = Conn(b)
      /\ \A h : Cut(p, h) <=> Cut(q, h)
      /\ \A h : Raised(p, h) <=> Raised(q, h) \/ Height[b] >= h
  <2>1. /\ \A x : In(p, x) <=> In(q, x) \/ x = Conn(b)
        /\ \A h : Cut(p, h) <=> Cut(q, h) \/ (Conn(b).type = "disconnected" /\ Height[Conn(b).block] <= h)
        /\ \A h : Raised(p, h) <=> Raised(q, h) \/ (Conn(b).type = "connected" /\ Height[Conn(b).block] >= h)
    BY <1>1, AppendFacts
  <2> QED
    BY <1>1, <2>1
<1>3. Ancestors[b] = Ancestors[z] \cup {b}
  BY TreeFacts
<1> HIDE DEF p
<1>4. ASSUME NEW t \in DOMAIN d, d[t].height # 0
      PROVE  \E y \in Blocks : /\ t \in Creates[y] /\ Height[y] = d[t].height
                               /\ y \in Ancestors[b] \/ In(p, Disc(y))
  <2>1. PICK y \in Blocks : /\ t \in Creates[y] /\ Height[y] = d[t].height
                            /\ y \in Ancestors[z] \/ In(q, Disc(y))
    BY <1>4 DEF RecordsLead
  <2> QED
    BY <1>2, <1>3, <2>1
<1>5. ASSUME NEW a \in Ancestors[b], NEW t \in Creates[a] \cap made
      PROVE  \/ In(p, Conn(a))
             \/ t \in DOMAIN d /\ (d[t].height = 0 \/ (d[t].height = Height[a] /\ ~Cut(p, Height[a])))
  BY <1>2, <1>3 DEF RecordsLead
<1>6. Raised(p, Height[b])
  BY <1>2, TreeFacts
<1> QED
  BY <1>4, <1>5, <1>6 DEF RecordsLead, p

LEMMA RecordsDisconnect ==
    ASSUME NEW d, Table(d), NEW made, NEW q, NEW z, RecordsLead(d, made, q, z), Path(q, z), z # Genesis
    PROVE  RecordsLead(d, made, Append(q, Disc(z)), Parent[z])
<1> DEFINE p == Append(q, Disc(z))
           b == Parent[z]
<1>1. z \in Blocks /\ q \in Seq(Events) /\ Disc(z) \in Events /\ Disc(z).type = "disconnected" /\ Disc(z).block = z
  BY EventFacts DEF Path
<1>2. /\ \A x : In(p, x) <=> In(q, x) \/ x = Disc(z)
      /\ \A h : Cut(p, h) <=> Cut(q, h) \/ Height[z] <= h
      /\ \A h : Raised(p, h) <=> Raised(q, h)
  <2>1. /\ \A x : In(p, x) <=> In(q, x) \/ x = Disc(z)
        /\ \A h : Cut(p, h) <=> Cut(q, h) \/ (Disc(z).type = "disconnected" /\ Height[Disc(z).block] <= h)
        /\ \A h : Raised(p, h) <=> Raised(q, h) \/ (Disc(z).type = "connected" /\ Height[Disc(z).block] >= h)
    BY <1>1, AppendFacts
  <2> QED
    BY <1>1, <2>1
<1>3. /\ Ancestors[z] = Ancestors[b] \cup {z} /\ b \in Blocks /\ Height[z] \in Nat /\ Height[b] \in Nat
      /\ Height[b] <= Height[z] /\ \A a \in Ancestors[b] : Height[a] \in Nat /\ ~(Height[z] <= Height[a])
  <2>1. Ancestors[z] = Ancestors[b] \cup {z} /\ b \in Blocks /\ Height[z] = Height[b] + 1 /\ Height[b] \in Nat
    BY <1>1, TreeFacts
  <2>2. \A a \in Ancestors[b] : Height[a] \in Nat /\ Height[a] <= Height[b]
    BY <2>1, Below
  <2> QED
    BY <2>1, <2>2
<1> HIDE DEF p, b
<1>4. ASSUME NEW t \in DOMAIN d, d[t].height # 0
      PROVE  \E y \in Blocks : /\ t \in Creates[y] /\ Height[y] = d[t].height
                               /\ y \in Ancestors[b] \/ In(p, Disc(y))
  <2>1. PICK y \in Blocks : /\ t \in Creates[y] /\ Height[y] = d[t].height
                            /\ y \in Ancestors[z] \/ In(q, Disc(y))
    BY <1>4 DEF RecordsLead
  <2> QED
    BY <1>2, <1>3, <2>1
<1>5. ASSUME NEW a \in Ancestors[b], NEW t \in Creates[a] \cap made
      PROVE  \/ In(p, Conn(a))
             \/ t \in DOMAIN d /\ (d[t].height = 0 \/ (d[t].height = Height[a] /\ ~Cut(p, Height[a])))
  BY <1>2, <1>3 DEF RecordsLead
<1>6. Raised(q, Height[z]) => Raised(p, Height[b])
  <2> SUFFICES ASSUME Raised(q, Height[z]) PROVE Raised(q, Height[b])
    BY <1>2
  <2>1. PICK i \in 1..Len(q) : q[i].type = "connected" /\ Height[q[i].block] >= Height[z]
    BY DEF Raised
  <2>2. q[i] \in Events
    BY <1>1
  <2>3. Height[q[i].block] \in Nat
    BY <2>2, EventFacts, TreeFacts
  <2>4. Height[q[i].block] >= Height[b]
    BY <1>3, <2>1, <2>3
  <2> QED
    BY <2>1, <2>4 DEF Raised
<1>7. ASSUME NEW t \in DOMAIN d
      PROVE  Rank[d[t].status] >= Rank[updateStatus(d[t].height, Height[b])] \/ Raised(p, Height[b])
  <2>1. d[t].height \in Nat /\ Rank[d[t].status] \in Nat
    BY RecordFacts, Ranks DEF Table
  <2>2. Rank[updateStatus(d[t].height, Height[b])] <= Rank[updateStatus(d[t].height, Height[z])]
    BY <1>3, <2>1, StatusGrows
  <2>3. Rank[updateStatus(d[t].height, Height[b])] \in Nat /\ Rank[updateStatus(d[t].height, Height[z])] \in Nat
    BY <1>3, <2>1, StatusType, Ranks
  <2>4. Rank[d[t].status] >= Rank[updateStatus(d[t].height, Height[z])] \/ Raised(q, Height[z])
    BY DEF RecordsLead
  <2> QED
    BY <1>6, <2>1, <2>2, <2>3, <2>4
<1> QED
  BY <1>4, <1>5, <1>7 DEF RecordsLead, p, b

\* processBlock for the first notification, which connects b.
LEMMA RecordsProcess ==
    ASSUME NEW d, Table(d), NEW made, NEW q, NEW z, RecordsLead(d, made, q, z), Path(q, z), q # <<>>,
           NEW b, q[1] = Conn(b), NEW R \in SUBSET Txs, R \subseteq Creates[b], Creates[b] \cap made \subseteq R
    PROVE  RecordsLead(Processed(d, b, R), made, Tail(q), z)
<1> DEFINE u == Processed(d, b, R)
           p == Tail(q)
<1>1. /\ z \in Blocks /\ b \in Blocks /\ b # Genesis
      /\ b \in Ancestors[z] \/ In(p, Disc(b))
      /\ \A a \in Ancestors[z] : a \in Ancestors[b] \/ In(p, Conn(a))
      /\ Height[b] >= Height[z] \/ Raised(p, Height[z])
  BY FirstConnects
<1>2. /\ Table(u) /\ DOMAIN u = DOMAIN d \cup R
      /\ \A t \in DOMAIN d : u[t].height = d[t].height
      /\ \A t \in R \ DOMAIN d : u[t].height = Height[b]
      /\ \A t \in DOMAIN u : Rank[u[t].status] >= Rank[updateStatus(u[t].height, Height[b])]
  <2>1. IsProcessed(u, d, b, R)
    BY <1>1, ProcessedIs
  <2> QED
    BY <2>1 DEF IsProcessed
<1>3. Path(p, z)
  BY PathDelivers
<1>4. q \in Seq(Events) /\ Conn(b).type = "connected"
  BY EventFacts DEF Path
<1>5. /\ \A x : In(q, x) <=> In(p, x) \/ x = Conn(b)
      /\ \A h : Cut(q, h) <=> Cut(p, h)
  BY <1>4, TailFacts
<1> HIDE DEF u, p
<1>6. ASSUME NEW t \in DOMAIN u, u[t].height # 0
      PROVE  \E y \in Blocks : /\ t \in Creates[y] /\ Height[y] = u[t].height
                               /\ y \in Ancestors[z] \/ In(p, Disc(y))
  <2>1. CASE t \in DOMAIN d
    <3>1. PICK y \in Blocks : /\ t \in Creates[y] /\ Height[y] = d[t].height
                              /\ y \in Ancestors[z] \/ In(q, Disc(y))
      BY <1>2, <1>6, <2>1 DEF RecordsLead
    <3> QED
      BY <1>2, <1>5, <2>1, <3>1, EventFacts
  <2>2. CASE t \notin DOMAIN d
    BY <1>1, <1>2, <2>2
  <2> QED
    BY <2>1, <2>2
<1>7. ASSUME NEW a \in Ancestors[z], NEW t \in Creates[a] \cap made, ~In(p, Conn(a))
      PROVE  t \in DOMAIN u /\ (u[t].height = 0 \/ (u[t].height = Height[a] /\ ~Cut(p, Height[a])))
  <2>1. CASE In(q, Conn(a))
    <3>1. a = b
      BY <1>5, <1>7, <2>1, EventFacts
    <3>2. ~Cut(p, Height[a])
      BY <1>3, <1>7, CutReconnects
    <3>3. t \in DOMAIN u
      BY <1>2, <3>1
    <3>4. ASSUME t \in DOMAIN d, d[t].height # 0 PROVE d[t].height = Height[a]
      <4>1. PICK y \in Blocks : /\ t \in Creates[y] /\ Height[y] = d[t].height
                                /\ y \in Ancestors[z] \/ In(q, Disc(y))
        BY <3>4 DEF RecordsLead
      <4>2. CASE y \in Ancestors[z]
        BY <1>1, <4>1, <4>2, OneCreation
      <4>3. CASE In(q, Disc(y))
        <5>1. In(p, Disc(y))
          BY <1>5, <4>3, EventFacts
        <5> QED
          BY <1>3, <1>7, <4>1, <5>1, ElsewhereReconnects
      <4> QED
        BY <4>1, <4>2, <4>3
    <3> QED
      BY <1>2, <3>1, <3>2, <3>3, <3>4
  <2>2. CASE ~In(q, Conn(a))
    <3>1. t \in DOMAIN d /\ (d[t].height = 0 \/ (d[t].height = Height[a] /\ ~Cut(q, Height[a])))
      BY <2>2 DEF RecordsLead
    <3> QED
      BY <1>2, <1>5, <3>1
  <2> QED
    BY <2>1, <2>2
<1>8. ASSUME NEW t \in DOMAIN u
      PROVE  Rank[u[t].status] >= Rank[updateStatus(u[t].height, Height[z])] \/ Raised(p, Height[z])
  <2>1. u[t].height \in Nat /\ Rank[u[t].status] \in Nat /\ Height[b] \in Nat /\ Height[z] \in Nat
    BY <1>1, <1>2, RecordFacts, Ranks, TreeFacts DEF Table
  <2>2. Height[b] >= Height[z] => Rank[updateStatus(u[t].height, Height[z])] <= Rank[updateStatus(u[t].height, Height[b])]
    BY <2>1, StatusGrows
  <2>3. Rank[updateStatus(u[t].height, Height[b])] \in Nat /\ Rank[updateStatus(u[t].height, Height[z])] \in Nat
    BY <2>1, StatusType, Ranks
  <2>4. Rank[u[t].status] >= Rank[updateStatus(u[t].height, Height[b])]
    BY <1>2
  <2> QED
    BY <1>1, <2>1, <2>2, <2>3, <2>4
<1> QED
  BY <1>6, <1>7, <1>8 DEF RecordsLead, u, p

\* handleReorg for the first notification, which disconnects x.
LEMMA RecordsReorg ==
    ASSUME NEW d, Table(d), NEW made, NEW q, NEW z, RecordsLead(d, made, q, z), Path(q, z), q # <<>>,
           NEW x, q[1] = Disc(x), NEW r \in SUBSET Blocks
    PROVE  RecordsLead(Reorged(d, r, Height[x] - 1), made, Tail(q), z)
<1> DEFINE h == Height[x] - 1
           u == Reorged(d, r, h)
           p == Tail(q)
<1>1. z \in Blocks /\ x \in Blocks /\ x # Genesis
  BY FirstDisconnects
<1>2. Height[x] \in Nat \ {0} /\ h \in Nat
  BY <1>1, Step
<1>3. /\ Table(u) /\ DOMAIN u = Kept(d, h)
      /\ \A t \in Kept(d, h) : u[t].height = d[t].height /\ u[t].status = d[t].status
  BY <1>2, ReorgedIs
<1>4. q \in Seq(Events) /\ Disc(x).type = "disconnected" /\ Disc(x).block = x
  BY EventFacts DEF Path
<1>5. /\ \A e : In(q, e) <=> In(p, e) \/ e = Disc(x)
      /\ \A n : Cut(q, n) <=> Cut(p, n) \/ Height[x] <= n
      /\ \A n : Raised(q, n) <=> Raised(p, n)
  BY <1>4, TailFacts
<1>6. \A t \in DOMAIN d : d[t].height \in Nat /\ (t \in Kept(d, h) <=> d[t].height < Height[x])
  <2>1. \A t \in DOMAIN d : d[t].height \in Nat
    BY RecordFacts DEF Table
  <2> QED
    BY <1>2, <2>1 DEF Kept
<1>7. Kept(d, h) \subseteq DOMAIN d
  BY DEF Kept
<1> HIDE DEF u, p, h
<1>8. ASSUME NEW t \in DOMAIN u, u[t].height # 0
      PROVE  \E y \in Blocks : /\ t \in Creates[y] /\ Height[y] = u[t].height
                               /\ y \in Ancestors[z] \/ In(p, Disc(y))
  <2>1. t \in DOMAIN d /\ u[t].height = d[t].height /\ d[t].height < Height[x] /\ d[t].height \in Nat
    BY <1>3, <1>6, <1>7
  <2>2. PICK y \in Blocks : /\ t \in Creates[y] /\ Height[y] = d[t].height
                            /\ y \in Ancestors[z] \/ In(q, Disc(y))
    BY <1>8, <2>1 DEF RecordsLead
  <2>3. y # x
    BY <1>2, <2>1, <2>2
  <2> QED
    BY <1>5, <2>1, <2>2, <2>3, EventFacts
<1>9. ASSUME NEW a \in Ancestors[z], NEW t \in Creates[a] \cap made, ~In(p, Conn(a))
      PROVE  t \in DOMAIN u /\ (u[t].height = 0 \/ (u[t].height = Height[a] /\ ~Cut(p, Height[a])))
  <2>1. ~In(q, Conn(a))
    BY <1>5, <1>9, EventFacts
  <2>2. t \in DOMAIN d /\ (d[t].height = 0 \/ (d[t].height = Height[a] /\ ~Cut(q, Height[a])))
    BY <2>1 DEF RecordsLead
  <2>3. Height[a] \in Nat /\ (~Cut(q, Height[a]) => Height[a] < Height[x])
    <3>1. Height[a] \in Nat
      BY <1>1, Below
    <3> QED
      BY <1>2, <1>5, <3>1
  <2>4. t \in Kept(d, h)
    BY <1>2, <1>6, <2>2, <2>3
  <2> QED
    BY <1>3, <1>5, <2>2, <2>4
<1>10. ASSUME NEW t \in DOMAIN u
      PROVE  Rank[u[t].status] >= Rank[updateStatus(u[t].height, Height[z])] \/ Raised(p, Height[z])
  BY <1>3, <1>5, <1>7 DEF RecordsLead
<1> QED
  BY <1>8, <1>9, <1>10 DEF RecordsLead, u, p, h

LEMMA RewardsConnect ==
    ASSUME NEW d, NEW r, NEW q, NEW z, RewardsLead(d, r, q, z), Path(q, z),
           NEW b \in Blocks, b # Genesis, Parent[b] = z
    PROVE  RewardsLead(d, r, Append(q, Conn(b)), b)
<1> DEFINE p == Append(q, Conn(b))
<1>1. q \in Seq(Events) /\ Conn(b) \in Events /\ Conn(b).type = "connected" /\ Conn(b).block = b
  BY EventFacts DEF Path
<1>2. /\ \A x : In(p, x) <=> In(q, x) \/ x = Conn(b)
      /\ \A h : Cut(p, h) <=> Cut(q, h) \/ (Conn(b).type = "disconnected" /\ Height[Conn(b).block] <= h)
  BY <1>1, AppendFacts
<1>3. \A h : Cut(p, h) <=> Cut(q, h)
  BY <1>1, <1>2
<1>4. Before(Conn(b)) = z
  BY <1>1 DEF Before
<1>5. Reached(p, b) = Reached(q, z)
  BY <1>1, <1>4, ReachedAppend
<1>6. Ancestors[b] = Ancestors[z] \cup {b}
  BY TreeFacts
<1> HIDE DEF p
<1>7. ASSUME NEW a \in Ancestors[b], Rewarded[a] \in DOMAIN d, ~In(p, Conn(a))
      PROVE  a \in r /\ ~Cut(p, Height[a])
  BY <1>2, <1>3, <1>6, <1>7 DEF RewardsLead
<1> QED
  BY <1>5, <1>7 DEF RewardsLead, p

LEMMA RewardsDisconnect ==
    ASSUME NEW d, NEW r, NEW q, NEW z, RewardsLead(d, r, q, z), Path(q, z), z # Genesis
    PROVE  RewardsLead(d, r, Append(q, Disc(z)), Parent[z])
<1> DEFINE p == Append(q, Disc(z))
           b == Parent[z]
<1>1. z \in Blocks /\ q \in Seq(Events) /\ Disc(z) \in Events /\ Disc(z).type = "disconnected" /\ Disc(z).block = z
  BY EventFacts DEF Path
<1>2. /\ \A x : In(p, x) <=> In(q, x) \/ x = Disc(z)
      /\ \A h : Cut(p, h) <=> Cut(q, h) \/ (Disc(z).type = "disconnected" /\ Height[Disc(z).block] <= h)
  BY <1>1, AppendFacts
<1>3. Before(Disc(z)) = z
  BY <1>1 DEF Before
<1>4. Reached(p, b) = Reached(q, z)
  BY <1>1, <1>3, ReachedAppend
<1>5. b \in Blocks /\ Ancestors[b] \subseteq Ancestors[z] /\ Height[z] \in Nat
      /\ \A a \in Ancestors[b] : a \in Blocks /\ Height[a] < Height[z]
  BY <1>1, Step, TreeFacts
<1>6. \A a \in Ancestors[b] : Height[a] \in Nat
  BY <1>5, TreeFacts
<1> HIDE DEF p, b
<1>7. ASSUME NEW a \in Ancestors[b], Rewarded[a] \in DOMAIN d, ~In(p, Conn(a))
      PROVE  a \in r /\ ~Cut(p, Height[a])
  <2>1. a \in r /\ ~Cut(q, Height[a])
    BY <1>2, <1>5, <1>7 DEF RewardsLead
  <2>2. ~(Height[z] <= Height[a])
    BY <1>5, <1>6
  <2> QED
    BY <1>1, <1>2, <2>1, <2>2
<1> QED
  BY <1>4, <1>7 DEF RewardsLead, p, b

LEMMA RewardsProcess ==
    ASSUME NEW d, Table(d), NEW r, NEW q, NEW z, RewardsLead(d, r, q, z), Path(q, z), q # <<>>,
           \A y \in r : Rewarded[y] \in DOMAIN d,
           NEW b, q[1] = Conn(b), NEW R \in SUBSET Txs, R \subseteq Creates[b]
    PROVE  RewardsLead(Processed(d, b, R), IF Rewarded[b] \in DOMAIN d THEN r \cup {b} ELSE r, Tail(q), z)
<1> DEFINE u == Processed(d, b, R)
           s == IF Rewarded[b] \in DOMAIN d THEN r \cup {b} ELSE r
           p == Tail(q)
<1>1. /\ z \in Blocks /\ b \in Blocks /\ b # Genesis
      /\ \A a \in Ancestors[z] : a \in Ancestors[b] \/ In(p, Conn(a))
      /\ Reached(q, z) = Parent[b] /\ Reached(p, z) = b
  BY FirstConnects
<1>2. /\ Table(u) /\ DOMAIN u = DOMAIN d \cup R
      /\ \A t \in DOMAIN d : /\ u[t].height = d[t].height
                             /\ u[t].rewardsPaid = d[t].rewardsPaid + (IF Rewarded[b] = t THEN Amount[b] ELSE 0)
      /\ \A t \in R \ DOMAIN d : u[t].height = Height[b] /\ u[t].rewardsPaid = 0
      /\ \A t \in DOMAIN u : Rank[u[t].status] >= Rank[updateStatus(u[t].height, Height[b])]
  <2>1. IsProcessed(u, d, b, R)
    BY <1>1, ProcessedIs
  <2> QED
    BY <2>1 DEF IsProcessed
<1>3. Path(p, z)
  BY PathDelivers
<1>4. q \in Seq(Events)
  BY DEF Path
<1>5. \A x : In(q, x) <=> In(p, x) \/ x = Conn(b)
  BY <1>4, TailFacts
<1>6. r \subseteq Ancestors[Parent[b]]
  BY <1>1 DEF RewardsLead
<1>7. b \notin r /\ r \subseteq Ancestors[b] /\ b \in Ancestors[b] /\ r \in SUBSET Blocks
  BY <1>1, <1>6, Step, TreeFacts
<1>8. s = (IF Rewarded[b] \in DOMAIN d THEN r \cup {b} ELSE r) /\ s \in SUBSET Blocks
      /\ \A y \in s : Rewarded[y] \in DOMAIN d
  BY <1>1, <1>7
<1> HIDE DEF u, p, s
<1>9. ASSUME NEW a \in Ancestors[z], Rewarded[a] \in DOMAIN u, ~In(p, Conn(a))
      PROVE  a \in s /\ ~Cut(p, Height[a])
  <2>1. a \in Ancestors[b] /\ a \in Blocks
    BY <1>1, <1>9, Below
  <2>2. ~Cut(p, Height[a])
    BY <1>3, <1>9, CutReconnects
  <2>3. Rewarded[a] \in DOMAIN d
    <3> SUFFICES ASSUME Rewarded[a] \notin DOMAIN d PROVE FALSE
      OBVIOUS
    <3>1. Rewarded[a] \in Creates[b] /\ Rewarded[a] \in Txs
      BY <1>2, <1>9
    <3>2. Rewarded[a] # NoTx
      BY <3>1, BlocksAssumption
    <3> QED
      BY <1>1, <2>1, <3>1, <3>2, RewardedAbove
  <2>4. CASE a = b
    BY <1>8, <2>2, <2>3, <2>4
  <2>5. CASE a # b
    <3>1. ~In(q, Conn(a))
      BY <1>5, <1>9, <2>5, EventFacts
    <3> QED
      BY <1>8, <2>2, <2>3, <3>1 DEF RewardsLead
  <2> QED
    BY <2>4, <2>5
<1>10. ASSUME NEW t \in DOMAIN u
       PROVE  u[t].rewardsPaid = Total(s, t)
  <2>1. CASE t \in DOMAIN d
    <3>1. d[t].rewardsPaid = Total(r, t)
      BY <2>1 DEF RewardsLead
    <3>2. Total(r, t) \in Nat /\ Amount[b] \in Nat
          /\ Total(r \cup {b}, t) = IF Rewarded[b] = t THEN Total(r, t) + Amount[b] ELSE Total(r, t)
      <4>1. \A c \in Blocks \ r : Total(r \cup {c}, t) = IF Rewarded[c] = t THEN Total(r, t) + Amount[c] ELSE Total(r, t)
        BY <1>7, TotalFacts
      <4>2. Total(r, t) \in Nat /\ Amount[b] \in Nat
        BY <1>1, <1>7, TotalFacts, AmountFacts
      <4> QED
        BY <1>1, <1>7, <4>1, <4>2
    <3>3. u[t].rewardsPaid = d[t].rewardsPaid + (IF Rewarded[b] = t THEN Amount[b] ELSE 0)
      BY <1>2, <2>1
    <3>4. CASE Rewarded[b] = t
      BY <1>8, <2>1, <3>1, <3>2, <3>3, <3>4
    <3>5. CASE Rewarded[b] # t
      BY <1>8, <2>1, <3>1, <3>2, <3>3, <3>5
    <3> QED
      BY <3>4, <3>5
  <2>2. CASE t \notin DOMAIN d
    <3>1. u[t].rewardsPaid = 0
      BY <1>2, <2>2
    <3>2. \A a \in s : Rewarded[a] # t
      BY <1>8, <2>2
    <3>3. Total(s, t) = 0
      BY <1>8, <3>2, TotalFacts
    <3> QED
      BY <3>1, <3>3
  <2> QED
    BY <2>1, <2>2
<1>11. s \subseteq Ancestors[Reached(p, z)]
  BY <1>1, <1>7, <1>8
<1> QED
  BY <1>9, <1>10, <1>11 DEF RewardsLead, u, p, s

LEMMA RewardsReorg ==
    ASSUME NEW d, Table(d), NEW r, NEW q, NEW z, RewardsLead(d, r, q, z), Path(q, z), q # <<>>,
           NEW x, q[1] = Disc(x)
    PROVE  RewardsLead(Reorged(d, r, Height[x] - 1), KeptRewards(d, r, Height[x] - 1), Tail(q), z)
<1> DEFINE h == Height[x] - 1
           u == Reorged(d, r, h)
           k == KeptRewards(d, r, h)
           p == Tail(q)
<1>1. /\ z \in Blocks /\ x \in Blocks /\ x # Genesis
      /\ Reached(q, z) = x /\ Reached(p, z) = Parent[x]
  BY FirstDisconnects
<1>2. Height[x] \in Nat \ {0} /\ h \in Nat
  BY <1>1, Step
<1>3. r \subseteq Ancestors[x] /\ r \in SUBSET Blocks
  BY <1>1, TreeFacts DEF RewardsLead
<1>4. /\ DOMAIN u = Kept(d, h)
      /\ \A t \in Kept(d, h) : u[t].rewardsPaid = Total(k, t)
  <2>1. LET v == Reorged(d, r, h)
        IN  /\ Table(v) /\ DOMAIN v = Kept(d, h)
            /\ \A t \in Kept(d, h) : /\ v[t].height = d[t].height /\ v[t].status = d[t].status
                                     /\ v[t].rewardsPaid = Total(KeptRewards(d, r, h), t)
    BY <1>2, <1>3, ReorgedIs
  <2> QED
    BY <2>1
<1>5. q \in Seq(Events) /\ Disc(x).type = "disconnected" /\ Disc(x).block = x
  BY EventFacts DEF Path
<1>6. /\ \A e : In(q, e) <=> In(p, e) \/ e = Disc(x)
      /\ \A n : Cut(q, n) <=> Cut(p, n) \/ Height[x] <= n
  BY <1>5, TailFacts
<1>7. Kept(d, h) \subseteq DOMAIN d
  BY DEF Kept
<1>8. \A a \in r : Height[a] \in Nat /\ (Height[a] <= h <=> Height[a] < Height[x])
  BY <1>2, <1>3, TreeFacts
<1>9. k = {b \in r : Height[b] <= h /\ Rewarded[b] \in Kept(d, h)}
  BY DEF KeptRewards
<1>10. k \subseteq Ancestors[Parent[x]]
  BY <1>1, <1>3, <1>8, <1>9, Step
<1> HIDE DEF u, p, h, k
<1>11. ASSUME NEW a \in Ancestors[z], Rewarded[a] \in DOMAIN u, ~In(p, Conn(a))
       PROVE  a \in k /\ ~Cut(p, Height[a])
  <2>1. ~In(q, Conn(a))
    BY <1>6, <1>11, EventFacts
  <2>2. a \in r /\ ~Cut(q, Height[a])
    BY <1>4, <1>7, <1>11, <2>1 DEF RewardsLead
  <2>3. ~Cut(p, Height[a]) /\ ~(Height[x] <= Height[a])
    BY <1>6, <2>2
  <2>4. Height[a] <= h
    BY <1>2, <1>8, <2>2, <2>3
  <2> QED
    BY <1>4, <1>9, <1>11, <2>2, <2>3, <2>4
<1> QED
  BY <1>1, <1>4, <1>10, <1>11 DEF RewardsLead, u, p, h, k
----------------------------------------------------------------------------
(* Scans of the wallet.                                                    *)

LEMMA PendingFacts ==
    ASSUME TypeOK
    PROVE  /\ Pending \in Seq(Events)
           /\ \A e : In(Pending, e) <=> In(queue, e) \/ (delivering # NoEvent /\ e = delivering)
           /\ \A e \in Events : e \in Range(queue) \cup {delivering} => In(Pending, e)
           /\ delivering = NoEvent => Pending = queue
           /\ delivering # NoEvent => Pending # <<>> /\ Pending[1] = delivering /\ Tail(Pending) = queue
<1>1. queue \in Seq(Events) /\ (delivering # NoEvent => delivering \in Events)
  BY DEF TypeOK
<1>2. \A e \in Events : e \in Range(queue) => In(queue, e)
  BY <1>1 DEF Range, In
<1>3. NoEvent \notin Events
  BY TreeFacts
<1>4. CASE delivering = NoEvent
  BY <1>1, <1>2, <1>3, <1>4 DEF Pending
<1>5. CASE delivering # NoEvent
  <2> DEFINE q == <<delivering>> \o queue
  <2>1. Pending = q
    BY <1>5 DEF Pending
  <2>2. delivering \in Events
    BY <1>1, <1>5
  <2>3. /\ q \in Seq(Events) /\ Len(q) = Len(queue) + 1 /\ Len(queue) \in Nat /\ q[1] = delivering
        /\ \A i \in 1..Len(queue) : q[i + 1] = queue[i]
    BY <1>1, <2>2
  <2>4. q # <<>>
    BY <2>3
  <2>5. Tail(q) \in Seq(Events) /\ Len(Tail(q)) = Len(queue) /\ \A i \in 1..Len(queue) : Tail(q)[i] = queue[i]
    <3>1. /\ Tail(q) \in Seq(Events) /\ Len(Tail(q)) = Len(q) - 1
          /\ \A i \in 1..Len(Tail(q)) : Tail(q)[i] = q[i + 1]
      BY <2>3, <2>4, TailFacts
    <3> QED
      BY <2>3, <3>1
  <2>6. Tail(q) = queue
    BY <1>1, <2>5, SameSequence
  <2>7. \A e : In(q, e) <=> In(queue, e) \/ e = delivering
    <3>1. \A e : In(q, e) <=> In(Tail(q), e) \/ e = q[1]
      BY <2>3, <2>4, TailFacts
    <3> QED
      BY <2>3, <2>6, <3>1
  <2> QED
    BY <1>2, <1>5, <2>1, <2>3, <2>4, <2>6, <2>7
<1> QED
  BY <1>4, <1>5

\* rescanRewardsOnly, and the last part of every scan.
LEMMA WithRewardsIs ==
    ASSUME TypeOK, NEW d, Table(d)
    PROVE  LET u == WithRewards(d)
           IN  /\ Table(u) /\ DOMAIN u = DOMAIN d
               /\ \A t \in DOMAIN d : u[t].height = d[t].height /\ u[t].status = d[t].status
               /\ (\A b \in ConfirmedCoinbases : Rewarded[b] \notin DOMAIN d) =>
                     \A t \in DOMAIN d : u[t].rewardsPaid = d[t].rewardsPaid
<1> DEFINE u == WithRewards(d)
           S == ConfirmedCoinbases
<1>1. S \in SUBSET Blocks
  BY DEF TypeOK, ConfirmedCoinbases
<1>2. DOMAIN u = DOMAIN d
  BY DEF WithRewards
<1>3. \A t \in DOMAIN d : u[t] = IF Count(S, t) = 0 THEN d[t]
                                 ELSE [d[t] EXCEPT !.blocksFound = Count(S, t), !.rewardsPaid = Total(S, t)]
  BY DEF WithRewards
<1> HIDE DEF u, S
<1>4. \A t : Count(S, t) \in Nat /\ Total(S, t) \in Nat
  <2> TAKE t
  <2>1. {b \in S : Rewarded[b] = t} \in SUBSET Blocks
    BY <1>1
  <2>2. Cardinality({b \in S : Rewarded[b] = t}) \in Nat
    BY <2>1, FiniteSubsets
  <2> QED
    BY <1>1, <2>2, TotalFacts DEF Count
<1>5. \A t : (\A b \in S : Rewarded[b] # t) => Count(S, t) = 0
  <2> SUFFICES ASSUME NEW t, \A b \in S : Rewarded[b] # t PROVE Count(S, t) = 0
    OBVIOUS
  <2>1. {b \in S : Rewarded[b] = t} = {}
    OBVIOUS
  <2> QED
    BY <2>1, FS_EmptySet DEF Count
<1>6. ASSUME NEW t \in DOMAIN d
      PROVE  /\ u[t] \in Records /\ u[t].height = d[t].height /\ u[t].status = d[t].status
             /\ (\A b \in S : Rewarded[b] # t) => u[t].rewardsPaid = d[t].rewardsPaid
  <2> DEFINE n == Count(S, t)
             m == Total(S, t)
  <2>1. n \in Nat /\ m \in Nat /\ d[t] \in Records /\ ((\A b \in S : Rewarded[b] # t) => n = 0)
    BY <1>4, <1>5 DEF Table
  <2>2. u[t] = IF n = 0 THEN d[t] ELSE [d[t] EXCEPT !.blocksFound = n, !.rewardsPaid = m]
    BY <1>3
  <2> HIDE DEF n, m
  <2>3. \A r \in Records : \A s : s = [r EXCEPT !.blocksFound = n, !.rewardsPaid = m] =>
           s \in Records /\ s.height = r.height /\ s.status = r.status
    BY <2>1 DEF Records
  <2> QED
    BY <2>1, <2>2, <2>3
<1>7. Table(u)
  BY <1>2, <1>6 DEF Table
<1> QED
  BY <1>2, <1>6, <1>7 DEF u, S

IsScan(u, d, new) ==
    /\ Table(u) /\ DOMAIN u = DOMAIN d \cup new
    /\ \A t \in DOMAIN d : u[t].height = d[t].height /\ u[t].status = d[t].status
    /\ \A t \in new \ DOMAIN d : /\ u[t].height = WalletHeight(t)
                                 /\ u[t].status = updateStatus(WalletHeight(t), Height[tip])
    /\ (\A b \in ConfirmedCoinbases : Rewarded[b] \notin DOMAIN u) =>
          /\ \A t \in DOMAIN d : u[t].rewardsPaid = d[t].rewardsPaid
          /\ \A t \in new \ DOMAIN d : u[t].rewardsPaid = 0

LEMMA ScanIs ==
    ASSUME TypeOK, NEW d, Table(d), NEW from \in Nat, NEW to \in Nat
    PROVE  IsScan(Scan(d, from, to), d, {t \in created : WalletHeight(t) \in from..to})
<1> DEFINE new == {t \in created : WalletHeight(t) \in from..to}
           rec(t) == NewRecord(WalletHeight(t), updateStatus(WalletHeight(t), Height[tip]))
           i == Insert(d, [t \in new |-> rec(t)])
           u == WithRewards(i)
<1>1. Scan(d, from, to) = u
  BY DEF Scan
<1>2. new \subseteq Txs /\ Height[tip] \in Nat /\ \A t \in new : WalletHeight(t) \in Nat
  BY TreeFacts, BlocksAssumption DEF TypeOK
<1>3. DOMAIN i = DOMAIN d \cup new /\ \A t \in DOMAIN i : i[t] = IF t \in DOMAIN d THEN d[t] ELSE rec(t)
  BY DEF Insert
<1>4. \A t \in new : LET s == updateStatus(WalletHeight(t), Height[tip])
                     IN  s \in Statuses /\ (WalletHeight(t) # 0 => s # "unset")
  BY <1>2, StatusType
<1>5. \A t \in new : /\ rec(t) \in Records /\ rec(t).height = WalletHeight(t) /\ rec(t).rewardsPaid = 0
                     /\ rec(t).status = updateStatus(WalletHeight(t), Height[tip])
  BY <1>2, <1>4 DEF NewRecord, Records
<1> HIDE DEF rec, i, u, new
<1>6. Table(i)
  BY <1>2, <1>3, <1>4, <1>5 DEF Table
<1>7. /\ Table(u) /\ DOMAIN u = DOMAIN i
      /\ \A t \in DOMAIN i : u[t].height = i[t].height /\ u[t].status = i[t].status
      /\ (\A b \in ConfirmedCoinbases : Rewarded[b] \notin DOMAIN i) =>
            \A t \in DOMAIN i : u[t].rewardsPaid = i[t].rewardsPaid
  BY <1>6, WithRewardsIs DEF u
<1>8. IsScan(u, d, new)
  BY <1>3, <1>5, <1>7 DEF IsScan
<1> QED
  BY <1>1, <1>8 DEF new

LEMMA TablesAre ==
    ASSUME TypeOK, TablesInv
    PROVE  Table(bcts)
  BY DEF TypeOK, TablesInv, Table

LEMMA EmptyIs == Table(Empty) /\ DOMAIN Empty = {}
  BY DEF Table, Empty

\* A scan that meets no abandoned block gives tables that the notifications
\* still pending will have made right.
LEMMA RecordsScan ==
    ASSUME ChainInv, WalletInv, Up, hasWallet, ~ScanIsStale,
           NEW d, Table(d), NEW from \in Nat, NEW to \in Nat, Height[tip] <= to,
           (DOMAIN d = {} /\ from = 0) \/ RecordsLead(d, created, Pending, tip)
    PROVE  RecordsLead(Scan(d, from, to), created, Pending, tip)
<1> DEFINE u == Scan(d, from, to)
           new == {t \in created : WalletHeight(t) \in from..to}
<1>1. /\ Table(u) /\ DOMAIN u = DOMAIN d \cup new
      /\ \A t \in DOMAIN d : u[t].height = d[t].height /\ u[t].status = d[t].status
      /\ \A t \in new \ DOMAIN d : /\ u[t].height = WalletHeight(t)
                                   /\ u[t].status = updateStatus(WalletHeight(t), Height[tip])
  <2>1. TypeOK
    BY DEF ChainInv
  <2>2. IsScan(u, d, new)
    BY <2>1, ScanIs
  <2> QED
    BY <2>2 DEF IsScan
<1>2. /\ TypeOK /\ tip \in Blocks /\ index \in SUBSET Blocks /\ created \subseteq Mine
      /\ Path(Pending, tip) /\ Ancestors[tip] \subseteq index
  BY DEF ChainInv, TypeOK
<1>3. \A e : In(queue, e) => In(Pending, e)
  BY <1>2, PendingFacts
<1>4. \A e \in Events : e \in Range(queue) \cup {delivering} => In(Pending, e)
  BY <1>2, PendingFacts
<1>5. new = {t \in created : WalletHeight(t) \in from..to}
  OBVIOUS
<1> HIDE DEF u, new
<1>6. ASSUME NEW t \in DOMAIN u, u[t].height # 0
      PROVE  \E y \in Blocks : /\ t \in Creates[y] /\ Height[y] = u[t].height
                               /\ y \in Ancestors[tip] \/ In(Pending, Disc(y))
  <2>1. CASE t \in DOMAIN d
    BY <1>1, <1>6, <2>1 DEF RecordsLead
  <2>2. CASE t \notin DOMAIN d
    <3> DEFINE y == hashBlock[t]
    <3>1. t \in created /\ u[t].height = WalletHeight(t)
      BY <1>1, <1>5, <2>2
    <3>2. y \in index /\ Height[y] = u[t].height
      BY <1>6, <3>1 DEF WalletHeight
    <3>3. y \in Blocks /\ t \in Mine /\ y # NoBlock
      BY <1>2, <3>1, <3>2, TreeFacts
    <3>4. t \in Creates[y]
      BY <3>3 DEF WalletInv
    <3>5. ~Abandoned(y)
      BY <3>1 DEF ScanIsStale
    <3>6. y \in Ancestors[tip] \/ Disc(y) \in Range(queue) \cup {delivering}
      BY <3>2, <3>5 DEF Abandoned, Disc
    <3>7. Disc(y) \in Events
      BY <3>3, EventFacts
    <3> QED
      BY <1>4, <3>2, <3>3, <3>4, <3>6, <3>7
  <2> QED
    BY <2>1, <2>2
<1>7. ASSUME NEW b \in Ancestors[tip], NEW t \in Creates[b] \cap created, ~In(Pending, Conn(b))
      PROVE  t \in DOMAIN u /\ (u[t].height = 0 \/ (u[t].height = Height[b] /\ ~Cut(Pending, Height[b])))
  <2>1. ~Cut(Pending, Height[b])
    BY <1>2, <1>7, CutReconnects
  <2>2. CASE RecordsLead(d, created, Pending, tip)
    <3>1. t \in DOMAIN d /\ (d[t].height = 0 \/ d[t].height = Height[b])
      BY <1>7, <2>2 DEF RecordsLead
    <3> QED
      BY <1>1, <2>1, <3>1
  <2>3. CASE DOMAIN d = {} /\ from = 0
    <3>1. hashBlock[t] = b
      BY <1>3, <1>7 DEF WalletInv
    <3>2. b \in index
      BY <1>2
    <3>3. WalletHeight(t) = Height[b]
      BY <3>1, <3>2 DEF WalletHeight
    <3>4. Height[b] \in Nat /\ Height[b] <= Height[tip] /\ Height[tip] \in Nat
      BY <1>2, Below, TreeFacts
    <3>5. WalletHeight(t) \in from..to
      BY <2>3, <3>3, <3>4
    <3>6. t \in new
      BY <1>5, <3>5
    <3> QED
      BY <1>1, <2>1, <2>3, <3>3, <3>6
  <2> QED
    BY <2>2, <2>3
<1>8. ASSUME NEW t \in DOMAIN u
      PROVE  Rank[u[t].status] >= Rank[updateStatus(u[t].height, Height[tip])] \/ Raised(Pending, Height[tip])
  <2>1. CASE t \in DOMAIN d
    BY <1>1, <2>1 DEF RecordsLead
  <2>2. CASE t \notin DOMAIN d
    <3>1. u[t].status = updateStatus(u[t].height, Height[tip])
      BY <1>1, <2>2
    <3>2. Rank[u[t].status] \in Nat
      BY <1>1, RecordFacts, Ranks DEF Table
    <3> QED
      BY <3>1, <3>2
  <2> QED
    BY <2>1, <2>2
<1> QED
  BY <1>6, <1>7, <1>8 DEF RecordsLead, u

\* A scan that counts nothing leaves the rewards to the notifications.
LEMMA RewardsScan ==
    ASSUME ChainInv, WalletInv, Up, hasWallet,
           NEW d, Table(d), DOMAIN d \subseteq Mine, NEW from \in Nat, NEW to \in Nat,
           NEW r, \A y \in r : Rewarded[y] \in DOMAIN d,
           (DOMAIN d = {} /\ r = {}) \/ RewardsLead(d, r, Pending, tip),
           \A b \in ConfirmedCoinbases : Rewarded[b] \notin DOMAIN Scan(d, from, to)
    PROVE  RewardsLead(Scan(d, from, to), r, Pending, tip)
<1> DEFINE u == Scan(d, from, to)
           new == {t \in created : WalletHeight(t) \in from..to}
<1>1. TypeOK /\ tip \in Blocks /\ created \subseteq Mine /\ \A e : In(queue, e) => In(Pending, e)
  <2>1. TypeOK
    BY DEF ChainInv
  <2>2. \A e : In(queue, e) => In(Pending, e)
    BY <2>1, PendingFacts
  <2> QED
    BY <2>1, <2>2 DEF TypeOK
<1>2. /\ DOMAIN u = DOMAIN d \cup new
      /\ \A t \in DOMAIN d : u[t].rewardsPaid = d[t].rewardsPaid
      /\ \A t \in new \ DOMAIN d : u[t].rewardsPaid = 0
  <2>1. IsScan(u, d, new)
    BY <1>1, ScanIs
  <2> QED
    BY <2>1 DEF IsScan
<1>3. DOMAIN u \subseteq Mine
  BY <1>1, <1>2
<1>4. \A b \in ConfirmedCoinbases : Rewarded[b] \notin DOMAIN u
  OBVIOUS
<1> HIDE DEF u, new
<1>5. ASSUME NEW b \in Ancestors[tip], Rewarded[b] \in DOMAIN u
      PROVE  In(Pending, Conn(b))
  <2>1. b \notin coinbases
    BY <1>4, <1>5 DEF ConfirmedCoinbases
  <2>2. In(queue, Conn(b))
    BY <1>3, <1>5, <2>1 DEF WalletInv
  <2> QED
    BY <1>1, <2>2
<1>6. r \subseteq Ancestors[Reached(Pending, tip)]
  BY DEF RewardsLead
<1>7. ASSUME NEW t \in DOMAIN u
      PROVE  u[t].rewardsPaid = Total(r, t)
  <2>1. CASE t \in DOMAIN d
    BY <1>2, <2>1 DEF RewardsLead
  <2>2. CASE t \notin DOMAIN d
    <3>1. Reached(Pending, tip) \in Blocks
      <4>1. Path(Pending, tip)
        BY DEF ChainInv
      <4>2. CASE Pending = <<>>
        BY <1>1, <4>2 DEF Reached
      <4>3. CASE Pending # <<>>
        <5>1. Pending[1] \in Events
          BY <1>1, <4>3, PendingFacts, TailFacts
        <5>2. PICK b \in Blocks : Pending[1] = Conn(b) \/ Pending[1] = Disc(b)
          BY <5>1, EventFacts
        <5>3. CASE Pending[1] = Conn(b)
          <6>1. Reached(Pending, tip) = Parent[b] /\ b # Genesis
            BY <4>1, <4>3, <5>3, FirstConnects
          <6> QED
            BY <6>1, TreeFacts
        <5>4. CASE Pending[1] = Disc(b)
          BY <4>1, <4>3, <5>4, FirstDisconnects
        <5> QED
          BY <5>2, <5>3, <5>4
      <4> QED
        BY <4>2, <4>3
    <3>2. r \in SUBSET Blocks
      BY <1>6, <3>1, TreeFacts
    <3>3. Total(r, t) = 0
      BY <2>2, <3>2, TotalFacts
    <3> QED
      BY <1>2, <2>2, <3>3
  <2> QED
    BY <2>1, <2>2
<1> QED
  BY <1>5, <1>6, <1>7 DEF RewardsLead, u

\* The same for rescanRewardsOnly.
LEMMA RecordsSame ==
    ASSUME NEW d, NEW u, NEW made, NEW q, NEW z, RecordsLead(d, made, q, z), DOMAIN u = DOMAIN d,
           \A t \in DOMAIN d : u[t].height = d[t].height /\ u[t].status = d[t].status
    PROVE  RecordsLead(u, made, q, z)
  BY DEF RecordsLead

LEMMA RewardsSame ==
    ASSUME NEW d, NEW u, NEW r, NEW q, NEW z, RewardsLead(d, r, q, z), DOMAIN u = DOMAIN d,
           \A t \in DOMAIN d : u[t].rewardsPaid = d[t].rewardsPaid
    PROVE  RewardsLead(u, r, q, z)
  BY DEF RewardsLead

\* The heights have a maximum, up to which performInitialScan goes.
LEMMA TopHeight ==
    /\ Max({Height[b] : b \in Blocks}) \in Nat
    /\ \A b \in Blocks : Height[b] <= Max({Height[c] : c \in Blocks})
<1> DEFINE H == {Height[b] : b \in Blocks}
           L == {b \in Blocks : IsFiniteSet(Ancestors[b]) /\ Cardinality(Ancestors[b]) = Height[b] + 1}
           T == {n \in Nat : \E b \in Blocks : Height[b] >= n}
<1>1. Genesis \in L
  <2>1. Ancestors[Genesis] = {Genesis} /\ Height[Genesis] = 0 /\ Genesis \in Blocks
    BY TreeAssumption
  <2>2. IsFiniteSet({Genesis}) /\ Cardinality({Genesis}) = 1
    BY FS_Singleton
  <2>3. IsFiniteSet(Ancestors[Genesis]) /\ Cardinality(Ancestors[Genesis]) = Height[Genesis] + 1
    BY <2>1, <2>2
  <2> QED
    BY <2>1, <2>3
<1>2. ASSUME NEW b \in Blocks \ {Genesis}, Parent[b] \in L PROVE b \in L
  <2>1. /\ IsFiniteSet(Ancestors[Parent[b]]) /\ Cardinality(Ancestors[Parent[b]]) = Height[Parent[b]] + 1
        /\ b \notin Ancestors[Parent[b]] /\ Ancestors[b] = Ancestors[Parent[b]] \cup {b}
        /\ Height[b] = Height[Parent[b]] + 1
    BY <1>2, Step, TreeFacts
  <2> DEFINE A == Ancestors[Parent[b]]
  <2>2. IsFiniteSet(Ancestors[b]) /\ Cardinality(Ancestors[b]) = Cardinality(A) + 1
    <3>1. IsFiniteSet(A) /\ b \notin A /\ Ancestors[b] = A \cup {b}
      BY <2>1
    <3> HIDE DEF A
    <3>2. IsFiniteSet(A \cup {b}) /\ Cardinality(A \cup {b}) = Cardinality(A) + 1
      BY <3>1, FS_AddElement
    <3> QED
      BY <3>1, <3>2
  <2>3. Cardinality(Ancestors[b]) = Height[b] + 1
    BY <2>1, <2>2
  <2> QED
    BY <2>2, <2>3
<1>3. \A b \in Blocks : b \in L
  <2> HIDE DEF L
  <2> QED
    BY <1>1, <1>2, Upwards
<1>4. IsFiniteSet(Blocks) /\ Cardinality(Blocks) \in Nat
  BY FiniteSubsets
<1>5. \A b \in Blocks : Height[b] \in Nat /\ Height[b] < Cardinality(Blocks)
  <2> TAKE b \in Blocks
  <2>1. Ancestors[b] \in SUBSET Blocks /\ Height[b] \in Nat
    BY TreeFacts
  <2>2. Cardinality(Ancestors[b]) <= Cardinality(Blocks)
    BY <1>4, <2>1, FS_Subset
  <2>3. Cardinality(Ancestors[b]) = Height[b] + 1
    BY <1>3
  <2> QED
    BY <1>4, <2>1, <2>2, <2>3
<1>6. \E b \in Blocks : \A c \in Blocks : Height[b] >= Height[c]
  <2> SUFFICES ASSUME \A b \in Blocks : \E c \in Blocks : ~(Height[b] >= Height[c]) PROVE FALSE
    OBVIOUS
  <2>1. 0 \in T
    BY <1>5, TreeFacts
  <2>2. ASSUME NEW n \in Nat, n \in T PROVE n + 1 \in T
    <3>1. PICK b \in Blocks : Height[b] >= n
      BY <2>2
    <3>2. PICK c \in Blocks : ~(Height[b] >= Height[c])
      OBVIOUS
    <3>3. Height[c] >= n + 1
      BY <1>5, <3>1, <3>2
    <3> QED
      BY <3>3
  <2>3. \A n \in Nat : n \in T
    <3> HIDE DEF T
    <3> QED
      BY <2>1, <2>2, Induction
  <2>4. Cardinality(Blocks) \in T
    BY <1>4, <2>3
  <2> QED
    BY <1>4, <1>5, <2>4
<1>7. \E x \in H : \A y \in H : x >= y
  BY <1>6
<1>8. Max(H) \in H /\ \A y \in H : Max(H) >= y
  <2> HIDE DEF H
  <2> QED
    BY <1>7 DEF Max
<1>9. \A y \in H : y \in Nat
  BY <1>5
<1>10. \A b \in Blocks : Height[b] \in H
  OBVIOUS
<1> HIDE DEF H
<1>11. Max(H) \in Nat /\ \A b \in Blocks : Height[b] <= Max(H)
  BY <1>8, <1>9, <1>10
<1> QED
  BY <1>11 DEF H
----------------------------------------------------------------------------
(* The handler's turn.                                                     *)

LEMMA Delivered ==
    ASSUME ChainInv, DeliverToHandler
    PROVE  /\ Pending # <<>> /\ Pending' = Tail(Pending)
           /\ \E b \in Blocks \ {Genesis} :
                 \/ /\ Pending[1] = Conn(b) /\ bcts' = Processed(bcts, b, Recorded(b))
                    /\ rewards' = IF Rewarded[b] \in DOMAIN bcts THEN rewards \cup {b} ELSE rewards
                    /\ lastProcessedHeight' = Height[b]
                 \/ /\ Pending[1] = Disc(b) /\ bcts' = Reorged(bcts, rewards, Height[b] - 1)
                    /\ rewards' = KeptRewards(bcts, rewards, Height[b] - 1)
                    /\ lastProcessedHeight' = Height[b] - 1
<1>1. TypeOK /\ Path(Pending, tip)
  BY DEF ChainInv
<1>2. delivering # NoEvent /\ delivering \in Events
  BY <1>1 DEF TypeOK, DeliverToHandler
<1>3. Pending # <<>> /\ Pending[1] = delivering /\ Tail(Pending) = queue
  BY <1>1, <1>2, PendingFacts
<1>4. Pending' = queue
  BY DEF DeliverToHandler, Pending
<1> DEFINE b == delivering.block
<1>5. b \in Blocks /\ (delivering = Conn(b) \/ delivering = Disc(b))
      /\ Conn(b).type = "connected" /\ Disc(b).type = "disconnected"
  BY <1>2, EventFacts
<1>6. b # Genesis
  <2>1. CASE Pending[1] = Conn(b)
    BY <1>1, <1>3, <2>1, FirstConnects
  <2>2. CASE Pending[1] = Disc(b)
    BY <1>1, <1>3, <2>2, FirstDisconnects
  <2> QED
    BY <1>3, <1>5, <2>1, <2>2
<1>7. CASE delivering.type = "connected" /\ processBlock(b)
  <2>1. delivering = Conn(b)
    BY <1>5, <1>7
  <2>2. bcts' = Processed(bcts, b, Recorded(b))
    BY <1>7 DEF processBlock, Processed
  <2> QED
    BY <1>3, <1>4, <1>5, <1>6, <1>7, <2>1, <2>2 DEF processBlock
<1>8. CASE delivering.type = "disconnected" /\ handleReorg(Height[b] - 1)
  <2>1. delivering = Disc(b)
    BY <1>5, <1>8
  <2>2. /\ rewards' = KeptRewards(bcts, rewards, Height[b] - 1)
        /\ bcts' = [t \in Kept(bcts, Height[b] - 1) |-> [bcts[t] EXCEPT !.rewardsPaid = Total(rewards', t)]]
        /\ lastProcessedHeight' = Height[b] - 1
    BY <1>8 DEF handleReorg, KeptRewards, Kept
  <2>3. bcts' = Reorged(bcts, rewards, Height[b] - 1)
    BY <2>2 DEF Reorged
  <2> QED
    BY <1>3, <1>4, <1>5, <1>6, <2>1, <2>2, <2>3
<1> QED
  BY <1>7, <1>8 DEF DeliverToHandler
----------------------------------------------------------------------------
(* The tables keep their shape.                                            *)

\* What an action leaves in the tables.
TablesKept ==
    /\ Table(bcts)' /\ rewards' \in SUBSET Blocks /\ lastProcessedHeight' \in Int
    /\ TablesInv'

LEMMA TablesHandler ==
    ASSUME ChainInv, TablesInv, DeliverToHandler
    PROVE  TablesKept
<1>1. /\ TypeOK /\ Table(bcts) /\ rewards \in SUBSET Blocks /\ (\A b \in rewards : Rewarded[b] \in DOMAIN bcts)
      /\ created \subseteq Mine
  BY TablesAre DEF ChainInv, TablesInv, TypeOK
<1>2. node' = node /\ hasWallet' = hasWallet
  BY DEF DeliverToHandler
<1>3. PICK b \in Blocks \ {Genesis} :
         \/ /\ Pending[1] = Conn(b) /\ bcts' = Processed(bcts, b, Recorded(b))
            /\ rewards' = IF Rewarded[b] \in DOMAIN bcts THEN rewards \cup {b} ELSE rewards
            /\ lastProcessedHeight' = Height[b]
         \/ /\ Pending[1] = Disc(b) /\ bcts' = Reorged(bcts, rewards, Height[b] - 1)
            /\ rewards' = KeptRewards(bcts, rewards, Height[b] - 1)
            /\ lastProcessedHeight' = Height[b] - 1
  BY Delivered
<1>4. Height[b] \in Nat \ {0} /\ Height[b] - 1 \in Nat /\ Creates[b] \in SUBSET Txs
  BY Step, BlocksAssumption
<1>5. CASE /\ bcts' = Processed(bcts, b, Recorded(b)) /\ lastProcessedHeight' = Height[b]
           /\ rewards' = IF Rewarded[b] \in DOMAIN bcts THEN rewards \cup {b} ELSE rewards
  <2> DEFINE R == Recorded(b)
             u == Processed(bcts, b, R)
  <2>1. R \in SUBSET Txs /\ (hasWallet => R \subseteq Mine)
    BY <1>1, <1>4 DEF Recorded
  <2> HIDE DEF R
  <2>2. Table(u) /\ DOMAIN u = DOMAIN bcts \cup R
    <3>1. IsProcessed(u, bcts, b, R)
      BY <1>1, <2>1, ProcessedIs
    <3> QED
      BY <3>1 DEF IsProcessed
  <2>3. Table(bcts)' /\ DOMAIN bcts' = DOMAIN bcts \cup R
    BY <1>5, <2>2 DEF R, Table
  <2>4. rewards' \in SUBSET Blocks /\ \A y \in rewards' : Rewarded[y] \in DOMAIN bcts
    BY <1>1, <1>5
  <2>5. TablesInv'
    BY <1>1, <1>2, <2>1, <2>3, <2>4 DEF TablesInv, Table
  <2> QED
    BY <1>4, <1>5, <2>3, <2>4, <2>5 DEF TablesKept
<1>6. CASE /\ bcts' = Reorged(bcts, rewards, Height[b] - 1) /\ lastProcessedHeight' = Height[b] - 1
           /\ rewards' = KeptRewards(bcts, rewards, Height[b] - 1)
  <2> DEFINE h == Height[b] - 1
             u == Reorged(bcts, rewards, h)
  <2>1. h \in Nat
    BY <1>4
  <2>2. Table(u) /\ DOMAIN u = Kept(bcts, h)
    <3> HIDE DEF h
    <3> QED
      BY <1>1, <2>1, ReorgedIs
  <2>3. Table(bcts)' /\ DOMAIN bcts' = Kept(bcts, h) /\ Kept(bcts, h) \subseteq DOMAIN bcts
    BY <1>6, <2>2 DEF Table, Kept
  <2>4. rewards' \in SUBSET Blocks /\ \A y \in rewards' : Rewarded[y] \in Kept(bcts, h)
    BY <1>1, <1>6 DEF KeptRewards
  <2>5. TablesInv'
    BY <1>2, <2>3, <2>4 DEF TablesInv, Table
  <2> QED
    BY <1>4, <1>6, <2>3, <2>4, <2>5 DEF TablesKept
<1> QED
  BY <1>3, <1>5, <1>6

LEMMA TablesScan ==
    ASSUME TypeOK, NEW d, Table(d), NEW from \in Nat, NEW to \in Nat
    PROVE  /\ Table(Scan(d, from, to)) /\ DOMAIN d \subseteq DOMAIN Scan(d, from, to)
           /\ DOMAIN Scan(d, from, to) \subseteq DOMAIN d \cup created
<1> DEFINE u == Scan(d, from, to)
           new == {t \in created : WalletHeight(t) \in from..to}
<1>1. IsScan(u, d, new)
  BY ScanIs
<1> QED
  BY <1>1 DEF IsScan

LEMMA TablesStartup ==
    ASSUME ChainInv, TablesInv, initializeOnStartup
    PROVE  TablesKept
<1>1. /\ TypeOK /\ Table(bcts) /\ rewards \in SUBSET Blocks /\ (\A b \in rewards : Rewarded[b] \in DOMAIN bcts)
      /\ created \subseteq Mine /\ lastProcessedHeight \in Int /\ tip \in Blocks
  BY TablesAre DEF ChainInv, TablesInv, TypeOK
<1>2. node' = "scanned" /\ hasWallet' = hasWallet /\ Startup
  BY DEF initializeOnStartup
<1>3. CASE DOMAIN bcts # {} /\ Foreign = {} /\ \A t \in DOMAIN bcts : bcts[t].height # 0
  <2>1. bcts' = (IF hasWallet THEN WithRewards(bcts) ELSE bcts) /\ rewards' = rewards
        /\ lastProcessedHeight' = lastProcessedHeight
    BY <1>2, <1>3 DEF Startup
  <2>2. Table(WithRewards(bcts)) /\ DOMAIN WithRewards(bcts) = DOMAIN bcts
    BY <1>1, WithRewardsIs
  <2>3. Table(bcts)' /\ DOMAIN bcts' = DOMAIN bcts
    BY <1>1, <2>1, <2>2 DEF Table
  <2>4. hasWallet => DOMAIN bcts \subseteq Mine
    BY <1>1, <1>3 DEF Foreign
  <2>5. TablesInv'
    BY <1>1, <1>2, <2>1, <2>3, <2>4 DEF TablesInv, Table
  <2> QED
    BY <1>1, <2>1, <2>3, <2>5 DEF TablesKept
<1>4. CASE ~(DOMAIN bcts # {} /\ Foreign = {} /\ \A t \in DOMAIN bcts : bcts[t].height # 0)
  <2>1. Rebuild
    BY <1>2, <1>4 DEF Startup
  <2> DEFINE m == Max({Height[b] : b \in Blocks})
             u == Scan(Empty, 0, m)
  <2>2. m \in Nat /\ Height[tip] \in Nat
    BY <1>1, TopHeight, TreeFacts
  <2>3. bcts' = (IF hasWallet THEN u ELSE Empty) /\ rewards' = {} /\ lastProcessedHeight' \in Int
    BY <1>1, <2>1, <2>2 DEF Rebuild, InitialScan
  <2> HIDE DEF m
  <2>4. Table(u) /\ DOMAIN u \subseteq DOMAIN Empty \cup created
    BY <1>1, <2>2, EmptyIs, TablesScan
  <2> HIDE DEF u
  <2>5. Table(bcts)' /\ DOMAIN bcts' \subseteq Mine
    BY <1>1, <2>3, <2>4, EmptyIs DEF Table
  <2>6. TablesInv'
    BY <2>3, <2>5 DEF TablesInv, Table
  <2> QED
    BY <2>3, <2>5, <2>6 DEF TablesKept
<1> QED
  BY <1>3, <1>4

LEMMA TablesRescan ==
    ASSUME ChainInv, TablesInv, NEW h \in Nat, rescanFromWallet(h)
    PROVE  TablesKept
<1>1. /\ TypeOK /\ Table(bcts) /\ rewards \in SUBSET Blocks /\ (\A b \in rewards : Rewarded[b] \in DOMAIN bcts)
      /\ created \subseteq Mine /\ tip \in Blocks /\ Height[tip] \in Nat
  BY TablesAre, TreeFacts DEF ChainInv, TablesInv, TypeOK
<1>2. DOMAIN bcts \subseteq Mine
  BY DEF rescanFromWallet, TablesInv
<1> DEFINE d == IF h = 0 THEN Empty ELSE bcts
           u == Scan(d, h, Height[tip])
<1>3. bcts' = u /\ rewards' = (IF h = 0 THEN {} ELSE rewards) /\ lastProcessedHeight' = Height[tip]
  BY DEF rescanFromWallet
<1>4. Table(d) /\ DOMAIN d \subseteq Mine /\ \A b \in rewards' : Rewarded[b] \in DOMAIN d
  BY <1>1, <1>2, <1>3, EmptyIs
<1> HIDE DEF d
<1>5. Table(u) /\ DOMAIN d \subseteq DOMAIN u /\ DOMAIN u \subseteq DOMAIN d \cup created
  BY <1>1, <1>4, TablesScan
<1> HIDE DEF u
<1>6. Table(bcts)' /\ DOMAIN bcts' \subseteq Mine /\ DOMAIN d \subseteq DOMAIN bcts'
  BY <1>1, <1>3, <1>4, <1>5 DEF Table
<1>7. TablesInv'
  BY <1>4, <1>6 DEF TablesInv, Table
<1> QED
  BY <1>1, <1>3, <1>6, <1>7 DEF TablesKept

LEMMA TablesStep ==
    ASSUME ChainInv, TablesInv, Next
    PROVE  TablesKept
<1>1. /\ TypeOK /\ Table(bcts) /\ rewards \in SUBSET Blocks /\ lastProcessedHeight \in Int
      /\ \A b \in Blocks : Height[b] \in Nat
  BY TablesAre, TreeFacts DEF ChainInv, TypeOK
<1>2. ASSUME bcts' = bcts, rewards' = rewards, lastProcessedHeight' = lastProcessedHeight,
             \/ node' = node /\ hasWallet' = hasWallet
             \/ node' \in {"down", "starting"}
             \/ node = "scanned" /\ hasWallet' = hasWallet
      PROVE  TablesKept
  BY <1>1, <1>2 DEF TablesKept, TablesInv, Table
<1>3. ASSUME NEW t \in Mine, CreateBCT(t) PROVE TablesKept
  BY <1>2, <1>3 DEF CreateBCT, dbVars
<1>4. ASSUME NEW b \in Blocks, ConnectTip(b) PROVE TablesKept
  BY <1>2, <1>4 DEF ConnectTip, dbVars
<1>5. CASE DisconnectTip
  BY <1>2, <1>5 DEF DisconnectTip, dbVars
<1>6. CASE FlushStateToDisk
  BY <1>2, <1>6 DEF FlushStateToDisk, dbVars
<1>7. CASE DeliverToWallet
  BY <1>2, <1>7 DEF DeliverToWallet, dbVars
<1>8. CASE DeliverToHandler
  BY <1>8, TablesHandler
<1>9. ASSUME NEW w \in WalletLoaded, Start(w) PROVE TablesKept
  BY <1>2, <1>9 DEF Start, dbVars
<1>10. CASE initializeOnStartup
  BY <1>10, TablesStartup
<1>11. CASE InitBCTBlockHandler
  BY <1>2, <1>11 DEF InitBCTBlockHandler, dbVars
<1>12. ASSUME NEW h \in {Height[b] : b \in Blocks}, rescanFromWallet(h) PROVE TablesKept
  BY <1>1, <1>12, TablesRescan
<1>13. CASE Shutdown
  BY <1>2, <1>13 DEF Shutdown, dbVars
<1>14. CASE Crash
  BY <1>2, <1>14 DEF Crash, dbVars
<1> QED
  BY <1>3, <1>4, <1>5, <1>6, <1>7, <1>8, <1>9, <1>10, <1>11, <1>12, <1>13, <1>14 DEF Next
----------------------------------------------------------------------------
(* The chain and the notifications.                                        *)

LEMMA WalletSeesType ==
    ASSUME TypeOK, NEW S \in SUBSET Blocks, WalletSees(S)
    PROVE  hashBlock' \in [Mine -> Blocks \cup {NoBlock}] /\ coinbases' \in SUBSET Blocks
<1>1. hashBlock \in [Mine -> Blocks \cup {NoBlock}] /\ coinbases \in SUBSET Blocks
  BY DEF TypeOK
<1>2. \A t \in Mine : (IF t \in created /\ \E b \in S : t \in Creates[b]
                       THEN CHOOSE b \in S : t \in Creates[b] ELSE hashBlock[t]) \in Blocks \cup {NoBlock}
  <2> TAKE t \in Mine
  <2>1. CASE \E b \in S : t \in Creates[b]
    <3>1. (CHOOSE b \in S : t \in Creates[b]) \in S
      BY <2>1
    <3> QED
      BY <1>1, <3>1
  <2>2. CASE ~\E b \in S : t \in Creates[b]
    BY <1>1, <2>2
  <2> QED
    BY <2>1, <2>2
<1>3. hashBlock' \in [Mine -> Blocks \cup {NoBlock}]
  BY <1>2 DEF WalletSees
<1> QED
  BY <1>1, <1>3 DEF WalletSees

LEMMA TypeStep ==
    ASSUME ChainInv, TablesInv, Next
    PROVE  TypeOK'
<1>1. TypeOK /\ Path(Pending, tip)
  BY DEF ChainInv
<1>2. /\ DOMAIN bcts' \subseteq Txs /\ \A t \in DOMAIN bcts' : bcts'[t] \in Records
      /\ rewards' \subseteq Blocks /\ lastProcessedHeight' \in Int
  BY TablesStep DEF TablesKept, Table
<1>3. /\ \A b \in Blocks : Conn(b) \in Events /\ Disc(b) \in Events /\ Ancestors[b] \in SUBSET Blocks
      /\ \A b \in Blocks \ {Genesis} : Parent[b] \in Blocks
      /\ \A e \in Events : e.block \in Blocks
  BY EventFacts, TreeFacts
<1>4. ASSUME hashBlock' \in [Mine -> Blocks \cup {NoBlock}], coinbases' \in SUBSET Blocks,
             created' \in SUBSET Mine, {tip', flushed'} \subseteq Blocks, index' \in SUBSET Blocks,
             queue' \in Seq(Events), delivering' \in Events \cup {NoEvent},
             node' \in {"down", "starting", "scanned", "running"},
             {hasWallet', outOfStep', fellBack', counted'} \subseteq BOOLEAN,
             moves' \in 0..MaxMoves, starts' \in 0..MaxStarts,
             crashes' \in 0..MaxCrashes, rescans' \in 0..MaxRescans
      PROVE  TypeOK'
  BY <1>2, <1>4 DEF TypeOK
<1>5. /\ hashBlock \in [Mine -> Blocks \cup {NoBlock}] /\ coinbases \in SUBSET Blocks
      /\ created \in SUBSET Mine /\ {tip, flushed} \subseteq Blocks /\ index \in SUBSET Blocks
      /\ queue \in Seq(Events) /\ delivering \in Events \cup {NoEvent}
      /\ node \in {"down", "starting", "scanned", "running"}
      /\ {hasWallet, outOfStep, fellBack, counted} \subseteq BOOLEAN
      /\ moves \in 0..MaxMoves /\ starts \in 0..MaxStarts
      /\ crashes \in 0..MaxCrashes /\ rescans \in 0..MaxRescans
  BY <1>1 DEF TypeOK
<1>6. {MaxMoves, MaxStarts, MaxCrashes, MaxRescans} \subseteq Nat /\ WalletLoaded \subseteq BOOLEAN
  BY BoundsAssumption
<1>7. ASSUME NEW t \in Mine, CreateBCT(t) PROVE TypeOK'
  BY <1>4, <1>5, <1>7 DEF CreateBCT, chainVars, walletVars, dbVars, counters
<1>8. ASSUME NEW b \in Blocks, ConnectTip(b) PROVE TypeOK'
  <2>1. queue' \in Seq(Events) /\ tip' \in Blocks /\ index' \in SUBSET Blocks
    BY <1>3, <1>5, <1>8 DEF ConnectTip, Conn
  <2>2. moves' \in 0..MaxMoves
    BY <1>5, <1>6, <1>8 DEF ConnectTip
  <2> QED
    BY <1>4, <1>5, <1>8, <2>1, <2>2 DEF ConnectTip, walletVars, dbVars
<1>9. CASE DisconnectTip
  <2>1. queue' \in Seq(Events) /\ tip' \in Blocks
    BY <1>3, <1>5, <1>9 DEF DisconnectTip, Disc
  <2>2. moves' \in 0..MaxMoves
    BY <1>5, <1>6, <1>9 DEF DisconnectTip
  <2> QED
    BY <1>4, <1>5, <1>9, <2>1, <2>2 DEF DisconnectTip, walletVars, dbVars
<1>10. CASE FlushStateToDisk
  BY <1>4, <1>5, <1>10 DEF FlushStateToDisk, walletVars, dbVars, counters
<1>11. CASE DeliverToWallet
  <2> DEFINE S == IF hasWallet /\ Head(queue).type = "connected" THEN {Head(queue).block} ELSE {}
  <2>1. queue # <<>> /\ queue' = Tail(queue) /\ WalletSees(S)
    BY <1>11 DEF DeliverToWallet
  <2>2. queue' \in Seq(Events) /\ Head(queue) \in Events
    BY <1>5, <2>1
  <2>3. S \in SUBSET Blocks
    BY <1>3, <2>2
  <2> HIDE DEF S
  <2>4. hashBlock' \in [Mine -> Blocks \cup {NoBlock}] /\ coinbases' \in SUBSET Blocks
    BY <1>1, <2>1, <2>3, WalletSeesType
  <2>5. delivering' \in Events \cup {NoEvent} /\ outOfStep' \in BOOLEAN
    BY <1>11, <2>2 DEF DeliverToWallet
  <2> QED
    BY <1>4, <1>5, <1>11, <2>2, <2>4, <2>5 DEF DeliverToWallet, chainVars, dbVars, counters
<1>12. CASE DeliverToHandler
  BY <1>4, <1>5, <1>12 DEF DeliverToHandler, chainVars, walletVars, counters
<1>13. ASSUME NEW w \in WalletLoaded, Start(w) PROVE TypeOK'
  <2> DEFINE S == IF w THEN Ancestors[tip] ELSE {}
  <2>1. WalletSees(S) /\ S \in SUBSET Blocks
    BY <1>3, <1>5, <1>13 DEF Start
  <2> HIDE DEF S
  <2>2. hashBlock' \in [Mine -> Blocks \cup {NoBlock}] /\ coinbases' \in SUBSET Blocks
    BY <1>1, <2>1, WalletSeesType
  <2>3. starts' \in 0..MaxStarts
    BY <1>5, <1>6, <1>13 DEF Start
  <2>4. hasWallet' \in BOOLEAN
    BY <1>6, <1>13 DEF Start
  <2> QED
    BY <1>4, <1>5, <1>13, <2>2, <2>3, <2>4 DEF Start, chainVars, dbVars
<1>14. CASE initializeOnStartup
  <2>1. counted' \in BOOLEAN
    BY <1>14 DEF initializeOnStartup
  <2>2. outOfStep' \in BOOLEAN /\ fellBack' \in BOOLEAN
    BY <1>5, <1>14 DEF initializeOnStartup, Startup, Rebuild
  <2> QED
    BY <1>4, <1>5, <1>14, <2>1, <2>2 DEF initializeOnStartup, chainVars, walletVars, counters
<1>15. CASE InitBCTBlockHandler
  BY <1>4, <1>5, <1>15 DEF InitBCTBlockHandler, chainVars, walletVars, dbVars, counters
<1>16. ASSUME NEW h \in {Height[b] : b \in Blocks}, rescanFromWallet(h) PROVE TypeOK'
  <2>1. counted' \in BOOLEAN /\ outOfStep' \in BOOLEAN /\ fellBack' \in BOOLEAN
    BY <1>16 DEF rescanFromWallet
  <2>2. rescans' \in 0..MaxRescans
    BY <1>5, <1>6, <1>16 DEF rescanFromWallet
  <2> QED
    BY <1>4, <1>5, <1>16, <2>1, <2>2 DEF rescanFromWallet, chainVars, walletVars
<1>17. CASE Shutdown
  BY <1>4, <1>5, <1>17 DEF Shutdown, walletVars, dbVars, counters
<1>18. CASE Crash
  <2>1. fellBack' \in BOOLEAN /\ index' \in SUBSET Blocks
    BY <1>5, <1>18 DEF Crash
  <2>2. crashes' \in 0..MaxCrashes
    BY <1>5, <1>6, <1>18 DEF Crash
  <2>3. queue' \in Seq(Events)
    BY <1>18 DEF Crash
  <2> QED
    BY <1>4, <1>5, <1>18, <2>1, <2>2, <2>3 DEF Crash, walletVars, dbVars
<1> QED
  BY <1>7, <1>8, <1>9, <1>10, <1>11, <1>12, <1>13, <1>14, <1>15, <1>16, <1>17, <1>18 DEF Next

\* What becomes of the walk.
LEMMA PendingMoves ==
    ASSUME TypeOK, NEW e \in Events, queue' = Append(queue, e), delivering' = delivering
    PROVE  Pending' = Append(Pending, e)
<1>1. queue \in Seq(Events) /\ (delivering # NoEvent => delivering \in Events)
  BY DEF TypeOK
<1>2. CASE delivering = NoEvent
  BY <1>2 DEF Pending
<1>3. CASE delivering # NoEvent
  <2>1. Pending = <<delivering>> \o queue /\ Pending' = <<delivering>> \o Append(queue, e)
    BY <1>3 DEF Pending
  <2>2. <<delivering>> \o Append(queue, e) = Append(<<delivering>> \o queue, e)
    BY <1>1, <1>3
  <2> QED
    BY <2>1, <2>2
<1> QED
  BY <1>2, <1>3

LEMMA PendingWallet ==
    ASSUME TypeOK, DeliverToWallet
    PROVE  /\ Pending = queue /\ queue # <<>> /\ queue' = Tail(queue) /\ Head(queue) = queue[1] /\ queue[1] \in Events
           /\ IF node = "running" THEN Pending' = Pending ELSE Pending' = Tail(Pending)
<1>1. queue \in Seq(Events) /\ NoEvent \notin Events
  BY TreeFacts DEF TypeOK
<1>2. /\ delivering = NoEvent /\ queue # <<>> /\ queue' = Tail(queue)
      /\ delivering' = IF node = "running" THEN Head(queue) ELSE NoEvent
  BY DEF DeliverToWallet
<1>3. Pending = queue
  BY <1>2 DEF Pending
<1>4. Head(queue) = queue[1] /\ queue[1] \in Events
  BY <1>1, <1>2
<1>5. CASE node = "running"
  <2>1. Pending' = <<Head(queue)>> \o Tail(queue)
    BY <1>1, <1>2, <1>4, <1>5 DEF Pending
  <2>2. <<Head(queue)>> \o Tail(queue) = queue
    BY <1>1, <1>2
  <2> QED
    BY <1>2, <1>3, <1>4, <1>5, <2>1, <2>2
<1>6. CASE node # "running"
  BY <1>2, <1>3, <1>4, <1>6 DEF Pending
<1> QED
  BY <1>5, <1>6

LEMMA ChainStep ==
    ASSUME ChainInv, TablesInv, Next
    PROVE  ChainInv'
<1>1. /\ TypeOK /\ Path(Pending, tip) /\ (node = "down" => Pending = <<>>) /\ (delivering # NoEvent => node = "running")
      /\ Ancestors[tip] \cup Ancestors[flushed] \subseteq index
      /\ \A b \in index : Creates[b] \cap Mine \subseteq created
  BY DEF ChainInv
<1>2. TypeOK'
  BY TypeStep
<1>3. tip \in Blocks /\ flushed \in Blocks
  BY <1>1 DEF TypeOK
\* An action that moves neither the chain nor the notifications.
<1>4. ASSUME tip' = tip, flushed' \in {tip, flushed}, index' = index, queue' = queue, delivering' = delivering,
             created \subseteq created', (node' = "down" => Pending = <<>>),
             (node = "running" => node' = "running" \/ delivering = NoEvent)
      PROVE  ChainInv'
  <2>1. Pending' = Pending
    BY <1>4 DEF Pending
  <2>2. Path(Pending, tip)'
    BY <1>1, <1>4, <2>1
  <2>3. /\ (node' = "down" => Pending' = <<>>) /\ (delivering' # NoEvent => node' = "running")
        /\ Ancestors[tip'] \cup Ancestors[flushed'] \subseteq index'
        /\ \A b \in index' : Creates[b] \cap Mine \subseteq created'
    BY <1>1, <1>4, <2>1
  <2> QED
    BY <1>2, <2>2, <2>3 DEF ChainInv
<1>5. ASSUME NEW t \in Mine, CreateBCT(t) PROVE ChainInv'
  BY <1>1, <1>4, <1>5 DEF CreateBCT, chainVars
<1>6. ASSUME NEW b \in Blocks, ConnectTip(b) PROVE ChainInv'
  <2>1. /\ b # Genesis /\ Parent[b] = tip /\ Creates[b] \cap Mine \subseteq created /\ tip' = b /\ index' = index \cup {b}
        /\ queue' = Append(queue, Conn(b)) /\ delivering' = delivering /\ flushed' = flushed
        /\ created' = created /\ node' = node /\ node # "down"
    BY <1>6 DEF ConnectTip, Up, Conn, walletVars
  <2>2. Pending' = Append(Pending, Conn(b))
    BY <1>1, <2>1, PendingMoves, EventFacts
  <2>3. Path(Append(Pending, Conn(b)), b)
    BY <1>1, <2>1, PathConnects
  <2>4. Path(Pending, tip)'
    BY <2>1, <2>2, <2>3
  <2>5. Ancestors[b] = Ancestors[tip] \cup {b}
    BY <2>1, TreeFacts
  <2> QED
    BY <1>1, <1>2, <2>1, <2>4, <2>5 DEF ChainInv
<1>7. CASE DisconnectTip
  <2>1. /\ tip # Genesis /\ tip' = Parent[tip] /\ index' = index
        /\ queue' = Append(queue, Disc(tip)) /\ delivering' = delivering /\ flushed' = flushed
        /\ created' = created /\ node' = node /\ node # "down"
    BY <1>7 DEF DisconnectTip, Up, Disc, walletVars
  <2>2. Pending' = Append(Pending, Disc(tip))
    BY <1>1, <1>3, <2>1, PendingMoves, EventFacts
  <2>3. Path(Append(Pending, Disc(tip)), Parent[tip])
    BY <1>1, <2>1, PathDisconnects
  <2>4. Path(Pending, tip)'
    BY <2>1, <2>2, <2>3
  <2>5. Ancestors[Parent[tip]] \subseteq Ancestors[tip]
    BY <1>3, <2>1, Step
  <2> QED
    BY <1>1, <1>2, <2>1, <2>4, <2>5 DEF ChainInv
<1>8. CASE FlushStateToDisk
  BY <1>1, <1>4, <1>8 DEF FlushStateToDisk, Up, walletVars
<1>9. CASE DeliverToWallet
  <2>1. /\ tip' = tip /\ index' = index /\ flushed' = flushed /\ created' = created /\ node' = node /\ node # "down"
        /\ delivering' # NoEvent => node = "running"
    BY <1>9 DEF DeliverToWallet, Up, chainVars
  <2>2. Pending # <<>> /\ (Pending' = Pending \/ Pending' = Tail(Pending))
    BY <1>1, <1>9, PendingWallet
  <2>3. Path(Tail(Pending), tip)
    BY <1>1, <2>2, PathDelivers
  <2>4. Path(Pending, tip)'
    <3>1. CASE Pending' = Pending
      BY <1>1, <2>1, <3>1
    <3>2. CASE Pending' = Tail(Pending)
      BY <2>1, <2>3, <3>2
    <3> QED
      BY <2>2, <3>1, <3>2
  <2> QED
    BY <1>1, <1>2, <2>1, <2>4 DEF ChainInv
<1>10. CASE DeliverToHandler
  <2>1. /\ tip' = tip /\ index' = index /\ flushed' = flushed /\ created' = created /\ node' = node /\ node # "down"
        /\ delivering' = NoEvent
    BY <1>10 DEF DeliverToHandler, Up, chainVars, walletVars
  <2>2. Pending # <<>> /\ Pending' = Tail(Pending)
    BY <1>10, Delivered
  <2>3. Path(Tail(Pending), tip)
    BY <1>1, <2>2, PathDelivers
  <2>4. Path(Pending, tip)'
    BY <2>1, <2>2, <2>3
  <2> QED
    BY <1>1, <1>2, <2>1, <2>4 DEF ChainInv
<1>11. ASSUME NEW w \in WalletLoaded, Start(w) PROVE ChainInv'
  BY <1>1, <1>4, <1>11 DEF Start, chainVars
<1>12. CASE initializeOnStartup
  BY <1>1, <1>4, <1>12 DEF initializeOnStartup, chainVars, walletVars
<1>13. CASE InitBCTBlockHandler
  BY <1>1, <1>4, <1>13 DEF InitBCTBlockHandler, chainVars, walletVars
<1>14. ASSUME NEW h \in {Height[b] : b \in Blocks}, rescanFromWallet(h) PROVE ChainInv'
  BY <1>1, <1>4, <1>14 DEF rescanFromWallet, chainVars, walletVars
<1>15. CASE Shutdown
  <2>1. Pending = <<>>
    BY <1>15 DEF Shutdown, Pending
  <2> QED
    BY <1>1, <1>4, <1>15, <2>1 DEF Shutdown, walletVars
<1>16. CASE Crash
  <2>1. /\ tip' = flushed /\ flushed' = flushed /\ created' = created /\ index' \in SUBSET index
        /\ Ancestors[flushed] \subseteq index' /\ queue' = <<>> /\ delivering' = NoEvent
    BY <1>16 DEF Crash, walletVars
  <2>2. Pending' = <<>>
    BY <2>1 DEF Pending
  <2>3. Path(<<>>, flushed)
    BY <1>3, NothingPending
  <2>4. Path(Pending, tip)'
    BY <2>1, <2>2, <2>3
  <2> QED
    BY <1>1, <1>2, <2>1, <2>2, <2>4 DEF ChainInv
<1> QED
  BY <1>5, <1>6, <1>7, <1>8, <1>9, <1>10, <1>11, <1>12, <1>13, <1>14, <1>15, <1>16 DEF Next
----------------------------------------------------------------------------
(* The wallet.                                                             *)

LEMMA SeenIs ==
    ASSUME NEW S, WalletSees(S)
    PROVE  /\ \A t \in Mine : IF t \in created /\ \E b \in S : t \in Creates[b]
                              THEN hashBlock'[t] \in S /\ t \in Creates[hashBlock'[t]]
                              ELSE hashBlock'[t] = hashBlock[t]
           /\ coinbases' = coinbases \cup {b \in S : Rewarded[b] \in Mine}
<1>1. \A t \in Mine : hashBlock'[t] = IF t \in created /\ \E b \in S : t \in Creates[b]
                                      THEN CHOOSE b \in S : t \in Creates[b] ELSE hashBlock[t]
  BY DEF WalletSees
<1>2. \A t : (\E b \in S : t \in Creates[b]) =>
                (CHOOSE b \in S : t \in Creates[b]) \in S /\ t \in Creates[CHOOSE b \in S : t \in Creates[b]]
  OBVIOUS
<1>3. coinbases' = coinbases \cup {b \in S : Rewarded[b] \in Mine}
  BY DEF WalletSees
<1> QED
  BY <1>1, <1>2, <1>3

LEMMA WalletStep ==
    ASSUME ChainInv, WalletInv, Next
    PROVE  WalletInv'
<1>1. /\ TypeOK /\ Path(Pending, tip) /\ (node = "down" => Pending = <<>>) /\ (delivering # NoEvent => node = "running")
      /\ Ancestors[tip] \subseteq index /\ \A b \in index : Creates[b] \cap Mine \subseteq created
  BY DEF ChainInv
<1>2. tip \in Blocks /\ queue \in Seq(Events) /\ created \subseteq Mine /\ Ancestors[tip] \in SUBSET Blocks
  BY <1>1, TreeFacts DEF TypeOK
<1>3. \A t \in Mine : hashBlock[t] # NoBlock => t \in Creates[hashBlock[t]]
  BY DEF WalletInv
<1> DEFINE Known(made, h, c, q, b) ==
              /\ \A t \in Creates[b] \cap made : h[t] = b \/ In(q, Conn(b))
              /\ Rewarded[b] \in Mine => b \in c \/ In(q, Conn(b))
<1>4. Up /\ hasWallet => \A b \in Ancestors[tip] : Known(created, hashBlock, coinbases, queue, b)
  BY DEF WalletInv
\* It is enough to look at what the chain has, while the wallet is loaded.
<1>5. ASSUME \A t \in Mine : hashBlock'[t] # NoBlock => t \in Creates[hashBlock'[t]],
             node' # "down" /\ hasWallet' =>
                \A b \in Ancestors[tip'] : Known(created', hashBlock', coinbases', queue', b)
      PROVE  WalletInv'
  <2>1. Up' /\ hasWallet' => \A b \in Ancestors[tip'] :
          /\ \A t \in Creates[b] \cap created' : hashBlock'[t] = b \/ In(queue', Conn(b))
          /\ Rewarded[b] \in Mine => b \in coinbases' \/ In(queue', Conn(b))
    BY <1>5 DEF Up
  <2>2. \A b : In(queue', Conn(b)) <=> In(queue, Conn(b))'
    BY DEF In, Conn
  <2> QED
    BY <1>5, <2>1, <2>2 DEF WalletInv
<1>6. ASSUME walletVars' = walletVars, queue' = queue, tip' = tip, hasWallet' = hasWallet, Up
      PROVE  WalletInv'
  BY <1>3, <1>4, <1>5, <1>6 DEF walletVars
<1>7. ASSUME NEW t \in Mine, CreateBCT(t) PROVE WalletInv'
  <2>1. /\ Up /\ t \notin created /\ created' = created \cup {t} /\ hashBlock' = hashBlock /\ coinbases' = coinbases
        /\ queue' = queue /\ tip' = tip /\ hasWallet' = hasWallet
    BY <1>7 DEF CreateBCT, chainVars
  <2>2. \A b \in Ancestors[tip] : Creates[b] \cap created' = Creates[b] \cap created
    BY <1>1, <2>1
  <2> QED
    BY <1>3, <1>4, <1>5, <2>1, <2>2
<1>8. ASSUME NEW b \in Blocks, ConnectTip(b) PROVE WalletInv'
  <2>1. /\ Up /\ b # Genesis /\ Parent[b] = tip /\ tip' = b /\ hasWallet' = hasWallet
        /\ queue' = Append(queue, Conn(b)) /\ walletVars' = walletVars
    BY <1>8 DEF ConnectTip, Conn
  <2>2. \A e : In(queue', e) <=> In(queue, e) \/ e = Conn(b)
    BY <1>2, <2>1, AppendFacts, EventFacts
  <2>3. Ancestors[b] = Ancestors[tip] \cup {b}
    BY <2>1, TreeFacts
  <2>4. created' = created /\ hashBlock' = hashBlock /\ coinbases' = coinbases
    BY <2>1 DEF walletVars
  <2>5. ASSUME hasWallet, NEW a \in Ancestors[b] PROVE Known(created', hashBlock', coinbases', queue', a)
    <3>1. CASE a = b
      BY <2>2, <3>1
    <3>2. CASE a \in Ancestors[tip]
      BY <1>4, <2>1, <2>2, <2>4, <2>5, <3>2
    <3> QED
      BY <2>3, <3>1, <3>2
  <2> QED
    BY <1>3, <1>5, <2>1, <2>4, <2>5
<1>9. CASE DisconnectTip
  <2>1. /\ Up /\ tip # Genesis /\ tip' = Parent[tip] /\ hasWallet' = hasWallet
        /\ queue' = Append(queue, Disc(tip)) /\ walletVars' = walletVars
    BY <1>9 DEF DisconnectTip, Disc
  <2>2. \A e : In(queue, e) => In(queue', e)
    BY <1>2, <2>1, AppendFacts, EventFacts
  <2>3. Ancestors[Parent[tip]] \subseteq Ancestors[tip]
    BY <1>2, <2>1, Step
  <2>4. created' = created /\ hashBlock' = hashBlock /\ coinbases' = coinbases
    BY <2>1 DEF walletVars
  <2>5. ASSUME hasWallet, NEW a \in Ancestors[Parent[tip]] PROVE Known(created', hashBlock', coinbases', queue', a)
    BY <1>4, <2>1, <2>2, <2>3, <2>4, <2>5
  <2> QED
    BY <1>3, <1>5, <2>1, <2>4, <2>5
<1>10. CASE FlushStateToDisk
  BY <1>6, <1>10 DEF FlushStateToDisk
<1>11. CASE DeliverToWallet
  <2> DEFINE S == IF hasWallet /\ Head(queue).type = "connected" THEN {Head(queue).block} ELSE {}
  <2>1. WalletSees(S) /\ Up /\ tip' = tip /\ hasWallet' = hasWallet /\ created' = created
    BY <1>11 DEF DeliverToWallet, chainVars
  <2>2. Pending = queue /\ queue # <<>> /\ queue' = Tail(queue) /\ Head(queue) = queue[1] /\ queue[1] \in Events
    BY <1>1, <1>11, PendingWallet
  <2>3. \A e : In(queue, e) <=> In(queue', e) \/ e = queue[1]
    BY <1>2, <2>2, TailFacts
  <2>4. PICK x \in Blocks : queue[1] = Conn(x) \/ queue[1] = Disc(x)
    BY <2>2, EventFacts
  <2>5. S = IF hasWallet /\ queue[1] = Conn(x) THEN {x} ELSE {}
    BY <2>2, <2>4, EventFacts
  <2> HIDE DEF S
  <2>6. /\ \A t \in Mine : IF t \in created /\ \E b \in S : t \in Creates[b]
                           THEN hashBlock'[t] \in S /\ t \in Creates[hashBlock'[t]]
                           ELSE hashBlock'[t] = hashBlock[t]
        /\ coinbases' = coinbases \cup {b \in S : Rewarded[b] \in Mine}
    BY <2>1, SeenIs
  <2>7. \A t \in Mine : hashBlock'[t] # NoBlock => t \in Creates[hashBlock'[t]]
    BY <1>3, <2>6
  <2>8. ASSUME hasWallet, NEW b \in Ancestors[tip] PROVE Known(created, hashBlock', coinbases', queue', b)
    <3>1. Known(created, hashBlock, coinbases, queue, b)
      BY <1>4, <2>1, <2>8
    <3>2. CASE queue[1] = Conn(x)
      <4>1. S = {x}
        BY <2>5, <2>8, <3>2
      <4>2. \A y : In(queue, Conn(y)) => In(queue', Conn(y)) \/ y = x
        BY <2>3, <3>2, EventFacts
      <4>3. ASSUME NEW t \in Creates[b] \cap created, ~In(queue', Conn(b)) PROVE hashBlock'[t] = b
        <5>1. t \in Mine
          BY <1>2
        <5>2. CASE t \in Creates[x]
          <6>1. hashBlock'[t] = x
            BY <2>6, <4>1, <5>1, <5>2
          <6>2. b \in Ancestors[x]
            BY <1>1, <2>2, <3>2, <4>3, FirstConnects
          <6>3. x \in Ancestors[x]
            BY TreeFacts
          <6>4. b = x
            BY <5>2, <6>2, <6>3, OneCreation
          <6> QED
            BY <6>1, <6>4
        <5>3. CASE t \notin Creates[x]
          BY <2>6, <3>1, <4>1, <4>2, <4>3, <5>1, <5>3
        <5> QED
          BY <5>2, <5>3
      <4>4. Rewarded[b] \in Mine => b \in coinbases' \/ In(queue', Conn(b))
        BY <2>6, <3>1, <4>1, <4>2
      <4> QED
        BY <4>3, <4>4
    <3>3. CASE queue[1] # Conn(x)
      <4>1. S = {} /\ queue[1] = Disc(x)
        BY <2>4, <2>5, <3>3
      <4>2. In(queue, Conn(b)) => In(queue', Conn(b))
        BY <2>3, <4>1, EventFacts
      <4> QED
        BY <1>2, <2>6, <3>1, <4>1, <4>2
    <3> QED
      BY <3>2, <3>3
  <2> QED
    BY <1>5, <2>1, <2>7, <2>8
<1>12. CASE DeliverToHandler
  BY <1>6, <1>12 DEF DeliverToHandler, chainVars
<1>13. ASSUME NEW w \in WalletLoaded, Start(w) PROVE WalletInv'
  <2> DEFINE S == IF w THEN Ancestors[tip] ELSE {}
  <2>1. WalletSees(S) /\ tip' = tip /\ hasWallet' = w /\ created' = created
    BY <1>13 DEF Start, chainVars
  <2>2. S = IF w THEN Ancestors[tip] ELSE {}
    OBVIOUS
  <2> HIDE DEF S
  <2>3. /\ \A t \in Mine : IF t \in created /\ \E b \in S : t \in Creates[b]
                           THEN hashBlock'[t] \in S /\ t \in Creates[hashBlock'[t]]
                           ELSE hashBlock'[t] = hashBlock[t]
        /\ coinbases' = coinbases \cup {b \in S : Rewarded[b] \in Mine}
    BY <2>1, SeenIs
  <2>4. \A t \in Mine : hashBlock'[t] # NoBlock => t \in Creates[hashBlock'[t]]
    BY <1>3, <2>3
  <2>5. ASSUME w, NEW b \in Ancestors[tip] PROVE Known(created, hashBlock', coinbases', queue', b)
    <3>1. S = Ancestors[tip]
      BY <2>2, <2>5
    <3>2. ASSUME NEW t \in Creates[b] \cap created PROVE hashBlock'[t] = b
      <4>1. hashBlock'[t] \in Ancestors[tip] /\ t \in Creates[hashBlock'[t]]
        BY <1>2, <2>3, <3>1
      <4> QED
        BY <1>2, <4>1, OneCreation
    <3> QED
      BY <2>3, <3>1, <3>2
  <2> QED
    BY <1>5, <2>1, <2>4, <2>5
<1>14. CASE initializeOnStartup
  BY <1>6, <1>14 DEF initializeOnStartup, chainVars, Up
<1>15. CASE InitBCTBlockHandler
  BY <1>6, <1>15 DEF InitBCTBlockHandler, chainVars, Up
<1>16. ASSUME NEW h \in {Height[b] : b \in Blocks}, rescanFromWallet(h) PROVE WalletInv'
  BY <1>6, <1>16 DEF rescanFromWallet, chainVars, Up
<1>17. CASE Shutdown
  BY <1>3, <1>5, <1>17 DEF Shutdown, walletVars
<1>18. CASE Crash
  BY <1>3, <1>5, <1>18 DEF Crash, walletVars
<1> QED
  BY <1>7, <1>8, <1>9, <1>10, <1>11, <1>12, <1>13, <1>14, <1>15, <1>16, <1>17, <1>18 DEF Next
----------------------------------------------------------------------------
(* The tables follow the chain.                                            *)

\* What FollowInv asks of given tables.
Follows(d, made, r, l, c, q, z) ==
    /\ q = <<>> => l = Height[z]
    /\ RecordsLead(d, made, q, z)
    /\ ~c => RewardsLead(d, r, q, z)

LEMMA FollowIs ==
    /\ FollowInv <=> (Following => Follows(bcts, created, rewards, lastProcessedHeight, counted, Pending, tip))
    /\ FollowInv' <=> (Following' => Follows(bcts', created', rewards', lastProcessedHeight', counted', Pending', tip'))
<1>1. FollowInv <=> (Following => Follows(bcts, created, rewards, lastProcessedHeight, counted, Pending, tip))
  BY DEF FollowInv, Follows
<1>2. FollowInv' <=> (Following' => Follows(bcts', created', rewards', lastProcessedHeight', counted', Pending', tip'))
  BY DEF FollowInv, Follows
<1> QED
  BY <1>1, <1>2

LEMMA FollowsHandler ==
    ASSUME ChainInv, TablesInv, FollowInv, DeliverToHandler, Following'
    PROVE  Follows(bcts', created', rewards', lastProcessedHeight', counted', Pending', tip')
<1>1. /\ TypeOK /\ Path(Pending, tip) /\ Table(bcts) /\ rewards \in SUBSET Blocks
      /\ \A b \in rewards : Rewarded[b] \in DOMAIN bcts
  BY TablesAre DEF ChainInv, TablesInv, TypeOK
<1>2. created' = created /\ counted' = counted /\ tip' = tip
  BY DEF DeliverToHandler, walletVars, chainVars
<1>3. Following
  <2>1. node = "running" /\ outOfStep' = outOfStep /\ fellBack' = fellBack
    BY DEF DeliverToHandler, ChainInv
  <2> QED
    BY <2>1 DEF Following
<1>4. RecordsLead(bcts, created, Pending, tip) /\ (~counted => RewardsLead(bcts, rewards, Pending, tip))
  BY <1>3, FollowIs DEF Follows
<1>5. Pending # <<>> /\ Pending' = Tail(Pending)
  BY Delivered
<1>6. PICK b \in Blocks \ {Genesis} :
         \/ /\ Pending[1] = Conn(b) /\ bcts' = Processed(bcts, b, Recorded(b))
            /\ rewards' = IF Rewarded[b] \in DOMAIN bcts THEN rewards \cup {b} ELSE rewards
            /\ lastProcessedHeight' = Height[b]
         \/ /\ Pending[1] = Disc(b) /\ bcts' = Reorged(bcts, rewards, Height[b] - 1)
            /\ rewards' = KeptRewards(bcts, rewards, Height[b] - 1)
            /\ lastProcessedHeight' = Height[b] - 1
  BY Delivered
<1>7. CASE /\ Pending[1] = Conn(b) /\ bcts' = Processed(bcts, b, Recorded(b))
           /\ rewards' = IF Rewarded[b] \in DOMAIN bcts THEN rewards \cup {b} ELSE rewards
           /\ lastProcessedHeight' = Height[b]
  <2> DEFINE R == Recorded(b)
  <2>1. R \in SUBSET Txs /\ R \subseteq Creates[b] /\ Creates[b] \cap created \subseteq R
    BY BlocksAssumption DEF Recorded
  <2>2. bcts' = Processed(bcts, b, R)
    BY <1>7
  <2> HIDE DEF R
  <2>3. RecordsLead(Processed(bcts, b, R), created, Tail(Pending), tip)
    BY <1>1, <1>4, <1>5, <1>7, <2>1, RecordsProcess
  <2>4. ~counted => RewardsLead(Processed(bcts, b, R), IF Rewarded[b] \in DOMAIN bcts THEN rewards \cup {b} ELSE rewards,
                                Tail(Pending), tip)
    BY <1>1, <1>4, <1>5, <1>7, <2>1, RewardsProcess
  <2>5. Tail(Pending) = <<>> => tip = b
    BY <1>1, <1>5, <1>7, FirstConnects
  <2>6. /\ Pending' = <<>> => lastProcessedHeight' = Height[tip']
        /\ RecordsLead(bcts', created', Pending', tip')
    BY <1>2, <1>5, <1>7, <2>2, <2>3, <2>5
  <2>7. ~counted' => RewardsLead(bcts', rewards', Pending', tip')
    BY <1>2, <1>5, <1>7, <2>2, <2>4
  <2> QED
    BY <2>6, <2>7 DEF Follows
<1>8. CASE /\ Pending[1] = Disc(b) /\ bcts' = Reorged(bcts, rewards, Height[b] - 1)
           /\ rewards' = KeptRewards(bcts, rewards, Height[b] - 1)
           /\ lastProcessedHeight' = Height[b] - 1
  <2>1. RecordsLead(Reorged(bcts, rewards, Height[b] - 1), created, Tail(Pending), tip)
    BY <1>1, <1>4, <1>5, <1>8, RecordsReorg
  <2>2. ~counted => RewardsLead(Reorged(bcts, rewards, Height[b] - 1), KeptRewards(bcts, rewards, Height[b] - 1),
                                Tail(Pending), tip)
    BY <1>1, <1>4, <1>5, <1>8, RewardsReorg
  <2>3. Tail(Pending) = <<>> => tip = Parent[b]
    BY <1>1, <1>5, <1>8, FirstDisconnects
  <2>4. Height[Parent[b]] = Height[b] - 1
    BY Step
  <2>5. /\ Pending' = <<>> => lastProcessedHeight' = Height[tip']
        /\ RecordsLead(bcts', created', Pending', tip')
    BY <1>2, <1>5, <1>8, <2>1, <2>3, <2>4
  <2>6. ~counted' => RewardsLead(bcts', rewards', Pending', tip')
    BY <1>2, <1>5, <1>8, <2>2
  <2> QED
    BY <2>5, <2>6 DEF Follows
<1> QED
  BY <1>6, <1>7, <1>8

LEMMA FollowsStartup ==
    ASSUME IInv, initializeOnStartup, Following'
    PROVE  Follows(bcts', created', rewards', lastProcessedHeight', counted', Pending', tip')
<1>1. /\ ChainInv /\ WalletInv /\ TypeOK /\ Table(bcts) /\ tip \in Blocks
      /\ \A b \in rewards : Rewarded[b] \in DOMAIN bcts
  BY TablesAre DEF IInv, ChainInv, TablesInv, TypeOK
<1>2. created' = created /\ tip' = tip /\ Pending' = Pending /\ Up
      /\ counted' = (counted \/ (hasWallet /\ ScanCounts)) /\ Startup
  BY DEF initializeOnStartup, walletVars, chainVars, Pending, Up
<1>3. ~outOfStep' /\ ~fellBack'
  BY DEF Following
<1>4. CASE DOMAIN bcts # {} /\ Foreign = {} /\ \A t \in DOMAIN bcts : bcts[t].height # 0
  <2>1. /\ bcts' = (IF hasWallet THEN WithRewards(bcts) ELSE bcts) /\ rewards' = rewards
        /\ lastProcessedHeight' = lastProcessedHeight /\ outOfStep' = outOfStep /\ fellBack' = fellBack
    BY <1>2, <1>4 DEF Startup
  <2>2. Following
    BY <1>3, <1>4, <2>1 DEF Following
  <2>3. /\ Pending = <<>> => lastProcessedHeight = Height[tip]
        /\ RecordsLead(bcts, created, Pending, tip) /\ (~counted => RewardsLead(bcts, rewards, Pending, tip))
    BY <2>2, FollowIs DEF Follows, IInv
  <2>4. CASE ~hasWallet
    BY <1>2, <2>1, <2>3, <2>4 DEF Follows
  <2>5. CASE hasWallet
    <3>1. LET u == WithRewards(bcts)
          IN  /\ Table(u) /\ DOMAIN u = DOMAIN bcts
              /\ \A t \in DOMAIN bcts : u[t].height = bcts[t].height /\ u[t].status = bcts[t].status
              /\ (\A b \in ConfirmedCoinbases : Rewarded[b] \notin DOMAIN bcts) =>
                    \A t \in DOMAIN bcts : u[t].rewardsPaid = bcts[t].rewardsPaid
      BY <1>1, WithRewardsIs
    <3>2. bcts' = WithRewards(bcts)
      BY <2>1, <2>5
    <3>3. /\ DOMAIN bcts' = DOMAIN bcts
          /\ \A t \in DOMAIN bcts : bcts'[t].height = bcts[t].height /\ bcts'[t].status = bcts[t].status
          /\ (\A b \in ConfirmedCoinbases : Rewarded[b] \notin DOMAIN bcts) =>
                    \A t \in DOMAIN bcts : bcts'[t].rewardsPaid = bcts[t].rewardsPaid
      BY <3>1, <3>2
    <3>4. RecordsLead(bcts', created, Pending, tip)
      BY <2>3, <3>3, RecordsSame
    <3>5. ASSUME ~counted' PROVE RewardsLead(bcts', rewards, Pending, tip)
      <4>1. ~counted /\ \A b \in ConfirmedCoinbases : Rewarded[b] \notin DOMAIN bcts'
        BY <1>2, <2>5, <3>5 DEF ScanCounts
      <4>2. \A t \in DOMAIN bcts : bcts'[t].rewardsPaid = bcts[t].rewardsPaid
        BY <3>3, <4>1
      <4> QED
        BY <2>3, <3>3, <4>1, <4>2, RewardsSame
    <3> QED
      BY <1>2, <2>1, <2>3, <3>4, <3>5 DEF Follows
  <2> QED
    BY <2>4, <2>5
<1>5. CASE ~(DOMAIN bcts # {} /\ Foreign = {} /\ \A t \in DOMAIN bcts : bcts[t].height # 0)
  <2>1. Rebuild
    BY <1>2, <1>5 DEF Startup
  <2>2. hasWallet /\ ~ScanIsStale /\ rewards' = {} /\ lastProcessedHeight' = Height[tip] /\ bcts' = InitialScan(Empty)
    BY <1>3, <2>1 DEF Rebuild
  <2> DEFINE m == Max({Height[b] : b \in Blocks})
  <2>3. m \in Nat /\ Height[tip] <= m
    BY <1>1, TopHeight
  <2>4. bcts' = Scan(Empty, 0, m)
    BY <2>2 DEF InitialScan
  <2> HIDE DEF m
  <2>5. RecordsLead(Scan(Empty, 0, m), created, Pending, tip)
    BY <1>1, <1>2, <2>2, <2>3, EmptyIs, RecordsScan
  <2>6. ASSUME ~counted' PROVE RewardsLead(Scan(Empty, 0, m), {}, Pending, tip)
    <3>1. \A b \in ConfirmedCoinbases : Rewarded[b] \notin DOMAIN Scan(Empty, 0, m)
      BY <1>2, <2>2, <2>4, <2>6 DEF ScanCounts
    <3> QED
      BY <1>1, <1>2, <2>2, <2>3, <3>1, EmptyIs, RewardsScan
  <2> QED
    BY <1>2, <2>2, <2>4, <2>5, <2>6 DEF Follows
<1> QED
  BY <1>4, <1>5

LEMMA FollowsRescan ==
    ASSUME IInv, NEW h \in Nat, rescanFromWallet(h), Following'
    PROVE  Follows(bcts', created', rewards', lastProcessedHeight', counted', Pending', tip')
<1>1. /\ ChainInv /\ WalletInv /\ TypeOK /\ Table(bcts) /\ tip \in Blocks /\ Height[tip] \in Nat
      /\ \A b \in rewards : Rewarded[b] \in DOMAIN bcts
  BY TablesAre, TreeFacts DEF IInv, ChainInv, TablesInv, TypeOK
<1>2. /\ created' = created /\ tip' = tip /\ Pending' = Pending /\ Up /\ hasWallet /\ node \in {"scanned", "running"}
      /\ counted' = (counted \/ ScanCounts) /\ lastProcessedHeight' = Height[tip]
      /\ outOfStep' = (ScanIsStale \/ (h # 0 /\ outOfStep)) /\ fellBack' = (h # 0 /\ fellBack)
  BY DEF rescanFromWallet, walletVars, chainVars, Pending, Up
<1>3. ~outOfStep' /\ ~fellBack'
  BY DEF Following
<1>4. DOMAIN bcts \subseteq Mine
  BY <1>2 DEF IInv, TablesInv
<1>5. ~ScanIsStale /\ (h # 0 => Following)
  BY <1>2, <1>3 DEF Following
<1>6. h # 0 => RecordsLead(bcts, created, Pending, tip) /\ (~counted => RewardsLead(bcts, rewards, Pending, tip))
  BY <1>5, FollowIs DEF Follows, IInv
<1> DEFINE d == IF h = 0 THEN Empty ELSE bcts
           r == IF h = 0 THEN {} ELSE rewards
<1>7. bcts' = Scan(d, h, Height[tip]) /\ rewards' = r
  BY DEF rescanFromWallet
<1>8. /\ Table(d) /\ DOMAIN d \subseteq Mine /\ \A b \in r : Rewarded[b] \in DOMAIN d
      /\ (DOMAIN d = {} /\ h = 0) \/ RecordsLead(d, created, Pending, tip)
      /\ ~counted => (DOMAIN d = {} /\ r = {}) \/ RewardsLead(d, r, Pending, tip)
  BY <1>1, <1>4, <1>6, EmptyIs
<1> HIDE DEF d, r
<1>9. RecordsLead(Scan(d, h, Height[tip]), created, Pending, tip)
  <2>1. Height[tip] <= Height[tip]
    BY <1>1
  <2> QED
    BY <1>1, <1>2, <1>5, <1>8, <2>1, RecordsScan
<1>10. ASSUME ~counted' PROVE RewardsLead(Scan(d, h, Height[tip]), r, Pending, tip)
  <2>1. ~counted /\ \A b \in ConfirmedCoinbases : Rewarded[b] \notin DOMAIN Scan(d, h, Height[tip])
    BY <1>2, <1>7, <1>10 DEF ScanCounts
  <2> QED
    BY <1>1, <1>2, <1>8, <2>1, RewardsScan
<1> QED
  BY <1>2, <1>7, <1>9, <1>10 DEF Follows

LEMMA FollowStep ==
    ASSUME IInv, Next
    PROVE  FollowInv'
<1>1. /\ ChainInv /\ WalletInv /\ TablesInv /\ TypeOK /\ Path(Pending, tip) /\ Table(bcts) /\ tip \in Blocks
      /\ Ancestors[tip] \subseteq index /\ \A b \in index : Creates[b] \cap Mine \subseteq created
  BY TablesAre DEF IInv, ChainInv, TypeOK
<1> DEFINE Now == Follows(bcts, created, rewards, lastProcessedHeight, counted, Pending, tip)
<1>2. Following => Now
  BY FollowIs DEF IInv
\* An action that touches neither the tables nor the chain nor the walk.
<1>3. ASSUME dbVars' = dbVars, created' = created, tip' = tip, Pending' = Pending, Following' => Following
      PROVE  FollowInv'
  BY <1>2, <1>3, FollowIs DEF dbVars
<1>4. ASSUME NEW t \in Mine, CreateBCT(t) PROVE FollowInv'
  <2>1. /\ dbVars' = dbVars /\ created' = created \cup {t} /\ t \notin created /\ tip' = tip /\ Pending' = Pending
        /\ Following' = Following
    BY <1>4 DEF CreateBCT, chainVars, Pending, Following, dbVars
  <2>2. \A b \in Ancestors[tip] : Creates[b] \cap created' = Creates[b] \cap created
    BY <1>1, <2>1
  <2>3. ASSUME RecordsLead(bcts, created, Pending, tip) PROVE RecordsLead(bcts, created', Pending, tip)
    <3>1. \A b \in Ancestors[tip] : \A s \in Creates[b] \cap created' :
             \/ In(Pending, Conn(b))
             \/ s \in DOMAIN bcts /\ (bcts[s].height = 0 \/ (bcts[s].height = Height[b] /\ ~Cut(Pending, Height[b])))
      BY <2>2, <2>3 DEF RecordsLead
    <3> QED
      BY <2>3, <3>1 DEF RecordsLead
  <2> QED
    BY <1>2, <2>1, <2>3, FollowIs DEF Follows, dbVars
<1>5. ASSUME NEW b \in Blocks, ConnectTip(b) PROVE FollowInv'
  <2>1. /\ b # Genesis /\ Parent[b] = tip /\ tip' = b /\ queue' = Append(queue, Conn(b)) /\ delivering' = delivering
        /\ dbVars' = dbVars /\ created' = created /\ Following' = Following
    BY <1>5 DEF ConnectTip, Conn, walletVars, dbVars, Following
  <2>2. Pending' = Append(Pending, Conn(b))
    BY <1>1, <2>1, PendingMoves, EventFacts
  <2>3. RecordsLead(bcts, created, Pending, tip) => RecordsLead(bcts, created, Append(Pending, Conn(b)), b)
    BY <1>1, <2>1, RecordsConnect
  <2>4. RewardsLead(bcts, rewards, Pending, tip) => RewardsLead(bcts, rewards, Append(Pending, Conn(b)), b)
    BY <1>1, <2>1, RewardsConnect
  <2>5. Append(Pending, Conn(b)) # <<>>
    BY <1>1, PendingFacts, AppendFacts, EventFacts
  <2> QED
    BY <1>2, <2>1, <2>2, <2>3, <2>4, <2>5, FollowIs DEF Follows, dbVars
<1>6. CASE DisconnectTip
  <2>1. /\ tip # Genesis /\ tip' = Parent[tip] /\ queue' = Append(queue, Disc(tip)) /\ delivering' = delivering
        /\ dbVars' = dbVars /\ created' = created /\ Following' = Following
    BY <1>6 DEF DisconnectTip, Disc, walletVars, dbVars, Following
  <2>2. Pending' = Append(Pending, Disc(tip))
    BY <1>1, <2>1, PendingMoves, EventFacts
  <2>3. RecordsLead(bcts, created, Pending, tip) => RecordsLead(bcts, created, Append(Pending, Disc(tip)), Parent[tip])
    BY <1>1, <2>1, RecordsDisconnect
  <2>4. RewardsLead(bcts, rewards, Pending, tip) => RewardsLead(bcts, rewards, Append(Pending, Disc(tip)), Parent[tip])
    BY <1>1, <2>1, RewardsDisconnect
  <2>5. Append(Pending, Disc(tip)) # <<>>
    BY <1>1, PendingFacts, AppendFacts, EventFacts
  <2> QED
    BY <1>2, <2>1, <2>2, <2>3, <2>4, <2>5, FollowIs DEF Follows, dbVars
<1>7. CASE FlushStateToDisk
  BY <1>3, <1>7 DEF FlushStateToDisk, walletVars, Pending, Following, dbVars
<1>8. CASE DeliverToWallet
  <2>1. dbVars' = dbVars /\ created' = created /\ tip' = tip /\ node' = node /\ fellBack' = fellBack
        /\ outOfStep' = (outOfStep \/ node # "running")
    BY <1>8 DEF DeliverToWallet, chainVars
  <2>2. IF node = "running" THEN Pending' = Pending ELSE Pending' = Tail(Pending)
    BY <1>1, <1>8, PendingWallet
  <2>3. CASE node = "running"
    BY <1>3, <2>1, <2>2, <2>3 DEF Following, dbVars
  <2>4. CASE node # "running"
    BY <2>1, <2>4, FollowIs DEF Following
  <2> QED
    BY <2>3, <2>4
<1>9. CASE DeliverToHandler
  BY <1>1, <1>9, FollowsHandler, FollowIs DEF IInv
<1>10. ASSUME NEW w \in WalletLoaded, Start(w) PROVE FollowInv'
  BY <1>3, <1>10 DEF Start, chainVars, Pending, Following, dbVars
<1>11. CASE initializeOnStartup
  BY <1>11, FollowsStartup, FollowIs
<1>12. CASE InitBCTBlockHandler
  BY <1>3, <1>12 DEF InitBCTBlockHandler, chainVars, walletVars, Pending, Following, dbVars
<1>13. ASSUME NEW h \in {Height[b] : b \in Blocks}, rescanFromWallet(h) PROVE FollowInv'
  <2>1. h \in Nat
    BY TreeFacts
  <2> QED
    BY <1>13, <2>1, FollowsRescan, FollowIs
<1>14. CASE Shutdown
  BY <1>3, <1>14 DEF Shutdown, walletVars, Pending, Following, dbVars
<1>15. CASE Crash
  <2>1. /\ dbVars' = dbVars /\ created' = created /\ tip' = flushed /\ node' = "down" /\ outOfStep' = outOfStep
        /\ queue' = <<>> /\ delivering' = NoEvent
        /\ fellBack' = (fellBack \/ tip # flushed \/ queue # <<>> \/ delivering # NoEvent)
    BY <1>15 DEF Crash, walletVars
  <2>2. CASE tip = flushed /\ queue = <<>> /\ delivering = NoEvent
    <3>1. Pending' = Pending
      BY <2>1, <2>2 DEF Pending
    <3> QED
      BY <1>3, <2>1, <2>2, <3>1 DEF Following, dbVars
  <2>3. CASE ~(tip = flushed /\ queue = <<>> /\ delivering = NoEvent)
    BY <2>1, <2>3, FollowIs DEF Following
  <2> QED
    BY <2>2, <2>3
<1> QED
  BY <1>4, <1>5, <1>6, <1>7, <1>8, <1>9, <1>10, <1>11, <1>12, <1>13, <1>14, <1>15 DEF Next
----------------------------------------------------------------------------
(* The invariant.                                                          *)

LEMMA InitInv == Init => IInv
<1> SUFFICES ASSUME Init PROVE IInv
  OBVIOUS
<1>1. /\ tip \in Blocks /\ flushed = tip /\ index = Ancestors[tip] /\ Ancestors[tip] \in SUBSET Blocks
      /\ queue = <<>> /\ delivering = NoEvent /\ node = "down"
  BY TreeFacts DEF Init
<1>2. \A t \in Mine : hashBlock[t] = IF \E b \in index : t \in Creates[b]
                                     THEN CHOOSE b \in index : t \in Creates[b] ELSE NoBlock
  BY DEF Init
<1>3. \A t : (\E b \in index : t \in Creates[b]) =>
                (CHOOSE b \in index : t \in Creates[b]) \in index
                /\ t \in Creates[CHOOSE b \in index : t \in Creates[b]]
  OBVIOUS
<1>4. hashBlock \in [Mine -> Blocks \cup {NoBlock}]
  <2>1. \A t \in Mine : hashBlock[t] \in Blocks \cup {NoBlock}
    BY <1>1, <1>2, <1>3
  <2>2. hashBlock = [t \in Mine |-> hashBlock[t]]
    BY DEF Init
  <2> QED
    BY <2>1, <2>2
<1>5. /\ created \in SUBSET Mine /\ \A b \in index : Creates[b] \cap Mine \subseteq created
  <2>1. PICK S \in SUBSET Mine : created = S \cup {t \in Mine : \E b \in index : t \in Creates[b]}
    BY DEF Init
  <2> QED
    BY <2>1
<1>6. DOMAIN bcts = {} /\ rewards = {} /\ lastProcessedHeight = -1
  BY EmptyIs DEF Init
<1>7. TypeOK
  <2>1. coinbases \in SUBSET Blocks
    BY <1>1 DEF Init
  <2>2. queue \in Seq(Events)
    BY <1>1
  <2>3. /\ moves \in 0..MaxMoves /\ starts \in 0..MaxStarts /\ crashes \in 0..MaxCrashes /\ rescans \in 0..MaxRescans
    BY BoundsAssumption DEF Init
  <2>4. {hasWallet, outOfStep, fellBack, counted} \subseteq BOOLEAN
    BY DEF Init
  <2> QED
    BY <1>1, <1>4, <1>5, <1>6, <2>1, <2>2, <2>3, <2>4 DEF TypeOK
<1>8. Pending = <<>>
  BY <1>1 DEF Pending
<1>9. Path(Pending, tip)
  BY <1>1, <1>8, NothingPending
<1>10. ChainInv
  BY <1>1, <1>5, <1>7, <1>8, <1>9 DEF ChainInv
<1>11. WalletInv
  BY <1>1, <1>2, <1>3 DEF WalletInv, Up
<1>12. TablesInv
  BY <1>1, <1>6 DEF TablesInv
<1>13. FollowInv
  BY <1>1, <1>6 DEF FollowInv, Following
<1> QED
  BY <1>10, <1>11, <1>12, <1>13 DEF IInv

LEMMA NextInv == IInv /\ [Next]_vars => IInv'
<1>1. ASSUME IInv, Next PROVE IInv'
  <2>1. ChainInv /\ WalletInv /\ TablesInv
    BY <1>1 DEF IInv
  <2>2. ChainInv'
    BY <1>1, <2>1, ChainStep
  <2>3. WalletInv'
    BY <1>1, <2>1, WalletStep
  <2>4. TablesInv'
    BY <1>1, <2>1, TablesStep DEF TablesKept
  <2>5. FollowInv'
    BY <1>1, FollowStep
  <2> QED
    BY <2>2, <2>3, <2>4, <2>5 DEF IInv
<1>2. ASSUME IInv, vars' = vars PROVE IInv'
  <2>1. /\ chainVars' = chainVars /\ queue' = queue /\ delivering' = delivering /\ walletVars' = walletVars
        /\ dbVars' = dbVars /\ node' = node /\ hasWallet' = hasWallet /\ outOfStep' = outOfStep
        /\ fellBack' = fellBack /\ counters' = counters
    BY <1>2 DEF vars
  <2>2. /\ tip' = tip /\ flushed' = flushed /\ index' = index /\ created' = created /\ hashBlock' = hashBlock
        /\ coinbases' = coinbases /\ bcts' = bcts /\ rewards' = rewards
        /\ lastProcessedHeight' = lastProcessedHeight /\ counted' = counted
        /\ moves' = moves /\ starts' = starts /\ crashes' = crashes /\ rescans' = rescans
    BY <2>1 DEF chainVars, walletVars, dbVars, counters
  <2>3. Pending' = Pending
    BY <2>1 DEF Pending
  <2>4. TypeOK'
    BY <1>2, <2>1, <2>2 DEF IInv, ChainInv, TypeOK
  <2>5. ChainInv'
    BY <1>2, <2>1, <2>2, <2>3, <2>4 DEF IInv, ChainInv
  <2>6. WalletInv'
    BY <1>2, <2>1, <2>2 DEF IInv, WalletInv, Up
  <2>7. TablesInv'
    BY <1>2, <2>1, <2>2 DEF IInv, TablesInv
  <2>8. FollowInv'
    BY <1>2, <2>1, <2>2, <2>3, FollowIs DEF IInv, Following
  <2> QED
    BY <2>5, <2>6, <2>7, <2>8 DEF IInv
<1> QED
  BY <1>1, <1>2

LEMMA InvRecords == IInv => RecordsFollowChain
<1> SUFFICES ASSUME IInv PROVE RecordsFollowChain
  OBVIOUS
<1>1. node \in {"scanned", "running"} /\ hasWallet => DOMAIN bcts \subseteq Mine
  BY DEF IInv, TablesInv
<1>2. ASSUME CaughtUp
      PROVE  /\ lastProcessedHeight = Height[tip]
             /\ \A t \in created : OnChain(t) => t \in DOMAIN bcts /\ bcts[t].height \in {0, HeightOnChain(t)}
             /\ \A t \in DOMAIN bcts :
                   /\ bcts[t].height # 0 => OnChain(t)
                   /\ Rank[bcts[t].status] >= Rank[updateStatus(bcts[t].height, Height[tip])]
  <2>1. Pending = <<>> /\ Following
    BY <1>2 DEF CaughtUp, Quiet, Pending, Following
  <2>2. lastProcessedHeight = Height[tip] /\ RecordsLead(bcts, created, <<>>, tip)
    BY <2>1, FollowIs DEF IInv, Follows
  <2>3. \A x : ~In(<<>>, x) /\ ~Cut(<<>>, x) /\ ~Raised(<<>>, x)
    BY NothingPending
  <2>4. ASSUME NEW t \in created, OnChain(t)
        PROVE  t \in DOMAIN bcts /\ bcts[t].height \in {0, HeightOnChain(t)}
    <3> DEFINE b == CHOOSE b \in Ancestors[tip] : t \in Creates[b]
    <3>1. b \in Ancestors[tip] /\ t \in Creates[b]
      BY <2>4 DEF OnChain
    <3>2. HeightOnChain(t) = Height[b]
      BY DEF HeightOnChain
    <3> HIDE DEF b
    <3> QED
      BY <2>2, <2>3, <3>1, <3>2 DEF RecordsLead
  <2>5. ASSUME NEW t \in DOMAIN bcts
        PROVE  /\ bcts[t].height # 0 => OnChain(t)
               /\ Rank[bcts[t].status] >= Rank[updateStatus(bcts[t].height, Height[tip])]
    BY <2>2, <2>3 DEF RecordsLead, OnChain
  <2> QED
    BY <2>2, <2>4, <2>5
<1> QED
  BY <1>1, <1>2 DEF RecordsFollowChain

LEMMA InvRewards == IInv => RewardsFollowChain
<1> SUFFICES ASSUME IInv, CaughtUp, ~counted
             PROVE  /\ rewards = {b \in Ancestors[tip] : Rewarded[b] \in DOMAIN bcts}
                    /\ \A t \in DOMAIN bcts : bcts[t].rewardsPaid = Total(Ancestors[tip], t)
  BY DEF RewardsFollowChain
<1>1. Pending = <<>> /\ Following
  BY DEF CaughtUp, Quiet, Pending, Following
<1>2. RewardsLead(bcts, rewards, <<>>, tip)
  BY <1>1, FollowIs DEF IInv, Follows
<1>3. /\ rewards \subseteq Ancestors[tip]
      /\ \A b \in Ancestors[tip] : Rewarded[b] \in DOMAIN bcts => b \in rewards
      /\ \A t \in DOMAIN bcts : bcts[t].rewardsPaid = Total(rewards, t)
  BY <1>2, NothingPending DEF RewardsLead, Reached
<1>4. \A b \in rewards : Rewarded[b] \in DOMAIN bcts
  BY DEF IInv, TablesInv
<1>5. ASSUME NEW t \in DOMAIN bcts PROVE Total(rewards, t) = Total(Ancestors[tip], t)
  <2>1. {b \in rewards : Rewarded[b] = t} = {b \in Ancestors[tip] : Rewarded[b] = t}
    BY <1>3
  <2> QED
    BY <2>1 DEF Total
<1> QED
  BY <1>3, <1>4, <1>5

LEMMA Invariant == Spec => []IInv
  BY InitInv, NextInv, PTL DEF Spec

\* Type correctness of the chain, the wallet and the tables.
THEOREM TypesHold == Spec => []TypeOK
<1>1. IInv => TypeOK
  BY DEF IInv, ChainInv
<1> QED
  BY <1>1, Invariant, PTL

\* Whatever was connected, disconnected, restarted and rescanned meanwhile: once
\* BCTBlockHandler has had every notification, the table "bcts" has the wallet's
\* BCTs of the active chain, at their heights, with statuses that are not behind.
THEOREM RecordsAlwaysFollow == Spec => []RecordsFollowChain
  BY Invariant, InvRecords, PTL

\* And if no scan counted coinbases in their place, the table "rewards" has the
\* Hive coinbases of the active chain and each BCT the sum of its own.
THEOREM RewardsAlwaysFollow == Spec => []RewardsFollowChain
  BY Invariant, InvRewards, PTL

\* The notifications that BCTBlockHandler has not had lead from the block it has
\* reached to the tip, whatever moved the chain and whenever they are delivered.
THEOREM NotificationsLead == Spec => []Path(Pending, tip)
<1>1. IInv => Path(Pending, tip)
  BY DEF IInv, ChainInv
<1> QED
  BY <1>1, Invariant, PTL

\* While a wallet is loaded, each of its BCTs on the active chain has its block as
\* hashBlock and each coinbase that pays it is known, unless the notification
\* of that block is still queued.
THEOREM WalletKnowsChain == Spec => []WalletInv
<1>1. IInv => WalletInv
  BY DEF IInv
<1> QED
  BY <1>1, Invariant, PTL
=============================================================================
