------------------------ MODULE BlockDownloadProofs ------------------------
(***************************************************************************)
(* The records of block download agree, no assertion fails, the limits     *)
(* hold and the last block in common is stored, for any number of peers    *)
(* and any tree of headers.                                                *)
(*                                                                         *)
(* The first part is about numbers and branches.  The second is about the  *)
(* records: Flight says that they agree, and three lemmas say that putting *)
(* blocks in flight, taking one out and dropping a peer preserve it.  The  *)
(* third says that the last block in common only moves to stored blocks.   *)
(* The last goes through the actions.                                      *)
(***************************************************************************)
EXTENDS BlockDownload, FiniteSetTheorems, WellFoundedInduction, TLAPS

\* The provers, in turn, where a leaf names none.
USE ZenonT(5), SMTT(40), ZenonT(40), Z3T(40)

(***************************************************************************)
(* Least and greatest numbers.                                             *)
(***************************************************************************)

\* A set of natural numbers has a least one.
LEMMA Least ==
    ASSUME NEW T \in SUBSET Nat, T # {}
    PROVE  \E x \in T : \A y \in T : x <= y
<1>1. \E R : IsWellFoundedOn(R, Nat) /\ \A x, y \in Nat : y < x => <<y, x>> \in R
  <2>1. \A x, y \in Nat : y < x => <<y, x>> \in OpToRel(<, Nat)
    BY DEF OpToRel
  <2> QED
    BY <2>1, NatLessThanWellFounded
<1>2. PICK R : IsWellFoundedOn(R, Nat) /\ \A x, y \in Nat : y < x => <<y, x>> \in R
  BY <1>1
<1>3. PICK x \in T : \A y \in T : ~(<<y, x>> \in R)
  BY <1>2, WFMin
<1>4. ASSUME NEW y \in T PROVE x <= y
  <2>1. x \in Nat /\ y \in Nat
    OBVIOUS
  <2>2. ~(y < x)
    BY <2>1, <1>2, <1>3
  <2> QED
    BY <2>1, <2>2
<1> QED
  BY <1>4

\* A bounded one has a greatest one.
LEMMA Greatest ==
    ASSUME NEW T \in SUBSET Nat, T # {}, NEW m \in Nat, \A y \in T : y <= m
    PROVE  \E x \in T : \A y \in T : y <= x
<1> DEFINE U == {n \in Nat : \A y \in T : y <= n}
<1>1. PICK x \in U : \A n \in U : x <= n
  <2>1. U \in SUBSET Nat /\ m \in U
    OBVIOUS
  <2> HIDE DEF U
  <2> QED
    BY <2>1, Least
<1>2. x \in T
  <2>1. SUFFICES ASSUME x \notin T PROVE FALSE
    OBVIOUS
  <2>2. PICK t \in T : TRUE
    OBVIOUS
  <2>3. x - 1 \in Nat /\ \A y \in T : y <= x - 1
    BY <2>1, <2>2
  <2> QED
    BY <2>3, <1>1
<1> QED
  BY <1>1, <1>2

(***************************************************************************)
(* Branches.                                                               *)
(***************************************************************************)

\* What a position of a branch is.
LEMMA OnBranch ==
    ASSUME NEW b \in Blocks, NEW c \in Ancestors[b]
    PROVE  /\ c \in Blocks
           /\ Height[c] \in Nat /\ Height[b] \in Nat /\ Height[c] <= Height[b]
           /\ c = Path[b][Height[c] + 1]
           /\ Ancestors[c] \subseteq Ancestors[b]
<1>1. /\ Path[b] \in Seq(Blocks) /\ Path[b] # <<>>
  BY TreeAssumption
<1>2. PICK i \in 1..Len(Path[b]) : c = Path[b][i]
  BY DEF Ancestors
<1>3. c \in Blocks
  BY <1>1, <1>2
<1>4. Path[c] = SubSeq(Path[b], 1, i)
  BY <1>2, TreeAssumption
<1>5. Len(Path[b]) \in Nat /\ Len(Path[c]) = i /\ \A j \in 1..i : Path[c][j] = Path[b][j]
  BY <1>1, <1>2, <1>4
<1>6. Height[c] = i - 1 /\ Height[b] = Len(Path[b]) - 1
  BY <1>3, <1>5 DEF Height
<1>7. Ancestors[c] \subseteq Ancestors[b]
  BY <1>2, <1>3, <1>5 DEF Ancestors
<1> QED
  BY <1>2, <1>3, <1>5, <1>6, <1>7

\* A block is on its own branch, whose blocks are finitely many.
LEMMA BranchFacts ==
    ASSUME NEW b \in Blocks
    PROVE  /\ b \in Ancestors[b] /\ Ancestors[b] \subseteq Blocks
           /\ IsFiniteSet(Ancestors[b])
           /\ Height[b] \in Nat
<1>1. /\ Path[b] \in Seq(Blocks) /\ Path[b] # <<>> /\ Path[b][Len(Path[b])] = b
  BY TreeAssumption
<1>2. Len(Path[b]) \in 1..Len(Path[b])
  BY <1>1
<1>3. b \in Ancestors[b]
  BY <1>1, <1>2 DEF Ancestors
<1>4. Ancestors[b] \subseteq Blocks
  BY <1>1 DEF Ancestors
<1>5. IsFiniteSet(Ancestors[b])
  BY <1>4, DownloadAssumption, FS_Subset
<1> QED
  BY <1>3, <1>4, <1>5, OnBranch

\* A part of a finite set that is not all of it is smaller.
LEMMA Smaller ==
    ASSUME NEW P, NEW Q, IsFiniteSet(Q), P \subseteq Q, P # Q
    PROVE  Cardinality(P) < Cardinality(Q)
<1>1. IsFiniteSet(P) /\ Cardinality(P) <= Cardinality(Q) /\ Cardinality(Q) # Cardinality(P)
  BY FS_Subset
<1>2. Cardinality(P) \in Nat /\ Cardinality(Q) \in Nat
  BY <1>1, FS_CardinalityType
<1> QED
  BY <1>1, <1>2

\* The lowest n blocks are at most n: each has another number of blocks below it.
LEMMA LowestFew ==
    ASSUME NEW b \in Blocks, NEW S \in SUBSET Ancestors[b], NEW n \in Nat
    PROVE  /\ Lowest(S, n) \subseteq S /\ IsFiniteSet(Lowest(S, n))
           /\ Cardinality(Lowest(S, n)) \in Nat /\ Cardinality(Lowest(S, n)) <= n
<1> DEFINE L == Lowest(S, n)
           Below(c) == {d \in S : Height[d] < Height[c]}
           f == [c \in L |-> Cardinality(Below(c))]
<1>1. IsFiniteSet(S)
  BY BranchFacts, FS_Subset
<1>2. L \subseteq S /\ IsFiniteSet(L)
  BY <1>1, FS_Subset DEF Lowest
<1>3. \A c \in L : IsFiniteSet(Below(c)) /\ Cardinality(Below(c)) \in Nat /\ Cardinality(Below(c)) < n
  <2> TAKE c \in L
  <2>1. Below(c) \subseteq S
    OBVIOUS
  <2>2. IsFiniteSet(Below(c)) /\ Cardinality(Below(c)) \in Nat
    BY <2>1, <1>1, FS_Subset, FS_CardinalityType
  <2>3. Cardinality(Below(c)) < n
    BY DEF Lowest
  <2> QED
    BY <2>2, <2>3
<1>4. ASSUME NEW c \in L, NEW d \in L, Height[c] < Height[d]
      PROVE  f[c] # f[d]
  <2>1. c \in S /\ Height[c] \in Nat /\ Height[d] \in Nat
    BY <1>2, OnBranch
  <2>2. c \in Below(d) /\ c \notin Below(c) /\ Below(c) \subseteq Below(d)
    BY <2>1, <1>2, <1>4, OnBranch
  <2>3. Cardinality(Below(c)) < Cardinality(Below(d))
    <3>1. Below(c) # Below(d)
      BY <2>2
    <3>2. IsFiniteSet(Below(d))
      BY <1>3
    <3> HIDE DEF Below
    <3> QED
      BY <2>2, <3>1, <3>2, Smaller
  <2> QED
    BY <2>3, <1>3
<1>5. ASSUME NEW c \in L, NEW d \in L, c # d
      PROVE  f[c] # f[d]
  <2>1. Height[c] \in Nat /\ Height[d] \in Nat /\ Height[c] # Height[d]
    BY <1>2, <1>5, OnBranch
  <2>2. CASE Height[c] < Height[d]
    BY <2>2, <1>4
  <2>3. CASE Height[d] < Height[c]
    BY <2>3, <1>4
  <2> QED
    BY <2>1, <2>2, <2>3
<1>6. f \in [L -> 0..(n - 1)]
  BY <1>3
<1>7. IsFiniteSet(0..(n - 1)) /\ Cardinality(0..(n - 1)) = n
  <2>1. 0 \in Int /\ n - 1 \in Int
    OBVIOUS
  <2>2. /\ IsFiniteSet(0..(n - 1))
        /\ Cardinality(0..(n - 1)) = IF 0 > n - 1 THEN 0 ELSE n - 1 - 0 + 1
    BY <2>1, FS_Interval
  <2> QED
    BY <2>2
<1>8. Cardinality(L) \in Nat
  BY <1>2, FS_CardinalityType
<1>9. ~(n < Cardinality(L))
  <2> HIDE DEF f, L
  <2> QED
    BY <1>2, <1>5, <1>6, <1>7, FS_PigeonHole
<1> QED
  BY <1>2, <1>8, <1>9

(***************************************************************************)
(* The records.                                                            *)
(***************************************************************************)
FlightTypes ==
    /\ nodes \subseteq Peers
    /\ mapBlocksInFlight \in [Blocks -> Peers \cup {None}]
    /\ vBlocksInFlight \in [Peers -> SUBSET Blocks]
    /\ partial \in [Blocks -> {"no", "open", "filled"}]
    /\ nBlocksInFlight \in [Peers -> Nat]
    /\ nBlocksInFlightValidHeaders \in [Peers -> Nat]
    /\ nPeersWithValidatedDownloads \in Nat

Flight == FlightTypes /\ RecordsAgree /\ WithinLimits

\* The bounds are numbers.
LEMMA Bounds == MaxInTransit \in Nat /\ Window \in Nat
BY DownloadAssumption

\* How many blocks are in flight from a peer, and how many more may be.
LEMMA Room ==
    ASSUME Flight, NEW p \in Peers
    PROVE  /\ nBlocksInFlight[p] \in Nat /\ MaxInTransit - nBlocksInFlight[p] \in Nat
           /\ MaxInTransit \in Nat
<1>1. nBlocksInFlight[p] \in Nat /\ nBlocksInFlight[p] <= MaxInTransit
  BY DEF Flight, FlightTypes, WithinLimits
<1> QED
  BY <1>1, Bounds

\* The peers with a download under way.
Busy == {p \in nodes : vBlocksInFlight[p] # {}}

\* Finite sets of blocks and peers, and their sizes.
LEMMA Finite ==
    /\ \A S \in SUBSET Blocks : IsFiniteSet(S) /\ Cardinality(S) \in Nat /\ (Cardinality(S) = 0 <=> S = {})
    /\ \A S \in SUBSET Peers : IsFiniteSet(S) /\ Cardinality(S) \in Nat
<1>1. ASSUME NEW S \in SUBSET Blocks
      PROVE  IsFiniteSet(S) /\ Cardinality(S) \in Nat /\ (Cardinality(S) = 0 <=> S = {})
  BY DownloadAssumption, FS_Subset, FS_CardinalityType, FS_EmptySet
<1>2. ASSUME NEW S \in SUBSET Peers
      PROVE  IsFiniteSet(S) /\ Cardinality(S) \in Nat
  BY DownloadAssumption, FS_Subset, FS_CardinalityType
<1> QED
  BY <1>1, <1>2

\* Two sets without a common member.
LEMMA DisjointUnion ==
    ASSUME NEW S \in SUBSET Blocks, NEW T \in SUBSET Blocks, S \cap T = {}
    PROVE  Cardinality(S \cup T) = Cardinality(S) + Cardinality(T)
<1>1. IsFiniteSet(S) /\ IsFiniteSet(T) /\ Cardinality(S) \in Nat /\ Cardinality(T) \in Nat
  BY Finite
<1>2. Cardinality(S \cup T) = Cardinality(S) + Cardinality(T) - Cardinality(S \cap T)
  BY <1>1, FS_Union
<1>3. Cardinality(S \cap T) = 0
  BY FS_EmptySet
<1> QED
  BY <1>1, <1>2, <1>3

\* Putting blocks in flight.
LEMMA MarkedInFlight ==
    ASSUME Flight, NEW p \in nodes, NEW S \in SUBSET Blocks,
           \A b \in S : ~InFlight(b),
           nBlocksInFlight[p] + Cardinality(S) <= MaxInTransit,
           S \subseteq index', index \subseteq index', nodes' = nodes,
           partial' \in [Blocks -> {"no", "open", "filled"}],
           MarkBlocksAsInFlight(p, S)
    PROVE  Flight'
<1> USE DEF Flight, FlightTypes, InFlight
<1>1. /\ p \in Peers /\ None \notin Peers
      /\ Cardinality(S) \in Nat
      /\ nBlocksInFlight[p] \in Nat /\ nBlocksInFlightValidHeaders[p] \in Nat
  BY Finite, TreeAssumption
<1>2. S \cap vBlocksInFlight[p] = {}
  BY <1>1 DEF RecordsAgree
<1>3. FlightTypes'
  BY <1>1 DEF MarkBlocksAsInFlight
<1>4. \A q \in Peers, b \in Blocks : b \in vBlocksInFlight'[q] <=> mapBlocksInFlight'[b] = q
  BY <1>1, <1>3 DEF MarkBlocksAsInFlight, RecordsAgree
<1>5. \A q \in Peers : vBlocksInFlight'[q] # {} => q \in nodes'
  BY <1>1, <1>3 DEF MarkBlocksAsInFlight, RecordsAgree
<1>6. \A q \in Peers : /\ nBlocksInFlight'[q] = Cardinality(vBlocksInFlight'[q])
                       /\ nBlocksInFlightValidHeaders'[q] = nBlocksInFlight'[q]
  <2> TAKE q \in Peers
  <2>1. nBlocksInFlight[q] = Cardinality(vBlocksInFlight[q]) /\ nBlocksInFlightValidHeaders[q] = nBlocksInFlight[q]
    BY DEF RecordsAgree
  <2>2. CASE q # p
    BY <2>1, <2>2, <1>3 DEF MarkBlocksAsInFlight
  <2>3. CASE q = p
    <3>1. Cardinality(vBlocksInFlight[p] \cup S) = Cardinality(vBlocksInFlight[p]) + Cardinality(S)
      BY <1>1, <1>2, DisjointUnion
    <3> QED
      BY <2>1, <2>3, <3>1, <1>1, <1>3 DEF MarkBlocksAsInFlight
  <2> QED
    BY <2>2, <2>3
<1>7. nPeersWithValidatedDownloads' = Cardinality(Busy')
  <2>0. nPeersWithValidatedDownloads = Cardinality(Busy)
    BY DEF RecordsAgree, Busy
  <2>1. nBlocksInFlightValidHeaders[p] = 0 <=> vBlocksInFlight[p] = {}
    BY <1>1, Finite DEF RecordsAgree
  <2>2. CASE nBlocksInFlightValidHeaders[p] = 0 /\ S # {}
    <3>1. Busy' = Busy \cup {p} /\ p \notin Busy
      BY <2>1, <2>2, <1>1 DEF Busy, MarkBlocksAsInFlight
    <3>2. IsFiniteSet(Busy)
      BY Finite DEF Busy
    <3>3. Cardinality(Busy \cup {p}) = Cardinality(Busy) + 1
      BY <3>1, <3>2, FS_AddElement
    <3> QED
      BY <2>0, <2>2, <3>1, <3>3 DEF MarkBlocksAsInFlight
  <2>3. CASE ~(nBlocksInFlightValidHeaders[p] = 0 /\ S # {})
    <3>1. Busy' = Busy
      BY <2>1, <2>3, <1>1 DEF Busy, MarkBlocksAsInFlight
    <3> QED
      BY <2>0, <2>3, <3>1 DEF MarkBlocksAsInFlight
  <2> QED
    BY <2>2, <2>3
<1>8. RecordsAgree'
  BY <1>4, <1>5, <1>6, <1>7 DEF RecordsAgree, Busy
<1>9. WithinLimits'
  BY <1>1, <1>3 DEF WithinLimits, MarkBlocksAsInFlight
<1> QED
  BY <1>3, <1>8, <1>9

\* Taking a block out of flight; nobody is asked about a peer that is gone.
LEMMA MarkedReceived ==
    ASSUME Flight, NEW b \in Blocks, index \subseteq index', nodes' = nodes,
           MarkBlockAsReceived(b)
    PROVE  Flight' /\ (~failed => ~failed')
<1> USE DEF Flight, FlightTypes, InFlight
<1>1. CASE ~InFlight(b)
  BY <1>1 DEF MarkBlockAsReceived, flightVars, RecordsAgree, WithinLimits
<1>2. CASE InFlight(b)
  <2> DEFINE p == mapBlocksInFlight[b]
  <2>1. p \in Peers /\ p # None /\ b \in vBlocksInFlight[p] /\ p \in nodes
    BY <1>2, TreeAssumption DEF RecordsAgree
  <2> HIDE DEF p
  <2>2. /\ failed' = (failed \/ p \notin nodes)
        /\ nBlocksInFlightValidHeaders' = [nBlocksInFlightValidHeaders EXCEPT ![p] = @ - 1]
        /\ nPeersWithValidatedDownloads' =
              nPeersWithValidatedDownloads - (IF nBlocksInFlightValidHeaders[p] = 1 THEN 1 ELSE 0)
        /\ vBlocksInFlight' = [vBlocksInFlight EXCEPT ![p] = @ \ {b}]
        /\ nBlocksInFlight' = [nBlocksInFlight EXCEPT ![p] = @ - 1]
        /\ mapBlocksInFlight' = [mapBlocksInFlight EXCEPT ![b] = None]
        /\ partial' = [partial EXCEPT ![b] = "no"]
    BY <1>2 DEF MarkBlockAsReceived, p
  <2>3. /\ nBlocksInFlight[p] = Cardinality(vBlocksInFlight[p])
        /\ nBlocksInFlightValidHeaders[p] = nBlocksInFlight[p]
        /\ nPeersWithValidatedDownloads = Cardinality(Busy)
    BY <2>1 DEF RecordsAgree, Busy
  <2>4. /\ IsFiniteSet(vBlocksInFlight[p]) /\ Cardinality(vBlocksInFlight[p]) \in Nat
        /\ Cardinality(vBlocksInFlight[p] \ {b}) = Cardinality(vBlocksInFlight[p]) - 1
        /\ Cardinality(vBlocksInFlight[p] \ {b}) \in Nat
        /\ Cardinality(vBlocksInFlight[p] \ {b}) = 0 <=> vBlocksInFlight[p] \ {b} = {}
    <3>1. vBlocksInFlight[p] \in SUBSET Blocks /\ vBlocksInFlight[p] \ {b} \in SUBSET Blocks
      BY <2>1
    <3> QED
      BY <2>1, <3>1, Finite, FS_RemoveElement
  <2>5. /\ IsFiniteSet(Busy) /\ Cardinality(Busy) \in Nat /\ p \in Busy
        /\ Cardinality(Busy \ {p}) = Cardinality(Busy) - 1 /\ Cardinality(Busy \ {p}) \in Nat
    <3>1. Busy \in SUBSET Peers /\ Busy \ {p} \in SUBSET Peers /\ p \in Busy
      BY <2>1 DEF Busy
    <3> QED
      BY <3>1, Finite, FS_RemoveElement
  <2>6. nPeersWithValidatedDownloads' = Cardinality(Busy')
    <3>1. CASE nBlocksInFlightValidHeaders[p] = 1
      <4>1. Busy' = Busy \ {p}
        BY <2>1, <2>2, <2>3, <2>4, <3>1 DEF Busy
      <4> QED
        BY <2>2, <2>3, <2>5, <3>1, <4>1
    <3>2. CASE nBlocksInFlightValidHeaders[p] # 1
      <4>1. Busy' = Busy
        BY <2>1, <2>2, <2>3, <2>4, <3>2 DEF Busy
      <4> QED
        BY <2>2, <2>3, <2>5, <3>2, <4>1
    <3> QED
      BY <3>1, <3>2
  <2>7. Cardinality(Busy') \in Nat
    <3>1. Busy' \in SUBSET Peers
      BY DEF Busy
    <3> QED
      BY <3>1, Finite
  <2>8. FlightTypes'
    BY <2>1, <2>2, <2>3, <2>4, <2>6, <2>7
  <2>9. RecordsAgree'
    <3>1. \A q \in Peers, c \in Blocks : c \in vBlocksInFlight'[q] <=> mapBlocksInFlight'[c] = q
      <4> TAKE q \in Peers, c \in Blocks
      <4>1. c \in vBlocksInFlight[q] <=> mapBlocksInFlight[c] = q
        BY DEF RecordsAgree
      <4>2. q # None
        BY TreeAssumption
      <4>3. mapBlocksInFlight[b] = p
        BY DEF p
      <4>4. CASE c = b
        BY <2>1, <2>2, <4>1, <4>2, <4>3, <4>4
      <4>5. CASE c # b
        BY <2>1, <2>2, <4>1, <4>5
      <4> QED
        BY <4>4, <4>5
    <3>2. \A q \in Peers : vBlocksInFlight'[q] # {} => q \in nodes'
      BY <2>1, <2>2 DEF RecordsAgree
    <3>3. \A q \in Peers : /\ nBlocksInFlight'[q] = Cardinality(vBlocksInFlight'[q])
                           /\ nBlocksInFlightValidHeaders'[q] = nBlocksInFlight'[q]
      BY <2>1, <2>2, <2>3, <2>4 DEF RecordsAgree
    <3> QED
      BY <3>1, <3>2, <3>3, <2>6 DEF RecordsAgree, Busy
  <2>10. WithinLimits'
    BY <2>1, <2>2, <2>3, <2>4, Bounds DEF WithinLimits
  <2>11. ~failed => ~failed'
    BY <2>1, <2>2
  <2> QED
    BY <2>8, <2>9, <2>10, <2>11
<1> QED
  BY <1>1, <1>2

\* Dropping a peer: the assertions at the end of FinalizeNode hold.
LEMMA NodeFinalized ==
    ASSUME Flight, NEW p \in Peers, FinalizeNode(p)
    PROVE  Flight' /\ (~failed => ~failed')
<1> USE DEF Flight, FlightTypes, InFlight
<1> DEFINE left == nPeersWithValidatedDownloads - (IF nBlocksInFlightValidHeaders[p] # 0 THEN 1 ELSE 0)
<1>1. /\ p \in nodes /\ None \notin Peers
      /\ nodes' = nodes \ {p}
      /\ mapBlocksInFlight' =
            [b \in Blocks |-> IF b \in vBlocksInFlight[p] THEN None ELSE mapBlocksInFlight[b]]
      /\ partial' = [b \in Blocks |-> IF b \in vBlocksInFlight[p] THEN "no" ELSE partial[b]]
      /\ nPeersWithValidatedDownloads' = left
      /\ vBlocksInFlight' = [vBlocksInFlight EXCEPT ![p] = {}]
      /\ nBlocksInFlight' = [nBlocksInFlight EXCEPT ![p] = 0]
      /\ nBlocksInFlightValidHeaders' = [nBlocksInFlightValidHeaders EXCEPT ![p] = 0]
      /\ index' = index
  BY TreeAssumption DEF FinalizeNode, treeVars
<1>2. /\ nBlocksInFlightValidHeaders[p] = 0 <=> vBlocksInFlight[p] = {}
      /\ nPeersWithValidatedDownloads = Cardinality(Busy)
  BY <1>1, Finite DEF RecordsAgree, Busy
<1>3. Busy \in SUBSET Peers /\ Busy' \in SUBSET Peers
  BY <1>1 DEF Busy
<1>4. IsFiniteSet(Busy) /\ Cardinality(Busy) \in Nat /\ Cardinality(Busy') \in Nat
  BY <1>3, Finite
<1>5. left = Cardinality(Busy')
  <2>1. CASE vBlocksInFlight[p] = {}
    <3>1. Busy' = Busy
      BY <1>1, <2>1 DEF Busy
    <3> QED
      BY <1>2, <1>4, <2>1, <3>1
  <2>2. CASE vBlocksInFlight[p] # {}
    <3>1. Busy' = Busy \ {p} /\ p \in Busy
      BY <1>1, <2>2 DEF Busy
    <3>2. Cardinality(Busy \ {p}) = Cardinality(Busy) - 1
      BY <3>1, <1>4, FS_RemoveElement
    <3> QED
      BY <1>2, <1>4, <2>2, <3>1, <3>2
  <2> QED
    BY <2>1, <2>2
<1> HIDE DEF left
<1>6. FlightTypes'
  BY <1>1, <1>4, <1>5
<1>7. \A q \in Peers, b \in Blocks : b \in vBlocksInFlight'[q] <=> mapBlocksInFlight'[b] = q
  BY <1>1 DEF RecordsAgree
<1>8. \A q \in Peers : vBlocksInFlight'[q] # {} => q \in nodes'
  BY <1>1 DEF RecordsAgree
<1>9. \A q \in Peers : /\ nBlocksInFlight'[q] = Cardinality(vBlocksInFlight'[q])
                       /\ nBlocksInFlightValidHeaders'[q] = nBlocksInFlight'[q]
  BY <1>1, FS_EmptySet DEF RecordsAgree
<1>10. RecordsAgree'
  BY <1>1, <1>5, <1>7, <1>8, <1>9 DEF RecordsAgree, Busy
<1>11. WithinLimits'
  BY <1>1, Bounds DEF WithinLimits
<1>12. ~(left < 0)
  BY <1>4, <1>5
<1>13. ASSUME nodes' = {}
       PROVE  left = 0 /\ \A b \in Blocks : mapBlocksInFlight'[b] = None
  <2>1. Busy' = {}
    BY <1>13 DEF Busy
  <2>2. left = 0
    BY <2>1, <1>5, FS_EmptySet
  <2>3. ASSUME NEW b \in Blocks PROVE mapBlocksInFlight'[b] = None
    BY <1>6, <1>7, <1>8, <1>13
  <2> QED
    BY <2>2, <2>3
<1>14. failed' = (failed \/ left < 0
                   \/ (nodes' = {} /\ (left # 0 \/ \E b \in Blocks : mapBlocksInFlight'[b] # None)))
  BY DEF FinalizeNode, left
<1>15. ~failed => ~failed'
  BY <1>12, <1>13, <1>14
<1> QED
  BY <1>6, <1>10, <1>11, <1>15

(***************************************************************************)
(* The tree: the headers known are closed, and the active chain is stored. *)
(***************************************************************************)
Tree ==
    /\ index \subseteq Blocks /\ have \subseteq Blocks /\ invalid \subseteq Blocks /\ tip \in Blocks
    /\ ChainTx(tip)
    /\ \A b \in index : Ancestors[b] \subseteq index

\* A branch is its last block and the branch of that block's parent.
LEMMA ParentBranch ==
    ASSUME NEW b \in Blocks, Len(Path[b]) > 1
    PROVE  Ancestors[b] \subseteq Ancestors[Parent(b)] \cup {b}
<1>1. /\ Path[b] \in Seq(Blocks) /\ Len(Path[b]) \in Nat
      /\ Path[b][Len(Path[b])] = b
  BY TreeAssumption
<1> DEFINE n == Len(Path[b]) - 1
<1>2. n \in 1..Len(Path[b]) /\ Parent(b) = Path[b][n] /\ Parent(b) \in Blocks
  BY <1>1 DEF Parent
<1>3. Path[Parent(b)] = SubSeq(Path[b], 1, n)
  BY <1>2, TreeAssumption, ZenonT(60)
<1>4. Len(Path[Parent(b)]) = n /\ \A i \in 1..n : Path[Parent(b)][i] = Path[b][i]
  BY <1>1, <1>2, <1>3
<1>5. ASSUME NEW c \in Ancestors[b], c # b
      PROVE  c \in Ancestors[Parent(b)]
  <2>1. PICK i \in 1..Len(Path[b]) : c = Path[b][i]
    BY DEF Ancestors
  <2>2. i \in 1..n
    BY <1>1, <1>5, <2>1
  <2> QED
    BY <1>2, <1>4, <2>1, <2>2 DEF Ancestors
<1> QED
  BY <1>5

\* A header that connects keeps the headers closed.
LEMMA Connected ==
    ASSUME Tree, NEW b \in Blocks, Connects(b)
    PROVE  \A c \in index \cup {b} : Ancestors[c] \subseteq index \cup {b}
<1>1. CASE b \in index
  BY <1>1 DEF Tree
<1>2. CASE Len(Path[b]) > 1 /\ Parent(b) \in index
  BY <1>2, ParentBranch DEF Tree
<1> QED
  BY <1>1, <1>2 DEF Connects

\* Storing a block, whether it was asked for or not.
LEMMA BlockProcessed ==
    ASSUME Tree, NEW b \in Blocks, NEW r \in BOOLEAN, ProcessNewBlock(b, r)
    PROVE  Tree' /\ index \subseteq index' /\ have \subseteq have'
<1>1. CASE ~Connects(b) \/ ~Sound(b)
  BY <1>1 DEF ProcessNewBlock, treeVars, Tree, ChainTx
<1>2. CASE Connects(b) /\ Sound(b)
  <2>1. /\ index' = index \cup {b}
        /\ invalid' \in {invalid, invalid \cup {b}}
        /\ \/ UNCHANGED <<have, tip>>
           \/ have' = have \cup {b} /\ tip' \in NewTips(have')
    BY <1>2 DEF ProcessNewBlock
  <2>2. tip' \in Blocks /\ Ancestors[tip'] \subseteq have'
    BY <2>1 DEF NewTips, Tree, ChainTx
  <2>3. \A c \in index' : Ancestors[c] \subseteq index'
    BY <1>2, <2>1, Connected
  <2> QED
    BY <2>1, <2>2, <2>3 DEF Tree, ChainTx
<1> QED
  BY <1>1, <1>2

(***************************************************************************)
(* What is known of the peers.                                             *)
(***************************************************************************)
Known ==
    /\ bestKnown \in [Peers -> Blocks \cup {None}]
    /\ lastUnknown \in [Peers -> Blocks \cup {None}]
    /\ lastCommon \in [Peers -> Blocks \cup {None}]
    /\ \A p \in Peers : bestKnown[p] # None => bestKnown[p] \in index
    /\ LastCommonIsStored

\* More headers and more stored blocks do not disturb it.
LEMMA KnownGrows ==
    ASSUME Known, index \subseteq index', have \subseteq have', UNCHANGED knownVars
    PROVE  Known'
BY DEF Known, knownVars, LastCommonIsStored, ChainTx

\* The best known block of a peer after its unknown one is looked up.
LEMMA BestAfterKnown ==
    ASSUME Known, NEW p \in Peers, NEW idx \in SUBSET Blocks, index \subseteq idx
    PROVE  /\ BestAfter(p, idx) \in idx \cup {None}
           /\ UnknownAfter(p, idx) \in Blocks \cup {None}
BY DEF Known, BestAfter, UnknownAfter, Resolved, Better

LEMMA AvailabilityUpdated ==
    ASSUME Known, NEW p \in Peers, NEW b \in Blocks, NEW idx \in SUBSET Blocks,
           index \subseteq idx, idx \subseteq index', have \subseteq have',
           lastCommon' = lastCommon, UpdateBlockAvailability(p, b, idx)
    PROVE  Known'
<1>1. /\ BestAfter(p, idx) \in idx \cup {None}
      /\ UnknownAfter(p, idx) \in Blocks \cup {None}
  BY BestAfterKnown
<1>2. /\ bestKnown' \in [Peers -> Blocks \cup {None}]
      /\ lastUnknown' \in [Peers -> Blocks \cup {None}]
      /\ \A q \in Peers : bestKnown'[q] # None => bestKnown'[q] \in index'
  <2>1. CASE b \in idx
    <3>1. /\ bestKnown' = [bestKnown EXCEPT ![p] = Better(BestAfter(p, idx), b)]
          /\ lastUnknown' = [lastUnknown EXCEPT ![p] = UnknownAfter(p, idx)]
      BY <2>1 DEF UpdateBlockAvailability
    <3>2. Better(BestAfter(p, idx), b) \in idx
      BY <1>1, <2>1 DEF Better
    <3> QED
      BY <1>1, <3>1, <3>2 DEF Known
  <2>2. CASE b \notin idx
    <3>1. /\ bestKnown' = [bestKnown EXCEPT ![p] = BestAfter(p, idx)]
          /\ lastUnknown' = [lastUnknown EXCEPT ![p] = b]
      BY <2>2 DEF UpdateBlockAvailability
    <3> QED
      BY <1>1, <3>1 DEF Known
  <2> QED
    BY <2>1, <2>2
<1> QED
  BY <1>2 DEF Known, LastCommonIsStored, ChainTx

\* Some blocks of one branch have a highest one.
LEMMA Highest ==
    ASSUME NEW b \in Blocks, NEW S \in SUBSET Ancestors[b], S # {}
    PROVE  \E x \in S : \A y \in S : Height[y] <= Height[x]
<1> DEFINE T == {Height[y] : y \in S}
<1>1. T \in SUBSET Nat /\ T # {} /\ Height[b] \in Nat /\ \A h \in T : h <= Height[b]
  BY OnBranch, BranchFacts
<1>2. PICK h \in T : \A k \in T : k <= h
  <2> HIDE DEF T
  <2> QED
    BY <1>1, Greatest
<1>3. PICK x \in S : h = Height[x]
  OBVIOUS
<1> QED
  BY <1>2, <1>3

\* Two branches meet in a block of both.
LEMMA LastCommonAncestorMeets ==
    ASSUME NEW a \in Blocks, NEW b \in Blocks
    PROVE  LastCommonAncestor(a, b) \in CommonAncestors(a, b)
<1>1. CommonAncestors(a, b) \in SUBSET Ancestors[b] /\ CommonAncestors(a, b) # {}
  <2>1. Path[a] \in Seq(Blocks) \ {<<>>} /\ Path[b] \in Seq(Blocks) \ {<<>>} /\ Path[a][1] = Path[b][1]
    BY TreeAssumption
  <2>2. 1 \in 1..Len(Path[a]) /\ 1 \in 1..Len(Path[b])
    BY <2>1
  <2> QED
    BY <2>1, <2>2 DEF CommonAncestors, Ancestors
<1>2. \E c \in CommonAncestors(a, b) : \A d \in CommonAncestors(a, b) : Height[d] <= Height[c]
  BY <1>1, Highest
<1> QED
  BY <1>2 DEF LastCommonAncestor

\* The walk starts at a stored block.
LEMMA StartStored ==
    ASSUME Tree, Known, NEW p \in Peers, NEW best \in Blocks
    PROVE  /\ LastCommonAncestor(StartCommon(lastCommon[p], best), best) \in Blocks
           /\ ChainTx(LastCommonAncestor(StartCommon(lastCommon[p], best), best))
<1> DEFINE start == StartCommon(lastCommon[p], best)
<1>1. start \in Blocks /\ ChainTx(start)
  <2>1. CASE lastCommon[p] # None
    BY <2>1 DEF StartCommon, Known, LastCommonIsStored
  <2>2. CASE lastCommon[p] = None
    <3> DEFINE i == 1 + (IF Height[best] < Height[tip] THEN Height[best] ELSE Height[tip])
    <3>1. start = Path[tip][i]
      BY <2>2 DEF StartCommon
    <3>2. tip \in Blocks /\ Path[tip] \in Seq(Blocks) /\ Height[tip] = Len(Path[tip]) - 1
      BY TreeAssumption DEF Tree, Height
    <3>3. i \in 1..Len(Path[tip])
      BY <3>2, BranchFacts
    <3>4. start \in Ancestors[tip]
      BY <3>1, <3>2, <3>3 DEF Ancestors
    <3> QED
      BY <3>2, <3>4, OnBranch DEF Tree, ChainTx
  <2> QED
    BY <2>1, <2>2
<1> HIDE DEF start
<1>2. LastCommonAncestor(start, best) \in Ancestors[start]
  BY <1>1, LastCommonAncestorMeets DEF CommonAncestors
<1>3. /\ LastCommonAncestor(start, best) \in Blocks
      /\ Ancestors[LastCommonAncestor(start, best)] \subseteq Ancestors[start]
  BY <1>1, <1>2, OnBranch
<1> QED
  BY <1>1, <1>3 DEF ChainTx, start

\* It ends at a stored block.
LEMMA CommonAfterStored ==
    ASSUME NEW S, NEW common \in Blocks, NEW best \in Blocks, NEW count, ChainTx(common)
    PROVE  CommonAfter(S, common, best, count) \in Blocks /\ ChainTx(CommonAfter(S, common, best, count))
<1> DEFINE full == {b \in Passed(S, common, best, count) : Have(b) /\ ChainTx(b)}
<1>1. CASE full = {}
  BY <1>1 DEF CommonAfter
<1>2. CASE full # {}
  <2>1. full \in SUBSET Ancestors[best] /\ \A b \in full : ChainTx(b)
    BY DEF Passed, Walk
  <2>2. CommonAfter(S, common, best, count) = CHOOSE b \in full : \A c \in full : Height[c] <= Height[b]
    BY <1>2 DEF CommonAfter
  <2> HIDE DEF full
  <2>3. \E b \in full : \A c \in full : Height[c] <= Height[b]
    BY <1>2, <2>1, Highest
  <2>4. CommonAfter(S, common, best, count) \in full
    BY <2>2, <2>3
  <2> QED
    BY <2>1, <2>4, OnBranch
<1> QED
  BY <1>1, <1>2

(***************************************************************************)
(* The inductive invariant, and one lemma per group of actions.            *)
(***************************************************************************)
Inv ==
    /\ Tree /\ Flight /\ Known /\ ~failed
    /\ gone \subseteq Peers /\ fDisconnect \subseteq nodes /\ stalling \subseteq nodes

\* MarkBlockAsReceived clears at most one stalling mark.
LEMMA ReceivedStalling ==
    ASSUME Inv, NEW b \in Blocks, MarkBlockAsReceived(b)
    PROVE  stalling' \subseteq stalling
BY DEF MarkBlockAsReceived

\* The walk of FindNextBlocksToDownload keeps the invariant: it asks for missing blocks
\* of known headers, no more than there is room for, and the peer it waits for is
\* connected.
LEMMA Fetched ==
    ASSUME Inv, NEW p \in nodes, NEW common \in Blocks, NEW best \in index,
           ChainTx(common),
           UNCHANGED <<nodes, gone, fDisconnect, treeVars>>,
           ProcessBlockAvailability(p),
           FindNextBlocksToDownload(p, common, best, MaxInTransit - nBlocksInFlight[p])
    PROVE  Inv'
<1> DEFINE count == MaxInTransit - nBlocksInFlight[p]
           S == Lowest(ToDownload(common, best), count)
           s == Staller(p, S, common, best, count)
<1>1. p \in Peers /\ best \in Blocks /\ count \in Nat /\ nBlocksInFlight[p] \in Nat /\ MaxInTransit \in Nat
  <2>1. p \in Peers /\ best \in Blocks /\ Flight
    BY DEF Inv, Flight, FlightTypes, Tree
  <2> QED
    BY <2>1, Room
<1>2. /\ lastCommon' = [lastCommon EXCEPT ![p] = CommonAfter(S, common, best, count)]
      /\ MarkBlocksAsInFlight(p, S) /\ partial' = partial
      /\ IF nBlocksInFlight[p] + Cardinality(S) = 0
         THEN stalling' = stalling \cup s /\ failed' = (failed \/ ~(s \subseteq nodes))
         ELSE UNCHANGED <<stalling, failed>>
  BY DEF FindNextBlocksToDownload
<1>3. ToDownload(common, best) \in SUBSET Ancestors[best] /\ \A b \in ToDownload(common, best) : ~InFlight(b)
  BY DEF ToDownload, Walk, Missing
<1>4. /\ S \subseteq ToDownload(common, best)
      /\ Cardinality(S) \in Nat /\ Cardinality(S) <= count
  BY <1>1, <1>3, LowestFew
<1>5. s \subseteq nodes
  <2>1. ASSUME NEW q \in s PROVE \E b \in Ancestors[best] : InFlight(b) /\ q = mapBlocksInFlight[b]
    BY DEF Staller, Passed, Walk
  <2>2. ASSUME NEW b \in Blocks, InFlight(b) PROVE mapBlocksInFlight[b] \in nodes
    BY <2>2 DEF InFlight, Inv, Flight, FlightTypes, RecordsAgree
  <2> HIDE DEF s
  <2> QED
    BY <1>1, <2>1, <2>2, OnBranch
<1> HIDE DEF S, s
<1>6. index' = index /\ have' = have /\ Tree'
  BY DEF treeVars, Inv, Tree, ChainTx
<1>7. Flight'
  <2>1. Ancestors[best] \subseteq index /\ Ancestors[best] \subseteq Blocks
    BY <1>1, BranchFacts DEF Inv, Tree
  <2>2. S \in SUBSET Blocks /\ S \subseteq index' /\ \A b \in S : ~InFlight(b)
    BY <1>3, <1>4, <1>6, <2>1
  <2>3. nBlocksInFlight[p] + Cardinality(S) <= MaxInTransit
    BY <1>1, <1>4
  <2>4. Flight /\ partial' \in [Blocks -> {"no", "open", "filled"}] /\ nodes' = nodes
    BY <1>2 DEF Inv, Flight, FlightTypes
  <2> QED
    BY <1>2, <1>6, <2>2, <2>3, <2>4, MarkedInFlight
<1>8. Known'
  <2>1. CommonAfter(S, common, best, count) \in Blocks /\ ChainTx(CommonAfter(S, common, best, count))
    BY <1>1, CommonAfterStored
  <2>2. /\ BestAfter(p, index) \in index \cup {None}
        /\ UnknownAfter(p, index) \in Blocks \cup {None}
    BY <1>1, BestAfterKnown DEF Inv, Tree
  <2> HIDE DEF count
  <2> QED
    BY <1>1, <1>2, <1>6, <2>1, <2>2
    DEF Inv, Tree, Known, ProcessBlockAvailability, LastCommonIsStored, ChainTx
<1>9. ~failed' /\ stalling' \subseteq nodes
  <2>1. CASE nBlocksInFlight[p] + Cardinality(S) = 0
    <3>1. ~failed'
      BY <1>2, <1>5, <2>1 DEF Inv
    <3> QED
      BY <1>2, <1>5, <2>1, <3>1 DEF Inv
  <2>2. CASE nBlocksInFlight[p] + Cardinality(S) # 0
    BY <1>2, <2>2 DEF Inv
  <2> QED
    BY <2>1, <2>2
<1> QED
  BY <1>6, <1>7, <1>8, <1>9 DEF Inv

LEMMA SendGetDataKeeps ==
    ASSUME Inv, NEW p \in Peers, SendGetData(p)
    PROVE  Inv'
<1> DEFINE best == BestAfter(p, index)
           common == LastCommonAncestor(StartCommon(lastCommon[p], best), best)
<1>1. /\ p \in nodes
      /\ UNCHANGED <<nodes, gone, fDisconnect, treeVars>>
      /\ ProcessBlockAvailability(p)
  BY DEF SendGetData, Live
<1>2. /\ best \in index \cup {None}
      /\ UnknownAfter(p, index) \in Blocks \cup {None}
      /\ index \subseteq Blocks
  BY BestAfterKnown DEF Inv, Tree
<1>3. index' = index /\ have' = have /\ Tree'
  BY <1>1 DEF treeVars, Inv, Tree, ChainTx
<1>4. ASSUME NEW c \in Blocks \cup {None}, c # None => ChainTx(c),
             lastCommon' = [lastCommon EXCEPT ![p] = c], UNCHANGED <<flightVars, stalling, failed>>
      PROVE  Inv'
  <2>1. Known'
    BY <1>1, <1>2, <1>3, <1>4
    DEF Inv, Tree, Known, ProcessBlockAvailability, LastCommonIsStored, ChainTx
  <2>2. Flight'
    BY <1>1, <1>3, <1>4 DEF Inv, Flight, FlightTypes, flightVars, RecordsAgree, WithinLimits, InFlight
  <2> QED
    BY <1>1, <1>3, <1>4, <2>1, <2>2 DEF Inv
<1>5. CASE best = None \/ Work[best] < Work[tip]
  <2>1. UNCHANGED <<lastCommon, flightVars, stalling, failed>>
    BY <1>5 DEF SendGetData
  <2>2. lastCommon' = [lastCommon EXCEPT ![p] = lastCommon[p]] /\ lastCommon[p] \in Blocks \cup {None}
    BY <2>1 DEF Inv, Known
  <2>3. lastCommon[p] # None => ChainTx(lastCommon[p])
    BY DEF Inv, Known, LastCommonIsStored
  <2> QED
    BY <1>4, <2>1, <2>2, <2>3
<1>6. CASE ~(best = None \/ Work[best] < Work[tip])
  <2>1. common \in Blocks /\ ChainTx(common)
    BY <1>2, <1>6, StartStored DEF Inv
  <2>2. IF common = best
        THEN /\ lastCommon' = [lastCommon EXCEPT ![p] = common]
             /\ UNCHANGED <<flightVars, stalling, failed>>
        ELSE FindNextBlocksToDownload(p, common, best, MaxInTransit - nBlocksInFlight[p])
    BY <1>6 DEF SendGetData
  <2> HIDE DEF common
  <2>3. CASE common = best
    BY <1>4, <2>1, <2>2, <2>3
  <2>4. CASE common # best
    BY <1>1, <1>2, <1>6, <2>1, <2>2, <2>4, Fetched
  <2> QED
    BY <2>3, <2>4
<1> QED
  BY <1>5, <1>6

LEMMA PeersKeep ==
    ASSUME Inv, NEW p \in Peers,
           InitializeNode(p) \/ FinalizeNode(p) \/ StallTimeout(p) \/ DownloadTimeout(p)
    PROVE  Inv'
<1>1. Tree' /\ index' = index /\ have' = have
  BY DEF InitializeNode, FinalizeNode, StallTimeout, DownloadTimeout, treeVars, Inv, Tree, ChainTx
<1>2. CASE InitializeNode(p)
  <2>1. Busy' = Busy
    BY <1>2 DEF InitializeNode, flightVars, Busy, Inv, Flight, FlightTypes, RecordsAgree
  <2>2. Flight'
    BY <1>1, <1>2, <2>1 DEF InitializeNode, flightVars, Busy, Inv, Flight, FlightTypes, RecordsAgree,
       WithinLimits, InFlight
  <2>3. Known'
    BY <1>1, <1>2, KnownGrows DEF InitializeNode, Inv
  <2> QED
    BY <1>1, <1>2, <2>2, <2>3 DEF InitializeNode, Inv
<1>3. CASE FinalizeNode(p)
  <2>1. Flight' /\ ~failed'
    BY <1>3, NodeFinalized DEF Inv
  <2>2. Known'
    BY <1>1, <1>3 DEF FinalizeNode, Inv, Known, LastCommonIsStored, ChainTx
  <2> QED
    BY <1>1, <1>3, <2>1, <2>2 DEF FinalizeNode, Inv
<1>4. CASE StallTimeout(p) \/ DownloadTimeout(p)
  <2>1. /\ fDisconnect' = fDisconnect \cup {p} /\ p \in nodes
        /\ UNCHANGED <<nodes, gone, treeVars, flightVars, knownVars, stalling, failed>>
    BY <1>4 DEF StallTimeout, DownloadTimeout, Live
  <2>2. Flight'
    BY <1>1, <2>1 DEF flightVars, Inv, Flight, FlightTypes, RecordsAgree, WithinLimits, InFlight
  <2>3. Known'
    BY <1>1, <2>1, KnownGrows DEF Inv
  <2> QED
    BY <1>1, <2>1, <2>2, <2>3 DEF Inv
<1> QED
  BY <1>2, <1>3, <1>4

\* Blocks that are stored: a block message, a block of the node's own, a compact block
\* with everything in it, and the rest of a compact block.
LEMMA OwnBlockKeeps ==
    ASSUME Inv, NEW b \in Blocks, OwnBlock(b)
    PROVE  Inv'
<1>1. /\ ProcessNewBlock(b, TRUE)
      /\ UNCHANGED <<nodes, gone, fDisconnect, flightVars, knownVars, stalling, failed>>
  BY DEF OwnBlock
<1>2. Tree' /\ index \subseteq index' /\ have \subseteq have'
  BY <1>1, BlockProcessed DEF Inv
<1>3. Flight'
  BY <1>1, <1>2 DEF flightVars, Inv, Flight, FlightTypes, RecordsAgree, WithinLimits, InFlight
<1>4. Known'
  BY <1>1, <1>2, KnownGrows DEF Inv
<1> QED
  BY <1>1, <1>2, <1>3, <1>4 DEF Inv

LEMMA Arrived ==
    ASSUME Inv, NEW b \in Blocks, MarkBlockAsReceived(b), Tree', Known', index \subseteq index',
           nodes' = nodes, gone' = gone, fDisconnect' \subseteq nodes
    PROVE  Inv'
<1>1. Flight' /\ ~failed'
  BY MarkedReceived DEF Inv
<1>2. stalling' \subseteq stalling
  BY ReceivedStalling
<1> QED
  BY <1>1, <1>2 DEF Inv

LEMMA BlockKeeps ==
    ASSUME Inv, NEW p \in Peers, NEW b \in Blocks, Block(p, b)
    PROVE  Inv'
<1>1. /\ MarkBlockAsReceived(b) /\ nodes' = nodes /\ gone' = gone /\ UNCHANGED knownVars
      /\ fDisconnect' \subseteq nodes
  BY DEF Block, Live, Inv
<1>2. Tree' /\ index \subseteq index' /\ have \subseteq have'
  <2>1. CASE ProcessNewBlock(b, InFlight(b))
    <3>1. \E r \in BOOLEAN : ProcessNewBlock(b, r)
      BY <2>1 DEF ProcessNewBlock, InFlight
    <3> QED
      BY <3>1, BlockProcessed DEF Inv
  <2>2. CASE UNCHANGED treeVars
    BY <2>2 DEF treeVars, Inv, Tree, ChainTx
  <2> QED
    BY <2>1, <2>2 DEF Block
<1>3. Known'
  BY <1>1, <1>2, KnownGrows DEF Inv
<1> QED
  BY <1>1, <1>2, <1>3, Arrived

LEMMA BlockTxnKeeps ==
    ASSUME Inv, NEW p \in Peers, NEW b \in Blocks, BlockTxn(p, b)
    PROVE  Inv'
<1>1. /\ nodes' = nodes /\ gone' = gone /\ UNCHANGED knownVars
      /\ fDisconnect' \subseteq nodes
  BY DEF BlockTxn, Live, Inv
<1>2. Tree' /\ index \subseteq index' /\ have \subseteq have'
  <2>1. CASE ProcessNewBlock(b, TRUE)
    BY <2>1, BlockProcessed DEF Inv
  <2>2. CASE UNCHANGED treeVars
    BY <2>2 DEF treeVars, Inv, Tree, ChainTx
  <2> QED
    BY <2>1, <2>2 DEF BlockTxn
<1>3. Known'
  BY <1>1, <1>2, KnownGrows DEF Inv
<1>4. CASE MarkBlockAsReceived(b)
  BY <1>1, <1>2, <1>3, <1>4, Arrived
<1>5. CASE /\ partial' = [partial EXCEPT ![b] = "filled"]
           /\ UNCHANGED <<mapBlocksInFlight, vBlocksInFlight, nBlocksInFlight,
                          nBlocksInFlightValidHeaders, nPeersWithValidatedDownloads, stalling, failed>>
  <2>1. Flight'
    BY <1>1, <1>2, <1>5 DEF Inv, Flight, FlightTypes, RecordsAgree, WithinLimits, InFlight
  <2> QED
    BY <1>1, <1>2, <1>3, <1>5, <2>1 DEF Inv
<1> QED
  BY <1>4, <1>5 DEF BlockTxn

\* A compact block that connects makes its header known.
LEMMA CmpctKnown ==
    ASSUME Inv, NEW p \in Peers, NEW b \in Blocks, CmpctAccepted(p, b),
           index' = index \cup {b}, have \subseteq have', lastCommon' = lastCommon
    PROVE  Known'
<1>1. UpdateBlockAvailability(p, b, index \cup {b}) /\ index \cup {b} \in SUBSET Blocks
  BY DEF CmpctAccepted, Inv, Tree
<1> QED
  BY <1>1, AvailabilityUpdated DEF Inv

LEMMA CmpctBlockKeeps ==
    ASSUME Inv, NEW p \in Peers, NEW b \in Blocks, CmpctBlock(p, b)
    PROVE  Inv'
<1>1. /\ CmpctAccepted(p, b) /\ CmpctFrom(p, b) /\ p \in nodes /\ Connects(b)
      /\ index' = index \cup {b}
      /\ UNCHANGED <<nodes, gone, fDisconnect, have, invalid, tip, lastCommon, stalling, failed>>
  BY DEF CmpctBlock, CmpctAccepted, Live
<1>2. partial' \in [Blocks -> {"no", "open", "filled"}]
  BY DEF CmpctBlock, Inv, Flight, FlightTypes
<1>3. Tree'
  BY <1>1, Connected DEF Inv, Tree, ChainTx
<1>4. Known'
  BY <1>1, CmpctKnown
<1>5. Flight'
  <2>1. CASE InFlight(b)
    <3>1. UNCHANGED <<mapBlocksInFlight, vBlocksInFlight, nBlocksInFlight,
                      nBlocksInFlightValidHeaders, nPeersWithValidatedDownloads>>
      BY <2>1 DEF CmpctBlock
    <3> QED
      BY <1>1, <1>2, <3>1 DEF Inv, Flight, FlightTypes, RecordsAgree, WithinLimits, InFlight
  <2>2. CASE ~InFlight(b)
    <3>1. MarkBlocksAsInFlight(p, {b}) /\ nBlocksInFlight[p] < MaxInTransit
      BY <1>1, <2>2, TreeAssumption DEF CmpctBlock, CmpctFrom, InFlight
    <3>2. nBlocksInFlight[p] + Cardinality({b}) <= MaxInTransit
      <4>1. Cardinality({b}) = 1
        BY FS_Singleton
      <4>2. nBlocksInFlight[p] \in Nat /\ MaxInTransit \in Nat
        BY Room DEF Inv
      <4> QED
        BY <3>1, <4>1, <4>2
    <3>3. {b} \in SUBSET Blocks /\ \A c \in {b} : ~InFlight(c)
      BY <2>2
    <3>4. {b} \subseteq index' /\ index \subseteq index' /\ nodes' = nodes /\ Flight
      BY <1>1 DEF Inv
    <3> QED
      BY <1>1, <1>2, <3>1, <3>2, <3>3, <3>4, MarkedInFlight
  <2> QED
    BY <2>1, <2>2
<1> QED
  BY <1>1, <1>3, <1>4, <1>5 DEF Inv

LEMMA CmpctDoneKeeps ==
    ASSUME Inv, NEW p \in Peers, NEW b \in Blocks, CmpctDone(p, b)
    PROVE  Inv'
<1>1. /\ CmpctAccepted(p, b) /\ p \in nodes /\ Connects(b) /\ Sound(b)
      /\ nodes' = nodes /\ gone' = gone /\ lastCommon' = lastCommon
      /\ fDisconnect' \subseteq nodes
  BY DEF CmpctDone, CmpctAccepted, Live, Inv
<1>2. Tree' /\ index' = index \cup {b} /\ have \subseteq have'
  <2>1. CASE ProcessNewBlock(b, TRUE)
    <3>1. index' = index \cup {b}
      BY <1>1, <2>1 DEF ProcessNewBlock
    <3> QED
      BY <2>1, <3>1, BlockProcessed DEF Inv
  <2>2. CASE index' = index \cup {b} /\ UNCHANGED <<have, invalid, tip>>
    BY <1>1, <2>2, Connected DEF Inv, Tree, ChainTx
  <2> QED
    BY <2>1, <2>2 DEF CmpctDone
<1>3. Known'
  BY <1>1, <1>2, CmpctKnown
<1>4. CASE InFlight(b)
  BY <1>1, <1>2, <1>3, <1>4, Arrived DEF CmpctDone
<1>5. CASE ~InFlight(b)
  <2>1. stalling' = stalling \ {p} /\ UNCHANGED <<flightVars, failed>>
    BY <1>5 DEF CmpctDone
  <2>2. Flight'
    BY <1>1, <1>2, <2>1 DEF flightVars, Inv, Flight, FlightTypes, RecordsAgree, WithinLimits, InFlight
  <2> QED
    BY <1>1, <1>2, <1>3, <2>1, <2>2 DEF Inv
<1> QED
  BY <1>4, <1>5

LEMMA CmpctOptimisticKeeps ==
    ASSUME Inv, NEW p \in Peers, NEW b \in Blocks, CmpctOptimistic(p, b)
    PROVE  Inv'
<1>1. /\ CmpctAccepted(p, b) /\ Connects(b) /\ Sound(b) /\ ProcessNewBlock(b, TRUE)
      /\ UNCHANGED <<nodes, gone, fDisconnect, lastCommon>>
  BY DEF CmpctOptimistic, CmpctAccepted
<1>2. Tree' /\ index' = index \cup {b} /\ have \subseteq have'
  <2>1. index' = index \cup {b}
    BY <1>1 DEF ProcessNewBlock
  <2> QED
    BY <1>1, <2>1, BlockProcessed DEF Inv
<1>3. Known'
  BY <1>1, <1>2, CmpctKnown
<1>4. CASE MarkBlockAsReceived(b)
  BY <1>1, <1>2, <1>3, <1>4, Arrived DEF Inv
<1>5. CASE UNCHANGED <<flightVars, stalling, failed>>
  <2>1. Flight'
    BY <1>1, <1>2, <1>5 DEF flightVars, Inv, Flight, FlightTypes, RecordsAgree, WithinLimits, InFlight
  <2> QED
    BY <1>1, <1>2, <1>3, <1>5, <2>1 DEF Inv
<1> QED
  BY <1>4, <1>5 DEF CmpctOptimistic

LEMMA AnnounceKeeps ==
    ASSUME Inv, NEW p \in Peers, NEW b \in Blocks, Announce(p, b)
    PROVE  Inv'
<1>1. /\ UpdateBlockAvailability(p, b, index)
      /\ UNCHANGED <<nodes, gone, fDisconnect, treeVars, flightVars, lastCommon, stalling, failed>>
  BY DEF Announce
<1>2. Tree' /\ index' = index /\ have' = have /\ index \in SUBSET Blocks
  BY <1>1 DEF treeVars, Inv, Tree, ChainTx
<1>3. Known'
  BY <1>1, <1>2, AvailabilityUpdated DEF Inv
<1>4. Flight'
  BY <1>1, <1>2 DEF flightVars, Inv, Flight, FlightTypes, RecordsAgree, WithinLimits, InFlight
<1> QED
  BY <1>1, <1>2, <1>3, <1>4 DEF Inv

LEMMA HeadersKeeps ==
    ASSUME Inv, NEW p \in Peers, NEW b \in Blocks, Headers(p, b)
    PROVE  Inv'
<1> DEFINE idx == index \cup Ancestors[b]
           S == Lowest(ToFetch(b), MaxInTransit - nBlocksInFlight[p])
<1>1. /\ p \in nodes /\ index' = idx /\ UpdateBlockAvailability(p, b, idx)
      /\ UNCHANGED <<nodes, gone, fDisconnect, have, invalid, tip, lastCommon, stalling, failed>>
  BY DEF Headers, Live
<1>2. Ancestors[b] \subseteq Blocks /\ \A c \in Ancestors[b] : Ancestors[c] \subseteq Ancestors[b]
  BY BranchFacts, OnBranch
<1>3. Tree' /\ idx \in SUBSET Blocks
  BY <1>1, <1>2 DEF Inv, Tree, ChainTx
<1>4. Known'
  <2>1. index \subseteq idx /\ idx \subseteq index' /\ have \subseteq have' /\ lastCommon' = lastCommon
    BY <1>1
  <2> HIDE DEF idx
  <2> QED
    BY <1>1, <1>3, <2>1, AvailabilityUpdated DEF Inv
<1>5. CASE UNCHANGED flightVars
  <2>1. Flight'
    BY <1>1, <1>5 DEF flightVars, Inv, Flight, FlightTypes, RecordsAgree, WithinLimits, InFlight
  <2> QED
    BY <1>1, <1>3, <1>4, <2>1 DEF Inv
<1>6. CASE MarkBlocksAsInFlight(p, S) /\ UNCHANGED partial
  <2>1. /\ MaxInTransit - nBlocksInFlight[p] \in Nat /\ MaxInTransit \in Nat /\ nBlocksInFlight[p] \in Nat
    BY Room DEF Inv
  <2>2. ToFetch(b) \in SUBSET Ancestors[b] /\ \A c \in ToFetch(b) : ~InFlight(c)
    BY DEF ToFetch
  <2>3. S \subseteq ToFetch(b) /\ Cardinality(S) \in Nat /\ Cardinality(S) <= MaxInTransit - nBlocksInFlight[p]
    BY <2>1, <2>2, LowestFew
  <2> HIDE DEF S
  <2>4. /\ S \in SUBSET Blocks /\ S \subseteq index' /\ \A c \in S : ~InFlight(c)
        /\ nBlocksInFlight[p] + Cardinality(S) <= MaxInTransit
    <3>1. nBlocksInFlight[p] + Cardinality(S) <= MaxInTransit
      BY <2>1, <2>3
    <3>2. S \subseteq Ancestors[b] /\ \A c \in S : ~InFlight(c)
      BY <2>2, <2>3
    <3> QED
      BY <1>1, <1>2, <3>1, <3>2
  <2>5. /\ Flight /\ partial' \in [Blocks -> {"no", "open", "filled"}]
        /\ index \subseteq index' /\ nodes' = nodes
    BY <1>1, <1>6 DEF Inv, Flight, FlightTypes
  <2>6. Flight'
    BY <1>1, <1>6, <2>4, <2>5, MarkedInFlight
  <2> QED
    BY <1>1, <1>3, <1>4, <2>6 DEF Inv
<1> QED
  BY <1>5, <1>6 DEF Headers

(***************************************************************************)
(* The theorems.                                                           *)
(***************************************************************************)
LEMMA InitInv == Init => Inv
<1> SUFFICES ASSUME Init PROVE Inv
  OBVIOUS
<1>1. Genesis \in Blocks /\ Len(Path[Genesis]) = 1
  <2>1. \E b \in Blocks : Len(Path[b]) = 1
    BY TreeAssumption
  <2> QED
    BY <2>1 DEF Genesis
<1>2. Ancestors[Genesis] = {Genesis}
  <2>1. Path[Genesis][1] = Genesis
    <3>1. Path[Genesis][Len(Path[Genesis])] = Genesis
      BY <1>1, TreeAssumption
    <3> QED
      BY <1>1, <3>1
  <2>2. Ancestors[Genesis] = {Path[Genesis][i] : i \in 1..1}
    BY <1>1 DEF Ancestors
  <2> QED
    BY <2>1, <2>2
<1>3. Tree
  BY <1>1, <1>2 DEF Init, Tree, ChainTx
<1>4. RecordsAgree
  <2>1. {p \in nodes : vBlocksInFlight[p] # {}} = {}
    BY DEF Init
  <2> QED
    BY <2>1, FS_EmptySet, TreeAssumption DEF Init, RecordsAgree
<1>5. Flight
  BY <1>4, Bounds DEF Init, Flight, FlightTypes, WithinLimits, InFlight
<1>6. Known
  BY DEF Init, Known, LastCommonIsStored
<1> QED
  BY <1>3, <1>5, <1>6 DEF Init, Inv

LEMMA NextInv == Inv /\ [Next]_vars => Inv'
<1> SUFFICES ASSUME Inv, [Next]_vars PROVE Inv'
  OBVIOUS
<1>1. CASE UNCHANGED vars
  <2>1. Flight'
    BY <1>1 DEF vars, Inv, Flight, FlightTypes, RecordsAgree, WithinLimits, InFlight
  <2> QED
    BY <1>1, <2>1 DEF vars, Inv, Tree, Known, ChainTx, LastCommonIsStored
<1>2. ASSUME NEW p \in Peers, InitializeNode(p) \/ FinalizeNode(p) \/ StallTimeout(p) \/ DownloadTimeout(p)
      PROVE  Inv'
  BY <1>2, PeersKeep
<1>3. ASSUME NEW p \in Peers, SendGetData(p) PROVE Inv'
  BY <1>3, SendGetDataKeeps
<1>4. ASSUME NEW b \in Blocks, OwnBlock(b) PROVE Inv'
  BY <1>4, OwnBlockKeeps
<1>5. ASSUME NEW p \in Peers, NEW b \in Blocks, Announce(p, b) \/ Headers(p, b) PROVE Inv'
  BY <1>5, AnnounceKeeps, HeadersKeeps
<1>6. ASSUME NEW p \in Peers, NEW b \in Blocks, Block(p, b) \/ BlockTxn(p, b) PROVE Inv'
  BY <1>6, BlockKeeps, BlockTxnKeeps
<1>7. ASSUME NEW p \in Peers, NEW b \in Blocks, CmpctBlock(p, b) \/ CmpctDone(p, b) \/ CmpctOptimistic(p, b)
      PROVE  Inv'
  BY <1>7, CmpctBlockKeeps, CmpctDoneKeeps, CmpctOptimisticKeeps
<1> QED
  BY <1>1, <1>2, <1>3, <1>4, <1>5, <1>6, <1>7 DEF Next

LEMMA InvAlways == Spec => []Inv
BY InitInv, NextInv, PTL DEF Spec

\* The map of blocks in flight, the lists of the peers and the three counters agree at
\* every moment, for any number of peers.
THEOREM RecordsAlwaysAgree == Spec => []RecordsAgree
<1>1. Inv => RecordsAgree
  BY DEF Inv, Flight
<1> QED
  BY <1>1, InvAlways, PTL

\* The assertions of FinalizeNode hold whenever a peer goes, and State() finds every
\* peer that blocks are in flight from.
THEOREM NoAssertEverFails == Spec => []NoAssertFails
<1>1. Inv => NoAssertFails
  BY DEF Inv, NoAssertFails
<1> QED
  BY <1>1, InvAlways, PTL

\* MAX_BLOCKS_IN_TRANSIT_PER_PEER bounds what is in flight from a peer, whichever of
\* the three ways of asking is used.
THEOREM LimitsAlwaysHold == Spec => []WithinLimits
<1>1. Inv => WithinLimits
  BY DEF Inv, Flight
<1> QED
  BY <1>1, InvAlways, PTL

\* The last block in common with a peer is stored with all its ancestors.
THEOREM LastCommonAlwaysStored == Spec => []LastCommonIsStored
<1>1. Inv => LastCommonIsStored
  BY DEF Inv, Known
<1> QED
  BY <1>1, InvAlways, PTL
=============================================================================
