---------------------------- MODULE BlockDownload ----------------------------
(***************************************************************************)
(* Block download: which blocks are asked of which peer, the records of it *)
(* that net_processing.cpp keeps in several places, and what happens when  *)
(* blocks, compact blocks, announcements, timeouts and disconnections come *)
(* in any order.                                                           *)
(*                                                                         *)
(* A node id is used for one connection, so a peer that comes back is      *)
(* another member of Peers.  One thread handles all messages, so a message *)
(* is one step even where its handler takes cs_main twice; only blocks of  *)
(* the node's own miners come from elsewhere.  Time is a choice: a timer   *)
(* that is running may run out at any moment.  The model is of a node past *)
(* initial block download that prunes nothing, has no whitelisted peer and *)
(* whose peers all serve witnesses.  A bad block is one that               *)
(* ContextualCheckBlock refuses, and no header builds on it; ChainState    *)
(* has the blocks that fail later, and their descendants.                  *)
(***************************************************************************)
EXTENDS Integers, Sequences, FiniteSets

CONSTANTS
    Peers,         \* node ids
    Honest,        \* peers that answer what they are asked
    Blocks, Path,  \* the tree of headers; Path[b]: the blocks from genesis to b
    Work,          \* Work[b]: nChainWork
    Bad,           \* blocks whose contents are invalid
    MaxInTransit,  \* MAX_BLOCKS_IN_TRANSIT_PER_PEER
    Window,        \* BLOCK_DOWNLOAD_WINDOW
    Announced,     \* the blocks announced by hash alone (a bound)
    Compact,       \* the blocks sent in compact form (a bound)
    None           \* no block, or no peer

Height == [b \in Blocks |-> Len(Path[b]) - 1]
Ancestors == [b \in Blocks |-> {Path[b][i] : i \in 1..Len(Path[b])}]
Genesis == CHOOSE b \in Blocks : Len(Path[b]) = 1

ASSUME TreeAssumption ==
    /\ None \notin Blocks /\ None \notin Peers
    /\ Path \in [Blocks -> Seq(Blocks) \ {<<>>}]
    /\ \A b \in Blocks : Path[b][Len(Path[b])] = b
    /\ \A b \in Blocks : \A i \in 1..Len(Path[b]) : Path[Path[b][i]] = SubSeq(Path[b], 1, i)
    /\ \A b, c \in Blocks : Path[b][1] = Path[c][1]
    /\ \E b \in Blocks : Len(Path[b]) = 1 /\ b \notin Bad

ASSUME DownloadAssumption ==
    /\ IsFiniteSet(Peers) /\ IsFiniteSet(Blocks) /\ Honest \subseteq Peers /\ Bad \subseteq Blocks
    /\ \A b \in Blocks : Ancestors[b] \cap Bad \subseteq {b}
    /\ Announced \subseteq Blocks /\ Compact \subseteq Blocks
    /\ Work \in [Blocks -> Nat]
    /\ MaxInTransit \in Nat /\ Window \in Nat

VARIABLES
    nodes,                        \* keys of mapNodeState
    gone,                         \* ids whose connection is over
    fDisconnect,                  \* peers that are to be disconnected
    index, have, invalid,         \* headers known; BLOCK_HAVE_DATA; BLOCK_FAILED_MASK
    tip,                          \* chainActive.Tip()
    mapBlocksInFlight,            \* per block: the peer it is in flight from
    vBlocksInFlight,              \* per peer: the blocks in flight from it
    partial,                      \* per block: its entry has a partialBlock ("open"), filled or not
    nBlocksInFlight, nBlocksInFlightValidHeaders, nPeersWithValidatedDownloads,
    bestKnown, lastUnknown, lastCommon,  \* per peer: pindexBestKnownBlock, ...
    stalling,                     \* peers with nStallingSince set
    failed                        \* an assertion failed

treeVars    == <<index, have, invalid, tip>>
flightVars  == <<mapBlocksInFlight, vBlocksInFlight, partial, nBlocksInFlight,
                 nBlocksInFlightValidHeaders, nPeersWithValidatedDownloads>>
knownVars   == <<bestKnown, lastUnknown, lastCommon>>
vars == <<nodes, gone, fDisconnect, index, have, invalid, tip, mapBlocksInFlight, vBlocksInFlight,
          partial, nBlocksInFlight, nBlocksInFlightValidHeaders, nPeersWithValidatedDownloads,
          bestKnown, lastUnknown, lastCommon, stalling, failed>>

InFlight(b) == mapBlocksInFlight[b] # None
ChainTx(b) == Ancestors[b] \subseteq have     \* pindex->nChainTx is set
Live(p) == p \in nodes /\ p \notin fDisconnect

(***************************************************************************)
(* The records of what is in flight.                                       *)
(***************************************************************************)

\* A mutated form: the peer's counter is compared before it is counted down.
MarkBlockAsReceivedEarly(b) ==
    LET p == mapBlocksInFlight[b] IN
    IF ~InFlight(b)
    THEN UNCHANGED <<flightVars, stalling, failed>>
    ELSE /\ failed' = (failed \/ p \notin nodes)
         /\ nBlocksInFlightValidHeaders' = [nBlocksInFlightValidHeaders EXCEPT ![p] = @ - 1]
         /\ nPeersWithValidatedDownloads' =
               nPeersWithValidatedDownloads - (IF nBlocksInFlightValidHeaders[p] = 0 THEN 1 ELSE 0)
         /\ vBlocksInFlight' = [vBlocksInFlight EXCEPT ![p] = @ \ {b}]
         /\ nBlocksInFlight' = [nBlocksInFlight EXCEPT ![p] = @ - 1]
         /\ stalling' = stalling \ {p}
         /\ mapBlocksInFlight' = [mapBlocksInFlight EXCEPT ![b] = None]
         /\ partial' = [partial EXCEPT ![b] = "no"]

\* MarkBlockAsReceived, also when the block did not come but is given up.
MarkBlockAsReceived(b) ==
    LET p == mapBlocksInFlight[b] IN
    IF ~InFlight(b)
    THEN UNCHANGED <<flightVars, stalling, failed>>
    ELSE /\ failed' = (failed \/ p \notin nodes)
         /\ nBlocksInFlightValidHeaders' = [nBlocksInFlightValidHeaders EXCEPT ![p] = @ - 1]
         /\ nPeersWithValidatedDownloads' =
               nPeersWithValidatedDownloads - (IF nBlocksInFlightValidHeaders[p] = 1 THEN 1 ELSE 0)
         /\ vBlocksInFlight' = [vBlocksInFlight EXCEPT ![p] = @ \ {b}]
         /\ nBlocksInFlight' = [nBlocksInFlight EXCEPT ![p] = @ - 1]
         /\ stalling' = stalling \ {p}
         /\ mapBlocksInFlight' = [mapBlocksInFlight EXCEPT ![b] = None]
         /\ partial' = [partial EXCEPT ![b] = "no"]

\* A mutated form: a peer counts as downloading only when one block is in flight
\* after the whole batch.
MarkBlocksAsInFlightBatch(p, S) ==
    /\ mapBlocksInFlight' = [b \in Blocks |-> IF b \in S THEN p ELSE mapBlocksInFlight[b]]
    /\ vBlocksInFlight' = [vBlocksInFlight EXCEPT ![p] = @ \cup S]
    /\ nBlocksInFlight' = [nBlocksInFlight EXCEPT ![p] = @ + Cardinality(S)]
    /\ nBlocksInFlightValidHeaders' = [nBlocksInFlightValidHeaders EXCEPT ![p] = @ + Cardinality(S)]
    /\ nPeersWithValidatedDownloads' =
          nPeersWithValidatedDownloads
             + (IF nBlocksInFlightValidHeaders[p] + Cardinality(S) = 1 /\ S # {} THEN 1 ELSE 0)

\* MarkBlockAsInFlight for each block of S in turn.  Every caller has found that
\* none of them is in flight, and passes the header's index.
MarkBlocksAsInFlight(p, S) ==
    /\ mapBlocksInFlight' = [b \in Blocks |-> IF b \in S THEN p ELSE mapBlocksInFlight[b]]
    /\ vBlocksInFlight' = [vBlocksInFlight EXCEPT ![p] = @ \cup S]
    /\ nBlocksInFlight' = [nBlocksInFlight EXCEPT ![p] = @ + Cardinality(S)]
    /\ nBlocksInFlightValidHeaders' = [nBlocksInFlightValidHeaders EXCEPT ![p] = @ + Cardinality(S)]
    /\ nPeersWithValidatedDownloads' =
          nPeersWithValidatedDownloads
             + (IF nBlocksInFlightValidHeaders[p] = 0 /\ S # {} THEN 1 ELSE 0)

(***************************************************************************)
(* What a peer is known to have.  best is the peer's best known block.     *)
(***************************************************************************)
Better(best, b) == IF best = None \/ Work[b] >= Work[best] THEN b ELSE best

\* ProcessBlockAvailability, given the headers known.
Resolved(p, idx) == lastUnknown[p] # None /\ lastUnknown[p] \in idx
BestAfter(p, idx) == IF Resolved(p, idx) THEN Better(bestKnown[p], lastUnknown[p]) ELSE bestKnown[p]
UnknownAfter(p, idx) == IF Resolved(p, idx) THEN None ELSE lastUnknown[p]

ProcessBlockAvailability(p) ==
    /\ bestKnown' = [bestKnown EXCEPT ![p] = BestAfter(p, index)]
    /\ lastUnknown' = [lastUnknown EXCEPT ![p] = UnknownAfter(p, index)]

UpdateBlockAvailability(p, b, idx) ==
    IF b \in idx
    THEN /\ bestKnown' = [bestKnown EXCEPT ![p] = Better(BestAfter(p, idx), b)]
         /\ lastUnknown' = [lastUnknown EXCEPT ![p] = UnknownAfter(p, idx)]
    ELSE /\ bestKnown' = [bestKnown EXCEPT ![p] = BestAfter(p, idx)]
         /\ lastUnknown' = [lastUnknown EXCEPT ![p] = b]

(***************************************************************************)
(* FindNextBlocksToDownload: along the branch to the peer's best known     *)
(* block, from the last block in common, up to one past the window.        *)
(***************************************************************************)
CommonAncestors(a, b) == Ancestors[a] \cap Ancestors[b]
LastCommonAncestor(a, b) ==
    CHOOSE c \in CommonAncestors(a, b) : \A d \in CommonAncestors(a, b) : Height[d] <= Height[c]

\* The first guess is a block of the active chain.
StartCommon(last, best) ==
    IF last # None THEN last
    ELSE Path[tip][1 + (IF Height[best] < Height[tip] THEN Height[best] ELSE Height[tip])]

Have(b) == b \in have \/ b \in Ancestors[tip]
Missing(b) == ~Have(b) /\ ~InFlight(b)

\* The blocks looked at before the walk meets an invalid one.
Walk(common, best) ==
    {b \in Ancestors[best] :
        /\ Height[b] > Height[common] /\ Height[b] <= Height[common] + Window + 1
        /\ \A c \in Ancestors[b] : Height[c] > Height[common] => c \notin invalid}

\* The lowest n of some blocks of one branch.
Lowest(S, n) == {b \in S : Cardinality({c \in S : Height[c] < Height[b]}) < n}

\* The missing ones inside the window.
ToDownload(common, best) ==
    {b \in Walk(common, best) : Missing(b) /\ Height[b] <= Height[common] + Window}

\* Where the walk returns: at the last block wanted when there are count of them,
\* at the missing block past the window, or at the end.
Passed(S, common, best, count) ==
    {b \in Walk(common, best) :
        /\ Cardinality(S) = count => \E c \in S : Height[b] <= Height[c]
        /\ ~(Missing(b) /\ Height[b] > Height[common] + Window)}

\* A mutated form: any stored block moves the last block in common.
CommonAfterAnyStored(S, common, best, count) ==
    LET full == {b \in Passed(S, common, best, count) : Have(b)} IN
    IF full = {} THEN common ELSE CHOOSE b \in full : \A c \in full : Height[c] <= Height[b]

\* pindexLastCommonBlock after the walk.
CommonAfter(S, common, best, count) ==
    LET full == {b \in Passed(S, common, best, count) : Have(b) /\ ChainTx(b)} IN
    IF full = {} THEN common ELSE CHOOSE b \in full : \A c \in full : Height[c] <= Height[b]

\* The peer the window waits for, if nothing can be fetched because of it.
Staller(p, S, common, best, count) ==
    LET busy == {b \in Passed(S, common, best, count) : ~Have(b) /\ InFlight(b)}
        past == {b \in Walk(common, best) : Missing(b) /\ Height[b] > Height[common] + Window}
        first == {b \in busy : \A c \in busy : Height[b] <= Height[c]}
    IN  IF S = {} /\ past # {} THEN {mapBlocksInFlight[b] : b \in first} \ {p} ELSE {}

\* FindNextBlocksToDownload moves the last block in common and picks the blocks S.
FindNextBlocksToDownload(p, common, best, count) ==
    \E S \in {Lowest(ToDownload(common, best), count)} :
        /\ lastCommon' = [lastCommon EXCEPT ![p] = CommonAfter(S, common, best, count)]
        /\ MarkBlocksAsInFlight(p, S)
        /\ UNCHANGED partial
        /\ LET s == Staller(p, S, common, best, count) IN
           IF nBlocksInFlight[p] + Cardinality(S) = 0
           THEN stalling' = stalling \cup s /\ failed' = (failed \/ ~(s \subseteq nodes))
           ELSE UNCHANGED <<stalling, failed>>

\* SendMessages: getdata (blocks).
SendGetData(p) ==
    /\ Live(p) /\ nBlocksInFlight[p] < MaxInTransit
    /\ UNCHANGED <<nodes, gone, fDisconnect, treeVars>>
    /\ ProcessBlockAvailability(p)
    /\ \E best \in {BestAfter(p, index)} :
          IF best = None \/ Work[best] < Work[tip]
          THEN UNCHANGED <<lastCommon, flightVars, stalling, failed>>
          ELSE \E common \in {LastCommonAncestor(StartCommon(lastCommon[p], best), best)} :
                 IF common = best
                 THEN /\ lastCommon' = [lastCommon EXCEPT ![p] = common]
                      /\ UNCHANGED <<flightVars, stalling, failed>>
                 ELSE FindNextBlocksToDownload(p, common, best, MaxInTransit - nBlocksInFlight[p])

\* SendMessages: the peer held up the window, or a block, for too long.
StallTimeout(p) ==
    /\ Live(p) /\ p \in stalling
    /\ fDisconnect' = fDisconnect \cup {p}
    /\ UNCHANGED <<nodes, gone, treeVars, flightVars, knownVars, stalling, failed>>

DownloadTimeout(p) ==
    /\ Live(p) /\ vBlocksInFlight[p] # {}
    /\ fDisconnect' = fDisconnect \cup {p}
    /\ UNCHANGED <<nodes, gone, treeVars, flightVars, knownVars, stalling, failed>>

(***************************************************************************)
(* Connections.                                                            *)
(***************************************************************************)
InitializeNode(p) ==
    /\ p \in Peers \ (nodes \cup gone)
    /\ nodes' = nodes \cup {p}
    /\ UNCHANGED <<gone, fDisconnect, treeVars, flightVars, knownVars, stalling, failed>>

\* A mutated form: the blocks of the peer stay in flight.
FinalizeNodeKeeps(p) ==
    /\ p \in nodes
    /\ nodes' = nodes \ {p} /\ gone' = gone \cup {p} /\ fDisconnect' = fDisconnect \ {p}
    /\ nPeersWithValidatedDownloads' =
          nPeersWithValidatedDownloads - (IF nBlocksInFlightValidHeaders[p] # 0 THEN 1 ELSE 0)
    /\ vBlocksInFlight' = [vBlocksInFlight EXCEPT ![p] = {}]
    /\ nBlocksInFlight' = [nBlocksInFlight EXCEPT ![p] = 0]
    /\ nBlocksInFlightValidHeaders' = [nBlocksInFlightValidHeaders EXCEPT ![p] = 0]
    /\ bestKnown' = [bestKnown EXCEPT ![p] = None]
    /\ lastUnknown' = [lastUnknown EXCEPT ![p] = None]
    /\ lastCommon' = [lastCommon EXCEPT ![p] = None]
    /\ stalling' = stalling \ {p}
    /\ UNCHANGED <<treeVars, mapBlocksInFlight, partial, failed>>

\* A connection ends, by either side; the assertions are those at its end.
FinalizeNode(p) ==
    LET left == nPeersWithValidatedDownloads - (IF nBlocksInFlightValidHeaders[p] # 0 THEN 1 ELSE 0) IN
    /\ p \in nodes
    /\ nodes' = nodes \ {p} /\ gone' = gone \cup {p} /\ fDisconnect' = fDisconnect \ {p}
    /\ mapBlocksInFlight' =
          [b \in Blocks |-> IF b \in vBlocksInFlight[p] THEN None ELSE mapBlocksInFlight[b]]
    /\ partial' = [b \in Blocks |-> IF b \in vBlocksInFlight[p] THEN "no" ELSE partial[b]]
    /\ nPeersWithValidatedDownloads' = left
    /\ vBlocksInFlight' = [vBlocksInFlight EXCEPT ![p] = {}]
    /\ nBlocksInFlight' = [nBlocksInFlight EXCEPT ![p] = 0]
    /\ nBlocksInFlightValidHeaders' = [nBlocksInFlightValidHeaders EXCEPT ![p] = 0]
    /\ bestKnown' = [bestKnown EXCEPT ![p] = None]
    /\ lastUnknown' = [lastUnknown EXCEPT ![p] = None]
    /\ lastCommon' = [lastCommon EXCEPT ![p] = None]
    /\ stalling' = stalling \ {p}
    /\ failed' = (failed \/ left < 0
                   \/ (nodes' = {} /\ (left # 0 \/ \E b \in Blocks : mapBlocksInFlight'[b] # None)))
    /\ UNCHANGED treeVars

(***************************************************************************)
(* Blocks that arrive: ProcessNewBlock.                                    *)
(***************************************************************************)
Parent(b) == Path[b][Len(Path[b]) - 1]
Connects(b) == b \in index \/ (Len(Path[b]) > 1 /\ Parent(b) \in index)
Sound(b) == b \notin invalid

\* ActivateBestChain: the most work among the branches with all their blocks.
NewTips(h) ==
    LET better == {b \in Blocks : Ancestors[b] \subseteq h /\ Sound(b) /\ Work[b] > Work[tip]} IN
    IF better = {} THEN {tip} ELSE {b \in better : \A c \in better : Work[c] <= Work[b]}

\* AcceptBlock: an unrequested block only if it has as much work as the tip.
ProcessNewBlock(b, requested) ==
    IF ~Connects(b) \/ ~Sound(b)
    THEN UNCHANGED treeVars
    ELSE /\ index' = index \cup {b}
         /\ IF b \in have \/ (~requested /\ Work[b] < Work[tip])
            THEN UNCHANGED <<have, invalid, tip>>
            ELSE IF b \in Bad
            THEN invalid' = invalid \cup {b} /\ UNCHANGED <<have, tip>>
            ELSE have' = have \cup {b} /\ tip' \in NewTips(have') /\ UNCHANGED invalid

\* A BLOCK message; one that is not what its header says is refused by CheckBlock,
\* and the peer banned.
Block(p, b) ==
    /\ Live(p)
    /\ MarkBlockAsReceived(b)
    /\ \/ ProcessNewBlock(b, InFlight(b)) /\ UNCHANGED fDisconnect
       \/ p \notin Honest /\ fDisconnect' = fDisconnect \cup {p} /\ UNCHANGED treeVars
    /\ UNCHANGED <<nodes, gone, knownVars>>

\* A block of the node's own: the records of what is in flight are not looked at.
OwnBlock(b) ==
    /\ b \notin have /\ Parent(b) = tip /\ b \notin Bad
    /\ ProcessNewBlock(b, TRUE)
    /\ UNCHANGED <<nodes, gone, fDisconnect, flightVars, knownVars, stalling, failed>>

(***************************************************************************)
(* Announcements.                                                          *)
(***************************************************************************)

\* An INV, or a header that does not connect.
Announce(p, b) ==
    /\ Live(p) /\ b \in Announced
    /\ UpdateBlockAvailability(p, b, index)
    /\ UNCHANGED <<nodes, gone, fDisconnect, treeVars, flightVars, lastCommon, stalling, failed>>

\* Direct fetch: what is needed to switch to b, unless that is a large reorganisation.
ToFetch(b) == {c \in Ancestors[b] \ Ancestors[tip] : c \notin have /\ ~InFlight(c)}
LargeReorg(b) ==
    LET n == Cardinality(ToFetch(b)) IN
    /\ n > MaxInTransit
    /\ ~(n = MaxInTransit + 1 /\ \E c \in ToFetch(b) : Parent(c) \in Ancestors[tip])

\* A mutated form: what is in flight from the peer already is not counted.
HeadersUncounted(p, b) ==
    LET idx == index \cup Ancestors[b] IN
    /\ Live(p) /\ Sound(b)
    /\ index' = idx
    /\ UpdateBlockAvailability(p, b, idx)
    /\ \/ UNCHANGED flightVars
       \/ /\ Work[tip] <= Work[b] /\ ~LargeReorg(b)
          /\ MarkBlocksAsInFlight(p, Lowest(ToFetch(b), MaxInTransit))
          /\ UNCHANGED partial
    /\ UNCHANGED <<nodes, gone, fDisconnect, have, invalid, tip, lastCommon, stalling, failed>>

\* A HEADERS message that connects and ends in b.  Whether the tip is recent
\* enough for direct fetch is left open.
Headers(p, b) ==
    LET idx == index \cup Ancestors[b] IN
    /\ Live(p) /\ Sound(b)
    /\ index' = idx
    /\ UpdateBlockAvailability(p, b, idx)
    /\ \/ UNCHANGED flightVars
       \/ /\ Work[tip] <= Work[b] /\ ~LargeReorg(b)
          /\ MarkBlocksAsInFlight(p, Lowest(ToFetch(b), MaxInTransit - nBlocksInFlight[p]))
          /\ UNCHANGED partial
    /\ UNCHANGED <<nodes, gone, fDisconnect, have, invalid, tip, lastCommon, stalling, failed>>

\* What a CMPCTBLOCK goes through before anything is done about the block.
CmpctAccepted(p, b) ==
    /\ Live(p) /\ b \in Compact /\ Connects(b) /\ Sound(b)
    /\ UpdateBlockAvailability(p, b, index \cup {b})
    /\ b \notin have /\ Work[b] > Work[tip] /\ Height[b] <= Height[tip] + 2
CmpctFrom(p, b) ==
    \/ ~InFlight(b) /\ nBlocksInFlight[p] < MaxInTransit
    \/ mapBlocksInFlight[b] = p /\ partial[b] = "no"

\* Transactions are missing, or short ids collide, at once or when the block is put
\* together: the block stays in flight.
CmpctBlock(p, b) ==
    /\ CmpctAccepted(p, b) /\ CmpctFrom(p, b)
    /\ index' = index \cup {b}
    /\ \E state \in {"open", "filled"} : partial' = [partial EXCEPT ![b] = state]
    /\ IF InFlight(b)
       THEN UNCHANGED <<mapBlocksInFlight, vBlocksInFlight, nBlocksInFlight,
                        nBlocksInFlightValidHeaders, nPeersWithValidatedDownloads>>
       ELSE MarkBlocksAsInFlight(p, {b})
    /\ UNCHANGED <<nodes, gone, fDisconnect, have, invalid, tip, lastCommon, stalling, failed>>

\* The compact block is malformed, or holds everything: marked as in flight and as
\* received in one go.
CmpctDone(p, b) ==
    /\ CmpctAccepted(p, b) /\ CmpctFrom(p, b)
    /\ IF InFlight(b)
       THEN MarkBlockAsReceived(b)
       ELSE stalling' = stalling \ {p} /\ UNCHANGED <<flightVars, failed>>
    /\ \/ ProcessNewBlock(b, TRUE) /\ UNCHANGED fDisconnect
       \/ /\ p \notin Honest
          /\ index' = index \cup {b} /\ fDisconnect' = fDisconnect \cup {p}
          /\ UNCHANGED <<have, invalid, tip>>
    /\ UNCHANGED <<nodes, gone, lastCommon>>

\* The block is in flight from another peer, or this one has too many: it is put
\* together from the mempool if that will do, and only then taken off the records.
CmpctOptimistic(p, b) ==
    /\ CmpctAccepted(p, b) /\ ~CmpctFrom(p, b) /\ mapBlocksInFlight[b] # p
    /\ ProcessNewBlock(b, TRUE)
    /\ IF b \in have' THEN MarkBlockAsReceived(b) ELSE UNCHANGED <<flightVars, stalling, failed>>
    /\ UNCHANGED <<nodes, gone, fDisconnect, lastCommon>>

\* BLOCKTXN for a block this peer is sending in compact form.
BlockTxn(p, b) ==
    /\ Live(p) /\ partial[b] = "open" /\ mapBlocksInFlight[b] = p
    /\ \/ MarkBlockAsReceived(b) /\ ProcessNewBlock(b, TRUE) /\ UNCHANGED fDisconnect
       \/ /\ p \notin Honest                       \* the transactions do not fit the block
          /\ MarkBlockAsReceived(b) /\ fDisconnect' = fDisconnect \cup {p} /\ UNCHANGED treeVars
       \/ /\ partial' = [partial EXCEPT ![b] = "filled"]   \* a collision: ask for the whole block
          /\ UNCHANGED <<fDisconnect, treeVars, mapBlocksInFlight, vBlocksInFlight, nBlocksInFlight,
                         nBlocksInFlightValidHeaders, nPeersWithValidatedDownloads, stalling, failed>>
    /\ UNCHANGED <<nodes, gone, knownVars>>

Init ==
    /\ nodes = {} /\ gone = {} /\ fDisconnect = {}
    /\ index = {Genesis} /\ have = {Genesis} /\ invalid = {} /\ tip = Genesis
    /\ mapBlocksInFlight = [b \in Blocks |-> None]
    /\ vBlocksInFlight = [p \in Peers |-> {}]
    /\ partial = [b \in Blocks |-> "no"]
    /\ nBlocksInFlight = [p \in Peers |-> 0]
    /\ nBlocksInFlightValidHeaders = [p \in Peers |-> 0]
    /\ nPeersWithValidatedDownloads = 0
    /\ bestKnown = [p \in Peers |-> None]
    /\ lastUnknown = [p \in Peers |-> None]
    /\ lastCommon = [p \in Peers |-> None]
    /\ stalling = {} /\ failed = FALSE

Next ==
    \/ \E p \in Peers :
          \/ InitializeNode(p) \/ FinalizeNode(p)
          \/ SendGetData(p) \/ StallTimeout(p) \/ DownloadTimeout(p)
    \/ \E b \in Blocks \ {Genesis} : OwnBlock(b)
    \/ \E p \in Peers, b \in Blocks :
          \/ Announce(p, b) \/ Headers(p, b) \/ Block(p, b)
          \/ CmpctBlock(p, b) \/ CmpctDone(p, b) \/ CmpctOptimistic(p, b) \/ BlockTxn(p, b)

\* The message thread comes round to every peer, a timer that keeps running runs
\* out, a connection marked for disconnection is closed, and an honest peer sends
\* what it was asked for.
Answer(p) == \E b \in vBlocksInFlight[p] : Block(p, b)

Fairness ==
    /\ \A p \in Peers \ Honest :
          WF_vars(DownloadTimeout(p)) /\ WF_vars(p \in fDisconnect /\ FinalizeNode(p))
    /\ \A p \in Honest : WF_vars(SendGetData(p)) /\ WF_vars(Answer(p))

Spec == Init /\ [][Next]_vars /\ Fairness

(***************************************************************************)
(* Properties.                                                             *)
(***************************************************************************)

\* Every variable has its type.
TypeOK ==
    /\ nodes \subseteq Peers /\ gone \subseteq Peers /\ fDisconnect \subseteq nodes
    /\ index \subseteq Blocks /\ have \subseteq Blocks /\ invalid \subseteq Blocks /\ tip \in Blocks
    /\ mapBlocksInFlight \in [Blocks -> Peers \cup {None}]
    /\ vBlocksInFlight \in [Peers -> SUBSET Blocks]
    /\ partial \in [Blocks -> {"no", "open", "filled"}]
    /\ nBlocksInFlight \in [Peers -> Nat]
    /\ nBlocksInFlightValidHeaders \in [Peers -> Nat]
    /\ nPeersWithValidatedDownloads \in Nat
    /\ bestKnown \in [Peers -> Blocks \cup {None}]
    /\ lastUnknown \in [Peers -> Blocks \cup {None}]
    /\ lastCommon \in [Peers -> Blocks \cup {None}]
    /\ stalling \subseteq nodes /\ failed \in BOOLEAN

\* No assertion of FinalizeNode or MarkBlockAsReceived fails, and no state of a
\* peer that is gone is followed.
NoAssertFails == ~failed

\* The four records agree: a block is in flight from a peer exactly when that peer
\* is connected and lists it, no block is listed twice, the two counters of a peer
\* are the length of its list, and the global counter is the number of peers with
\* a download under way.
RecordsAgree ==
    /\ \A p \in Peers, b \in Blocks : b \in vBlocksInFlight[p] <=> mapBlocksInFlight[b] = p
    /\ \A p \in Peers : vBlocksInFlight[p] # {} => p \in nodes
    /\ \A p \in Peers : /\ nBlocksInFlight[p] = Cardinality(vBlocksInFlight[p])
                         /\ nBlocksInFlightValidHeaders[p] = nBlocksInFlight[p]
    /\ nPeersWithValidatedDownloads = Cardinality({p \in nodes : vBlocksInFlight[p] # {}})

\* No more than MAX_BLOCKS_IN_TRANSIT_PER_PEER blocks are in flight from a peer,
\* however requests from headers, compact blocks and the regular fetch mix, and
\* only blocks are whose header is known.
WithinLimits ==
    /\ \A p \in Peers : nBlocksInFlight[p] <= MaxInTransit
    /\ \A b \in Blocks : InFlight(b) => b \in index

\* pindexLastCommonBlock never runs ahead: the block and all below it are stored, so
\* what the walk skips is never needed again.
LastCommonIsStored == \A p \in Peers : lastCommon[p] # None => ChainTx(lastCommon[p])

\* While an honest peer stays connected and its best block stays the best known of
\* it, that block is downloaded or the node finds a chain with more work, whatever
\* other peers promise and do not send.
BestIsDownloaded ==
    \A p \in Honest, b \in Blocks \ (Bad \cup {Genesis}) :
        Live(p) /\ bestKnown[p] = b
            ~> \/ b \in have \/ Work[tip] > Work[b]
               \/ ~Live(p) \/ bestKnown[p] # b
=============================================================================
