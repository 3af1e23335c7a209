----------------------------- MODULE ChainState -----------------------------
(***************************************************************************)
(* CChainState of validation.cpp: the tree of block headers, the set of    *)
(* candidates for the tip, and the threads that accept blocks, activate    *)
(* the best chain, and invalidate or reconsider blocks for an operator.    *)
(*                                                                         *)
(* An action is what a thread does under one hold of cs_main.              *)
(* ActivateBestChain gives cs_main up after every step and keeps its       *)
(* target, pindexMostWork, in a local variable meanwhile.                  *)
(*                                                                         *)
(* Pruned block files, the limits on unrequested blocks that are far ahead *)
(* or below the minimum chain work, and the markers kept for warnings are  *)
(* left out.  A block is valid or not once and for all: Connects and       *)
(* ContextOk say which checks it passes.                                   *)
(***************************************************************************)
EXTENDS Integers, FiniteSets

CONSTANTS
    Threads,      \* message handler, import and RPC threads
    Blocks, Genesis, NoBlock,
    Parent,       \* Parent[b], for every block but Genesis
    Height,
    Work,         \* nChainWork: the work of the chain that ends in a block
    Ancestors,    \* Ancestors[b], with b
    ContextOk,    \* blocks that pass ContextualCheckBlock
    Connects,     \* blocks that pass ConnectBlock
    Addresses,    \* orders of the blocks in memory the allocator may produce
    Careful,      \* the operator asks for less than the code allows: see CarefulReset,
                  \* InvalidateBlock and PreciousBlock
    MaxCalls,     \* calls of the operator
    MaxRestarts

ASSUME TreeAssumption ==
    /\ IsFiniteSet(Blocks) /\ Genesis \in Blocks /\ NoBlock \notin Blocks
    /\ Parent \in [Blocks \ {Genesis} -> Blocks]
    /\ Height \in [Blocks -> Nat] /\ Work \in [Blocks -> Nat]
    /\ Ancestors \in [Blocks -> SUBSET Blocks] /\ Ancestors[Genesis] = {Genesis}
    /\ \A b \in Blocks \ {Genesis} :
          /\ Height[b] = Height[Parent[b]] + 1 /\ Work[b] > Work[Parent[b]]
          /\ Ancestors[b] = Ancestors[Parent[b]] \cup {b}
    /\ ContextOk \subseteq Blocks /\ Connects \subseteq ContextOk /\ Genesis \in Connects

ASSUME BoundsAssumption ==
    /\ \A a \in Addresses : a \in [Blocks -> Nat] /\ \A b, c \in Blocks : a[b] = a[c] => b = c
    /\ Careful \in BOOLEAN /\ MaxCalls \in Nat /\ MaxRestarts \in Nat

VARIABLES
    index,          \* mapBlockIndex
    data,           \* blocks with BLOCK_HAVE_DATA, which is nTx > 0
    linked,         \* blocks with nChainTx > 0
    scripts,        \* blocks that reached BLOCK_VALID_SCRIPTS
    failedValid,    \* BLOCK_FAILED_VALID
    failedChild,    \* BLOCK_FAILED_CHILD
    failedBlocks,   \* g_failed_blocks
    unlinked,       \* mapBlocksUnlinked: the place of each block that waits among those
                    \* that wait for the same parent
    seq,            \* nSequenceId
    candidates,     \* setBlockIndexCandidates
    tip,            \* chainActive.Tip()
    nBlockSequenceId, nBlockReverseSequenceId, nLastPreciousChainwork,
    address,        \* where the entries of the index are in memory
    activating,     \* threads in ActivateBestChain
    mostWork,       \* mostWork[t]: its pindexMostWork
    aborted,        \* an assert failed
    calls, restarts

statusVars == <<scripts, failedValid, failedChild, failedBlocks>>
sequenceVars == <<nBlockSequenceId, nBlockReverseSequenceId, nLastPreciousChainwork>>
boundVars == <<address, calls, restarts>>
vars == <<index, data, linked, statusVars, unlinked, seq, candidates, tip, sequenceVars,
          activating, mostWork, aborted, boundVars>>
-----------------------------------------------------------------------------
Failed == failedValid \cup failedChild

\* CBlockIndexWorkComparator, for sequence numbers s and addresses m.
WorseAt(s, m, a, b) ==
    \/ Work[a] < Work[b]
    \/ /\ Work[a] = Work[b]
       /\ s[a] > s[b] \/ (s[a] = s[b] /\ m[a] > m[b])

Worse(s, a, b) == WorseAt(s, address, a, b)

PruneTip(c, s, t) == {b \in c : b # t /\ ~Worse(s, b, t)}

\* PruneBlockIndexCandidates with tip t.
Prune(c, s, t) == {b \in c : ~Worse(s, b, t)}

Waiting == DOMAIN unlinked

LinkedAlone(b) == {b}

\* Blocks an arrival of b makes linked, b among them: those that waited in
\* mapBlocksUnlinked for b, for one of those...
LinkedBy(b) ==
    {x \in {b} \cup Waiting : b \in Ancestors[x] /\ Ancestors[x] \ Ancestors[b] \subseteq Waiting}

\* How many of the blocks S that are linked together come before x: the order is
\* breadth-first, siblings as they arrived.
LinkedBefore(S, x) ==
    LET Before(y) ==
            \/ Height[y] < Height[x]
            \/ /\ Height[y] = Height[x]
               /\ \E p \in Ancestors[y] \cap S, q \in Ancestors[x] \cap S :
                     p # q /\ Parent[p] = Parent[q] /\ unlinked[p] < unlinked[q]
    IN  Cardinality({y \in S : Before(y)})

Init ==
    /\ index = {Genesis} /\ data = {Genesis} /\ linked = {Genesis} /\ scripts = {Genesis}
    /\ failedValid = {} /\ failedChild = {} /\ failedBlocks = {} /\ unlinked = <<>>
    /\ seq = [b \in Blocks |-> IF b = Genesis THEN 1 ELSE 0]
    /\ candidates = {Genesis} /\ tip = Genesis
    /\ nBlockSequenceId = 2 /\ nBlockReverseSequenceId = -1 /\ nLastPreciousChainwork = 0
    /\ address \in Addresses
    /\ activating = {} /\ mostWork = [t \in Threads |-> NoBlock]
    /\ aborted = FALSE /\ calls = 0 /\ restarts = 0
-----------------------------------------------------------------------------
(* Headers and blocks *)

\* The walk over g_failed_blocks, unless the parent's scripts were checked.
FailedAncestors(b) ==
    IF Parent[b] \in scripts THEN {} ELSE failedBlocks \cap Ancestors[Parent[b]]

HeaderAccepted(b) ==
    IF b \in index THEN b \notin Failed
    ELSE Parent[b] \in index \ Failed /\ FailedAncestors(b) = {}

\* A header that is refused: known and failed, without a good parent, or below
\* a block of g_failed_blocks, in which case what lies between is marked.
RejectHeader(b) ==
    /\ ~aborted /\ ~HeaderAccepted(b)
    /\ IF b \notin index /\ Parent[b] \in index \ Failed
       THEN \E f \in FailedAncestors(b) :
               /\ aborted' = (f \notin failedValid)
               /\ failedChild' = failedChild \cup (Ancestors[Parent[b]] \ Ancestors[f])
       ELSE UNCHANGED <<aborted, failedChild>>
    /\ UNCHANGED <<index, data, linked, scripts, failedValid, failedBlocks, unlinked, seq,
                   candidates, tip, sequenceVars, activating, mostWork, boundVars>>

\* AcceptBlockHeader and AddToBlockIndex.
AcceptBlockHeader(b) ==
    /\ ~aborted /\ b \notin index /\ HeaderAccepted(b)
    /\ index' = index \cup {b}
    /\ UNCHANGED <<data, linked, statusVars, unlinked, seq, candidates, tip, sequenceVars,
                   activating, mostWork, aborted, boundVars>>

\* ReceivedBlockTransactions: b and what waited for it are numbered and become
\* candidates, or b waits for an ancestor.
ReceivedBlockTransactions(b) ==
    /\ data' = data \cup {b}
    /\ IF Parent[b] \in linked
       THEN LET new == LinkedBy(b)
            IN  /\ linked' = linked \cup new
                /\ seq' = [x \in Blocks |-> IF x \in new THEN nBlockSequenceId + LinkedBefore(new, x)
                                           ELSE seq[x]]
                /\ nBlockSequenceId' = nBlockSequenceId + Cardinality(new)
                /\ candidates' = candidates \cup {x \in new : ~Worse(seq', x, tip)}
                /\ unlinked' = [x \in Waiting \ new |-> unlinked[x]]
       ELSE /\ unlinked' = IF Parent[b] \in Failed THEN unlinked
                           ELSE [x \in Waiting \cup {b} |->
                                    IF x = b THEN Cardinality({y \in Waiting : Parent[y] = Parent[b]})
                                    ELSE unlinked[x]]
            /\ UNCHANGED <<linked, seq, nBlockSequenceId, candidates>>

\* AcceptBlock in ProcessNewBlock, which goes on to ActivateBestChain unless the
\* block failed.  A block that is already there, or was not asked for and has
\* less work than the tip, is passed over.
AcceptBlock(t, b, fRequested) ==
    /\ ~aborted /\ t \notin activating /\ HeaderAccepted(b)
    /\ index' = index \cup {b}
    /\ \/ /\ b \in data \/ (~fRequested /\ Work[b] < Work[tip])
          /\ activating' = activating \cup {t}
          /\ UNCHANGED <<data, linked, failedValid, unlinked, seq, candidates, nBlockSequenceId>>
       \/ /\ b \notin data /\ (fRequested \/ Work[b] >= Work[tip]) /\ b \notin ContextOk
          /\ failedValid' = failedValid \cup {b}
          /\ UNCHANGED <<data, linked, unlinked, seq, candidates, nBlockSequenceId, activating>>
       \/ /\ b \notin data /\ (fRequested \/ Work[b] >= Work[tip]) /\ b \in ContextOk
          /\ ReceivedBlockTransactions(b)
          /\ activating' = activating \cup {t}
          /\ UNCHANGED failedValid
    /\ UNCHANGED <<scripts, failedChild, failedBlocks, tip, nBlockReverseSequenceId,
                   nLastPreciousChainwork, mostWork, aborted, boundVars>>
-----------------------------------------------------------------------------
(* Activation *)

OffChain(b) == Ancestors[b] \ Ancestors[tip]

\* FindMostWorkChain returns the best candidate whose path to the active chain
\* meets no failed block.
Unusable == {c \in candidates : OffChain(c) \cap Failed # {}}
Best(S) == IF S = {} THEN NoBlock ELSE CHOOSE c \in S : \A d \in S \ {c} : Worse(seq, d, c)
FindMostWorkChain == Best(candidates \ Unusable)

\* The better ones it meets on the way are dropped, down to the first failed
\* block, and marked.
Met == {c \in Unusable : FindMostWorkChain = NoBlock \/ Worse(seq, FindMostWorkChain, c)}
FirstFailed(c) ==
    CHOOSE f \in OffChain(c) \cap Failed : \A x \in OffChain(c) \cap Failed : Height[x] <= Height[f]
Marked == UNION {Ancestors[c] \ Ancestors[FirstFailed(c)] : c \in Met}
Dropped == Marked \cup {FirstFailed(c) : c \in Met}

\* Where a step towards m ends: at the first block that does not connect or has
\* more work than the old tip, or at m.  A target on the active chain is itself
\* the fork.
Stops(m) == {m} \cup {x \in OffChain(m) : x \notin Connects \/ Work[x] > Work[tip]}
StepEnd(m) == CHOOSE e \in Stops(m) : \A x \in Stops(m) : Height[e] <= Height[x]

NothingFound(e) == {}

\* InvalidBlockFound, if e does not connect.
InvalidBlockFound(e) == {e} \ Connects

\* ActivateBestChainStep towards m with candidates c: back to the fork and forward
\* to StepEnd.  The thread is done at its target; a block that does not connect
\* makes it look for another.
ActivateBestChainStep(t, m, c) ==
    LET e == StepEnd(m)
        newTip == IF e \in Connects THEN e ELSE Parent[e]
        connected == OffChain(m) \cap Ancestors[newTip]
        pruned == IF connected = {} THEN c ELSE Prune(c, seq, newTip)
    IN  /\ tip' = newTip
        /\ scripts' = scripts \cup (connected \ Failed)
        /\ candidates' = pruned \ InvalidBlockFound(e)
        /\ failedValid' = failedValid \cup InvalidBlockFound(e)
        /\ failedBlocks' = failedBlocks \cup InvalidBlockFound(e)
        /\ aborted' = (connected # {} /\ pruned = {})
        /\ mostWork' = [mostWork EXCEPT ![t] = IF e \in Connects /\ e # m THEN m ELSE NoBlock]
        /\ activating' = IF newTip = m THEN activating \ {t} ELSE activating

\* One turn of ActivateBestChain's loop.
ActivateBestChain(t) ==
    LET find == mostWork[t] = NoBlock
        m == IF find THEN FindMostWorkChain ELSE mostWork[t]
        c == IF find THEN candidates \ Dropped ELSE candidates
    IN  /\ ~aborted /\ t \in activating
        /\ failedChild' = IF find THEN failedChild \cup Marked ELSE failedChild
        /\ IF m \in {NoBlock, tip}
           THEN /\ candidates' = c
                /\ activating' = activating \ {t} /\ mostWork' = [mostWork EXCEPT ![t] = NoBlock]
                /\ UNCHANGED <<scripts, failedValid, failedBlocks, tip, aborted>>
           ELSE ActivateBestChainStep(t, m, c)
        /\ UNCHANGED <<index, data, linked, unlinked, seq, sequenceVars, boundVars>>
-----------------------------------------------------------------------------
(* The operator: invalidateblock, reconsiderblock, preciousblock *)

OperatorCall(t) ==
    /\ ~aborted /\ t \notin activating /\ calls < MaxCalls
    /\ calls' = calls + 1 /\ activating' = activating \cup {t}

NoCandidatesFrom(S, t) == {}

\* The blocks of S that InvalidateBlock makes candidates for the tip t.
CandidatesFrom(S, t) == {x \in S \cap linked : ~Worse(seq, x, t)}

\* The chain is taken back below b, what was above b marked, and every block that
\* may be the new best one made a candidate.  An operator does not invalidate the
\* genesis block, and a careful one only a linked block.
InvalidateBlock(t, b) ==
    LET above == IF b \in Ancestors[tip] THEN Ancestors[tip] \ Ancestors[b] ELSE {}
    IN  /\ OperatorCall(t)
        /\ b \in index \ {Genesis} /\ (Careful => b \in linked)
        /\ tip' = IF b \in Ancestors[tip] THEN Parent[b] ELSE tip
        /\ failedChild' = failedChild \cup above
        /\ failedValid' = failedValid \cup {b}
        /\ failedBlocks' = failedBlocks \cup {b}
        /\ candidates' = (candidates \ (above \cup {b}))
                         \cup CandidatesFrom(index \ (Failed \cup above \cup {b}), tip')
        /\ UNCHANGED <<index, data, linked, scripts, unlinked, seq, sequenceVars, mostWork, aborted,
                       address, restarts>>

\* The blocks whose flags ResetBlockFailureFlags clears as descendants of b, and
\* those of them that become candidates.
Reset(b) == {x \in Failed : b \in Ancestors[x]}
Reconsidered(S) == {x \in S \cap linked : Worse(seq, tip, x)}

\* A careful operator reconsiders a block that no failed one is below, and none
\* above which a block came while its parent was failed and so was not queued.
CarefulReset(b) ==
    /\ (Ancestors[b] \ {b}) \cap Failed = {}
    /\ \A x \in data \ (linked \cup Waiting) : b \notin Ancestors[x]

\* ResetBlockFailureFlags: of b, its descendants and its ancestors.
ResetBlockFailureFlags(t, b) ==
    /\ OperatorCall(t)
    /\ b \in index
    /\ Careful => CarefulReset(b)
    /\ failedValid' = failedValid \ (Reset(b) \cup Ancestors[b])
    /\ failedChild' = failedChild \ (Reset(b) \cup Ancestors[b])
    /\ failedBlocks' = failedBlocks \ Reset(b)
    /\ candidates' = candidates \cup Reconsidered(Reset(b))
    /\ UNCHANGED <<index, data, linked, scripts, unlinked, seq, sequenceVars, tip, mostWork,
                   aborted, address, restarts>>

\* PreciousBlock numbers b before all others with as much work.  The counter starts
\* again when the chain has grown: a careful operator does not ask for the tip when
\* that would give it a worse number than it has.
PreciousBlock(t, b) ==
    LET id == IF Work[tip] > nLastPreciousChainwork THEN -1 ELSE nBlockReverseSequenceId
        usable == b \in linked \ Failed
    IN  /\ OperatorCall(t)
        /\ b \in index /\ Work[b] >= Work[tip] /\ (Careful /\ b = tip => id <= seq[b])
        /\ nLastPreciousChainwork' = Work[tip]
        /\ seq' = [seq EXCEPT ![b] = id] /\ nBlockReverseSequenceId' = id - 1
        /\ candidates' = IF usable THEN Prune(candidates \cup {b}, seq', tip) ELSE candidates \ {b}
        /\ aborted' = (usable /\ candidates' = {})
        /\ UNCHANGED <<index, data, linked, statusVars, unlinked, tip, nBlockSequenceId, mostWork,
                       address, restarts>>
-----------------------------------------------------------------------------
\* A shutdown, which may leave ActivateBestChain early, and the next start:
\* LoadBlockIndex, LoadChainTip, and ActivateBestChain of the import thread.
Restart ==
    LET below == {b \in index \ Failed : Ancestors[b] \cap Failed # {}}
        waiting == {b \in data : b # Genesis /\ ~(Ancestors[Parent[b]] \subseteq data)}
    IN  /\ ~aborted /\ restarts < MaxRestarts /\ restarts' = restarts + 1
        /\ address' \in Addresses
        /\ linked' = {b \in index : Ancestors[b] \subseteq data}
        /\ unlinked' = [x \in waiting |-> Cardinality({y \in waiting : Parent[y] = Parent[x]
                                                                       /\ address'[y] < address'[x]})]
        /\ failedChild' = failedChild \cup below /\ failedBlocks' = {}
        /\ seq' = [b \in Blocks |-> 0]
        /\ nBlockSequenceId' = 1 /\ nBlockReverseSequenceId' = -1 /\ nLastPreciousChainwork' = 0
        /\ candidates' = {b \in linked' \ (Failed \cup below) : ~WorseAt(seq', address', b, tip)}
        /\ aborted' = (candidates' = {})
        /\ \E t \in Threads : activating' = {t}
        /\ mostWork' = [t \in Threads |-> NoBlock]
        /\ UNCHANGED <<index, data, scripts, failedValid, tip, calls>>

Next ==
    \/ \E b \in Blocks \ {Genesis} : AcceptBlockHeader(b) \/ RejectHeader(b)
    \/ \E t \in Threads, b \in Blocks \ {Genesis}, fRequested \in BOOLEAN : AcceptBlock(t, b, fRequested)
    \/ \E t \in Threads, b \in Blocks :
          InvalidateBlock(t, b) \/ ResetBlockFailureFlags(t, b) \/ PreciousBlock(t, b)
    \/ \E t \in Threads : ActivateBestChain(t)
    \/ Restart

Spec == Init /\ [][Next]_vars
-----------------------------------------------------------------------------
TypeOK ==
    /\ data \subseteq index /\ linked \subseteq data /\ scripts \subseteq linked /\ index \subseteq Blocks
    /\ failedValid \subseteq index /\ failedChild \subseteq index /\ failedBlocks \subseteq index
    /\ unlinked \in [Waiting -> Nat] /\ Waiting \subseteq data /\ candidates \subseteq linked /\ tip \in linked
    /\ seq \in [Blocks -> Int] /\ address \in Addresses
    /\ nBlockSequenceId \in Nat /\ nBlockReverseSequenceId \in Int /\ nLastPreciousChainwork \in Nat
    /\ activating \subseteq Threads /\ mostWork \in [Threads -> linked \cup {NoBlock}]
    /\ \A t \in Threads \ activating : mostWork[t] = NoBlock
    /\ aborted \in BOOLEAN /\ calls \in 0..MaxCalls /\ restarts \in 0..MaxRestarts

Idle == activating = {} /\ ~aborted

\* No assert of the modelled code fails: after a connection some candidate is left
\* (PruneBlockIndexCandidates), and every block of g_failed_blocks a header
\* descends from is BLOCK_FAILED_VALID (AcceptBlockHeader).
NoAssertFails == ~aborted

\* The active chain has no failed block, whichever steps led to it; and once every
\* ActivateBestChain has returned, no chain of valid blocks that has arrived, and
\* that the operator did not invalidate, has more work than the active one.
BestChainActive ==
    /\ Ancestors[tip] \cap Failed = {}
    /\ Idle => \A b \in linked : Ancestors[b] \subseteq Connects \ failedValid => Work[b] <= Work[tip]

\* Once activation is over the candidates are the blocks as good as the tip, with
\* all ancestors there, that no ancestor disqualifies; and none that is worse or
\* not linked.
CandidatesComplete ==
    Idle => \A b \in index :
        IF b \in linked /\ ~Worse(seq, b, tip)
        THEN Ancestors[b] \cap failedValid = {} => b \in candidates
        ELSE b \notin candidates

\* A block is linked when its ancestors have all arrived, and waits in
\* mapBlocksUnlinked if one is missing and none is invalid.
LinkedWhenComplete ==
    \A b \in index :
        /\ b \in linked <=> Ancestors[b] \subseteq data
        /\ b \in data \ linked /\ Ancestors[b] \cap failedValid = {} => b \in Waiting
        /\ b \in Waiting => b \in data \ linked

\* Only an invalid block or a descendant of one is marked failed, and the blocks
\* of g_failed_blocks are BLOCK_FAILED_VALID, as AcceptBlockHeader asserts.
FailuresHaveACause ==
    /\ \A b \in Failed : Ancestors[b] \cap failedValid # {}
    /\ failedBlocks \subseteq failedValid

\* What CheckBlockIndex (-checkblockindex) asserts of the block index between calls.
CheckBlockIndex == CandidatesComplete /\ LinkedWhenComplete /\ FailuresHaveACause

\* ActivateBestChain returns: every turn of its loop that is not the last finds
\* another invalid block, or keeps those known and leaves a chain with more work,
\* so with finitely many blocks there are finitely many turns.
ActivationAdvances ==
    [][\A t \in activating \cap activating' :
          ActivateBestChain(t) =>
             \/ failedValid' # failedValid
             \/ Work[tip'] > Work[tip]]_vars
=============================================================================
