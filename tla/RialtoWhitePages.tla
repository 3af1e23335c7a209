-------------------------- MODULE RialtoWhitePages --------------------------
(***************************************************************************)
(* The White Pages of Rialto: the databases that map nicknames to public   *)
(* keys, which ConnectTip and DisconnectTip of validation.cpp keep in step *)
(* with the active chain.                                                  *)
(*                                                                         *)
(* The databases are written at once, nick by nick, and outlive a crash of *)
(* the process.  The coins, and with them the tip of the next start, are   *)
(* what the last flush wrote.  A step is one write.  Which block is        *)
(* connected or disconnected next is for ChainState to say: here the tip   *)
(* may move along the tree of blocks in any way.                           *)
(***************************************************************************)
EXTENDS Naturals, Sequences

CONSTANTS
    Blocks, Genesis, NoBlock,
    Parent,
    Height,
    Ancestors,      \* Ancestors[b], with b
    Enabled,        \* blocks b with IsRialtoEnabled(b): the deployment is active
                    \* in the block after b
    Registrations,  \* the nick creation transactions of a block, in order
    Nicks, Keys, NoKey,
    OwnKeys,        \* keys of the wallet
    MaxCrashes

ASSUME TreeAssumption ==
    /\ Genesis \in Blocks \ Enabled /\ NoBlock \notin Blocks
    /\ Parent \in [Blocks \ {Genesis} -> Blocks] /\ Height \in [Blocks -> Nat]
    /\ Ancestors \in [Blocks -> SUBSET Blocks] /\ Ancestors[Genesis] = {Genesis}
    /\ \A b \in Blocks \ {Genesis} :
          Height[b] = Height[Parent[b]] + 1 /\ Ancestors[b] = Ancestors[Parent[b]] \cup {b}
    /\ Enabled \subseteq Blocks
    /\ \A b \in Blocks : \A x \in Ancestors[b] :
          /\ Ancestors[x] \subseteq Ancestors[b] /\ (x = b \/ Height[x] < Height[b])
          /\ x \in Enabled => b \in Enabled

ASSUME NickAssumption ==
    /\ Registrations \in [Blocks -> Seq([nick : Nicks, key : Keys])]
    /\ Registrations[Genesis] = <<>>
    /\ NoKey \notin Keys /\ OwnKeys \subseteq Keys
    /\ MaxCrashes \in Nat

VARIABLES
    tip,          \* chainActive.Tip()
    coins,        \* best block of the coins in memory
    disk,         \* best block of the coins on disk
    whitepages,   \* pwhitepages
    mynicks,      \* pmynicks
    locked,       \* the wallet is locked
    pc,           \* the step ConnectTip or DisconnectTip is at
    left,         \* registrations it has still to go through
    mode,         \* what rialtorebuildwhitepages does
    replayed,     \* the tip it started from
    inStep,       \* the White Pages followed the chain from a fresh start on
    crashes

chainVars == <<tip, coins, disk>>
rebuildVars == <<mode, replayed, inStep>>
vars == <<chainVars, whitepages, mynicks, locked, pc, left, rebuildVars, crashes>>

\* The databases are new: with the chain, or with an upgrade that brought Rialto.
Init ==
    /\ tip \in Blocks
    /\ coins = tip /\ disk = tip
    /\ whitepages = [n \in Nicks |-> NoKey] /\ mynicks = [n \in Nicks |-> NoKey]
    /\ locked = FALSE /\ pc = "idle" /\ left = <<>>
    /\ mode = "no" /\ replayed = NoBlock /\ inStep = (tip = Genesis) /\ crashes = 0
-----------------------------------------------------------------------------
(* ConnectTip *)

\* The block is connected to the coins, which FlushStateToDisk may write.
ConnectBlock(b) ==
    /\ pc = "idle" /\ mode # "down" /\ b # Genesis /\ Parent[b] = tip
    /\ coins' = b /\ disk' \in {disk, b}
    /\ pc' = "connect" /\ left' = IF b \in Enabled THEN Registrations[b] ELSE <<>>
    /\ mode' = IF mode = "done" THEN "no" ELSE mode
    /\ UNCHANGED <<tip, whitepages, mynicks, locked, replayed, inStep, crashes>>

RegisterAlways ==
    /\ pc = "connect" /\ left # <<>>
    /\ whitepages' = [whitepages EXCEPT ![Head(left).nick] = Head(left).key]
    /\ pc' = "connectLocal"
    /\ UNCHANGED <<chainVars, mynicks, locked, left, rebuildVars, crashes>>

\* A nick that exists keeps its key.
RegisterNick ==
    /\ pc = "connect" /\ left # <<>>
    /\ IF whitepages[Head(left).nick] # NoKey
       THEN left' = Tail(left) /\ UNCHANGED <<whitepages, pc>>
       ELSE /\ whitepages' = [whitepages EXCEPT ![Head(left).nick] = Head(left).key]
            /\ pc' = "connectLocal" /\ UNCHANGED left
    /\ UNCHANGED <<chainVars, mynicks, locked, rebuildVars, crashes>>

\* A nick of ours is noted in the local White Pages, if the wallet can tell.
RegisterOwn ==
    /\ pc = "connectLocal"
    /\ mynicks' = IF ~locked /\ Head(left).key \in OwnKeys
                  THEN [mynicks EXCEPT ![Head(left).nick] = Head(left).key] ELSE mynicks
    /\ pc' = "connect" /\ left' = Tail(left)
    /\ UNCHANGED <<chainVars, whitepages, locked, rebuildVars, crashes>>

Connected ==
    /\ pc = "connect" /\ left = <<>>
    /\ tip' = coins /\ pc' = "idle"
    /\ mode' = IF mode = "up" /\ coins = replayed THEN "done" ELSE mode
    /\ UNCHANGED <<coins, disk, whitepages, mynicks, locked, left, replayed, inStep, crashes>>
-----------------------------------------------------------------------------
(* DisconnectTip *)

\* DisconnectBlock undoes the transactions from the last to the first.
LastFirst(q) == [i \in 1..Len(q) |-> q[(Len(q) - i) + 1]]

StartDisconnect ==
    /\ pc = "idle" /\ tip # Genesis
    /\ pc' = "disconnect" /\ left' = LastFirst(Registrations[tip])
    /\ mode' = IF mode = "done" THEN "no" ELSE mode
    /\ UNCHANGED <<chainVars, whitepages, mynicks, locked, replayed, inStep, crashes>>

RemoveNothing ==
    /\ pc = "disconnect" /\ left # <<>>
    /\ pc' = "disconnectLocal"
    /\ UNCHANGED <<chainVars, whitepages, mynicks, locked, left, rebuildVars, crashes>>

RemoveNick ==
    /\ pc = "disconnect" /\ left # <<>>
    /\ whitepages' = [whitepages EXCEPT ![Head(left).nick] = NoKey]
    /\ pc' = "disconnectLocal"
    /\ UNCHANGED <<chainVars, mynicks, locked, left, rebuildVars, crashes>>

RemoveOwn ==
    /\ pc = "disconnectLocal"
    /\ mynicks' = [mynicks EXCEPT ![Head(left).nick] = NoKey]
    /\ pc' = "disconnect" /\ left' = Tail(left)
    /\ UNCHANGED <<chainVars, whitepages, locked, rebuildVars, crashes>>

\* The lowest block of the active chain at which Rialto is enabled.
FirstEnabled(b) ==
    CHOOSE x \in Ancestors[b] \cap Enabled : \A y \in Ancestors[b] \cap Enabled : Height[x] <= Height[y]

\* The block is taken off the coins, which FlushStateToDisk may write.
Disconnected ==
    /\ pc = "disconnect" /\ left = <<>>
    /\ tip' = Parent[tip] /\ coins' = Parent[tip] /\ disk' \in {disk, Parent[tip]}
    /\ pc' = "idle"
    /\ mode' = IF mode = "down" /\ Parent[tip] = FirstEnabled(replayed) THEN "up" ELSE mode
    /\ UNCHANGED <<whitepages, mynicks, locked, left, replayed, inStep, crashes>>
-----------------------------------------------------------------------------
FlushStateToDisk ==
    /\ pc = "idle" /\ disk' = coins
    /\ UNCHANGED <<tip, coins, whitepages, mynicks, locked, pc, left, rebuildVars, crashes>>

LockOrUnlock ==
    /\ locked' = ~locked
    /\ UNCHANGED <<chainVars, whitepages, mynicks, pc, left, rebuildVars, crashes>>

\* The process ends, and LoadChainTip starts from the coins on disk.
Crash ==
    /\ crashes < MaxCrashes /\ crashes' = crashes + 1
    /\ tip' = disk /\ coins' = disk
    /\ pc' = "idle" /\ left' = <<>> /\ mode' = "no" /\ replayed' = NoBlock
    /\ inStep' = FALSE
    /\ UNCHANGED <<disk, whitepages, mynicks, locked>>

\* rialtorebuildwhitepages takes chainActive[activationHeight], the block after the
\* first at which Rialto is enabled, off the chain with all above it, and lets
\* ActivateBestChain connect it again.
Rebuild ==
    /\ pc = "idle" /\ mode \in {"no", "done"} /\ tip \in Enabled /\ tip # FirstEnabled(tip)
    /\ mode' = "down" /\ replayed' = tip
    /\ UNCHANGED <<chainVars, whitepages, mynicks, locked, pc, left, inStep, crashes>>

\* With the tip at that first block chainActive[activationHeight] is null, and the
\* node goes down reading it.
RebuildTooEarly ==
    /\ pc = "idle" /\ tip \in Enabled /\ tip = FirstEnabled(tip)
    /\ Crash

Next ==
    \/ \E b \in Blocks : ConnectBlock(b)
    \/ RegisterNick \/ RegisterOwn \/ Connected
    \/ StartDisconnect \/ RemoveNick \/ RemoveOwn \/ Disconnected
    \/ FlushStateToDisk \/ LockOrUnlock \/ Crash \/ Rebuild \/ RebuildTooEarly

Spec == Init /\ [][Next]_vars
-----------------------------------------------------------------------------
\* The key the active chain gives n at block b: that of its first registration.
Registers(b, n) == \E i \in DOMAIN Registrations[b] : Registrations[b][i].nick = n
Registering(b, n) == {x \in Ancestors[b] \cap Enabled : Registers(x, n)}
FirstIn(r, n) == CHOOSE i \in DOMAIN r : r[i].nick = n /\ \A j \in 1..(i - 1) : r[j].nick # n
KeyAt(b, n) ==
    LET where == Registering(b, n)
        r == Registrations[CHOOSE x \in where : \A y \in where : Height[x] <= Height[y]]
    IN  IF where = {} THEN NoKey ELSE r[FirstIn(r, n)].key

\* No branch registers a nick in two blocks in which registrations count.
RegisteredOnce ==
    \A b \in Blocks, n \in Nicks : \A x, y \in Registering(b, n) : x = y

\* The first block of a branch at which Rialto is enabled registers nothing.
NothingInFirst ==
    \A b \in Enabled : Parent[b] \notin Enabled => Registrations[b] = <<>>

TypeOK ==
    /\ {tip, coins, disk} \subseteq Blocks
    /\ coins \in {tip} \cup {b \in Blocks \ {Genesis} : Parent[b] = tip} /\ (pc = "idle" => coins = tip)
    /\ whitepages \in [Nicks -> Keys \cup {NoKey}] /\ mynicks \in [Nicks -> OwnKeys \cup {NoKey}]
    /\ locked \in BOOLEAN /\ inStep \in BOOLEAN /\ crashes \in 0..MaxCrashes
    /\ pc \in {"idle", "connect", "connectLocal", "disconnect", "disconnectLocal"}
    /\ left \in Seq([nick : Nicks, key : Keys])
    /\ mode \in {"no", "down", "up", "done"} /\ replayed \in Blocks \cup {NoBlock}

\* Between two moves of the tip the White Pages of a node that has not crashed hold
\* exactly the nicks that the active chain registers, each with the key of its
\* first registration: ConnectTip and DisconnectTip undo each other.  A nick in the
\* local White Pages has the same key there.
WhitePagesMatchChain ==
    pc = "idle" /\ inStep =>
        \A n \in Nicks : whitepages[n] = KeyAt(tip, n) /\ mynicks[n] \in {NoKey, whitepages[n]}

\* When rialtorebuildwhitepages is back at the tip it started from, every nick of
\* the chain has its key, whatever the White Pages held before.
RebuildRepairs ==
    mode = "done" => \A n \in Nicks : KeyAt(tip, n) # NoKey => whitepages[n] = KeyAt(tip, n)
=============================================================================
