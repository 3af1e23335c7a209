----------------------------- MODULE RialtoRelay -----------------------------
(***************************************************************************)
(* Relay of Rialto messages between nodes: announcement, request with its  *)
(* retries, the relay memory at its cap, and the queue of messages for the *)
(* user.                                                                   *)
(*                                                                         *)
(* On each node one thread handles messages and another runs the RPC that  *)
(* sends a message, which announces it before it is in the relay memory.   *)
(* Time is a choice: a retry is due at any moment after the first request, *)
(* and a message may grow too old at any moment.  NOTFOUND is ignored by   *)
(* its receiver and is left out of the channels.  All nodes support Rialto *)
(* and are past initial download; a valid envelope is for one node.  Some  *)
(* messages are followed through the network; of the others only what they *)
(* displace on a node is followed.                                         *)
(***************************************************************************)
EXTENDS Integers, Sequences, FiniteSets, Functions

CONSTANTS
    Nodes, Links,      \* Links: sets of two nodes
    Fragile,           \* links that may be lost and made again
    Messages, Others,  \* messages that are followed, and other ones
    Origin, Recipient, \* per message: who sends it, whom it is for
    MaxRelay,          \* MAX_MESSAGE_RELAY_SIZE
    MaxQueued          \* MAX_QUEUED_MESSAGES

ASSUME RelayAssumption ==
    /\ Links \subseteq {{n, q} : n, q \in Nodes} /\ \A n \in Nodes : {n} \notin Links
    /\ Fragile \subseteq Links
    /\ IsFiniteSet(Messages) /\ Messages \cap Others = {}
    /\ Origin \in [Messages -> Nodes] /\ Recipient \in [Messages \cup Others -> Nodes]
    /\ MaxRelay \in Nat \ {0} /\ MaxQueued \in Nat \ {0}

Pairs == {c \in Nodes \X Nodes : {c[1], c[2]} \in Links}

VARIABLES
    links,                      \* the connections that are up
    chan,                       \* per pair: what is on its way from the first to the second
    rialtoInventoryToSend,      \* per pair: what the first is to announce to the second
    mapAskFor,                  \* per pair: requests waiting, due "now" or "later"
    setAskFor,                  \* per pair: messages the second was, or is to be, asked for
    mapAlreadyAskedFor,         \* per node: its keys
    mapMessageRelay,            \* per node: its keys
    vMessageRelayExpiration,    \* per node: oldest first
    receivedMessageQueue,       \* per node
    rpc,                        \* per message: how far the call that sends it has come
    expired,                    \* messages that are too old
    notFound,                   \* messages some request for which was answered NOTFOUND
    heard, again,               \* <<n, q, m>>: n handled m from q; and did so once more
    fetched, lost               \* followed messages the user has; dropped from a full queue

peerVars  == <<chan, rialtoInventoryToSend, mapAskFor, setAskFor>>
relayVars == <<mapMessageRelay, vMessageRelayExpiration>>
userVars  == <<receivedMessageQueue, fetched, lost>>
heardVars == <<heard, again>>
networkVars ==
    <<links, chan, rialtoInventoryToSend, mapAskFor, setAskFor, mapAlreadyAskedFor,
      mapMessageRelay, vMessageRelayExpiration, receivedMessageQueue, rpc, expired,
      notFound, heard, again, fetched, lost>>

Peers(n) == {q \in Nodes : {n, q} \in links}
Inv(S) == [type |-> "inv", hashes |-> S]
GetData(S) == [type |-> "getdata", hashes |-> S]
Rialto(m) == [type |-> "rialto", hashes |-> {m}]

(***************************************************************************)
(* RelayRialtoMessage.                                                     *)
(***************************************************************************)

\* The first half: every peer but the one it came from is to be told.  The filter
\* that PushInventory asks is never filled.
PushInventory(n, m, others) ==
    rialtoInventoryToSend' =
        [c \in Pairs |-> rialtoInventoryToSend[c]
                            \cup (IF c[1] = n /\ c[2] \in others THEN {m} ELSE {})]

\* Room at the cap: first what is too old, from the front, then the oldest.  The
\* time in the list is later than the one in the envelope.
MadeRoom(n) ==
    LET list == vMessageRelayExpiration[n]
        Swept == {k \in 0..Len(list) : \A i \in 1..k : list[i] \in expired \cup Others}
        Full(k) == Cardinality(mapMessageRelay[n] \ {list[i] : i \in 1..k}) >= MaxRelay
    IN  IF Cardinality(mapMessageRelay[n]) < MaxRelay THEN {0}
        ELSE {IF Full(k) /\ k < Len(list) THEN k + 1 ELSE k : k \in Swept}

\* A mutated form: what is dropped from the map stays in the list.
RelayInsertUnlisted(n, m) ==
    \E k \in MadeRoom(n) :
        LET list == vMessageRelayExpiration[n]
            kept == mapMessageRelay[n] \ {list[i] : i \in 1..k}
        IN  /\ mapMessageRelay' = [mapMessageRelay EXCEPT ![n] = kept \cup {m}]
            /\ vMessageRelayExpiration' =
                  [vMessageRelayExpiration EXCEPT ![n] = IF m \in kept THEN @ ELSE Append(@, m)]

\* The second half, under cs_main.
RelayInsert(n, m) ==
    \E k \in MadeRoom(n) :
        LET list == vMessageRelayExpiration[n]
            dropped == {list[i] : i \in 1..k}
            kept == mapMessageRelay[n] \ dropped
            rest == SubSeq(list, k + 1, Len(list))
        IN  /\ mapMessageRelay' = [mapMessageRelay EXCEPT ![n] = kept \cup {m}]
            /\ vMessageRelayExpiration' =
                  [vMessageRelayExpiration EXCEPT ![n] = IF m \in kept THEN rest ELSE Append(rest, m)]

\* sendmessage, on the RPC thread.
RpcPush(m) ==
    /\ rpc[m] = "new"
    /\ rpc' = [rpc EXCEPT ![m] = "pushed"]
    /\ PushInventory(Origin[m], m, Peers(Origin[m]))
    /\ UNCHANGED <<links, chan, mapAskFor, setAskFor, mapAlreadyAskedFor, relayVars, userVars,
                   expired, notFound, heardVars>>

RpcInsert(m) ==
    /\ rpc[m] = "pushed"
    /\ rpc' = [rpc EXCEPT ![m] = "done"]
    /\ RelayInsert(Origin[m], m)
    /\ UNCHANGED <<links, peerVars, mapAlreadyAskedFor, userVars, expired, notFound, heardVars>>

(***************************************************************************)
(* SendMessages: the inventory, then the requests that are due.            *)
(***************************************************************************)
Waiting(c) == {m \in Messages : mapAskFor[c][m] # "no"}
DueNow(c) == {m \in Messages : mapAskFor[c][m] = "now"}

SendMessages(c, due) ==
    LET told == rialtoInventoryToSend[c]
        asked == due \ mapMessageRelay[c[1]]
    IN  /\ {c[1], c[2]} \in links
        /\ told \cup due # {}
        /\ chan' = [chan EXCEPT ![c] = @ \o (IF told = {} THEN <<>> ELSE <<Inv(told)>>)
                                          \o (IF asked = {} THEN <<>> ELSE <<GetData(asked)>>)]
        /\ rialtoInventoryToSend' = [rialtoInventoryToSend EXCEPT ![c] = {}]
        /\ mapAskFor' = [mapAskFor EXCEPT ![c] = [m \in Messages |-> IF m \in due THEN "no" ELSE @[m]]]
        /\ setAskFor' = [setAskFor EXCEPT ![c] = @ \ (due \ asked)]
        /\ UNCHANGED <<links, mapAlreadyAskedFor, relayVars, userVars, rpc, expired, notFound, heardVars>>

\* A retry is two minutes after the last request.
SendMessagesSome(c) == \E late \in SUBSET (Waiting(c) \ DueNow(c)) : SendMessages(c, DueNow(c) \cup late)
SendMessagesAll(c) == SendMessages(c, Waiting(c))

(***************************************************************************)
(* ProcessMessage, for what the peer at the other end of c has sent.       *)
(***************************************************************************)
Back(c) == <<c[2], c[1]>>
Arrived(c, type) ==
    /\ {c[1], c[2]} \in links
    /\ chan[Back(c)] # <<>> /\ Head(chan[Back(c)]).type = type
Hashes(c) == Head(chan[Back(c)]).hashes

\* A mutated form: no second peer is asked.
AskForOnce(c, S) ==
    LET n == c[1]
        new == S \ (setAskFor[c] \cup mapAlreadyAskedFor[n])
    IN  /\ setAskFor' = [setAskFor EXCEPT ![c] = @ \cup new]
        /\ mapAskFor' = [mapAskFor EXCEPT ![c] = [m \in Messages |-> IF m \in new THEN "now" ELSE @[m]]]
        /\ mapAlreadyAskedFor' = [mapAlreadyAskedFor EXCEPT ![n] = @ \cup new]

\* AskFor for each hash: at once when nobody was asked yet, later otherwise.
AskFor(c, S) ==
    LET n == c[1]
        new == S \ setAskFor[c]
    IN  /\ setAskFor' = [setAskFor EXCEPT ![c] = @ \cup new]
        /\ mapAskFor' = [mapAskFor EXCEPT ![c] =
              [m \in Messages |-> IF m \notin new THEN @[m]
                                  ELSE IF m \in mapAlreadyAskedFor[n] THEN "later" ELSE "now"]]
        /\ mapAlreadyAskedFor' = [mapAlreadyAskedFor EXCEPT ![n] = @ \cup new]

ProcessInv(c) ==
    /\ Arrived(c, "inv")
    /\ chan' = [chan EXCEPT ![Back(c)] = Tail(@)]
    /\ AskFor(c, Hashes(c) \ mapMessageRelay[c[1]])
    /\ UNCHANGED <<links, rialtoInventoryToSend, relayVars, userVars, rpc, expired, notFound, heardVars>>

\* A mutated form: a request for what is not there waits until it is.
ProcessGetDataWaits(c) ==
    LET wanted == Hashes(c)
    IN  /\ Arrived(c, "getdata") /\ wanted \subseteq mapMessageRelay[c[1]]
        /\ UNCHANGED <<links, rialtoInventoryToSend, mapAskFor, setAskFor, mapAlreadyAskedFor,
                       relayVars, userVars, rpc, expired, notFound, heardVars>>
        /\ \E found \in Injection(1..Cardinality(wanted), wanted) :
              chan' = [chan EXCEPT ![Back(c)] = Tail(@), ![c] = @ \o [i \in DOMAIN found |-> Rialto(found[i])]]

ProcessGetData(c) ==
    LET wanted == Hashes(c) \cap mapMessageRelay[c[1]]
    IN  /\ Arrived(c, "getdata")
        /\ notFound' = notFound \cup (Hashes(c) \ mapMessageRelay[c[1]])
        /\ UNCHANGED <<links, rialtoInventoryToSend, mapAskFor, setAskFor, mapAlreadyAskedFor,
                       relayVars, userVars, rpc, expired, heardVars>>
        /\ \E found \in Injection(1..Cardinality(wanted), wanted) :
              chan' = [chan EXCEPT ![Back(c)] = Tail(@), ![c] = @ \o [i \in DOMAIN found |-> Rialto(found[i])]]

\* RialtoDecryptMessage: a message for this node is queued, in place of the oldest
\* one when the queue is full.
Decrypt(n, m) ==
    IF Recipient[m] # n
    THEN UNCHANGED userVars
    ELSE LET queue == receivedMessageQueue[n]
             full == Len(queue) >= MaxQueued
         IN  /\ receivedMessageQueue' =
                   [receivedMessageQueue EXCEPT ![n] = Append(IF full THEN Tail(queue) ELSE queue, m)]
             /\ lost' = IF full THEN lost \cup ({Head(queue)} \cap Messages) ELSE lost
             /\ UNCHANGED fetched

\* A mutated form: the request is forgotten when it is answered, as for transactions.
ProcessRialtoForgets(c) ==
    /\ Arrived(c, "rialto")
    /\ \E m \in Hashes(c) :
          /\ chan' = [chan EXCEPT ![Back(c)] = Tail(@)]
          /\ heard' = heard \cup {<<c[1], c[2], m>>}
          /\ again' = again \cup (heard \cap {<<c[1], c[2], m>>})
          /\ setAskFor' = [setAskFor EXCEPT ![c] = @ \ {m}]
          /\ IF m \in expired
             THEN UNCHANGED <<rialtoInventoryToSend, relayVars, userVars>>
             ELSE /\ Decrypt(c[1], m)
                  /\ PushInventory(c[1], m, Peers(c[1]) \ {c[2]})
                  /\ RelayInsert(c[1], m)
          /\ UNCHANGED <<links, mapAskFor, mapAlreadyAskedFor, rpc, expired, notFound>>

\* A RIALTO message.  Nothing checks whether it was asked for or seen before.
ProcessRialto(c) ==
    /\ Arrived(c, "rialto")
    /\ \E m \in Hashes(c) :
          /\ chan' = [chan EXCEPT ![Back(c)] = Tail(@)]
          /\ heard' = heard \cup {<<c[1], c[2], m>>}
          /\ again' = again \cup (heard \cap {<<c[1], c[2], m>>})
          /\ IF m \in expired
             THEN UNCHANGED <<rialtoInventoryToSend, relayVars, userVars>>
             ELSE /\ Decrypt(c[1], m)
                  /\ PushInventory(c[1], m, Peers(c[1]) \ {c[2]})
                  /\ RelayInsert(c[1], m)
          /\ UNCHANGED <<links, mapAskFor, setAskFor, mapAlreadyAskedFor, rpc, expired, notFound>>

\* A RIALTO message that is not followed: what matters of it is the room it takes.
ProcessOther(n, o) ==
    /\ Decrypt(n, o) /\ RelayInsert(n, o)
    /\ UNCHANGED <<links, peerVars, mapAlreadyAskedFor, rpc, expired, notFound, heardVars>>

\* RialtoGetQueuedMessages.
GetQueuedMessages(n) ==
    /\ receivedMessageQueue[n] # <<>>
    /\ fetched' = fetched \cup (Range(receivedMessageQueue[n]) \cap Messages)
    /\ receivedMessageQueue' = [receivedMessageQueue EXCEPT ![n] = <<>>]
    /\ UNCHANGED <<links, peerVars, mapAlreadyAskedFor, relayVars, rpc, expired, notFound, heardVars, lost>>

(***************************************************************************)
(* The environment: messages grow old, connections are lost and made.      *)
(***************************************************************************)
Expire(m) ==
    /\ rpc[m] # "new" /\ m \notin expired
    /\ expired' = expired \cup {m}
    /\ UNCHANGED <<links, peerVars, mapAlreadyAskedFor, relayVars, userVars, rpc, notFound, heardVars>>

Disconnect(l) ==
    /\ l \in links
    /\ links' = links \ {l}
    /\ LET Cut(f, none) == [c \in Pairs |-> IF {c[1], c[2]} = l THEN none ELSE f[c]]
       IN  /\ chan' = Cut(chan, <<>>)
           /\ rialtoInventoryToSend' = Cut(rialtoInventoryToSend, {})
           /\ mapAskFor' = Cut(mapAskFor, [m \in Messages |-> "no"])
           /\ setAskFor' = Cut(setAskFor, {})
    /\ UNCHANGED <<mapAlreadyAskedFor, relayVars, userVars, rpc, expired, notFound, heardVars>>

\* A new connection is told of nothing that is in the relay memory.
Connect(l) ==
    /\ l \notin links
    /\ links' = links \cup {l}
    /\ heard' = {h \in heard : {h[1], h[2]} # l}
    /\ UNCHANGED <<peerVars, mapAlreadyAskedFor, relayVars, userVars, rpc, expired, notFound, again>>

NetworkInit ==
    /\ links = Links
    /\ chan = [c \in Pairs |-> <<>>]
    /\ rialtoInventoryToSend = [c \in Pairs |-> {}]
    /\ mapAskFor = [c \in Pairs |-> [m \in Messages |-> "no"]]
    /\ setAskFor = [c \in Pairs |-> {}]
    /\ mapAlreadyAskedFor = [n \in Nodes |-> {}]
    /\ mapMessageRelay = [n \in Nodes |-> {}]
    /\ vMessageRelayExpiration = [n \in Nodes |-> <<>>]
    /\ receivedMessageQueue = [n \in Nodes |-> <<>>]
    /\ rpc = [m \in Messages |-> "new"]
    /\ expired = {} /\ notFound = {} /\ heard = {} /\ again = {}
    /\ fetched = {} /\ lost = {}

NetworkNext ==
    \/ \E m \in Messages : RpcPush(m) \/ RpcInsert(m) \/ Expire(m)
    \/ \E c \in Pairs : SendMessagesSome(c) \/ ProcessInv(c) \/ ProcessGetData(c) \/ ProcessRialto(c)
    \/ \E n \in Nodes : GetQueuedMessages(n) \/ \E o \in Others : ProcessOther(n, o)
    \/ \E l \in Fragile : Disconnect(l) \/ Connect(l)

\* Both threads go on, a retry comes due, and the user's client polls.
NetworkFairness ==
    /\ \A m \in Messages : WF_networkVars(RpcInsert(m))
    /\ \A c \in Pairs : /\ WF_networkVars(SendMessagesAll(c))
                        /\ WF_networkVars(ProcessInv(c) \/ ProcessGetData(c) \/ ProcessRialto(c))
    /\ \A n \in Nodes : WF_networkVars(GetQueuedMessages(n))

NetworkSpec == NetworkInit /\ [][NetworkNext]_networkVars /\ NetworkFairness

(***************************************************************************)
(* Properties.                                                             *)
(***************************************************************************)

\* The relay memory and its list of expiry times name the same messages, each once,
\* and hold no more than the cap: the list keeps iterators into the map, and one that
\* outlived its entry would be erased a second time.
RelayRecordsAgree ==
    \A n \in Nodes :
        /\ Range(vMessageRelayExpiration[n]) = mapMessageRelay[n]
        /\ IsInjective(vMessageRelayExpiration[n])
        /\ Len(vMessageRelayExpiration[n]) <= MaxRelay

\* A node handles a message at most once from each connection, although the handler
\* does not look whether it has seen or asked for it.
HeardOncePerConnection == again = {}

\* The relay of a message comes to rest, even if relay memories keep dropping it and
\* nodes ask for it again.
RelayQuiesces == <>[](\A c \in Pairs : chan[c] = <<>> /\ rialtoInventoryToSend[c] = {})

\* A message reaches the user it is for, over any connections that stay, unless it
\* grows too old, a node that announced it no longer or not yet has it, or the user
\* lets the queue overflow.
RecipientGetsIt ==
    \A m \in Messages :
        rpc[m] # "new" ~> m \in fetched \cup expired \cup notFound \cup lost
=============================================================================
