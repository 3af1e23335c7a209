---------------------------- MODULE RialtoProofs ----------------------------
(***************************************************************************)
(* The two halves of Rialto, which share no state.                         *)
(*                                                                         *)
(* RialtoRelay: the relay memory and its list agree, and no connection     *)
(* delivers a message twice, for any network, any messages and any limits. *)
(* What may still make a node handle a message that comes over a           *)
(* connection is a request that waits, a request under way or an answer    *)
(* under way; Once says that there is at most one of these three, none     *)
(* once the message was handled, and that setAskFor holds the message      *)
(* meanwhile.                                                              *)
(*                                                                         *)
(* RialtoWhitePages: for any tree of blocks in which no branch registers a *)
(* nick in two blocks, the White Pages of a node that has not crashed are  *)
(* those of its chain, and rialtorebuildwhitepages repairs them after a    *)
(* crash, unless the first block of Rialto registers something.  The       *)
(* invariant is about a set of nicks that are followed: all of them until  *)
(* a crash, and those of the chain from the turning point of a rebuild on. *)
(* It says what their keys are in the middle of ConnectTip and of          *)
(* DisconnectTip.                                                          *)
(***************************************************************************)
EXTENDS RialtoRelay, RialtoWhitePages, FiniteSetTheorems, WellFoundedInduction, TLAPS

\* The provers, in turn, where a leaf names none.
USE ZenonT(5), SMTT(40), ZenonT(40), Z3T(40)

All == Messages \cup Others

(***************************************************************************)
(* The relay memory.                                                       *)
(***************************************************************************)

\* A list and a set agree, within the cap.
Agree(list, map) ==
    /\ list \in Seq(All)
    /\ map = Range(list)
    /\ IsInjective(list)
    /\ Len(list) <= MaxRelay

Memory ==
    /\ mapMessageRelay \in [Nodes -> SUBSET All]
    /\ vMessageRelayExpiration \in [Nodes -> Seq(All)]
    /\ \A n \in Nodes : Agree(vMessageRelayExpiration[n], mapMessageRelay[n])

\* A list without repetitions is as long as the set of its entries is large.
LEMMA Counted ==
    ASSUME NEW S, NEW list \in Seq(S), IsInjective(list)
    PROVE  IsFiniteSet(Range(list)) /\ Cardinality(Range(list)) = Len(list)
<1>1. Len(list) \in Nat /\ DOMAIN list = 1..Len(list) /\ list \in [1..Len(list) -> S]
  OBVIOUS
<1>2. IsFiniteSet(1..Len(list)) /\ Cardinality(1..Len(list)) = Len(list)
  BY <1>1, FS_Interval
<1>3. list \in Bijection(1..Len(list), Range(list))
  BY <1>1 DEF Bijection, Injection, Surjection, IsInjective, Range
<1>4. ExistsBijection(1..Len(list), Range(list))
  BY <1>3 DEF ExistsBijection
<1> QED
  BY <1>2, <1>4, FS_Bijection

\* What a list holds without its first k entries.
LEMMA Rest ==
    ASSUME NEW S, NEW list \in Seq(S), IsInjective(list), NEW k \in 0..Len(list)
    PROVE  LET rest == SubSeq(list, k + 1, Len(list)) IN
           /\ rest \in Seq(S) /\ Len(rest) = Len(list) - k
           /\ IsInjective(rest)
           /\ Range(rest) = Range(list) \ {list[i] : i \in 1..k}
<1> DEFINE rest == SubSeq(list, k + 1, Len(list))
<1>1. Len(list) \in Nat /\ DOMAIN list = 1..Len(list) /\ \A i \in 1..Len(list) : list[i] \in S
  OBVIOUS
<1>2. /\ rest \in Seq(S) /\ Len(rest) = Len(list) - k
      /\ \A i \in 1..(Len(list) - k) : rest[i] = list[k + i]
  <2>1. \A i \in (k + 1)..Len(list) : list[i] \in S
    BY <1>1
  <2>2. k \in Nat /\ k + 1 \in Int /\ Len(list) \in Int
    BY <1>1
  <2>3. /\ rest \in Seq(S)
        /\ Len(rest) = IF k + 1 <= Len(list) THEN Len(list) - (k + 1) + 1 ELSE 0
        /\ \A i \in 1..(Len(list) - (k + 1) + 1) : rest[i] = list[(k + 1) + i - 1]
    BY <2>1, <2>2
  <2> HIDE DEF rest
  <2>4. Len(rest) = Len(list) - k
    <3>1. Len(rest) = IF k + 1 <= Len(list) THEN Len(list) - (k + 1) + 1 ELSE 0
      BY <2>3
    <3>2. Len(list) \in Nat /\ k \in 0..Len(list)
      BY <1>1
    <3> QED
      BY <3>1, <3>2
  <2>5. ASSUME NEW i \in 1..(Len(list) - k) PROVE rest[i] = list[k + i]
    <3>1. i \in 1..(Len(list) - (k + 1) + 1) /\ (k + 1) + i - 1 = k + i
      BY <1>1, <2>2
    <3> QED
      BY <3>1, <2>3
  <2> QED
    BY <2>3, <2>4, <2>5
<1>3. DOMAIN rest = 1..(Len(list) - k)
  BY <1>2
<1> HIDE DEF rest
<1>4. IsInjective(rest)
  <2>1. ASSUME NEW a \in 1..(Len(list) - k), NEW b \in 1..(Len(list) - k), rest[a] = rest[b]
        PROVE  a = b
    <3>1. k + a \in 1..Len(list) /\ k + b \in 1..Len(list)
      BY <1>1
    <3>2. k + a = k + b
      BY <2>1, <3>1, <1>1, <1>2 DEF IsInjective
    <3> QED
      BY <1>1, <3>2
  <2> QED
    BY <2>1, <1>3 DEF IsInjective
<1>5. Range(rest) = Range(list) \ {list[i] : i \in 1..k}
  <2>1. ASSUME NEW x \in Range(rest) PROVE x \in Range(list) \ {list[i] : i \in 1..k}
    <3>1. PICK a \in 1..(Len(list) - k) : x = rest[a]
      BY <1>3 DEF Range
    <3>2. k + a \in 1..Len(list) /\ x = list[k + a] /\ \A i \in 1..k : i \in 1..Len(list) /\ i # k + a
      BY <1>1, <1>2, <3>1
    <3> QED
      BY <1>1, <3>2 DEF Range, IsInjective
  <2>2. ASSUME NEW x \in Range(list) \ {list[i] : i \in 1..k} PROVE x \in Range(rest)
    <3>1. PICK i \in 1..Len(list) : x = list[i]
      BY <1>1 DEF Range
    <3>2. i - k \in 1..(Len(list) - k) /\ k + (i - k) = i
      BY <1>1, <3>1
    <3> QED
      BY <1>2, <1>3, <3>1, <3>2 DEF Range
  <2> QED
    BY <2>1, <2>2
<1> QED
  BY <1>2, <1>4, <1>5 DEF rest

\* RelayRialtoMessage keeps them in agreement.
LEMMA Inserted ==
    ASSUME Memory, NEW n \in Nodes, NEW m \in All, RelayInsert(n, m)
    PROVE  Memory'
<1> DEFINE list == vMessageRelayExpiration[n]
           map == mapMessageRelay[n]
<1>1. list \in Seq(All) /\ map = Range(list) /\ IsInjective(list) /\ Len(list) <= MaxRelay
  BY DEF Memory, Agree
<1>2. Len(list) \in Nat /\ MaxRelay \in Nat \ {0}
  BY <1>1, RelayAssumption DEF RelayAssumption
<1>3. PICK k \in MadeRoom(n) :
          /\ mapMessageRelay' = [mapMessageRelay EXCEPT ![n] =
                (map \ {list[i] : i \in 1..k}) \cup {m}]
          /\ vMessageRelayExpiration' = [vMessageRelayExpiration EXCEPT ![n] =
                IF m \in map \ {list[i] : i \in 1..k} THEN SubSeq(list, k + 1, Len(list))
                ELSE Append(SubSeq(list, k + 1, Len(list)), m)]
  BY DEF RelayInsert
<1>4. Cardinality(map) = Len(list)
  BY <1>1, Counted
<1>5. k \in 0..Len(list) /\ Len(list) - k < MaxRelay
  <2>1. CASE Cardinality(map) < MaxRelay
    BY <2>1, <1>2, <1>4 DEF MadeRoom
  <2>2. CASE ~(Cardinality(map) < MaxRelay)
    <3>1. PICK j \in 0..Len(list) :
              k = IF Cardinality(map \ {list[i] : i \in 1..j}) >= MaxRelay /\ j < Len(list)
                  THEN j + 1 ELSE j
      BY <2>2 DEF MadeRoom
    <3>2. Cardinality(map \ {list[i] : i \in 1..j}) = Len(list) - j
      <4> DEFINE rest == SubSeq(list, j + 1, Len(list))
      <4>1. /\ rest \in Seq(All) /\ Len(rest) = Len(list) - j /\ IsInjective(rest)
            /\ Range(rest) = map \ {list[i] : i \in 1..j}
        BY <1>1, Rest
      <4> HIDE DEF rest
      <4> QED
        BY <4>1, Counted
    <3> DEFINE remaining == Cardinality(map \ {list[i] : i \in 1..j})
    <3>3. remaining = Len(list) - j /\ k = IF remaining >= MaxRelay /\ j < Len(list) THEN j + 1 ELSE j
      BY <3>1, <3>2
    <3> HIDE DEF remaining, list, map
    <3> QED
      BY <3>3, <1>1, <1>2
  <2> QED
    BY <2>1, <2>2
<1> DEFINE rest == SubSeq(list, k + 1, Len(list))
           kept == map \ {list[i] : i \in 1..k}
           new == IF m \in kept THEN rest ELSE Append(rest, m)
<1>6. /\ rest \in Seq(All) /\ Len(rest) = Len(list) - k /\ IsInjective(rest)
      /\ Range(rest) = kept
  BY <1>1, <1>5, Rest
<1>7. mapMessageRelay' = [mapMessageRelay EXCEPT ![n] = kept \cup {m}]
      /\ vMessageRelayExpiration' = [vMessageRelayExpiration EXCEPT ![n] = new]
  BY <1>3
<1>8. Agree(new, kept \cup {m})
  <2> HIDE DEF rest, kept, list, map
  <2>1. CASE m \in kept
    BY <2>1, <1>2, <1>5, <1>6 DEF Agree
  <2>2. CASE m \notin kept
    <3>1. new = Append(rest, m)
      BY <2>2
    <3>2. /\ Append(rest, m) \in Seq(All) /\ Len(Append(rest, m)) = Len(rest) + 1
          /\ \A i \in 1..Len(rest) : Append(rest, m)[i] = rest[i]
          /\ Append(rest, m)[Len(rest) + 1] = m
      BY <1>6
    <3>3. DOMAIN rest = 1..Len(rest) /\ Len(rest) \in Nat
          /\ DOMAIN Append(rest, m) = 1..(Len(rest) + 1)
      BY <1>6, <3>2
    <3>4. \A i \in 1..Len(rest) : rest[i] # m
      BY <1>6, <3>3, <2>2 DEF Range
    <3> DEFINE longer == Append(rest, m)
    <3> HIDE DEF longer
    <3>5. IsInjective(longer)
      BY <1>6, <3>2, <3>3, <3>4 DEF IsInjective, longer
    <3>6. Range(longer) = kept \cup {m}
      <4>1. \A x \in Range(longer) : x \in kept \cup {m}
        BY <1>6, <3>2, <3>3 DEF Range, longer
      <4>2. ASSUME NEW x \in kept PROVE x \in Range(longer)
        <5>1. PICK i \in 1..Len(rest) : x = rest[i]
          BY <1>6, <3>3 DEF Range
        <5> QED
          BY <5>1, <3>2, <3>3 DEF Range, longer
      <4>3. m \in Range(longer)
        BY <3>2, <3>3 DEF Range, longer
      <4> QED
        BY <4>1, <4>2, <4>3
    <3> QED
      BY <3>1, <3>2, <3>5, <3>6, <1>2, <1>5, <1>6 DEF Agree, longer
  <2> QED
    BY <2>1, <2>2
<1>9. kept \cup {m} \in SUBSET All /\ new \in Seq(All)
  <2>1. map \in SUBSET All
    BY DEF Memory
  <2> QED
    BY <2>1, <1>8 DEF Agree
<1> HIDE DEF new, kept
<1> QED
  BY <1>7, <1>8, <1>9 DEF Memory

(***************************************************************************)
(* What is on its way.                                                     *)
(***************************************************************************)
Msg == [type : {"inv", "getdata", "rialto"}, hashes : SUBSET Messages]

\* The i-th of s is of type t and about m; none is; at most one is.
Is(s, i, t, m) == s[i].type = t /\ m \in s[i].hashes
None(s, t, m) == \A i \in 1..Len(s) : ~Is(s, i, t, m)
Few(s, t, m) == \A i, j \in 1..Len(s) : Is(s, i, t, m) /\ Is(s, j, t, m) => i = j

\* After the first has been taken.
LEMMA Taken ==
    ASSUME NEW s \in Seq(Msg), s # <<>>, NEW t, NEW m
    PROVE  /\ Tail(s) \in Seq(Msg)
           /\ Head(s) \in Msg
           /\ None(s, t, m) => None(Tail(s), t, m)
           /\ Few(s, t, m) => Few(Tail(s), t, m)
           /\ Head(s).type = t /\ m \in Head(s).hashes => ~None(s, t, m)
           /\ Few(s, t, m) /\ Head(s).type = t /\ m \in Head(s).hashes => None(Tail(s), t, m)
<1> DEFINE r == Tail(s)
<1>1. /\ Head(s) \in Msg /\ r \in Seq(Msg) /\ Len(r) = Len(s) - 1
      /\ \A i \in 1..Len(r) : r[i] = s[i + 1]
  OBVIOUS
<1>2. Len(s) \in Nat /\ Len(s) >= 1 /\ Head(s) = s[1]
  OBVIOUS
<1> HIDE DEF r
<1>3. \A i \in 1..Len(r) : i + 1 \in 1..Len(s) /\ i + 1 # 1 /\ (Is(r, i, t, m) <=> Is(s, i + 1, t, m))
  BY <1>1, <1>2 DEF Is
<1>4. Head(s).type = t /\ m \in Head(s).hashes => 1 \in 1..Len(s) /\ Is(s, 1, t, m)
  BY <1>2 DEF Is
<1>5. None(s, t, m) => None(r, t, m)
  BY <1>3 DEF None
<1>6. Few(s, t, m) => Few(r, t, m)
  <2>1. ASSUME Few(s, t, m), NEW i \in 1..Len(r), NEW j \in 1..Len(r), Is(r, i, t, m), Is(r, j, t, m)
        PROVE  i = j
    <3>1. i + 1 = j + 1
      BY <2>1, <1>3 DEF Few
    <3>2. i \in Int /\ j \in Int
      OBVIOUS
    <3> QED
      BY <3>1, <3>2
  <2> QED
    BY <2>1 DEF Few
<1>7. Few(s, t, m) /\ Head(s).type = t /\ m \in Head(s).hashes => None(r, t, m)
  BY <1>3, <1>4 DEF Few, None
<1>8. Head(s).type = t /\ m \in Head(s).hashes => ~None(s, t, m)
  BY <1>4 DEF None
<1> QED
  BY <1>1, <1>5, <1>6, <1>7, <1>8 DEF r

\* After more has been sent.
LEMMA Sent ==
    ASSUME NEW s \in Seq(Msg), NEW u \in Seq(Msg), NEW t, NEW m
    PROVE  /\ s \o u \in Seq(Msg)
           /\ None(s, t, m) /\ None(u, t, m) => None(s \o u, t, m)
           /\ Few(s, t, m) /\ None(u, t, m) => Few(s \o u, t, m)
           /\ None(s, t, m) /\ Few(u, t, m) => Few(s \o u, t, m)
           /\ None(s \o u, t, m) => None(s, t, m)
<1> DEFINE r == s \o u
<1>1. /\ r \in Seq(Msg) /\ Len(r) = Len(s) + Len(u)
      /\ \A i \in 1..(Len(s) + Len(u)) : r[i] = IF i <= Len(s) THEN s[i] ELSE u[i - Len(s)]
  OBVIOUS
<1>2. Len(s) \in Nat /\ Len(u) \in Nat
  OBVIOUS
<1> HIDE DEF r
<1>3. ASSUME NEW i \in 1..Len(r), Is(r, i, t, m)
      PROVE  \/ i \in 1..Len(s) /\ Is(s, i, t, m)
             \/ i - Len(s) \in 1..Len(u) /\ Is(u, i - Len(s), t, m)
  BY <1>1, <1>2, <1>3 DEF Is
<1>4. \A i \in 1..Len(s) : i \in 1..Len(r) /\ (Is(s, i, t, m) => Is(r, i, t, m))
  BY <1>1, <1>2 DEF Is
<1>5. None(s, t, m) /\ None(u, t, m) => None(r, t, m)
  BY <1>3 DEF None
<1>6. Few(s, t, m) /\ None(u, t, m) => Few(r, t, m)
  BY <1>3 DEF None, Few
<1>7. None(s, t, m) /\ Few(u, t, m) => Few(r, t, m)
  <2>1. ASSUME None(s, t, m), Few(u, t, m), NEW i \in 1..Len(r), NEW j \in 1..Len(r),
               Is(r, i, t, m), Is(r, j, t, m)
        PROVE  i = j
    <3>1. i - Len(s) = j - Len(s)
      BY <2>1, <1>3 DEF None, Few
    <3>2. i \in Int /\ j \in Int /\ Len(s) \in Int
      BY <1>2
    <3> QED
      BY <3>1, <3>2
  <2> QED
    BY <2>1 DEF Few
<1>8. None(r, t, m) => None(s, t, m)
  BY <1>4 DEF None
<1> QED
  BY <1>1, <1>5, <1>6, <1>7, <1>8 DEF r

\* A sequence of at most one.
LEMMA Single ==
    ASSUME NEW x \in Msg, NEW S, NEW t, NEW m
    PROVE  LET u == IF S = {} THEN <<>> ELSE <<x>>
           IN  /\ u \in Seq(Msg) /\ Few(u, t, m)
               /\ S = {} \/ x.type # t \/ m \notin x.hashes => None(u, t, m)
<1>1. <<>> \in Seq(Msg) /\ Len(<<>>) = 0 /\ <<x>> \in Seq(Msg) /\ Len(<<x>>) = 1 /\ <<x>>[1] = x
  OBVIOUS
<1>2. Few(<<>>, t, m) /\ None(<<>>, t, m)
  BY <1>1 DEF Few, None
<1>3. Few(<<x>>, t, m) /\ (x.type # t \/ m \notin x.hashes => None(<<x>>, t, m))
  BY <1>1 DEF Few, None, Is
<1> QED
  BY <1>1, <1>2, <1>3

\* The answers to a request.
LEMMA Answers ==
    ASSUME NEW S \in SUBSET Messages, NEW found \in Injection(1..Cardinality(S), S), NEW m
    PROVE  LET u == [i \in DOMAIN found |-> Rialto(found[i])]
           IN  /\ u \in Seq(Msg)
               /\ Few(u, "rialto", m) /\ None(u, "getdata", m)
               /\ m \notin S => None(u, "rialto", m)
<1> DEFINE u == [i \in DOMAIN found |-> Rialto(found[i])]
<1>1. IsFiniteSet(S)
  BY FS_Subset, RelayAssumption DEF RelayAssumption
<1>2. Cardinality(S) \in Nat
  BY <1>1, FS_CardinalityType
<1>4. found \in [1..Cardinality(S) -> S] /\ IsInjective(found)
  BY DEF Injection
<1>5. u \in [1..Cardinality(S) -> Msg] /\ DOMAIN found = 1..Cardinality(S)
  BY <1>4 DEF Rialto, Msg
<1>6. u \in Seq(Msg) /\ Len(u) = Cardinality(S)
  BY <1>2, <1>5
<1>7. \A i \in 1..Len(u) : u[i] = [type |-> "rialto", hashes |-> {found[i]}] /\ found[i] \in S
  BY <1>4, <1>5, <1>6 DEF Rialto
<1> HIDE DEF u
<1>8. \A i \in 1..Len(u) : /\ Is(u, i, "rialto", m) => m = found[i]
                           /\ ~Is(u, i, "getdata", m)
  <2>1. ASSUME NEW i \in 1..Len(u)
        PROVE  (Is(u, i, "rialto", m) => m = found[i]) /\ ~Is(u, i, "getdata", m)
    <3>1. u[i] = [type |-> "rialto", hashes |-> {found[i]}]
      BY <1>7
    <3>2. u[i].type = "rialto" /\ u[i].hashes = {found[i]}
      BY <3>1
    <3> QED
      BY <3>2 DEF Is
  <2> QED
    BY <2>1
<1>9. Few(u, "rialto", m)
  <2>1. ASSUME NEW i \in 1..Len(u), NEW j \in 1..Len(u), Is(u, i, "rialto", m), Is(u, j, "rialto", m)
        PROVE  i = j
    <3>1. found[i] = found[j]
      BY <2>1, <1>8
    <3>2. i \in DOMAIN found /\ j \in DOMAIN found
      BY <1>5, <1>6
    <3> QED
      BY <3>1, <3>2, <1>4 DEF IsInjective
  <2> QED
    BY <2>1 DEF Few
<1>10. None(u, "getdata", m)
  BY <1>8 DEF None
<1>11. m \notin S => None(u, "rialto", m)
  <2>1. \A i \in 1..Len(u) : Is(u, i, "rialto", m) => m \in S
    BY <1>7, <1>8
  <2> QED
    BY <2>1 DEF None
<1> QED
  BY <1>6, <1>9, <1>10, <1>11 DEF u

(***************************************************************************)
(* The invariant.                                                          *)
(***************************************************************************)
Types ==
    /\ chan \in [Pairs -> Seq(Msg)]
    /\ rialtoInventoryToSend \in [Pairs -> SUBSET Messages]
    /\ mapAskFor \in [Pairs -> [Messages -> {"no", "now", "later"}]]
    /\ setAskFor \in [Pairs -> SUBSET Messages]

Up(c) == {c[1], c[2]} \in links
Waits(c, m) == mapAskFor[c][m] # "no"
Handled(c, m) == <<c[1], c[2], m>> \in heard
Asked(c, m) == ~None(chan[c], "getdata", m)
Answered(c, m) == ~None(chan[Back(c)], "rialto", m)

Once(c, m) ==
    /\ Few(chan[c], "getdata", m) /\ Few(chan[Back(c)], "rialto", m)
    /\ Waits(c, m) => ~Asked(c, m) /\ ~Answered(c, m) /\ ~Handled(c, m)
    /\ Asked(c, m) => ~Answered(c, m) /\ ~Handled(c, m)
    /\ Answered(c, m) => ~Handled(c, m)
    /\ Up(c) /\ (Waits(c, m) \/ Asked(c, m) \/ Answered(c, m) \/ Handled(c, m)) => m \in setAskFor[c]
    /\ ~Up(c) => chan[c] = <<>> /\ ~Waits(c, m)

RelayInv ==
    /\ Memory /\ Types
    /\ \A c \in Pairs, m \in Messages : Once(c, m)
    /\ again = {}

\* The two directions of a connection.
LEMMA Directions ==
    ASSUME NEW c \in Pairs
    PROVE  /\ c[1] \in Nodes /\ c[2] \in Nodes /\ c = <<c[1], c[2]>>
           /\ Back(c) \in Pairs /\ Back(c) # c /\ Back(Back(c)) = c
           /\ Back(c)[1] = c[2] /\ Back(c)[2] = c[1]
           /\ {Back(c)[1], Back(c)[2]} = {c[1], c[2]}
<1>1. c \in Nodes \X Nodes /\ {c[1], c[2]} \in Links
  BY DEF Pairs
<1>2. c[1] # c[2]
  <2>1. \A n \in Nodes : {n} \notin Links
    BY RelayAssumption DEF RelayAssumption
  <2> QED
    BY <1>1, <2>1
<1>3. {c[2], c[1]} = {c[1], c[2]}
  OBVIOUS
<1> QED
  BY <1>1, <1>2, <1>3 DEF Back, Pairs

\* A message that a step does not concern on a connection.
LEMMA Unconcerned ==
    ASSUME NEW c \in Pairs, NEW m \in Messages, Once(c, m),
           chan'[c] = chan[c], chan'[Back(c)] = chan[Back(c)],
           mapAskFor'[c][m] = mapAskFor[c][m],
           m \in setAskFor[c] => m \in setAskFor'[c],
           Handled(c, m)' <=> Handled(c, m),
           Up(c)' <=> Up(c)
    PROVE  Once(c, m)'
<1>1. Asked(c, m)' <=> Asked(c, m)
  BY DEF Asked
<1>2. Answered(c, m)' <=> Answered(c, m)
  BY DEF Answered, Back
<1>3. Waits(c, m)' <=> Waits(c, m)
  BY DEF Waits
<1>4. Few(chan[c], "getdata", m)' /\ Few(chan[Back(c)], "rialto", m)'
  BY DEF Once, Back
<1> QED
  BY <1>1, <1>2, <1>3, <1>4 DEF Once

\* Steps that change no connection.
LEMMA Elsewhere ==
    ASSUME RelayInv, UNCHANGED <<links, chan, mapAskFor, setAskFor, heard, again>>,
           rialtoInventoryToSend' \in [Pairs -> SUBSET Messages], Memory'
    PROVE  RelayInv'
<1>1. Types'
  BY DEF RelayInv, Types
<1>2. ASSUME NEW c \in Pairs, NEW m \in Messages PROVE Once(c, m)'
  <2>1. Once(c, m)
    BY DEF RelayInv
  <2>2. (Handled(c, m)' <=> Handled(c, m)) /\ (Up(c)' <=> Up(c))
    BY DEF Handled, Up
  <2> QED
    BY <2>1, <2>2, Unconcerned
<1> QED
  BY <1>1, <1>2 DEF RelayInv

LEMMA MemoryUntouched ==
    ASSUME Memory, UNCHANGED relayVars
    PROVE  Memory'
BY DEF Memory, relayVars

LEMMA Pushed ==
    ASSUME Types, NEW n, NEW m \in Messages, NEW others, PushInventory(n, m, others)
    PROVE  rialtoInventoryToSend' \in [Pairs -> SUBSET Messages]
BY DEF Types, PushInventory

LEMMA RpcPushKeeps ==
    ASSUME RelayInv, NEW m \in Messages, RpcPush(m)
    PROVE  RelayInv'
<1>1. Memory'
  BY MemoryUntouched DEF RelayInv, RpcPush
<1>2. rialtoInventoryToSend' \in [Pairs -> SUBSET Messages]
  BY Pushed DEF RelayInv, RpcPush
<1> QED
  BY <1>1, <1>2, Elsewhere DEF RpcPush, heardVars

LEMMA RpcInsertKeeps ==
    ASSUME RelayInv, NEW m \in Messages, RpcInsert(m)
    PROVE  RelayInv'
<1>1. Origin[m] \in Nodes /\ m \in All
  BY RelayAssumption DEF RelayAssumption, All
<1>2. Memory'
  BY <1>1, Inserted DEF RelayInv, RpcInsert
<1>3. rialtoInventoryToSend' \in [Pairs -> SUBSET Messages]
  BY DEF RelayInv, Types, RpcInsert, peerVars
<1> QED
  BY <1>2, <1>3, Elsewhere DEF RpcInsert, peerVars, heardVars

LEMMA ProcessOtherKeeps ==
    ASSUME RelayInv, NEW n \in Nodes, NEW o \in Others, ProcessOther(n, o)
    PROVE  RelayInv'
<1>1. Memory'
  BY Inserted DEF RelayInv, ProcessOther, All
<1>2. rialtoInventoryToSend' \in [Pairs -> SUBSET Messages]
  BY DEF RelayInv, Types, ProcessOther, peerVars
<1> QED
  BY <1>1, <1>2, Elsewhere DEF ProcessOther, peerVars, heardVars

\* The user's client, and time.
LEMMA OthersKeep ==
    ASSUME RelayInv,
           \/ \E n \in Nodes : GetQueuedMessages(n)
           \/ \E m \in Messages : Expire(m)
           \/ UNCHANGED networkVars
    PROVE  RelayInv'
<1>1. UNCHANGED <<links, peerVars, relayVars, heardVars>>
  BY DEF GetQueuedMessages, Expire, networkVars, peerVars, relayVars, heardVars
<1>2. Memory'
  BY <1>1, MemoryUntouched DEF RelayInv
<1>3. rialtoInventoryToSend' \in [Pairs -> SUBSET Messages]
  BY <1>1 DEF RelayInv, Types, peerVars
<1> QED
  BY <1>1, <1>2, <1>3, Elsewhere DEF peerVars, heardVars

\* SendMessages turns requests that wait into requests under way.
LEMMA SendMessagesKeeps ==
    ASSUME RelayInv, NEW c \in Pairs, NEW due \in SUBSET Waiting(c), SendMessages(c, due)
    PROVE  RelayInv'
<1> DEFINE told == rialtoInventoryToSend[c]
           asked == due \ mapMessageRelay[c[1]]
           u == IF told = {} THEN <<>> ELSE <<Inv(told)>>
           v == IF asked = {} THEN <<>> ELSE <<GetData(asked)>>
<1>1. /\ chan' = [chan EXCEPT ![c] = @ \o u \o v]
      /\ rialtoInventoryToSend' = [rialtoInventoryToSend EXCEPT ![c] = {}]
      /\ mapAskFor' = [mapAskFor EXCEPT ![c] = [m \in Messages |-> IF m \in due THEN "no" ELSE @[m]]]
      /\ setAskFor' = [setAskFor EXCEPT ![c] = @ \ (due \ asked)]
      /\ UNCHANGED <<links, heard, again>> /\ UNCHANGED relayVars /\ Up(c)
  BY DEF SendMessages, heardVars, Up
<1>2. due \in SUBSET Messages /\ told \in SUBSET Messages /\ asked \in SUBSET Messages
  BY DEF Waiting, RelayInv, Types
<1>3. Memory' /\ Types
  BY <1>1, MemoryUntouched DEF RelayInv
<1>4. Inv(told) \in Msg /\ Inv(told).type = "inv"
      /\ GetData(asked) \in Msg /\ GetData(asked).type = "getdata" /\ GetData(asked).hashes = asked
  BY <1>2 DEF Msg, Inv, GetData
<1>5. chan[c] \in Seq(Msg)
  BY <1>3 DEF Types
<1> HIDE DEF told, asked
<1>6. \A m : /\ u \in Seq(Msg) /\ v \in Seq(Msg)
             /\ None(u, "rialto", m) /\ None(u, "getdata", m) /\ None(v, "rialto", m)
             /\ Few(v, "getdata", m) /\ (m \notin asked => None(v, "getdata", m))
  <2>1. TAKE m
  <2>2. u \in Seq(Msg) /\ None(u, "rialto", m) /\ None(u, "getdata", m)
    BY <1>4, Single
  <2>3. v \in Seq(Msg) /\ None(v, "rialto", m)
    BY <1>4, Single
  <2>4. Few(v, "getdata", m) /\ (m \notin asked => None(v, "getdata", m))
    BY <1>4, Single
  <2> QED
    BY <2>2, <2>3, <2>4
<1> HIDE DEF u, v
<1>7. \A m : /\ chan[c] \o u \o v \in Seq(Msg)
             /\ Few(chan[c], "rialto", m) => Few(chan[c] \o u \o v, "rialto", m)
             /\ None(chan[c], "rialto", m) => None(chan[c] \o u \o v, "rialto", m)
             /\ None(chan[c], "getdata", m) => Few(chan[c] \o u \o v, "getdata", m)
             /\ m \notin asked => /\ Few(chan[c], "getdata", m) => Few(chan[c] \o u \o v, "getdata", m)
                                  /\ None(chan[c], "getdata", m) => None(chan[c] \o u \o v, "getdata", m)
  <2>1. TAKE m
  <2>2. chan[c] \o u \in Seq(Msg) /\ chan[c] \o u \o v \in Seq(Msg)
    BY <1>5, <1>6, Sent
  <2>3. /\ Few(chan[c], "rialto", m) => Few(chan[c] \o u, "rialto", m)
        /\ None(chan[c], "rialto", m) => None(chan[c] \o u, "rialto", m)
        /\ Few(chan[c], "getdata", m) => Few(chan[c] \o u, "getdata", m)
        /\ None(chan[c], "getdata", m) => None(chan[c] \o u, "getdata", m)
    BY <1>5, <1>6, Sent
  <2>4. /\ Few(chan[c] \o u, "rialto", m) => Few(chan[c] \o u \o v, "rialto", m)
        /\ None(chan[c] \o u, "rialto", m) => None(chan[c] \o u \o v, "rialto", m)
        /\ None(chan[c] \o u, "getdata", m) => Few(chan[c] \o u \o v, "getdata", m)
        /\ m \notin asked => /\ Few(chan[c] \o u, "getdata", m) => Few(chan[c] \o u \o v, "getdata", m)
                             /\ None(chan[c] \o u, "getdata", m) => None(chan[c] \o u \o v, "getdata", m)
    BY <2>2, <1>6, Sent
  <2> QED
    BY <2>2, <2>3, <2>4
<1>8. Types'
  BY <1>1, <1>2, <1>3, <1>7 DEF Types
<1>9. ASSUME NEW d \in Pairs, NEW m \in Messages PROVE Once(d, m)'
  <2>1. Once(d, m) /\ (Handled(d, m)' <=> Handled(d, m)) /\ (Up(d)' <=> Up(d))
    BY <1>1 DEF RelayInv, Handled, Up
  <2>2. Back(c) \in Pairs /\ Back(c) # c /\ Back(Back(c)) = c /\ Back(d) \in Pairs /\ Back(Back(d)) = d
    BY Directions
  <2>3. CASE d = c
    <3>1. chan'[c] = chan[c] \o u \o v /\ chan'[Back(c)] = chan[Back(c)]
      BY <1>1, <1>3, <2>2 DEF Types
    <3>2. mapAskFor'[c][m] = IF m \in due THEN "no" ELSE mapAskFor[c][m]
      BY <1>1, <1>3 DEF Types
    <3>3. m \in setAskFor[c] /\ (m \notin due \/ m \in asked) => m \in setAskFor'[c]
      BY <1>1, <1>3 DEF Types
    <3>4. Few(chan[Back(c)], "rialto", m)' /\ (Answered(c, m)' <=> Answered(c, m))
      BY <2>1, <2>3, <3>1 DEF Once, Answered, Back
    <3>5. CASE m \in due
      <4>1. Waits(c, m) /\ ~Waits(c, m)'
        BY <3>2, <3>5 DEF Waiting, Waits
      <4>2. None(chan[c], "getdata", m) /\ ~Answered(c, m) /\ ~Handled(c, m) /\ m \in setAskFor[c]
        BY <4>1, <2>1, <2>3, <1>1 DEF Once, Asked
      <4>3. Few(chan[c], "getdata", m)' /\ (m \notin asked => ~Asked(c, m)')
        BY <4>2, <3>1, <1>7 DEF Asked
      <4> QED
        BY <2>1, <2>3, <3>3, <3>4, <4>1, <4>2, <4>3, <1>1 DEF Once
    <3>6. CASE m \notin due
      <4>1. m \notin asked
        BY <3>6 DEF asked
      <4>2. Few(chan[c], "getdata", m)' /\ (Asked(c, m)' => Asked(c, m))
        BY <4>1, <2>1, <2>3, <3>1, <1>7 DEF Once, Asked
      <4>3. Waits(c, m)' <=> Waits(c, m)
        BY <3>2, <3>6 DEF Waits
      <4> QED
        BY <2>1, <2>3, <3>3, <3>4, <3>6, <4>2, <4>3, <1>1 DEF Once
    <3> QED
      BY <3>5, <3>6
  <2>4. CASE d = Back(c)
    <3>1. chan'[Back(d)] = chan[c] \o u \o v /\ chan[Back(d)] = chan[c] /\ chan'[d] = chan[d]
      BY <1>1, <1>3, <2>2, <2>4 DEF Types
    <3>2. mapAskFor'[d] = mapAskFor[d] /\ setAskFor'[d] = setAskFor[d]
      BY <1>1, <1>3, <2>2, <2>4 DEF Types
    <3>3. Few(chan[Back(d)], "rialto", m)' /\ (Answered(d, m)' => Answered(d, m))
      BY <2>1, <3>1, <1>7 DEF Once, Answered, Back
    <3>4. Few(chan[d], "getdata", m)' /\ (Asked(d, m)' <=> Asked(d, m)) /\ (Waits(d, m)' <=> Waits(d, m))
      BY <2>1, <3>1, <3>2 DEF Once, Asked, Waits
    <3> QED
      BY <2>1, <3>1, <3>2, <3>3, <3>4 DEF Once
  <2>5. CASE d # c /\ d # Back(c)
    <3>1. Back(d) # c
      BY <2>2, <2>5
    <3>2. chan'[d] = chan[d] /\ chan'[Back(d)] = chan[Back(d)] /\ mapAskFor'[d] = mapAskFor[d]
          /\ setAskFor'[d] = setAskFor[d]
      BY <1>1, <1>3, <2>2, <2>5, <3>1 DEF Types
    <3> QED
      BY <2>1, <3>2, Unconcerned
  <2> QED
    BY <2>3, <2>4, <2>5
<1> QED
  BY <1>1, <1>3, <1>8, <1>9 DEF RelayInv

\* AskFor makes a request wait only for what setAskFor does not hold.
LEMMA ProcessInvKeeps ==
    ASSUME RelayInv, NEW c \in Pairs, ProcessInv(c)
    PROVE  RelayInv'
<1> DEFINE b == Back(c)
           new == (Hashes(c) \ mapMessageRelay[c[1]]) \ setAskFor[c]
<1>1. b \in Pairs /\ b # c /\ Back(b) = c
  BY Directions
<1>2. /\ Up(c) /\ chan[b] # <<>> /\ Head(chan[b]).type = "inv" /\ Hashes(c) = Head(chan[b]).hashes
      /\ chan' = [chan EXCEPT ![b] = Tail(@)]
      /\ setAskFor' = [setAskFor EXCEPT ![c] = @ \cup new]
      /\ mapAskFor' = [mapAskFor EXCEPT ![c] =
            [m \in Messages |-> IF m \notin new THEN @[m]
                                ELSE IF m \in mapAlreadyAskedFor[c[1]] THEN "later" ELSE "now"]]
      /\ UNCHANGED <<links, rialtoInventoryToSend, heard, again>> /\ UNCHANGED relayVars
  BY DEF ProcessInv, AskFor, Arrived, Hashes, Up, heardVars
<1>3. Types /\ Memory'
  BY <1>2, MemoryUntouched DEF RelayInv
<1>4. chan[b] \in Seq(Msg)
  BY <1>1, <1>3 DEF Types
<1>5. Tail(chan[b]) \in Seq(Msg) /\ Head(chan[b]) \in Msg
  BY <1>2, <1>4, Taken
<1>6. \A t, m : /\ Few(chan[b], t, m) => Few(Tail(chan[b]), t, m)
                /\ None(chan[b], t, m) => None(Tail(chan[b]), t, m)
  BY <1>2, <1>4, Taken
<1>7. new \in SUBSET Messages
  BY <1>2, <1>5 DEF Msg
<1> HIDE DEF b, new
<1>8. Types'
  BY <1>1, <1>2, <1>3, <1>5, <1>7 DEF Types
<1>9. ASSUME NEW d \in Pairs, NEW m \in Messages PROVE Once(d, m)'
  <2>1. Once(d, m) /\ (Handled(d, m)' <=> Handled(d, m)) /\ (Up(d)' <=> Up(d))
    BY <1>2 DEF RelayInv, Handled, Up
  <2>2. Back(d) \in Pairs /\ Back(Back(d)) = d
    BY Directions
  <2>3. CASE d = c
    <3>1. chan'[Back(d)] = Tail(chan[b]) /\ chan[Back(d)] = chan[b] /\ chan'[d] = chan[d]
      BY <1>1, <1>2, <1>3, <2>3 DEF Types, b
    <3>2. /\ m \notin new => mapAskFor'[d][m] = mapAskFor[d][m]
          /\ m \in setAskFor[d] \cup new => m \in setAskFor'[d]
      BY <1>2, <1>3, <2>3 DEF Types
    <3>3. /\ Few(chan[Back(d)], "rialto", m)' /\ (Answered(d, m)' => Answered(d, m))
          /\ Few(chan[d], "getdata", m)' /\ (Asked(d, m)' <=> Asked(d, m))
      BY <2>1, <3>1, <1>6 DEF Once, Answered, Asked, Back
    <3>4. CASE m \in new
      <4>1. ~Asked(d, m) /\ ~Answered(d, m) /\ ~Handled(d, m)
        BY <3>4, <2>1, <2>3, <1>2 DEF Once, new
      <4> QED
        BY <2>1, <2>3, <3>2, <3>3, <3>4, <4>1, <1>2 DEF Once
    <3>5. CASE m \notin new
      <4>1. Waits(d, m)' <=> Waits(d, m)
        BY <3>2, <3>5 DEF Waits
      <4> QED
        BY <2>1, <2>3, <3>2, <3>3, <4>1, <1>2 DEF Once
    <3> QED
      BY <3>4, <3>5
  <2>4. CASE d = b
    <3>1. chan'[d] = Tail(chan[d]) /\ chan'[Back(d)] = chan[Back(d)]
      BY <1>1, <1>2, <1>3, <2>4 DEF Types
    <3>2. mapAskFor'[d] = mapAskFor[d] /\ setAskFor'[d] = setAskFor[d]
      BY <1>1, <1>2, <1>3, <2>4 DEF Types
    <3>3. Up(d)
      BY <1>2, <2>4, Directions DEF Up, b
    <3>4. /\ Few(chan[Back(d)], "rialto", m)' /\ (Answered(d, m)' <=> Answered(d, m))
          /\ Few(chan[d], "getdata", m)' /\ (Asked(d, m)' => Asked(d, m))
          /\ Waits(d, m)' <=> Waits(d, m)
      BY <2>1, <2>4, <3>1, <3>2, <1>6 DEF Once, Answered, Asked, Waits, Back
    <3> QED
      BY <2>1, <3>2, <3>3, <3>4 DEF Once
  <2>5. CASE d # c /\ d # b
    <3>1. Back(d) # b
      BY <1>1, <2>2, <2>5
    <3>2. chan'[d] = chan[d] /\ chan'[Back(d)] = chan[Back(d)] /\ mapAskFor'[d] = mapAskFor[d]
          /\ setAskFor'[d] = setAskFor[d]
      BY <1>1, <1>2, <1>3, <2>2, <2>5, <3>1 DEF Types
    <3> QED
      BY <2>1, <3>2, Unconcerned
  <2> QED
    BY <2>3, <2>4, <2>5
<1> QED
  BY <1>2, <1>3, <1>8, <1>9 DEF RelayInv

\* An answer replaces the request.
LEMMA ProcessGetDataKeeps ==
    ASSUME RelayInv, NEW c \in Pairs, ProcessGetData(c)
    PROVE  RelayInv'
<1> DEFINE b == Back(c)
           wanted == Hashes(c) \cap mapMessageRelay[c[1]]
<1>1. b \in Pairs /\ b # c /\ Back(b) = c
  BY Directions
<1>0. PICK found \in Injection(1..Cardinality(wanted), wanted) :
          chan' = [chan EXCEPT ![b] = Tail(@), ![c] = @ \o [i \in DOMAIN found |-> Rialto(found[i])]]
  BY DEF ProcessGetData
<1> DEFINE u == [i \in DOMAIN found |-> Rialto(found[i])]
<1>2. /\ Up(c) /\ chan[b] # <<>> /\ Head(chan[b]).type = "getdata" /\ Hashes(c) = Head(chan[b]).hashes
      /\ chan' = [chan EXCEPT ![b] = Tail(@), ![c] = @ \o u]
      /\ UNCHANGED <<links, rialtoInventoryToSend, mapAskFor, setAskFor, heard, again>>
      /\ UNCHANGED relayVars
  BY <1>0 DEF ProcessGetData, Arrived, Hashes, Up, heardVars
<1>3. Types /\ Memory'
  BY <1>2, MemoryUntouched DEF RelayInv
<1>4. chan[b] \in Seq(Msg) /\ chan[c] \in Seq(Msg)
  BY <1>1, <1>3 DEF Types
<1>5. Tail(chan[b]) \in Seq(Msg) /\ Head(chan[b]) \in Msg
  BY <1>2, <1>4, Taken
<1>6. \A t, m : /\ Few(chan[b], t, m) => Few(Tail(chan[b]), t, m)
                /\ None(chan[b], t, m) => None(Tail(chan[b]), t, m)
  BY <1>2, <1>4, Taken
<1>7. \A m : m \in Hashes(c) => /\ ~None(chan[b], "getdata", m)
                                /\ Few(chan[b], "getdata", m) => None(Tail(chan[b]), "getdata", m)
  BY <1>2, <1>4, Taken
<1>8. \A m : /\ u \in Seq(Msg) /\ Few(u, "rialto", m) /\ None(u, "getdata", m)
             /\ m \notin Hashes(c) => None(u, "rialto", m)
  <2>1. wanted \in SUBSET Messages
    BY <1>2, <1>5 DEF Msg
  <2> QED
    BY <2>1, Answers
<1> HIDE DEF u, b, wanted
<1>9. chan[c] \o u \in Seq(Msg)
  BY <1>4, <1>8, Sent
<1>10. \A m : /\ Few(chan[c], "getdata", m) => Few(chan[c] \o u, "getdata", m)
              /\ None(chan[c], "getdata", m) => None(chan[c] \o u, "getdata", m)
              /\ None(chan[c], "rialto", m) => Few(chan[c] \o u, "rialto", m)
              /\ m \notin Hashes(c) => /\ None(chan[c], "rialto", m) => None(chan[c] \o u, "rialto", m)
                                       /\ Few(chan[c], "rialto", m) => Few(chan[c] \o u, "rialto", m)
  BY <1>4, <1>8, Sent
<1>11. chan'[b] = Tail(chan[b]) /\ chan'[c] = chan[c] \o u /\ \A d \in Pairs : d # b /\ d # c => chan'[d] = chan[d]
  BY <1>1, <1>2, <1>3 DEF Types
<1>12. Types'
  BY <1>1, <1>2, <1>3, <1>5, <1>9 DEF Types
<1>13. ASSUME NEW d \in Pairs, NEW m \in Messages PROVE Once(d, m)'
  <2>1. Once(d, m) /\ (Handled(d, m)' <=> Handled(d, m)) /\ (Up(d)' <=> Up(d)) /\ (Waits(d, m)' <=> Waits(d, m))
        /\ setAskFor'[d] = setAskFor[d]
    BY <1>2 DEF RelayInv, Handled, Up, Waits
  <2>2. Back(d) \in Pairs /\ Back(Back(d)) = d
    BY Directions
  <2>3. CASE d = c
    <3>1. chan'[Back(d)] = Tail(chan[b]) /\ chan[Back(d)] = chan[b] /\ chan'[d] = chan[d] \o u
      BY <1>11, <2>3 DEF b
    <3>2. /\ Few(chan[Back(d)], "rialto", m)' /\ (Answered(d, m)' => Answered(d, m))
      BY <2>1, <3>1, <1>6 DEF Once, Answered, Back
    <3>3. /\ Few(chan[d], "getdata", m)' /\ (Asked(d, m)' => Asked(d, m))
      BY <2>1, <2>3, <3>1, <1>10 DEF Once, Asked
    <3> QED
      BY <2>1, <2>3, <3>2, <3>3, <1>2 DEF Once
  <2>4. CASE d = b
    <3>1. chan'[d] = Tail(chan[d]) /\ chan'[Back(d)] = chan[c] \o u /\ chan[Back(d)] = chan[c]
      BY <1>1, <1>11, <2>4
    <3>2. Up(d)
      BY <1>2, <2>4, Directions DEF Up, b
    <3>3. Few(chan[d], "getdata", m)' /\ (Asked(d, m)' => Asked(d, m))
      BY <2>1, <2>4, <3>1, <1>6 DEF Once, Asked
    <3>4. CASE m \in Hashes(c)
      <4>1. Asked(d, m) /\ ~Asked(d, m)'
        BY <2>1, <2>4, <3>1, <3>4, <1>7 DEF Once, Asked
      <4>2. ~Waits(d, m) /\ None(chan[c], "rialto", m) /\ ~Handled(d, m) /\ m \in setAskFor[d]
        BY <2>1, <3>1, <3>2, <4>1 DEF Once, Answered
      <4>3. Few(chan[Back(d)], "rialto", m)'
        BY <4>2, <3>1, <1>10 DEF Back
      <4> QED
        BY <2>1, <3>2, <3>3, <4>1, <4>2, <4>3 DEF Once
    <3>5. CASE m \notin Hashes(c)
      <4>1. Few(chan[Back(d)], "rialto", m)' /\ (Answered(d, m)' => Answered(d, m))
        BY <2>1, <3>1, <3>5, <1>10 DEF Once, Answered, Back
      <4> QED
        BY <2>1, <3>2, <3>3, <4>1 DEF Once
    <3> QED
      BY <3>4, <3>5
  <2>5. CASE d # c /\ d # b
    <3>1. Back(d) # b /\ Back(d) # c
      BY <1>1, <2>2, <2>5 DEF b
    <3>2. chan'[d] = chan[d] /\ chan'[Back(d)] = chan[Back(d)] /\ mapAskFor'[d] = mapAskFor[d]
      BY <1>2, <1>11, <2>2, <2>5, <3>1
    <3> QED
      BY <2>1, <3>2, Unconcerned
  <2> QED
    BY <2>3, <2>4, <2>5
<1> QED
  BY <1>2, <1>3, <1>12, <1>13 DEF RelayInv

\* A message is handled when its answer is taken.
LEMMA ProcessRialtoKeeps ==
    ASSUME RelayInv, NEW c \in Pairs, ProcessRialto(c)
    PROVE  RelayInv'
<1> DEFINE b == Back(c)
<1>1. b \in Pairs /\ b # c /\ Back(b) = c /\ c[1] \in Nodes
  BY Directions
<1>2. PICK x \in Hashes(c) :
      /\ chan' = [chan EXCEPT ![b] = Tail(@)]
      /\ heard' = heard \cup {<<c[1], c[2], x>>}
      /\ again' = again \cup (heard \cap {<<c[1], c[2], x>>})
      /\ IF x \in expired
         THEN UNCHANGED <<rialtoInventoryToSend, relayVars, userVars>>
         ELSE /\ Decrypt(c[1], x)
              /\ PushInventory(c[1], x, Peers(c[1]) \ {c[2]})
              /\ RelayInsert(c[1], x)
      /\ UNCHANGED <<links, mapAskFor, setAskFor>>
  BY DEF ProcessRialto
<1>3. Up(c) /\ chan[b] # <<>> /\ Head(chan[b]).type = "rialto" /\ Hashes(c) = Head(chan[b]).hashes
  BY DEF ProcessRialto, Arrived, Hashes, Up
<1>4. Types /\ Memory
  BY DEF RelayInv
<1>5. chan[b] \in Seq(Msg)
  BY <1>1, <1>4 DEF Types
<1>6. Tail(chan[b]) \in Seq(Msg) /\ Head(chan[b]) \in Msg
  BY <1>3, <1>5, Taken
<1>7. \A t, m : /\ Few(chan[b], t, m) => Few(Tail(chan[b]), t, m)
                /\ None(chan[b], t, m) => None(Tail(chan[b]), t, m)
  BY <1>3, <1>5, Taken
<1>8. /\ ~None(chan[b], "rialto", x)
      /\ Few(chan[b], "rialto", x) => None(Tail(chan[b]), "rialto", x)
  BY <1>2, <1>3, <1>5, Taken
<1>9. x \in Messages /\ x \in All
  BY <1>2, <1>3, <1>6 DEF Msg, All
<1>10. Memory' /\ rialtoInventoryToSend' \in [Pairs -> SUBSET Messages]
  <2>1. CASE x \in expired
    BY <2>1, <1>2, <1>4, MemoryUntouched DEF Types
  <2>2. CASE x \notin expired
    BY <2>2, <1>1, <1>2, <1>4, <1>9, Inserted, Pushed
  <2> QED
    BY <2>1, <2>2
<1> HIDE DEF b
<1>11. Types'
  BY <1>1, <1>2, <1>4, <1>6, <1>10 DEF Types
<1>12. Once(c, x) /\ Answered(c, x)
  BY <1>8, <1>9 DEF RelayInv, Answered, b
<1>13. ~Handled(c, x)
  BY <1>12 DEF Once
<1>14. again' = {}
  BY <1>2, <1>13 DEF RelayInv, Handled
<1>15. ASSUME NEW d \in Pairs, NEW m \in Messages PROVE Once(d, m)'
  <2>1. Once(d, m) /\ (Up(d)' <=> Up(d)) /\ (Waits(d, m)' <=> Waits(d, m)) /\ setAskFor'[d] = setAskFor[d]
    BY <1>2 DEF RelayInv, Up, Waits
  <2>2. Back(d) \in Pairs /\ Back(Back(d)) = d /\ d = <<d[1], d[2]>> /\ c = <<c[1], c[2]>>
    BY Directions
  <2>3. d # c \/ m # x => (Handled(d, m)' <=> Handled(d, m))
    BY <1>2, <2>2 DEF Handled
  <2>4. CASE d = c
    <3>1. chan'[Back(d)] = Tail(chan[b]) /\ chan[Back(d)] = chan[b] /\ chan'[d] = chan[d]
      BY <1>1, <1>2, <1>4, <2>4 DEF Types, b
    <3>2. /\ Few(chan[Back(d)], "rialto", m)' /\ (Answered(d, m)' => Answered(d, m))
          /\ Few(chan[d], "getdata", m)' /\ (Asked(d, m)' <=> Asked(d, m))
      BY <2>1, <3>1, <1>7 DEF Once, Answered, Asked, Back
    <3>3. CASE m = x
      <4>1. ~Answered(d, m)'
        BY <3>1, <3>3, <2>1, <1>8 DEF Once, Answered, Back
      <4>2. ~Waits(d, m) /\ ~Asked(d, m) /\ m \in setAskFor[d]
        BY <1>12, <3>3, <2>4, <1>3 DEF Once
      <4> QED
        BY <2>1, <2>4, <3>2, <4>1, <4>2, <1>3 DEF Once
    <3>4. CASE m # x
      BY <2>1, <2>3, <2>4, <3>2, <3>4, <1>3 DEF Once
    <3> QED
      BY <3>3, <3>4
  <2>5. CASE d = b
    <3>1. chan'[d] = Tail(chan[d]) /\ chan'[Back(d)] = chan[Back(d)]
      BY <1>1, <1>2, <1>4, <2>5 DEF Types
    <3>2. Up(d)
      BY <1>3, <2>5, Directions DEF Up, b
    <3>3. /\ Few(chan[Back(d)], "rialto", m)' /\ (Answered(d, m)' <=> Answered(d, m))
          /\ Few(chan[d], "getdata", m)' /\ (Asked(d, m)' => Asked(d, m))
      BY <2>1, <2>5, <3>1, <1>7 DEF Once, Answered, Asked, Back
    <3>4. Handled(d, m)' <=> Handled(d, m)
      BY <1>1, <2>3, <2>5
    <3> QED
      BY <2>1, <3>2, <3>3, <3>4 DEF Once
  <2>6. CASE d # c /\ d # b
    <3>1. Back(d) # b
      BY <1>1, <2>2, <2>6
    <3>2. chan'[d] = chan[d] /\ chan'[Back(d)] = chan[Back(d)] /\ mapAskFor'[d] = mapAskFor[d]
      BY <1>1, <1>2, <1>4, <2>2, <2>6, <3>1 DEF Types
    <3> QED
      BY <2>1, <2>3, <2>6, <3>2, Unconcerned
  <2> QED
    BY <2>4, <2>5, <2>6
<1> QED
  BY <1>10, <1>11, <1>14, <1>15 DEF RelayInv

\* A connection that is lost takes everything with it.
LEMMA DisconnectKeeps ==
    ASSUME RelayInv, NEW l \in Fragile, Disconnect(l)
    PROVE  RelayInv'
<1> DEFINE Cut(f, none) == [c \in Pairs |-> IF {c[1], c[2]} = l THEN none ELSE f[c]]
<1>1. /\ links' = links \ {l} /\ chan' = Cut(chan, <<>>)
      /\ rialtoInventoryToSend' = Cut(rialtoInventoryToSend, {})
      /\ mapAskFor' = Cut(mapAskFor, [m \in Messages |-> "no"])
      /\ setAskFor' = Cut(setAskFor, {})
      /\ UNCHANGED <<heard, again>> /\ UNCHANGED relayVars
  BY DEF Disconnect, heardVars
<1>2. Types /\ Memory'
  BY <1>1, MemoryUntouched DEF RelayInv
<1>3. Types'
  <2>1. <<>> \in Seq(Msg)
    OBVIOUS
  <2> QED
    BY <1>1, <1>2, <2>1 DEF Types
<1>4. ASSUME NEW d \in Pairs, NEW m \in Messages PROVE Once(d, m)'
  <2>1. Once(d, m) /\ (Handled(d, m)' <=> Handled(d, m))
    BY <1>1 DEF RelayInv, Handled
  <2>2. Back(d) \in Pairs /\ {Back(d)[1], Back(d)[2]} = {d[1], d[2]}
    BY Directions
  <2>3. CASE {d[1], d[2]} = l
    <3>1. chan'[d] = <<>> /\ chan'[Back(d)] = <<>> /\ mapAskFor'[d][m] = "no" /\ ~Up(d)'
      BY <1>1, <2>2, <2>3 DEF Up
    <3>2. \A t : Few(<<>>, t, m) /\ None(<<>>, t, m)
      BY DEF Few, None
    <3>3. /\ Few(chan[d], "getdata", m)' /\ Few(chan[Back(d)], "rialto", m)'
          /\ ~Asked(d, m)' /\ ~Answered(d, m)' /\ ~Waits(d, m)'
      BY <3>1, <3>2 DEF Asked, Answered, Waits, Back
    <3> QED
      BY <3>1, <3>3 DEF Once
  <2>4. CASE {d[1], d[2]} # l
    <3>1. chan'[d] = chan[d] /\ chan'[Back(d)] = chan[Back(d)] /\ mapAskFor'[d] = mapAskFor[d]
          /\ setAskFor'[d] = setAskFor[d]
      BY <1>1, <2>2, <2>4
    <3>2. Up(d)' <=> Up(d)
      BY <1>1, <2>4 DEF Up
    <3> QED
      BY <2>1, <3>1, <3>2, Unconcerned
  <2> QED
    BY <2>3, <2>4
<1> QED
  BY <1>1, <1>2, <1>3, <1>4 DEF RelayInv

\* A new one starts with nothing.
LEMMA ConnectKeeps ==
    ASSUME RelayInv, NEW l \in Fragile, Connect(l)
    PROVE  RelayInv'
<1>1. /\ l \notin links /\ links' = links \cup {l} /\ heard' = {h \in heard : {h[1], h[2]} # l}
      /\ UNCHANGED <<chan, rialtoInventoryToSend, mapAskFor, setAskFor, again>> /\ UNCHANGED relayVars
  BY DEF Connect, peerVars
<1>2. Types' /\ Memory'
  BY <1>1, MemoryUntouched DEF RelayInv, Types
<1>3. ASSUME NEW d \in Pairs, NEW m \in Messages PROVE Once(d, m)'
  <2>1. Once(d, m)
    BY DEF RelayInv
  <2>2. Back(d) \in Pairs /\ {Back(d)[1], Back(d)[2]} = {d[1], d[2]}
    BY Directions
  <2>3. <<d[1], d[2], m>>[1] = d[1] /\ <<d[1], d[2], m>>[2] = d[2]
    OBVIOUS
  <2>4. CASE {d[1], d[2]} = l
    <3>1. ~Up(d) /\ ~Up(Back(d)) /\ Up(d)' /\ ~Handled(d, m)'
      BY <1>1, <2>2, <2>3, <2>4 DEF Up, Handled
    <3>2. Once(Back(d), m)
      BY <2>2 DEF RelayInv
    <3>3. chan[d] = <<>> /\ chan[Back(d)] = <<>> /\ ~Waits(d, m)
      BY <2>1, <3>1, <3>2 DEF Once
    <3>4. \A t : Few(<<>>, t, m) /\ None(<<>>, t, m)
      BY DEF Few, None
    <3>5. /\ Few(chan[d], "getdata", m)' /\ Few(chan[Back(d)], "rialto", m)'
          /\ ~Asked(d, m)' /\ ~Answered(d, m)' /\ ~Waits(d, m)'
      BY <1>1, <3>3, <3>4 DEF Asked, Answered, Waits, Back
    <3> QED
      BY <3>1, <3>5 DEF Once
  <2>5. CASE {d[1], d[2]} # l
    <3>1. (Up(d)' <=> Up(d)) /\ (Handled(d, m)' <=> Handled(d, m))
      BY <1>1, <2>3, <2>5 DEF Up, Handled
    <3> QED
      BY <1>1, <2>1, <3>1, Unconcerned
  <2> QED
    BY <2>4, <2>5
<1> QED
  BY <1>1, <1>2, <1>3 DEF RelayInv

LEMMA RelayInit == NetworkInit => RelayInv
<1> SUFFICES ASSUME NetworkInit PROVE RelayInv
  OBVIOUS
<1>1. <<>> \in Seq(All) /\ <<>> \in Seq(Msg) /\ Len(<<>>) = 0
  OBVIOUS
<1>2. Memory
  <2>1. Range(<<>>) = {} /\ IsInjective(<<>>)
    BY DEF Range, IsInjective
  <2>2. Agree(<<>>, {})
    BY <1>1, <2>1, RelayAssumption DEF Agree, RelayAssumption
  <2> QED
    BY <1>1, <2>2 DEF Memory, NetworkInit
<1>3. Types
  BY <1>1 DEF Types, NetworkInit
<1>4. ASSUME NEW c \in Pairs, NEW m \in Messages PROVE Once(c, m)
  <2>1. Back(c) \in Pairs /\ Up(c)
    BY Directions DEF NetworkInit, Up, Pairs
  <2>2. chan[c] = <<>> /\ chan[Back(c)] = <<>> /\ ~Waits(c, m) /\ ~Handled(c, m)
    BY <2>1 DEF NetworkInit, Waits, Handled
  <2>3. \A t : Few(<<>>, t, m) /\ None(<<>>, t, m)
    BY DEF Few, None
  <2> QED
    BY <2>1, <2>2, <2>3 DEF Once, Asked, Answered
<1> QED
  BY <1>2, <1>3, <1>4 DEF RelayInv, NetworkInit

LEMMA RelayNext == RelayInv /\ [NetworkNext]_networkVars => RelayInv'
<1> SUFFICES ASSUME RelayInv, [NetworkNext]_networkVars PROVE RelayInv'
  OBVIOUS
<1>1. ASSUME NEW m \in Messages, RpcPush(m) \/ RpcInsert(m) PROVE RelayInv'
  BY <1>1, RpcPushKeeps, RpcInsertKeeps
<1>2. ASSUME NEW c \in Pairs, SendMessagesSome(c) PROVE RelayInv'
  <2>1. PICK late \in SUBSET (Waiting(c) \ DueNow(c)) : SendMessages(c, DueNow(c) \cup late)
    BY <1>2 DEF SendMessagesSome
  <2>2. DueNow(c) \cup late \in SUBSET Waiting(c)
    BY <2>1 DEF DueNow, Waiting
  <2> QED
    BY <2>1, <2>2, SendMessagesKeeps
<1>3. ASSUME NEW c \in Pairs, ProcessInv(c) \/ ProcessGetData(c) \/ ProcessRialto(c) PROVE RelayInv'
  BY <1>3, ProcessInvKeeps, ProcessGetDataKeeps, ProcessRialtoKeeps
<1>4. ASSUME NEW n \in Nodes, NEW o \in Others, ProcessOther(n, o) PROVE RelayInv'
  BY <1>4, ProcessOtherKeeps
<1>5. ASSUME NEW l \in Fragile, Disconnect(l) \/ Connect(l) PROVE RelayInv'
  BY <1>5, DisconnectKeeps, ConnectKeeps
<1> QED
  BY <1>1, <1>2, <1>3, <1>4, <1>5, OthersKeep DEF NetworkNext

LEMMA RelayAlways == NetworkSpec => []RelayInv
BY RelayInit, RelayNext, PTL DEF NetworkSpec

\* The relay memory and the list of its entries agree, each entry once and never more
\* than the cap, in every network.
THEOREM RelayRecordsAlwaysAgree == NetworkSpec => []RelayRecordsAgree
<1>1. RelayInv => RelayRecordsAgree
  BY DEF RelayInv, Memory, Agree, RelayRecordsAgree
<1> QED
  BY <1>1, RelayAlways, PTL

\* No connection delivers a message to the handler twice, in every network.
THEOREM AlwaysHeardOnce == NetworkSpec => []HeardOncePerConnection
<1>1. RelayInv => HeardOncePerConnection
  BY DEF RelayInv, HeardOncePerConnection
<1> QED
  BY <1>1, RelayAlways, PTL
-----------------------------------------------------------------------------
(***************************************************************************)
(* The White Pages.                                                        *)
(***************************************************************************)

OfChain(b) == {n \in Nicks : KeyAt(b, n) # NoKey}

\* The nicks whose entries are known to be right.
Followed ==
    IF inStep THEN Nicks
    ELSE IF NothingInFirst /\ mode \in {"up", "done"} THEN OfChain(replayed) ELSE {}

\* Among the first k registrations of r, the first of n has key v.
FirstKey(r, k, n, v) ==
    \E i \in 1..k : r[i].nick = n /\ r[i].key = v /\ \A j \in 1..(i - 1) : r[j].nick # n
Among(r, k, n) == \E i \in 1..k : r[i].nick = n

Counting == IF coins \in Enabled THEN Registrations[coins] ELSE <<>>
Gone == Len(Counting) - Len(left)
Written == IF pc = "connectLocal" THEN Gone + 1 ELSE Gone

\* The entries of the followed nicks when k registrations of r have been written.
Partly(r, k) ==
    \A n \in Followed :
        IF Among(r, k, n) THEN FirstKey(r, k, n, whitepages[n]) ELSE whitepages[n] = KeyAt(tip, n)

Idle == pc = "idle" => \A n \in Followed : whitepages[n] = KeyAt(tip, n)

Connecting ==
    pc \in {"connect", "connectLocal"} =>
        /\ mode # "down" /\ coins # Genesis /\ Parent[coins] = tip
        /\ Len(left) <= Len(Counting) /\ \A i \in 1..Len(left) : left[i] = Counting[Gone + i]
        /\ Partly(Counting, Written)
        /\ pc = "connectLocal" => left # <<>> /\ whitepages[Head(left).nick] = Head(left).key

Disconnecting ==
    pc \in {"disconnect", "disconnectLocal"} =>
        /\ coins = tip /\ tip # Genesis
        /\ \A i \in 1..Len(left) : Registers(tip, left[i].nick)
        /\ \A n \in Nicks : Registers(tip, n) => whitepages[n] = NoKey \/ Among(left, Len(left), n)
        /\ \A n \in Followed : ~Registers(tip, n) => whitepages[n] = KeyAt(tip, n)
        /\ pc = "disconnectLocal" => left # <<>> /\ whitepages[Head(left).nick] = NoKey

Own ==
    inStep => \A n \in Nicks :
        \/ mynicks[n] \in {NoKey, whitepages[n]}
        \/ pc = "disconnectLocal" /\ n = Head(left).nick

\* While the rebuild goes down, a nick of the chain with an entry is still on it.
Rebuilding ==
    /\ mode # "no" => replayed \in Blocks
    /\ mode = "down" =>
          /\ replayed \in Enabled
          /\ \A n \in OfChain(replayed) : whitepages[n] # NoKey => Registering(tip, n) # {}
    /\ mode = "done" => pc = "idle" /\ tip = replayed

PagesInv == TypeOK /\ Idle /\ Connecting /\ Disconnecting /\ Own /\ Rebuilding
-----------------------------------------------------------------------------
(* Blocks and what they register.                                          *)

\* A set of blocks has a lowest one.
LEMMA Lowest ==
    ASSUME NEW B \in SUBSET Blocks, B # {}
    PROVE  \E x \in B : \A y \in B : Height[x] <= Height[y]
<1> DEFINE H == {Height[x] : x \in B}
<1>1. \E R : IsWellFoundedOn(R, Nat) /\ \A h, k \in Nat : k < h => <<k, h>> \in R
    <2>1. \A h, k \in Nat : k < h => <<k, h>> \in OpToRel(<, Nat)
        BY DEF OpToRel
    <2> QED
        BY <2>1, NatLessThanWellFounded
<1>2. PICK R : IsWellFoundedOn(R, Nat) /\ \A h, k \in Nat : k < h => <<k, h>> \in R
    BY <1>1
<1>3. H \subseteq Nat /\ H # {} /\ \A x \in B : Height[x] \in Nat /\ Height[x] \in H
    BY TreeAssumption
<1>4. PICK h \in H : \A k \in H : ~(<<k, h>> \in R)
    BY <1>2, <1>3, WFMin
<1>5. PICK x \in B : Height[x] = h
    OBVIOUS
<1>6. ASSUME NEW y \in B PROVE Height[x] <= Height[y]
    <2>1. ~(Height[y] < Height[x])
        BY <1>2, <1>3, <1>4, <1>5
    <2> QED
        BY <1>3, <2>1
<1> QED
    BY <1>6

LEMMA Branches ==
    /\ \A b \in Blocks : b \in Ancestors[b] /\ Ancestors[b] \subseteq Blocks /\ Height[b] \in Nat
    /\ \A b \in Blocks : b # Genesis =>
          /\ Parent[b] \in Blocks /\ Ancestors[b] = Ancestors[Parent[b]] \cup {b}
          /\ b \notin Ancestors[Parent[b]] /\ Height[Parent[b]] < Height[b]
    /\ Genesis \in Blocks /\ Genesis \notin Enabled /\ Ancestors[Genesis] = {Genesis}
<1>1. \A b \in Blocks : b \in Ancestors[b] /\ Ancestors[b] \subseteq Blocks /\ Height[b] \in Nat
    BY TreeAssumption
<1>2. ASSUME NEW b \in Blocks, b # Genesis
      PROVE  /\ Parent[b] \in Blocks /\ Ancestors[b] = Ancestors[Parent[b]] \cup {b}
             /\ b \notin Ancestors[Parent[b]] /\ Height[Parent[b]] < Height[b]
    <2>1. Parent[b] \in Blocks /\ Ancestors[b] = Ancestors[Parent[b]] \cup {b}
          /\ Height[b] = Height[Parent[b]] + 1
        BY <1>2, TreeAssumption
    <2>2. Height[b] \in Nat /\ Height[Parent[b]] \in Nat
        BY <2>1, <1>1
    <2>3. b \in Ancestors[Parent[b]] => b = Parent[b] \/ Height[b] < Height[Parent[b]]
        BY <2>1, TreeAssumption
    <2> QED
        BY <2>1, <2>2, <2>3
<1> QED
    BY <1>1, <1>2, TreeAssumption

LEMMA RegistrationsType ==
    ASSUME NEW b \in Blocks
    PROVE  /\ Registrations[b] \in Seq([nick : Nicks, key : Keys]) /\ Len(Registrations[b]) \in Nat
           /\ DOMAIN Registrations[b] = 1..Len(Registrations[b])
           /\ \A n : Registers(b, n) <=> Among(Registrations[b], Len(Registrations[b]), n)
<1>1. Registrations[b] \in Seq([nick : Nicks, key : Keys])
    BY NickAssumption
<1>2. Len(Registrations[b]) \in Nat /\ DOMAIN Registrations[b] = 1..Len(Registrations[b])
    BY <1>1
<1>3. \A n : Registers(b, n) <=> Among(Registrations[b], Len(Registrations[b]), n)
    BY <1>2 DEF Registers, Among
<1> QED
    BY <1>1, <1>2, <1>3

\* A nick that no block of the branch registers has no key.
LEMMA KeyOfNone == ASSUME NEW b, NEW n, Registering(b, n) = {} PROVE KeyAt(b, n) = NoKey
BY DEF KeyAt

\* A block in which registrations do not count, and its ancestors, give no keys.
LEMMA KeyDisabled ==
    ASSUME NEW b \in Blocks, b \notin Enabled, NEW n
    PROVE  Registering(b, n) = {} /\ KeyAt(b, n) = NoKey
<1>1. Registering(b, n) = {}
    BY TreeAssumption DEF Registering
<1> QED
    BY <1>1, KeyOfNone

\* A block that does not register a nick leaves its key.
LEMMA KeyBelow ==
    ASSUME NEW b \in Blocks, b # Genesis, NEW n, b \notin Enabled \/ ~Registers(b, n)
    PROVE  Registering(b, n) = Registering(Parent[b], n) /\ KeyAt(b, n) = KeyAt(Parent[b], n)
<1>1. Registering(b, n) = Registering(Parent[b], n)
    BY Branches DEF Registering
<1> QED
    BY <1>1 DEF KeyAt

\* A block that registers a nick gives it its key, and no ancestor does.
LEMMA KeyHere ==
    ASSUME RegisteredOnce, NEW b \in Enabled, NEW n \in Nicks, Registers(b, n)
    PROVE  /\ Registering(Parent[b], n) = {} /\ KeyAt(Parent[b], n) = NoKey
           /\ \A v : FirstKey(Registrations[b], Len(Registrations[b]), n, v) => KeyAt(b, n) = v
<1>1. b \in Blocks /\ b # Genesis
    BY TreeAssumption
<1>2. b \in Registering(b, n)
    BY <1>1, Branches DEF Registering
<1>3. Registering(b, n) = {b}
    BY <1>1, <1>2 DEF RegisteredOnce
<1>4. Registering(Parent[b], n) = {}
    BY <1>1, <1>3, Branches DEF Registering
<1>5. ASSUME NEW v, FirstKey(Registrations[b], Len(Registrations[b]), n, v) PROVE KeyAt(b, n) = v
    <2> DEFINE r == Registrations[b]
               x == CHOOSE x \in Registering(b, n) : \A y \in Registering(b, n) : Height[x] <= Height[y]
    <2>1. x = b
        <3>1. \A y \in Registering(b, n) : Height[b] <= Height[y]
            BY <1>1, <1>3, Branches
        <3> QED
            BY <1>2, <1>3, <3>1
    <2>2. PICK i \in 1..Len(r) : r[i].nick = n /\ r[i].key = v /\ \A j \in 1..(i - 1) : r[j].nick # n
        BY <1>5 DEF FirstKey
    <2>3. DOMAIN r = 1..Len(r) /\ Len(r) \in Nat
        BY <1>1, RegistrationsType
    <2> HIDE DEF r
    <2>4. FirstIn(r, n) = i
        <3> DEFINE f == FirstIn(r, n)
        <3>1. f \in DOMAIN r /\ r[f].nick = n /\ \A j \in 1..(f - 1) : r[j].nick # n
            BY <2>2, <2>3 DEF FirstIn
        <3> HIDE DEF f
        <3>2. ~(f < i) /\ ~(i < f)
            BY <2>2, <2>3, <3>1
        <3> QED
            BY <2>2, <2>3, <3>1, <3>2 DEF f
    <2>5. KeyAt(b, n) = Registrations[x][FirstIn(Registrations[x], n)].key
        BY <1>2 DEF KeyAt
    <2> HIDE DEF x
    <2> QED
        BY <2>1, <2>2, <2>4, <2>5 DEF r
<1> QED
    BY <1>4, <1>5, KeyOfNone

\* Below the turning point of a rebuild no nick has a key.
LEMMA FirstHasNone ==
    ASSUME NothingInFirst, NEW b \in Enabled, NEW n
    PROVE  Registering(FirstEnabled(b), n) = {}
<1> DEFINE on == Ancestors[b] \cap Enabled
           f == FirstEnabled(b)
<1>1. b \in Blocks /\ b \in on /\ on \subseteq Blocks
    BY TreeAssumption, Branches
<1>2. PICK x \in on : \A y \in on : Height[x] <= Height[y]
    <2> HIDE DEF on
    <2> QED
        BY <1>1, Lowest
<1>3. f \in on /\ \A y \in on : Height[f] <= Height[y]
    BY <1>2 DEF FirstEnabled
<1> HIDE DEF f
<1>4. f \in Blocks /\ f # Genesis /\ Parent[f] \in Ancestors[f] /\ Ancestors[f] \subseteq Ancestors[b]
    BY <1>1, <1>3, Branches, TreeAssumption
<1>5. \A y \in Ancestors[f] : y \in Blocks /\ Height[y] \in Nat /\ (y # f => Height[y] < Height[f])
    BY <1>4, Branches, TreeAssumption
<1>6. Height[f] \in Nat
    BY <1>4, Branches
<1>7. \A y \in Ancestors[f] : y \in Enabled => y = f
    BY <1>3, <1>4, <1>5, <1>6
<1>8. Parent[f] # f
    BY <1>4, <1>6, Branches
<1>9. Registrations[f] = <<>>
    BY <1>3, <1>4, <1>7, <1>8 DEF NothingInFirst
<1>10. ~Registers(f, n)
    BY <1>9 DEF Registers
<1> QED
    BY <1>7, <1>10 DEF Registering, f
-----------------------------------------------------------------------------
(* The steps.                                                              *)

LEMMA FollowedShrinks ==
    ASSUME inStep' = inStep, replayed' = replayed, mode' \in {mode, "no"}
    PROVE  Followed' \subseteq Followed
BY DEF Followed, OfChain

LEMMA FollowedStays ==
    ASSUME inStep' = inStep, replayed' = replayed, mode' = mode
    PROVE  Followed' = Followed
BY DEF Followed, OfChain

LEMMA FollowedNicks == Followed \subseteq Nicks
BY DEF Followed, OfChain

LEMMA InitPages == Init => PagesInv
<1> SUFFICES ASSUME Init PROVE PagesInv
    OBVIOUS
<1>1. TypeOK
    <2>1. left \in Seq([nick : Nicks, key : Keys])
        BY DEF Init
    <2>2. locked \in BOOLEAN /\ inStep \in BOOLEAN
        BY DEF Init
    <2> QED
        BY <2>1, <2>2, NickAssumption DEF Init, TypeOK
<1>2. Idle
    <2> SUFFICES ASSUME NEW n \in Followed PROVE whitepages[n] = KeyAt(tip, n)
        BY DEF Idle
    <2>1. tip = Genesis /\ n \in Nicks
        BY FollowedNicks DEF Init, Followed
    <2> QED
        BY <2>1, Branches, KeyDisabled DEF Init
<1>3. Connecting /\ Disconnecting /\ Own /\ Rebuilding
    BY DEF Init, Connecting, Disconnecting, Own, Rebuilding
<1> QED
    BY <1>1, <1>2, <1>3 DEF PagesInv

LEMMA ConnectBlockKeeps ==
    ASSUME PagesInv, NEW b \in Blocks, ConnectBlock(b)
    PROVE  PagesInv'
<1>1. /\ pc = "idle" /\ mode # "down" /\ b # Genesis /\ Parent[b] = tip
      /\ coins' = b /\ disk' \in {disk, b} /\ pc' = "connect"
      /\ left' = IF b \in Enabled THEN Registrations[b] ELSE <<>>
      /\ mode' = IF mode = "done" THEN "no" ELSE mode
      /\ UNCHANGED <<tip, whitepages, mynicks, locked, replayed, inStep, crashes>>
    BY DEF ConnectBlock
<1>2. left' = Counting' /\ left' \in Seq([nick : Nicks, key : Keys]) /\ Len(left') \in Nat
    <2>1. Registrations[b] \in Seq([nick : Nicks, key : Keys])
        BY RegistrationsType
    <2>2. left' \in Seq([nick : Nicks, key : Keys])
        BY <1>1, <2>1
    <2> QED
        BY <1>1, <2>2 DEF Counting
<1>3. mode' \in {mode, "no"} /\ mode' # "done" /\ mode' # "down"
    BY <1>1
<1>4. TypeOK'
    <2>1. locked' \in BOOLEAN /\ inStep' \in BOOLEAN
        BY <1>1 DEF PagesInv, TypeOK
    <2> QED
        BY <1>1, <1>2, <1>3, <2>1 DEF PagesInv, TypeOK
<1>5. Idle' /\ Disconnecting' /\ Own'
    BY <1>1 DEF PagesInv, Idle, Disconnecting, Own
<1>6. Connecting'
    <2>1. Gone' = 0 /\ Written' = 0
        BY <1>1, <1>2 DEF Gone, Written
    <2>2. \A n : ~Among(Counting', 0, n)
        BY DEF Among
    <2>3. Followed' \subseteq Followed
        BY <1>1, <1>3, FollowedShrinks
    <2>4. Partly(Counting, Written)'
        <3> SUFFICES ASSUME NEW n \in Followed' PROVE whitepages'[n] = KeyAt(tip', n)
            BY <2>1, <2>2 DEF Partly
        <3> QED
            BY <1>1, <2>3 DEF PagesInv, Idle
    <2>5. Len(left') <= Len(Counting') /\ \A i \in 1..Len(left') : left'[i] = Counting'[Gone' + i]
        BY <1>2, <2>1
    <2> QED
        BY <1>1, <1>3, <2>4, <2>5 DEF Connecting
<1>7. Rebuilding'
    BY <1>1, <1>3 DEF PagesInv, Rebuilding
<1> QED
    BY <1>4, <1>5, <1>6, <1>7 DEF PagesInv

LEMMA HeadAndTail ==
    ASSUME NEW S, NEW q \in Seq(S), q # <<>>
    PROVE  /\ Len(q) \in Nat /\ Len(q) >= 1 /\ Head(q) = q[1] /\ Head(q) \in S
           /\ Tail(q) \in Seq(S) /\ Len(Tail(q)) = Len(q) - 1
           /\ \A i \in 1..Len(Tail(q)) : Tail(q)[i] = q[i + 1]
<1>1. Len(q) \in Nat /\ Len(q) >= 1 /\ Len(Tail(q)) = Len(q) - 1 /\ Head(q) = q[1]
    OBVIOUS
<1>2. q[1] \in S /\ Tail(q) \in Seq(S)
    OBVIOUS
<1>3. \A i \in 1..Len(q) - 1 : Tail(q)[i] = q[i + 1]
    OBVIOUS
<1> QED
    BY <1>1, <1>2, <1>3

\* What is left to go through in ConnectTip, and where it is.
LEMMA Next1 ==
    ASSUME PagesInv, pc \in {"connect", "connectLocal"}, left # <<>>
    PROVE  /\ coins \in Enabled /\ Counting = Registrations[coins] /\ Parent[coins] = tip
           /\ Gone \in Nat /\ Len(left) \in Nat \ {0} /\ Gone + 1 \in 1..Len(Counting)
           /\ Head(left) = Counting[Gone + 1]
           /\ Head(left).nick \in Nicks /\ Head(left).key \in Keys
           /\ Tail(left) \in Seq([nick : Nicks, key : Keys]) /\ Len(Tail(left)) = Len(left) - 1
           /\ Len(Counting) - Len(Tail(left)) = Gone + 1
           /\ \A i \in 1..Len(Tail(left)) : Tail(left)[i] = Counting[Gone + 1 + i]
<1>1. /\ Len(left) <= Len(Counting) /\ \A i \in 1..Len(left) : left[i] = Counting[Gone + i]
      /\ Parent[coins] = tip
    BY DEF PagesInv, Connecting
<1>2. /\ left \in Seq([nick : Nicks, key : Keys]) /\ Len(left) \in Nat /\ Len(left) >= 1
      /\ Head(left) = left[1] /\ Head(left) \in [nick : Nicks, key : Keys]
      /\ Tail(left) \in Seq([nick : Nicks, key : Keys]) /\ Len(Tail(left)) = Len(left) - 1
      /\ \A i \in 1..Len(Tail(left)) : Tail(left)[i] = left[i + 1]
    BY HeadAndTail DEF PagesInv, TypeOK
<1>3. coins \in Enabled /\ Counting = Registrations[coins]
    BY <1>1, <1>2 DEF Counting
<1>4. Len(Counting) \in Nat
    <2>1. coins \in Blocks
        BY DEF PagesInv, TypeOK
    <2> QED
        BY <1>3, <2>1, RegistrationsType
<1>5. Gone \in Nat /\ Gone + 1 \in 1..Len(Counting) /\ Len(Counting) - Len(Tail(left)) = Gone + 1
    BY <1>1, <1>2, <1>4 DEF Gone
<1>6. Head(left) = Counting[Gone + 1]
    BY <1>1, <1>2
<1>7. ASSUME NEW i \in 1..Len(Tail(left)) PROVE Tail(left)[i] = Counting[Gone + 1 + i]
    <2>1. i + 1 \in 1..Len(left) /\ Gone + (i + 1) = Gone + 1 + i
        BY <1>2, <1>5
    <2> QED
        BY <1>1, <1>2, <2>1
<1> QED
    BY <1>1, <1>2, <1>3, <1>5, <1>6, <1>7

\* A nick that comes next in a block is not on the branch below it.
LEMMA NewHere ==
    ASSUME RegisteredOnce, PagesInv, pc = "connect", left # <<>>
    PROVE  KeyAt(tip, Head(left).nick) = NoKey
<1>1. /\ coins \in Enabled /\ Counting = Registrations[coins] /\ Parent[coins] = tip
      /\ Gone + 1 \in 1..Len(Counting) /\ Head(left) = Counting[Gone + 1] /\ Head(left).nick \in Nicks
    BY Next1
<1>2. Registers(coins, Head(left).nick)
    <2>1. coins \in Blocks
        BY DEF PagesInv, TypeOK
    <2> QED
        BY <1>1, <2>1, RegistrationsType DEF Among
<1> QED
    BY <1>1, <1>2, KeyHere

\* What one more registration changes.
LEMMA OneMore ==
    ASSUME NEW r, NEW k \in Nat, NEW n
    PROVE  /\ Among(r, k + 1, n) <=> Among(r, k, n) \/ r[k + 1].nick = n
           /\ \A v : FirstKey(r, k, n, v) => FirstKey(r, k + 1, n, v)
           /\ ~Among(r, k, n) /\ r[k + 1].nick = n => FirstKey(r, k + 1, n, r[k + 1].key)
<1>1. \A i : i \in 1..(k + 1) <=> i \in 1..k \/ i = k + 1
    OBVIOUS
<1>2. (k + 1) - 1 = k
    OBVIOUS
<1>3. Among(r, k + 1, n) <=> Among(r, k, n) \/ r[k + 1].nick = n
    BY <1>1 DEF Among
<1>4. \A v : FirstKey(r, k, n, v) => FirstKey(r, k + 1, n, v)
    BY <1>1 DEF FirstKey
<1>5. ASSUME ~Among(r, k, n), r[k + 1].nick = n PROVE FirstKey(r, k + 1, n, r[k + 1].key)
    <2>1. \A j \in 1..((k + 1) - 1) : r[j].nick # n
        BY <1>2, <1>5 DEF Among
    <2>2. k + 1 \in 1..(k + 1)
        OBVIOUS
    <2> QED
        BY <1>5, <2>1, <2>2 DEF FirstKey
<1> QED
    BY <1>3, <1>4, <1>5

\* The keys that are registered are keys.
LEMMA FirstKeyIsKey ==
    ASSUME NEW b \in Blocks, NEW k \in 0..Len(Registrations[b]), NEW n, NEW v,
           FirstKey(Registrations[b], k, n, v)
    PROVE  v \in Keys
<1>1. PICK i \in 1..k : Registrations[b][i].key = v
    BY DEF FirstKey
<1>2. i \in 1..Len(Registrations[b])
    BY RegistrationsType
<1>3. Registrations[b][i] \in [nick : Nicks, key : Keys]
    <2> DEFINE S == [nick : Nicks, key : Keys]
    <2>1. Registrations[b] \in Seq(S)
        BY RegistrationsType
    <2> HIDE DEF S
    <2>2. Registrations[b][i] \in S
        BY <1>2, <2>1
    <2> QED
        BY <2>2 DEF S
<1> QED
    BY <1>1, <1>3

LEMMA RegisterNickKeeps ==
    ASSUME RegisteredOnce, PagesInv, RegisterNick
    PROVE  PagesInv'
<1> DEFINE h == Head(left)
           k == Gone
<1>1. /\ pc = "connect" /\ left # <<>>
      /\ \/ whitepages[h.nick] # NoKey /\ left' = Tail(left) /\ UNCHANGED <<whitepages, pc>>
         \/ /\ whitepages[h.nick] = NoKey
            /\ whitepages' = [whitepages EXCEPT ![h.nick] = h.key]
            /\ pc' = "connectLocal" /\ UNCHANGED left
      /\ UNCHANGED <<tip, coins, disk, mynicks, locked, mode, replayed, inStep, crashes>>
    BY DEF RegisterNick, chainVars, rebuildVars
<1>2. /\ coins \in Enabled /\ Counting = Registrations[coins] /\ Parent[coins] = tip
      /\ k \in Nat /\ Len(left) \in Nat \ {0} /\ k + 1 \in 1..Len(Counting)
      /\ h = Counting[k + 1] /\ h.nick \in Nicks /\ h.key \in Keys
      /\ Tail(left) \in Seq([nick : Nicks, key : Keys]) /\ Len(Tail(left)) = Len(left) - 1
      /\ Len(Counting) - Len(Tail(left)) = k + 1
      /\ \A i \in 1..Len(Tail(left)) : Tail(left)[i] = Counting[k + 1 + i]
    BY <1>1, Next1
<1>3. /\ coins \in Blocks /\ whitepages \in [Nicks -> Keys \cup {NoKey}] /\ NoKey \notin Keys
      /\ Counting' = Counting /\ Followed' = Followed /\ Followed \subseteq Nicks
    BY <1>1, FollowedStays, FollowedNicks, NickAssumption DEF PagesInv, TypeOK, Counting
<1>4. /\ mode # "down" /\ mode # "done" /\ coins # Genesis
      /\ Len(left) <= Len(Counting) /\ \A i \in 1..Len(left) : left[i] = Counting[k + i]
      /\ Partly(Counting, k)
    BY <1>1 DEF PagesInv, Connecting, Written, Rebuilding
<1>5. whitepages' \in [Nicks -> Keys \cup {NoKey}] /\ left' \in Seq([nick : Nicks, key : Keys])
      /\ \A n \in Nicks : n # h.nick => whitepages'[n] = whitepages[n]
    BY <1>1, <1>2, <1>3 DEF PagesInv, TypeOK
<1>6. KeyAt(tip, h.nick) = NoKey
    BY <1>1, NewHere
<1>7. Written' = k + 1
    BY <1>1, <1>2, <1>3 DEF Written, Gone
<1>8. ASSUME NEW n \in Followed
      PROVE  IF Among(Counting, k + 1, n) THEN FirstKey(Counting, k + 1, n, whitepages'[n])
             ELSE whitepages'[n] = KeyAt(tip, n)
    <2> DEFINE r == Counting
    <2>1. IF Among(r, k, n) THEN FirstKey(r, k, n, whitepages[n]) ELSE whitepages[n] = KeyAt(tip, n)
        BY <1>4 DEF Partly
    <2>2. n \in Nicks
        BY <1>3
    <2>3. FirstKey(r, k, n, whitepages[n]) => whitepages[n] # NoKey
        <3>1. k \in 0..Len(Registrations[coins])
            BY <1>2
        <3> QED
            BY <1>2, <1>3, <3>1, FirstKeyIsKey
    <2> HIDE DEF h, k, r
    <2>4. /\ Among(r, k + 1, n) <=> Among(r, k, n) \/ r[k + 1].nick = n
          /\ \A v : FirstKey(r, k, n, v) => FirstKey(r, k + 1, n, v)
          /\ ~Among(r, k, n) /\ r[k + 1].nick = n => FirstKey(r, k + 1, n, r[k + 1].key)
        BY <1>2, OneMore
    <2>5. r[k + 1] = h
        BY <1>2 DEF r
    <2>6. CASE n # h.nick
        BY <1>5, <2>1, <2>2, <2>4, <2>5, <2>6 DEF r
    <2>7. CASE n = h.nick /\ whitepages[n] # NoKey
        <3>1. whitepages' = whitepages
            BY <1>1, <2>7
        <3>2. Among(r, k, n)
            BY <1>6, <2>1, <2>7
        <3> QED
            BY <2>1, <2>4, <3>1, <3>2 DEF r
    <2>8. CASE n = h.nick /\ whitepages[n] = NoKey
        <3>1. whitepages'[n] = h.key
            BY <1>1, <1>3, <2>2, <2>8
        <3>2. ~Among(r, k, n)
            BY <2>1, <2>3, <2>8
        <3> QED
            BY <2>4, <2>5, <2>8, <3>1, <3>2 DEF r
    <2> QED
        BY <2>6, <2>7, <2>8
<1> HIDE DEF h, k
<1>9. TypeOK'
    <2>1. locked' \in BOOLEAN /\ inStep' \in BOOLEAN
        BY <1>1 DEF PagesInv, TypeOK
    <2> QED
        BY <1>1, <1>5, <2>1 DEF PagesInv, TypeOK
<1>10. Connecting'
    <2>1. Partly(Counting, Written)'
        BY <1>1, <1>3, <1>7, <1>8 DEF Partly
    <2>2. Len(left') <= Len(Counting') /\ \A i \in 1..Len(left') : left'[i] = Counting'[Gone' + i]
        <3>1. CASE left' = left
            BY <1>3, <1>4, <3>1 DEF Gone, k
        <3>2. CASE left' = Tail(left)
            <4>1. Gone' = k + 1
                BY <1>2, <1>3, <3>2 DEF Gone
            <4> QED
                BY <1>2, <1>3, <3>2, <4>1
        <3> QED
            BY <1>1, <3>1, <3>2
    <2>3. pc' = "connectLocal" => left' # <<>> /\ whitepages'[Head(left').nick] = Head(left').key
        BY <1>1, <1>2, <1>3 DEF h
    <2> QED
        BY <1>1, <1>2, <1>4, <2>1, <2>2, <2>3 DEF Connecting
<1>11. Own'
    <2> SUFFICES ASSUME inStep, NEW n \in Nicks PROVE mynicks[n] \in {NoKey, whitepages'[n]}
        BY <1>1 DEF Own
    <2>1. mynicks[n] \in {NoKey, whitepages[n]}
        BY <1>1 DEF PagesInv, Own
    <2> QED
        BY <1>1, <1>5, <2>1
<1>12. Idle' /\ Disconnecting' /\ Rebuilding'
    BY <1>1, <1>4 DEF PagesInv, Idle, Disconnecting, Rebuilding
<1> QED
    BY <1>9, <1>10, <1>11, <1>12 DEF PagesInv

LEMMA RegisterOwnKeeps ==
    ASSUME PagesInv, RegisterOwn
    PROVE  PagesInv'
<1> DEFINE h == Head(left)
           k == Gone
<1>1. /\ pc = "connectLocal" /\ pc' = "connect" /\ left' = Tail(left)
      /\ mynicks' = IF ~locked /\ h.key \in OwnKeys THEN [mynicks EXCEPT ![h.nick] = h.key] ELSE mynicks
      /\ UNCHANGED <<tip, coins, disk, whitepages, locked, mode, replayed, inStep, crashes>>
    BY DEF RegisterOwn, chainVars, rebuildVars
<1>2. /\ left # <<>> /\ whitepages[h.nick] = h.key /\ mode # "down" /\ mode # "done" /\ coins # Genesis
      /\ Partly(Counting, k + 1)
    BY <1>1 DEF PagesInv, Connecting, Written, Rebuilding
<1>3. /\ coins \in Enabled /\ Counting = Registrations[coins] /\ Parent[coins] = tip
      /\ k \in Nat /\ Len(left) \in Nat \ {0} /\ k + 1 \in 1..Len(Counting)
      /\ h = Counting[k + 1] /\ h.nick \in Nicks /\ h.key \in Keys
      /\ Tail(left) \in Seq([nick : Nicks, key : Keys]) /\ Len(Tail(left)) = Len(left) - 1
      /\ Len(Counting) - Len(Tail(left)) = k + 1
      /\ \A i \in 1..Len(Tail(left)) : Tail(left)[i] = Counting[k + 1 + i]
    BY <1>1, <1>2, Next1
<1>4. Counting' = Counting /\ Followed' = Followed
    BY <1>1, FollowedStays DEF Counting
<1>5. Gone' = k + 1 /\ Written' = k + 1
    BY <1>1, <1>3, <1>4 DEF Gone, Written
<1> HIDE DEF h, k
<1>6. mynicks' \in [Nicks -> OwnKeys \cup {NoKey}]
      /\ \A n \in Nicks : mynicks'[n] = mynicks[n] \/ (n = h.nick /\ mynicks'[n] = h.key)
    <2>1. mynicks \in [Nicks -> OwnKeys \cup {NoKey}]
        BY DEF PagesInv, TypeOK
    <2>2. mynicks' = mynicks \/ (h.key \in OwnKeys /\ mynicks' = [mynicks EXCEPT ![h.nick] = h.key])
        BY <1>1
    <2>3. h.nick \in Nicks
        BY <1>3
    <2> QED
        BY <2>1, <2>2, <2>3
<1>7. TypeOK'
    <2>1. locked' \in BOOLEAN /\ inStep' \in BOOLEAN
        BY <1>1 DEF PagesInv, TypeOK
    <2> QED
        BY <1>1, <1>3, <1>6, <2>1 DEF PagesInv, TypeOK
<1>8. Connecting'
    <2>1. Partly(Counting, Written)'
        BY <1>1, <1>2, <1>4, <1>5 DEF Partly
    <2>2. Len(left') <= Len(Counting') /\ \A i \in 1..Len(left') : left'[i] = Counting'[Gone' + i]
        BY <1>1, <1>3, <1>4, <1>5
    <2> QED
        BY <1>1, <1>2, <1>3, <2>1, <2>2 DEF Connecting
<1>9. Own'
    <2> SUFFICES ASSUME inStep, NEW n \in Nicks PROVE mynicks'[n] \in {NoKey, whitepages[n]}
        BY <1>1 DEF Own
    <2>1. mynicks[n] \in {NoKey, whitepages[n]}
        BY <1>1 DEF PagesInv, Own
    <2> QED
        BY <1>2, <1>6, <2>1 DEF h
<1>10. Idle' /\ Disconnecting' /\ Rebuilding'
    BY <1>1, <1>2 DEF PagesInv, Idle, Disconnecting, Rebuilding
<1> QED
    BY <1>7, <1>8, <1>9, <1>10 DEF PagesInv

LEMMA ConnectedKeeps ==
    ASSUME RegisteredOnce, PagesInv, Connected
    PROVE  PagesInv'
<1>1. /\ pc = "connect" /\ left = <<>> /\ tip' = coins /\ pc' = "idle"
      /\ mode' = IF mode = "up" /\ coins = replayed THEN "done" ELSE mode
      /\ UNCHANGED <<coins, disk, whitepages, mynicks, locked, left, replayed, inStep, crashes>>
    BY DEF Connected
<1>2. mode # "down" /\ mode # "done" /\ coins # Genesis /\ Parent[coins] = tip /\ coins \in Blocks
    BY <1>1 DEF PagesInv, Connecting, Rebuilding, TypeOK
<1>3. Partly(Counting, Len(Counting))
    <2>1. Len(left) = 0 /\ Len(Counting) \in Nat
        BY <1>1, <1>2, RegistrationsType DEF Counting
    <2>2. Written = Len(Counting)
        BY <1>1, <2>1 DEF Written, Gone
    <2> QED
        BY <1>1, <2>2 DEF PagesInv, Connecting
<1>4. Followed' = Followed /\ Followed \subseteq Nicks
    <2>1. mode' \in {"up", "done"} <=> mode \in {"up", "done"}
        BY <1>1
    <2> QED
        BY <1>1, <2>1, FollowedNicks DEF Followed, OfChain
<1>5. ASSUME NEW n \in Followed PROVE whitepages[n] = KeyAt(coins, n)
    <2>1. n \in Nicks
        BY <1>4
    <2>2. CASE coins \in Enabled /\ Registers(coins, n)
        <3> DEFINE r == Registrations[coins]
        <3>1. Counting = r /\ Among(r, Len(r), n)
            BY <1>2, <2>2, RegistrationsType DEF Counting
        <3>2. FirstKey(r, Len(r), n, whitepages[n])
            BY <1>3, <3>1 DEF Partly
        <3> QED
            BY <2>1, <2>2, <3>2, KeyHere
    <2>3. CASE coins \notin Enabled \/ ~Registers(coins, n)
        <3>1. ~Among(Counting, Len(Counting), n)
            <4>1. CASE coins \in Enabled
                BY <1>2, <2>3, <4>1, RegistrationsType DEF Counting
            <4>2. CASE coins \notin Enabled
                BY <4>2 DEF Counting, Among
            <4> QED
                BY <4>1, <4>2
        <3>2. whitepages[n] = KeyAt(tip, n)
            BY <1>3, <3>1 DEF Partly
        <3> QED
            BY <1>2, <2>3, <3>2, KeyBelow
    <2> QED
        BY <2>2, <2>3
<1>6. TypeOK'
    <2>1. locked' \in BOOLEAN /\ inStep' \in BOOLEAN
        BY <1>1 DEF PagesInv, TypeOK
    <2> QED
        BY <1>1, <1>2, <2>1 DEF PagesInv, TypeOK
<1>7. Idle'
    BY <1>1, <1>4, <1>5 DEF Idle
<1>8. Own' /\ Connecting' /\ Disconnecting'
    BY <1>1 DEF PagesInv, Own, Connecting, Disconnecting
<1>9. Rebuilding'
    BY <1>1, <1>2 DEF PagesInv, Rebuilding
<1> QED
    BY <1>6, <1>7, <1>8, <1>9 DEF PagesInv

LEMMA Backwards ==
    ASSUME NEW S, NEW q \in Seq(S)
    PROVE  /\ LastFirst(q) \in Seq(S) /\ Len(LastFirst(q)) = Len(q) /\ Len(q) \in Nat
           /\ \A i \in 1..Len(q) : Len(q) - i + 1 \in 1..Len(q) /\ LastFirst(q)[i] = q[Len(q) - i + 1]
<1>1. Len(q) \in Nat /\ \A i \in 1..Len(q) : Len(q) - i + 1 \in 1..Len(q) /\ q[i] \in S
    OBVIOUS
<1>2. LastFirst(q) = [i \in 1..Len(q) |-> q[(Len(q) - i) + 1]]
    BY DEF LastFirst
<1>3. LastFirst(q) \in [1..Len(q) -> S]
    BY <1>1, <1>2
<1>4. LastFirst(q) \in Seq(S) /\ Len(LastFirst(q)) = Len(q)
    BY <1>1, <1>3
<1> QED
    BY <1>1, <1>2, <1>4

LEMMA StartDisconnectKeeps ==
    ASSUME PagesInv, StartDisconnect
    PROVE  PagesInv'
<1> DEFINE S == [nick : Nicks, key : Keys]
           r == Registrations[tip]
<1>1. /\ pc = "idle" /\ tip # Genesis /\ pc' = "disconnect" /\ left' = LastFirst(r)
      /\ mode' = IF mode = "done" THEN "no" ELSE mode
      /\ UNCHANGED <<tip, coins, disk, whitepages, mynicks, locked, replayed, inStep, crashes>>
    BY DEF StartDisconnect, chainVars
<1>2. mode' \in {mode, "no"} /\ mode' # "done" /\ (mode' = "down" <=> mode = "down")
    BY <1>1
<1>3. tip \in Blocks /\ coins = tip /\ Followed' \subseteq Followed
    BY <1>1, <1>2, FollowedShrinks DEF PagesInv, TypeOK
<1>4. r \in Seq(S) /\ DOMAIN r = 1..Len(r)
    BY <1>3, RegistrationsType
<1>5. /\ left' \in Seq(S) /\ Len(left') = Len(r) /\ Len(r) \in Nat
      /\ \A i \in 1..Len(r) : Len(r) - i + 1 \in 1..Len(r) /\ left'[i] = r[Len(r) - i + 1]
    <2> HIDE DEF S, r
    <2> QED
        BY <1>1, <1>4, Backwards
<1>6. \A i \in 1..Len(left') : Registers(tip, left'[i].nick)
    BY <1>4, <1>5 DEF Registers
<1>7. \A n : Registers(tip, n) => Among(left', Len(left'), n)
    <2> SUFFICES ASSUME NEW n, Registers(tip, n) PROVE Among(left', Len(left'), n)
        OBVIOUS
    <2>1. PICK i \in 1..Len(r) : r[i].nick = n
        BY <1>4 DEF Registers
    <2>2. Len(r) - i + 1 \in 1..Len(r) /\ Len(r) - (Len(r) - i + 1) + 1 = i
        BY <1>5
    <2>3. left'[Len(r) - i + 1] = r[i]
        BY <1>5, <2>2
    <2> QED
        BY <1>5, <2>1, <2>2, <2>3 DEF Among
<1>8. TypeOK'
    <2>1. locked' \in BOOLEAN /\ inStep' \in BOOLEAN
        BY <1>1 DEF PagesInv, TypeOK
    <2> QED
        BY <1>1, <1>2, <1>5, <2>1 DEF PagesInv, TypeOK
<1>9. Disconnecting'
    <2>1. \A n \in Followed' : whitepages[n] = KeyAt(tip, n)
        BY <1>1, <1>3 DEF PagesInv, Idle
    <2> QED
        BY <1>1, <1>3, <1>6, <1>7, <2>1 DEF Disconnecting
<1>10. Own' /\ Idle' /\ Connecting'
    BY <1>1 DEF PagesInv, Own, Idle, Connecting
<1>11. Rebuilding'
    BY <1>1, <1>2 DEF PagesInv, Rebuilding
<1> QED
    BY <1>8, <1>9, <1>10, <1>11 DEF PagesInv

\* What is left to go through in DisconnectTip.
LEMMA NextBack ==
    ASSUME PagesInv, pc \in {"disconnect", "disconnectLocal"}, left # <<>>
    PROVE  /\ Len(left) \in Nat /\ Len(left) >= 1 /\ Head(left) = left[1]
           /\ Head(left).nick \in Nicks /\ Head(left).key \in Keys /\ Registers(tip, Head(left).nick)
           /\ Tail(left) \in Seq([nick : Nicks, key : Keys]) /\ Len(Tail(left)) = Len(left) - 1
           /\ \A i \in 1..Len(Tail(left)) : Tail(left)[i] = left[i + 1] /\ Registers(tip, Tail(left)[i].nick)
           /\ \A n : Among(left, Len(left), n) => n = Head(left).nick \/ Among(Tail(left), Len(Tail(left)), n)
<1> DEFINE S == [nick : Nicks, key : Keys]
<1>1. left \in Seq(S) /\ \A i \in 1..Len(left) : Registers(tip, left[i].nick)
    BY DEF PagesInv, TypeOK, Disconnecting
<1>2. /\ Len(left) \in Nat /\ Len(left) >= 1 /\ Head(left) = left[1] /\ Head(left) \in S
      /\ Tail(left) \in Seq(S) /\ Len(Tail(left)) = Len(left) - 1
      /\ \A i \in 1..Len(Tail(left)) : Tail(left)[i] = left[i + 1]
    <2> HIDE DEF S
    <2> QED
        BY <1>1, HeadAndTail
<1>3. \A i \in 1..Len(Tail(left)) : i + 1 \in 1..Len(left) /\ Registers(tip, Tail(left)[i].nick)
    BY <1>1, <1>2
<1>4. ASSUME NEW n, Among(left, Len(left), n)
      PROVE  n = Head(left).nick \/ Among(Tail(left), Len(Tail(left)), n)
    <2>1. PICK i \in 1..Len(left) : left[i].nick = n
        BY <1>4 DEF Among
    <2>2. CASE i = 1
        BY <1>2, <2>1, <2>2
    <2>3. CASE i # 1
        <3>1. i - 1 \in 1..Len(Tail(left)) /\ (i - 1) + 1 = i
            BY <1>2, <2>1, <2>3
        <3>2. Tail(left)[i - 1] = left[i]
            BY <1>2, <3>1
        <3> QED
            BY <2>1, <3>1, <3>2 DEF Among
    <2> QED
        BY <2>2, <2>3
<1> QED
    BY <1>1, <1>2, <1>3, <1>4

LEMMA RemoveNickKeeps ==
    ASSUME PagesInv, RemoveNick
    PROVE  PagesInv'
<1> DEFINE h == Head(left)
<1>1. /\ pc = "disconnect" /\ left # <<>> /\ pc' = "disconnectLocal"
      /\ whitepages' = [whitepages EXCEPT ![h.nick] = NoKey]
      /\ UNCHANGED <<tip, coins, disk, mynicks, locked, left, mode, replayed, inStep, crashes>>
    BY DEF RemoveNick, chainVars, rebuildVars
<1>2. h.nick \in Nicks /\ Registers(tip, h.nick)
    BY <1>1, NextBack
<1>3. /\ whitepages' \in [Nicks -> Keys \cup {NoKey}] /\ whitepages'[h.nick] = NoKey
      /\ \A n \in Nicks : n # h.nick => whitepages'[n] = whitepages[n]
    <2> HIDE DEF h
    <2> QED
        BY <1>1, <1>2 DEF PagesInv, TypeOK
<1>4. Followed' = Followed /\ Followed \subseteq Nicks /\ mode # "done"
    BY <1>1, FollowedStays, FollowedNicks DEF PagesInv, Rebuilding
<1>5. TypeOK'
    <2>1. locked' \in BOOLEAN /\ inStep' \in BOOLEAN
        BY <1>1 DEF PagesInv, TypeOK
    <2> QED
        BY <1>1, <1>3, <2>1 DEF PagesInv, TypeOK
<1>6. Disconnecting'
    <2>1. \A n \in Nicks : Registers(tip, n) => whitepages'[n] = NoKey \/ Among(left, Len(left), n)
        BY <1>1, <1>3 DEF PagesInv, Disconnecting
    <2>2. \A n \in Followed : ~Registers(tip, n) => whitepages'[n] = KeyAt(tip, n)
        BY <1>1, <1>2, <1>3, <1>4 DEF PagesInv, Disconnecting
    <2> QED
        BY <1>1, <1>3, <1>4, <2>1, <2>2 DEF PagesInv, Disconnecting
<1>7. Own'
    <2> SUFFICES ASSUME inStep, NEW n \in Nicks, n # h.nick PROVE mynicks[n] \in {NoKey, whitepages'[n]}
        BY <1>1 DEF Own
    <2> QED
        BY <1>1, <1>3 DEF PagesInv, Own
<1>8. Idle' /\ Connecting'
    BY <1>1 DEF Idle, Connecting
<1>9. Rebuilding'
    <2>1. \A n \in OfChain(replayed) : n \in Nicks /\ (whitepages'[n] # NoKey => whitepages[n] # NoKey)
        BY <1>3 DEF OfChain
    <2> QED
        BY <1>1, <1>4, <2>1 DEF PagesInv, Rebuilding
<1> QED
    BY <1>5, <1>6, <1>7, <1>8, <1>9 DEF PagesInv

LEMMA RemoveOwnKeeps ==
    ASSUME PagesInv, RemoveOwn
    PROVE  PagesInv'
<1> DEFINE h == Head(left)
<1>1. /\ pc = "disconnectLocal" /\ pc' = "disconnect" /\ left' = Tail(left)
      /\ mynicks' = [mynicks EXCEPT ![h.nick] = NoKey]
      /\ UNCHANGED <<tip, coins, disk, whitepages, locked, mode, replayed, inStep, crashes>>
    BY DEF RemoveOwn, chainVars, rebuildVars
<1>2. left # <<>> /\ whitepages[h.nick] = NoKey
    BY <1>1 DEF PagesInv, Disconnecting
<1>3. /\ h.nick \in Nicks /\ left' \in Seq([nick : Nicks, key : Keys])
      /\ \A i \in 1..Len(left') : Registers(tip, left'[i].nick)
      /\ \A n : Among(left, Len(left), n) => n = h.nick \/ Among(left', Len(left'), n)
    BY <1>1, <1>2, NextBack
<1>4. /\ mynicks' \in [Nicks -> OwnKeys \cup {NoKey}] /\ mynicks'[h.nick] = NoKey
      /\ \A n \in Nicks : n # h.nick => mynicks'[n] = mynicks[n]
    <2> HIDE DEF h
    <2> QED
        BY <1>1, <1>3 DEF PagesInv, TypeOK
<1>5. Followed' = Followed /\ mode # "done"
    BY <1>1, FollowedStays DEF PagesInv, Rebuilding
<1>6. TypeOK'
    <2>1. locked' \in BOOLEAN /\ inStep' \in BOOLEAN
        BY <1>1 DEF PagesInv, TypeOK
    <2> QED
        BY <1>1, <1>3, <1>4, <2>1 DEF PagesInv, TypeOK
<1>7. Disconnecting'
    <2>1. \A n \in Nicks : Registers(tip, n) => whitepages[n] = NoKey \/ Among(left', Len(left'), n)
        BY <1>1, <1>2, <1>3 DEF PagesInv, Disconnecting
    <2> QED
        BY <1>1, <1>3, <1>5, <2>1 DEF PagesInv, Disconnecting
<1>8. Own'
    <2> SUFFICES ASSUME inStep, NEW n \in Nicks PROVE mynicks'[n] \in {NoKey, whitepages[n]}
        BY <1>1 DEF Own
    <2> QED
        BY <1>1, <1>4 DEF PagesInv, Own
<1>9. Idle' /\ Connecting'
    BY <1>1 DEF Idle, Connecting
<1>10. Rebuilding'
    BY <1>1, <1>5 DEF PagesInv, Rebuilding
<1> QED
    BY <1>6, <1>7, <1>8, <1>9, <1>10 DEF PagesInv

LEMMA DisconnectedKeeps ==
    ASSUME RegisteredOnce, PagesInv, Disconnected
    PROVE  PagesInv'
<1> DEFINE p == Parent[tip]
<1>1. /\ pc = "disconnect" /\ left = <<>> /\ pc' = "idle"
      /\ tip' = p /\ coins' = p /\ disk' \in {disk, p}
      /\ mode' = IF mode = "down" /\ p = FirstEnabled(replayed) THEN "up" ELSE mode
      /\ UNCHANGED <<whitepages, mynicks, locked, left, replayed, inStep, crashes>>
    BY DEF Disconnected
<1>2. tip # Genesis /\ tip \in Blocks /\ p \in Blocks /\ mode # "done"
    BY <1>1, Branches DEF PagesInv, TypeOK, Disconnecting, Rebuilding
<1>3. \A n \in Nicks : Registers(tip, n) => whitepages[n] = NoKey
    <2>1. \A n : ~Among(left, Len(left), n)
        BY <1>1 DEF Among
    <2> QED
        BY <1>1, <2>1 DEF PagesInv, Disconnecting
<1>4. ASSUME NEW n \in Followed PROVE whitepages[n] = KeyAt(p, n)
    <2>1. n \in Nicks
        BY FollowedNicks
    <2>2. CASE ~Registers(tip, n)
        BY <1>1, <1>2, <2>2, KeyBelow DEF PagesInv, Disconnecting
    <2>3. CASE Registers(tip, n) /\ tip \in Enabled
        BY <1>3, <2>1, <2>3, KeyHere
    <2>4. CASE Registers(tip, n) /\ tip \notin Enabled
        BY <1>2, <1>3, <2>1, <2>4, KeyBelow, KeyDisabled
    <2> QED
        BY <2>2, <2>3, <2>4
<1>5. ASSUME mode = "down", NEW n \in OfChain(replayed), whitepages[n] # NoKey
      PROVE  Registering(p, n) # {}
    <2>1. n \in Nicks /\ Registering(tip, n) # {}
        BY <1>5 DEF OfChain, PagesInv, Rebuilding
    <2>2. ~Registers(tip, n)
        BY <1>3, <1>5, <2>1
    <2> QED
        BY <1>2, <2>1, <2>2, KeyBelow
<1>6. ASSUME NEW n \in Followed' PROVE whitepages[n] = KeyAt(p, n)
    <2>1. CASE n \in Followed
        BY <1>4, <2>1
    <2>2. CASE n \notin Followed
        <3>1. /\ NothingInFirst /\ mode = "down" /\ p = FirstEnabled(replayed)
              /\ n \in OfChain(replayed)
            <4>1. inStep' = inStep /\ replayed' = replayed
                BY <1>1
            <4>2. mode' # mode
                BY <2>2, <4>1, FollowedStays
            <4>3. mode = "down" /\ p = FirstEnabled(replayed)
                BY <1>1, <4>2
            <4>4. NothingInFirst /\ n \in OfChain(replayed)
                BY <2>2, <4>1 DEF Followed, OfChain
            <4> QED
                BY <4>3, <4>4
        <3>2. Registering(p, n) = {}
            BY <3>1, FirstHasNone DEF PagesInv, Rebuilding
        <3> QED
            BY <1>5, <3>1, <3>2, KeyOfNone
    <2> QED
        BY <2>1, <2>2
<1>7. TypeOK'
    <2>1. locked' \in BOOLEAN /\ inStep' \in BOOLEAN
        BY <1>1 DEF PagesInv, TypeOK
    <2> QED
        BY <1>1, <1>2, <2>1 DEF PagesInv, TypeOK
<1>8. Idle'
    BY <1>1, <1>6 DEF Idle
<1>9. Own' /\ Connecting' /\ Disconnecting'
    BY <1>1 DEF PagesInv, Own, Connecting, Disconnecting
<1>10. Rebuilding'
    BY <1>1, <1>2, <1>5 DEF PagesInv, Rebuilding, OfChain
<1> QED
    BY <1>7, <1>8, <1>9, <1>10 DEF PagesInv

\* Steps that change neither the tip nor the White Pages.
LEMMA QuietKeeps ==
    ASSUME PagesInv, disk' \in Blocks, locked' \in BOOLEAN,
           UNCHANGED <<tip, coins, whitepages, mynicks, pc, left, mode, replayed, inStep, crashes>>
    PROVE  PagesInv'
<1>1. TypeOK'
    <2>1. inStep' \in BOOLEAN
        BY DEF PagesInv, TypeOK
    <2> QED
        BY <2>1 DEF PagesInv, TypeOK
<1>2. Followed' = Followed
    BY FollowedStays
<1>3. Counting' = Counting /\ Gone' = Gone /\ Written' = Written
    BY DEF Counting, Gone, Written
<1>4. Idle' /\ Disconnecting' /\ Own' /\ Rebuilding'
    BY <1>2 DEF PagesInv, Idle, Disconnecting, Own, Rebuilding
<1>5. Partly(Counting, Written)' <=> Partly(Counting, Written)
    BY <1>2, <1>3 DEF Partly
<1>6. Connecting'
    BY <1>3, <1>5 DEF PagesInv, Connecting
<1> QED
    BY <1>1, <1>4, <1>6 DEF PagesInv

LEMMA CrashKeeps ==
    ASSUME PagesInv, Crash
    PROVE  PagesInv'
<1>1. /\ crashes < MaxCrashes /\ crashes' = crashes + 1 /\ tip' = disk /\ coins' = disk
      /\ pc' = "idle" /\ left' = <<>> /\ mode' = "no" /\ replayed' = NoBlock /\ inStep' = FALSE
      /\ UNCHANGED <<disk, whitepages, mynicks, locked>>
    BY DEF Crash
<1>2. TypeOK'
    <2>1. locked' \in BOOLEAN /\ inStep' \in BOOLEAN
        BY <1>1 DEF PagesInv, TypeOK
    <2>2. left' \in Seq([nick : Nicks, key : Keys])
        BY <1>1
    <2>3. crashes' \in 0..MaxCrashes
        BY <1>1, NickAssumption DEF PagesInv, TypeOK
    <2> QED
        BY <1>1, <2>1, <2>2, <2>3 DEF PagesInv, TypeOK
<1>3. Followed' = {}
    BY <1>1 DEF Followed
<1>4. Idle' /\ Connecting' /\ Disconnecting' /\ Own' /\ Rebuilding'
    BY <1>1, <1>3 DEF Idle, Connecting, Disconnecting, Own, Rebuilding
<1> QED
    BY <1>2, <1>4 DEF PagesInv

LEMMA RebuildKeeps ==
    ASSUME PagesInv, Rebuild
    PROVE  PagesInv'
<1>1. /\ pc = "idle" /\ mode \in {"no", "done"} /\ tip \in Enabled
      /\ mode' = "down" /\ replayed' = tip
      /\ UNCHANGED <<tip, coins, disk, whitepages, mynicks, locked, pc, left, inStep, crashes>>
    BY DEF Rebuild, chainVars
<1>2. TypeOK'
    <2>1. locked' \in BOOLEAN /\ inStep' \in BOOLEAN
        BY <1>1 DEF PagesInv, TypeOK
    <2> QED
        BY <1>1, <2>1 DEF PagesInv, TypeOK
<1>3. Followed' \subseteq Followed
    BY <1>1 DEF Followed
<1>4. Idle' /\ Connecting' /\ Disconnecting' /\ Own'
    BY <1>1, <1>3 DEF PagesInv, Idle, Connecting, Disconnecting, Own
<1>5. Rebuilding'
    <2>1. \A n \in OfChain(tip) : Registering(tip, n) # {}
        BY KeyOfNone DEF OfChain
    <2> QED
        BY <1>1, <2>1 DEF PagesInv, TypeOK, Rebuilding, OfChain
<1> QED
    BY <1>2, <1>4, <1>5 DEF PagesInv

LEMMA NextPages ==
    ASSUME RegisteredOnce, PagesInv, [Next]_vars
    PROVE  PagesInv'
<1>1. disk \in Blocks /\ coins \in Blocks /\ locked \in BOOLEAN
    BY DEF PagesInv, TypeOK
<1>2. CASE \E b \in Blocks : ConnectBlock(b)
    BY <1>2, ConnectBlockKeeps
<1>3. CASE RegisterNick \/ RegisterOwn \/ Connected
    BY <1>3, RegisterNickKeeps, RegisterOwnKeeps, ConnectedKeeps
<1>4. CASE StartDisconnect \/ RemoveNick \/ RemoveOwn \/ Disconnected
    BY <1>4, StartDisconnectKeeps, RemoveNickKeeps, RemoveOwnKeeps, DisconnectedKeeps
<1>5. CASE FlushStateToDisk
    <2>1. disk' \in Blocks /\ locked' \in BOOLEAN
        BY <1>1, <1>5 DEF FlushStateToDisk
    <2> QED
        BY <1>5, <2>1, QuietKeeps DEF FlushStateToDisk, rebuildVars
<1>6. CASE LockOrUnlock
    <2>1. disk' \in Blocks /\ locked' \in BOOLEAN
        BY <1>1, <1>6 DEF LockOrUnlock, chainVars
    <2> QED
        BY <1>6, <2>1, QuietKeeps DEF LockOrUnlock, chainVars, rebuildVars
<1>7. CASE Crash \/ RebuildTooEarly
    BY <1>7, CrashKeeps DEF RebuildTooEarly
<1>8. CASE Rebuild
    BY <1>8, RebuildKeeps
<1>9. CASE UNCHANGED vars
    <2>1. disk' \in Blocks /\ locked' \in BOOLEAN
        BY <1>1, <1>9 DEF vars, chainVars
    <2> QED
        BY <1>9, <2>1, QuietKeeps DEF vars, chainVars, rebuildVars
<1> QED
    BY <1>2, <1>3, <1>4, <1>5, <1>6, <1>7, <1>8, <1>9 DEF Next

LEMMA AlwaysPages == RegisteredOnce => (Spec => []PagesInv)
<1> SUFFICES ASSUME RegisteredOnce PROVE Spec => []PagesInv
    OBVIOUS
<1>1. PagesInv /\ [Next]_vars => PagesInv'
    BY NextPages
<1> QED
    BY <1>1, InitPages, PTL DEF Spec

\* In any tree without a nick registered in two blocks of a branch, ConnectTip and
\* DisconnectTip undo each other: whatever reorganisations and rebuilds there
\* were, the White Pages of a node that has not crashed are those of its chain.
THEOREM PagesAlwaysMatch == RegisteredOnce => (Spec => []WhitePagesMatchChain)
<1>1. PagesInv => WhitePagesMatchChain
    BY DEF PagesInv, Idle, Own, Followed, WhitePagesMatchChain
<1> QED
    BY <1>1, AlwaysPages, PTL

\* If moreover the first block of Rialto registers nothing, a rebuild gives every
\* nick of the chain its key, after any crashes and from any White Pages.
THEOREM RebuildAlwaysRepairs ==
    RegisteredOnce /\ NothingInFirst => (Spec => []RebuildRepairs)
<1> SUFFICES ASSUME RegisteredOnce, NothingInFirst PROVE Spec => []RebuildRepairs
    OBVIOUS
<1>1. PagesInv => RebuildRepairs
    <2> SUFFICES ASSUME PagesInv, mode = "done", NEW n \in Nicks, KeyAt(tip, n) # NoKey
                 PROVE  whitepages[n] = KeyAt(tip, n)
        BY DEF RebuildRepairs
    <2>1. pc = "idle" /\ tip = replayed
        BY DEF PagesInv, Rebuilding
    <2>2. n \in Followed
        BY <2>1 DEF Followed, OfChain
    <2> QED
        BY <2>1, <2>2 DEF PagesInv, Idle
<1> QED
    BY <1>1, AlwaysPages, PTL
=============================================================================
