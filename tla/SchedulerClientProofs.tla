------------------------ MODULE SchedulerClientProofs ------------------------
(***************************************************************************)
(* For any sets of threads and any number of callbacks: callbacks run one  *)
(* at a time and in order, none is stranded, EmptyQueue leaves none, and a *)
(* Sync returns after all that was added before it.                        *)
(*                                                                         *)
(* The invariant ties m_are_callbacks_running to the thread that set it,   *)
(* numbers the callbacks in the queue consecutively after the ones begun,  *)
(* and says which thread may be where during shutdown.                     *)
(*                                                                         *)
(* Then CScheduler, on any number of threads: each task is in one place    *)
(* and starts once, draining leaves nothing, and a thread that services    *)
(* the queue alone starts nothing early.  The invariant keeps the multimap *)
(* in the order of its keys and ties a lone waiter to its first entry.     *)
(***************************************************************************)
EXTENDS SchedulerClient, Scheduler, TLAPS

\* The provers, in turn, where a leaf names none.
USE ZenonT(5), SMTT(40), ZenonT(40), Z3T(40)

PCs == {"idle", "maybe", "schedule", "syncing", "process", "callback",
        "reset", "check", "emptied", "exited"}

\* Where the three kinds of threads may be.
Roles ==
    /\ \A c \in Callers : pc[c] \in {"idle", "maybe", "schedule", "syncing"}
    /\ \A s \in Servers : pc[s] \in {"idle", "process", "callback", "reset", "maybe", "schedule", "exited"}
    /\ pc[Main] \notin {"syncing", "exited"}
    /\ \A t \in Threads : mark[t] # 0 => t \in Callers
    /\ stopping => \A c \in Callers : pc[c] = "idle"
    /\ pc[Main] # "idle" => stopping /\ \A s \in Servers : pc[s] = "exited"

\* The flag is set exactly while some thread is between ProcessQueue and ~RAII.
FlagHeld ==
    /\ \A t \in Threads : pc[t] \in Running => m_are_callbacks_running
    /\ m_are_callbacks_running => \E t \in Threads : pc[t] \in Running
    /\ OneAtATime
    /\ \A t \in Threads : cur[t] = IF pc[t] = "callback" THEN finished + 1 ELSE 0

\* How many callbacks have begun.
Begun == IF \E t \in Threads : pc[t] = "callback" THEN finished + 1 ELSE finished

\* The queue q holds the callbacks after the b-th up to the n-th.
Consecutive(q, b, n) ==
    /\ n = b + Len(q)
    /\ \A i \in 1..Len(q) : q[i] = b + i

Numbered == Consecutive(m_callbacks_pending, Begun, added)

Emptied == pc[Main] = "emptied" => m_callbacks_pending = <<>>

(* The number after a natural number is not the "no callback" value 0. *)
LEMMA SuccessorNotZero == \A n \in Nat : n + 1 # 0
    OBVIOUS

IInv == TypeOK /\ Roles /\ FlagHeld /\ Numbered /\ NothingStranded /\ Emptied
----------------------------------------------------------------------------
LEMMA AppendConsecutive ==
    ASSUME NEW q \in Seq(Nat), NEW b \in Nat, NEW n \in Nat, Consecutive(q, b, n)
    PROVE  Consecutive(Append(q, n + 1), b, n + 1)
<1>1. Len(Append(q, n + 1)) = Len(q) + 1 /\ Len(q) \in Nat
    OBVIOUS
<1>2. \A i \in 1..Len(q) + 1 : Append(q, n + 1)[i] = IF i <= Len(q) THEN q[i] ELSE n + 1
    OBVIOUS
<1> QED
    BY <1>1, <1>2 DEF Consecutive

LEMMA TailConsecutive ==
    ASSUME NEW q \in Seq(Nat), NEW b \in Nat, NEW n \in Nat, Consecutive(q, b, n), q # <<>>
    PROVE  Head(q) = b + 1 /\ Tail(q) \in Seq(Nat) /\ Consecutive(Tail(q), b + 1, n)
<1>1. Len(q) \in Nat /\ Len(q) >= 1 /\ Len(Tail(q)) = Len(q) - 1 /\ Head(q) = q[1] /\ Tail(q) \in Seq(Nat)
    OBVIOUS
<1>2. \A i \in 1..Len(q) - 1 : Tail(q)[i] = q[i + 1]
    OBVIOUS
<1> QED
    BY <1>1, <1>2 DEF Consecutive

LEMMA BegunNat == TypeOK => Begun \in Nat
BY DEF TypeOK, Begun

LEMMA InitIInv == Init => IInv
<1> SUFFICES ASSUME Init PROVE IInv
    OBVIOUS
<1>1. TypeOK
    <2>1. m_callbacks_pending \in Seq(Nat)
        BY DEF Init
    <2>2. m_are_callbacks_running \in BOOLEAN /\ stopping \in BOOLEAN
        BY DEF Init
    <2> QED
        BY <2>1, <2>2 DEF Init, TypeOK
<1>2. Roles
    BY DEF Init, Roles, Threads
<1>3. FlagHeld
    BY DEF Init, FlagHeld, OneAtATime, Running
<1>4. Begun = 0
    BY DEF Init, Begun
<1>5. Numbered
    BY <1>4 DEF Init, Numbered, Consecutive
<1>6. NothingStranded /\ Emptied
    BY DEF Init, NothingStranded, Emptied, Threads
<1> QED
    BY <1>1, <1>2, <1>3, <1>5, <1>6 DEF IInv

LEMMA AddKeeps ==
    ASSUME IInv, NEW c \in Callers, NEW sync \in BOOLEAN, AddToProcessQueue(c, sync)
    PROVE  IInv'
<1> USE DEF IInv
<1>1. c \in Threads /\ c \notin Servers /\ c # Main /\ Main \in Threads /\ Servers \subseteq Threads /\ Callers \subseteq Threads
    BY ClientAssumption DEF Threads
<1>2. /\ pc[c] = "idle" /\ ~stopping /\ added' = added + 1
      /\ m_callbacks_pending' = Append(m_callbacks_pending, added + 1)
      /\ pc' = [pc EXCEPT ![c] = "maybe"]
      /\ UNCHANGED <<m_are_callbacks_running, scheduled, cur, stopping, finished>>
    BY DEF AddToProcessQueue
<1>3. mark' \in [Threads -> Nat] /\ \A t \in Threads : t # c => mark'[t] = mark[t]
    <2> DEFINE m == IF sync THEN added + 1 ELSE 0
    <2>1. m \in Nat
        BY DEF TypeOK
    <2>2. mark' = [mark EXCEPT ![c] = m]
        BY DEF AddToProcessQueue
    <2> HIDE DEF m
    <2> QED
        BY <2>1, <2>2, <1>1 DEF TypeOK
<1>4. TypeOK'
    <2>1. m_callbacks_pending' \in Seq(Nat) /\ added' \in Nat
        BY <1>2 DEF TypeOK
    <2> QED
        BY <2>1, <1>1, <1>2, <1>3 DEF TypeOK
<1>5. Roles'
    BY <1>1, <1>2, <1>3 DEF Roles, TypeOK
<1>6. FlagHeld'
    BY <1>1, <1>2 DEF FlagHeld, OneAtATime, Running, TypeOK
<1>7. Begun' = Begun
    BY <1>1, <1>2 DEF Begun, TypeOK
<1>8. Numbered'
    <2>1. m_callbacks_pending \in Seq(Nat) /\ Begun \in Nat /\ added \in Nat
          /\ Consecutive(m_callbacks_pending, Begun, added)
        BY BegunNat DEF Numbered, TypeOK
    <2>2. Consecutive(Append(m_callbacks_pending, added + 1), Begun, added + 1)
        BY <2>1, AppendConsecutive
    <2> QED
        BY <2>2, <1>2, <1>7 DEF Numbered
<1>9. NothingStranded'
    BY <1>1, <1>2 DEF NothingStranded, TypeOK
<1>10. Emptied'
    BY <1>1, <1>2 DEF Emptied, Roles, TypeOK
<1> QED
    BY <1>4, <1>5, <1>6, <1>8, <1>9, <1>10

LEMMA SyncDoneKeeps == ASSUME IInv, NEW c \in Callers, SyncDone(c) PROVE IInv'
<1> USE DEF IInv
<1>1. c \in Threads /\ c \notin Servers /\ c # Main /\ Main \in Threads /\ Servers \subseteq Threads /\ Callers \subseteq Threads
    BY ClientAssumption DEF Threads
<1>2. /\ pc[c] = "syncing" /\ pc' = [pc EXCEPT ![c] = "idle"] /\ mark' = [mark EXCEPT ![c] = 0]
      /\ UNCHANGED <<m_callbacks_pending, m_are_callbacks_running, scheduled, cur, stopping, added, finished>>
    BY DEF SyncDone
<1>3. TypeOK'
    BY <1>1, <1>2 DEF TypeOK
<1>4. Roles'
    BY <1>1, <1>2 DEF Roles, TypeOK
<1>5. FlagHeld'
    BY <1>1, <1>2 DEF FlagHeld, OneAtATime, Running, TypeOK
<1>6. Begun' = Begun
    BY <1>1, <1>2 DEF Begun, TypeOK
<1>7. Numbered'
    BY <1>2, <1>6 DEF Numbered
<1>8. NothingStranded'
    BY <1>1, <1>2 DEF NothingStranded, TypeOK
<1>9. Emptied'
    BY <1>1, <1>2 DEF Emptied, TypeOK
<1> QED
    BY <1>3, <1>4, <1>5, <1>7, <1>8, <1>9

LEMMA Kinds ==
    /\ Main \in Threads /\ Servers \subseteq Threads /\ Callers \subseteq Threads
    /\ \A t \in Threads : t \in Servers \/ t \in Callers \/ t = Main
    /\ Main \notin Servers /\ Main \notin Callers
    /\ \A s \in Servers : s \notin Callers
BY ClientAssumption DEF Threads

\* A thread that moves without a callback on either side.
LEMMA QuietMove ==
    ASSUME IInv, NEW t \in Threads, NEW v \in PCs,
           pc[t] \notin Running, v \notin Running, pc' = [pc EXCEPT ![t] = v],
           UNCHANGED <<m_callbacks_pending, m_are_callbacks_running, cur, mark, added, finished>>,
           scheduled' \in Nat, stopping' \in BOOLEAN
    PROVE  TypeOK' /\ FlagHeld' /\ Numbered'
<1> USE DEF IInv
<1>1. TypeOK'
    BY DEF TypeOK, PCs
<1>2. FlagHeld'
    BY DEF FlagHeld, OneAtATime, Running, TypeOK
<1>3. Begun' = Begun
    BY DEF Begun, TypeOK, Running
<1>4. Numbered'
    BY <1>3 DEF Numbered
<1> QED
    BY <1>1, <1>2, <1>4

LEMMA AfterKinds ==
    ASSUME IInv, NEW t \in Threads
    PROVE  /\ After(t) \in PCs /\ After(t) \notin Running
           /\ t \in Servers => After(t) = "idle"
           /\ t \in Callers => After(t) \in {"idle", "syncing"}
           /\ t = Main => After(t) = "check"
BY Kinds DEF IInv, Roles, After, PCs, Running

LEMMA MaybeKeeps == ASSUME IInv, NEW t \in Threads, MaybeScheduleProcessQueue(t) PROVE IInv'
<1> DEFINE skip == m_are_callbacks_running \/ m_callbacks_pending = <<>>
           v == IF skip THEN After(t) ELSE "schedule"
<1>1. /\ pc[t] = "maybe" /\ pc' = [pc EXCEPT ![t] = v]
      /\ UNCHANGED <<m_callbacks_pending, m_are_callbacks_running, scheduled, cur, mark,
                     stopping, added, finished>>
    BY DEF MaybeScheduleProcessQueue
<1>2. v = After(t) \/ v = "schedule"
    OBVIOUS
<1>3. v = "schedule" \/ m_are_callbacks_running \/ m_callbacks_pending = <<>>
    OBVIOUS
<1> HIDE DEF v
<1>4. v \in PCs /\ v \notin Running /\ pc[t] \notin Running
    BY <1>1, <1>2, AfterKinds DEF PCs, Running
<1>5. scheduled' \in Nat /\ stopping' \in BOOLEAN
    BY <1>1 DEF IInv, TypeOK
<1>6. TypeOK' /\ FlagHeld' /\ Numbered'
    BY <1>1, <1>4, <1>5, QuietMove
<1>7. Roles'
    BY <1>1, <1>2, AfterKinds, Kinds DEF IInv, Roles, TypeOK
<1>8. NothingStranded'
    BY <1>1, <1>3 DEF IInv, TypeOK, NothingStranded
<1>9. v # "emptied"
    BY <1>2, AfterKinds, Kinds
<1>10. Emptied'
    BY <1>1, <1>9 DEF IInv, TypeOK, Emptied
<1> QED
    BY <1>6, <1>7, <1>8, <1>10 DEF IInv

LEMMA ScheduleKeeps == ASSUME IInv, NEW t \in Threads, Schedule(t) PROVE IInv'
<1>1. /\ pc[t] = "schedule" /\ pc' = [pc EXCEPT ![t] = After(t)] /\ scheduled' = scheduled + 1
      /\ UNCHANGED <<m_callbacks_pending, m_are_callbacks_running, cur, mark, stopping, added, finished>>
    BY DEF Schedule
<1>2. After(t) \in PCs /\ After(t) \notin Running /\ pc[t] \notin Running
    BY <1>1, AfterKinds DEF Running
<1>3. scheduled' \in Nat /\ stopping' \in BOOLEAN /\ scheduled' > 0
    BY <1>1 DEF IInv, TypeOK
<1>4. TypeOK' /\ FlagHeld' /\ Numbered'
    BY <1>1, <1>2, <1>3, QuietMove
<1>5. Roles'
    BY <1>1, AfterKinds, Kinds DEF IInv, Roles, TypeOK
<1>6. NothingStranded'
    BY <1>3 DEF NothingStranded
<1>7. After(t) # "emptied"
    BY AfterKinds, Kinds
<1>8. Emptied'
    BY <1>1, <1>7 DEF IInv, TypeOK, Emptied
<1> QED
    BY <1>4, <1>5, <1>6, <1>8 DEF IInv

LEMMA TakeTaskKeeps == ASSUME IInv, NEW t \in Servers, TakeTask(t) PROVE IInv'
<1>1. /\ pc[t] = "idle" /\ ~stopping /\ scheduled > 0 /\ pc' = [pc EXCEPT ![t] = "process"]
      /\ scheduled' = scheduled - 1
      /\ UNCHANGED <<m_callbacks_pending, m_are_callbacks_running, cur, mark, stopping, added, finished>>
    BY DEF TakeTask
<1>2. "process" \in PCs /\ "process" \notin Running /\ pc[t] \notin Running /\ t \in Threads
    BY <1>1, Kinds DEF Running, PCs
<1>3. scheduled' \in Nat /\ stopping' \in BOOLEAN
    BY <1>1 DEF IInv, TypeOK
<1>4. TypeOK' /\ FlagHeld' /\ Numbered'
    BY <1>1, <1>2, <1>3, QuietMove
<1>5. Roles'
    BY <1>1, Kinds DEF IInv, Roles, TypeOK
<1>6. NothingStranded'
    BY <1>1, <1>2 DEF IInv, TypeOK, NothingStranded
<1>7. Emptied'
    BY <1>1, Kinds DEF IInv, TypeOK, Emptied
<1> QED
    BY <1>4, <1>5, <1>6, <1>7 DEF IInv

LEMMA ExitKeeps == ASSUME IInv, NEW t \in Servers, Exit(t) PROVE IInv'
<1>1. /\ pc[t] = "idle" /\ stopping /\ pc' = [pc EXCEPT ![t] = "exited"]
      /\ UNCHANGED <<m_callbacks_pending, m_are_callbacks_running, scheduled, cur, mark, stopping, added, finished>>
    BY DEF Exit
<1>2. "exited" \in PCs /\ "exited" \notin Running /\ pc[t] \notin Running /\ t \in Threads
    BY <1>1, Kinds DEF Running, PCs
<1>3. scheduled' \in Nat /\ stopping' \in BOOLEAN
    BY <1>1 DEF IInv, TypeOK
<1>4. TypeOK' /\ FlagHeld' /\ Numbered'
    BY <1>1, <1>2, <1>3, QuietMove
<1>5. Roles'
    BY <1>1, Kinds DEF IInv, Roles, TypeOK
<1>6. NothingStranded'
    BY <1>1, <1>2 DEF IInv, TypeOK, NothingStranded
<1>7. Emptied'
    BY <1>1, Kinds DEF IInv, TypeOK, Emptied
<1> QED
    BY <1>4, <1>5, <1>6, <1>7 DEF IInv

LEMMA EmptyQueueKeeps == IInv /\ EmptyQueue => IInv'
<1> SUFFICES ASSUME IInv, EmptyQueue PROVE IInv'
    OBVIOUS
<1>1. /\ pc[Main] = "idle" /\ stopping /\ pc' = [pc EXCEPT ![Main] = "process"]
      /\ \A s \in Servers : pc[s] = "exited"
      /\ UNCHANGED <<m_callbacks_pending, m_are_callbacks_running, scheduled, cur, mark, stopping, added, finished>>
    BY DEF EmptyQueue
<1>2. "process" \in PCs /\ "process" \notin Running /\ pc[Main] \notin Running /\ Main \in Threads
    BY <1>1, Kinds DEF Running, PCs
<1>3. scheduled' \in Nat /\ stopping' \in BOOLEAN
    BY <1>1 DEF IInv, TypeOK
<1>4. TypeOK' /\ FlagHeld' /\ Numbered'
    BY <1>1, <1>2, <1>3, QuietMove
<1>5. Roles'
    BY <1>1, Kinds DEF IInv, Roles, TypeOK
<1>6. NothingStranded'
    BY <1>1, <1>2 DEF IInv, TypeOK, NothingStranded
<1>7. Emptied'
    BY <1>1, <1>2 DEF IInv, TypeOK, Emptied
<1> QED
    BY <1>4, <1>5, <1>6, <1>7 DEF IInv

LEMMA EmptyQueueLoopKeeps == IInv /\ EmptyQueueLoop => IInv'
<1> SUFFICES ASSUME IInv, EmptyQueueLoop PROVE IInv'
    OBVIOUS
<1> DEFINE v == IF m_callbacks_pending = <<>> THEN "emptied" ELSE "process"
<1>1. /\ pc[Main] = "check" /\ pc' = [pc EXCEPT ![Main] = v]
      /\ UNCHANGED <<m_callbacks_pending, m_are_callbacks_running, scheduled, cur, mark, stopping, added, finished>>
    BY DEF EmptyQueueLoop
<1>2. v \in PCs /\ v \notin Running /\ pc[Main] \notin Running /\ Main \in Threads
    BY <1>1, Kinds DEF Running, PCs
<1>3. v \in {"emptied", "process"} /\ (v = "process" \/ m_callbacks_pending = <<>>)
    OBVIOUS
<1> HIDE DEF v
<1>4. scheduled' \in Nat /\ stopping' \in BOOLEAN
    BY <1>1 DEF IInv, TypeOK
<1>5. TypeOK' /\ FlagHeld' /\ Numbered'
    BY <1>1, <1>2, <1>4, QuietMove
<1>6. Roles'
    BY <1>1, <1>3, Kinds DEF IInv, Roles, TypeOK
<1>7. NothingStranded'
    BY <1>1, <1>2, <1>3 DEF IInv, TypeOK, NothingStranded
<1>8. Emptied'
    BY <1>1, <1>2, <1>3 DEF IInv, TypeOK, Emptied
<1> QED
    BY <1>5, <1>6, <1>7, <1>8 DEF IInv

LEMMA ShutdownKeeps == IInv /\ Shutdown => IInv'
<1> SUFFICES ASSUME IInv, Shutdown PROVE IInv'
    OBVIOUS
<1>1. /\ \A c \in Callers : pc[c] = "idle" /\ stopping' = TRUE
      /\ UNCHANGED <<m_callbacks_pending, m_are_callbacks_running, scheduled, pc, cur, mark, added, finished>>
    BY DEF Shutdown
<1>2. stopping' \in BOOLEAN
    BY DEF Shutdown
<1>3. TypeOK'
    BY <1>1, <1>2 DEF IInv, TypeOK
<1>4. Roles'
    BY <1>1 DEF IInv, Roles, Shutdown
<1>5. FlagHeld' /\ NothingStranded' /\ Emptied'
    BY <1>1 DEF IInv, FlagHeld, OneAtATime, NothingStranded, Emptied
<1>6. Numbered'
    BY <1>1 DEF IInv, Numbered, Begun, Consecutive
<1> QED
    BY <1>3, <1>4, <1>5, <1>6 DEF IInv

LEMMA ProcessQueueKeeps == ASSUME IInv, NEW t \in Threads, ProcessQueue(t) PROVE IInv'
<1>1. pc[t] = "process" /\ UNCHANGED <<scheduled, mark, stopping, added, finished>>
    BY DEF ProcessQueue
<1>2. TypeOK /\ Roles /\ FlagHeld /\ Numbered
    BY DEF IInv
<1>3. CASE m_are_callbacks_running \/ m_callbacks_pending = <<>>
    <2>1. /\ pc' = [pc EXCEPT ![t] = After(t)]
          /\ UNCHANGED <<m_callbacks_pending, m_are_callbacks_running, cur>>
        BY <1>3 DEF ProcessQueue
    <2>2. After(t) \in PCs /\ After(t) \notin Running /\ pc[t] \notin Running
        BY <1>1, AfterKinds DEF Running
    <2>3. scheduled' \in Nat /\ stopping' \in BOOLEAN
        BY <1>1, <1>2 DEF TypeOK
    <2>4. TypeOK' /\ FlagHeld' /\ Numbered'
        BY <1>1, <2>1, <2>2, <2>3, QuietMove
    <2>5. Roles'
        BY <1>1, <1>2, <2>1, AfterKinds, Kinds DEF Roles, TypeOK
    <2>6. NothingStranded'
        BY <1>3, <2>1 DEF NothingStranded
    <2>7. After(t) # "emptied"
        BY AfterKinds, Kinds
    <2>8. Emptied'
        BY <2>1, <2>7 DEF IInv, TypeOK, Emptied
    <2> QED
        BY <2>4, <2>5, <2>6, <2>8 DEF IInv
<1>4. CASE ~m_are_callbacks_running /\ m_callbacks_pending # <<>>
    <2>1. /\ m_are_callbacks_running' = TRUE
          /\ cur' = [cur EXCEPT ![t] = Head(m_callbacks_pending)]
          /\ m_callbacks_pending' = Tail(m_callbacks_pending)
          /\ pc' = [pc EXCEPT ![t] = "callback"]
        BY <1>4 DEF ProcessQueue
    <2>2. \A u \in Threads : pc[u] \notin Running
        BY <1>2, <1>4 DEF FlagHeld
    <2>3. Begun = finished /\ finished \in Nat
        BY <1>2, <2>2 DEF Begun, Running, TypeOK
    <2>4. /\ Head(m_callbacks_pending) = finished + 1
          /\ Tail(m_callbacks_pending) \in Seq(Nat)
          /\ Consecutive(Tail(m_callbacks_pending), finished + 1, added)
        <3>1. m_callbacks_pending \in Seq(Nat) /\ added \in Nat
              /\ Consecutive(m_callbacks_pending, finished, added)
            BY <1>2, <2>3 DEF TypeOK, Numbered
        <3> QED
            BY <3>1, <2>3, <1>4, TailConsecutive
    <2>5. TypeOK'
        <3>1. m_are_callbacks_running' \in BOOLEAN /\ stopping' \in BOOLEAN
            BY <1>1, <1>2, <2>1 DEF TypeOK
        <3> QED
            BY <3>1, <1>1, <1>2, <2>1, <2>3, <2>4 DEF TypeOK
    <2>6. Roles'
        BY <1>1, <1>2, <2>1, Kinds DEF Roles, TypeOK
    <2>7. FlagHeld'
        <3>1. \A u \in Threads : pc'[u] = (IF u = t THEN "callback" ELSE pc[u])
                                 /\ cur'[u] = (IF u = t THEN finished + 1 ELSE cur[u])
            BY <1>2, <2>1, <2>4 DEF TypeOK
        <3> QED
            BY <1>1, <1>2, <2>1, <2>2, <3>1 DEF FlagHeld, OneAtATime, Running
    <2>8. Begun' = finished + 1
        BY <1>1, <1>2, <2>1 DEF Begun, TypeOK
    <2>9. Numbered'
        BY <1>1, <2>1, <2>4, <2>8 DEF Numbered
    <2>10. NothingStranded'
        BY <2>1 DEF NothingStranded
    <2>11. Emptied'
        BY <1>2, <2>1, <2>2, <1>4 DEF IInv, TypeOK, Emptied
    <2> QED
        BY <2>5, <2>6, <2>7, <2>9, <2>10, <2>11 DEF IInv
<1> QED
    BY <1>3, <1>4

LEMMA AddFromCallbackKeeps == ASSUME IInv, NEW t \in Threads, AddFromCallback(t) PROVE IInv'
<1>1. /\ pc[t] = "callback" /\ added' = added + 1
      /\ m_callbacks_pending' = Append(m_callbacks_pending, added + 1)
      /\ UNCHANGED <<m_are_callbacks_running, scheduled, pc, cur, mark, stopping, finished>>
    BY DEF AddFromCallback
<1>2. TypeOK /\ Roles /\ FlagHeld /\ Numbered
    BY DEF IInv
<1>3. TypeOK'
    <2>1. m_callbacks_pending' \in Seq(Nat) /\ added' \in Nat
        BY <1>1, <1>2 DEF TypeOK
    <2> QED
        BY <2>1, <1>1, <1>2 DEF TypeOK
<1>4. Roles' /\ FlagHeld'
    BY <1>1, <1>2 DEF Roles, FlagHeld, OneAtATime
<1>5. Begun' = Begun
    BY <1>1 DEF Begun
<1>6. Numbered'
    <2>1. m_callbacks_pending \in Seq(Nat) /\ Begun \in Nat /\ added \in Nat
          /\ Consecutive(m_callbacks_pending, Begun, added)
        BY <1>2, BegunNat DEF Numbered, TypeOK
    <2>2. Consecutive(Append(m_callbacks_pending, added + 1), Begun, added + 1)
        BY <2>1, AppendConsecutive
    <2> QED
        BY <2>2, <1>1, <1>5 DEF Numbered
<1>7. m_are_callbacks_running
    BY <1>1, <1>2 DEF FlagHeld, Running
<1>8. NothingStranded'
    BY <1>1, <1>7 DEF NothingStranded
<1>9. pc[Main] # "emptied"
    BY <1>1, <1>2, Kinds DEF Roles
<1>10. Emptied'
    BY <1>1, <1>9 DEF Emptied
<1> QED
    BY <1>3, <1>4, <1>6, <1>8, <1>10 DEF IInv

LEMMA FinishKeeps == ASSUME IInv, NEW t \in Threads, Finish(t) PROVE IInv'
<1>1. /\ pc[t] = "callback" /\ finished' = cur[t]
      /\ cur' = [cur EXCEPT ![t] = 0] /\ pc' = [pc EXCEPT ![t] = "reset"]
      /\ UNCHANGED <<m_callbacks_pending, m_are_callbacks_running, scheduled, mark, stopping, added>>
    BY DEF Finish
<1>2. TypeOK /\ Roles /\ FlagHeld /\ Numbered
    BY DEF IInv
<1>3. cur[t] = finished + 1 /\ finished \in Nat /\ m_are_callbacks_running
    BY <1>1, <1>2 DEF FlagHeld, TypeOK, Running
<1>4. \A u \in Threads : u # t => pc[u] \notin Running
    BY <1>1, <1>2 DEF FlagHeld, OneAtATime, Running
<1>5. TypeOK'
    BY <1>1, <1>2, <1>3 DEF TypeOK
<1>6. Roles'
    BY <1>1, <1>2, Kinds DEF Roles, TypeOK
<1>7. FlagHeld'
    <2>1. \A u \in Threads : pc'[u] = (IF u = t THEN "reset" ELSE pc[u])
                             /\ cur'[u] = (IF u = t THEN 0 ELSE cur[u])
        BY <1>1, <1>2 DEF TypeOK
    <2>2. \A u \in Threads : u # t => cur[u] = 0
        BY <1>2, <1>4 DEF FlagHeld, Running
    <2> QED
        BY <1>1, <1>3, <1>4, <2>1, <2>2 DEF FlagHeld, OneAtATime, Running
<1>8. Begun = finished + 1 /\ Begun' = finished + 1
    BY <1>1, <1>2, <1>3, <1>4 DEF Begun, TypeOK, Running
<1>9. Numbered'
    BY <1>1, <1>2, <1>8 DEF Numbered
<1>10. NothingStranded'
    BY <1>1, <1>3 DEF NothingStranded
<1>11. Emptied'
    BY <1>1, <1>2 DEF IInv, TypeOK, Emptied
<1> QED
    BY <1>5, <1>6, <1>7, <1>9, <1>10, <1>11 DEF IInv

LEMMA ResetKeeps == ASSUME IInv, NEW t \in Threads, Reset(t) PROVE IInv'
<1>1. /\ pc[t] = "reset" /\ m_are_callbacks_running' = FALSE /\ pc' = [pc EXCEPT ![t] = "maybe"]
      /\ UNCHANGED <<m_callbacks_pending, scheduled, cur, mark, stopping, added, finished>>
    BY DEF Reset
<1>2. TypeOK /\ Roles /\ FlagHeld /\ Numbered
    BY DEF IInv
<1>3. \A u \in Threads : u # t => pc[u] \notin Running
    BY <1>1, <1>2 DEF FlagHeld, OneAtATime, Running
<1>4. TypeOK'
    <2>1. m_are_callbacks_running' \in BOOLEAN
        BY <1>1
    <2> QED
        BY <2>1, <1>1, <1>2 DEF TypeOK
<1>5. Roles'
    BY <1>1, <1>2, Kinds DEF Roles, TypeOK
<1>6. \A u \in Threads : pc'[u] = IF u = t THEN "maybe" ELSE pc[u]
    BY <1>1, <1>2 DEF TypeOK
<1>7. FlagHeld'
    BY <1>1, <1>2, <1>3, <1>6 DEF FlagHeld, OneAtATime, Running
<1>8. Begun' = Begun
    BY <1>1, <1>6 DEF Begun
<1>9. Numbered'
    BY <1>1, <1>2, <1>8 DEF Numbered
<1>10. NothingStranded'
    BY <1>6 DEF NothingStranded
<1>11. Emptied'
    BY <1>1, <1>2 DEF IInv, TypeOK, Emptied
<1> QED
    BY <1>4, <1>5, <1>7, <1>9, <1>10, <1>11 DEF IInv

LEMMA NextIInv == IInv /\ [Next]_vars => IInv'
<1> SUFFICES ASSUME IInv, [Next]_vars PROVE IInv'
    OBVIOUS
<1>1. CASE \E c \in Callers, sync \in BOOLEAN : AddToProcessQueue(c, sync)
    BY <1>1, AddKeeps
<1>2. CASE \E c \in Callers : SyncDone(c)
    BY <1>2, SyncDoneKeeps
<1>3. CASE \E s \in Servers : TakeTask(s) \/ Exit(s)
    BY <1>3, TakeTaskKeeps, ExitKeeps
<1>4. CASE \E t \in Threads : Proceed(t)
    BY <1>4, MaybeKeeps, ScheduleKeeps, ProcessQueueKeeps, FinishKeeps, ResetKeeps DEF Proceed
<1>5. CASE \E t \in Threads : AddFromCallback(t)
    BY <1>5, AddFromCallbackKeeps
<1>6. CASE Shutdown \/ EmptyQueue \/ EmptyQueueLoop
    BY <1>6, ShutdownKeeps, EmptyQueueKeeps, EmptyQueueLoopKeeps
<1>7. CASE UNCHANGED vars
    <2>1. UNCHANGED <<m_callbacks_pending, m_are_callbacks_running, scheduled, pc, cur, mark,
                      stopping, added, finished>>
        BY <1>7 DEF vars
    <2>2. TypeOK' /\ Roles' /\ FlagHeld' /\ NothingStranded' /\ Emptied'
        BY <2>1 DEF IInv, TypeOK, Roles, FlagHeld, OneAtATime, NothingStranded, Emptied
    <2>3. Numbered'
        BY <2>1 DEF IInv, Numbered, Begun, Consecutive
    <2> QED
        BY <2>2, <2>3 DEF IInv
<1> QED
    BY <1>1, <1>2, <1>3, <1>4, <1>5, <1>6, <1>7 DEF Next

LEMMA AlwaysIInv == Spec => []IInv
BY InitIInv, NextIInv, PTL DEF Spec

\* "no two jobs will be executed at the same time": ProcessQueue is exclusive
\* for any number of scheduler threads.
THEOREM CallbacksOneAtATime == Spec => []OneAtATime
<1>1. IInv => OneAtATime
    BY DEF IInv, FlagHeld
<1> QED
    BY <1>1, AlwaysIInv, PTL

\* A callback in m_callbacks_pending always has somebody who will look at it.
THEOREM CallbacksNeverStranded == Spec => []NothingStranded
<1>1. IInv => NothingStranded
    BY DEF IInv
<1> QED
    BY <1>1, AlwaysIInv, PTL

\* EmptyQueue returns when every callback ever added has run.
THEOREM ShutdownLeavesNothing == Spec => []EmptiedAtShutdown
<1>1. IInv => EmptiedAtShutdown
    <2> SUFFICES ASSUME IInv, pc[Main] = "emptied"
                 PROVE  m_callbacks_pending = <<>> /\ ~m_are_callbacks_running /\ finished = added
        BY DEF EmptiedAtShutdown
    <2>1. m_callbacks_pending = <<>>
        BY DEF IInv, Emptied
    <2>2. \A t \in Threads : pc[t] \notin Running
        BY Kinds DEF IInv, Roles, Running
    <2>3. ~m_are_callbacks_running
        BY <2>2 DEF IInv, FlagHeld
    <2>4. Begun = finished
        BY <2>2 DEF Begun, Running
    <2>5. finished = added
        BY <2>1, <2>4 DEF IInv, Numbered, Consecutive, TypeOK
    <2> QED
        BY <2>1, <2>3, <2>5
<1> QED
    BY <1>1, AlwaysIInv, PTL

\* SyncWithValidationInterfaceQueue returns when its own callback runs, and by then
\* every callback added before it has run, on whatever thread.
THEOREM SyncAlwaysSeesEverything == Spec => SyncSeesEverything
<1>1. IInv /\ [Next]_vars =>
          [\A c \in Callers : pc[c] = "syncing" /\ pc'[c] = "idle" => finished >= mark[c] - 1]_vars
    <2> SUFFICES ASSUME IInv, Next, NEW c \in Callers, pc[c] = "syncing", pc'[c] = "idle"
                 PROVE  finished >= mark[c] - 1
        OBVIOUS
    <2>1. c \in Threads /\ pc \in [Threads -> PCs] /\ finished \in Nat /\ mark[c] \in Nat
        BY Kinds DEF IInv, TypeOK, PCs
    <2>2. CASE SyncDone(c)
        <3>1. finished >= mark[c] \/ \E t \in Threads : cur[t] = mark[c]
            BY <2>2 DEF SyncDone
        <3>2. \A t \in Threads : cur[t] = finished + 1 \/ cur[t] = 0
            BY DEF IInv, FlagHeld
        <3> QED
            BY <2>1, <3>1, <3>2
    <2>3. CASE \E d \in Callers : d # c /\ SyncDone(d)
        BY <2>1, <2>3 DEF SyncDone
    <2>4. CASE \E d \in Callers, sync \in BOOLEAN : AddToProcessQueue(d, sync)
        BY <2>1, <2>4 DEF AddToProcessQueue
    <2>5. CASE \E s \in Servers : TakeTask(s) \/ Exit(s)
        BY <2>1, <2>5 DEF TakeTask, Exit
    <2>6. CASE \E t \in Threads : Proceed(t)
        <3>1. PICK t \in Threads : Proceed(t)
            BY <2>6
        <3>2. pc[t] # "syncing" /\ \A u \in Threads : u # t => pc'[u] = pc[u]
            BY <2>1, <3>1 DEF Proceed, MaybeScheduleProcessQueue, Schedule, ProcessQueue, Finish, Reset
        <3> QED
            BY <2>1, <3>2
    <2>7. CASE \E t \in Threads : AddFromCallback(t)
        BY <2>1, <2>7 DEF AddFromCallback
    <2>8. CASE Shutdown \/ EmptyQueue \/ EmptyQueueLoop
        BY <2>1, <2>8 DEF Shutdown, EmptyQueue, EmptyQueueLoop
    <2> QED
        BY <2>2, <2>3, <2>4, <2>5, <2>6, <2>7, <2>8 DEF Next
<1> QED
    BY <1>1, AlwaysIInv, PTL DEF Spec, SyncSeesEverything
----------------------------------------------------------------------------
(* The client implements CallbackFifo.                                     *)

LEMMA CurrentOfIs ==
    ASSUME NEW f, NEW n, NEW t \in Threads, f[t] # 0, \A u \in Threads : f[u] \in {0, n}
    PROVE  CurrentOf(f) = n
<1> DEFINE u == CHOOSE u \in Threads : f[u] # 0
<1>1. u \in Threads /\ f[u] # 0
    OBVIOUS
<1>2. f[u] = n
    BY <1>1
<1> QED
    BY <1>2 DEF CurrentOf

LEMMA CurrentIs ==
    ASSUME IInv
    PROVE  /\ \A t \in Threads : pc[t] = "callback" => current = finished + 1
           /\ (\A t \in Threads : pc[t] # "callback") => current = 0
           /\ finished \in Nat
<1>1. \A t \in Threads : cur[t] = IF pc[t] = "callback" THEN finished + 1 ELSE 0
    BY DEF IInv, FlagHeld
<1>2. finished \in Nat
    BY DEF IInv, TypeOK
<1>3. ASSUME NEW t \in Threads, pc[t] = "callback" PROVE current = finished + 1
    <2>1. cur[t] # 0
        BY <1>1, <1>2, <1>3
    <2>2. CurrentOf(cur) = finished + 1
        BY <2>1, <1>1, CurrentOfIs
    <2> QED
        BY <2>2 DEF current
<1>4. ASSUME \A t \in Threads : pc[t] # "callback" PROVE current = 0
    BY <1>1, <1>4 DEF current, CurrentOf
<1> QED
    BY <1>2, <1>3, <1>4

\* Who runs a callback does not change.
LEMMA SameCurrent ==
    ASSUME UNCHANGED cur PROVE current' = current
BY DEF current

LEMMA StepRefines ==
    ASSUME IInv, IInv', [Next]_vars
    PROVE  [Fifo!Next]_(Fifo!fifoVars)
<1>1. ASSUME NEW c \in Callers, NEW sync \in BOOLEAN, AddToProcessQueue(c, sync)
      PROVE  Fifo!Submit
    BY <1>1, SameCurrent DEF AddToProcessQueue, Fifo!Submit
<1>2. ASSUME NEW t \in Threads, AddFromCallback(t) PROVE Fifo!Submit
    BY <1>2, SameCurrent DEF AddFromCallback, Fifo!Submit
<1>3. ASSUME UNCHANGED <<m_callbacks_pending, cur, added, finished>>
      PROVE  UNCHANGED Fifo!fifoVars
    BY <1>3, SameCurrent DEF Fifo!fifoVars
<1>4. ASSUME NEW t \in Threads, ProcessQueue(t) PROVE [Fifo!Next]_(Fifo!fifoVars)
    <2>1. CASE m_are_callbacks_running \/ m_callbacks_pending = <<>>
        BY <1>3, <1>4, <2>1 DEF ProcessQueue
    <2>2. CASE ~m_are_callbacks_running /\ m_callbacks_pending # <<>>
        <3>1. /\ cur' = [cur EXCEPT ![t] = Head(m_callbacks_pending)]
              /\ m_callbacks_pending' = Tail(m_callbacks_pending)
              /\ pc' = [pc EXCEPT ![t] = "callback"]
              /\ UNCHANGED <<added, finished>>
            BY <1>4, <2>2 DEF ProcessQueue
        <3>2. \A u \in Threads : pc[u] # "callback"
            BY <2>2 DEF IInv, FlagHeld, Running
        <3>3. current = 0
            BY <3>2, CurrentIs
        <3>4. pc'[t] = "callback"
            BY <3>1 DEF IInv, TypeOK
        <3>5. cur'[t] = finished' + 1
            BY <3>4 DEF IInv, FlagHeld
        <3>6. cur'[t] = Head(m_callbacks_pending)
            BY <3>1 DEF IInv, TypeOK
        <3>7. current' = finished' + 1
            <4>1. \A u \in Threads : cur'[u] = IF pc'[u] = "callback" THEN finished' + 1 ELSE 0
                BY DEF IInv, FlagHeld
            <4>2. finished' \in Nat
                BY DEF IInv, TypeOK
            <4>3. cur'[t] # 0
                BY <3>5, <4>2, SuccessorNotZero
            <4>4. CurrentOf(cur') = finished' + 1
                BY <4>1, <4>3, CurrentOfIs
            <4>5. current' = CurrentOf(cur')
                BY DEF current
            <4> QED
                BY <4>4, <4>5
        <3>8. Fifo!Begin
            BY <2>2, <3>1, <3>3, <3>5, <3>6, <3>7 DEF Fifo!Begin
        <3> QED
            BY <3>8 DEF Fifo!Next
    <2> QED
        BY <2>1, <2>2
<1>5. ASSUME NEW t \in Threads, Finish(t) PROVE Fifo!End
    <2>1. /\ pc[t] = "callback" /\ finished' = cur[t] /\ cur' = [cur EXCEPT ![t] = 0]
          /\ UNCHANGED <<m_callbacks_pending, added>>
        BY <1>5 DEF Finish
    <2>2. current = finished + 1 /\ finished \in Nat
        BY <2>1, CurrentIs
    <2>3. cur[t] = finished + 1
        BY <2>1 DEF IInv, FlagHeld
    <2>4. \A u \in Threads : cur'[u] = 0
        BY <2>1 DEF IInv, FlagHeld, OneAtATime, Running, TypeOK
    <2>5. current' = 0
        BY <2>4 DEF current, CurrentOf
    <2> QED
        BY <2>1, <2>2, <2>3, <2>5 DEF Fifo!End
<1>6. CASE \E t \in Threads : Proceed(t)
    <2>1. PICK t \in Threads : Proceed(t)
        BY <1>6
    <2>2. CASE MaybeScheduleProcessQueue(t) \/ Schedule(t) \/ Reset(t)
        BY <2>2, <1>3 DEF MaybeScheduleProcessQueue, Schedule, Reset
    <2> QED
        BY <2>1, <2>2, <1>4, <1>5 DEF Proceed, Fifo!Next
<1>7. CASE \/ \E c \in Callers : SyncDone(c)
           \/ \E s \in Servers : TakeTask(s) \/ Exit(s)
           \/ Shutdown \/ EmptyQueue \/ EmptyQueueLoop
    BY <1>7, <1>3 DEF SyncDone, TakeTask, Exit, Shutdown, EmptyQueue, EmptyQueueLoop
<1>8. CASE UNCHANGED vars
    BY <1>8, <1>3 DEF vars
<1> QED
    BY <1>1, <1>2, <1>6, <1>7, <1>8 DEF Next, Fifo!Next

\* "all callbacks happen in-order": SingleThreadedSchedulerClient implements a
\* queue whose callbacks run one at a time, each once, in the order of arrival.
THEOREM ClientImplementsFifo == Spec => ImplementsFifo
<1>1. Init => Fifo!Init
    BY DEF Init, Fifo!Init, current, CurrentOf
<1> QED
    BY <1>1, AlwaysIInv, StepRefines, PTL DEF Spec, ImplementsFifo, Fifo!Spec
----------------------------------------------------------------------------
(* CScheduler.                                                             *)

Entry == Nat \X Tasks

\* The multimap is in the order of its keys.
InOrder(queue) == \A i, j \in 1..Len(queue) : i <= j => queue[i][1] <= queue[j][1]

Queueing ==
    /\ clock \in Nat /\ taskQueue \in Seq(Entry) /\ InOrder(taskQueue)
    /\ begun \subseteq Tasks

Threading ==
    /\ at \in [ServiceThreads -> {"new", "exited"} \cup Servicing]
    /\ running \in [ServiceThreads -> Tasks \cup {NoTask}]
    /\ deadline \in [ServiceThreads -> Nat]
    /\ \A s \in ServiceThreads : at[s] = "running" <=> running[s] # NoTask
    /\ \A s \in ServiceThreads : running[s] # NoTask => running[s] \in begun

\* A thread that services the queue alone waits for the entry that is first in it.
AloneWaits ==
    \A s \in ServiceThreads :
       at[s] = "timed" /\ (\A r \in ServiceThreads \ {s} : at[r] = "new")
       => taskQueue # <<>> /\ deadline[s] = taskQueue[1][1]

SchedulerInv == Queueing /\ Threading /\ StartedOnce /\ AloneWaits

Single(queue) == \A i, j \in 1..Len(queue) : queue[i][2] = queue[j][2] => i = j

\* The entries of queue, and e.
OneMore(z, queue, e) == \A i \in 1..Len(z) : z[i] = e \/ \E j \in 1..Len(queue) : z[i] = queue[j]

\* multimap::insert keeps the order, and adds the one entry.
LEMMA InsertedIs ==
    ASSUME NEW q \in Seq(Entry), InOrder(q), NEW t \in Nat, NEW f \in Tasks,
           NEW z, z = Inserted(q, t, f)
    PROVE  /\ z \in Seq(Entry) /\ Len(z) = Len(q) + 1 /\ InOrder(z)
           /\ OneMore(z, q, <<t, f>>)
           /\ Single(q) /\ (\A j \in 1..Len(q) : q[j][2] # f) => Single(z)
<1> DEFINE N == Len(q)
           A(i) == i <= N /\ q[i][1] <= t /\ z[i] = q[i]
           B(i) == (i > N \/ q[i][1] > t) /\ (i = 1 \/ q[i - 1][1] <= t) /\ z[i] = <<t, f>>
           C(i) == (i > N \/ q[i][1] > t) /\ i - 1 \in 1..N /\ q[i - 1][1] > t /\ z[i] = q[i - 1]
<1>1. N \in Nat /\ \A i \in 1..N : q[i] \in Entry /\ q[i][1] \in Nat /\ q[i][2] \in Tasks
  BY DEF Entry
<1>2. \A i, j \in 1..N : i <= j => q[i][1] <= q[j][1]
  BY DEF InOrder
<1>3. DOMAIN z = 1..(N + 1) /\ \A i \in 1..(N + 1) :
         z[i] = IF i <= N /\ q[i][1] <= t THEN q[i] ELSE IF i = 1 \/ q[i - 1][1] <= t THEN <<t, f>> ELSE q[i - 1]
  BY DEF Inserted
<1>4. \A i \in 1..(N + 1) : A(i) \/ B(i) \/ C(i)
  <2> TAKE i \in 1..(N + 1)
  <2>1. i # 1 => i - 1 \in 1..N
    BY <1>1
  <2>2. i <= N => i \in 1..N
    BY <1>1
  <2> QED
    BY <1>1, <1>3, <2>1, <2>2
<1>5. <<t, f>> \in Entry /\ <<t, f>>[1] = t /\ <<t, f>>[2] = f
  BY DEF Entry
<1>6. \A i \in 1..(N + 1) : z[i] \in Entry /\ (z[i] = <<t, f>> \/ \E j \in 1..N : z[i] = q[j])
  <2> TAKE i \in 1..(N + 1)
  <2>1. CASE A(i)
    <3>1. i \in 1..N /\ z[i] = q[i]
      BY <1>1, <2>1
    <3> QED
      BY <1>1, <3>1
  <2>2. CASE B(i)
    BY <1>5, <2>2
  <2>3. CASE C(i)
    <3>1. i - 1 \in 1..N /\ z[i] = q[i - 1]
      BY <2>3
    <3> QED
      BY <1>1, <3>1
  <2> QED
    BY <1>4, <2>1, <2>2, <2>3
<1>7. z \in Seq(Entry) /\ Len(z) = N + 1
  <2>1. z = [i \in 1..(N + 1) |-> z[i]]
    BY DEF Inserted
  <2>2. z \in [1..(N + 1) -> Entry]
    BY <1>6, <2>1
  <2> HIDE DEF N
  <2> QED
    BY <1>1, <2>2
<1>8. ASSUME NEW i \in 1..(N + 1), NEW j \in 1..(N + 1), i <= j
      PROVE  z[i][1] <= z[j][1]
  <2>1. CASE A(i) /\ A(j)
    BY <1>1, <1>2, <1>8, <2>1
  <2>2. CASE A(i) /\ B(j)
    BY <1>5, <2>2
  <2>3. CASE A(i) /\ C(j)
    BY <1>1, <2>3
  <2>4. CASE B(i) /\ A(j)
    BY <1>1, <1>2, <1>8, <2>4
  <2>5. CASE B(i) /\ B(j)
    BY <1>5, <2>5
  <2>6. CASE B(i) /\ C(j)
    BY <1>1, <1>5, <2>6
  <2>7. CASE C(i) /\ A(j)
    BY <1>1, <1>2, <1>8, <2>7
  <2>8. CASE C(i) /\ B(j)
    <3>1. j # 1 /\ j - 1 \in 1..N /\ i - 1 <= j - 1
      BY <1>1, <1>8, <2>8
    <3> QED
      BY <1>1, <1>2, <2>8, <3>1
  <2>9. CASE C(i) /\ C(j)
    BY <1>1, <1>2, <1>8, <2>9
  <2> QED
    BY <1>4, <2>1, <2>2, <2>3, <2>4, <2>5, <2>6, <2>7, <2>8, <2>9
<1>9. ASSUME Single(q), \A j \in 1..N : q[j][2] # f,
             NEW i \in 1..(N + 1), NEW j \in 1..(N + 1), i < j
      PROVE  z[i][2] # z[j][2]
  <2>0. \A k, l \in 1..N : q[k][2] = q[l][2] => k = l
    BY <1>9 DEF Single
  <2>1. CASE A(i) /\ A(j)
    BY <1>9, <2>0, <2>1
  <2>2. CASE B(j) /\ (A(i) \/ C(i))
    BY <1>5, <1>9, <2>2
  <2>3. CASE A(i) /\ C(j)
    <3>1. i # j - 1
      BY <1>1, <2>3
    <3> QED
      BY <1>9, <2>0, <2>3, <3>1
  <2>4. CASE B(i) /\ (A(j) \/ C(j))
    BY <1>5, <1>9, <2>4
  <2>5. CASE B(i) /\ B(j)
    <3>1. j - 1 \in 1..N /\ i \in 1..N /\ i <= j - 1
      BY <1>1, <1>9
    <3> QED
      BY <1>1, <1>2, <2>5, <3>1
  <2>6. CASE C(i) /\ A(j)
    <3>1. i - 1 # j
      BY <1>1, <1>9
    <3> QED
      BY <1>9, <2>0, <2>6, <3>1
  <2>7. CASE C(i) /\ C(j)
    <3>1. i - 1 # j - 1
      BY <1>1, <1>9
    <3> QED
      BY <1>9, <2>0, <2>7, <3>1
  <2> QED
    BY <1>4, <2>1, <2>2, <2>3, <2>4, <2>5, <2>6, <2>7
<1>10. Single(q) /\ (\A j \in 1..N : q[j][2] # f) => Single(z)
  <2> SUFFICES ASSUME Single(q), \A j \in 1..N : q[j][2] # f,
                      NEW i \in 1..(N + 1), NEW j \in 1..(N + 1), z[i][2] = z[j][2]
               PROVE  i = j
    BY <1>7 DEF Single
  <2>1. i < j \/ j < i \/ i = j
    BY <1>1
  <2> QED
    BY <1>9, <2>1
<1> HIDE DEF A, B, C
<1> QED
  BY <1>6, <1>7, <1>8, <1>10 DEF InOrder, OneMore

\* notify_one changes nothing but one waiting thread.
LEMMA Notified ==
    ASSUME NEW p \in [ServiceThreads -> {"new", "exited"} \cup Servicing], NEW z, NotifyOne(p, z)
    PROVE  /\ z \in [ServiceThreads -> {"new", "exited"} \cup Servicing]
           /\ \A s \in ServiceThreads : z[s] = p[s] \/ (p[s] \in Waiting /\ z[s] = "woken")
           /\ \A s \in ServiceThreads : p[s] \in Waiting /\ (\A r \in ServiceThreads \ {s} : p[r] \notin Waiting)
                                        => z[s] = "woken"
<1>1. CASE \E s \in ServiceThreads : p[s] \in Waiting
  <2>1. PICK w \in ServiceThreads : p[w] \in Waiting /\ z = [p EXCEPT ![w] = "woken"]
    BY <1>1 DEF NotifyOne
  <2>2. "woken" \in {"new", "exited"} \cup Servicing
    BY DEF Servicing
  <2>3. z \in [ServiceThreads -> {"new", "exited"} \cup Servicing] /\ z[w] = "woken"
        /\ \A s \in ServiceThreads \ {w} : z[s] = p[s]
    BY <2>1, <2>2
  <2> QED
    BY <2>1, <2>3
<1>2. CASE ~\E s \in ServiceThreads : p[s] \in Waiting
  BY <1>2 DEF NotifyOne
<1> QED
  BY <1>1, <1>2

\* Where the pass of the loop of serviceQueue that s makes leaves the threads.
LEMMA Continued ==
    ASSUME Queueing, Threading, NEW s \in ServiceThreads, NEW n, Continue(s, n, taskQueue)
    PROVE  /\ at' \in [ServiceThreads -> {"new", "exited"} \cup Servicing]
           /\ deadline' \in [ServiceThreads -> Nat]
           /\ at'[s] \in {"exited", "sleeping", "timed"}
           /\ at'[s] = "exited" => shouldStop(taskQueue)
           /\ at'[s] = "timed" => taskQueue # <<>> /\ deadline'[s] = taskQueue[1][1]
           /\ \A r \in ServiceThreads \ {s} :
                 /\ at'[r] = at[r] \/ (at[r] \in Waiting /\ at'[r] = "woken")
                 /\ deadline'[r] = deadline[r]
<1> DEFINE Places == {"new", "exited"} \cup Servicing
<1>0. at \in [ServiceThreads -> Places] /\ deadline \in [ServiceThreads -> Nat]
  BY DEF Threading
<1>1. {"exited", "sleeping", "timed"} \subseteq Places
  BY DEF Servicing, Waiting
<1>2. CASE shouldStop(taskQueue) /\ NotifyOne([at EXCEPT ![s] = "exited"], at') /\ UNCHANGED deadline
  <2> DEFINE p == [at EXCEPT ![s] = "exited"]
  <2>1. p \in [ServiceThreads -> Places] /\ p[s] = "exited" /\ \A r \in ServiceThreads \ {s} : p[r] = at[r]
    BY <1>0, <1>1
  <2>2. "exited" \notin Waiting /\ "woken" # "exited"
    BY DEF Waiting
  <2>3. NotifyOne(p, at')
    BY <1>2
  <2> HIDE DEF p
  <2>4. /\ at' \in [ServiceThreads -> Places]
        /\ \A r \in ServiceThreads : at'[r] = p[r] \/ (p[r] \in Waiting /\ at'[r] = "woken")
    BY <2>1, <2>3, Notified
  <2>5. at'[s] = "exited"
    BY <2>1, <2>2, <2>4
  <2> QED
    BY <1>0, <1>2, <2>1, <2>4, <2>5
<1>3. CASE at' = [at EXCEPT ![s] = "sleeping"] /\ UNCHANGED deadline
  BY <1>0, <1>1, <1>3
<1>4. CASE /\ taskQueue # <<>> /\ at' = [at EXCEPT ![s] = "timed"]
           /\ deadline' = [deadline EXCEPT ![s] = taskQueue[1][1]]
  <2>1. taskQueue[1][1] \in Nat
    BY <1>4 DEF Queueing, Entry
  <2> QED
    BY <1>0, <1>1, <1>4, <2>1
<1> QED
  BY <1>2, <1>3, <1>4 DEF Continue

\* StartedOnce of a queue, what the threads run, and what has begun.
OnceIn(q, run, beg) ==
    /\ Single(q)
    /\ \A s, r \in ServiceThreads : run[s] # NoTask /\ run[s] = run[r] => s = r
    /\ \A i \in 1..Len(q), s \in ServiceThreads : q[i][2] # run[s]
    /\ \A i \in 1..Len(q) : q[i][2] \in beg => q[i][2] \in Periodic

LEMMA OnceIs ==
    ASSUME taskQueue \in Seq(Entry) PROVE StartedOnce <=> OnceIn(taskQueue, running, begun)
<1>1. DOMAIN taskQueue = 1..Len(taskQueue)
  OBVIOUS
<1> QED
  BY <1>1 DEF StartedOnce, OnceIn, Single, Queued

LEMMA OnceIsPrimed ==
    ASSUME taskQueue' \in Seq(Entry) PROVE StartedOnce' <=> OnceIn(taskQueue', running', begun')
<1>1. DOMAIN taskQueue' = 1..Len(taskQueue')
  OBVIOUS
<1> QED
  BY <1>1 DEF StartedOnce, OnceIn, Single, Queued

\* A task that is in no queue and that nobody runs, or no longer runs, may be inserted.
LEMMA OnceInserted ==
    ASSUME NEW q \in Seq(Entry), InOrder(q), NEW t \in Nat, NEW f \in Tasks, NEW beg,
           NEW run \in [ServiceThreads -> Tasks \cup {NoTask}],
           NEW run2 \in [ServiceThreads -> Tasks \cup {NoTask}],
           OnceIn(q, run, beg), \A s \in ServiceThreads : run2[s] \in {run[s], NoTask} \ {f},
           \A j \in 1..Len(q) : q[j][2] # f, f \in beg => f \in Periodic
    PROVE  OnceIn(Inserted(q, t, f), run2, beg)
<1> SUFFICES ASSUME NEW z, z = Inserted(q, t, f) PROVE OnceIn(z, run2, beg)
  OBVIOUS
<1>1. OneMore(z, q, <<t, f>>)
  BY InsertedIs
<1>2. Single(z)
  <2>1. Single(q)
    BY DEF OnceIn
  <2> QED
    BY <2>1, InsertedIs
<1>3. <<t, f>>[2] = f /\ NoTask \notin Tasks
  BY SchedulerAssumption
<1>4. \A j \in 1..Len(q) : q[j][2] \in Tasks
  BY DEF Entry
<1>5. ASSUME NEW i \in 1..Len(z)
      PROVE  /\ \A s \in ServiceThreads : z[i][2] # run2[s]
             /\ z[i][2] \in beg => z[i][2] \in Periodic
  <2>1. CASE z[i] = <<t, f>>
    BY <1>3, <2>1
  <2>2. CASE \E j \in 1..Len(q) : z[i] = q[j]
    BY <1>3, <1>4, <2>2 DEF OnceIn
  <2> QED
    BY <1>1, <2>1, <2>2 DEF OneMore
<1>6. \A s, r \in ServiceThreads : run2[s] # NoTask /\ run2[s] = run2[r] => s = r
  BY DEF OnceIn
<1> QED
  BY <1>2, <1>5, <1>6 DEF OnceIn

\* The first task may be taken by a thread that runs none.
LEMMA OnceTaken ==
    ASSUME NEW q \in Seq(Entry), q # <<>>, NEW beg, NEW run \in [ServiceThreads -> Tasks \cup {NoTask}],
           OnceIn(q, run, beg), NEW s \in ServiceThreads, run[s] = NoTask
    PROVE  OnceIn(Tail(q), [run EXCEPT ![s] = Head(q)[2]], beg \cup {Head(q)[2]})
<1> DEFINE f == Head(q)[2]
           run2 == [run EXCEPT ![s] = f]
           z == Tail(q)
<1>1. /\ Len(q) \in Nat /\ 1 \in 1..Len(q) /\ z \in Seq(Entry) /\ Len(z) = Len(q) - 1 /\ f = q[1][2]
      /\ \A i \in 1..Len(z) : z[i] = q[i + 1] /\ i + 1 \in 1..Len(q) /\ i + 1 # 1
  OBVIOUS
<1>2. run2[s] = f /\ \A r \in ServiceThreads \ {s} : run2[r] = run[r]
  OBVIOUS
<1> HIDE DEF z, f, run2
<1>3. Single(z)
  <2> SUFFICES ASSUME NEW i \in 1..Len(z), NEW j \in 1..Len(z), z[i][2] = z[j][2] PROVE i = j
    BY DEF Single
  <2>1. i + 1 = j + 1
    BY <1>1 DEF OnceIn, Single
  <2> QED
    BY <1>1, <2>1
<1>4. \A i \in 1..Len(z) : z[i][2] # f
  BY <1>1 DEF OnceIn, Single
<1>5. \A r \in ServiceThreads : run[r] # f
  BY <1>1 DEF OnceIn
<1>6. \A i \in 1..Len(z), r \in ServiceThreads : z[i][2] # run2[r]
  BY <1>1, <1>2, <1>4 DEF OnceIn
<1>7. \A x, r \in ServiceThreads : run2[x] # NoTask /\ run2[x] = run2[r] => x = r
  BY <1>2, <1>5 DEF OnceIn
<1>8. \A i \in 1..Len(z) : z[i][2] \in beg \cup {f} => z[i][2] \in Periodic
  BY <1>1, <1>4 DEF OnceIn
<1>9. OnceIn(z, run2, beg \cup {f})
  BY <1>3, <1>6, <1>7, <1>8 DEF OnceIn
<1> QED
  BY <1>9 DEF z, run2, f

\* A thread that returns from its task runs none.
LEMMA OnceReturned ==
    ASSUME NEW q \in Seq(Entry), NEW beg, NEW run \in [ServiceThreads -> Tasks \cup {NoTask}],
           OnceIn(q, run, beg), NEW s \in ServiceThreads
    PROVE  OnceIn(q, [run EXCEPT ![s] = NoTask], beg)
<1> DEFINE run2 == [run EXCEPT ![s] = NoTask]
<1>1. \A r \in ServiceThreads : run2[r] = IF r = s THEN NoTask ELSE run[r]
  OBVIOUS
<1>2. \A i \in 1..Len(q) : q[i][2] # NoTask
  BY SchedulerAssumption DEF Entry
<1> HIDE DEF run2
<1>3. OnceIn(q, run2, beg)
  BY <1>1, <1>2 DEF OnceIn
<1> QED
  BY <1>3 DEF run2

\* The parts of the invariant that a step of another thread, or of none, leaves alone.
LEMMA SameThreading ==
    ASSUME Threading, running' = running, deadline' \in [ServiceThreads -> Nat], begun' = begun,
           at' \in [ServiceThreads -> {"new", "exited"} \cup Servicing],
           \A s \in ServiceThreads : at'[s] = "running" <=> at[s] = "running"
    PROVE  Threading'
BY DEF Threading

\* A thread that is neither about to start nor waiting for a time has company.
LEMMA NotAlone ==
    ASSUME NEW s \in ServiceThreads, at'[s] \notin {"new", "timed"} PROVE AloneWaits'
BY DEF AloneWaits

LEMMA ScheduleTaskKeeps ==
    ASSUME SchedulerInv, NEW f \in Tasks, NEW t \in Times, schedule(f, t)
    PROVE  SchedulerInv'
<1>1. /\ ~Queued(f) /\ (\A s \in ServiceThreads : running[s] # f) /\ f \notin begun
      /\ taskQueue' = Inserted(taskQueue, t, f) /\ NotifyOne(at, at')
      /\ UNCHANGED <<clock, deadline, running, begun>>
  BY DEF schedule, Known
<1>2. t \in Nat /\ taskQueue \in Seq(Entry) /\ InOrder(taskQueue) /\ DOMAIN taskQueue = 1..Len(taskQueue)
  BY SchedulerAssumption DEF SchedulerInv, Queueing, Times
<1>3. taskQueue' \in Seq(Entry) /\ InOrder(taskQueue')
  BY <1>1, <1>2, InsertedIs
<1>4. Queueing'
  BY <1>1, <1>3 DEF SchedulerInv, Queueing, InOrder
<1>5. /\ at' \in [ServiceThreads -> {"new", "exited"} \cup Servicing]
      /\ \A s \in ServiceThreads : at'[s] = at[s] \/ (at[s] \in Waiting /\ at'[s] = "woken")
      /\ \A s \in ServiceThreads : at[s] \in Waiting /\ (\A r \in ServiceThreads \ {s} : at[r] \notin Waiting)
                                   => at'[s] = "woken"
  BY <1>1, Notified DEF SchedulerInv, Threading
<1>6. Threading'
  <2>1. "running" \notin Waiting /\ "running" # "woken"
    BY DEF Waiting
  <2>2. \A s \in ServiceThreads : at'[s] = "running" <=> at[s] = "running"
    BY <1>5, <2>1
  <2>3. Threading /\ deadline' \in [ServiceThreads -> Nat]
    BY <1>1 DEF SchedulerInv, Threading
  <2> QED
    BY <1>1, <1>5, <2>2, <2>3, SameThreading
<1>7. StartedOnce'
  <2>1. OnceIn(taskQueue, running, begun) /\ running \in [ServiceThreads -> Tasks \cup {NoTask}]
    BY <1>2, OnceIs DEF SchedulerInv, Threading
  <2>2. \A j \in 1..Len(taskQueue) : taskQueue[j][2] # f
    BY <1>1, <1>2 DEF Queued
  <2>3. \A s \in ServiceThreads : running[s] \in {running[s], NoTask} \ {f}
    BY <1>1
  <2>4. OnceIn(taskQueue', running, begun)
    BY <1>1, <1>2, <2>1, <2>2, <2>3, OnceInserted
  <2> QED
    BY <1>1, <1>3, <2>4, OnceIsPrimed
<1>8. AloneWaits'
  <2> SUFFICES ASSUME NEW s \in ServiceThreads, at'[s] = "timed",
                      \A r \in ServiceThreads \ {s} : at'[r] = "new"
               PROVE  FALSE
    BY DEF AloneWaits
  <2>1. at[s] = "timed" /\ \A r \in ServiceThreads \ {s} : at[r] = "new"
    BY <1>5
  <2> QED
    BY <1>5, <2>1 DEF Waiting
<1> QED
  BY <1>4, <1>6, <1>7, <1>8 DEF SchedulerInv

LEMMA StopKeeps ==
    ASSUME SchedulerInv, NEW drain \in BOOLEAN, stop(drain)
    PROVE  SchedulerInv'
<1>1. at' = NotifyAll(at) /\ UNCHANGED <<clock, taskQueue, deadline, running, begun>>
  BY DEF stop
<1>2. Queueing'
  BY <1>1 DEF SchedulerInv, Queueing, InOrder
<1>3. /\ at' \in [ServiceThreads -> {"new", "exited"} \cup Servicing]
      /\ \A s \in ServiceThreads : at'[s] = IF at[s] \in Waiting THEN "woken" ELSE at[s]
  <2>1. "woken" \in Servicing
    BY DEF Servicing
  <2> QED
    BY <1>1, <2>1 DEF NotifyAll, SchedulerInv, Threading
<1>4. Threading'
  <2>1. \A s \in ServiceThreads : at'[s] = "running" <=> at[s] = "running"
    BY <1>3 DEF Waiting
  <2>2. Threading /\ deadline' \in [ServiceThreads -> Nat]
    BY <1>1 DEF SchedulerInv, Threading
  <2> QED
    BY <1>1, <1>3, <2>1, <2>2, SameThreading
<1>5. StartedOnce'
  BY <1>1, OnceIs, OnceIsPrimed DEF SchedulerInv, Queueing
<1>6. AloneWaits'
  BY <1>3 DEF AloneWaits, Waiting
<1> QED
  BY <1>2, <1>4, <1>5, <1>6 DEF SchedulerInv

\* Steps that change no more than the clock and the stop flags.
LEMMA NothingMoves ==
    ASSUME SchedulerInv, clock' \in Nat, UNCHANGED <<taskQueue, at, deadline, running, begun>>
    PROVE  SchedulerInv'
<1>1. Queueing'
  BY DEF SchedulerInv, Queueing, InOrder
<1>2. Threading'
  BY DEF SchedulerInv, Threading
<1>3. StartedOnce'
  BY OnceIs, OnceIsPrimed DEF SchedulerInv, Queueing
<1>4. AloneWaits'
  BY DEF SchedulerInv, AloneWaits
<1> QED
  BY <1>1, <1>2, <1>3, <1>4 DEF SchedulerInv

\* A pass of the loop that takes no task.
LEMMA ContinueKeeps ==
    ASSUME SchedulerInv, NEW s \in ServiceThreads, NEW n, Continue(s, n, taskQueue), at[s] # "running",
           UNCHANGED <<clock, taskQueue, running, begun>>
    PROVE  SchedulerInv'
<1>1. /\ at' \in [ServiceThreads -> {"new", "exited"} \cup Servicing]
      /\ deadline' \in [ServiceThreads -> Nat] /\ at'[s] \in {"exited", "sleeping", "timed"}
      /\ at'[s] = "timed" => taskQueue # <<>> /\ deadline'[s] = taskQueue[1][1]
      /\ \A r \in ServiceThreads \ {s} : at'[r] = at[r] \/ (at[r] \in Waiting /\ at'[r] = "woken")
  BY Continued DEF SchedulerInv
<1>2. Queueing'
  BY DEF SchedulerInv, Queueing, InOrder
<1>3. Threading'
  <2>1. \A r \in ServiceThreads : at'[r] = "running" <=> at[r] = "running"
    BY <1>1 DEF Waiting
  <2> QED
    BY <1>1, <2>1, SameThreading DEF SchedulerInv
<1>4. StartedOnce'
  BY OnceIs, OnceIsPrimed DEF SchedulerInv, Queueing
<1>5. AloneWaits'
  <2>1. CASE at'[s] = "timed"
    BY <1>1, <2>1 DEF AloneWaits
  <2>2. CASE at'[s] # "timed"
    BY <1>1, <2>2, NotAlone
  <2> QED
    BY <2>1, <2>2
<1> QED
  BY <1>2, <1>3, <1>4, <1>5 DEF SchedulerInv

LEMMA TimeoutKeeps ==
    ASSUME SchedulerInv, NEW s \in ServiceThreads, Timeout(s)
    PROVE  SchedulerInv'
<1>1. at[s] = "timed" /\ UNCHANGED clock
  BY DEF Timeout
<1>2. CASE Continue(s, nThreadsServicingQueue, taskQueue) /\ UNCHANGED <<taskQueue, running, begun>>
  BY <1>1, <1>2, ContinueKeeps
<1>3. CASE taskQueue # <<>> /\ running' = [running EXCEPT ![s] = Head(taskQueue)[2]]
           /\ begun' = begun \cup {Head(taskQueue)[2]} /\ taskQueue' = Tail(taskQueue)
           /\ at' = [at EXCEPT ![s] = "running"] /\ UNCHANGED deadline
  <2>1. /\ taskQueue \in Seq(Entry) /\ InOrder(taskQueue) /\ clock \in Nat /\ begun \subseteq Tasks
        /\ at \in [ServiceThreads -> {"new", "exited"} \cup Servicing]
        /\ running \in [ServiceThreads -> Tasks \cup {NoTask}] /\ running[s] = NoTask
    BY <1>1 DEF SchedulerInv, Queueing, Threading
  <2>2. /\ taskQueue' \in Seq(Entry) /\ Len(taskQueue') = Len(taskQueue) - 1 /\ Len(taskQueue) \in Nat
        /\ \A i \in 1..Len(taskQueue') : taskQueue'[i] = taskQueue[i + 1] /\ i + 1 \in 1..Len(taskQueue)
    BY <1>3, <2>1
  <2>3. Head(taskQueue) \in Entry /\ Head(taskQueue)[2] \in Tasks
    BY <1>3, <2>1 DEF Entry
  <2>4. Queueing'
    <3>1. InOrder(taskQueue')
      BY <2>1, <2>2 DEF InOrder
    <3> QED
      BY <1>1, <1>3, <2>1, <2>2, <2>3, <3>1 DEF Queueing
  <2>5. Threading'
    <3>1. "running" \in {"new", "exited"} \cup Servicing /\ NoTask \notin Tasks
      BY SchedulerAssumption DEF Servicing
    <3>2. /\ at'[s] = "running" /\ running'[s] = Head(taskQueue)[2]
          /\ \A r \in ServiceThreads \ {s} : at'[r] = at[r] /\ running'[r] = running[r]
      BY <1>3, <2>1
    <3>3. /\ at' \in [ServiceThreads -> {"new", "exited"} \cup Servicing]
          /\ running' \in [ServiceThreads -> Tasks \cup {NoTask}]
      BY <1>3, <2>1, <2>3, <3>1
    <3> QED
      BY <1>3, <2>3, <3>1, <3>2, <3>3 DEF SchedulerInv, Threading
  <2>6. StartedOnce'
    <3>1. OnceIn(taskQueue, running, begun)
      BY <2>1, OnceIs DEF SchedulerInv
    <3>2. OnceIn(taskQueue', running', begun')
      BY <1>3, <2>1, <3>1, OnceTaken
    <3> QED
      BY <2>2, <3>2, OnceIsPrimed
  <2>7. AloneWaits'
    BY <1>3, <2>1, NotAlone
  <2> QED
    BY <2>4, <2>5, <2>6, <2>7 DEF SchedulerInv
<1> QED
  BY <1>2, <1>3 DEF Timeout

LEMMA RunKeeps ==
    ASSUME SchedulerInv, NEW s \in ServiceThreads, Run(s)
    PROVE  SchedulerInv'
<1> DEFINE Places == {"new", "exited"} \cup Servicing
           f == running[s]
           p == [at EXCEPT ![s] = "done"]
<1>1. /\ taskQueue \in Seq(Entry) /\ InOrder(taskQueue) /\ clock \in Nat /\ begun \subseteq Tasks
      /\ at \in [ServiceThreads -> Places] /\ deadline \in [ServiceThreads -> Nat]
      /\ running \in [ServiceThreads -> Tasks \cup {NoTask}]
  BY DEF SchedulerInv, Queueing, Threading
<1>2. /\ at[s] = "running" /\ running' = [running EXCEPT ![s] = NoTask]
      /\ UNCHANGED <<clock, deadline, begun>>
      /\ \/ /\ f \in Periodic /\ taskQueue' = Inserted(taskQueue, clock + Delta, f) /\ NotifyOne(p, at')
         \/ at' = p /\ UNCHANGED taskQueue
  BY DEF Run
<1>3. f \in Tasks /\ f # NoTask
  BY <1>1, <1>2 DEF SchedulerInv, Threading
<1>4. /\ "done" \in Places /\ "done" \notin Waiting /\ "woken" \notin {"running", "done"}
      /\ "running" \notin Waiting
  BY DEF Servicing, Waiting
<1>5. p \in [ServiceThreads -> Places] /\ p[s] = "done" /\ \A r \in ServiceThreads \ {s} : p[r] = at[r]
  BY <1>1, <1>4
<1>6. /\ running' \in [ServiceThreads -> Tasks \cup {NoTask}] /\ running'[s] = NoTask
      /\ \A r \in ServiceThreads \ {s} : running'[r] = running[r]
  BY <1>1, <1>2
<1>7. OnceIn(taskQueue, running, begun)
  BY <1>1, OnceIs DEF SchedulerInv
<1> HIDE DEF p
<1>8. /\ at' \in [ServiceThreads -> Places]
      /\ \A r \in ServiceThreads : at'[r] = p[r] \/ (p[r] \in Waiting /\ at'[r] = "woken")
  <2>1. CASE NotifyOne(p, at')
    BY <1>5, <2>1, Notified
  <2>2. CASE at' = p
    BY <1>5, <2>2
  <2> QED
    BY <1>2, <2>1, <2>2
<1>9. at'[s] = "done" /\ \A r \in ServiceThreads \ {s} : at'[r] = "running" <=> at[r] = "running"
  BY <1>4, <1>5, <1>8
<1>10. Threading'
  BY <1>1, <1>2, <1>6, <1>8, <1>9 DEF SchedulerInv, Threading
<1>11. AloneWaits'
  BY <1>9, NotAlone
<1>12. Queueing' /\ StartedOnce'
  <2>1. CASE f \in Periodic /\ taskQueue' = Inserted(taskQueue, clock + Delta, f)
    <3>1. clock + Delta \in Nat
      BY <1>1, SchedulerAssumption
    <3>2. taskQueue' \in Seq(Entry) /\ InOrder(taskQueue')
      BY <1>1, <1>3, <2>1, <3>1, InsertedIs
    <3>3. \A j \in 1..Len(taskQueue) : taskQueue[j][2] # f
      BY <1>7 DEF OnceIn
    <3>4. \A r \in ServiceThreads : running'[r] \in {running[r], NoTask} \ {f}
      BY <1>3, <1>6, <1>7 DEF OnceIn
    <3>5. OnceIn(Inserted(taskQueue, clock + Delta, f), running', begun)
      BY <1>1, <1>3, <1>6, <1>7, <2>1, <3>1, <3>3, <3>4, OnceInserted
    <3>6. OnceIn(taskQueue', running', begun')
      BY <1>2, <2>1, <3>5
    <3> QED
      BY <1>1, <1>2, <3>2, <3>6, OnceIsPrimed DEF Queueing
  <2>2. CASE UNCHANGED taskQueue
    <3>1. OnceIn(taskQueue', running', begun')
      BY <1>1, <1>2, <1>7, <2>2, OnceReturned
    <3>2. InOrder(taskQueue')
      BY <1>1, <2>2 DEF InOrder
    <3> QED
      BY <1>1, <1>2, <2>2, <3>1, <3>2, OnceIsPrimed DEF Queueing
  <2> QED
    BY <1>2, <2>1, <2>2
<1> QED
  BY <1>10, <1>11, <1>12 DEF SchedulerInv

LEMMA InterruptedKeeps ==
    ASSUME SchedulerInv, NEW s \in ServiceThreads, Interrupted(s)
    PROVE  SchedulerInv'
<1>1. /\ taskQueue \in Seq(Entry) /\ InOrder(taskQueue) /\ clock \in Nat /\ begun \subseteq Tasks
      /\ at \in [ServiceThreads -> {"new", "exited"} \cup Servicing] /\ deadline \in [ServiceThreads -> Nat]
      /\ running \in [ServiceThreads -> Tasks \cup {NoTask}]
  BY DEF SchedulerInv, Queueing, Threading
<1>2. /\ at' = [at EXCEPT ![s] = "exited"] /\ running' = [running EXCEPT ![s] = NoTask]
      /\ UNCHANGED <<clock, taskQueue, deadline, begun>>
  BY DEF Interrupted
<1>3. Queueing'
  BY <1>2 DEF SchedulerInv, Queueing, InOrder
<1>4. /\ running' \in [ServiceThreads -> Tasks \cup {NoTask}] /\ running'[s] = NoTask
      /\ at' \in [ServiceThreads -> {"new", "exited"} \cup Servicing] /\ at'[s] = "exited"
      /\ \A r \in ServiceThreads \ {s} : running'[r] = running[r] /\ at'[r] = at[r]
  BY <1>1, <1>2
<1>5. Threading'
  BY <1>1, <1>2, <1>4 DEF SchedulerInv, Threading
<1>6. StartedOnce'
  <2>1. OnceIn(taskQueue, running, begun)
    BY <1>1, OnceIs DEF SchedulerInv
  <2>2. OnceIn(taskQueue', running', begun')
    BY <1>1, <1>2, <2>1, OnceReturned
  <2> QED
    BY <1>1, <1>2, <2>2, OnceIsPrimed
<1>7. AloneWaits'
  BY <1>4, NotAlone
<1> QED
  BY <1>3, <1>5, <1>6, <1>7 DEF SchedulerInv

LEMMA SchedulerInitInv == SchedulerInit => SchedulerInv
<1> SUFFICES ASSUME SchedulerInit PROVE SchedulerInv
  OBVIOUS
<1>1. /\ taskQueue = <<>> /\ Len(taskQueue) = 0 /\ taskQueue \in Seq(Entry) /\ clock \in Nat /\ begun = {}
      /\ 1..Len(taskQueue) = {}
  BY DEF SchedulerInit
<1>2. /\ at = [s \in ServiceThreads |-> "new"] /\ deadline = [s \in ServiceThreads |-> 0]
      /\ running = [s \in ServiceThreads |-> NoTask]
  BY DEF SchedulerInit
<1>3. Queueing
  BY <1>1 DEF Queueing, InOrder
<1>4. Threading
  BY <1>2 DEF Threading
<1>5. OnceIn(taskQueue, running, begun)
  BY <1>1, <1>2 DEF OnceIn, Single
<1>6. StartedOnce
  BY <1>1, <1>5, OnceIs
<1>7. AloneWaits
  BY <1>2 DEF AloneWaits
<1> QED
  BY <1>3, <1>4, <1>6, <1>7 DEF SchedulerInv

LEMMA SchedulerNextInv == SchedulerInv /\ [SchedulerNext]_schedulerVars => SchedulerInv'
<1> SUFFICES ASSUME SchedulerInv, [SchedulerNext]_schedulerVars PROVE SchedulerInv'
  OBVIOUS
<1>0. clock \in Nat
  BY DEF SchedulerInv, Queueing
<1>1. ASSUME NEW f \in Tasks, NEW t \in Times, schedule(f, t) PROVE SchedulerInv'
  BY <1>1, ScheduleTaskKeeps
<1>2. ASSUME NEW drain \in BOOLEAN, stop(drain) PROVE SchedulerInv'
  BY <1>2, StopKeeps
<1>3. CASE InterruptAll
  BY <1>0, <1>3, NothingMoves DEF InterruptAll
<1>4. CASE Tick
  <2>1. clock' \in Nat
    BY <1>0, <1>4 DEF Tick
  <2> QED
    BY <1>4, <2>1, NothingMoves DEF Tick
<1>5. ASSUME NEW s \in ServiceThreads, Start(s) PROVE SchedulerInv'
  BY <1>5, ContinueKeeps DEF Start
<1>6. ASSUME NEW s \in ServiceThreads, Woken(s) PROVE SchedulerInv'
  BY <1>6, ContinueKeeps DEF Woken
<1>7. ASSUME NEW s \in ServiceThreads, Timeout(s) PROVE SchedulerInv'
  BY <1>7, TimeoutKeeps
<1>8. ASSUME NEW s \in ServiceThreads, Run(s) PROVE SchedulerInv'
  BY <1>8, RunKeeps
<1>9. ASSUME NEW s \in ServiceThreads, AfterRun(s) PROVE SchedulerInv'
  BY <1>9, ContinueKeeps DEF AfterRun
<1>10. ASSUME NEW s \in ServiceThreads, Interrupted(s) PROVE SchedulerInv'
  BY <1>10, InterruptedKeeps
<1>11. CASE UNCHANGED schedulerVars
  BY <1>0, <1>11, NothingMoves DEF schedulerVars
<1> QED
  BY <1>1, <1>2, <1>3, <1>4, <1>5, <1>6, <1>7, <1>8, <1>9, <1>10, <1>11 DEF SchedulerNext, Serve

LEMMA AlwaysSchedulerInv == SchedulerSpec => []SchedulerInv
  BY SchedulerInitInv, SchedulerNextInv, PTL DEF SchedulerSpec

\* A scheduled task is in one place only, the queue or one server, and starts once
\* for each time it is scheduled, on any number of threads.
THEOREM TasksStartOnce == SchedulerSpec => []StartedOnce
<1>1. SchedulerInv => StartedOnce
  BY DEF SchedulerInv
<1> QED
  BY <1>1, AlwaysSchedulerInv, PTL

\* Who moves in a step, and where to.
Woke(S) == \A r \in S : at'[r] = at[r] \/ at'[r] = "woken"

Takes(s) == at[s] = "timed" /\ clock >= deadline[s] /\ taskQueue # <<>> /\ at' = [at EXCEPT ![s] = "running"]

LEMMA Moves ==
    ASSUME SchedulerInv, SchedulerNext
    PROVE  \/ Woke(ServiceThreads)
           \/ \E s \in ServiceThreads :
                 /\ at'[s] \in {"exited", "sleeping", "timed"} /\ Woke(ServiceThreads \ {s})
                 /\ at'[s] = "exited" => taskQueue' = taskQueue /\ shouldStop(taskQueue)
           \/ \E s \in ServiceThreads : Takes(s)
           \/ \E s \in ServiceThreads : at'[s] = "done" /\ Woke(ServiceThreads \ {s})
           \/ \E s \in interrupted \cap ServiceThreads : at' = [at EXCEPT ![s] = "exited"]
<1> DEFINE Places == {"new", "exited"} \cup Servicing
<1>0. at \in [ServiceThreads -> Places] /\ Queueing /\ Threading
  BY DEF SchedulerInv, Threading
<1>1. ASSUME NEW f \in Tasks, NEW t \in Times, schedule(f, t) PROVE Woke(ServiceThreads)
  BY <1>0, <1>1, Notified DEF schedule, Woke
<1>2. ASSUME NEW drain \in BOOLEAN, stop(drain) PROVE Woke(ServiceThreads)
  BY <1>2 DEF stop, NotifyAll, Woke
<1>3. CASE InterruptAll \/ Tick
  BY <1>3 DEF InterruptAll, Tick, Woke
<1>4. ASSUME NEW s \in ServiceThreads, NEW n, Continue(s, n, taskQueue), taskQueue' = taskQueue
      PROVE  /\ at'[s] \in {"exited", "sleeping", "timed"} /\ Woke(ServiceThreads \ {s})
             /\ at'[s] = "exited" => taskQueue' = taskQueue /\ shouldStop(taskQueue)
  BY <1>0, <1>4, Continued DEF Woke
<1>5. ASSUME NEW s \in ServiceThreads, Start(s) \/ Woken(s) \/ AfterRun(s) \/ (Timeout(s) /\ ~Takes(s))
      PROVE  \E n : Continue(s, n, taskQueue) /\ taskQueue' = taskQueue
  BY <1>5 DEF Start, Woken, AfterRun, Timeout, Takes
<1>6. ASSUME NEW s \in ServiceThreads, Run(s)
      PROVE  at'[s] = "done" /\ Woke(ServiceThreads \ {s})
  <2> DEFINE p == [at EXCEPT ![s] = "done"]
  <2>1. "done" \in Places /\ "done" \notin Waiting
    BY DEF Servicing, Waiting
  <2>2. p \in [ServiceThreads -> Places] /\ p[s] = "done" /\ \A r \in ServiceThreads \ {s} : p[r] = at[r]
    BY <1>0, <2>1
  <2>3. NotifyOne(p, at') \/ at' = p
    BY <1>6 DEF Run
  <2> HIDE DEF p
  <2>4. \A r \in ServiceThreads : at'[r] = p[r] \/ (p[r] \in Waiting /\ at'[r] = "woken")
    BY <2>2, <2>3, Notified
  <2> QED
    BY <2>1, <2>2, <2>4 DEF Woke
<1>7. ASSUME NEW s \in ServiceThreads, Interrupted(s)
      PROVE  s \in interrupted /\ at' = [at EXCEPT ![s] = "exited"]
  BY <1>7 DEF Interrupted
<1> QED
  BY <1>1, <1>2, <1>3, <1>4, <1>5, <1>6, <1>7 DEF SchedulerNext, Serve

\* stop(true) lets the last thread go only when there is no work left.
THEOREM LastOneOutDrained == SchedulerSpec => DrainedBeforeExit
<1>1. SchedulerInv /\ SchedulerInv' /\ [SchedulerNext]_schedulerVars =>
        [(\A s \in ServiceThreads : at'[s] = "exited") /\ at' # at /\ ~stopRequested /\ interrupted = {}
         => taskQueue' = <<>>]_schedulerVars
  <2> SUFFICES ASSUME SchedulerInv, SchedulerInv', SchedulerNext, \A s \in ServiceThreads : at'[s] = "exited",
                      at' # at, ~stopRequested, interrupted = {}
               PROVE  taskQueue' = <<>>
    OBVIOUS
  <2>1. at \in [ServiceThreads -> {"new", "exited"} \cup Servicing]
        /\ at' \in [ServiceThreads -> {"new", "exited"} \cup Servicing]
    BY DEF SchedulerInv, Threading
  <2>2. ~Woke(ServiceThreads)
    <3> SUFFICES ASSUME Woke(ServiceThreads) PROVE FALSE
      OBVIOUS
    <3>1. \A s \in ServiceThreads : at'[s] = at[s]
      BY DEF Woke
    <3> QED
      BY <2>1, <3>1
  <2>3. \A s \in ServiceThreads : ~Takes(s)
    BY <2>1 DEF Takes
  <2>4. PICK s \in ServiceThreads : taskQueue' = taskQueue /\ shouldStop(taskQueue)
    BY <2>2, <2>3, Moves
  <2> QED
    BY <2>4 DEF shouldStop
<1> QED
  BY <1>1, AlwaysSchedulerInv, PTL DEF SchedulerSpec, DrainedBeforeExit

\* "Call func at/after time t", when one thread services the queue: what it takes at
\* the end of its wait is due, since every change to the queue in between wakes it.
THEOREM NeverBeforeTime == SchedulerSpec => AtOrAfterTime
<1>1. SchedulerInv /\ [SchedulerNext]_schedulerVars =>
        [\A s \in ServiceThreads :
            at[s] # "running" /\ at'[s] = "running" /\ (\A r \in ServiceThreads \ {s} : at[r] = "new")
            => Head(taskQueue)[1] <= clock]_schedulerVars
  <2> SUFFICES ASSUME SchedulerInv, SchedulerNext, NEW s \in ServiceThreads, at[s] # "running",
                      at'[s] = "running", \A r \in ServiceThreads \ {s} : at[r] = "new"
               PROVE  Head(taskQueue)[1] <= clock
    OBVIOUS
  <2>1. /\ at \in [ServiceThreads -> {"new", "exited"} \cup Servicing] /\ taskQueue \in Seq(Entry)
        /\ clock \in Nat
    BY DEF SchedulerInv, Threading, Queueing
  <2>2. Takes(s)
    <3>1. ~Woke(ServiceThreads) /\ \A r \in ServiceThreads \ {s} : ~Woke(ServiceThreads \ {r})
      BY DEF Woke
    <3>2. \A r \in interrupted \cap ServiceThreads : at' # [at EXCEPT ![r] = "exited"]
      BY <2>1
    <3>3. PICK r \in ServiceThreads : Takes(r)
      BY <3>1, <3>2, Moves
    <3> QED
      BY <2>1, <3>3 DEF Takes
  <2>3. taskQueue # <<>> /\ deadline[s] = taskQueue[1][1] /\ clock >= deadline[s]
    BY <2>2 DEF SchedulerInv, AloneWaits, Takes
  <2>4. Head(taskQueue) = taskQueue[1] /\ taskQueue[1][1] \in Nat
    BY <2>1, <2>3 DEF Entry
  <2> QED
    BY <2>1, <2>3, <2>4
<1> QED
  BY <1>1, AlwaysSchedulerInv, PTL DEF SchedulerSpec, AtOrAfterTime
==============================================================================
