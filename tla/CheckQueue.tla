----------------------------- MODULE CheckQueue -----------------------------
(***************************************************************************)
(* CCheckQueue (checkqueue.h): a master pushes script checks, worker       *)
(* threads take them in batches, and the master joins them in Wait until   *)
(* none is left and returns whether all passed.  Every critical section of *)
(* the mutex is one step; checks run outside it, one step each.  A         *)
(* condition variable is the set of threads asleep on it; it may also wake *)
(* without a notification.                                                 *)
(***************************************************************************)
EXTENDS Integers, FiniteSets

CONSTANTS
    Workers,    \* threads in Thread()
    Master,     \* the thread that holds the CCheckQueueControl
    Checks,     \* the checks a control may add
    Passing,    \* those whose operator() returns true
    BatchSize   \* nBatchSize

ASSUME QueueAssumption ==
    /\ IsFiniteSet(Workers) /\ Master \notin Workers
    /\ IsFiniteSet(Checks)
    /\ Passing \subseteq Checks
    /\ BatchSize \in Nat \ {0}

Threads == Workers \cup {Master}

VARIABLES
    queue,      \* checks nobody has taken
    nIdle, nTotal, fAllOk, nTodo,
    pc,         \* where each thread is
    held,       \* vChecks as taken from the queue; nNow is its size
    left,       \* those of held that have not run
    fOk,        \* each thread's fOk
    added,      \* every check the present control has added
    fRet        \* what Wait returned last

vars == <<queue, nIdle, nTotal, fAllOk, nTodo, pc, held, left, fOk, added, fRet>>

InLoop == {"waiting", "woken", "working"}
Asleep(cond) == {t \in cond : pc[t] = "waiting"}

Init ==
    /\ queue = {} /\ nIdle = 0 /\ nTotal = 0 /\ fAllOk = TRUE /\ nTodo = 0
    /\ pc = [t \in Threads |-> IF t = Master THEN "outside" ELSE "enter"]
    /\ held = [t \in Threads |-> {}]
    /\ left = [t \in Threads |-> {}]
    /\ fOk = [t \in Threads |-> TRUE]
    /\ added = {}
    /\ fRet = TRUE

----------------------------------------------------------------------------
(* The master.                                                             *)

\* CCheckQueueControl: ControlMutex admits one control at a time.
NewControl ==
    /\ pc[Master] = "outside"
    /\ pc' = [pc EXCEPT ![Master] = "adding"]
    /\ added' = {}
    /\ UNCHANGED <<queue, nIdle, nTotal, fAllOk, nTodo, held, left, fOk, fRet>>

\* Add: one check wakes one worker, several wake all.
Add(S) ==
    /\ pc[Master] = "adding"
    /\ S \subseteq Checks \ added
    /\ queue' = queue \cup S
    /\ added' = added \cup S
    /\ nTodo' = nTodo + Cardinality(S)
    /\ \E woken \in SUBSET Asleep(Workers) :
          /\ CASE Cardinality(S) = 0 -> woken = {}
               [] Cardinality(S) = 1 /\ Asleep(Workers) # {} -> Cardinality(woken) = 1
               [] OTHER -> woken = Asleep(Workers)
          /\ pc' = [t \in Threads |-> IF t \in woken THEN "woken" ELSE pc[t]]
    /\ UNCHANGED <<nIdle, nTotal, fAllOk, held, left, fOk, fRet>>

\* Wait, or the destructor of a control that has not waited.
Wait ==
    /\ pc[Master] = "adding"
    /\ pc' = [pc EXCEPT ![Master] = "enter"]
    /\ fOk' = [fOk EXCEPT ![Master] = TRUE]
    /\ UNCHANGED <<queue, nIdle, nTotal, fAllOk, nTodo, held, left, added, fRet>>

\* The control is destroyed.
LeaveControl ==
    /\ pc[Master] = "returned"
    /\ pc' = [pc EXCEPT ![Master] = "outside"]
    /\ UNCHANGED <<queue, nIdle, nTotal, fAllOk, nTodo, held, left, fOk, added, fRet>>
----------------------------------------------------------------------------
(* Loop.                                                                   *)

\* The size of the next batch.
NNow(total, idle) ==
    LET share == Cardinality(queue) \div (total + idle + 1)
    IN IF share < 1 THEN 1 ELSE IF share > BatchSize THEN BatchSize ELSE share

\* "logically, the do loop starts here": t holds the mutex, having made total,
\* idle, ok and todo of the counters and woken somebody perhaps (threads).
\* It takes a batch, returns (the master, when nothing is left), or sleeps.
TakeBatch(t, total, idle, ok, todo, threads) ==
    /\ queue # {}
    /\ \E batch \in SUBSET queue :
          /\ Cardinality(batch) = NNow(total, idle)
          /\ queue' = queue \ batch
          /\ held' = [held EXCEPT ![t] = batch]
          /\ left' = [left EXCEPT ![t] = batch]
    /\ fOk' = [fOk EXCEPT ![t] = ok]
    /\ pc' = [threads EXCEPT ![t] = "working"]
    /\ nTotal' = total /\ nIdle' = idle /\ fAllOk' = ok /\ nTodo' = todo
    /\ UNCHANGED <<added, fRet>>

\* A mutated form: a master that has returned still counts as a worker.
ReturnStaysCounted(t, total, idle, ok, todo, threads) ==
    /\ queue = {} /\ t = Master /\ todo = 0
    /\ nTotal' = total
    /\ fRet' = ok
    /\ fAllOk' = TRUE
    /\ nIdle' = idle /\ nTodo' = todo
    /\ held' = [held EXCEPT ![t] = {}]
    /\ pc' = [threads EXCEPT ![t] = "returned"]
    /\ UNCHANGED <<queue, left, fOk, added>>

Return(t, total, idle, ok, todo, threads) ==
    /\ queue = {} /\ t = Master /\ todo = 0
    /\ nTotal' = total - 1
    /\ fRet' = ok
    /\ fAllOk' = TRUE
    /\ nIdle' = idle /\ nTodo' = todo
    /\ held' = [held EXCEPT ![t] = {}]
    /\ pc' = [threads EXCEPT ![t] = "returned"]
    /\ UNCHANGED <<queue, left, fOk, added>>

Sleep(t, total, idle, ok, todo, threads) ==
    /\ queue = {} /\ ~(t = Master /\ todo = 0)
    /\ nIdle' = idle + 1
    /\ nTotal' = total /\ fAllOk' = ok /\ nTodo' = todo
    /\ held' = [held EXCEPT ![t] = {}]
    /\ pc' = [threads EXCEPT ![t] = "waiting"]
    /\ UNCHANGED <<queue, left, fOk, added, fRet>>

Continue(t, total, idle, ok, todo, threads) ==
    \/ TakeBatch(t, total, idle, ok, todo, threads)
    \/ Return(t, total, idle, ok, todo, threads)
    \/ Sleep(t, total, idle, ok, todo, threads)

\* The first iteration.
Enter(t) ==
    /\ pc[t] = "enter"
    /\ Continue(t, nTotal + 1, nIdle, fAllOk, nTodo, pc)

\* One check of the batch, skipped once a failure is known.
RunCheck(t, c) ==
    /\ pc[t] = "working"
    /\ c \in left[t]
    /\ left' = [left EXCEPT ![t] = left[t] \ {c}]
    /\ fOk' = [fOk EXCEPT ![t] = fOk[t] /\ c \in Passing]
    /\ UNCHANGED <<queue, nIdle, nTotal, fAllOk, nTodo, pc, held, added, fRet>>

\* A mutated form: the master is never told.
CleanUpSilently(t) ==
    /\ pc[t] = "working"
    /\ left[t] = {}
    /\ Continue(t, nTotal, nIdle, fAllOk /\ fOk[t], nTodo - Cardinality(held[t]), pc)

\* A mutated form: the thread's result replaces everybody's.
CleanUpOverwrites(t) ==
    /\ pc[t] = "working"
    /\ left[t] = {}
    /\ LET todo == nTodo - Cardinality(held[t])
       IN Continue(t, nTotal, nIdle, fOk[t], todo,
                   IF todo = 0 /\ t # Master /\ pc[Master] = "waiting"
                   THEN [pc EXCEPT ![Master] = "woken"] ELSE pc)

\* The clean-up of the previous iteration; the thread that finishes the last
\* check wakes the master.
CleanUp(t) ==
    /\ pc[t] = "working"
    /\ left[t] = {}
    /\ LET todo == nTodo - Cardinality(held[t])
       IN Continue(t, nTotal, nIdle, fAllOk /\ fOk[t], todo,
                   IF todo = 0 /\ t # Master /\ pc[Master] = "waiting"
                   THEN [pc EXCEPT ![Master] = "woken"] ELSE pc)

\* cond.wait returns.
WakeUp(t) ==
    /\ pc[t] = "woken"
    /\ Continue(t, nTotal, nIdle - 1, fAllOk, nTodo, pc)

\* A condition variable may wake for no reason.
SpuriousWakeUp(t) ==
    /\ pc[t] = "waiting"
    /\ pc' = [pc EXCEPT ![t] = "woken"]
    /\ UNCHANGED <<queue, nIdle, nTotal, fAllOk, nTodo, held, left, fOk, added, fRet>>

Step(t) == Enter(t) \/ (\E c \in Checks : RunCheck(t, c)) \/ CleanUp(t) \/ WakeUp(t)

Next ==
    \/ NewControl \/ Wait \/ LeaveControl
    \/ \E S \in SUBSET Checks : Add(S)
    \/ \E t \in Threads : Step(t) \/ SpuriousWakeUp(t)

Spec == Init /\ [][Next]_vars

\* Every thread that can run is run eventually.
FairSpec == Spec /\ \A t \in Threads : WF_vars(Step(t))
----------------------------------------------------------------------------
\* Checks that have been added and whose completion is not yet accounted for.
Outstanding == {c \in Checks : c \in queue \/ \E t \in Threads : c \in held[t]}

TypeOK ==
    /\ queue \subseteq Checks
    /\ added \subseteq Checks
    /\ nIdle \in Nat /\ nTotal \in Nat /\ nTodo \in Nat
    /\ fAllOk \in BOOLEAN /\ fRet \in BOOLEAN
    /\ pc \in [Threads -> {"outside", "adding", "enter", "returned"} \cup InLoop]
    /\ held \in [Threads -> SUBSET Checks]
    /\ left \in [Threads -> SUBSET Checks]
    /\ fOk \in [Threads -> BOOLEAN]

\* Wait returns true exactly when every check its control added passes: none
\* skipped, none forgotten, and nothing left over from an earlier block.
WaitTellsTheTruth ==
    pc[Master] = "returned" => fRet = (added \subseteq Passing)

\* Every check is in one place only (so none runs twice), nTodo counts those
\* that are queued or in a thread's own batch, and after Wait there are none.
TodoCountsOutstanding ==
    /\ nTodo = Cardinality(Outstanding)
    /\ \A t \in Threads : held[t] \cap queue = {}
    /\ \A t, u \in Threads : t # u => held[t] \cap held[u] = {}
    /\ pc[Master] \in {"outside", "returned"} => Outstanding = {} /\ fAllOk

\* nTotal counts the threads in Loop, nIdle those that wait or are about to
\* go on: the sizes of batches depend on both.
CountersMatch ==
    /\ nTotal = Cardinality({t \in Threads : pc[t] \in InLoop})
    /\ nIdle = Cardinality({t \in Threads : pc[t] \in {"waiting", "woken"}})

\* All three counters of the queue are exact at every step of Add, Wait and Loop.
CountersExact == TodoCountsOutstanding /\ CountersMatch

\* No wake-up is lost: the master returns from every Wait.
WaitReturns == pc[Master] = "enter" ~> pc[Master] = "returned"
=============================================================================
