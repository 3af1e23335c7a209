--------------------------- MODULE SchedulerClient ---------------------------
(***************************************************************************)
(* SingleThreadedSchedulerClient (scheduler.cpp) as CMainSignals uses it   *)
(* (validationinterface.cpp): callers add callbacks to m_callbacks_pending *)
(* and have ProcessQueue scheduled; the scheduler's threads run it; at     *)
(* shutdown, when those threads are gone, EmptyQueue runs what is left.    *)
(* A step is one critical section of m_cs_callbacks_pending, or one call   *)
(* of the scheduler, of which only the number of ProcessQueue tasks in its *)
(* queue is kept (Scheduler.tla is the scheduler itself).  Callbacks are   *)
(* numbered in the order in which they are added.                          *)
(***************************************************************************)
EXTENDS Integers, Sequences, FiniteSets

CONSTANTS
    Servers,        \* threads in CScheduler::serviceQueue
    Callers,        \* threads that signal: validation, RPC, ...
    Main,           \* the thread that shuts down
    MaxCallbacks    \* bound on the callbacks added

ASSUME ClientAssumption ==
    /\ Servers \cap Callers = {} /\ Main \notin Servers \cup Callers
    /\ MaxCallbacks \in Nat

Threads == Servers \cup Callers \cup {Main}

VARIABLES
    m_callbacks_pending,
    m_are_callbacks_running,
    scheduled,      \* ProcessQueue tasks in the scheduler's queue
    pc,             \* where each thread is
    cur,            \* the callback each thread runs, or 0
    mark,           \* the callback each caller in a Sync waits for, or 0
    stopping,       \* Shutdown has begun: no caller is left
    added,          \* how many callbacks have been added
    finished        \* how many have run

vars == <<m_callbacks_pending, m_are_callbacks_running, scheduled, pc, cur, mark,
          stopping, added, finished>>

Init ==
    /\ m_callbacks_pending = <<>> /\ m_are_callbacks_running = FALSE
    /\ scheduled = 0
    /\ pc = [t \in Threads |-> "idle"]
    /\ cur = [t \in Threads |-> 0]
    /\ mark = [t \in Threads |-> 0]
    /\ stopping = FALSE /\ added = 0 /\ finished = 0

Running == {"callback", "reset"}

\* Where a thread goes when it is through MaybeScheduleProcessQueue.
After(t) ==
    IF t = Main THEN "check" ELSE IF mark[t] # 0 THEN "syncing" ELSE "idle"
----------------------------------------------------------------------------
(* Callers.                                                                *)

\* AddToProcessQueue's critical section; sync is SyncWithValidationInterfaceQueue.
AddToProcessQueue(c, sync) ==
    /\ pc[c] = "idle" /\ ~stopping
    /\ added < MaxCallbacks
    /\ added' = added + 1
    /\ m_callbacks_pending' = Append(m_callbacks_pending, added + 1)
    /\ mark' = [mark EXCEPT ![c] = IF sync THEN added + 1 ELSE 0]
    /\ pc' = [pc EXCEPT ![c] = "maybe"]
    /\ UNCHANGED <<m_are_callbacks_running, scheduled, cur, stopping, finished>>

\* A mutated form: the promise counts as kept when somebody runs callbacks.
SyncDoneEarly(c) ==
    /\ pc[c] = "syncing"
    /\ m_are_callbacks_running
    /\ pc' = [pc EXCEPT ![c] = "idle"]
    /\ mark' = [mark EXCEPT ![c] = 0]
    /\ UNCHANGED <<m_callbacks_pending, m_are_callbacks_running, scheduled, cur,
                   stopping, added, finished>>

\* The promise is kept by the callback itself.
SyncDone(c) ==
    /\ pc[c] = "syncing"
    /\ finished >= mark[c] \/ \E t \in Threads : cur[t] = mark[c]
    /\ pc' = [pc EXCEPT ![c] = "idle"]
    /\ mark' = [mark EXCEPT ![c] = 0]
    /\ UNCHANGED <<m_callbacks_pending, m_are_callbacks_running, scheduled, cur,
                   stopping, added, finished>>

\* A mutated form: only the first callback of a batch schedules ProcessQueue.
MaybeScheduleOnce(t) ==
    /\ pc[t] = "maybe"
    /\ pc' = [pc EXCEPT ![t] =
                 IF m_are_callbacks_running \/ Len(m_callbacks_pending) # 1 THEN After(t) ELSE "schedule"]
    /\ UNCHANGED <<m_callbacks_pending, m_are_callbacks_running, scheduled, cur, mark,
                   stopping, added, finished>>

MaybeScheduleProcessQueue(t) ==
    /\ pc[t] = "maybe"
    /\ pc' = [pc EXCEPT ![t] =
                 IF m_are_callbacks_running \/ m_callbacks_pending = <<>> THEN After(t) ELSE "schedule"]
    /\ UNCHANGED <<m_callbacks_pending, m_are_callbacks_running, scheduled, cur, mark,
                   stopping, added, finished>>

\* m_pscheduler->schedule(ProcessQueue), outside the lock.
Schedule(t) ==
    /\ pc[t] = "schedule"
    /\ scheduled' = scheduled + 1
    /\ pc' = [pc EXCEPT ![t] = After(t)]
    /\ UNCHANGED <<m_callbacks_pending, m_are_callbacks_running, cur, mark, stopping, added, finished>>
----------------------------------------------------------------------------
(* ProcessQueue, on a server or (in EmptyQueue) on the main thread.        *)

TakeTask(s) ==
    /\ pc[s] = "idle" /\ ~stopping
    /\ scheduled > 0
    /\ scheduled' = scheduled - 1
    /\ pc' = [pc EXCEPT ![s] = "process"]
    /\ UNCHANGED <<m_callbacks_pending, m_are_callbacks_running, cur, mark, stopping, added, finished>>

ProcessQueue(t) ==
    /\ pc[t] = "process"
    /\ IF m_are_callbacks_running \/ m_callbacks_pending = <<>>
       THEN /\ pc' = [pc EXCEPT ![t] = After(t)]
            /\ UNCHANGED <<m_callbacks_pending, m_are_callbacks_running, cur>>
       ELSE /\ m_are_callbacks_running' = TRUE
            /\ cur' = [cur EXCEPT ![t] = Head(m_callbacks_pending)]
            /\ m_callbacks_pending' = Tail(m_callbacks_pending)
            /\ pc' = [pc EXCEPT ![t] = "callback"]
    /\ UNCHANGED <<scheduled, mark, stopping, added, finished>>

\* A mutated form: what a callback adds goes first.
AddFromCallbackFirst(t) ==
    /\ pc[t] = "callback"
    /\ added < MaxCallbacks
    /\ added' = added + 1
    /\ m_callbacks_pending' = <<added + 1>> \o m_callbacks_pending
    /\ UNCHANGED <<m_are_callbacks_running, scheduled, pc, cur, mark, stopping, finished>>

\* A callback may signal too; MaybeScheduleProcessQueue then returns at once.
AddFromCallback(t) ==
    /\ pc[t] = "callback"
    /\ added < MaxCallbacks
    /\ added' = added + 1
    /\ m_callbacks_pending' = Append(m_callbacks_pending, added + 1)
    /\ UNCHANGED <<m_are_callbacks_running, scheduled, pc, cur, mark, stopping, finished>>

\* callback() returns or throws.
Finish(t) ==
    /\ pc[t] = "callback"
    /\ finished' = cur[t]
    /\ cur' = [cur EXCEPT ![t] = 0]
    /\ pc' = [pc EXCEPT ![t] = "reset"]
    /\ UNCHANGED <<m_callbacks_pending, m_are_callbacks_running, scheduled, mark, stopping, added>>

\* ~RAIICallbacksRunning, before it calls MaybeScheduleProcessQueue.
Reset(t) ==
    /\ pc[t] = "reset"
    /\ m_are_callbacks_running' = FALSE
    /\ pc' = [pc EXCEPT ![t] = "maybe"]
    /\ UNCHANGED <<m_callbacks_pending, scheduled, cur, mark, stopping, added, finished>>
----------------------------------------------------------------------------
(* Shutdown.                                                               *)

\* The callers are gone; the scheduler's threads are interrupted.
Shutdown ==
    /\ ~stopping /\ \A c \in Callers : pc[c] = "idle"
    /\ stopping' = TRUE
    /\ UNCHANGED <<m_callbacks_pending, m_are_callbacks_running, scheduled, pc, cur, mark,
                   added, finished>>

\* An interrupted thread leaves serviceQueue when it waits next.
Exit(s) ==
    /\ stopping /\ pc[s] = "idle"
    /\ pc' = [pc EXCEPT ![s] = "exited"]
    /\ UNCHANGED <<m_callbacks_pending, m_are_callbacks_running, scheduled, cur, mark,
                   stopping, added, finished>>

\* A mutated form: the scheduler's threads are not waited for.
EmptyQueueAtOnce ==
    /\ stopping /\ pc[Main] = "idle"
    /\ pc' = [pc EXCEPT ![Main] = "process"]
    /\ UNCHANGED <<m_callbacks_pending, m_are_callbacks_running, scheduled, cur, mark,
                   stopping, added, finished>>

\* join_all has returned: FlushBackgroundCallbacks.
EmptyQueue ==
    /\ stopping /\ pc[Main] = "idle"
    /\ \A s \in Servers : pc[s] = "exited"
    /\ pc' = [pc EXCEPT ![Main] = "process"]
    /\ UNCHANGED <<m_callbacks_pending, m_are_callbacks_running, scheduled, cur, mark,
                   stopping, added, finished>>

\* should_continue.
EmptyQueueLoop ==
    /\ pc[Main] = "check"
    /\ pc' = [pc EXCEPT ![Main] = IF m_callbacks_pending = <<>> THEN "emptied" ELSE "process"]
    /\ UNCHANGED <<m_callbacks_pending, m_are_callbacks_running, scheduled, cur, mark,
                   stopping, added, finished>>

\* What a thread goes on with once it has begun.
Proceed(t) ==
    \/ MaybeScheduleProcessQueue(t) \/ Schedule(t)
    \/ ProcessQueue(t) \/ Finish(t) \/ Reset(t)

Next ==
    \/ \E c \in Callers, sync \in BOOLEAN : AddToProcessQueue(c, sync)
    \/ \E c \in Callers : SyncDone(c)
    \/ \E s \in Servers : TakeTask(s) \/ Exit(s)
    \/ \E t \in Threads : Proceed(t) \/ AddFromCallback(t)
    \/ Shutdown \/ EmptyQueue \/ EmptyQueueLoop

Spec == Init /\ [][Next]_vars

\* Every thread that can go on does, the scheduler's threads take their tasks
\* (Scheduler.tla's QueuedTasksRun), and Shutdown goes through.
FairSpec ==
    /\ Spec
    /\ \A t \in Threads : WF_vars(Proceed(t))
    /\ \A c \in Callers : WF_vars(SyncDone(c))
    /\ \A s \in Servers : WF_vars(TakeTask(s)) /\ WF_vars(Exit(s))
    /\ WF_vars(EmptyQueue) /\ WF_vars(EmptyQueueLoop)
----------------------------------------------------------------------------
TypeOK ==
    /\ m_callbacks_pending \in Seq(Nat)
    /\ m_are_callbacks_running \in BOOLEAN
    /\ scheduled \in Nat
    /\ pc \in [Threads -> {"idle", "maybe", "schedule", "syncing", "process", "callback",
                           "reset", "check", "emptied", "exited"}]
    /\ cur \in [Threads -> Nat]
    /\ mark \in [Threads -> Nat]
    /\ stopping \in BOOLEAN
    /\ added \in Nat /\ finished \in Nat

\* The callback that runs: of all threads' the only one.
CurrentOf(f) == IF \E t \in Threads : f[t] # 0 THEN f[CHOOSE t \in Threads : f[t] # 0] ELSE 0
current == CurrentOf(cur)

Fifo == INSTANCE CallbackFifo WITH waiting <- m_callbacks_pending

\* "no two jobs will be executed at the same time" (scheduler.h), and "all
\* callbacks happen in-order" (validationinterface.cpp): the client implements
\* a queue served one callback at a time.
ImplementsFifo == Fifo!Spec

\* scheduler.h's promise as an invariant: two threads never run callbacks.
OneAtATime == \A t, u \in Threads : pc[t] \in Running /\ pc[u] \in Running => t = u

\* A waiting callback is never forgotten: somebody runs callbacks, is about to
\* look at the queue again, or has a ProcessQueue scheduled.
NothingStranded ==
    m_callbacks_pending # <<>> =>
        \/ m_are_callbacks_running
        \/ scheduled > 0
        \/ \E t \in Threads : pc[t] \in {"maybe", "schedule", "process", "check"}

\* When SyncWithValidationInterfaceQueue returns, every callback added before
\* the call has run.
SyncSeesEverything ==
    [][\A c \in Callers : pc[c] = "syncing" /\ pc'[c] = "idle" => finished >= mark[c] - 1]_vars

\* EmptyQueue leaves nothing behind, whatever the interrupted threads were doing.
EmptiedAtShutdown ==
    pc[Main] = "emptied" => m_callbacks_pending = <<>> /\ ~m_are_callbacks_running /\ finished = added

\* Every callback runs, by a server or at shutdown.
CallbacksRun == \A n \in 1..MaxCallbacks : added >= n ~> finished >= n
=============================================================================
