------------------------------ MODULE Scheduler ------------------------------
(***************************************************************************)
(* CScheduler (scheduler.cpp): a queue of tasks ordered by the time they   *)
(* are due, serviced by threads that hold newTaskMutex except while they   *)
(* wait or run a task.  A step is one critical section, or the beginning   *)
(* or end of a wait.  Tasks in Periodic reschedule themselves (Repeat).    *)
(***************************************************************************)
EXTENDS Integers, FiniteSets, Sequences

CONSTANTS
    ServiceThreads,     \* threads that call serviceQueue
    Tasks,              \* functions to schedule
    Periodic,           \* those scheduled with scheduleEvery
    Delta,              \* deltaMilliSeconds of the periodic tasks
    MaxTime             \* bound: the last value of the clock

Times == 0..MaxTime
NoTask == "none"

ASSUME SchedulerAssumption ==
    /\ Periodic \subseteq Tasks /\ NoTask \notin Tasks
    /\ Delta \in Nat /\ MaxTime \in Nat

VARIABLES
    clock,
    taskQueue,                  \* the multimap: <<time, task>> in order
    nThreadsServicingQueue, stopRequested, stopWhenEmpty,
    interrupted,                \* threads that boost::thread::interrupt was called on
    at,                         \* where each server is
    deadline,                   \* what each server's wait_until waits for
    running,                    \* the task each server runs
    begun                       \* the tasks that have been started

schedulerVars == <<clock, taskQueue, nThreadsServicingQueue, stopRequested, stopWhenEmpty,
                   interrupted, at, deadline, running, begun>>

Waiting == {"sleeping", "timed"}
Servicing == Waiting \cup {"woken", "running", "done"}

SchedulerInit ==
    /\ clock = 0 /\ taskQueue = <<>>
    /\ nThreadsServicingQueue = 0 /\ stopRequested = FALSE /\ stopWhenEmpty = FALSE
    /\ interrupted = {}
    /\ at = [s \in ServiceThreads |-> "new"]
    /\ deadline = [s \in ServiceThreads |-> 0]
    /\ running = [s \in ServiceThreads |-> NoTask]
    /\ begun = {}

\* A mutated form: draining stops at once.
shouldStopDraining(queue) == stopRequested \/ stopWhenEmpty

shouldStop(queue) == stopRequested \/ (stopWhenEmpty /\ queue = <<>>)

\* multimap::insert: after the entries with the same key.
Inserted(queue, t, f) ==
    [i \in 1..(Len(queue) + 1) |->
        IF i <= Len(queue) /\ queue[i][1] <= t THEN queue[i]
        ELSE IF i = 1 \/ queue[i - 1][1] <= t THEN <<t, f>> ELSE queue[i - 1]]

\* notify_one wakes one of the waiting threads, if there is one.
NotifyOne(threads, after) ==
    IF \E s \in ServiceThreads : threads[s] \in Waiting
    THEN \E s \in ServiceThreads : threads[s] \in Waiting /\ after = [threads EXCEPT ![s] = "woken"]
    ELSE after = threads

NotifyAll(threads) ==
    [s \in ServiceThreads |-> IF threads[s] \in Waiting THEN "woken" ELSE threads[s]]

----------------------------------------------------------------------------
(* schedule, scheduleEvery, stop and interruption.                         *)

Queued(f) == \E i \in DOMAIN taskQueue : taskQueue[i][2] = f
Known(f) == Queued(f) \/ \E s \in ServiceThreads : running[s] = f

\* A mutated form: nobody is told of the task.
scheduleSilently(f, t) ==
    /\ ~Known(f) /\ f \notin begun
    /\ taskQueue' = Inserted(taskQueue, t, f)
    /\ UNCHANGED <<clock, nThreadsServicingQueue, stopRequested, stopWhenEmpty,
                   interrupted, at, deadline, running, begun>>

\* Each task is scheduled once from outside; the time may have passed.
schedule(f, t) ==
    /\ ~Known(f) /\ f \notin begun
    /\ taskQueue' = Inserted(taskQueue, t, f)
    /\ NotifyOne(at, at')
    /\ UNCHANGED <<clock, nThreadsServicingQueue, stopRequested, stopWhenEmpty,
                   interrupted, deadline, running, begun>>

\* A mutated form: no thread hears of it.
stopSilently(drain) ==
    /\ stopWhenEmpty' = (stopWhenEmpty \/ drain)
    /\ stopRequested' = (stopRequested \/ ~drain)
    /\ <<stopWhenEmpty', stopRequested'>> # <<stopWhenEmpty, stopRequested>>
    /\ UNCHANGED <<clock, taskQueue, nThreadsServicingQueue, interrupted, at, deadline, running, begun>>

stop(drain) ==
    /\ stopWhenEmpty' = (stopWhenEmpty \/ drain)
    /\ stopRequested' = (stopRequested \/ ~drain)
    /\ <<stopWhenEmpty', stopRequested'>> # <<stopWhenEmpty, stopRequested>>
    /\ at' = NotifyAll(at)
    /\ UNCHANGED <<clock, taskQueue, nThreadsServicingQueue, interrupted, deadline, running, begun>>

\* threadGroup.interrupt_all in Shutdown.
InterruptAll ==
    /\ interrupted = {}
    /\ interrupted' = ServiceThreads
    /\ UNCHANGED <<clock, taskQueue, nThreadsServicingQueue, stopRequested, stopWhenEmpty,
                   at, deadline, running, begun>>

Tick ==
    /\ clock < MaxTime
    /\ clock' = clock + 1
    /\ UNCHANGED <<taskQueue, nThreadsServicingQueue, stopRequested, stopWhenEmpty,
                   interrupted, at, deadline, running, begun>>
----------------------------------------------------------------------------
(* serviceQueue.                                                           *)

\* The server holds the lock: it leaves the loop (and passes the word on), waits
\* for a task, or waits for the time of the first one.
Continue(s, n, queue) ==
    \/ /\ shouldStop(queue)
       /\ nThreadsServicingQueue' = n - 1
       /\ NotifyOne([at EXCEPT ![s] = "exited"], at')
       /\ UNCHANGED deadline
    \/ /\ ~shouldStop(queue) /\ queue = <<>>
       /\ at' = [at EXCEPT ![s] = "sleeping"]
       /\ nThreadsServicingQueue' = n
       /\ UNCHANGED deadline
    \/ /\ ~shouldStop(queue) /\ queue # <<>>
       /\ at' = [at EXCEPT ![s] = "timed"]
       /\ deadline' = [deadline EXCEPT ![s] = queue[1][1]]
       /\ nThreadsServicingQueue' = n

Start(s) ==
    /\ at[s] = "new"
    /\ Continue(s, nThreadsServicingQueue + 1, taskQueue)
    /\ UNCHANGED <<clock, taskQueue, stopRequested, stopWhenEmpty, interrupted, running, begun>>

\* A wait ended by a notification.
Woken(s) ==
    /\ at[s] = "woken" /\ s \notin interrupted
    /\ Continue(s, nThreadsServicingQueue, taskQueue)
    /\ UNCHANGED <<clock, taskQueue, stopRequested, stopWhenEmpty, interrupted, running, begun>>

\* A mutated form: the task stays in the queue until it has run.
TimeoutKeepsTask(s) ==
    /\ at[s] = "timed" /\ clock >= deadline[s] /\ s \notin interrupted
    /\ \/ /\ shouldStop(taskQueue) \/ taskQueue = <<>>
          /\ Continue(s, nThreadsServicingQueue, taskQueue)
          /\ UNCHANGED <<taskQueue, running, begun>>
       \/ /\ ~shouldStop(taskQueue) /\ taskQueue # <<>>
          /\ LET first == Head(taskQueue)
             IN /\ running' = [running EXCEPT ![s] = first[2]]
                /\ begun' = begun \cup {first[2]}
          /\ at' = [at EXCEPT ![s] = "running"]
          /\ UNCHANGED <<taskQueue, nThreadsServicingQueue, deadline>>
    /\ UNCHANGED <<clock, stopRequested, stopWhenEmpty, interrupted>>

\* A mutated form: any return of the wait counts as the time having come.
TimeoutAnyTime(s) ==
    /\ at[s] = "timed" /\ s \notin interrupted
    /\ \/ /\ shouldStop(taskQueue) \/ taskQueue = <<>>
          /\ Continue(s, nThreadsServicingQueue, taskQueue)
          /\ UNCHANGED <<taskQueue, running, begun>>
       \/ /\ ~shouldStop(taskQueue) /\ taskQueue # <<>>
          /\ LET first == Head(taskQueue)
             IN /\ running' = [running EXCEPT ![s] = first[2]]
                /\ begun' = begun \cup {first[2]}
          /\ taskQueue' = Tail(taskQueue)
          /\ at' = [at EXCEPT ![s] = "running"]
          /\ UNCHANGED <<nThreadsServicingQueue, deadline>>
    /\ UNCHANGED <<clock, stopRequested, stopWhenEmpty, interrupted>>

\* wait_until times out: whatever is first in the queue by now is taken.
Timeout(s) ==
    /\ at[s] = "timed" /\ clock >= deadline[s] /\ s \notin interrupted
    /\ \/ /\ shouldStop(taskQueue) \/ taskQueue = <<>>
          /\ Continue(s, nThreadsServicingQueue, taskQueue)
          /\ UNCHANGED <<taskQueue, running, begun>>
       \/ /\ ~shouldStop(taskQueue) /\ taskQueue # <<>>
          /\ LET first == Head(taskQueue)
             IN /\ running' = [running EXCEPT ![s] = first[2]]
                /\ begun' = begun \cup {first[2]}
          /\ taskQueue' = Tail(taskQueue)
          /\ at' = [at EXCEPT ![s] = "running"]
          /\ UNCHANGED <<nThreadsServicingQueue, deadline>>
    /\ UNCHANGED <<clock, stopRequested, stopWhenEmpty, interrupted>>

\* f() returns; Repeat first schedules itself again (while the clock goes on).
Run(s) ==
    /\ at[s] = "running"
    /\ IF running[s] \in Periodic /\ clock + Delta <= MaxTime
       THEN /\ taskQueue' = Inserted(taskQueue, clock + Delta, running[s])
            /\ NotifyOne([at EXCEPT ![s] = "done"], at')
       ELSE /\ at' = [at EXCEPT ![s] = "done"]
            /\ UNCHANGED taskQueue
    /\ running' = [running EXCEPT ![s] = NoTask]
    /\ UNCHANGED <<clock, nThreadsServicingQueue, stopRequested, stopWhenEmpty,
                   interrupted, deadline, begun>>

\* The server has the lock again after f().
AfterRun(s) ==
    /\ at[s] = "done"
    /\ Continue(s, nThreadsServicingQueue, taskQueue)
    /\ UNCHANGED <<clock, taskQueue, stopRequested, stopWhenEmpty, interrupted, running, begun>>

\* boost::thread_interrupted: an interrupted thread's wait always throws it, f()
\* may; it is rethrown past the loop.
Interrupted(s) ==
    /\ s \in interrupted
    /\ at[s] \in Waiting \cup {"woken", "running"}
    /\ nThreadsServicingQueue' = nThreadsServicingQueue - 1
    /\ at' = [at EXCEPT ![s] = "exited"]
    /\ running' = [running EXCEPT ![s] = NoTask]
    /\ UNCHANGED <<clock, taskQueue, stopRequested, stopWhenEmpty, interrupted, deadline, begun>>

Serve(s) == Start(s) \/ Woken(s) \/ Timeout(s) \/ Run(s) \/ AfterRun(s)

SchedulerNext ==
    \/ \E f \in Tasks, t \in Times : schedule(f, t)
    \/ \E drain \in BOOLEAN : stop(drain)
    \/ InterruptAll \/ Tick
    \/ \E s \in ServiceThreads : Serve(s) \/ Interrupted(s)

\* Threads are scheduled fairly and time passes.
SchedulerFairness ==
    /\ \A s \in ServiceThreads : WF_schedulerVars(Serve(s) \/ Interrupted(s))
    /\ WF_schedulerVars(Tick)

SchedulerSpec == SchedulerInit /\ [][SchedulerNext]_schedulerVars
SchedulerFairSpec == SchedulerSpec /\ SchedulerFairness
----------------------------------------------------------------------------
SchedulerTypeOK ==
    /\ clock \in Times
    /\ taskQueue \in Seq(Nat \X Tasks)
    /\ nThreadsServicingQueue = Cardinality({s \in ServiceThreads : at[s] \in Servicing})
    /\ stopRequested \in BOOLEAN /\ stopWhenEmpty \in BOOLEAN
    /\ interrupted \subseteq ServiceThreads
    /\ at \in [ServiceThreads -> {"new", "exited"} \cup Servicing]
    /\ deadline \in [ServiceThreads -> Nat]
    /\ running \in [ServiceThreads -> Tasks \cup {NoTask}]
    /\ begun \subseteq Tasks

\* A scheduled task is in one place only, the queue or one server, and starts
\* once for each time it is scheduled (the erase of serviceQueue).
StartedOnce ==
    /\ \A i, j \in DOMAIN taskQueue : taskQueue[i][2] = taskQueue[j][2] => i = j
    /\ \A s, r \in ServiceThreads : running[s] # NoTask /\ running[s] = running[r] => s = r
    /\ \A s \in ServiceThreads : ~Queued(running[s])
    /\ \A f \in begun \ Periodic : ~Queued(f)

\* stop(true) lets the last thread go only when there is no work left, although
\* the other threads may have left while a task that schedules more was running.
DrainedBeforeExit ==
    [][(\A s \in ServiceThreads : at'[s] = "exited") /\ at' # at /\ ~stopRequested /\ interrupted = {}
       => taskQueue' = <<>>]_schedulerVars

\* "Call func at/after time t": a thread that services the queue alone, as in the
\* daemon, starts no task before it is due, whatever is scheduled, or taken from
\* the head of the queue, between the beginning and the end of its wait.
AtOrAfterTime ==
    [][\A s \in ServiceThreads :
          at[s] # "running" /\ at'[s] = "running" /\ (\A r \in ServiceThreads \ {s} : at[r] = "new")
          => Head(taskQueue)[1] <= clock]_schedulerVars

\* A queued task is taken unless the scheduler is told to stop.
QueuedTasksRun ==
    \A f \in Tasks :
       Queued(f) ~> (~Queued(f) \/ stopRequested \/ stopWhenEmpty \/ interrupted # {})

\* Told to stop or drain or interrupted, every thread leaves serviceQueue: no
\* wake-up is lost and join_all returns.
StopsWhenTold ==
    stopRequested \/ stopWhenEmpty \/ interrupted # {} ~> \A s \in ServiceThreads : at[s] = "exited"
=============================================================================
