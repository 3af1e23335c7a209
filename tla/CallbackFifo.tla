---------------------------- MODULE CallbackFifo ----------------------------
(***************************************************************************)
(* What SingleThreadedSchedulerClient promises its users: callbacks run    *)
(* one at a time, each once, in the order in which they were added.        *)
(***************************************************************************)
EXTENDS Integers, Sequences

CONSTANT MaxCallbacks

VARIABLES
    waiting,    \* the callbacks added and not begun, oldest first
    current,    \* the one that runs, or 0
    added,      \* how many have been added; they are numbered in this order
    finished    \* how many have run

fifoVars == <<waiting, current, added, finished>>

Init == waiting = <<>> /\ current = 0 /\ added = 0 /\ finished = 0

Submit ==
    /\ added < MaxCallbacks
    /\ added' = added + 1
    /\ waiting' = Append(waiting, added + 1)
    /\ UNCHANGED <<current, finished>>

Begin ==
    /\ current = 0 /\ waiting # <<>>
    /\ current' = finished + 1
    /\ Head(waiting) = finished + 1
    /\ waiting' = Tail(waiting)
    /\ UNCHANGED <<added, finished>>

End ==
    /\ current # 0
    /\ finished' = current
    /\ current' = 0
    /\ UNCHANGED <<waiting, added>>

Next == Submit \/ Begin \/ End

Spec == Init /\ [][Next]_fifoVars
=============================================================================
