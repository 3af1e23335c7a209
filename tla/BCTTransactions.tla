--------------------------- MODULE BCTTransactions ---------------------------
(***************************************************************************)
(* The SQL transactions of BCTDatabaseSQLite.                              *)
(*                                                                         *)
(* All threads share one SQLite connection.  dbMutex is held for one        *)
(* statement at a time, so between the BEGIN and the COMMIT of one thread   *)
(* come statements of others.  A BEGIN inside a transaction and a COMMIT    *)
(* outside one are errors whose result nobody looks at.                     *)
(***************************************************************************)
EXTENDS Naturals

CONSTANTS
    Threads,     \* the thread of the notifications, those of the RPCs
    Handlers,    \* the former: processBlock and handleReorg catch exceptions
    MaxOps,      \* operations started
    MaxWrites    \* statements that write, in one operation

VARIABLES
    inTransaction,  \* the connection is between BEGIN and COMMIT
    pending,        \* writes of the open transaction
    disk,           \* committed writes, as <<operation, number>>
    op,             \* op[t]: the operation t is in, 0 if none
    left,           \* left[t]: writes it has still to do
    size,           \* size[o]: writes of operation o
    outcome         \* outcome[o]: what became of operation o

vars == <<inTransaction, pending, disk, op, left, size, outcome>>

Ops == 1..MaxOps
Writes(o) == {<<o, k>> : k \in 1..size[o]}

Init ==
    /\ inTransaction = FALSE /\ pending = {} /\ disk = {}
    /\ op = [t \in Threads |-> 0] /\ left = [t \in Threads |-> 0]
    /\ size = [o \in Ops |-> 0] /\ outcome = [o \in Ops |-> "none"]

\* The next operation; BEGIN in a transaction changes nothing.
beginTransaction(t) ==
    /\ op[t] = 0
    /\ \E o \in Ops, n \in 1..MaxWrites :
          /\ outcome[o] = "none" /\ \A p \in 1..(o - 1) : outcome[p] # "none"
          /\ op' = [op EXCEPT ![t] = o] /\ left' = [left EXCEPT ![t] = n]
          /\ size' = [size EXCEPT ![o] = n] /\ outcome' = [outcome EXCEPT ![o] = "running"]
    /\ inTransaction' = TRUE
    /\ UNCHANGED <<pending, disk>>

\* insertBCT, updateBCT, a DELETE...: outside a transaction it commits by itself.
executeSQL(t) ==
    /\ op[t] # 0 /\ left[t] > 0
    /\ left' = [left EXCEPT ![t] = @ - 1]
    /\ IF inTransaction THEN pending' = pending \cup {<<op[t], left[t]>>} /\ UNCHANGED disk
                        ELSE disk' = disk \cup {<<op[t], left[t]>>} /\ UNCHANGED pending
    /\ UNCHANGED <<inTransaction, op, size, outcome>>

\* The thread is done with its operation.
Done(t, o) ==
    /\ op' = [op EXCEPT ![t] = 0]
    /\ left' = [left EXCEPT ![t] = 0]
    /\ outcome' = [outcome EXCEPT ![op[t]] = o]
    /\ UNCHANGED size

commitTransaction(t) ==
    /\ op[t] # 0 /\ left[t] = 0
    /\ disk' = disk \cup pending /\ pending' = {} /\ inTransaction' = FALSE
    /\ Done(t, "committed")

\* An exception between BEGIN and COMMIT.
rollbackTransaction(t) ==
    /\ t \in Handlers /\ op[t] # 0
    /\ pending' = {} /\ inTransaction' = FALSE /\ UNCHANGED disk
    /\ Done(t, "rolled back")

\* The process dies and is started again.
Crash ==
    /\ \E t \in Threads : op[t] # 0
    /\ pending' = {} /\ inTransaction' = FALSE
    /\ op' = [t \in Threads |-> 0] /\ left' = [t \in Threads |-> 0]
    /\ outcome' = [o \in Ops |-> IF outcome[o] = "running" THEN "crashed" ELSE outcome[o]]
    /\ UNCHANGED <<disk, size>>

Next ==
    \/ \E t \in Threads : \/ beginTransaction(t) \/ executeSQL(t)
                          \/ commitTransaction(t) \/ rollbackTransaction(t)
    \/ Crash

Spec == Init /\ [][Next]_vars
-----------------------------------------------------------------------------
\* Whenever the process dies, all changes of an operation are on disk or none
\* is: "either all changes within that operation SHALL be committed, or none".
NoPartialWrites == \A o \in Ops : disk \cap Writes(o) \in {{}, Writes(o)}
=============================================================================
