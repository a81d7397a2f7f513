--------------------------- MODULE MCTransactions ---------------------------
(***************************************************************************)
(* The transactions of deadlock_mutex_txn.c and the versioned row of       *)
(* mvcc_demo.c, one program at a time: running names the one that runs.    *)
(***************************************************************************)
EXTENDS DeadlockTxn, TLC

CONSTANTS Reader, Reads, OldValue, NewValue, Missing   \* of MvccDemo

VARIABLES running, versions, row_clock, commit_timestamp, row_ts, results

rowVars == <<versions, row_clock, commit_timestamp, row_ts, results>>

Row == INSTANCE MvccDemo WITH global_ts <- row_clock, start_ts <- row_ts

\* The keys of txn_func_ab_deadlock1 and txn_func_ab_deadlock2.
OppositeOrders == {<<1, 2>>, <<2, 1>>}

MCInit == running \in {"deadlock_mutex_txn", "mvcc_demo"} /\ Init /\ Row!Init

Transactions == running = "deadlock_mutex_txn" /\ Next /\ UNCHANGED <<running, rowVars>>

VersionedRow == running = "mvcc_demo" /\ Row!Next /\ UNCHANGED <<running, vars>>

MCSpec == MCInit /\ [][Transactions \/ VersionedRow]_<<running, vars, rowVars>>

\* Threads keep running, and a mutex that keeps becoming free is handed to
\* each of its waiters in the end.
MCFairSpec ==
  /\ MCSpec
  /\ \A t \in Thread :
       /\ WF_<<running, vars, rowVars>>(Transactions /\ Step(t))
       /\ SF_<<running, vars, rowVars>>(Transactions /\ lock_key(t))
       /\ SF_<<running, vars, rowVars>>(Transactions /\ wake_up(t))

Symmetry == Permutations(Thread)
-----------------------------------------------------------------------------
\* deadlock_mutex_txn.c: a transaction that copies values into the table owns
\* every key it writes, and the keys it says it holds are those it owns.  The
\* states of both programs keep their types.
LocksKept == TypeOK /\ Row!TypeOK /\ OwnsWhileCopying /\ HeldIsOwned

\* deadlock_mutex_txn.c: a transaction is chosen as victim only when it is on
\* a cycle of waits, the oldest transaction of the cycle is never chosen, and no
\* key stays owned by a transaction that has ended, by commit or by abort.
VictimsJustified == NoFalseDeadlock /\ OldestSurvives /\ NoOrphanLock

\* mvcc_demo.c: at every timestamp exactly one version is visible, and a
\* reader that began before the writer's timestamp was drawn never sees the
\* new value.
RowSnapshots == Row!OneVisible /\ Row!OldSnapshotsKeep
=============================================================================
