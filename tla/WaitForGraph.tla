---------------------------- MODULE WaitForGraph ----------------------------
(***************************************************************************)
(* Tracked locks and the deadlock monitor of                               *)
(* concurrency-and-multithreading/deadlock_with_wfg.c.                     *)
(*                                                                         *)
(* Worker w acquires track_lock[w] and then track_lock[1 - w].  A section  *)
(* under wfg_mutex, which no thread holds while it blocks, is one step.    *)
(***************************************************************************)
EXTENDS Naturals

CONSTANTS None, Monitor

Worker == {0, 1}
Lock   == {0, 1}

VARIABLES
  mutex,       \* the thread that holds track_lock[l].mutex_value
  owner,       \* track_lock[l].owner
  wait_for,    \* the edges of the wait-for graph
  abort_flag,
  phase,       \* the call a worker is in: acquire "first" or "second",
               \* release "both" or only the "last" lock, or "done"
  pc,          \* where it is inside that call
  mpc,         \* where the monitor is
  next_lock    \* the lock the monitor broadcasts to next

vars == <<mutex, owner, wait_for, abort_flag, phase, pc, mpc, next_lock>>

monitor == <<mpc, next_lock>>

Init ==
  /\ mutex = [l \in Lock |-> None]
  /\ owner = [l \in Lock |-> None]
  /\ wait_for = {}
  /\ abort_flag = [w \in Worker |-> FALSE]
  /\ phase = [w \in Worker |-> "first"]
  /\ pc = [w \in Worker |-> "enter"]
  /\ mpc = "watch"
  /\ next_lock = 0

\* The lock a worker is acquiring or releasing.
Target(w) == IF phase[w] \in {"first", "last"} THEN w ELSE 1 - w

Goto(w, label) == pc' = [pc EXCEPT ![w] = label]

Enter(w, label) ==
  /\ mutex[Target(w)] = None
  /\ mutex' = [mutex EXCEPT ![Target(w)] = w]
  /\ Goto(w, label)

Leave(w, next) ==
  /\ mutex' = [mutex EXCEPT ![Target(w)] = None]
  /\ phase' = [phase EXCEPT ![w] = next]
  /\ Goto(w, "enter")

wfg_add_edge(w, o) == wait_for' = wait_for \cup {<<w, o>>}

\* Variant of wfg_remove_all_from: the edges that lead to the thread go.
wfg_remove_all_to(w) == wait_for' = {e \in wait_for : e[2] # w}

wfg_remove_all_from(w) == wait_for' = {e \in wait_for : e[1] # w}
-----------------------------------------------------------------------------
Acquiring(w) == phase[w] \in {"first", "second"}
Releasing(w) == phase[w] \in {"both", "last"}

enter(w) ==
  /\ pc[w] = "enter"
  /\ phase[w] # "done"
  /\ Enter(w, "test")
  /\ UNCHANGED <<owner, wait_for, abort_flag, phase, monitor>>

\* The lock is free or the worker's own: lines 117-120.
acquire_free(w) ==
  /\ Acquiring(w)
  /\ pc[w] = "test"
  /\ owner[Target(w)] \in {None, w}
  /\ owner' = [owner EXCEPT ![Target(w)] = w]
  /\ wfg_remove_all_from(w)
  /\ Leave(w, IF phase[w] = "first" THEN "second" ELSE "both")
  /\ UNCHANGED <<abort_flag, monitor>>

\* Lines 105-107: the wait edge.
acquire_busy(w) ==
  /\ Acquiring(w)
  /\ pc[w] = "test"
  /\ owner[Target(w)] \notin {None, w}
  /\ wfg_add_edge(w, owner[Target(w)])
  /\ Goto(w, "sleep")
  /\ UNCHANGED <<mutex, owner, abort_flag, phase, monitor>>

cond_wait(w) ==
  /\ pc[w] = "sleep"
  /\ mutex' = [mutex EXCEPT ![Target(w)] = None]
  /\ Goto(w, "waiting")
  /\ UNCHANGED <<owner, wait_for, abort_flag, phase, monitor>>

\* pthread_cond_wait may return although nobody signalled.
spurious_wakeup(w) ==
  /\ pc[w] = "waiting"
  /\ Goto(w, "woken")
  /\ UNCHANGED <<mutex, owner, wait_for, abort_flag, phase, monitor>>

wake_up(w) ==
  /\ pc[w] = "woken"
  /\ Enter(w, "awake")
  /\ UNCHANGED <<owner, wait_for, abort_flag, phase, monitor>>

\* Lines 110-116: an aborted worker gives up, and releases the first lock
\* when it already owns it; any other goes round the loop.
after_wait(w) ==
  /\ pc[w] = "awake"
  /\ \/ /\ abort_flag[w]
        /\ wfg_remove_all_from(w)
        /\ Leave(w, IF phase[w] = "first" THEN "done" ELSE "last")
     \/ /\ ~abort_flag[w]
        /\ Goto(w, "test")
        /\ UNCHANGED <<mutex, wait_for, phase>>
  /\ UNCHANGED <<owner, abort_flag, monitor>>

Woken(l) ==
  [w \in Worker |-> IF pc[w] = "waiting" /\ Target(w) = l THEN "woken" ELSE pc[w]]

\* Variant of track_release: the lock is freed but nobody is woken.
track_release_silent(w) ==
  /\ Releasing(w)
  /\ pc[w] = "test"
  /\ owner[Target(w)] = w
  /\ owner' = [owner EXCEPT ![Target(w)] = None]
  /\ Leave(w, IF phase[w] = "both" THEN "last" ELSE "done")
  /\ UNCHANGED <<wait_for, abort_flag, monitor>>

\* worker releases the second lock and then the first; it owns both.
track_release(w) ==
  /\ Releasing(w)
  /\ pc[w] = "test"
  /\ owner[Target(w)] = w
  /\ owner' = [owner EXCEPT ![Target(w)] = None]
  /\ mutex' = [mutex EXCEPT ![Target(w)] = None]
  /\ phase' = [phase EXCEPT ![w] = IF @ = "both" THEN "last" ELSE "done"]
  /\ pc' = [Woken(Target(w)) EXCEPT ![w] = "enter"]
  /\ UNCHANGED <<wait_for, abort_flag, monitor>>
-----------------------------------------------------------------------------
\* detect_cycle_dfs finds a path from a thread back to itself; between two
\* threads that is a pair of opposite edges.
has_cycle == \E e \in wait_for : <<e[2], e[1]>> \in wait_for

\* Variant of monitor_check: any edge counts as a cycle.
monitor_check_edge ==
  /\ mpc = "watch"
  /\ wait_for # {}
  /\ mpc' = "abort"
  /\ UNCHANGED <<mutex, owner, wait_for, abort_flag, phase, pc, next_lock>>

monitor_check ==
  /\ mpc = "watch"
  /\ has_cycle
  /\ mpc' = "abort"
  /\ UNCHANGED <<mutex, owner, wait_for, abort_flag, phase, pc, next_lock>>

\* The victim is always thread 1.
monitor_abort ==
  /\ mpc = "abort"
  /\ abort_flag' = [abort_flag EXCEPT ![1] = TRUE]
  /\ mpc' = "lock"
  /\ UNCHANGED <<mutex, owner, wait_for, phase, pc, next_lock>>

monitor_lock ==
  /\ mpc = "lock"
  /\ mutex[next_lock] = None
  /\ mutex' = [mutex EXCEPT ![next_lock] = Monitor]
  /\ mpc' = "broadcast"
  /\ UNCHANGED <<owner, wait_for, abort_flag, phase, pc, next_lock>>

\* The monitor stops after its first deadlock.
monitor_broadcast ==
  /\ mpc = "broadcast"
  /\ pc' = Woken(next_lock)
  /\ mutex' = [mutex EXCEPT ![next_lock] = None]
  /\ next_lock' = next_lock + 1
  /\ mpc' = IF next_lock = 1 THEN "done" ELSE "lock"
  /\ UNCHANGED <<owner, wait_for, abort_flag, phase>>

monitor_function ==
  monitor_check \/ monitor_abort \/ monitor_lock \/ monitor_broadcast

Step(w) ==
  \/ enter(w)
  \/ acquire_free(w)
  \/ acquire_busy(w)
  \/ cond_wait(w)
  \/ wake_up(w)
  \/ after_wait(w)
  \/ track_release(w)

WorkersDone == \A w \in Worker : phase[w] = "done"

Next ==
  \/ \E w \in Worker : Step(w) \/ spurious_wakeup(w)
  \/ monitor_function
  \/ WorkersDone /\ UNCHANGED vars

Spec == Init /\ [][Next]_vars
-----------------------------------------------------------------------------
TypeOK ==
  /\ mutex \in [Lock -> Worker \cup {None, Monitor}]
  /\ owner \in [Lock -> Worker \cup {None}]
  /\ wait_for \subseteq Worker \X Worker
  /\ abort_flag \in [Worker -> BOOLEAN]
  /\ phase \in [Worker -> {"first", "second", "both", "last", "done"}]
  /\ pc \in [Worker -> {"enter", "test", "sleep", "waiting", "woken", "awake"}]
  /\ mpc \in {"watch", "abort", "lock", "broadcast", "done"}
  /\ next_lock \in 0 .. 2

\* The monitor aborts only to resolve a deadlock: from its check until the
\* victim gives up, each worker owns its first lock and wants the other's.
OnlyRealDeadlocks ==
  mpc # "watch" /\ phase[1] = "second" =>
    \A w \in Worker : owner[w] = w /\ phase[w] = "second" /\ pc[w] # "enter"

\* A worker that gave up or finished owns no lock and waits for nobody.
DoneIsClean ==
  \A w \in Worker : phase[w] = "done" =>
    (\A l \in Lock : owner[l] # w) /\ (\A e \in wait_for : e[1] # w)
-----------------------------------------------------------------------------
(* The proofs' inductive invariant.                                        *)

\* Where a worker holds the mutex of the lock it works on, and where the
\* monitor does.
Mutexes ==
  /\ \A w \in Worker, l \in Lock :
       mutex[l] = w <=> l = Target(w) /\ pc[w] \in {"test", "sleep", "awake"}
  /\ \A l \in Lock : mutex[l] = Monitor <=> mpc = "broadcast" /\ l = next_lock

\* Which locks a worker owns in which call.
Ownership ==
  \A w \in Worker :
    /\ owner[w] = w <=> phase[w] \in {"second", "both", "last"}
    /\ owner[1 - w] = w <=> phase[w] = "both"

\* An edge leads from a worker that is still acquiring to the other one, which
\* has come at least as far; only an owner of both locks keeps one from its
\* first.
Edges ==
  \A e \in wait_for :
    /\ e[2] = 1 - e[1]
    /\ pc[e[1]] # "enter"
    /\ \/ phase[e[1]] = "first" /\ phase[e[2]] \in {"both", "last", "done"}
       \/ phase[e[1]] = "second" /\ phase[e[2]] \in {"second", "both", "last", "done"}

\* Only worker 1 is ever told to give up, and only after the monitor's check.
Flags ==
  /\ abort_flag[0] = FALSE
  /\ mpc # "watch" => phase[1] # "first"
  /\ mpc # "done" => next_lock \in Lock
  /\ \A w \in Worker : pc[w] \in {"sleep", "waiting", "woken", "awake"} => Acquiring(w)

IInv ==
  TypeOK /\ Mutexes /\ Ownership /\ Edges /\ Flags /\ OnlyRealDeadlocks
=============================================================================
