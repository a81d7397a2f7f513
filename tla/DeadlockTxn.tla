----------------------------- MODULE DeadlockTxn -----------------------------
(***************************************************************************)
(* The locking transactions with deadlock detection of                     *)
(* concurrency-and-multithreading/deadlock_mutex_txn.c.                    *)
(*                                                                         *)
(* A thread runs one transaction: it writes the keys of its program in     *)
(* order, then commits, as txn_func_ab_deadlock1 and 2 do, or gives up.    *)
(* Mutexes that are held across other lock calls (lk->mtx, t->mtx) are     *)
(* modelled; a section under wf_mtx or store_mtx is one step.  The key     *)
(* table is the one of MvccStore, so a key stands for its slot here.       *)
(***************************************************************************)
EXTENDS Naturals, Sequences, FiniteSetsExt

CONSTANTS
  Thread,
  Key,       \* slots of store[], a set of numbers
  Programs,  \* the sequences of keys a transaction may write
  None

ASSUME TxnAssumption ==
  /\ Key \subseteq Nat
  /\ Programs \subseteq Seq(Key)
  /\ None \notin Thread

VARIABLES
  value,     \* store[k].value: the transaction that last installed one
  lmtx,      \* the thread that holds store[k].lock.mtx
  owner,     \* store[k].lock.owner_txn
  status,    \* t->status
  start_ts,  \* t->start_ts; t->id grows with it
  tmtx,      \* the thread that holds t->mtx
  held,      \* t->held_keys
  writes,    \* the keys in t->writes
  wait_for,  \* the edges of the wait-for graph
  global_ts,
  program,   \* the keys still to be written
  edge,      \* the local variable owner of acquire_key_lock
  victim,    \* the transaction whose locks the thread releases
  pc

vars == <<value, lmtx, owner, status, start_ts, tmtx, held, writes, wait_for,
          global_ts, program, edge, victim, pc>>

txn   == <<status, start_ts, tmtx, held, writes, global_ts>>
local == <<program, edge, victim>>

Init ==
  /\ value = [k \in Key |-> None]
  /\ lmtx = [k \in Key |-> None]
  /\ owner = [k \in Key |-> None]
  /\ status = [t \in Thread |-> "none"]
  /\ start_ts = [t \in Thread |-> 0]
  /\ tmtx = [t \in Thread |-> None]
  /\ held = [t \in Thread |-> {}]
  /\ writes = [t \in Thread |-> {}]
  /\ wait_for = {}
  /\ global_ts = 1
  /\ program \in [Thread -> Programs]
  /\ edge = [t \in Thread |-> None]
  /\ victim = [t \in Thread |-> None]
  /\ pc = [t \in Thread |-> "new"]

Goto(t, label) == pc' = [pc EXCEPT ![t] = label]

\* The key a thread is writing.
key(t) == Head(program[t])

create_txn(t) ==
  /\ pc[t] = "new"
  /\ start_ts' = [start_ts EXCEPT ![t] = global_ts]
  /\ global_ts' = global_ts + 1
  /\ status' = [status EXCEPT ![t] = "active"]
  /\ Goto(t, "idle")
  /\ UNCHANGED <<value, lmtx, owner, tmtx, held, writes, wait_for, local>>
-----------------------------------------------------------------------------
\* txn_write: the status check, then acquire_key_lock.
txn_write(t) ==
  /\ pc[t] = "idle"
  /\ program[t] # << >>
  /\ \/ /\ status[t] = "active"
        /\ Goto(t, "lock")
     \/ /\ status[t] # "active"
        /\ Goto(t, "failed")
  /\ UNCHANGED <<value, lmtx, owner, txn, wait_for, local>>

lock_key(t) ==
  /\ pc[t] = "lock"
  /\ lmtx[key(t)] = None
  /\ lmtx' = [lmtx EXCEPT ![key(t)] = t]
  /\ Goto(t, "acquire")
  /\ UNCHANGED <<value, owner, txn, wait_for, local>>

UnlockKey(t) == lmtx' = [lmtx EXCEPT ![key(t)] = None]

\* The transaction was aborted by another thread.
acquire_inactive(t) ==
  /\ pc[t] = "acquire"
  /\ status[t] # "active"
  /\ UnlockKey(t)
  /\ Goto(t, "failed")
  /\ UNCHANGED <<value, owner, txn, wait_for, local>>

\* The status is read without t->mtx, before the owner of the key.
acquire_active(t) ==
  /\ pc[t] = "acquire"
  /\ status[t] = "active"
  /\ Goto(t, "test")
  /\ UNCHANGED <<value, lmtx, owner, txn, wait_for, local>>

\* Variant of acquire_free: a key is granted whoever owns it.
acquire_free_stolen(t) ==
  /\ pc[t] = "test"
  /\ owner' = [owner EXCEPT ![key(t)] = t]
  /\ held' = [held EXCEPT ![t] = @ \cup {key(t)}]
  /\ UnlockKey(t)
  /\ Goto(t, "buffer")
  /\ UNCHANGED <<value, status, start_ts, tmtx, writes, global_ts, wait_for, local>>

acquire_free(t) ==
  /\ pc[t] = "test"
  /\ owner[key(t)] \in {None, t}
  /\ owner' = [owner EXCEPT ![key(t)] = t]
  /\ held' = [held EXCEPT ![t] = @ \cup {key(t)}]
  /\ UnlockKey(t)
  /\ Goto(t, "buffer")
  /\ UNCHANGED <<value, status, start_ts, tmtx, writes, global_ts, wait_for, local>>

add_wait_edge(waiter, o) == wait_for' = wait_for \cup {<<waiter, o>>}

remove_wait_edge(waiter, o) == wait_for' = wait_for \ {<<waiter, o>>}

acquire_busy(t) ==
  /\ pc[t] = "test"
  /\ owner[key(t)] \notin {None, t}
  /\ edge' = [edge EXCEPT ![t] = owner[key(t)]]
  /\ add_wait_edge(t, owner[key(t)])
  /\ Goto(t, "detect")
  /\ UNCHANGED <<value, lmtx, owner, txn, program, victim>>

\* Everything a transaction waits for, directly or through others.
WaitsOn(t) ==
  LET closed(S) == \A e \in wait_for : e[1] \in S \cup {t} => e[2] \in S
  IN  {u \in Thread : \A S \in SUBSET Thread : closed(S) => u \in S}

OnCycle == {t \in Thread : t \in WaitsOn(t)}

\* Variant of PickVictim: the oldest transaction is chosen.
PickVictim_Oldest ==
  CHOOSE v \in OnCycle : \A u \in OnCycle : start_ts[u] >= start_ts[v]

\* The youngest transaction on a cycle; a transaction waits for at most one
\* other, so the depth-first search meets every cycle.
PickVictim ==
  CHOOSE v \in OnCycle : \A u \in OnCycle : start_ts[u] <= start_ts[v]

detect_none(t) ==
  /\ pc[t] = "detect"
  /\ OnCycle = {}
  /\ Goto(t, "wait")
  /\ UNCHANGED <<value, lmtx, owner, txn, wait_for, local>>

\* The caller is the victim: it drops the key's mutex and aborts itself.
detect_self(t) ==
  /\ pc[t] = "detect"
  /\ OnCycle # {}
  /\ PickVictim = t
  /\ victim' = [victim EXCEPT ![t] = t]
  /\ remove_wait_edge(t, edge[t])
  /\ UnlockKey(t)
  /\ Goto(t, "abort_txn")
  /\ UNCHANGED <<value, owner, txn, program, edge>>

\* Another transaction is the victim: the caller aborts it, and keeps the
\* mutex of its key meanwhile.
detect_other(t) ==
  /\ pc[t] = "detect"
  /\ OnCycle # {}
  /\ PickVictim # t
  /\ victim' = [victim EXCEPT ![t] = PickVictim]
  /\ Goto(t, "abort_txn")
  /\ UNCHANGED <<value, lmtx, owner, txn, wait_for, program, edge>>

\* The test of the inner loop (line 276).
cond_wait(t) ==
  /\ pc[t] = "wait"
  /\ \/ /\ owner[key(t)] \notin {None, t}
        /\ status[t] = "active"
        /\ UnlockKey(t)
        /\ Goto(t, "waiting")
        /\ UNCHANGED wait_for
     \/ /\ owner[key(t)] \in {None, t} \/ status[t] # "active"
        /\ remove_wait_edge(t, edge[t])
        /\ Goto(t, "acquire")
        /\ UNCHANGED lmtx
  /\ UNCHANGED <<value, owner, txn, local>>

wake_up(t) ==
  /\ pc[t] = "woken"
  /\ lmtx[key(t)] = None
  /\ lmtx' = [lmtx EXCEPT ![key(t)] = t]
  /\ Goto(t, "wait")
  /\ UNCHANGED <<value, owner, txn, wait_for, local>>

buffer_write(t) ==
  /\ pc[t] = "buffer"
  /\ writes' = [writes EXCEPT ![t] = @ \cup {key(t)}]
  /\ program' = [program EXCEPT ![t] = Tail(@)]
  /\ Goto(t, "idle")
  /\ UNCHANGED <<value, lmtx, owner, status, start_ts, tmtx, held, global_ts,
                 wait_for, edge, victim>>
-----------------------------------------------------------------------------
txn_explicit_abort(t) ==
  /\ pc[t] = "idle"
  /\ victim' = [victim EXCEPT ![t] = t]
  /\ Goto(t, "abort_txn")
  /\ UNCHANGED <<value, lmtx, owner, txn, wait_for, program, edge>>

\* Where abort_txn returns to: detect_other goes round the loop of
\* acquire_key_lock, after remove_wait_edge.
AbortReturn(t) ==
  /\ wait_for' = IF victim[t] = t THEN wait_for ELSE wait_for \ {<<t, edge[t]>>}
  /\ Goto(t, IF victim[t] = t THEN "failed" ELSE "acquire")

abort_inactive(t) ==
  /\ pc[t] = "abort_txn"
  /\ tmtx[victim[t]] = None
  /\ status[victim[t]] # "active"
  /\ AbortReturn(t)
  /\ UNCHANGED <<value, lmtx, owner, txn, local>>

abort_txn(t) ==
  LET v == victim[t] IN
  /\ pc[t] = "abort_txn"
  /\ tmtx[v] = None
  /\ status[v] = "active"
  /\ tmtx' = [tmtx EXCEPT ![v] = t]
  /\ status' = [status EXCEPT ![v] = "aborted"]
  /\ wait_for' = {e \in wait_for : v \notin {e[1], e[2]}}
  /\ writes' = [writes EXCEPT ![v] = {}]
  /\ Goto(t, "abort_release")
  /\ UNCHANGED <<value, lmtx, owner, start_ts, held, global_ts, local>>

\* Variant of release_next: the condition variable is not signalled.
release_next_silent(t) ==
  LET v == victim[t]
      k == Min(held[v])
  IN
  /\ pc[t] \in {"abort_release", "commit_release"}
  /\ held[v] # {}
  /\ lmtx[k] = None
  /\ owner' = IF owner[k] = v THEN [owner EXCEPT ![k] = None] ELSE owner
  /\ held' = [held EXCEPT ![v] = @ \ {k}]
  /\ UNCHANGED <<value, lmtx, status, start_ts, tmtx, writes, global_ts, wait_for,
                 local, pc>>

\* One turn of release_all_locks.  It needs the key's mutex, which the caller
\* of abort_txn may hold itself.
release_next(t) ==
  LET v == victim[t]
      k == Min(held[v])
  IN
  /\ pc[t] \in {"abort_release", "commit_release"}
  /\ held[v] # {}
  /\ lmtx[k] = None
  /\ \/ /\ owner[k] = v
        /\ owner' = [owner EXCEPT ![k] = None]
        /\ pc' = [u \in Thread |->
                    IF pc[u] = "waiting" /\ key(u) = k THEN "woken" ELSE pc[u]]
     \/ /\ owner[k] # v
        /\ UNCHANGED <<owner, pc>>
  /\ held' = [held EXCEPT ![v] = @ \ {k}]
  /\ UNCHANGED <<value, lmtx, status, start_ts, tmtx, writes, global_ts, wait_for,
                 local>>

abort_done(t) ==
  /\ pc[t] = "abort_release"
  /\ held[victim[t]] = {}
  /\ tmtx' = [tmtx EXCEPT ![victim[t]] = None]
  /\ AbortReturn(t)
  /\ UNCHANGED <<value, lmtx, owner, status, start_ts, held, writes, global_ts, local>>
-----------------------------------------------------------------------------
txn_commit(t) ==
  /\ pc[t] = "idle"
  /\ program[t] = << >>
  /\ tmtx[t] = None
  /\ \/ /\ status[t] = "active"
        /\ tmtx' = [tmtx EXCEPT ![t] = t]
        /\ victim' = [victim EXCEPT ![t] = t]
        /\ Goto(t, "commit_copy")
     \/ /\ status[t] # "active"
        /\ Goto(t, "failed")
        /\ UNCHANGED <<tmtx, victim>>
  /\ UNCHANGED <<value, lmtx, owner, status, start_ts, held, writes, global_ts,
                 wait_for, program, edge>>

\* One write is copied to the store under store_mtx; the list is freed once
\* all are.
commit_copy(t) ==
  /\ pc[t] = "commit_copy"
  /\ \/ \E k \in writes[t] :
          /\ value' = [value EXCEPT ![k] = t]
          /\ writes' = [writes EXCEPT ![t] = @ \ {k}]
          /\ UNCHANGED pc
     \/ /\ writes[t] = {}
        /\ Goto(t, "commit_release")
        /\ UNCHANGED <<value, writes>>
  /\ UNCHANGED <<lmtx, owner, status, start_ts, tmtx, held, global_ts, wait_for, local>>

commit_done(t) ==
  /\ pc[t] = "commit_release"
  /\ held[t] = {}
  /\ status' = [status EXCEPT ![t] = "committed"]
  /\ tmtx' = [tmtx EXCEPT ![t] = None]
  /\ Goto(t, "done")
  /\ UNCHANGED <<value, lmtx, owner, start_ts, held, writes, global_ts, wait_for, local>>
-----------------------------------------------------------------------------
Step(t) ==
  \/ create_txn(t)
  \/ txn_write(t)
  \/ lock_key(t)
  \/ acquire_inactive(t)
  \/ acquire_active(t)
  \/ acquire_free(t)
  \/ acquire_busy(t)
  \/ detect_none(t)
  \/ detect_self(t)
  \/ detect_other(t)
  \/ cond_wait(t)
  \/ wake_up(t)
  \/ buffer_write(t)
  \/ txn_explicit_abort(t)
  \/ abort_inactive(t)
  \/ abort_txn(t)
  \/ release_next(t)
  \/ abort_done(t)
  \/ txn_commit(t)
  \/ commit_copy(t)
  \/ commit_done(t)

Next == \E t \in Thread : Step(t)

Spec == Init /\ [][Next]_vars

\* Threads keep running, and a mutex that keeps becoming free is handed to
\* each of its waiters in the end.
FairSpec ==
  /\ Spec
  /\ \A t \in Thread : WF_vars(Step(t)) /\ SF_vars(lock_key(t)) /\ SF_vars(wake_up(t))
-----------------------------------------------------------------------------
PC == {"new", "idle", "lock", "acquire", "test", "detect", "wait", "waiting", "woken",
       "buffer", "abort_txn", "abort_release", "commit_copy", "commit_release",
       "failed", "done"}

TypeOK ==
  /\ value \in [Key -> Thread \cup {None}]
  /\ lmtx \in [Key -> Thread \cup {None}]
  /\ owner \in [Key -> Thread \cup {None}]
  /\ status \in [Thread -> {"none", "active", "aborted", "committed"}]
  /\ start_ts \in [Thread -> Nat]
  /\ tmtx \in [Thread -> Thread \cup {None}]
  /\ held \in [Thread -> SUBSET Key]
  /\ writes \in [Thread -> SUBSET Key]
  /\ wait_for \subseteq Thread \X Thread
  /\ global_ts \in Nat
  /\ program \in [Thread -> Seq(Key)]
  /\ edge \in [Thread -> Thread \cup {None}]
  /\ victim \in [Thread -> Thread \cup {None}]
  /\ pc \in [Thread -> PC]

\* Strict two-phase locking: while txn_commit copies its writes the
\* transaction owns every key it wrote, although other threads may abort
\* transactions and release their keys at any moment.
OwnsWhileCopying ==
  \A t \in Thread : pc[t] = "commit_copy" => \A k \in writes[t] : owner[k] = t

\* held_keys and owner_txn never disagree, whoever releases the locks of a
\* transaction: its own thread or one that aborts it.
HeldIsOwned ==
  \A t \in Thread, k \in Key : k \in held[t] <=> owner[k] = t

\* A finished transaction owns no key that nobody is about to release: its
\* abort by another thread never races with its own acquire_key_lock so that
\* a key stays owned for ever.
NoOrphanLock ==
  \A k \in Key : owner[k] # None =>
    pc[owner[k]] \notin {"failed", "done"} \/ tmtx[owner[k]] # None

\* A transaction that another thread is about to abort is really part of a
\* deadlock, although the detector's graph may be out of date: it is inside
\* acquire_key_lock, and so is everyone it waits for, in a circle.
NoFalseDeadlock ==
  LET blocked == {"acquire", "test", "detect", "wait", "waiting", "woken", "abort_txn", "abort_release"}
      circle(S) == \A u \in S : /\ pc[u] \in blocked /\ program[u] # << >>
                                /\ owner[key(u)] \in S \ {u}
  IN \A t \in Thread :
       (pc[t] = "abort_txn" /\ victim[t] # t /\ status[victim[t]] = "active")
         => \E S \in SUBSET Thread : victim[t] \in S /\ circle(S)

\* "Aborting victim txn ... (youngest in cycle)" (line 269): the detector
\* sacrifices no transaction while only younger ones are at work.
OldestSurvives ==
  \A t \in Thread :
    (pc[t] = "abort_txn" /\ victim[t] # t /\ status[victim[t]] = "active")
      => \E u \in Thread : status[u] = "active" /\ start_ts[u] < start_ts[victim[t]]

\* main announces that the "deadlock detector should abort the youngest"
\* (line 385): the youngest transaction on a cycle
\* is aborted and its locks are released.
DeadlocksResolved ==
  \A v \in Thread :
    (OnCycle # {} /\ PickVictim = v) ~> (status[v] = "aborted" /\ held[v] = {})

\* No wake-up is lost: a thread sleeps in pthread_cond_wait only while
\* another transaction owns its key, so the release of that key is still to
\* come and will find it.
SleepersWillBeWoken ==
  \A t \in Thread : pc[t] = "waiting" => owner[key(t)] \notin {None, t}
-----------------------------------------------------------------------------
(* The proofs' inductive invariant.                                        *)

Committing == {"commit_copy", "commit_release"}

\* Where a thread is inside txn_write, it has a key to write.
HasKey ==
  \A t \in Thread :
    pc[t] \in {"lock", "acquire", "test", "detect", "wait", "waiting", "woken", "buffer"}
    \/ (pc[t] \in {"abort_txn", "abort_release"} /\ victim[t] # t)
      => program[t] # << >>

\* Who releases the locks of a transaction, and in which status: its own
\* thread while it holds t->mtx for the commit, or one that has aborted it.
\* Nobody aborts it during the commit.
Releasers ==
  \A t \in Thread :
    /\ pc[t] = "new" => status[t] = "none" /\ writes[t] = {}
    /\ pc[t] \in Committing => victim[t] = t /\ tmtx[t] = t /\ status[t] = "active"
    /\ pc[t] \in {"abort_txn", "abort_release"} => victim[t] \in Thread
    /\ pc[t] = "abort_release" => status[victim[t]] = "aborted"

\* What an active transaction has written it still holds, until its commit
\* gives it up.
WritesHeld ==
  \A t \in Thread : status[t] = "active" /\ pc[t] # "commit_release" =>
    /\ writes[t] \subseteq held[t]
    /\ pc[t] = "buffer" => key(t) \in held[t]

IInv ==
  /\ TypeOK
  /\ HasKey
  /\ Releasers
  /\ HeldIsOwned
  /\ WritesHeld
  /\ SleepersWillBeWoken
  /\ \A t \in Thread : start_ts[t] <= global_ts
=============================================================================
