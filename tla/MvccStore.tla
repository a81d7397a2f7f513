------------------------------ MODULE MvccStore ------------------------------
(***************************************************************************)
(* The in-memory multi-version key-value store of                          *)
(* concurrency-and-multithreading/s_mem_key_value_stored_with_mvcc.c.      *)
(*                                                                         *)
(* One thread runs one transaction (txn_demo_* do).  A step is one         *)
(* critical section of the code: what runs under store_mtx, ts_mtx or one  *)
(* key's mutex, or code that only touches the transaction itself.  t->mtx  *)
(* is only ever taken by the transaction's own thread, so it is left out.  *)
(***************************************************************************)
EXTENDS Naturals, Sequences

CONSTANTS
  Thread,    \* the threads; each calls create_txn once
  Key,       \* the keys the threads name
  Value,     \* the values they write
  MaxKeys,   \* MAX_KEYS, the number of slots of store[]
  MaxTxns,   \* MAX_TXNS; ids run from 1 to MaxTxns - 1
  HashKey,   \* hash_key, as a function from keys to slots
  None,      \* absent: a free slot, a free mutex, no write, the value ""
  NotRead    \* no snapshot read of the slot yet

Slot == 0 .. MaxKeys - 1

ASSUME StoreAssumption ==
  /\ MaxKeys \in Nat \ {0}
  /\ MaxTxns \in Nat \ {0}
  /\ HashKey \in [Key -> Slot]
  /\ None \notin Thread \cup Key \cup Value
  /\ NotRead \notin Value \cup {None}

VARIABLES
  slotKey,     \* store[i].key, None while store[i].used = 0
  versions,    \* store[i].versions, newest first
  owner,       \* the thread that holds store[i].mtx
  global_ts,
  next_txn_id,
  status,      \* t->status
  start_ts,    \* t->start_ts
  writes,      \* t->writes, as slot -> value
  commit_ts,   \* the local commit_ts of txn_commit
  idx,         \* the slot a blocked txn_read is about to lock
  pc,          \* where the thread is
  exited,      \* the process has called exit(1)
  hist,        \* auxiliary: versions as they would be had every commit
               \* installed its writes when it drew its timestamp
  reads        \* auxiliary: what the last snapshot read of a slot returned

vars == <<slotKey, versions, owner, global_ts, next_txn_id, status, start_ts,
          writes, commit_ts, idx, pc, exited, hist, reads>>

store == <<slotKey, versions, owner>>
txn   == <<status, start_ts, writes, commit_ts>>
aux   == <<hist, reads>>

\* A version; the field writer is auxiliary.
Version == [commit_ts : Nat, value : Value, writer : Thread]

NoSlot == MaxKeys

MinOf(S) == CHOOSE x \in S : \A y \in S : x <= y
-----------------------------------------------------------------------------
Init ==
  /\ slotKey = [s \in Slot |-> None]
  /\ versions = [s \in Slot |-> << >>]
  /\ owner = [s \in Slot |-> None]
  /\ global_ts = 1
  /\ next_txn_id = 1
  /\ status = [t \in Thread |-> "none"]
  /\ start_ts = [t \in Thread |-> 0]
  /\ writes = [t \in Thread |-> [s \in Slot |-> None]]
  /\ commit_ts = [t \in Thread |-> 0]
  /\ idx = [t \in Thread |-> NoSlot]
  /\ pc = [t \in Thread |-> "new"]
  /\ exited = FALSE
  /\ hist = [s \in Slot |-> << >>]
  /\ reads = [t \in Thread |-> [s \in Slot |-> NotRead]]

\* The distances from hash_key(k) at which the probe of get_or_create_key stops.
ProbeHits(k) ==
  {d \in 0 .. MaxKeys - 1 : slotKey[(HashKey[k] + d) % MaxKeys] \in {None, k}}

SlotOf(k) == (HashKey[k] + MinOf(ProbeHits(k))) % MaxKeys

get_or_create_key(k) ==
  /\ ProbeHits(k) # {}
  /\ slotKey' = [slotKey EXCEPT ![SlotOf(k)] = k]

WriteSet(t) == {s \in Slot : writes[t][s] # None}

Held(t) == {s \in Slot : owner[s] = t}

\* The version list walk of txn_read: the first version no newer than ts.
ReadAt(list, ts) ==
  LET visible == {i \in 1 .. Len(list) : list[i].commit_ts <= ts}
  IN  IF visible = {} THEN None ELSE list[MinOf(visible)].value

\* ke->versions = v, linked in front of the old list.
Push(list, v) == <<v>> \o list

NewVersion(t, s, ts) ==
  [commit_ts |-> ts, value |-> writes[t][s], writer |-> t]
-----------------------------------------------------------------------------
create_txn(t) ==
  /\ pc[t] = "new"
  /\ next_txn_id < MaxTxns
  /\ next_txn_id' = next_txn_id + 1
  /\ start_ts' = [start_ts EXCEPT ![t] = global_ts]
  /\ global_ts' = global_ts + 1
  /\ status' = [status EXCEPT ![t] = "active"]
  /\ pc' = [pc EXCEPT ![t] = "active"]
  /\ UNCHANGED <<store, writes, commit_ts, idx, exited, aux>>

\* create_txn finds the id table full and returns NULL.
create_txn_full(t) ==
  /\ pc[t] = "new"
  /\ next_txn_id >= MaxTxns
  /\ pc' = [pc EXCEPT ![t] = "done"]
  /\ UNCHANGED <<store, global_ts, next_txn_id, txn, idx, exited, aux>>

\* get_or_create_key probes the whole table in vain and exits the process.
store_full(t, k) ==
  /\ pc[t] = "active"
  /\ ProbeHits(k) = {}
  /\ exited' = TRUE
  /\ UNCHANGED <<store, global_ts, next_txn_id, txn, idx, pc, aux>>

\* txn_read up to the key's mutex; a local write is returned at once.
txn_read(t, k) ==
  /\ pc[t] = "active"
  /\ get_or_create_key(k)
  /\ IF writes[t][SlotOf(k)] # None
       THEN UNCHANGED <<idx, pc>>
       ELSE /\ idx' = [idx EXCEPT ![t] = SlotOf(k)]
            /\ pc' = [pc EXCEPT ![t] = "read"]
  /\ UNCHANGED <<versions, owner, global_ts, next_txn_id, txn, exited, aux>>

\* Variant of txn_read_locked: the walk does not take the key's mutex.
txn_read_unlocked(t) ==
  /\ pc[t] = "read"
  /\ reads' = [reads EXCEPT ![t][idx[t]] = ReadAt(versions[idx[t]], start_ts[t])]
  /\ idx' = [idx EXCEPT ![t] = NoSlot]
  /\ pc' = [pc EXCEPT ![t] = "active"]
  /\ UNCHANGED <<store, global_ts, next_txn_id, txn, exited, hist>>

\* The rest of txn_read, under the key's mutex.
txn_read_locked(t) ==
  /\ pc[t] = "read"
  /\ owner[idx[t]] = None
  /\ reads' = [reads EXCEPT ![t][idx[t]] = ReadAt(versions[idx[t]], start_ts[t])]
  /\ idx' = [idx EXCEPT ![t] = NoSlot]
  /\ pc' = [pc EXCEPT ![t] = "active"]
  /\ UNCHANGED <<store, global_ts, next_txn_id, txn, exited, hist>>

txn_write(t, k, v) ==
  /\ pc[t] = "active"
  /\ get_or_create_key(k)
  /\ writes' = [writes EXCEPT ![t][SlotOf(k)] = v]
  /\ UNCHANGED <<versions, owner, global_ts, next_txn_id, status, start_ts,
                 commit_ts, idx, pc, exited, aux>>
-----------------------------------------------------------------------------
\* txn_commit without writes: it only draws a timestamp.
txn_commit_read_only(t) ==
  /\ pc[t] = "active"
  /\ WriteSet(t) = {}
  /\ global_ts' = global_ts + 1
  /\ status' = [status EXCEPT ![t] = "committed"]
  /\ pc' = [pc EXCEPT ![t] = "done"]
  /\ UNCHANGED <<store, next_txn_id, start_ts, writes, commit_ts, idx, exited, aux>>

txn_commit(t) ==
  /\ pc[t] = "active"
  /\ WriteSet(t) # {}
  /\ pc' = [pc EXCEPT ![t] = "lock"]
  /\ UNCHANGED <<store, global_ts, next_txn_id, txn, idx, exited, aux>>

\* Variant of lock_next: the keys are locked in the order of the write list.
lock_next_unsorted(t) ==
  /\ pc[t] = "lock"
  /\ \E s \in WriteSet(t) \ Held(t) :
       /\ owner[s] = None
       /\ owner' = [owner EXCEPT ![s] = t]
  /\ UNCHANGED <<slotKey, versions, global_ts, next_txn_id, txn, idx, pc, exited, aux>>

\* One round of the last loop of lock_write_keys_sorted.
lock_next(t) ==
  /\ pc[t] = "lock"
  /\ WriteSet(t) \ Held(t) # {}
  /\ LET s == MinOf(WriteSet(t) \ Held(t))
     IN  /\ owner[s] = None
         /\ owner' = [owner EXCEPT ![s] = t]
  /\ UNCHANGED <<slotKey, versions, global_ts, next_txn_id, txn, idx, pc, exited, aux>>

\* Variant of Conflict: only the first key of the write set is looked at.
Conflict_FirstKey(t) ==
  LET s == MinOf(WriteSet(t))
  IN  versions[s] # << >> /\ versions[s][1].commit_ts > start_ts[t]

Conflict(t) ==
  \E s \in WriteSet(t) :
     versions[s] # << >> /\ versions[s][1].commit_ts > start_ts[t]

\* Variant of validate: the conflict loop runs before the keys are locked.
validate_early(t) ==
  /\ pc[t] = "lock"
  /\ pc' = [pc EXCEPT ![t] = IF Conflict(t) THEN "fail" ELSE "stamp"]
  /\ UNCHANGED <<store, global_ts, next_txn_id, txn, idx, exited, aux>>

\* The conflict loop, with every key of the write set locked.
validate(t) ==
  /\ pc[t] = "lock"
  /\ WriteSet(t) \subseteq Held(t)
  /\ pc' = [pc EXCEPT ![t] = IF Conflict(t) THEN "fail" ELSE "stamp"]
  /\ UNCHANGED <<store, global_ts, next_txn_id, txn, idx, exited, aux>>

\* Variant of draw_commit_ts: the keys are unlocked before the install.
draw_commit_ts_unlock(t) ==
  /\ pc[t] = "stamp"
  /\ commit_ts' = [commit_ts EXCEPT ![t] = global_ts]
  /\ global_ts' = global_ts + 1
  /\ hist' = [s \in Slot |-> IF s \in WriteSet(t)
                               THEN Push(hist[s], NewVersion(t, s, global_ts))
                               ELSE hist[s]]
  /\ pc' = [pc EXCEPT ![t] = "install"]
  /\ owner' = [s \in Slot |-> IF owner[s] = t THEN None ELSE owner[s]]
  /\ UNCHANGED <<slotKey, versions, next_txn_id, status, start_ts, writes, idx, exited, reads>>

draw_commit_ts(t) ==
  /\ pc[t] = "stamp"
  /\ commit_ts' = [commit_ts EXCEPT ![t] = global_ts]
  /\ global_ts' = global_ts + 1
  /\ hist' = [s \in Slot |-> IF s \in WriteSet(t)
                               THEN Push(hist[s], NewVersion(t, s, global_ts))
                               ELSE hist[s]]
  /\ pc' = [pc EXCEPT ![t] = "install"]
  /\ UNCHANGED <<store, next_txn_id, status, start_ts, writes, idx, exited, reads>>

\* Variant of install: a version is pushed on every slot, written or not.
install_all(t) ==
  /\ pc[t] = "install"
  /\ versions' = [s \in Slot |-> Push(versions[s], NewVersion(t, s, commit_ts[t]))]
  /\ writes' = [writes EXCEPT ![t] = [s \in Slot |-> None]]
  /\ pc' = [pc EXCEPT ![t] = "unlock"]
  /\ UNCHANGED <<slotKey, owner, global_ts, next_txn_id, status, start_ts,
                 commit_ts, idx, exited, aux>>

\* The install loop and the release of the write list.
install(t) ==
  /\ pc[t] = "install"
  /\ versions' = [s \in Slot |-> IF s \in WriteSet(t)
                                   THEN Push(versions[s], NewVersion(t, s, commit_ts[t]))
                                   ELSE versions[s]]
  /\ writes' = [writes EXCEPT ![t] = [s \in Slot |-> None]]
  /\ pc' = [pc EXCEPT ![t] = "unlock"]
  /\ UNCHANGED <<slotKey, owner, global_ts, next_txn_id, status, start_ts,
                 commit_ts, idx, exited, aux>>

\* One round of unlock_locked_idxs, after the install or after a conflict.
unlock_next(t) ==
  /\ pc[t] \in {"unlock", "fail"}
  /\ Held(t) # {}
  /\ owner' = [owner EXCEPT ![MinOf(Held(t))] = None]
  /\ UNCHANGED <<slotKey, versions, global_ts, next_txn_id, txn, idx, pc, exited, aux>>

commit_done(t) ==
  /\ pc[t] = "unlock"
  /\ Held(t) = {}
  /\ status' = [status EXCEPT ![t] = "committed"]
  /\ pc' = [pc EXCEPT ![t] = "done"]
  /\ UNCHANGED <<store, global_ts, next_txn_id, start_ts, writes, commit_ts, idx, exited, aux>>

\* The end of the conflict branch of txn_commit.
conflict_done(t) ==
  /\ pc[t] = "fail"
  /\ Held(t) = {}
  /\ writes' = [writes EXCEPT ![t] = [s \in Slot |-> None]]
  /\ status' = [status EXCEPT ![t] = "aborted"]
  /\ pc' = [pc EXCEPT ![t] = "done"]
  /\ UNCHANGED <<store, global_ts, next_txn_id, start_ts, commit_ts, idx, exited, aux>>

txn_explicit_abort(t) ==
  /\ pc[t] = "active"
  /\ writes' = [writes EXCEPT ![t] = [s \in Slot |-> None]]
  /\ status' = [status EXCEPT ![t] = "aborted"]
  /\ pc' = [pc EXCEPT ![t] = "done"]
  /\ UNCHANGED <<store, global_ts, next_txn_id, start_ts, commit_ts, idx, exited, aux>>
-----------------------------------------------------------------------------
\* What a thread chooses to call.
Call(t) ==
  \/ create_txn(t)
  \/ create_txn_full(t)
  \/ txn_commit_read_only(t)
  \/ txn_commit(t)
  \/ txn_explicit_abort(t)
  \/ \E k \in Key :
       \/ store_full(t, k)
       \/ txn_read(t, k)
       \/ \E v \in Value : txn_write(t, k, v)

\* What it does inside a call it has begun.
Continue(t) ==
  \/ txn_read_locked(t)
  \/ lock_next(t)
  \/ validate(t)
  \/ draw_commit_ts(t)
  \/ install(t)
  \/ unlock_next(t)
  \/ commit_done(t)
  \/ conflict_done(t)

Stopped == exited \/ \A t \in Thread : pc[t] = "done"

Next ==
  \/ ~exited /\ \E t \in Thread : Call(t) \/ Continue(t)
  \/ Stopped /\ UNCHANGED vars

Spec == Init /\ [][Next]_vars

\* A thread inside a call is scheduled again while the process lives.
FairSpec == Spec /\ \A t \in Thread : WF_vars(~exited /\ Continue(t))
-----------------------------------------------------------------------------
TypeOK ==
  /\ slotKey \in [Slot -> Key \cup {None}]
  /\ versions \in [Slot -> Seq(Version)]
  /\ owner \in [Slot -> Thread \cup {None}]
  /\ global_ts \in Nat
  /\ next_txn_id \in Nat
  /\ status \in [Thread -> {"none", "active", "committed", "aborted"}]
  /\ start_ts \in [Thread -> Nat]
  /\ writes \in [Thread -> [Slot -> Value \cup {None}]]
  /\ commit_ts \in [Thread -> Nat]
  /\ idx \in [Thread -> Slot \cup {NoSlot}]
  /\ pc \in [Thread -> {"new", "active", "read", "lock", "stamp", "install",
                        "unlock", "fail", "done"}]
  /\ exited \in BOOLEAN
  /\ hist \in [Slot -> Seq(Version)]
  /\ reads \in [Thread -> [Slot -> Value \cup {None, NotRead}]]

\* Every snapshot read of a transaction (txn_read) returned what the commits
\* timestamped no later than the transaction's start_ts left in the slot, even
\* when such a commit had drawn its timestamp but not yet installed its writes.
SnapshotReads ==
  \A t \in Thread, s \in Slot :
     reads[t][s] # NotRead => reads[t][s] = ReadAt(hist[s], start_ts[t])

\* First committer wins (the conflict check of txn_commit): of two transactions
\* that committed a write of the same slot, the later one started no earlier
\* than the other one committed; so no update is lost.
FirstCommitterWins ==
  \A s \in Slot : \A i, j \in 1 .. Len(hist[s]) :
     i < j => start_ts[hist[s][i].writer] >= hist[s][j].commit_ts

\* The store stays well formed whichever threads race in it.  The version
\* lists are ordered from newest to oldest, so that the walk of txn_read may
\* stop at the first version that is old enough; and no key occupies two slots
\* through racing calls of get_or_create_key: its versions and its mutex are
\* in one place.
StoreOrdered ==
  /\ \A s \in Slot : \A i, j \in 1 .. Len(versions[s]) :
       i < j => versions[s][i].commit_ts > versions[s][j].commit_ts
  /\ \A s1, s2 \in Slot :
       slotKey[s1] # None /\ slotKey[s1] = slotKey[s2] => s1 = s2

\* The abstract database: a commit takes effect when it draws its timestamp.
AbsDb == [s \in Slot |-> {hist[s][i] : i \in 1 .. Len(hist[s])}]

AbsPhase ==
  [t \in Thread |-> IF pc[t] \in {"install", "unlock"} THEN "committed" ELSE status[t]]

AbsWrites ==
  [t \in Thread |-> IF pc[t] = "install" THEN [s \in Slot |-> None] ELSE writes[t]]

SI == INSTANCE SnapshotIsolation WITH
        Txn   <- Thread,
        Item  <- Slot,
        clock <- global_ts,
        db    <- AbsDb,
        phase <- AbsPhase,
        start <- start_ts,
        wbuf  <- AbsWrites,
        seen  <- reads

\* The store implements snapshot isolation: the lock, validate, stamp, install
\* and unlock steps of txn_commit look like one atomic commit or abort, and each
\* txn_read like a read of the snapshot of start_ts.
ImplementsSnapshotIsolation == SI!Spec

\* Locking in index order (lock_write_keys_sorted) leaves no circular wait: a
\* thread inside txn_read or txn_commit gets out of it, unless the process exits.
CallsReturn ==
  \A t \in Thread : (pc[t] \in {"read", "lock"}) ~> (pc[t] \in {"active", "done"} \/ exited)
-----------------------------------------------------------------------------
(* The inductive invariant behind SnapshotReads and FirstCommitterWins.    *)

\* Key mutexes are held only inside txn_commit; from validation to the install
\* a committer holds the mutex of every slot it writes.
LockDiscipline ==
  /\ \A s \in Slot : owner[s] # None =>
        pc[owner[s]] \in {"lock", "stamp", "install", "unlock", "fail"}
  /\ \A t \in Thread : pc[t] \in {"stamp", "install"} =>
        \A s \in Slot : writes[t][s] # None => owner[s] = t

Installing(t, s) == pc[t] = "install" /\ writes[t][s] # None

\* The list of a slot lags behind its history by at most the version that the
\* thread installing it is about to push.
HistAgrees ==
  \A s \in Slot :
    /\ (\A t \in Thread : ~Installing(t, s)) => hist[s] = versions[s]
    /\ \A t \in Thread : Installing(t, s) =>
          hist[s] = Push(versions[s], NewVersion(t, s, commit_ts[t]))

\* Timestamps are drawn from one clock and histories descend.
ClockInv ==
  /\ \A t \in Thread : start_ts[t] < global_ts
  /\ \A s \in Slot : \A i \in 1 .. Len(hist[s]) :
        /\ hist[s][i].commit_ts < global_ts
        /\ pc[hist[s][i].writer] # "new"
  /\ \A s \in Slot : \A i, j \in 1 .. Len(hist[s]) :
        i < j => hist[s][i].commit_ts > hist[s][j].commit_ts

\* A validated transaction started after every version of its write set.
Validated ==
  \A t \in Thread, s \in Slot :
     pc[t] = "stamp" /\ writes[t][s] # None /\ versions[s] # << >>
       => versions[s][1].commit_ts <= start_ts[t]

\* What a thread that is not inside a transaction or a read has not done.
LocalInv ==
  /\ \A t \in Thread : pc[t] = "new" => \A s \in Slot : reads[t][s] = NotRead
  /\ \A t \in Thread : pc[t] = "read" => idx[t] \in Slot

IInv ==
  /\ TypeOK
  /\ LockDiscipline
  /\ HistAgrees
  /\ ClockInv
  /\ Validated
  /\ LocalInv
  /\ SnapshotReads
  /\ FirstCommitterWins

(* What the refinement and StoreOrdered need besides.                      *)

\* The status of a transaction follows from where its thread is; a snapshot
\* read is only made of a slot without a local write.
StatusInv ==
  \A t \in Thread :
    /\ pc[t] = "new" => status[t] = "none"
    /\ pc[t] \in {"active", "read", "lock", "stamp", "install", "unlock", "fail"} => status[t] = "active"
    /\ pc[t] = "read" => writes[t][idx[t]] = None

\* Every slot that a probe for its key passes on the way to it is taken by
\* another key.
Probed ==
  \A s \in Slot : slotKey[s] # None =>
    \E d \in Slot :
      /\ s = (HashKey[slotKey[s]] + d) % MaxKeys
      /\ \A e \in 0 .. d - 1 :
           slotKey[(HashKey[slotKey[s]] + e) % MaxKeys] \notin {None, slotKey[s]}

RInv == IInv /\ StatusInv /\ Probed
-----------------------------------------------------------------------------
\* A hash for small instances: every key goes to the last slot, so that
\* probing collides and wraps.
CollidingHash == [k \in Key |-> MaxKeys - 1]
=============================================================================
