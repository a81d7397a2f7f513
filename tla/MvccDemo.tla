------------------------------ MODULE MvccDemo ------------------------------
(***************************************************************************)
(* The versioned row of concurrency-and-multithreading/mvcc_demo.c: one    *)
(* writer commits a new version while readers read under the timestamp     *)
(* they began with.  A step is one section under tx_mutex or row->mutex.   *)
(***************************************************************************)
EXTENDS Naturals, Sequences

CONSTANTS
  Reader,
  Reads,    \* how often a reader calls mvcc_read
  OldValue, \* the value of row_init
  NewValue, \* the value the writer commits
  Missing   \* the -1 of mvcc_read

VARIABLES
  versions,          \* the list from row->head, newest first
  global_ts,
  commit_timestamp,  \* the writer's, 0 before next_ts
  start_ts,          \* the readers', 0 before begin_tx
  results            \* what a reader's mvcc_reads returned

vars == <<versions, global_ts, commit_timestamp, start_ts, results>>

Infinity == 1000   \* UINT64_MAX, the end_ts of an open version

Init ==
  /\ versions = <<[value |-> OldValue, begin_ts |-> 1, end_ts |-> Infinity]>>
  /\ global_ts = 1
  /\ commit_timestamp = 0
  /\ start_ts = [r \in Reader |-> 0]
  /\ results = [r \in Reader |-> << >>]

begin_tx(r) ==
  /\ start_ts[r] = 0
  /\ start_ts' = [start_ts EXCEPT ![r] = global_ts]
  /\ UNCHANGED <<versions, global_ts, commit_timestamp, results>>

Visible(v, ts) == v.begin_ts <= ts /\ ts < v.end_ts

\* The value of the first visible version of the list.
ReadAt(ts) ==
  LET found == {i \in DOMAIN versions : Visible(versions[i], ts)}
  IN  IF found = {} THEN Missing
      ELSE versions[CHOOSE i \in found : \A j \in found : i <= j].value

mvcc_read(r) ==
  /\ start_ts[r] # 0
  /\ Len(results[r]) < Reads
  /\ results' = [results EXCEPT ![r] = Append(@, ReadAt(start_ts[r]))]
  /\ UNCHANGED <<versions, global_ts, commit_timestamp, start_ts>>

next_ts ==
  /\ commit_timestamp = 0
  /\ global_ts' = global_ts + 1
  /\ commit_timestamp' = global_ts + 1
  /\ UNCHANGED <<versions, start_ts, results>>

\* Variant of mvcc_write_commit: the old version is not closed.
mvcc_write_commit_open ==
  /\ commit_timestamp # 0
  /\ Len(versions) = 1
  /\ versions' = <<[value |-> NewValue, begin_ts |-> commit_timestamp,
                    end_ts |-> Infinity]>> \o versions
  /\ UNCHANGED <<global_ts, commit_timestamp, start_ts, results>>

\* The writer closes the head if it is open, and pushes its version.
mvcc_write_commit ==
  /\ commit_timestamp # 0
  /\ Len(versions) = 1
  /\ versions' =
       <<[value |-> NewValue, begin_ts |-> commit_timestamp, end_ts |-> Infinity]>> \o
       (IF Head(versions).end_ts = Infinity
        THEN [versions EXCEPT ![1].end_ts = commit_timestamp] ELSE versions)
  /\ UNCHANGED <<global_ts, commit_timestamp, start_ts, results>>

Joined ==
  /\ Len(versions) = 2
  /\ \A r \in Reader : Len(results[r]) = Reads

Next ==
  \/ \E r \in Reader : begin_tx(r) \/ mvcc_read(r)
  \/ next_ts
  \/ mvcc_write_commit
  \/ Joined /\ UNCHANGED vars

Spec == Init /\ [][Next]_vars
-----------------------------------------------------------------------------
TypeOK ==
  /\ versions \in Seq([value : {OldValue, NewValue}, begin_ts : Nat, end_ts : Nat])
  /\ global_ts \in 1 .. 2
  /\ commit_timestamp \in {0, 2}
  /\ start_ts \in [Reader -> 0 .. global_ts]
  /\ results \in [Reader -> Seq({OldValue, NewValue})]

\* The versions' lifetimes divide the clock: at any timestamp exactly one
\* version is visible, however reads and the commit interleave.
OneVisible ==
  \A ts \in 1 .. global_ts :
    \E i \in DOMAIN versions : \A j \in DOMAIN versions :
      Visible(versions[j], ts) <=> i = j

\* A reader that began before the writer drew its timestamp never sees the
\* new value.
OldSnapshotsKeep ==
  \A r \in Reader : \A i \in DOMAIN results[r] :
    (start_ts[r] < commit_timestamp \/ commit_timestamp = 0) => results[r][i] = OldValue

\* The proofs' inductive invariant: the list has one of two forms, and a
\* reader that has not begun has read nothing.
IInv ==
  /\ TypeOK
  /\ global_ts = IF commit_timestamp = 0 THEN 1 ELSE 2
  /\ \/ versions = <<[value |-> OldValue, begin_ts |-> 1, end_ts |-> Infinity]>>
     \/ /\ commit_timestamp = 2
        /\ versions = <<[value |-> NewValue, begin_ts |-> 2, end_ts |-> Infinity],
                       [value |-> OldValue, begin_ts |-> 1, end_ts |-> 2]>>
  /\ \A r \in Reader : start_ts[r] = 0 => results[r] = << >>
  /\ OldSnapshotsKeep
=============================================================================
