-------------------------- MODULE SnapshotIsolation --------------------------
(***************************************************************************)
(* What the MVCC store promises: "snapshot reads + first-committer-wins on *)
(* write-write conflict".  The database is a set of versions per item; a   *)
(* transaction reads the snapshot of the instant it began, buffers its     *)
(* writes, and commits them in one step provided that nobody committed a   *)
(* version of an item it wrote after it began.                             *)
(***************************************************************************)
EXTENDS Naturals

CONSTANTS Txn, Item, Value, None, NotRead

VARIABLES
  clock,   \* the next timestamp
  db,      \* item -> set of committed versions
  phase,   \* "none", "active", "committed" or "aborted"
  start,   \* the instant a transaction began
  wbuf,    \* its buffered writes
  seen     \* what it last read of an item

sivars == <<clock, db, phase, start, wbuf, seen>>

NoWrites == [x \in Item |-> None]

Init ==
  /\ clock = 1
  /\ db = [x \in Item |-> {}]
  /\ phase = [t \in Txn |-> "none"]
  /\ start = [t \in Txn |-> 0]
  /\ wbuf = [t \in Txn |-> NoWrites]
  /\ seen = [t \in Txn |-> [x \in Item |-> NotRead]]

\* The value of the newest version of x committed by the instant ts.
SnapshotValue(x, ts) ==
  LET old == {v \in db[x] : v.commit_ts <= ts}
  IN  IF old = {} THEN None
      ELSE (CHOOSE v \in old : \A w \in old : w.commit_ts <= v.commit_ts).value

Written(t) == {x \in Item : wbuf[t][x] # None}

Begin(t) ==
  /\ phase[t] = "none"
  /\ phase' = [phase EXCEPT ![t] = "active"]
  /\ start' = [start EXCEPT ![t] = clock]
  /\ clock' = clock + 1
  /\ UNCHANGED <<db, wbuf, seen>>

Read(t, x) ==
  /\ phase[t] = "active"
  /\ wbuf[t][x] = None
  /\ seen' = [seen EXCEPT ![t][x] = SnapshotValue(x, start[t])]
  /\ UNCHANGED <<clock, db, phase, start, wbuf>>

Write(t, x, v) ==
  /\ phase[t] = "active"
  /\ wbuf' = [wbuf EXCEPT ![t][x] = v]
  /\ UNCHANGED <<clock, db, phase, start, seen>>

Commit(t) ==
  /\ phase[t] = "active"
  /\ \A x \in Written(t) : \A v \in db[x] : v.commit_ts <= start[t]
  /\ db' = [x \in Item |->
              db[x] \cup IF x \in Written(t)
                           THEN {[commit_ts |-> clock, value |-> wbuf[t][x], writer |-> t]}
                           ELSE {}]
  /\ clock' = clock + 1
  /\ phase' = [phase EXCEPT ![t] = "committed"]
  /\ wbuf' = [wbuf EXCEPT ![t] = NoWrites]
  /\ UNCHANGED <<start, seen>>

Abort(t) ==
  /\ phase[t] = "active"
  /\ phase' = [phase EXCEPT ![t] = "aborted"]
  /\ wbuf' = [wbuf EXCEPT ![t] = NoWrites]
  /\ UNCHANGED <<clock, db, start, seen>>

Next ==
  \E t \in Txn :
     \/ Begin(t)
     \/ Commit(t)
     \/ Abort(t)
     \/ \E x \in Item : Read(t, x)
     \/ \E x \in Item, v \in Value : Write(t, x, v)

Spec == Init /\ [][Next]_sivars
=============================================================================
