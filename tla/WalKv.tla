------------------------------- MODULE WalKv --------------------------------
(***************************************************************************)
(* The key-value stores of WEEKEND_TASK that log every operation before    *)
(* they apply it: wal_kv.c, and with it PROFILING's count_open_close.c,    *)
(* append it to a data file, and wal_replay_and_mem_reconstruction.c keeps *)
(* records in memory (InMemory), of which only the log survives.           *)
(*                                                                         *)
(* The program replays the log and then commits a fixed list of            *)
(* operations.  It may be killed between any two writes and started again. *)
(***************************************************************************)
EXTENDS Naturals, Sequences, FiniteSets

CONSTANTS
  InMemory,
  Script,    \* the operations of main, records with fields op, key, val
  NULL,      \* the null pointer
  MAX_KEYS,
  MaxRuns    \* bound: how often the program is started

VARIABLES
  wal,      \* the lines of the log
  db,       \* the lines of data.db, or the records db[0 .. db_size - 1]
  pc,       \* what the running process does next
  at,       \* the line replay reads next, or the operation of main
  runs      \* starts left

vars == <<wal, db, pc, at, runs>>

Init ==
  /\ wal = << >>
  /\ db = << >>
  /\ pc = "replay"
  /\ at = 1
  /\ runs = MaxRuns - 1

\* How a value is written into a line, and read from it.
Written(val) == IF val = NULL THEN "NULL" ELSE val

Scanned(text) == IF text = "NULL" THEN (IF InMemory THEN "" ELSE NULL) ELSE text

Line(o) == [o EXCEPT !.val = Written(@)]

writeToWal(o) == wal' = Append(wal, Line(o))

applyToDB(o) == Append(db, Line(o))

\* The first record of a key.
Found(k) == {n \in 1 .. Len(db) : db[n].key = k /\ \A j \in 1 .. n - 1 : db[j].key # k}

applyOperation(o) ==
  LET found == Found(o.key)
      stored == [key |-> o.key, value |-> o.val, valid |-> 1]
  IN  CASE o.op = "INSERT" /\ found = {} /\ Len(db) < MAX_KEYS -> Append(db, stored)
        [] o.op \in {"INSERT", "UPDATE"} /\ found # {} ->
             [n \in 1 .. Len(db) |-> IF n \in found THEN stored ELSE db[n]]
        [] o.op = "DELETE" /\ found # {} ->
             [n \in 1 .. Len(db) |-> IF n \in found THEN [db[n] EXCEPT !.valid = 0] ELSE db[n]]
        [] OTHER -> db

Apply(o) == db' = IF InMemory THEN applyOperation(o) ELSE applyToDB(o)

\* Variant of replay_line: the first line is taken for a header.
replay_line_skips ==
  /\ pc = "replay"
  /\ at <= Len(wal)
  /\ IF at = 1 THEN UNCHANGED db ELSE Apply([wal[at] EXCEPT !.val = Scanned(@)])
  /\ at' = at + 1
  /\ UNCHANGED <<wal, pc, runs>>

\* One turn of replay's loop.
replay_line ==
  /\ pc = "replay"
  /\ at <= Len(wal)
  /\ Apply([wal[at] EXCEPT !.val = Scanned(@)])
  /\ at' = at + 1
  /\ UNCHANGED <<wal, pc, runs>>

replay_end ==
  /\ pc = "replay"
  /\ at > Len(wal)
  /\ pc' = "commit"
  /\ at' = 1
  /\ UNCHANGED <<wal, db, runs>>

\* commitOperation: first the log, then the data.
commit_log ==
  /\ pc = "commit"
  /\ at <= Len(Script)
  /\ writeToWal(Script[at])
  /\ pc' = "apply"
  /\ UNCHANGED <<db, at, runs>>

commit_apply ==
  /\ pc = "apply"
  /\ Apply(Script[at])
  /\ pc' = "commit"
  /\ at' = at + 1
  /\ UNCHANGED <<wal, runs>>

\* The process is killed, or has ended, and the program is started again.
restart ==
  /\ runs > 0
  /\ runs' = runs - 1
  /\ db' = IF InMemory THEN << >> ELSE db
  /\ pc' = "replay"
  /\ at' = 1
  /\ UNCHANGED wal

Ended == pc = "commit" /\ at > Len(Script) /\ runs = 0

Next ==
  \/ replay_line
  \/ replay_end
  \/ commit_log
  \/ commit_apply
  \/ restart
  \/ Ended /\ UNCHANGED vars

Spec == Init /\ [][Next]_vars
-----------------------------------------------------------------------------
Keys == {Script[n].key : n \in 1 .. Len(Script)}

Values == {Script[n].val : n \in 1 .. Len(Script)} \ {NULL}

Lines == [op : {"INSERT", "UPDATE", "DELETE"}, key : Keys, val : Values \cup {"NULL"}]

Record == [key : Keys, value : Values, valid : {0, 1}]

\* The records in memory are of distinct keys.
TypeOK ==
  /\ wal \in Seq(Lines)
  /\ IF InMemory
     THEN /\ db \in Seq(Record)
          /\ Len(db) <= MAX_KEYS
          /\ \A i, j \in 1 .. Len(db) : db[i].key = db[j].key => i = j
     ELSE db \in Seq(Lines)
  /\ pc \in {"replay", "commit", "apply"}
  /\ at \in Nat
  /\ runs \in 0 .. MaxRuns

IsLast(log, n, i) == \A j \in i + 1 .. n : log[j].key # log[i].key

\* What a list of operations leaves for a key: the value of the last one, or
\* nothing after a DELETE.
ValueIn(log, k) ==
  {log[n].val : n \in {m \in 1 .. Len(log) :
                         log[m].key = k /\ IsLast(log, Len(log), m) /\ log[m].op # "DELETE"}}

\* What printDBSummary prints for a key.
Printed(k) ==
  {db[n].value : n \in {m \in 1 .. Len(db) : db[m].key = k /\ db[m].valid = 1}}

\* Replay is idempotent and makes up for every crash: once it is done, and
\* between commits, the data file or the memory says the same as the log for
\* every key, over all runs and however many replays have been cut short.
Recovered ==
  pc = "commit" => \A k \in Keys : (IF InMemory THEN Printed(k) ELSE ValueIn(db, k)) = ValueIn(wal, k)

\* Write-ahead: the data file never holds an operation the log does not.
WriteAhead == InMemory \/ \A m \in 1 .. Len(db) : \E n \in 1 .. Len(wal) : db[m] = wal[n]

\* The two logged stores: whatever is cut off, data and log tell one story.
LogsAgree == Recovered /\ WriteAhead
-----------------------------------------------------------------------------
\* What LogsAgree asks of main.  In memory an operation on a key that has no
\* record is lost, as is an INSERT beyond MAX_KEYS, and "NULL" in a line is no
\* value.
ScriptSound ==
  /\ InMemory \in BOOLEAN
  /\ Script \in Seq([op : {"INSERT", "UPDATE", "DELETE"}, key : Keys, val : Values \cup {NULL}])
  /\ InMemory =>
       /\ MAX_KEYS \in Nat /\ Cardinality(Keys) <= MAX_KEYS
       /\ \A i \in 1 .. Len(Script) :
            /\ Script[i].op # "DELETE" => Script[i].val \notin {NULL, "NULL"}
            /\ Script[i].op # "INSERT" => \E j \in 1 .. i - 1 : Script[j].key = Script[i].key

\* Why LogsAgree holds: the log, and where the process is in it or in main.
LogKept ==
  /\ wal \in Seq(Lines)
  /\ pc \in {"replay", "commit", "apply"}
  /\ pc = "replay" => at \in 1 .. Len(wal) + 1
  /\ pc = "commit" => at \in 1 .. Len(Script) + 1
  /\ pc = "apply" => at \in 1 .. Len(Script) /\ Len(wal) > 0 /\ wal[Len(wal)] = Line(Script[at])

\* The first line of a key is an INSERT, over all runs.
FirstInserts ==
  /\ \A i \in 1 .. Len(wal) :
       /\ wal[i].op # "DELETE" => wal[i].val # "NULL"
       /\ wal[i].op # "INSERT" => \E j \in 1 .. i - 1 : wal[j].key = wal[i].key
  /\ pc \in {"commit", "apply"} =>
       \A j \in 1 .. at - 1 : \E i \in 1 .. Len(wal) : wal[i].key = Script[j].key

\* The data file ends, for each key among the first n lines of the log, with
\* the last line of that key.
LinesFollow(n) ==
  /\ db \in Seq(Lines) /\ WriteAhead
  /\ \A i \in 1 .. n :
       \E m \in 1 .. Len(db) : db[m].key = wal[i].key /\ IsLast(db, Len(db), m)
  /\ \A m \in 1 .. Len(db) :
       IsLast(db, Len(db), m) /\ (\E j \in 1 .. n : wal[j].key = db[m].key) =>
         \E i \in 1 .. n : db[m] = wal[i] /\ IsLast(wal, n, i)

\* The records in memory are what the last line of each key among the first n
\* of the log says.
RecordSays(r, line) ==
  /\ r.key = line.key
  /\ r.valid = IF line.op = "DELETE" THEN 0 ELSE 1
  /\ line.op # "DELETE" => r.value = line.val

RecordsFollow(n) ==
  /\ db \in Seq(Record)
  /\ \A i \in 1 .. n : \E m \in 1 .. Len(db) : db[m].key = wal[i].key
  /\ \A m \in 1 .. Len(db) : \E i \in 1 .. n : RecordSays(db[m], wal[i]) /\ IsLast(wal, n, i)
  /\ \A m, o \in 1 .. Len(db) : db[m].key = db[o].key => m = o

\* The lines that have been applied since the process started.
AppliedLines ==
  CASE pc = "replay" -> at - 1
    [] pc = "commit" -> Len(wal)
    [] pc = "apply" -> Len(wal) - 1

LogInv ==
  /\ LogKept
  /\ IF InMemory THEN FirstInserts /\ RecordsFollow(AppliedLines) ELSE LinesFollow(AppliedLines)
=============================================================================
