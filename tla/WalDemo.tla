------------------------------ MODULE WalDemo -------------------------------
(***************************************************************************)
(* wal_demo.c of day-14: a command that logs a transaction without fsync,  *)
(* one that logs it with fsync and then stops as if crashed, and one that  *)
(* recovers the database file from the log.  A command may be killed       *)
(* between two appends; a power failure also drops what was not synced.    *)
(* What is lost is lost in whole lines.                                    *)
(***************************************************************************)
EXTENDS Naturals, Sequences

CONSTANTS
  Key, Value,
  MaxCommands   \* bound: the commands that are started

VARIABLES
  wal,        \* the lines of wal.log: <<"BEGIN">>, <<"COMMIT">> or <<"SET", key, value>>
  synced,     \* how many of them are on disk for certain
  db,         \* the lines of db.txt
  pc,         \* what the running command does next
  sync,       \* whether it calls fsync
  set,        \* its SET line
  at, in_tx,  \* recover: the line it reads next, and whether it is in a transaction
  started,    \* commands started
  promised,   \* auxiliary: the SETs of which "WAL written and fsynced" was said
  recovered   \* auxiliary: whether recover has been the last thing to happen

vars == <<wal, synced, db, pc, sync, set, at, in_tx, started, promised, recovered>>

SetLine == {<<"SET", k, v>> : k \in Key, v \in Value}

Init ==
  /\ wal = << >> /\ synced = 0 /\ db = << >>
  /\ pc = "idle" /\ sync = FALSE /\ set = CHOOSE line \in SetLine : TRUE
  /\ at = 1 /\ in_tx = FALSE
  /\ started = 0
  /\ promised = {} /\ recovered = FALSE

\* Variant of append_file: the flag is not looked at.
append_file_nosync(line) ==
  /\ wal' = Append(wal, line)
  /\ UNCHANGED synced

\* append_file on the log: fsync covers all that was appended before.
append_file(line) ==
  /\ wal' = Append(wal, line)
  /\ synced' = IF sync' THEN Len(wal') ELSE synced

\* write_nosync and crash_after_wal: three appends.
begin ==
  /\ pc = "idle"
  /\ started < MaxCommands
  /\ started' = started + 1
  /\ sync' \in BOOLEAN
  /\ set' \in SetLine
  /\ append_file(<<"BEGIN">>)
  /\ pc' = "set"
  /\ recovered' = FALSE
  /\ UNCHANGED <<db, at, in_tx, promised>>

write_set ==
  /\ pc = "set"
  /\ UNCHANGED sync
  /\ append_file(set)
  /\ pc' = "commit"
  /\ UNCHANGED <<db, set, at, in_tx, started, promised, recovered>>

commit ==
  /\ pc = "commit"
  /\ UNCHANGED sync
  /\ append_file(<<"COMMIT">>)
  /\ pc' = "idle"
  /\ promised' = IF sync THEN promised \cup {set} ELSE promised
  /\ UNCHANGED <<db, set, at, in_tx, started, recovered>>

recover ==
  /\ pc = "idle"
  /\ started < MaxCommands
  /\ started' = started + 1
  /\ pc' = "recover"
  /\ at' = 1
  /\ in_tx' = FALSE
  /\ recovered' = FALSE
  /\ UNCHANGED <<wal, synced, db, sync, set, promised>>

\* One line of the log.
recover_line ==
  /\ pc = "recover"
  /\ at <= Len(wal)
  /\ in_tx' = (wal[at] = <<"BEGIN">> \/ (in_tx /\ wal[at] # <<"COMMIT">>))
  /\ db' = IF in_tx /\ wal[at] \in SetLine THEN Append(db, wal[at]) ELSE db
  /\ at' = at + 1
  /\ UNCHANGED <<wal, synced, pc, sync, set, started, promised, recovered>>

recover_end ==
  /\ pc = "recover"
  /\ at > Len(wal)
  /\ pc' = "idle"
  /\ recovered' = TRUE
  /\ UNCHANGED <<wal, synced, db, sync, set, at, in_tx, started, promised>>

killed ==
  /\ pc # "idle"
  /\ pc' = "idle"
  /\ recovered' = FALSE
  /\ UNCHANGED <<wal, synced, db, sync, set, at, in_tx, started, promised>>

\* db.txt is never synced.
power_failure ==
  /\ \E n \in synced .. Len(wal) : wal' = SubSeq(wal, 1, n) /\ synced' = n
  /\ \E n \in 0 .. Len(db) : db' = SubSeq(db, 1, n)
  /\ pc' = "idle"
  /\ recovered' = FALSE
  /\ UNCHANGED <<sync, set, at, in_tx, started, promised>>

Next ==
  \/ begin \/ write_set \/ commit
  \/ recover \/ recover_line \/ recover_end
  \/ killed \/ power_failure

Spec == Init /\ [][Next]_vars
-----------------------------------------------------------------------------
TypeOK ==
  /\ wal \in Seq(SetLine \cup {<<"BEGIN">>, <<"COMMIT">>})
  /\ synced \in 0 .. Len(wal)
  /\ db \in Seq(SetLine)
  /\ pc \in {"idle", "set", "commit", "recover"}
  /\ sync \in BOOLEAN /\ in_tx \in BOOLEAN /\ recovered \in BOOLEAN
  /\ set \in SetLine
  /\ at \in Nat
  /\ started \in 0 .. MaxCommands
  /\ promised \subseteq SetLine

\* crash_after_wal keeps its promise: what it reported as "WAL written and
\* fsynced" is in the database after a recovery, whatever commands were
\* killed and whatever power failures happened before and between.
Durable == recovered => \A line \in promised : \E m \in 1 .. Len(db) : db[m] = line

IsSet(line, k) == line \in SetLine /\ line[2] = k

\* The last SET of a key in a file, if it has one.
LastSet(lines, k) ==
  {lines[n] : n \in {m \in 1 .. Len(lines) :
                       /\ IsSet(lines[m], k)
                       /\ \A j \in m + 1 .. Len(lines) : ~IsSet(lines[j], k)}}

\* Recovery is idempotent: after it the last SET of a key in the database is
\* the last one in the log, however often recover ran before.
LastSetWins ==
  recovered =>
    \A k \in Key : LastSet(wal, k) # {} => LastSet(db, k) = LastSet(wal, k)

\* What was reported as fsynced survives every failure, and recovery can be
\* repeated.
FsyncedIsDurable == Durable /\ LastSetWins

\* "Recover committed transactions from WAL" (line 50): a SET that recover
\* applies belongs to a transaction whose COMMIT is in the log.
Committed(i) ==
  \E j \in i + 1 .. Len(wal) :
    wal[j] = <<"COMMIT">> /\ \A n \in i + 1 .. j - 1 : wal[n] # <<"BEGIN">>

OnlyCommitted == [][Len(db') > Len(db) => Committed(at)]_vars
-----------------------------------------------------------------------------
\* Why FsyncedIsDurable holds: every SET of the log follows its BEGIN at once,
\* in whatever state the log was left, so that recover takes all of them.
LogShape ==
  /\ wal \in Seq(SetLine \cup {<<"BEGIN">>, <<"COMMIT">>})
  /\ synced \in 0 .. Len(wal)
  /\ db \in Seq(SetLine)
  /\ \A i \in 1 .. Len(wal) : wal[i] \in SetLine => i > 1 /\ wal[i - 1] = <<"BEGIN">>

\* The line a writing command appended last.
Writing ==
  /\ pc \in {"idle", "set", "commit", "recover"}
  /\ pc = "set" => set \in SetLine /\ Len(wal) > 0 /\ wal[Len(wal)] = <<"BEGIN">>
  /\ pc = "commit" => set \in SetLine /\ Len(wal) > 0 /\ wal[Len(wal)] = set

Promises == \A line \in promised : line \in SetLine /\ \E i \in 1 .. synced : wal[i] = line

\* The SETs of the first n lines of the log are in the database, and the last
\* one of a key is not followed by another one of that key there.
Replayed(n) ==
  \A i \in 1 .. n :
    wal[i] \in SetLine =>
      \E m \in 1 .. Len(db) :
        /\ db[m] = wal[i]
        /\ (\A j \in i + 1 .. n : ~IsSet(wal[j], wal[i][2])) =>
             \A j \in m + 1 .. Len(db) : ~IsSet(db[j], wal[i][2])

Replaying ==
  /\ pc = "recover" =>
       /\ at \in 1 .. Len(wal) + 1
       /\ at > 1 /\ wal[at - 1] = <<"BEGIN">> => in_tx
       /\ Replayed(at - 1)
  /\ recovered => pc = "idle" /\ Replayed(Len(wal))

RecoveryInv == LogShape /\ Writing /\ Promises /\ Replaying
=============================================================================
