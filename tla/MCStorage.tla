------------------------------ MODULE MCStorage -----------------------------
(***************************************************************************)
(* The storage programs: the write-ahead logs, the demos of file I/O, the  *)
(* file cache over its buffer pool, the LRU cache and the page replacement *)
(* simulators.  They have nothing in common at run time: running names the *)
(* one that runs, and the others stay in their initial states.             *)
(***************************************************************************)
EXTENDS Integers, Sequences, TLC

CONSTANTS NULL, Missing, WalKey, Value, Node

VARIABLES
  running,
  kvLog, kvDb, kvPc, kvAt, kvRuns,
  memLog, memDb, memPc, memAt, memRuns,
  wal, synced, db, pc, sync, set, at, in_tx, started, promised, recovered,
  demo, file, ioDisk, priv, pos, ioAt, done, iterator, n_read, read_back, status,
  pool, files, cached_files_count, disk, now, wanted, op,
  cache, recency,
  fifo, lru, lru2, clock, arc, asked

\* The operations of main of wal_kv.c, and one more of
\* wal_replay_and_mem_reconstruction.c.
KvScript == <<
  [op |-> "INSERT", key |-> "user1", val |-> "Rahul"],
  [op |-> "INSERT", key |-> "user2", val |-> "Kanha"],
  [op |-> "UPDATE", key |-> "user1", val |-> "Gaurav_update"],
  [op |-> "DELETE", key |-> "user2", val |-> NULL] >>

MemScript == Append(KvScript, [op |-> "INSERT", key |-> "user3", val |-> "Sita"])

Kv == INSTANCE WalKv
  WITH InMemory <- FALSE, Script <- KvScript, MAX_KEYS <- 4, MaxRuns <- 3,
       wal <- kvLog, db <- kvDb, pc <- kvPc, at <- kvAt, runs <- kvRuns

Mem == INSTANCE WalKv
  WITH InMemory <- TRUE, Script <- MemScript, MAX_KEYS <- 4, MaxRuns <- 4,
       wal <- memLog, db <- memDb, pc <- memPc, at <- memAt, runs <- memRuns

Demo == INSTANCE WalDemo WITH Key <- WalKey, MaxCommands <- 3

Io == INSTANCE FileIo WITH Absent <- Missing, disk <- ioDisk, at <- ioAt, seen <- read_back

\* "a" fits a buffer, "b" does not, "c" does not exist.
Files == INSTANCE FileCache
  WITH File <- {"a", "b", "c"}, CACHE_SIZE <- 2, BufferSize <- 2, Version <- {1}, MaxTime <- 1,
       PoolSize <- 2, Zeroes <- [of |-> "nobody", version |-> 0, len |-> 0],
       hash <- [f \in {"a", "b", "c"} |-> IF f = "c" THEN 1 ELSE 0],
       OnDisk <- [f \in {"a", "b"} |-> IF f = "a" THEN 1 ELSE 3]

\* Three of the keys share a bucket.
Lru == INSTANCE LruCache
  WITH Key <- {"a", "b", "c", "d"}, Data <- {1, 2}, CACHE_SIZE <- 2,
       hash <- [k \in {"a", "b", "c", "d"} |-> IF k = "b" THEN 1 ELSE 0]

Pages == INSTANCE PageReplacement WITH Page <- 1 .. 4, Frames <- 3, Requests <- 7

ASSUME ScriptsSound == Kv!ScriptSound /\ Mem!ScriptSound

kvVars == <<kvLog, kvDb, kvPc, kvAt, kvRuns>>
memVars == <<memLog, memDb, memPc, memAt, memRuns>>
demoVars == <<wal, synced, db, pc, sync, set, at, in_tx, started, promised, recovered>>
ioVars == <<demo, file, ioDisk, priv, pos, ioAt, done, iterator, n_read, read_back, status>>
fileVars == <<pool, files, cached_files_count, disk, now, wanted, op>>
lruVars == <<cache, recency>>
pageVars == <<fifo, lru, lru2, clock, arc, asked>>

walVars == <<kvVars, memVars, demoVars, ioVars>>
cacheVars == <<fileVars, lruVars, pageVars>>

Init ==
  /\ running \in {"wal_kv", "wal_replay", "wal_demo", "file I/O", "file cache", "LRU cache", "pages"}
  /\ Kv!Init /\ Mem!Init /\ Demo!Init /\ Files!Init /\ Lru!Init /\ Pages!Init
  /\ Io!IoInit /\ (running = "file I/O" \/ demo = "records")

Next ==
  /\ UNCHANGED running
  /\ \/ running = "wal_kv" /\ Kv!Next /\ UNCHANGED <<memVars, demoVars, ioVars, cacheVars>>
     \/ running = "wal_replay" /\ Mem!Next /\ UNCHANGED <<kvVars, demoVars, ioVars, cacheVars>>
     \/ running = "wal_demo" /\ Demo!Next /\ UNCHANGED <<kvVars, memVars, ioVars, cacheVars>>
     \/ running = "file I/O" /\ Io!IoNext /\ UNCHANGED <<kvVars, memVars, demoVars, cacheVars>>
     \/ running = "file cache" /\ Files!Next /\ UNCHANGED <<lruVars, pageVars, walVars>>
     \/ running = "LRU cache" /\ Lru!Next /\ UNCHANGED <<fileVars, pageVars, walVars>>
     \/ running = "pages" /\ Pages!Next /\ UNCHANGED <<fileVars, lruVars, walVars>>

Spec == Init /\ [][Next]_<<running, walVars, cacheVars>>

Symmetry == Permutations(Node)
-----------------------------------------------------------------------------
\* The two logs over a data file or memory agree with it: after a replay the
\* data file of wal_kv.c says what the log says on every key, and it never
\* holds an operation that the log does not; the memory of
\* wal_replay_and_mem_reconstruction.c says what its log says.
LogsAgree == Kv!LogsAgree /\ Mem!LogsAgree

\* wal_demo.c: what was reported as fsynced survives every failure, and
\* recovery can be repeated: the last SET of a key wins.
FsyncedIsDurable == Demo!FsyncedIsDurable

\* wal_demo.c, "Recover committed transactions from WAL" (line 50).
RecoversOnlyCommitted == Demo!OnlyCommitted

\* What was stored is kept: in file-caching-system.c no buffer leaks and none
\* is shared, a file has one entry, with content of that file, and only written
\* files change on disk; in lru-cache.c count is the number of nodes allocated
\* and the head is the node used last; the demos of file I/O read back what
\* they wrote, whatever part of it each call transfers, and a power failure
\* leaves them what was synced.  All programs keep their types.
ContentsKept ==
  /\ Kv!TypeOK /\ Mem!TypeOK /\ Demo!TypeOK /\ Files!TypeOK /\ Lru!TypeOK /\ Pages!TypeOK /\ Io!IoTypeOK
  /\ Files!BuffersAccounted /\ Files!NoMixing /\ Files!DiskKept
  /\ Lru!CountIsNodes /\ Lru!HeadIsMru
  /\ Io!ReadsBack /\ Io!SyncedSurvives

\* lru-cache.c, "Getter - to get data from the cache" (line 91).
LruCachedIsFound == Lru!CachedIsFound

\* Each page replacement simulator keeps what its policy says: LRU the pages
\* used last, FIFO those loaded last and in order, and every one the page just
\* requested, ARC unless T2 has taken all frames.
PoliciesKeep == Pages!LruKeepsRecent /\ Pages!FifoKeepsLoaded /\ Pages!RequestedIsResident

\* Victims are chosen in order: eviction and clean-up of
\* file-caching-system.c drop the oldest files, and the CLOCK simulators give
\* a used page its second chance.
VictimsInOrder == Files!OldestGoFirst /\ Pages!SecondChance
=============================================================================
