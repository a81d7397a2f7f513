----------------------------- MODULE FileCache ------------------------------
(***************************************************************************)
(* The file cache of day-2(LRU)/file-caching-system.c on the buffer pool   *)
(* of buffer-pool.c: a free list threaded through the buffers and a count  *)
(* of its length.                                                          *)
(* The program is sequential: one action is one call of the interface.     *)
(*                                                                         *)
(* A content is a file's name, a version and a length; only the length     *)
(* matters to the code, which reads and writes at most BufferSize - 1.     *)
(***************************************************************************)
EXTENDS Integers, FiniteSets, Sequences, SequencesExt

CONSTANTS
  PoolSize,    \* POOL_SIZE
  Zeroes,      \* the content of a cleared buffer
  File,
  CACHE_SIZE,
  hash,        \* the bucket of a file name, hash() of lru-cache.c
  BufferSize,  \* BUFFER_SIZE
  Missing,     \* a file that does not exist
  OnDisk,      \* the lengths of the files that exist at the start
  Version,     \* bound: the versions that are written
  MaxTime      \* bound: how far time() advances

Bucket == 0 .. CACHE_SIZE - 1

Content == [of : File, version : Version \cup {0}, len : 0 .. 2 * BufferSize]

VARIABLES
  pool,
  files,               \* cache->files: the chain of entries of each bucket
  cached_files_count,
  disk,
  now,                 \* time()
  wanted,              \* the files prefetch_files has still to look at
  op                   \* whether the cache is "destroyed"; auxiliary: whether the last call was
                       \* one of the two that age entries out

vars == <<pool, files, cached_files_count, disk, now, wanted, op>>
-----------------------------------------------------------------------------
\* The buffer pool: the operators give the pool after a call.

\* buffers[i].next is folded into the order of free_list.
create_buffer_pool ==
  [free_list  |-> [i \in 1 .. PoolSize |-> i - 1],
   free_count |-> PoolSize,
   is_free    |-> [b \in 0 .. PoolSize - 1 |-> TRUE],
   data       |-> [b \in 0 .. PoolSize - 1 |-> Zeroes]]

\* The buffer acquire_buffer returns, and the pool afterwards; only for a
\* pool that is not exhausted.
Exhausted(bp) == bp.free_count = 0

Acquired(bp) == Head(bp.free_list)

acquire_buffer(bp) ==
  [bp EXCEPT !.free_list = Tail(@),
             !.free_count = @ - 1,
             !.is_free[Acquired(bp)] = FALSE]

release_buffer(bp, b) ==
  IF bp.is_free[b] THEN bp
  ELSE [bp EXCEPT !.data[b] = Zeroes,
                  !.is_free[b] = TRUE,
                  !.free_list = <<b>> \o @,
                  !.free_count = @ + 1]

release_all(bp, buffers) == FoldLeft(release_buffer, bp, buffers)

Filled(bp, b, content) == [bp EXCEPT !.data[b] = content]

PoolTypeOK ==
  /\ pool.free_list \in Seq(0 .. PoolSize - 1)
  /\ pool.free_count \in 0 .. PoolSize
  /\ pool.is_free \in [0 .. PoolSize - 1 -> BOOLEAN]
  /\ pool.data \in [0 .. PoolSize - 1 -> Content \cup {Zeroes}]

\* The free list holds the free buffers, each once, and free_count says how
\* many; the buffers in use are exactly those of the list given.
Accounted(bp, used) ==
  /\ bp.free_count = Len(bp.free_list)
  /\ IsInjective(bp.free_list \o used)
  /\ ToSet(bp.free_list \o used) = 0 .. PoolSize - 1
  /\ \A b \in 0 .. PoolSize - 1 : bp.is_free[b] <=> b \in ToSet(bp.free_list)
-----------------------------------------------------------------------------
Init ==
  /\ pool = create_buffer_pool
  /\ files = [i \in Bucket |-> << >>]
  /\ cached_files_count = 0
  /\ disk = [f \in File |-> IF f \in DOMAIN OnDisk
                            THEN [of |-> f, version |-> 0, len |-> OnDisk[f]] ELSE Missing]
  /\ now = 0
  /\ wanted = << >>
  /\ op = "call"

\* The cache is there, and prefetch_files is not running.
Called(kind) ==
  /\ op # "destroyed"
  /\ wanted = << >>
  /\ op' = kind

Find(f) == SelectInSeq(files[hash[f]], LAMBDA e : e.filename = f)

Cached(f) == Find(f) # 0

Entry(f) == files[hash[f]][Find(f)]

\* All entries, bucket by bucket.
Entries == FlattenSeq([i \in 1 .. CACHE_SIZE |-> files[i - 1]])

Names == {e.filename : e \in ToSet(Entries)}

Touched(f) == [files EXCEPT ![hash[f]][Find(f)].last_accessed = now]

Inserted(f, b) ==
  [files EXCEPT ![hash[f]] = <<[filename |-> f, buffer |-> b, last_accessed |-> now]>> \o @]

Without(gone) ==
  [i \in Bucket |-> SelectSeq(files[i], LAMBDA e : e.filename \notin gone)]

\* A new entry with a content, or a failed malloc of it.
Add(f, content) ==
  LET b == Acquired(pool)
      filled == Filled(acquire_buffer(pool), b, content)
  IN  \/ /\ pool' = filled
         /\ files' = Inserted(f, b)
         /\ cached_files_count' = cached_files_count + 1
      \/ /\ pool' = release_buffer(filled, b)
         /\ UNCHANGED <<files, cached_files_count>>

\* Variant of Load: a file that cannot be opened keeps its buffer.
Load_Leak(f) ==
  /\ IF Exhausted(pool) THEN UNCHANGED <<pool, files, cached_files_count>>
     ELSE IF disk[f] = Missing
     THEN /\ pool' = acquire_buffer(pool)
          /\ UNCHANGED <<files, cached_files_count>>
     ELSE Add(f, [disk[f] EXCEPT !.len = IF @ < BufferSize THEN @ ELSE BufferSize - 1])
  /\ UNCHANGED disk

\* read_file_cached after a miss: no buffer, no file, a failed read, or the
\* first BUFFER_SIZE - 1 bytes of the file.
Load(f) ==
  /\ IF Exhausted(pool) THEN UNCHANGED <<pool, files, cached_files_count>>
     ELSE \/ /\ pool' = release_buffer(acquire_buffer(pool), Acquired(pool))
             /\ UNCHANGED <<files, cached_files_count>>
          \/ /\ disk[f] # Missing
             /\ Add(f, [disk[f] EXCEPT !.len = IF @ < BufferSize THEN @ ELSE BufferSize - 1])
  /\ UNCHANGED disk

read_file_cached(f) ==
  /\ Called("call")
  /\ IF Cached(f)
     THEN files' = Touched(f) /\ UNCHANGED <<pool, cached_files_count, disk>>
     ELSE Load(f)
  /\ UNCHANGED <<now, wanted>>

\* prefetch_files loads, one after the other, the files not yet cached.
prefetch_files(names) ==
  /\ Called("call")
  /\ wanted' = names
  /\ UNCHANGED <<pool, files, cached_files_count, disk, now>>

prefetch_next ==
  /\ wanted # << >>
  /\ IF Cached(Head(wanted)) THEN UNCHANGED <<pool, files, cached_files_count, disk>>
     ELSE Load(Head(wanted))
  /\ wanted' = Tail(wanted)
  /\ UNCHANGED <<now, op>>

\* Variant of write_file_cached: whether the file is cached is not asked.
write_file_cached_blind(f, content) ==
  /\ Called("call")
  /\ content.of = f
  /\ IF content.len >= BufferSize \/ Exhausted(pool)
     THEN UNCHANGED <<pool, files, cached_files_count>>
     ELSE Add(f, content)
  /\ UNCHANGED <<disk, now, wanted>>

write_file_cached(f, content) ==
  /\ Called("call")
  /\ content.of = f
  /\ IF content.len >= BufferSize THEN UNCHANGED <<pool, files, cached_files_count>>
     ELSE IF Cached(f)
     THEN /\ pool' = Filled(pool, Entry(f).buffer, content)
          /\ files' = Touched(f)
          /\ UNCHANGED cached_files_count
     ELSE IF Exhausted(pool) THEN UNCHANGED <<pool, files, cached_files_count>>
     ELSE Add(f, content)
  /\ UNCHANGED <<disk, now, wanted>>

\* Entries leave the cache, in this order.
Drop(gone) ==
  LET names == {gone[i].filename : i \in DOMAIN gone}
  IN  /\ pool' = release_all(pool, [i \in DOMAIN gone |-> gone[i].buffer])
      /\ files' = Without(names)
      /\ cached_files_count' = cached_files_count - Len(gone)

remove_cached_file(f) ==
  /\ Called("call")
  /\ Drop(IF Cached(f) THEN <<Entry(f)>> ELSE << >>)
  /\ UNCHANGED <<disk, now, wanted>>

\* The entries after the (stable) bubble sort by last_accessed.
ByAge ==
  LET before(i, j) == \/ Entries[i].last_accessed < Entries[j].last_accessed
                      \/ Entries[i].last_accessed = Entries[j].last_accessed /\ i < j
      at(r) == CHOOSE i \in DOMAIN Entries :
                 Cardinality({j \in DOMAIN Entries : before(j, i)}) = r - 1
  IN  [r \in DOMAIN Entries |-> Entries[at(r)]]

evict_lru_files(max_files) ==
  /\ Called("aging")
  /\ Drop(SubSeq(ByAge, 1, cached_files_count - max_files))
  /\ UNCHANGED <<disk, now, wanted>>

cleanup_old_entries(max_age_seconds) ==
  /\ Called("aging")
  /\ Drop(SelectSeq(Entries, LAMBDA e : now - e.last_accessed > max_age_seconds))
  /\ UNCHANGED <<disk, now, wanted>>

\* What flushing a file can leave on disk: the open failed, the write came
\* short, or all went well.
Flushed(f) ==
  LET content == pool.data[Entry(f).buffer]
  IN  {disk[f], [content EXCEPT !.len = 0], content}

\* flush_cached_file, of a file that is cached; otherwise nothing happens.
flush_cached_file(f) ==
  /\ Called("call")
  /\ Cached(f)
  /\ \E content \in Flushed(f) : disk' = [disk EXCEPT ![f] = content]
  /\ UNCHANGED <<pool, files, cached_files_count, now, wanted>>

\* flush_all_cached_files, then every buffer goes back to the pool.
destroy_file_cache ==
  /\ Called("destroyed")
  /\ \E outcome \in [Names -> UNION {Flushed(f) : f \in Names}] :
       /\ \A f \in Names : outcome[f] \in Flushed(f)
       /\ disk' = [f \in File |-> IF f \in Names THEN outcome[f] ELSE disk[f]]
  /\ Drop(Entries)
  /\ UNCHANGED <<now, wanted>>

tick ==
  /\ now < MaxTime
  /\ wanted = << >>
  /\ now' = now + 1
  /\ op' = IF op = "destroyed" THEN op ELSE "call"
  /\ UNCHANGED <<pool, files, cached_files_count, disk, wanted>>

Next ==
  \/ \E f \in File :
       \/ read_file_cached(f)
       \/ remove_cached_file(f)
       \/ flush_cached_file(f)
       \/ \E v \in Version, n \in {1, BufferSize} :
            write_file_cached(f, [of |-> f, version |-> v, len |-> n])
  \/ \E f, g \in File : prefetch_files(<<f, g>>)
  \/ prefetch_next
  \/ \E n \in 0 .. 1 : evict_lru_files(n) \/ cleanup_old_entries(n)
  \/ destroy_file_cache
  \/ tick

Spec == Init /\ [][Next]_vars
-----------------------------------------------------------------------------
TypeOK ==
  /\ PoolTypeOK
  /\ \A i \in Bucket : \A e \in ToSet(files[i]) :
       hash[e.filename] = i /\ e.buffer \in 0 .. PoolSize - 1 /\ e.last_accessed \in 0 .. now
  /\ cached_files_count \in Nat
  /\ disk \in [File -> Content \cup {Missing}]
  /\ now \in 0 .. MaxTime
  /\ wanted \in Seq(File)

\* No buffer leaks and none is shared: every buffer is on the free list or
\* belongs to one entry, on every path through reads that fail, evictions,
\* clean-ups and the destruction of the cache.
BuffersAccounted ==
  /\ Accounted(pool, [i \in DOMAIN Entries |-> Entries[i].buffer])
  /\ cached_files_count = Len(Entries)

\* A file has one entry at most, and the buffer of an entry holds content of
\* its own file, short enough for the terminating zero.
NoMixing ==
  /\ \A i, j \in DOMAIN Entries : Entries[i].filename = Entries[j].filename => i = j
  /\ \A e \in ToSet(Entries) :
       pool.data[e.buffer].of = e.filename /\ pool.data[e.buffer].len < BufferSize

\* evict_lru_files and cleanup_old_entries never drop a file that was used
\* after one they keep.
OldestGoFirst ==
  [][op' = "aging" =>
       \A e \in ToSet(Entries) \ ToSet(Entries)', kept \in ToSet(Entries)' :
         e.last_accessed <= kept.last_accessed]_vars

\* A file that fits a buffer and is not written through the cache is never
\* changed on disk except by a flush that fails half way.
DiskKept ==
  \A f \in DOMAIN OnDisk :
    disk[f].version = 0 /\ OnDisk[f] < BufferSize => disk[f].len \in {0, OnDisk[f]}
=============================================================================
