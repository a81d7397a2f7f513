------------------------------- MODULE FileIo -------------------------------
(***************************************************************************)
(* Three programs that write a file, make it durable and read it back:     *)
(* day-10(low-level-io)/low_level_io_using_c.c with read_all, write_all    *)
(* and lseek, day-1(Heap_Mem)/Direct vs uffered io.c, and                  *)
(* day-11(Memory_Map)/memory-map-demo.c through a shared and a private     *)
(* mapping.                                                                *)
(*                                                                         *)
(* main of each is a sequence of system calls, each of which ends the      *)
(* program when it fails: that sequence is a script, and the actions are   *)
(* what one step of it does.  The file is a function from offsets to       *)
(* units; the kernel transfers any part of what is asked, writes units     *)
(* back to the disk when it likes, and the power may fail at any time.     *)
(***************************************************************************)
EXTENDS Integers, Sequences, FiniteSets

CONSTANT Absent   \* no unit at this offset

VARIABLES
  demo,      \* which program runs
  file,      \* the file as the system calls see it
  disk,      \* what of it a power failure leaves
  priv,      \* the private copy of the pages
  pos,       \* the offset of the descriptor
  at,        \* the step of the script
  done,      \* the units that read_all or write_all has transferred
  iterator,  \* the loop over the records of the file
  n_read,
  seen,      \* what the program has read back, in order
  status

ioVars == <<demo, file, disk, priv, pos, at, done, iterator, n_read, seen, status>>
-----------------------------------------------------------------------------
(* The scripts *)

Open == [do |-> "open"]
Create == [do |-> "create"]
Write(units) == [do |-> "write", units |-> units]
Read(count) == [do |-> "read", count |-> count]
ReadHeader == [do |-> "read header", count |-> 1]
ReadRecords(count) == [do |-> "read records", count |-> count]
Seek(to) == [do |-> "seek", to |-> to]
Sync == [do |-> "sync"]
Truncate(size) == [do |-> "truncate", size |-> size]
Map == [do |-> "map"]
Unmap == [do |-> "unmap"]
Store(offset, units) == [do |-> "store", to |-> offset, units |-> units]
Add(offset, amount) == [do |-> "add", to |-> offset, amount |-> amount]
AddPrivate(offset, amount) == [do |-> "add private", to |-> offset, amount |-> amount]
Look(offset, count) == [do |-> "look", to |-> offset, count |-> count]
Pread(offset, count) == [do |-> "pread", to |-> offset, count |-> count]

\* A record is two units, the second with its name.
Record(i) == <<10 * i, 10 * i + 1>>
Patch == 99

\* low_level_io_using_c.c: a header with the number of records and three
\* records; the second record's name is changed in place.
RecordScript == <<
  Create, Write(<<3>>), Write(Record(1)), Write(Record(2)), Write(Record(3)), Sync,
  Open, ReadHeader, ReadRecords(2),
  Open, Seek(1 + 2 + 1), Write(<<Patch>>), Sync,
  Open, ReadHeader, ReadRecords(2) >>

Pattern == <<1, 2, 3, 4>>

\* Direct vs uffered io.c: the file is written twice and read twice.
DirectScript == <<
  Create, Write(Pattern), Sync, Create, Write(Pattern), Sync,
  Open, Read(4), Open, Read(4) >>

\* memory-map-demo.c: a page is page_id, record_count and its text.
Page(i) == <<i, 10 * i + 1, 5>>
Star == 6

MappedScript == <<
  Create, Truncate(9), Map, Store(0, Page(0)), Store(3, Page(1)), Store(6, Page(2)), Sync,
  Look(0, 2), Look(3, 2), Look(6, 2),
  Add(3 + 1, 100), Store(3 + 2, <<Star>>), Sync, Look(3, 2),
  Map, AddPrivate(6 + 1, 777), Unmap, Unmap,
  Open, Pread(0, 2), Pread(3, 2), Pread(6, 2) >>

Script ==
  CASE demo = "records" -> RecordScript
    [] demo = "direct" -> DirectScript
    [] demo = "mapped" -> MappedScript

Step == Script[at]
Runs(calls) == status = "running" /\ at <= Len(Script) /\ Step.do \in calls

Offset == 0 .. 8
Empty == [o \in Offset |-> Absent]
Size == Cardinality({o \in Offset : file[o] # Absent})

\* The contents of a file with these units.
Holding(units) == [o \in Offset |-> IF o < Len(units) THEN units[o + 1] ELSE Absent]

IoTypeOK ==
  /\ demo \in {"records", "direct", "mapped"}
  /\ {file, disk, priv} \subseteq [Offset -> Nat \cup {Absent}]
  /\ {pos, done, iterator, n_read} \subseteq Nat
  /\ at \in 1 .. Len(Script) + 1
  /\ seen \in Seq(Nat)
  /\ status \in {"running", "failed", "off"}

IoInit ==
  /\ demo \in {"records", "direct", "mapped"}
  /\ file = Empty /\ disk = Empty /\ priv = Empty
  /\ pos = 0 /\ at = 1 /\ done = 0 /\ iterator = 0 /\ n_read = 0
  /\ seen = << >>
  /\ status = "running"
-----------------------------------------------------------------------------
(* The steps *)

\* open with O_TRUNC, or without.
open ==
  /\ Runs({"create", "open"})
  /\ file' = IF Step.do = "create" THEN Empty ELSE file
  /\ pos' = 0
  /\ at' = at + 1
  /\ UNCHANGED <<demo, disk, priv, done, iterator, n_read, seen, status>>

\* The file with n of the units of the step, after the first done, at an
\* offset.
Placed(offset, n) ==
  [o \in Offset |-> IF o \in offset .. offset + n - 1 THEN Step.units[done + (o - offset) + 1] ELSE file[o]]

\* n more units are transferred: the step ends with the last of them.
Moved(n, count) ==
  /\ done' = IF done + n < count THEN done + n ELSE 0
  /\ at' = IF done + n < count THEN at ELSE at + 1

\* Variant of write_all: after a short write it starts from the first unit.
write_all_again ==
  /\ Runs({"write"})
  /\ \E n \in 1 .. Len(Step.units) - done :
       /\ file' = [o \in Offset |-> IF o \in pos .. pos + n - 1 THEN Step.units[o - pos + 1] ELSE file[o]]
       /\ pos' = pos + n
       /\ Moved(n, Len(Step.units))
  /\ UNCHANGED <<demo, disk, priv, iterator, n_read, seen, status>>

\* One turn of the loop of write_all.  EINTR, and a write of no unit, repeat
\* it.
write_all ==
  /\ Runs({"write"})
  /\ \E n \in 1 .. Len(Step.units) - done :
       /\ file' = Placed(pos, n)
       /\ pos' = pos + n
       /\ Moved(n, Len(Step.units))
  /\ UNCHANGED <<demo, disk, priv, iterator, n_read, seen, status>>

\* One turn of the loop of read_all: what was read is appended to seen.
read_some(n) ==
  /\ seen' = seen \o [u \in 1 .. n |-> file[pos + u - 1]]
  /\ pos' = pos + n
  /\ UNCHANGED <<demo, file, disk, priv, status>>

\* read_all of a block or of the header, which gives the number of records.
read_all ==
  /\ Runs({"read", "read header"})
  /\ \E n \in 1 .. Step.count - done :
       /\ pos + n <= Size
       /\ read_some(n)
       /\ Moved(n, Step.count)
       /\ n_read' = IF Step.do = "read header" THEN file[pos] ELSE n_read
  /\ iterator' = 0

\* read_all in the loop over the records.
read_record ==
  /\ Runs({"read records"})
  /\ \E n \in 1 .. Step.count - done :
       /\ pos + n <= Size
       /\ read_some(n)
       /\ IF done + n < Step.count
          THEN done' = done + n /\ UNCHANGED <<iterator, at>>
          ELSE /\ done' = 0
               /\ iterator' = iterator + 1
               /\ at' = IF iterator' < n_read THEN at ELSE at + 1
  /\ UNCHANGED n_read

lseek ==
  /\ Runs({"seek"})
  /\ pos' = Step.to
  /\ at' = at + 1
  /\ UNCHANGED <<demo, file, disk, priv, done, iterator, n_read, seen, status>>

\* Variant of fsync: it returns before the disk has the file.
fsync_early ==
  /\ Runs({"sync"})
  /\ at' = at + 1
  /\ UNCHANGED <<demo, file, disk, priv, pos, done, iterator, n_read, seen, status>>

\* fsync, and msync of a shared mapping before it.
fsync ==
  /\ Runs({"sync"})
  /\ disk' = file
  /\ at' = at + 1
  /\ UNCHANGED <<demo, file, priv, pos, done, iterator, n_read, seen, status>>

\* ftruncate makes a file of zeroes.
ftruncate ==
  /\ Runs({"truncate"})
  /\ file' = [o \in Offset |-> IF o < Step.size THEN 0 ELSE Absent]
  /\ at' = at + 1
  /\ UNCHANGED <<demo, disk, priv, pos, done, iterator, n_read, seen, status>>

\* A mapping has the contents of the file, and nothing changes when it goes.
mmap ==
  /\ Runs({"map", "unmap"})
  /\ at' = at + 1
  /\ UNCHANGED <<demo, file, disk, priv, pos, done, iterator, n_read, seen, status>>

\* Stores through the shared mapping, one after the other.
init_page ==
  /\ Runs({"store"})
  /\ file' = Placed(Step.to + done, 1)
  /\ Moved(1, Len(Step.units))
  /\ UNCHANGED <<demo, disk, priv, pos, iterator, n_read, seen, status>>

\* page_write_u32 of page_read_u32 plus an amount: through the shared mapping
\* into the file, through the private one into a copy of the page.
page_write_u32 ==
  /\ Runs({"add", "add private"})
  /\ IF Step.do = "add"
     THEN file' = [file EXCEPT ![Step.to] = @ + Step.amount] /\ UNCHANGED priv
     ELSE priv' = [file EXCEPT ![Step.to] = @ + Step.amount] /\ UNCHANGED file
  /\ at' = at + 1
  /\ UNCHANGED <<demo, disk, pos, done, iterator, n_read, seen, status>>

\* print_page_header, and the pread of a header.
print_page_header ==
  /\ Runs({"look", "pread"})
  /\ seen' = seen \o [u \in 1 .. Step.count |-> file[Step.to + u - 1]]
  /\ at' = at + 1
  /\ UNCHANGED <<demo, file, disk, priv, pos, done, iterator, n_read, status>>

\* A call that can fail does, and main returns; a read meets the end of the
\* file before it has all it asked for.
fails ==
  /\ Runs({"create", "open", "write", "read", "read header", "read records", "seek", "sync", "truncate",
          "map", "unmap", "pread"})
  /\ status' = "failed"
  /\ UNCHANGED <<demo, file, disk, priv, pos, at, done, iterator, n_read, seen>>

\* The kernel writes a unit back before it is told to.
write_back ==
  /\ status # "off"
  /\ \E o \in Offset : disk[o] # file[o] /\ disk' = [disk EXCEPT ![o] = file[o]]
  /\ UNCHANGED <<demo, file, priv, pos, at, done, iterator, n_read, seen, status>>

power_off ==
  /\ status # "off"
  /\ status' = "off"
  /\ file' = disk
  /\ UNCHANGED <<demo, disk, priv, pos, at, done, iterator, n_read, seen>>

IoNext ==
  \/ open \/ write_all \/ read_all \/ read_record \/ lseek \/ fsync
  \/ ftruncate \/ mmap \/ init_page \/ page_write_u32 \/ print_page_header
  \/ fails \/ write_back \/ power_off
-----------------------------------------------------------------------------
(* Properties *)

Plain == <<3>> \o Record(1) \o Record(2) \o Record(3)
Patched == [Plain EXCEPT ![5] = Patch]
Pages == Page(0) \o Page(1) \o Page(2)
Updated == [Pages EXCEPT ![5] = @ + 100, ![6] = Star]

\* What is read back, were every call to transfer all it is asked to.
Expected ==
  LET headers(file_of) == <<file_of[1], file_of[2], file_of[4], file_of[5], file_of[7], file_of[8]>>
  IN  CASE demo = "records" -> Plain \o Patched
        [] demo = "direct" -> Pattern \o Pattern
        [] demo = "mapped" -> headers(Pages) \o <<Updated[4], Updated[5]>> \o headers(Updated)

\* Short transfers do not show: as far as a program comes it reads back what it
\* wrote, the change of one unit included, and nothing of what it stored through
\* the private mapping.
ReadsBack ==
  /\ Len(seen) <= Len(Expected) /\ seen = SubSeq(Expected, 1, Len(seen))
  /\ at > Len(Script) => seen = Expected

\* A power failure leaves what was synced: after the first fsync every unit of
\* the file, the one being changed as it was or as it will be, after the last
\* fsync the changed file.  The file written twice may be lost between its
\* second O_TRUNC and the fsync after that.
SyncedSurvives ==
  LET between(a, b) == \A o \in Offset : disk[o] \in {Holding(a)[o], Holding(b)[o]}
  IN  CASE demo = "records" -> (at > 6 => between(Plain, Patched)) /\ (at > 13 => disk = Holding(Patched))
        [] demo = "direct" -> (at = 4 \/ at > 6) => disk = Holding(Pattern)
        [] demo = "mapped" -> (at > 7 => between(Pages, Updated)) /\ (at > 13 => disk = Holding(Updated))
=============================================================================
