-------------------------- MODULE PageReplacement ---------------------------
(***************************************************************************)
(* The page replacement simulators: buffer_pool.c (first in first out),    *)
(* lru.c and clock.c of BUFFERPOOL_PAGE_REPLACEMENT, and the three         *)
(* policies of ARC/page_cache_simulator_using_lru_clock_arc.c.             *)
(*                                                                         *)
(* Each policy is an operator from its state and a requested page to its   *)
(* next state.  The specification sends one sequence of requests to all of *)
(* them; the page tables of the programs are particular sequences.         *)
(***************************************************************************)
EXTENDS Integers, Sequences, FiniteSets, SequencesExt

CONSTANTS
  Page,
  Frames,    \* MAX_FRAMES, buffer_size
  Requests   \* bound: MAX_PAGES

Frame == 0 .. Frames - 1

\* The frames that hold a page, or are empty: p = -1.
Holding(buffer, p) == {j \in Frame : buffer[j] = p}

Least(S) == CHOOSE i \in S : \A j \in S : i <= j

Greatest(S) == CHOOSE i \in S : \A j \in S : i >= j

Empty == [j \in Frame |-> -1]
-----------------------------------------------------------------------------
\* buffer_pool.c
FifoInit == [buffer |-> Empty, nextInsert |-> 0]

FifoRequest(s, p) ==
  IF Holding(s.buffer, p) # {} THEN s
  ELSE [buffer     |-> [s.buffer EXCEPT ![s.nextInsert] = p],
        nextInsert |-> (s.nextInsert + 1) % Frames]
-----------------------------------------------------------------------------
\* lru.c: the first of the empty frames, or the frame with the least time.
LruInit ==
  [buffer |-> Empty, time |-> [j \in Frame |-> 0], counter |-> 0, hits |-> 0, misses |-> 0]

OldestFrame(s) ==
  Least({j \in Frame : \A l \in Frame : s.time[j] <= s.time[l]})

\* The page is, or is put, in frame j and marked as used now.
Touch(s, j, p) ==
  [s EXCEPT !.counter = @ + 1,
            !.time[j] = s.counter + 1,
            !.buffer[j] = p,
            !.hits   = IF s.buffer[j] = p THEN @ + 1 ELSE @,
            !.misses = IF s.buffer[j] = p THEN @ ELSE @ + 1]

LruRequest(s, p) ==
  Touch(s, IF Holding(s.buffer, p) # {} THEN Least(Holding(s.buffer, p))
           ELSE IF Holding(s.buffer, -1) # {} THEN Least(Holding(s.buffer, -1))
           ELSE OldestFrame(s), p)

\* simulateLRU of the ARC program takes the last of the empty frames.
simulateLRU(s, p) ==
  Touch(s, IF Holding(s.buffer, p) # {} THEN Greatest(Holding(s.buffer, p))
           ELSE IF Holding(s.buffer, -1) # {} THEN Greatest(Holding(s.buffer, -1))
           ELSE OldestFrame(s), p)
-----------------------------------------------------------------------------
\* clock.c: the hand clears the bits it passes until it finds one clear.
ClockInit ==
  [buffer |-> Empty, refBit |-> [j \in Frame |-> 0], pointer |-> 0, hits |-> 0, misses |-> 0]

\* How many frames the hand passes: all of them if every bit is set.
Passed(s) == Least({i \in 0 .. Frames - 1 : s.refBit[(s.pointer + i) % Frames] = 0} \cup {Frames})

Victim(s) == (s.pointer + Passed(s)) % Frames

\* Variant of ClockRequest: the hand does not look at the bits, and a page
\* is loaded with its bit clear.
ClockRequest_Blind(s, p) ==
  IF Holding(s.buffer, p) # {}
  THEN [s EXCEPT !.refBit[Least(Holding(s.buffer, p))] = 1, !.hits = @ + 1]
  ELSE [s EXCEPT !.buffer[s.pointer] = p, !.refBit[s.pointer] = 0,
                 !.pointer = (s.pointer + 1) % Frames, !.misses = @ + 1]

ClockRequest(s, p) ==
  IF Holding(s.buffer, p) # {}
  THEN [s EXCEPT !.refBit[Least(Holding(s.buffer, p))] = 1, !.hits = @ + 1]
  ELSE [buffer  |-> [s.buffer EXCEPT ![Victim(s)] = p],
        refBit  |-> [j \in Frame |->
                       IF j = Victim(s) THEN 1
                       ELSE IF \E i \in 0 .. Passed(s) - 1 : j = (s.pointer + i) % Frames
                       THEN 0 ELSE s.refBit[j]],
        pointer |-> (Victim(s) + 1) % Frames,
        hits    |-> s.hits,
        misses  |-> s.misses + 1]

simulateClock(s, p) == ClockRequest(s, p)
-----------------------------------------------------------------------------
\* simulateARC: T1 and T2 as sequences.  B1 and B2 stay empty throughout.
ArcInit == [T1 |-> << >>, T2 |-> << >>, hits |-> 0, misses |-> 0]

\* Lines 234 and 235 on an empty T1: its size goes to -1 and back to 0 and
\* the page is written in front of the array.
AddAfterRemove(T1, p) == IF T1 = << >> THEN << >> ELSE Append(Tail(T1), p)

\* Variant of ArcMiss: line 230 is missing.
ArcMiss_Forgets(s, p) ==
  LET T1 == IF Len(s.T1) = Frames THEN Tail(s.T1) ELSE s.T1
      m == [s EXCEPT !.misses = @ + 1]
  IN  IF Len(T1) + Len(s.T2) < Frames THEN [m EXCEPT !.T1 = Append(T1, p)]
      ELSE IF Len(s.T2) < Frames THEN [m EXCEPT !.T1 = T1, !.T2 = Tail(@)]
      ELSE [m EXCEPT !.T1 = AddAfterRemove(T1, p)]

\* Lines 207 to 237.
ArcMiss(s, p) ==
  LET T1 == IF Len(s.T1) = Frames THEN Tail(s.T1) ELSE s.T1
      m == [s EXCEPT !.misses = @ + 1]
  IN  IF Len(T1) + Len(s.T2) < Frames THEN [m EXCEPT !.T1 = Append(T1, p)]
      ELSE IF Len(s.T2) < Frames
      THEN [m EXCEPT !.T1 = Append(T1, p), !.T2 = Tail(@)]
      ELSE [m EXCEPT !.T1 = AddAfterRemove(T1, p)]

simulateARC(s, p) ==
  IF Contains(s.T1, p)
  THEN [s EXCEPT !.T1 = SelectSeq(@, LAMBDA q : q # p), !.T2 = Append(@, p), !.hits = @ + 1]
  ELSE IF Contains(s.T2, p) THEN [s EXCEPT !.hits = @ + 1]
  ELSE ArcMiss(s, p)
-----------------------------------------------------------------------------
VARIABLES fifo, lru, lru2, clock, arc, asked

vars == <<fifo, lru, lru2, clock, arc, asked>>

Init ==
  /\ fifo = FifoInit
  /\ lru = LruInit
  /\ lru2 = LruInit
  /\ clock = ClockInit
  /\ arc = ArcInit
  /\ asked = << >>

request(p) ==
  /\ Len(asked) < Requests
  /\ asked' = Append(asked, p)
  /\ fifo' = FifoRequest(fifo, p)
  /\ lru' = LruRequest(lru, p)
  /\ lru2' = simulateLRU(lru2, p)
  /\ clock' = simulateClock(clock, p)
  /\ arc' = simulateARC(arc, p)

Next == \E p \in Page : request(p)

Spec == Init /\ [][Next]_vars
-----------------------------------------------------------------------------
FramesOK(buffer) ==
  /\ buffer \in [Frame -> Page \cup {-1}]
  /\ \A i, j \in Frame : buffer[i] = buffer[j] /\ buffer[i] # -1 => i = j

\* No policy holds a page in two frames, and ARC never more than Frames.
TypeOK ==
  /\ FramesOK(fifo.buffer) /\ fifo.nextInsert \in Frame
  /\ FramesOK(lru.buffer) /\ FramesOK(lru2.buffer)
  /\ FramesOK(clock.buffer) /\ clock.pointer \in Frame
  /\ clock.refBit \in [Frame -> 0 .. 1]
  /\ IsInjective(arc.T1 \o arc.T2) /\ Len(arc.T1 \o arc.T2) <= Frames

Resident(buffer) == {buffer[j] : j \in Frame} \ {-1}

\* The distinct pages of a sequence, the latest occurrence first.
Stack(pages) ==
  FoldLeft(LAMBDA stack, p : <<p>> \o SelectSeq(stack, LAMBDA q : q # p), << >>, pages)

FirstOf(seq, n) == {seq[i] : i \in 1 .. IF Len(seq) < n THEN Len(seq) ELSE n}

\* LRU holds the pages that were used last, in both programs, which also
\* agree on every hit although they fill the frames from opposite ends.
LruKeepsRecent ==
  /\ Resident(lru.buffer) = FirstOf(Stack(asked), Frames)
  /\ Resident(lru2.buffer) = Resident(lru.buffer)
  /\ lru2.hits = lru.hits

\* First in first out: only loading counts, so the pages are those loaded
\* last, and going round from nextInsert they are in the order of loading.
Loaded(pages) ==
  FoldLeft(LAMBDA stack, p :
             IF \E i \in 1 .. Len(stack) : i <= Frames /\ stack[i] = p THEN stack
             ELSE <<p>> \o stack, << >>, pages)

FifoKeepsLoaded ==
  \A i \in 1 .. Frames :
    fifo.buffer[(fifo.nextInsert - i) % Frames] =
      IF i <= Len(Loaded(asked)) THEN Loaded(asked)[i] ELSE -1

\* Second chance: while some page has not been used since the hand last
\* passed it, a page that has been used stays.
SecondChance ==
  [][(\E j \in Frame : clock.refBit[j] = 0) =>
       \A j \in Frame : clock.refBit[j] = 1 => clock'.buffer[j] = clock.buffer[j]]_vars

\* Every request ends with its page in the cache.  Only ARC can fail here,
\* when T2 has taken all frames.
RequestedIsResident ==
  asked # << >> =>
    /\ \A buffer \in {fifo.buffer, lru.buffer, clock.buffer} : Last(asked) \in Resident(buffer)
    /\ Contains(arc.T1 \o arc.T2, Last(asked)) \/ Len(arc.T2) = Frames
=============================================================================
