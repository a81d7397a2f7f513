------------------------------ MODULE LruCache ------------------------------
(***************************************************************************)
(* The LRU cache of day-2(LRU)/lru-cache.c, pointer by pointer: the hash   *)
(* chains and the LRU list share the field next of a node.                 *)
(***************************************************************************)
EXTENDS Naturals, FiniteSets, Sequences, SequencesExt

CONSTANTS
  Key, Data,
  CACHE_SIZE,   \* the number of buckets, and the capacity
  hash,         \* the bucket of a key
  Node,         \* bound: the addresses malloc may return
  NULL

Bucket == 0 .. CACHE_SIZE - 1

VARIABLES
  cache,        \* mem, the allocated nodes; head, tail, nodes, count; and fate:
                \* whether a call has gone astray, to a freed node or in a circle
  recency       \* auxiliary: the nodes in the cache, most recently used first

vars == <<cache, recency>>

Init ==
  /\ cache = [mem |-> [n \in {} |-> NULL], head |-> NULL, tail |-> NULL,
              nodes |-> [i \in Bucket |-> NULL], count |-> 0, fate |-> "runs"]
  /\ recency = << >>

\* The cache after an assignment to p->prev or p->next.
SetPrev(c, p, v) ==
  IF p \in DOMAIN c.mem THEN [c EXCEPT !.mem[p].prev = v] ELSE [c EXCEPT !.fate = "freed"]

SetNext(c, p, v) ==
  IF p \in DOMAIN c.mem THEN [c EXCEPT !.mem[p].next = v] ELSE [c EXCEPT !.fate = "freed"]

\* What the walk along the chain of k meets, and where it stops: at the key,
\* at NULL, at a freed node ("freed") or never ("loops").
Found(c, k) ==
  LET N == Cardinality(Node)
      at[i \in 0 .. N] ==
        IF i = 0 THEN c.nodes[hash[k]]
        ELSE IF at[i - 1] \in DOMAIN c.mem THEN c.mem[at[i - 1]].next ELSE NULL
      stops(i) == at[i] \notin DOMAIN c.mem \/ c.mem[at[i]].key = k
      ends == {i \in 0 .. N : stops(i) /\ \A j \in 0 .. i - 1 : ~stops(j)}
      n == at[CHOOSE i \in ends : TRUE]
  IN  IF ends = {} THEN "loops"
      ELSE IF n \in DOMAIN c.mem \cup {NULL} THEN n ELSE "freed"

Astray(found) == found \in {"loops", "freed"}

\* Lines 39 to 50, one assignment after the other.
move_to_front(c, n) ==
  LET next == c.mem[n].next
      prev == c.mem[n].prev
      c1 == IF prev = NULL THEN c ELSE SetNext(c, prev, next)
      c2 == IF next = NULL THEN c1 ELSE SetPrev(c1, next, prev)
      c3 == IF c2.tail = n THEN [c2 EXCEPT !.tail = prev] ELSE c2
      c4 == SetNext(SetPrev(c3, n, NULL), n, c3.head)
      c5 == IF c4.head = NULL THEN c4 ELSE SetPrev(c4, c4.head, n)
      c6 == [c5 EXCEPT !.head = n]
  IN  IF c.head = n THEN c
      ELSE IF c6.tail = NULL THEN [c6 EXCEPT !.tail = n] ELSE c6

add_to_front(c, n) ==
  LET c1 == SetNext(SetPrev(c, n, NULL), n, c.head)
      c2 == IF c.head = NULL THEN c1 ELSE SetPrev(c1, c.head, n)
      c3 == [c2 EXCEPT !.head = n]
  IN  IF c3.tail = NULL THEN [c3 EXCEPT !.tail = n] ELSE c3

\* The cache without its tail; the node itself stays allocated.
remove_lru(c) ==
  IF c.tail \notin DOMAIN c.mem THEN [c EXCEPT !.fate = "freed"]
  ELSE LET prev == c.mem[c.tail].prev
           c1 == IF prev = NULL THEN [c EXCEPT !.head = NULL] ELSE SetNext(c, prev, NULL)
       IN  [c1 EXCEPT !.tail = prev]

\* Lines 141 to 153: the LRU node leaves the list, its bucket if it is the
\* first there, and is freed.
Evicted(c) ==
  LET lru == c.tail
      c1 == remove_lru(c)
      node == c.mem[lru]
      i == hash[node.key]
      c2 == IF c1.nodes[i] = lru THEN [c1 EXCEPT !.nodes[i] = c1.mem[lru].next] ELSE c1
  IN  IF lru = NULL THEN c
      ELSE IF c1.fate # "runs" THEN c1
      ELSE [c2 EXCEPT !.mem = [n \in DOMAIN c2.mem \ {lru} |-> c2.mem[n]], !.count = @ - 1]

Allocated(c, n, k, d) ==
  [c EXCEPT !.mem = [m \in DOMAIN c.mem \cup {n} |->
     IF m = n THEN [key |-> k, data |-> d, prev |-> NULL, next |-> NULL] ELSE c.mem[m]]]

\* Lines 155 to 158.
Linked(c, n, k) ==
  LET c1 == add_to_front(c, n)
      c2 == SetNext(c1, n, c1.nodes[hash[k]])
  IN  [c2 EXCEPT !.nodes[hash[k]] = n, !.count = @ + 1]

Used(n) == <<n>> \o SelectSeq(recency, LAMBDA m : m # n)

\* The call of cache_get, on its own or from cache_put.
cache_get(k) ==
  LET found == Found(cache, k)
  IN  /\ cache.fate = "runs"
      /\ cache' = IF Astray(found) THEN [cache EXCEPT !.fate = found]
                  ELSE IF found = NULL THEN cache ELSE move_to_front(cache, found)
      /\ recency' = IF Astray(found) \/ found = NULL THEN recency ELSE Used(found)

\* cache_put of a key that is found: the value is replaced in the node that
\* a second walk finds, if it does.
put_existing(k, d) ==
  LET found == Found(cache, k)
      c1 == move_to_front(cache, found)
      again == Found(c1, k)
  IN  /\ cache.fate = "runs"
      /\ ~Astray(found) /\ found # NULL
      /\ cache' = IF c1.fate # "runs" THEN c1
                  ELSE IF Astray(again) THEN [c1 EXCEPT !.fate = again]
                  ELSE IF again = NULL THEN c1 ELSE [c1 EXCEPT !.mem[again].data = d]
      /\ recency' = Used(found)

put_new(k, d) ==
  /\ cache.fate = "runs"
  /\ Found(cache, k) = NULL
  /\ \E n \in Node \ DOMAIN cache.mem :
       LET c1 == Allocated(cache, n, k, d)
           full == c1.count >= CACHE_SIZE
           c2 == IF full THEN Evicted(c1) ELSE c1
       IN  /\ cache' = IF c2.fate = "runs" THEN Linked(c2, n, k) ELSE c2
           /\ recency' = <<n>> \o SelectSeq(recency, LAMBDA m : ~full \/ m # cache.tail)

Next == \E k \in Key : cache_get(k) \/ \E d \in Data : put_existing(k, d) \/ put_new(k, d)

Spec == Init /\ [][Next]_vars
-----------------------------------------------------------------------------
TypeOK ==
  /\ \A n \in DOMAIN cache.mem : n \in Node /\ cache.mem[n].key \in Key /\ cache.mem[n].data \in Data
  /\ cache.nodes \in [Bucket -> Node \cup {NULL}]
  /\ cache.count \in 0 .. CACHE_SIZE
  /\ cache.fate \in {"runs", "loops", "freed"}

\* No node leaks: count is the number of nodes allocated, through every
\* eviction, whatever state the lists are in.
CountIsNodes == cache.fate = "runs" => cache.count = Cardinality(DOMAIN cache.mem)

\* "*head; //MRU" (lrucache.h:16): the head is the node used last.
HeadIsMru == cache.fate = "runs" /\ recency # << >> => cache.head = Head(recency)

\* "Getter - to get data from the cache" (line 91): a key that is in the
\* cache is found.
CachedIsFound ==
  cache.fate = "runs" =>
    \A n \in DOMAIN cache.mem : Found(cache, cache.mem[n].key) \in DOMAIN cache.mem
=============================================================================
