------------------------------- MODULE Lists --------------------------------
(***************************************************************************)
(* The structures that are linked by pointers, or stand for one, and the   *)
(* hash tables.                                                            *)
(*                                                                         *)
(* linked-list.c ("list"), queue-using-linked-list.c ("queue"), stack-     *)
(* using-linked-list.c ("stack"), queue-using-array.c ("array queue") and  *)
(* stack-using-arrays.c ("array stack").  heap holds the nodes in use, or  *)
(* the slots of the array written so far.  front is also the head of the   *)
(* list and the top of the linked stack, rear also the top of the array    *)
(* stack.                                                                  *)
(*                                                                         *)
(* leetcode-lru-cache.c: a doubly linked list in order of use, and a hash  *)
(* table of chained entries that leads to its nodes.  A node is known by   *)
(* its key, since put makes one only for a key that the table does not     *)
(* have; an entry of a chain likewise.                                     *)
(*                                                                         *)
(* skip-list.c.  A node is a cell of memory with a key and a forward       *)
(* pointer per level; cell 0 is the header and Nowhere is -1.  A node that *)
(* is freed while a level still links to it leaves the list in Fault.      *)
(*                                                                         *)
(* hash-table-with-chaining.c ("chaining"), hash-table-with-open-          *)
(* addressing.c ("open"), insert_search_delete_linearProbing.c ("linear")  *)
(* and bloom-filter.c ("bloom").  table has a chain of entries per bucket, *)
(* an entry per slot, or a bit per position; Fault is a chain that ends in *)
(* freed memory.  Hash and Hash2 are the hash functions.                   *)
(***************************************************************************)
EXTENDS Integers, SequencesExt

CONSTANTS
  Item, ListCells, SIZE,
  LruKey, LruValue, Capacity, HASH_SIZE,
  SlKey, Cells, MAX_LEVEL,
  Word, Value, TABLE_SIZE, Hash, Hash2,
  NULL, Fault
-----------------------------------------------------------------------------
(* Lists, queues and stacks *)

VARIABLES what, heap, front, rear,
  got,    \* what the last pop, dequeue or peek has returned
  items,  \* auxiliary: what should be there, from the front on,
  due     \* and what should have been returned

lsvars == <<what, heap, front, rear, got, items, due>>

Linked == {"list", "queue", "stack"}

\* NULL, or -1 for the indices of an array.
Nothing == IF what \in Linked THEN NULL ELSE -1

ListInit ==
  /\ what \in Linked \cup {"array queue", "array stack"}
  /\ heap = << >> /\ front = Nothing /\ rear = Nothing
  /\ got = -1 /\ items = << >> /\ due = -1

isEmpty == IF what = "array stack" THEN rear = -1 ELSE front = Nothing
isFull == rear = SIZE - 1

Free == (1 .. ListCells) \ DOMAIN heap
New == Min(Free)
createNode(v, link) == [c \in DOMAIN heap \cup {New} |-> IF c = New THEN [data |-> v, next |-> link] ELSE heap[c]]
Released(c) == Restrict(heap, DOMAIN heap \ {c})
-----------------------------------------------------------------------------
\* insertAtBeginning, and push of the linked stack.
insertAtBeginning(v) ==
  /\ Free # {}
  /\ heap' = createNode(v, front) /\ front' = New
  /\ items' = <<v>> \o items
  /\ UNCHANGED <<rear, got, due>>

RECURSIVE last(_)
last(c) == IF heap[c].next = NULL THEN c ELSE last(heap[c].next)

insertAtEnd(v) ==
  /\ Free # {}
  /\ IF front = NULL THEN heap' = createNode(v, NULL) /\ front' = New
     ELSE heap' = [createNode(v, NULL) EXCEPT ![last(front)].next = New] /\ UNCHANGED front
  /\ items' = Append(items, v)
  /\ UNCHANGED <<rear, got, due>>

\* The first node with the value, with the ones before it.
RECURSIVE find(_, _, _)
find(prev, c, v) == IF c = NULL \/ heap[c].data = v THEN <<prev, c>> ELSE find(c, heap[c].next, v)

deleteNode(v) ==
  LET prev == find(NULL, front, v)[1]
      temp == find(NULL, front, v)[2]
  IN  /\ IF temp = NULL THEN UNCHANGED <<heap, front>>
         ELSE IF prev = NULL THEN front' = heap[temp].next /\ heap' = Released(temp)
         ELSE heap' = [Released(temp) EXCEPT ![prev].next = heap[temp].next] /\ UNCHANGED front
      /\ items' = IF Contains(items, v) THEN RemoveAt(items, Min({i \in DOMAIN items : items[i] = v})) ELSE items
      /\ UNCHANGED <<rear, got, due>>

enqueue(v) ==
  /\ Free # {} /\ rear' = New
  /\ IF rear = NULL THEN heap' = createNode(v, NULL) /\ front' = New
     ELSE heap' = [createNode(v, NULL) EXCEPT ![rear].next = New] /\ UNCHANGED front
  /\ items' = Append(items, v)
  /\ UNCHANGED <<got, due>>

Taken == due' = (IF items = << >> THEN -1 ELSE Head(items)) /\ items' = (IF items = << >> THEN items ELSE Tail(items))

\* dequeue of the linked queue.
dequeue ==
  /\ IF isEmpty THEN got' = -1 /\ UNCHANGED <<heap, front, rear>>
     ELSE /\ got' = heap[front].data
          /\ front' = heap[front].next /\ heap' = Released(front)
          /\ rear' = IF front' = NULL THEN NULL ELSE rear
  /\ Taken

\* pop of the linked stack.
pop ==
  /\ IF isEmpty THEN got' = -1 /\ UNCHANGED <<heap, front>>
     ELSE got' = heap[front].data /\ front' = heap[front].next /\ heap' = Released(front)
  /\ Taken /\ UNCHANGED rear

peek ==
  /\ got' = IF isEmpty THEN -1 ELSE IF what = "array stack" THEN heap[rear] ELSE heap[front].data
  /\ due' = IF items = << >> THEN -1 ELSE Head(items)
  /\ UNCHANGED <<heap, front, rear, items>>

Written(v) == [i \in DOMAIN heap \cup {rear + 1} |-> IF i = rear + 1 THEN v ELSE heap[i]]

\* Full is when the last slot has been used, though slots before front may be free.
array_enqueue(v) ==
  /\ IF isFull THEN UNCHANGED <<heap, front, rear, items>>
     ELSE /\ front' = IF front = -1 THEN 0 ELSE front
          /\ rear' = rear + 1 /\ heap' = Written(v) /\ items' = Append(items, v)
  /\ UNCHANGED <<got, due>>

array_dequeue ==
  /\ IF isEmpty THEN got' = -1 /\ UNCHANGED <<front, rear>>
     ELSE /\ got' = heap[front]
          /\ IF front = rear THEN front' = -1 /\ rear' = -1 ELSE front' = front + 1 /\ UNCHANGED rear
  /\ Taken /\ UNCHANGED heap

array_push(v) ==
  /\ IF isFull THEN UNCHANGED <<heap, rear, items>>
     ELSE rear' = rear + 1 /\ heap' = Written(v) /\ items' = <<v>> \o items
  /\ UNCHANGED <<front, got, due>>

array_pop ==
  /\ IF isEmpty THEN got' = -1 /\ UNCHANGED rear ELSE got' = heap[rear] /\ rear' = rear - 1
  /\ Taken /\ UNCHANGED <<heap, front>>

ListNext ==
  /\ UNCHANGED what
  /\ \/ what = "list" /\ \E v \in Item : insertAtBeginning(v) \/ insertAtEnd(v) \/ deleteNode(v)
     \/ what = "queue" /\ (dequeue \/ peek \/ \E v \in Item : enqueue(v))
     \/ what = "stack" /\ (pop \/ peek \/ \E v \in Item : insertAtBeginning(v))
     \/ what = "array queue" /\ (array_dequeue \/ \E v \in Item : array_enqueue(v))
     \/ what = "array stack" /\ (array_pop \/ peek \/ \E v \in Item : array_push(v))
-----------------------------------------------------------------------------
RECURSIVE walk(_)
walk(c) == IF c = NULL THEN << >> ELSE <<heap[c].data>> \o walk(heap[c].next)

\* What display prints.
display ==
  CASE what \in Linked -> walk(front)
    [] what = "array queue" -> IF isEmpty THEN << >> ELSE [i \in 1 .. rear - front + 1 |-> heap[front + i - 1]]
    [] what = "array stack" -> [i \in 1 .. rear + 1 |-> heap[rear + 1 - i]]

\* Whatever was inserted and removed, the list, queue or stack holds the
\* elements in their order, pop, dequeue and peek have returned the right one,
\* and of a linked structure every node in use is in it (none has leaked).
ItemsKept ==
  /\ display = items
  /\ got = due
  /\ what \in Linked => Cardinality(DOMAIN heap) = Len(items)
-----------------------------------------------------------------------------
(* The LRU cache *)

VARIABLES lru,
  answer,  \* what the last get has returned
  recent,  \* auxiliary: the keys from the last used to the first,
  newest   \* and the value put last for each

llvars == <<lru, answer, recent, newest>>

lRUCacheCreate ==
  [size |-> 0, head |-> NULL, tail |-> NULL,
   prev |-> [k \in LruKey |-> NULL], next |-> [k \in LruKey |-> NULL],
   value |-> [k \in LruKey |-> NULL], hashTable |-> [h \in 0 .. HASH_SIZE - 1 |-> << >>]]

LruInit ==
  /\ lru = lRUCacheCreate
  /\ answer = -1 /\ recent = << >> /\ newest = [k \in LruKey |-> -1]
-----------------------------------------------------------------------------
addToHead(o, n) ==
  [o EXCEPT !.next[n] = o.head, !.head = n,
            !.prev = [k \in LruKey |-> IF k = n THEN NULL ELSE IF k = o.head THEN n ELSE @[k]],
            !.tail = IF @ = NULL THEN n ELSE @]

\* Variant of removeNode: the tail stays when the last node goes.
removeNode_tail(o, n) ==
  LET p == o.prev[n]
      x == o.next[n]
  IN  [o EXCEPT !.head = IF p = NULL THEN x ELSE @,
                !.next = [k \in LruKey |-> IF k = p THEN x ELSE @[k]],
                !.prev = [k \in LruKey |-> IF k = x THEN p ELSE @[k]]]

removeNode(o, n) ==
  LET p == o.prev[n]
      x == o.next[n]
  IN  [o EXCEPT !.head = IF p = NULL THEN x ELSE @,
                !.tail = IF x = NULL THEN p ELSE @,
                !.next = [k \in LruKey |-> IF k = p THEN x ELSE @[k]],
                !.prev = [k \in LruKey |-> IF k = x THEN p ELSE @[k]]]

moveToHead(o, n) == addToHead(removeNode(o, n), n)

hash(key) == key % HASH_SIZE

\* Whether there is an entry for the key; its node is the key's.
hashGet(o, key) == Contains(o.hashTable[hash(key)], key)

hashPut(o, key) ==
  IF hashGet(o, key) THEN o ELSE [o EXCEPT !.hashTable[hash(key)] = <<key>> \o @]

hashRemove(o, key) == [o EXCEPT !.hashTable[hash(key)] = SelectSeq(@, LAMBDA k : k # key)]

\* The node's fields are nobody's any more.
free(o, n) == [o EXCEPT !.prev[n] = NULL, !.next[n] = NULL, !.value[n] = NULL]
-----------------------------------------------------------------------------
Used(key) == <<key>> \o SelectSeq(recent, LAMBDA k : k # key)

lRUCacheGet(key) ==
  /\ IF ~hashGet(lru, key) THEN answer' = -1 /\ UNCHANGED lru
     ELSE answer' = lru.value[key] /\ lru' = moveToHead(lru, key)
  /\ recent' = IF Contains(recent, key) THEN Used(key) ELSE recent
  /\ UNCHANGED newest

lRUCachePut(key, value) ==
  LET set == [lru EXCEPT !.value[key] = value]
      added == [hashPut(addToHead(set, key), key) EXCEPT !.size = @ + 1]
      removeTail == removeNode(added, added.tail)
  IN  /\ lru' = IF hashGet(lru, key) THEN moveToHead(set, key)
                ELSE IF added.size > Capacity
                     THEN [free(hashRemove(removeTail, added.tail), added.tail) EXCEPT !.size = @ - 1]
                     ELSE added
      /\ recent' = SubSeq(Used(key), 1, Min({Capacity, Len(Used(key))}))
      /\ newest' = [newest EXCEPT ![key] = value]
      /\ UNCHANGED answer

LruNext == \E k \in LruKey : lRUCacheGet(k) \/ \E v \in LruValue : lRUCachePut(k, v)
-----------------------------------------------------------------------------
\* The keys met from a node on, at most one more than fit.
Chain(link, from) ==
  LET met[n \in 0 .. Capacity + 1] ==
        IF n = 0 THEN << >>
        ELSE LET so == met[n - 1]
                 at == IF so = << >> THEN from ELSE link[Last(so)]
             IN  IF at = NULL THEN so ELSE Append(so, at)
  IN  met[Capacity + 1]

\* The list is in order of use from the head on and, backwards, from the tail
\* on; size is its length and never above the capacity; the table has an entry
\* for each node, once, and none else, so that get answers the value put last
\* for a key that is among the last used, and -1 for every other.
LruExact ==
  /\ Chain(lru.next, lru.head) = recent
  /\ Chain(lru.prev, lru.tail) = Reverse(recent)
  /\ lru.size = Len(recent) /\ Len(recent) <= Capacity
  /\ \A h \in DOMAIN lru.hashTable :
       /\ IsInjective(lru.hashTable[h])
       /\ ToSet(lru.hashTable[h]) = {k \in ToSet(recent) : hash(k) = h}
  /\ \A k \in ToSet(recent) : lru.value[k] = newest[k]
-----------------------------------------------------------------------------
(* The skip list *)

VARIABLES list,
  sl_keys,   \* auxiliary: the keys inserted and not deleted since
  misled     \* auxiliary: an insert has taken the header for a predecessor

slvars == <<list, sl_keys, misled>>

header == 0
Nowhere == -1
Cell == 1 .. Cells
Level == 0 .. MAX_LEVEL
NoPointers == [i \in Level |-> Nowhere]

createSkipList ==
  [level |-> 0, key |-> [c \in {header} \cup Cell |-> Nowhere],
   forward |-> [c \in {header} \cup Cell |-> NoPointers]]

SkipInit == list = createSkipList /\ sl_keys = {} /\ misled = FALSE

RECURSIVE advance(_, _, _)
advance(current, i, key) ==
  LET next == list.forward[current][i]
  IN  IF next # Nowhere /\ list.key[next] < key THEN advance(next, i, key) ELSE current

\* The node from which each level is searched further, from the top down.
update(key) ==
  LET at[i \in Level] ==
        advance(IF i >= list.level THEN header ELSE at[i + 1], i, key)
  IN  [i \in 0 .. list.level |-> at[i]]

Next0(key) == list.forward[update(key)[0]][0]

search(key) == Next0(key) # Nowhere /\ list.key[Next0(key)] = key

\* The new levels start at the header; so does the level that was the top
\* one so far: the loop begins at list->level.
insert_new(key, cell, newLevel) ==
  LET before == [i \in 0 .. newLevel |->
                  IF newLevel > list.level /\ i >= list.level THEN header ELSE update(key)[i]]
      l == [list EXCEPT !.level = Max({@, newLevel}), !.key[cell] = key]
  IN  [l EXCEPT !.forward = [c \in DOMAIN @ |-> [i \in Level |->
         IF i > newLevel THEN @[c][i]
         ELSE IF c = cell THEN @[before[i]][i]
         ELSE IF c = before[i] THEN cell ELSE @[c][i]]]]

FreeCell == {c \in Cell : list.key[c] = Nowhere}

\* generateRandomLevel gives any level.
insert(key) ==
  /\ sl_keys' = sl_keys \cup {key}
  /\ IF search(key) THEN UNCHANGED <<list, misled>>
     ELSE FreeCell # {} /\ \E newLevel \in Level :
            /\ list' = insert_new(key, Min(FreeCell), newLevel)
            /\ misled' = (misled \/ (newLevel > list.level /\ update(key)[list.level] # header))

\* The levels are unlinked from below up to the first one that does not link
\* to the node; then empty levels go.
unlinked(key, node) ==
  LET top == Max({n \in -1 .. list.level : \A i \in 0 .. n : list.forward[update(key)[i]][i] = node})
  IN  [list EXCEPT !.forward = [c \in DOMAIN @ |-> [i \in Level |->
        IF i <= top /\ c = update(key)[i] THEN @[node][i] ELSE @[c][i]]]]

Lowered(l) ==
  [l EXCEPT !.level = Max({0} \cup {i \in 0 .. @ : l.forward[header][i] # Nowhere})]

delete(key) ==
  LET node == Next0(key)
      l == unlinked(key, node)
      kept == \E c \in {header} \cup Cell, i \in Level : c # node /\ l.forward[c][i] = node
  IN  /\ sl_keys' = sl_keys \ {key}
      /\ UNCHANGED misled
      /\ list' = IF ~search(key) THEN list
                 ELSE IF kept THEN Fault
                 ELSE Lowered([l EXCEPT !.key[node] = Nowhere, !.forward[node] = NoPointers])

SkipNext == list # Fault /\ \E k \in SlKey : insert(k) \/ delete(k)
-----------------------------------------------------------------------------
RECURSIVE KeysFrom(_, _)
KeysFrom(c, i) == IF c = Nowhere THEN << >> ELSE <<list.key[c]>> \o KeysFrom(list.forward[c][i], i)

\* As long as no insert has raised the level past a node that came before its
\* key, the bottom level holds the keys in order, every level is a part of
\* the one below, those above list->level are empty, and search finds
\* exactly the keys; no freed node stays linked.
LevelsOrdered ==
  ~misled =>
    /\ list # Fault
    /\ KeysFrom(list.forward[header][0], 0) = SetToSortSeq(sl_keys, <)
    /\ \A i \in 1 .. MAX_LEVEL :
         LET upper == KeysFrom(list.forward[header][i], i)
             lower == KeysFrom(list.forward[header][i - 1], i - 1)
         IN  upper = SelectSeq(lower, LAMBDA k : k \in ToSet(upper))
    /\ \A i \in Level : i > list.level => list.forward[header][i] = Nowhere
    /\ \A k \in SlKey : search(k) <=> k \in sl_keys
-----------------------------------------------------------------------------
(* The hash tables *)

VARIABLES kind, table,
  live   \* auxiliary: the values a word stands for, the one to be found first

htvars == <<kind, table, live>>

Index == 0 .. TABLE_SIZE - 1

EMPTY == "empty"
DELETED == "deleted"
NotFound == -1

HashInit ==
  /\ kind \in {"chaining", "open", "linear", "bloom"}
  /\ live = [w \in Word |-> << >>]
  /\ table = [i \in Index |->
       CASE kind = "chaining" -> << >>
         [] kind = "bloom" -> 0
         [] OTHER -> [key |-> EMPTY, value |-> 0]]

\* The positions that probing for w visits, in order, and the first of them
\* in a set.
Probe(w) == [n \in 1 .. TABLE_SIZE |-> (Hash[w] + n - 1) % TABLE_SIZE]
FirstOf(w, stop) == Probe(w)[Min({n \in 1 .. TABLE_SIZE : Probe(w)[n] \in stop})]

Holding(keys) == {i \in Index : table[i].key \in keys}
-----------------------------------------------------------------------------
Place(c, w) == {n \in DOMAIN c : c[n].key = w}

\* A word that is there gets the new value; the new node is freed, and
\* linked in all the same unless the word was in the last node.
chain_insert(w, v) ==
  LET c == table[Hash[w]]
  IN  /\ table' = IF Place(c, w) = {} THEN [table EXCEPT ![Hash[w]] = Append(c, [key |-> w, value |-> v])]
                  ELSE IF Len(c) \in Place(c, w) THEN [table EXCEPT ![Hash[w]][Len(c)].value = v]
                  ELSE Fault
      /\ live' = [live EXCEPT ![w] = <<v>>]

chain_search(w) ==
  LET c == table[Hash[w]]
  IN  IF Place(c, w) = {} THEN NotFound ELSE c[Min(Place(c, w))].value

chain_delete(w) ==
  LET c == table[Hash[w]]
  IN  /\ table' = IF Place(c, w) = {} THEN table ELSE [table EXCEPT ![Hash[w]] = RemoveAt(c, Min(Place(c, w)))]
      /\ live' = [live EXCEPT ![w] = << >>]
-----------------------------------------------------------------------------
open_insert(w, v) ==
  LET open == Holding({EMPTY, DELETED, w})
  IN  IF open = {} THEN UNCHANGED <<table, live>>
      ELSE /\ table' = [table EXCEPT ![FirstOf(w, open)] = [key |-> w, value |-> v]]
           /\ live' = [live EXCEPT ![w] = <<v>>]

\* The slot where looking for w stops: at w or at an empty one; all the way
\* round is like an empty one.
Found(w) ==
  LET stop == Holding({EMPTY, w})
  IN  stop # {} /\ table[FirstOf(w, stop)].key = w

open_search(w) == IF Found(w) THEN table[FirstOf(w, Holding({w}))].value ELSE NotFound

open_delete(w) ==
  /\ table' = IF Found(w) THEN [table EXCEPT ![FirstOf(w, Holding({w}))].key = DELETED] ELSE table
  /\ live' = [live EXCEPT ![w] = << >>]
-----------------------------------------------------------------------------
\* insert looks for the tombstone in value, where no delete puts it: a
\* deleted slot is not used again.  It does not look for w either.
linear_insert(w, v) ==
  LET open == {i \in Index : table[i].key = EMPTY \/ table[i].value = -2}
  IN  IF open = {} THEN UNCHANGED <<table, live>>
      ELSE /\ table' = [table EXCEPT ![FirstOf(w, open)] = [key |-> w, value |-> v]]
           /\ live' = [live EXCEPT ![w] = Append(@, v)]

linear_search(w) == IF Found(w) THEN table[FirstOf(w, Holding({w}))].value ELSE NotFound

linear_delete(w) ==
  /\ table' = IF Found(w) THEN [table EXCEPT ![FirstOf(w, Holding({w}))].key = DELETED] ELSE table
  /\ live' = [live EXCEPT ![w] = IF @ = << >> THEN @ ELSE Tail(@)]
-----------------------------------------------------------------------------
bloom_insert(w) ==
  /\ table' = [table EXCEPT ![Hash[w]] = 1, ![Hash2[w]] = 1]
  /\ live' = [live EXCEPT ![w] = <<1>>]

bloom_search(w) == table[Hash[w]] = 1 /\ table[Hash2[w]] = 1

\* "force a false positive": main sets bits itself.
bloom_force(i) == table' = [table EXCEPT ![i] = 1] /\ UNCHANGED live
-----------------------------------------------------------------------------
HashNext ==
  /\ table # Fault
  /\ UNCHANGED kind
  /\ \E w \in Word :
       \/ kind = "chaining" /\ (chain_delete(w) \/ \E v \in Value : chain_insert(w, v))
       \/ kind = "open" /\ (open_delete(w) \/ \E v \in Value : open_insert(w, v))
       \/ kind = "linear" /\ (linear_delete(w) \/ \E v \in Value : linear_insert(w, v))
       \/ kind = "bloom" /\ (bloom_insert(w) \/ \E i \in Index : bloom_force(i))

Entry == [key : Word \cup {EMPTY, DELETED}, value : Value \cup {0}]

\* search finds the value that it should: with chaining the one inserted last
\* and none after a delete; with linear probing the oldest not deleted yet;
\* with open addressing the one inserted last, however slots were freed and
\* taken again since (after a delete an older one may come back).  The Bloom
\* filter never says "Definitely not present" of a word inserted.
LookupsAgree ==
  table # Fault =>
    \A w \in Word :
      LET first == IF live[w] = << >> THEN NotFound ELSE live[w][1]
      IN  CASE kind = "chaining" -> chain_search(w) = first
            [] kind = "linear" -> linear_search(w) = first
            [] kind = "open" -> live[w] # << >> => open_search(w) = first
            [] kind = "bloom" -> live[w] # << >> => bloom_search(w)
-----------------------------------------------------------------------------
TypeOK ==
  /\ items \in Seq(Item) /\ {got, due} \subseteq Item \cup {-1}
  /\ what \in Linked =>
       /\ {front, rear} \subseteq DOMAIN heap \cup {NULL}
       /\ \A c \in DOMAIN heap : heap[c].next \in DOMAIN heap \cup {NULL}
  /\ what \notin Linked => {front, rear} \subseteq -1 .. SIZE - 1
  /\ {lru.head, lru.tail} \subseteq LruKey \cup {NULL}
  /\ lru.size \in 0 .. Capacity
  /\ answer \in LruValue \cup {-1}
  /\ lru.next \in [LruKey -> LruKey \cup {NULL}] /\ lru.prev \in [LruKey -> LruKey \cup {NULL}]
  /\ sl_keys \subseteq SlKey /\ misled \in BOOLEAN
  /\ list # Fault =>
       /\ list.level \in Level
       /\ list.key \in [{header} \cup Cell -> SlKey \cup {Nowhere}]
       /\ list.forward \in [{header} \cup Cell -> [Level -> Cell \cup {Nowhere}]]
  /\ live \in [Word -> Seq(Value)]
  /\ table # Fault =>
       \A i \in Index :
         CASE kind = "chaining" -> table[i] \in Seq(Entry)
           [] kind = "bloom" -> table[i] \in {0, 1}
           [] OTHER -> table[i] \in Entry
=============================================================================
