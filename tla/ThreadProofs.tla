---------------------------- MODULE ThreadProofs ----------------------------
(***************************************************************************)
(* ThreadDemos, for any readers, writers, keys and buckets: readers of the *)
(* rwlock see a counter that stands still, who sees the flag sees the      *)
(* value, and inserters that work together lose no key.                    *)
(*                                                                         *)
(* SharedCounter, for any number of threads and of updates: under a mutex, *)
(* a spin lock or an atomic addition no update is lost, and without any of *)
(* them at least two are kept.                                             *)
(***************************************************************************)
EXTENDS ThreadDemos, FiniteSetTheorems, TLAPS

\* What the programs' parameters are.
DemoConstants ==
  /\ Reader \cap Writer = {} /\ Inserter # {} /\ Nobody \notin Inserter
  /\ MaxTurns \in Nat /\ Keys \in Nat /\ NUM_BUCKETS \in Nat
  /\ hash \in [0 .. Keys - 1 -> 0 .. NUM_BUCKETS - 1]
-----------------------------------------------------------------------------
(* read_write_lock.c, memory_barrier.c, concurrent_hashmap_using_locks.c *)

\* The conjuncts of TypeOK about each of the programs.
RwTypes ==
  /\ holders \subseteq Participant
  /\ shared_counter \in Nat
  /\ total_reader_operations \in Nat
  /\ total_writer_operations \in Nat
  /\ stop_requested \in BOOLEAN
  /\ seen \in [Participant -> Nat]
  /\ turns \in [Participant -> 0 .. MaxTurns]
  /\ rwpc \in [Participant -> {"loop", "lock", "load", "store", "count", "unlock", "returned"}]

HandTypes ==
  /\ futex_value \in 0 .. 1
  /\ waiter \in {"check", "futex_wait", "sleeping", "woken", "returned"}
  /\ signaler \in {"sleep", "futex_wake", "returned"}
  /\ stored \in 0 .. 2
  /\ visible \subseteq 1 .. 2
  /\ read \in {0 - 1, 0, 42}

Entry == [key : 0 .. Keys - 1, value : 0 .. Keys - 1]

MapTypes ==
  /\ entries \in [Bucket -> Seq(Entry)]
  /\ holder \in [Bucket -> Inserter \cup {Nobody}]
  /\ next_key \in [Inserter -> 0 .. Keys]
  /\ mappc \in [Inserter -> {"lock", "walk", "change", "unlock"}]
  /\ found \in [Inserter -> Nat]

LEMMA DemosTypes == TypeOK <=> RwTypes /\ HandTypes /\ MapTypes
BY DEF TypeOK, RwTypes, HandTypes, MapTypes, Entry

\* A writer enters an empty lock, a reader one without a writer.
LEMMA RwStep ==
  ASSUME DemoConstants, RwTypes, RwInv, RwNext \/ UNCHANGED rwVars
  PROVE  RwTypes' /\ RwInv'
<1> USE DEF DemoConstants, RwTypes, RwInv, Inside, Participant,
        totals, RwGoto
<1>1. ASSUME NEW t \in Participant, loop(t)
      PROVE  RwTypes' /\ RwInv'
  <2>1. /\ UNCHANGED <<holders, shared_counter, total_reader_operations, total_writer_operations, stop_requested, seen>>
        /\ rwpc[t] = "loop"
        /\ \E l \in {"returned", "lock"} : rwpc' = [rwpc EXCEPT ![t] = l]
    BY <1>1 DEF loop
  <2>2. turns' \in [Participant -> 0 .. MaxTurns]
    <3>1. turns' = turns \/ (turns[t] < MaxTurns /\ turns' = [turns EXCEPT ![t] = @ + 1])
      BY <1>1 DEF loop
    <3>2. turns[t] < MaxTurns => turns[t] + 1 \in 0 .. MaxTurns
      OBVIOUS
    <3>3. CASE turns' = turns
      BY <3>3
    <3>4. CASE turns[t] < MaxTurns /\ turns' = [turns EXCEPT ![t] = @ + 1]
      <4>1. turns[t] + 1 \in 0 .. MaxTurns /\ turns \in [Participant -> 0 .. MaxTurns]
        BY <3>2, <3>4
      <4>2. QED
        BY ONLY <3>4, <4>1
    <3>5. QED
      BY <3>1, <3>3, <3>4
  <2>3. /\ rwpc' \in [Participant -> {"loop", "lock", "load", "store", "count", "unlock", "returned"}]
        /\ rwpc'[t] \in {"returned", "lock"}
        /\ \A u \in Participant : u # t => rwpc'[u] = rwpc[u]
    BY <2>1
  <2>4. RwTypes'
    BY <2>1, <2>2, <2>3
  <2>5. RwInv'
    BY <2>1, <2>3
  <2>6. QED
    BY <2>4, <2>5
<1>2. ASSUME NEW t \in Participant, lock(t)
      PROVE  RwTypes' /\ RwInv'
  BY <1>2 DEF lock, Admitted
<1>3. ASSUME NEW t \in Participant, load(t)
      PROVE  RwTypes' /\ RwInv'
  BY <1>3 DEF load
<1>4. ASSUME NEW t \in Participant, store(t)
      PROVE  RwTypes' /\ RwInv'
  BY <1>4 DEF store
<1>5. ASSUME NEW t \in Participant, count(t)
      PROVE  RwTypes' /\ RwInv'
  BY <1>5 DEF count
<1>6. ASSUME NEW t \in Participant, unlock_rw(t)
      PROVE  RwTypes' /\ RwInv'
  BY <1>6 DEF unlock_rw
<1>7. CASE stop
  BY <1>7 DEF stop
<1>8. CASE UNCHANGED rwVars
  BY <1>8 DEF rwVars
<1>9. QED
  BY <1>1, <1>2, <1>3, <1>4, <1>5, <1>6, <1>7, <1>8 DEF RwNext, Step

LEMMA HandStep ==
  ASSUME HandTypes, HandInv, HandNext \/ UNCHANGED <<futexVars, barrierVars>>
  PROVE  HandTypes' /\ HandInv'
<1> USE DEF HandTypes, HandInv, Published, barrierVars, futexVars
<1>1. CASE WaiterStep \/ interrupted
  <2>1. UNCHANGED <<futex_value, signaler, stored, visible, read>>
    BY <1>1 DEF WaiterStep, waiter_check, futex_wait, woken,
      interrupted
  <2>2. waiter' \in {"check", "futex_wait", "sleeping", "returned"}
    BY <1>1 DEF WaiterStep, waiter_check, futex_wait, woken,
      interrupted
  <2>3. QED
    BY <2>1, <2>2
<1>2. CASE writer
  BY <1>2 DEF writer
<1>3. CASE propagate
  BY <1>3 DEF propagate
<1>4. CASE reader
  BY <1>4 DEF reader
<1>5. CASE UNCHANGED <<futexVars, barrierVars>>
  BY <1>5 DEF futexVars
<1>6. CASE SignalerStep
  <2>1. UNCHANGED <<stored, visible, read>>
    BY <1>6 DEF SignalerStep, signaler_store, futex_wake
  <2>2. futex_value' \in 0 .. 1
    BY <1>6 DEF SignalerStep, signaler_store, futex_wake
  <2>3. /\ waiter' \in {"check", "futex_wait", "sleeping", "woken", "returned"}
        /\ signaler' \in {"sleep", "futex_wake", "returned"}
    BY <1>6 DEF SignalerStep, signaler_store, futex_wake
  <2>4. QED
    BY <2>1, <2>2, <2>3
<1>7. QED
  BY <1>1, <1>2, <1>3, <1>4, <1>5, <1>6 DEF HandNext

\* A key and its bucket.
LEMMA KeyBucket ==
  ASSUME DemoConstants, MapTypes, NEW t \in Inserter, next_key[t] < Keys
  PROVE  next_key[t] \in 0 .. Keys - 1 /\ b_of(t) \in Bucket
<1>1. next_key[t] \in 0 .. Keys - 1
  BY DEF DemoConstants, MapTypes
<1>2. QED
  BY <1>1 DEF DemoConstants, b_of, Bucket

\* The walk finds the key wherever it is in the list.
LEMMA PositionFacts ==
  ASSUME NEW list, NEW k, 0 \notin DOMAIN list
  PROVE  /\ Position(list, k) # 0 =>
              /\ Position(list, k) \in DOMAIN list
              /\ list[Position(list, k)].key = k
         /\ Position(list, k) = 0 => \A n \in DOMAIN list : list[n].key # k
<1>1. CASE \E n \in DOMAIN list : list[n].key = k
  <2>1. Position(list, k) = CHOOSE n \in DOMAIN list : list[n].key = k
    BY <1>1, Zenon DEF Position
  <2>2. Position(list, k) \in DOMAIN list /\ list[Position(list, k)].key = k
    BY <1>1, <2>1, Zenon
  <2>3. QED
    BY <2>2
<1>2. CASE ~\E n \in DOMAIN list : list[n].key = k
  BY <1>2, Zenon DEF Position
<1>3. QED
  BY <1>1, <1>2

\* A bucket's list after the change: the value overwritten, or an entry in front.
After(list, k) ==
  IF Position(list, k) # 0
  THEN [list EXCEPT ![Position(list, k)].value = k]
  ELSE <<[key |-> k, value |-> k]>> \o list

\* What the change does: the key is there with its value, and every other
\* entry keeps its key.
Changed(list, k, new) ==
  /\ \E n \in DOMAIN new : new[n].key = k
  /\ \A n \in DOMAIN list : \E m \in DOMAIN new : new[m].key = list[n].key
  /\ \A n \in DOMAIN new : new[n].key = k \/ \E m \in DOMAIN list : new[n].key = list[m].key
  /\ \A n \in DOMAIN new : new[n].value = new[n].key
  /\ \A m, n \in DOMAIN new : new[m].key = new[n].key => m = n

\* A list with one entry per key, that holds it.
OneEach(list) ==
  /\ \A n \in DOMAIN list : list[n].value = list[n].key
  /\ \A m, n \in DOMAIN list : list[m].key = list[n].key => m = n

LEMMA ChangedList ==
  ASSUME NEW list \in Seq(Entry), NEW k \in 0 .. Keys - 1, NEW new \in Seq(Entry),
         OneEach(list), new = After(list, k)
  PROVE  Changed(list, k, new)
<1> USE DEF OneEach, Changed
<1> DEFINE p == Position(list, k)
<1>0. 0 \notin DOMAIN list
  OBVIOUS
<1>1. CASE p # 0
  <2>1. p \in DOMAIN list /\ list[p].key = k
    BY <1>0, <1>1, PositionFacts
  <2>2. new = [list EXCEPT ![p].value = k]
    BY <1>1 DEF After
  <2> HIDE DEF p
  <2>3. DOMAIN new = DOMAIN list
    BY <2>2
  <2>4. \A n \in DOMAIN list : new[n] = IF n = p THEN [list[p] EXCEPT !.value = k] ELSE list[n]
    BY <2>1, <2>2
  <2>5. \A n \in DOMAIN list : list[n] \in Entry
    OBVIOUS
  <2>6. [list[p] EXCEPT !.value = k].key = k /\ [list[p] EXCEPT !.value = k].value = k
    BY <2>1, <2>5 DEF Entry
  <2>7. \A n \in DOMAIN list : new[n].key = list[n].key /\ new[n].value = new[n].key
    BY <2>1, <2>4, <2>6
  <2>8. \E n \in DOMAIN new : new[n].key = k
    BY <2>1, <2>3, <2>7
  <2>9. \A n \in DOMAIN list : \E m \in DOMAIN new : new[m].key = list[n].key
    BY <2>3, <2>7
  <2>10. \A n \in DOMAIN new : \E m \in DOMAIN list : new[n].key = list[m].key
    BY <2>3, <2>7
  <2>11. \A m, n \in DOMAIN new : new[m].key = new[n].key => m = n
    BY <2>3, <2>7
  <2>12. QED
    BY <2>3, <2>7, <2>8, <2>9, <2>10, <2>11
<1>2. CASE p = 0
  <2> DEFINE e == [key |-> k, value |-> k]
  <2>1. \A n \in DOMAIN list : list[n].key # k
    BY <1>0, <1>2, PositionFacts
  <2>2. new = <<e>> \o list /\ e \in Entry /\ e.key = k /\ e.value = k
    BY <1>2 DEF Entry, After
  <2> HIDE DEF e
  <2>3. /\ DOMAIN new = 1 .. Len(list) + 1
        /\ new[1] = e
        /\ \A n \in DOMAIN list : new[n + 1] = list[n]
    BY <2>2
  <2>4. \A n \in DOMAIN new : n = 1 \/ (n - 1 \in DOMAIN list /\ new[n] = list[n - 1])
    BY <2>3
  <2>5. \A n \in DOMAIN list : n + 1 \in DOMAIN new
    BY <2>3
  <2>6. \A m, n \in DOMAIN new : new[m].key = new[n].key => m = n
    <3>1. ASSUME NEW m \in DOMAIN new, NEW n \in DOMAIN new, new[m].key = new[n].key
          PROVE  m = n
      <4>1. CASE m = 1 \/ n = 1
        BY <2>1, <2>2, <2>3, <2>4, <3>1, <4>1
      <4>2. CASE m # 1 /\ n # 1
        <5>1. m - 1 = n - 1
          BY <2>4, <3>1, <4>2
        <5>2. QED
          BY <2>3, <5>1
      <4>3. QED
        BY <4>1, <4>2
    <3>2. QED
      BY <3>1
  <2>7. 1 \in DOMAIN new /\ new[1].key = k
    BY <2>2, <2>3
  <2>8. \A n \in DOMAIN list : \E m \in DOMAIN new : new[m].key = list[n].key
    BY <2>3, <2>5
  <2>9. \A n \in DOMAIN new : new[n].key = k \/ \E m \in DOMAIN list : new[n].key = list[m].key
    BY <2>4, <2>7
  <2>10. \A n \in DOMAIN new : new[n].value = new[n].key
    BY <2>2, <2>3, <2>4
  <2>11. QED
    BY <2>6, <2>7, <2>8, <2>9, <2>10
<1>3. QED
  BY <1>1, <1>2

\* The lock of a bucket keeps two workers from inserting one key twice, and
\* no change drops an entry.
\* Overwriting a value leaves a list of entries.
LEMMA ValueSet ==
  ASSUME NEW list \in Seq(Entry), NEW q \in DOMAIN list, NEW k \in 0 .. Keys - 1
  PROVE  [list EXCEPT ![q].value = k] \in Seq(Entry)
<1>1. list[q] \in Entry
  OBVIOUS
<1>2. [list[q] EXCEPT !.value = k] \in Entry
  BY <1>1 DEF Entry
<1> DEFINE e == [list[q] EXCEPT !.value = k]
<1> HIDE DEF e
<1>3. [list EXCEPT ![q] = e] \in Seq(Entry)
  BY <1>2 DEF e
<1>4. QED
  BY <1>3 DEF e

LEMMA MapStep ==
  ASSUME DemoConstants, MapTypes, MapInv, MapNext \/ UNCHANGED mapVars
  PROVE  MapTypes' /\ MapInv'
<1> USE DEF DemoConstants, MapTypes, MapInv, MapGoto, OneEntryPerKey
<1>1. ASSUME NEW t \in Inserter, hashmap_insert(t)
      PROVE  MapTypes' /\ MapInv'
  <2>1. b_of(t) \in Bucket /\ next_key[t] < Keys
    BY <1>1, KeyBucket DEF hashmap_insert
  <2>2. /\ mappc[t] = "lock" /\ holder[b_of(t)] = Nobody
        /\ holder' = [holder EXCEPT ![b_of(t)] = t]
        /\ mappc' = [mappc EXCEPT ![t] = "walk"]
        /\ UNCHANGED <<entries, next_key, found>>
    BY <1>1 DEF hashmap_insert
  <2>3. \A u \in Inserter : b_of(u)' = b_of(u)
    BY <2>2 DEF b_of
  <2>4. \A k : Has(k)' <=> Has(k)
    BY <2>2 DEF Has
  <2>5. \A list, k : Position(list, k)' = Position(list, k)
    OBVIOUS
  <2>6. MapTypes'
    BY <2>1, <2>2
  <2>7. \A u \in Inserter :
          mappc'[u] # "lock" => next_key'[u] < Keys /\ holder'[b_of(u)] = u
    BY <2>1, <2>2
  <2>8. \A u \in Inserter : mappc'[u] \in {"change", "unlock"} => mappc'[u] = mappc[u]
    BY <2>2
  <2>9. QED
    BY <2>2, <2>3, <2>4, <2>6, <2>7, <2>8
<1>2. ASSUME NEW t \in Inserter, walk(t)
      PROVE  MapTypes' /\ MapInv'
  <2> DEFINE p == Position(entries[b_of(t)], next_key[t])
  <2>1. /\ mappc[t] = "walk"
        /\ found' = [found EXCEPT ![t] = p]
        /\ mappc' = [mappc EXCEPT ![t] = "change"]
        /\ UNCHANGED <<entries, holder, next_key>>
    BY <1>2 DEF walk
  <2>2. p \in Nat
    <3>1. entries[b_of(t)] \in Seq(Entry)
      BY <2>1, KeyBucket
    <3>2. 0 \notin DOMAIN entries[b_of(t)]
      BY <3>1
    <3>3. p = 0 \/ p \in DOMAIN entries[b_of(t)]
      BY <3>2, PositionFacts
    <3>4. QED
      BY <3>1, <3>3
  <2>3. \A u \in Inserter : b_of(u)' = b_of(u)
    BY <2>1 DEF b_of
  <2>4. \A k : Has(k)' <=> Has(k)
    BY <2>1 DEF Has
  <2>5. MapTypes'
    BY <2>1, <2>2
  <2>6. \A u \in Inserter :
          /\ mappc'[u] # "lock" => mappc[u] # "lock"
          /\ mappc'[u] = "unlock" => mappc[u] = "unlock"
          /\ mappc'[u] = "change" =>
               found'[u] = Position(entries[b_of(u)], next_key[u])
    BY <2>1
  <2>7. QED
    BY <2>1, <2>3, <2>4, <2>5, <2>6
<1>3. ASSUME NEW t \in Inserter, unlock_bucket(t)
      PROVE  MapTypes' /\ MapInv'
  <2>1. b_of(t) \in Bucket /\ next_key[t] < Keys
    BY <1>3, KeyBucket DEF unlock_bucket
  <2>2. /\ mappc[t] = "unlock"
        /\ holder' = [holder EXCEPT ![b_of(t)] = Nobody]
        /\ next_key' = [next_key EXCEPT ![t] = next_key[t] + 1]
        /\ mappc' = [mappc EXCEPT ![t] = "lock"]
        /\ UNCHANGED <<entries, found>>
    BY <1>3 DEF unlock_bucket
  <2>3. \A u \in Inserter : u # t => b_of(u)' = b_of(u)
    BY <2>2 DEF b_of
  <2>4. \A k : Has(k)' <=> Has(k)
    BY <2>2 DEF Has
  <2>5. MapTypes'
    BY <2>1, <2>2
  <2>6. ASSUME NEW u \in Inserter, mappc'[u] # "lock"
        PROVE  /\ u # t /\ mappc'[u] = mappc[u] /\ next_key'[u] = next_key[u]
               /\ next_key'[u] < Keys /\ holder'[b_of(u)] = u
    <3>1. u # t /\ mappc'[u] = mappc[u] /\ next_key'[u] = next_key[u]
      BY <2>2, <2>6
    <3>2. b_of(u) # b_of(t)
      BY <2>2, <2>6, <3>1
    <3>3. QED
      BY <2>2, <2>6, <3>1, <3>2
  <2>7. ASSUME NEW u \in Inserter, NEW k \in 0 .. Keys - 1,
               k < next_key'[u] \/ (k = next_key'[u] /\ mappc'[u] = "unlock")
        PROVE  Has(k)
    <3>1. CASE u = t
      <4>1. next_key[t] \in 0 .. Keys /\ next_key'[t] = next_key[t] + 1
        BY <2>2
      <4>2. k < next_key[t] \/ k = next_key[t]
        BY <2>2, <2>7, <3>1, <4>1
      <4>3. QED
        BY <2>2, <4>2
    <3>2. CASE u # t
      BY <2>2, <2>7, <3>2
    <3>3. QED
      BY <3>1, <3>2
  <2>8. \A u \in Inserter :
          mappc'[u] = "change" => found'[u] = Position(entries[b_of(u)], next_key'[u])
    BY <2>2, <2>6
  <2>9. QED
    BY <2>2, <2>3, <2>4, <2>5, <2>6, <2>7, <2>8
<1>4. CASE UNCHANGED mapVars
  BY <1>4 DEF mapVars, b_of, Has
<1>5. ASSUME NEW t \in Inserter, change(t)
      PROVE  MapTypes' /\ MapInv'
  <2> DEFINE b == b_of(t)
             k == next_key[t]
             new == IF Position(entries[b], k) # 0
                    THEN [entries[b] EXCEPT ![Position(entries[b], k)].value = k]
                    ELSE <<[key |-> k, value |-> k]>> \o entries[b]
  <2>1. /\ mappc[t] = "change" /\ mappc' = [mappc EXCEPT ![t] = "unlock"]
        /\ UNCHANGED <<holder, next_key, found>>
    BY <1>5 DEF change
  <2>2. /\ b \in Bucket /\ k \in 0 .. Keys - 1 /\ k < Keys
        /\ hash[k] = b /\ holder[b] = t
        /\ found[t] = Position(entries[b], k)
        /\ entries[b] \in Seq(Entry)
    BY <2>1, KeyBucket DEF b_of
  <2>3. entries' = [entries EXCEPT ![b] = new]
    BY <1>5, <2>2 DEF change
  <2>4. new \in Seq(Entry)
    <3>1. CASE Position(entries[b], k) # 0
      <4>1. 0 \notin DOMAIN entries[b]
        BY <2>2
      <4>2. Position(entries[b], k) \in DOMAIN entries[b]
        BY <3>1, <4>1, PositionFacts
      <4>3. QED
        BY <2>2, <3>1, <4>2, ValueSet
    <3>2. CASE Position(entries[b], k) = 0
      <4>1. [key |-> k, value |-> k] \in Entry
        BY <2>2 DEF Entry
      <4>2. QED
        BY <2>2, <3>2, <4>1
    <3>3. QED
      BY <3>1, <3>2
  <2>5. Changed(entries[b], k, new)
    <3>1. OneEach(entries[b])
      BY <2>2 DEF OneEach
    <3>2. new = After(entries[b], k)
      BY DEF After
    <3> DEFINE old == entries[b]
    <3>3. old \in Seq(Entry) /\ k \in 0 .. Keys - 1 /\ OneEach(old) /\ new = After(old, k)
      BY <2>2, <3>1, <3>2
    <3> HIDE DEF b, k, old, new
    <3>4. Changed(old, k, new)
      BY ONLY <2>4, <3>3, ChangedList
    <3>5. QED
      BY <3>4 DEF old
  <2>6. \A c \in Bucket : entries'[c] = IF c = b THEN new ELSE entries[c]
    BY <2>2, <2>3
  <2> HIDE DEF new
  <2>7. MapTypes'
    BY <2>1, <2>2, <2>3, <2>4
  <2>8. OneEntryPerKey' /\ \A c \in Bucket : \A n \in DOMAIN entries'[c] :
          entries'[c][n].value = entries'[c][n].key
    <3>1. ASSUME NEW c \in Bucket, NEW m \in DOMAIN entries'[c], NEW n \in DOMAIN entries'[c]
          PROVE  /\ hash[entries'[c][m].key] = c
                 /\ entries'[c][m].key = entries'[c][n].key => m = n
                 /\ entries'[c][n].value = entries'[c][n].key
      <4>1. CASE c = b
        <5>1. entries'[c] = new
          BY <2>6, <4>1
        <5>2. hash[new[m].key] = b
          <6>1. CASE new[m].key = k
            BY <2>2, <6>1
          <6>2. ASSUME NEW j \in DOMAIN entries[b], new[m].key = entries[b][j].key
                PROVE  hash[new[m].key] = b
            BY <2>2, <6>2
          <6>3. QED
            BY <2>5, <3>1, <5>1, <6>1, <6>2 DEF Changed
        <5>3. QED
          BY <2>5, <3>1, <4>1, <5>1, <5>2 DEF Changed
      <4>2. CASE c # b
        <5>1. entries'[c] = entries[c]
          BY <2>6, <4>2
        <5>2. QED
          BY <3>1, <5>1
      <4>3. QED
        BY <4>1, <4>2
    <3>2. QED
      BY <3>1
  <2>9. \A j \in 0 .. Keys - 1 : j = k \/ Has(j) => Has(j)'
    <3>1. \A j \in 0 .. Keys - 1 : hash[j] \in Bucket
      BY DEF Bucket
    <3>2. ASSUME NEW j \in 0 .. Keys - 1, Has(j)
          PROVE  \E n \in DOMAIN entries'[hash[j]] : entries'[hash[j]][n].key = j
      <4>1. PICK n \in DOMAIN entries[hash[j]] : entries[hash[j]][n].key = j
        BY <3>2 DEF Has
      <4>2. CASE hash[j] = b
        <5>1. entries'[hash[j]] = new /\ n \in DOMAIN entries[b] /\ entries[b][n].key = j
          BY <2>6, <3>1, <4>1, <4>2
        <5>2. \E m \in DOMAIN new : new[m].key = j
          BY <2>5, <5>1 DEF Changed
        <5>3. QED
          BY <5>1, <5>2
      <4>3. CASE hash[j] # b
        BY <2>6, <3>1, <4>1, <4>3
      <4>4. QED
        BY <4>2, <4>3
    <3>3. \E n \in DOMAIN entries'[hash[k]] : entries'[hash[k]][n].key = k
      <4>1. entries'[hash[k]] = new
        BY <2>2, <2>6
      <4>2. \E n \in DOMAIN new : new[n].key = k
        BY ONLY <2>5, Zenon DEF Changed
      <4>3. QED
        BY <4>1, <4>2
    <3>4. \A j : Has(j)' <=> \E n \in DOMAIN entries'[hash[j]] : entries'[hash[j]][n].key = j
      BY DEF Has
    <3>5. QED
      BY <3>2, <3>3, <3>4
  <2>10. \A u \in Inserter :
           /\ mappc'[u] # "lock" => mappc[u] # "lock"
           /\ mappc'[u] = "change" => u # t /\ mappc[u] = "change"
           /\ mappc'[u] = "unlock" => u = t \/ mappc[u] = "unlock"
    BY <2>1
  <2>11. \A u \in Inserter : b_of(u)' = b_of(u)
    BY <2>1 DEF b_of
  <2>12. ASSUME NEW u \in Inserter, mappc'[u] = "change"
         PROVE  found[u] = Position(entries'[b_of(u)], next_key[u])
    <3>1. u # t /\ mappc[u] = "change"
      BY <2>10, <2>12
    <3>2. holder[b_of(u)] = u /\ b_of(u) \in Bucket
      BY <3>1, KeyBucket
    <3>3. entries'[b_of(u)] = entries[b_of(u)]
      BY <2>2, <2>6, <3>1, <3>2
    <3>4. QED
      BY <3>1, <3>3
  <2>13. ASSUME NEW u \in Inserter, NEW j \in 0 .. Keys - 1,
                j < next_key[u] \/ (j = next_key[u] /\ mappc'[u] = "unlock")
         PROVE  Has(j)'
    <3>1. CASE u = t /\ j = k
      BY <2>9, <3>1
    <3>2. CASE ~(u = t /\ j = k)
      <4>1. j < next_key[u] \/ (j = next_key[u] /\ mappc[u] = "unlock")
        BY <2>10, <2>13, <3>2
      <4>2. Has(j)
        BY <4>1
      <4>3. QED
        BY <2>9, <4>2
    <3>3. QED
      BY <3>1, <3>2
  <2>14. \A u \in Inserter :
           /\ mappc'[u] # "lock" => next_key'[u] < Keys /\ holder'[b_of(u)'] = u
           /\ mappc'[u] = "change" => found'[u] = Position(entries'[b_of(u)'], next_key'[u])
    BY <2>1, <2>10, <2>11, <2>12
  <2>15. QED
    BY <2>1, <2>7, <2>8, <2>13, <2>14
<1>6. QED
  BY <1>1, <1>2, <1>3, <1>4, <1>5 DEF MapNext, worker

\* With every worker joined each key has its one entry, which holds its value.
LEMMA MapFound ==
  ASSUME DemoConstants, MapTypes, MapInv
  PROVE  NothingLost
<1> SUFFICES ASSUME Joined, NEW k \in 0 .. Keys - 1
             PROVE  hashmap_lookup(k) = {k}
  BY DEF NothingLost
<1> DEFINE list == entries[hash[k]]
           p == Position(list, k)
<1>1. hash[k] \in Bucket
  BY DEF DemoConstants, Bucket
<1>2. list \in Seq(Entry) /\ 0 \notin DOMAIN list
  BY <1>1 DEF MapTypes
<1>3. \E n \in DOMAIN list : list[n].key = k
  <2>1. PICK t : t \in Inserter
    BY DEF DemoConstants
  <2>2. next_key[t] = Keys
    BY <2>1 DEF Joined
  <2>3. Has(k)
    BY <2>1, <2>2 DEF DemoConstants, MapInv
  <2>4. QED
    BY <2>3 DEF Has
<1>4. p # 0 /\ p \in DOMAIN list /\ list[p].key = k
  BY <1>2, <1>3, PositionFacts
<1>5. list[p].value = k
  BY <1>1, <1>4 DEF MapInv
<1>6. QED
  BY <1>4, <1>5 DEF hashmap_lookup

LEMMA DemosInit ==
  ASSUME DemoConstants, RwInit, HandInit, MapInit
  PROVE  IInv
<1>1. RwTypes
  <2>1. 0 \in 0 .. MaxTurns
    BY DEF DemoConstants
  <2>2. turns \in [Participant -> 0 .. MaxTurns]
    BY <2>1 DEF RwInit
  <2>3. seen \in [Participant -> Nat]
    BY DEF RwInit
  <2>4. rwpc \in [Participant -> {"loop", "lock", "load", "store", "count", "unlock", "returned"}]
    BY DEF RwInit
  <2>5. QED
    BY <2>2, <2>3, <2>4 DEF RwInit, RwTypes
<1>1a. \A t \in Participant : rwpc[t] = "loop"
  BY DEF RwInit, Participant
<1>1b. ~\E w \in Writer : rwpc[w] = "count"
  BY <1>1a DEF Participant
<1>1c. RwInv
  BY <1>1a, <1>1b DEF RwInit, RwInv, Inside, Participant
<1>2. HandTypes /\ HandInv
  BY DEF HandInit, HandTypes, HandInv, Published
<1>3. MapTypes
  BY DEF DemoConstants, MapInit, hashmap_init, MapTypes
<1>4. MapInv
  BY <1>3 DEF DemoConstants, MapInit, hashmap_init, MapInv, OneEntryPerKey
<1>5. QED
  BY <1>1, <1>1c, <1>2, <1>3, <1>4, DemosTypes DEF IInv

LEMMA DemosKeep ==
  ASSUME DemoConstants, IInv,
         RwNext \/ UNCHANGED rwVars,
         HandNext \/ UNCHANGED <<futexVars, barrierVars>>,
         MapNext \/ UNCHANGED mapVars
  PROVE  IInv'
<1>1. (RwTypes /\ HandTypes /\ MapTypes)' /\ (RwInv /\ HandInv /\ MapInv)'
  BY RwStep, HandStep, MapStep, DemosTypes DEF IInv
<1>2. TypeOK'
  BY <1>1 DEF TypeOK, RwTypes, HandTypes, MapTypes, Entry
<1>3. QED
  BY <1>1, <1>2 DEF IInv

LEMMA DemosShow ==
  ASSUME DemoConstants, IInv
  PROVE  TypeOK /\ OneEntryPerKey /\ ReadsAreStable /\ Published /\ NothingLost
<1>1. RwTypes /\ RwInv
  BY DemosTypes DEF IInv
<1>2. ASSUME NEW r \in Reader, rwpc[r] = "count"
      PROVE  seen[r] = shared_counter /\ shared_counter = total_writer_operations
  <2>1. r \in holders /\ r \notin Writer
    BY <1>1, <1>2 DEF DemoConstants, RwInv, Inside, Participant
  <2>2. \A w \in Writer : w \notin holders
    BY <1>1, <2>1 DEF RwInv
  <2>3. \A w \in Writer : rwpc[w] # "count"
    BY <1>1, <2>2 DEF RwInv, Inside, Participant
  <2>4. QED
    BY <1>1, <1>2, <2>3 DEF RwTypes, RwInv, Participant
<1>3. ReadsAreStable
  BY <1>2 DEF ReadsAreStable
<1>4. QED
  BY <1>3, MapFound, DemosTypes DEF IInv, HandInv, MapInv
-----------------------------------------------------------------------------
(* The shared counters *)

CONSTANTS Threads, Updates, Start, Amount

VARIABLES program, round, main, created, locked_by, counter, reg, delta, left, pc, applied

SC == INSTANCE SharedCounter

LEMMA SameCardinality == \A S : SC!Cardinality(S) = Cardinality(S)
BY DEF SC!Cardinality, Cardinality

\* What the programs' parameters are.
CounterConstants ==
  Threads \in Nat /\ Updates \in Nat /\ Start \in Nat /\ Amount \subseteq Nat

\* What the programs' rounds are, and what their updates add.
RoundFacts ==
  /\ SC!Protection \in {"nothing", "mutex", "spin", "atomic"}
  /\ program = "multi_thread_bank" =>
       SC!Protection = "mutex" /\ Len(SC!Rounds[program]) = 1
  /\ SC!Initial \in Nat
  /\ SC!Change \subseteq Int
  /\ program # "multi_thread_bank" => SC!Initial = 0 /\ SC!Change = {1}

LEMMA RoundsOfPrograms ==
  ASSUME CounterConstants, SC!TypeOK
  PROVE  RoundFacts
<1>1. program \in {"mutex", "lock_comparision", "atomics_vs_mutex", "atomic_counter",
                  "multi_thread_bank"}
  BY DEF SC!TypeOK, SC!Rounds
<1>2. \A a \in Amount : a \in Int /\ -a \in Int
  BY DEF CounterConstants
<1>3. SC!Change \subseteq Int
  BY <1>2 DEF SC!Change
<1>4. /\ SC!Initial \in Nat
      /\ program # "multi_thread_bank" => SC!Initial = 0 /\ SC!Change = {1}
  BY DEF CounterConstants, SC!Initial, SC!Change
<1> USE <1>3, <1>4 DEF RoundFacts, SC!TypeOK, SC!Rounds, SC!Protection
<1>5. CASE program = "mutex"
  BY <1>5
<1>6. CASE program = "lock_comparision"
  BY <1>6
<1>7. CASE program = "atomics_vs_mutex"
  BY <1>7
<1>8. CASE program = "atomic_counter"
  BY <1>8
<1>9. CASE program = "multi_thread_bank"
  BY <1>9
<1>10. QED
  BY <1>1, <1>5, <1>6, <1>7, <1>8, <1>9

\* The updates of a round are finitely many.
LEMMA MadeFinite ==
  ASSUME CounterConstants, SC!TypeOK
  PROVE  /\ IsFiniteSet(SC!Made)
         /\ IsFiniteSet(SC!Counting \X (1 .. Updates))
         /\ SC!Cardinality(SC!Counting \X (1 .. Updates)) = Threads * Updates
<1>1. IsFiniteSet(1 .. Updates) /\ SC!Cardinality(1 .. Updates) = Updates
  BY SameCardinality, FS_Interval DEF CounterConstants
<1>2. IsFiniteSet(SC!Counting) /\ SC!Cardinality(SC!Counting) = Threads
  BY SameCardinality, FS_Interval DEF CounterConstants, SC!Counting
<1>3. /\ IsFiniteSet(SC!Counting \X (1 .. Updates))
      /\ SC!Cardinality(SC!Counting \X (1 .. Updates)) = Threads * Updates
  BY <1>1, <1>2, SameCardinality, FS_Product
<1>4. SC!Made \subseteq SC!Counting \X (1 .. Updates)
  BY DEF SC!Made
<1>5. QED
  BY <1>3, <1>4, FS_Subset

\* What depends on the program and the round alone.
LEMMA SameRound ==
  ASSUME CounterConstants, UNCHANGED <<program, round>>
  PROVE  /\ SC!Protection' = SC!Protection
         /\ SC!Initial' = SC!Initial
         /\ SC!Change' = SC!Change
         /\ Len(SC!Rounds[program])' = Len(SC!Rounds[program])
BY DEF SC!Protection, SC!Initial, SC!Change

\* The next round starts from a counter of zero, and only after a round in
\* which every thread has returned.
LEMMA NextRound ==
  ASSUME CounterConstants, SC!IInv, SC!next_round
  PROVE  /\ SC!TypeOK' /\ RoundFacts'
         /\ program # "multi_thread_bank"
         /\ locked_by = 0
         /\ SC!Made' = {} /\ SC!Cardinality(SC!Made') = 0
<1> USE DEF CounterConstants, SC!Counting
<1>0. SC!TypeOK /\ RoundFacts
  BY RoundsOfPrograms DEF SC!IInv
<1>1. program # "multi_thread_bank"
  <2>1. round \in 1 .. Len(SC!Rounds[program]) /\ round < Len(SC!Rounds[program])
    BY <1>0 DEF SC!next_round, SC!TypeOK
  <2>2. program = "multi_thread_bank" => Len(SC!Rounds[program]) = 1
    BY <1>0 DEF RoundFacts
  <2> DEFINE n == Len(SC!Rounds[program])
  <2> HIDE DEF n
  <2>3. ~(n = 1 /\ round \in 1 .. n /\ round < n)
    OBVIOUS
  <2>4. QED
    BY <2>1, <2>2, <2>3 DEF n
<1>2. SC!TypeOK'
  <2>1. SC!Change' = SC!Change
    BY DEF SC!next_round, SC!Change
  <2>2. round + 1 \in 1 .. Len(SC!Rounds[program])
    BY <1>0 DEF SC!next_round, SC!TypeOK
  <2>3. QED
    BY <1>0, <2>1, <2>2 DEF SC!next_round, SC!TypeOK
<1>3. locked_by = 0
  <2>1. CASE SC!Protection \in {"mutex", "spin"}
    <3>1. \A t \in SC!Counting : pc[t] = "loop"
      BY DEF SC!next_round, SC!Joined
    <3>2. \A t \in SC!Counting : locked_by # t
      BY <2>1, <3>1 DEF SC!IInv, SC!Control, SC!Updating
    <3>3. locked_by \in 0 .. Threads
      BY <1>0 DEF SC!TypeOK
    <3>4. QED
      BY <3>2, <3>3
  <2>2. CASE SC!Protection \notin {"mutex", "spin"}
    BY <2>2 DEF SC!IInv, SC!Control
  <2>3. QED
    BY <2>1, <2>2
<1>4. SC!Made' = {}
  BY DEF SC!next_round, SC!Made
<1>5. RoundFacts'
  <2>1. SC!TypeOK' => RoundFacts'
    BY RoundsOfPrograms, PTL
  <2>2. QED
    BY <1>2, <2>1
<1>6. QED
  BY <1>1, <1>2, <1>3, <1>4, <1>5, SameCardinality, FS_EmptySet

\* Every step keeps the types; no balance becomes negative.
LEMMA CounterTypes ==
  ASSUME CounterConstants, SC!IInv, SC!Next
  PROVE  SC!TypeOK'
<1> USE DEF CounterConstants, SC!IInv, SC!TypeOK, SC!Counting, SC!Goto, SC!main_only,
            SC!data, SC!Apply
<1>0. RoundFacts
  BY RoundsOfPrograms
<1>1. ASSUME NEW t \in SC!Counting, SC!worker(t)
      PROVE  SC!TypeOK'
  <2>1. UNCHANGED <<program, round, main, created, counter, reg, left, applied>>
    BY <1>1 DEF SC!worker
  <2>2. delta' \in [SC!Counting -> SC!Change \cup {0}]
    BY <1>1 DEF SC!worker
  <2>3. pc' \in [SC!Counting -> {"none", "barrier", "loop", "add", "load", "store", "unlock"}]
    BY <1>1 DEF SC!worker
  <2>4. locked_by' \in 0 .. Threads
    BY <1>1 DEF SC!worker
  <2>5. QED
    BY <2>1, <2>2, <2>3, <2>4, SameRound
<1>2. ASSUME NEW t \in SC!Counting, SC!fetch_add(t)
      PROVE  SC!TypeOK'
  <2>1. UNCHANGED <<program, round, main, created, locked_by, reg, delta>>
    BY <1>2 DEF SC!fetch_add
  <2>2. delta[t] = 1 /\ left[t] > 0
    BY <1>2, <1>0 DEF SC!fetch_add, RoundFacts, SC!Control
  <2>3. left' \in [SC!Counting -> 0 .. Updates]
    BY <1>2, <2>2 DEF SC!fetch_add
  <2>4. counter' \in Nat /\ applied' \in Int
    BY <1>2, <2>2 DEF SC!fetch_add
  <2>5. pc' \in [SC!Counting -> {"none", "barrier", "loop", "add", "load", "store", "unlock"}]
    BY <1>2 DEF SC!fetch_add
  <2>6. QED
    BY <2>1, <2>3, <2>4, <2>5, SameRound
<1>3. ASSUME NEW t \in SC!Counting, SC!load(t)
      PROVE  SC!TypeOK'
  <2>1. UNCHANGED <<program, round>>
    BY <1>3 DEF SC!load, SC!main_only
  <2>2. QED
    BY <1>3, <1>0, <2>1, SameRound DEF SC!load
<1>4. ASSUME NEW t \in SC!Counting, SC!store(t)
      PROVE  SC!TypeOK'
  <2>1. UNCHANGED <<program, round, main, created, locked_by, reg, delta, left>>
    BY <1>4 DEF SC!store
  <2>2. delta[t] \in Int
    <3>1. delta[t] \in SC!Change \cup {0}
      OBVIOUS
    <3>2. SC!Change \subseteq Int /\ 0 \in Int
      BY <1>0 DEF RoundFacts
    <3>3. QED
      BY <3>1, <3>2, Zenon
  <2>3. counter' \in Nat /\ applied' \in Int
    BY <1>4, <2>2 DEF SC!store
  <2>4. pc' \in [SC!Counting -> {"none", "barrier", "loop", "add", "load", "store", "unlock"}]
    BY <1>4 DEF SC!store
  <2>5. QED
    BY <2>1, <2>3, <2>4, SameRound
<1>5. ASSUME NEW t \in SC!Counting, SC!unlock(t)
      PROVE  SC!TypeOK'
  <2>1. UNCHANGED <<program, round, main, created, counter, reg, delta, applied>>
    BY <1>5 DEF SC!unlock
  <2>2. left[t] > 0
    BY <1>5 DEF SC!unlock, SC!Control
  <2>3. left' \in [SC!Counting -> 0 .. Updates]
    BY <1>5, <2>2 DEF SC!unlock
  <2>4. locked_by' \in 0 .. Threads
    BY <1>5 DEF SC!unlock
  <2>5. pc' \in [SC!Counting -> {"none", "barrier", "loop", "add", "load", "store", "unlock"}]
    BY <1>5 DEF SC!unlock
  <2>6. QED
    BY <2>1, <2>3, <2>4, <2>5, SameRound
<1>6. CASE SC!pthread_create
  <2>1. UNCHANGED <<program, round>>
    BY <1>6 DEF SC!pthread_create, SC!main_only
  <2>2. QED
    BY <1>6, <1>0, <2>1, SameRound DEF SC!pthread_create
<1>7. CASE SC!pthread_create_fails
  <2>1. UNCHANGED <<program, round>>
    BY <1>7 DEF SC!pthread_create_fails, SC!main_only
  <2>2. QED
    BY <1>7, <1>0, <2>1, SameRound DEF SC!pthread_create_fails
<1>8. CASE SC!all_created
  <2>1. UNCHANGED <<program, round>>
    BY <1>8 DEF SC!all_created, SC!main_only
  <2>2. QED
    BY <1>8, <1>0, <2>1, SameRound DEF SC!all_created
<1>9. CASE SC!pthread_barrier_wait
  <2>1. UNCHANGED <<program, round>>
    BY <1>9 DEF SC!pthread_barrier_wait, SC!main_only
  <2>2. QED
    BY <1>9, <1>0, <2>1, SameRound DEF SC!pthread_barrier_wait
<1>10. CASE SC!next_round
  BY <1>10, NextRound
<1>11. CASE SC!main_returns
  <2>1. UNCHANGED <<program, round>>
    BY <1>11 DEF SC!main_returns, SC!main_only
  <2>2. QED
    BY <1>11, <1>0, <2>1, SameRound DEF SC!main_returns
<1>12. QED
  BY <1>1, <1>2, <1>3, <1>4, <1>5, <1>6, <1>7, <1>8, <1>9, <1>10, <1>11
  DEF SC!Next, SC!MainStep, SC!Step

\* The lock is held exactly by the thread that updates, in every round.
LEMMA CounterControl ==
  ASSUME CounterConstants, SC!IInv, SC!Next
  PROVE  SC!Control'
<1> USE DEF CounterConstants, SC!IInv, SC!TypeOK, SC!Counting, SC!Goto, SC!main_only,
            SC!data, SC!Apply,
            SC!Control, SC!Updating
<1>0. RoundFacts
  BY RoundsOfPrograms
<1>1. ASSUME NEW t \in SC!Counting, SC!worker(t)
      PROVE  SC!Control'
  <2>1. UNCHANGED <<program, round, main, created, left>>
    BY <1>1 DEF SC!worker
  <2>2. /\ pc[t] = "loop" /\ left[t] > 0 /\ delta'[t] \in SC!Change
        /\ \A u \in SC!Counting : u # t => delta'[u] = delta[u]
    BY <1>1 DEF SC!worker
  <2>3. SC!Protection' = SC!Protection /\ SC!Change' = SC!Change
    BY <2>1, SameRound
  <2>4. CASE SC!Protection \in {"mutex", "spin"}
    <3>1. locked_by = 0 /\ locked_by' = t /\ pc' = [pc EXCEPT ![t] = "load"]
      BY <1>1, <2>4 DEF SC!worker
    <3>2. \A u \in SC!Counting : pc'[u] = IF u = t THEN "load" ELSE pc[u]
      BY <3>1
    <3>3. \A u \in SC!Counting : locked_by' = u <=> SC!Updating(u)'
      BY <2>4, <3>1, <3>2
    <3>4. ~(program = "lock_comparision" /\ main # "join" /\ main # "done")
      BY <2>2
    <3>5. \A u \in SC!Counting :
            /\ u > created => pc'[u] = "none"
            /\ pc'[u] \notin {"none", "barrier", "loop"} =>
                 left[u] > 0 /\ (pc'[u] # "unlock" => delta'[u] \in SC!Change)
            /\ pc'[u] \in {"none", "barrier"} => left[u] = Updates
            /\ pc'[u] # "add"
      BY <2>2, <2>4, <3>2
    <3>6. QED
      BY <2>1, <2>3, <2>4, <3>3, <3>4, <3>5
  <2>5. CASE SC!Protection = "atomic"
    <3>1. locked_by' = locked_by /\ pc' = [pc EXCEPT ![t] = "add"]
      BY <1>1, <2>5 DEF SC!worker
    <3>2. QED
      BY <2>1, <2>2, <2>3, <2>5, <3>1
  <2>6. CASE SC!Protection = "nothing"
    <3>1. locked_by' = locked_by /\ pc' = [pc EXCEPT ![t] = "load"]
      BY <1>1, <2>6 DEF SC!worker
    <3>2. QED
      BY <2>1, <2>2, <2>3, <2>6, <3>1
  <2>7. QED
    BY <1>0, <2>4, <2>5, <2>6 DEF RoundFacts
<1>2. ASSUME NEW t \in SC!Counting, SC!fetch_add(t)
      PROVE  SC!Control'
  <2>1. UNCHANGED <<program, round>>
    BY <1>2 DEF SC!fetch_add, SC!main_only
  <2>2. QED
    BY <1>2, <1>0, <2>1, SameRound DEF SC!fetch_add, RoundFacts
<1>3. ASSUME NEW t \in SC!Counting, SC!load(t)
      PROVE  SC!Control'
  <2>1. UNCHANGED <<program, round>>
    BY <1>3 DEF SC!load, SC!main_only
  <2>2. QED
    BY <1>3, <1>0, <2>1, SameRound DEF SC!load
<1>4. ASSUME NEW t \in SC!Counting, SC!store(t)
      PROVE  SC!Control'
  <2>1. UNCHANGED <<program, round>>
    BY <1>4 DEF SC!store, SC!main_only
  <2>2. QED
    BY <1>4, <1>0, <2>1, SameRound DEF SC!store, RoundFacts
<1>5. ASSUME NEW t \in SC!Counting, SC!unlock(t)
      PROVE  SC!Control'
  <2>1. UNCHANGED <<program, round>>
    BY <1>5 DEF SC!unlock, SC!main_only
  <2>2. QED
    BY <1>5, <1>0, <2>1, SameRound DEF SC!unlock
<1>6. CASE SC!pthread_create
  <2>1. UNCHANGED <<program, round>>
    BY <1>6 DEF SC!pthread_create, SC!main_only
  <2>2. QED
    BY <1>6, <1>0, <2>1, SameRound DEF SC!pthread_create
<1>7. CASE SC!pthread_create_fails
  <2>1. UNCHANGED <<program, round>>
    BY <1>7 DEF SC!pthread_create_fails, SC!main_only
  <2>2. QED
    BY <1>7, <1>0, <2>1, SameRound DEF SC!pthread_create_fails
<1>8. CASE SC!all_created
  <2>1. UNCHANGED <<program, round>>
    BY <1>8 DEF SC!all_created, SC!main_only
  <2>2. QED
    BY <1>8, <1>0, <2>1, SameRound DEF SC!all_created
<1>9. CASE SC!pthread_barrier_wait
  <2>1. /\ UNCHANGED <<program, round, created, locked_by, counter, reg, delta, left, applied>>
        /\ main = "barrier" /\ main' = "join"
        /\ pc' = [t \in SC!Counting |-> "loop"]
    BY <1>9 DEF SC!pthread_barrier_wait
  <2>2. SC!Protection' = SC!Protection
    BY <2>1, SameRound
  <2>3. created = Threads /\ \A t \in SC!Counting : ~SC!Updating(t)
    BY <2>1
  <2>4. \A t \in SC!Counting : ~(t > created) /\ pc'[t] = "loop"
    BY <2>1, <2>3
  <2>5. SC!Protection \in {"mutex", "spin"} => \A t \in SC!Counting : locked_by' # t
    BY <2>1, <2>3
  <2>6. QED
    BY <2>1, <2>2, <2>3, <2>4, <2>5
<1>10. CASE SC!next_round
  BY <1>10, NextRound DEF SC!next_round, SC!Joined
<1>11. CASE SC!main_returns
  <2>1. UNCHANGED <<program, round>>
    BY <1>11 DEF SC!main_returns, SC!main_only
  <2>2. QED
    BY <1>11, <1>0, <2>1, SameRound DEF SC!main_returns
<1>12. QED
  BY <1>1, <1>2, <1>3, <1>4, <1>5, <1>6, <1>7, <1>8, <1>9, <1>10, <1>11
  DEF SC!Next, SC!MainStep, SC!Step

\* A store or an atomic addition makes one more update, no other step of a
\* round does.
LEMMA MadeStep ==
  ASSUME CounterConstants, SC!IInv, NEW t \in SC!Counting, SC!Step(t)
  PROVE  IF SC!store(t) \/ SC!fetch_add(t)
         THEN /\ left[t] \in 1 .. Updates
              /\ SC!Cardinality(SC!Made') = SC!Cardinality(SC!Made) + 1
         ELSE SC!Made' = SC!Made
<1> USE DEF CounterConstants, SC!IInv, SC!TypeOK, SC!Control, SC!Goto
<1>1. CASE SC!store(t) \/ SC!fetch_add(t)
  <2> DEFINE d == <<t, left[t]>>
  <2>1. left[t] \in 1 .. Updates /\ pc[t] # "unlock"
    <3>1. pc[t] \in {"store", "add"}
      BY <1>1 DEF SC!store, SC!fetch_add
    <3>2. left[t] > 0 /\ left[t] \in 0 .. Updates
      BY <3>1
    <3>3. QED
      BY <3>1, <3>2
  <2>2. d \in SC!Counting \X (1 .. Updates) /\ d \notin SC!Made
    BY <2>1 DEF SC!Made
  <2>3. SC!Made' = SC!Made \cup {d}
    <3>1. CASE SC!store(t)
      BY <2>1, <2>2, <3>1 DEF SC!store, SC!Made
    <3>2. CASE SC!fetch_add(t)
      BY <2>1, <2>2, <3>2 DEF SC!fetch_add, SC!Made
    <3>3. QED
      BY <1>1, <3>1, <3>2
  <2>4. SC!Cardinality(SC!Made') = SC!Cardinality(SC!Made) + 1
    BY <2>2, <2>3, MadeFinite, SameCardinality, FS_AddElement
  <2>5. QED
    BY <1>1, <2>1, <2>4
<1>2. CASE SC!unlock(t)
  <2>1. SC!Made' = SC!Made
    BY <1>2 DEF SC!unlock, SC!Made
  <2>2. ~SC!store(t) /\ ~SC!fetch_add(t)
    BY <1>2 DEF SC!unlock, SC!store, SC!fetch_add
  <2>3. QED
    BY <2>1, <2>2
<1>3. CASE SC!worker(t) \/ SC!load(t)
  <2>1. left' = left /\ \A u \in SC!Counting : pc'[u] = "unlock" <=> pc[u] = "unlock"
    BY <1>3 DEF SC!worker, SC!load
  <2>2. SC!Made' = SC!Made
    BY <2>1 DEF SC!Made
  <2>3. ~SC!store(t) /\ ~SC!fetch_add(t)
    BY <1>3 DEF SC!worker, SC!load, SC!store, SC!fetch_add
  <2>4. QED
    BY <2>2, <2>3
<1>4. QED
  BY <1>1, <1>2, <1>3 DEF SC!Step

\* main's other steps: they leave the round and what was counted alone.
MainFrame ==
  /\ UNCHANGED <<program, round, counter, reg, delta, left, applied>>
  /\ \A t \in SC!Counting : \/ pc'[t] = pc[t]
                            \/ {pc[t], pc'[t]} \subseteq {"none", "barrier", "loop"}

LEMMA MainKeeps ==
  ASSUME CounterConstants, SC!IInv,
         \/ SC!pthread_create \/ SC!pthread_create_fails
         \/ SC!all_created \/ SC!pthread_barrier_wait
         \/ SC!main_returns
  PROVE  MainFrame /\ SC!Made' = SC!Made
<1> USE DEF CounterConstants, SC!IInv, SC!TypeOK, SC!Control, SC!data,
  SC!Counting, MainFrame
<1>1. CASE SC!pthread_create
  BY <1>1 DEF SC!pthread_create, SC!Made
<1>2. CASE SC!pthread_create_fails
  BY <1>2 DEF SC!pthread_create_fails, SC!Made
<1>3. CASE SC!all_created
  BY <1>3 DEF SC!all_created, SC!Made
<1>4. CASE SC!pthread_barrier_wait
  <2>1. /\ UNCHANGED <<program, round, counter, reg, delta, left, applied>>
        /\ \A t \in SC!Counting : pc[t] \in {"none", "barrier"} /\ pc'[t] = "loop"
    BY <1>4 DEF SC!pthread_barrier_wait
  <2>2. SC!Made' = SC!Made
    BY <2>1 DEF SC!Made
  <2>3. QED
    BY <2>1, <2>2
<1>5. CASE SC!main_returns
  BY <1>5 DEF SC!main_returns, SC!Made
<1>6. QED
  BY <1>1, <1>2, <1>3, <1>4, <1>5

\* In a protected round every update is added to the current value.
LEMMA NoneLostStep ==
  ASSUME CounterConstants, SC!IInv, SC!Next
  PROVE  SC!NoneLost'
<1> USE DEF SC!TypeOK, SC!NoneLost, SC!Goto, SC!main_only
<1>0. SC!TypeOK /\ SC!Control /\ SC!NoneLost /\ RoundFacts
  BY RoundsOfPrograms DEF SC!IInv
<1>1. ASSUME NEW t \in SC!Counting, SC!worker(t) \/ SC!unlock(t)
      PROVE  SC!NoneLost'
  <2>1. UNCHANGED <<program, round, counter, applied, reg>>
    BY <1>1 DEF SC!worker, SC!unlock
  <2>2. SC!Made' = SC!Made
    BY <1>1, MadeStep DEF SC!worker, SC!unlock, SC!store, SC!fetch_add, SC!Step
  <2>3. \A u \in SC!Counting : pc'[u] = "store" => pc[u] = "store"
    BY <1>0, <1>1 DEF SC!worker, SC!unlock
  <2>4. QED
    BY <1>0, <2>1, <2>2, <2>3, SameRound
<1>2. ASSUME NEW t \in SC!Counting, SC!load(t)
      PROVE  SC!NoneLost'
  <2>1. UNCHANGED <<program, round, counter, applied>>
    BY <1>2 DEF SC!load
  <2>2. SC!Made' = SC!Made
    BY <1>2, MadeStep DEF SC!load, SC!store, SC!fetch_add, SC!Step
  <2>3. \A u \in SC!Counting :
          pc'[u] = "store" => reg'[u] = counter \/ (pc[u] = "store" /\ reg'[u] = reg[u])
    BY <1>0, <1>2 DEF SC!load
  <2>4. QED
    BY <1>0, <2>1, <2>2, <2>3, SameRound
<1>3. ASSUME NEW t \in SC!Counting, SC!store(t), SC!Protection # "nothing"
      PROVE  SC!NoneLost'
  <2>1. UNCHANGED <<program, round, reg, delta>>
    BY <1>3 DEF SC!store
  <2>2. SC!Cardinality(SC!Made') = SC!Cardinality(SC!Made) + 1
    BY <1>3, MadeStep DEF SC!Step
  <2>3. pc[t] = "store" /\ pc' = [pc EXCEPT ![t] = "unlock"]
    BY <1>3 DEF SC!store
  <2>4. reg[t] = counter /\ delta[t] \in SC!Change
    BY <1>0, <1>3, <2>3 DEF SC!Control
  <2>5. delta[t] \in Int /\ (program # "multi_thread_bank" => delta[t] = 1)
    BY <1>0, <2>4 DEF RoundFacts
  <2>6. \/ counter' = counter + delta[t] /\ applied' = applied + delta[t]
        \/ program = "multi_thread_bank" /\ counter' = counter /\ applied' = applied
    BY <1>0, <1>3, <2>4, <2>5 DEF SC!store, SC!Apply
  <2>7. \A u \in SC!Counting : pc'[u] # "store"
    <3>1. SC!Protection \in {"mutex", "spin"} /\ locked_by = t
      BY <1>0, <1>3, <2>3 DEF RoundFacts, SC!Control, SC!Updating
    <3>2. QED
      BY <1>0, <2>3, <3>1 DEF SC!Control, SC!Updating
  <2>8. counter = SC!Initial + applied /\ SC!Initial \in Nat /\ applied \in Int
    BY <1>0, <1>3 DEF RoundFacts
  <2>9. counter' = SC!Initial + applied'
    BY <2>5, <2>6, <2>8
  <2>10. program # "multi_thread_bank" => counter' = SC!Cardinality(SC!Made')
    BY <1>0, <1>3, <2>2, <2>5, <2>6
  <2>11. QED
    BY <2>1, <2>7, <2>9, <2>10, SameRound
<1>4. ASSUME NEW t \in SC!Counting, SC!fetch_add(t)
      PROVE  SC!NoneLost'
  <2>1. UNCHANGED <<program, round>> /\ pc[t] = "add" /\ pc' = [pc EXCEPT ![t] = "loop"]
    BY <1>4 DEF SC!fetch_add
  <2>2. SC!Cardinality(SC!Made') = SC!Cardinality(SC!Made) + 1
    BY <1>4, MadeStep DEF SC!Step
  <2>3. SC!Protection = "atomic" /\ delta[t] \in SC!Change
    BY <1>0, <2>1 DEF SC!Control
  <2>4. delta[t] = 1
    BY <1>0, <2>3 DEF RoundFacts
  <2>5. counter' = counter + 1 /\ applied' = applied + 1
    BY <1>4, <2>4 DEF SC!fetch_add, SC!Apply
  <2>6. \A u \in SC!Counting : pc'[u] # "store"
    BY <1>0, <2>1, <2>3 DEF SC!Control
  <2>7. counter = SC!Initial + applied /\ SC!Initial \in Nat /\ applied \in Int
    BY <1>0, <2>3 DEF RoundFacts
  <2>8. counter' = SC!Initial + applied'
    BY <2>5, <2>7
  <2>9. program # "multi_thread_bank" => counter' = SC!Cardinality(SC!Made')
    BY <1>0, <2>2, <2>3, <2>5
  <2>10. QED
    BY <2>1, <2>6, <2>8, <2>9, SameRound
<1>5. CASE SC!next_round
  <2>1. /\ counter' = 0 /\ applied' = 0 /\ program' = program
        /\ \A u \in SC!Counting : pc'[u] = "none"
    BY <1>5 DEF SC!next_round
  <2>2. RoundFacts' /\ program # "multi_thread_bank" /\ SC!Cardinality(SC!Made') = 0
    BY <1>5, NextRound
  <2>3. SC!Initial' = 0
    BY <2>1, <2>2 DEF SC!Initial
  <2>4. QED
    BY <2>1, <2>2, <2>3
<1>6. CASE MainFrame /\ SC!Made' = SC!Made
  BY <1>0, <1>6, SameRound DEF MainFrame
<1>7. ASSUME NEW t \in SC!Counting, SC!store(t), SC!Protection = "nothing"
      PROVE  SC!NoneLost'
  BY <1>7, SameRound DEF SC!store
<1>8. QED
  BY <1>1, <1>2, <1>3, <1>4, <1>5, <1>6, <1>7, MainKeeps
  DEF SC!Next, SC!MainStep, SC!Step

\* Without protection a store may overwrite, but never falls below what its
\* thread had seen.
LEMMA SomeKeptStep ==
  ASSUME CounterConstants, SC!IInv, SC!Next
  PROVE  SC!SomeKept'
<1> USE DEF SC!TypeOK, SC!SomeKept, SC!Goto, SC!main_only
<1>0. /\ SC!TypeOK /\ SC!Control /\ SC!SomeKept /\ RoundFacts
      /\ SC!Cardinality(SC!Made) \in Nat
  BY RoundsOfPrograms, MadeFinite, SameCardinality, FS_CardinalityType DEF SC!IInv
<1>1. ASSUME NEW t \in SC!Counting, SC!worker(t) \/ SC!unlock(t)
      PROVE  SC!SomeKept'
  <2>1. UNCHANGED <<program, round, counter, reg>>
    BY <1>1 DEF SC!worker, SC!unlock
  <2>2. SC!Made' = SC!Made
    BY <1>1, MadeStep DEF SC!worker, SC!unlock, SC!store, SC!fetch_add, SC!Step
  <2>3. \A u \in SC!Counting :
          /\ pc'[u] = "store" => pc[u] = "store" /\ left'[u] = left[u]
          /\ left'[u] < Updates \/ pc'[u] = "unlock" => left[u] < Updates \/ pc[u] = "unlock"
          /\ left[u] > 1 \/ (left[u] = 1 /\ pc[u] # "unlock")
               => left'[u] > 1 \/ (left'[u] = 1 /\ pc'[u] # "unlock")
    <3>1. CASE SC!worker(t)
      BY <1>0, <3>1 DEF SC!worker
    <3>2. CASE SC!unlock(t)
      <4>1. /\ pc[t] = "unlock" /\ left[t] \in 0 .. Updates /\ left[t] > 0
            /\ pc' = [pc EXCEPT ![t] = "loop"]
            /\ left' = [left EXCEPT ![t] = left[t] - 1]
        BY <1>0, <3>2 DEF SC!unlock, SC!Control
      <4>2. QED
        BY <1>0, <4>1 DEF CounterConstants
    <3>3. QED
      BY <1>1, <3>1, <3>2
  <2>4. QED
    BY <1>0, <2>1, <2>2, <2>3, SameRound
<1>2. ASSUME NEW t \in SC!Counting, SC!load(t)
      PROVE  SC!SomeKept'
  <2>1. UNCHANGED <<program, round, counter, left>>
    BY <1>2 DEF SC!load
  <2>2. SC!Made' = SC!Made
    BY <1>2, MadeStep DEF SC!load, SC!store, SC!fetch_add, SC!Step
  <2>3. \A u \in SC!Counting :
          /\ pc'[u] = "store" => reg'[u] = counter \/ (pc[u] = "store" /\ reg'[u] = reg[u])
          /\ pc'[u] = "unlock" <=> pc[u] = "unlock"
    BY <1>0, <1>2 DEF SC!load
  <2>4. QED
    BY <1>0, <2>1, <2>2, <2>3, SameRound
<1>3. ASSUME NEW t \in SC!Counting, SC!store(t), SC!Protection = "nothing"
      PROVE  SC!SomeKept'
  <2>1. UNCHANGED <<program, round, reg, left>>
    BY <1>3 DEF SC!store
  <2>2. SC!Cardinality(SC!Made') = SC!Cardinality(SC!Made) + 1 /\ left[t] \in 1 .. Updates
    BY <1>3, MadeStep DEF SC!Step
  <2>3. pc[t] = "store" /\ pc' = [pc EXCEPT ![t] = "unlock"]
    BY <1>3 DEF SC!store
  <2>4. delta[t] = 1 /\ reg[t] \in Nat
    <3>1. delta[t] \in SC!Change
      BY <1>0, <2>3 DEF SC!Control
    <3>2. SC!Change = {1}
      BY <1>0, <1>3 DEF RoundFacts
    <3>3. QED
      BY <1>0, <3>1, <3>2
  <2>5. counter' = reg[t] + 1
    BY <1>3, <2>4 DEF SC!store, SC!Apply
  <2>6. reg[t] <= SC!Cardinality(SC!Made) /\ (left[t] < Updates => reg[t] >= 1)
    BY <1>0, <1>3, <2>3
  <2>7. counter' <= SC!Cardinality(SC!Made') /\ counter' >= 1
    BY <1>0, <2>2, <2>4, <2>5, <2>6
  <2>8. \A u \in SC!Counting :
          /\ pc'[u] = "store" => reg'[u] <= SC!Cardinality(SC!Made')
          /\ left'[u] < Updates /\ pc'[u] = "store" => reg'[u] >= 1
    BY <1>0, <1>3, <2>1, <2>2, <2>3
  <2>9. Updates >= 2 => \/ counter' >= 2
                        \/ \E u \in SC!Counting :
                             left'[u] > 1 \/ (left'[u] = 1 /\ pc'[u] # "unlock")
    <3>1. left[t] = 1 \/ left[t] > 1
      BY <2>2 DEF CounterConstants
    <3>2. left[t] = 1 /\ Updates >= 2 => counter' >= 2
      BY <2>4, <2>5, <2>6 DEF CounterConstants
    <3>3. QED
      BY <2>1, <3>1, <3>2
  <2>10. QED
    BY <2>1, <2>7, <2>8, <2>9, SameRound
<1>4. ASSUME NEW t \in SC!Counting, SC!fetch_add(t)
      PROVE  SC!SomeKept'
  <2>1. UNCHANGED <<program, round>> /\ SC!Protection = "atomic"
    BY <1>0, <1>4 DEF SC!fetch_add, SC!Control
  <2>2. QED
    BY <2>1, SameRound
<1>5. ASSUME NEW t \in SC!Counting, SC!store(t), SC!Protection # "nothing"
      PROVE  SC!SomeKept'
  BY <1>5, SameRound DEF SC!store
<1>6. CASE SC!next_round
  <2>1. counter' = 0 /\ \A u \in SC!Counting : pc'[u] = "none" /\ left'[u] = Updates
    BY <1>6 DEF SC!next_round
  <2>2. SC!Cardinality(SC!Made') = 0
    BY <1>6, NextRound
  <2>3. Threads >= 1 => 1 \in SC!Counting
    BY DEF CounterConstants, SC!Counting
  <2>4. Updates >= 2 /\ Threads >= 1 => \E u \in SC!Counting : left'[u] > 1
    BY <2>1, <2>3 DEF CounterConstants
  <2>5. QED
    BY <2>1, <2>2, <2>4 DEF CounterConstants
<1>7. CASE MainFrame /\ SC!Made' = SC!Made
  <2>1. \A t \in SC!Counting : /\ pc'[t] = "store" <=> pc[t] = "store"
                               /\ pc'[t] = "unlock" <=> pc[t] = "unlock"
    BY <1>7 DEF MainFrame
  <2>2. /\ SC!Protection' = SC!Protection /\ counter' = counter /\ reg' = reg /\ left' = left
        /\ SC!Cardinality(SC!Made') = SC!Cardinality(SC!Made)
    BY <1>7, SameRound DEF MainFrame
  <2>3. (\E t \in SC!Counting : left[t] > 1 \/ (left[t] = 1 /\ pc[t] # "unlock")) =>
        \E t \in SC!Counting : left'[t] > 1 \/ (left'[t] = 1 /\ pc'[t] # "unlock")
    BY <2>1, <2>2
  <2>4. QED
    BY <1>0, <2>1, <2>2, <2>3
<1>8. QED
  BY <1>1, <1>2, <1>3, <1>4, <1>5, <1>6, <1>7, MainKeeps
  DEF SC!Next, SC!MainStep, SC!Step

LEMMA CountersKeep ==
  ASSUME CounterConstants, SC!IInv, SC!Next \/ UNCHANGED SC!vars
  PROVE  SC!IInv'
<1>1. CASE SC!Next
  BY <1>1, CounterTypes, CounterControl, NoneLostStep, SomeKeptStep DEF SC!IInv
<1>2. CASE UNCHANGED SC!vars
  <2> USE DEF SC!vars, SC!IInv
  <2>1. SC!Protection' = SC!Protection /\ SC!Initial' = SC!Initial
        /\ SC!Change' = SC!Change
    BY <1>2, SameRound
  <2>2. SC!TypeOK'
    BY <1>2, <2>1 DEF SC!TypeOK
  <2>3. SC!Control'
    BY <1>2, <2>1 DEF SC!Control, SC!Updating
  <2>4. SC!Made' = SC!Made
    BY <1>2 DEF SC!Made
  <2>5. SC!NoneLost' /\ SC!SomeKept'
    BY <1>2, <2>1, <2>4 DEF SC!NoneLost, SC!SomeKept
  <2>6. QED
    BY <2>2, <2>3, <2>5
<1>3. QED
  BY <1>1, <1>2

LEMMA CountersInit ==
  ASSUME CounterConstants, SC!Init
  PROVE  SC!IInv
<1>1. SC!TypeOK
  <2>1. program \in {"mutex", "lock_comparision", "atomics_vs_mutex", "atomic_counter",
                     "multi_thread_bank"}
    BY DEF SC!Init, SC!Rounds
  <2>2. 1 \in 1 .. Len(SC!Rounds[program])
    BY <2>1 DEF SC!Rounds
  <2>3. SC!Initial \in Nat
    BY DEF CounterConstants, SC!Initial
  <2>4. QED
    BY <2>2, <2>3 DEF CounterConstants, SC!Init, SC!TypeOK
<1>2. RoundFacts
  BY <1>1, RoundsOfPrograms
<1>3. SC!Made = {} /\ SC!Cardinality(SC!Made) = 0
  <2>1. SC!Made = {}
    BY DEF CounterConstants, SC!Init, SC!Made
  <2>2. QED
    BY <2>1, SameCardinality, FS_EmptySet
<1>4. SC!Control
  BY <1>2 DEF CounterConstants, SC!Init, SC!Control, SC!Updating,
    SC!Counting
<1>5. SC!NoneLost
  BY <1>2, <1>3 DEF SC!Init, SC!NoneLost, RoundFacts
<1>6. SC!SomeKept
  <2>1. SC!Protection = "nothing" => counter = 0
    BY <1>2 DEF RoundFacts, SC!Init
  <2>2. Threads >= 1 => 1 \in SC!Counting
    BY DEF CounterConstants, SC!Counting
  <2>3. QED
    BY <1>3, <2>1, <2>2 DEF CounterConstants, SC!Init, SC!SomeKept
<1>7. QED
  BY <1>1, <1>4, <1>5, <1>6 DEF SC!IInv

\* What main prints after the joins.
LEMMA CountersPrinted ==
  ASSUME CounterConstants, SC!IInv
  PROVE  SC!PrintedExact /\ SC!UnprotectedKeepsTwo
<1> SUFFICES ASSUME SC!Joined
             PROVE  SC!PrintedExact /\ SC!UnprotectedKeepsTwo
  BY DEF SC!PrintedExact, SC!UnprotectedKeepsTwo
<1>1. SC!Made = SC!Counting \X (1 .. Updates)
  BY DEF SC!Joined, SC!Made, SC!IInv, SC!TypeOK
<1>2. SC!Cardinality(SC!Made) = Threads * Updates
  BY <1>1, MadeFinite DEF SC!IInv
<1>3. SC!PrintedExact
  BY <1>2 DEF SC!PrintedExact, SC!IInv, SC!NoneLost
<1>4. SC!UnprotectedKeepsTwo
  <2> SUFFICES ASSUME SC!Protection = "nothing", Threads >= 2, Updates >= 2
               PROVE  counter \in 2 .. Threads * Updates
    BY DEF SC!UnprotectedKeepsTwo
  <2>1. counter <= Threads * Updates
    BY <1>2 DEF SC!IInv, SC!SomeKept
  <2>2. \A t \in SC!Counting : ~(left[t] > 1 \/ (left[t] = 1 /\ pc[t] # "unlock"))
    BY DEF SC!Joined
  <2>3. counter >= 2
    BY <2>2 DEF CounterConstants, SC!IInv, SC!SomeKept
  <2>4. counter \in Nat /\ Threads * Updates \in Nat
    BY DEF CounterConstants, SC!IInv, SC!TypeOK
  <2>5. QED
    BY <2>1, <2>3, <2>4
<1>5. QED
  BY <1>3, <1>4
=============================================================================
