-------------------------- MODULE StoreScanProofs --------------------------
(***************************************************************************)
(* Three programs that share nothing.                                      *)
(*                                                                         *)
(* KvStore, for any number of threads, keys and entries: a GET, though it  *)
(* takes no lock, answers a value that was set last or is being set.       *)
(*                                                                         *)
(* ArrayScans: for every array and every width the deque finds all window  *)
(* maxima, and for every array the vote finds the majority.                *)
(*                                                                         *)
(* WalKv, for every list of operations and any number of runs: the log and *)
(* the data agree, whenever a run is cut off.                              *)
(***************************************************************************)
EXTENDS KvStore, ArrayScans, FiniteSetTheorems, TLAPS

\* The loop over the entries finds the key or there is none; which entry it
\* finds does not matter, since no two have one key.
LEMMA PositionFinds ==
  ASSUME KvTypeOK, EntriesCurrent, NEW q
  PROVE  \/ Position(q) = 0 /\ \A n \in 1 .. store_count : store[n].key # q
         \/ Position(q) \in 1 .. store_count /\ store[Position(q)].key = q
<1>1. CASE \E n \in 1 .. store_count : store[n].key = q
  <2>1. PICK n \in 1 .. store_count : store[n].key = q
    BY <1>1
  <2>2. store_count \in Nat
    BY KvAssumption DEF KvTypeOK
  <2>3. \A m \in 1 .. n - 1 : m \in 1 .. store_count /\ m # n
    BY <2>1, <2>2
  <2>4. \A m \in 1 .. n - 1 : store[m].key # q
    BY <2>1, <2>3 DEF EntriesCurrent
  <2>5. QED
    BY <1>1, <2>1, <2>4 DEF Position
<1>2. CASE ~\E n \in 1 .. store_count : store[n].key = q
  BY <1>2 DEF Position
<1>3. QED
  BY <1>1, <1>2

\* A SET arrives: the GETs under way may see its value.
LEMMA ReadSetKeeps ==
  ASSUME KvInv, NEW h \in Handler, NEW q \in Key, NEW v \in Val, read_set(h, q, v)
  PROVE  KvInv'
<1> USE DEF KvInv
<1>1. /\ hpc[h] = "read"
      /\ calls[h] < MaxCalls
      /\ calls' = [calls EXCEPT ![h] = calls[h] + 1]
      /\ req' = [req EXCEPT ![h] = [key |-> q, val |-> v]]
      /\ answers' = [g \in Handler |-> IF Getting(g, q) THEN answers[g] \cup {v, Torn} ELSE answers[g]]
      /\ hpc' = [hpc EXCEPT ![h] = "lock"]
      /\ UNCHANGED <<store, store_count, store_lock, at, answered, current>>
  BY DEF read_set, Goto
<1>2. /\ req'[h] = [key |-> q, val |-> v] /\ hpc'[h] = "lock"
      /\ \A g \in Handler \ {h} : req'[g] = req[g] /\ hpc'[g] = hpc[g]
  BY <1>1 DEF KvTypeOK
<1>3. \A g \in Handler : answers[g] \subseteq answers'[g]
  BY <1>1
<1>4. KvTypeOK'
  <2>1. calls' \in [Handler -> 0 .. MaxCalls]
    BY <1>1, KvAssumption DEF KvTypeOK
  <2>2. answers' \in [Handler -> SUBSET (Val \cup {None, Torn})]
    BY <1>1 DEF KvTypeOK
  <2>3. req' \in [Handler -> [key : Key \cup {None}, val : Val \cup {None}]]
    BY <1>1 DEF KvTypeOK
  <2>4. hpc' \in [Handler -> {"read", "lock", "walk", "copy", "count", "unlock", "get", "print"}]
    BY <1>1 DEF KvTypeOK
  <2>5. QED
    BY <1>1, <2>1, <2>2, <2>3, <2>4 DEF KvTypeOK
<1>5. SetDiscipline'
  BY <1>1, <1>2 DEF SetDiscipline
<1>6. EntriesCurrent'
  BY <1>1, <1>2 DEF EntriesCurrent
<1>7. GetCovered'
  <2> SUFFICES ASSUME NEW g \in Handler
               PROVE  /\ hpc'[g] \in {"get", "print"} =>
                           /\ current[req'[g].key] \in answers'[g]
                           /\ \A f \in Handler : Setting(f, req[g].key)' =>
                                 {req'[f].val, Torn} \subseteq answers'[g]
                      /\ hpc'[g] = "print" =>
                           \/ at[g] = 0 /\ None \in answers'[g]
                           \/ at[g] \in 1 .. store_count /\ store[at[g]].key = req'[g].key
                      /\ hpc'[g] \notin {"get", "print"} /\ answers'[g] # {} =>
                           answered[g] \in answers'[g]
    BY <1>1 DEF GetCovered
  <2>1. CASE g = h
    BY <1>1, <1>2, <2>1 DEF GetCovered, Getting
  <2>2. CASE g # h /\ hpc[g] \in {"get", "print"}
    <3>1. \A f \in Handler \ {h} : Setting(f, req[g].key)' = Setting(f, req[g].key)
      BY <1>2, <2>2 DEF Setting
    <3>2. Setting(h, req[g].key)' => q = req[g].key /\ {v, Torn} \subseteq answers'[g]
      BY <1>1, <1>2, <2>2 DEF Setting, Getting
    <3>3. QED
      BY <1>2, <1>3, <2>2, <3>1, <3>2 DEF GetCovered
  <2>3. CASE g # h /\ hpc[g] \notin {"get", "print"}
    BY <1>1, <1>2, <2>3 DEF GetCovered, Getting
  <2>4. QED
    BY <2>1, <2>2, <2>3
<1>8. QED
  BY <1>4, <1>5, <1>6, <1>7

\* Steps that leave the entries and the copies into them alone.
LEMMA EntriesFrame ==
  ASSUME EntriesCurrent, UNCHANGED <<store, store_count, current>>,
         \A g \in Handler : hpc[g] = "copy" => hpc'[g] = "copy" /\ at'[g] = at[g]
  PROVE  EntriesCurrent'
BY DEF EntriesCurrent

\* Steps of set_value: a GET under way finds what was there, or a value that
\* it may answer.
LEMMA GetFrame ==
  ASSUME KvTypeOK, SetDiscipline, GetCovered, UNCHANGED <<answers, answered>>,
         store_count' \in Nat, store_count <= store_count',
         \A n \in 1 .. store_count : store'[n].key = store[n].key,
         \A g \in Handler :
           /\ hpc'[g] \in {"get", "print"} <=> hpc[g] \in {"get", "print"}
           /\ hpc[g] \in {"get", "print"} => hpc'[g] = hpc[g] /\ at'[g] = at[g]
           /\ req'[g] = req[g]
           /\ hpc'[g] \in {"lock", "walk", "copy", "count"} =>
                hpc[g] \in {"lock", "walk", "copy", "count"},
         \A q \in Key : \/ current'[q] = current[q]
                        \/ \E f \in Handler : Setting(f, q) /\ current'[q] = req[f].val
  PROVE  GetCovered'
<1>1. ASSUME NEW g \in Handler, hpc'[g] \in {"get", "print"}
      PROVE  /\ current'[req'[g].key] \in answers'[g]
             /\ \A f \in Handler : Setting(f, req[g].key)' =>
                   {req'[f].val, Torn} \subseteq answers'[g]
  <2>1. /\ req[g].key \in Key /\ hpc[g] \in {"get", "print"}
        /\ req'[g] = req[g] /\ answers'[g] = answers[g]
    BY <1>1 DEF SetDiscipline
  <2>2. /\ current[req[g].key] \in answers[g]
        /\ \A f \in Handler : Setting(f, req[g].key) => {req[f].val, Torn} \subseteq answers[g]
    BY <2>1 DEF GetCovered
  <2>3. \A f \in Handler : Setting(f, req[g].key)' => Setting(f, req[g].key) /\ req'[f] = req[f]
    BY <2>1 DEF Setting
  <2>4. current'[req[g].key] \in answers[g]
    BY <2>1, <2>2
  <2>5. QED
    BY <2>1, <2>2, <2>3, <2>4
<1>2. ASSUME NEW g \in Handler, hpc'[g] = "print"
      PROVE  \/ at'[g] = 0 /\ None \in answers'[g]
             \/ at'[g] \in 1 .. store_count' /\ store'[at'[g]].key = req'[g].key
  <2>1. hpc[g] = "print" /\ at'[g] = at[g] /\ req'[g] = req[g] /\ answers'[g] = answers[g]
    BY <1>2
  <2>2. \/ at[g] = 0 /\ None \in answers[g]
        \/ at[g] \in 1 .. store_count /\ store[at[g]].key = req[g].key
    BY <2>1 DEF GetCovered
  <2>3. store_count \in Nat
    BY KvAssumption DEF KvTypeOK
  <2>4. at[g] \in 1 .. store_count => at[g] \in 1 .. store_count'
    BY <2>3
  <2>5. QED
    BY <2>1, <2>2, <2>4
<1>3. ASSUME NEW g \in Handler, hpc'[g] \notin {"get", "print"}, answers'[g] # {}
      PROVE  answered'[g] \in answers'[g]
  BY <1>3 DEF GetCovered
<1>4. QED
  BY <1>1, <1>2, <1>3 DEF GetCovered

\* The lock is taken.
LEMMA SetValueKeeps ==
  ASSUME KvInv, NEW h \in Handler, set_value(h)
  PROVE  KvInv'
<1> USE DEF KvInv
<1>1. /\ hpc[h] = "lock" /\ store_lock = None /\ store_lock' = h
      /\ hpc' = [hpc EXCEPT ![h] = "walk"]
      /\ UNCHANGED <<store, store_count, req, at, calls, answers, answered, current>>
  BY DEF set_value, Goto
<1>2. hpc'[h] = "walk" /\ \A g \in Handler \ {h} : hpc'[g] = hpc[g]
  BY <1>1 DEF KvTypeOK
<1>3. KvTypeOK'
  BY <1>1 DEF KvTypeOK
<1>4. SetDiscipline'
  <2>1. \A g \in Handler : hpc[g] \notin {"walk", "copy", "count", "unlock"}
    BY <1>1, KvAssumption DEF SetDiscipline
  <2>2. QED
    BY <1>1, <1>2, <2>1 DEF SetDiscipline
<1>5. EntriesCurrent'
  BY <1>1, <1>2, EntriesFrame
<1>6. GetCovered'
  <2>1. store_count \in Nat
    BY KvAssumption DEF KvTypeOK
  <2>2. QED
    BY <1>1, <1>2, <2>1, GetFrame
<1>7. QED
  BY <1>3, <1>4, <1>5, <1>6

\* The lock is given back.
LEMMA UnlockKeeps ==
  ASSUME KvInv, NEW h \in Handler, unlock(h)
  PROVE  KvInv'
<1> USE DEF KvInv
<1>1. /\ hpc[h] = "unlock" /\ store_lock' = None
      /\ hpc' = [hpc EXCEPT ![h] = "read"]
      /\ UNCHANGED <<store, store_count, req, at, calls, answers, answered, current>>
  BY DEF unlock, Goto
<1>2. hpc'[h] = "read" /\ \A g \in Handler \ {h} : hpc'[g] = hpc[g]
  BY <1>1 DEF KvTypeOK
<1>3. KvTypeOK'
  BY <1>1 DEF KvTypeOK
<1>4. SetDiscipline'
  <2>1. \A g \in Handler \ {h} : hpc[g] \notin {"walk", "copy", "count", "unlock"}
    BY <1>1 DEF SetDiscipline
  <2>2. QED
    BY <1>1, <1>2, <2>1, KvAssumption DEF SetDiscipline
<1>5. EntriesCurrent'
  BY <1>1, <1>2, EntriesFrame
<1>6. GetCovered'
  <2>1. store_count \in Nat
    BY KvAssumption DEF KvTypeOK
  <2>2. QED
    BY <1>1, <1>2, <2>1, GetFrame
<1>7. QED
  BY <1>3, <1>4, <1>5, <1>6

\* The entry is found and overwritten, or a new one written behind the last.
LEMMA WalkKeeps ==
  ASSUME KvInv, NEW h \in Handler, walk(h)
  PROVE  KvInv'
<1> USE DEF KvInv
<1>1. /\ hpc[h] = "walk"
      /\ UNCHANGED <<store_count, store_lock, req, calls, answers, answered, current>>
  BY DEF walk
<1>2. store_count \in Nat /\ store_count <= MAX_ITEMS /\ MAX_ITEMS \in Nat
  BY KvAssumption DEF KvTypeOK
<1>3. req[h] \in [key : Key, val : Val]
  BY <1>1 DEF KvTypeOK, SetDiscipline
<1>4. \A g \in Handler \ {h} : hpc[g] \notin {"walk", "copy", "count", "unlock"}
  BY <1>1 DEF SetDiscipline
<1> DEFINE n == Position(req[h].key)
<1>5. CASE n # 0
  <2>1. /\ store' = [store EXCEPT ![n].val = Torn]
        /\ at' = [at EXCEPT ![h] = n]
        /\ hpc' = [hpc EXCEPT ![h] = "copy"]
    BY <1>5 DEF walk, Goto
  <2>2. n \in 1 .. store_count /\ store[n].key = req[h].key
    BY <1>5, PositionFinds
  <2> HIDE DEF n
  <2>3. n \in 1 .. MAX_ITEMS
    BY <1>2, <2>2
  <2>4. /\ hpc'[h] = "copy" /\ at'[h] = n
        /\ \A g \in Handler \ {h} : hpc'[g] = hpc[g] /\ at'[g] = at[g]
    BY <2>1 DEF KvTypeOK
  <2>5. /\ store'[n] = [key |-> store[n].key, val |-> Torn]
        /\ \A m \in 1 .. MAX_ITEMS \ {n} : store'[m] = store[m]
    BY <2>1, <2>3 DEF KvTypeOK
  <2>6. \A m \in 1 .. store_count : m \in 1 .. MAX_ITEMS /\ store'[m].key = store[m].key
    BY <1>2, <2>5
  <2>7. KvTypeOK'
    <3>1. store' \in [1 .. MAX_ITEMS -> [key : Key \cup {None}, val : Val \cup {None, Torn}]]
      BY <2>1, <2>3 DEF KvTypeOK
    <3>2. at' \in [Handler -> 0 .. MAX_ITEMS]
      BY <1>2, <2>1, <2>3 DEF KvTypeOK
    <3>3. hpc' \in [Handler -> {"read", "lock", "walk", "copy", "count", "unlock", "get", "print"}]
      BY <2>1 DEF KvTypeOK
    <3>4. QED
      BY <1>1, <3>1, <3>2, <3>3 DEF KvTypeOK
  <2>8. SetDiscipline'
    BY <1>1, <1>3, <1>4, <2>2, <2>4, <2>6 DEF SetDiscipline
  <2>9. EntriesCurrent'
    <3>1. \A m \in 1 .. store_count :
            \/ store'[m].val = current[store[m].key]
            \/ store'[m].val = Torn /\ hpc'[h] = "copy" /\ at'[h] = m
      <4>1. \A m \in 1 .. store_count : m # n => store'[m] = store[m]
        BY <2>5, <2>6
      <4>2. \A m \in 1 .. store_count : store[m].val = current[store[m].key]
        BY <1>1, <1>4 DEF EntriesCurrent
      <4>3. QED
        BY <2>4, <2>5, <4>1, <4>2
    <3>2. QED
      BY <1>1, <2>6, <3>1 DEF EntriesCurrent
  <2>10. GetCovered'
    BY <1>1, <1>2, <2>4, <2>6, GetFrame
  <2>11. QED
    BY <2>7, <2>8, <2>9, <2>10
<1>6. CASE n = 0 /\ store_count < MAX_ITEMS
  <2>1. /\ store' = [store EXCEPT ![store_count + 1] = req[h]]
        /\ hpc' = [hpc EXCEPT ![h] = "count"]
        /\ UNCHANGED at
    BY <1>2, <1>6 DEF walk, Goto
  <2>2. \A m \in 1 .. store_count : store[m].key # req[h].key
    BY <1>6, PositionFinds
  <2> HIDE DEF n
  <2>3. store_count + 1 \in 1 .. MAX_ITEMS
    BY <1>2, <1>6
  <2>4. hpc'[h] = "count" /\ \A g \in Handler \ {h} : hpc'[g] = hpc[g]
    BY <2>1 DEF KvTypeOK
  <2>5. store'[store_count + 1] = req[h]
    BY <2>1, <2>3 DEF KvTypeOK
  <2>6. \A m \in 1 .. store_count : store'[m] = store[m]
    <3>1. \A m \in 1 .. store_count : m \in 1 .. MAX_ITEMS /\ m # store_count + 1
      BY <1>2
    <3>2. QED
      BY <2>1, <3>1 DEF KvTypeOK
  <2>7. KvTypeOK'
    BY <1>1, <1>3, <2>1, <2>3 DEF KvTypeOK
  <2>8. SetDiscipline'
    BY <1>1, <1>3, <1>4, <1>6, <2>1, <2>2, <2>4, <2>5, <2>6 DEF SetDiscipline
  <2>9. EntriesCurrent'
    BY <1>1, <1>4, <2>4, <2>6 DEF EntriesCurrent
  <2>10. GetCovered'
    BY <1>1, <1>2, <2>1, <2>4, <2>6, GetFrame
  <2>11. QED
    BY <2>7, <2>8, <2>9, <2>10
<1>7. CASE n = 0 /\ store_count = MAX_ITEMS
  <2>1. hpc' = [hpc EXCEPT ![h] = "unlock"] /\ UNCHANGED <<store, at>>
    BY <1>2, <1>7 DEF walk, Goto
  <2> HIDE DEF n
  <2>2. hpc'[h] = "unlock" /\ \A g \in Handler \ {h} : hpc'[g] = hpc[g]
    BY <2>1 DEF KvTypeOK
  <2>3. KvTypeOK'
    BY <1>1, <2>1 DEF KvTypeOK
  <2>4. SetDiscipline'
    BY <1>1, <1>4, <2>1, <2>2 DEF SetDiscipline
  <2>5. EntriesCurrent'
    BY <1>1, <2>1, <2>2, EntriesFrame
  <2>6. GetCovered'
    BY <1>1, <1>2, <2>1, <2>2, GetFrame
  <2>7. QED
    BY <2>3, <2>4, <2>5, <2>6
<1>8. QED
  BY <1>2, <1>5, <1>6, <1>7

\* The copy is complete, and the entry holds what is now the last value set.
LEMMA CopyKeeps ==
  ASSUME KvInv, NEW h \in Handler, copy(h)
  PROVE  KvInv'
<1> USE DEF KvInv
<1>1. /\ hpc[h] = "copy"
      /\ store' = [store EXCEPT ![at[h]].val = req[h].val]
      /\ current' = [current EXCEPT ![req[h].key] = req[h].val]
      /\ hpc' = [hpc EXCEPT ![h] = "unlock"]
      /\ UNCHANGED <<store_count, store_lock, req, at, calls, answers, answered>>
  BY DEF copy, Goto
<1>2. store_count \in Nat /\ store_count <= MAX_ITEMS /\ MAX_ITEMS \in Nat
  BY KvAssumption DEF KvTypeOK
<1>3. /\ req[h].key \in Key /\ req[h].val \in Val
      /\ at[h] \in 1 .. store_count /\ store[at[h]].key = req[h].key
  BY <1>1 DEF SetDiscipline
<1> DEFINE n == at[h]
           q == req[h].key
           v == req[h].val
<1>4. \A g \in Handler \ {h} : hpc[g] \notin {"walk", "copy", "count", "unlock"}
  BY <1>1 DEF SetDiscipline
<1>5. hpc'[h] = "unlock" /\ \A g \in Handler \ {h} : hpc'[g] = hpc[g]
  BY <1>1 DEF KvTypeOK
<1>6. n \in 1 .. MAX_ITEMS /\ \A m \in 1 .. store_count : m \in 1 .. MAX_ITEMS
  BY <1>2, <1>3
<1>7. /\ store'[n] = [key |-> store[n].key, val |-> v]
      /\ \A m \in 1 .. store_count : m # n => store'[m] = store[m]
  BY <1>1, <1>6 DEF KvTypeOK
<1>8. current'[q] = v /\ \A j \in Key \ {q} : current'[j] = current[j]
  BY <1>1, <1>3 DEF KvTypeOK
<1>9. \A m \in 1 .. store_count : store'[m].key = store[m].key
  BY <1>7
<1>10. KvTypeOK'
  <2>1. store' \in [1 .. MAX_ITEMS -> [key : Key \cup {None}, val : Val \cup {None, Torn}]]
    <3>1. [store[n] EXCEPT !.val = v] \in [key : Key \cup {None}, val : Val \cup {None, Torn}]
      BY <1>3, <1>6 DEF KvTypeOK
    <3>2. store' = [store EXCEPT ![n] = [store[n] EXCEPT !.val = v]]
      BY <1>1
    <3>3. QED
      BY <1>6, <3>1, <3>2 DEF KvTypeOK
  <2>2. current' \in [Key -> Val \cup {None}]
    BY <1>1, <1>3 DEF KvTypeOK
  <2>3. hpc' \in [Handler -> {"read", "lock", "walk", "copy", "count", "unlock", "get", "print"}]
    BY <1>1 DEF KvTypeOK
  <2>4. QED
    BY <1>1, <2>1, <2>2, <2>3 DEF KvTypeOK
<1>11. SetDiscipline'
  BY <1>1, <1>4, <1>5 DEF SetDiscipline
<1>12. EntriesCurrent'
  <2>1. \A m \in 1 .. store_count : m # n => store[m].key \in Key \ {q}
    BY <1>3 DEF EntriesCurrent
  <2>2. \A m \in 1 .. store_count : m # n => store[m].val = current[store[m].key]
    BY <1>4 DEF EntriesCurrent
  <2>3. \A m \in 1 .. store_count : store'[m].val = current'[store'[m].key]
    BY <1>3, <1>7, <1>8, <2>1, <2>2
  <2>4. \A j \in Key : current'[j] # None => \E m \in 1 .. store_count : store'[m].key = j
    BY <1>3, <1>8, <1>9 DEF EntriesCurrent
  <2>5. QED
    BY <1>1, <1>9, <2>3, <2>4 DEF EntriesCurrent
<1>13. GetCovered'
  <2>1. Setting(h, q)
    BY <1>1 DEF Setting
  <2>2. QED
    BY <1>1, <1>2, <1>5, <1>8, <1>9, <2>1, GetFrame
<1>14. QED
  BY <1>10, <1>11, <1>12, <1>13

\* store_count++ publishes an entry with a new key and the last value set.
LEMMA CountKeeps ==
  ASSUME KvInv, NEW h \in Handler, count(h)
  PROVE  KvInv'
<1> USE DEF KvInv
<1>1. /\ hpc[h] = "count"
      /\ store_count' = store_count + 1
      /\ current' = [current EXCEPT ![req[h].key] = req[h].val]
      /\ hpc' = [hpc EXCEPT ![h] = "unlock"]
      /\ UNCHANGED <<store, store_lock, req, at, calls, answers, answered>>
  BY DEF count, Goto
<1>2. store_count \in Nat /\ store_count < MAX_ITEMS /\ MAX_ITEMS \in Nat
  BY <1>1, KvAssumption DEF KvTypeOK, SetDiscipline
<1>3. /\ req[h].key \in Key /\ req[h].val \in Val
      /\ store[store_count + 1] = req[h]
      /\ \A n \in 1 .. store_count : store[n].key # req[h].key
  BY <1>1 DEF SetDiscipline
<1> DEFINE q == req[h].key
           v == req[h].val
<1>4. \A g \in Handler \ {h} : hpc[g] \notin {"walk", "copy", "count", "unlock"}
  BY <1>1 DEF SetDiscipline
<1>5. hpc'[h] = "unlock" /\ \A g \in Handler \ {h} : hpc'[g] = hpc[g]
  BY <1>1 DEF KvTypeOK
<1>6. current'[q] = v /\ \A j \in Key \ {q} : current'[j] = current[j]
  BY <1>1, <1>3 DEF KvTypeOK
<1>7. /\ store_count' \in Nat /\ store_count <= store_count' /\ store_count' \in 0 .. MAX_ITEMS
      /\ \A n \in 1 .. store_count' : n \in 1 .. store_count \/ n = store_count + 1
      /\ \A n \in 1 .. store_count : n \in 1 .. store_count' /\ n # store_count + 1
      /\ store_count + 1 \in 1 .. store_count'
  BY <1>1, <1>2
<1>8. KvTypeOK'
  <2>1. current' \in [Key -> Val \cup {None}]
    BY <1>1, <1>3 DEF KvTypeOK
  <2>2. hpc' \in [Handler -> {"read", "lock", "walk", "copy", "count", "unlock", "get", "print"}]
    BY <1>1 DEF KvTypeOK
  <2>3. QED
    BY <1>1, <1>7, <2>1, <2>2 DEF KvTypeOK
<1>9. SetDiscipline'
  BY <1>1, <1>4, <1>5 DEF SetDiscipline
<1>10. EntriesCurrent'
  <2>1. \A n \in 1 .. store_count : store[n].key \in Key \ {q} /\ store[n].val = current[store[n].key]
    BY <1>1, <1>3, <1>4 DEF EntriesCurrent
  <2>2. \A n \in 1 .. store_count' : store[n].key \in Key /\ store[n].val = current'[store[n].key]
    BY <1>3, <1>6, <1>7, <2>1
  <2>3. \A m, n \in 1 .. store_count' : store[m].key = store[n].key => m = n
    BY <1>3, <1>7, <2>1 DEF EntriesCurrent
  <2>4. \A j \in Key : current'[j] # None => \E n \in 1 .. store_count' : store[n].key = j
    BY <1>3, <1>6, <1>7 DEF EntriesCurrent
  <2>5. QED
    BY <1>1, <2>2, <2>3, <2>4 DEF EntriesCurrent
<1>11. GetCovered'
  <2>1. Setting(h, q)
    BY <1>1 DEF Setting
  <2>2. QED
    BY <1>1, <1>5, <1>6, <1>7, <2>1, GetFrame
<1>12. QED
  BY <1>8, <1>9, <1>10, <1>11

\* A GET arrives: it may answer what was last set, or what is being set.
LEMMA ReadGetKeeps ==
  ASSUME KvInv, NEW h \in Handler, NEW q \in Key, read_get(h, q)
  PROVE  KvInv'
<1> USE DEF KvInv
<1> DEFINE a == {current[q]} \cup UNION {{req[g].val, Torn} : g \in {f \in Handler : Setting(f, q)}}
<1>1. /\ hpc[h] = "read" /\ calls[h] < MaxCalls
      /\ calls' = [calls EXCEPT ![h] = calls[h] + 1]
      /\ req' = [req EXCEPT ![h] = [key |-> q, val |-> None]]
      /\ answers' = [answers EXCEPT ![h] = a]
      /\ hpc' = [hpc EXCEPT ![h] = "get"]
      /\ UNCHANGED <<store, store_count, store_lock, at, answered, current>>
  BY DEF read_get, Goto
<1>2. /\ current[q] \in a
      /\ \A g \in Handler : Setting(g, q) => {req[g].val, Torn} \subseteq a
      /\ a \subseteq Val \cup {None, Torn}
  BY DEF KvTypeOK
<1> HIDE DEF a
<1>3. /\ req'[h] = [key |-> q, val |-> None] /\ hpc'[h] = "get" /\ answers'[h] = a
      /\ \A g \in Handler \ {h} :
           req'[g] = req[g] /\ hpc'[g] = hpc[g] /\ answers'[g] = answers[g]
  BY <1>1 DEF KvTypeOK
<1>4. KvTypeOK'
  <2>1. calls' \in [Handler -> 0 .. MaxCalls]
    BY <1>1, KvAssumption DEF KvTypeOK
  <2>2. answers' \in [Handler -> SUBSET (Val \cup {None, Torn})]
    BY <1>1, <1>2 DEF KvTypeOK
  <2>3. req' \in [Handler -> [key : Key \cup {None}, val : Val \cup {None}]]
    BY <1>1 DEF KvTypeOK
  <2>4. hpc' \in [Handler -> {"read", "lock", "walk", "copy", "count", "unlock", "get", "print"}]
    BY <1>1 DEF KvTypeOK
  <2>5. QED
    BY <1>1, <2>1, <2>2, <2>3, <2>4 DEF KvTypeOK
<1>5. SetDiscipline'
  BY <1>1, <1>3 DEF SetDiscipline
<1>6. EntriesCurrent'
  BY <1>1, <1>3, EntriesFrame
<1>7. GetCovered'
  <2>1. \A f \in Handler : \A j : (hpc'[f] \in {"lock", "walk", "copy", "count"} /\ req'[f].key = j)
                                  => Setting(f, j) /\ req'[f] = req[f]
    BY <1>3 DEF Setting
  <2>2. \A g \in Handler \ {h} : GetCovered =>
          /\ hpc[g] \in {"get", "print"} =>
               /\ current[req[g].key] \in answers[g]
               /\ \A f \in Handler : Setting(f, req[g].key) => {req[f].val, Torn} \subseteq answers[g]
          /\ hpc[g] = "print" =>
               \/ at[g] = 0 /\ None \in answers[g]
               \/ at[g] \in 1 .. store_count /\ store[at[g]].key = req[g].key
          /\ hpc[g] \notin {"get", "print"} /\ answers[g] # {} => answered[g] \in answers[g]
    BY DEF GetCovered
  <2>3. QED
    BY <1>1, <1>2, <1>3, <2>1, <2>2 DEF GetCovered, Setting
<1>8. QED
  BY <1>4, <1>5, <1>6, <1>7

\* get_value finds the entry, or there is none and nothing was set.
LEMMA GetValueKeeps ==
  ASSUME KvInv, NEW h \in Handler, get_value(h)
  PROVE  KvInv'
<1> USE DEF KvInv
<1> DEFINE n == Position(req[h].key)
<1>1. /\ hpc[h] = "get" /\ at' = [at EXCEPT ![h] = n]
      /\ hpc' = [hpc EXCEPT ![h] = "print"]
      /\ UNCHANGED <<store, store_count, store_lock, req, calls, answers, answered, current>>
  BY DEF get_value, Goto
<1>2. req[h].key \in Key /\ current[req[h].key] \in answers[h]
  BY <1>1 DEF SetDiscipline, GetCovered
<1>3. \/ n = 0 /\ None \in answers[h]
      \/ n \in 1 .. store_count /\ store[n].key = req[h].key
  <2>1. n = 0 /\ (\A m \in 1 .. store_count : store[m].key # req[h].key) =>
          current[req[h].key] = None
    BY <1>2 DEF EntriesCurrent
  <2>2. QED
    BY <1>2, <2>1, PositionFinds
<1> HIDE DEF n
<1>4. n \in 0 .. MAX_ITEMS
  <2>1. store_count \in 0 .. MAX_ITEMS
    BY DEF KvTypeOK
  <2>2. QED
    BY <1>3, <2>1, KvAssumption
<1>5. /\ hpc'[h] = "print" /\ at'[h] = n
      /\ \A g \in Handler \ {h} : hpc'[g] = hpc[g] /\ at'[g] = at[g]
  BY <1>1 DEF KvTypeOK
<1>6. KvTypeOK'
  BY <1>1, <1>4 DEF KvTypeOK
<1>7. SetDiscipline'
  BY <1>1, <1>5 DEF SetDiscipline
<1>8. EntriesCurrent'
  BY <1>1, <1>5, EntriesFrame
<1>9. GetCovered'
  <2>1. \A f \in Handler : \A q : Setting(f, q)' => Setting(f, q)
    BY <1>1, <1>5 DEF Setting
  <2>2. QED
    BY <1>1, <1>3, <1>5 DEF GetCovered, Setting
<1>10. QED
  BY <1>6, <1>7, <1>8, <1>9

\* The value is printed: what was last set, or the mixture of a SET that the
\* GET overlaps.
LEMMA PrintKeeps ==
  ASSUME KvInv, NEW h \in Handler, print(h)
  PROVE  KvInv'
<1> USE DEF KvInv
<1> DEFINE x == IF at[h] = 0 THEN None ELSE store[at[h]].val
<1>1. /\ hpc[h] = "print" /\ answered' = [answered EXCEPT ![h] = x]
      /\ hpc' = [hpc EXCEPT ![h] = "read"]
      /\ UNCHANGED <<store, store_count, store_lock, req, at, calls, answers, current>>
  BY DEF print, Goto
<1>2. store_count \in Nat /\ \A n \in 1 .. store_count : n # 0 /\ n \in 1 .. MAX_ITEMS
  BY KvAssumption DEF KvTypeOK
<1>3. x \in answers[h]
  <2>1. CASE at[h] = 0 /\ None \in answers[h]
    BY <2>1
  <2>2. CASE at[h] \in 1 .. store_count /\ store[at[h]].key = req[h].key
    <3>1. current[req[h].key] \in answers[h]
      BY <1>1 DEF GetCovered
    <3>2. CASE store[at[h]].val = current[req[h].key]
      BY <1>2, <2>2, <3>1, <3>2
    <3>3. ASSUME NEW g \in Handler, hpc[g] = "copy", at[g] = at[h], store[at[h]].val = Torn
          PROVE  x \in answers[h]
      <4>1. Setting(g, req[h].key)
        BY <2>2, <3>3 DEF Setting, SetDiscipline
      <4>2. Torn \in answers[h]
        BY <1>1, <4>1 DEF GetCovered
      <4>3. QED
        BY <1>2, <2>2, <3>3, <4>2
    <3>4. QED
      BY <2>2, <3>2, <3>3 DEF EntriesCurrent
  <2>3. QED
    BY <1>1, <2>1, <2>2 DEF GetCovered
<1> HIDE DEF x
<1>4. /\ hpc'[h] = "read" /\ answered'[h] = x
      /\ \A g \in Handler \ {h} : hpc'[g] = hpc[g] /\ answered'[g] = answered[g]
  BY <1>1 DEF KvTypeOK
<1>5. KvTypeOK'
  <2>1. x \in Val \cup {None, Torn}
    BY <1>3 DEF KvTypeOK
  <2>2. QED
    BY <1>1, <2>1 DEF KvTypeOK
<1>6. SetDiscipline'
  BY <1>1, <1>4 DEF SetDiscipline
<1>7. EntriesCurrent'
  BY <1>1, <1>4, EntriesFrame
<1>8. GetCovered'
  BY <1>1, <1>3, <1>4 DEF GetCovered, Setting
<1>9. QED
  BY <1>5, <1>6, <1>7, <1>8

LEMMA KvInitially == KvInit => KvInv
<1> SUFFICES ASSUME KvInit PROVE KvInv
  OBVIOUS
<1>1. KvTypeOK
  BY KvAssumption DEF KvInit, KvTypeOK, Blank
<1>2. SetDiscipline /\ GetCovered
  BY KvAssumption DEF KvInit, SetDiscipline, GetCovered
<1>3. EntriesCurrent
  BY DEF KvInit, EntriesCurrent
<1>4. QED
  BY <1>1, <1>2, <1>3 DEF KvInv

LEMMA KvKeeps ==
  ASSUME KvInv, [KvNext]_kvVars
  PROVE  KvInv'
<1>1. CASE UNCHANGED kvVars
  BY <1>1 DEF kvVars, KvInv, KvTypeOK, SetDiscipline, EntriesCurrent, GetCovered, Setting
<1>2. ASSUME NEW h \in Handler, client_handler(h)
      PROVE  KvInv'
  BY <1>2, ReadGetKeeps, ReadSetKeeps, SetValueKeeps, WalkKeeps, CopyKeeps, CountKeeps,
     UnlockKeeps, GetValueKeeps, PrintKeeps DEF client_handler
<1>3. QED
  BY <1>1, <1>2 DEF KvNext

\* uds_kv_server_perf_top.c: a GET answers the last value set or one being
\* set, whatever set_value does meanwhile, and a key has one entry with the
\* value last set.
THEOREM StoreIsRegularHolds == KvSpec => []StoreIsRegular
<1>1. KvInv => StoreIsRegular
  <2> SUFFICES ASSUME KvInv PROVE StoreIsRegular
    OBVIOUS
  <2>1. ReadsAreRegular
    BY DEF KvInv, GetCovered, ReadsAreRegular
  <2>2. KeysUnique
    <3>1. store_lock = None => \A h \in Handler : hpc[h] # "copy"
      BY KvAssumption DEF KvInv, SetDiscipline
    <3>2. QED
      BY <3>1 DEF KvInv, EntriesCurrent, KeysUnique
  <2>3. QED
    BY <2>1, <2>2 DEF KvInv, StoreIsRegular
<1>2. QED
  BY <1>1, KvInitially, KvKeeps, PTL DEF KvSpec

-----------------------------------------------------------------------------
(* The array scans *)

\* A non-empty set of indices has a first one: the search of
\* majority_elem_brute_force.c stops there.
LEMMA FirstIndex ==
  ASSUME NEW S \in SUBSET Nat, S # {}
  PROVE  \E x \in S : \A y \in S : x <= y
<1> DEFINE R == {ss \in Nat \X Nat : ss[1] < ss[2]}
<1>1. IsWellFoundedOn(R, Nat)
  BY NatLessThanWellFounded, Zenon DEF OpToRel
<1>2. PICK x \in S : \A y \in S : ~(<<y, x>> \in R)
  BY <1>1, WFMin, Zenon
<1>3. ASSUME NEW y \in S
      PROVE  x <= y
  <2>1. x \in Nat /\ y \in Nat
    OBVIOUS
  <2>2. y < x => <<y, x>> \in R
    BY <2>1
  <2>3. QED
    BY <1>2, <2>1, <2>2
<1>4. QED
  BY <1>3

\* One more element is counted or not.
LEMMA OccursStep ==
  ASSUME ScanTypeOK, NEW v \in Int, NEW m \in Nat
  PROVE  /\ Occurs(v, m) \in Nat
         /\ Occurs(v, m + 1) = Occurs(v, m) + (IF nums[m] = v THEN 1 ELSE 0)
<1> DEFINE S == {j \in 0 .. m - 1 : nums[j] = v}
           T == {j \in 0 .. m : nums[j] = v}
<1>1. IsFiniteSet(S) /\ Cardinality(S) \in Nat
  <2>1. IsFiniteSet(0 .. m - 1)
    BY FS_Interval
  <2>2. S \subseteq 0 .. m - 1
    OBVIOUS
  <2>3. IsFiniteSet(S)
    BY <2>1, <2>2, FS_Subset
  <2>4. QED
    BY <2>3, FS_CardinalityType
<1>2. m + 1 - 1 = m
  OBVIOUS
<1>3. Occurs(v, m) = Cardinality(S) /\ Occurs(v, m + 1) = Cardinality(T)
  BY <1>2 DEF Occurs
<1>4. CASE nums[m] = v
  <2>1. T = S \cup {m} /\ m \notin S
    BY <1>4
  <2>2. Cardinality(T) = Cardinality(S) + 1
    BY <1>1, <2>1, FS_AddElement
  <2>3. QED
    BY <1>1, <1>3, <1>4, <2>2
<1>5. CASE nums[m] # v
  <2>1. T = S
    BY <1>5
  <2>2. Cardinality(T) = Cardinality(S)
    BY <2>1, Zenon
  <2> HIDE DEF S, T
  <2>3. QED
    BY <1>1, <1>3, <1>5, <2>2
<1>6. QED
  BY <1>4, <1>5

\* A step of the vote keeps the bounds on the occurrences.
LEMMA VoteStep ==
  ASSUME ScanInv, vote
  PROVE  ScanInv'
<1>1. /\ scan = "vote" /\ scanPc = "next" /\ i \in Nat /\ i < size /\ size \in Nat
      /\ nums[i] \in Int /\ freq \in Nat /\ ans \in Int
      /\ \A v \in Int : 2 * Occurs(v, i) <= IF v = ans THEN i + freq ELSE i - freq
  BY DEF ScanInv, ScanTypeOK, VoteInv, vote, Index
<1>2. ans' \in Int /\ freq' \in Nat /\ i' = i + 1
  BY <1>1 DEF vote
<1>3. ScanTypeOK'
  BY <1>1, <1>2 DEF ScanInv, ScanTypeOK, vote, input, dequeVars, Index
<1>4. DequeInv'
  BY <1>1 DEF DequeInv, vote, input
<1>5. ASSUME NEW v \in Int
      PROVE  2 * Occurs(v, i + 1) <= IF v = ans' THEN i + 1 + freq' ELSE i + 1 - freq'
  <2>1. /\ Occurs(v, i) \in Nat
        /\ Occurs(v, i + 1) = Occurs(v, i) + (IF nums[i] = v THEN 1 ELSE 0)
    BY <1>1, OccursStep DEF ScanInv
  <2>2. 2 * Occurs(v, i) <= IF v = ans THEN i + freq ELSE i - freq
    BY <1>1
  <2>3. CASE freq = 0
    BY <1>1, <2>1, <2>2, <2>3 DEF vote
  <2>4. CASE freq # 0
    BY <1>1, <2>1, <2>2, <2>4 DEF vote
  <2>5. QED
    BY <2>3, <2>4
<1>6. \A v \in Int : Occurs(v, i)' = Occurs(v, i + 1)
  BY <1>2 DEF vote, input, Occurs
<1>7. VoteInv'
  BY <1>1, <1>2, <1>5, <1>6 DEF VoteInv, vote, input
<1>8. QED
  BY <1>3, <1>4, <1>7 DEF ScanInv

LEMMA RecountStep ==
  ASSUME ScanInv, recount
  PROVE  ScanInv'
<1>1. scan = "vote" /\ UNCHANGED <<scan, nums, size, k, i, deque, front, back, printed, freq, ans>>
  BY DEF recount, input, dequeVars
<1>2. result' \in Int /\ scanPc' = "done" /\ i = size
  BY DEF recount, ScanInv, ScanTypeOK
<1>3. ScanTypeOK'
  BY <1>1, <1>2 DEF ScanInv, ScanTypeOK, Index
<1>4. DequeInv'
  BY <1>1 DEF DequeInv
<1>5. VoteInv'
  BY <1>1, <1>2 DEF ScanInv, VoteInv, recount, Occurs, Majority
<1>6. QED
  BY <1>3, <1>4, <1>5 DEF ScanInv

\* The index that has left the window is at the front if it is in the deque.
LEMMA DropFrontStep ==
  ASSUME ScanInv, drop_front
  PROVE  ScanInv'
<1>1. /\ scan = "deque" /\ scanPc = "next" /\ scanPc' = "shrink" /\ i < size
      /\ UNCHANGED <<scan, nums, size, k, i, deque, back, printed, freq, ans, result>>
  BY DEF drop_front, input, voteVars
<1>2. /\ i \in Nat /\ size \in Nat /\ k \in Nat \ {0} /\ front \in Nat /\ back \in Int
      /\ deque \in [Index -> Int] /\ nums \in [Index -> Int] /\ back < size
  BY DEF ScanInv, ScanTypeOK
<1>3. ScanTypeOK'
  BY <1>1, <1>2 DEF ScanInv, ScanTypeOK, drop_front, Index
<1>4. /\ front <= back + 1 /\ back < i
      /\ \A p \in front .. back : deque[p] \in 0 .. i - 1 /\ deque[p] >= i - k
      /\ \A p, q \in front .. back :
           p < q => deque[p] < deque[q] /\ nums[deque[p]] > nums[deque[q]]
      /\ \A j \in 0 .. i - 1 : j >= i - k =>
           \E p \in front .. back : deque[p] >= j /\ nums[deque[p]] >= nums[j]
  BY <1>1 DEF ScanInv, DequeInv, Oldest
<1>5. CASE front <= back /\ deque[front] <= i - k
  <2>1. front' = front + 1 /\ deque[front] = i - k
    BY <1>2, <1>4, <1>5 DEF drop_front
  <2>2. front' <= back + 1 /\ \A p \in front' .. back : p \in front .. back /\ front < p
    BY <1>2, <1>5, <2>1
  <2>3. \A p \in front' .. back : deque[p] \in 0 .. i - 1 /\ deque[p] >= i - k + 1
    <3> TAKE p \in front' .. back
    <3>1. p \in front .. back /\ front \in front .. back /\ front < p
      BY <1>2, <1>5, <2>2
    <3>2. deque[front] < deque[p] /\ deque[p] \in 0 .. i - 1
      BY <1>4, <3>1
    <3>3. QED
      BY <1>2, <2>1, <3>2
  <2>4. \A j \in 0 .. i - 1 : j >= i - k + 1 =>
           \E p \in front' .. back : deque[p] >= j /\ nums[deque[p]] >= nums[j]
    <3> TAKE j \in 0 .. i - 1
    <3> HAVE j >= i - k + 1
    <3>1. PICK p \in front .. back : deque[p] >= j /\ nums[deque[p]] >= nums[j]
      BY <1>2, <1>4
    <3>2. p # front
      BY <1>2, <2>1, <3>1
    <3>3. p \in front' .. back
      BY <1>2, <2>1, <3>2
    <3>4. QED
      BY <3>1, <3>3
  <2>5. DequeInv'
    BY <1>1, <1>4, <2>2, <2>3, <2>4 DEF ScanInv, DequeInv, Oldest, WindowMax
  <2>6. QED
    BY <1>1, <1>3, <2>5 DEF ScanInv, VoteInv
<1>6. CASE ~(front <= back /\ deque[front] <= i - k)
  <2>1. front' = front
    BY <1>6 DEF drop_front
  <2>2. \A p \in front .. back : deque[p] \in 0 .. i - 1 /\ deque[p] >= i - k + 1
    <3> TAKE p \in front .. back
    <3>1. front \in front .. back /\ deque[front] \in 0 .. i - 1 /\ deque[front] > i - k
      BY <1>2, <1>4, <1>6
    <3>2. p = front \/ deque[front] < deque[p]
      BY <1>2, <1>4, <3>1
    <3>3. QED
      BY <1>2, <1>4, <3>1, <3>2
  <2>3. \A j \in 0 .. i - 1 : j >= i - k + 1 => j >= i - k
    BY <1>2
  <2>4. DequeInv'
    BY <1>1, <1>4, <2>1, <2>2, <2>3 DEF ScanInv, DequeInv, Oldest, WindowMax
  <2>5. QED
    BY <1>1, <1>3, <2>4 DEF ScanInv, VoteInv
<1>7. QED
  BY <1>5, <1>6

\* What is popped is outdone by the element about to be pushed.
LEMMA DropBackStep ==
  ASSUME ScanInv, drop_back
  PROVE  ScanInv'
<1>1. /\ scan = "deque" /\ scanPc = "shrink" /\ back' = back - 1
      /\ front <= back /\ nums[deque[back]] <= nums[i]
      /\ UNCHANGED <<scan, nums, size, k, i, scanPc, deque, front, printed, freq, ans, result>>
  BY DEF drop_back, Smaller, input, voteVars
<1>2. /\ i \in Nat /\ size \in Nat /\ k \in Nat \ {0} /\ front \in Nat /\ back \in Int
      /\ deque \in [Index -> Int] /\ nums \in [Index -> Int] /\ back < size /\ i < size
  BY <1>1 DEF ScanInv, ScanTypeOK, DequeInv
<1>3. ScanTypeOK'
  BY <1>1, <1>2 DEF ScanInv, ScanTypeOK, Index
<1>4. \A p \in front .. back' : p \in front .. back
  BY <1>1, <1>2
<1>5. \A p \in front .. back : deque[p] \in Index
  <2>1. DequeInv
    BY <1>1 DEF ScanInv
  <2>2. \A p \in front .. back : deque[p] \in 0 .. i - 1
    BY <1>1, <2>1, Zenon DEF DequeInv
  <2>3. QED
    BY <1>2, <2>2 DEF Index
<1>6. ASSUME NEW j \in 0 .. i - 1, j >= Oldest
      PROVE  \/ \E p \in front .. back' : deque[p] >= j /\ nums[deque[p]] >= nums[j]
             \/ nums[j] <= nums[i]
  <2>1. CASE nums[j] <= nums[i]
    BY <2>1
  <2>2. ASSUME NEW p \in front .. back, deque[p] >= j, nums[deque[p]] >= nums[j]
        PROVE  \/ \E q \in front .. back' : deque[q] >= j /\ nums[deque[q]] >= nums[j]
               \/ nums[j] <= nums[i]
    <3>1. CASE p = back
      <4>1. nums[deque[back]] \in Int /\ nums[j] \in Int /\ nums[i] \in Int
        <5>1. deque[back] \in Index /\ j \in Index /\ i \in Index
          BY <1>1, <1>2, <1>5 DEF Index
        <5>2. QED
          BY <1>2, <5>1
      <4>2. QED
        BY <1>1, <2>2, <3>1, <4>1
    <3>2. CASE p # back
      <4>1. p \in front .. back'
        BY <1>1, <1>2, <3>2
      <4>2. QED
        BY <2>2, <4>1
    <3>3. QED
      BY <3>1, <3>2
  <2>3. QED
    BY <1>1, <1>6, <2>1, <2>2 DEF ScanInv, DequeInv
<1>7. Oldest' = Oldest
  BY <1>1 DEF Oldest
<1>8. front <= back' + 1 /\ back' < i
  BY <1>1, <1>2 DEF ScanInv, DequeInv
<1>9. DequeInv'
  BY <1>1, <1>4, <1>6, <1>7, <1>8 DEF ScanInv, DequeInv, WindowMax
<1>10. QED
  BY <1>1, <1>3, <1>9 DEF ScanInv, VoteInv

\* The element pushed is smaller than those left in the deque, and the front is
\* the maximum of the window it completes.
LEMMA PushStep ==
  ASSUME ScanInv, push_and_print
  PROVE  ScanInv'
<1>1. /\ scan = "deque" /\ scanPc = "shrink" /\ scanPc' = "next" /\ back' = back + 1 /\ i' = i + 1
      /\ ~(front <= back /\ nums[deque[back]] <= nums[i])
      /\ deque' = [deque EXCEPT ![back + 1] = i]
      /\ printed' = IF i >= k - 1 THEN Append(printed, nums[deque'[front]]) ELSE printed
      /\ UNCHANGED <<scan, nums, size, k, front, freq, ans, result>>
  BY DEF push_and_print, Smaller, input, voteVars
<1>2. /\ i \in Nat /\ size \in Nat /\ k \in Nat \ {0} /\ front \in Nat /\ back \in Int
      /\ deque \in [Index -> Int] /\ nums \in [Index -> Int] /\ printed \in Seq(Int)
      /\ back >= -1 /\ i < size
  BY <1>1 DEF ScanInv, ScanTypeOK, DequeInv
<1>3. /\ front <= back + 1 /\ back < i
      /\ \A p \in front .. back : deque[p] \in 0 .. i - 1 /\ deque[p] >= i - k + 1
      /\ \A p, q \in front .. back :
           p < q => deque[p] < deque[q] /\ nums[deque[p]] > nums[deque[q]]
      /\ \A j \in 0 .. i - 1 : j >= i - k + 1 =>
           \/ \E p \in front .. back : deque[p] >= j /\ nums[deque[p]] >= nums[j]
           \/ nums[j] <= nums[i]
      /\ Len(printed) = IF i >= k THEN i - k + 1 ELSE 0
      /\ \A m \in 1 .. Len(printed) : WindowMax(m - 1, printed[m])
  BY <1>1 DEF ScanInv, DequeInv, Oldest
<1>4. back + 1 \in Index /\ i \in Index /\ nums[i] \in Int
  BY <1>2, <1>3 DEF Index
<1>5. /\ deque'[back + 1] = i
      /\ \A p \in front .. back : deque'[p] = deque[p] /\ deque[p] \in Index /\ nums[deque[p]] \in Int
  <2>1. \A p \in front .. back : p \in Index /\ p # back + 1 /\ deque[p] \in Index
    BY <1>2, <1>3 DEF Index
  <2>2. QED
    BY <1>1, <1>2, <1>4, <2>1
<1>6. \A p \in front .. back' : p \in front .. back \/ p = back + 1
  BY <1>1, <1>2
<1>7. \A p \in front .. back : nums[deque[p]] > nums[i]
  <2> TAKE p \in front .. back
  <2>1. back \in front .. back /\ nums[deque[back]] > nums[i]
    BY <1>1, <1>2, <1>4, <1>5
  <2>2. p = back \/ nums[deque[p]] > nums[deque[back]]
    BY <1>2, <1>3, <2>1
  <2>3. QED
    BY <1>4, <1>5, <2>1, <2>2
<1>8. \A p \in front .. back' : deque'[p] \in 0 .. i /\ deque'[p] >= i - k + 1
  <2> TAKE p \in front .. back'
  <2>1. CASE p \in front .. back
    <3>1. deque'[p] = deque[p] /\ deque[p] \in 0 .. i - 1 /\ deque[p] >= i - k + 1
      BY <1>3, <1>5, <2>1
    <3>2. QED
      BY <1>2, <3>1
  <2>2. CASE p = back + 1
    BY <1>2, <1>5, <2>2
  <2>3. QED
    BY <1>6, <2>1, <2>2
<1>9. ASSUME NEW p \in front .. back', NEW q \in front .. back', p < q
      PROVE  deque'[p] < deque'[q] /\ nums[deque'[p]] > nums[deque'[q]]
  <2>1. p \in front .. back
    BY <1>1, <1>2, <1>9
  <2>2. CASE q = back + 1
    <3>1. deque'[p] = deque[p] /\ deque[p] \in 0 .. i - 1 /\ nums[deque[p]] > nums[i]
      BY <1>3, <1>5, <1>7, <2>1
    <3>2. deque'[q] = i
      BY <1>5, <2>2
    <3>3. QED
      BY <1>2, <3>1, <3>2
  <2>3. CASE q \in front .. back
    BY <1>3, <1>5, <1>9, <2>1, <2>3
  <2>4. QED
    BY <1>6, <2>2, <2>3
<1>10. ASSUME NEW j \in 0 .. i, j >= i - k + 1
       PROVE  \E p \in front .. back' : deque'[p] >= j /\ nums[deque'[p]] >= nums[j]
  <2>1. back + 1 \in front .. back' /\ deque'[back + 1] = i /\ j <= i
    BY <1>1, <1>2, <1>3, <1>5
  <2>2. CASE j = i
    BY <1>4, <2>1, <2>2
  <2>3. CASE j # i
    <3>1. j \in 0 .. i - 1
      BY <1>2, <2>3
    <3>2. CASE nums[j] <= nums[i]
      BY <2>1, <3>2
    <3>3. ASSUME NEW p \in front .. back, deque[p] >= j, nums[deque[p]] >= nums[j]
          PROVE  \E q \in front .. back' : deque'[q] >= j /\ nums[deque'[q]] >= nums[j]
      <4>1. p \in front .. back'
        BY <1>1, <1>2
      <4>2. QED
        BY <1>5, <3>3, <4>1
    <3>4. QED
      BY <1>3, <1>10, <3>1, <3>2, <3>3
  <2>4. QED
    BY <2>2, <2>3
<1>11. front \in front .. back' /\ deque'[front] \in Index /\ nums[deque'[front]] \in Int
  <2>1. front \in front .. back'
    BY <1>1, <1>2, <1>3
  <2>2. QED
    BY <1>2, <1>4, <1>5, <1>6, <2>1
<1>12. i >= k - 1 => WindowMax(i - k + 1, nums[deque'[front]])
  <2> HAVE i >= k - 1
  <2> DEFINE x == nums[deque'[front]]
  <2>1. i - k + 1 + k - 1 = i
    BY <1>2
  <2>2. deque'[front] \in i - k + 1 .. i
    BY <1>2, <1>8, <1>11
  <2>3. ASSUME NEW j \in i - k + 1 .. i
        PROVE  nums[j] <= x
    <3>1. j \in 0 .. i /\ j >= i - k + 1 /\ j \in Index
      BY <1>2 DEF Index
    <3>2. PICK p \in front .. back' : deque'[p] >= j /\ nums[deque'[p]] >= nums[j]
      BY <1>10, <3>1
    <3>3. p = front \/ x > nums[deque'[p]]
      BY <1>2, <1>9, <1>11
    <3>4. nums[deque'[p]] \in Int /\ nums[j] \in Int /\ x \in Int
      BY <1>2, <1>4, <1>5, <1>6, <1>11, <3>1
    <3>5. QED
      BY <3>2, <3>3, <3>4
  <2>4. QED
    BY <2>1, <2>2, <2>3 DEF WindowMax
<1>13. Len(printed') = IF i' >= k' THEN i' - k' + 1 ELSE 0
  BY <1>1, <1>2, <1>3
<1>14. \A m \in 1 .. Len(printed') : WindowMax(m - 1, printed'[m])
  <2>1. CASE i >= k - 1
    <3>1. /\ Len(printed) = i - k + 1 /\ Len(printed') = Len(printed) + 1
          /\ printed'[Len(printed) + 1] = nums[deque'[front]]
          /\ \A m \in 1 .. Len(printed) : printed'[m] = printed[m]
      BY <1>1, <1>2, <1>3, <1>11, <2>1
    <3> TAKE m \in 1 .. Len(printed')
    <3>2. CASE m \in 1 .. Len(printed)
      BY <1>3, <3>1, <3>2
    <3>3. CASE m = Len(printed) + 1
      <4>1. m - 1 = i - k + 1
        BY <1>2, <3>1, <3>3
      <4>2. QED
        BY <1>12, <2>1, <3>1, <3>3, <4>1
    <3>4. QED
      BY <1>2, <3>1, <3>2, <3>3
  <2>2. CASE ~(i >= k - 1)
    BY <1>1, <1>3, <2>2
  <2>3. QED
    BY <2>1, <2>2
<1>15. ScanTypeOK'
  <2>1. printed' \in Seq(Int)
    BY <1>1, <1>2, <1>11
  <2>2. deque' \in [Index -> Int]
    <3>1. i \in Int
      BY <1>2
    <3>2. QED
      BY <1>1, <1>2, <3>1, Zenon
  <2>3. back' \in -1 .. size - 1 /\ i' \in 0 .. size
    BY <1>1, <1>2, <1>3
  <2>4. QED
    BY <1>1, <2>1, <2>2, <2>3 DEF ScanInv, ScanTypeOK, Index
<1>16. DequeInv'
  <2>1. i' - 1 = i /\ Oldest' = i - k + 1 /\ front <= back' + 1 /\ back' < i'
    BY <1>1, <1>2, <1>3 DEF Oldest
  <2>2. \A m, x : WindowMax(m, x)' = WindowMax(m, x)
    BY <1>1 DEF WindowMax
  <2>3. \A m \in 1 .. Len(printed') : WindowMax(m - 1, printed[m])'
    BY <1>14, <2>2
  <2>4. \A j \in 0 .. i : j >= i - k + 1 =>
          \E p \in front .. back' : deque'[p] >= j /\ nums[deque'[p]] >= nums[j]
    BY <1>10
  <2>5. /\ scanPc' \in {"next", "shrink"} /\ (scanPc' = "shrink" => i' < size')
        /\ front' <= back' + 1 /\ back' < i'
    BY <1>1, <2>1
  <2>6. \A p \in front' .. back' : deque'[p] \in 0 .. i' - 1 /\ deque'[p] >= Oldest'
    BY <1>1, <1>8, <2>1
  <2>7. \A p, q \in front' .. back' :
          p < q => deque'[p] < deque'[q] /\ nums'[deque'[p]] > nums'[deque'[q]]
    BY <1>1, <1>9
  <2>8. \A j \in 0 .. i' - 1 : j >= Oldest' =>
          \E p \in front' .. back' : deque'[p] >= j /\ nums'[deque'[p]] >= nums'[j]
    BY <1>1, <2>1, <2>4
  <2>9. QED
    BY <1>13, <2>3, <2>5, <2>6, <2>7, <2>8, Zenon DEF DequeInv
<1>17. QED
  BY <1>1, <1>15, <1>16 DEF ScanInv, VoteInv

\* The invariant of both scans.
LEMMA ScanInvariance == ScanSpec => []ScanInv
<1>1. ScanInit => ScanInv
  <2> SUFFICES ASSUME ScanInit PROVE ScanInv
    OBVIOUS
  <2>1. ScanTypeOK
    <3>1. size \in Nat /\ k \in Nat \ {0} /\ nums \in [Index -> Int]
      BY ScanAssumption DEF ScanInit, Index
    <3>2. deque \in [Index -> Int]
      BY DEF ScanInit
    <3>3. i \in 0 .. size /\ back \in -1 .. size - 1 /\ front \in Nat
      BY <3>1 DEF ScanInit
    <3>4. QED
      BY <3>1, <3>2, <3>3 DEF ScanInit, ScanTypeOK
  <2>2. DequeInv
    BY <2>1 DEF ScanInit, ScanTypeOK, DequeInv, Oldest
  <2>3. \A v \in Int : Occurs(v, 0) = 0
    <3> TAKE v \in Int
    <3>1. {j \in 0 .. 0 - 1 : nums[j] = v} = {}
      OBVIOUS
    <3>2. QED
      BY <3>1, FS_EmptySet DEF Occurs
  <2>4. VoteInv
    BY <2>3 DEF ScanInit, VoteInv
  <2>5. QED
    BY <2>1, <2>2, <2>4 DEF ScanInv
<1>2. ScanInv /\ [ScanNext]_scanVars => ScanInv'
  <2> SUFFICES ASSUME ScanInv, [ScanNext]_scanVars PROVE ScanInv'
    OBVIOUS
  <2>1. CASE UNCHANGED scanVars
    BY <2>1 DEF scanVars, ScanInv, ScanTypeOK, DequeInv, VoteInv, Oldest, WindowMax, Occurs, Majority, Index
  <2>2. QED
    BY <2>1, DropFrontStep, DropBackStep, PushStep, VoteStep, RecountStep DEF ScanNext
<1>3. QED
  BY <1>1, <1>2, PTL DEF ScanSpec

\* slliding-window-deque.c prints the maximum of every window, for every array
\* of integers, every length and every width.
THEOREM WindowMaximaHold == ScanSpec => []WindowMaxima
<1>1. ScanInv => WindowMaxima
  BY DEF ScanInv, ScanTypeOK, DequeInv, WindowMaxima
<1>2. QED
  BY <1>1, ScanInvariance, PTL

\* majority_elem_moore_vot.c returns what majority_elem_brute_force.c does, for
\* every array of integers.
THEOREM VoteAgreesHolds == ScanSpec => []VoteAgrees
<1>1. ScanInv => VoteAgrees
  <2> SUFFICES ASSUME ScanInv, scan = "vote", scanPc = "done"
               PROVE  result = findMajority
    BY DEF VoteAgrees
  <2>1. size \in Nat /\ nums \in [Index -> Int] /\ freq \in Nat /\ i = size
    BY DEF ScanInv, ScanTypeOK, VoteInv
  <2>2. \A v \in Int : Majority(v) => v = ans
    <3> TAKE v \in Int
    <3> HAVE Majority(v)
    <3>1. Occurs(v, size) \in Nat
      BY <2>1, OccursStep DEF ScanInv
    <3>2. 2 * Occurs(v, size) > size
      BY <2>1, <3>1 DEF Majority
    <3>3. 2 * Occurs(v, size) <= IF v = ans THEN size + freq ELSE size - freq
      BY <2>1 DEF ScanInv, VoteInv
    <3>4. QED
      BY <2>1, <3>1, <3>2, <3>3
  <2>3. result = IF Majority(ans) THEN ans ELSE -1
    BY DEF ScanInv, VoteInv
  <2> DEFINE First(j) == Majority(nums[j]) /\ \A m \in 0 .. j - 1 : ~Majority(nums[m])
             Majors == {j \in Index : Majority(nums[j])}
  <2>4. CASE Majors # {}
    <3>1. Majors \in SUBSET Nat
      BY <2>1 DEF Index
    <3>2. PICK x \in Majors : \A y \in Majors : x <= y
      BY <2>4, <3>1, FirstIndex
    <3>3. \A m \in 0 .. x - 1 : m \in Index /\ ~(x <= m)
      BY <2>1, <3>1 DEF Index
    <3>4. x \in Index /\ First(x)
      BY <3>2, <3>3
    <3>5. \A j \in Index : First(j) => nums[j] = ans
      BY <2>1, <2>2
    <3>6. nums[CHOOSE j \in Index : First(j)] = ans
      BY <3>4, <3>5, Zenon
    <3>7. Majority(ans)
      BY <3>4, <3>5
    <3>8. findMajority = ans
      BY <3>4, <3>6 DEF findMajority
    <3>9. QED
      BY <2>3, <3>7, <3>8
  <2>5. CASE Majors = {}
    <3>1. ~Majority(ans)
      <4> SUFFICES ASSUME Majority(ans) PROVE FALSE
        OBVIOUS
      <4> DEFINE S == {j \in 0 .. size - 1 : nums[j] = ans}
      <4>1. S = {}
        BY <2>5 DEF Index
      <4>2. Occurs(ans, size) = 0
        BY <4>1, FS_EmptySet DEF Occurs
      <4>3. QED
        BY <2>1, <4>2 DEF Majority
    <3>2. QED
      BY <2>3, <2>5, <3>1 DEF findMajority
  <2>6. QED
    BY <2>4, <2>5
<1>2. QED
  BY <1>1, ScanInvariance, PTL

-----------------------------------------------------------------------------
(***************************************************************************)
(* The logged key-value stores of WEEKEND_TASK, over a data file or in     *)
(* memory, for any list of operations of main and any number of runs, each *)
(* of which may be cut off between two writes.                             *)
(***************************************************************************)
CONSTANTS InMemory, Script, NullPointer, MAX_KEYS, MaxRuns

VARIABLES wal, db, command, line_no, runs

WK == INSTANCE WalKv WITH NULL <- NullPointer, pc <- command, at <- line_no

\* What Append returns.
LEMMA AppendIs ==
  ASSUME NEW S, NEW s \in Seq(S), NEW e \in S
  PROVE  /\ Append(s, e) \in Seq(S)
         /\ Len(Append(s, e)) = Len(s) + 1
         /\ \A m \in 1 .. Len(s) : Append(s, e)[m] = s[m]
         /\ Append(s, e)[Len(s) + 1] = e
OBVIOUS

\* An entry of a sequence.
LEMMA EntryOf ==
  ASSUME NEW S, NEW s \in Seq(S), NEW m \in 1 .. Len(s)
  PROVE  s[m] \in S
OBVIOUS

\* What the log says of its lines.
LEMMA LineFields ==
  ASSUME WK!LogKept
  PROVE  /\ Len(wal) \in Nat
         /\ \A e \in 1 .. Len(wal) :
              /\ wal[e] \in WK!Lines
              /\ wal[e].op \in {"INSERT", "UPDATE", "DELETE"}
              /\ wal[e].key \in WK!Keys
              /\ wal[e].val \in WK!Values \cup {"NULL"}
<1>1. wal \in Seq(WK!Lines)
  BY DEF WK!LogKept
<1>2. Len(wal) \in Nat /\ \A e \in 1 .. Len(wal) : wal[e] \in WK!Lines
  BY <1>1
<1>3. \A line \in WK!Lines :
        /\ line.op \in {"INSERT", "UPDATE", "DELETE"}
        /\ line.key \in WK!Keys
        /\ line.val \in WK!Values \cup {"NULL"}
  BY DEF WK!Lines
<1>4. QED
  BY <1>2, <1>3

\* What Line does to an operation.
LEMMA LineOf ==
  ASSUME NEW a, NEW b, NEW c
  PROVE  WK!Line([op |-> a, key |-> b, val |-> c]) = [op |-> a, key |-> b, val |-> WK!Written(c)]
BY DEF WK!Line

\* Reading a line of the log and writing it into the data file gives the same
\* line again.
LEMMA WrittenIsRead ==
  ASSUME ~InMemory, NEW line \in WK!Lines
  PROVE  WK!Line([line EXCEPT !.val = WK!Scanned(@)]) = line
<1> DEFINE o == [line EXCEPT !.val = WK!Scanned(@)]
<1>1. line = [op |-> line.op, key |-> line.key, val |-> line.val]
  BY DEF WK!Lines
<1>2. line.val \in WK!Values \cup {"NULL"}
  BY DEF WK!Lines
<1>3. NullPointer \notin WK!Values
  BY DEF WK!Values
<1>4. WK!Written(WK!Scanned(line.val)) = line.val
  BY <1>2, <1>3 DEF WK!Written, WK!Scanned
<1>5. o = [op |-> line.op, key |-> line.key, val |-> WK!Scanned(line.val)]
  BY <1>1
<1>6. WK!Line(o) = [op |-> line.op, key |-> line.key, val |-> WK!Written(WK!Scanned(line.val))]
  BY <1>5, LineOf
<1>7. QED
  BY <1>1, <1>4, <1>6

\* The line that is applied next: the data file agrees with one more line.
LEMMA LineApplied ==
  ASSUME ~InMemory, NEW n \in Nat \ {0}, n \in 1 .. Len(wal), wal[n] \in WK!Lines,
         WK!LinesFollow(n - 1),
         wal' = wal, db' = Append(db, wal[n])
  PROVE  WK!LinesFollow(n)'
<1>1. db \in Seq(WK!Lines) /\ WK!WriteAhead
  BY DEF WK!LinesFollow
<1>2. /\ db' \in Seq(WK!Lines)
      /\ Len(db) \in Nat /\ Len(db') = Len(db) + 1
      /\ db'[Len(db')] = wal[n]
      /\ \A m \in 1 .. Len(db) : db'[m] = db[m]
  BY <1>1, AppendIs
<1>3. \A m \in 1 .. Len(db') : m = Len(db') \/ m \in 1 .. Len(db)
  BY <1>2
<1>4. WK!WriteAhead'
  <2>1. \A m \in 1 .. Len(db) : \E e \in 1 .. Len(wal) : db[m] = wal[e]
    BY <1>1 DEF WK!WriteAhead
  <2>2. QED
    BY <1>2, <1>3, <2>1 DEF WK!WriteAhead
<1>5. WK!IsLast(db', Len(db'), Len(db')) /\ Len(db') \in 1 .. Len(db')
  <2>1. Len(db') \in 1 .. Len(db') /\ Len(db') + 1 .. Len(db') = {}
    BY <1>2
  <2>2. QED
    BY <2>1 DEF WK!IsLast
<1>6. ASSUME NEW m \in 1 .. Len(db), db[m].key # wal[n].key
      PROVE  WK!IsLast(db', Len(db'), m) <=> WK!IsLast(db, Len(db), m)
  <2>1. db'[m] = db[m]
    BY <1>2
  <2>2. \A j \in m + 1 .. Len(db) : j \in m + 1 .. Len(db') /\ db'[j] = db[j]
    BY <1>2
  <2>3. \A j \in m + 1 .. Len(db') : j = Len(db') \/ j \in m + 1 .. Len(db)
    BY <1>2
  <2>4. QED
    BY <1>2, <1>6, <2>1, <2>2, <2>3 DEF WK!IsLast
<1>7. ASSUME NEW e \in 1 .. n
      PROVE  \E m \in 1 .. Len(db') : db'[m].key = wal[e].key /\ WK!IsLast(db', Len(db'), m)
  <2>1. CASE wal[e].key = wal[n].key
    BY <1>2, <1>5, <2>1
  <2>2. CASE wal[e].key # wal[n].key
    <3>1. e \in 1 .. n - 1
      BY <2>2
    <3>2. PICK m \in 1 .. Len(db) : db[m].key = wal[e].key /\ WK!IsLast(db, Len(db), m)
      BY <3>1 DEF WK!LinesFollow
    <3>3. WK!IsLast(db', Len(db'), m)
      BY <1>6, <2>2, <3>2
    <3>4. m \in 1 .. Len(db') /\ db'[m] = db[m]
      BY <1>2
    <3>5. QED
      BY <3>2, <3>3, <3>4
  <2>3. QED
    BY <2>1, <2>2
<1>8. ASSUME NEW m \in 1 .. Len(db'), WK!IsLast(db', Len(db'), m),
             NEW j \in 1 .. n, wal[j].key = db'[m].key
      PROVE  \E e \in 1 .. n : db'[m] = wal[e] /\ WK!IsLast(wal, n, e)
  <2>1. CASE m = Len(db')
    <3>1. n \in 1 .. n /\ n + 1 .. n = {}
      OBVIOUS
    <3>2. WK!IsLast(wal, n, n)
      BY <3>1 DEF WK!IsLast
    <3>3. QED
      BY <1>2, <2>1, <3>1, <3>2
  <2>2. CASE m # Len(db')
    <3>1. m \in 1 .. Len(db) /\ db'[m] = db[m]
      BY <1>2, <1>3, <2>2
    <3>2. Len(db') \in m + 1 .. Len(db')
      BY <1>2, <3>1
    <3>3. db[m].key # wal[n].key
      BY <1>2, <1>8, <3>1, <3>2 DEF WK!IsLast
    <3>4. WK!IsLast(db, Len(db), m)
      BY <1>6, <1>8, <3>1, <3>3
    <3>5. j \in 1 .. n - 1 /\ wal[j].key = db[m].key
      BY <1>8, <3>1, <3>3
    <3>6. PICK e \in 1 .. n - 1 : db[m] = wal[e] /\ WK!IsLast(wal, n - 1, e)
      BY <3>1, <3>4, <3>5 DEF WK!LinesFollow
    <3>7. WK!IsLast(wal, n, e)
      <4>1. \A l \in e + 1 .. n : l = n \/ l \in e + 1 .. n - 1
        OBVIOUS
      <4>2. QED
        BY <3>3, <3>6, <4>1 DEF WK!IsLast
    <3>8. e \in 1 .. n
      OBVIOUS
    <3>9. QED
      BY <3>1, <3>6, <3>7, <3>8
  <2>3. QED
    BY <2>1, <2>2
<1>9. QED
  BY <1>2, <1>4, <1>7, <1>8 DEF WK!LinesFollow

\* What the search for a record finds: records are of distinct keys.
LEMMA RecordFound ==
  ASSUME NEW key, \A m, o \in 1 .. Len(db) : db[m].key = db[o].key => m = o, Len(db) \in Nat
  PROVE  /\ (\A m \in 1 .. Len(db) : db[m].key # key) => WK!Found(key) = {}
         /\ \A p \in 1 .. Len(db) : db[p].key = key => WK!Found(key) = {p}
<1>1. (\A m \in 1 .. Len(db) : db[m].key # key) => WK!Found(key) = {}
  BY DEF WK!Found
<1>2. ASSUME NEW p \in 1 .. Len(db), db[p].key = key
      PROVE  WK!Found(key) = {p}
  <2>1. \A j \in 1 .. p - 1 : j \in 1 .. Len(db) /\ j # p
    OBVIOUS
  <2>2. p \in WK!Found(key)
    BY <1>2, <2>1 DEF WK!Found
  <2>3. \A m \in WK!Found(key) : m = p
    BY <1>2 DEF WK!Found
  <2>4. QED
    BY <2>2, <2>3, Zenon
<1>3. QED
  BY <1>1, <1>2

\* There is room for the record of a key that has none: the records are of
\* distinct keys of main.
LEMMA RoomForKey ==
  ASSUME WK!ScriptSound, InMemory, NEW n, WK!RecordsFollow(n),
         NEW key \in WK!Keys, \A m \in 1 .. Len(db) : db[m].key # key
  PROVE  Len(db) < MAX_KEYS
<1> DEFINE f == [m \in 1 .. Len(db) |-> db[m].key]
           g == [e \in 1 .. Len(Script) |-> Script[e].key]
           T == WK!Keys \ {key}
<1>1. /\ Len(db) \in Nat
      /\ \A m \in 1 .. Len(db) : db[m].key \in WK!Keys
      /\ \A m, o \in 1 .. Len(db) : db[m].key = db[o].key => m = o
  <2>1. db \in Seq(WK!Record)
    BY DEF WK!RecordsFollow
  <2>2. Len(db) \in Nat /\ \A m \in 1 .. Len(db) : db[m] \in WK!Record
    BY <2>1
  <2>3. \A r \in WK!Record : r.key \in WK!Keys
    BY DEF WK!Record
  <2>4. QED
    BY <2>2, <2>3 DEF WK!RecordsFollow
<1>2. Len(Script) \in Nat /\ WK!Keys = {Script[e].key : e \in 1 .. Len(Script)}
  <2>1. Len(Script) \in Nat /\ DOMAIN Script = 1 .. Len(Script)
    BY DEF WK!ScriptSound
  <2>2. QED
    BY <2>1 DEF WK!Keys
<1>3. IsFiniteSet(WK!Keys)
  <2>1. IsFiniteSet(1 .. Len(Script))
    <3>1. 1 \in Int /\ Len(Script) \in Int
      BY <1>2
    <3>2. QED
      BY <3>1, FS_Interval, Zenon
  <2>2. g \in Surjection(1 .. Len(Script), WK!Keys)
    BY <1>2 DEF Surjection
  <2>3. QED
    BY <2>1, <2>2, FS_Surjection
<1>4. IsFiniteSet(T) /\ Cardinality(T) = Cardinality(WK!Keys) - 1
  BY <1>3, FS_RemoveElement
<1>5. f \in Injection(1 .. Len(db), T)
  <2>1. f \in [1 .. Len(db) -> T]
    BY <1>1
  <2>2. \A m, o \in 1 .. Len(db) : f[m] = f[o] => m = o
    BY <1>1
  <2>3. QED
    BY <2>1, <2>2 DEF Injection, IsInjective
<1>6. Cardinality(1 .. Len(db)) <= Cardinality(T)
  BY <1>4, <1>5, FS_Injection
<1>7. Cardinality(1 .. Len(db)) = Len(db)
  <2>1. 1 \in Int /\ Len(db) \in Int
    BY <1>1
  <2>2. Cardinality(1 .. Len(db)) = IF 1 > Len(db) THEN 0 ELSE Len(db) - 1 + 1
    BY <2>1, FS_Interval, Zenon
  <2>3. QED
    BY <1>1, <2>2
<1>8. Cardinality(WK!Keys) <= MAX_KEYS /\ MAX_KEYS \in Nat
  <2>1. WK!Cardinality(WK!Keys) = Cardinality(WK!Keys)
    BY DEF WK!Cardinality, Cardinality
  <2>2. QED
    BY <2>1 DEF WK!ScriptSound
<1>9. Cardinality(WK!Keys) \in Nat
  BY <1>3, FS_CardinalityType
<1>10. QED
  BY <1>1, <1>4, <1>6, <1>7, <1>8, <1>9

\* What the provers need to know of numbers here.
LEMMA Intervals ==
  /\ \A a, b \in Nat : a <= b => \A m \in 1 .. a : m \in 1 .. b
  /\ \A n \in Nat \ {0} : \A e \in 1 .. n - 1 : \A l \in e + 1 .. n : l = n \/ l \in e + 1 .. n - 1
  /\ \A n, b \in Nat : n \in 1 .. b => n \in Nat \ {0}
  /\ \A a, b \in Nat : 1 .. a = 1 .. b => a = b
  /\ \A a \in Nat : a <= a
<1>1. \A a, b \in Nat : 1 .. a = 1 .. b => a = b
  <2> SUFFICES ASSUME NEW a \in Nat, NEW b \in Nat, 1 .. a = 1 .. b PROVE a = b
    OBVIOUS
  <2>1. (a > 0 => a \in 1 .. b) /\ (b > 0 => b \in 1 .. a)
    OBVIOUS
  <2>2. QED
    BY <2>1
<1>2. QED
  BY <1>1

\* When the record of a line's key, and no other, takes what the line says, the
\* memory agrees with one more line.
LEMMA RecordPut ==
  ASSUME NEW n \in Nat \ {0}, WK!RecordsFollow(n - 1), wal' = wal,
         db' \in Seq(WK!Record), Len(db) \in Nat, Len(db') \in Nat, Len(db) <= Len(db'),
         NEW p \in 1 .. Len(db'),
         WK!RecordSays(db'[p], wal[n]),
         \A m \in 1 .. Len(db') :
           m # p => m \in 1 .. Len(db) /\ db'[m] = db[m] /\ db[m].key # wal[n].key,
         p \in 1 .. Len(db) => db[p].key = wal[n].key
  PROVE  WK!RecordsFollow(n)'
<1>1. db'[p].key = wal[n].key
  BY DEF WK!RecordSays
<1>2. ASSUME NEW e \in 1 .. n
      PROVE  \E m \in 1 .. Len(db') : db'[m].key = wal[e].key
  <2>1. CASE wal[e].key = wal[n].key
    BY <1>1, <2>1
  <2>2. CASE wal[e].key # wal[n].key
    <3>1. e \in 1 .. n - 1
      BY <2>2
    <3>2. PICK m \in 1 .. Len(db) : db[m].key = wal[e].key
      BY <3>1 DEF WK!RecordsFollow
    <3>3. m \in 1 .. Len(db')
      BY Intervals, Zenon
    <3>4. m # p
      BY <2>2, <3>2
    <3>5. QED
      BY <3>2, <3>3, <3>4
  <2>3. QED
    BY <2>1, <2>2
<1>3. ASSUME NEW m \in 1 .. Len(db')
      PROVE  \E e \in 1 .. n : WK!RecordSays(db'[m], wal[e]) /\ WK!IsLast(wal, n, e)
  <2>1. CASE m = p
    <3>1. n \in 1 .. n /\ n + 1 .. n = {}
      OBVIOUS
    <3>2. WK!IsLast(wal, n, n)
      BY <3>1 DEF WK!IsLast
    <3>3. QED
      BY <2>1, <3>1, <3>2
  <2>2. CASE m # p
    <3>1. m \in 1 .. Len(db) /\ db'[m] = db[m] /\ db[m].key # wal[n].key
      BY <2>2
    <3>2. PICK e \in 1 .. n - 1 : WK!RecordSays(db[m], wal[e]) /\ WK!IsLast(wal, n - 1, e)
      BY <3>1 DEF WK!RecordsFollow
    <3>3. wal[e].key # wal[n].key
      BY <3>1, <3>2 DEF WK!RecordSays
    <3>4. WK!IsLast(wal, n, e)
      <4>1. \A l \in e + 1 .. n : l = n \/ l \in e + 1 .. n - 1
        BY Intervals, Zenon
      <4>2. QED
        BY <3>2, <3>3, <4>1 DEF WK!IsLast
    <3>5. e \in 1 .. n
      OBVIOUS
    <3>6. QED
      BY <3>1, <3>2, <3>4, <3>5
  <2>3. QED
    BY <2>1, <2>2
<1>4. ASSUME NEW m \in 1 .. Len(db'), NEW o \in 1 .. Len(db'), db'[m].key = db'[o].key
      PROVE  m = o
  <2>1. CASE m = p \/ o = p
    BY <1>1, <1>4, <2>1
  <2>2. CASE m # p /\ o # p
    <3>1. /\ m \in 1 .. Len(db) /\ db'[m] = db[m]
          /\ o \in 1 .. Len(db) /\ db'[o] = db[o]
      BY <2>2
    <3>2. QED
      BY <1>4, <3>1 DEF WK!RecordsFollow
  <2>3. QED
    BY <2>1, <2>2
<1>5. QED
  BY <1>2, <1>3, <1>4 DEF WK!RecordsFollow

\* applyOperation, for an operation that says what the n-th line says: a line
\* that is no INSERT finds its record, since the key has an earlier line.
LEMMA OperationApplied ==
  ASSUME WK!ScriptSound, InMemory, WK!LogKept,
         NEW n \in Nat, n \in 1 .. Len(wal), WK!RecordsFollow(n - 1),
         wal[n].op # "DELETE" => wal[n].val # "NULL",
         wal[n].op # "INSERT" => \E j \in 1 .. n - 1 : wal[j].key = wal[n].key,
         NEW o, o.op = wal[n].op, o.key = wal[n].key, o.op # "DELETE" => o.val = wal[n].val,
         wal' = wal, db' = WK!applyOperation(o)
  PROVE  WK!RecordsFollow(n)'
<1> DEFINE found == WK!Found(o.key)
<1>1. /\ wal[n].op \in {"INSERT", "UPDATE", "DELETE"}
      /\ wal[n].key \in WK!Keys
      /\ wal[n].op # "DELETE" => wal[n].val \in WK!Values
  BY LineFields
<1>2. db \in Seq(WK!Record) /\ Len(db) \in Nat /\ \A m \in 1 .. Len(db) : db[m] \in WK!Record
  <2>1. db \in Seq(WK!Record)
    BY DEF WK!RecordsFollow
  <2>2. QED
    BY <2>1
<1>3. /\ (\A m \in 1 .. Len(db) : db[m].key # o.key) => found = {}
      /\ \A p \in 1 .. Len(db) : db[p].key = o.key => found = {p}
  <2>1. \A m, l \in 1 .. Len(db) : db[m].key = db[l].key => m = l
    BY DEF WK!RecordsFollow
  <2>2. QED
    BY <1>2, <2>1, RecordFound
<1>4. wal[n].op # "INSERT" => \E m \in 1 .. Len(db) : db[m].key = o.key
  BY DEF WK!RecordsFollow
<1>5. CASE \A m \in 1 .. Len(db) : db[m].key # o.key
  <2>1. wal[n].op = "INSERT" /\ found = {}
    BY <1>3, <1>4, <1>5
  <2>2. Len(db) < MAX_KEYS
    BY <1>1, <1>5, RoomForKey
  <2> DEFINE r == [key |-> o.key, value |-> o.val, valid |-> 1]
  <2>3. db' = Append(db, r)
    BY <2>1, <2>2 DEF WK!applyOperation
  <2>4. r \in WK!Record
    BY <1>1, <2>1 DEF WK!Record
  <2>5. /\ db' \in Seq(WK!Record) /\ Len(db') = Len(db) + 1
        /\ db'[Len(db')] = r
        /\ \A m \in 1 .. Len(db) : db'[m] = db[m]
    <3> HIDE DEF r
    <3>1. /\ Append(db, r) \in Seq(WK!Record)
          /\ Len(Append(db, r)) = Len(db) + 1
          /\ \A m \in 1 .. Len(db) : Append(db, r)[m] = db[m]
          /\ Append(db, r)[Len(db) + 1] = r
      BY <1>2, <2>4, AppendIs, Zenon
    <3>2. QED
      BY <2>3, <3>1, Zenon
  <2>6. Len(db') \in 1 .. Len(db') /\ \A m \in 1 .. Len(db') : m # Len(db') => m \in 1 .. Len(db)
    BY <1>2, <2>5
  <2>7. WK!RecordSays(db'[Len(db')], wal[n])
    <3>1. /\ r.key = wal[n].key /\ r.value = wal[n].val /\ r.valid = 1
      BY <2>1
    <3>2. WK!RecordSays(r, wal[n])
      BY <2>1, <3>1 DEF WK!RecordSays
    <3>3. QED
      BY <2>5, <3>2, Zenon
  <2>8. QED
    <3>1. n \in Nat \ {0} /\ Len(db') \in Nat /\ Len(db) <= Len(db') /\ Len(db') \notin 1 .. Len(db)
      BY <1>2, <2>5
    <3>2. \A m \in 1 .. Len(db') :
            m # Len(db') => m \in 1 .. Len(db) /\ db'[m] = db[m] /\ db[m].key # wal[n].key
      BY <1>5, <2>5, <2>6
    <3>3. QED
      BY <1>2, <2>5, <2>6, <2>7, <3>1, <3>2, RecordPut
<1>6. CASE \E m \in 1 .. Len(db) : db[m].key = o.key
  <2>1. PICK p \in 1 .. Len(db) : db[p].key = o.key
    BY <1>6
  <2>2. found = {p}
    BY <1>3, <2>1
  <2>3. PICK r \in WK!Record :
          /\ db' = [m \in 1 .. Len(db) |-> IF m = p THEN r ELSE db[m]]
          /\ WK!RecordSays(r, wal[n])
    <3>1. db[p] = [key |-> db[p].key, value |-> db[p].value, valid |-> db[p].valid]
      BY <1>2 DEF WK!Record
    <3>2. db[p].key \in WK!Keys /\ db[p].value \in WK!Values
      BY <1>2 DEF WK!Record
    <3>3. CASE wal[n].op = "DELETE"
      <4> DEFINE s == [key |-> db[p].key, value |-> db[p].value, valid |-> 0]
      <4>1. db' = [m \in 1 .. Len(db) |-> IF m \in {p} THEN [db[m] EXCEPT !.valid = 0] ELSE db[m]]
        BY <2>2, <3>3 DEF WK!applyOperation
      <4>2. [db[p] EXCEPT !.valid = 0] = s
        BY <3>1
      <4>3. db' = [m \in 1 .. Len(db) |-> IF m = p THEN s ELSE db[m]]
        BY <4>1, <4>2
      <4>4. s \in WK!Record
        BY <3>2 DEF WK!Record
      <4>5. WK!RecordSays(s, wal[n])
        BY <2>1, <3>3 DEF WK!RecordSays
      <4>6. QED
        BY <4>3, <4>4, <4>5
    <3>4. CASE wal[n].op # "DELETE"
      <4> DEFINE s == [key |-> o.key, value |-> o.val, valid |-> 1]
      <4>1. db' = [m \in 1 .. Len(db) |-> IF m \in {p} THEN s ELSE db[m]]
        BY <1>1, <2>2, <3>4 DEF WK!applyOperation
      <4>2. s \in WK!Record
        BY <1>1, <3>4 DEF WK!Record
      <4>3. WK!RecordSays(s, wal[n])
        BY <3>4 DEF WK!RecordSays
      <4>4. db' = [m \in 1 .. Len(db) |-> IF m = p THEN s ELSE db[m]]
        BY <4>1
      <4>5. QED
        BY <4>2, <4>3, <4>4
    <3>5. QED
      BY <3>3, <3>4
  <2>4. /\ db' \in Seq(WK!Record) /\ Len(db') = Len(db)
        /\ db'[p] = r
        /\ \A m \in 1 .. Len(db) : m # p => db'[m] = db[m]
    <3>1. db' \in [1 .. Len(db) -> WK!Record]
      BY <1>2, <2>3
    <3>2. db' \in Seq(WK!Record) /\ Len(db') = Len(db)
      <4>1. db' \in Seq(WK!Record)
        BY <1>2, <3>1
      <4>2. DOMAIN db' = 1 .. Len(db') /\ Len(db') \in Nat
        BY <4>1
      <4>3. 1 .. Len(db') = 1 .. Len(db)
        BY <3>1, <4>2
      <4>4. QED
        BY <1>2, <4>1, <4>2, <4>3, Intervals, Zenon
    <3>3. QED
      BY <2>3, <3>2
  <2>5. \A m \in 1 .. Len(db) : m # p => db[m].key # wal[n].key
    BY <2>1 DEF WK!RecordsFollow
  <2>6. QED
    <3>1. n \in Nat \ {0}
      BY LineFields, Intervals, Zenon
    <3>2. Len(db) \in Nat /\ Len(db') = Len(db)
      BY <1>2, <2>4
    <3>3. p \in 1 .. Len(db') /\ Len(db) <= Len(db')
      BY <3>2, Intervals, Zenon
    <3>4. QED
      BY <1>2, <2>1, <2>3, <2>4, <2>5, <3>1, <3>3, RecordPut
<1>7. QED
  BY <1>5, <1>6

\* The lines that count, in the states of the process.
LEMMA AppliedIs ==
  /\ command = "replay" => WK!AppliedLines = line_no - 1
  /\ command = "commit" => WK!AppliedLines = Len(wal)
  /\ command = "apply" => WK!AppliedLines = Len(wal) - 1
BY DEF WK!AppliedLines

LEMMA AppliedIsNext ==
  /\ command' = "replay" => WK!AppliedLines' = line_no' - 1
  /\ command' = "commit" => WK!AppliedLines' = Len(wal')
  /\ command' = "apply" => WK!AppliedLines' = Len(wal') - 1
BY DEF WK!AppliedLines

\* How the next state keeps the invariant, with the lines that count named.
LEMMA LogInvNext ==
  ASSUME WK!LogKept', NEW n, WK!AppliedLines' = n,
         InMemory => WK!FirstInserts' /\ WK!RecordsFollow(n)',
         ~InMemory => WK!LinesFollow(n)'
  PROVE  WK!LogInv'
<1>1. InMemory => WK!RecordsFollow(WK!AppliedLines)'
  BY DEF WK!RecordsFollow
<1>2. ~InMemory => WK!LinesFollow(WK!AppliedLines)'
  BY DEF WK!LinesFollow
<1>3. QED
  BY <1>1, <1>2 DEF WK!LogInv

\* What the invariant says, with the lines that count named.
LEMMA LogInvNow ==
  ASSUME WK!LogInv, NEW n, WK!AppliedLines = n
  PROVE  /\ WK!LogKept
         /\ InMemory => WK!FirstInserts /\ WK!RecordsFollow(n)
         /\ ~InMemory => WK!LinesFollow(n)
BY DEF WK!LogInv

LEMMA ReplayLineKeeps ==
  ASSUME WK!ScriptSound, WK!LogInv, WK!replay_line
  PROVE  WK!LogInv'
<1> DEFINE o == [wal[line_no] EXCEPT !.val = WK!Scanned(@)]
<1>1. /\ command = "replay" /\ command' = "replay" /\ line_no <= Len(wal)
      /\ wal' = wal /\ line_no' = line_no + 1
      /\ db' = IF InMemory THEN WK!applyOperation(o) ELSE WK!applyToDB(o)
  BY DEF WK!replay_line, WK!Apply
<1>2. WK!LogKept /\ Len(wal) \in Nat /\ line_no \in 1 .. Len(wal)
  BY <1>1, LineFields DEF WK!LogInv, WK!LogKept
<1>3. WK!LogKept'
  BY <1>1, <1>2 DEF WK!LogKept, WK!Lines, WK!Keys, WK!Values
<1>4. PICK n \in Nat : n = line_no
  BY <1>2
<1>5. WK!AppliedLines = n - 1 /\ WK!AppliedLines' = n
  BY <1>1, <1>2, <1>4, AppliedIs, AppliedIsNext
<1>6. /\ wal[n] \in WK!Lines
      /\ wal[n] = [op |-> wal[n].op, key |-> wal[n].key, val |-> wal[n].val]
  BY <1>2, <1>4, LineFields DEF WK!Lines
<1>7. CASE InMemory
  <2>1. WK!FirstInserts /\ WK!RecordsFollow(n - 1)
    BY <1>5, <1>7, LogInvNow
  <2>2. WK!FirstInserts'
    BY <1>1, <2>1 DEF WK!FirstInserts
  <2>3. /\ wal[n].op # "DELETE" => wal[n].val # "NULL"
        /\ wal[n].op # "INSERT" => \E j \in 1 .. n - 1 : wal[j].key = wal[n].key
    BY <1>2, <1>4, <2>1 DEF WK!FirstInserts
  <2>4. o = [op |-> wal[n].op, key |-> wal[n].key, val |-> WK!Scanned(wal[n].val)]
    BY <1>4, <1>6
  <2>5. o.op = wal[n].op /\ o.key = wal[n].key /\ o.val = WK!Scanned(wal[n].val)
    BY <2>4
  <2>6. o.op # "DELETE" => o.val = wal[n].val
    BY <2>3, <2>5 DEF WK!Scanned
  <2>7. db' = WK!applyOperation(o)
    BY <1>1, <1>7
  <2>8. WK!RecordsFollow(n)'
    <3> HIDE DEF o
    <3>1. QED
      BY <1>1, <1>2, <1>4, <1>7, <2>1, <2>3, <2>5, <2>6, <2>7, OperationApplied
  <2>9. QED
    BY <1>3, <1>5, <1>7, <2>2, <2>8, LogInvNext
<1>8. CASE ~InMemory
  <2>1. WK!LinesFollow(n - 1)
    BY <1>5, <1>8, LogInvNow
  <2>2. WK!Line(o) = wal[n]
    BY <1>4, <1>6, <1>8, WrittenIsRead
  <2>3. db' = Append(db, wal[n])
    BY <1>1, <1>8, <2>2 DEF WK!applyToDB
  <2>4. WK!LinesFollow(n)'
    <3>1. n \in Nat \ {0} /\ n \in 1 .. Len(wal)
      BY <1>2, <1>4
    <3>2. QED
      BY <1>1, <1>6, <1>8, <2>1, <2>3, <3>1, LineApplied
  <2>5. QED
    BY <1>3, <1>5, <1>8, <2>4, LogInvNext
<1>9. QED
  BY <1>7, <1>8

LEMMA ReplayEndKeeps ==
  ASSUME WK!ScriptSound, WK!LogInv, WK!replay_end
  PROVE  WK!LogInv'
<1>1. /\ command = "replay" /\ line_no > Len(wal)
      /\ command' = "commit" /\ line_no' = 1 /\ wal' = wal /\ db' = db
  BY DEF WK!replay_end
<1>2. WK!LogKept /\ Len(wal) \in Nat /\ line_no - 1 = Len(wal)
  BY <1>1, LineFields DEF WK!LogInv, WK!LogKept
<1>3. Len(Script) \in Nat
  BY DEF WK!ScriptSound
<1>4. WK!LogKept'
  BY <1>1, <1>2, <1>3 DEF WK!LogKept, WK!Lines, WK!Keys, WK!Values
<1>5. PICK n \in Nat : n = Len(wal)
  BY <1>2
<1>6. WK!AppliedLines = n /\ WK!AppliedLines' = n
  BY <1>1, <1>2, <1>5, AppliedIs, AppliedIsNext
<1>7. InMemory => WK!FirstInserts' /\ WK!RecordsFollow(n)'
  <2>1. SUFFICES ASSUME InMemory
                 PROVE  WK!FirstInserts' /\ WK!RecordsFollow(n)'
    OBVIOUS
  <2>2. WK!FirstInserts /\ WK!RecordsFollow(n)
    BY <1>6, <2>1, LogInvNow
  <2>3. 1 .. line_no' - 1 = {}
    BY <1>1
  <2>4. WK!FirstInserts'
    BY <1>1, <2>2, <2>3 DEF WK!FirstInserts
  <2>5. WK!RecordsFollow(n)'
    BY <1>1, <2>2 DEF WK!RecordsFollow, WK!IsLast, WK!Record, WK!Keys, WK!Values
  <2>6. QED
    BY <2>4, <2>5
<1>8. ~InMemory => WK!LinesFollow(n)'
  <2>1. ~InMemory => WK!LinesFollow(n)
    BY <1>6, LogInvNow
  <2>2. QED
    BY <1>1, <2>1 DEF WK!LinesFollow, WK!WriteAhead
<1>9. QED
  BY <1>4, <1>6, <1>7, <1>8, LogInvNext

\* The line of an operation of main.
LEMMA ScriptLine ==
  ASSUME WK!ScriptSound, NEW e \in 1 .. Len(Script)
  PROVE  /\ WK!Line(Script[e]) \in WK!Lines
         /\ WK!Line(Script[e]).op = Script[e].op
         /\ WK!Line(Script[e]).key = Script[e].key
         /\ WK!Line(Script[e]).val = WK!Written(Script[e].val)
         /\ InMemory /\ Script[e].op # "DELETE" =>
              /\ WK!Line(Script[e]).val = Script[e].val
              /\ Script[e].val # "NULL"
<1> DEFINE Ops == [op : {"INSERT", "UPDATE", "DELETE"}, key : WK!Keys, val : WK!Values \cup {NullPointer}]
           o == Script[e]
<1>1. Script \in Seq(Ops)
  BY DEF WK!ScriptSound
<1>2. o \in Ops
  BY <1>1, EntryOf, Zenon
<1>3. /\ o = [op |-> o.op, key |-> o.key, val |-> o.val]
      /\ o.op \in {"INSERT", "UPDATE", "DELETE"} /\ o.key \in WK!Keys
      /\ o.val \in WK!Values \cup {NullPointer}
  BY <1>2
<1>4. WK!Line(o) = [op |-> o.op, key |-> o.key, val |-> WK!Written(o.val)]
  <2> HIDE DEF o
  <2>1. QED
    BY <1>3, LineOf
<1>5. WK!Written(o.val) \in WK!Values \cup {"NULL"}
  BY <1>3 DEF WK!Written
<1>6. InMemory /\ o.op # "DELETE" => o.val \notin {NullPointer, "NULL"}
  BY DEF WK!ScriptSound
<1>7. /\ WK!Line(o).op = o.op /\ WK!Line(o).key = o.key
      /\ WK!Line(o).val = WK!Written(o.val)
  BY <1>4
<1>8. WK!Line(o) \in WK!Lines
  BY <1>3, <1>4, <1>5 DEF WK!Lines
<1>9. QED
  BY <1>6, <1>7, <1>8 DEF WK!Written

\* commitOperation, first half: the log has a line more, and those that have
\* been applied are the same.
LEMMA CommitLogKeeps ==
  ASSUME WK!ScriptSound, WK!LogInv, WK!commit_log
  PROVE  WK!LogInv'
<1> DEFINE line == WK!Line(Script[line_no])
<1>1. /\ command = "commit" /\ line_no <= Len(Script)
      /\ command' = "apply" /\ line_no' = line_no /\ db' = db
      /\ wal' = Append(wal, line)
  BY DEF WK!commit_log, WK!writeToWal
<1>2. Len(Script) \in Nat
  BY DEF WK!ScriptSound
<1>3. /\ WK!LogKept /\ wal \in Seq(WK!Lines) /\ Len(wal) \in Nat
      /\ line_no \in 1 .. Len(Script)
  BY <1>1, <1>2, LineFields DEF WK!LogInv, WK!LogKept
<1>4. /\ line \in WK!Lines /\ line.op = Script[line_no].op /\ line.key = Script[line_no].key
      /\ InMemory /\ line.op # "DELETE" => line.val # "NULL"
  BY <1>3, ScriptLine
<1> HIDE DEF line
<1>5. /\ wal' \in Seq(WK!Lines) /\ Len(wal') = Len(wal) + 1
      /\ wal'[Len(wal')] = line
      /\ \A e \in 1 .. Len(wal) : wal'[e] = wal[e]
  <2>1. /\ Append(wal, line) \in Seq(WK!Lines)
        /\ Len(Append(wal, line)) = Len(wal) + 1
        /\ \A m \in 1 .. Len(wal) : Append(wal, line)[m] = wal[m]
        /\ Append(wal, line)[Len(wal) + 1] = line
    BY <1>3, <1>4, AppendIs, Zenon
  <2>2. QED
    BY <1>1, <2>1, Zenon
<1>6. WK!LogKept'
  <2>1. wal'[Len(wal')] = WK!Line(Script[line_no'])
    BY <1>1, <1>5 DEF line
  <2>2. Len(wal') > 0
    BY <1>3, <1>5
  <2>3. QED
    BY <1>1, <1>3, <1>5, <2>1, <2>2 DEF WK!LogKept, WK!Lines, WK!Keys, WK!Values, WK!Line, WK!Written
<1>7. PICK n \in Nat : n = Len(wal)
  BY <1>3
<1>8. WK!AppliedLines = n /\ WK!AppliedLines' = n
  BY <1>1, <1>3, <1>5, <1>7, AppliedIs, AppliedIsNext
<1>9. ASSUME InMemory
      PROVE  WK!FirstInserts' /\ WK!RecordsFollow(n)'
  <2>1. WK!FirstInserts /\ WK!RecordsFollow(n)
    BY <1>8, <1>9, LogInvNow
  <2>2. ASSUME NEW e \in 1 .. Len(wal')
        PROVE  /\ wal'[e].op # "DELETE" => wal'[e].val # "NULL"
               /\ wal'[e].op # "INSERT" => \E j \in 1 .. e - 1 : wal'[j].key = wal'[e].key
    <3>1. CASE e = Len(wal')
      <4>1. wal'[e] = line /\ e - 1 = Len(wal)
        BY <1>3, <1>5, <3>1
      <4>2. ASSUME line.op # "INSERT"
            PROVE  \E j \in 1 .. e - 1 : wal'[j].key = line.key
        <5>1. PICK p \in 1 .. line_no - 1 : Script[p].key = Script[line_no].key
          BY <1>3, <1>4, <1>9, <4>2 DEF WK!ScriptSound
        <5>2. PICK j \in 1 .. Len(wal) : wal[j].key = Script[p].key
          BY <1>1, <2>1, <5>1 DEF WK!FirstInserts
        <5>3. wal'[j] = wal[j]
          BY <1>5
        <5>4. QED
          BY <1>4, <4>1, <5>1, <5>2, <5>3
      <4>3. QED
        BY <1>4, <1>9, <4>1, <4>2
    <3>2. CASE e # Len(wal')
      <4>1. e \in 1 .. Len(wal) /\ wal'[e] = wal[e] /\ 1 .. e - 1 \subseteq 1 .. Len(wal)
        BY <1>3, <1>5, <3>2
      <4>2. /\ wal[e].op # "DELETE" => wal[e].val # "NULL"
            /\ wal[e].op # "INSERT" => \E j \in 1 .. e - 1 : wal[j].key = wal[e].key
        BY <2>1, <4>1 DEF WK!FirstInserts
      <4>3. \A j \in 1 .. e - 1 : wal'[j] = wal[j]
        BY <1>5, <4>1
      <4>4. QED
        BY <4>1, <4>2, <4>3
    <3>3. QED
      BY <3>1, <3>2
  <2>3. ASSUME NEW j \in 1 .. line_no' - 1
        PROVE  \E e \in 1 .. Len(wal') : wal'[e].key = Script[j].key
    <3>1. PICK e \in 1 .. Len(wal) : wal[e].key = Script[j].key
      BY <1>1, <2>1 DEF WK!FirstInserts
    <3>2. e \in 1 .. Len(wal') /\ wal'[e] = wal[e]
      BY <1>3, <1>5
    <3>3. QED
      BY <3>1, <3>2
  <2>4. WK!FirstInserts'
    BY <2>2, <2>3 DEF WK!FirstInserts
  <2>5. \A e \in 1 .. n : wal'[e] = wal[e] /\ (WK!IsLast(wal', n, e) <=> WK!IsLast(wal, n, e))
    <3>1. \A e \in 1 .. n : wal'[e] = wal[e]
      BY <1>5, <1>7
    <3>2. \A e \in 1 .. n : e + 1 .. n \subseteq 1 .. n
      OBVIOUS
    <3>3. QED
      BY <3>1, <3>2 DEF WK!IsLast
  <2>6. WK!RecordsFollow(n)'
    <3>1. db \in Seq(WK!Record) /\ \A m, o \in 1 .. Len(db) : db[m].key = db[o].key => m = o
      BY <2>1 DEF WK!RecordsFollow
    <3>2. \A e \in 1 .. n : \E m \in 1 .. Len(db) : db[m].key = wal'[e].key
      BY <2>1, <2>5 DEF WK!RecordsFollow
    <3>3. \A m \in 1 .. Len(db) : \E e \in 1 .. n :
            WK!RecordSays(db[m], wal'[e]) /\ WK!IsLast(wal', n, e)
      BY <2>1, <2>5 DEF WK!RecordsFollow
    <3>4. QED
      BY <1>1, <3>1, <3>2, <3>3 DEF WK!RecordsFollow
  <2>7. QED
    BY <2>4, <2>6
<1>10. ASSUME ~InMemory
       PROVE  WK!LinesFollow(n)'
  <2>1. WK!LinesFollow(n)
    BY <1>8, <1>10, LogInvNow
  <2>2. \A e \in 1 .. n : wal'[e] = wal[e] /\ (WK!IsLast(wal', n, e) <=> WK!IsLast(wal, n, e))
    <3>1. \A e \in 1 .. n : wal'[e] = wal[e]
      BY <1>5, <1>7
    <3>2. \A e \in 1 .. n : e + 1 .. n \subseteq 1 .. n
      OBVIOUS
    <3>3. QED
      BY <3>1, <3>2 DEF WK!IsLast
  <2>3. db \in Seq(WK!Lines) /\ WK!WriteAhead
    BY <2>1 DEF WK!LinesFollow
  <2>4. WK!WriteAhead'
    <3>1. \A m \in 1 .. Len(db) : \E e \in 1 .. Len(wal) : db[m] = wal[e]
      BY <1>10, <2>3 DEF WK!WriteAhead
    <3>2. \A e \in 1 .. Len(wal) : e \in 1 .. Len(wal') /\ wal'[e] = wal[e]
      BY <1>3, <1>5
    <3>3. \A m \in 1 .. Len(db) : \E e \in 1 .. Len(wal') : db[m] = wal'[e]
      BY <3>1, <3>2
    <3>4. QED
      BY <1>1, <3>3 DEF WK!WriteAhead
  <2>5. \A e \in 1 .. n :
          \E m \in 1 .. Len(db) : db[m].key = wal'[e].key /\ WK!IsLast(db, Len(db), m)
    BY <2>1, <2>2 DEF WK!LinesFollow
  <2>6. \A m \in 1 .. Len(db) :
          WK!IsLast(db, Len(db), m) /\ (\E j \in 1 .. n : wal'[j].key = db[m].key) =>
            \E e \in 1 .. n : db[m] = wal'[e] /\ WK!IsLast(wal', n, e)
    BY <2>1, <2>2 DEF WK!LinesFollow
  <2>7. QED
    BY <1>1, <2>3, <2>4, <2>5, <2>6 DEF WK!LinesFollow
<1>11. QED
  BY <1>6, <1>8, <1>9, <1>10, LogInvNext

\* commitOperation, second half: the operation is applied as its line says.
LEMMA CommitApplyKeeps ==
  ASSUME WK!ScriptSound, WK!LogInv, WK!commit_apply
  PROVE  WK!LogInv'
<1>1. /\ command = "apply" /\ command' = "commit"
      /\ line_no' = line_no + 1 /\ wal' = wal
      /\ db' = IF InMemory THEN WK!applyOperation(Script[line_no]) ELSE WK!applyToDB(Script[line_no])
  BY DEF WK!commit_apply, WK!Apply
<1>2. Len(Script) \in Nat
  BY DEF WK!ScriptSound
<1>3. /\ WK!LogKept /\ Len(wal) \in Nat /\ Len(wal) > 0
      /\ line_no \in 1 .. Len(Script) /\ wal[Len(wal)] = WK!Line(Script[line_no])
  BY <1>1, LineFields DEF WK!LogInv, WK!LogKept
<1>4. WK!LogKept'
  BY <1>1, <1>2, <1>3 DEF WK!LogKept, WK!Lines, WK!Keys, WK!Values
<1>5. PICK n \in Nat : n = Len(wal)
  BY <1>3
<1>6. n \in 1 .. Len(wal) /\ WK!AppliedLines = n - 1 /\ WK!AppliedLines' = n
  BY <1>1, <1>3, <1>5, AppliedIs, AppliedIsNext
<1>7. /\ wal[n] = WK!Line(Script[line_no])
      /\ wal[n].op = Script[line_no].op /\ wal[n].key = Script[line_no].key
      /\ InMemory /\ Script[line_no].op # "DELETE" => Script[line_no].val = wal[n].val
  BY <1>3, <1>5, ScriptLine
<1>8. ASSUME InMemory
      PROVE  WK!FirstInserts' /\ WK!RecordsFollow(n)'
  <2>1. WK!FirstInserts /\ WK!RecordsFollow(n - 1)
    BY <1>6, <1>8, LogInvNow
  <2>2. /\ wal[n].op # "DELETE" => wal[n].val # "NULL"
        /\ wal[n].op # "INSERT" => \E j \in 1 .. n - 1 : wal[j].key = wal[n].key
    BY <1>6, <2>1 DEF WK!FirstInserts
  <2>3. db' = WK!applyOperation(Script[line_no])
    BY <1>1, <1>8
  <2>4. WK!RecordsFollow(n)'
    BY <1>1, <1>3, <1>6, <1>7, <1>8, <2>1, <2>2, <2>3, OperationApplied
  <2>5. ASSUME NEW j \in 1 .. line_no' - 1
        PROVE  \E e \in 1 .. Len(wal) : wal[e].key = Script[j].key
    <3>1. CASE j = line_no
      BY <1>6, <1>7, <3>1
    <3>2. CASE j # line_no
      <4>1. j \in 1 .. line_no - 1
        BY <1>1, <1>3, <3>2
      <4>2. QED
        BY <1>1, <2>1, <4>1 DEF WK!FirstInserts
    <3>3. QED
      BY <3>1, <3>2
  <2>6. WK!FirstInserts'
    BY <1>1, <2>1, <2>5 DEF WK!FirstInserts
  <2>7. QED
    BY <2>4, <2>6
<1>9. ASSUME ~InMemory
      PROVE  WK!LinesFollow(n)'
  <2>1. WK!LinesFollow(n - 1)
    BY <1>6, <1>9, LogInvNow
  <2>2. db' = Append(db, wal[n])
    BY <1>1, <1>7, <1>9 DEF WK!applyToDB
  <2>3. n \in Nat \ {0}
    BY <1>6
  <2>4. wal[n] \in WK!Lines
    BY <1>3, <1>6, LineFields, Zenon
  <2>5. QED
    BY <1>1, <1>6, <1>9, <2>1, <2>2, <2>3, <2>4, LineApplied
<1>10. QED
  BY <1>4, <1>6, <1>8, <1>9, LogInvNext

\* A restart replays from the first line, and the memory starts empty.
LEMMA RestartKeeps ==
  ASSUME WK!ScriptSound, WK!LogInv, WK!restart
  PROVE  WK!LogInv'
<1>1. /\ command' = "replay" /\ line_no' = 1 /\ wal' = wal
      /\ db' = IF InMemory THEN << >> ELSE db
  BY DEF WK!restart
<1>2. WK!LogKept /\ Len(wal) \in Nat
  BY LineFields DEF WK!LogInv
<1>3. WK!LogKept'
  BY <1>1, <1>2 DEF WK!LogKept, WK!Lines, WK!Keys, WK!Values
<1>4. WK!AppliedLines' = 0 /\ 1 .. 0 = {}
  BY <1>1, AppliedIsNext
<1>5. ASSUME InMemory
      PROVE  WK!FirstInserts' /\ WK!RecordsFollow(0)'
  <2>1. WK!FirstInserts
    BY <1>5 DEF WK!LogInv
  <2>2. WK!FirstInserts'
    BY <1>1, <2>1 DEF WK!FirstInserts
  <2>3. db' = << >> /\ Len(db') = 0 /\ db' \in Seq(WK!Record)
    BY <1>1, <1>5
  <2>4. WK!RecordsFollow(0)'
    BY <1>4, <2>3 DEF WK!RecordsFollow
  <2>5. QED
    BY <2>2, <2>4
<1>6. ASSUME ~InMemory
      PROVE  WK!LinesFollow(0)'
  <2>1. db \in Seq(WK!Lines) /\ WK!WriteAhead
    BY <1>6 DEF WK!LogInv, WK!LinesFollow
  <2>2. db' = db
    BY <1>1, <1>6
  <2>3. WK!WriteAhead'
    BY <1>1, <2>1, <2>2 DEF WK!WriteAhead
  <2>4. QED
    BY <1>4, <2>1, <2>2, <2>3 DEF WK!LinesFollow
<1>7. QED
  BY <1>3, <1>4, <1>5, <1>6, LogInvNext

LEMMA LogInitially ==
  ASSUME WK!ScriptSound, WK!Init
  PROVE  WK!LogInv
<1>1. wal = << >> /\ db = << >> /\ command = "replay" /\ line_no = 1
  BY DEF WK!Init
<1>2. Len(wal) = 0 /\ Len(db) = 0 /\ 1 .. 0 = {}
  BY <1>1
<1>3. WK!LogKept
  BY <1>1, <1>2 DEF WK!LogKept
<1>4. WK!AppliedLines = 0
  BY <1>1, AppliedIs
<1>5. WK!FirstInserts
  BY <1>1, <1>2 DEF WK!FirstInserts
<1>6. WK!RecordsFollow(0)
  BY <1>1, <1>2 DEF WK!RecordsFollow
<1>7. WK!LinesFollow(0)
  BY <1>1, <1>2 DEF WK!LinesFollow, WK!WriteAhead
<1>8. QED
  BY <1>3, <1>4, <1>5, <1>6, <1>7 DEF WK!LogInv

LEMMA LogKeeps ==
  ASSUME WK!ScriptSound, WK!LogInv, [WK!Next]_WK!vars
  PROVE  WK!LogInv'
<1>1. CASE WK!replay_line
  BY <1>1, ReplayLineKeeps
<1>2. CASE WK!replay_end
  BY <1>2, ReplayEndKeeps
<1>3. CASE WK!commit_log
  BY <1>3, CommitLogKeeps
<1>4. CASE WK!commit_apply
  BY <1>4, CommitApplyKeeps
<1>5. CASE WK!restart
  BY <1>5, RestartKeeps
<1>6. CASE UNCHANGED WK!vars
  <2>1. wal' = wal /\ db' = db /\ command' = command /\ line_no' = line_no
    BY <1>6 DEF WK!vars
  <2>2. WK!LogKept'
    BY <2>1 DEF WK!LogInv, WK!LogKept, WK!Lines, WK!Keys, WK!Values, WK!Line, WK!Written
  <2>3. PICK n : n = WK!AppliedLines
    OBVIOUS
  <2>4. WK!AppliedLines' = n
    BY <2>1, <2>3 DEF WK!AppliedLines
  <2>5. /\ InMemory => WK!FirstInserts /\ WK!RecordsFollow(n)
        /\ ~InMemory => WK!LinesFollow(n)
    BY <2>3, LogInvNow
  <2>6. WK!FirstInserts => WK!FirstInserts'
    BY <2>1 DEF WK!FirstInserts
  <2>7. WK!RecordsFollow(n) => WK!RecordsFollow(n)'
    BY <2>1 DEF WK!RecordsFollow, WK!IsLast, WK!Record, WK!Keys, WK!Values
  <2>8. WK!LinesFollow(n) => WK!LinesFollow(n)'
    BY <2>1 DEF WK!LinesFollow, WK!WriteAhead
  <2>9. QED
    BY <2>2, <2>4, <2>5, <2>6, <2>7, <2>8, LogInvNext
<1>7. QED
  BY <1>1, <1>2, <1>3, <1>4, <1>5, <1>6 DEF WK!Next

\* A key has one last line.
LEMMA LastIsUnique ==
  ASSUME NEW log, NEW n \in Nat, NEW e \in 1 .. n, NEW j \in 1 .. n,
         WK!IsLast(log, n, e), WK!IsLast(log, n, j), log[e].key = log[j].key
  PROVE  e = j
<1>1. ~(e < j)
  <2>1. e < j => j \in e + 1 .. n
    OBVIOUS
  <2>2. QED
    BY <2>1 DEF WK!IsLast
<1>2. ~(j < e)
  <2>1. j < e => e \in j + 1 .. n
    OBVIOUS
  <2>2. QED
    BY <2>1 DEF WK!IsLast
<1>3. QED
  BY <1>1, <1>2

\* What the invariant is for: between commits all lines have been applied.
LEMMA LogInvSuffices ==
  ASSUME WK!ScriptSound, WK!LogInv
  PROVE  WK!LogsAgree
<1>1. WK!LogKept /\ Len(wal) \in Nat
  BY LineFields DEF WK!LogInv
<1>2. WK!WriteAhead
  <2>1. CASE InMemory
    BY <2>1 DEF WK!WriteAhead
  <2>2. CASE ~InMemory
    BY <2>2 DEF WK!LogInv, WK!LinesFollow
  <2>3. QED
    BY <2>1, <2>2
<1>3. ASSUME command = "commit", NEW key \in WK!Keys
      PROVE  (IF InMemory THEN WK!Printed(key) ELSE WK!ValueIn(db, key)) = WK!ValueIn(wal, key)
  <2>1. PICK n \in Nat : n = Len(wal)
    BY <1>1
  <2>2. WK!AppliedLines = n
    BY <1>3, <2>1, AppliedIs
  <2>3. CASE InMemory
    <3>1. WK!RecordsFollow(n)
      BY <2>2, <2>3, LogInvNow
    <3>2. ASSUME NEW m \in 1 .. Len(db), db[m].key = key, db[m].valid = 1
          PROVE  db[m].value \in WK!ValueIn(wal, key)
      <4>1. PICK e \in 1 .. n : WK!RecordSays(db[m], wal[e]) /\ WK!IsLast(wal, n, e)
        BY <3>1 DEF WK!RecordsFollow
      <4>2. wal[e].key = key /\ wal[e].op # "DELETE" /\ wal[e].val = db[m].value
        BY <3>2, <4>1 DEF WK!RecordSays
      <4>3. QED
        BY <2>1, <4>1, <4>2 DEF WK!ValueIn
    <3>3. ASSUME NEW e \in 1 .. n, wal[e].key = key, WK!IsLast(wal, n, e), wal[e].op # "DELETE"
          PROVE  wal[e].val \in WK!Printed(key)
      <4>1. PICK m \in 1 .. Len(db) : db[m].key = key
        BY <3>1, <3>3 DEF WK!RecordsFollow
      <4>2. PICK j \in 1 .. n : WK!RecordSays(db[m], wal[j]) /\ WK!IsLast(wal, n, j)
        BY <3>1 DEF WK!RecordsFollow
      <4>3. e = j
        BY <3>3, <4>1, <4>2, LastIsUnique DEF WK!RecordSays
      <4>4. db[m].valid = 1 /\ db[m].value = wal[e].val
        BY <3>3, <4>2, <4>3 DEF WK!RecordSays
      <4>5. QED
        BY <4>1, <4>4 DEF WK!Printed
    <3>4. WK!Printed(key) \subseteq WK!ValueIn(wal, key)
      BY <3>2 DEF WK!Printed
    <3>5. WK!ValueIn(wal, key) \subseteq WK!Printed(key)
      BY <2>1, <3>3 DEF WK!ValueIn
    <3>6. QED
      BY <2>3, <3>4, <3>5
  <2>4. CASE ~InMemory
    <3>1. WK!LinesFollow(n) /\ Len(db) \in Nat
      BY <2>2, <2>4, LogInvNow DEF WK!LinesFollow
    <3>2. ASSUME NEW m \in 1 .. Len(db), db[m].key = key, WK!IsLast(db, Len(db), m),
                 db[m].op # "DELETE"
          PROVE  db[m].val \in WK!ValueIn(wal, key)
      <4>1. PICK j \in 1 .. n : db[m] = wal[j]
        BY <1>2, <2>1, <2>4 DEF WK!WriteAhead
      <4>2. PICK e \in 1 .. n : db[m] = wal[e] /\ WK!IsLast(wal, n, e)
        BY <3>1, <3>2, <4>1 DEF WK!LinesFollow
      <4>3. QED
        BY <2>1, <3>2, <4>2 DEF WK!ValueIn
    <3>3. ASSUME NEW e \in 1 .. n, wal[e].key = key, WK!IsLast(wal, n, e), wal[e].op # "DELETE"
          PROVE  wal[e].val \in WK!ValueIn(db, key)
      <4>1. PICK m \in 1 .. Len(db) : db[m].key = key /\ WK!IsLast(db, Len(db), m)
        BY <3>1, <3>3 DEF WK!LinesFollow
      <4>2. PICK j \in 1 .. n : db[m] = wal[j] /\ WK!IsLast(wal, n, j)
        BY <3>1, <3>3, <4>1 DEF WK!LinesFollow
      <4>3. e = j
        BY <3>3, <4>1, <4>2, LastIsUnique
      <4>4. QED
        BY <3>3, <4>1, <4>2, <4>3 DEF WK!ValueIn
    <3>4. WK!ValueIn(db, key) \subseteq WK!ValueIn(wal, key)
      <4>1. \A v \in WK!ValueIn(db, key) : v \in WK!ValueIn(wal, key)
        <5>1. TAKE v \in WK!ValueIn(db, key)
        <5>2. PICK m \in 1 .. Len(db) :
                /\ db[m].key = key /\ WK!IsLast(db, Len(db), m) /\ db[m].op # "DELETE"
                /\ v = db[m].val
          BY DEF WK!ValueIn
        <5>3. QED
          BY <3>2, <5>2
      <4>2. QED
        BY <4>1
    <3>5. WK!ValueIn(wal, key) \subseteq WK!ValueIn(db, key)
      <4>1. \A v \in WK!ValueIn(wal, key) : v \in WK!ValueIn(db, key)
        <5>1. TAKE v \in WK!ValueIn(wal, key)
        <5>2. PICK e \in 1 .. n :
                /\ wal[e].key = key /\ WK!IsLast(wal, n, e) /\ wal[e].op # "DELETE"
                /\ v = wal[e].val
          BY <2>1 DEF WK!ValueIn
        <5>3. QED
          BY <3>3, <5>2
      <4>2. QED
        BY <4>1
    <3>6. QED
      BY <2>4, <3>4, <3>5
  <2>5. QED
    BY <2>3, <2>4
<1>4. QED
  BY <1>2, <1>3 DEF WK!LogsAgree, WK!Recovered

\* The logged stores: after a replay and between commits the data file, or the
\* memory, says what the log says on every key, and the data file holds no
\* operation the log does not, for every list of operations that ScriptSound
\* admits and any number of runs cut off between two writes.
THEOREM LogsAgreeHold ==
  ASSUME WK!ScriptSound
  PROVE  WK!Spec => []WK!LogsAgree
<1>1. WK!Init => WK!LogInv
  BY LogInitially
<1>2. WK!LogInv /\ [WK!Next]_WK!vars => WK!LogInv'
  BY LogKeeps
<1>3. WK!LogInv => WK!LogsAgree
  BY LogInvSuffices
<1>4. QED
  BY <1>1, <1>2, <1>3, PTL DEF WK!Spec
=============================================================================
