------------------------------ MODULE KvStore ------------------------------
(***************************************************************************)
(* The store of PROFILING/TASK/uds_kv_server_perf_top.c, shared by the     *)
(* threads that serve its clients: set_value runs under store_lock,        *)
(* get_value does not, and its caller prints the value afterwards.         *)
(* With one thread it is the store of SOCKET/KEY_VALUE_UDS/                *)
(* uds_kv_server.c and of libkvstore.c.  Stores become visible in the      *)
(* order of the program, as on the x86 machines the programs are run on.   *)
(***************************************************************************)
EXTENDS Naturals, Sequences

CONSTANTS
  Handler,    \* the threads
  Key,
  Val,
  MAX_ITEMS,
  MaxCalls,   \* bound: the requests of one thread
  None,       \* NOTFOUND
  Torn        \* a value that strncpy is in the middle of copying

ASSUME KvAssumption ==
  /\ None \notin Handler
  /\ MAX_ITEMS \in Nat /\ MaxCalls \in Nat

VARIABLES
  store,       \* store[0] .. store[MAX_ITEMS - 1]
  store_count,
  store_lock,
  hpc,
  req,         \* a thread's request: its key and, for SET, its value
  at,          \* the entry it has found, 0 for none
  calls,
  answers,     \* auxiliary: what a GET in progress may answer
  answered,    \* auxiliary: what the last GET of a thread did answer
  current      \* auxiliary: the last complete SET that the store kept

kvVars == <<store, store_count, store_lock, hpc, req, at, calls, answers, answered, current>>

Blank == [key |-> None, val |-> None]

KvInit ==
  /\ store = [n \in 1 .. MAX_ITEMS |-> Blank]
  /\ store_count = 0
  /\ store_lock = None
  /\ hpc = [h \in Handler |-> "read"]
  /\ req = [h \in Handler |-> Blank]
  /\ at = [h \in Handler |-> 0]
  /\ calls = [h \in Handler |-> 0]
  /\ answers = [h \in Handler |-> {}]
  /\ answered = [h \in Handler |-> None]
  /\ current = [k \in Key |-> None]

Goto(h, label) == hpc' = [hpc EXCEPT ![h] = label]

\* The loops over the entries below store_count.
Position(k) ==
  IF \E n \in 1 .. store_count : store[n].key = k
  THEN CHOOSE n \in 1 .. store_count : store[n].key = k /\ \A m \in 1 .. n - 1 : store[m].key # k
  ELSE 0

Setting(h, k) == hpc[h] \in {"lock", "walk", "copy", "count"} /\ req[h].key = k
Getting(h, k) == hpc[h] \in {"get", "print"} /\ req[h].key = k
-----------------------------------------------------------------------------
\* client_handler reads "SET k v"; a GET that is under way may see v, or a
\* mixture.
read_set(h, k, v) ==
  /\ hpc[h] = "read"
  /\ calls[h] < MaxCalls
  /\ calls' = [calls EXCEPT ![h] = @ + 1]
  /\ req' = [req EXCEPT ![h] = [key |-> k, val |-> v]]
  /\ answers' = [g \in Handler |-> IF Getting(g, k) THEN answers[g] \cup {v, Torn} ELSE answers[g]]
  /\ Goto(h, "lock")
  /\ UNCHANGED <<store, store_count, store_lock, at, answered, current>>

\* Variant of set_value: the mutex is not taken.
set_value_unlocked(h) ==
  /\ hpc[h] = "lock"
  /\ Goto(h, "walk")
  /\ UNCHANGED <<store, store_count, store_lock, req, at, calls, answers, answered, current>>

set_value(h) ==
  /\ hpc[h] = "lock"
  /\ store_lock = None
  /\ store_lock' = h
  /\ Goto(h, "walk")
  /\ UNCHANGED <<store, store_count, req, at, calls, answers, answered, current>>

\* The key is found and its value is being overwritten; or there is room,
\* and the key and the value are copied behind the last entry; or the store
\* is full and nothing happens.
walk(h) ==
  /\ hpc[h] = "walk"
  /\ LET n == Position(req[h].key) IN
       \/ /\ n # 0
          /\ store' = [store EXCEPT ![n].val = Torn]
          /\ at' = [at EXCEPT ![h] = n]
          /\ Goto(h, "copy")
       \/ /\ n = 0 /\ store_count < MAX_ITEMS
          /\ store' = [store EXCEPT ![store_count + 1] = req[h]]
          /\ Goto(h, "count")
          /\ UNCHANGED at
       \/ /\ n = 0 /\ store_count = MAX_ITEMS
          /\ Goto(h, "unlock")
          /\ UNCHANGED <<store, at>>
  /\ UNCHANGED <<store_count, store_lock, req, calls, answers, answered, current>>

\* The copy is complete.
copy(h) ==
  /\ hpc[h] = "copy"
  /\ store' = [store EXCEPT ![at[h]].val = req[h].val]
  /\ current' = [current EXCEPT ![req[h].key] = req[h].val]
  /\ Goto(h, "unlock")
  /\ UNCHANGED <<store_count, store_lock, req, at, calls, answers, answered>>

\* store_count++ publishes the entry.
count(h) ==
  /\ hpc[h] = "count"
  /\ store_count' = store_count + 1
  /\ current' = [current EXCEPT ![req[h].key] = req[h].val]
  /\ Goto(h, "unlock")
  /\ UNCHANGED <<store, store_lock, req, at, calls, answers, answered>>

\* The unlock, and "OK" to the client.
unlock(h) ==
  /\ hpc[h] = "unlock"
  /\ store_lock' = None
  /\ Goto(h, "read")
  /\ UNCHANGED <<store, store_count, req, at, calls, answers, answered, current>>
-----------------------------------------------------------------------------
\* client_handler reads "GET k".
read_get(h, k) ==
  /\ hpc[h] = "read"
  /\ calls[h] < MaxCalls
  /\ calls' = [calls EXCEPT ![h] = @ + 1]
  /\ req' = [req EXCEPT ![h] = [key |-> k, val |-> None]]
  /\ answers' = [answers EXCEPT ![h] =
       {current[k]} \cup UNION {{req[g].val, Torn} : g \in {f \in Handler : Setting(f, k)}}]
  /\ Goto(h, "get")
  /\ UNCHANGED <<store, store_count, store_lock, at, answered, current>>

get_value(h) ==
  /\ hpc[h] = "get"
  /\ at' = [at EXCEPT ![h] = Position(req[h].key)]
  /\ Goto(h, "print")
  /\ UNCHANGED <<store, store_count, store_lock, req, calls, answers, answered, current>>

\* dprintf reads the value behind the pointer that get_value returned.
print(h) ==
  /\ hpc[h] = "print"
  /\ answered' = [answered EXCEPT ![h] = IF at[h] = 0 THEN None ELSE store[at[h]].val]
  /\ Goto(h, "read")
  /\ UNCHANGED <<store, store_count, store_lock, req, at, calls, answers, current>>

client_handler(h) ==
  \/ \E k \in Key : read_get(h, k) \/ \E v \in Val : read_set(h, k, v)
  \/ set_value(h) \/ walk(h) \/ copy(h) \/ count(h) \/ unlock(h)
  \/ get_value(h) \/ print(h)

KvNext == \E h \in Handler : client_handler(h)

KvSpec == KvInit /\ [][KvNext]_kvVars
-----------------------------------------------------------------------------
KvTypeOK ==
  /\ store \in [1 .. MAX_ITEMS -> [key : Key \cup {None}, val : Val \cup {None, Torn}]]
  /\ store_count \in 0 .. MAX_ITEMS
  /\ store_lock \in Handler \cup {None}
  /\ hpc \in [Handler -> {"read", "lock", "walk", "copy", "count", "unlock", "get", "print"}]
  /\ req \in [Handler -> [key : Key \cup {None}, val : Val \cup {None}]]
  /\ at \in [Handler -> 0 .. MAX_ITEMS]
  /\ calls \in [Handler -> 0 .. MaxCalls]
  /\ answers \in [Handler -> SUBSET (Val \cup {None, Torn})]
  /\ answered \in [Handler -> Val \cup {None, Torn}]
  /\ current \in [Key -> Val \cup {None}]

\* A GET answers the value of the last SET that was complete when the GET
\* came, or of one that overlaps it; a mixture only if one does overlap.
ReadsAreRegular ==
  \A h \in Handler : hpc[h] = "read" /\ answers[h] # {} => answered[h] \in answers[h]

\* The entries below store_count have different keys, and outside of
\* set_value they hold the last values that were set.
KeysUnique ==
  /\ \A m, n \in 1 .. store_count : store[m].key = store[n].key => m = n
  /\ store_lock = None => \A n \in 1 .. store_count : store[n].val = current[store[n].key]

\* uds_kv_server_perf_top.c: a GET answers the last value set or one being
\* set, and a key has one entry with the value last set.
StoreIsRegular == KvTypeOK /\ ReadsAreRegular /\ KeysUnique
-----------------------------------------------------------------------------
(* The proofs' inductive invariant.                                        *)

\* The lock is held exactly inside of set_value, and a request is whole.
SetDiscipline ==
  \A h \in Handler :
    /\ store_lock = h <=> hpc[h] \in {"walk", "copy", "count", "unlock"}
    /\ hpc[h] # "read" => req[h].key \in Key
    /\ hpc[h] \in {"lock", "walk", "copy", "count"} => req[h].val \in Val
    /\ hpc[h] = "copy" => at[h] \in 1 .. store_count /\ store[at[h]].key = req[h].key
    /\ hpc[h] = "count" =>
         /\ store_count < MAX_ITEMS
         /\ store[store_count + 1] = req[h]
         /\ \A n \in 1 .. store_count : store[n].key # req[h].key

\* An entry holds what was last set, or the copy into it is under way.
EntriesCurrent ==
  /\ \A n \in 1 .. store_count :
       /\ store[n].key \in Key
       /\ \/ store[n].val = current[store[n].key]
          \/ store[n].val = Torn /\ \E h \in Handler : hpc[h] = "copy" /\ at[h] = n
  /\ \A m, n \in 1 .. store_count : store[m].key = store[n].key => m = n
  /\ \A k \in Key : current[k] # None => \E n \in 1 .. store_count : store[n].key = k

\* What a GET under way may answer covers whatever it can still find.
GetCovered ==
  \A h \in Handler :
    /\ hpc[h] \in {"get", "print"} =>
         /\ current[req[h].key] \in answers[h]
         /\ \A g \in Handler : Setting(g, req[h].key) => {req[g].val, Torn} \subseteq answers[h]
    /\ hpc[h] = "print" =>
         \/ at[h] = 0 /\ None \in answers[h]
         \/ at[h] \in 1 .. store_count /\ store[at[h]].key = req[h].key
    /\ hpc[h] \notin {"get", "print"} /\ answers[h] # {} => answered[h] \in answers[h]

KvInv == KvTypeOK /\ SetDiscipline /\ EntriesCurrent /\ GetCovered
=============================================================================
