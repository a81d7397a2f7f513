-------------------------- MODULE MvccStoreProofs --------------------------
(***************************************************************************)
(* For any threads, keys, values and table sizes the MVCC store serves     *)
(* snapshot reads and lets the first committer win; it implements snapshot *)
(* isolation, and its hash table keeps every key in one slot.              *)
(***************************************************************************)
EXTENDS MvccStore, TLAPS, WellFoundedInduction

\* A non-empty set of naturals has the least element that MinOf picks: the
\* sorted lock order and the probe of get_or_create_key are well defined.
LEMMA MinOfProperty ==
  ASSUME NEW S \in SUBSET Nat, S # {}
  PROVE  /\ MinOf(S) \in S
         /\ \A y \in S : MinOf(S) <= y
<1> DEFINE R == {ss \in Nat \X Nat : ss[1] < ss[2]}
<1>1. IsWellFoundedOn(R, Nat)
  BY NatLessThanWellFounded, Zenon DEF OpToRel
<1>2. PICK x \in S : \A y \in S : ~(<<y, x>> \in R)
  BY <1>1, WFMin, Zenon
<1>3. ASSUME NEW y \in S
      PROVE  x <= y
  <2>1. x \in Nat /\ y \in Nat
    OBVIOUS
  <2>2. ~(y < x)
    <3>1. y < x => <<y, x>> \in R
      BY <2>1
    <3>2. QED
      BY <1>2, <3>1
  <2>3. QED
    BY <2>1, <2>2
<1>4. QED
  BY <1>3, Zenon DEF MinOf

\* What ke->versions = v does to the list.
LEMMA PushFacts ==
  ASSUME NEW list \in Seq(Version), NEW v \in Version
  PROVE  /\ Push(list, v) \in Seq(Version)
         /\ Len(Push(list, v)) = Len(list) + 1
         /\ Push(list, v)[1] = v
         /\ \A i \in 1 .. Len(list) : Push(list, v)[i + 1] = list[i]
         /\ \A i \in 2 .. Len(list) + 1 : Push(list, v)[i] = list[i - 1]
BY DEF Push

\* The elements of a version list are versions.
LEMMA ElementType ==
  ASSUME NEW list \in Seq(Version), NEW i \in 1 .. Len(list)
  PROVE  /\ list[i] \in Version
         /\ list[i].commit_ts \in Nat
         /\ list[i].value \in Value
         /\ list[i].writer \in Thread
<1>1. list[i] \in Version
  OBVIOUS
<1>2. QED
  BY <1>1 DEF Version

\* The walk of txn_read returns a value or "".
LEMMA ReadAtType ==
  ASSUME NEW list \in Seq(Version), NEW ts \in Nat
  PROVE  ReadAt(list, ts) \in Value \cup {None}
<1> DEFINE visible == {i \in 1 .. Len(list) : list[i].commit_ts <= ts}
<1>1. CASE visible = {}
  BY <1>1 DEF ReadAt
<1>2. CASE visible # {}
  <2>1. visible \in SUBSET Nat /\ visible \subseteq 1 .. Len(list)
    OBVIOUS
  <2> HIDE DEF visible
  <2>2. MinOf(visible) \in 1 .. Len(list)
    BY <1>2, <2>1, MinOfProperty, Zenon
  <2>3. list[MinOf(visible)].value \in Value
    BY <2>2, ElementType
  <2>4. QED
    BY <1>2, <2>3 DEF ReadAt, visible
<1>3. QED
  BY <1>1, <1>2

\* A version newer than the snapshot is skipped by the walk of txn_read.
LEMMA ReadAtPush ==
  ASSUME NEW list \in Seq(Version), NEW v \in Version, NEW ts \in Nat,
         v.commit_ts > ts
  PROVE  ReadAt(Push(list, v), ts) = ReadAt(list, ts)
<1> DEFINE new == Push(list, v)
           old == {i \in 1 .. Len(list) : list[i].commit_ts <= ts}
           vis == {i \in 1 .. Len(new) : new[i].commit_ts <= ts}
<1>0. Len(list) \in Nat
  OBVIOUS
<1>1. /\ Len(new) = Len(list) + 1
      /\ new[1] = v
      /\ \A i \in 1 .. Len(list) : new[i + 1] = list[i]
      /\ \A i \in 2 .. Len(list) + 1 : new[i] = list[i - 1]
  BY PushFacts, Zenon
<1>2. v.commit_ts \in Nat
  BY DEF Version
<1>3. 1 \notin vis
  BY <1>0, <1>1, <1>2
<1>4. \A i \in vis : i - 1 \in old
  <2> TAKE i \in vis
  <2>1. i \in 2 .. Len(list) + 1
    BY <1>0, <1>1, <1>3
  <2>2. QED
    BY <1>0, <1>1, <2>1
<1>5. \A i \in old : i + 1 \in vis
  BY <1>0, <1>1
<1>6. CASE old = {}
  BY <1>4, <1>6 DEF ReadAt
<1>7. CASE old # {}
  <2>0. old \in SUBSET Nat /\ vis \in SUBSET Nat
    BY <1>0, <1>1
  <2>1. vis # {}
    BY <1>5, <1>7
  <2>2. /\ MinOf(old) \in old /\ \A y \in old : MinOf(old) <= y
        /\ MinOf(vis) \in vis /\ \A y \in vis : MinOf(vis) <= y
    BY <1>7, <2>0, <2>1, MinOfProperty, Zenon
  <2>3. MinOf(vis) = MinOf(old) + 1
    <3>1. MinOf(vis) <= MinOf(old) + 1
      BY <1>5, <2>2
    <3>2. MinOf(old) <= MinOf(vis) - 1
      BY <1>4, <2>2
    <3>3. QED
      BY <3>1, <3>2, <2>2, <2>0
  <2>4. new[MinOf(vis)] = list[MinOf(old)]
    BY <2>2, <2>3, <1>1
  <2>5. QED
    BY <1>7, <2>1, <2>4 DEF ReadAt
<1>8. QED
  BY <1>6, <1>7
-----------------------------------------------------------------------------
LEMMA InitInv == Init => IInv
<1> SUFFICES ASSUME Init PROVE IInv
  OBVIOUS
<1> USE StoreAssumption DEF Init
<1>1. TypeOK
  <2>1. << >> \in Seq(Version)
    OBVIOUS
  <2>2. [s \in Slot |-> << >>] \in [Slot -> Seq(Version)]
    BY <2>1
  <2>3. QED
    BY <2>2, Zenon DEF TypeOK
<1>2. LockDiscipline /\ Validated /\ LocalInv
  BY DEF LockDiscipline, Validated, LocalInv
<1>3. HistAgrees
  BY DEF HistAgrees, Installing
<1>4. ClockInv
  BY DEF ClockInv
<1>5. SnapshotReads /\ FirstCommitterWins
  BY DEF SnapshotReads, FirstCommitterWins
<1>6. QED
  BY <1>1, <1>2, <1>3, <1>4, <1>5 DEF IInv

\* The slot that get_or_create_key returns is a slot of store[].
LEMMA SlotOfType ==
  ASSUME NEW k \in Key, TypeOK, ProbeHits(k) # {}
  PROVE  SlotOf(k) \in Slot
<1>1. ProbeHits(k) \in SUBSET Nat
  BY StoreAssumption DEF ProbeHits
<1>2. MinOf(ProbeHits(k)) \in Nat
  BY <1>1, MinOfProperty
<1>3. HashKey[k] \in Nat /\ MaxKeys \in Nat \ {0}
  BY StoreAssumption DEF Slot
<1>4. QED
  BY <1>2, <1>3 DEF SlotOf, Slot

\* The fields of the versions of a history.
LEMMA HistTyped ==
  ASSUME IInv, NEW s \in Slot, NEW i \in 1 .. Len(hist[s])
  PROVE  hist[s][i].commit_ts \in Nat /\ hist[s][i].writer \in Thread
BY ElementType DEF IInv, TypeOK

\* Steps that leave histories, reads and start timestamps alone keep what IInv
\* says of them.
LEMMA QuietStep ==
  ASSUME IInv, UNCHANGED <<start_ts, hist, reads>>,
         global_ts' \in {global_ts, global_ts + 1},
         \A u \in Thread : pc'[u] = "new" => pc[u] = "new"
  PROVE  ClockInv' /\ SnapshotReads' /\ FirstCommitterWins'
<1>1. SnapshotReads' /\ FirstCommitterWins'
  BY DEF IInv, SnapshotReads, FirstCommitterWins
<1>2. global_ts \in Nat /\ start_ts \in [Thread -> Nat]
  BY DEF IInv, TypeOK
<1>3. \A u \in Thread : start_ts'[u] < global_ts'
  BY <1>2 DEF IInv, ClockInv
<1>4. \A s \in Slot : \A i \in 1 .. Len(hist[s]) :
        hist[s][i].commit_ts < global_ts' /\ pc'[hist[s][i].writer] # "new"
  BY <1>2, HistTyped DEF IInv, ClockInv
<1>5. QED
  BY <1>1, <1>3, <1>4 DEF IInv, ClockInv

\* Steps that touch neither the lists nor what is being installed keep the lag
\* between lists and histories.
LEMMA SameLists ==
  ASSUME IInv, UNCHANGED <<versions, hist>>,
         \A u \in Thread, s \in Slot :
            /\ Installing(u, s)' <=> Installing(u, s)
            /\ Installing(u, s) => NewVersion(u, s, commit_ts[u])' = NewVersion(u, s, commit_ts[u])
  PROVE  HistAgrees'
BY DEF IInv, HistAgrees

LEMMA CreateStep ==
  ASSUME IInv, NEW t \in Thread, create_txn(t)
  PROVE  IInv'
<1> USE DEF create_txn, store, aux
<1>1. TypeOK'
  BY DEF IInv, TypeOK
<1>2. LockDiscipline' /\ LocalInv'
  BY DEF IInv, TypeOK, LockDiscipline, LocalInv
<1>3. HistAgrees'
  BY DEF IInv, TypeOK, HistAgrees, Installing, NewVersion
<1>4. ClockInv'
  <2>1. global_ts \in Nat /\ start_ts \in [Thread -> Nat]
    BY DEF IInv, TypeOK
  <2>2. \A u \in Thread : start_ts'[u] < global_ts'
    BY <2>1 DEF IInv, ClockInv
  <2>3. \A s \in Slot : \A i \in 1 .. Len(hist[s]) :
          hist[s][i].commit_ts < global_ts' /\ pc'[hist[s][i].writer] # "new"
    BY <2>1, HistTyped DEF IInv, ClockInv, TypeOK
  <2>4. QED
    BY <2>2, <2>3 DEF IInv, ClockInv
<1>5. Validated'
  BY DEF IInv, TypeOK, Validated
<1>6. SnapshotReads'
  BY DEF IInv, TypeOK, LocalInv, SnapshotReads
<1>7. FirstCommitterWins'
  BY DEF IInv, TypeOK, ClockInv, FirstCommitterWins
<1>8. QED
  BY <1>1, <1>2, <1>3, <1>4, <1>5, <1>6, <1>7 DEF IInv

\* The calls and steps that neither lock, stamp nor install.
LEMMA CallStep ==
  ASSUME IInv, NEW t \in Thread,
         \/ create_txn_full(t)
         \/ txn_commit_read_only(t)
         \/ txn_commit(t)
         \/ txn_explicit_abort(t)
         \/ \E k \in Key : store_full(t, k)
         \/ commit_done(t)
         \/ conflict_done(t)
  PROVE  IInv'
<1> USE DEF create_txn_full, txn_commit_read_only, txn_commit, txn_explicit_abort,
            store_full, commit_done, conflict_done, store, txn, aux
<1>1. TypeOK'
  <2>1. CASE create_txn_full(t)
    BY <2>1 DEF IInv, TypeOK
  <2>2. CASE txn_commit_read_only(t)
    BY <2>2 DEF IInv, TypeOK
  <2>3. CASE txn_commit(t)
    BY <2>3 DEF IInv, TypeOK
  <2>4. CASE txn_explicit_abort(t) \/ conflict_done(t)
    <3>1. writes' \in [Thread -> [Slot -> Value \cup {None}]]
      BY <2>4 DEF IInv, TypeOK
    <3>2. QED
      BY <2>4, <3>1, Zenon DEF IInv, TypeOK
  <2>5. CASE \E k \in Key : store_full(t, k)
    BY <2>5 DEF IInv, TypeOK
  <2>6. CASE commit_done(t)
    BY <2>6 DEF IInv, TypeOK
  <2>7. QED
    BY <2>1, <2>2, <2>3, <2>4, <2>5, <2>6, Zenon
<1>2. LockDiscipline'
  <2>1. \A s \in Slot : owner[s] = t => pc'[t] \in {"lock", "stamp", "install", "unlock", "fail"}
    BY StoreAssumption DEF IInv, TypeOK, LockDiscipline, Held
  <2>2. \A s \in Slot : owner'[s] # None =>
          pc'[owner'[s]] \in {"lock", "stamp", "install", "unlock", "fail"}
    BY <2>1 DEF IInv, TypeOK, LockDiscipline
  <2>3. \A u \in Thread : pc'[u] \in {"stamp", "install"} =>
          u # t /\ pc[u] = pc'[u] /\ writes'[u] = writes[u]
    BY DEF IInv, TypeOK
  <2>4. LockDiscipline /\ UNCHANGED owner
    BY DEF IInv
  <2> HIDE DEF create_txn_full, txn_commit_read_only, txn_commit, txn_explicit_abort,
               store_full, commit_done, conflict_done
  <2>5. ASSUME NEW u \in Thread, pc'[u] \in {"stamp", "install"},
               NEW s \in Slot, writes'[u][s] # None
        PROVE  owner'[s] = u
    <3>1. pc[u] \in {"stamp", "install"} /\ writes[u][s] # None
      BY <2>3, <2>5
    <3>2. QED
      BY <2>4, <3>1 DEF LockDiscipline
  <2>6. QED
    BY <2>2, <2>5 DEF LockDiscipline
<1>3. LocalInv'
  BY Zenon DEF IInv, TypeOK, LocalInv
<1>7. Validated'
  <2>1. \A u \in Thread : pc'[u] = "stamp" =>
          pc[u] = "stamp" /\ writes'[u] = writes[u]
    BY DEF IInv, TypeOK
  <2>2. QED
    BY <2>1 DEF IInv, Validated
<1>4. HistAgrees'
  <2>1. \A u \in Thread, s \in Slot :
          /\ Installing(u, s)' <=> Installing(u, s)
          /\ Installing(u, s) => NewVersion(u, s, commit_ts[u])' = NewVersion(u, s, commit_ts[u])
    BY Zenon DEF IInv, TypeOK, Installing, NewVersion
  <2>2. QED
    BY <2>1, SameLists
<1>5. ClockInv' /\ SnapshotReads' /\ FirstCommitterWins'
  <2>1. \A u \in Thread : pc'[u] = "new" => pc[u] = "new"
    BY DEF IInv, TypeOK
  <2>2. QED
    BY <2>1, QuietStep
<1>6. QED
  BY <1>1, <1>2, <1>3, <1>7, <1>4, <1>5 DEF IInv

\* Naming a key: the part of txn_read before the key's mutex, and txn_write.
LEMMA NameKeyStep ==
  ASSUME IInv, NEW t \in Thread, NEW k \in Key,
         txn_read(t, k) \/ \E v \in Value : txn_write(t, k, v)
  PROVE  IInv'
<1>1. SlotOf(k) \in Slot
  BY SlotOfType DEF IInv, txn_read, txn_write, get_or_create_key
<1> USE DEF txn_read, txn_write, get_or_create_key, txn, aux
<1>2. TypeOK'
  <2>1. slotKey' \in [Slot -> Key \cup {None}]
    BY <1>1, Zenon DEF IInv, TypeOK
  <2>2. writes' \in [Thread -> [Slot -> Value \cup {None}]]
    <3>1. CASE txn_read(t, k)
      BY <3>1 DEF IInv, TypeOK
    <3>2. CASE \E v \in Value : txn_write(t, k, v)
      <4>1. PICK v \in Value : writes' = [writes EXCEPT ![t][SlotOf(k)] = v]
        BY <3>2, Zenon
      <4>2. QED
        BY <1>1, <4>1 DEF IInv, TypeOK
    <3>3. QED
      BY <3>1, <3>2
  <2>3. idx' \in [Thread -> Slot \cup {NoSlot}]
    BY <1>1 DEF IInv, TypeOK
  <2>4. QED
    BY <2>1, <2>2, <2>3, Zenon DEF IInv, TypeOK
<1>3. pc[t] = "active" /\ pc'[t] \in {"active", "read"}
      /\ \A u \in Thread : u # t => pc'[u] = pc[u] /\ writes'[u] = writes[u]
  BY DEF IInv, TypeOK
<1>4. LockDiscipline'
  <2>1. \A s \in Slot : owner[s] # t
    BY <1>3, StoreAssumption DEF IInv, LockDiscipline
  <2>2. owner' = owner
    OBVIOUS
  <2>3. \A s \in Slot : owner[s] # None => pc'[owner[s]] = pc[owner[s]]
    BY <1>3, <2>1 DEF IInv, TypeOK
  <2>4. \A u \in Thread : pc'[u] \in {"stamp", "install"} => pc[u] = pc'[u] /\ writes'[u] = writes[u]
    BY <1>3
  <2>5. QED
    BY <2>2, <2>3, <2>4 DEF IInv, LockDiscipline
<1>5. LocalInv'
  BY <1>1, Zenon DEF IInv, TypeOK, LocalInv
<1>6. Validated'
  BY <1>3 DEF IInv, Validated
<1>7. HistAgrees'
  <2>1. \A u \in Thread, s \in Slot :
          /\ Installing(u, s)' <=> Installing(u, s)
          /\ Installing(u, s) => NewVersion(u, s, commit_ts[u])' = NewVersion(u, s, commit_ts[u])
    BY <1>3 DEF Installing, NewVersion
  <2>2. QED
    BY <2>1, SameLists
<1>8. ClockInv' /\ SnapshotReads' /\ FirstCommitterWins'
  BY <1>3, QuietStep
<1>9. QED
  BY <1>2, <1>4, <1>5, <1>6, <1>7, <1>8 DEF IInv

\* The walk of txn_read under the key's mutex: no install of that slot is
\* pending, so the list is the history.
LEMMA ReadStep ==
  ASSUME IInv, NEW t \in Thread, txn_read_locked(t)
  PROVE  IInv'
<1> USE DEF txn_read_locked, store, txn
<1>1. idx[t] \in Slot /\ pc[t] = "read"
  BY DEF IInv, LocalInv
<1>2. hist[idx[t]] = versions[idx[t]]
  BY <1>1, StoreAssumption DEF IInv, HistAgrees, Installing, LockDiscipline
<1>3. ReadAt(versions[idx[t]], start_ts[t]) \in Value \cup {None}
  BY <1>1, ReadAtType DEF IInv, TypeOK
<1>4. TypeOK'
  <2>1. reads' \in [Thread -> [Slot -> Value \cup {None, NotRead}]]
    BY <1>1, <1>3 DEF IInv, TypeOK
  <2>2. QED
    BY <2>1 DEF IInv, TypeOK
<1>5. \A u \in Thread : u # t => pc'[u] = pc[u] /\ idx'[u] = idx[u] /\ reads'[u] = reads[u]
  BY DEF IInv, TypeOK
<1>6. pc'[t] = "active"
  BY DEF IInv, TypeOK
<1>7. LockDiscipline'
  <2>1. \A s \in Slot : owner[s] # t
    BY <1>1, StoreAssumption DEF IInv, LockDiscipline
  <2>2. QED
    BY <1>5, <1>6, <2>1 DEF IInv, TypeOK, LockDiscipline
<1>8. LocalInv' /\ Validated'
  BY <1>5, <1>6 DEF IInv, LocalInv, Validated
<1>9. HistAgrees'
  <2>1. \A u \in Thread, s \in Slot :
          /\ Installing(u, s)' <=> Installing(u, s)
          /\ Installing(u, s) => NewVersion(u, s, commit_ts[u])' = NewVersion(u, s, commit_ts[u])
    BY <1>1, <1>5, <1>6 DEF Installing, NewVersion
  <2>2. QED
    BY <2>1, SameLists
<1>10. ClockInv' /\ FirstCommitterWins'
  BY <1>1, <1>5, <1>6 DEF IInv, ClockInv, FirstCommitterWins
<1>11. SnapshotReads'
  <2>1. \A s \in Slot : reads'[t][s] =
          IF s = idx[t] THEN ReadAt(hist[s], start_ts[t]) ELSE reads[t][s]
    BY <1>1, <1>2 DEF IInv, TypeOK
  <2>2. QED
    BY <1>5, <2>1 DEF IInv, SnapshotReads
<1>12. QED
  BY <1>4, <1>7, <1>8, <1>9, <1>10, <1>11 DEF IInv

\* Taking or releasing one key mutex.
LEMMA MutexStep ==
  ASSUME IInv, NEW t \in Thread, lock_next(t) \/ unlock_next(t)
  PROVE  IInv'
<1> USE DEF lock_next, unlock_next, txn, aux
<1>1. PICK s \in Slot :
        \/ pc[t] = "lock" /\ owner[s] = None /\ owner' = [owner EXCEPT ![s] = t]
        \/ pc[t] \in {"unlock", "fail"} /\ owner[s] = t /\ owner' = [owner EXCEPT ![s] = None]
  <2>1. CASE lock_next(t)
    <3>1. WriteSet(t) \ Held(t) \in SUBSET Nat /\ WriteSet(t) \subseteq Slot
      <4>1. WriteSet(t) \subseteq Slot
        BY Zenon DEF WriteSet
      <4>2. Slot \subseteq Nat
        BY StoreAssumption DEF Slot
      <4>3. QED
        BY <4>1, <4>2, Zenon
    <3>2. MinOf(WriteSet(t) \ Held(t)) \in Slot
      BY <2>1, <3>1, MinOfProperty
    <3>3. QED
      BY <2>1, <3>2, Zenon
  <2>2. CASE unlock_next(t)
    <3>1. Held(t) \in SUBSET Nat
      BY StoreAssumption DEF Held, Slot
    <3>2. MinOf(Held(t)) \in Held(t)
      BY <2>2, <3>1, MinOfProperty
    <3>3. QED
      BY <2>2, <3>2, Zenon DEF Held
  <2>3. QED
    BY <2>1, <2>2
<1>2. UNCHANGED <<slotKey, versions, global_ts, next_txn_id, status, start_ts,
                  writes, commit_ts, idx, pc, exited, hist, reads>>
  OBVIOUS
<1> HIDE DEF lock_next, unlock_next
<1>3. TypeOK'
  BY <1>1, <1>2, Zenon DEF IInv, TypeOK
<1>4. LockDiscipline'
  <2>1. \A r \in Slot : owner'[r] = IF r = s THEN owner'[s] ELSE owner[r]
    BY <1>1 DEF IInv, TypeOK
  <2>2. owner'[s] \in {t, None} /\ (owner'[s] = t => pc[t] = "lock")
    BY <1>1, StoreAssumption DEF IInv, TypeOK
  <2>3. \A u \in Thread : pc[u] \in {"stamp", "install"} => owner[s] # u
    BY <1>1, StoreAssumption
  <2>4. \A r \in Slot : owner'[r] # None =>
          pc'[owner'[r]] \in {"lock", "stamp", "install", "unlock", "fail"}
    BY <1>2, <2>1, <2>2 DEF IInv, LockDiscipline
  <2>5. \A u \in Thread : pc'[u] \in {"stamp", "install"} =>
          \A r \in Slot : writes'[u][r] # None => owner'[r] = u
    BY <1>2, <2>1, <2>3 DEF IInv, LockDiscipline
  <2>6. QED
    BY <2>4, <2>5 DEF LockDiscipline
<1>5. LocalInv' /\ Validated'
  BY <1>2 DEF IInv, LocalInv, Validated
<1>6. HistAgrees'
  BY <1>2, SameLists DEF Installing, NewVersion
<1>7. ClockInv' /\ SnapshotReads' /\ FirstCommitterWins'
  BY <1>2, QuietStep
<1>8. QED
  BY <1>3, <1>4, <1>5, <1>6, <1>7 DEF IInv

\* The conflict check of txn_commit, made with every written slot locked.
LEMMA ValidateStep ==
  ASSUME IInv, NEW t \in Thread, validate(t)
  PROVE  IInv'
<1> USE DEF validate, store, txn, aux
<1>1. /\ pc[t] = "lock"
      /\ pc'[t] = IF Conflict(t) THEN "fail" ELSE "stamp"
      /\ \A u \in Thread : u # t => pc'[u] = pc[u]
  BY DEF IInv, TypeOK
<1>2. TypeOK'
  BY DEF IInv, TypeOK
<1>3. LockDiscipline'
  <2>1. \A s \in Slot : writes[t][s] # None => owner[s] = t
    BY DEF WriteSet, Held
  <2>2. QED
    BY <1>1, <2>1 DEF IInv, TypeOK, LockDiscipline
<1>4. LocalInv'
  BY <1>1 DEF IInv, LocalInv
<1>5. Validated'
  <2>1. \A s \in Slot : pc'[t] = "stamp" /\ writes[t][s] # None /\ versions[s] # << >>
          => ~(versions[s][1].commit_ts > start_ts[t])
    BY <1>1 DEF Conflict, WriteSet
  <2>2. \A s \in Slot : versions[s] # << >> => versions[s][1].commit_ts \in Nat
    <3> TAKE s \in Slot
    <3> HAVE versions[s] # << >>
    <3>1. versions[s] \in Seq(Version)
      BY DEF IInv, TypeOK
    <3>2. 1 \in 1 .. Len(versions[s])
      BY <3>1
    <3>3. QED
      BY <3>1, <3>2, ElementType
  <2>3. \A u \in Thread : start_ts[u] \in Nat
    BY DEF IInv, TypeOK
  <2>4. QED
    BY <1>1, <2>1, <2>2, <2>3 DEF IInv, Validated
<1>6. HistAgrees'
  <2>1. \A u \in Thread, s \in Slot :
          /\ Installing(u, s)' <=> Installing(u, s)
          /\ Installing(u, s) => NewVersion(u, s, commit_ts[u])' = NewVersion(u, s, commit_ts[u])
    BY <1>1 DEF Installing, NewVersion
  <2>2. QED
    BY <2>1, SameLists
<1>7. ClockInv' /\ SnapshotReads' /\ FirstCommitterWins'
  BY <1>1, QuietStep
<1>8. QED
  BY <1>2, <1>3, <1>4, <1>5, <1>6, <1>7 DEF IInv

\* Drawing the commit timestamp: the writes enter the history.
LEMMA DrawStep ==
  ASSUME IInv, NEW t \in Thread, draw_commit_ts(t)
  PROVE  IInv'
<1> DEFINE V(s) == NewVersion(t, s, global_ts)
<1>1. /\ pc[t] = "stamp" /\ pc'[t] = "install"
      /\ \A u \in Thread : u # t => pc'[u] = pc[u] /\ commit_ts'[u] = commit_ts[u]
      /\ commit_ts'[t] = global_ts
      /\ global_ts \in Nat /\ global_ts' = global_ts + 1
      /\ start_ts \in [Thread -> Nat]
  BY DEF IInv, TypeOK, draw_commit_ts
<1>2. UNCHANGED <<slotKey, versions, owner, next_txn_id, status, start_ts, writes, idx, exited, reads>>
  BY DEF draw_commit_ts, store
<1>3. \A s \in Slot : hist'[s] = IF writes[t][s] # None THEN Push(hist[s], V(s)) ELSE hist[s]
  BY DEF draw_commit_ts, WriteSet
<1>4. \A s \in Slot : writes[t][s] # None =>
        /\ V(s) \in Version
        /\ V(s).commit_ts = global_ts
        /\ V(s).writer = t
  BY <1>1 DEF IInv, TypeOK, NewVersion, Version
<1>5. \A s \in Slot : hist[s] \in Seq(Version)
  BY DEF IInv, TypeOK
<1>6. \A s \in Slot : writes[t][s] # None =>
        /\ hist'[s] \in Seq(Version)
        /\ Len(hist'[s]) = Len(hist[s]) + 1
        /\ hist'[s][1] = V(s)
        /\ \A i \in 2 .. Len(hist[s]) + 1 : hist'[s][i] = hist[s][i - 1]
  <2> TAKE s \in Slot
  <2> HAVE writes[t][s] # None
  <2>1. hist'[s] = Push(hist[s], V(s)) /\ hist[s] \in Seq(Version) /\ V(s) \in Version
    BY <1>3, <1>4, <1>5, Zenon
  <2> DEFINE list == hist[s]
             new == hist'[s]
             v == V(s)
  <2>2. list \in Seq(Version) /\ v \in Version /\ new = Push(list, v)
    BY <2>1
  <2> HIDE DEF list, new, v
  <2>3. /\ new \in Seq(Version)
        /\ Len(new) = Len(list) + 1
        /\ new[1] = v
        /\ \A i \in 2 .. Len(list) + 1 : new[i] = list[i - 1]
    BY <2>2 DEF Push
  <2>4. QED
    BY <2>3 DEF list, new, v
<1>7. \A s \in Slot : writes[t][s] = None => hist'[s] = hist[s]
  BY <1>3
<1>20. \A s \in Slot : Len(hist[s]) \in Nat
  BY <1>5
<1> HIDE DEF V
<1>8. TypeOK'
  <2>1. hist' \in [Slot -> Seq(Version)]
    <3>1. \A s \in Slot : hist'[s] \in Seq(Version)
      BY <1>5, <1>6, <1>7
    <3>2. hist' = [s \in Slot |-> hist'[s]]
      BY DEF draw_commit_ts
    <3>3. QED
      BY <3>1, <3>2
  <2>2. QED
    BY <1>2, <2>1 DEF IInv, TypeOK, draw_commit_ts
<1>9. LockDiscipline'
  <2>1. LockDiscipline
    BY DEF IInv
  <2>2. \A u \in Thread : pc'[u] = pc[u] \/ (u = t /\ pc[u] = "stamp" /\ pc'[u] = "install")
    BY <1>1
  <2>3. \A s \in Slot : owner'[s] # None =>
          pc'[owner'[s]] \in {"lock", "stamp", "install", "unlock", "fail"}
    BY <1>2, <2>1, <2>2 DEF IInv, TypeOK, LockDiscipline
  <2>4. \A u \in Thread : pc'[u] \in {"stamp", "install"} =>
          \A s \in Slot : writes'[u][s] # None => owner'[s] = u
    BY <1>2, <2>1, <2>2 DEF LockDiscipline
  <2>5. QED
    BY <2>3, <2>4 DEF LockDiscipline
<1>10. LocalInv' /\ Validated'
  BY <1>1, <1>2 DEF IInv, LocalInv, Validated
<1>11. \A s \in Slot : writes[t][s] # None => \A u \in Thread : ~Installing(u, s)
  BY <1>1 DEF IInv, LockDiscipline, Installing
<1>12. HistAgrees'
  <2> SUFFICES ASSUME NEW s \in Slot
               PROVE  /\ (\A u \in Thread : ~Installing(u, s)') => hist'[s] = versions'[s]
                      /\ \A u \in Thread : Installing(u, s)' =>
                           hist'[s] = Push(versions[s], NewVersion(u, s, commit_ts[u])')
    BY <1>2 DEF HistAgrees
  <2>1. CASE writes[t][s] # None
    <3>1. hist[s] = versions[s]
      BY <1>11, <2>1 DEF IInv, HistAgrees
    <3>2. NewVersion(t, s, commit_ts[t])' = V(s)
      BY <1>1, <1>2 DEF NewVersion, V
    <3>3. Installing(t, s)' /\ \A u \in Thread : Installing(u, s)' => u = t
      BY <1>1, <1>2, <1>11, <2>1 DEF Installing
    <3>4. QED
      BY <1>3, <2>1, <3>1, <3>2, <3>3
  <2>2. CASE writes[t][s] = None
    <3>1. \A u \in Thread : Installing(u, s)' <=> Installing(u, s)
      BY <1>1, <1>2, <2>2 DEF Installing
    <3>2. \A u \in Thread : Installing(u, s) => u # t
      BY <2>2 DEF Installing
    <3>3. \A u \in Thread : Installing(u, s) =>
            NewVersion(u, s, commit_ts[u])' = NewVersion(u, s, commit_ts[u])
      BY <1>1, <1>2, <3>2 DEF NewVersion
    <3>4. QED
      BY <1>2, <1>7, <2>2, <3>1, <3>3 DEF IInv, HistAgrees
  <2>3. QED
    BY <2>1, <2>2
<1>13. ClockInv'
  <2>1. \A u \in Thread : start_ts'[u] < global_ts'
    BY <1>1, <1>2 DEF IInv, ClockInv
  <2>2. \A s \in Slot : \A i \in 1 .. Len(hist'[s]) :
          hist'[s][i].commit_ts < global_ts' /\ pc'[hist'[s][i].writer] # "new"
    <3> TAKE s \in Slot
    <3>1. \A i \in 1 .. Len(hist[s]) :
            hist[s][i].commit_ts < global_ts' /\ pc'[hist[s][i].writer] # "new"
      <4> TAKE i \in 1 .. Len(hist[s])
      <4>1. hist[s][i].commit_ts \in Nat /\ hist[s][i].writer \in Thread
        BY HistTyped
      <4>2. hist[s][i].commit_ts < global_ts /\ pc[hist[s][i].writer] # "new"
        BY DEF IInv, ClockInv
      <4>3. QED
        BY <1>1, <4>1, <4>2
    <3>2. CASE writes[t][s] = None
      BY <1>7, <3>1, <3>2
    <3>3. CASE writes[t][s] # None
      <4> TAKE i \in 1 .. Len(hist'[s])
      <4>1. CASE i = 1
        BY <1>1, <1>4, <1>6, <3>3, <4>1
      <4>2. CASE i # 1
        <5>1. i \in 2 .. Len(hist[s]) + 1 /\ i - 1 \in 1 .. Len(hist[s])
          BY <1>6, <1>20, <3>3, <4>2
        <5>2. hist'[s][i] = hist[s][i - 1]
          BY <1>6, <3>3, <5>1
        <5>3. QED
          BY <3>1, <5>1, <5>2
      <4>3. QED
        BY <4>1, <4>2
    <3>4. QED
      BY <3>2, <3>3
  <2>3. \A s \in Slot : \A i, j \in 1 .. Len(hist'[s]) :
          i < j => hist'[s][i].commit_ts > hist'[s][j].commit_ts
    <3> SUFFICES ASSUME NEW s \in Slot, writes[t][s] # None
                 PROVE  \A i, j \in 1 .. Len(hist'[s]) :
                           i < j => hist'[s][i].commit_ts > hist'[s][j].commit_ts
      BY <1>7 DEF IInv, ClockInv
    <3>1. \A i \in 1 .. Len(hist[s]) : hist[s][i].commit_ts \in Nat /\ hist[s][i].commit_ts < global_ts
      BY HistTyped DEF IInv, ClockInv
    <3>2. \A i, j \in 1 .. Len(hist[s]) : i < j => hist[s][i].commit_ts > hist[s][j].commit_ts
      BY DEF IInv, ClockInv
    <3> TAKE i, j \in 1 .. Len(hist'[s])
    <3> HAVE i < j
    <3>3. j \in 2 .. Len(hist[s]) + 1 /\ j - 1 \in 1 .. Len(hist[s])
      BY <1>6, <1>20
    <3>4. hist'[s][j] = hist[s][j - 1]
      BY <1>6, <3>3
    <3>5. CASE i = 1
      <4>1. hist'[s][i].commit_ts = global_ts
        BY <1>4, <1>6, <3>5
      <4>2. QED
        BY <1>1, <3>1, <3>3, <3>4, <4>1
    <3>6. CASE i # 1
      <4>1. i \in 2 .. Len(hist[s]) + 1 /\ i - 1 \in 1 .. Len(hist[s])
        BY <1>6, <1>20, <3>6
      <4>2. hist'[s][i] = hist[s][i - 1]
        BY <1>6, <4>1
      <4>3. QED
        BY <3>2, <3>3, <3>4, <4>1, <4>2
    <3>7. QED
      BY <3>5, <3>6
  <2>4. QED
    BY <2>1, <2>2, <2>3 DEF ClockInv
<1>14. SnapshotReads'
  <2>1. \A u \in Thread, s \in Slot : ReadAt(hist'[s], start_ts[u]) = ReadAt(hist[s], start_ts[u])
    <3> TAKE u \in Thread, s \in Slot
    <3>1. start_ts[u] < global_ts /\ start_ts[u] \in Nat
      BY <1>1 DEF IInv, ClockInv
    <3>2. CASE writes[t][s] # None
      <4>1. V(s).commit_ts > start_ts[u]
        BY <1>1, <1>4, <3>1, <3>2
      <4>2. QED
        BY <1>3, <1>4, <1>5, <3>1, <3>2, <4>1, ReadAtPush
    <3>3. QED
      BY <1>7, <3>2
  <2>2. QED
    BY <1>2, <2>1 DEF IInv, SnapshotReads
<1>15. FirstCommitterWins'
  <2> SUFFICES ASSUME NEW s \in Slot
               PROVE  \A i, j \in 1 .. Len(hist'[s]) :
                        i < j => start_ts[hist'[s][i].writer] >= hist'[s][j].commit_ts
    BY <1>2 DEF FirstCommitterWins
  <2>1. CASE writes[t][s] = None
    BY <1>7, <2>1 DEF IInv, FirstCommitterWins
  <2>2. CASE writes[t][s] # None
    <3>1. hist[s] = versions[s]
      BY <1>11, <2>2 DEF IInv, HistAgrees
    <3>2. \A j \in 1 .. Len(hist[s]) : hist[s][j].commit_ts \in Nat /\ hist[s][j].commit_ts <= start_ts[t]
      <4> TAKE j \in 1 .. Len(hist[s])
      <4>1. hist[s] # << >> /\ 1 \in 1 .. Len(hist[s])
        BY <1>5, <1>20
      <4>2. hist[s][1].commit_ts <= start_ts[t]
        BY <1>1, <2>2, <3>1, <4>1 DEF IInv, Validated
      <4>3. hist[s][j].commit_ts \in Nat /\ hist[s][1].commit_ts \in Nat
        BY <4>1, HistTyped
      <4>4. j = 1 \/ hist[s][1].commit_ts > hist[s][j].commit_ts
        BY <1>20, <4>1 DEF IInv, ClockInv
      <4>5. QED
        BY <1>1, <4>2, <4>3, <4>4
    <3>3. \A i, j \in 1 .. Len(hist[s]) : i < j => start_ts[hist[s][i].writer] >= hist[s][j].commit_ts
      BY DEF IInv, FirstCommitterWins
    <3> TAKE i, j \in 1 .. Len(hist'[s])
    <3> HAVE i < j
    <3>4. j \in 2 .. Len(hist[s]) + 1 /\ j - 1 \in 1 .. Len(hist[s])
      BY <1>6, <1>20, <2>2
    <3>5. hist'[s][j] = hist[s][j - 1]
      BY <1>6, <2>2, <3>4
    <3>6. CASE i = 1
      <4>1. hist'[s][i].writer = t
        BY <1>4, <1>6, <2>2, <3>6
      <4>2. start_ts[t] \in Nat
        BY <1>1
      <4>3. QED
        BY <3>2, <3>4, <3>5, <4>1, <4>2
    <3>7. CASE i # 1
      <4>1. i \in 2 .. Len(hist[s]) + 1 /\ i - 1 \in 1 .. Len(hist[s])
        BY <1>6, <1>20, <2>2, <3>7
      <4>2. hist'[s][i] = hist[s][i - 1]
        BY <1>6, <2>2, <4>1
      <4>3. QED
        BY <3>3, <3>4, <3>5, <4>1, <4>2
    <3>8. QED
      BY <3>6, <3>7
  <2>3. QED
    BY <2>1, <2>2
<1>16. QED
  BY <1>8, <1>9, <1>10, <1>12, <1>13, <1>14, <1>15 DEF IInv

\* Installing the writes: the lists catch up with the histories.
LEMMA InstallStep ==
  ASSUME IInv, NEW t \in Thread, install(t)
  PROVE  IInv'
<1>1. /\ pc[t] = "install" /\ pc'[t] = "unlock"
      /\ \A u \in Thread : u # t => pc'[u] = pc[u] /\ writes'[u] = writes[u]
      /\ \A s \in Slot : writes'[t][s] = None
  BY DEF IInv, TypeOK, install
<1>2. UNCHANGED <<slotKey, owner, global_ts, next_txn_id, status, start_ts,
                  commit_ts, idx, exited, hist, reads>>
  BY DEF install, aux
<1>3. \A s \in Slot : versions'[s] =
        IF writes[t][s] # None THEN Push(versions[s], NewVersion(t, s, commit_ts[t])) ELSE versions[s]
  BY Zenon DEF install, WriteSet
<1>4. \A s \in Slot : writes[t][s] # None => versions'[s] = hist[s]
  BY <1>1, <1>3 DEF IInv, HistAgrees, Installing
<1>5. TypeOK'
  <2>1. versions' \in [Slot -> Seq(Version)]
    <3>1. \A s \in Slot : versions'[s] \in Seq(Version)
      BY <1>3, <1>4, Zenon DEF IInv, TypeOK
    <3>2. versions' = [s \in Slot |-> versions'[s]]
      BY DEF install
    <3>3. QED
      BY <3>1, <3>2
  <2>2. writes' \in [Thread -> [Slot -> Value \cup {None}]]
    BY DEF IInv, TypeOK, install
  <2>3. QED
    BY <1>2, <2>1, <2>2 DEF IInv, TypeOK, install
<1>6. LockDiscipline'
  <2>1. \A s \in Slot : owner'[s] # None =>
          pc'[owner'[s]] \in {"lock", "stamp", "install", "unlock", "fail"}
    BY <1>1, <1>2, Zenon DEF IInv, TypeOK, LockDiscipline
  <2>2. \A u \in Thread : pc'[u] \in {"stamp", "install"} =>
          pc[u] = pc'[u] /\ writes'[u] = writes[u]
    BY <1>1
  <2>3. \A u \in Thread : pc'[u] \in {"stamp", "install"} =>
          \A s \in Slot : writes'[u][s] # None => owner'[s] = u
    <3> SUFFICES ASSUME NEW u \in Thread, NEW s \in Slot,
                        pc'[u] \in {"stamp", "install"}, writes'[u][s] # None
                 PROVE  owner'[s] = u
      OBVIOUS
    <3>1. pc[u] \in {"stamp", "install"} /\ writes[u][s] # None
      BY <2>2
    <3>2. owner[s] = u
      BY <3>1 DEF IInv, LockDiscipline
    <3>3. QED
      BY <1>2, <3>2
  <2>4. QED
    BY <2>1, <2>3 DEF LockDiscipline
<1>7. LocalInv'
  BY <1>1, <1>2 DEF IInv, LocalInv
<1>8. Validated'
  <2>1. \A u \in Thread, s \in Slot : pc[u] = "stamp" /\ writes[u][s] # None => versions'[s] = versions[s]
    <3> SUFFICES ASSUME NEW u \in Thread, NEW s \in Slot, pc[u] = "stamp", writes[u][s] # None
                 PROVE  writes[t][s] = None
      BY <1>3
    <3>1. owner[s] = u
      BY DEF IInv, LockDiscipline
    <3>2. writes[t][s] # None => owner[s] = t
      BY <1>1 DEF IInv, LockDiscipline
    <3>3. QED
      BY <1>1, <3>1, <3>2
  <2>2. QED
    BY <1>1, <1>2, <2>1 DEF IInv, Validated
<1>9. HistAgrees'
  <2> SUFFICES ASSUME NEW s \in Slot
               PROVE  /\ (\A u \in Thread : ~Installing(u, s)') => hist[s] = versions'[s]
                      /\ \A u \in Thread : Installing(u, s)' =>
                           hist[s] = Push(versions'[s], NewVersion(u, s, commit_ts[u])')
    BY <1>2 DEF HistAgrees
  <2>1. \A u \in Thread : Installing(u, s)' <=> u # t /\ Installing(u, s)
    BY <1>1 DEF Installing
  <2>2. \A u \in Thread : u # t => NewVersion(u, s, commit_ts[u])' = NewVersion(u, s, commit_ts[u])
    BY <1>1, <1>2 DEF NewVersion
  <2>3. CASE writes[t][s] # None
    <3>1. \A u \in Thread : ~Installing(u, s)'
      BY <1>1, <2>1, <2>3 DEF IInv, LockDiscipline, Installing
    <3>2. QED
      BY <1>4, <2>3, <3>1
  <2>4. CASE writes[t][s] = None
    <3>1. ~Installing(t, s) /\ versions'[s] = versions[s]
      BY <1>3, <2>4 DEF Installing
    <3>2. QED
      BY <2>1, <2>2, <3>1 DEF IInv, HistAgrees
  <2>5. QED
    BY <2>3, <2>4
<1>10. ClockInv' /\ SnapshotReads' /\ FirstCommitterWins'
  BY <1>1, <1>2, QuietStep
<1>11. QED
  BY <1>5, <1>6, <1>7, <1>8, <1>9, <1>10 DEF IInv

LEMMA StutterStep ==
  ASSUME IInv, UNCHANGED vars
  PROVE  IInv'
<1> USE DEF vars
<1>1. TypeOK' /\ LockDiscipline' /\ LocalInv' /\ Validated'
  BY DEF IInv, TypeOK, LockDiscipline, LocalInv, Validated
<1>2. HistAgrees'
  BY SameLists DEF Installing, NewVersion
<1>3. ClockInv' /\ SnapshotReads' /\ FirstCommitterWins'
  BY QuietStep
<1>4. QED
  BY <1>1, <1>2, <1>3 DEF IInv

\* IInv holds throughout every execution of the store.
THEOREM Invariance == Spec => []IInv
<1>1. Init => IInv
  BY InitInv
<1>2. IInv /\ [Next]_vars => IInv'
  <2> SUFFICES ASSUME IInv, [Next]_vars PROVE IInv'
    OBVIOUS
  <2>1. CASE UNCHANGED vars
    BY <2>1, StutterStep
  <2>2. ASSUME NEW t \in Thread, Call(t)
        PROVE  IInv'
    BY <2>2, CreateStep, CallStep, NameKeyStep DEF Call
  <2>3. ASSUME NEW t \in Thread, Continue(t)
        PROVE  IInv'
    BY <2>3, ReadStep, MutexStep, ValidateStep, DrawStep, InstallStep, CallStep DEF Continue
  <2>4. QED
    BY <2>1, <2>2, <2>3 DEF Next
<1>3. QED
  BY <1>1, <1>2, PTL DEF Spec

\* The variables of the store keep their types.
THEOREM TypeCorrect == Spec => []TypeOK
<1>1. IInv => TypeOK
  BY DEF IInv
<1>2. QED
  BY <1>1, Invariance, PTL

\* Every txn_read of a slot the transaction has not written returns the value of
\* the snapshot of its start_ts, for any number of threads and keys.
THEOREM SnapshotReadsHold == Spec => []SnapshotReads
<1>1. IInv => SnapshotReads
  BY DEF IInv
<1>2. QED
  BY <1>1, Invariance, PTL

\* txn_commit never lets two overlapping transactions both commit a write of
\* the same slot.
THEOREM FirstCommitterWinsHolds == Spec => []FirstCommitterWins
<1>1. IInv => FirstCommitterWins
  BY DEF IInv
<1>2. QED
  BY <1>1, Invariance, PTL
-----------------------------------------------------------------------------
(* Refinement of SnapshotIsolation *)

\* What get_or_create_key(k) finds: the first slot of its probe that is free
\* or holds k.
LEMMA ProbeStops ==
  ASSUME NEW k \in Key, TypeOK, ProbeHits(k) # {}
  PROVE  \E d \in Slot :
            /\ SlotOf(k) = (HashKey[k] + d) % MaxKeys
            /\ slotKey[SlotOf(k)] \in {None, k}
            /\ \A e \in 0 .. d - 1 : slotKey[(HashKey[k] + e) % MaxKeys] \notin {None, k}
<1> DEFINE d == MinOf(ProbeHits(k))
<1>1. ProbeHits(k) \in SUBSET Nat /\ ProbeHits(k) \subseteq Slot
  BY StoreAssumption DEF ProbeHits, Slot
<1>2. d \in ProbeHits(k) /\ \A y \in ProbeHits(k) : d <= y
  BY <1>1, MinOfProperty, Zenon
<1>3. ASSUME NEW e \in 0 .. d - 1
      PROVE  slotKey[(HashKey[k] + e) % MaxKeys] \notin {None, k}
  <2>1. d \in 0 .. MaxKeys - 1 /\ MaxKeys \in Nat
    BY <1>1, <1>2, StoreAssumption DEF Slot
  <2>2. e \in 0 .. MaxKeys - 1 /\ ~(d <= e)
    BY <2>1
  <2>3. QED
    BY <1>2, <2>2 DEF ProbeHits
<1>4. d \in Slot /\ SlotOf(k) = (HashKey[k] + d) % MaxKeys
  BY <1>1, <1>2 DEF SlotOf
<1>5. slotKey[SlotOf(k)] \in {None, k}
  BY <1>2, <1>4 DEF ProbeHits
<1>6. QED
  BY <1>3, <1>4, <1>5, Zenon

\* Naming a key keeps every key reachable by its probe.
LEMMA NamedKeyProbed ==
  ASSUME TypeOK, Probed, NEW k \in Key, get_or_create_key(k)
  PROVE  Probed'
<1>1. PICK c \in Slot :
        /\ SlotOf(k) = (HashKey[k] + c) % MaxKeys
        /\ slotKey[SlotOf(k)] \in {None, k}
        /\ \A e \in 0 .. c - 1 : slotKey[(HashKey[k] + e) % MaxKeys] \notin {None, k}
  BY ProbeStops DEF get_or_create_key
<1>2. SlotOf(k) \in Slot
  BY SlotOfType DEF get_or_create_key
<1>3. CASE slotKey[SlotOf(k)] = k
  <2>1. slotKey' = slotKey
    BY <1>2, <1>3 DEF get_or_create_key, TypeOK
  <2>2. QED
    BY <2>1 DEF Probed
<1>4. CASE slotKey[SlotOf(k)] = None
  <2>0. k # None
    BY StoreAssumption
  <2>1. \A s \in Slot : slotKey'[s] = IF s = SlotOf(k) THEN k ELSE slotKey[s]
    BY <1>2 DEF get_or_create_key, TypeOK
  <2>2. \A q \in Key, e \in Nat : (HashKey[q] + e) % MaxKeys \in Slot
    BY StoreAssumption DEF Slot
  <2> SUFFICES ASSUME NEW s \in Slot, slotKey'[s] # None
               PROVE  \E d \in Slot :
                         /\ s = (HashKey[slotKey'[s]] + d) % MaxKeys
                         /\ \A e \in 0 .. d - 1 :
                              slotKey'[(HashKey[slotKey'[s]] + e) % MaxKeys]
                                \notin {None, slotKey'[s]}
    BY DEF Probed
  <2>3. Slot \subseteq Nat
    BY StoreAssumption DEF Slot
  <2>4. CASE s = SlotOf(k)
    <3>1. slotKey'[s] = k
      BY <2>1, <2>4
    <3>2. ASSUME NEW e \in 0 .. c - 1
          PROVE  slotKey'[(HashKey[k] + e) % MaxKeys] \notin {None, k}
      <4>1. (HashKey[k] + e) % MaxKeys \in Slot
        BY <2>2, <2>3
      <4>2. (HashKey[k] + e) % MaxKeys # SlotOf(k)
        BY <1>1, <1>4
      <4>3. QED
        BY <1>1, <2>1, <4>1, <4>2
    <3>3. QED
      BY <1>1, <2>4, <3>1, <3>2
  <2>5. CASE s # SlotOf(k)
    <3>1. slotKey'[s] = slotKey[s]
      BY <2>1, <2>5
    <3> DEFINE q == slotKey[s]
    <3>2. q \in Key /\ q # None
      BY <3>1 DEF TypeOK
    <3>3. PICK d \in Slot :
            /\ s = (HashKey[q] + d) % MaxKeys
            /\ \A e \in 0 .. d - 1 : slotKey[(HashKey[q] + e) % MaxKeys] \notin {None, q}
      BY <3>2 DEF Probed
    <3>4. ASSUME NEW e \in 0 .. d - 1
          PROVE  slotKey'[(HashKey[q] + e) % MaxKeys] \notin {None, q}
      <4>1. (HashKey[q] + e) % MaxKeys \in Slot
        BY <2>2, <2>3, <3>2
      <4>2. (HashKey[q] + e) % MaxKeys # SlotOf(k)
        BY <3>3, <1>4
      <4>3. QED
        BY <3>3, <2>1, <4>1, <4>2
    <3>5. QED
      BY <3>1, <3>3, <3>4
  <2>6. QED
    BY <2>4, <2>5
<1>5. QED
  BY <1>1, <1>3, <1>4
-----------------------------------------------------------------------------
\* The status of a transaction and the slot of a pending snapshot read.
LEMMA StatusStep ==
  ASSUME IInv, StatusInv, NEW t \in Thread, Call(t) \/ Continue(t)
  PROVE  StatusInv'
<1>1. /\ pc \in [Thread -> {"new", "active", "read", "lock", "stamp", "install",
                            "unlock", "fail", "done"}]
      /\ status \in [Thread -> {"none", "active", "committed", "aborted"}]
      /\ writes \in [Thread -> [Slot -> Value \cup {None}]]
      /\ idx \in [Thread -> Slot \cup {NoSlot}]
  BY DEF IInv, TypeOK
<1> USE DEF StatusInv
<1>2. CASE create_txn(t)
  BY <1>1, <1>2 DEF create_txn
<1>3. CASE create_txn_full(t)
  BY <1>1, <1>3 DEF create_txn_full, txn
<1>4. CASE txn_commit_read_only(t)
  BY <1>1, <1>4 DEF txn_commit_read_only
<1>5. CASE txn_commit(t)
  BY <1>1, <1>5 DEF txn_commit, txn
<1>6. CASE txn_explicit_abort(t)
  BY <1>1, <1>6 DEF txn_explicit_abort
<1>7. ASSUME NEW k \in Key, store_full(t, k)
      PROVE  StatusInv'
  BY <1>1, <1>7 DEF store_full, txn
<1>8. ASSUME NEW k \in Key, txn_read(t, k)
      PROVE  StatusInv'
  <2>1. CASE writes[t][SlotOf(k)] # None
    BY <1>1, <1>8, <2>1 DEF txn_read, txn
  <2>2. CASE writes[t][SlotOf(k)] = None
    BY <1>1, <1>8, <2>2 DEF txn_read, txn
  <2>3. QED
    BY <2>1, <2>2
<1>9. ASSUME NEW k \in Key, NEW v \in Value, txn_write(t, k, v)
      PROVE  StatusInv'
  BY <1>1, <1>9 DEF txn_write
<1>10. CASE txn_read_locked(t)
  BY <1>1, <1>10 DEF txn_read_locked, txn
<1>11. CASE lock_next(t) \/ unlock_next(t)
  BY <1>1, <1>11 DEF lock_next, unlock_next, txn
<1>12. CASE validate(t)
  BY <1>1, <1>12 DEF validate, txn
<1>13. CASE draw_commit_ts(t)
  BY <1>1, <1>13 DEF draw_commit_ts
<1>14. CASE install(t)
  BY <1>1, <1>14 DEF install
<1>15. CASE commit_done(t)
  BY <1>1, <1>15 DEF commit_done
<1>16. CASE conflict_done(t)
  BY <1>1, <1>16 DEF conflict_done
<1>17. QED
  BY <1>2, <1>3, <1>4, <1>5, <1>6, <1>7, <1>8, <1>9, <1>10, <1>11, <1>12, <1>13,
     <1>14, <1>15, <1>16, Zenon DEF Call, Continue

\* Only txn_read and txn_write name keys.
LEMMA ProbedStep ==
  ASSUME IInv, Probed, NEW t \in Thread, Call(t) \/ Continue(t)
  PROVE  Probed'
<1>1. CASE \E k \in Key : get_or_create_key(k)
  BY <1>1, NamedKeyProbed DEF IInv
<1>2. CASE slotKey' = slotKey
  BY <1>2 DEF Probed
<1>3. (\E k \in Key : get_or_create_key(k)) \/ slotKey' = slotKey
  BY Zenon DEF Call, Continue, create_txn, create_txn_full, txn_commit_read_only, txn_commit,
     txn_explicit_abort, store_full, txn_read, txn_write, txn_read_locked, lock_next,
     validate, draw_commit_ts, install, unlock_next, commit_done, conflict_done, store
<1>4. QED
  BY <1>1, <1>2, <1>3

\* The strengthened invariant of the store.
LEMMA RInvariance == Spec => []RInv
<1>1. Init => RInv
  <2>1. Init => StatusInv /\ Probed
    BY StoreAssumption DEF Init, StatusInv, Probed
  <2>2. QED
    BY <2>1, InitInv DEF RInv
<1>2. IInv /\ IInv' /\ RInv /\ [Next]_vars => RInv'
  <2> SUFFICES ASSUME IInv, IInv', RInv, [Next]_vars PROVE RInv'
    OBVIOUS
  <2>1. CASE UNCHANGED vars
    BY <2>1 DEF RInv, vars, StatusInv, Probed
  <2>2. ASSUME NEW t \in Thread, Call(t) \/ Continue(t)
        PROVE  RInv'
    BY <2>2, StatusStep, ProbedStep DEF RInv
  <2>3. QED
    BY <2>1, <2>2 DEF Next
<1>3. QED
  BY <1>1, <1>2, Invariance, PTL DEF Spec

\* Version lists descend and no key is in two slots: StoreOrdered holds for
\* every table size and hash function.
THEOREM StoreOrderedHolds == Spec => []StoreOrdered
<1>1. RInv => StoreOrdered
  <2> SUFFICES ASSUME RInv PROVE StoreOrdered
    OBVIOUS
  <2>1. ASSUME NEW s \in Slot, NEW i \in 1 .. Len(versions[s]),
               NEW j \in 1 .. Len(versions[s]), i < j
        PROVE  versions[s][i].commit_ts > versions[s][j].commit_ts
    <3>1. CASE \A u \in Thread : ~Installing(u, s)
      BY <2>1, <3>1 DEF RInv, IInv, HistAgrees, ClockInv
    <3>2. ASSUME NEW u \in Thread, Installing(u, s)
          PROVE  versions[s][i].commit_ts > versions[s][j].commit_ts
      <4> DEFINE list == versions[s]
                 v == NewVersion(u, s, commit_ts[u])
                 full == hist[s]
      <4>1. list \in Seq(Version) /\ v \in Version
        <5>1. writes[u][s] \in Value /\ commit_ts[u] \in Nat /\ versions[s] \in Seq(Version)
          BY <3>2 DEF RInv, IInv, TypeOK, Installing
        <5>2. QED
          BY <5>1 DEF NewVersion, Version
      <4>2. full = Push(list, v)
        BY <3>2 DEF RInv, IInv, HistAgrees
      <4>3. \A a, b \in 1 .. Len(full) : a < b => full[a].commit_ts > full[b].commit_ts
        BY DEF RInv, IInv, ClockInv
      <4> HIDE DEF v, full
      <4>4. /\ Len(full) = Len(list) + 1
            /\ full[i + 1] = list[i]
            /\ full[j + 1] = list[j]
        BY <2>1, <4>1, <4>2, PushFacts
      <4>5. i + 1 \in 1 .. Len(full) /\ j + 1 \in 1 .. Len(full) /\ i + 1 < j + 1
        BY <2>1, <4>1, <4>4
      <4>6. QED
        BY <4>3, <4>4, <4>5
    <3>3. QED
      BY <3>1, <3>2
  <2>2. ASSUME NEW s1 \in Slot, NEW s2 \in Slot,
               slotKey[s1] # None, slotKey[s1] = slotKey[s2]
        PROVE  s1 = s2
    <3> DEFINE k == slotKey[s1]
    <3>1. PICK d1 \in Slot :
            /\ s1 = (HashKey[k] + d1) % MaxKeys
            /\ \A e \in 0 .. d1 - 1 : slotKey[(HashKey[k] + e) % MaxKeys] \notin {None, k}
      BY <2>2 DEF RInv, Probed
    <3>2. PICK d2 \in Slot :
            /\ s2 = (HashKey[k] + d2) % MaxKeys
            /\ \A e \in 0 .. d2 - 1 : slotKey[(HashKey[k] + e) % MaxKeys] \notin {None, k}
      BY <2>2 DEF RInv, Probed
    <3>3. d1 \in Nat /\ d2 \in Nat
      BY StoreAssumption DEF Slot
    <3>4. ~(d1 < d2) /\ ~(d2 < d1)
      <4>1. d1 < d2 => d1 \in 0 .. d2 - 1
        BY <3>3
      <4>2. d2 < d1 => d2 \in 0 .. d1 - 1
        BY <3>3
      <4>3. QED
        BY <2>2, <3>1, <3>2, <4>1, <4>2, Zenon
    <3>5. QED
      BY <3>1, <3>2, <3>3, <3>4
  <2>3. QED
    BY <2>1, <2>2, Zenon DEF StoreOrdered
<1>2. QED
  BY <1>1, RInvariance, PTL
-----------------------------------------------------------------------------
\* The list walk of txn_read over a history returns the newest version of the
\* abstract snapshot.
LEMMA ReadAtIsSnapshot ==
  ASSUME IInv, NEW s \in Slot, NEW ts \in Nat
  PROVE  ReadAt(hist[s], ts) = SI!SnapshotValue(s, ts)
<1> DEFINE list == hist[s]
           vis == {i \in 1 .. Len(list) : list[i].commit_ts <= ts}
           old == {v \in AbsDb[s] : v.commit_ts <= ts}
<1>1. AbsDb[s] = {list[i] : i \in 1 .. Len(list)}
  BY DEF AbsDb
<1>2. \A v : v \in old <=> \E i \in vis : v = list[i]
  BY <1>1
<1>3. CASE vis = {}
  BY <1>2, <1>3 DEF ReadAt, SI!SnapshotValue
<1>4. CASE vis # {}
  <2> DEFINE m == MinOf(vis)
  <2>1. vis \in SUBSET Nat
    OBVIOUS
  <2>2. m \in vis /\ \A y \in vis : m <= y
    BY <1>4, <2>1, MinOfProperty, Zenon
  <2>9. ReadAt(hist[s], ts) = list[m].value
    BY <1>4 DEF ReadAt
  <2> HIDE DEF m
  <2>3. old # {}
    BY <1>2, <2>2
  <2>4. \A i \in vis : list[i].commit_ts \in Nat
    BY HistTyped
  <2>5. \A i \in vis : i = m \/ list[m].commit_ts > list[i].commit_ts
    <3> TAKE i \in vis
    <3>1. i \in 1 .. Len(list) /\ m \in 1 .. Len(list) /\ (i = m \/ m < i)
      BY <2>1, <2>2
    <3>2. QED
      BY <3>1 DEF IInv, ClockInv
  <2> DEFINE Newest(v) == \A w \in old : w.commit_ts <= v.commit_ts
  <2>6. list[m] \in old /\ Newest(list[m])
    <3>1. ASSUME NEW w \in old
          PROVE  w.commit_ts <= list[m].commit_ts
      <4>1. PICK i \in vis : w = list[i]
        BY <1>2
      <4>2. list[i].commit_ts \in Nat /\ list[m].commit_ts \in Nat
        BY <2>2, <2>4
      <4>3. QED
        BY <2>5, <4>1, <4>2
    <3>2. list[m] \in old
      BY <1>2, <2>2
    <3>3. QED
      BY <3>1, <3>2
  <2>7. \A v \in old : Newest(v) => v = list[m]
    <3> TAKE v \in old
    <3> HAVE Newest(v)
    <3>1. PICK i \in vis : v = list[i]
      BY <1>2
    <3>2. list[m].commit_ts <= list[i].commit_ts
      BY <2>6, <3>1
    <3>3. i = m
      BY <2>2, <2>4, <2>5, <3>2
    <3>4. QED
      BY <3>1, <3>3
  <2>8. (CHOOSE v \in old : \A w \in old : w.commit_ts <= v.commit_ts) = list[m]
    <3> HIDE DEF old, list, vis
    <3>1. QED
      BY <2>6, <2>7, Zenon
  <2>10. SI!SnapshotValue(s, ts) = list[m].value
    BY <2>3, <2>8 DEF SI!SnapshotValue
  <2>11. QED
    BY <2>9, <2>10
<1>5. QED
  BY <1>3, <1>4

\* A committer that has drawn its timestamp pushes its versions on the
\* abstract database.
LEMMA DrawIsCommit ==
  ASSUME RInv, NEW t \in Thread, draw_commit_ts(t)
  PROVE  SI!Commit(t)
<1>1. /\ pc[t] = "stamp" /\ pc' = [pc EXCEPT ![t] = "install"]
      /\ pc \in [Thread -> {"new", "active", "read", "lock", "stamp", "install",
                            "unlock", "fail", "done"}]
      /\ status[t] = "active" /\ start_ts \in [Thread -> Nat]
      /\ UNCHANGED <<versions, owner, status, start_ts, writes, reads>>
      /\ global_ts' = global_ts + 1
  BY DEF RInv, IInv, TypeOK, StatusInv, draw_commit_ts, store
<1>2. AbsPhase[t] = "active" /\ AbsPhase' = [AbsPhase EXCEPT ![t] = "committed"]
  BY <1>1 DEF AbsPhase
<1>3. AbsWrites[t] = writes[t] /\ AbsWrites' = [AbsWrites EXCEPT ![t] = [s \in Slot |-> None]]
  BY <1>1 DEF AbsWrites
<1>4. \A s \in Slot : hist[s] \in Seq(Version)
  BY DEF RInv, IInv, TypeOK
<1>5. ASSUME NEW s \in Slot, writes[t][s] # None
      PROVE  \A v \in AbsDb[s] : v.commit_ts <= start_ts[t]
  <2>1. owner[s] = t
    BY <1>1, <1>5 DEF RInv, IInv, LockDiscipline
  <2>2. \A u \in Thread : ~Installing(u, s)
    BY <1>1, <2>1 DEF RInv, IInv, LockDiscipline, Installing
  <2>3. hist[s] = versions[s]
    BY <2>2 DEF RInv, IInv, HistAgrees
  <2>4. ASSUME NEW j \in 1 .. Len(hist[s])
        PROVE  hist[s][j].commit_ts <= start_ts[t]
    <3>1. hist[s] # << >> /\ 1 \in 1 .. Len(hist[s])
      BY <1>4
    <3>2. hist[s][1].commit_ts <= start_ts[t]
      BY <1>1, <1>5, <2>3, <3>1 DEF RInv, IInv, Validated
    <3>3. hist[s][j].commit_ts \in Nat /\ hist[s][1].commit_ts \in Nat
      BY <3>1, HistTyped DEF RInv
    <3>4. j = 1 \/ hist[s][1].commit_ts > hist[s][j].commit_ts
      BY <3>1 DEF RInv, IInv, ClockInv
    <3>5. QED
      BY <1>1, <3>2, <3>3, <3>4
  <2>5. QED
    BY <2>4 DEF AbsDb
<1>6. ASSUME NEW s \in Slot
      PROVE  AbsDb'[s] = AbsDb[s] \cup IF writes[t][s] # None
                                         THEN {NewVersion(t, s, global_ts)} ELSE {}
  <2>1. /\ AbsDb[s] = {hist[s][i] : i \in 1 .. Len(hist[s])}
        /\ AbsDb'[s] = {hist'[s][i] : i \in 1 .. Len(hist'[s])}
    BY DEF AbsDb
  <2>2. CASE writes[t][s] = None
    BY <2>1, <2>2 DEF draw_commit_ts, WriteSet
  <2>3. CASE writes[t][s] # None
    <3> DEFINE list == hist[s]
               new == hist'[s]
               v == NewVersion(t, s, global_ts)
    <3>1. v \in Version
      <4>1. writes[t][s] \in Value /\ global_ts \in Nat
        BY <2>3 DEF RInv, IInv, TypeOK
      <4>2. QED
        BY <4>1 DEF NewVersion, Version
    <3>2. new = Push(list, v)
      BY <2>3 DEF draw_commit_ts, WriteSet
    <3>3. list \in Seq(Version)
      BY <1>4
    <3> HIDE DEF list, new, v
    <3>7. Len(list) \in Nat
      BY <3>3
    <3>4. /\ Len(new) = Len(list) + 1
          /\ new[1] = v
          /\ \A i \in 1 .. Len(list) : new[i + 1] = list[i]
          /\ \A i \in 2 .. Len(list) + 1 : new[i] = list[i - 1]
      BY <3>1, <3>2, <3>3, PushFacts, Zenon
    <3>5. {new[i] : i \in 1 .. Len(new)} = {list[i] : i \in 1 .. Len(list)} \cup {v}
      <4>1. ASSUME NEW i \in 1 .. Len(new)
            PROVE  new[i] \in {list[j] : j \in 1 .. Len(list)} \cup {v}
        <5>1. i = 1 \/ (i \in 2 .. Len(list) + 1 /\ i - 1 \in 1 .. Len(list))
          BY <3>4, <3>7
        <5>2. QED
          BY <3>4, <5>1
      <4>2. ASSUME NEW i \in 1 .. Len(list)
            PROVE  list[i] \in {new[j] : j \in 1 .. Len(new)}
        BY <3>4, <3>7
      <4>3. v \in {new[j] : j \in 1 .. Len(new)}
        BY <3>4, <3>7
      <4>4. QED
        BY <4>1, <4>2, <4>3
    <3>6. QED
      BY <2>1, <2>3, <3>5 DEF list, new, v
  <2>4. QED
    BY <2>2, <2>3
<1>7. AbsDb' = [x \in Slot |->
                  AbsDb[x] \cup IF x \in SI!Written(t)
                    THEN {[commit_ts |-> global_ts, value |-> AbsWrites[t][x], writer |-> t]}
                    ELSE {}]
  <2>1. \A x \in Slot : x \in SI!Written(t) <=> writes[t][x] # None
    BY <1>3 DEF SI!Written
  <2>2. \A x \in Slot : AbsDb'[x] =
          AbsDb[x] \cup IF x \in SI!Written(t)
            THEN {[commit_ts |-> global_ts, value |-> AbsWrites[t][x], writer |-> t]} ELSE {}
    BY <1>3, <1>6, <2>1 DEF NewVersion
  <2>3. AbsDb' = [x \in Slot |-> AbsDb'[x]]
    BY DEF AbsDb
  <2>4. QED
    BY <2>2, <2>3, Zenon
<1>8. \A x \in SI!Written(t) : \A v \in AbsDb[x] : v.commit_ts <= start_ts[t]
  BY <1>3, <1>5 DEF SI!Written
<1>9. QED
  BY <1>1, <1>2, <1>3, <1>7, <1>8, Zenon DEF SI!Commit, SI!NoWrites

\* The steps that the abstract database does not see.
LEMMA HiddenStep ==
  ASSUME RInv, NEW t \in Thread,
         \/ create_txn_full(t)
         \/ txn_commit(t)
         \/ \E k \in Key : store_full(t, k) \/ txn_read(t, k)
         \/ lock_next(t)
         \/ validate(t)
         \/ install(t)
         \/ unlock_next(t)
         \/ commit_done(t)
  PROVE  UNCHANGED SI!sivars
<1>1. /\ pc \in [Thread -> {"new", "active", "read", "lock", "stamp", "install",
                            "unlock", "fail", "done"}]
      /\ status \in [Thread -> {"none", "active", "committed", "aborted"}]
      /\ writes \in [Thread -> [Slot -> Value \cup {None}]]
  BY DEF RInv, IInv, TypeOK
<1>2. UNCHANGED <<global_ts, start_ts, reads, hist>>
  BY Zenon DEF create_txn_full, txn_commit, store_full, txn_read, lock_next, validate, install,
     unlock_next, commit_done, txn, aux
<1>3. AbsDb' = AbsDb
  BY <1>2 DEF AbsDb
<1>4. AbsPhase' = AbsPhase
  <2>1. CASE create_txn_full(t)
    BY <1>1, <2>1 DEF create_txn_full, txn, AbsPhase
  <2>2. CASE txn_commit(t) \/ validate(t)
    BY <1>1, <2>2 DEF txn_commit, validate, txn, AbsPhase
  <2>3. CASE \E k \in Key : store_full(t, k) \/ txn_read(t, k)
    BY <1>1, <2>3 DEF store_full, txn_read, txn, AbsPhase
  <2>4. CASE lock_next(t) \/ unlock_next(t)
    BY <2>4 DEF lock_next, unlock_next, txn, AbsPhase
  <2>5. CASE install(t)
    BY <1>1, <2>5 DEF install, AbsPhase
  <2>6. CASE commit_done(t)
    BY <1>1, <2>6 DEF commit_done, AbsPhase
  <2>7. QED
    BY <2>1, <2>2, <2>3, <2>4, <2>5, <2>6
<1>5. AbsWrites' = AbsWrites
  <2>1. CASE create_txn_full(t)
    BY <1>1, <2>1 DEF create_txn_full, txn, AbsWrites
  <2>2. CASE txn_commit(t) \/ validate(t)
    BY <1>1, <2>2 DEF txn_commit, validate, txn, AbsWrites
  <2>3. CASE \E k \in Key : store_full(t, k) \/ txn_read(t, k)
    BY <1>1, <2>3 DEF store_full, txn_read, txn, AbsWrites
  <2>4. CASE lock_next(t) \/ unlock_next(t)
    BY <2>4 DEF lock_next, unlock_next, txn, AbsWrites
  <2>5. CASE install(t)
    BY <1>1, <2>5 DEF install, AbsWrites
  <2>6. CASE commit_done(t)
    BY <1>1, <2>6 DEF commit_done, AbsWrites
  <2>7. QED
    BY <2>1, <2>2, <2>3, <2>4, <2>5, <2>6
<1>6. QED
  BY <1>2, <1>3, <1>4, <1>5 DEF SI!sivars

\* The steps that begin, read, write, commit or abort.
LEMMA VisibleStep ==
  ASSUME RInv, NEW t \in Thread,
         \/ create_txn(t)
         \/ txn_commit_read_only(t)
         \/ txn_explicit_abort(t)
         \/ conflict_done(t)
         \/ txn_read_locked(t)
         \/ draw_commit_ts(t)
         \/ \E k \in Key, v \in Value : txn_write(t, k, v)
  PROVE  SI!Next
<1>1. /\ pc \in [Thread -> {"new", "active", "read", "lock", "stamp", "install",
                            "unlock", "fail", "done"}]
      /\ status \in [Thread -> {"none", "active", "committed", "aborted"}]
      /\ writes \in [Thread -> [Slot -> Value \cup {None}]]
      /\ start_ts \in [Thread -> Nat]
      /\ idx \in [Thread -> Slot \cup {NoSlot}]
  BY DEF RInv, IInv, TypeOK
<1>2. hist' = hist => AbsDb' = AbsDb
  BY DEF AbsDb
<1>3. CASE create_txn(t)
  <2>1. /\ AbsPhase[t] = "none"
        /\ AbsPhase' = [AbsPhase EXCEPT ![t] = "active"]
        /\ AbsWrites' = AbsWrites
    BY <1>1, <1>3 DEF RInv, StatusInv, create_txn, AbsPhase, AbsWrites
  <2>2. SI!Begin(t)
    BY <1>2, <1>3, <2>1 DEF create_txn, aux, SI!Begin
  <2>3. QED
    BY <2>2 DEF SI!Next
<1>4. CASE txn_commit_read_only(t)
  <2>1. /\ AbsPhase[t] = "active"
        /\ AbsPhase' = [AbsPhase EXCEPT ![t] = "committed"]
    BY <1>1, <1>4 DEF RInv, StatusInv, txn_commit_read_only, AbsPhase
  <2>2. writes[t] = [s \in Slot |-> None]
    BY <1>1, <1>4 DEF txn_commit_read_only, WriteSet
  <2>3. AbsWrites[t] = writes[t] /\ AbsWrites' = AbsWrites
    BY <1>1, <1>4 DEF txn_commit_read_only, AbsWrites
  <2>4. AbsWrites' = [AbsWrites EXCEPT ![t] = [s \in Slot |-> None]]
    BY <2>2, <2>3 DEF AbsWrites
  <2>5. SI!Written(t) = {}
    BY <2>2, <2>3 DEF SI!Written
  <2>6. AbsDb' = [x \in Slot |->
                    AbsDb[x] \cup IF x \in SI!Written(t)
                      THEN {[commit_ts |-> global_ts, value |-> AbsWrites[t][x], writer |-> t]}
                      ELSE {}]
    BY <1>2, <1>4, <2>5 DEF txn_commit_read_only, aux, AbsDb
  <2>7. SI!Commit(t)
    BY <1>4, <2>1, <2>4, <2>5, <2>6, Zenon DEF txn_commit_read_only, aux, SI!Commit, SI!NoWrites
  <2>8. QED
    BY <2>7 DEF SI!Next
<1>5. CASE txn_explicit_abort(t) \/ conflict_done(t)
  <2>1. /\ AbsPhase[t] = "active"
        /\ AbsPhase' = [AbsPhase EXCEPT ![t] = "aborted"]
    BY <1>1, <1>5 DEF RInv, StatusInv, txn_explicit_abort, conflict_done, AbsPhase
  <2>2. AbsWrites' = [AbsWrites EXCEPT ![t] = [s \in Slot |-> None]]
    BY <1>1, <1>5 DEF txn_explicit_abort, conflict_done, AbsWrites
  <2>3. SI!Abort(t)
    BY <1>2, <1>5, <2>1, <2>2 DEF txn_explicit_abort, conflict_done, aux, SI!Abort, SI!NoWrites
  <2>4. QED
    BY <2>3 DEF SI!Next
<1>6. CASE txn_read_locked(t)
  <2>1. idx[t] \in Slot /\ pc[t] = "read"
    BY <1>6 DEF txn_read_locked, RInv, IInv, LocalInv
  <2>2. hist[idx[t]] = versions[idx[t]]
    BY <1>6, <2>1, StoreAssumption
       DEF txn_read_locked, RInv, IInv, HistAgrees, Installing, LockDiscipline
  <2>3. ReadAt(versions[idx[t]], start_ts[t]) = SI!SnapshotValue(idx[t], start_ts[t])
    BY <1>1, <2>1, <2>2, ReadAtIsSnapshot DEF RInv
  <2>4. AbsPhase[t] = "active" /\ AbsPhase' = AbsPhase
    BY <1>1, <1>6 DEF RInv, StatusInv, txn_read_locked, txn, AbsPhase
  <2>5. AbsWrites[t][idx[t]] = None /\ AbsWrites' = AbsWrites
    BY <1>1, <1>6 DEF RInv, StatusInv, txn_read_locked, txn, AbsWrites
  <2>6. SI!Read(t, idx[t])
    BY <1>2, <1>6, <2>3, <2>4, <2>5 DEF txn_read_locked, txn, SI!Read
  <2>7. QED
    BY <2>1, <2>6 DEF SI!Next
<1>7. CASE draw_commit_ts(t)
  BY <1>7, DrawIsCommit DEF SI!Next
<1>8. ASSUME NEW k \in Key, NEW v \in Value, txn_write(t, k, v)
      PROVE  SI!Next
  <2>1. SlotOf(k) \in Slot
    BY <1>8, SlotOfType DEF RInv, IInv, txn_write, get_or_create_key
  <2>2. AbsPhase[t] = "active" /\ AbsPhase' = AbsPhase
    BY <1>1, <1>8 DEF RInv, StatusInv, txn_write, AbsPhase
  <2>3. AbsWrites' = [AbsWrites EXCEPT ![t][SlotOf(k)] = v]
    BY <1>1, <1>8 DEF txn_write, AbsWrites
  <2>4. SI!Write(t, SlotOf(k), v)
    BY <1>2, <1>8, <2>2, <2>3 DEF txn_write, aux, SI!Write
  <2>5. QED
    BY <2>1, <2>4 DEF SI!Next
<1>9. QED
  BY <1>3, <1>4, <1>5, <1>6, <1>7, <1>8

\* Every execution of the store is one of SnapshotIsolation: reads see the
\* snapshot of create_txn, a commit takes effect at once when txn_commit draws
\* its timestamp, and only if nobody committed a newer version of what it wrote.
THEOREM Refinement == Spec => ImplementsSnapshotIsolation
<1>1. Init => SI!Init
  <2> SUFFICES ASSUME Init PROVE SI!Init
    OBVIOUS
  <2>1. AbsDb = [s \in Slot |-> {}]
    BY DEF Init, AbsDb
  <2>2. AbsPhase = [t \in Thread |-> "none"]
    BY DEF Init, AbsPhase
  <2>3. AbsWrites = [t \in Thread |-> [s \in Slot |-> None]]
    BY DEF Init, AbsWrites
  <2>4. QED
    BY <2>1, <2>2, <2>3 DEF Init, SI!Init, SI!NoWrites
<1>2. RInv /\ [Next]_vars => [SI!Next]_SI!sivars
  <2> SUFFICES ASSUME RInv, [Next]_vars
               PROVE  [SI!Next]_SI!sivars
    OBVIOUS
  <2>1. CASE UNCHANGED vars
    BY <2>1 DEF vars, SI!sivars, AbsDb, AbsPhase, AbsWrites
  <2>2. ASSUME NEW t \in Thread, Call(t) \/ Continue(t)
        PROVE  [SI!Next]_SI!sivars
    BY <2>2, HiddenStep, VisibleStep, Zenon DEF Call, Continue
  <2>3. QED
    BY <2>1, <2>2 DEF Next
<1>3. QED
  BY <1>1, <1>2, RInvariance, PTL DEF Spec, SI!Spec, ImplementsSnapshotIsolation
=============================================================================
