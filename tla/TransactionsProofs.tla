------------------------- MODULE TransactionsProofs -------------------------
(***************************************************************************)
(* For any threads, keys and programs the locking transactions keep their  *)
(* lock table in step with what they hold, write only keys they own and    *)
(* lose no wake-up; for any readers the versioned row serves snapshots;    *)
(* for any commands recovery from the log of wal_demo.c restores what was  *)
(* synced.                                                                 *)
(***************************************************************************)
EXTENDS MCTransactions, SequenceTheorems, WellFoundedInduction, TLAPS

\* A non-empty set of naturals has a least element, the one Min picks.
LEMMA LeastElement ==
  ASSUME NEW S \in SUBSET Nat, S # {}
  PROVE  /\ Min(S) \in S
         /\ \A y \in S : Min(S) <= y
<1> DEFINE R == {ss \in Nat \X Nat : ss[1] < ss[2]}
<1>1. IsWellFoundedOn(R, Nat)
  BY NatLessThanWellFounded, Zenon DEF OpToRel
<1>2. PICK x \in S : \A y \in S : ~(<<y, x>> \in R)
  BY <1>1, WFMin, Zenon
<1>3. ASSUME NEW y \in S
      PROVE  x <= y
  <2>1. x \in Nat /\ y \in Nat
    OBVIOUS
  <2>2. y < x => <<y, x>> \in R
    BY <2>1
  <2>3. QED
    BY <1>2, <2>1, <2>2
<1>4. QED
  BY <1>3, Zenon DEF Min

\* detect_deadlock_and_pick_victim returns a transaction of the graph: when a
\* cycle exists, one of its members has the largest start_ts.
LEMMA VictimExists ==
  ASSUME TypeOK, \A t \in Thread : start_ts[t] <= global_ts, OnCycle # {}
  PROVE  PickVictim \in Thread
<1> DEFINE age(t) == global_ts - start_ts[t]
           Ages == {age(t) : t \in OnCycle}
<1>1. OnCycle \subseteq Thread
  BY DEF OnCycle
<1>2. \A t \in OnCycle : age(t) \in Nat
  BY <1>1 DEF TypeOK
<1>3. Ages \in SUBSET Nat /\ Ages # {}
  BY <1>2
<1>4. PICK v \in OnCycle : \A u \in OnCycle : age(v) <= age(u)
  <2> HIDE DEF age
  <2>1. Min(Ages) \in Ages /\ \A y \in Ages : Min(Ages) <= y
    BY <1>3, LeastElement
  <2>2. QED
    BY <2>1
<1>5. \A u \in OnCycle : start_ts[u] <= start_ts[v]
  BY <1>1, <1>4 DEF TypeOK
<1>6. PickVictim \in OnCycle
  BY <1>5, Zenon DEF PickVictim
<1>7. QED
  BY <1>1, <1>6

\* A thread inside txn_write is at a key of the table.
LEMMA KeyInTable ==
  ASSUME TypeOK, NEW t \in Thread, program[t] # << >>
  PROVE  key(t) \in Key
BY DEF TypeOK, key

\* Every step keeps the types; a release finds a key of the victim's list, a
\* detection finds a victim.
LEMMA TypeStep ==
  ASSUME IInv, NEW t \in Thread, Step(t)
  PROVE  TypeOK'
<1> USE DEF TypeOK, PC, Goto, UnlockKey, txn, local
<1>1. CASE create_txn(t)
  BY <1>1 DEF IInv, create_txn
<1>2. CASE txn_write(t)
  BY <1>2 DEF IInv, txn_write
<1>3. CASE lock_key(t)
  BY <1>3 DEF IInv, lock_key
<1>4. CASE acquire_inactive(t)
  BY <1>4 DEF IInv, acquire_inactive
<1>5. CASE acquire_active(t)
  BY <1>5 DEF IInv, acquire_active
<1>6. CASE acquire_free(t)
  BY <1>6, KeyInTable DEF IInv, HasKey, acquire_free
<1>7. CASE acquire_busy(t)
  BY <1>7, KeyInTable DEF IInv, HasKey, acquire_busy, add_wait_edge
<1>8. CASE detect_none(t)
  BY <1>8 DEF IInv, detect_none
<1>9. CASE detect_self(t)
  BY <1>9 DEF IInv, detect_self, remove_wait_edge
<1>10. CASE detect_other(t)
  BY <1>10, VictimExists DEF IInv, detect_other
<1>11. CASE cond_wait(t)
  BY <1>11 DEF IInv, cond_wait, remove_wait_edge
<1>12. CASE wake_up(t)
  BY <1>12 DEF IInv, wake_up
<1>13. CASE buffer_write(t)
  <2>1. program[t] \in Seq(Key) /\ program[t] # << >>
    BY <1>13 DEF IInv, HasKey, buffer_write
  <2>2. Tail(program[t]) \in Seq(Key)
    BY <2>1
  <2>3. QED
    BY <1>13, <2>1, <2>2, KeyInTable DEF IInv, buffer_write
<1>14. CASE txn_explicit_abort(t)
  BY <1>14 DEF IInv, txn_explicit_abort
<1>15. CASE abort_inactive(t)
  BY <1>15 DEF IInv, abort_inactive, AbortReturn
<1>16. CASE abort_txn(t)
  BY <1>16 DEF IInv, abort_txn
<1>17. CASE release_next(t)
  <2>1. pc' \in [Thread -> PC]
    BY <1>17 DEF IInv, release_next
  <2>2. owner' \in [Key -> Thread \cup {None}]
    <3> DEFINE k == Min(held[victim[t]])
    <3>1. owner' = [owner EXCEPT ![k] = None] \/ owner' = owner
      BY <1>17 DEF release_next
    <3> HIDE DEF k
    <3>2. QED
      BY <3>1 DEF IInv
  <2>3. held' \in [Thread -> SUBSET Key]
    BY <1>17 DEF IInv, release_next
  <2>4. QED
    BY <1>17, <2>1, <2>2, <2>3 DEF IInv, release_next
<1>18. CASE abort_done(t)
  BY <1>18 DEF IInv, abort_done, AbortReturn
<1>19. CASE txn_commit(t)
  <2>1. tmtx' \in [Thread -> Thread \cup {None}]
    <3>1. tmtx' = [tmtx EXCEPT ![t] = t] \/ tmtx' = tmtx
      BY <1>19 DEF txn_commit
    <3>2. QED
      BY <3>1 DEF IInv
  <2>2. victim' \in [Thread -> Thread \cup {None}]
    BY <1>19 DEF IInv, txn_commit
  <2>3. pc' \in [Thread -> PC]
    BY <1>19 DEF IInv, txn_commit
  <2>4. QED
    BY <1>19, <2>1, <2>2, <2>3 DEF IInv, txn_commit
<1>20. CASE commit_copy(t)
  <2>1. value' \in [Key -> Thread \cup {None}]
    BY <1>20 DEF IInv, commit_copy
  <2>2. writes' \in [Thread -> SUBSET Key]
    <3>1. \A k : writes[t] \ {k} \in SUBSET Key
      BY DEF IInv
    <3>2. writes' = writes \/ \E k : writes' = [writes EXCEPT ![t] = writes[t] \ {k}]
      BY <1>20 DEF commit_copy
    <3>3. QED
      <4>1. CASE writes' = writes
        BY <4>1 DEF IInv
      <4>2. ASSUME NEW k, writes' = [writes EXCEPT ![t] = writes[t] \ {k}]
            PROVE  writes' \in [Thread -> SUBSET Key]
        <5> DEFINE W == writes[t] \ {k}
        <5>1. W \in SUBSET Key
          BY <3>1
        <5>2. writes' = [writes EXCEPT ![t] = W]
          BY <4>2
        <5>3. writes \in [Thread -> SUBSET Key]
          BY DEF IInv
        <5>4. QED
          <6> HIDE DEF W
          <6> QED BY <5>1, <5>2, <5>3
      <4>3. QED
        BY <3>2, <4>1, <4>2
  <2>3. pc' \in [Thread -> PC]
    BY <1>20 DEF IInv, commit_copy
  <2>4. QED
    BY <1>20, <2>1, <2>2, <2>3 DEF IInv, commit_copy
<1>21. CASE commit_done(t)
  BY <1>21 DEF IInv, commit_done
<1>22. QED
  BY <1>1, <1>2, <1>3, <1>4, <1>5, <1>6, <1>7, <1>8, <1>9, <1>10, <1>11, <1>12, <1>13,
     <1>14, <1>15, <1>16, <1>17, <1>18, <1>19, <1>20, <1>21, Zenon DEF Step

\* What a step of one thread does to another's program counter: it may only
\* wake it, and it leaves the other's local variables alone.
LEMMA OthersStay ==
  ASSUME IInv, NEW t \in Thread, Step(t), NEW u \in Thread, u # t
  PROVE  /\ program'[u] = program[u]
         /\ victim'[u] = victim[u]
         /\ pc'[u] = pc[u] \/ (pc[u] = "waiting" /\ pc'[u] = "woken")
<1> USE DEF TypeOK, IInv, Goto, txn, local
<1>1. CASE create_txn(t)
  BY <1>1 DEF create_txn
<1>2. CASE txn_write(t)
  BY <1>2 DEF txn_write
<1>3. CASE lock_key(t)
  BY <1>3 DEF lock_key
<1>4. CASE acquire_inactive(t)
  BY <1>4 DEF acquire_inactive
<1>5. CASE acquire_active(t)
  BY <1>5 DEF acquire_active
<1>6. CASE acquire_free(t)
  BY <1>6 DEF acquire_free
<1>7. CASE acquire_busy(t)
  BY <1>7 DEF acquire_busy, add_wait_edge
<1>8. CASE detect_none(t)
  BY <1>8 DEF detect_none
<1>9. CASE detect_self(t)
  BY <1>9 DEF detect_self, remove_wait_edge
<1>10. CASE detect_other(t)
  BY <1>10 DEF detect_other
<1>11. CASE cond_wait(t)
  BY <1>11 DEF cond_wait, remove_wait_edge
<1>12. CASE wake_up(t)
  BY <1>12 DEF wake_up
<1>13. CASE buffer_write(t)
  BY <1>13 DEF buffer_write
<1>14. CASE txn_explicit_abort(t)
  BY <1>14 DEF txn_explicit_abort
<1>15. CASE abort_inactive(t)
  BY <1>15 DEF abort_inactive, AbortReturn
<1>16. CASE abort_txn(t)
  BY <1>16 DEF abort_txn
<1>17. CASE release_next(t)
  BY <1>17 DEF release_next
<1>18. CASE abort_done(t)
  BY <1>18 DEF abort_done, AbortReturn
<1>19. CASE txn_commit(t)
  BY <1>19 DEF txn_commit
<1>20. CASE commit_copy(t)
  BY <1>20 DEF commit_copy
<1>21. CASE commit_done(t)
  BY <1>21 DEF commit_done
<1>22. QED
  BY <1>1, <1>2, <1>3, <1>4, <1>5, <1>6, <1>7, <1>8, <1>9, <1>10, <1>11, <1>12, <1>13,
     <1>14, <1>15, <1>16, <1>17, <1>18, <1>19, <1>20, <1>21, Zenon DEF Step

\* txn_write keeps its key until the write is buffered.
LEMMA HasKeyStep ==
  ASSUME IInv, NEW t \in Thread, Step(t)
  PROVE  HasKey'
<1>0. SUFFICES pc'[t] \in {"lock", "acquire", "test", "detect", "wait", "waiting", "woken", "buffer"}
               \/ (pc'[t] \in {"abort_txn", "abort_release"} /\ victim'[t] # t)
                 => program'[t] # << >>
  BY OthersStay DEF IInv, HasKey
<1> USE DEF TypeOK, IInv, Goto, txn, local, HasKey
<1>1. CASE create_txn(t)
  BY <1>1 DEF create_txn
<1>2. CASE txn_write(t)
  BY <1>2 DEF txn_write
<1>3. CASE lock_key(t)
  BY <1>3 DEF lock_key
<1>4. CASE acquire_inactive(t)
  BY <1>4 DEF acquire_inactive
<1>5. CASE acquire_active(t)
  BY <1>5 DEF acquire_active
<1>6. CASE acquire_free(t)
  BY <1>6 DEF acquire_free
<1>7. CASE acquire_busy(t)
  BY <1>7 DEF acquire_busy, add_wait_edge
<1>8. CASE detect_none(t)
  BY <1>8 DEF detect_none
<1>9. CASE detect_self(t)
  BY <1>9 DEF detect_self, remove_wait_edge
<1>10. CASE detect_other(t)
  BY <1>10 DEF detect_other
<1>11. CASE cond_wait(t)
  BY <1>11 DEF cond_wait, remove_wait_edge
<1>12. CASE wake_up(t)
  BY <1>12 DEF wake_up
<1>13. CASE buffer_write(t)
  BY <1>13 DEF buffer_write
<1>14. CASE txn_explicit_abort(t)
  BY <1>14 DEF txn_explicit_abort
<1>15. CASE abort_inactive(t)
  BY <1>15 DEF abort_inactive, AbortReturn
<1>16. CASE abort_txn(t)
  BY <1>16 DEF abort_txn
<1>17. CASE release_next(t)
  BY <1>17 DEF release_next
<1>18. CASE abort_done(t)
  BY <1>18 DEF abort_done, AbortReturn
<1>19. CASE txn_commit(t)
  BY <1>19 DEF txn_commit
<1>20. CASE commit_copy(t)
  BY <1>20 DEF commit_copy
<1>21. CASE commit_done(t)
  BY <1>21 DEF commit_done
<1>22. QED
  BY <1>1, <1>2, <1>3, <1>4, <1>5, <1>6, <1>7, <1>8, <1>9, <1>10, <1>11, <1>12, <1>13,
     <1>14, <1>15, <1>16, <1>17, <1>18, <1>19, <1>20, <1>21, Zenon DEF Step

\* Nobody but its own thread commits a transaction, and an abort by another
\* waits for the t->mtx that txn_commit holds.
LEMMA ReleasersStep ==
  ASSUME IInv, NEW t \in Thread, Step(t)
  PROVE  Releasers'
<1> USE DEF TypeOK, IInv, Goto, txn, local, Releasers, Committing
<1>1. CASE create_txn(t)
  BY <1>1 DEF create_txn
<1>2. CASE txn_write(t)
  BY <1>2 DEF txn_write
<1>3. CASE lock_key(t)
  BY <1>3 DEF lock_key
<1>4. CASE acquire_inactive(t)
  BY <1>4 DEF acquire_inactive
<1>5. CASE acquire_active(t)
  BY <1>5 DEF acquire_active
<1>6. CASE acquire_free(t)
  BY <1>6 DEF acquire_free
<1>7. CASE acquire_busy(t)
  BY <1>7 DEF acquire_busy, add_wait_edge
<1>8. CASE detect_none(t)
  BY <1>8 DEF detect_none
<1>9. CASE detect_self(t)
  BY <1>9 DEF detect_self, remove_wait_edge
<1>10. CASE detect_other(t)
  BY <1>10, VictimExists DEF detect_other
<1>11. CASE cond_wait(t)
  BY <1>11 DEF cond_wait, remove_wait_edge
<1>12. CASE wake_up(t)
  BY <1>12 DEF wake_up
<1>13. CASE buffer_write(t)
  BY <1>13 DEF buffer_write
<1>14. CASE txn_explicit_abort(t)
  BY <1>14 DEF txn_explicit_abort
<1>15. CASE abort_inactive(t)
  BY <1>15 DEF abort_inactive, AbortReturn
<1>16. CASE abort_txn(t)
  <2> DEFINE v == victim[t]
  <2>1. v \in Thread /\ tmtx[v] = None
    BY <1>16 DEF abort_txn
  <2>2. \A u \in Thread : pc[u] \in Committing => u # v
    BY <2>1, TxnAssumption
  <2>3. /\ pc' = [pc EXCEPT ![t] = "abort_release"]
        /\ status' = [status EXCEPT ![v] = "aborted"]
        /\ writes' = [writes EXCEPT ![v] = {}]
        /\ tmtx' = [tmtx EXCEPT ![v] = t]
        /\ status[v] = "active"
        /\ UNCHANGED victim
    BY <1>16 DEF abort_txn
  <2> HIDE DEF v
  <2>4. \A u \in Thread : pc'[u] \in Committing => victim'[u] = u /\ tmtx'[u] = u /\ status'[u] = "active"
    BY <2>1, <2>2, <2>3
  <2>5. \A u \in Thread : pc'[u] = "new" => status'[u] = "none" /\ writes'[u] = {}
    BY <2>1, <2>3
  <2>6. \A u \in Thread : pc'[u] \in {"abort_txn", "abort_release"} => victim'[u] \in Thread
    BY <2>1, <2>3 DEF v
  <2>7. \A u \in Thread : pc'[u] = "abort_release" => status'[victim'[u]] = "aborted"
    BY <2>1, <2>3 DEF v
  <2>8. QED
    BY <2>4, <2>5, <2>6, <2>7
<1>17. CASE release_next(t)
  BY <1>17 DEF release_next
<1>18. CASE abort_done(t)
  BY <1>18 DEF abort_done, AbortReturn
<1>19. CASE txn_commit(t)
  BY <1>19 DEF txn_commit
<1>20. CASE commit_copy(t)
  BY <1>20 DEF commit_copy
<1>21. CASE commit_done(t)
  BY <1>21 DEF commit_done
<1>22. QED
  BY <1>1, <1>2, <1>3, <1>4, <1>5, <1>6, <1>7, <1>8, <1>9, <1>10, <1>11, <1>12, <1>13,
     <1>14, <1>15, <1>16, <1>17, <1>18, <1>19, <1>20, <1>21, Zenon DEF Step

\* A key enters held_keys when owner_txn is set and leaves it when owner_txn
\* is cleared, in the same section under lk->mtx.
LEMMA HeldIsOwnedStep ==
  ASSUME IInv, NEW t \in Thread, Step(t)
  PROVE  HeldIsOwned'
<1> USE DEF TypeOK, IInv, txn, HeldIsOwned
<1>1. CASE create_txn(t)
  BY <1>1 DEF create_txn
<1>2. CASE txn_write(t)
  BY <1>2 DEF txn_write
<1>3. CASE lock_key(t)
  BY <1>3 DEF lock_key
<1>4. CASE acquire_inactive(t)
  BY <1>4 DEF acquire_inactive
<1>5. CASE acquire_active(t)
  BY <1>5 DEF acquire_active
<1>6. CASE acquire_free(t)
  <2> DEFINE k == key(t)
  <2>1. k \in Key
    BY <1>6, KeyInTable DEF acquire_free, HasKey
  <2>2. /\ owner[k] \in {None, t}
        /\ owner' = [owner EXCEPT ![k] = t]
        /\ held' = [held EXCEPT ![t] = held[t] \cup {k}]
    BY <1>6 DEF acquire_free
  <2> HIDE DEF k
  <2>3. ASSUME NEW u \in Thread, NEW j \in Key
        PROVE  j \in held'[u] <=> owner'[j] = u
    <3>1. held'[u] = IF u = t THEN held[t] \cup {k} ELSE held[u]
      BY <2>2
    <3>2. owner'[j] = IF j = k THEN t ELSE owner[j]
      BY <2>1, <2>2
    <3>3. j \in held[u] <=> owner[j] = u
      OBVIOUS
    <3>4. j = k => owner[j] \in {None, t}
      BY <2>2
    <3>5. QED
      BY <3>1, <3>2, <3>3, <3>4, TxnAssumption
  <2>4. QED
    BY <2>3
<1>7. CASE acquire_busy(t)
  BY <1>7 DEF acquire_busy, add_wait_edge
<1>8. CASE detect_none(t)
  BY <1>8 DEF detect_none
<1>9. CASE detect_self(t)
  BY <1>9 DEF detect_self, remove_wait_edge
<1>10. CASE detect_other(t)
  BY <1>10 DEF detect_other
<1>11. CASE cond_wait(t)
  BY <1>11 DEF cond_wait, remove_wait_edge
<1>12. CASE wake_up(t)
  BY <1>12 DEF wake_up
<1>13. CASE buffer_write(t)
  BY <1>13 DEF buffer_write
<1>14. CASE txn_explicit_abort(t)
  BY <1>14 DEF txn_explicit_abort
<1>15. CASE abort_inactive(t)
  BY <1>15 DEF abort_inactive, AbortReturn
<1>16. CASE abort_txn(t)
  BY <1>16 DEF abort_txn
<1>17. CASE release_next(t)
  <2> DEFINE v == victim[t]
             k == Min(held[v])
  <2>1. v \in Thread /\ held[v] # {}
    BY <1>17 DEF release_next, Releasers, Committing
  <2>2. k \in held[v]
    BY <2>1, LeastElement, TxnAssumption
  <2>3. k \in Key /\ owner[k] = v
    BY <2>1, <2>2
  <2>4. /\ owner' = [owner EXCEPT ![k] = None]
        /\ held' = [held EXCEPT ![v] = held[v] \ {k}]
    BY <1>17, <2>3 DEF release_next
  <2> HIDE DEF v, k
  <2>5. ASSUME NEW u \in Thread, NEW j \in Key
        PROVE  j \in held'[u] <=> owner'[j] = u
    <3>1. held'[u] = IF u = v THEN held[v] \ {k} ELSE held[u]
      BY <2>1, <2>4
    <3>2. owner'[j] = IF j = k THEN None ELSE owner[j]
      BY <2>3, <2>4
    <3>3. j \in held[u] <=> owner[j] = u
      OBVIOUS
    <3>4. v # None /\ u # None
      BY <2>1, TxnAssumption
    <3> HIDE DEF TypeOK, IInv, HeldIsOwned
    <3>5. QED
      BY <2>3, <3>1, <3>2, <3>3, <3>4
  <2>6. QED
    BY <2>5
<1>18. CASE abort_done(t)
  BY <1>18 DEF abort_done, AbortReturn
<1>19. CASE txn_commit(t)
  BY <1>19 DEF txn_commit
<1>20. CASE commit_copy(t)
  BY <1>20 DEF commit_copy
<1>21. CASE commit_done(t)
  BY <1>21 DEF commit_done
<1>22. QED
  BY <1>1, <1>2, <1>3, <1>4, <1>5, <1>6, <1>7, <1>8, <1>9, <1>10, <1>11, <1>12, <1>13,
     <1>14, <1>15, <1>16, <1>17, <1>18, <1>19, <1>20, <1>21, Zenon DEF Step

\* An active transaction keeps the keys it has written: a releaser has
\* marked it aborted first.
LEMMA WritesHeldStep ==
  ASSUME IInv, NEW t \in Thread, Step(t)
  PROVE  WritesHeld'
<1> USE DEF TypeOK, IInv, Goto, txn, local, Releasers, Committing, WritesHeld, key
<1>1. CASE create_txn(t)
  BY <1>1 DEF create_txn
<1>2. CASE txn_write(t)
  <2>1. pc'[t] # "buffer" /\ pc[t] # "commit_release" /\ \A u \in Thread : u # t => pc'[u] = pc[u]
    BY <1>2 DEF txn_write
  <2>2. UNCHANGED <<status, writes, held, program>>
    BY <1>2 DEF txn_write
  <2>3. QED
    BY <2>1, <2>2
<1>3. CASE lock_key(t)
  BY <1>3 DEF lock_key
<1>4. CASE acquire_inactive(t)
  BY <1>4 DEF acquire_inactive
<1>5. CASE acquire_active(t)
  BY <1>5 DEF acquire_active
<1>6. CASE acquire_free(t)
  BY <1>6 DEF acquire_free
<1>7. CASE acquire_busy(t)
  BY <1>7 DEF acquire_busy, add_wait_edge
<1>8. CASE detect_none(t)
  BY <1>8 DEF detect_none
<1>9. CASE detect_self(t)
  BY <1>9 DEF detect_self, remove_wait_edge
<1>10. CASE detect_other(t)
  BY <1>10 DEF detect_other
<1>11. CASE cond_wait(t)
  <2>1. pc'[t] # "buffer" /\ pc[t] # "commit_release" /\ \A u \in Thread : u # t => pc'[u] = pc[u]
    BY <1>11 DEF cond_wait
  <2>2. UNCHANGED <<status, writes, held, program>>
    BY <1>11 DEF cond_wait
  <2>3. QED
    BY <2>1, <2>2
<1>12. CASE wake_up(t)
  BY <1>12 DEF wake_up
<1>13. CASE buffer_write(t)
  BY <1>13 DEF buffer_write
<1>14. CASE txn_explicit_abort(t)
  BY <1>14 DEF txn_explicit_abort
<1>15. CASE abort_inactive(t)
  BY <1>15 DEF abort_inactive, AbortReturn
<1>16. CASE abort_txn(t)
  BY <1>16 DEF abort_txn
<1>17. CASE release_next(t)
  BY <1>17 DEF release_next
<1>18. CASE abort_done(t)
  BY <1>18 DEF abort_done, AbortReturn
<1>19. CASE txn_commit(t)
  <2>1. pc'[t] # "buffer" /\ pc[t] # "commit_release" /\ \A u \in Thread : u # t => pc'[u] = pc[u]
    BY <1>19 DEF txn_commit
  <2>2. UNCHANGED <<status, writes, held, program>>
    BY <1>19 DEF txn_commit
  <2>3. QED
    BY <2>1, <2>2
<1>20. CASE commit_copy(t)
  <2>1. UNCHANGED <<status, held, program>>
    BY <1>20 DEF commit_copy
  <2>2. \A u \in Thread : writes'[u] \subseteq writes[u]
    <3>1. writes' = writes \/ \E k : writes' = [writes EXCEPT ![t] = writes[t] \ {k}]
      BY <1>20 DEF commit_copy
    <3>2. ASSUME NEW k, writes' = [writes EXCEPT ![t] = writes[t] \ {k}], NEW u \in Thread
          PROVE  writes'[u] \subseteq writes[u]
      <4>1. writes'[u] = IF u = t THEN writes[t] \ {k} ELSE writes[u]
        BY <3>2
      <4>2. QED
        BY <4>1
    <3>3. QED
      BY <3>1, <3>2
  <2>3. \A u \in Thread : \/ pc'[u] = pc[u]
                         \/ pc'[u] = "commit_release"
    BY <1>20 DEF commit_copy
  <2>4. QED
    BY <2>1, <2>2, <2>3
<1>21. CASE commit_done(t)
  BY <1>21 DEF commit_done
<1>22. QED
  BY <1>1, <1>2, <1>3, <1>4, <1>5, <1>6, <1>7, <1>8, <1>9, <1>10, <1>11, <1>12, <1>13,
     <1>14, <1>15, <1>16, <1>17, <1>18, <1>19, <1>20, <1>21, Zenon DEF Step

\* A release wakes every thread that sleeps on the key, and a key that has
\* an owner is given to no other.
LEMMA SleepersStep ==
  ASSUME IInv, NEW t \in Thread, Step(t)
  PROVE  SleepersWillBeWoken'
<1> USE DEF TypeOK, IInv, Goto, txn, local, SleepersWillBeWoken, key
<1>1. CASE create_txn(t)
  BY <1>1 DEF create_txn
<1>2. CASE txn_write(t)
  BY <1>2 DEF txn_write
<1>3. CASE lock_key(t)
  BY <1>3 DEF lock_key
<1>4. CASE acquire_inactive(t)
  BY <1>4 DEF acquire_inactive
<1>5. CASE acquire_active(t)
  BY <1>5 DEF acquire_active
<1>6. CASE acquire_free(t)
  BY <1>6 DEF acquire_free
<1>7. CASE acquire_busy(t)
  BY <1>7 DEF acquire_busy, add_wait_edge
<1>8. CASE detect_none(t)
  BY <1>8 DEF detect_none
<1>9. CASE detect_self(t)
  BY <1>9 DEF detect_self, remove_wait_edge
<1>10. CASE detect_other(t)
  BY <1>10 DEF detect_other
<1>11. CASE cond_wait(t)
  BY <1>11 DEF cond_wait, remove_wait_edge
<1>12. CASE wake_up(t)
  BY <1>12 DEF wake_up
<1>13. CASE buffer_write(t)
  BY <1>13 DEF buffer_write
<1>14. CASE txn_explicit_abort(t)
  BY <1>14 DEF txn_explicit_abort
<1>15. CASE abort_inactive(t)
  BY <1>15 DEF abort_inactive, AbortReturn
<1>16. CASE abort_txn(t)
  BY <1>16 DEF abort_txn
<1>17. CASE release_next(t)
  <2> DEFINE k == Min(held[victim[t]])
  <2>1. UNCHANGED program
    BY <1>17 DEF release_next
  <2>2. \/ owner' = [owner EXCEPT ![k] = None] /\ pc' = [u \in Thread |->
                    IF pc[u] = "waiting" /\ key(u) = k THEN "woken" ELSE pc[u]]
        \/ UNCHANGED <<owner, pc>>
    BY <1>17 DEF release_next
  <2> HIDE DEF k
  <2>3. ASSUME NEW u \in Thread, pc'[u] = "waiting"
        PROVE  pc[u] = "waiting" /\ owner'[key(u)] = owner[key(u)]
    <3> HIDE DEF key
    <3>1. pc[u] = "waiting"
      BY <2>2, <2>3
    <3>2. key(u) \in Key
      BY <3>1, KeyInTable DEF HasKey
    <3>3. key(u) # k \/ owner' = owner
      BY <2>2, <2>3, <3>1
    <3>4. QED
      BY <2>2, <3>1, <3>2, <3>3
  <2>4. QED
    BY <2>1, <2>3
<1>18. CASE abort_done(t)
  BY <1>18 DEF abort_done, AbortReturn
<1>19. CASE txn_commit(t)
  BY <1>19 DEF txn_commit
<1>20. CASE commit_copy(t)
  BY <1>20 DEF commit_copy
<1>21. CASE commit_done(t)
  BY <1>21 DEF commit_done
<1>22. QED
  BY <1>1, <1>2, <1>3, <1>4, <1>5, <1>6, <1>7, <1>8, <1>9, <1>10, <1>11, <1>12, <1>13,
     <1>14, <1>15, <1>16, <1>17, <1>18, <1>19, <1>20, <1>21, Zenon DEF Step

\* No transaction is younger than the clock.
LEMMA ClockStep ==
  ASSUME IInv, NEW t \in Thread, Step(t)
  PROVE  \A u \in Thread : start_ts'[u] <= global_ts'
<1> USE DEF TypeOK, IInv, txn
<1>1. CASE create_txn(t)
  BY <1>1 DEF create_txn
<1>2. CASE txn_write(t)
  BY <1>2 DEF txn_write
<1>3. CASE lock_key(t)
  BY <1>3 DEF lock_key
<1>4. CASE acquire_inactive(t)
  BY <1>4 DEF acquire_inactive
<1>5. CASE acquire_active(t)
  BY <1>5 DEF acquire_active
<1>6. CASE acquire_free(t)
  BY <1>6 DEF acquire_free
<1>7. CASE acquire_busy(t)
  BY <1>7 DEF acquire_busy, add_wait_edge
<1>8. CASE detect_none(t)
  BY <1>8 DEF detect_none
<1>9. CASE detect_self(t)
  BY <1>9 DEF detect_self, remove_wait_edge
<1>10. CASE detect_other(t)
  BY <1>10 DEF detect_other
<1>11. CASE cond_wait(t)
  BY <1>11 DEF cond_wait, remove_wait_edge
<1>12. CASE wake_up(t)
  BY <1>12 DEF wake_up
<1>13. CASE buffer_write(t)
  BY <1>13 DEF buffer_write
<1>14. CASE txn_explicit_abort(t)
  BY <1>14 DEF txn_explicit_abort
<1>15. CASE abort_inactive(t)
  BY <1>15 DEF abort_inactive, AbortReturn
<1>16. CASE abort_txn(t)
  BY <1>16 DEF abort_txn
<1>17. CASE release_next(t)
  BY <1>17 DEF release_next
<1>18. CASE abort_done(t)
  BY <1>18 DEF abort_done, AbortReturn
<1>19. CASE txn_commit(t)
  BY <1>19 DEF txn_commit
<1>20. CASE commit_copy(t)
  BY <1>20 DEF commit_copy
<1>21. CASE commit_done(t)
  BY <1>21 DEF commit_done
<1>22. QED
  BY <1>1, <1>2, <1>3, <1>4, <1>5, <1>6, <1>7, <1>8, <1>9, <1>10, <1>11, <1>12, <1>13,
     <1>14, <1>15, <1>16, <1>17, <1>18, <1>19, <1>20, <1>21, Zenon DEF Step

\* The inductive step.
LEMMA TxnStep ==
  ASSUME IInv, Next
  PROVE  IInv'
<1>1. PICK t \in Thread : Step(t)
  BY DEF Next
<1>2. TypeOK' /\ HasKey' /\ Releasers'
  BY <1>1, TypeStep, HasKeyStep, ReleasersStep
<1>3. HeldIsOwned' /\ WritesHeld' /\ SleepersWillBeWoken'
  BY <1>1, HeldIsOwnedStep, WritesHeldStep, SleepersStep
<1>4. \A u \in Thread : start_ts'[u] <= global_ts'
  BY <1>1, ClockStep
<1>5. QED
  BY <1>2, <1>3, <1>4 DEF IInv

LEMMA TxnInit ==
  ASSUME Init
  PROVE  IInv
<1>1. TypeOK
  BY TxnAssumption DEF Init, TypeOK, PC
<1>2. HasKey /\ Releasers /\ WritesHeld /\ SleepersWillBeWoken
  BY DEF Init, HasKey, Releasers, Committing, WritesHeld, SleepersWillBeWoken
<1>3. HeldIsOwned /\ \A t \in Thread : start_ts[t] <= global_ts
  BY TxnAssumption DEF Init, HeldIsOwned
<1>4. QED
  BY <1>1, <1>2, <1>3 DEF IInv

\* What the invariant gives the copying transaction.
LEMMA CopiersOwn ==
  ASSUME IInv
  PROVE  OwnsWhileCopying
BY DEF IInv, TypeOK, OwnsWhileCopying, WritesHeld, HeldIsOwned, Releasers, Committing
-----------------------------------------------------------------------------
\* The two forms of the list of versions: what is visible, and what mvcc_read
\* returns.
LEMMA RowReads ==
  ASSUME Row!IInv, NEW ts \in 1 .. row_clock
  PROVE  /\ Row!ReadAt(ts) \in {OldValue, NewValue}
         /\ ts < commit_timestamp \/ commit_timestamp = 0 => Row!ReadAt(ts) = OldValue
         /\ \E i \in DOMAIN versions : \A j \in DOMAIN versions :
              Row!Visible(versions[j], ts) <=> i = j
<1> DEFINE found == {i \in DOMAIN versions : Row!Visible(versions[i], ts)}
<1> USE DEF Row!Visible, Row!Infinity
<1>1. ts \in {1, 2} /\ (commit_timestamp = 0 => ts = 1)
  BY DEF Row!IInv, Row!TypeOK
<1>2. CASE versions = <<[value |-> OldValue, begin_ts |-> 1, end_ts |-> Row!Infinity]>>
  <2>1. found = {1}
    BY <1>1, <1>2
  <2>2. Row!ReadAt(ts) = OldValue
    <3>1. 1 = CHOOSE i \in found : \A j \in found : i <= j
      BY <2>1
    <3>2. QED
      BY <1>2, <2>1, <3>1 DEF Row!ReadAt
  <2>3. QED
    BY <1>2, <2>1, <2>2
<1>3. CASE /\ commit_timestamp = 2
           /\ versions = <<[value |-> NewValue, begin_ts |-> 2, end_ts |-> Row!Infinity],
                          [value |-> OldValue, begin_ts |-> 1, end_ts |-> 2]>>
  <2>1. found = {3 - ts}
    BY <1>1, <1>3
  <2>2. Row!ReadAt(ts) = versions[3 - ts].value
    <3>1. 3 - ts = CHOOSE i \in found : \A j \in found : i <= j
      BY <1>1, <2>1
    <3>2. QED
      BY <2>1, <3>1 DEF Row!ReadAt
  <2>3. 3 - ts \in DOMAIN versions
    BY <1>1, <1>3
  <2>4. QED
    BY <1>1, <1>3, <2>1, <2>2, <2>3
<1>4. QED
  BY <1>2, <1>3 DEF Row!IInv

\* A list of two versions.
LEMMA PairFacts ==
  ASSUME NEW a, NEW b
  PROVE  Len(<<a, b>>) = 2 /\ <<a>> \o <<b>> = <<a, b>>
<1>1. Len(<<a, b>>) = 2
  OBVIOUS
<1>2. <<a>> \o <<b>> = <<a, b>>
  <2>1. <<a>> \in Seq({a, b}) /\ <<b>> \in Seq({a, b}) /\ <<a, b>> \in Seq({a, b})
    OBVIOUS
  <2>2. Len(<<a>>) = 1 /\ Len(<<b>>) = 1
    OBVIOUS
  <2>3. /\ <<a>> \o <<b>> \in Seq({a, b})
        /\ Len(<<a>> \o <<b>>) = 2
        /\ (<<a>> \o <<b>>)[1] = a
        /\ (<<a>> \o <<b>>)[2] = b
    BY <2>1, <2>2
  <2>4. \A i \in 1 .. 2 : (<<a>> \o <<b>>)[i] = <<a, b>>[i]
    BY <2>3
  <2>5. QED
    BY <1>1, <2>1, <2>3, <2>4, SeqEqual
<1>3. QED
  BY <1>1, <1>2

\* Reads append what is visible, and the commit closes the old version.
LEMMA RowStep ==
  ASSUME Row!IInv, Row!Next
  PROVE  Row!IInv'
<1> USE DEF Row!IInv, Row!TypeOK, Row!OldSnapshotsKeep
<1>1. ASSUME NEW r \in Reader, Row!begin_tx(r)
      PROVE  Row!IInv'
  BY <1>1 DEF Row!begin_tx
<1>2. ASSUME NEW r \in Reader, Row!mvcc_read(r)
      PROVE  Row!IInv'
  <2> DEFINE x == Row!ReadAt(row_ts[r])
  <2>1. row_ts[r] \in 1 .. row_clock
    BY <1>2 DEF Row!mvcc_read
  <2>2. /\ x \in {OldValue, NewValue}
        /\ row_ts[r] < commit_timestamp \/ commit_timestamp = 0 => x = OldValue
    BY <2>1, RowReads
  <2>3. /\ results' = [results EXCEPT ![r] = Append(results[r], x)]
        /\ row_ts[r] # 0
        /\ UNCHANGED <<versions, row_clock, commit_timestamp, row_ts>>
    BY <1>2 DEF Row!mvcc_read
  <2> HIDE DEF x
  <2>4. results' \in [Reader -> Seq({OldValue, NewValue})]
    BY <2>2, <2>3
  <2>5. \A q \in Reader : q # r => results'[q] = results[q]
    BY <2>3
  <2>6. /\ DOMAIN results'[r] = 1 .. Len(results[r]) + 1
        /\ \A i \in DOMAIN results'[r] :
             results'[r][i] = IF i \in DOMAIN results[r] THEN results[r][i] ELSE x
    <3>1. results[r] \in Seq({OldValue, NewValue}) /\ results'[r] = Append(results[r], x)
      BY <2>3
    <3>2. QED
      BY <2>2, <3>1
  <2>7. Row!OldSnapshotsKeep'
    <3>1. ASSUME NEW q \in Reader, NEW i \in DOMAIN results'[q],
                 row_ts[q] < commit_timestamp \/ commit_timestamp = 0
          PROVE  results'[q][i] = OldValue
      <4>1. CASE q = r
        <5>1. i \in DOMAIN results[r] => results[r][i] = OldValue
          BY <3>1, <4>1
        <5>2. x = OldValue
          BY <2>2, <3>1, <4>1
        <5> HIDE DEF Row!IInv, Row!TypeOK, Row!OldSnapshotsKeep
        <5>3. QED
          BY <2>6, <4>1, <5>1, <5>2
      <4>2. CASE q # r
        BY <2>5, <3>1, <4>2
      <4>3. QED
        BY <4>1, <4>2
    <3>2. QED
      BY <2>3, <3>1
  <2>8. QED
    BY <2>3, <2>4, <2>5, <2>7
<1>3. CASE Row!next_ts
  BY <1>3 DEF Row!next_ts
<1>4. CASE Row!mvcc_write_commit
  <2>1. versions = <<[value |-> OldValue, begin_ts |-> 1, end_ts |-> Row!Infinity]>>
    <3>1. Len(versions) = 1
      BY <1>4 DEF Row!mvcc_write_commit
    <3> DEFINE n == [value |-> NewValue, begin_ts |-> 2, end_ts |-> Row!Infinity]
               o == [value |-> OldValue, begin_ts |-> 1, end_ts |-> 2]
    <3>2. \/ versions = <<[value |-> OldValue, begin_ts |-> 1, end_ts |-> Row!Infinity]>>
          \/ versions = <<n, o>>
      OBVIOUS
    <3> HIDE DEF n, o, Row!IInv
    <3>3. Len(<<n, o>>) = 2
      BY PairFacts
    <3>4. QED
      BY <3>1, <3>2, <3>3
  <2>2. commit_timestamp = 2 /\ Head(versions).end_ts = Row!Infinity
    BY <1>4, <2>1 DEF Row!mvcc_write_commit
  <2>3. [versions EXCEPT ![1].end_ts = 2] = <<[value |-> OldValue, begin_ts |-> 1, end_ts |-> 2]>>
    BY <2>1
  <2>4. versions' = <<[value |-> NewValue, begin_ts |-> 2, end_ts |-> Row!Infinity],
                      [value |-> OldValue, begin_ts |-> 1, end_ts |-> 2]>>
    <3> DEFINE n == [value |-> NewValue, begin_ts |-> 2, end_ts |-> Row!Infinity]
               o == [value |-> OldValue, begin_ts |-> 1, end_ts |-> 2]
    <3>1. versions' = <<n>> \o <<o>>
      BY <1>4, <2>2, <2>3 DEF Row!mvcc_write_commit
    <3> HIDE DEF n, o
    <3>2. <<n>> \o <<o>> = <<n, o>>
      BY PairFacts
    <3>3. QED
      BY <3>1, <3>2 DEF n, o
  <2>5. UNCHANGED <<row_clock, commit_timestamp, row_ts, results>>
    BY <1>4 DEF Row!mvcc_write_commit
  <2>6. versions' \in Seq([value : {OldValue, NewValue}, begin_ts : Nat, end_ts : Nat])
    BY <2>4 DEF Row!Infinity
  <2>7. QED
    BY <2>2, <2>4, <2>5, <2>6
<1>5. CASE UNCHANGED rowVars
  BY <1>5 DEF rowVars
<1>6. QED
  BY <1>1, <1>2, <1>3, <1>4, <1>5 DEF Row!Next, Row!vars, rowVars

LEMMA RowInit ==
  ASSUME Row!Init
  PROVE  Row!IInv
<1>1. versions \in Seq([value : {OldValue, NewValue}, begin_ts : Nat, end_ts : Nat])
  BY DEF Row!Init, Row!Infinity
<1>2. QED
  BY <1>1 DEF Row!Init, Row!IInv, Row!TypeOK, Row!OldSnapshotsKeep
-----------------------------------------------------------------------------
\* Both programs keep their invariants, whichever runs.
LEMMA BothKeep == MCSpec => [](IInv /\ Row!IInv)
<1>1. MCInit => IInv /\ Row!IInv
  BY TxnInit, RowInit DEF MCInit
<1>2. IInv /\ Row!IInv /\ [Transactions \/ VersionedRow]_<<running, vars, rowVars>>
        => (IInv /\ Row!IInv)'
  <2> SUFFICES ASSUME IInv, Row!IInv,
                      [Transactions \/ VersionedRow]_<<running, vars, rowVars>>
               PROVE  IInv' /\ Row!IInv'
    OBVIOUS
  <2>1. UNCHANGED vars => IInv'
    <3> SUFFICES ASSUME UNCHANGED vars
                 PROVE  IInv'
      OBVIOUS
    <3> USE DEF vars, IInv
    <3>1. TypeOK' /\ HasKey'
      BY DEF TypeOK, HasKey
    <3>2. Releasers' /\ HeldIsOwned'
      BY DEF Releasers, HeldIsOwned
    <3>3. WritesHeld' /\ SleepersWillBeWoken'
      BY DEF WritesHeld, SleepersWillBeWoken, key
    <3>4. QED
      BY <3>1, <3>2, <3>3
  <2>2. UNCHANGED rowVars => Row!IInv'
    BY DEF rowVars, Row!IInv, Row!TypeOK, Row!OldSnapshotsKeep
  <2>3. QED
    BY <2>1, <2>2, TxnStep, RowStep DEF Transactions, VersionedRow
<1>3. QED
  BY <1>1, <1>2, PTL DEF MCSpec

\* deadlock_mutex_txn.c: held_keys and owner_txn agree, and txn_commit copies
\* only to keys the transaction owns, for any number of threads and keys and
\* whoever aborts whom meanwhile.
THEOREM LocksAreKept == MCSpec => []LocksKept
<1>1. IInv /\ Row!IInv => LocksKept
  BY CopiersOwn DEF LocksKept, IInv, Row!IInv
<1>2. QED
  BY <1>1, BothKeep, PTL

\* deadlock_mutex_txn.c: a thread sleeps in pthread_cond_wait only while
\* another transaction owns its key, so no broadcast comes before its sleep.
THEOREM NoWakeUpLost == MCSpec => []SleepersWillBeWoken
<1>1. IInv => SleepersWillBeWoken
  BY DEF IInv
<1>2. QED
  BY <1>1, BothKeep, PTL

\* mvcc_demo.c: for any readers and any number of reads, exactly one version
\* is visible at every timestamp, and a reader that began before the commit's
\* timestamp reads the old value however often it reads.
THEOREM RowServesSnapshots == MCSpec => []RowSnapshots
<1>1. Row!IInv => Row!OneVisible
  BY RowReads DEF Row!OneVisible
<1>2. Row!IInv => RowSnapshots
  BY <1>1 DEF RowSnapshots, Row!IInv
<1>3. QED
  BY <1>2, BothKeep, PTL

-----------------------------------------------------------------------------
(***************************************************************************)
(* Recovery from the write-ahead log of wal_demo.c, for any keys, values   *)
(* and commands, killed and cut off by power failures at any point.        *)
(***************************************************************************)
CONSTANTS LogKey, LogValue, MaxCommands

VARIABLES wal, synced, db, command, sync, set, at, in_tx, started, promised, recovered

WD == INSTANCE WalDemo WITH Key <- LogKey, Value <- LogValue, pc <- command

\* A SET is no BEGIN and no COMMIT.
LEMMA SetIsNoMark == <<"BEGIN">> \notin WD!SetLine /\ <<"COMMIT">> \notin WD!SetLine
<1>1. \A k, v : <<"SET", k, v>> # <<"BEGIN">> /\ <<"SET", k, v>> # <<"COMMIT">>
  OBVIOUS
<1>2. QED
  BY <1>1 DEF WD!SetLine

\* What an append to the log leaves of its shape: the new line is no SET, or
\* the log ended with its BEGIN.
LEMMA AppendKeepsShape ==
  ASSUME WD!LogShape,
         NEW line \in WD!SetLine \cup {<<"BEGIN">>, <<"COMMIT">>},
         wal' = Append(wal, line),
         synced' \in {synced, Len(wal')},
         db' = db,
         line \in WD!SetLine => Len(wal) > 0 /\ wal[Len(wal)] = <<"BEGIN">>
  PROVE  /\ WD!LogShape'
         /\ Len(wal') = Len(wal) + 1
         /\ wal'[Len(wal')] = line
         /\ \A i \in 1 .. Len(wal) : wal'[i] = wal[i]
<1> DEFINE Lines == WD!SetLine \cup {<<"BEGIN">>, <<"COMMIT">>}
<1>1. wal \in Seq(Lines) /\ synced \in 0 .. Len(wal) /\ Len(wal) \in Nat
  BY DEF WD!LogShape
<1>2. wal' \in Seq(Lines) /\ Len(wal') = Len(wal) + 1
  BY <1>1, AppendProperties
<1>3. wal'[Len(wal')] = line /\ \A i \in 1 .. Len(wal) : wal'[i] = wal[i]
  BY <1>1, <1>2, AppendProperties
<1>4. synced' \in 0 .. Len(wal')
  BY <1>1, <1>2
<1>5. ASSUME NEW i \in 1 .. Len(wal'), wal'[i] \in WD!SetLine
      PROVE  i > 1 /\ wal'[i - 1] = <<"BEGIN">>
  <2>1. CASE i = Len(wal')
    <3>1. Len(wal) > 0 /\ wal[Len(wal)] = <<"BEGIN">>
      BY <1>3, <1>5, <2>1
    <3>2. i - 1 = Len(wal) /\ i - 1 \in 1 .. Len(wal) /\ i > 1
      BY <1>1, <1>2, <2>1, <3>1
    <3>3. QED
      BY <1>3, <3>1, <3>2
  <2>2. CASE i # Len(wal')
    <3>1. i \in 1 .. Len(wal)
      BY <1>1, <1>2, <2>2
    <3>2. i > 1 /\ wal[i - 1] = <<"BEGIN">>
      BY <1>3, <1>5, <3>1 DEF WD!LogShape
    <3>3. i - 1 \in 1 .. Len(wal)
      BY <1>1, <3>1, <3>2
    <3>4. QED
      BY <1>3, <3>2, <3>3
  <2>3. QED
    BY <2>1, <2>2
<1>6. QED
  BY <1>2, <1>3, <1>4, <1>5 DEF WD!LogShape

\* No line reported as fsynced is lost by an append.
LEMMA AppendKeepsPromises ==
  ASSUME WD!LogShape, WD!Promises,
         Len(wal') = Len(wal) + 1,
         synced' \in {synced, Len(wal')},
         \A i \in 1 .. Len(wal) : wal'[i] = wal[i],
         promised' = promised
  PROVE  WD!Promises'
<1>1. Len(wal) \in Nat /\ synced \in 0 .. Len(wal)
  BY DEF WD!LogShape
<1>2. ASSUME NEW line \in promised
      PROVE  line \in WD!SetLine /\ \E i \in 1 .. synced' : wal'[i] = line
  <2>1. PICK i \in 1 .. synced : wal[i] = line
    BY <1>2 DEF WD!Promises
  <2>2. i \in 1 .. synced' /\ i \in 1 .. Len(wal)
    BY <1>1
  <2>3. wal'[i] = line
    BY <2>1, <2>2
  <2>4. QED
    BY <1>2, <2>2, <2>3 DEF WD!Promises
<1>3. QED
  BY <1>2 DEF WD!Promises, WD!SetLine

\* While a command writes, nothing has been recovered.
LEMMA WritingIsNotRecovered ==
  ASSUME WD!Replaying, command # "idle"
  PROVE  ~recovered
BY DEF WD!Replaying

LEMMA BeginKeeps ==
  ASSUME WD!RecoveryInv, WD!begin
  PROVE  WD!RecoveryInv'
<1>1. /\ wal' = Append(wal, <<"BEGIN">>)
      /\ synced' \in {synced, Len(wal')}
      /\ db' = db /\ promised' = promised
      /\ command' = "set" /\ set' \in WD!SetLine /\ ~recovered'
  BY DEF WD!begin, WD!append_file, WD!SetLine
<1>2. /\ WD!LogShape'
      /\ Len(wal') = Len(wal) + 1
      /\ wal'[Len(wal')] = <<"BEGIN">>
      /\ \A i \in 1 .. Len(wal) : wal'[i] = wal[i]
  BY <1>1, SetIsNoMark, AppendKeepsShape DEF WD!RecoveryInv
<1>3. WD!Promises'
  BY <1>1, <1>2, AppendKeepsPromises DEF WD!RecoveryInv
<1>4. WD!Writing'
  <2>1. Len(wal') > 0
    BY <1>2 DEF WD!RecoveryInv, WD!LogShape
  <2>2. QED
    BY <1>1, <1>2, <2>1 DEF WD!Writing, WD!SetLine
<1>5. WD!Replaying'
  BY <1>1 DEF WD!Replaying
<1>6. QED
  BY <1>2, <1>3, <1>4, <1>5 DEF WD!RecoveryInv

LEMMA WriteSetKeeps ==
  ASSUME WD!RecoveryInv, WD!write_set
  PROVE  WD!RecoveryInv'
<1>1. /\ wal' = Append(wal, set)
      /\ synced' \in {synced, Len(wal')}
      /\ db' = db /\ promised' = promised
      /\ command' = "commit" /\ set' = set
      /\ recovered' = recovered
  BY DEF WD!write_set, WD!append_file
<1>2. command = "set" /\ set \in WD!SetLine /\ Len(wal) > 0 /\ wal[Len(wal)] = <<"BEGIN">>
  BY DEF WD!write_set, WD!RecoveryInv, WD!Writing
<1>3. /\ WD!LogShape'
      /\ Len(wal') = Len(wal) + 1
      /\ wal'[Len(wal')] = set
      /\ \A i \in 1 .. Len(wal) : wal'[i] = wal[i]
  BY <1>1, <1>2, AppendKeepsShape DEF WD!RecoveryInv
<1>4. WD!Promises'
  BY <1>1, <1>3, AppendKeepsPromises DEF WD!RecoveryInv
<1>5. WD!Writing'
  <2>1. Len(wal') > 0
    BY <1>3 DEF WD!RecoveryInv, WD!LogShape
  <2>2. QED
    BY <1>1, <1>2, <1>3, <2>1 DEF WD!Writing, WD!SetLine
<1>6. WD!Replaying'
  <2>1. ~recovered'
    BY <1>1, <1>2, WritingIsNotRecovered DEF WD!RecoveryInv
  <2>2. QED
    BY <1>1, <2>1 DEF WD!Replaying
<1>7. QED
  BY <1>3, <1>4, <1>5, <1>6 DEF WD!RecoveryInv

\* crash_after_wal may report its SET: it is above the COMMIT, in what the
\* fsync of the COMMIT covers.
LEMMA CommitKeeps ==
  ASSUME WD!RecoveryInv, WD!commit
  PROVE  WD!RecoveryInv'
<1>1. /\ wal' = Append(wal, <<"COMMIT">>)
      /\ synced' \in {synced, Len(wal')}
      /\ sync => synced' = Len(wal')
      /\ db' = db /\ command' = "idle" /\ set' = set
      /\ promised' = IF sync THEN promised \cup {set} ELSE promised
      /\ recovered' = recovered
  BY DEF WD!commit, WD!append_file
<1>2. command = "commit" /\ set \in WD!SetLine /\ Len(wal) > 0 /\ wal[Len(wal)] = set
  BY DEF WD!commit, WD!RecoveryInv, WD!Writing
<1>3. /\ WD!LogShape'
      /\ Len(wal') = Len(wal) + 1
      /\ \A i \in 1 .. Len(wal) : wal'[i] = wal[i]
  BY <1>1, SetIsNoMark, AppendKeepsShape DEF WD!RecoveryInv
<1>4. Len(wal) \in Nat /\ synced \in 0 .. Len(wal)
  BY DEF WD!RecoveryInv, WD!LogShape
<1>5. ASSUME NEW line \in promised'
      PROVE  line \in WD!SetLine /\ \E i \in 1 .. synced' : wal'[i] = line
  <2>1. CASE line \in promised
    <3>1. PICK i \in 1 .. synced : wal[i] = line
      BY <2>1 DEF WD!RecoveryInv, WD!Promises
    <3>2. i \in 1 .. synced' /\ i \in 1 .. Len(wal)
      BY <1>1, <1>3, <1>4
    <3>3. wal'[i] = line
      BY <1>3, <3>1, <3>2
    <3>4. QED
      BY <2>1, <3>2, <3>3 DEF WD!RecoveryInv, WD!Promises
  <2>2. CASE line \notin promised
    <3>1. sync /\ line = set
      BY <1>1, <1>5, <2>2
    <3>2. Len(wal) \in 1 .. synced' /\ Len(wal) \in 1 .. Len(wal)
      BY <1>1, <1>2, <1>3, <1>4, <3>1
    <3>3. wal'[Len(wal)] = line
      BY <1>2, <1>3, <3>1, <3>2
    <3>4. QED
      BY <1>2, <3>1, <3>2, <3>3
  <2>3. QED
    BY <2>1, <2>2
<1>6. WD!Promises'
  BY <1>5 DEF WD!Promises, WD!SetLine
<1>7. WD!Writing'
  BY <1>1 DEF WD!Writing
<1>8. WD!Replaying'
  <2>1. ~recovered'
    BY <1>1, <1>2, WritingIsNotRecovered DEF WD!RecoveryInv
  <2>2. QED
    BY <1>1, <2>1 DEF WD!Replaying
<1>9. QED
  BY <1>3, <1>6, <1>7, <1>8 DEF WD!RecoveryInv

LEMMA RecoverKeeps ==
  ASSUME WD!RecoveryInv, WD!recover
  PROVE  WD!RecoveryInv'
<1>1. /\ UNCHANGED <<wal, synced, db, set, promised>>
      /\ command' = "recover" /\ at' = 1 /\ ~recovered'
  BY DEF WD!recover
<1>2. WD!LogShape' /\ WD!Promises' /\ WD!Writing'
  BY <1>1 DEF WD!RecoveryInv, WD!LogShape, WD!Promises, WD!Writing, WD!SetLine
<1>3. WD!Replaying'
  <2>1. Len(wal) \in Nat
    BY DEF WD!RecoveryInv, WD!LogShape
  <2>2. at' \in 1 .. Len(wal') + 1 /\ ~(at' > 1) /\ 1 .. at' - 1 = {}
    BY <1>1, <2>1
  <2>3. WD!Replayed(at - 1)'
    BY <2>2 DEF WD!Replayed
  <2>4. QED
    BY <1>1, <2>2, <2>3 DEF WD!Replaying
<1>4. QED
  BY <1>2, <1>3 DEF WD!RecoveryInv

\* A line of the log that is no SET adds nothing to what has been replayed.
LEMMA OtherLineReplayed ==
  ASSUME NEW n \in Nat \ {0}, WD!Replayed(n - 1), wal[n] \notin WD!SetLine,
         wal' = wal, db' = db
  PROVE  WD!Replayed(n)'
<1>1. ASSUME NEW i \in 1 .. n, wal[i] \in WD!SetLine
      PROVE  \E m \in 1 .. Len(db) :
               /\ db[m] = wal[i]
               /\ (\A j \in i + 1 .. n : ~WD!IsSet(wal[j], wal[i][2])) =>
                    \A j \in m + 1 .. Len(db) : ~WD!IsSet(db[j], wal[i][2])
  <2>1. i # n
    BY <1>1
  <2>2. i \in 1 .. n - 1 /\ i + 1 .. n - 1 \subseteq i + 1 .. n
    BY <2>1
  <2>3. PICK m \in 1 .. Len(db) :
          /\ db[m] = wal[i]
          /\ (\A j \in i + 1 .. n - 1 : ~WD!IsSet(wal[j], wal[i][2])) =>
               \A j \in m + 1 .. Len(db) : ~WD!IsSet(db[j], wal[i][2])
    BY <1>1, <2>2 DEF WD!Replayed
  <2>4. QED
    BY <2>2, <2>3
<1>2. QED
  BY <1>1 DEF WD!Replayed

\* A SET that is appended to the database is its last line, and ends the run
\* of every earlier one of its key.
LEMMA SetLineReplayed ==
  ASSUME NEW n \in Nat \ {0}, WD!Replayed(n - 1), wal[n] \in WD!SetLine,
         db \in Seq(WD!SetLine), wal' = wal, db' = Append(db, wal[n])
  PROVE  WD!Replayed(n)'
<1>1. /\ Len(db) \in Nat /\ Len(db') = Len(db) + 1
      /\ db'[Len(db')] = wal[n]
      /\ \A m \in 1 .. Len(db) : db'[m] = db[m]
  BY AppendProperties
<1>2. ASSUME NEW i \in 1 .. n, wal[i] \in WD!SetLine
      PROVE  \E m \in 1 .. Len(db') :
               /\ db'[m] = wal[i]
               /\ (\A j \in i + 1 .. n : ~WD!IsSet(wal[j], wal[i][2])) =>
                    \A j \in m + 1 .. Len(db') : ~WD!IsSet(db'[j], wal[i][2])
  <2>1. CASE i = n
    <3>1. Len(db') \in 1 .. Len(db') /\ Len(db') + 1 .. Len(db') = {}
      BY <1>1
    <3>2. QED
      BY <1>1, <2>1, <3>1
  <2>2. CASE i # n
    <3>1. i \in 1 .. n - 1 /\ n \in i + 1 .. n /\ i + 1 .. n - 1 \subseteq i + 1 .. n
      BY <2>2
    <3>2. PICK m \in 1 .. Len(db) :
            /\ db[m] = wal[i]
            /\ (\A j \in i + 1 .. n - 1 : ~WD!IsSet(wal[j], wal[i][2])) =>
                 \A j \in m + 1 .. Len(db) : ~WD!IsSet(db[j], wal[i][2])
      BY <1>2, <3>1 DEF WD!Replayed
    <3>3. m \in 1 .. Len(db') /\ db'[m] = wal[i]
      BY <1>1, <3>2
    <3>4. ASSUME \A j \in i + 1 .. n : ~WD!IsSet(wal[j], wal[i][2]),
                 NEW j \in m + 1 .. Len(db')
          PROVE  ~WD!IsSet(db'[j], wal[i][2])
      <4>1. CASE j = Len(db')
        BY <1>1, <3>1, <3>4, <4>1
      <4>2. CASE j # Len(db')
        <5>1. j \in m + 1 .. Len(db) /\ j \in 1 .. Len(db)
          BY <1>1, <4>2
        <5>2. ~WD!IsSet(db[j], wal[i][2])
          BY <3>1, <3>2, <3>4, <5>1
        <5>3. QED
          BY <1>1, <5>1, <5>2
      <4>3. QED
        BY <4>1, <4>2
    <3>5. QED
      BY <3>3, <3>4
  <2>3. QED
    BY <2>1, <2>2
<1>3. QED
  BY <1>2 DEF WD!Replayed

\* recover takes every SET it reads: the line before it was its BEGIN.
LEMMA RecoverLineKeeps ==
  ASSUME WD!RecoveryInv, WD!recover_line
  PROVE  WD!RecoveryInv'
<1>1. /\ UNCHANGED <<wal, synced, set, promised, command, recovered>>
      /\ command = "recover" /\ at <= Len(wal) /\ at' = at + 1
      /\ in_tx' = (wal[at] = <<"BEGIN">> \/ (in_tx /\ wal[at] # <<"COMMIT">>))
      /\ db' = IF in_tx /\ wal[at] \in WD!SetLine THEN Append(db, wal[at]) ELSE db
  BY DEF WD!recover_line
<1>2. /\ Len(wal) \in Nat /\ at \in 1 .. Len(wal)
      /\ db \in Seq(WD!SetLine)
      /\ WD!Replayed(at - 1)
  BY <1>1 DEF WD!RecoveryInv, WD!LogShape, WD!Replaying
<1>3. wal[at] \in WD!SetLine => in_tx
  BY <1>1, <1>2 DEF WD!RecoveryInv, WD!LogShape, WD!Replaying
<1>4. db' = IF wal[at] \in WD!SetLine THEN Append(db, wal[at]) ELSE db
  BY <1>1, <1>3
<1>5. db' \in Seq(WD!SetLine)
  BY <1>2, <1>4, AppendProperties
<1>6. WD!LogShape' /\ WD!Promises' /\ WD!Writing'
  BY <1>1, <1>5 DEF WD!RecoveryInv, WD!LogShape, WD!Promises, WD!Writing, WD!SetLine
<1>7. PICK n \in Nat \ {0} : n = at
  BY <1>2
<1>8. WD!Replayed(n)'
  <2>1. WD!Replayed(n - 1)
    BY <1>2, <1>7
  <2>2. CASE wal[n] \in WD!SetLine
    BY <1>1, <1>2, <1>4, <1>7, <2>1, <2>2, SetLineReplayed
  <2>3. CASE wal[n] \notin WD!SetLine
    BY <1>1, <1>4, <1>7, <2>1, <2>3, OtherLineReplayed
  <2>4. QED
    BY <2>2, <2>3
<1>9. WD!Replaying'
  <2>1. at' - 1 = n /\ at' \in 1 .. Len(wal') + 1
    BY <1>1, <1>2, <1>7
  <2>2. WD!Replayed(at - 1)'
    BY <1>8, <2>1 DEF WD!Replayed
  <2>3. wal'[at' - 1] = <<"BEGIN">> => in_tx'
    BY <1>1, <1>7, <2>1
  <2>4. ~recovered'
    BY <1>1, WritingIsNotRecovered DEF WD!RecoveryInv
  <2>5. QED
    BY <1>1, <2>1, <2>2, <2>3, <2>4 DEF WD!Replaying
<1>10. QED
  BY <1>6, <1>9 DEF WD!RecoveryInv

LEMMA RecoverEndKeeps ==
  ASSUME WD!RecoveryInv, WD!recover_end
  PROVE  WD!RecoveryInv'
<1>1. /\ UNCHANGED <<wal, synced, db, set, promised>>
      /\ command = "recover" /\ at > Len(wal)
      /\ command' = "idle"
  BY DEF WD!recover_end
<1>2. WD!LogShape' /\ WD!Promises' /\ WD!Writing'
  BY <1>1 DEF WD!RecoveryInv, WD!LogShape, WD!Promises, WD!Writing, WD!SetLine
<1>3. at - 1 = Len(wal)
  BY <1>1 DEF WD!RecoveryInv, WD!LogShape, WD!Replaying
<1>4. WD!Replayed(at - 1)
  BY <1>1 DEF WD!RecoveryInv, WD!Replaying
<1>5. WD!Replayed(Len(wal))'
  BY <1>1, <1>3, <1>4 DEF WD!Replayed, WD!IsSet, WD!SetLine
<1>6. WD!Replaying'
  BY <1>1, <1>5 DEF WD!Replaying
<1>7. QED
  BY <1>2, <1>6 DEF WD!RecoveryInv

\* A killed command leaves the files as they are.
LEMMA KilledKeeps ==
  ASSUME WD!RecoveryInv, WD!killed
  PROVE  WD!RecoveryInv'
<1>1. /\ UNCHANGED <<wal, synced, db, set, promised>>
      /\ command' = "idle" /\ ~recovered'
  BY DEF WD!killed
<1>2. WD!LogShape' /\ WD!Promises' /\ WD!Writing'
  BY <1>1 DEF WD!RecoveryInv, WD!LogShape, WD!Promises, WD!Writing, WD!SetLine
<1>3. WD!Replaying'
  BY <1>1 DEF WD!Replaying
<1>4. QED
  BY <1>2, <1>3 DEF WD!RecoveryInv

\* A power failure leaves a prefix of the log that holds all synced lines, and
\* a prefix keeps each SET with its BEGIN.
LEMMA PowerFailureKeeps ==
  ASSUME WD!RecoveryInv, WD!power_failure
  PROVE  WD!RecoveryInv'
<1> DEFINE Lines == WD!SetLine \cup {<<"BEGIN">>, <<"COMMIT">>}
<1>1. PICK n \in synced .. Len(wal) : wal' = SubSeq(wal, 1, n) /\ synced' = n
  BY DEF WD!power_failure
<1>2. PICK m \in 0 .. Len(db) : db' = SubSeq(db, 1, m)
  BY DEF WD!power_failure
<1>3. command' = "idle" /\ ~recovered' /\ promised' = promised
  BY DEF WD!power_failure
<1>4. /\ wal \in Seq(Lines) /\ Len(wal) \in Nat /\ synced \in 0 .. Len(wal)
      /\ db \in Seq(WD!SetLine) /\ Len(db) \in Nat
  BY DEF WD!RecoveryInv, WD!LogShape
<1>5. n \in Nat /\ n <= Len(wal) /\ synced <= n
  BY <1>4
<1>6. /\ wal' \in Seq(Lines) /\ Len(wal') = n
      /\ \A i \in 1 .. n : wal'[i] = wal[i]
  BY <1>1, <1>4, <1>5
<1>7. db' \in Seq(WD!SetLine)
  BY <1>2, <1>4
<1>8. WD!LogShape'
  <2>1. ASSUME NEW i \in 1 .. n, wal[i] \in WD!SetLine
        PROVE  i > 1 /\ wal'[i - 1] = <<"BEGIN">>
    <3>1. i \in 1 .. Len(wal)
      BY <1>5
    <3>2. i > 1 /\ wal[i - 1] = <<"BEGIN">>
      BY <2>1, <3>1 DEF WD!RecoveryInv, WD!LogShape
    <3>3. i - 1 \in 1 .. n
      BY <1>5, <3>2
    <3>4. QED
      BY <1>6, <3>2, <3>3
  <2>2. QED
    BY <1>1, <1>5, <1>6, <1>7, <2>1 DEF WD!LogShape, WD!SetLine
<1>9. WD!Promises'
  <2>1. ASSUME NEW line \in promised
        PROVE  line \in WD!SetLine /\ \E i \in 1 .. n : wal'[i] = line
    <3>1. line \in WD!SetLine /\ \E i \in 1 .. synced : wal[i] = line
      BY <2>1 DEF WD!RecoveryInv, WD!Promises
    <3>2. PICK i \in 1 .. synced : wal[i] = line
      BY <3>1
    <3>3. i \in 1 .. n
      BY <1>4, <1>5
    <3>4. QED
      BY <1>6, <3>1, <3>2, <3>3
  <2>2. QED
    BY <1>1, <1>3, <2>1 DEF WD!Promises, WD!SetLine
<1>10. WD!Writing' /\ WD!Replaying'
  BY <1>3 DEF WD!Writing, WD!Replaying
<1>11. QED
  BY <1>8, <1>9, <1>10 DEF WD!RecoveryInv

\* The last SET of a key is the only one.
LEMMA LastSetIs ==
  ASSUME NEW lines, Len(lines) \in Nat, NEW k, NEW m \in 1 .. Len(lines),
         WD!IsSet(lines[m], k),
         \A j \in m + 1 .. Len(lines) : ~WD!IsSet(lines[j], k)
  PROVE  WD!LastSet(lines, k) = {lines[m]}
<1> DEFINE I == {n \in 1 .. Len(lines) :
                   /\ WD!IsSet(lines[n], k)
                   /\ \A j \in n + 1 .. Len(lines) : ~WD!IsSet(lines[j], k)}
<1>1. m \in I
  OBVIOUS
<1>2. ASSUME NEW n \in I
      PROVE  n = m
  <2>1. n \in 1 .. Len(lines)
    OBVIOUS
  <2>2. ~(n < m)
    <3>1. n < m => m \in n + 1 .. Len(lines)
      BY <2>1
    <3>2. QED
      BY <3>1
  <2>3. ~(m < n)
    <3>1. m < n => n \in m + 1 .. Len(lines)
      BY <2>1
    <3>2. QED
      BY <3>1
  <2>4. QED
    BY <2>1, <2>2, <2>3
<1>3. I = {m}
  BY <1>1, <1>2, Zenon
<1>4. WD!LastSet(lines, k) = {lines[n] : n \in I}
  BY DEF WD!LastSet
<1>5. QED
  BY <1>3, <1>4, Zenon

\* What the invariant is for: after a recovery all promised SETs are in the
\* database, and the last SET of a key is the one of the log.
LEMMA RecoveryInvSuffices ==
  ASSUME WD!RecoveryInv
  PROVE  WD!FsyncedIsDurable
<1>1. Len(wal) \in Nat /\ Len(db) \in Nat /\ synced \in 0 .. Len(wal)
  BY DEF WD!RecoveryInv, WD!LogShape
<1>2. recovered => WD!Replayed(Len(wal))
  BY DEF WD!RecoveryInv, WD!Replaying
<1>3. ASSUME recovered, NEW line \in promised
      PROVE  \E m \in 1 .. Len(db) : db[m] = line
  <2>1. line \in WD!SetLine /\ \E i \in 1 .. synced : wal[i] = line
    BY <1>3 DEF WD!RecoveryInv, WD!Promises
  <2>2. PICK i \in 1 .. Len(wal) : wal[i] = line
    BY <1>1, <2>1
  <2>3. QED
    BY <1>2, <1>3, <2>1, <2>2 DEF WD!Replayed
<1>4. ASSUME recovered, NEW k \in LogKey, WD!LastSet(wal, k) # {}
      PROVE  WD!LastSet(db, k) = WD!LastSet(wal, k)
  <2>1. PICK i \in 1 .. Len(wal) :
          /\ WD!IsSet(wal[i], k)
          /\ \A j \in i + 1 .. Len(wal) : ~WD!IsSet(wal[j], k)
    BY <1>4 DEF WD!LastSet
  <2>2. wal[i] \in WD!SetLine /\ wal[i][2] = k
    BY <2>1 DEF WD!IsSet
  <2>3. PICK m \in 1 .. Len(db) :
          /\ db[m] = wal[i]
          /\ \A j \in m + 1 .. Len(db) : ~WD!IsSet(db[j], k)
    BY <1>2, <1>4, <2>1, <2>2 DEF WD!Replayed
  <2>4. WD!LastSet(db, k) = {db[m]}
    BY <1>1, <2>1, <2>3, LastSetIs
  <2>5. WD!LastSet(wal, k) = {wal[i]}
    BY <1>1, <2>1, LastSetIs
  <2>6. QED
    BY <2>3, <2>4, <2>5
<1>5. QED
  BY <1>3, <1>4 DEF WD!FsyncedIsDurable, WD!Durable, WD!LastSetWins

LEMMA RecoveryInitially == WD!Init => WD!RecoveryInv
<1> SUFFICES ASSUME WD!Init
             PROVE  WD!RecoveryInv
  OBVIOUS
<1>1. /\ wal = << >> /\ synced = 0 /\ db = << >> /\ promised = {}
      /\ command = "idle" /\ ~recovered
  BY DEF WD!Init
<1>2. Len(wal) = 0 /\ 1 .. Len(wal) = {}
  BY <1>1
<1>3. WD!LogShape
  BY <1>1, <1>2 DEF WD!LogShape
<1>4. WD!Writing /\ WD!Promises /\ WD!Replaying
  BY <1>1 DEF WD!Writing, WD!Promises, WD!Replaying
<1>5. QED
  BY <1>3, <1>4 DEF WD!RecoveryInv

LEMMA RecoveryKeeps == WD!RecoveryInv /\ [WD!Next]_WD!vars => WD!RecoveryInv'
<1> SUFFICES ASSUME WD!RecoveryInv, [WD!Next]_WD!vars
             PROVE  WD!RecoveryInv'
  OBVIOUS
<1>1. CASE WD!begin
  BY <1>1, BeginKeeps
<1>2. CASE WD!write_set
  BY <1>2, WriteSetKeeps
<1>3. CASE WD!commit
  BY <1>3, CommitKeeps
<1>4. CASE WD!recover
  BY <1>4, RecoverKeeps
<1>5. CASE WD!recover_line
  BY <1>5, RecoverLineKeeps
<1>6. CASE WD!recover_end
  BY <1>6, RecoverEndKeeps
<1>7. CASE WD!killed
  BY <1>7, KilledKeeps
<1>8. CASE WD!power_failure
  BY <1>8, PowerFailureKeeps
<1>9. CASE UNCHANGED WD!vars
  <2>1. /\ UNCHANGED <<wal, synced, db, command, set, at, in_tx, promised>>
        /\ recovered' = recovered
    BY <1>9 DEF WD!vars
  <2>2. WD!LogShape' /\ WD!Promises' /\ WD!Writing'
    BY <2>1 DEF WD!RecoveryInv, WD!LogShape, WD!Promises, WD!Writing, WD!SetLine
  <2>3. WD!Replaying
    BY DEF WD!RecoveryInv
  <2>4. WD!Replaying'
    <3>1. wal' = wal /\ db' = db /\ command' = command /\ at' = at /\ in_tx' = in_tx
      BY <2>1
    <3>2. command' = "recover" => WD!Replayed(at - 1)'
      BY <2>3, <3>1 DEF WD!Replaying, WD!Replayed, WD!IsSet, WD!SetLine
    <3>3. recovered' => command' = "idle" /\ WD!Replayed(Len(wal))'
      BY <2>1, <2>3, <3>1 DEF WD!Replaying, WD!Replayed, WD!IsSet, WD!SetLine
    <3>4. command' = "recover" =>
            /\ at' \in 1 .. Len(wal') + 1
            /\ at' > 1 /\ wal'[at' - 1] = <<"BEGIN">> => in_tx'
      BY <2>3, <3>1 DEF WD!Replaying
    <3>5. QED
      BY <3>2, <3>3, <3>4 DEF WD!Replaying
  <2>5. QED
    BY <2>2, <2>4 DEF WD!RecoveryInv
<1>10. QED
  BY <1>1, <1>2, <1>3, <1>4, <1>5, <1>6, <1>7, <1>8, <1>9 DEF WD!Next

\* wal_demo.c: what was reported as "WAL written and fsynced" is in the
\* database after every completed recovery, and the last SET of a key wins,
\* for any keys, values and number of commands, killed at any append and with
\* power failures at any point.
THEOREM RecoveryIsDurable == WD!Spec => []WD!FsyncedIsDurable
<1>1. WD!Init => WD!RecoveryInv
  BY RecoveryInitially
<1>2. WD!RecoveryInv /\ [WD!Next]_WD!vars => WD!RecoveryInv'
  BY RecoveryKeeps
<1>3. WD!RecoveryInv => WD!FsyncedIsDurable
  BY RecoveryInvSuffices
<1>4. QED
  BY <1>1, <1>2, <1>3, PTL DEF WD!Spec
=============================================================================
