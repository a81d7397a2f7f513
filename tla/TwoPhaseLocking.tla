--------------------------- MODULE TwoPhaseLocking ---------------------------
(***************************************************************************)
(* The strict two-phase-locking transfers of                               *)
(* concurrency-and-multithreading/2pl.c.                                   *)
(*                                                                         *)
(* A step is one call of pthread_mutex_lock or _unlock, or one access to   *)
(* accounts[]: the read-modify-writes of lines 99 and 100 are a load into  *)
(* the register reg and a later store.                                     *)
(***************************************************************************)
EXTENDS Naturals, Sequences, Functions

CONSTANTS
  Thread,
  NumberOfAccounts,  \* NUMBER_OF_ACCOUNTS
  Amount,            \* what worker draws with rnd(1, 25)
  InitialBalance,    \* INITIAL_BALANCE
  Transfers,         \* TRANSFERS_PER_THREAD
  None               \* the holder of a free mutex

ASSUME TransferAssumption ==
  /\ NumberOfAccounts \in Nat \ {0}
  /\ Amount \subseteq Nat
  /\ InitialBalance \in Nat
  /\ Transfers \in Nat
  /\ None \notin Thread

Account == 0 .. NumberOfAccounts - 1

VARIABLES
  accounts,
  holder,       \* the thread that holds record_lock[a]
  locked_ids,   \* transaction->locked_ids[0 .. locked_count - 1]
  from, to, amount,
  reg,          \* the value of accounts[] a thread has loaded
  left,         \* the transfers the worker's loop still has to make
  pc

vars == <<accounts, holder, locked_ids, from, to, amount, reg, left, pc>>

args == <<from, to, amount>>

Init ==
  /\ accounts = [a \in Account |-> InitialBalance]
  /\ holder = [a \in Account |-> None]
  /\ locked_ids = [t \in Thread |-> << >>]
  /\ from = [t \in Thread |-> 0]
  /\ to = [t \in Thread |-> 0]
  /\ amount = [t \in Thread |-> 0]
  /\ reg = [t \in Thread |-> 0]
  /\ left = [t \in Thread |-> Transfers]
  /\ pc = [t \in Thread |-> "worker"]
-----------------------------------------------------------------------------
\* worker draws the next transfer; tx_transfer to the same account returns.
tx_begin(t) ==
  /\ pc[t] = "worker"
  /\ left[t] > 0
  /\ \E f, g \in Account, x \in Amount :
       /\ from' = [from EXCEPT ![t] = f]
       /\ to' = [to EXCEPT ![t] = g]
       /\ amount' = [amount EXCEPT ![t] = x]
       /\ \/ /\ f = g
             /\ left' = [left EXCEPT ![t] = @ - 1]
             /\ UNCHANGED pc
          \/ /\ f # g
             /\ pc' = [pc EXCEPT ![t] = "lock_a"]
             /\ UNCHANGED left
  /\ locked_ids' = [locked_ids EXCEPT ![t] = << >>]
  /\ UNCHANGED <<accounts, holder, reg>>

\* Variant of FirstId: the swap of a and b is missing.
FirstId_Unsorted(t) == from[t]

FirstId(t) == IF from[t] > to[t] THEN to[t] ELSE from[t]

SecondId(t) == IF FirstId(t) = from[t] THEN to[t] ELSE from[t]

\* Variant of tx_lock_record: it does not wait for the mutex.
tx_lock_record_trylock(t, id) ==
  /\ holder' = [holder EXCEPT ![id] = t]
  /\ locked_ids' = [locked_ids EXCEPT ![t] = Append(@, id)]

\* The scan of locked_ids finds nothing: the two ids differ.
tx_lock_record(t, id) ==
  /\ holder[id] = None
  /\ holder' = [holder EXCEPT ![id] = t]
  /\ locked_ids' = [locked_ids EXCEPT ![t] = Append(@, id)]

lock_a(t) ==
  /\ pc[t] = "lock_a"
  /\ tx_lock_record(t, FirstId(t))
  /\ pc' = [pc EXCEPT ![t] = "lock_b"]
  /\ UNCHANGED <<accounts, args, reg, left>>

lock_b(t) ==
  /\ pc[t] = "lock_b"
  /\ tx_lock_record(t, SecondId(t))
  /\ pc' = [pc EXCEPT ![t] = "check"]
  /\ UNCHANGED <<accounts, args, reg, left>>

\* Variant of check: the balance is not compared with the amount.
check_unguarded(t) ==
  /\ pc[t] = "check"
  /\ reg' = [reg EXCEPT ![t] = accounts[from[t]]]
  /\ pc' = [pc EXCEPT ![t] = "debit"]
  /\ UNCHANGED <<accounts, holder, locked_ids, args, left>>

check(t) ==
  /\ pc[t] = "check"
  /\ reg' = [reg EXCEPT ![t] = accounts[from[t]]]
  /\ pc' = [pc EXCEPT ![t] = IF accounts[from[t]] >= amount[t] THEN "debit"
                             ELSE "commit"]
  /\ UNCHANGED <<accounts, holder, locked_ids, args, left>>

debit(t) ==
  /\ pc[t] = "debit"
  /\ accounts' = [accounts EXCEPT ![from[t]] = reg[t] - amount[t]]
  /\ reg' = [reg EXCEPT ![t] = accounts[to[t]]]
  /\ pc' = [pc EXCEPT ![t] = "credit"]
  /\ UNCHANGED <<holder, locked_ids, args, left>>

credit(t) ==
  /\ pc[t] = "credit"
  /\ accounts' = [accounts EXCEPT ![to[t]] = reg[t] + amount[t]]
  /\ pc' = [pc EXCEPT ![t] = "commit"]
  /\ UNCHANGED <<holder, locked_ids, args, reg, left>>

\* One unlock of tx_commit, from the last locked id to the first; the last
\* one ends the iteration of worker's loop.
tx_commit(t) ==
  LET n == Len(locked_ids[t]) IN
  /\ pc[t] = "commit"
  /\ holder' = [holder EXCEPT ![locked_ids[t][n]] = None]
  /\ locked_ids' = [locked_ids EXCEPT ![t] = SubSeq(@, 1, n - 1)]
  /\ \/ /\ n = 1
        /\ pc' = [pc EXCEPT ![t] = "worker"]
        /\ left' = [left EXCEPT ![t] = @ - 1]
     \/ /\ n > 1
        /\ UNCHANGED <<pc, left>>
  /\ UNCHANGED <<accounts, args, reg>>

Step(t) ==
  \/ tx_begin(t)
  \/ lock_a(t)
  \/ lock_b(t)
  \/ check(t)
  \/ debit(t)
  \/ credit(t)
  \/ tx_commit(t)

Joined == \A t \in Thread : pc[t] = "worker" /\ left[t] = 0

\* main has joined every worker.
Finished == Joined /\ UNCHANGED vars

Next == (\E t \in Thread : Step(t)) \/ Finished

Spec == Init /\ [][Next]_vars

\* Every worker runs on, and glibc hands a mutex that keeps becoming free to
\* each of its waiters in the end.
FairSpec ==
  /\ Spec
  /\ \A t \in Thread : WF_vars(Step(t)) /\ SF_vars(lock_a(t)) /\ SF_vars(lock_b(t))
-----------------------------------------------------------------------------
PC == {"worker", "lock_a", "lock_b", "check", "debit", "credit", "commit"}

\* Types; no balance is ever negative, although accounts[] is signed and
\* line 99 subtracts.
TypeOK ==
  /\ accounts \in [Account -> Nat]
  /\ holder \in [Account -> Thread \cup {None}]
  /\ locked_ids \in [Thread -> Seq(Account)]
  /\ from \in [Thread -> Account]
  /\ to \in [Thread -> Account]
  /\ amount \in [Thread -> Nat]
  /\ reg \in [Thread -> Nat]
  /\ left \in [Thread -> 0 .. Transfers]
  /\ pc \in [Thread -> PC]

\* The balances with the transfers that have debited but not yet credited
\* completed.
Crediting(a) == {t \in Thread : pc[t] = "credit" /\ to[t] = a}

AnyOf(S) == CHOOSE t \in S : TRUE

settled ==
  [a \in Account |->
     IF Crediting(a) = {} THEN accounts[a]
     ELSE accounts[a] + amount[AnyOf(Crediting(a))]]

B == INSTANCE Bank WITH balance <- settled

\* Two-phase locking makes the transfers serialisable: seen through settled,
\* each one happens at once, at its debit, and never overdraws.
ImplementsBank == B!Spec

\* The ascending lock order of lines 80-85 excludes deadlock: main's joins
\* return.
WorkersFinish == <>Joined
-----------------------------------------------------------------------------
\* What a thread has in locked_ids, by where it is.
LockedIds(t) ==
  /\ pc[t] \in {"worker", "lock_a"} => locked_ids[t] = << >>
  /\ pc[t] = "lock_b" => locked_ids[t] = <<FirstId(t)>>
  /\ pc[t] \in {"check", "debit", "credit"} =>
       locked_ids[t] = <<FirstId(t), SecondId(t)>>
  /\ pc[t] = "commit" =>
       locked_ids[t] \in {<<FirstId(t)>>, <<FirstId(t), SecondId(t)>>}

HoldsLocked(t) ==
  \A i \in DOMAIN locked_ids[t] : holder[locked_ids[t][i]] = t

\* What a thread has loaded is still what accounts[] holds.
Loaded(t) ==
  /\ pc[t] = "debit" => reg[t] = accounts[from[t]] /\ reg[t] >= amount[t]
  /\ pc[t] = "credit" => reg[t] = accounts[to[t]]

Drawn(t) ==
  pc[t] # "worker" => from[t] # to[t] /\ amount[t] \in Amount /\ left[t] > 0

\* The growing phase ends before the first access and the shrinking phase
\* begins after the last: a thread between check and credit holds both of
\* its mutexes, and no other thread touches the accounts it has loaded.
LockDiscipline ==
  \A t \in Thread : Drawn(t) /\ LockedIds(t) /\ HoldsLocked(t) /\ Loaded(t)

IInv == TypeOK /\ LockDiscipline
=============================================================================
