----------------------------- MODULE ArrayScans -----------------------------
(***************************************************************************)
(* Two programs that answer a question about an array in one pass:         *)
(* slliding-window-deque.c ("deque"), the maximum of every window of k     *)
(* elements, and majority_elem_moore_vot.c ("vote"), the element that      *)
(* makes up more than half of the array.                                   *)
(*                                                                         *)
(* A step is one round of a loop.                                          *)
(***************************************************************************)
EXTENDS Integers, Sequences, FiniteSets

CONSTANTS
  Element,  \* the numbers in the array
  Size,     \* the values of numsSize, of n
  Width     \* the values of k

ASSUME ScanAssumption == Element \subseteq Int /\ Size \subseteq Nat /\ Width \subseteq Nat \ {0}

VARIABLES
  scan,         \* which program runs
  nums, size,   \* the array, indexed from 0, and its length
  k,
  i,            \* the index of the loop
  scanPc,
  deque, front, back,
  printed,      \* the numbers printed
  freq, ans,
  result        \* what mojorityElem has returned

scanVars == <<scan, nums, size, k, i, scanPc, deque, front, back, printed, freq, ans, result>>
input == <<scan, nums, size, k>>
dequeVars == <<deque, front, back, printed>>
voteVars == <<freq, ans, result>>

Index == 0 .. size - 1

ScanInit ==
  /\ scan \in {"deque", "vote"}
  /\ size \in Size /\ k \in Width
  /\ nums \in [0 .. size - 1 -> Element]
  /\ i = 0 /\ scanPc = "next"
  /\ deque = [j \in Index |-> 0] /\ front = 0 /\ back = -1 /\ printed = << >>
  /\ freq = 0 /\ ans = 0 /\ result = 0
-----------------------------------------------------------------------------
\* Variant of drop_front: an index stays in the deque for one window too long.
drop_front_late ==
  /\ scan = "deque" /\ scanPc = "next" /\ i < size
  /\ front' = IF front <= back /\ deque[front] < i - k THEN front + 1 ELSE front
  /\ scanPc' = "shrink"
  /\ UNCHANGED <<input, i, deque, back, printed, voteVars>>

\* The index that has left the window leaves the deque; one at most.
drop_front ==
  /\ scan = "deque" /\ scanPc = "next" /\ i < size
  /\ front' = IF front <= back /\ deque[front] <= i - k THEN front + 1 ELSE front
  /\ scanPc' = "shrink"
  /\ UNCHANGED <<input, i, deque, back, printed, voteVars>>

Smaller == front <= back /\ nums[deque[back]] <= nums[i]

\* One round of the inner loop.
drop_back ==
  /\ scan = "deque" /\ scanPc = "shrink" /\ Smaller
  /\ back' = back - 1
  /\ UNCHANGED <<input, i, scanPc, deque, front, printed, voteVars>>

\* The rest of the round: the maximum is at the front.
push_and_print ==
  /\ scan = "deque" /\ scanPc = "shrink" /\ ~Smaller
  /\ back' = back + 1
  /\ deque' = [deque EXCEPT ![back + 1] = i]
  /\ printed' = IF i >= k - 1 THEN Append(printed, nums[deque'[front]]) ELSE printed
  /\ i' = i + 1 /\ scanPc' = "next"
  /\ UNCHANGED <<input, front, voteVars>>
-----------------------------------------------------------------------------
\* Variant of vote: a candidate that has lost all its votes stays.
vote_stays ==
  /\ scan = "vote" /\ scanPc = "next" /\ i < size
  /\ ans' = IF i = 0 THEN nums[i] ELSE ans
  /\ freq' = IF ans' = nums[i] THEN freq + 1 ELSE freq - 1
  /\ i' = i + 1
  /\ UNCHANGED <<input, scanPc, dequeVars, result>>

\* A round of the first loop of mojorityElem.
vote ==
  /\ scan = "vote" /\ scanPc = "next" /\ i < size
  /\ ans' = IF freq = 0 THEN nums[i] ELSE ans
  /\ freq' = IF ans' = nums[i] THEN freq + 1 ELSE freq - 1
  /\ i' = i + 1
  /\ UNCHANGED <<input, scanPc, dequeVars, result>>

\* How often v is among the first m elements.
Occurs(v, m) == Cardinality({j \in 0 .. m - 1 : nums[j] = v})

Majority(v) == Occurs(v, size) > size \div 2

\* The second loop and the return.
recount ==
  /\ scan = "vote" /\ scanPc = "next" /\ i = size
  /\ result' = IF Majority(ans) THEN ans ELSE -1
  /\ scanPc' = "done"
  /\ UNCHANGED <<input, i, dequeVars, freq, ans>>

\* What majority_elem_brute_force.c returns: the first element with enough
\* occurrences.
findMajority ==
  IF \E j \in Index : Majority(nums[j])
  THEN nums[CHOOSE j \in Index : Majority(nums[j]) /\ \A m \in 0 .. j - 1 : ~Majority(nums[m])]
  ELSE -1

ScanNext == drop_front \/ drop_back \/ push_and_print \/ vote \/ recount

ScanSpec == ScanInit /\ [][ScanNext]_scanVars
-----------------------------------------------------------------------------
ScanTypeOK ==
  /\ scan \in {"deque", "vote"} /\ scanPc \in {"next", "shrink", "done"}
  /\ size \in Nat /\ k \in Nat \ {0} /\ nums \in [Index -> Int]
  /\ i \in 0 .. size
  /\ deque \in [Index -> Int] /\ front \in Nat /\ back \in -1 .. size - 1
  /\ printed \in Seq(Int)
  /\ freq \in Nat /\ ans \in Int /\ result \in Int

\* x is the largest of the k elements from position a on.
WindowMax(a, x) ==
  /\ \E j \in a .. a + k - 1 : nums[j] = x
  /\ \A j \in a .. a + k - 1 : nums[j] <= x

\* slliding-window-deque.c prints one number for every window that has been
\* seen whole, in their order, and each is the largest of its window: dropping
\* the smaller indices at the back and one old index at the front never loses
\* a later maximum.  The deque stays within its array.
WindowMaxima ==
  scan = "deque" /\ scanPc = "next" =>
    /\ Len(printed) = IF i >= k THEN i - k + 1 ELSE 0
    /\ \A m \in 1 .. Len(printed) : WindowMax(m - 1, printed[m])
    /\ 0 <= front /\ front <= back + 1 /\ back < i

\* The one pass and recount of majority_elem_moore_vot.c return what the
\* quadratic search of majority_elem_brute_force.c does.
VoteAgrees == scan = "vote" /\ scanPc = "done" => result = findMajority
-----------------------------------------------------------------------------
(* The inductive invariants.                                               *)

\* The first index that the window may still reach back to.
Oldest == IF scanPc = "next" THEN i - k ELSE i - k + 1

\* The deque holds indices of the window, older ones first and with larger
\* elements; every element of the window is outdone by a later one in the deque
\* or, while the deque shrinks, by the element about to be pushed.
DequeInv ==
  scan = "deque" =>
    /\ scanPc \in {"next", "shrink"} /\ (scanPc = "shrink" => i < size)
    /\ front <= back + 1 /\ back < i
    /\ \A p \in front .. back : deque[p] \in 0 .. i - 1 /\ deque[p] >= Oldest
    /\ \A p, q \in front .. back :
         p < q => deque[p] < deque[q] /\ nums[deque[p]] > nums[deque[q]]
    /\ \A j \in 0 .. i - 1 : j >= Oldest =>
         \/ \E p \in front .. back : deque[p] >= j /\ nums[deque[p]] >= nums[j]
         \/ scanPc = "shrink" /\ nums[j] <= nums[i]
    /\ Len(printed) = IF i >= k THEN i - k + 1 ELSE 0
    /\ \A m \in 1 .. Len(printed) : WindowMax(m - 1, printed[m])

\* Only the candidate can have more than half of what was seen.
VoteInv ==
  scan = "vote" =>
    /\ scanPc \in {"next", "done"} /\ (scanPc = "done" => i = size)
    /\ \A v \in Int : 2 * Occurs(v, i) <= IF v = ans THEN i + freq ELSE i - freq
    /\ scanPc = "done" => result = IF Majority(ans) THEN ans ELSE -1

ScanInv == ScanTypeOK /\ DequeInv /\ VoteInv
=============================================================================
