---------------------------- MODULE MCContainers ----------------------------
(***************************************************************************)
(* The sequential containers, the scans of an array and the exercises.     *)
(* running names the program at hand; the variables of the others stay as  *)
(* they start.                                                             *)
(***************************************************************************)
EXTENDS ArrayScans, TLC

CONSTANTS Key, RbKey, NULL, Fault,
  Word, Value, TABLE_SIZE, Hash, Hash2,
  SlKey, Cells, MAX_LEVEL, BtKey, BpKey, MaxInserts,
  Item, ListCells, SIZE, Units, Header, Unit, Owner, MaxSlabs,
  LruKey, LruValue, Capacity, HASH_SIZE,
  limit_value, MAX_THREADS, MaxLength

VARIABLES running, program, tree, keys, rb, rb_keys, kind, table, live,
  list, sl_keys, misled, sort, root, mem, inserted, lost,
  what, heap, first, rear, got, items, due, allocator, area, given,
  lru, answer, recent, newest,
  task, problem, current_index, limit_count, shown, scanning

Trees == INSTANCE SearchTrees
Seqs == INSTANCE Lists WITH front <- first
Allocs == INSTANCE Allocators
Exs == INSTANCE Exercises WITH input <- problem

treeVars == <<program, tree, keys>>
rbVars == <<rb, rb_keys>>
hashVars == <<kind, table, live>>
skipVars == <<list, sl_keys, misled>>
btVars == <<sort, root, mem, inserted, lost>>
listVars == <<what, heap, first, rear, got, items, due>>
allocVars == <<allocator, area, given>>
lruVars == <<lru, answer, recent, newest>>
exVars == <<task, problem, current_index, limit_count, shown, scanning>>

\* One key below -1: see after_enroll.
KeysOf == {-2} \cup 1 .. 6

\* One element is the value that mojorityElem returns for none.
ElementsOf == {-1, 1, 2}

\* Words that collide, and two that hash apart.
HashOf == [a |-> 3, b |-> 3, c |-> 0]
Hash2Of == [a |-> 3, b |-> 2, c |-> 1]

MaxLengthOf ==
  [query |-> 4, expression |-> 2, brackets |-> 4, words |-> 9, heap |-> 5, tree |-> 8, array |-> 5]

MCInit ==
  /\ running \in {"trees", "red-black", "hashes", "skip list", "b-trees", "lists", "allocators", "lru", "scans", "exercises"}
  /\ Trees!Init /\ (running = "trees" \/ program = "bst")
  /\ Trees!RbInit
  /\ Seqs!HashInit /\ (running = "hashes" \/ kind = "bloom")
  /\ Seqs!SkipInit
  /\ Trees!BtInit /\ (running = "b-trees" \/ sort = "btree")
  /\ Seqs!ListInit /\ (running = "lists" \/ what = "list")
  /\ Allocs!Init /\ (running = "allocators" \/ allocator = "arena")
  /\ Seqs!LruInit
  /\ Exs!ExInit /\ (running = "exercises" \/ (task = "tree" /\ problem = 0))
  /\ ScanInit /\ (running = "scans" \/ (scan = "vote" /\ size = 0 /\ k = 1))

MCNext ==
  /\ UNCHANGED running
  /\ \/ /\ running = "trees" /\ Trees!Next
        /\ UNCHANGED <<rbVars, hashVars, skipVars, btVars, listVars, allocVars, lruVars, exVars, scanVars>>
     \/ /\ running = "red-black" /\ Trees!RbNext
        /\ UNCHANGED <<treeVars, hashVars, skipVars, btVars, listVars, allocVars, lruVars, exVars, scanVars>>
     \/ /\ running = "hashes" /\ Seqs!HashNext
        /\ UNCHANGED <<treeVars, rbVars, skipVars, btVars, listVars, allocVars, lruVars, exVars, scanVars>>
     \/ /\ running = "skip list" /\ Seqs!SkipNext
        /\ UNCHANGED <<treeVars, rbVars, hashVars, btVars, listVars, allocVars, lruVars, exVars, scanVars>>
     \/ /\ running = "b-trees" /\ Trees!BtNext
        /\ UNCHANGED <<treeVars, rbVars, hashVars, skipVars, listVars, allocVars, lruVars, exVars, scanVars>>
     \/ /\ running = "lists" /\ Seqs!ListNext
        /\ UNCHANGED <<treeVars, rbVars, hashVars, skipVars, btVars, allocVars, lruVars, exVars, scanVars>>
     \/ /\ running = "allocators" /\ Allocs!Next
        /\ UNCHANGED <<treeVars, rbVars, hashVars, skipVars, btVars, listVars, lruVars, exVars, scanVars>>
     \/ /\ running = "lru" /\ Seqs!LruNext
        /\ UNCHANGED <<treeVars, rbVars, hashVars, skipVars, btVars, listVars, allocVars, exVars, scanVars>>
     \/ /\ running = "scans" /\ ScanNext
        /\ UNCHANGED <<treeVars, rbVars, hashVars, skipVars, btVars, listVars, allocVars, lruVars, exVars>>
     \/ /\ running = "exercises" /\ Exs!ExNext
        /\ UNCHANGED <<treeVars, rbVars, hashVars, skipVars, btVars, listVars, allocVars, lruVars, scanVars>>

MCSpec ==
  MCInit /\ [][MCNext]_<<running, treeVars, rbVars, hashVars, skipVars, btVars, listVars, allocVars, lruVars, exVars, scanVars>>
-----------------------------------------------------------------------------
\* Whatever was inserted and deleted, the containers keep the shape that their
\* operations rely on: the search trees are ordered and those of avl-tree.c
\* balanced, rb-tree.c stays a red-black tree, every level of the skip list
\* is a part of the one below, the leaves of the B-tree are on one level, and
\* the four allocators never give out memory twice and lose none.  The state
\* keeps its types.
ShapesKept ==
  CASE running = "trees" -> Trees!TypeOK /\ Trees!Sorted /\ Trees!Balanced
    [] running = "red-black" -> Trees!TypeOK /\ Trees!RedBlack
    [] running = "skip list" -> Seqs!TypeOK /\ Seqs!LevelsOrdered
    [] running = "b-trees" -> Trees!TypeOK /\ Trees!BTreeKept /\ Trees!BPlusKept
    [] running = "hashes" -> Seqs!TypeOK
    [] running = "allocators" -> Allocs!TypeOK /\ Allocs!BlocksDisjoint
    [] running \in {"lists", "lru"} -> Seqs!TypeOK
    [] running = "scans" -> ScanTypeOK
    [] running = "exercises" -> Exs!TypeOK

\* What they answer is what a set, a map, a queue or a stack would: the
\* queries on the search trees, the lookups in the hash tables, the elements
\* of lists, queues and stacks, and the entries of the LRU cache of
\* leetcode-lru-cache.c, which are the ones used last.  The programs of
\* Exercises compute what a second definition of their answer says.
AnswersAgree ==
  CASE running = "trees" -> Trees!QueriesAgree
    [] running = "hashes" -> Seqs!LookupsAgree
    [] running = "lists" -> Seqs!ItemsKept
    [] running = "lru" -> Seqs!LruExact
    [] running = "exercises" ->
         /\ Exs!RowsAnswered /\ Exs!ExpressionsAgree /\ Exs!BracketsAgree /\ Exs!WordsCounted
         /\ Exs!HeapMaxima /\ Exs!TreesAgree /\ Exs!ArraysAgree
    [] OTHER -> TRUE
=============================================================================
