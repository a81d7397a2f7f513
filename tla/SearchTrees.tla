----------------------------- MODULE SearchTrees ----------------------------
(***************************************************************************)
(* The binary search trees: the plain ones of EXTRA_TASK/26-11-2025 and    *)
(* WEEKEND_TASK ("bst"), avl-tree.c ("avl") and the student records of     *)
(* student_enrollment_avl.c ("enrollment").                                *)
(*                                                                         *)
(* A tree is NULL or a node with its two subtrees: no node has two parents *)
(* and the functions return the subtree they have rebuilt.  The plain      *)
(* trees have no height; here it is there and nobody reads it.  Fault is   *)
(* the outcome of a call that follows a NULL pointer.  The mains insert    *)
(* and delete what the user types or a fixed list; here any keys come in   *)
(* any order.                                                              *)
(*                                                                         *)
(* In rb-tree.c a node is its key, NIL is 0; kid, parent and               *)
(* color are the fields of all nodes.  What the code writes twice, for the *)
(* left and for the right, is once here, with the side as a parameter.     *)
(* The sentinel's parent is scratch space of delete, as in the code.       *)
(*                                                                         *)
(* b-tree-dynamic-insertion.c with searchKey of b-tree.c ("btree"), and    *)
(* b-plus-tree.c ("bplus").  A node of the B-tree has its keys and its     *)
(* subtrees; the nodes of the B+ tree are cells of memory, since its       *)
(* leaves are linked.  Indices count from 1.                               *)
(*                                                                         *)
(* The fourth key of a full B+ leaf is written behind keys[], into the     *)
(* padding before child[], and is not copied when the leaf is split; the   *)
(* fifth child of an inner node is written over its count: Fault.  main    *)
(* inserts distinct keys into the B+ tree; so do we, the ones left behind  *)
(* again.                                                                  *)
(***************************************************************************)
EXTENDS Integers, SequencesExt

CONSTANTS Key, RbKey, BtKey, BpKey, MaxInserts, NULL, Fault

VARIABLES program, tree, rb,
  keys, rb_keys   \* auxiliary: the keys inserted and not deleted since

vars == <<program, tree, keys>>

Init == program \in {"bst", "avl", "enrollment"} /\ tree = NULL /\ keys = {}
-----------------------------------------------------------------------------
height(n) == IF n = NULL THEN 0 ELSE n.height

Node(k, l, r) ==
  [key |-> k, left |-> l, right |-> r, height |-> 1 + Max({height(l), height(r)})]

createNode(k) == Node(k, NULL, NULL)

\* The subtree that the comparison with the key leads to, and the node with
\* another tree there.
Side(n, k) == IF k < n.key THEN n.left ELSE n.right
Hang(n, k, t) == IF k < n.key THEN Node(n.key, t, n.right) ELSE Node(n.key, n.left, t)

RECURSIVE insert(_, _)
insert(n, k) ==
  IF n = NULL THEN createNode(k)
  ELSE IF k = n.key THEN n
  ELSE Hang(n, k, insert(Side(n, k), k))

RECURSIVE minimumValueNode(_)
minimumValueNode(n) == IF n.left = NULL THEN n ELSE minimumValueNode(n.left)

RECURSIVE deleteNode(_, _)
deleteNode(n, k) ==
  IF n = NULL THEN NULL
  ELSE IF k # n.key THEN Hang(n, k, deleteNode(Side(n, k), k))
  ELSE IF n.left = NULL THEN n.right
  ELSE IF n.right = NULL THEN n.left
  ELSE LET next == minimumValueNode(n.right).key
       IN  Node(next, n.left, deleteNode(n.right, next))
-----------------------------------------------------------------------------
rightRotate(y) == Node(y.left.key, y.left.left, Node(y.key, y.left.right, y.right))
leftRotate(x) == Node(x.right.key, Node(x.key, x.left, x.right.left), x.right.right)

leftRightRotate(n) == rightRotate(Node(n.key, leftRotate(n.left), n.right))
rightLeftRotate(n) == leftRotate(Node(n.key, n.left, rightRotate(n.right)))

getBalanceFactor(n) == IF n = NULL THEN 0 ELSE height(n.left) - height(n.right)

\* The rotations of insert of avl-tree.c.
after_insert(n, k) ==
  LET balance == getBalanceFactor(n)
  IN  CASE balance > 1 /\ k < n.left.key -> rightRotate(n)
        [] balance < -1 /\ k > n.right.key -> leftRotate(n)
        [] balance > 1 /\ k > n.left.key -> leftRightRotate(n)
        [] balance < -1 /\ k < n.right.key -> rightLeftRotate(n)
        [] OTHER -> n

RECURSIVE avl_insert(_, _)
avl_insert(n, k) ==
  IF n = NULL THEN createNode(k)
  ELSE IF k = n.key THEN n
  ELSE after_insert(Hang(n, k, avl_insert(Side(n, k), k)), k)

\* Those of student_enrollment_avl.c: it tests "balance-1", whether balance
\* is 1, where it means "balance<-1", and "roll<-1" for the fourth case.
after_enroll(n, k) ==
  LET balance == getBalanceFactor(n)
  IN  CASE balance > 1 /\ k < n.left.key -> rightRotate(n)
        [] balance # 1 /\ n.right = NULL -> Fault
        [] balance # 1 /\ k > n.right.key -> leftRotate(n)
        [] balance > 1 /\ k > n.left.key ->
             IF n.left.right = NULL THEN Fault ELSE leftRightRotate(n)
        [] k < -1 /\ n.right = NULL -> Fault
        [] k < -1 /\ k < n.right.key ->
             IF n.right.left = NULL THEN Fault ELSE rightLeftRotate(n)
        [] OTHER -> n

RECURSIVE enroll(_, _)
enroll(n, k) ==
  IF n = NULL THEN createNode(k)
  ELSE IF k = n.key THEN n
  ELSE LET sub == enroll(Side(n, k), k)
       IN  IF sub = Fault THEN Fault ELSE after_enroll(Hang(n, k, sub), k)

\* Variant of after_delete: a balanced child is taken for the double rotation.
after_delete_strict(n) ==
  LET balance == getBalanceFactor(n)
  IN  CASE balance > 1 /\ getBalanceFactor(n.left) > 0 -> rightRotate(n)
        [] balance < -1 /\ getBalanceFactor(n.right) < 0 -> leftRotate(n)
        [] OTHER -> n

after_delete(n) ==
  LET balance == getBalanceFactor(n)
  IN  CASE balance > 1 /\ getBalanceFactor(n.left) >= 0 -> rightRotate(n)
        [] balance > 1 /\ getBalanceFactor(n.left) < 0 -> leftRightRotate(n)
        [] balance < -1 /\ getBalanceFactor(n.right) <= 0 -> leftRotate(n)
        [] balance < -1 /\ getBalanceFactor(n.right) > 0 -> rightLeftRotate(n)
        [] OTHER -> n

\* A node with one child becomes that child, and is rebalanced as it.
RECURSIVE avl_delete(_, _)
avl_delete(n, k) ==
  IF n = NULL THEN NULL
  ELSE IF k # n.key THEN after_delete(Hang(n, k, avl_delete(Side(n, k), k)))
  ELSE IF n.left = NULL THEN after_delete(n.right)
  ELSE IF n.right = NULL THEN after_delete(n.left)
  ELSE LET next == minimumValueNode(n.right).key
       IN  after_delete(Node(next, n.left, avl_delete(n.right, next)))

drop(n, k) == avl_delete(n, k)
-----------------------------------------------------------------------------
Insert(k) ==
  /\ tree # Fault
  /\ tree' = CASE program = "bst" -> insert(tree, k)
               [] program = "avl" -> avl_insert(tree, k)
               [] program = "enrollment" -> enroll(tree, k)
  /\ keys' = keys \cup {k}
  /\ UNCHANGED program

Delete(k) ==
  /\ tree # Fault
  /\ tree' = CASE program = "bst" -> deleteNode(tree, k)
               [] program = "avl" -> avl_delete(tree, k)
               [] program = "enrollment" -> drop(tree, k)
  /\ keys' = keys \ {k}
  /\ UNCHANGED program

Next == \E k \in Key : Insert(k) \/ Delete(k)

-----------------------------------------------------------------------------
(***************************************************************************)
(* The questions asked of a tree.                                          *)
(***************************************************************************)
RECURSIVE search(_, _)
search(n, k) ==
  IF n = NULL THEN FALSE ELSE k = n.key \/ search(Side(n, k), k)

RECURSIVE LCA(_, _, _)
LCA(n, a, b) ==
  IF n = NULL THEN NULL
  ELSE IF a < n.key /\ b < n.key THEN LCA(n.left, a, b)
  ELSE IF a > n.key /\ b > n.key THEN LCA(n.right, a, b)
  ELSE n

RECURSIVE isBstUtils(_, _, _)
isBstUtils(n, min, max) ==
  \/ n = NULL
  \/ /\ ~(n.key <= min \/ n.key >= max)
     /\ isBstUtils(n.left, min, n.key)
     /\ isBstUtils(n.right, n.key, max)

\* INT_MIN and INT_MAX are below and above all keys.
isBST(n) == isBstUtils(n, Min(Key) - 1, Max(Key) + 1)

RECURSIVE countLeafNode(_)
countLeafNode(n) ==
  IF n = NULL THEN 0
  ELSE IF n.left = NULL /\ n.right = NULL THEN 1
  ELSE countLeafNode(n.left) + countLeafNode(n.right)

RECURSIVE countNodes(_)
countNodes(n) == IF n = NULL THEN 0 ELSE 1 + countNodes(n.left) + countNodes(n.right)

RECURSIVE maximum(_)
maximum(n) == IF n.right = NULL THEN n ELSE maximum(n.right)
findMinMax(n) == <<minimumValueNode(n).key, maximum(n).key>>

RECURSIVE height_of(_)
height_of(n) == IF n = NULL THEN 0 ELSE 1 + Max({height_of(n.left), height_of(n.right)})

RECURSIVE pre_order(_)
pre_order(n) == IF n = NULL THEN << >> ELSE <<n.key>> \o pre_order(n.left) \o pre_order(n.right)

RECURSIVE inOrder_depth(_, _)
inOrder_depth(n, depth) ==
  IF n = NULL THEN << >>
  ELSE inOrder_depth(n.left, depth + 1) \o <<<<n.key, depth>>>> \o inOrder_depth(n.right, depth + 1)

inOrder(n) == LET visits == inOrder_depth(n, 0) IN [i \in DOMAIN visits |-> visits[i][1]]
-----------------------------------------------------------------------------
(***************************************************************************)
(* What they are compared with: the paths from the root to each node.      *)
(***************************************************************************)
RECURSIVE Paths(_)
Paths(n) ==
  IF n = NULL THEN {}
  ELSE {<<n.key>>} \cup {<<n.key>> \o p : p \in Paths(n.left) \cup Paths(n.right)}

PathTo(k) == CHOOSE p \in Paths(tree) : Last(p) = k

Shared(p, q) == LongestCommonPrefix({p, q})

\* The tree with key a replaced by b, which may be out of order.
RECURSIVE Renamed(_, _, _)
Renamed(n, a, b) ==
  IF n = NULL THEN NULL
  ELSE Node(IF n.key = a THEN b ELSE n.key, Renamed(n.left, a, b), Renamed(n.right, a, b))

Ascending(s) == \A i \in 1 .. Len(s) - 1 : s[i] < s[i + 1]

RECURSIVE EveryNode(_)
EveryNode(n) == IF n = NULL THEN {} ELSE {n} \cup EveryNode(n.left) \cup EveryNode(n.right)

\* Through any inserts and deletes the tree holds the keys inserted and not
\* deleted since, each once, in order: whatever rotations were made, those of
\* student_enrollment_avl.c too as long as it runs.
Sorted == tree # Fault => inOrder(tree) = SetToSortSeq(keys, <)

\* avl-tree.c: at every node the subtrees differ by at most one level, after
\* every insert and delete; the heights stored are the real ones, in
\* student_enrollment_avl.c too.
Balanced ==
  tree # Fault =>
    \A n \in EveryNode(tree) :
      /\ n.height = height_of(n)
      /\ program = "avl" => getBalanceFactor(n) \in -1 .. 1

\* The questions asked of a tree have the answers that its paths give: search,
\* LCA, isBST (of the tree, and of the tree with one key changed),
\* countLeafNode, countNodes, findMinMax, height; inserting the keys in
\* pre-order again builds the same tree, and inOrder_depth prints each node's
\* depth.
QueriesAgree ==
  tree # Fault =>
    /\ \A k \in Key : search(tree, k) <=> k \in keys
    /\ \A a, b \in keys : LCA(tree, a, b).key = Last(Shared(PathTo(a), PathTo(b)))
    /\ isBST(tree)
    /\ \A a \in keys, b \in Key :
         isBST(Renamed(tree, a, b)) <=> Ascending(inOrder(Renamed(tree, a, b)))
    /\ countLeafNode(tree) =
         Cardinality({p \in Paths(tree) : \A q \in Paths(tree) : IsPrefix(p, q) => p = q})
    /\ countNodes(tree) = Cardinality(keys)
    /\ keys # {} => findMinMax(tree) = <<Min(keys), Max(keys)>>
    /\ height_of(tree) = Max({Len(p) : p \in Paths(tree)} \cup {0})
    /\ FoldLeft(insert, NULL, pre_order(tree)) = tree
    /\ ToSet(inOrder_depth(tree, 0)) = {<<Last(p), Len(p) - 1>> : p \in Paths(tree)}
-----------------------------------------------------------------------------
NIL == 0

rbvars == <<rb, rb_keys>>

RbNode == RbKey \cup {NIL}
Sides == {"left", "right"}
Other(side) == IF side = "left" THEN "right" ELSE "left"

RbInit ==
  /\ rb = [root |-> NIL, kid |-> [side \in Sides |-> [n \in RbNode |-> NIL]],
           parent |-> [n \in RbNode |-> NIL], color |-> [n \in RbNode |-> "BLACK"]]
  /\ rb_keys = {}

SideOf(t, n) == IF n = t.kid["left"][t.parent[n]] THEN "left" ELSE "right"

\* The parent of u gets v in its place.
replace(t, u, v) ==
  IF t.parent[u] = NIL THEN [t EXCEPT !.root = v]
  ELSE [t EXCEPT !.kid[SideOf(t, u)][t.parent[u]] = v]

transplant(t, u, v) == [replace(t, u, v) EXCEPT !.parent[v] = t.parent[u]]

\* leftRotate for side "left", rightRotate for side "right".
rotate(t, x, side) ==
  LET y == t.kid[Other(side)][x]
      b == t.kid[side][y]
      up == [t EXCEPT !.kid[Other(side)][x] = b,
                      !.parent = [n \in RbNode |-> IF n = y THEN t.parent[x]
                                                 ELSE IF n = b /\ b # NIL THEN x ELSE @[n]]]
  IN  [replace(up, x, y) EXCEPT !.kid[side][y] = x, !.parent[x] = y]

Dye(t, nodes, color) == [t EXCEPT !.color = [n \in RbNode |-> IF n \in nodes THEN color ELSE @[n]]]

RECURSIVE insertFixup(_, _)
insertFixup(t, z) ==
  LET p == t.parent[z]
      g == t.parent[p]
      side == SideOf(t, p)
      uncle == t.kid[Other(side)][g]
      inner == z = t.kid[Other(side)][p]
      turned == IF inner THEN rotate(t, p, side) ELSE t
      low == IF inner THEN p ELSE z
      top == turned.parent[low]
  IN  IF t.color[p] # "RED" THEN Dye(t, {t.root}, "BLACK")
      ELSE IF t.color[uncle] = "RED" THEN insertFixup(Dye(Dye(t, {p, uncle}, "BLACK"), {g}, "RED"), g)
      ELSE insertFixup(rotate(Dye(Dye(turned, {top}, "BLACK"), {g}, "RED"), g, Other(side)), low)

\* The node where the search for the key ends, and the one above it.
RECURSIVE descend(_, _, _, _)
descend(t, x, y, key) ==
  IF x = NIL \/ x = key THEN <<x, y>>
  ELSE descend(t, t.kid[IF key < x THEN "left" ELSE "right"][x], x, key)

rb_insert(t, key) ==
  LET at == descend(t, t.root, NIL, key)
      y == at[2]
      new == [t EXCEPT !.parent[key] = y, !.color[key] = "RED",
                       !.kid = [side \in Sides |-> [@[side] EXCEPT ![key] = NIL]]]
  IN  IF at[1] # NIL THEN t
      ELSE insertFixup(IF y = NIL THEN [new EXCEPT !.root = key]
                       ELSE [new EXCEPT !.kid[IF key < y THEN "left" ELSE "right"][y] = key], key)

rb_search(t, key) == descend(t, t.root, NIL, key)[1] # NIL

RECURSIVE treeMinimum(_, _)
treeMinimum(t, x) == IF t.kid["left"][x] = NIL THEN x ELSE treeMinimum(t, t.kid["left"][x])

RECURSIVE deleteFixup(_, _)
deleteFixup(t, x) ==
  LET p == t.parent[x]
      side == SideOf(t, x)
      far == Other(side)
      w0 == t.kid[far][p]
      \* a red brother goes up, its child on this side takes its place
      t1 == IF t.color[w0] = "RED" THEN rotate(Dye(Dye(t, {w0}, "BLACK"), {p}, "RED"), p, side) ELSE t
      w1 == t1.kid[far][p]
      \* a black child on the far side: the near one goes up
      near == t1.kid[side][w1]
      t2 == IF t1.color[t1.kid[far][w1]] = "BLACK"
              THEN rotate(Dye(Dye(t1, {near}, "BLACK"), {w1}, "RED"), w1, far) ELSE t1
      w2 == t2.kid[far][p]
      t3 == rotate(Dye(Dye(t2, {w2}, t2.color[p]), {p, t2.kid[far][w2]}, "BLACK"), p, side)
  IN  IF x = t.root \/ t.color[x] # "BLACK" THEN Dye(t, {x}, "BLACK")
      ELSE IF \A s \in Sides : t1.color[t1.kid[s][w1]] = "BLACK"
           THEN deleteFixup(Dye(t1, {w1}, "RED"), p)
           ELSE deleteFixup(t3, t3.root)

\* The node z freed: its fields are nobody's any more.
freed(t, z) ==
  [t EXCEPT !.parent[z] = NIL, !.color[z] = "BLACK",
            !.kid = [side \in Sides |-> [@[side] EXCEPT ![z] = NIL]]]

delete(t, z) ==
  LET kids == {s \in Sides : t.kid[s][z] # NIL}
      only == t.kid[IF t.kid["left"][z] = NIL THEN "right" ELSE "left"][z]
      y == treeMinimum(t, t.kid["right"][z])
      x == t.kid["right"][y]
      out == IF t.parent[y] = z THEN [t EXCEPT !.parent[x] = y]
             ELSE LET t1 == [transplant(t, y, x) EXCEPT !.kid["right"][y] = t.kid["right"][z]]
                  IN  [t1 EXCEPT !.parent[t1.kid["right"][y]] = y]
      moved == [transplant(out, z, y) EXCEPT
                  !.kid["left"][y] = t.kid["left"][z], !.parent[t.kid["left"][z]] = y,
                  !.color[y] = t.color[z]]
      fixed(t1, color, from) == IF color = "BLACK" THEN deleteFixup(t1, from) ELSE t1
  IN  IF ~rb_search(t, z) THEN t
      ELSE IF kids = Sides THEN fixed(freed(moved, z), t.color[y], x)
      ELSE fixed(freed(transplant(t, z, only), z), t.color[z], only)

RbInsert(k) == rb' = rb_insert(rb, k) /\ rb_keys' = rb_keys \cup {k}
RbDelete(k) == rb' = delete(rb, k) /\ rb_keys' = rb_keys \ {k}

RbNext == \E k \in RbKey : RbInsert(k) \/ RbDelete(k)
-----------------------------------------------------------------------------
(* The B-trees *)

MAX == 3

VARIABLES sort, root, mem,
  inserted,  \* auxiliary: how often each key was inserted,
  lost       \* and how often it was left behind by a split

btvars == <<sort, root, mem, inserted, lost>>

Empty == [keys |-> << >>, kids |-> << >>, next |-> 0]

\* The keys that the program at hand inserts.
Keys == IF sort = "btree" THEN BtKey ELSE BpKey

BtInit ==
  /\ sort \in {"btree", "bplus"}
  /\ root = NULL /\ mem = << >>
  /\ inserted = [k \in Keys |-> 0] /\ lost = [k \in Keys |-> 0]

isLeaf(n) == n.kids = << >>
Below(n, key) == Cardinality({j \in DOMAIN n.keys : n.keys[j] < key})
UpTo(n, key) == Cardinality({j \in DOMAIN n.keys : n.keys[j] <= key})

\* The part of a node from its i-th key to its j-th, with the subtrees there.
Part(n, i, j) ==
  [n EXCEPT !.keys = SubSeq(@, i, j), !.kids = IF isLeaf(n) THEN @ ELSE SubSeq(@, i, j + 1)]
-----------------------------------------------------------------------------
splitChild(parent, i) ==
  LET full == parent.kids[i]
      mid == MAX \div 2
  IN  [parent EXCEPT
         !.keys = InsertAt(@, i, full.keys[mid + 1]),
         !.kids = InsertAt([@ EXCEPT ![i] = Part(full, 1, mid)], i + 1, Part(full, mid + 2, MAX))]

RECURSIVE insertWhenNonFull(_, _)
insertWhenNonFull(n, key) ==
  LET i == UpTo(n, key) + 1
  IN  IF isLeaf(n) THEN [n EXCEPT !.keys = InsertAt(@, i, key)]
      ELSE LET split == IF Len(n.kids[i].keys) = MAX THEN splitChild(n, i) ELSE n
               j == IF split # n /\ key > split.keys[i] THEN i + 1 ELSE i
           IN  [split EXCEPT !.kids[j] = insertWhenNonFull(@, key)]

btree_insert(key) ==
  CASE root = NULL -> [Empty EXCEPT !.keys = <<key>>]
    [] root # NULL /\ Len(root.keys) = MAX ->
         LET newRoot == splitChild([Empty EXCEPT !.kids = <<root>>], 1)
         IN  [newRoot EXCEPT !.kids[IF key > newRoot.keys[1] THEN 2 ELSE 1] = insertWhenNonFull(@, key)]
    [] OTHER -> insertWhenNonFull(root, key)

RECURSIVE searchKey(_, _)
searchKey(key, n) ==
  LET i == Below(n, key) + 1
  IN  \/ i <= Len(n.keys) /\ key = n.keys[i]
      \/ ~isLeaf(n) /\ searchKey(key, n.kids[i])

\* searchKey(key, NULL) is false.
btree_search(key) == root # NULL /\ searchKey(key, root)
-----------------------------------------------------------------------------
\* Calls return the memory, the node that a split has added (or 0), the key
\* promoted with it, and the key that the split left behind.
Done(m) == [mem |-> m, new |-> 0, promoted |-> 0, dropped |-> {}]

insertIntoLeaf(leaf, key) == [leaf EXCEPT !.keys = InsertAt(@, UpTo(leaf, key) + 1, key)]

splitLeaf(m, id) ==
  LET mid == (MAX + 1) \div 2
      new == Len(m) + 1
      half == Part(m[id], mid + 1, MAX)
  IN  [mem |-> Append([m EXCEPT ![id] = [Part(@, 1, mid) EXCEPT !.next = new]], half),
       new |-> new, promoted |-> half.keys[1], dropped |-> {m[id].keys[MAX + 1]}]

insertIntoInternal(n, key, child) ==
  LET i == UpTo(n, key) + 1
  IN  [n EXCEPT !.keys = InsertAt(@, i, key), !.kids = InsertAt(@, i + 1, child)]

RECURSIVE bplus_insert(_, _, _)
bplus_insert(m, id, key) ==
  IF isLeaf(m[id])
    THEN LET m1 == [m EXCEPT ![id] = insertIntoLeaf(@, key)]
         IN  IF Len(m[id].keys) < MAX THEN Done(m1) ELSE splitLeaf(m1, id)
    ELSE LET call == bplus_insert(m, m[id].kids[Below(m[id], key) + 1], key)
         IN  IF call.mem = Fault \/ call.new = 0 THEN call
             ELSE IF Len(m[id].keys) < MAX
                  THEN [Done([call.mem EXCEPT ![id] = insertIntoInternal(@, call.promoted, call.new)])
                          EXCEPT !.dropped = call.dropped]
                  ELSE [call EXCEPT !.mem = Fault]

insertKey(key) ==
  IF root = NULL THEN mem' = <<[Empty EXCEPT !.keys = <<key>>]>> /\ root' = 1 /\ UNCHANGED lost
  ELSE LET call == bplus_insert(mem, root, key)
           grown == [Empty EXCEPT !.keys = <<call.promoted>>, !.kids = <<root, call.new>>]
       IN  /\ lost' = [k \in Keys |-> lost[k] + IF k \in call.dropped THEN 1 ELSE 0]
           /\ mem' = IF call.mem # Fault /\ call.new # 0 THEN Append(call.mem, grown) ELSE call.mem
           /\ root' = IF call.mem # Fault /\ call.new # 0 THEN Len(call.mem) + 1 ELSE root

RECURSIVE leafFor(_, _)
leafFor(id, key) ==
  IF isLeaf(mem[id]) THEN id ELSE leafFor(mem[id].kids[Below(mem[id], key) + 1], key)

bplus_search(key) == key \in ToSet(mem[leafFor(root, key)].keys)

RECURSIVE leftmost(_)
leftmost(id) == IF isLeaf(mem[id]) THEN id ELSE leftmost(mem[id].kids[1])

RECURSIVE printed(_)
printed(id) == IF id = 0 THEN << >> ELSE mem[id].keys \o printed(mem[id].next)

printLeaves == printed(leftmost(root))

\* It stops at the first key past the end.
printRange(from, to) ==
  LET seen == printed(leafFor(root, from))
      stop == Min({Len(seen) + 1} \cup {j \in DOMAIN seen : seen[j] > to})
  IN  SelectSeq(SubSeq(seen, 1, stop - 1), LAMBDA k : from <= k)
-----------------------------------------------------------------------------
Total == SumFunction(inserted)

BtNext ==
  /\ mem # Fault
  /\ Total < MaxInserts
  /\ UNCHANGED sort
  /\ \E key \in Keys :
       /\ inserted' = [inserted EXCEPT ![key] = @ + 1]
       /\ \/ sort = "btree" /\ root' = btree_insert(key) /\ UNCHANGED <<mem, lost>>
          \/ sort = "bplus" /\ inserted[key] = lost[key] /\ insertKey(key)
-----------------------------------------------------------------------------
RECURSIVE BtInOrder(_)
BtInOrder(n) ==
  IF isLeaf(n) THEN n.keys
  ELSE FlattenSeq([j \in 1 .. 2 * Len(n.keys) + 1 |->
         IF j % 2 = 1 THEN BtInOrder(n.kids[(j + 1) \div 2]) ELSE <<n.keys[j \div 2]>>])

RECURSIVE Depths(_)
Depths(n) == IF isLeaf(n) THEN {0} ELSE {1 + d : d \in UNION {Depths(n.kids[j]) : j \in DOMAIN n.kids}}

RECURSIVE Nodes(_)
Nodes(n) == {n} \cup UNION {Nodes(n.kids[j]) : j \in DOMAIN n.kids}

\* The sequence is in order and has every key as often as count says.
SortedWith(s, count) ==
  /\ \A j \in 1 .. Len(s) - 1 : s[j] <= s[j + 1]
  /\ \A k \in Keys : Cardinality({j \in DOMAIN s : s[j] = k}) = count[k]

\* The B-tree holds every key as often as it was inserted, in order; all
\* leaves are on one level and no node but the root is empty or too full; and
\* searchKey finds exactly the keys.
BTreeKept ==
  sort = "btree" /\ root # NULL =>
    /\ SortedWith(BtInOrder(root), inserted)
    /\ Cardinality(Depths(root)) = 1
    /\ \A n \in Nodes(root) : Len(n.keys) \in 1 .. MAX /\ (isLeaf(n) \/ Len(n.kids) = Len(n.keys) + 1)
    /\ \A k \in Keys : btree_search(k) <=> inserted[k] > 0

\* The leaves of the B+ tree, as printLeaves follows them, hold every key
\* inserted but the one that each split has left behind, in order, and
\* printRange prints those in the range, wherever the splits have put them;
\* search finds no key that is not there.
BPlusKept ==
  sort = "bplus" /\ root # NULL /\ mem # Fault =>
    /\ SortedWith(printLeaves, [k \in Keys |-> inserted[k] - lost[k]])
    /\ \A from, to \in Keys :
         printRange(from, to) = SelectSeq(printLeaves, LAMBDA k : from <= k /\ k <= to)
    /\ \A k \in Keys : bplus_search(k) => inserted[k] > lost[k]
-----------------------------------------------------------------------------
TypeOK ==
  /\ program \in {"bst", "avl", "enrollment"}
  /\ keys \subseteq Key
  /\ tree # Fault => \A n \in EveryNode(tree) : n.key \in Key
  /\ tree = Fault => program = "enrollment"
  /\ rb.root \in RbNode
  /\ rb.kid \in [Sides -> [RbNode -> RbNode]]
  /\ rb.parent \in [RbNode -> RbNode]
  /\ rb.color \in [RbNode -> {"RED", "BLACK"}]
  /\ rb_keys \subseteq RbKey
  /\ sort \in {"btree", "bplus"}
  /\ inserted \in [Keys -> 0 .. MaxInserts] /\ lost \in [Keys -> 0 .. MaxInserts]
  /\ sort = "bplus" /\ mem # Fault => root \in {NULL} \cup 1 .. Len(mem)

RECURSIVE InOrder(_)
InOrder(n) ==
  IF n = NIL THEN << >> ELSE InOrder(rb.kid["left"][n]) \o <<n>> \o InOrder(rb.kid["right"][n])

\* The numbers of black nodes on the ways from n down to NIL.
RECURSIVE BlackHeights(_)
BlackHeights(n) ==
  IF n = NIL THEN {0}
  ELSE {h + (IF rb.color[n] = "BLACK" THEN 1 ELSE 0) : h \in UNION {BlackHeights(rb.kid[s][n]) : s \in Sides}}

\* rb-tree.c: through any inserts and deletes the tree holds the keys, in
\* order, and stays a red-black tree: root and sentinel are black, a red
\* node has black children, every way down meets as many black nodes, and
\* the parents are those of the children.
RedBlack ==
  /\ InOrder(rb.root) = SetToSortSeq(rb_keys, <)
  /\ rb.color[rb.root] = "BLACK" /\ rb.color[NIL] = "BLACK"
  /\ Cardinality(BlackHeights(rb.root)) = 1
  /\ rb.root # NIL => rb.parent[rb.root] = NIL
  /\ \A n \in rb_keys, s \in Sides :
       LET c == rb.kid[s][n]
       IN  c # NIL => rb.parent[c] = n /\ "BLACK" \in {rb.color[n], rb.color[c]}
  /\ \A k \in RbKey : rb_search(rb, k) <=> k \in rb_keys
=============================================================================
