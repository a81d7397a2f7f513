----------------------------- MODULE Exercises ------------------------------
(***************************************************************************)
(* Programs that compute one answer, each with a second definition of the  *)
(* answer: the operators of QUERY_EXECUTION_ENGINE, the evaluators of      *)
(* EXPRESSION_TREE, valid_parenthesis.c (two of them), the words counted   *)
(* by the threads of word_count_using_thread.c, the window maxima with a   *)
(* heap of day-3, the binary trees of day-6 and the array programs of      *)
(* EXTRA_TASK.                                                             *)
(*                                                                         *)
(* The programs have their input built in or read it; here it is any of    *)
(* some small ones.  Positions count from 1 where the code's count from 0. *)
(***************************************************************************)
EXTENDS Integers, SequencesExt

CONSTANTS
  NULL,
  limit_value,
  MAX_THREADS,
  MaxLength     \* bound: of an input, by task

VARIABLES
  task, input,
  current_index, limit_count, shown, scanning   \* of a query

exVars == <<task, input, current_index, limit_count, shown, scanning>>

Tasks == {"query", "expression", "brackets", "words", "heap", "tree", "array"}

Short(S) == UNION {[1 .. n -> S] : n \in 0 .. MaxLength[task]}
-----------------------------------------------------------------------------
(* Expression trees *)

Number(v) == [op |-> "num", val |-> v]
Tree(op, l, r) == [op |-> op, left |-> l, right |-> r]

Arithmetic == {"+", "-", "*", "/"}
Operator == Arithmetic \cup {">", "<", "=", ">=", "<=", "!=", "AND", "OR"}

Leaves == {Number(0), Number(2)}
Small(ops) == Leaves \cup {Tree(op, l, r) : op \in ops, l \in Leaves, r \in Leaves}
Expressions == {Tree(op, l, r) : op \in Operator, l \in Small(Operator), r \in Small({"-", "*"})}

\* The division of C.
quotient(a, b) ==
  LET abs(x) == IF x < 0 THEN -x ELSE x
      q == abs(a) \div abs(b)
  IN  IF (a < 0) # (b < 0) THEN -q ELSE q

\* The operators of evaluation_ast.c ("ast"), mini_sql_expre_evaluator.c
\* ("sql") and deleteMe.c ("double").
Knows(program) ==
  CASE program = "ast" -> Arithmetic
    [] program = "sql" -> Operator
    [] program = "double" -> {"+", "-", "*", ">", "<", "=", "AND", "OR"}

Compares(op, l, r) ==
  CASE op = ">" -> l > r [] op = "<" -> l < r [] op = "=" -> l = r
    [] op = ">=" -> l >= r [] op = "<=" -> l <= r [] op = "!=" -> l # r
    [] op = "AND" -> l # 0 /\ r # 0 [] op = "OR" -> l # 0 \/ r # 0

\* An operator that the program does not know gives 0.
Result(program, op, l, r) ==
  CASE op \notin Knows(program) -> 0
    [] op = "+" -> l + r
    [] op = "-" -> l - r
    [] op = "*" -> IF program = "sql" THEN r ELSE l * r
    [] op = "/" -> IF r = 0 THEN 0 ELSE quotient(l, r)
    [] OTHER -> IF Compares(op, l, r) THEN 1 ELSE 0

RECURSIVE evaluation(_, _)
evaluation(program, n) ==
  IF n.op = "num" THEN n.val
  ELSE Result(program, n.op, evaluation(program, n.left), evaluation(program, n.right))

RECURSIVE preOrder(_)
preOrder(n) == IF n.op = "num" THEN <<n>> ELSE <<[op |-> n.op]>> \o preOrder(n.left) \o preOrder(n.right)

RECURSIVE postOrder(_)
postOrder(n) == IF n.op = "num" THEN <<n>> ELSE postOrder(n.left) \o postOrder(n.right) \o <<[op |-> n.op]>>

Operators(n) == {token.op : token \in ToSet(postOrder(n))} \ {"num"}
-----------------------------------------------------------------------------
(* Brackets and words *)

Opening == {"(", "{", "["}
Closing == {")", "}", "]"}

Partners == {<<"(", ")">>, <<"{", "}">>, <<"[", "]">>}

\* The program of 24-11-2025 takes any partner for a square bracket.
isMatching(program, open, close) ==
  \/ <<open, close>> \in Partners
  \/ program = "24" /\ (open = "[" \/ close = "]")

\* What is on the stack in the end, or Invalid.
Invalid == <<NULL>>

isValid(program, str) ==
  LET read(stack, ch) ==
        IF stack = Invalid THEN Invalid
        ELSE IF ch \in Opening THEN Append(stack, ch)
        ELSE IF ch \notin Closing THEN stack
        ELSE IF stack # << >> /\ isMatching(program, Last(stack), ch) THEN Front(stack)
        ELSE Invalid
  IN  FoldLeft(read, << >>, str) = << >>

is_delim(c) == c = " "

\* main moves the start of a part behind the word it falls into.
RECURSIVE Adjusted(_, _)
Adjusted(text, start) ==
  IF start < Len(text) /\ ~is_delim(text[start + 1]) THEN Adjusted(text, start + 1) ELSE start

Boundary(text, i) == i * (Len(text) \div MAX_THREADS)

\* Variant of tdata: the start is not moved.
tdata_unmoved(text, i) ==
  [start |-> Boundary(text, i), end |-> IF i = MAX_THREADS - 1 THEN Len(text) ELSE Boundary(text, i + 1)]

tdata(text, i) ==
  [start |-> IF i > 0 THEN Adjusted(text, Boundary(text, i)) ELSE 0,
   end |-> IF i = MAX_THREADS - 1 THEN Len(text) ELSE Boundary(text, i + 1)]

count_words(text, part) ==
  LET scan(acc, c) ==
        IF ~is_delim(c) THEN [acc EXCEPT !.in_word = TRUE]
        ELSE [count |-> IF acc.in_word THEN acc.count + 1 ELSE acc.count, in_word |-> FALSE]
      end == FoldLeft(scan, [count |-> 0, in_word |-> FALSE], SubSeq(text, part.start + 1, part.end))
  IN  IF end.in_word THEN end.count + 1 ELSE end.count

total_words(text) ==
  FoldLeft(LAMBDA sum, i : sum + count_words(text, tdata(text, i - 1)), 0, [i \in 1 .. MAX_THREADS |-> i])
-----------------------------------------------------------------------------
(* Arrays *)

swap(s, a, b) == [s EXCEPT ![a] = s[b], ![b] = s[a]]

RECURSIVE heapifyUp(_, _)
heapifyUp(heap, i) ==
  IF i > 1 /\ heap[i \div 2].value < heap[i].value THEN heapifyUp(swap(heap, i \div 2, i), i \div 2)
  ELSE heap

RECURSIVE heapifyDown(_, _)
heapifyDown(heap, i) ==
  LET above(j, than) == j <= Len(heap) /\ heap[j].value > heap[than].value
      left == IF above(2 * i, i) THEN 2 * i ELSE i
      largest == IF above(2 * i + 1, left) THEN 2 * i + 1 ELSE left
  IN  IF largest = i THEN heap ELSE heapifyDown(swap(heap, i, largest), largest)

push(heap, index, value) == heapifyUp(Append(heap, [value |-> value, index |-> index]), Len(heap) + 1)

\* Variant of pop: the last element is not sifted down.
pop_unsifted(heap) == Front(swap(heap, 1, Len(heap)))

pop(heap) == heapifyDown(Front(swap(heap, 1, Len(heap))), 1)

\* The heap after index i, without the elements on top that have left the
\* window.
RECURSIVE in_window(_, _)
in_window(heap, from) == IF Head(heap).index < from THEN in_window(pop(heap), from) ELSE heap

maximumSlidingWindow(nums, k) ==
  LET turn(acc, i) ==
        LET heap == in_window(push(acc.heap, i, nums[i]), i - k + 1)
        IN  [heap |-> heap, out |-> IF i >= k THEN Append(acc.out, Head(heap).value) ELSE acc.out]
  IN  FoldLeft(turn, [heap |-> << >>, out |-> << >>], [i \in DOMAIN nums |-> i]).out

\* sliding-window-brute-force.c.
brute_force(nums, k) ==
  LET above(start) == FoldLeft(LAMBDA max, j : IF nums[j] > max THEN nums[j] ELSE max,
                               nums[start], [j \in 1 .. k - 1 |-> start + j])
  IN  [start \in 1 .. Len(nums) - k + 1 |-> above(start)]

selection_sort(arr) ==
  LET smallest(s, i) == CHOOSE j \in i .. Len(s) :
                          \A m \in i .. Len(s) : s[j] < s[m] \/ (s[j] = s[m] /\ j <= m)
  IN  FoldLeft(LAMBDA s, i : swap(s, i, smallest(s, i)), arr, [i \in 1 .. Len(arr) - 1 |-> i])

\* A pass starts at the place of its number, not at the first one.
bubble_sort(arr) ==
  LET compare(s, j) == IF s[j] > s[j + 1] THEN swap(s, j, j + 1) ELSE s
      pass(s, i) == FoldLeft(compare, s, [m \in 1 .. Len(s) - 2 * i + 1 |-> i + m - 1])
  IN  FoldLeft(pass, arr, [i \in 1 .. Len(arr) - 1 |-> i])

repeatMissing(arr) ==
  LET n == Len(arr)
      val1 == FoldLeft(+, 0, arr) - (n * (n + 1)) \div 2
      val2 == FoldLeft(+, 0, [i \in 1 .. n |-> arr[i] * arr[i]]) - (n * (n + 1) * (2 * n + 1)) \div 6
      R == quotient(val1 + quotient(val2, val1), 2)
  IN  <<R, R - val1>>
-----------------------------------------------------------------------------
(* Binary trees, node by node: left and right of a node, 0 for none *)

RECURSIVE Place(_, _, _)
Place(t, queue, node) ==
  LET temp == Head(queue)
  IN  IF t.left[temp] = 0 THEN [t EXCEPT !.left[temp] = node]
      ELSE IF t.right[temp] = 0 THEN [t EXCEPT !.right[temp] = node]
      ELSE Place(t, Tail(queue) \o <<t.left[temp], t.right[temp]>>, node)

insertNode(t) ==
  LET node == Len(t.left) + 1
      grown == [left |-> Append(t.left, 0), right |-> Append(t.right, 0)]
  IN  IF node = 1 THEN grown ELSE Place(grown, <<1>>, node)

RECURSIVE insertLevelOrder(_, _)
insertLevelOrder(index, n) ==
  IF index >= n THEN NULL
  ELSE [data |-> index + 1, left |-> insertLevelOrder(2 * index + 1, n), right |-> insertLevelOrder(2 * index + 2, n)]

RECURSIVE findDepth(_)
findDepth(root) == IF root = NULL THEN 0 ELSE 1 + Max({findDepth(root.left), findDepth(root.right)})

RECURSIVE inorder(_)
inorder(root) == IF root = NULL THEN << >> ELSE inorder(root.left) \o <<root.data>> \o inorder(root.right)

RECURSIVE preorder(_)
preorder(root) == IF root = NULL THEN << >> ELSE <<root.data>> \o preorder(root.left) \o preorder(root.right)

RECURSIVE postorder(_)
postorder(root) == IF root = NULL THEN << >> ELSE postorder(root.left) \o postorder(root.right) \o <<root.data>>
-----------------------------------------------------------------------------
(* Queries: SELECT name, age WHERE age > 18, with LIMIT in one program *)

ExInit ==
  /\ task \in Tasks
  /\ current_index = 0 /\ limit_count = 0 /\ shown = << >> /\ scanning = (task = "query")
  /\ CASE task = "query" -> input \in [limited : BOOLEAN, table : Short({17, 18, 19})]
       [] task = "expression" -> input \in Expressions
       [] task = "brackets" -> input \in Short(Opening \cup Closing \cup {"a"})
       [] task = "words" -> input \in Short({"a", " "}) \ {<< >>}
       [] task = "heap" -> input \in [nums : Short(-1 .. 1), k : 1 .. 3]
       [] task = "tree" -> input \in 0 .. MaxLength[task]
       [] task = "array" -> input \in Short(1 .. MaxLength[task])

LimitReached == input.limited /\ limit_count >= limit_value

\* Variant of filter_next: it lets age 18 through.
filter_next_from_18(row) == row >= 18

filter_next(row) == row > 18

\* One row read by filter_next, and shown when it passes.
table_scan_next ==
  /\ scanning /\ ~LimitReached /\ current_index < Len(input.table)
  /\ current_index' = current_index + 1
  /\ IF filter_next(input.table[current_index'])
     THEN /\ shown' = Append(shown, current_index')
          /\ limit_count' = IF input.limited THEN limit_count + 1 ELSE limit_count
     ELSE UNCHANGED <<shown, limit_count>>
  /\ UNCHANGED <<task, input, scanning>>

projection_end ==
  /\ scanning /\ (LimitReached \/ current_index >= Len(input.table))
  /\ scanning' = FALSE
  /\ UNCHANGED <<task, input, current_index, limit_count, shown>>

ExNext == table_scan_next \/ projection_end
-----------------------------------------------------------------------------
TypeOK ==
  /\ task \in Tasks /\ scanning \in BOOLEAN
  /\ current_index \in Nat /\ limit_count \in Nat /\ shown \in Seq(Nat)

\* A query shows the rows of age above 18 in the order of the table, all of
\* them or as many as LIMIT allows, and once LIMIT is reached no further row
\* is read from the table (table_scan_next, filter_next, limit_next).
RowsAnswered ==
  task = "query" =>
    LET passing == SelectSeq([i \in DOMAIN input.table |-> i], LAMBDA i : input.table[i] > 18)
        wanted == IF input.limited THEN SubSeq(passing, 1, Min({limit_value, Len(passing)})) ELSE passing
    IN  /\ IsPrefix(shown, wanted)
        /\ ~scanning => shown = wanted
        /\ LimitReached => current_index = Last(shown)

\* What an operator means.
Meaning(op, l, r) ==
  CASE op = "+" -> l + r [] op = "-" -> l - r [] op = "*" -> l * r
    [] op = "/" -> IF r = 0 THEN 0 ELSE quotient(l, r)
    [] OTHER -> IF Compares(op, l, r) THEN 1 ELSE 0

\* The value a stack machine finds reading the tree's postOrder, or its
\* preOrder from right to left.
StackValue(tokens, backwards) ==
  LET step(stack, token) ==
        IF token.op = "num" THEN <<token.val>> \o stack
        ELSE <<IF backwards THEN Meaning(token.op, stack[1], stack[2]) ELSE Meaning(token.op, stack[2], stack[1])>>
             \o SubSeq(stack, 3, Len(stack))
  IN  Head(FoldLeft(step, << >>, tokens))

\* Each evaluator, on a tree of operators that it knows, finds what a stack
\* machine finds in either traversal; mini_sql_expre_evaluator.c does so for
\* trees without "*", whose value it takes to be its right operand.
ExpressionsAgree ==
  task = "expression" =>
    \A program \in {"ast", "sql", "double"} :
      Operators(input) \subseteq Knows(program) \ (IF program = "sql" THEN {"*"} ELSE {}) =>
        /\ evaluation(program, input) = StackValue(postOrder(input), FALSE)
        /\ evaluation(program, input) = StackValue(Reverse(preOrder(input)), TRUE)

\* str without its adjacent partners, taken out until none are left.
RECURSIVE Reduced(_)
Reduced(str) ==
  LET at == {i \in 1 .. Len(str) - 1 : <<str[i], str[i + 1]>> \in Partners}
  IN  IF at = {} THEN str ELSE Reduced(RemoveAt(RemoveAt(str, Min(at)), Min(at)))

\* isValid accepts the strings whose brackets cancel out in pairs; that of
\* 24-11-2025 accepts these and, with square brackets in them, others.
BracketsAgree ==
  task = "brackets" =>
    LET balanced == Reduced(SelectSeq(input, LAMBDA c : c # "a")) = << >>
    IN  /\ isValid("26", input) <=> balanced
        /\ balanced => isValid("24", input)
        /\ isValid("24", input) => (balanced \/ \E c \in {"[", "]"} : Contains(input, c))

\* The threads count every word once, however many parts it reaches into,
\* but for a word that begins where a part other than the first begins:
\* main moves that part's start behind it and the part before ends there.
WordsCounted ==
  task = "words" =>
    total_words(input) =
      Cardinality({p \in DOMAIN input :
        /\ ~is_delim(input[p])
        /\ p = 1 \/ is_delim(input[p - 1])
        /\ \A i \in 1 .. MAX_THREADS - 1 : p - 1 # Boundary(input, i)})

\* The heap, which keeps elements that have left the window until they come
\* to its top, and the brute force give the maximum of each window.
HeapMaxima ==
  task = "heap" =>
    LET maxima == [i \in 1 .. Len(input.nums) - input.k + 1 |-> Max({input.nums[j] : j \in i .. i + input.k - 1})]
    IN  /\ maximumSlidingWindow(input.nums, input.k) = maxima
        /\ brute_force(input.nums, input.k) = maxima

\* The tree under a node, as insertLevelOrder builds one.
RECURSIVE Under(_, _)
Under(t, node) ==
  IF node = 0 THEN NULL ELSE [data |-> node, left |-> Under(t, t.left[node]), right |-> Under(t, t.right[node])]

\* The tree that two of its traversals determine.
RECURSIVE Rebuilt(_, _)
Rebuilt(pre, in) ==
  IF pre = << >> THEN NULL
  ELSE LET at == CHOOSE i \in DOMAIN in : in[i] = Head(pre)
       IN  [data |-> Head(pre),
            left |-> Rebuilt(SubSeq(pre, 2, at), SubSeq(in, 1, at - 1)),
            right |-> Rebuilt(SubSeq(pre, at + 1, Len(pre)), SubSeq(in, at + 1, Len(in)))]

RECURSIVE Mirrored(_)
Mirrored(t) ==
  IF t = NULL THEN NULL ELSE [data |-> t.data, left |-> Mirrored(t.right), right |-> Mirrored(t.left)]

\* Inserting values one at a time behind a queue of nodes (insertNode) gives
\* the tree that insertLevelOrder builds from the array of them; findDepth is
\* its number of levels; its traversals determine it.
TreesAgree ==
  task = "tree" =>
    LET t == FoldLeft(LAMBDA acc, i : insertNode(acc), [left |-> << >>, right |-> << >>], [i \in 1 .. input |-> i])
        root == insertLevelOrder(0, input)
        d == findDepth(root)
    IN  /\ Under(t, Min({1, input})) = root
        /\ input < 2 ^ d /\ (d > 0 => 2 ^ (d - 1) <= input)
        /\ Rebuilt(preorder(root), inorder(root)) = root
        /\ Mirrored(Rebuilt(Reverse(postorder(root)), Reverse(inorder(root)))) = root

\* selection_sort.c sorts every array, bubble_sort.c only brings the largest
\* element to the end and loses none; repeat_missing.c, on an array with one
\* of 1 .. n twice and another not at all, names the two.
ArraysAgree ==
  task = "array" =>
    LET count(s, v) == Cardinality({i \in DOMAIN s : s[i] = v})
        once == {v \in 1 .. Len(input) : count(input, v) = 1}
        twice == {v \in 1 .. Len(input) : count(input, v) = 2}
    IN  /\ selection_sort(input) = SortSeq(input, <)
        /\ SortSeq(bubble_sort(input), <) = SortSeq(input, <)
        /\ input # << >> => Last(bubble_sort(input)) = Max(ToSet(input))
        /\ Cardinality(twice) = 1 /\ Cardinality(once) = Len(input) - 2 =>
             \E v \in twice, m \in (1 .. Len(input)) \ (once \cup twice) : repeatMissing(input) = <<v, m>>
=============================================================================
