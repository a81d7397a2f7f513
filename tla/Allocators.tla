------------------------------ MODULE Allocators ----------------------------
(***************************************************************************)
(* Memory handed out from a fixed block: leetcode-memory-allocator.c       *)
(* ("ids"), simple-memory-pool.c ("first fit"), memory-pool.c ("arena")    *)
(* and slab-allocator.c ("slab").                                          *)
(*                                                                         *)
(* Memory is Units units long, in each slab too; the header of a block in  *)
(* simple-memory-pool.c takes Header of them.  A free list is the sequence *)
(* of its elements.  A caller frees only what it was given, once.          *)
(***************************************************************************)
EXTENDS Integers, SequencesExt

CONSTANTS Units, Header, Unit, Owner, MaxSlabs, NULL

VARIABLES allocator, area,
  given   \* auxiliary: what is in use, as <<slab, address, length, owner>>

alvars == <<allocator, area, given>>

Address == 0 .. Units - 1

Init ==
  /\ allocator \in {"ids", "first fit", "arena", "slab"}
  /\ given = {}
  /\ area = CASE allocator = "ids" -> [memory |-> [a \in Address |-> 0], positions |-> [o \in Owner |-> << >>]]
              [] allocator = "first fit" -> [free_list |-> <<0>>, size |-> (0 :> (Units - Header))]
              [] allocator = "arena" -> [used |-> 0]
              [] allocator = "slab" -> << >>
-----------------------------------------------------------------------------
\* The first run of size free units; an owner may allocate several times.
allocatorAllocate(size, mID) ==
  LET fits == {a \in Address : a + size <= Units /\ \A i \in 0 .. size - 1 : area.memory[a + i] = 0}
      start == Min(fits)
      run == [i \in 1 .. size |-> start + i - 1]
  IN  IF fits = {} THEN UNCHANGED <<area, given>>
      ELSE /\ area' = [memory |-> [a \in Address |-> IF a \in ToSet(run) THEN mID ELSE area.memory[a]],
                       positions |-> [area.positions EXCEPT ![mID] = @ \o run]]
           /\ given' = given \cup {<<1, start, size, mID>>}

allocatorFreeMemory(mID) ==
  /\ area' = [memory |-> [a \in Address |-> IF a \in ToSet(area.positions[mID]) THEN 0 ELSE area.memory[a]],
              positions |-> [area.positions EXCEPT ![mID] = << >>]]
  /\ given' = {g \in given : g[4] # mID}
-----------------------------------------------------------------------------
\* Variant of pool_allocate: the header of the rest is not paid for.
pool_allocate_tight(size) ==
  LET fits == {i \in DOMAIN area.free_list : area.size[area.free_list[i]] >= size}
      i == Min(fits)
      current == area.free_list[i]
      rest == current + Header + size
  IN  IF fits = {} THEN UNCHANGED <<area, given>>
      ELSE /\ area' = IF area.size[current] >= size + Header + 1
                        THEN [free_list |-> [area.free_list EXCEPT ![i] = rest],
                              size |-> (rest :> (area.size[current] - size)) @@
                                       [area.size EXCEPT ![current] = size]]
                        ELSE [area EXCEPT !.free_list = RemoveAt(@, i)]
           /\ given' = given \cup {<<1, current, size, NULL>>}

\* First fit; the rest of the block takes its place in the list if it is
\* longer than a header.
pool_allocate(size) ==
  LET fits == {i \in DOMAIN area.free_list : area.size[area.free_list[i]] >= size}
      i == Min(fits)
      current == area.free_list[i]
      rest == current + Header + size
  IN  IF fits = {} THEN UNCHANGED <<area, given>>
      ELSE /\ area' = IF area.size[current] >= size + Header + 1
                        THEN [free_list |-> [area.free_list EXCEPT ![i] = rest],
                              size |-> (rest :> (area.size[current] - size - Header)) @@
                                       [area.size EXCEPT ![current] = size]]
                        ELSE [area EXCEPT !.free_list = RemoveAt(@, i)]
           /\ given' = given \cup {<<1, current, size, NULL>>}

\* To the head of the list, as it is: neighbours are not joined.
pool_free(g) == area' = [area EXCEPT !.free_list = <<g[2]>> \o @] /\ given' = given \ {g}
-----------------------------------------------------------------------------
pool_alloc ==
  IF area.used + Unit > Units THEN UNCHANGED <<area, given>>
  ELSE area' = [area EXCEPT !.used = @ + Unit] /\ given' = given \cup {<<1, area.used, Unit, NULL>>}

pool_reset == area' = [area EXCEPT !.used = 0] /\ given' = {}
-----------------------------------------------------------------------------
PerSlab == Units \div Unit

\* Objects are linked in from the first on, so the last is at the head.
slab_create == [memory |-> Len(area) + 1, free_list |-> [i \in 1 .. PerSlab |-> (PerSlab - i) * Unit], free_objects |-> PerSlab]

\* The first slab with a free object, or a new one in front.
slab_alloc ==
  LET some == {s \in DOMAIN area : area[s].free_objects # 0}
      slabs == IF some = {} THEN <<slab_create>> \o area ELSE area
      s == IF some = {} THEN 1 ELSE Min(some)
  IN  /\ Len(slabs) <= MaxSlabs
      /\ area' = [slabs EXCEPT ![s].free_list = Tail(@), ![s].free_objects = @ - 1]
      /\ given' = given \cup {<<slabs[s].memory, Head(slabs[s].free_list), Unit, NULL>>}

\* The slab is the one whose memory the address lies in.
slab_free(g) ==
  LET s == CHOOSE i \in DOMAIN area : area[i].memory = g[1]
  IN  /\ area' = [area EXCEPT ![s].free_list = <<g[2]>> \o @, ![s].free_objects = @ + 1]
      /\ given' = given \ {g}
-----------------------------------------------------------------------------
Next ==
  /\ UNCHANGED allocator
  /\ \/ allocator = "ids" /\ \E o \in Owner : allocatorFreeMemory(o) \/ \E n \in 1 .. Units : allocatorAllocate(n, o)
     \/ allocator = "first fit" /\ ((\E n \in 1 .. Units : pool_allocate(n)) \/ \E g \in given : pool_free(g))
     \/ allocator = "arena" /\ (pool_alloc \/ pool_reset)
     \/ allocator = "slab" /\ (slab_alloc \/ \E g \in given : slab_free(g))

Spec == Init /\ [][Next]_alvars
-----------------------------------------------------------------------------
TypeOK ==
  /\ allocator \in {"ids", "first fit", "arena", "slab"}
  /\ \A g \in given : g[1] \in 1 .. MaxSlabs /\ g[2] \in Address /\ g[3] \in 1 .. Units

Extent(at, n) == at .. at + n - 1

\* Each unit of the pool is in one of its blocks, given out or free.
Tiled ==
  LET blocks == {g[2] : g \in given} \cup ToSet(area.free_list)
  IN  /\ IsInjective(area.free_list)
      /\ \A a \in Address : Cardinality({b \in blocks : a \in Extent(b, Header + area.size[b])}) = 1

\* Nothing is given out twice: what is in use lies inside the memory and does
\* not overlap.  What is not in use can be given out again: every unit of
\* leetcode-memory-allocator.c belongs to whom it was given or is 0, the
\* blocks of simple-memory-pool.c fill the pool, and the free lists of the
\* slabs hold the objects not in use, each once, as free_objects says.
BlocksDisjoint ==
  /\ \A g \in given : g[2] + g[3] <= Units
  /\ \A g, h \in given : g # h /\ g[1] = h[1] => Extent(g[2], g[3]) \cap Extent(h[2], h[3]) = {}
  /\ allocator = "ids" =>
       \A a \in Address : area.memory[a] = IF \E g \in given : a \in Extent(g[2], g[3])
                                             THEN (CHOOSE g \in given : a \in Extent(g[2], g[3]))[4] ELSE 0
  /\ allocator = "first fit" =>
       Tiled /\ \A g \in given : g[3] <= area.size[g[2]] /\ g[2] \notin ToSet(area.free_list)
  /\ allocator = "slab" =>
       \A s \in DOMAIN area :
         LET used == {g[2] : g \in {h \in given : h[1] = area[s].memory}}
         IN  /\ ToSet(area[s].free_list) = {i * Unit : i \in 0 .. PerSlab - 1} \ used
             /\ Len(area[s].free_list) = area[s].free_objects /\ IsInjective(area[s].free_list)
=============================================================================
