---------------------------- MODULE BufferProofs ----------------------------
(***************************************************************************)
(* The programs that wait at queues, for every capacity and any number of  *)
(* threads and requests: the circular buffer is a first-in first-out       *)
(* queue, the threads of pthread_db.c signal often enough and process      *)
(* every request once, and the consumers of the two other programs leave   *)
(* last.                                                                   *)
(***************************************************************************)
EXTENDS RequestQueue, FiniteSetTheorems, TLAPS

\* Going round the ring once.
LEMMA Wrap ==
  ASSUME NEW n \in 0 .. 2 * Size - 1
  PROVE  n % Size = IF n < Size THEN n ELSE n - Size
<1>1. CASE n < Size
  BY <1>1, SizeAssumption
<1>2. CASE n >= Size
  BY <1>2, SizeAssumption
<1> QED
  BY <1>1, <1>2, SizeAssumption

\* Two positions less than Size apart are different slots.
LEMMA Distinct ==
  ASSUME NEW o \in 0 .. Size - 1, NEW n \in 0 .. Size - 1, NEW i \in 0 .. n - 1
  PROVE  Slot(o + i) # Slot(o + n)
<1>1. Slot(o + i) = IF o + i < Size THEN o + i ELSE o + i - Size
  BY Wrap, SizeAssumption DEF Slot
<1>2. Slot(o + n) = IF o + n < Size THEN o + n ELSE o + n - Size
  BY Wrap, SizeAssumption DEF Slot
<1> QED
  BY <1>1, <1>2, SizeAssumption

\* The position one further on.
LEMMA Slots ==
  ASSUME NEW o \in 0 .. Size - 1, NEW n \in 0 .. Size
  PROVE  /\ Slot(o) = o
         /\ Slot(o + n) \in 0 .. Size - 1
         /\ Slot(Slot(o + n) + 1) = Slot(o + n + 1)
         /\ Slot(Slot(o + 1) + n) = Slot(o + n + 1)
<1> USE SizeAssumption
<1>1. Slot(o + n) = IF o + n < Size THEN o + n ELSE o + n - Size
  BY Wrap DEF Slot
<1>2. Slot(o + 1) = IF o + 1 < Size THEN o + 1 ELSE 0
  BY Wrap DEF Slot
<1>3. Slot(o + n + 1) = IF o + n + 1 < Size THEN o + n + 1
                        ELSE IF o + n + 1 = 2 * Size THEN 0 ELSE o + n + 1 - Size
  <2>1. CASE o + n + 1 < 2 * Size
    BY <2>1, Wrap DEF Slot
  <2>2. CASE o + n + 1 = 2 * Size
    BY <2>2 DEF Slot
  <2> QED
    BY <2>1, <2>2
<1>4. Slot(Slot(o + n) + 1) = Slot(o + n + 1)
  <2>1. Slot(o + n) + 1 \in 0 .. 2 * Size - 1
    BY <1>1
  <2>2. Slot(Slot(o + n) + 1) = IF Slot(o + n) + 1 < Size THEN Slot(o + n) + 1
                                ELSE Slot(o + n) + 1 - Size
    BY <2>1, Wrap DEF Slot
  <2> QED
    BY <2>2, <1>1, <1>3
<1>5. Slot(Slot(o + 1) + n) = Slot(o + n + 1)
  <2>1. Slot(o + 1) + n \in 0 .. 2 * Size - 1
    BY <1>2
  <2>2. Slot(Slot(o + 1) + n) = IF Slot(o + 1) + n < Size THEN Slot(o + 1) + n
                                ELSE Slot(o + 1) + n - Size
    BY <2>1, Wrap DEF Slot
  <2> QED
    BY <2>2, <1>2, <1>3
<1>6. Slot(o) = o
  BY Wrap DEF Slot
<1> QED
  BY <1>1, <1>4, <1>5, <1>6

LEMMA PutStep ==
  ASSUME NEW I, BufferTypeOK(I), Contents, NEW t, NEW item \in I, Put(t, item)
  PROVE  BufferTypeOK(I)' /\ Contents' /\ Fifo!Put
<1>0. /\ count \in 0 .. Size /\ count < Size
      /\ \A i \in 0 .. count - 1 : Slot(out + i) # Slot(out + count)
  <2>1. count \in 0 .. Size /\ count # Size /\ out \in 0 .. Size - 1
    BY DEF BufferTypeOK, Put
  <2>2. count \in 0 .. Size - 1
    BY <2>1, SizeAssumption
  <2>3. \A i \in 0 .. count - 1 : Slot(out + i) # Slot(out + count)
    BY <2>1, <2>2, Distinct
  <2> QED
    BY <2>2, <2>3, SizeAssumption
<1> USE SizeAssumption DEF BufferTypeOK, Contents, Put
<1>1. /\ Slot(in + 1) = Slot(out + count + 1)
      /\ Slot(in + 1) \in 0 .. Size - 1
      /\ \A i \in 0 .. count - 1 : Slot(out + i) # in
  <2>1. Slot(in + 1) \in 0 .. Size - 1
    BY Slots
  <2>2. Slot(Slot(out + count) + 1) = Slot(out + count + 1)
    BY Slots
  <2>3. \A i \in 0 .. count - 1 : Slot(out + i) # Slot(out + count)
    BY <1>0
  <2> QED
    BY <2>1, <2>2, <2>3
<1>2. /\ Len(sent') = Len(sent) + 1
      /\ sent'[Len(sent) + 1] = item
      /\ \A i \in 1 .. Len(sent) : sent'[i] = sent[i]
      /\ sent' \in Seq(I)
  OBVIOUS
<1>3. BufferTypeOK(I)'
  <2>1. buffer' \in [0 .. Size - 1 -> I \cup {0}]
    OBVIOUS
  <2>2. count' \in 0 .. Size
    OBVIOUS
  <2> QED
    BY <2>1, <2>2, <1>1, <1>2
<1>4. count' = Len(sent') - Len(received')
  BY <1>2
<1>5. in' = Slot(out' + count')
  BY <1>1
<1>6. ASSUME NEW i \in 0 .. count' - 1
      PROVE  buffer'[Slot(out' + i)] = sent'[Len(received') + i + 1]
  <2>1. CASE i = count
    BY <2>1, <1>1, <1>2
  <2>2. CASE i \in 0 .. count - 1
    <3>1. Slot(out + i) # in
      BY <2>2, <1>1
    <3>4. i \in 0 .. Size
      BY <2>2
    <3>5. Slot(out + i) \in 0 .. Size - 1
      BY <3>4, Slots
    <3>2. buffer'[Slot(out + i)] = sent[Len(received) + i + 1]
      BY <2>2, <3>1, <3>5
    <3>3. Len(received) + i + 1 \in 1 .. Len(sent)
      BY <2>2
    <3> QED
      BY <3>2, <3>3, <1>2
  <2> QED
    BY <2>1, <2>2
<1>7. Fifo!Put
  <2>1. Len(sent) - Len(received) < Size
    BY <1>0
  <2> QED
    BY <2>1, <1>2 DEF Fifo!Put
<1> QED
  BY <1>3, <1>4, <1>5, <1>6, <1>7

LEMMA GetStep ==
  ASSUME NEW I, BufferTypeOK(I), Contents, NEW t, Get(t)
  PROVE  BufferTypeOK(I)' /\ Contents' /\ Fifo!Get
<1> USE SizeAssumption DEF BufferTypeOK, Contents, Get
<1>1. Slot(out + 1) \in 0 .. Size - 1
  BY Slots
<1>2. \A i \in 0 .. Size : Slot(Slot(out + 1) + i) = Slot(out + i + 1)
  BY Slots
<1>3. buffer[out] = sent[Len(received) + 1]
  <2>1. Slot(out + 0) = out
    BY Slots
  <2>2. 0 \in 0 .. count - 1
    OBVIOUS
  <2>3. buffer[Slot(out + 0)] = sent[Len(received) + 0 + 1]
    BY <2>2
  <2> QED
    BY <2>1, <2>3
<1>4. buffer[out] \in I
  BY <1>3
<1>5. /\ Len(received') = Len(received) + 1
      /\ received' \in Seq(I)
  BY <1>4
<1>6. BufferTypeOK(I)'
  BY <1>1, <1>5
<1>7. count' = Len(sent') - Len(received')
  BY <1>5
<1>8. in' = Slot(out' + count')
  <2>1. Slot(Slot(out + 1) + (count - 1)) = Slot(out + (count - 1) + 1)
    BY <1>2
  <2>2. out + (count - 1) + 1 = out + count
    OBVIOUS
  <2> QED
    BY <2>1, <2>2
<1>9. ASSUME NEW i \in 0 .. count' - 1
      PROVE  buffer'[Slot(out' + i)] = sent'[Len(received') + i + 1]
  <2>1. Slot(out' + i) = Slot(out + i + 1)
    BY <1>2
  <2>4. i + 1 \in 0 .. count - 1
    OBVIOUS
  <2>2. buffer[Slot(out + (i + 1))] = sent[Len(received) + (i + 1) + 1]
    BY <2>4
  <2>3. out + (i + 1) = out + i + 1 /\ Len(received) + (i + 1) + 1 = Len(received') + i + 1
    BY <1>5
  <2> QED
    BY <2>1, <2>2, <2>3
<1>10. Fifo!Get
  BY <1>3, <1>5 DEF Fifo!Get
<1> QED
  BY <1>6, <1>7, <1>8, <1>9, <1>10

\* Waiting and waking leave the ring alone.
LEMMA RingUnchanged ==
  ASSUME NEW I, BufferTypeOK(I), Contents, UNCHANGED ring
  PROVE  BufferTypeOK(I)' /\ Contents' /\ UNCHANGED <<sent, received>>
BY DEF BufferTypeOK, Contents, ring

LEMMA InitInv == Init => IInv
<1> SUFFICES ASSUME Init PROVE IInv
  OBVIOUS
<1> USE SizeAssumption, RequestAssumption DEF Init, InitBuffer
<1>1. BufferTypeOK(Item)
  BY DEF BufferTypeOK
<1>2. Contents
  <2>1. Slot(0) = 0
    BY Wrap DEF Slot
  <2> QED
    BY <2>1 DEF Contents
<1>3. Cardinality(Worker) \in Nat
  BY FS_CardinalityType
<1>4. TypeOK
  BY <1>1, <1>3 DEF TypeOK, Producer, Item
<1> QED
  BY <1>2, <1>4 DEF IInv, Producer, Shutdown

\* What an enqueue or a dequeue does to the ring, and what other steps do.
RingStep ==
  \/ \E t \in Producer : \E item \in Item : Put(t, item)
  \/ \E w \in Worker : Get(w)
  \/ UNCHANGED ring

LEMMA RingInv ==
  ASSUME BufferTypeOK(Item), Contents, RingStep
  PROVE  /\ BufferTypeOK(Item)'
         /\ Contents'
         /\ Fifo!Put \/ Fifo!Get \/ UNCHANGED <<sent, received>>
BY PutStep, GetStep, RingUnchanged DEF RingStep

LEMMA NextIsRingStep ==
  ASSUME IInv, [Next]_vars
  PROVE  RingStep
<1>1. ASSUME NEW t \in Producer, enqueue(t) PROVE RingStep
  <2>1. id[t] \in Item
    BY <1>1 DEF enqueue, IInv
  <2>2. Put(t, id[t]) \/ AwaitNotFull(t)
    BY <1>1 DEF enqueue
  <2>3. AwaitNotFull(t) => UNCHANGED ring
    BY DEF AwaitNotFull
  <2> QED
    BY <2>1, <2>2, <2>3 DEF RingStep
<1>2. ASSUME NEW w \in Worker, dequeue(w) PROVE RingStep
  BY <1>2 DEF dequeue, AwaitNotEmpty, RingStep
<1>3. Spurious => UNCHANGED ring
  BY DEF Spurious
<1>4. ASSUME NEW c, draw_id(c) PROVE UNCHANGED ring
  BY <1>4 DEF draw_id, bufferVars
<1>5. main_joins_clients \/ main_shuts_down \/ UNCHANGED vars => UNCHANGED ring
  BY DEF main_joins_clients, main_shuts_down, vars, bufferVars
<1> QED
  BY <1>1, <1>2, <1>3, <1>4, <1>5 DEF Next, Step, RingStep

\* The part of the invariant that is not about the ring.
Threads ==
  /\ not_full \subseteq {t \in Producer : pc[t] = "enqueue"}
  /\ not_empty \subseteq {w \in Worker : pc[w] = "dequeue"}
  /\ next_request_id \in Nat \ {0}
  /\ id \in [Producer -> Item \cup {0}]
  /\ left \in [Producer -> Nat]
  /\ pc \in [Producer \cup Worker ->
               {"client", "enqueue", "join", "shutdown", "dequeue", "exited"}]
  /\ \A t \in Producer : pc[t] = "enqueue" => id[t] \in Item /\ left[t] > 0
  /\ id[main] = Shutdown

LEMMA EnqueueStep ==
  ASSUME Threads, NEW t \in Producer, enqueue(t)
  PROVE  Threads'
<1> USE RequestAssumption DEF enqueue, Threads, Goto, Producer
<1>1. CASE AwaitNotFull(t) /\ UNCHANGED <<left, pc>>
  BY <1>1 DEF AwaitNotFull
<1>2. CASE /\ Put(t, id[t])
           /\ left' = [left EXCEPT ![t] = @ - 1]
           /\ Goto(t, IF t = main THEN "shutdown" ELSE "client")
  <2>1. not_empty' \subseteq not_empty /\ not_full' = not_full /\ t \notin not_full
    BY <1>2 DEF Put, Signalled
  <2>2. left' \in [Producer -> Nat]
    BY <1>2
  <2>3. not_full' \subseteq {u \in Producer : pc'[u] = "enqueue"}
    BY <1>2, <2>1
  <2>4. not_empty' \subseteq {w \in Worker : pc'[w] = "dequeue"}
    BY <1>2, <2>1
  <2> QED
    BY <1>2, <2>2, <2>3, <2>4
<1> QED
  BY <1>1, <1>2

LEMMA DequeueStep ==
  ASSUME Threads, NEW w \in Worker, dequeue(w)
  PROVE  Threads'
<1> USE RequestAssumption DEF dequeue, Threads, Goto, Producer
<1>1. CASE AwaitNotEmpty(w) /\ UNCHANGED pc
  BY <1>1 DEF AwaitNotEmpty
<1>2. CASE Get(w) /\ Goto(w, IF buffer[out] = Shutdown THEN "exited" ELSE "dequeue")
  <2>1. not_full' \subseteq not_full /\ not_empty' = not_empty /\ w \notin not_empty
    BY <1>2 DEF Get, Signalled
  <2>2. not_full' \subseteq {u \in Producer : pc'[u] = "enqueue"}
    BY <1>2, <2>1
  <2>3. not_empty' \subseteq {u \in Worker : pc'[u] = "dequeue"}
    BY <1>2, <2>1
  <2> QED
    BY <1>2, <2>2, <2>3
<1> QED
  BY <1>1, <1>2

LEMMA ThreadsStep ==
  ASSUME Threads, [Next]_vars
  PROVE  Threads'
<1>1. ASSUME NEW c \in Client, draw_id(c) PROVE Threads'
  BY <1>1, RequestAssumption DEF draw_id, bufferVars, Threads, Goto, Producer, Item
<1>2. CASE main_joins_clients
  BY <1>2, RequestAssumption DEF main_joins_clients, bufferVars, Threads, Goto, Producer
<1>3. CASE main_shuts_down
  BY <1>3, RequestAssumption DEF main_shuts_down, bufferVars, Threads, Goto, Producer, Item
<1>4. CASE Spurious /\ UNCHANGED <<next_request_id, id, left, pc>>
  BY <1>4 DEF Spurious, Threads
<1>5. CASE UNCHANGED vars
  BY <1>5 DEF vars, bufferVars, Threads
<1> QED
  BY <1>1, <1>2, <1>3, <1>4, <1>5, EnqueueStep, DequeueStep DEF Next, Step

LEMMA IInvParts == IInv <=> BufferTypeOK(Item) /\ Contents /\ Threads
BY DEF IInv, TypeOK, Threads

LEMMA IInvStep ==
  ASSUME IInv, [Next]_vars
  PROVE  IInv' /\ (Fifo!Put \/ Fifo!Get \/ UNCHANGED <<sent, received>>)
<1>1. BufferTypeOK(Item) /\ Contents /\ Threads
  BY IInvParts
<1>2. /\ BufferTypeOK(Item)' /\ Contents'
      /\ Fifo!Put \/ Fifo!Get \/ UNCHANGED <<sent, received>>
  BY <1>1, NextIsRingStep, RingInv
<1>3. Threads'
  BY <1>1, ThreadsStep
<1> QED
  BY <1>2, <1>3 DEF IInv, TypeOK, Threads

\* The inductive invariant: the types, the contents of the ring and the
\* discipline of the producers, at all times.
THEOREM Invariance == Spec => []IInv
BY InitInv, IInvStep, PTL DEF Spec

\* enqueue and dequeue of pthread_db.c deliver in the order of arrival, each
\* request once, and hold at most Size requests.
THEOREM QueueIsFifo == Spec => ImplementsFifo
<1>1. Init => Fifo!Init
  BY DEF Init, InitBuffer, Fifo!Init
<1>2. IInv /\ [Next]_vars => [Fifo!Next]_<<sent, received>>
  BY IInvStep DEF Fifo!Next
<1> QED
  BY <1>1, <1>2, Invariance, PTL DEF Spec, ImplementsFifo, Fifo!Spec
-----------------------------------------------------------------------------
(* Nobody is stranded. *)

LEMMA AddOne ==
  ASSUME NEW S, IsFiniteSet(S), NEW x, x \notin S
  PROVE  /\ IsFiniteSet(S \cup {x})
         /\ Cardinality(S) \in Nat
         /\ Cardinality(S \cup {x}) = Cardinality(S) + 1
BY FS_AddElement, FS_CardinalityType

LEMMA DropOne ==
  ASSUME NEW S, IsFiniteSet(S), NEW x
  PROVE  /\ Cardinality(S) \in Nat /\ Cardinality(S \ {x}) \in Nat
         /\ Cardinality(S \ {x}) >= Cardinality(S) - 1
<1>1. /\ IsFiniteSet(S \ {x})
      /\ Cardinality(S \ {x}) = IF x \in S THEN Cardinality(S) - 1 ELSE Cardinality(S)
  BY FS_RemoveElement
<1>2. Cardinality(S) \in Nat /\ Cardinality(S \ {x}) \in Nat
  BY <1>1, FS_CardinalityType
<1> QED
  BY <1>1, <1>2

\* The workers that will look at the queue without being signalled, and the
\* producers.
Takers == {w \in Worker \ not_empty : pc[w] = "dequeue"}
Fillers == {t \in Producer \ not_full : pc[t] = "enqueue"}

WorkersAwake == not_empty # {} => count <= Cardinality(Takers)
ProducersAwake == not_full # {} => Size - count <= Cardinality(Fillers)

LEMMA StrandedParts == NobodyStranded <=> WorkersAwake /\ ProducersAwake
BY DEF NobodyStranded, WorkersAwake, ProducersAwake, Takers, Fillers

LEMMA FiniteThreads ==
  /\ IsFiniteSet(Producer) /\ IsFiniteSet(Worker)
  /\ IsFiniteSet(Takers) /\ IsFiniteSet(Fillers)
  /\ IsFiniteSet(Takers') /\ IsFiniteSet(Fillers')
<1>1. IsFiniteSet(Producer)
  BY RequestAssumption, FS_AddElement DEF Producer
<1>2. Takers \subseteq Worker /\ Takers' \subseteq Worker
  BY DEF Takers
<1>3. Fillers \subseteq Producer /\ Fillers' \subseteq Producer
  BY DEF Fillers
<1> QED
  BY <1>1, <1>2, <1>3, RequestAssumption, FS_Subset

\* What a step of the queue leaves of the bound on sleeping workers.
LEMMA TakersGrow ==
  ASSUME WorkersAwake, count \in Nat, count' = count, Takers \subseteq Takers',
         not_empty' \subseteq not_empty
  PROVE  WorkersAwake'
<1>1. /\ Cardinality(Takers) <= Cardinality(Takers')
      /\ Cardinality(Takers) \in Nat /\ Cardinality(Takers') \in Nat
  BY FiniteThreads, FS_Subset, FS_CardinalityType
<1> QED
  BY ONLY <1>1, WorkersAwake, count \in Nat, count' = count, not_empty' \subseteq not_empty
  DEF WorkersAwake

LEMMA FillersGrow ==
  ASSUME ProducersAwake, count \in Nat, count' = count, Fillers \subseteq Fillers',
         not_full' \subseteq not_full
  PROVE  ProducersAwake'
<1>1. /\ Cardinality(Fillers) <= Cardinality(Fillers')
      /\ Cardinality(Fillers) \in Nat /\ Cardinality(Fillers') \in Nat
  BY FiniteThreads, FS_Subset, FS_CardinalityType
<1> QED
  BY ONLY <1>1, ProducersAwake, count \in Nat, count' = count, SizeAssumption,
          not_full' \subseteq not_full
  DEF ProducersAwake

LEMMA StrandedEnqueue ==
  ASSUME Threads, count \in 0 .. Size, WorkersAwake, ProducersAwake,
         NEW t \in Producer, enqueue(t)
  PROVE  WorkersAwake' /\ ProducersAwake'
<1>0. t \notin Worker
  BY RequestAssumption DEF Producer
<1>1. CASE AwaitNotFull(t) /\ UNCHANGED <<left, pc>>
  <2>1. /\ count = Size /\ count' = count /\ not_empty' = not_empty /\ pc' = pc
    BY <1>1 DEF AwaitNotFull, ring
  <2>2. Takers' = Takers
    BY <2>1 DEF Takers
  <2>3. Cardinality(Fillers') \in Nat
    BY FiniteThreads, FS_CardinalityType
  <2> QED
    BY <2>1, <2>2, <2>3, SizeAssumption DEF WorkersAwake, ProducersAwake
<1>2. CASE /\ Put(t, id[t])
           /\ left' = [left EXCEPT ![t] = @ - 1]
           /\ Goto(t, IF t = main THEN "shutdown" ELSE "client")
  <2>1. /\ count' = count + 1 /\ not_full' = not_full /\ t \notin not_full
        /\ Signalled(not_empty, not_empty')
    BY <1>2 DEF Put
  <2>2. /\ \A u \in Producer \cup Worker : u # t => pc'[u] = pc[u]
        /\ pc'[t] # "enqueue" /\ pc[t] = "enqueue"
    BY <1>2, RequestAssumption DEF Goto, Threads, enqueue, Producer
  <2>3. WorkersAwake'
    <3>1. CASE not_empty' = {}
      BY <3>1 DEF WorkersAwake
    <3>2. ASSUME NEW u \in not_empty, not_empty' = not_empty \ {u} PROVE WorkersAwake'
      <4>1. u \in Worker /\ pc[u] = "dequeue"
        BY DEF Threads
      <4>2. Takers' = Takers \cup {u} /\ u \notin Takers
        BY <4>1, <3>2, <2>2, <1>0 DEF Takers
      <4>3. Cardinality(Takers') = Cardinality(Takers) + 1 /\ Cardinality(Takers) \in Nat
        BY <4>2, AddOne, FiniteThreads
      <4> QED
        BY <4>3, <3>2, <2>1, SizeAssumption DEF WorkersAwake
    <3> QED
      BY <3>1, <3>2, <2>1 DEF Signalled
  <2>4. ProducersAwake'
    <3>1. Fillers' = Fillers \ {t}
      BY <2>1, <2>2 DEF Fillers
    <3>2. /\ Cardinality(Fillers) \in Nat /\ Cardinality(Fillers') \in Nat
          /\ Cardinality(Fillers') >= Cardinality(Fillers) - 1
      BY <3>1, DropOne, FiniteThreads
    <3> QED
      BY <3>2, <2>1, SizeAssumption DEF ProducersAwake
  <2> QED
    BY <2>3, <2>4
<1> QED
  BY <1>1, <1>2 DEF enqueue
LEMMA StrandedDequeue ==
  ASSUME Threads, count \in 0 .. Size, WorkersAwake, ProducersAwake,
         NEW w \in Worker, dequeue(w)
  PROVE  WorkersAwake' /\ ProducersAwake'
<1>0. w \notin Producer
  BY RequestAssumption DEF Producer
<1>1. CASE AwaitNotEmpty(w) /\ UNCHANGED pc
  <2>1. /\ count = 0 /\ count' = count /\ not_full' = not_full /\ pc' = pc
    BY <1>1 DEF AwaitNotEmpty, ring
  <2>2. Fillers' = Fillers
    BY <2>1 DEF Fillers
  <2>3. Cardinality(Takers') \in Nat
    BY FiniteThreads, FS_CardinalityType
  <2> QED
    BY <2>1, <2>2, <2>3 DEF WorkersAwake, ProducersAwake
<1>2. CASE Get(w) /\ Goto(w, IF buffer[out] = Shutdown THEN "exited" ELSE "dequeue")
  <2>1. /\ count' = count - 1 /\ not_empty' = not_empty
        /\ Signalled(not_full, not_full')
    BY <1>2 DEF Get
  <2>2. \A u \in Producer \cup Worker : u # w => pc'[u] = pc[u]
    BY <1>2 DEF Goto, Threads
  <2>3. ProducersAwake'
    <3>1. CASE not_full' = {}
      BY <3>1 DEF ProducersAwake
    <3>2. ASSUME NEW u \in not_full, not_full' = not_full \ {u} PROVE ProducersAwake'
      <4>1. u \in Producer /\ pc[u] = "enqueue"
        BY DEF Threads
      <4>2. Fillers' = Fillers \cup {u} /\ u \notin Fillers
        BY <4>1, <3>2, <2>2, <1>0 DEF Fillers
      <4>3. Cardinality(Fillers') = Cardinality(Fillers) + 1 /\ Cardinality(Fillers) \in Nat
        BY <4>2, AddOne, FiniteThreads
      <4> QED
        BY <4>3, <3>2, <2>1, SizeAssumption DEF ProducersAwake
    <3> QED
      BY <3>1, <3>2, <2>1 DEF Signalled
  <2>4. WorkersAwake'
    <3>1. Takers \ {w} \subseteq Takers'
      BY <2>1, <2>2 DEF Takers
    <3>2. IsFiniteSet(Takers \ {w})
      BY FiniteThreads, FS_RemoveElement
    <3>3. Cardinality(Takers \ {w}) <= Cardinality(Takers') /\ Cardinality(Takers') \in Nat
      BY <3>1, <3>2, FiniteThreads, FS_Subset, FS_CardinalityType
    <3>4. /\ Cardinality(Takers) \in Nat /\ Cardinality(Takers \ {w}) \in Nat
          /\ Cardinality(Takers \ {w}) >= Cardinality(Takers) - 1
      BY DropOne, FiniteThreads
    <3> QED
      BY <3>3, <3>4, <2>1, SizeAssumption DEF WorkersAwake
  <2> QED
    BY <2>3, <2>4
<1> QED
  BY <1>1, <1>2 DEF dequeue

\* A thread that starts to queue, or wakes, can only help.
LEMMA StrandedOther ==
  ASSUME Threads, count \in 0 .. Size, WorkersAwake, ProducersAwake,
         \/ \E c \in Client : draw_id(c)
         \/ main_joins_clients \/ main_shuts_down
         \/ Spurious /\ UNCHANGED <<next_request_id, id, left, pc>>
         \/ UNCHANGED vars
  PROVE  WorkersAwake' /\ ProducersAwake'
<1>0. /\ count \in Nat
      /\ main \in Producer /\ main \notin Worker
      /\ \A c \in Client : c \in Producer /\ c \notin Worker
  BY RequestAssumption, SizeAssumption DEF Producer
<1>1. ASSUME count' = count, not_empty' \subseteq not_empty, not_full' \subseteq not_full,
             \A w \in Worker : pc'[w] = pc[w],
             \A t \in Producer : pc[t] = "enqueue" => pc'[t] = "enqueue"
      PROVE  WorkersAwake' /\ ProducersAwake'
  <2>1. Takers \subseteq Takers'
    BY <1>1 DEF Takers
  <2>2. Fillers \subseteq Fillers'
    BY <1>1 DEF Fillers
  <2> QED
    BY <1>0, <1>1, <2>1, <2>2, TakersGrow, FillersGrow
<1>2. ASSUME NEW c \in Client, draw_id(c) PROVE WorkersAwake' /\ ProducersAwake'
  <2>1. /\ pc' = [pc EXCEPT ![c] = "enqueue"]
        /\ count' = count /\ not_empty' = not_empty /\ not_full' = not_full
    BY <1>2 DEF draw_id, Goto, bufferVars, ring
  <2> QED
    BY <2>1, <1>0, <1>1 DEF Threads
<1>3. CASE main_joins_clients \/ main_shuts_down
  <2>1. /\ pc[main] # "enqueue"
        /\ \E l \in {"shutdown", "enqueue"} : pc' = [pc EXCEPT ![main] = l]
        /\ count' = count /\ not_empty' = not_empty /\ not_full' = not_full
    BY <1>3 DEF main_joins_clients, main_shuts_down, Goto, bufferVars, ring
  <2> QED
    BY <2>1, <1>0, <1>1 DEF Threads
<1>4. CASE Spurious /\ UNCHANGED <<next_request_id, id, left, pc>>
  BY <1>4, <1>1 DEF Spurious, ring
<1>5. CASE UNCHANGED vars
  BY <1>5, <1>1 DEF vars, bufferVars, ring
<1> QED
  BY <1>2, <1>3, <1>4, <1>5

LEMMA StrandedStep ==
  ASSUME IInv, NobodyStranded, [Next]_vars
  PROVE  NobodyStranded'
<1>1. Threads /\ count \in 0 .. Size
  BY IInvParts DEF BufferTypeOK
<1>2. WorkersAwake /\ ProducersAwake
  BY StrandedParts
<1>3. WorkersAwake' /\ ProducersAwake'
  BY <1>1, <1>2, StrandedEnqueue, StrandedDequeue, StrandedOther DEF Next, Step
<1> QED
  BY <1>3 DEF NobodyStranded, WorkersAwake, ProducersAwake, Takers, Fillers
-----------------------------------------------------------------------------
(* Every request is processed once. *)

LEMMA Appended ==
  ASSUME NEW I, NEW s \in Seq(I), NEW x \in I
  PROVE  /\ Len(s) \in Nat /\ DOMAIN s = 1 .. Len(s)
         /\ Append(s, x) \in Seq(I)
         /\ Len(Append(s, x)) = Len(s) + 1
         /\ DOMAIN Append(s, x) = 1 .. Len(s) + 1
         /\ Append(s, x)[Len(s) + 1] = x
         /\ \A n \in 1 .. Len(s) : Append(s, x)[n] = s[n]
OBVIOUS

LEMMA ShutdownsAppended ==
  ASSUME NEW s \in Seq(Item), NEW x \in Item
  PROVE  /\ IsFiniteSet(Shutdowns(s)) /\ Cardinality(Shutdowns(s)) \in Nat
         /\ Cardinality(Shutdowns(Append(s, x))) =
              Cardinality(Shutdowns(s)) + (IF x = Shutdown THEN 1 ELSE 0)
<1> DEFINE a == Append(s, x)
           l == Len(s)
<1>1. /\ l \in Nat /\ DOMAIN s = 1 .. l /\ DOMAIN a = 1 .. l + 1
      /\ a[l + 1] = x
      /\ \A n \in 1 .. l : a[n] = s[n]
  BY Appended
<1> HIDE DEF a, l
<1>2. Shutdowns(s) \subseteq 1 .. l /\ IsFiniteSet(1 .. l)
  <2>1. IsFiniteSet(1 .. l)
    BY <1>1, FS_Interval
  <2>2. Shutdowns(s) \subseteq 1 .. l
    BY <1>1 DEF Shutdowns
  <2> QED
    BY <2>1, <2>2
<1>3. IsFiniteSet(Shutdowns(s)) /\ Cardinality(Shutdowns(s)) \in Nat
  BY <1>2, FS_Subset, FS_CardinalityType
<1>4. CASE x = Shutdown
  <2>1. Shutdowns(a) = Shutdowns(s) \cup {l + 1} /\ l + 1 \notin Shutdowns(s)
    BY <1>1, <1>4 DEF Shutdowns
  <2>2. Cardinality(Shutdowns(a)) = Cardinality(Shutdowns(s)) + 1
    BY <2>1, <1>3, AddOne
  <2> QED
    BY <2>2, <1>3, <1>4 DEF a
<1>5. CASE x # Shutdown
  <2>1. Shutdowns(a) = Shutdowns(s)
    BY <1>1, <1>5 DEF Shutdowns
  <2> QED
    BY <2>1, <1>3, <1>5 DEF a
<1> QED
  BY <1>4, <1>5

LEMMA PrefixStep ==
  ASSUME BufferTypeOK(Item), Prefix, Fifo!Put \/ Fifo!Get \/ UNCHANGED <<sent, received>>,
         BufferTypeOK(Item)'
  PROVE  Prefix'
<1>1. /\ sent \in Seq(Item) /\ received \in Seq(Item)
      /\ sent' \in Seq(Item) /\ received' \in Seq(Item)
  BY DEF BufferTypeOK
<1>2. CASE Fifo!Put
  <2>1. PICK x : x = sent'[Len(sent) + 1]
    OBVIOUS
  <2>2. /\ sent' = Append(sent, x) /\ Len(sent') = Len(sent) + 1 /\ received' = received
    BY <1>2, <2>1 DEF Fifo!Put
  <2>3. x \in Item
    BY <1>1, <2>1, <2>2
  <2>4. \A n \in 1 .. Len(sent) : sent'[n] = sent[n]
    BY <1>1, <2>2, <2>3, Appended
  <2> QED
    BY <1>1, <2>2, <2>4 DEF Prefix
<1>3. CASE Fifo!Get
  <2>1. PICK x : x = sent[Len(received) + 1]
    OBVIOUS
  <2>2. received' = Append(received, x) /\ sent' = sent /\ Len(received) < Len(sent)
    BY <1>3, <2>1 DEF Fifo!Get
  <2>3. x \in Item
    BY <1>1, <2>1, <2>2
  <2>4. /\ Len(received') = Len(received) + 1
        /\ DOMAIN received = 1 .. Len(received)
        /\ DOMAIN received' = 1 .. Len(received) + 1
        /\ received'[Len(received) + 1] = x
        /\ \A n \in 1 .. Len(received) : received'[n] = received[n]
    BY <1>1, <2>2, <2>3, Appended
  <2>5. Len(received') <= Len(sent')
    <3>1. Len(received) \in Nat /\ Len(sent) \in Nat
      BY <1>1
    <3>2. Len(sent') = Len(sent)
      BY <2>2
    <3>3. Len(received) < Len(sent) /\ Len(received') = Len(received) + 1
      BY <2>2, <2>4
    <3> QED
      BY ONLY <3>1, <3>2, <3>3
  <2>6. \A n \in 1 .. Len(received) : received'[n] = sent'[n]
    BY <2>2, <2>4 DEF Prefix
  <2>7. received'[Len(received) + 1] = sent'[Len(received) + 1]
    BY <2>1, <2>2, <2>4
  <2>8. ASSUME NEW n \in DOMAIN received' PROVE received'[n] = sent'[n]
    <3>1. n \in 1 .. Len(received) \/ n = Len(received) + 1
      BY <1>1, <2>4
    <3> QED
      BY <3>1, <2>6, <2>7
  <2> QED
    BY <2>5, <2>8 DEF Prefix
<1>4. CASE UNCHANGED <<sent, received>>
  BY <1>4 DEF Prefix
<1> QED
  BY <1>2, <1>3, <1>4

\* The two halves of Numbered: how many ids are drawn, and where each one is.
Counted ==
  /\ next_request_id = 1 + Cardinality(Drawn)
  /\ \A c \in Client : left[c] <= Requests

Placed ==
  /\ \A n \in DOMAIN sent : sent[n] = Shutdown \/ sent[n] < next_request_id
  /\ \A m, n \in DOMAIN sent : sent[m] = sent[n] /\ sent[m] # Shutdown => m = n
  /\ \A c \in Client : pc[c] = "enqueue" =>
       /\ id[c] \in 1 .. next_request_id - 1
       /\ \A n \in DOMAIN sent : sent[n] # id[c]
       /\ \A d \in Client : pc[d] = "enqueue" /\ id[d] = id[c] => d = c
  /\ \A r \in 1 .. next_request_id - 1 :
       \/ \E n \in DOMAIN sent : sent[n] = r
       \/ \E c \in Client : pc[c] = "enqueue" /\ id[c] = r

LEMMA NumberedParts == Numbered <=> Counted /\ Placed
BY DEF Numbered, Counted, Placed

LEMMA DrawnFinite == IsFiniteSet(Drawn) /\ Cardinality(Drawn) \in Nat
<1>1. IsFiniteSet(1 .. Requests)
  BY RequestAssumption, FS_Interval
<1>2. IsFiniteSet(Client \X (1 .. Requests))
  BY <1>1, RequestAssumption, FS_Product
<1>3. Drawn \subseteq Client \X (1 .. Requests)
  BY DEF Drawn
<1> QED
  BY <1>2, <1>3, FS_Subset, FS_CardinalityType

LEMMA CountedDraw ==
  ASSUME Threads, Counted, NEW c \in Client, draw_id(c)
  PROVE  Counted'
<1>1. /\ pc[c] = "client" /\ left[c] > 0 /\ left' = left
      /\ next_request_id' = next_request_id + 1
      /\ pc' = [pc EXCEPT ![c] = "enqueue"]
      /\ c \in Producer
  BY DEF draw_id, Goto, Producer
<1>2. left[c] \in 1 .. Requests
  BY <1>1, RequestAssumption DEF Threads, Counted
<1>3. /\ pc'[c] = "enqueue" /\ \A d \in Client : d # c => pc'[d] = pc[d]
  BY <1>1 DEF Threads, Producer
<1>4. Drawn' = Drawn \cup {<<c, left[c]>>} /\ <<c, left[c]>> \notin Drawn
  <2>1. Drawn' = {r \in Client \X (1 .. Requests) :
           r[2] > left[r[1]] \/ (r[2] = left[r[1]] /\ pc'[r[1]] = "enqueue")}
    BY <1>1 DEF Drawn
  <2>2. \A r \in Client \X (1 .. Requests) :
           r[1] \in Client /\ r[2] \in 1 .. Requests /\ r = <<r[1], r[2]>>
    OBVIOUS
  <2>3. <<c, left[c]>> \in Client \X (1 .. Requests)
    BY <1>2
  <2>4. left[c] \in Nat
    BY <1>2
  <2> QED
    BY <1>1, <1>3, <2>1, <2>2, <2>3, <2>4 DEF Drawn
<1>5. Cardinality(Drawn') = Cardinality(Drawn) + 1 /\ Cardinality(Drawn) \in Nat
  BY <1>4, DrawnFinite, AddOne
<1> QED
  BY <1>1, <1>5 DEF Counted

\* What the steps that draw no id leave of the count.
LEMMA CountedSame ==
  ASSUME Counted, Drawn' = Drawn, next_request_id' = next_request_id,
         \A c \in Client : left'[c] <= Requests
  PROVE  Counted'
BY DEF Counted

LEMMA DrawnFrame ==
  ASSUME \A c \in Client : left'[c] = left[c] /\ pc'[c] = pc[c]
  PROVE  Drawn' = Drawn
<1>1. \A r \in Client \X (1 .. Requests) : r[1] \in Client
  OBVIOUS
<1> QED
  BY <1>1 DEF Drawn

\* A client that has queued its request goes on to the next.
LEMMA CountedPut ==
  ASSUME Threads, Counted, NEW t \in Client, pc[t] = "enqueue",
         next_request_id' = next_request_id,
         left' = [left EXCEPT ![t] = @ - 1], pc' = [pc EXCEPT ![t] = "client"]
  PROVE  Counted'
<1>1. /\ left[t] \in Nat /\ left[t] > 0 /\ left[t] <= Requests /\ t \in Producer
      /\ left'[t] = left[t] - 1 /\ pc'[t] = "client"
      /\ \A c \in Client : c # t => left'[c] = left[c] /\ pc'[c] = pc[c]
  BY DEF Threads, Counted, Producer
<1>2. \A r \in Client \X (1 .. Requests) : r[1] \in Client /\ r[2] \in 1 .. Requests
  OBVIOUS
<1>3. ASSUME NEW r \in Client \X (1 .. Requests) PROVE r \in Drawn' <=> r \in Drawn
  <2>1. CASE r[1] = t
    <3>1. r \in Drawn' <=> r[2] > left[t] - 1
      BY <1>1, <1>2, <2>1 DEF Drawn
    <3>2. r \in Drawn <=> r[2] > left[t] \/ r[2] = left[t]
      BY <1>2, <2>1 DEF Drawn
    <3> QED
      BY <3>1, <3>2, <1>1, <1>2
  <2>2. CASE r[1] # t
    BY <1>1, <1>2, <2>2 DEF Drawn
  <2> QED
    BY <2>1, <2>2
<1>4. Drawn' = Drawn
  <2>1. Drawn \subseteq Client \X (1 .. Requests) /\ Drawn' \subseteq Client \X (1 .. Requests)
    BY DEF Drawn
  <2> QED
    BY <1>3, <2>1
<1>5. \A c \in Client : left'[c] <= Requests
  BY <1>1, RequestAssumption DEF Counted
<1> QED
  BY <1>4, <1>5, CountedSame

LEMMA PlacedDraw ==
  ASSUME Threads, Placed, NEW c \in Client, draw_id(c), sent \in Seq(Item)
  PROVE  Placed'
<1>1. /\ pc[c] = "client" /\ sent' = sent
      /\ next_request_id' = next_request_id + 1
      /\ next_request_id \in Nat /\ next_request_id > 0
      /\ id'[c] = next_request_id /\ pc'[c] = "enqueue"
      /\ \A d \in Client : d # c => id'[d] = id[d] /\ pc'[d] = pc[d]
  BY DEF draw_id, Goto, bufferVars, ring, Threads, Producer
<1>2. \A n \in DOMAIN sent : sent[n] \in Int /\ (sent[n] = Shutdown \/ sent[n] < next_request_id)
  BY DEF Placed, Item, Shutdown
<1>3. /\ \A n \in DOMAIN sent' : sent'[n] = Shutdown \/ sent'[n] < next_request_id'
      /\ \A m, n \in DOMAIN sent' : sent'[m] = sent'[n] /\ sent'[m] # Shutdown => m = n
  <2>1. \A n \in DOMAIN sent : sent[n] = Shutdown \/ sent[n] < next_request_id + 1
    BY <1>1, <1>2
  <2> QED
    BY <1>1, <2>1 DEF Placed
<1>4. ASSUME NEW d \in Client, pc'[d] = "enqueue"
      PROVE  /\ id'[d] \in 1 .. next_request_id' - 1
             /\ \A n \in DOMAIN sent' : sent'[n] # id'[d]
             /\ \A e \in Client : pc'[e] = "enqueue" /\ id'[e] = id'[d] => e = d
  <2>0. \A e \in Client : e # c /\ pc'[e] = "enqueue" =>
          /\ id'[e] = id[e] /\ id[e] \in 1 .. next_request_id - 1
          /\ \A n \in DOMAIN sent : sent[n] # id[e]
    BY <1>1 DEF Placed
  <2>1. CASE d = c
    <3>1. \A n \in DOMAIN sent : sent[n] # next_request_id
      BY <1>1, <1>2 DEF Shutdown
    <3>2. \A e \in Client : e # c /\ pc'[e] = "enqueue" => id'[e] # next_request_id
      BY <1>1, <2>0
    <3> QED
      BY <1>1, <2>1, <3>1, <3>2
  <2>2. CASE d # c
    <3>1. id'[d] = id[d] /\ id[d] \in 1 .. next_request_id - 1 /\ pc[d] = "enqueue"
      BY <1>1, <1>4, <2>0, <2>2
    <3>2. \A e \in Client : e # c /\ pc'[e] = "enqueue" /\ id'[e] = id'[d] => e = d
      BY <1>1, <2>0, <3>1 DEF Placed
    <3>3. id'[c] # id'[d]
      BY <1>1, <3>1
    <3> QED
      BY <1>1, <1>4, <2>0, <2>2, <3>1, <3>2, <3>3
  <2> QED
    BY <2>1, <2>2
<1>5. ASSUME NEW r \in 1 .. next_request_id' - 1
      PROVE  \/ \E n \in DOMAIN sent' : sent'[n] = r
             \/ \E d \in Client : pc'[d] = "enqueue" /\ id'[d] = r
  <2>1. CASE r = next_request_id
    BY <1>1, <2>1
  <2>2. CASE r \in 1 .. next_request_id - 1
    <3>1. CASE \E n \in DOMAIN sent : sent[n] = r
      BY <1>1, <3>1
    <3>2. CASE \E d \in Client : pc[d] = "enqueue" /\ id[d] = r
      BY <1>1, <3>2
    <3> QED
      BY <2>2, <3>1, <3>2 DEF Placed
  <2> QED
    BY <1>1, <2>1, <2>2
<1> QED
  BY <1>3, <1>4, <1>5 DEF Placed

LEMMA PlacedPut ==
  ASSUME Threads, Placed, NEW t \in Client, pc[t] = "enqueue", sent \in Seq(Item),
         sent' = Append(sent, id[t]), id' = id, next_request_id' = next_request_id,
         pc' = [pc EXCEPT ![t] = "client"]
  PROVE  Placed'
<1>0. id[t] \in 1 .. next_request_id - 1 /\ next_request_id \in Nat /\ t \in Producer
  BY DEF Placed, Threads, Producer
<1>1. id[t] \in Item /\ id[t] # Shutdown /\ id[t] < next_request_id
  BY <1>0 DEF Item, Shutdown
<1> DEFINE l == Len(sent)
<1>2. /\ l \in Nat /\ DOMAIN sent = 1 .. l /\ DOMAIN sent' = 1 .. l + 1
      /\ sent'[l + 1] = id[t]
      /\ \A n \in DOMAIN sent : sent'[n] = sent[n] /\ n \in DOMAIN sent'
  BY <1>1, Appended
<1> HIDE DEF l
<1>3. \A n \in DOMAIN sent' : n \in DOMAIN sent \/ n = l + 1
  BY <1>2
<1>4. pc'[t] = "client" /\ \A d \in Client : d # t => pc'[d] = pc[d]
  BY <1>0 DEF Threads, Producer
<1>5. \A n \in DOMAIN sent : sent[n] # id[t]
  BY DEF Placed
<1>6. \A n \in DOMAIN sent' : sent'[n] = Shutdown \/ sent'[n] < next_request_id'
  BY <1>1, <1>2, <1>3 DEF Placed
<1>7. \A m, n \in DOMAIN sent' : sent'[m] = sent'[n] /\ sent'[m] # Shutdown => m = n
  BY <1>2, <1>3, <1>5 DEF Placed
<1>8. ASSUME NEW d \in Client, pc'[d] = "enqueue"
      PROVE  /\ id'[d] \in 1 .. next_request_id' - 1
             /\ \A n \in DOMAIN sent' : sent'[n] # id'[d]
             /\ \A e \in Client : pc'[e] = "enqueue" /\ id'[e] = id'[d] => e = d
  <2>1. d # t /\ pc[d] = "enqueue"
    BY <1>4, <1>8
  <2>2. id[d] # id[t]
    BY <2>1 DEF Placed
  <2>3. \A n \in DOMAIN sent' : sent'[n] # id[d]
    BY <1>2, <1>3, <2>1, <2>2 DEF Placed
  <2>4. \A e \in Client : pc'[e] = "enqueue" => pc[e] = "enqueue"
    BY <1>4
  <2> QED
    BY <2>1, <2>3, <2>4 DEF Placed
<1>9. ASSUME NEW r \in 1 .. next_request_id' - 1
      PROVE  \/ \E n \in DOMAIN sent' : sent'[n] = r
             \/ \E d \in Client : pc'[d] = "enqueue" /\ id'[d] = r
  <2>1. CASE \E n \in DOMAIN sent : sent[n] = r
    BY <1>2, <2>1
  <2>2. ASSUME NEW d \in Client, pc[d] = "enqueue", id[d] = r
        PROVE  \/ \E n \in DOMAIN sent' : sent'[n] = r
               \/ \E e \in Client : pc'[e] = "enqueue" /\ id'[e] = r
    <3>1. CASE d = t
      <4>1. l + 1 \in DOMAIN sent' /\ sent'[l + 1] = r
        BY <1>2, <2>2, <3>1
      <4> QED
        BY <4>1
    <3>2. CASE d # t
      BY <1>4, <2>2, <3>2
    <3> QED
      BY <3>1, <3>2
  <2> QED
    BY <2>1, <2>2 DEF Placed
<1> QED
  BY <1>6, <1>7, <1>8, <1>9 DEF Placed

\* A shutdown in the queue does not disturb the requests.
LEMMA PlacedShutdown ==
  ASSUME Placed, sent \in Seq(Item),
         sent' = sent \/ sent' = Append(sent, Shutdown),
         \A c \in Client : id'[c] = id[c] /\ pc'[c] = pc[c],
         next_request_id' = next_request_id, next_request_id \in Nat
  PROVE  Placed'
<1>1. CASE sent' = sent
  BY <1>1 DEF Placed
<1>2. CASE sent' = Append(sent, Shutdown)
  <2> DEFINE l == Len(sent)
  <2>0. Shutdown \in Item
    BY DEF Item
  <2>1. /\ l \in Nat /\ DOMAIN sent = 1 .. l /\ DOMAIN sent' = 1 .. l + 1
        /\ sent'[l + 1] = Shutdown
        /\ \A n \in DOMAIN sent : sent'[n] = sent[n] /\ n \in DOMAIN sent'
    BY <1>2, <2>0, Appended
  <2> HIDE DEF l
  <2>2. \A n \in DOMAIN sent' : n \in DOMAIN sent \/ n = l + 1
    BY <2>1
  <2>3. /\ \A n \in DOMAIN sent' : sent'[n] = Shutdown \/ sent'[n] < next_request_id'
        /\ \A m, n \in DOMAIN sent' : sent'[m] = sent'[n] /\ sent'[m] # Shutdown => m = n
    BY <2>1, <2>2 DEF Placed
  <2>4. ASSUME NEW d \in Client, pc'[d] = "enqueue"
        PROVE  /\ id'[d] \in 1 .. next_request_id' - 1
               /\ \A n \in DOMAIN sent' : sent'[n] # id'[d]
               /\ \A e \in Client : pc'[e] = "enqueue" /\ id'[e] = id'[d] => e = d
    <3>1. id[d] \in 1 .. next_request_id - 1 /\ id'[d] = id[d] /\ pc[d] = "enqueue"
      BY <2>4 DEF Placed
    <3>2. id[d] # Shutdown
      BY <3>1 DEF Shutdown
    <3>3. \A n \in DOMAIN sent' : sent'[n] # id[d]
      BY <2>1, <2>2, <3>1, <3>2 DEF Placed
    <3> QED
      BY <3>1, <3>3 DEF Placed
  <2>5. ASSUME NEW r \in 1 .. next_request_id' - 1
        PROVE  \/ \E n \in DOMAIN sent' : sent'[n] = r
               \/ \E d \in Client : pc'[d] = "enqueue" /\ id'[d] = r
    BY <2>1 DEF Placed
  <2> QED
    BY <2>3, <2>4, <2>5 DEF Placed
<1> QED
  BY <1>1, <1>2

\* Whatever steps: the ids stay numbered.
LEMMA NumberedStep ==
  ASSUME IInv, Numbered, [Next]_vars
  PROVE  Numbered'
<1>0. Threads /\ Counted /\ Placed /\ sent \in Seq(Item)
  BY IInvParts, NumberedParts DEF BufferTypeOK
<1>1. ASSUME NEW c \in Client, draw_id(c) PROVE Numbered'
  BY <1>0, <1>1, CountedDraw, PlacedDraw DEF Numbered, Counted, Placed
<1>2. ASSUME sent' = sent \/ sent' = Append(sent, Shutdown), next_request_id' = next_request_id,
             \A c \in Client : id'[c] = id[c] /\ pc'[c] = pc[c] /\ left'[c] = left[c]
      PROVE  Numbered'
  <2>1. Counted'
    BY <1>0, <1>2, DrawnFrame, CountedSame DEF Counted
  <2>2. Placed'
    BY <1>0, <1>2, PlacedShutdown DEF Threads
  <2> QED
    BY <2>1, <2>2 DEF Numbered, Counted, Placed
<1>3. ASSUME NEW t \in Producer, enqueue(t) PROVE Numbered'
  <2>1. CASE AwaitNotFull(t) /\ UNCHANGED <<left, pc>>
    BY <1>2, <1>3, <2>1 DEF enqueue, AwaitNotFull, ring
  <2>2. CASE /\ Put(t, id[t])
             /\ left' = [left EXCEPT ![t] = @ - 1]
             /\ Goto(t, IF t = main THEN "shutdown" ELSE "client")
    <3>1. /\ sent' = Append(sent, id[t]) /\ next_request_id' = next_request_id /\ id' = id
          /\ pc[t] = "enqueue"
      BY <1>3, <2>2 DEF enqueue, Put
    <3>2. CASE t = main
      <4>1. sent' = Append(sent, Shutdown)
        BY <1>0, <3>1, <3>2 DEF Threads
      <4>2. \A c \in Client : pc'[c] = pc[c] /\ left'[c] = left[c]
        BY <1>0, <2>2, <3>2, RequestAssumption DEF Threads, Goto, Producer
      <4> QED
        BY <1>2, <3>1, <4>1, <4>2
    <3>3. CASE t # main
      <4>1. t \in Client /\ pc' = [pc EXCEPT ![t] = "client"]
        BY <2>2, <3>3 DEF Goto, Producer
      <4>2. Counted'
        BY <1>0, <2>2, <3>1, <4>1, CountedPut
      <4>3. Placed'
        BY <1>0, <3>1, <4>1, PlacedPut
      <4> QED
        BY <4>2, <4>3 DEF Numbered, Counted, Placed
    <3> QED
      BY <3>2, <3>3
  <2> QED
    BY <1>3, <2>1, <2>2 DEF enqueue
<1>4. ASSUME NEW w \in Worker, dequeue(w) PROVE Numbered'
  <2>1. /\ sent' = sent /\ next_request_id' = next_request_id /\ id' = id /\ left' = left
    BY <1>4 DEF dequeue, Get, AwaitNotEmpty, ring
  <2>2. pc' = pc \/ \E l \in {"exited", "dequeue"} : pc' = [pc EXCEPT ![w] = l]
    BY <1>4 DEF dequeue, Goto
  <2>3. \A c \in Client : pc'[c] = pc[c]
    BY <1>0, <2>2, RequestAssumption DEF Threads, Producer
  <2> QED
    BY <1>2, <2>1, <2>3
<1>5. CASE main_joins_clients \/ main_shuts_down
  <2>1. /\ sent' = sent /\ next_request_id' = next_request_id /\ id' = id /\ left' = left
        /\ \E l \in {"shutdown", "enqueue"} : pc' = [pc EXCEPT ![main] = l]
    BY <1>5 DEF main_joins_clients, main_shuts_down, Goto, bufferVars, ring
  <2>2. \A c \in Client : pc'[c] = pc[c]
    BY <1>0, <2>1, RequestAssumption DEF Threads, Producer
  <2> QED
    BY <1>2, <2>1, <2>2
<1>6. CASE Spurious /\ UNCHANGED <<next_request_id, id, left, pc>>
  BY <1>2, <1>6 DEF Spurious, ring
<1>7. CASE UNCHANGED vars
  BY <1>2, <1>7 DEF vars, bufferVars, ring
<1> QED
  BY <1>1, <1>3, <1>4, <1>5, <1>6, <1>7 DEF Next, Step

\* The three parts of ShutDownInOrder: what the threads do, the shutdowns
\* sent and the shutdowns taken.
Phases ==
  /\ \A c \in Client : pc[c] \in {"client", "enqueue"}
  /\ pc[main] # "join" => \A c \in Client : pc[c] = "client" /\ left[c] = 0
  /\ pc[main] = "join" => left[main] = Cardinality(Worker)

ShutdownsSent ==
  /\ \A m, n \in DOMAIN sent : m < n /\ sent[m] = Shutdown => sent[n] = Shutdown
  /\ Cardinality(Shutdowns(sent)) = Cardinality(Worker) - left[main]

Exited == {w \in Worker : pc[w] = "exited"}

ShutdownsTaken == Cardinality(Shutdowns(received)) = Cardinality(Exited)

LEMMA ShutDownParts == ShutDownInOrder <=> Phases /\ ShutdownsSent /\ ShutdownsTaken
BY DEF ShutDownInOrder, Phases, ShutdownsSent, ShutdownsTaken, Exited

LEMMA PhasesStep ==
  ASSUME Threads, Phases, [Next]_vars
  PROVE  Phases'
<1> USE RequestAssumption DEF Threads, Goto, Producer
<1>1. ASSUME NEW c \in Client, draw_id(c) PROVE Phases'
  <2>1. /\ pc[c] = "client" /\ left[c] > 0 /\ left' = left
        /\ pc'[c] = "enqueue" /\ \A t \in Producer : t # c => pc'[t] = pc[t]
    BY <1>1 DEF draw_id
  <2> QED
    BY <2>1 DEF Phases
<1>2. ASSUME NEW t \in Producer, enqueue(t) PROVE Phases'
  <2>1. CASE AwaitNotFull(t) /\ UNCHANGED <<left, pc>>
    BY <2>1 DEF Phases
  <2>2. CASE /\ Put(t, id[t])
             /\ left' = [left EXCEPT ![t] = @ - 1]
             /\ Goto(t, IF t = main THEN "shutdown" ELSE "client")
    <3>1. /\ pc[t] = "enqueue"
          /\ pc'[t] = IF t = main THEN "shutdown" ELSE "client"
          /\ \A u \in Producer : u # t => pc'[u] = pc[u] /\ left'[u] = left[u]
      BY <1>2, <2>2 DEF enqueue
    <3>2. CASE t = main
      BY <3>1, <3>2 DEF Phases
    <3>3. CASE t # main
      <4>1. t \in Client /\ pc[main] = "join"
        BY <3>1, <3>3 DEF Phases
      <4> QED
        BY <3>1, <3>3, <4>1 DEF Phases
    <3> QED
      BY <3>2, <3>3
  <2> QED
    BY <1>2, <2>1, <2>2 DEF enqueue
<1>3. ASSUME NEW w \in Worker, dequeue(w) PROVE Phases'
  <2>1. left' = left /\ (pc' = pc \/ \E l \in {"exited", "dequeue"} : pc' = [pc EXCEPT ![w] = l])
    BY <1>3 DEF dequeue
  <2>2. \A t \in Producer : pc'[t] = pc[t]
    BY <2>1
  <2> QED
    BY <2>1, <2>2 DEF Phases
<1>4. CASE main_joins_clients
  BY <1>4 DEF main_joins_clients, Phases
<1>5. CASE main_shuts_down
  BY <1>5 DEF main_shuts_down, Phases
<1>6. CASE Spurious /\ UNCHANGED <<next_request_id, id, left, pc>>
  BY <1>6 DEF Phases
<1>7. CASE UNCHANGED vars
  BY <1>7 DEF vars, Phases
<1> QED
  BY <1>1, <1>2, <1>3, <1>4, <1>5, <1>6, <1>7 DEF Next, Step

\* A client puts a request in before the first shutdown, and main a shutdown
\* behind everything.
LEMMA SentPut ==
  ASSUME Threads, Phases, ShutdownsSent, sent \in Seq(Item),
         NEW t \in Producer, pc[t] = "enqueue", id[t] \in Item,
         t # main => id[t] # Shutdown,
         sent' = Append(sent, id[t]), left' = [left EXCEPT ![t] = @ - 1]
  PROVE  ShutdownsSent'
<1> DEFINE l == Len(sent)
<1>1. /\ l \in Nat /\ DOMAIN sent = 1 .. l /\ DOMAIN sent' = 1 .. l + 1
      /\ sent'[l + 1] = id[t]
      /\ \A n \in DOMAIN sent : sent'[n] = sent[n]
  BY Appended
<1>2. /\ IsFiniteSet(Shutdowns(sent)) /\ Cardinality(Shutdowns(sent)) \in Nat
      /\ Cardinality(Shutdowns(sent')) =
           Cardinality(Shutdowns(sent)) + (IF id[t] = Shutdown THEN 1 ELSE 0)
  BY ShutdownsAppended
<1> HIDE DEF l
<1>3. \A m, n \in DOMAIN sent' :
        m < n => m \in DOMAIN sent /\ (n \in DOMAIN sent \/ n = l + 1)
  BY <1>1
<1>4. Cardinality(Worker) \in Nat /\ left[main] \in Nat /\ main \in Producer
  BY RequestAssumption, FS_CardinalityType DEF Threads, Producer
<1>5. CASE t = main
  <2>1. id[t] = Shutdown /\ left'[main] = left[main] - 1
    BY <1>4, <1>5 DEF Threads
  <2>2. \A m, n \in DOMAIN sent' : m < n /\ sent'[m] = Shutdown => sent'[n] = Shutdown
    BY <1>1, <1>3, <2>1 DEF ShutdownsSent
  <2>3. Cardinality(Shutdowns(sent')) = Cardinality(Worker) - left'[main]
    BY <1>2, <1>4, <2>1 DEF ShutdownsSent
  <2> QED
    BY <2>2, <2>3 DEF ShutdownsSent
<1>6. CASE t # main
  <2>1. t \in Client /\ left'[main] = left[main]
    BY <1>6, <1>4 DEF Producer, Threads
  <2>2. left[main] = Cardinality(Worker)
    BY <2>1 DEF Phases
  <2>3. Cardinality(Shutdowns(sent)) = 0
    BY <2>2, <1>2, <1>4 DEF ShutdownsSent
  <2>4. Shutdowns(sent) = {}
    BY <1>2, <2>3, FS_EmptySet
  <2>5. \A m, n \in DOMAIN sent' : m < n /\ sent'[m] = Shutdown => sent'[n] = Shutdown
    BY <1>1, <1>3, <2>4 DEF Shutdowns
  <2>6. Cardinality(Shutdowns(sent')) = Cardinality(Worker) - left'[main]
    BY <1>2, <1>4, <1>6, <2>1, <2>2, <2>3
  <2> QED
    BY <2>5, <2>6 DEF ShutdownsSent
<1> QED
  BY <1>5, <1>6

LEMMA SentStep ==
  ASSUME IInv, Phases, ShutdownsSent, Placed, [Next]_vars
  PROVE  ShutdownsSent'
<1>0. Threads /\ sent \in Seq(Item)
  BY IInvParts DEF BufferTypeOK
<1>1. ASSUME NEW t \in Producer, enqueue(t) PROVE ShutdownsSent'
  <2>1. CASE AwaitNotFull(t) /\ UNCHANGED <<left, pc>>
    BY <2>1 DEF AwaitNotFull, ring, ShutdownsSent
  <2>2. CASE /\ Put(t, id[t])
             /\ left' = [left EXCEPT ![t] = @ - 1]
             /\ Goto(t, IF t = main THEN "shutdown" ELSE "client")
    <3>1. pc[t] = "enqueue" /\ id[t] \in Item /\ sent' = Append(sent, id[t])
      BY <1>0, <1>1, <2>2 DEF enqueue, Put, Threads
    <3>2. t # main => id[t] # Shutdown
      <4>1. t # main => id[t] \in 1 .. next_request_id - 1
        BY <3>1 DEF Placed, Producer
      <4> QED
        BY <4>1, <1>0 DEF Shutdown, Threads
    <3> QED
      BY <1>0, <2>2, <3>1, <3>2, SentPut
  <2> QED
    BY <1>1, <2>1, <2>2 DEF enqueue
<1>2. ASSUME NEW w \in Worker, dequeue(w) PROVE ShutdownsSent'
  BY <1>2 DEF dequeue, Get, AwaitNotEmpty, ring, ShutdownsSent
<1>3. ASSUME NEW c \in Client, draw_id(c) PROVE ShutdownsSent'
  BY <1>3 DEF draw_id, bufferVars, ring, ShutdownsSent
<1>4. CASE main_joins_clients \/ main_shuts_down
  BY <1>4 DEF main_joins_clients, main_shuts_down, bufferVars, ring, ShutdownsSent
<1>5. CASE Spurious /\ UNCHANGED <<next_request_id, id, left, pc>>
  BY <1>5 DEF Spurious, ring, ShutdownsSent
<1>6. CASE UNCHANGED vars
  BY <1>6 DEF vars, bufferVars, ring, ShutdownsSent
<1> QED
  BY <1>1, <1>2, <1>3, <1>4, <1>5, <1>6 DEF Next, Step

LEMMA TakenStep ==
  ASSUME IInv, BufferTypeOK(Item)', ShutdownsTaken, [Next]_vars
  PROVE  ShutdownsTaken'
<1>0. Threads /\ received \in Seq(Item) /\ received' \in Seq(Item)
  BY IInvParts DEF BufferTypeOK
<1>1. ASSUME received' = received, \A w \in Worker : pc'[w] = pc[w] PROVE ShutdownsTaken'
  <2>1. Exited' = Exited
    BY <1>1 DEF Exited
  <2> QED
    BY <1>1, <2>1 DEF ShutdownsTaken
<1>2. ASSUME NEW w \in Worker, Get(w), pc[w] = "dequeue",
             Goto(w, IF buffer[out] = Shutdown THEN "exited" ELSE "dequeue")
      PROVE  ShutdownsTaken'
  <2>1. PICK x : x = buffer[out]
    OBVIOUS
  <2>2. /\ received' = Append(received, x)
        /\ pc' = [pc EXCEPT ![w] = IF x = Shutdown THEN "exited" ELSE "dequeue"]
    BY <1>2, <2>1 DEF Get, Goto
  <2>3. x \in Item
    <3>1. /\ received'[Len(received) + 1] = x
          /\ Len(received) + 1 \in 1 .. Len(received')
      BY <1>0, <2>2
    <3> QED
      BY <1>0, <3>1
  <2>4. /\ Cardinality(Shutdowns(received)) \in Nat
        /\ Cardinality(Shutdowns(received')) =
             Cardinality(Shutdowns(received)) + (IF x = Shutdown THEN 1 ELSE 0)
    BY <1>0, <2>2, <2>3, ShutdownsAppended
  <2>5. /\ pc'[w] = IF x = Shutdown THEN "exited" ELSE "dequeue"
        /\ \A v \in Worker : v # w => pc'[v] = pc[v]
    BY <1>0, <2>2 DEF Threads
  <2>6. CASE x = Shutdown
    <3>1. Exited' = Exited \cup {w} /\ w \notin Exited
      BY <1>2, <2>5, <2>6 DEF Exited
    <3>2. Exited \subseteq Worker
      BY DEF Exited
    <3>3. IsFiniteSet(Exited)
      BY <3>2, RequestAssumption, FS_Subset
    <3>4. Cardinality(Exited') = Cardinality(Exited) + 1
      BY <3>1, <3>3, AddOne
    <3> QED
      BY <2>4, <2>6, <3>4 DEF ShutdownsTaken
  <2>7. CASE x # Shutdown
    <3>1. Exited' = Exited
      BY <1>2, <2>5, <2>7 DEF Exited
    <3> QED
      BY <2>4, <2>7, <3>1 DEF ShutdownsTaken
  <2> QED
    BY <2>6, <2>7
<1>3. ASSUME NEW w \in Worker, dequeue(w) PROVE ShutdownsTaken'
  <2>1. CASE AwaitNotEmpty(w) /\ UNCHANGED pc
    BY <1>1, <2>1 DEF AwaitNotEmpty, ring
  <2> QED
    BY <1>2, <1>3, <2>1 DEF dequeue
<1>4. ASSUME NEW t \in Producer, enqueue(t) PROVE ShutdownsTaken'
  <2>1. received' = received
    BY <1>4 DEF enqueue, Put, AwaitNotFull, ring
  <2>2. pc' = pc \/ \E l \in {"shutdown", "client"} : pc' = [pc EXCEPT ![t] = l]
    BY <1>4 DEF enqueue, Goto
  <2>3. \A w \in Worker : pc'[w] = pc[w]
    BY <1>0, <2>2, RequestAssumption DEF Threads, Producer
  <2> QED
    BY <1>1, <2>1, <2>3
<1>5. ASSUME NEW c \in Client, draw_id(c) PROVE ShutdownsTaken'
  <2>1. received' = received /\ pc' = [pc EXCEPT ![c] = "enqueue"]
    BY <1>5 DEF draw_id, Goto, bufferVars, ring
  <2>2. \A w \in Worker : pc'[w] = pc[w]
    BY <1>0, <2>1, RequestAssumption DEF Threads
  <2> QED
    BY <1>1, <2>1, <2>2
<1>6. CASE main_joins_clients \/ main_shuts_down
  <2>1. /\ received' = received
        /\ \E l \in {"shutdown", "enqueue"} : pc' = [pc EXCEPT ![main] = l]
    BY <1>6 DEF main_joins_clients, main_shuts_down, Goto, bufferVars, ring
  <2>2. \A w \in Worker : pc'[w] = pc[w]
    BY <1>0, <2>1, RequestAssumption DEF Threads
  <2> QED
    BY <1>1, <2>1, <2>2
<1>7. CASE Spurious /\ UNCHANGED <<next_request_id, id, left, pc>>
  BY <1>1, <1>7 DEF Spurious, ring
<1>8. CASE UNCHANGED vars
  BY <1>1, <1>8 DEF vars, bufferVars, ring
<1> QED
  BY <1>3, <1>4, <1>5, <1>6, <1>7, <1>8 DEF Next, Step

LEMMA ServiceStep ==
  ASSUME ServiceInv, [Next]_vars
  PROVE  ServiceInv'
<1>0. /\ IInv /\ Prefix /\ Numbered /\ NobodyStranded /\ Threads
      /\ BufferTypeOK(Item) /\ Placed
      /\ Phases /\ ShutdownsSent /\ ShutdownsTaken
  BY IInvParts, NumberedParts, ShutDownParts DEF ServiceInv
<1>1. IInv' /\ BufferTypeOK(Item)'
  BY <1>0, IInvStep DEF IInv, TypeOK
<1>2. Prefix'
  BY <1>0, <1>1, IInvStep, PrefixStep
<1>3. Numbered'
  BY <1>0, NumberedStep
<1>4. Phases' /\ ShutdownsSent' /\ ShutdownsTaken'
  BY <1>0, <1>1, PhasesStep, SentStep, TakenStep
<1>5. ShutDownInOrder'
  BY <1>4 DEF ShutDownInOrder, Phases, ShutdownsSent, ShutdownsTaken, Exited
<1>6. NobodyStranded'
  BY <1>0, StrandedStep
<1> QED
  BY <1>1, <1>2, <1>3, <1>5, <1>6 DEF ServiceInv

LEMMA ServiceInit == Init => ServiceInv
<1> SUFFICES ASSUME Init PROVE ServiceInv
  OBVIOUS
<1>0. /\ sent = << >> /\ received = << >> /\ not_full = {} /\ not_empty = {}
      /\ next_request_id = 1
      /\ \A c \in Client : left[c] = Requests /\ pc[c] = "client"
      /\ left[main] = Cardinality(Worker) /\ pc[main] = "join"
      /\ \A w \in Worker : pc[w] = "dequeue"
  BY RequestAssumption DEF Init, InitBuffer, Producer
<1>1. Prefix /\ NobodyStranded
  BY <1>0 DEF Prefix, NobodyStranded
<1>2. Drawn = {}
  <2>1. \A r \in Client \X (1 .. Requests) : r[1] \in Client /\ r[2] \in 1 .. Requests
    OBVIOUS
  <2> QED
    BY <1>0, <2>1, RequestAssumption DEF Drawn
<1>3. Cardinality(Drawn) = 0
  BY <1>2, FS_EmptySet
<1>4. Numbered
  BY <1>0, <1>3, RequestAssumption DEF Numbered
<1>5. Shutdowns(sent) = {} /\ Shutdowns(received) = {} /\ Exited = {}
  BY <1>0 DEF Shutdowns, Exited
<1>6. Cardinality(Worker) \in Nat
  BY RequestAssumption, FS_CardinalityType
<1>7. Phases /\ ShutdownsSent /\ ShutdownsTaken
  <2>1. Cardinality(Shutdowns(sent)) = 0
    BY <1>5, FS_EmptySet
  <2>2. \A m, n \in DOMAIN sent : m < n /\ sent[m] = Shutdown => sent[n] = Shutdown
    BY <1>0
  <2>3. ShutdownsSent
    BY <1>0, <1>6, <2>1, <2>2 DEF ShutdownsSent
  <2>4. ShutdownsTaken
    BY <1>5 DEF ShutdownsTaken
  <2>5. Phases
    BY <1>0 DEF Phases
  <2> QED
    BY <2>3, <2>4, <2>5
<1>8. ShutDownInOrder
  BY <1>7, ShutDownParts
<1> QED
  BY <1>1, <1>4, <1>8, InitInv DEF ServiceInv

\* When main returns, every worker has taken one of the shutdowns, so nothing
\* was left behind the last one.
LEMMA ServedAll ==
  ASSUME ServiceInv
  PROVE  AllServed
<1> SUFFICES ASSUME Terminated PROVE
      /\ count = 0
      /\ \A m, n \in DOMAIN received :
           received[m] = received[n] /\ received[m] # Shutdown => m = n
      /\ {received[n] : n \in DOMAIN received} \ {Shutdown} = 1 .. Cardinality(Client) * Requests
  BY DEF AllServed
<1>0. /\ IInv /\ Prefix /\ Threads /\ Counted /\ Placed
      /\ BufferTypeOK(Item) /\ Contents
      /\ Phases /\ ShutdownsSent /\ ShutdownsTaken
  BY IInvParts, NumberedParts, ShutDownParts DEF ServiceInv
<1>1. /\ sent \in Seq(Item) /\ received \in Seq(Item)
      /\ Len(sent) \in Nat /\ Len(received) \in Nat
      /\ DOMAIN sent = 1 .. Len(sent) /\ DOMAIN received = 1 .. Len(received)
      /\ Len(received) <= Len(sent)
      /\ \A n \in DOMAIN received : n \in DOMAIN sent /\ received[n] = sent[n]
  BY <1>0 DEF BufferTypeOK, Prefix
<1>2. Shutdowns(received) = Shutdowns(sent) /\ Shutdowns(sent) # {}
  <2>1. Exited = Worker
    BY DEF Terminated, Exited
  <2>2. Cardinality(Worker) \in Nat /\ Cardinality(Worker) # 0
    BY RequestAssumption, FS_CardinalityType, FS_EmptySet
  <2>3. /\ Cardinality(Shutdowns(sent)) = Cardinality(Worker)
        /\ Cardinality(Shutdowns(received)) = Cardinality(Worker)
    BY <1>0, <2>1, <2>2 DEF Terminated, ShutdownsSent, ShutdownsTaken
  <2>4. IsFiniteSet(Shutdowns(sent))
    <3>1. Shutdown \in Item
      BY DEF Item
    <3> QED
      BY <1>1, <3>1, ShutdownsAppended
  <2>5. Shutdowns(received) \subseteq Shutdowns(sent)
    BY <1>1 DEF Shutdowns
  <2>6. Shutdowns(received) = Shutdowns(sent)
    BY <2>3, <2>4, <2>5, FS_Subset
  <2> QED
    BY <2>2, <2>3, <2>6, FS_EmptySet
<1>3. Len(received) = Len(sent)
  <2>0. Len(received) < Len(sent) \/ Len(received) = Len(sent)
    <3>1. Len(sent) \in Nat /\ Len(received) \in Nat /\ Len(received) <= Len(sent)
      BY <1>1
    <3> QED
      BY ONLY <3>1
  <2> SUFFICES ASSUME Len(received) < Len(sent) PROVE FALSE
    BY <2>0
  <2>1. PICK m : m \in Shutdowns(received)
    BY <1>2
  <2>2. m \in 1 .. Len(received) /\ sent[m] = Shutdown
    BY <1>1, <2>1 DEF Shutdowns
  <2>3. Len(sent) \in DOMAIN sent /\ m \in DOMAIN sent /\ m < Len(sent)
    BY <1>1, <2>2
  <2>4. sent[Len(sent)] = Shutdown
    BY <1>0, <2>2, <2>3 DEF ShutdownsSent
  <2>5. Len(sent) \in DOMAIN received
    BY <1>2, <2>3, <2>4 DEF Shutdowns
  <2> QED
    BY <1>1, <2>5
<1>4. count = 0
  BY <1>0, <1>1, <1>3 DEF Contents
<1>5. \A m, n \in DOMAIN received :
        received[m] = received[n] /\ received[m] # Shutdown => m = n
  BY <1>0, <1>1 DEF Placed
<1>6. /\ \A c \in Client : pc[c] = "client" /\ left[c] = 0
      /\ next_request_id \in Nat /\ next_request_id > 0
  BY <1>0 DEF Terminated, Phases, Threads
<1>7. next_request_id - 1 = Cardinality(Client) * Requests
  <2>1. \A r \in Client \X (1 .. Requests) : r[1] \in Client /\ r[2] \in 1 .. Requests
    OBVIOUS
  <2>2. Drawn = Client \X (1 .. Requests)
    BY <1>6, <2>1 DEF Drawn
  <2>3. IsFiniteSet(1 .. Requests) /\ Cardinality(1 .. Requests) = Requests
    BY RequestAssumption, FS_Interval
  <2>4. Cardinality(Drawn) = Cardinality(Client) * Requests
    BY <2>2, <2>3, RequestAssumption, FS_Product
  <2>5. Cardinality(Drawn) \in Nat
    BY DrawnFinite
  <2>6. next_request_id = 1 + Cardinality(Drawn)
    BY <1>0 DEF Counted
  <2> QED
    BY <2>4, <2>5, <2>6
<1>8. {received[n] : n \in DOMAIN received} \ {Shutdown} = 1 .. next_request_id - 1
  <2>1. ASSUME NEW n \in DOMAIN received, received[n] # Shutdown
        PROVE  received[n] \in 1 .. next_request_id - 1
    <3>1. received[n] \in Nat \ {0} /\ received[n] < next_request_id
      BY <1>0, <1>1, <2>1 DEF Placed, Item
    <3> QED
      BY <3>1, <1>6
  <2>2. ASSUME NEW r \in 1 .. next_request_id - 1
        PROVE  r # Shutdown /\ \E n \in DOMAIN received : received[n] = r
    <3>1. \E n \in DOMAIN sent : sent[n] = r
      BY <1>0, <1>6 DEF Placed
    <3>2. r # Shutdown
      BY <1>6 DEF Shutdown
    <3> QED
      BY <1>1, <1>3, <3>1, <3>2
  <2> QED
    BY <2>1, <2>2
<1> QED
  BY <1>4, <1>5, <1>7, <1>8

\* When main of pthread_db.c returns, the workers have processed every
\* request exactly once and the queue is empty.
THEOREM EveryRequestServed == Spec => []AllServed
BY ServiceInit, ServiceStep, ServedAll, PTL DEF Spec

\* enqueue and dequeue of pthread_db.c signal often enough: no request waits
\* while every worker that could take it sleeps, and no free slot while every
\* producer that could fill it does.
THEOREM NobodyIsStranded == Spec => []NobodyStranded
<1>1. ServiceInv => NobodyStranded
  BY DEF ServiceInv
<1> QED
  BY <1>1, ServiceInit, ServiceStep, PTL DEF Spec
-----------------------------------------------------------------------------
(* The producers and consumers of the two other programs. *)

CONSTANTS Producers, Consumers, Each

VARIABLES program, consumed_total, iterator, main_at

PC == INSTANCE ProducerConsumer

Sizes == Producers \in Nat /\ Consumers \in Nat /\ Each \in Nat

\* ProducerConsumer's buffer is the one above.
LEMMA SameBuffer ==
  /\ PC!InitBuffer <=> InitBuffer
  /\ \A t, item : PC!Put(t, item) <=> Put(t, item)
  /\ \A t : PC!Get(t) <=> Get(t)
  /\ \A t : PC!AwaitNotFull(t) <=> AwaitNotFull(t)
  /\ \A t : PC!AwaitNotEmpty(t) <=> AwaitNotEmpty(t)
  /\ PC!Spurious <=> Spurious
  /\ \A I : PC!BufferTypeOK(I) <=> BufferTypeOK(I)
  /\ \A I : PC!BufferTypeOK(I)' <=> BufferTypeOK(I)'
  /\ PC!Contents <=> Contents
  /\ PC!Contents' <=> Contents'
  /\ PC!ring = ring /\ PC!bufferVars = bufferVars
<1>1. PC!InitBuffer <=> InitBuffer
  BY DEF PC!InitBuffer, InitBuffer
<1>2. \A t, item : PC!Put(t, item) <=> Put(t, item)
  BY DEF PC!Put, Put, PC!Slot, Slot, PC!Signalled, Signalled
<1>3. \A t : PC!Get(t) <=> Get(t)
  BY DEF PC!Get, Get, PC!Slot, Slot, PC!Signalled, Signalled
<1>4. PC!ring = ring /\ PC!bufferVars = bufferVars
  BY DEF PC!ring, ring, PC!bufferVars, bufferVars
<1>5. \A t : PC!AwaitNotFull(t) <=> AwaitNotFull(t)
  BY DEF PC!AwaitNotFull, AwaitNotFull, PC!ring, ring
<1>6. \A t : PC!AwaitNotEmpty(t) <=> AwaitNotEmpty(t)
  BY DEF PC!AwaitNotEmpty, AwaitNotEmpty, PC!ring, ring
<1>7. PC!Spurious <=> Spurious
  BY DEF PC!Spurious, Spurious, PC!ring, ring
<1>8. /\ \A I : PC!BufferTypeOK(I) <=> BufferTypeOK(I)
      /\ \A I : PC!BufferTypeOK(I)' <=> BufferTypeOK(I)'
  BY DEF PC!BufferTypeOK, BufferTypeOK
<1>9. /\ PC!Contents <=> Contents
      /\ PC!Contents' <=> Contents'
  BY DEF PC!Contents, Contents, PC!Slot, Slot
<1> QED
  BY <1>1, <1>2, <1>3, <1>4, <1>5, <1>6, <1>7, <1>8, <1>9

\* The items that the producers have put into the buffer.
Produced == {r \in (1 .. Producers) \X (1 .. Each) : r[2] <= iterator[r[1]]}

\* The proofs' inductive invariant of ProducerConsumer: every item sent is one
\* that a producer made, and consumed_total counts the items received; a
\* consumer of the second program does not ask for the end while it waits.
ConsumersInv ==
  /\ PC!TypeOK
  /\ PC!Contents
  /\ program \in {PC!Asks, PC!Queue}
  /\ program = PC!Queue => \A c \in not_empty : pc[c] = "wait loop"
  /\ Len(sent) = Cardinality(Produced)
  /\ consumed_total = Len(received)
  /\ PC!LeavesLast

\* The items of the running program.
Items == {PC!Made(p, n) : p \in 1 .. Producers, n \in 0 .. Each - 1}

\* Its threads.
Roles ==
  /\ not_full \subseteq {p \in 1 .. Producers : iterator[p] < Each}
  /\ not_empty \subseteq {c \in 1 .. Consumers : pc[c] \in {"loop", "wait loop"}}
  /\ iterator \in [1 .. Producers -> 0 .. Each]
  /\ pc \in [1 .. Consumers -> {"loop", "wait loop", "consumed", "finished"}]
  /\ main_at \in {"join producers", "join consumers"}
  /\ program \in {PC!Asks, PC!Queue}
  /\ program = PC!Queue => \A c \in not_empty : pc[c] = "wait loop"

\* The counts.
Balance ==
  /\ Len(sent) = Cardinality(Produced)
  /\ consumed_total = Len(received)
  /\ consumed_total \in 0 .. PC!total_to_produce

LEMMA PCParts ==
  ConsumersInv <=> BufferTypeOK(Items) /\ Contents /\ Roles /\ Balance /\ PC!LeavesLast
<1>1. /\ PC!BufferTypeOK(Items) <=> BufferTypeOK(Items)
      /\ PC!Contents <=> Contents
  BY SameBuffer
<1>2. PC!TypeOK <=>
        PC!BufferTypeOK(Items)
        /\ not_full \subseteq {p \in 1 .. Producers : iterator[p] < Each}
        /\ not_empty \subseteq {c \in 1 .. Consumers : pc[c] \in {"loop", "wait loop"}}
        /\ consumed_total \in 0 .. PC!total_to_produce
        /\ iterator \in [1 .. Producers -> 0 .. Each]
        /\ pc \in [1 .. Consumers -> {"loop", "wait loop", "consumed", "finished"}]
        /\ main_at \in {"join producers", "join consumers"}
  BY DEF PC!TypeOK, Items
<1> HIDE DEF Items
<1> QED
  BY <1>1, <1>2 DEF ConsumersInv, Roles, Balance

\* There are no more items than the producers make.
LEMMA TotalBound ==
  ASSUME Sizes, NEW it \in [1 .. Producers -> 0 .. Each]
  PROVE  LET S == {r \in (1 .. Producers) \X (1 .. Each) : r[2] <= it[r[1]]}
         IN  /\ IsFiniteSet(S) /\ Cardinality(S) \in Nat
             /\ Cardinality(S) <= PC!total_to_produce
             /\ PC!total_to_produce \in Nat
<1> DEFINE S == {r \in (1 .. Producers) \X (1 .. Each) : r[2] <= it[r[1]]}
           A == (1 .. Producers) \X (1 .. Each)
<1>1. /\ IsFiniteSet(1 .. Producers) /\ Cardinality(1 .. Producers) = Producers
      /\ IsFiniteSet(1 .. Each) /\ Cardinality(1 .. Each) = Each
  BY FS_Interval DEF Sizes
<1>2. IsFiniteSet(A) /\ Cardinality(A) = Producers * Each
  <2>1. /\ IsFiniteSet(A)
        /\ Cardinality(A) = Cardinality(1 .. Producers) * Cardinality(1 .. Each)
    BY <1>1, FS_Product
  <2> QED
    BY <1>1, <2>1
<1>3. S \subseteq A
  OBVIOUS
<1>4. /\ IsFiniteSet(S) /\ Cardinality(S) <= Cardinality(A)
      /\ Cardinality(S) \in Nat /\ Cardinality(A) \in Nat
  BY <1>2, <1>3, FS_Subset, FS_CardinalityType
<1>5. PC!total_to_produce = Producers * Each
  BY DEF Sizes, PC!total_to_produce
<1> QED
  BY <1>2, <1>4, <1>5

\* What a step does to the buffer: a producer puts what it has made, a
\* consumer takes, or the ring is left alone.
LEMMA PCRingStep ==
  ASSUME Sizes, Roles, NEW I, I = Items, PC!Next
  PROVE  /\ program' = program /\ Items' = I
         /\ \/ \E p \in 1 .. Producers : \E item \in I : Put(p, item)
            \/ \E c \in 1 .. Consumers : Get(c)
            \/ UNCHANGED ring
<1>0. program' = program
  BY DEF PC!Next, PC!producer, PC!consumer, PC!asking_consumer, PC!queue_consumer, PC!broadcast
<1>1. Items' = I
  BY <1>0 DEF Items, PC!Made
<1>2. ASSUME NEW p \in 1 .. Producers, PC!producer(p)
      PROVE  (\E item \in I : Put(p, item)) \/ UNCHANGED ring
  <2>1. iterator[p] \in 0 .. Each - 1
    <3>1. iterator[p] < Each
      BY <1>2 DEF PC!producer
    <3>2. iterator[p] \in 0 .. Each
      BY DEF Roles
    <3> QED
      BY <3>1, <3>2 DEF Sizes
  <2>2. PC!Made(p, iterator[p]) \in I
    BY <2>1 DEF Items
  <2>3. Put(p, PC!Made(p, iterator[p])) \/ AwaitNotFull(p)
    BY <1>2, SameBuffer DEF PC!producer
  <2> QED
    BY <2>2, <2>3 DEF AwaitNotFull
<1>3. ASSUME NEW c \in 1 .. Consumers, PC!consumer(c)
      PROVE  Get(c) \/ UNCHANGED ring
  <2>1. PC!Get(c) \/ PC!AwaitNotEmpty(c) \/ UNCHANGED PC!bufferVars
    BY <1>3 DEF PC!consumer, PC!asking_consumer, PC!queue_consumer, PC!take_item,
       PC!await_item, PC!finish
  <2>2. AwaitNotEmpty(c) \/ UNCHANGED bufferVars => UNCHANGED ring
    BY DEF AwaitNotEmpty, bufferVars
  <2> QED
    BY <2>1, <2>2, SameBuffer DEF PC!bufferVars, bufferVars, PC!ring, ring
<1>4. PC!broadcast \/ PC!Spurious => UNCHANGED ring
  BY DEF PC!broadcast, PC!Spurious, PC!ring, ring
<1> QED
  BY <1>0, <1>1, <1>2, <1>3, <1>4 DEF PC!Next

LEMMA PCBuffer ==
  ASSUME Sizes, Roles, BufferTypeOK(Items), Contents, PC!Next
  PROVE  BufferTypeOK(Items)' /\ Contents'
<1>0. PICK I : I = Items
  OBVIOUS
<1>1. BufferTypeOK(I)
  BY <1>0
<1>2. BufferTypeOK(I)' /\ Contents'
  BY <1>0, <1>1, PCRingStep, PutStep, GetStep, RingUnchanged
<1>3. Items' = I
  BY <1>0, PCRingStep
<1> QED
  BY <1>2, <1>3 DEF BufferTypeOK

LEMMA RolesProducer ==
  ASSUME Sizes, Roles, NEW p \in 1 .. Producers, PC!producer(p)
  PROVE  Roles'
<1> USE DEF Roles, Sizes
<1>1. CASE Put(p, PC!Made(p, iterator[p])) /\ iterator' = [iterator EXCEPT ![p] = @ + 1]
  <2>1. /\ not_empty' \subseteq not_empty /\ not_full' = not_full /\ p \notin not_full
        /\ pc' = pc /\ main_at' = main_at /\ program' = program
    BY <1>1 DEF Put, Signalled, PC!producer
  <2>2. iterator' \in [1 .. Producers -> 0 .. Each]
    <3>1. iterator[p] < Each
      BY DEF PC!producer
    <3>2. iterator[p] \in 0 .. Each
      OBVIOUS
    <3>3. iterator[p] + 1 \in 0 .. Each
      BY ONLY <3>1, <3>2, Sizes DEF Sizes
    <3> QED
      BY <1>1, <3>3
  <2>3. \A q \in 1 .. Producers : q # p => iterator'[q] = iterator[q]
    BY <1>1
  <2> QED
    BY <2>1, <2>2, <2>3
<1>2. CASE AwaitNotFull(p) /\ UNCHANGED iterator
  BY <1>2 DEF AwaitNotFull, PC!producer
<1> QED
  BY <1>1, <1>2, SameBuffer DEF PC!producer

LEMMA RolesConsumer ==
  ASSUME Sizes, Roles, NEW c \in 1 .. Consumers, PC!consumer(c)
  PROVE  Roles'
<1>1. UNCHANGED <<iterator, main_at, program>>
  BY DEF PC!consumer, PC!asking_consumer, PC!queue_consumer
<1>2. ASSUME NEW l \in {"loop", "wait loop", "consumed", "finished"}, pc' = [pc EXCEPT ![c] = l],
             not_full' \subseteq not_full,
             \/ c \notin not_empty /\ not_empty' = not_empty
             \/ /\ not_empty' = not_empty \cup {c} /\ l \in {"loop", "wait loop"}
                /\ program = PC!Queue => l = "wait loop"
      PROVE  Roles'
  <2>1. /\ pc'[c] = l /\ \A d \in 1 .. Consumers : d # c => pc'[d] = pc[d]
        /\ pc' \in [1 .. Consumers -> {"loop", "wait loop", "consumed", "finished"}]
    BY <1>2 DEF Roles
  <2>2. not_empty' \subseteq {d \in 1 .. Consumers : pc'[d] \in {"loop", "wait loop"}}
    BY <1>2, <2>1 DEF Roles
  <2>3. program' = PC!Queue => \A d \in not_empty' : pc'[d] = "wait loop"
    BY <1>1, <1>2, <2>1 DEF Roles
  <2> QED
    BY <1>1, <1>2, <2>1, <2>2, <2>3 DEF Roles
<1>3. ASSUME NEW l \in {"loop", "consumed"}, PC!take_item(c, l)
      PROVE  Roles'
  <2>1. /\ Get(c) /\ pc' = [pc EXCEPT ![c] = l]
    BY <1>3, SameBuffer DEF PC!take_item
  <2>2. c \notin not_empty /\ not_empty' = not_empty /\ not_full' \subseteq not_full
    BY <2>1 DEF Get, Signalled
  <2> QED
    BY <1>2, <1>3, <2>1, <2>2
<1>4. ASSUME NEW l \in {"loop", "wait loop"}, PC!await_item(c, l),
             program = PC!Queue => l = "wait loop"
      PROVE  Roles'
  <2>1. AwaitNotEmpty(c) /\ pc' = [pc EXCEPT ![c] = l]
    BY <1>4, SameBuffer DEF PC!await_item
  <2>2. not_empty' = not_empty \cup {c} /\ not_full' = not_full
    BY <2>1 DEF AwaitNotEmpty
  <2> QED
    BY <1>2, <1>4, <2>1, <2>2
<1>5. ASSUME NEW l \in {"loop", "finished"}, c \notin not_empty,
             pc' = [pc EXCEPT ![c] = l], UNCHANGED PC!bufferVars
      PROVE  Roles'
  <2>1. not_empty' = not_empty /\ not_full' = not_full
    BY <1>5 DEF PC!bufferVars
  <2> QED
    BY <1>2, <1>5, <2>1
<1>6. pc[c] = "consumed" => c \notin not_empty
  BY DEF Roles
<1>7. CASE PC!asking_consumer(c)
  <2>1. program # PC!Queue
    BY <1>7 DEF PC!asking_consumer, PC!Asks, PC!Queue
  <2> QED
    BY <1>3, <1>4, <1>5, <1>6, <1>7, <2>1 DEF PC!asking_consumer, PC!finish
<1>8. CASE PC!queue_consumer(c)
  <2>1. pc[c] = "loop" => c \notin not_empty
    BY <1>8 DEF Roles, PC!queue_consumer
  <2> QED
    BY <1>3, <1>4, <1>5, <1>8, <2>1 DEF PC!queue_consumer, PC!finish
<1> QED
  BY <1>7, <1>8 DEF PC!consumer

LEMMA RolesStep ==
  ASSUME Sizes, Roles, PC!Next
  PROVE  Roles'
<1>1. CASE PC!broadcast
  BY <1>1 DEF PC!broadcast, Roles
<1>2. CASE PC!Spurious /\ UNCHANGED <<program, consumed_total, iterator, pc, main_at>>
  BY <1>2 DEF PC!Spurious, Roles
<1> QED
  BY <1>1, <1>2, RolesProducer, RolesConsumer DEF PC!Next

\* An item more in the buffer is an item more made.
LEMMA ProducedOne ==
  ASSUME Sizes, Roles, NEW p \in 1 .. Producers, iterator[p] < Each,
         iterator' = [iterator EXCEPT ![p] = @ + 1]
  PROVE  Cardinality(Produced') = Cardinality(Produced) + 1 /\ Cardinality(Produced) \in Nat
<1>1. iterator[p] \in 0 .. Each /\ iterator'[p] = iterator[p] + 1
  BY DEF Roles
<1>2. \A q \in 1 .. Producers : q # p => iterator'[q] = iterator[q]
  BY DEF Roles
<1>3. iterator[p] \in Nat /\ iterator[p] + 1 \in 1 .. Each
  BY <1>1 DEF Sizes
<1> DEFINE x == <<p, iterator[p] + 1>>
<1>4. x \in (1 .. Producers) \X (1 .. Each) /\ x \notin Produced
  BY <1>3 DEF Produced
<1>5. ASSUME NEW r \in (1 .. Producers) \X (1 .. Each)
      PROVE  r \in Produced' <=> r \in Produced \/ r = x
  <2>1. r[1] \in 1 .. Producers /\ r[2] \in 1 .. Each /\ r = <<r[1], r[2]>>
    OBVIOUS
  <2>2. CASE r[1] = p
    <3>1. /\ r \in Produced' <=> r[2] <= iterator[p] + 1
          /\ r \in Produced <=> r[2] <= iterator[p]
      BY <1>1, <2>2 DEF Produced
    <3>2. r = x <=> r[2] = iterator[p] + 1
      BY <2>1, <2>2
    <3>3. r[2] <= iterator[p] + 1 <=> r[2] <= iterator[p] \/ r[2] = iterator[p] + 1
      BY <1>3, <2>1
    <3> QED
      BY <3>1, <3>2, <3>3
  <2>3. CASE r[1] # p
    BY <1>2, <2>1, <2>3 DEF Produced
  <2> QED
    BY <2>2, <2>3
<1>6. Produced' = Produced \cup {x}
  <2>1. /\ Produced' \subseteq (1 .. Producers) \X (1 .. Each)
        /\ Produced \subseteq (1 .. Producers) \X (1 .. Each)
    BY DEF Produced
  <2> HIDE DEF x
  <2> QED
    BY <1>4, <1>5, <2>1
<1>7. IsFiniteSet(Produced)
  BY TotalBound DEF Produced, Roles
<1> HIDE DEF x
<1> QED
  BY <1>4, <1>6, <1>7, AddOne

LEMMA BalanceStep ==
  ASSUME Sizes, Roles, Roles', Balance, BufferTypeOK(Items), BufferTypeOK(Items)',
         Contents, Contents', PC!Next
  PROVE  Balance' /\ consumed_total' >= consumed_total
<1>0. /\ sent \in Seq(Items) /\ received \in Seq(Items) /\ consumed_total \in Nat
      /\ Len(sent) \in Nat /\ Len(received) \in Nat
  BY DEF BufferTypeOK, Balance
<1>1. /\ Len(sent') \in Nat /\ Len(received') \in Nat
      /\ count' \in 0 .. Size /\ count' = Len(sent') - Len(received')
  BY DEF BufferTypeOK, Contents
<1>2. /\ Len(sent') = Cardinality(Produced')
      /\ consumed_total' = Len(received')
      /\ consumed_total' >= consumed_total
  <2>1. ASSUME NEW p \in 1 .. Producers, PC!producer(p),
               Put(p, PC!Made(p, iterator[p])), iterator' = [iterator EXCEPT ![p] = @ + 1]
        PROVE  <1>2!:
    <3>1. Len(sent') = Len(sent) + 1
      BY <1>0, <2>1 DEF Put
    <3>2. received' = received /\ consumed_total' = consumed_total
      BY <2>1 DEF Put, PC!producer
    <3>3. Cardinality(Produced') = Cardinality(Produced) + 1
      BY <2>1, ProducedOne DEF PC!producer
    <3> QED
      BY <1>0, <3>1, <3>2, <3>3 DEF Balance
  <2>2. ASSUME sent' = sent, received' = received, iterator' = iterator,
               consumed_total' = consumed_total
        PROVE  <1>2!:
    <3>1. Produced' = Produced
      BY <2>2 DEF Produced
    <3> QED
      BY <1>0, <2>2, <3>1 DEF Balance
  <2>3. ASSUME NEW p \in 1 .. Producers, PC!producer(p) PROVE <1>2!:
    <3>1. CASE AwaitNotFull(p) /\ UNCHANGED iterator
      BY <2>2, <2>3, <3>1 DEF AwaitNotFull, ring, PC!producer
    <3> QED
      BY <2>1, <2>3, <3>1, SameBuffer DEF PC!producer
  <2>4. ASSUME NEW c \in 1 .. Consumers, NEW l, PC!take_item(c, l), iterator' = iterator
        PROVE  <1>2!:
    <3>1. Get(c) /\ consumed_total' = consumed_total + 1
      BY <2>4, SameBuffer DEF PC!take_item
    <3>2. sent' = sent /\ Len(received') = Len(received) + 1
      BY <1>0, <3>1 DEF Get
    <3>3. Produced' = Produced
      BY <2>4 DEF Produced
    <3> QED
      BY <1>0, <3>1, <3>2, <3>3 DEF Balance
  <2>5. ASSUME NEW c \in 1 .. Consumers, PC!consumer(c) PROVE <1>2!:
    <3>1. iterator' = iterator
      BY <2>5 DEF PC!consumer, PC!asking_consumer, PC!queue_consumer
    <3>2. \/ \E l \in {"loop", "consumed"} : PC!take_item(c, l)
          \/ /\ PC!AwaitNotEmpty(c) \/ UNCHANGED PC!bufferVars
             /\ consumed_total' = consumed_total
      BY <2>5 DEF PC!consumer, PC!asking_consumer, PC!queue_consumer, PC!await_item, PC!finish
    <3>3. PC!AwaitNotEmpty(c) \/ UNCHANGED PC!bufferVars => sent' = sent /\ received' = received
      BY DEF PC!AwaitNotEmpty, PC!bufferVars, PC!ring
    <3> QED
      BY <2>2, <2>4, <3>1, <3>2, <3>3
  <2>6. CASE PC!broadcast
    BY <2>2, <2>6 DEF PC!broadcast, PC!ring
  <2>7. CASE PC!Spurious /\ UNCHANGED <<program, consumed_total, iterator, pc, main_at>>
    BY <2>2, <2>7 DEF PC!Spurious, PC!ring
  <2> QED
    BY <2>3, <2>5, <2>6, <2>7 DEF PC!Next
<1>3. Cardinality(Produced') <= PC!total_to_produce /\ PC!total_to_produce \in Nat
  BY TotalBound DEF Roles, Produced
<1>4. consumed_total' \in 0 .. PC!total_to_produce
  <2>1. Len(received') <= Len(sent')
    BY ONLY <1>1, SizeAssumption
  <2> QED
    BY <1>1, <1>2, <1>3, <2>1
<1> QED
  BY <1>2, <1>4 DEF Balance, PC!total_to_produce

\* A consumer that leaves has seen that everything is consumed, and nothing
\* is consumed after that.
LEMMA LeavesStep ==
  ASSUME Sizes, Roles, Roles', Balance, Balance', PC!LeavesLast, PC!Next,
         Contents', BufferTypeOK(Items)', consumed_total' >= consumed_total
  PROVE  PC!LeavesLast'
<1>1. ASSUME NEW c \in 1 .. Consumers, pc'[c] = "finished"
      PROVE  consumed_total >= PC!total_to_produce
  <2>1. CASE pc[c] = "finished"
    BY <2>1 DEF PC!LeavesLast, Balance
  <2>2. CASE pc[c] # "finished"
    <3>1. pc' # pc
      BY <1>1, <2>2
    <3>2. PICK d \in 1 .. Consumers : PC!consumer(d)
      BY <3>1 DEF PC!Next, PC!producer, PC!broadcast
    <3>3. \E l : pc' = [pc EXCEPT ![d] = l]
      BY <3>2 DEF PC!consumer, PC!asking_consumer, PC!queue_consumer, PC!take_item,
         PC!await_item, PC!finish
    <3>4. d = c
      BY <1>1, <2>2, <3>3 DEF Roles
    <3>5. ASSUME NEW l \in {"loop", "wait loop", "consumed"}, pc' = [pc EXCEPT ![c] = l]
          PROVE  FALSE
      BY <1>1, <3>5 DEF Roles
    <3> QED
      BY <3>2, <3>4, <3>5 DEF PC!consumer, PC!asking_consumer, PC!queue_consumer,
         PC!take_item, PC!await_item
  <2> QED
    BY <2>1, <2>2
<1>2. /\ Len(sent') \in Nat /\ Len(received') \in Nat
      /\ count' \in 0 .. Size /\ count' = Len(sent') - Len(received')
  BY DEF BufferTypeOK, Contents
<1>3. /\ Cardinality(Produced') <= PC!total_to_produce /\ PC!total_to_produce \in Nat
      /\ Len(sent') = Cardinality(Produced') /\ consumed_total' = Len(received')
      /\ consumed_total \in Nat
      /\ PC!total_to_produce' = PC!total_to_produce
  <2>1. Cardinality(Produced') <= PC!total_to_produce /\ PC!total_to_produce \in Nat
    BY TotalBound DEF Roles, Produced
  <2>2. /\ Len(sent') = Cardinality(Produced') /\ consumed_total' = Len(received')
        /\ consumed_total \in 0 .. PC!total_to_produce
    BY DEF Balance
  <2>3. PC!total_to_produce' = PC!total_to_produce
    BY DEF PC!total_to_produce
  <2> QED
    BY <2>1, <2>2, <2>3
<1>4. ASSUME consumed_total >= PC!total_to_produce
      PROVE  consumed_total' = PC!total_to_produce /\ count' = 0
  BY ONLY <1>2, <1>3, <1>4, SizeAssumption, consumed_total' >= consumed_total
<1> QED
  BY <1>1, <1>3, <1>4 DEF PC!LeavesLast

LEMMA PCPartsNext ==
  ASSUME BufferTypeOK(Items)', Contents', Roles', Balance', PC!LeavesLast'
  PROVE  ConsumersInv'
<1>1. PC!BufferTypeOK(Items)' /\ PC!Contents'
  BY DEF PC!BufferTypeOK, BufferTypeOK, PC!Contents, Contents, PC!Slot, Slot
<1>2. PC!TypeOK'
  <2>1. PC!TypeOK' <=>
          PC!BufferTypeOK(Items)'
          /\ not_full' \subseteq {p \in 1 .. Producers : iterator'[p] < Each}
          /\ not_empty' \subseteq {c \in 1 .. Consumers : pc'[c] \in {"loop", "wait loop"}}
          /\ consumed_total' \in 0 .. PC!total_to_produce'
          /\ iterator' \in [1 .. Producers -> 0 .. Each]
          /\ pc' \in [1 .. Consumers -> {"loop", "wait loop", "consumed", "finished"}]
          /\ main_at' \in {"join producers", "join consumers"}
    BY DEF PC!TypeOK, Items
  <2> QED
    BY <1>1, <2>1 DEF Roles, Balance
<1> QED
  BY <1>1, <1>2 DEF ConsumersInv, Roles, Balance

LEMMA ConsumersStep ==
  ASSUME Sizes, ConsumersInv, PC!Next
  PROVE  ConsumersInv'
<1>1. BufferTypeOK(Items) /\ Contents /\ Roles /\ Balance /\ PC!LeavesLast
  BY PCParts
<1>2. BufferTypeOK(Items)' /\ Contents' /\ Roles'
  BY <1>1, PCBuffer, RolesStep
<1>3. Balance' /\ consumed_total' >= consumed_total
  BY <1>1, <1>2, BalanceStep
<1>4. PC!LeavesLast'
  BY <1>1, <1>2, <1>3, LeavesStep
<1> QED
  BY <1>2, <1>3, <1>4, PCPartsNext

\* The same for a step that changes nothing.
LEMMA ConsumersStutter ==
  ASSUME ConsumersInv, UNCHANGED PC!vars
  PROVE  ConsumersInv'
<1>1. BufferTypeOK(Items) /\ Contents /\ Roles /\ Balance /\ PC!LeavesLast
  BY PCParts
<1>2. /\ UNCHANGED ring /\ UNCHANGED <<not_full, not_empty, count, sent, received>>
      /\ UNCHANGED <<program, consumed_total, iterator, pc, main_at>>
  BY DEF PC!vars, PC!bufferVars, PC!ring, ring
<1>3. Items' = Items
  BY <1>2 DEF Items, PC!Made
<1>4. BufferTypeOK(Items)' /\ Contents'
  BY <1>1, <1>2, <1>3 DEF BufferTypeOK, Contents, ring
<1>5. Roles'
  BY <1>1, <1>2 DEF Roles
<1>6. Produced' = Produced
  BY <1>2 DEF Produced
<1>7. Balance'
  BY <1>1, <1>2, <1>6 DEF Balance, PC!total_to_produce
<1>8. PC!LeavesLast'
  BY <1>1, <1>2 DEF PC!LeavesLast, PC!total_to_produce
<1> QED
  BY <1>4, <1>5, <1>7, <1>8, PCPartsNext

LEMMA ConsumersInit ==
  ASSUME Sizes, PC!Init
  PROVE  ConsumersInv
<1>0. /\ buffer \in [0 .. Size - 1 -> {0}]
      /\ in = 0 /\ out = 0 /\ count = 0 /\ not_full = {} /\ not_empty = {}
      /\ sent = << >> /\ received = << >>
  BY SizeAssumption DEF PC!Init, PC!InitBuffer
<1>a. /\ iterator \in [1 .. Producers -> 0 .. Each]
      /\ \A p \in 1 .. Producers : iterator[p] = 0
      /\ \A c \in 1 .. Consumers : pc[c] = "loop"
      /\ pc \in [1 .. Consumers -> {"loop", "wait loop", "consumed", "finished"}]
  <2>1. iterator = [p \in 1 .. Producers |-> 0]
    BY DEF PC!Init
  <2>2. 0 \in 0 .. Each
    BY DEF Sizes
  <2>3. pc = [c \in 1 .. Consumers |-> "loop"]
    BY DEF PC!Init
  <2>4. /\ iterator \in [1 .. Producers -> 0 .. Each]
        /\ \A p \in 1 .. Producers : iterator[p] = 0
    BY ONLY <2>1, <2>2
  <2>5. /\ \A c \in 1 .. Consumers : pc[c] = "loop"
        /\ pc \in [1 .. Consumers -> {"loop", "wait loop", "consumed", "finished"}]
    BY ONLY <2>3
  <2> QED
    BY <2>4, <2>5
<1>b. consumed_total = 0 /\ main_at = "join producers" /\ program \in {PC!Asks, PC!Queue}
  BY DEF PC!Init
<1>1. BufferTypeOK(Items)
  <2>1. buffer \in [0 .. Size - 1 -> Items \cup {0}]
    BY <1>0
  <2> QED
    BY <1>0, <2>1, SizeAssumption DEF BufferTypeOK
<1>2. Contents
  <2>1. Slot(0) = 0
    BY Wrap, SizeAssumption DEF Slot
  <2> QED
    BY <1>0, <2>1 DEF Contents
<1>3. Roles
  BY <1>0, <1>a, <1>b DEF Roles
<1>4. Produced = {}
  <2>1. \A r \in (1 .. Producers) \X (1 .. Each) : r[1] \in 1 .. Producers /\ r[2] \in 1 .. Each
    OBVIOUS
  <2>2. \A r \in (1 .. Producers) \X (1 .. Each) : ~(r[2] <= iterator[r[1]])
    <3>1. \A p \in 1 .. Producers : iterator[p] = 0
      BY <1>a
    <3>2. \A n \in 1 .. Each : ~(n <= 0)
      BY DEF Sizes
    <3> QED
      BY ONLY <2>1, <3>1, <3>2
  <2> QED
    BY <2>2 DEF Produced
<1>5. Balance
  <2>1. Cardinality(Produced) = 0
    BY <1>4, FS_EmptySet
  <2>2. PC!total_to_produce \in Nat
    BY DEF PC!total_to_produce, Sizes
  <2>3. Len(sent) = 0 /\ Len(received) = 0
    BY <1>0
  <2>4. consumed_total = 0
    BY <1>b
  <2> QED
    BY ONLY <2>1, <2>2, <2>3, <2>4 DEF Balance
<1>6. PC!LeavesLast
  BY <1>a DEF PC!LeavesLast
<1> QED
  BY <1>1, <1>2, <1>3, <1>5, <1>6, PCParts
=============================================================================
