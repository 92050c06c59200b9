---------------------------- MODULE QueueProofs -----------------------------
(***************************************************************************)
(* Proofs about QUEUE.C (module Queue), for every set of node addresses    *)
(* and of objects: types, the shape of the list, what malloc has handed    *)
(* out, and that the calls implement the first-in first-out queue of       *)
(* module Fifo, but for q_remove of an empty queue.                        *)
(***************************************************************************)
EXTENDS Queue, SequenceTheorems, TLAPS

\* No list is left once q_destroy has freed the Queue_t.
Forgotten == ~valid => cells = <<>>

\* A node left behind by q_destroy is never in a list again: it is not free.
Retired == \A i \in 1 .. Len(cells) : cells[i] \notin lost

\* Every node of the list was filled by the q_insert that linked it.
Filled == \A i \in 1 .. Len(cells) : obj[cells[i]] \in Objects

\* The inductive invariant.
QueueInv ==
  /\ TypeOK
  /\ ListShape
  /\ NoLeakNoDangling
  /\ Forgotten
  /\ Retired
  /\ Filled

-----------------------------------------------------------------------------
(* Sequences. *)

\* what Append makes of a sequence of nodes
LEMMA AppendNode ==
  ASSUME NEW c \in Seq(Nodes), NEW n \in Nodes
  PROVE  /\ Append(c, n) \in Seq(Nodes)
         /\ Len(Append(c, n)) = Len(c) + 1
         /\ \A i \in 1 .. Len(c) + 1 :
              Append(c, n)[i] = IF i <= Len(c) THEN c[i] ELSE n
  BY AppendProperties, LenProperties

\* what Tail leaves of a non-empty sequence of nodes
LEMMA TailNodes ==
  ASSUME NEW c \in Seq(Nodes), c # <<>>
  PROVE  /\ Len(c) \in Nat \ {0}
         /\ Tail(c) \in Seq(Nodes)
         /\ Len(Tail(c)) = Len(c) - 1
         /\ \A i \in 1 .. Len(c) - 1 : Tail(c)[i] = c[i + 1]
  BY HeadTailProperties, EmptySeq

\* A node that malloc hands out is in no list, and in none that was destroyed.
LEMMA FreshNode ==
  ASSUME QueueInv, NEW n \in Nodes \ allocated
  PROVE  /\ n \notin lost
         /\ \A i \in 1 .. Len(cells) : cells[i] # n
  BY DEF QueueInv, NoLeakNoDangling

\* The stores to the next fields, for a node that is not the tail already.
LEMMA LinkStores ==
  ASSUME NEW n \in Nodes, Link(n), n # tail
  PROVE  next' = [m \in Nodes |-> IF m = tail THEN n
                                  ELSE IF m = n THEN NULL ELSE next[m]]
  BY Zenon DEF Link

-----------------------------------------------------------------------------
(* The invariant. *)

LEMMA QueueStart == QueueInit => QueueInv
  <1> SUFFICES ASSUME QueueInit PROVE QueueInv
    OBVIOUS
  <1>1. cells = <<>> /\ Len(cells) = 0 /\ cells \in Seq(Nodes)
    BY EmptySeq DEF QueueInit
  <1>2. TypeOK
    <2>1. valid \in BOOLEAN /\ crashed \in BOOLEAN
      BY Zenon DEF QueueInit
    <2>2. /\ obj \in [Nodes -> Objects \cup {NULL}]
          /\ next \in [Nodes -> Nodes \cup {NULL}]
      BY DEF QueueInit
    <2>3. /\ head \in Nodes \cup {NULL} /\ tail \in Nodes \cup {NULL}
          /\ numObj \in Int /\ allocated \subseteq Nodes /\ lost \subseteq Nodes
          /\ ret \in Objects \cup {NULL, "TRUE", "FALSE"}
      BY DEF QueueInit
    <2> QED
      BY <1>1, <2>1, <2>2, <2>3 DEF TypeOK
  <1>3. ListShape /\ Forgotten /\ Retired /\ Filled
    BY <1>1 DEF QueueInit, ListShape, Forgotten, Retired, Filled
  <1>4. NoLeakNoDangling
    <2>1. {cells[i] : i \in 1 .. Len(cells)} = {}
      BY <1>1
    <2> QED
      BY <2>1 DEF QueueInit, NoLeakNoDangling
  <1> QED
    BY <1>2, <1>3, <1>4 DEF QueueInv

LEMMA KeptByCreate == QueueInv /\ q_create => QueueInv'
  <1> SUFFICES ASSUME QueueInv, q_create PROVE QueueInv'
    OBVIOUS
  <1>1. cells = <<>> /\ Len(cells) = 0
    BY EmptySeq DEF QueueInv, Forgotten, q_create
  <1>2. TypeOK'
    <2>1. UNCHANGED <<obj, next, allocated, crashed, cells, lost>>
      BY DEF q_create, heap
    <2>2. /\ head' \in Nodes \cup {NULL} /\ tail' \in Nodes \cup {NULL}
          /\ numObj' \in Int /\ ret' = NULL
      BY DEF q_create, QueueInv, TypeOK
    <2>3. valid' \in BOOLEAN
      BY Zenon DEF q_create, QueueInv, TypeOK
    <2> QED
      BY <2>1, <2>2, <2>3 DEF QueueInv, TypeOK
  <1>3. ListShape' /\ Forgotten' /\ Retired' /\ Filled'
    BY <1>1 DEF q_create, ListShape, Forgotten, Retired, Filled
  <1>4. NoLeakNoDangling'
    BY DEF q_create, QueueInv, NoLeakNoDangling, heap
  <1> QED
    BY <1>2, <1>3, <1>4 DEF QueueInv

LEMMA KeptByDestroy == QueueInv /\ q_destroy => QueueInv'
  <1> SUFFICES ASSUME QueueInv, q_destroy PROVE QueueInv'
    OBVIOUS
  <1>1. cells' = <<>> /\ Len(cells') = 0 /\ cells' \in Seq(Nodes)
    BY EmptySeq DEF q_destroy
  <1>2. \A i \in 1 .. Len(cells) : cells[i] \in Nodes
    BY ElementOfSeq DEF QueueInv, TypeOK
  <1>3. TypeOK'
    <2>1. lost' \subseteq Nodes
      BY <1>2 DEF q_destroy, QueueInv, TypeOK
    <2> QED
      BY <1>1, <2>1 DEF q_destroy, QueueInv, TypeOK, heap
  <1>4. ListShape' /\ Forgotten' /\ Retired' /\ Filled'
    BY <1>1 DEF q_destroy, ListShape, Forgotten, Retired, Filled
  <1>5. NoLeakNoDangling'
    <2>1. {cells'[i] : i \in 1 .. Len(cells')} = {}
      BY <1>1
    <2> QED
      BY <2>1 DEF q_destroy, QueueInv, NoLeakNoDangling, heap
  <1> QED
    BY <1>3, <1>4, <1>5 DEF QueueInv

\* The new node becomes the last one.
LEMMA KeptByLink ==
  ASSUME QueueInv, NEW o \in Objects, NEW n \in Nodes \ allocated,
         Call,
         ret' = NULL,
         allocated' = allocated \cup {n},
         obj' = [obj EXCEPT ![n] = o],
         Link(n),
         tail' = n,
         head' = IF head = NULL THEN n ELSE head,
         numObj' = numObj + 1,
         cells' = Append(cells, n),
         UNCHANGED <<valid, crashed, lost>>
  PROVE  QueueInv'
  <1> DEFINE L == Len(cells)
  <1>1. /\ L \in Nat
        /\ cells' \in Seq(Nodes)
        /\ Len(cells') = L + 1
        /\ \A i \in 1 .. L + 1 :
             cells'[i] = IF i <= L THEN cells[i] ELSE n
        /\ \A i \in 1 .. L : cells[i] \in Nodes
        /\ (cells = <<>>) <=> L = 0
    BY AppendNode, LenProperties, EmptySeq, ElementOfSeq DEF QueueInv, TypeOK
  <1>2. n \notin lost /\ \A i \in 1 .. L : cells[i] # n
    BY FreshNode
  <1>3. cells' # <<>>
    BY <1>1, EmptySeq
  <1>0. /\ n # tail
        /\ next' = [m \in Nodes |-> IF m = tail THEN n
                                    ELSE IF m = n THEN NULL ELSE next[m]]
    <2>1. n # tail
      BY <1>1, <1>2, QueueAssumption DEF QueueInv, ListShape, Call
    <2> QED
      BY <2>1, LinkStores
  <1>4. TypeOK'
    BY <1>0, <1>1, QueueAssumption DEF QueueInv, TypeOK
  <1>5. ListShape'
    <2>1. numObj' = Len(cells')
      BY <1>1 DEF QueueInv, ListShape, Call
    <2>2. head' = cells'[1]
      BY <1>1, QueueAssumption DEF QueueInv, ListShape, Call
    <2>3. tail' = cells'[Len(cells')]
      BY <1>1
    <2>4. ASSUME NEW i \in 1 .. L + 1
          PROVE  next'[cells'[i]] =
                   IF i = Len(cells') THEN NULL ELSE cells'[i + 1]
      <3>1. CASE i = L + 1
        BY <1>0, <1>1, <3>1
      <3>2. CASE i = L
        <4>1. cells'[i] = tail
          BY <1>1, <3>2 DEF QueueInv, ListShape, Call
        <4> QED
          BY <1>0, <1>1, <3>2, <4>1
      <3>3. CASE i < L
        <4>1. cells'[i] = cells[i] /\ cells'[i + 1] = cells[i + 1]
          BY <1>1, <3>3
        <4>2. cells[i] # tail /\ cells[i] # n
          BY <1>1, <1>2, <3>3 DEF QueueInv, ListShape, Call
        <4>3. next[cells[i]] = cells[i + 1]
          BY <1>1, <3>3 DEF QueueInv, ListShape, Call
        <4> QED
          BY <1>0, <1>1, <3>3, <4>1, <4>2, <4>3
      <3> QED
        BY <1>1, <3>1, <3>2, <3>3
    <2>5. ASSUME NEW i \in 1 .. L + 1, NEW j \in 1 .. L + 1,
                 cells'[i] = cells'[j]
          PROVE  i = j
      <3>1. \A k, m \in 1 .. L : cells[k] = cells[m] => k = m
        BY DEF QueueInv, ListShape, Call
      <3> QED
        BY <1>1, <1>2, <2>5, <3>1
    <2> QED
      BY <1>1, <1>3, <2>1, <2>2, <2>3, <2>4, <2>5 DEF ListShape
  <1>6. NoLeakNoDangling'
    <2>1. {cells'[i] : i \in 1 .. Len(cells')} =
          {cells[i] : i \in 1 .. L} \cup {n}
      BY <1>1
    <2> QED
      BY <2>1 DEF QueueInv, NoLeakNoDangling
  <1>7. Forgotten' /\ Retired' /\ Filled'
    BY <1>1, <1>2 DEF QueueInv, TypeOK, Call, Forgotten, Retired, Filled
  <1> QED
    BY <1>4, <1>5, <1>6, <1>7 DEF QueueInv

LEMMA KeptByInsert == \A o \in Objects : QueueInv /\ q_insert(o) => QueueInv'
  <1> SUFFICES ASSUME NEW o \in Objects, QueueInv, q_insert(o)
               PROVE  QueueInv'
    OBVIOUS
  <1>1. CASE \E n \in Nodes \ allocated :
               /\ allocated' = allocated \cup {n}
               /\ obj' = [obj EXCEPT ![n] = o]
               /\ Link(n)
               /\ tail' = n
               /\ head' = IF head = NULL THEN n ELSE head
               /\ numObj' = numObj + 1
               /\ cells' = Append(cells, n)
    BY <1>1, KeptByLink DEF q_insert
  <1>2. CASE UNCHANGED <<head, tail, numObj, heap, cells>>
    <2>1. TypeOK'
      BY <1>2 DEF q_insert, QueueInv, TypeOK, heap
    <2>2. ListShape' /\ NoLeakNoDangling'
      BY <1>2 DEF q_insert, QueueInv, ListShape, NoLeakNoDangling, heap
    <2> QED
      BY <1>2, <2>1, <2>2
      DEF q_insert, QueueInv, Forgotten, Retired, Filled, heap
  <1> QED
    BY <1>1, <1>2 DEF q_insert

LEMMA KeptByRemove == QueueInv /\ q_remove => QueueInv'
  <1> SUFFICES ASSUME QueueInv, q_remove PROVE QueueInv'
    OBVIOUS
  <1> DEFINE L == Len(cells)
  <1>0. cells # <<>>
    BY DEF QueueInv, ListShape, q_remove, Call
  <1>1. /\ L \in Nat \ {0}
        /\ cells' \in Seq(Nodes)
        /\ Len(cells') = L - 1
        /\ \A i \in 1 .. L - 1 : cells'[i] = cells[i + 1]
        /\ \A i \in 1 .. L : cells[i] \in Nodes
        /\ (cells' = <<>>) <=> L = 1
    <2>1. cells \in Seq(Nodes) /\ cells' = Tail(cells)
      BY DEF QueueInv, TypeOK, q_remove
    <2>2. \A i \in 1 .. L : cells[i] \in Nodes
      BY <2>1, ElementOfSeq
    <2>3. /\ L \in Nat \ {0}
          /\ cells' \in Seq(Nodes)
          /\ Len(cells') = L - 1
          /\ \A i \in 1 .. L - 1 : cells'[i] = cells[i + 1]
      BY <1>0, <2>1, TailNodes
    <2>4. (cells' = <<>>) <=> Len(cells') = 0
      BY <2>3, EmptySeq
    <2> QED
      BY <2>2, <2>3, <2>4
  <1>2. /\ numObj = L /\ head = cells[1] /\ tail = cells[L]
        /\ \A i \in 1 .. L : next[cells[i]] =
                               IF i = L THEN NULL ELSE cells[i + 1]
        /\ \A i, j \in 1 .. L : cells[i] = cells[j] => i = j
    BY <1>0 DEF QueueInv, ListShape, q_remove, Call
  <1>3. /\ next[head] = IF L = 1 THEN NULL ELSE cells[2]
        /\ head' = next[head]
    <2>1. 1 \in 1 .. L /\ 1 + 1 = 2
      BY <1>1
    <2>2. next[cells[1]] = IF 1 = L THEN NULL ELSE cells[1 + 1]
      BY <1>2, <2>1
    <2> QED
      BY <1>2, <2>1, <2>2 DEF q_remove
  <1>4. tail' = IF L = 1 THEN NULL ELSE cells[L]
    <2>2. L # 1 => cells[2] # NULL
      BY <1>1, QueueAssumption
    <2>3. tail' = IF next[head] = NULL THEN NULL ELSE cells[L]
      BY <1>2 DEF q_remove, TailAfterRemove
    <2> QED
      BY <1>3, <2>2, <2>3
  <1>5. UNCHANGED <<next, obj, lost, valid, crashed>> /\ valid
    BY DEF q_remove, Call
  <1>6. TypeOK'
    <2>1. ret' \in Objects
      <3>1. 1 \in 1 .. L
        BY <1>1
      <3>2. obj[cells[1]] \in Objects
        BY <3>1 DEF QueueInv, Filled
      <3> QED
        BY <1>2, <3>2 DEF q_remove, Answer
    <2>2. allocated' \subseteq Nodes /\ numObj' \in Int
      BY DEF q_remove, AfterFree, QueueInv, TypeOK
    <2>3. head' \in Nodes \cup {NULL} /\ tail' \in Nodes \cup {NULL}
      BY <1>1, <1>3, <1>4
    <2> QED
      BY <1>1, <1>5, <2>1, <2>2, <2>3 DEF QueueInv, TypeOK
  <1>7. ListShape'
    <2>1. /\ numObj' = Len(cells')
          /\ head' = IF cells' = <<>> THEN NULL ELSE cells'[1]
          /\ tail' = IF cells' = <<>> THEN NULL ELSE cells'[Len(cells')]
      <3>1. numObj' = Len(cells')
        BY <1>1, <1>2 DEF q_remove
      <3>2. L # 1 => cells'[1] = cells[2] /\ cells'[L - 1] = cells[L]
        BY <1>1
      <3> QED
        BY <1>1, <1>3, <1>4, <3>1, <3>2
    <2>2. \A i \in 1 .. Len(cells') :
            next'[cells'[i]] = IF i = Len(cells') THEN NULL ELSE cells'[i + 1]
      <3> SUFFICES ASSUME NEW i \in 1 .. L - 1
                   PROVE  next'[cells'[i]] =
                            IF i = L - 1 THEN NULL ELSE cells'[i + 1]
        BY <1>1
      <3>1. /\ i + 1 \in 1 .. L /\ cells'[i] = cells[i + 1]
            /\ i # L - 1 => cells'[i + 1] = cells[(i + 1) + 1]
        BY <1>1
      <3>2. next[cells[i + 1]] =
              IF i + 1 = L THEN NULL ELSE cells[(i + 1) + 1]
        BY <1>2, <3>1
      <3> QED
        BY <1>1, <1>5, <3>1, <3>2
    <2>3. \A i, j \in 1 .. Len(cells') : cells'[i] = cells'[j] => i = j
      <3> SUFFICES ASSUME NEW i \in 1 .. L - 1, NEW j \in 1 .. L - 1,
                          cells'[i] = cells'[j]
                   PROVE  i = j
        BY <1>1
      <3>1. i + 1 \in 1 .. L /\ j + 1 \in 1 .. L
        BY <1>1
      <3>2. cells[i + 1] = cells[j + 1]
        BY <1>1
      <3> QED
        BY <1>2, <3>1, <3>2
    <2> QED
      BY <2>1, <2>2, <2>3 DEF ListShape
  <1>8. NoLeakNoDangling'
    <2> DEFINE All == {cells[i] : i \in 1 .. L}
               Rest == {cells'[i] : i \in 1 .. Len(cells')}
    <2>1. Rest = All \ {cells[1]}
      <3>1. ASSUME NEW n \in Rest PROVE n \in All \ {cells[1]}
        <4>1. PICK i \in 1 .. L - 1 : n = cells[i + 1]
          BY <1>1, <3>1
        <4>2. i + 1 \in 1 .. L /\ i + 1 # 1 /\ 1 \in 1 .. L
          BY <1>1
        <4> QED
          BY <1>2, <4>1, <4>2
      <3>2. ASSUME NEW n \in All \ {cells[1]} PROVE n \in Rest
        <4>1. PICK i \in 1 .. L : n = cells[i]
          BY <3>2
        <4>2. i - 1 \in 1 .. L - 1 /\ cells'[i - 1] = cells[(i - 1) + 1]
          BY <1>1, <3>2, <4>1
        <4> QED
          BY <1>1, <4>1, <4>2
      <3> QED
        BY <3>1, <3>2
    <2>2. cells[1] \notin lost
      BY <1>1 DEF QueueInv, Retired
    <2>3. allocated = lost \cup All /\ allocated' = allocated \ {cells[1]}
      BY <1>2 DEF QueueInv, NoLeakNoDangling, q_remove, AfterFree
    <2> HIDE DEF All, Rest
    <2>4. allocated' = lost \cup Rest
      BY <2>1, <2>2, <2>3
    <2> QED
      BY <1>5, <2>4 DEF NoLeakNoDangling, Rest
  <1>9. Forgotten' /\ Retired' /\ Filled'
    BY <1>1, <1>5 DEF QueueInv, Forgotten, Retired, Filled
  <1> QED
    BY <1>6, <1>7, <1>8, <1>9 DEF QueueInv

\* The calls that only look, and the one that dereferences a null pointer.
LEMMA KeptByOthers ==
  QueueInv /\ (q_remove_empty \/ q_is_empty \/ dead \/ UNCHANGED queueVars)
    => QueueInv'
  <1> SUFFICES ASSUME QueueInv,
                      q_remove_empty \/ q_is_empty \/ dead
                        \/ UNCHANGED queueVars
               PROVE  QueueInv'
    OBVIOUS
  <1>1. UNCHANGED <<head, tail, numObj, obj, next, allocated, valid, cells,
                    lost>>
    BY DEF q_remove_empty, q_is_empty, dead, queueVars, heap
  <1>2. /\ crashed' \in BOOLEAN
        /\ ret' \in Objects \cup {NULL, "TRUE", "FALSE"}
    BY DEF q_remove_empty, q_is_empty, dead, queueVars, QueueInv, TypeOK
  <1>3. TypeOK'
    BY <1>1, <1>2 DEF QueueInv, TypeOK
  <1>4. ListShape' /\ NoLeakNoDangling'
    BY <1>1 DEF QueueInv, ListShape, NoLeakNoDangling
  <1> QED
    BY <1>1, <1>3, <1>4 DEF QueueInv, Forgotten, Retired, Filled

LEMMA QueueKept == QueueInv /\ [QueueNext]_queueVars => QueueInv'
  BY KeptByInsert, KeptByCreate, KeptByDestroy, KeptByRemove, KeptByOthers
  DEF QueueNext

LEMMA QueueAlways == QueueSpec => []QueueInv
  BY QueueStart, QueueKept, PTL DEF QueueSpec

\* The pointers, the count and the flags of a queue keep their types.
THEOREM QueueTypes == QueueSpec => []TypeOK
  <1>1. QueueInv => TypeOK
    BY DEF QueueInv
  <1> QED
    BY <1>1, QueueAlways, PTL

\* Whatever is inserted, removed, created and destroyed, and however malloc
\* fails, the pointers form one list with its two ends and its length.
THEOREM QueueIsList == QueueSpec => []ListShape
  <1>1. QueueInv => ListShape
    BY DEF QueueInv
  <1> QED
    BY <1>1, QueueAlways, PTL

\* q_remove frees exactly the node it unlinks: no node of the list was freed,
\* and none is kept but those of a list destroyed while it was not empty.
THEOREM QueueMemory == QueueSpec => []NoLeakNoDangling
  <1>1. QueueInv => NoLeakNoDangling
    BY DEF QueueInv
  <1> QED
    BY <1>1, QueueAlways, PTL

-----------------------------------------------------------------------------
(* The calls implement the queue of module Fifo: each is a step of it, or    *)
(* leaves the list of objects and the answer alone.                          *)

\* the abstract queue: the objects in the nodes of the list
Items == [i \in 1 .. Len(cells) |-> obj[cells[i]]]

\* two sequences of objects of one length with the same elements
LEMMA SameItems ==
  ASSUME NEW L \in Nat, NEW f \in [1 .. L -> Objects],
         NEW s \in Seq(Objects), Len(s) = L,
         \A i \in 1 .. L : f[i] = s[i]
  PROVE  f = s
  <1>1. f \in Seq(Objects) /\ Len(f) = L
    BY SMT
  <1> QED
    BY <1>1, SeqEqual

LEMMA ItemsType ==
  ASSUME QueueInv
  PROVE  /\ Items \in Seq(Objects)
         /\ Len(Items) = Len(cells)
         /\ (Items = <<>>) <=> (cells = <<>>)
  <1>1. Len(cells) \in Nat /\ (cells = <<>> <=> Len(cells) = 0)
    BY LenProperties, EmptySeq DEF QueueInv, TypeOK
  <1>2. Items \in Seq(Objects) /\ Len(Items) = Len(cells)
    BY <1>1 DEF QueueInv, Filled, Items
  <1>3. Items = <<>> <=> Len(Items) = 0
    BY <1>2, EmptySeq
  <1> QED
    BY <1>1, <1>2, <1>3

\* q_insert that gets a node: Put.
LEMMA LinkIsPut ==
  ASSUME QueueInv, NEW o \in Objects, NEW n \in Nodes \ allocated,
         ~crashed', ret' = NULL, obj' = [obj EXCEPT ![n] = o],
         cells' = Append(cells, n)
  PROVE  List!Put(o)
  <1> DEFINE L == Len(cells)
  <1>1. /\ L \in Nat
        /\ Len(cells') = L + 1
        /\ \A i \in 1 .. L + 1 :
             cells'[i] = IF i <= L THEN cells[i] ELSE n
        /\ \A i \in 1 .. L : cells[i] \in Nodes /\ cells[i] # n
    BY AppendNode, LenProperties, ElementOfSeq, FreshNode
    DEF QueueInv, TypeOK
  <1>2. \A i \in 1 .. L + 1 :
          obj'[cells'[i]] = IF i <= L THEN obj[cells[i]] ELSE o
    BY <1>1 DEF QueueInv, TypeOK
  <1>3. Items' = [i \in 1 .. L + 1 |-> IF i <= L THEN obj[cells[i]] ELSE o]
    BY <1>1, <1>2 DEF Items
  <1>4. /\ Append(Items, o) \in Seq(Objects)
        /\ Len(Append(Items, o)) = L + 1
        /\ \A i \in 1 .. L + 1 :
             Append(Items, o)[i] = IF i <= L THEN obj[cells[i]] ELSE o
    <2>1. /\ Append(Items, o) \in Seq(Objects)
          /\ Len(Append(Items, o)) = L + 1
          /\ \A i \in 1 .. L : Append(Items, o)[i] = Items[i]
          /\ Append(Items, o)[L + 1] = o
      BY ItemsType, AppendProperties
    <2>2. \A i \in 1 .. L : Items[i] = obj[cells[i]]
      BY DEF Items
    <2> QED
      BY <1>1, <2>1, <2>2
  <1>5. Items' \in [1 .. L + 1 -> Objects]
    BY <1>1, <1>3 DEF QueueInv, Filled
  <1>6. Items' = Append(Items, o)
    <2>1. \A i \in 1 .. L + 1 : Items'[i] = Append(Items, o)[i]
      BY <1>3, <1>4
    <2>2. L + 1 \in Nat
      BY <1>1
    <2> QED
      BY <1>4, <1>5, <2>1, <2>2, SameItems
  <1> QED
    BY <1>6 DEF List!Put, Items

\* q_remove: Take.
LEMMA RemoveIsTake ==
  ASSUME QueueInv, q_remove
  PROVE  List!Take
  <1> DEFINE L == Len(cells)
  <1>1. cells # <<>> /\ head = cells[1] /\ cells' = Tail(cells) /\ obj' = obj
    BY DEF QueueInv, ListShape, q_remove, Call
  <1>2. /\ L \in Nat \ {0}
        /\ Len(cells') = L - 1
        /\ \A i \in 1 .. L - 1 : cells'[i] = cells[i + 1]
    BY <1>1, TailNodes DEF QueueInv, TypeOK
  <1>3. /\ Items \in Seq(Objects) /\ Items # <<>> /\ Len(Items) = L
        /\ \A i \in 1 .. L : Items[i] = obj[cells[i]]
    BY <1>1, ItemsType DEF Items
  <1>4. ret' = Head(Items)
    <2>1. Head(Items) = Items[1]
      BY <1>3
    <2> QED
      BY <1>1, <1>2, <1>3, <2>1 DEF q_remove, Answer
  <1>6. ~crashed'
    BY DEF q_remove, Call
  <1>5. Items' = Tail(Items)
    <2>1. Items' = [i \in 1 .. L - 1 |-> obj[cells[i + 1]]]
      BY <1>1, <1>2 DEF Items
    <2>2. /\ Tail(Items) \in Seq(Objects)
          /\ Len(Tail(Items)) = L - 1
          /\ \A i \in 1 .. L - 1 : Tail(Items)[i] = Items[i + 1]
      BY <1>3, HeadTailProperties
    <2>3. \A i \in 1 .. L - 1 : obj[cells[i + 1]] \in Objects
      BY <1>2 DEF QueueInv, Filled
    <2>4. Items' \in [1 .. L - 1 -> Objects]
      BY <2>1, <2>3
    <2>5. \A i \in 1 .. L - 1 : Items'[i] = Tail(Items)[i]
      BY <1>2, <1>3, <2>1, <2>2
    <2>6. L - 1 \in Nat
      BY <1>2
    <2> QED
      BY <2>2, <2>4, <2>5, <2>6, SameItems
  <1> QED
    BY <1>3, <1>4, <1>5, <1>6 DEF List!Take, Items

\* q_destroy: Drop.
LEMMA DestroyIsDrop ==
  ASSUME QueueInv, q_destroy
  PROVE  List!Drop
  <1>1. cells' = <<>> /\ Len(cells') = 0
    BY EmptySeq DEF q_destroy
  <1>2. Items' = <<>>
    BY <1>1 DEF Items
  <1>3. ~crashed' /\ ret' = NULL
    BY DEF q_destroy, Call
  <1> QED
    BY <1>2, <1>3 DEF List!Drop, Items

\* q_is_empty: Probe.
LEMMA IsEmptyIsProbe ==
  ASSUME QueueInv, q_is_empty
  PROVE  List!Probe
  <1>1. numObj = 0 <=> cells = <<>>
    BY LenProperties, EmptySeq
    DEF QueueInv, TypeOK, ListShape, q_is_empty, Call
  <1>2. Items' = Items
    BY DEF Items, q_is_empty, heap
  <1>3. ret' = IF Items = <<>> THEN "TRUE" ELSE "FALSE"
    BY <1>1, ItemsType DEF q_is_empty
  <1>4. ~crashed'
    BY DEF q_is_empty, Call
  <1> QED
    BY <1>2, <1>3, <1>4 DEF List!Probe, Items

LEMMA QueueStepMaps ==
  QueueInv /\ [QueueNext]_queueVars
    => [List!FifoNext \/ RemovesFromEmpty]_(List!fifoVars)
  <1> SUFFICES ASSUME QueueInv, [QueueNext]_queueVars
               PROVE  \/ List!FifoNext
                      \/ RemovesFromEmpty
                      \/ UNCHANGED List!fifoVars
    OBVIOUS
  <1>1. ASSUME UNCHANGED <<obj, cells>>, ret' = NULL, ~crashed'
        PROVE  List!FifoNext
    BY <1>1 DEF List!FifoNext, List!Refuse
  <1>2. ASSUME UNCHANGED <<obj, cells, ret, crashed>>
        PROVE  UNCHANGED List!fifoVars
    BY <1>2 DEF List!fifoVars
  <1>3. ASSUME NEW o \in Objects, q_insert(o)
        PROVE  List!FifoNext
    <2>0. ~crashed' /\ ret' = NULL
      BY <1>3 DEF q_insert, Call
    <2>1. CASE \E n \in Nodes \ allocated :
                 obj' = [obj EXCEPT ![n] = o] /\ cells' = Append(cells, n)
      <3>1. List!Put(o)
        BY <2>0, <2>1, LinkIsPut
      <3> QED
        BY <3>1 DEF List!FifoNext
    <2>2. CASE UNCHANGED <<heap, cells>>
      BY <1>1, <2>0, <2>2 DEF heap
    <2> QED
      BY <1>3, <2>1, <2>2 DEF q_insert
  <1>4. CASE q_create
    BY <1>1, <1>4 DEF q_create, heap
  <1>5. CASE q_destroy
    BY <1>5, DestroyIsDrop DEF List!FifoNext
  <1>6. CASE q_remove
    BY <1>6, RemoveIsTake DEF List!FifoNext
  <1>7. CASE q_is_empty
    BY <1>7, IsEmptyIsProbe DEF List!FifoNext
  <1>8. CASE q_remove_empty
    BY <1>8 DEF q_remove_empty, RemovesFromEmpty, Call
  <1>9. CASE dead \/ UNCHANGED queueVars
    BY <1>2, <1>9 DEF dead, queueVars, heap
  <1> QED
    BY <1>3, <1>4, <1>5, <1>6, <1>7, <1>8, <1>9 DEF QueueNext

\* QUEUE.C is a first-in first-out queue of objects: q_insert appends or, when
\* malloc fails, does nothing, q_remove answers the oldest object, q_is_empty
\* tells whether there is one, q_destroy forgets them all.  One case does not
\* keep the promise of QUEUE.H and is excepted by name: q_remove of an empty
\* queue, which is to return NULL and dereferences it (QUEUE.C:83).
THEOREM QueueIsFifo == QueueSpec => IsFifo
  <1>1. QueueInit => List!FifoInit
    <2> SUFFICES ASSUME QueueInit PROVE List!FifoInit
      OBVIOUS
    <2>1. cells = <<>> /\ Len(cells) = 0
      BY EmptySeq DEF QueueInit
    <2>2. Items = <<>>
      BY <2>1 DEF Items
    <2>3. ~crashed /\ ret = NULL
      BY DEF QueueInit
    <2> QED
      BY <2>2, <2>3 DEF List!FifoInit, Items
  <1> QED
    BY <1>1, QueueAlways, QueueStepMaps, PTL DEF QueueSpec, IsFifo
=============================================================================
