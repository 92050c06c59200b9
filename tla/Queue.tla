------------------------------- MODULE Queue --------------------------------
(***************************************************************************)
(* QUEUE.C: a singly linked list with a head, a tail and a count, whose    *)
(* nodes come from malloc and go back with free.  Every use of a queue by  *)
(* the thread library happens with the timer signal blocked (the one that  *)
(* does not is module EpilogueRace), so each call is one step here.        *)
(*                                                                         *)
(* The ghost variable cells names the nodes of the list in order, and the  *)
(* invariant says that the pointers agree with it.  Definitions named      *)
(* "Bad..." are faulty variants of the one below them.                     *)
(***************************************************************************)
EXTENDS Integers, Sequences

CONSTANTS
  Nodes,     \* addresses malloc may return for a queueObj
  Objects,   \* what the caller stores: thread control blocks
  NULL

ASSUME QueueAssumption ==
  /\ NULL \notin Nodes \cup Objects
  /\ {"TRUE", "FALSE"} \cap (Objects \cup {NULL}) = {}

VARIABLES
  head, tail, numObj,   \* the Queue_t
  obj, next,            \* the queueObj at each address
  allocated,            \* addresses in use
  valid,                \* q points to a Queue_t
  crashed,              \* a null pointer was dereferenced
  ret,                  \* what the last call returned
  cells,                \* ghost: the nodes of the list, first to last
  lost                  \* ghost: nodes the list held when it was destroyed

heap      == <<obj, next, allocated>>
queueVars == <<head, tail, numObj, obj, next, allocated, valid, crashed, ret,
               cells, lost>>

-----------------------------------------------------------------------------

QueueInit ==
  /\ head = NULL /\ tail = NULL /\ numObj = 0
  /\ obj = [n \in Nodes |-> NULL]
  /\ next = [n \in Nodes |-> NULL]
  /\ allocated = {}
  /\ valid = FALSE
  /\ crashed = FALSE
  /\ ret = NULL
  /\ cells = <<>>
  /\ lost = {}

Call == valid /\ ~crashed

\* malloc may also fail; q stays NULL then.
q_create ==
  /\ ~valid /\ ~crashed
  /\ ret' = NULL
  /\ \/ /\ valid' = TRUE
        /\ head' = NULL /\ tail' = NULL /\ numObj' = 0
     \/ UNCHANGED <<head, tail, numObj, valid>>
  /\ UNCHANGED <<heap, crashed, cells, lost>>

\* Only the Queue_t is freed, not the nodes.
q_destroy ==
  /\ Call
  /\ valid' = FALSE
  /\ ret' = NULL
  /\ lost' = lost \cup {cells[i] : i \in 1 .. Len(cells)}
  /\ cells' = <<>>
  /\ UNCHANGED <<head, tail, numObj, heap, crashed>>

BadLink(n) == next' = [next EXCEPT ![n] = NULL]

\* the stores to the next fields when node n is appended
Link(n) ==
  next' = [m \in Nodes |-> CASE m = tail -> n
                             [] m = n /\ m # tail -> NULL
                             [] OTHER -> next[m]]

q_insert(o) ==
  /\ Call
  /\ ret' = NULL
  /\ \/ \E n \in Nodes \ allocated :
          /\ allocated' = allocated \cup {n}
          /\ obj' = [obj EXCEPT ![n] = o]
          /\ Link(n)
          /\ tail' = n
          /\ head' = IF head = NULL THEN n ELSE head
          /\ numObj' = numObj + 1
          /\ cells' = Append(cells, n)
     \/ UNCHANGED <<head, tail, numObj, heap, cells>>    \* malloc failed
  /\ UNCHANGED <<valid, crashed, lost>>

\* the tail once the first node is gone
TailAfterRemove == IF next[head] = NULL THEN NULL ELSE tail

BadAfterFree == allocated

\* free(temp)
AfterFree == allocated \ {head}

BadAnswerNode == head
BadAnswerLast == obj[tail]

\* temp->obj
Answer == obj[head]

q_remove ==
  /\ Call
  /\ head # NULL
  /\ head' = next[head]
  /\ numObj' = numObj - 1
  /\ tail' = TailAfterRemove
  /\ ret' = Answer
  /\ allocated' = AfterFree
  /\ cells' = Tail(cells)
  /\ UNCHANGED <<obj, next, valid, crashed, lost>>

\* q->head->next when the list is empty, where QUEUE.H promises NULL
q_remove_empty ==
  /\ Call
  /\ head = NULL
  /\ crashed' = TRUE
  /\ UNCHANGED <<head, tail, numObj, heap, valid, ret, cells, lost>>

q_is_empty ==
  /\ Call
  /\ ret' = IF numObj = 0 THEN "TRUE" ELSE "FALSE"
  /\ UNCHANGED <<head, tail, numObj, heap, valid, crashed, cells, lost>>

dead == crashed /\ UNCHANGED queueVars

QueueNext ==
  \/ \E o \in Objects : q_insert(o)
  \/ q_create \/ q_destroy \/ q_remove \/ q_remove_empty \/ q_is_empty
  \/ dead

QueueSpec == QueueInit /\ [][QueueNext]_queueVars

-----------------------------------------------------------------------------
(* Properties. *)

\* The pointers form one list: head and tail are its ends, every next leads to
\* the node after it, no node is in it twice, and numObj is its length.
ListShape ==
  valid =>
    /\ numObj = Len(cells)
    /\ head = IF cells = <<>> THEN NULL ELSE cells[1]
    /\ tail = IF cells = <<>> THEN NULL ELSE cells[Len(cells)]
    /\ \A i \in 1 .. Len(cells) :
         next[cells[i]] = IF i = Len(cells) THEN NULL ELSE cells[i + 1]
    /\ \A i, j \in 1 .. Len(cells) : cells[i] = cells[j] => i = j

\* No node of the list was freed, and no other is kept, except those that
\* q_destroy left behind (the warning in QUEUE.H).
NoLeakNoDangling ==
  allocated = lost \cup {cells[i] : i \in 1 .. Len(cells)}

TypeOK ==
  /\ cells \in Seq(Nodes)
  /\ head \in Nodes \cup {NULL} /\ tail \in Nodes \cup {NULL}
  /\ numObj \in Int
  /\ obj \in [Nodes -> Objects \cup {NULL}]
  /\ next \in [Nodes -> Nodes \cup {NULL}]
  /\ allocated \subseteq Nodes /\ lost \subseteq Nodes
  /\ valid \in BOOLEAN /\ crashed \in BOOLEAN
  /\ ret \in Objects \cup {NULL, "TRUE", "FALSE"}

\* The objects in the nodes, and what the last call returned if it did return.
List == INSTANCE Fifo WITH
          Nothing <- NULL,
          items <- [i \in 1 .. Len(cells) |-> obj[cells[i]]],
          answer <- IF crashed THEN "crash" ELSE ret

\* q_remove did not return NULL for an empty queue but dereferenced it.
RemovesFromEmpty == head = NULL /\ ~crashed /\ crashed'

\* Every call does to the list what QUEUE.H says and answers what it says, but
\* for the q_remove of an empty queue: callers have to know that there is
\* something to remove.
IsFifo == List!FifoInit /\ [][List!FifoNext \/ RemovesFromEmpty]_(List!fifoVars)
=============================================================================
