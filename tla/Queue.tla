-------------------------------- MODULE Queue --------------------------------
(***************************************************************************)
(* libs/queue.c: a doubly linked list with a head and a tail.  Every queue *)
(* of the simulator is used under its own mutex, so an operation is one    *)
(* step.  Nodes come from malloc and go back with free; a node that is     *)
(* free again keeps its old contents, and reading them would be an error.  *)
(***************************************************************************)
EXTENDS Naturals, Sequences, FiniteSets

CONSTANTS
  Nodes,   \* the memory that malloc may return
  Values,  \* plates
  None     \* NULL

(* What the module takes for granted of its constants.  Who gives them     *)
(* values assumes it.                                                      *)
NodesAssumption == IsFiniteSet(Nodes) /\ None \notin Nodes \union Values

VARIABLES
  head, tail,
  next, prev, rego,  \* the fields of each node
  allocated,         \* nodes that malloc has returned and free has not got
  last,              \* history: the last operation, what went in or came out
  misused            \* a free node was read, written or freed, or an
                     \* assertion failed

fields == <<next, prev, rego>>
vars == <<head, tail, fields, allocated, last, misused>>

init_queue ==
  /\ head = None
  /\ tail = None
  /\ next = [n \in Nodes |-> None]
  /\ prev = [n \in Nodes |-> None]
  /\ rego = [n \in Nodes |-> None]
  /\ allocated = {}
  /\ last = <<"init", None>>
  /\ misused = FALSE

Misuse(touched) == misused' = (misused \/ ~(touched \subseteq allocated))

(* Mutant: the new node keeps the link that its memory had. *)
LinkKeepsNext(node, behind) ==
  /\ next' = IF behind = None THEN next ELSE [next EXCEPT ![behind] = node]
  /\ prev' = [prev EXCEPT ![node] = behind]

(* Mutant: the last node is not linked to the new one. *)
LinkBackOnly(node, behind) ==
  /\ next' = [next EXCEPT ![node] = None]
  /\ prev' = [prev EXCEPT ![node] = behind]

(* The new node becomes the successor of behind, if there is one. *)
Link(node, behind) ==
  /\ next' = IF behind = None THEN [next EXCEPT ![node] = None]
             ELSE [next EXCEPT ![behind] = node, ![node] = None]
  /\ prev' = [prev EXCEPT ![node] = behind]

Store(node, v) == rego' = [rego EXCEPT ![node] = v]

push(v) ==
  \E node \in Nodes \ allocated :
    /\ allocated' = allocated \union {node}
    /\ Store(node, v)
    /\ tail' = node
    /\ IF head = None
       THEN head' = node /\ Link(node, None) /\ UNCHANGED misused
       ELSE Misuse({tail}) /\ Link(node, tail) /\ UNCHANGED head
    /\ last' = <<"push", v>>

(* Asserts that an empty queue has no tail either. *)
PopEmpty ==
  /\ head = None
  /\ last' = <<"pop", None>>
  /\ misused' = (misused \/ tail # None)
  /\ UNCHANGED <<head, tail, fields, allocated>>

(* Frees the tail, not the head. *)
PopLast ==
  /\ head # None /\ next[head] = None
  /\ last' = <<"pop", rego[head]>>
  /\ Misuse({head, tail})
  /\ allocated' = allocated \ {tail}
  /\ head' = None
  /\ tail' = None
  /\ UNCHANGED fields

PopFirst ==
  /\ head # None /\ next[head] # None
  /\ last' = <<"pop", rego[head]>>
  /\ Misuse({head, next[head]})
  /\ prev' = [prev EXCEPT ![next[head]] = None]
  /\ allocated' = allocated \ {head}
  /\ head' = next[head]
  /\ UNCHANGED <<tail, next, rego>>

pop == PopEmpty \/ PopLast \/ PopFirst

Next == pop \/ \E v \in Values : push(v)

Spec == init_queue /\ [][Next]_vars

-----------------------------------------------------------------------------
(* Properties.                                                             *)

Capacity == Cardinality(Nodes)

(* The node at each place of the list, following next; None behind it. *)
NodeAt[i \in 1 .. Capacity + 1] ==
  IF i = 1 THEN head
  ELSE IF NodeAt[i - 1] = None THEN None ELSE next[NodeAt[i - 1]]

(* The places of the list that hold a node. *)
Places == {i \in 1 .. Capacity + 1 : NodeAt[i] # None}

(* Variables keep their types, and every node of the list holds a plate,   *)
(* as the last assertion of pop demands.                                   *)
TypeOK ==
  /\ head \in Nodes \union {None} /\ tail \in Nodes \union {None}
  /\ next \in [Nodes -> Nodes \union {None}]
  /\ prev \in [Nodes -> Nodes \union {None}]
  /\ rego \in [Nodes -> Values \union {None}]
  /\ \A n \in allocated : rego[n] # None
  /\ allocated \subseteq Nodes
  /\ last \in {"init", "push", "pop"} \X (Values \union {None})
  /\ misused \in BOOLEAN

(* The list is sound in both directions: it ends, its last node is the     *)
(* tail, prev undoes next, and it holds every node that was allocated, so  *)
(* no node is leaked (queue.c:34-43 and 57-72).  No operation touches a    *)
(* node that was given back.                                               *)
ListSound ==
  /\ TypeOK
  /\ NodeAt[Capacity + 1] = None
  /\ {NodeAt[i] : i \in Places} = allocated
  /\ tail = IF head = None THEN None ELSE NodeAt[Cardinality(Places)]
  /\ \A i \in Places : prev[NodeAt[i]] = IF i = 1 THEN None ELSE NodeAt[i - 1]
  /\ ~misused

Contents == [i \in 1 .. Cardinality(Places) |-> rego[NodeAt[i]]]

F == INSTANCE Fifo WITH queue <- Contents

(* Plates come out in the order they went in, whatever nodes malloc        *)
(* returns: cars leave through an exit in the order they reached it.       *)
ImplementsFifo == F!Spec
=============================================================================
