------------------------------- MODULE HashMap -------------------------------
(***************************************************************************)
(* libs/map.c: buckets of linked lists, doubled when they get crowded.     *)
(* Every map of the programs is used under its owner's mutex, so each      *)
(* operation is one step.  A map is the record of the C structure; bucket  *)
(* b of the array is buckets[b + 1], a sequence that begins with the first *)
(* item of the list.                                                       *)
(*                                                                         *)
(* Keys are plates of six characters, for which strcmp and strncmp with 6  *)
(* both test equality.                                                     *)
(***************************************************************************)
EXTENDS Integers, FiniteSets, SequencesExt

CONSTANTS
  Keys, Values,
  Hash,          \* djb_hash of each key
  initial_size,
  Absent

(* What the module takes for granted of its constants.  Who gives them     *)
(* values assumes it.                                                      *)
HashAssumption ==
  /\ Hash \in [Keys -> Nat]
  /\ initial_size \in Nat \ {0}
  /\ Absent \notin Keys \union Values

VARIABLES
  map,     \* [size, items, buckets]
  call,    \* history: the last operation and its arguments
  result,  \* what it returned
  exited   \* the message of an exit(-1), or "none"

vars == <<map, call, result, exited>>

EmptyMap(size) ==
  [size |-> size, items |-> 0, buckets |-> [b \in 1 .. size |-> <<>>]]

Nothing == [key |-> Absent, value |-> Absent]

Init ==
  /\ map = EmptyMap(initial_size)
  /\ call = <<"init">>
  /\ result = Nothing
  /\ exited = "none"

-----------------------------------------------------------------------------
(* The operations as functions of a map.                                   *)

get_index(m, k) == Hash[k] % m.size
Bucket(m, k) == get_index(m, k) + 1

(* The place of a key in its list, 0 if it is not there. *)
internal_search(m, k) ==
  SelectInSeq(m.buckets[Bucket(m, k)], LAMBDA item : item.key = k)

search(m, k) ==
  LET i == internal_search(m, k)
  IN  IF i = 0 THEN Nothing ELSE m.buckets[Bucket(m, k)][i]

(* Mutant: the list is not searched. *)
internal_insert_blindly(m, item) ==
  [m EXCEPT !.buckets[Bucket(m, item.key)] = Cons(item, @), !.items = @ + 1]

internal_insert(m, item) ==
  LET b == Bucket(m, item.key)
      i == internal_search(m, item.key)
  IN  IF i # 0
      THEN [m EXCEPT !.buckets[b][i].value = item.value]
      ELSE [m EXCEPT !.buckets[b] = Cons(item, @), !.items = @ + 1]

(* The items of the first buckets, in the order of a walk through them. *)
Walk(m) ==
  LET walk[b \in 0 .. m.size] == IF b = 0 THEN <<>> ELSE walk[b - 1] \o m.buckets[b]
  IN  walk

AllItems(m) == Walk(m)[m.size]

(* Mutant: the lists keep their buckets. *)
grow_map_in_place(m) ==
  [m EXCEPT !.size = 2 * @, !.buckets = @ \o EmptyMap(m.size).buckets]

(* Every item is inserted into an empty map twice as large. *)
grow_map(m) ==
  LET grown[i \in 0 .. Len(AllItems(m))] ==
        IF i = 0 THEN EmptyMap(2 * m.size) ELSE internal_insert(grown[i - 1], AllItems(m)[i])
  IN  grown[Len(AllItems(m))]

(* items / size >= GROW_DENSITY, tested before the item is added. *)
TooDense(m) == 4 * m.items >= 3 * m.size

insert(m, k, v) ==
  internal_insert(IF TooDense(m) THEN grow_map(m) ELSE m, [key |-> k, value |-> v])

(* The i-th item of a list is unlinked. *)
Unlink(m, b, i) == [m EXCEPT !.buckets[b] = RemoveAt(@, i), !.items = @ - 1]

remove_key(m, k) ==
  LET i == internal_search(m, k)
  IN  IF i = 0 THEN m ELSE Unlink(m, Bucket(m, k), i)

-----------------------------------------------------------------------------
(* One action per operation of map.h.                                      *)

Insert(k, v) ==
  /\ exited = "none"
  /\ call' = <<"insert", k, v>>
  /\ result' = search(map, k)
  /\ map' = insert(map, k, v)
  /\ UNCHANGED exited

RemoveKey(k) ==
  /\ exited = "none"
  /\ IF map.items = 0
     THEN exited' = "items is zero" /\ UNCHANGED <<map, call, result>>
     ELSE /\ call' = <<"remove", k>>
          /\ result' = search(map, k)
          /\ map' = remove_key(map, k)
          /\ UNCHANGED exited

(* search and exists *)
Search(k) ==
  /\ exited = "none"
  /\ call' = <<"search", k>>
  /\ result' = search(map, k)
  /\ UNCHANGED <<map, exited>>

(* Walks the buckets until it has seen a random number of items. *)
GetRandomItem ==
  /\ exited = "none"
  /\ call' = <<"get_random_item">>
  /\ \/ /\ map.items = 0
        /\ result' = Nothing
        /\ UNCHANGED <<map, exited>>
     \/ \E item_n \in 1 .. map.items :
          IF item_n > Len(AllItems(map))
          THEN exited' = "we shouldn't be here" /\ UNCHANGED <<map, result>>
          ELSE \E b \in 1 .. map.size, i \in 1 .. item_n :
                 /\ i <= Len(map.buckets[b])
                 /\ Len(Walk(map)[b - 1]) + i = item_n
                 /\ result' = map.buckets[b][i]
                 /\ map' = Unlink(map, b, i)
                 /\ UNCHANGED exited

Next ==
  \/ \E k \in Keys : RemoveKey(k) \/ Search(k) \/ \E v \in Values : Insert(k, v)
  \/ GetRandomItem

Spec == Init /\ [][Next]_vars

-----------------------------------------------------------------------------
(* Properties.                                                             *)

Item == [key : Keys, value : Values]

(* Variables keep their types; the array has the length the map thinks. *)
TypeOK ==
  /\ map.size \in Nat \ {0} /\ map.items \in Nat
  /\ Len(map.buckets) = map.size
  /\ \A b \in 1 .. map.size : map.buckets[b] \in Seq(Item)
  /\ result \in Item \union {Nothing}
  /\ exited \in {"none", "items is zero", "we shouldn't be here"}

(* The items of the map stay where get_index looks for them, through every *)
(* growth, and no key is in the map twice: a key in a wrong bucket would   *)
(* be lost, one in two would outlive its removal.  items counts them, so   *)
(* the random walk finds the one it wants ("we shouldn't be here",         *)
(* map.c:109), and the map grows before it is crowded: at most one item is *)
(* beyond three quarters of the buckets (map.h:8).                         *)
MapSound ==
  /\ TypeOK
  /\ \A b \in 1 .. map.size : \A i \in DOMAIN map.buckets[b] :
       Bucket(map, map.buckets[b][i].key) = b
  /\ \A k \in Keys :
       Cardinality({i \in DOMAIN AllItems(map) : AllItems(map)[i].key = k}) <= 1
  /\ map.items = Len(AllItems(map))
  /\ exited # "we shouldn't be here"
  /\ 4 * (map.items - 1) < 3 * map.size

(* The value of every key, which is all that a caller can see of a map. *)
Store ==
  [k \in Keys |-> search(map, k).value]

KV == INSTANCE KeyValueMap WITH store <- Store

(* Whatever the history of growth and collisions, each operation changes   *)
(* and returns what an abstract map would, unless it ends the program.     *)
ImplementsMap == KV!Spec
=============================================================================
