----------------------------- MODULE KeyValueMap -----------------------------
(***************************************************************************)
(* What map.h promises: a map from keys to values, and what each operation *)
(* tells its caller.  No operation ends the program.                       *)
(***************************************************************************)
CONSTANTS
  Keys, Values,
  Absent   \* the value of a key that is not in the map

VARIABLES
  store,   \* the value of each key
  call,    \* the last operation and its arguments
  result   \* what it returned: a key and its value, if any

Init ==
  /\ store = [k \in Keys |-> Absent]
  /\ call = <<"init">>
  /\ result = [key |-> Absent, value |-> Absent]

Found(k) ==
  [key |-> IF store[k] = Absent THEN Absent ELSE k, value |-> store[k]]

Insert(k, v) ==
  /\ call' = <<"insert", k, v>>
  /\ result' = Found(k)
  /\ store' = [store EXCEPT ![k] = v]

Remove(k) ==
  /\ call' = <<"remove", k>>
  /\ result' = Found(k)
  /\ store' = [store EXCEPT ![k] = Absent]

Lookup(k) ==
  /\ call' = <<"search", k>>
  /\ result' = Found(k)
  /\ UNCHANGED store

(* Any key that is in the map, which it then is no more. *)
TakeAny ==
  /\ call' = <<"get_random_item">>
  /\ \/ /\ \A k \in Keys : store[k] = Absent
        /\ result' = [key |-> Absent, value |-> Absent]
        /\ UNCHANGED store
     \/ \E k \in Keys :
          /\ store[k] # Absent
          /\ result' = Found(k)
          /\ store' = [store EXCEPT ![k] = Absent]

Next ==
  \/ \E k \in Keys : Remove(k) \/ Lookup(k) \/ \E v \in Values : Insert(k, v)
  \/ TakeAny

Spec == Init /\ [][Next]_<<store, call, result>>
=============================================================================
