------------------------------- MODULE Simulator -------------------------------
(***************************************************************************)
(* The simulator's own data (simulator.c, simulator_funcs.c): which plates *)
(* drive around, and the threads that pass them on.  One generator thread  *)
(* sends plates to the entrance queues, one thread per entrance presents   *)
(* them to the manager, every admitted car is a thread of its own that     *)
(* visits levels and queues up at an exit, and one thread per exit takes   *)
(* it out.                                                                 *)
(*                                                                         *)
(* Every section under maps.m or the mutex of a queue is one step: nothing *)
(* blocks inside, and rand_m is only ever the innermost lock.  Where the   *)
(* code leaves one section and enters another, so does the model.  The     *)
(* hand-over to the manager is one step here; modules EntranceGate,        *)
(* LevelReader and ExitGate show it call by call.                          *)
(***************************************************************************)
EXTENDS Integers, Sequences, FiniteSets

CONSTANTS
  Entrances, Exits,
  Plates,     \* every plate that generate_rego may come up with
  AllowList,  \* the plates of plates.txt
  None        \* no plate

ASSUME PlatesAssumption ==
  AllowList \subseteq Plates /\ None \notin Plates \union (0 .. 4)

VARIABLES
  outside,         \* maps.outside: allowed cars that may be sent in
  inside,          \* maps.inside: plates in circulation
  generating,      \* where the generator is: "choose", "insert" or "push"
  rego,            \* the generator's plate
  entrance_queues,
  head,            \* the car in front of each entrance
  visits,          \* levels visited by each car thread, None without a thread
  exit_queues,
  leaving,         \* the car in front of each exit
  exited           \* remove_key found an empty map and ended the process

generator == <<generating, rego>>
gates == <<entrance_queues, head, exit_queues, leaving>>
vars == <<outside, inside, generator, gates, visits, exited>>

Init ==
  /\ outside = AllowList
  /\ inside = {}
  /\ generating = "choose"
  /\ rego = None
  /\ entrance_queues = [e \in Entrances |-> <<>>]
  /\ head = [e \in Entrances |-> None]
  /\ visits = [r \in Plates |-> None]
  /\ exit_queues = [x \in Exits |-> <<>>]
  /\ leaving = [x \in Exits |-> None]
  /\ exited = FALSE

(* remove_key exits the process when the map has no key at all; a key that *)
(* is missing from a map with others is ignored.                           *)
remove_inside(r) ==
  /\ exited' = (inside = {})
  /\ inside' = inside \ {r}

Running == ~exited

-----------------------------------------------------------------------------
(* generator and get_next_rego.                                            *)

(* Takes an allowed car out of one map; it gets into the other map later. *)
TakeOutside(r) ==
  /\ Running /\ generating = "choose"
  /\ r \in outside
  /\ outside' = outside \ {r}
  /\ rego' = r
  /\ generating' = "insert"
  /\ UNCHANGED <<inside, gates, visits, exited>>

(* Mutant: only the cars inside are looked up. *)
GenerateKnownPlate(r) ==
  /\ Running /\ generating = "choose"
  /\ r \notin inside
  /\ rego' = r
  /\ generating' = "insert"
  /\ UNCHANGED <<outside, inside, gates, visits, exited>>

(* Random plates until one is in neither map.  The program also does this  *)
(* by choice, with cars left outside.                                      *)
GeneratePlate(r) ==
  /\ Running /\ generating = "choose"
  /\ r \notin inside \union outside
  /\ rego' = r
  /\ generating' = "insert"
  /\ UNCHANGED <<outside, inside, gates, visits, exited>>

(* Mutant: an allowed car is sent in without an entry. *)
InsertOnlyGenerated ==
  /\ Running /\ generating = "insert"
  /\ inside' = IF rego \in AllowList THEN inside ELSE inside \union {rego}
  /\ generating' = "push"
  /\ UNCHANGED <<outside, rego, gates, visits, exited>>

InsertInside ==
  /\ Running /\ generating = "insert"
  /\ inside' = inside \union {rego}
  /\ generating' = "push"
  /\ UNCHANGED <<outside, rego, gates, visits, exited>>

PushToEntrance(e) ==
  /\ Running /\ generating = "push"
  /\ entrance_queues' = [entrance_queues EXCEPT ![e] = Append(@, rego)]
  /\ rego' = None
  /\ generating' = "choose"
  /\ UNCHANGED <<outside, inside, head, exit_queues, leaving, visits, exited>>

Push == InsertInside \/ \E e \in Entrances : PushToEntrance(e)

Generator == Push \/ \E r \in Plates : TakeOutside(r) \/ GeneratePlate(r)

-----------------------------------------------------------------------------
(* entrance_queue.                                                         *)

PopEntrance(e) ==
  /\ Running /\ head[e] = None
  /\ entrance_queues[e] # <<>>
  /\ head' = [head EXCEPT ![e] = Head(entrance_queues[e])]
  /\ entrance_queues' = [entrance_queues EXCEPT ![e] = Tail(@)]
  /\ UNCHANGED <<outside, inside, generator, exit_queues, leaving, visits, exited>>

(* The sign shows a level, which the manager shows to allowed cars only;   *)
(* the car gets its own thread.                                            *)
Admit(e) ==
  /\ Running /\ head[e] \in AllowList
  /\ visits' = [visits EXCEPT ![head[e]] = 0]
  /\ head' = [head EXCEPT ![e] = None]
  /\ UNCHANGED <<outside, inside, generator, entrance_queues, exit_queues, leaving,
                 exited>>

(* Mutant: a car that is sent away never comes back. *)
RefuseForGood(e) ==
  /\ Running /\ head[e] # None
  /\ remove_inside(head[e])
  /\ head' = [head EXCEPT ![e] = None]
  /\ UNCHANGED <<outside, generator, entrance_queues, exit_queues, leaving, visits>>

(* The sign shows anything else: "X", "F" or, in an evacuation, a letter. *)
Refuse(e) ==
  /\ Running /\ head[e] # None
  /\ outside' = outside \union ({head[e]} \intersect AllowList)
  /\ remove_inside(head[e])
  /\ head' = [head EXCEPT ![e] = None]
  /\ UNCHANGED <<generator, entrance_queues, exit_queues, leaving, visits>>

Entrance(e) == PopEntrance(e) \/ Admit(e) \/ Refuse(e)

-----------------------------------------------------------------------------
(* The thread of one car.                                                  *)

exit_decision == 1 .. 10

VisitLevel(r) ==
  /\ Running /\ visits[r] # None
  /\ \E d \in exit_decision : d + 2 * visits[r] <= 7
  /\ visits' = [visits EXCEPT ![r] = @ + 1]
  /\ UNCHANGED <<outside, inside, generator, gates, exited>>

PushToExit(r, x) ==
  /\ Running /\ visits[r] # None
  /\ \E d \in exit_decision : d + 2 * visits[r] > 7
  /\ exit_queues' = [exit_queues EXCEPT ![x] = Append(@, r)]
  /\ visits' = [visits EXCEPT ![r] = None]
  /\ UNCHANGED <<outside, inside, generator, entrance_queues, head, leaving, exited>>

Car(r) == VisitLevel(r) \/ \E x \in Exits : PushToExit(r, x)

-----------------------------------------------------------------------------
(* exit_thr.                                                               *)

PopExit(x) ==
  /\ Running /\ leaving[x] = None
  /\ exit_queues[x] # <<>>
  /\ leaving' = [leaving EXCEPT ![x] = Head(exit_queues[x])]
  /\ exit_queues' = [exit_queues EXCEPT ![x] = Tail(@)]
  /\ UNCHANGED <<outside, inside, generator, entrance_queues, head, visits, exited>>

(* Mutant: the car stays in the map of the cars inside. *)
TakeOutKeepsInside(x) ==
  /\ Running /\ leaving[x] # None
  /\ outside' = outside \union {leaving[x]}
  /\ leaving' = [leaving EXCEPT ![x] = None]
  /\ UNCHANGED <<inside, generator, entrance_queues, head, exit_queues, visits, exited>>

(* Every car that leaves may come in again: it was let in, so it is        *)
(* allowed.                                                                *)
TakeOut(x) ==
  /\ Running /\ leaving[x] # None
  /\ outside' = outside \union {leaving[x]}
  /\ remove_inside(leaving[x])
  /\ leaving' = [leaving EXCEPT ![x] = None]
  /\ UNCHANGED <<generator, entrance_queues, head, exit_queues, visits>>

Exit(x) == PopExit(x) \/ TakeOut(x)

-----------------------------------------------------------------------------
Next ==
  \/ Generator
  \/ \E e \in Entrances : Entrance(e)
  \/ \E r \in Plates : Car(r)
  \/ \E x \in Exits : Exit(x)

Spec == Init /\ [][Next]_vars

(* The operating system runs every thread that can run, and the manager    *)
(* answers every car (EveryCarAnswered and EveryCarLeaves of the gates).   *)
(* The generator may starve on random plates that are all known.           *)
FairSpec ==
  /\ Spec
  /\ WF_vars(Push)
  /\ \A e \in Entrances : WF_vars(Entrance(e))
  /\ \A r \in Plates : WF_vars(Car(r))
  /\ \A x \in Exits : WF_vars(Exit(x))

-----------------------------------------------------------------------------
(* Properties.                                                             *)

(* Variables keep their types; a car visits at most four levels before     *)
(* its decision to leave is certain (simulator_funcs.c:396).               *)
TypeOK ==
  /\ outside \subseteq Plates /\ inside \subseteq Plates
  /\ generating \in {"choose", "insert", "push"}
  /\ rego \in Plates \union {None}
  /\ entrance_queues \in [Entrances -> Seq(Plates)]
  /\ head \in [Entrances -> Plates \union {None}]
  /\ visits \in [Plates -> 0 .. 4 \union {None}]
  /\ exit_queues \in [Exits -> Seq(Plates)]
  /\ leaving \in [Exits -> Plates \union {None}]
  /\ exited \in BOOLEAN

(* The positions of a plate in one line of cars: 0 is in front of the gate. *)
Positions(r, front, queue) ==
  {i \in 0 .. Len(queue) : r = IF i = 0 THEN front ELSE queue[i]}

InLines(r, kind, Gates, front, queues) ==
  UNION {{<<kind, g, i>> : i \in Positions(r, front[g], queues[g])} : g \in Gates}

(* Where a plate is under way between generator and exit. *)
Places(r) ==
  {<<"generator", None, 0>> : hand \in {rego} \intersect {r}}
  \union InLines(r, "entrance", Entrances, head, entrance_queues)
  \union {<<"road", None, 0>> : v \in {visits[r]} \ {None}}
  \union InLines(r, "exit", Exits, leaving, exit_queues)

(* Known to be under way: entered in the map, or about to be. *)
Circulates(r) == r \in inside \/ (generating = "insert" /\ rego = r)

(* No two cars carry the same plate: a plate is in one queue, at one gate, *)
(* in one car thread or in the generator's hand, and never there while it  *)
(* may be sent in.  The manager's assertions rest on this.                 *)
EveryPlateOnce ==
  \A r \in Plates : Cardinality(Places(r)) = IF Circulates(r) THEN 1 ELSE 0

(* The two maps never share a plate, and the generator's fresh plate stays *)
(* fresh between its test and its insertion (simulator_funcs.c:78-85).     *)
(* remove_key is never called on an empty map, which would end the         *)
(* simulator.                                                              *)
MapsSound ==
  /\ inside \intersect outside = {}
  /\ generating = "insert" => rego \notin inside \union outside
  /\ ~exited

(* The cars outside are of the allow list ("returns 0 if the rego is from  *)
(* the allow list", simulator_funcs.c:42), and no plate of the list is     *)
(* lost on the way: sent away or driven out, it may come again.            *)
AllowedCarsCirculate ==
  /\ outside \subseteq AllowList
  /\ AllowList \subseteq outside \union inside \union {rego}

(* Every plate in circulation leaves it again: no queue forgets a car and  *)
(* no car drives around forever.                                           *)
EveryCarComesOut == \A r \in Plates : r \in inside ~> r \notin inside
-----------------------------------------------------------------------------
(* What the simulator promises about each car: module Trips.  A car in an  *)
(* exit's queue has not left yet.                                          *)

InFront(r, fronts) == \E g \in DOMAIN fronts : fronts[g] = r
Queued(r, queues) ==
  \E g \in DOMAIN queues : \E i \in 1 .. Len(queues[g]) : queues[g][i] = r

Trip ==
  [r \in Plates |->
     IF InFront(r, head) THEN "entering"
     ELSE IF InFront(r, leaving) THEN "exiting"
     ELSE IF visits[r] # None \/ Queued(r, exit_queues) THEN "inside" ELSE "outside"]

TR == INSTANCE Trips WITH place <- Trip, Cars <- Plates

(* Every car comes to an entrance from outside only, drives in once and    *)
(* only if it is allowed, and comes to an exit from inside, which is what  *)
(* the manager takes as given of the cars it serves (simulator_funcs.c:    *)
(* 137-219, 391-436, 241-313).                                             *)
ImplementsTrips == TR!Spec
=============================================================================
