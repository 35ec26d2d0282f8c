-------------------------------- MODULE Site --------------------------------
(***************************************************************************)
(* One entrance and one exit of the same car park.                         *)
(*                                                                         *)
(* EntranceGate lets a car leave whenever it likes, and ExitGate lets a    *)
(* car come in whenever it is not there: each takes for granted what the   *)
(* other one does.  Here the cars that drive in at the entrance are those  *)
(* that queue up at the exit, and both of the manager's threads change one *)
(* set of registered cars.  Next has no fire alarm; NextWithAlarm has.     *)
(***************************************************************************)
EXTENDS Sequences, FiniteSets

CONSTANTS
  None, Cars,
  e_mgr, e_sim, e_opener, evacuation,  \* threads at the entrance
  x_mgr, x_sim, x_opener               \* threads at the exit

VARIABLES
  e_owner, e_waits, e_pc, e_lpr, display, e_boom, verdict, e_head,
  x_owner, x_waits, x_pc, queue, x_lpr, x_boom, x_rego, x_head,
  registered,  \* cars that have a park and a bill at the manager
  present,     \* cars that came in and are not out again
  driving,     \* those of them that are not at the exit yet
  alarm,       \* has the fire alarm started its threads?
  aborted      \* an assertion ended the manager

entrance_vars == <<e_owner, e_waits, e_pc, e_lpr, display, e_boom, verdict, e_head>>
exit_vars == <<x_owner, x_waits, x_pc, queue, x_lpr, x_boom, x_rego, x_head>>
vars == <<entrance_vars, exit_vars, registered, present, driving, alarm, aborted>>

E == INSTANCE EntranceGate WITH
       mgr <- e_mgr, sim <- e_sim, opener <- e_opener,
       owner <- e_owner, waits <- e_waits, pc <- e_pc, lpr <- e_lpr,
       boom <- e_boom, head <- e_head, inside <- present

X == INSTANCE ExitGate WITH
       mgr <- x_mgr, sim <- x_sim, opener <- x_opener, ManagerFirst <- TRUE,
       owner <- x_owner, waits <- x_waits, pc <- x_pc, lpr <- x_lpr,
       boom <- x_boom, rego <- x_rego, head <- x_head, inside <- driving

ASSUME ThreadsAssumption == E!DistinctThreads /\ X!DistinctThreads

Init == E!Init /\ X!Init

-----------------------------------------------------------------------------
(* A car that comes in drives around. *)
ComesIn == driving' = driving \union (present' \ present)

(* A car that is out may be sent in again. *)
GoesOut == present' = IF x_head' = None THEN present \ {x_head} ELSE present

AtEntrance(step) == step /\ ComesIn /\ UNCHANGED exit_vars
AtExit(step) == step /\ GoesOut /\ UNCHANGED entrance_vars

EntranceManager == AtEntrance(E!Manager)
EntranceSimulator == AtEntrance(E!Simulator)
Generate(r) == AtEntrance(E!PopCar(r))
ExitManager == AtExit(X!Manager)
ExitSimulator == AtExit(X!Simulator)
QueueUp(r) == AtExit(X!QueueUp(r))

Next ==
  \/ EntranceManager \/ EntranceSimulator
  \/ ExitManager \/ ExitSimulator
  \/ \E r \in Cars : Generate(r) \/ QueueUp(r)

Spec == Init /\ [][Next]_vars

FireAlarm ==
  \/ E!RaiseAlarm /\ X!RaiseAlarm
  \/ AtEntrance(E!OpenBoomGate \/ E!ShowEvacuate)
  \/ AtExit(X!OpenBoomGate)

NextWithAlarm == Next \/ FireAlarm

SpecWithAlarm == Init /\ [][NextWithAlarm]_vars

-----------------------------------------------------------------------------
(* Properties.                                                             *)

(* Seen from the entrance a car is registered until it is out.             *)
EntranceView ==
  INSTANCE EntranceGate WITH
    mgr <- e_mgr, sim <- e_sim, opener <- e_opener,
    owner <- e_owner, waits <- e_waits, pc <- e_pc, lpr <- e_lpr,
    boom <- e_boom, head <- e_head, inside <- present,
    registered <- registered \union present

(* Seen from the exit a car is registered when it drives in. *)
ExitView ==
  INSTANCE ExitGate WITH
    mgr <- x_mgr, sim <- x_sim, opener <- x_opener, ManagerFirst <- TRUE,
    owner <- x_owner, waits <- x_waits, pc <- x_pc, lpr <- x_lpr,
    boom <- x_boom, rego <- x_rego, head <- x_head, inside <- driving,
    registered <- registered \intersect present

(* To each gate the whole looks like its own module. *)
EntranceStep == EntranceView!Next \/ UNCHANGED EntranceView!vars
ExitStep == ExitView!Next \/ UNCHANGED ExitView!vars

(* No assertion of the manager fails, wherever cars are on their way       *)
(* between the gates and however often they come back.                     *)
NeverAborts == ~aborted
=============================================================================
