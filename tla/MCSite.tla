------------------------------- MODULE MCSite -------------------------------
(***************************************************************************)
(* One entrance, one exit and a few cars for TLC.  A gate that is alone    *)
(* meets all that its module allows of the other one, and the fire alarm;  *)
(* both together meet each other.                                          *)
(***************************************************************************)
EXTENDS Site

CONSTANTS a, b, c

VARIABLE gates  \* those in play, which never changes

all_vars == <<vars, gates>>

AtEntranceAlone(step) ==
  /\ gates = {"entrance"}
  /\ step
  /\ UNCHANGED <<exit_vars, driving, gates>>

AtExitAlone(step) ==
  /\ gates = {"exit"}
  /\ step
  /\ UNCHANGED <<entrance_vars, present, gates>>

Both == gates = {"entrance", "exit"}

AtBoth(step) == Both /\ step /\ UNCHANGED gates

InitGates == Init /\ gates \in (SUBSET {"entrance", "exit"}) \ {{}}

NextGates == AtEntranceAlone(E!Next) \/ AtExitAlone(X!Next) \/ AtBoth(Next)

(* The fairness of EntranceGate, ExitGate and Site, where they apply. *)
FairGates ==
  /\ InitGates /\ [][NextGates]_all_vars
  /\ WF_all_vars(AtEntranceAlone(E!Manager) \/ AtBoth(EntranceManager))
  /\ WF_all_vars(AtEntranceAlone(E!Simulator) \/ AtBoth(EntranceSimulator))
  /\ WF_all_vars(AtEntranceAlone(E!OpenBoomGate))
  /\ WF_all_vars(AtEntranceAlone(E!ShowEvacuate))
  /\ WF_all_vars(AtExitAlone(X!Manager) \/ AtBoth(ExitManager))
  /\ WF_all_vars(AtExitAlone(X!Simulator) \/ AtBoth(ExitSimulator))
  /\ WF_all_vars(AtExitAlone(X!OpenBoomGate))
  /\ \A r \in Cars : WF_all_vars(AtBoth(QueueUp(r)))

-----------------------------------------------------------------------------
(* Properties, each of the gates that are in play.                         *)

(* The two processes agree on who is in the car park: whenever an entrance *)
(* takes the next car, until an alarm (manager_funcs.c:263-281 against     *)
(* simulator_funcs.c:173-219), and once a car is outside again it is gone  *)
(* from the manager's data, alarm or not (comment at manager_funcs.c:140). *)
ProcessesAgree ==
  /\ gates = {"entrance"} => E!ProcessesAgree
  /\ gates = {"exit"} => X!OutsideIsForgotten

(* The assertions on registering a car hold until an alarm, those on its   *)
(* removal with one too, and all of them wherever cars are on their way    *)
(* between the gates and however often they come back.                     *)
AssertionsHold == IF gates = {"entrance"} THEN E!RegisteredOnce ELSE NeverAborts

(* No signal of the hand-overs is lost and no mutex is asked for in vain:  *)
(* at either gate one of the two programs can always go on while there is  *)
(* work, until an alarm and but for an entrance whose ready signal was     *)
(* lost (manager_funcs.c:97-305 against simulator_funcs.c:137-313).        *)
NeverStuck ==
  /\ gates # {"exit"} => E!NeverBothStuck
  /\ gates # {"entrance"} => X!CarsNeverStuck

(* Both gates only go round their cycle until an alarm, and cars pass      *)
(* them only while they are open, alarm or not.                            *)
GateCycle ==
  /\ E!GateCycle /\ E!DriveInThroughOpenGate
  /\ X!GateCycle /\ X!DriveOutThroughOpenGate

(* What each gate takes for granted of the other one, the other one does   *)
(* (manager_funcs.c:140-146 with simulator_funcs.c:302-312, and 199-219).  *)
ImplementsGates ==
  /\ Both => EntranceView!Init /\ ExitView!Init
  /\ [][Both => EntranceStep /\ ExitStep]_all_vars

(* The entrance gets to its first car unless the manager was ready too     *)
(* early, the race of manager_funcs.c:194, in which case it never does;    *)
(* and from then on no signal is lost: every car is answered, until an     *)
(* alarm.                                                                  *)
EntranceServes ==
  /\ <>(gates = {"exit"} \/ e_pc[e_sim] = "pop" \/ E!ReadyLost)
  /\ [][E!ReadyLost => E!ReadyLost']_all_vars
  /\ E!EveryCarAnswered

(* A car that queues up at the exit gets out, until an alarm; so every     *)
(* stay ends: a car with a park and a bill drives in, reaches the exit and *)
(* is forgotten.                                                           *)
EveryStayEnds ==
  /\ X!EveryCarLeaves
  /\ \A r \in Cars : Both /\ r \in registered ~> r \notin registered

=============================================================================
