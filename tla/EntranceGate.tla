---------------------------- MODULE EntranceGate ----------------------------
(***************************************************************************)
(* One entrance, call by call: the manager's entrance_thread, the          *)
(* simulator's entrance_queue thread and, once there is an alarm, the two  *)
(* threads of firealarm.c that touch the entrance.  They share a plate     *)
(* reader (lpr), a sign and a boom gate in shared memory and nothing else. *)
(*                                                                         *)
(* A thread moves in one action from the point where it gets a mutex to    *)
(* the point where it next blocks.  What the manager does with its own     *)
(* data (module Manager) is one choice here: register the car or show why  *)
(* it may not come in.                                                     *)
(***************************************************************************)
EXTENDS Monitor, FiniteSets

CONSTANTS
  Cars,
  mgr,         \* entrance_thread
  sim,         \* entrance_queue
  opener,      \* openboomgate of this entrance
  evacuation   \* the endless loop at the end of firealarm.c's main

Threads == {mgr, sim, opener, evacuation}
Objects == {"lpr", "sign", "boom"}

(* What the module takes for granted of its constants.  Who gives them     *)
(* values assumes it.                                                      *)
DistinctThreads == Cardinality(Threads) = 4 /\ None \notin Threads

VARIABLES
  pc,          \* where each thread is
  lpr,         \* the plate in the reader
  display,     \* the sign: a level number ("level"), "X", "F", a letter of
               \* the evacuation message ("E") or blank
  boom,        \* the gate: "C"losed, "R"aising, "O"pen, "L"owering
  alarm,       \* LEVEL_ALARM of the level with the number of this entrance
  verdict,     \* what the manager is going to show on the sign
  head,        \* the car at the head of the simulator's queue
  registered,  \* cars to which the manager gave a park and a bill
  inside,      \* cars that the simulator drove in
  aborted      \* insert_rego or insert_in_level found the car registered

gate == <<lpr, display, boom, alarm>>
cars == <<registered, inside>>
vars == <<owner, waits, pc, gate, verdict, head, cars, aborted>>

(* The programs may start in either order.                                 *)
Init ==
  /\ owner = [o \in Objects |-> None]
  /\ waits = [o \in Objects |-> {}]
  /\ pc = [t \in Threads |-> IF t \in {mgr, sim} THEN "start" ELSE "off"]
  /\ lpr = None
  /\ display = " "
  /\ boom = "C"
  /\ alarm = FALSE
  /\ verdict = " "
  /\ head = None
  /\ registered = {}
  /\ inside = {}
  /\ aborted = FALSE

Goto(t, label) == pc' = [pc EXCEPT ![t] = label]
At(t, label) == pc[t] = label /\ (t = mgr => ~aborted)

-----------------------------------------------------------------------------
(* entrance_thread.                                                        *)

(* Tells the simulator that the manager is ready, if it listens already. *)
SignalReady ==
  /\ At(mgr, "start")
  /\ Take(mgr, "lpr")
  /\ Signal("lpr")
  /\ Goto(mgr, "clear")
  /\ UNCHANGED <<gate, verdict, head, cars, aborted>>

(* Clears a level number and waits for a car. *)
ClearSign ==
  /\ At(mgr, "clear")
  /\ IsFree("sign")
  /\ display' = IF display = "level" THEN " " ELSE display
  /\ Wait(mgr, "lpr")
  /\ Release({"lpr"})
  /\ Goto(mgr, "await car")
  /\ UNCHANGED <<lpr, boom, alarm, verdict, head, cars, aborted>>

(* Mutant: the car is registered before it is known whether it may come in. *)
DecideAfterRegistering ==
  /\ At(mgr, "await car")
  /\ Resumes(mgr, "lpr")
  /\ Give({"lpr"}, mgr)
  /\ verdict' \in {"X", "F", "level"}
  /\ aborted' = (lpr \in registered)
  /\ registered' = registered \union {lpr}
  /\ Goto(mgr, "answer")
  /\ UNCHANGED <<waits, gate, head, inside>>

(* Mutant: the car gets a level but neither park nor bill. *)
DecideOnly ==
  /\ At(mgr, "await car")
  /\ Resumes(mgr, "lpr")
  /\ Give({"lpr"}, mgr)
  /\ verdict' \in {"X", "F", "level"}
  /\ Goto(mgr, "answer")
  /\ UNCHANGED <<waits, gate, head, cars, aborted>>

(* Reads the plate and decides; the decision itself is module Manager's. *)
Decide ==
  /\ At(mgr, "await car")
  /\ Resumes(mgr, "lpr")
  /\ Give({"lpr"}, mgr)
  /\ \/ /\ verdict' \in {"X", "F"}
        /\ UNCHANGED <<registered, aborted>>
     \/ /\ verdict' = "level"
        /\ aborted' = (lpr \in registered)
        /\ registered' = registered \union {lpr}
  /\ Goto(mgr, "answer")
  /\ UNCHANGED <<waits, gate, head, inside>>

(* Mutant: the sign is written but nobody is told. *)
AnswerSilently ==
  /\ At(mgr, "answer")
  /\ IsFree("sign")
  /\ display' = verdict
  /\ Wait(mgr, "sign")
  /\ Goto(mgr, "await read")
  /\ UNCHANGED <<owner, lpr, boom, alarm, verdict, head, cars, aborted>>

Answer ==
  /\ At(mgr, "answer")
  /\ IsFree("sign")
  /\ display' = verdict
  /\ SignalAndWait(mgr, "sign", "sign")
  /\ Goto(mgr, "await read")
  /\ UNCHANGED <<owner, lpr, boom, alarm, verdict, head, cars, aborted>>

AnswerRead ==
  /\ At(mgr, "await read")
  /\ Resumes(mgr, "sign")
  /\ Goto(mgr, IF verdict = "level" THEN "boom" ELSE "clear")
  /\ UNCHANGED <<owner, waits, gate, verdict, head, cars, aborted>>

RaiseGate ==
  /\ boom' = "R"
  /\ SignalAndWait(mgr, "boom", "boom")
  /\ Release({"boom"})
  /\ Goto(mgr, "await open")
  /\ UNCHANGED <<lpr, display, alarm, verdict, head, cars, aborted>>

(* Mutant: the gate is opened without raising it. *)
OpenClosedGateAtOnce ==
  /\ At(mgr, "boom")
  /\ IsFree("boom")
  /\ boom = "C"
  /\ boom' = "O"
  /\ SignalAndWait(mgr, "boom", "boom")
  /\ Goto(mgr, "await open")
  /\ UNCHANGED <<owner, lpr, display, alarm, verdict, head, cars, aborted>>

OpenClosedGate ==
  /\ At(mgr, "boom")
  /\ IsFree("boom")
  /\ boom = "C"
  /\ RaiseGate

(* gate_close_time is never assigned: has_past may say anything.  The      *)
(* alarm is read here and the gate lowered in a later step.                *)
UseRaisedGate ==
  /\ At(mgr, "boom")
  /\ IsFree("boom")
  /\ boom # "C"
  /\ \/ /\ boom = "O" /\ ~alarm
        /\ Take(mgr, "boom")
        /\ Goto(mgr, "lower")
        /\ UNCHANGED waits
     \/ /\ Signal("boom")
        /\ Goto(mgr, "clear")
        /\ UNCHANGED owner
  /\ UNCHANGED <<gate, verdict, head, cars, aborted>>

LowerGate ==
  /\ At(mgr, "lower")
  /\ boom' = "L"
  /\ SignalAndWait(mgr, "boom", "boom")
  /\ Release({"boom"})
  /\ Goto(mgr, "await closed")
  /\ UNCHANGED <<lpr, display, alarm, verdict, head, cars, aborted>>

ReopenGate ==
  /\ At(mgr, "await closed")
  /\ Resumes(mgr, "boom")
  /\ RaiseGate

GateOpened ==
  /\ At(mgr, "await open")
  /\ Resumes(mgr, "boom")
  /\ Goto(mgr, "clear")
  /\ UNCHANGED <<owner, waits, gate, verdict, head, cars, aborted>>

Manager ==
  \/ SignalReady \/ ClearSign \/ Decide \/ Answer \/ AnswerRead
  \/ OpenClosedGate \/ UseRaisedGate \/ LowerGate \/ ReopenGate \/ GateOpened

-----------------------------------------------------------------------------
(* entrance_queue.                                                         *)

(* Waits until the manager is ready. *)
AwaitReady ==
  /\ At(sim, "start")
  /\ IsFree("lpr")
  /\ Wait(sim, "lpr")
  /\ Goto(sim, "await ready")
  /\ UNCHANGED <<owner, gate, verdict, head, cars, aborted>>

ManagerReady ==
  /\ At(sim, "await ready")
  /\ Resumes(sim, "lpr")
  /\ Goto(sim, "pop")
  /\ UNCHANGED <<owner, waits, gate, verdict, head, cars, aborted>>

(* The generator never queues a car twice, nor one that is still inside. *)
PopCar(r) ==
  /\ At(sim, "pop")
  /\ r \notin inside
  /\ head' = r
  /\ Goto(sim, "lock lpr")
  /\ UNCHANGED <<owner, waits, gate, verdict, cars, aborted>>

LockReader ==
  /\ At(sim, "lock lpr")
  /\ Take(sim, "lpr")
  /\ Goto(sim, "lock sign")
  /\ UNCHANGED <<waits, gate, verdict, head, cars, aborted>>

LockSign ==
  /\ At(sim, "lock sign")
  /\ Take(sim, "sign")
  /\ Goto(sim, "lock boom")
  /\ UNCHANGED <<waits, gate, verdict, head, cars, aborted>>

(* Takes the gate, shows the plate and waits for an answer on the sign. *)
ShowPlate ==
  /\ At(sim, "lock boom")
  /\ IsFree("boom")
  /\ lpr' = head
  /\ SignalAndWait(sim, "lpr", "sign")
  /\ owner' = [o \in Objects |-> IF o = "boom" THEN sim ELSE None]
  /\ Goto(sim, "await answer")
  /\ UNCHANGED <<display, boom, alarm, verdict, head, cars, aborted>>

Admits(shown) == shown = "level"

(* Reads the sign and tells the manager so; a car that may come in then    *)
(* waits for the gate, any other goes back to the maps.                    *)
ReadSign ==
  /\ At(sim, "await answer")
  /\ Resumes(sim, "sign")
  /\ Release({"boom"})
  /\ \/ /\ Admits(display)
        /\ SignalAndWait(sim, "sign", "boom")
        /\ Goto(sim, "await gate")
        /\ UNCHANGED head
     \/ /\ ~Admits(display)
        /\ Signal("sign")
        /\ Goto(sim, "pop")
        /\ head' = None
  /\ UNCHANGED <<gate, verdict, cars, aborted>>

FinishLowering ==
  /\ At(sim, "await gate")
  /\ Resumes(sim, "boom")
  /\ boom = "L"
  /\ boom' = "C"
  /\ SignalAndWait(sim, "boom", "boom")
  /\ Goto(sim, "await reopen")
  /\ UNCHANGED <<owner, lpr, display, alarm, verdict, head, cars, aborted>>

(* Raises a rising gate to the top and starts the car's own thread. *)
DriveIn ==
  /\ \/ At(sim, "await gate") /\ boom # "L"
     \/ At(sim, "await reopen")
  /\ Resumes(sim, "boom")
  /\ IF boom = "R" THEN boom' = "O" /\ Signal("boom")
                   ELSE UNCHANGED <<boom, waits>>
  /\ inside' = inside \union {head}
  /\ head' = None
  /\ Goto(sim, "pop")
  /\ UNCHANGED <<owner, lpr, display, alarm, verdict, registered, aborted>>

Simulator ==
  \/ AwaitReady \/ ManagerReady \/ LockReader \/ LockSign \/ ShowPlate \/ ReadSign
  \/ FinishLowering \/ DriveIn

(* A car drives out at some exit (module ExitGate). *)
Leave(r) ==
  /\ r \in inside
  /\ inside' = inside \ {r}
  /\ registered' = registered \ {r}
  /\ UNCHANGED <<owner, waits, pc, gate, verdict, head, aborted>>

-----------------------------------------------------------------------------
(* firealarm.c.                                                            *)

RaiseAlarm ==
  /\ ~alarm
  /\ alarm' = TRUE
  /\ pc' = [pc EXCEPT ![opener] = "lock", ![evacuation] = "show"]
  /\ UNCHANGED <<owner, waits, lpr, display, boom, verdict, head, cars,
                 aborted>>

OpenBoomGate ==
  /\ \/ At(opener, "lock") /\ IsFree("boom")
     \/ At(opener, "await boom") /\ Resumes(opener, "boom")
  /\ IF boom = "C" THEN boom' = "R" /\ waits' = [waits EXCEPT !["boom"] = {opener}]
                   ELSE UNCHANGED boom /\ Wait(opener, "boom")
  /\ Goto(opener, "await boom")
  /\ UNCHANGED <<owner, lpr, display, alarm, verdict, head, cars, aborted>>

ShowEvacuate ==
  /\ At(evacuation, "show")
  /\ IsFree("sign")
  /\ display' = "E"
  /\ Broadcast("sign")
  /\ UNCHANGED <<owner, pc, lpr, boom, alarm, verdict, head, cars, aborted>>

FireAlarm == RaiseAlarm \/ OpenBoomGate \/ ShowEvacuate

-----------------------------------------------------------------------------
Next ==
  \/ Manager
  \/ Simulator
  \/ FireAlarm
  \/ \E r \in Cars : PopCar(r) \/ Leave(r)

Spec == Init /\ [][Next]_vars

(* The operating system runs every thread that can run. *)
FairSpec ==
  /\ Spec
  /\ WF_vars(Manager)
  /\ WF_vars(Simulator)
  /\ WF_vars(OpenBoomGate)
  /\ WF_vars(ShowEvacuate)

-----------------------------------------------------------------------------
(* Properties.                                                             *)

(* Where a thread may be: one label for each call that can block it. *)
ManagerLabels == {"start", "clear", "await car", "answer", "await read", "boom",
                  "lower", "await closed", "await open"}
SimulatorLabels == {"start", "await ready", "pop", "lock lpr", "lock sign", "lock boom",
                    "await answer", "await gate", "await reopen"}
FireAlarmLabels == {"off", "lock", "await boom", "show"}
AllLabels == ManagerLabels \union SimulatorLabels \union FireAlarmLabels

(* Variables keep their types; the gate and the sign show one of the       *)
(* characters that the programs write.                                     *)
TypeOK ==
  /\ owner \in [Objects -> Threads \union {None}]
  /\ waits \in [Objects -> SUBSET Threads]
  /\ pc \in [Threads -> AllLabels]
  /\ lpr \in Cars \union {None}
  /\ display \in {" ", "level", "X", "F", "E"}
  /\ boom \in {"C", "R", "O", "L"}
  /\ alarm \in BOOLEAN
  /\ verdict \in {" ", "level", "X", "F"}
  /\ head \in Cars \union {None}
  /\ registered \subseteq Cars
  /\ inside \subseteq Cars
  /\ aborted \in BOOLEAN

(* Whenever the simulator takes the next car from its queue, the two       *)
(* processes agree on who is in the car park: every car that was given a   *)
(* park and a bill was driven in, and no other (manager_funcs.c:263-281    *)
(* against simulator_funcs.c:173-219).  An evacuation breaks this.         *)
ProcessesAgree == ~alarm /\ pc[sim] = "pop" => registered = inside

(* The assertions that a car is not yet registered hold until an alarm.    *)
RegisteredOnce == ~alarm => ~aborted

(* The gate moves only from closed to raising to open to lowering to       *)
(* closed, whichever of the two programs moves it.  With an alarm on, the  *)
(* opener answers signals that the manager waits for, and the manager may  *)
(* overwrite an open gate with "R".                                        *)
GateCycle ==
  [][~alarm /\ boom' # boom =>
       <<boom, boom'>> \in {<<"C", "R">>, <<"R", "O">>, <<"O", "L">>, <<"L", "C">>}]_vars

(* Where a thread has to get the mutex of an object before it can go on. *)
Needing ==
  [lpr  |-> {"start", "await car", "await ready", "lock lpr"},
   sign |-> {"clear", "answer", "await read", "lock sign", "await answer", "show"},
   boom |-> {"boom", "await open", "await closed", "lock boom", "await gate",
             "await reopen", "lock", "await boom"}]

(* A thread waits for a signal or for a mutex that another one holds. *)
Stuck(t) ==
  \E o \in Objects : t \in waits[o] \/ (pc[t] \in Needing[o] /\ ~IsFree(o))

(* The manager was ready before the simulator listened: the race that the  *)
(* comment at manager_funcs.c:194 describes.                               *)
ReadyLost ==
  /\ pc[mgr] # "start"
  /\ \/ pc[sim] = "start"
     \/ pc[sim] = "await ready" /\ sim \in waits["lpr"]

(* The race at the start is the only way in which the two programs can end *)
(* up waiting for each other: if the ready signal finds the simulator, one *)
(* of the two threads can go on whatever the order of their steps, until   *)
(* an alarm (manager_funcs.c:194-305 against simulator_funcs.c:137-220,    *)
(* which hold up to two mutexes while they ask for a third).               *)
NeverBothStuck == ~alarm /\ ~ReadyLost => ~Stuck(mgr) \/ ~Stuck(sim)

(* A car drives in only through an open gate. *)
DriveInThroughOpenGate == [][inside' \subseteq inside \/ boom' = "O"]_vars

(* No signal of the hand-over is lost: a car at the reader is driven in or *)
(* sent away, unless an alarm interferes.                                  *)
EveryCarAnswered == pc[sim] = "lock lpr" ~> (pc[sim] = "pop" \/ alarm)
=============================================================================
