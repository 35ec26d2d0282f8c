---------------------------- MODULE LevelReader ----------------------------
(***************************************************************************)
(* The plate reader of one level: the manager's level_thread and the car   *)
(* threads of the simulator in visit_level.  A car shows its plate on the  *)
(* way in and again on the way out; both are the same call sequence here.  *)
(* The cars exclude each other with a mutex of their own, outer_level_m,   *)
(* because the condition of the reader serves both directions.             *)
(***************************************************************************)
EXTENDS Monitor, Integers

CONSTANTS
  Cars,
  mgr   \* level_thread

Objects == {"outer", "lpr"}
Threads == Cars \union {mgr}

(* What the module takes for granted of its constants.  Who gives them     *)
(* values assumes it.                                                      *)
ManagerIsNoCar == mgr \notin Cars /\ None \notin Threads

VARIABLES
  pc,     \* where each thread is
  lpr,    \* the plate in the reader
  rego,   \* the plate the manager read
  seen    \* how often the manager handled each car since it last came here

vars == <<owner, waits, pc, lpr, rego, seen>>

Init ==
  /\ owner = [o \in Objects |-> None]
  /\ waits = [o \in Objects |-> {}]
  /\ pc = [t \in Threads |-> IF t = mgr THEN "start" ELSE "driving"]
  /\ lpr = None
  /\ rego = None
  /\ seen = [c \in Cars |-> 0]

Goto(t, label) == pc' = [pc EXCEPT ![t] = label]
At(t, label) == pc[t] = label

-----------------------------------------------------------------------------
(* level_thread.                                                           *)

Start ==
  /\ At(mgr, "start")
  /\ IsFree("lpr")
  /\ Wait(mgr, "lpr")
  /\ Goto(mgr, "await car")
  /\ UNCHANGED <<owner, lpr, rego, seen>>

ReadPlate ==
  /\ At(mgr, "await car")
  /\ Resumes(mgr, "lpr")
  /\ Give({"lpr"}, mgr)
  /\ rego' = lpr
  /\ Goto(mgr, "assign")
  /\ UNCHANGED <<waits, lpr, seen>>

(* Mutant: the car is not told that it may go on. *)
AssignLevelSilently ==
  /\ At(mgr, "assign")
  /\ seen' = [seen EXCEPT ![rego] = @ + 1]
  /\ Wait(mgr, "lpr")
  /\ Release({"lpr"})
  /\ Goto(mgr, "await car")
  /\ UNCHANGED <<lpr, rego>>

(* The level_m section of module Manager, then a signal to the car. *)
AssignLevel ==
  /\ At(mgr, "assign")
  /\ seen' = [seen EXCEPT ![rego] = @ + 1]
  /\ SignalAndWait(mgr, "lpr", "lpr")
  /\ Release({"lpr"})
  /\ Goto(mgr, "await car")
  /\ UNCHANGED <<lpr, rego>>

Manager == Start \/ ReadPlate \/ AssignLevel

-----------------------------------------------------------------------------
(* visit_level.                                                            *)

(* Mutant: the cars do not exclude each other. *)
ComeAtOnce(c) ==
  /\ At(c, "driving")
  /\ Goto(c, "lock lpr")
  /\ UNCHANGED <<owner, waits, lpr, rego, seen>>

Come(c) ==
  /\ At(c, "driving")
  /\ Take(c, "outer")
  /\ Goto(c, "lock lpr")
  /\ UNCHANGED <<waits, lpr, rego, seen>>

(* Mutant: the plate of the car before is still in the reader. *)
ShowNoPlate(c) ==
  /\ At(c, "lock lpr")
  /\ pc[mgr] # "start"
  /\ IsFree("lpr")
  /\ lpr' = IF lpr = None THEN c ELSE lpr
  /\ seen' = [seen EXCEPT ![c] = 0]
  /\ SignalAndWait(c, "lpr", "lpr")
  /\ Goto(c, "await done")
  /\ UNCHANGED <<owner, rego>>

(* Nothing in the code makes a car wait for a manager that has not come to *)
(* its reader yet; the guard on "start" is the order the programs rely on, *)
(* and ExitGate shows what happens without it.                             *)
ShowPlate(c) ==
  /\ At(c, "lock lpr")
  /\ pc[mgr] # "start"
  /\ IsFree("lpr")
  /\ lpr' = c
  /\ seen' = [seen EXCEPT ![c] = 0]
  /\ SignalAndWait(c, "lpr", "lpr")
  /\ Goto(c, "await done")
  /\ UNCHANGED <<owner, rego>>

DriveOn(c) ==
  /\ At(c, "await done")
  /\ Resumes(c, "lpr")
  /\ Release({"outer"})
  /\ Goto(c, "driving")
  /\ UNCHANGED <<waits, lpr, rego, seen>>

Car(c) == Come(c) \/ ShowPlate(c) \/ DriveOn(c)

Next == Manager \/ \E c \in Cars : Car(c)

Spec == Init /\ [][Next]_vars

(* The operating system runs every thread that can run. *)
FairSpec == Spec /\ WF_vars(Manager) /\ \A c \in Cars : WF_vars(Car(c))

-----------------------------------------------------------------------------
(* Properties.                                                             *)

(* Variables keep their types; no car is handled twice in one visit. *)
TypeOK ==
  /\ owner \in [Objects -> Threads \union {None}]
  /\ waits \in [Objects -> SUBSET Threads]
  /\ pc \in [Threads -> {"start", "await car", "assign", "driving", "lock lpr",
                         "await done"}]
  /\ lpr \in Cars \union {None}
  /\ rego \in Cars \union {None}
  /\ seen \in [Cars -> 0 .. 1]

(* A car that is told to drive on has been handled exactly once since it   *)
(* showed its plate: the wake-up came from the manager (manager_funcs.c:364) *)
(* and was meant for this car, not for the one before or behind it.        *)
HandledWhenToldSo ==
  \A c \in Cars : pc[c] = "await done" /\ c \notin waits["lpr"] => seen[c] = 1

(* The manager handles a car only while that car waits at the reader, never *)
(* the plate that an earlier car left behind.                              *)
HandlesTheCarAtTheReader ==
  [][\A c \in Cars : seen'[c] > seen[c] => pc[c] = "await done" /\ c \in waits["lpr"]]_vars

(* Where a thread has to get a mutex before it can go on. *)
Needing ==
  [outer |-> {"driving"},
   lpr   |-> {"start", "await car", "lock lpr", "await done"}]

(* A thread waits for a signal or for a mutex that another one holds. *)
Stuck(t) ==
  \E o \in Objects : t \in waits[o] \/ (pc[t] \in Needing[o] /\ ~IsFree(o))

(* While cars are at the reader the manager or one of them can go on: one  *)
(* that holds outer_level_m never waits in vain, and so does not keep the  *)
(* others out for good (simulator_funcs.c:316, manager_funcs.c:316).       *)
VisitsNeverStuck ==
  (\E c \in Cars : pc[c] # "driving") =>
    ~Stuck(mgr) \/ \E c \in Cars : pc[c] # "driving" /\ ~Stuck(c)

(* No signal is lost: every car that shows its plate drives on. *)
EveryVisitEnds ==
  \A c \in Cars : pc[c] = "await done" ~> pc[c] = "driving"
=============================================================================
