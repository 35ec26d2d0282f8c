------------------------------ MODULE ExitGate ------------------------------
(***************************************************************************)
(* One exit, call by call: the manager's exit_thread, the simulator's      *)
(* exit_thr thread, the car threads that queue up for it, and, once there  *)
(* is an alarm, the openboomgate thread of firealarm.c.  The exit has a    *)
(* plate reader (lpr) and a boom gate in shared memory; the queue lives in *)
(* the simulator.                                                          *)
(*                                                                         *)
(* A thread moves in one action from the point where it gets a mutex to    *)
(* the point where it next blocks.  The manager's own data (module         *)
(* Manager) is the set of registered cars: those with a park and a bill.   *)
(***************************************************************************)
EXTENDS Monitor, Sequences, FiniteSets

CONSTANTS
  Cars,
  mgr,           \* exit_thread
  sim,           \* exit_thr
  opener,        \* openboomgate of this exit
  ManagerFirst   \* does the manager wait at the reader before a car comes?

Threads == {mgr, sim, opener}
Objects == {"queue", "lpr", "boom"}

(* What the module takes for granted of its constants.  Who gives them     *)
(* values assumes it.                                                      *)
DistinctThreads == Cardinality(Threads) = 3 /\ None \notin Threads \union Cars

VARIABLES
  pc,          \* where each thread is
  queue,       \* exit_queue: the cars that want to leave
  lpr,         \* the plate in the reader; None stands for "------"
  boom,        \* the gate: "C"losed, "R"aising, "O"pen, "L"owering
  alarm,       \* has the fire alarm started its openboomgate thread?
  rego,        \* the plate the manager read
  head,        \* the car the simulator took from the queue
  registered,  \* cars that have a park and a bill at the manager
  inside,      \* cars that drive around in the car park
  aborted      \* remove_from_all_levels or remove_rego did not find the car

vars == <<owner, waits, pc, queue, lpr, boom, alarm, rego, head, registered,
          inside, aborted>>

Init ==
  /\ owner = [o \in Objects |-> None]
  /\ waits = [o \in Objects |-> {}]
  /\ pc = [t \in Threads |->
             CASE t = mgr -> "start" [] t = sim -> "pop" [] OTHER -> "off"]
  /\ queue = <<>>
  /\ lpr = None
  /\ boom = "C"
  /\ alarm = FALSE
  /\ rego = None
  /\ head = None
  /\ registered = {}
  /\ inside = {}
  /\ aborted = FALSE

Goto(t, label) == pc' = [pc EXCEPT ![t] = label]
At(t, label) == pc[t] = label /\ (t = mgr => ~aborted)

-----------------------------------------------------------------------------
(* exit_thread.                                                            *)

WaitForCar ==
  /\ lpr' = None
  /\ Release({"lpr"})
  /\ Goto(mgr, "await car")

Start ==
  /\ At(mgr, "start")
  /\ IsFree("lpr")
  /\ WaitForCar
  /\ Wait(mgr, "lpr")
  /\ UNCHANGED <<queue, boom, alarm, rego, head, registered, inside, aborted>>

ReadPlate ==
  /\ At(mgr, "await car")
  /\ Resumes(mgr, "lpr")
  /\ Give({"lpr"}, mgr)
  /\ rego' = lpr
  /\ Goto(mgr, "deregister")
  /\ UNCHANGED <<waits, queue, lpr, boom, alarm, head, registered, inside,
                 aborted>>

(* Gives the park back, settles the bill and only then tells the simulator. *)
Deregister ==
  /\ At(mgr, "deregister")
  /\ registered' = registered \ {rego}
  /\ aborted' = (rego \notin registered)
  /\ SignalAndWait(mgr, "lpr", "lpr")
  /\ Release({"lpr"})
  /\ Goto(mgr, "await ack")
  /\ UNCHANGED <<queue, lpr, boom, alarm, rego, head, inside>>

(* Keeps the reader while it works on the gate. *)
SimulatorSawIt ==
  /\ At(mgr, "await ack")
  /\ Resumes(mgr, "lpr")
  /\ Give({"lpr"}, mgr)
  /\ Goto(mgr, "boom")
  /\ UNCHANGED <<waits, queue, lpr, boom, alarm, rego, head, registered, inside,
                 aborted>>

OpenClosedGate ==
  /\ At(mgr, "boom")
  /\ IsFree("boom")
  /\ boom = "C"
  /\ boom' = "R"
  /\ SignalAndWait(mgr, "boom", "boom")
  /\ Goto(mgr, "await open")
  /\ UNCHANGED <<owner, queue, lpr, alarm, rego, head, registered, inside,
                 aborted>>

(* gate_close_time is never assigned: has_past may say anything.  Unlike   *)
(* an entrance, an exit does not look at the alarm.                        *)
LowerGate ==
  /\ At(mgr, "boom")
  /\ IsFree("boom")
  /\ boom = "O"
  /\ boom' = "L"
  /\ SignalAndWait(mgr, "boom", "boom")
  /\ Goto(mgr, "await closed")
  /\ UNCHANGED <<owner, queue, lpr, alarm, rego, head, registered, inside,
                 aborted>>

(* Mutant: an open gate needs no signal. *)
UseOpenGateSilently ==
  /\ At(mgr, "boom")
  /\ IsFree("boom")
  /\ boom # "C"
  /\ Wait(mgr, "lpr")
  /\ WaitForCar
  /\ UNCHANGED <<queue, boom, alarm, rego, head, registered, inside, aborted>>

UseOpenGate ==
  /\ At(mgr, "boom")
  /\ IsFree("boom")
  /\ boom # "C"
  /\ SignalAndWait(mgr, "boom", "lpr")
  /\ WaitForCar
  /\ UNCHANGED <<queue, boom, alarm, rego, head, registered, inside, aborted>>

ReopenGate ==
  /\ At(mgr, "await closed")
  /\ Resumes(mgr, "boom")
  /\ boom' = "R"
  /\ SignalAndWait(mgr, "boom", "boom")
  /\ Goto(mgr, "await open")
  /\ UNCHANGED <<owner, queue, lpr, alarm, rego, head, registered, inside,
                 aborted>>

GateOpened ==
  /\ At(mgr, "await open")
  /\ Resumes(mgr, "boom")
  /\ Wait(mgr, "lpr")
  /\ WaitForCar
  /\ UNCHANGED <<queue, boom, alarm, rego, head, registered, inside, aborted>>

Manager ==
  \/ Start \/ ReadPlate \/ Deregister \/ SimulatorSawIt
  \/ OpenClosedGate \/ LowerGate \/ UseOpenGate \/ ReopenGate \/ GateOpened

-----------------------------------------------------------------------------
(* The cars.                                                               *)

(* A car comes in at some entrance (module EntranceGate). *)
Enter(r) ==
  /\ r \notin registered \union inside
  /\ r # head
  /\ \A i \in DOMAIN queue : queue[i] # r
  /\ registered' = registered \union {r}
  /\ inside' = inside \union {r}
  /\ UNCHANGED <<owner, waits, pc, queue, lpr, boom, alarm, rego, head, aborted>>

(* The end of a car thread: queues up at this exit and signals. *)
QueueUp(r) ==
  /\ r \in inside
  /\ IsFree("queue")
  /\ inside' = inside \ {r}
  /\ queue' = Append(queue, r)
  /\ Signal("queue")
  /\ UNCHANGED <<owner, pc, lpr, boom, alarm, rego, head, registered, aborted>>

-----------------------------------------------------------------------------
(* exit_thr.                                                               *)

PopCar ==
  /\ At(sim, "pop")
  /\ IsFree("queue")
  /\ queue # <<>>
  /\ head' = Head(queue)
  /\ queue' = Tail(queue)
  /\ Goto(sim, "lock lpr")
  /\ UNCHANGED <<owner, waits, lpr, boom, alarm, rego, registered, inside,
                 aborted>>

AwaitCar ==
  /\ At(sim, "pop")
  /\ IsFree("queue")
  /\ queue = <<>>
  /\ Wait(sim, "queue")
  /\ Goto(sim, "await queue")
  /\ UNCHANGED <<owner, queue, lpr, boom, alarm, rego, head, registered, inside,
                 aborted>>

CarQueued ==
  /\ At(sim, "await queue")
  /\ Resumes(sim, "queue")
  /\ Goto(sim, "pop")
  /\ UNCHANGED <<owner, waits, queue, lpr, boom, alarm, rego, head, registered,
                 inside, aborted>>

LockReader ==
  /\ At(sim, "lock lpr")
  /\ ManagerFirst => pc[mgr] # "start"
  /\ Take(sim, "lpr")
  /\ Goto(sim, "lock boom")
  /\ UNCHANGED <<waits, queue, lpr, boom, alarm, rego, head, registered, inside,
                 aborted>>

(* Mutant: the plate is not written. *)
ShowNoPlate ==
  /\ At(sim, "lock boom")
  /\ IsFree("boom")
  /\ SignalAndWait(sim, "lpr", "lpr")
  /\ owner' = [owner EXCEPT !["lpr"] = None, !["boom"] = sim]
  /\ Goto(sim, "await done")
  /\ UNCHANGED <<queue, lpr, boom, alarm, rego, head, registered, inside, aborted>>

(* Takes the gate, shows the plate and waits until it is processed. *)
ShowPlate ==
  /\ At(sim, "lock boom")
  /\ IsFree("boom")
  /\ lpr' = head
  /\ SignalAndWait(sim, "lpr", "lpr")
  /\ owner' = [owner EXCEPT !["lpr"] = None, !["boom"] = sim]
  /\ Goto(sim, "await done")
  /\ UNCHANGED <<queue, boom, alarm, rego, head, registered, inside, aborted>>

(* Answers the manager and waits for the gate. *)
Processed ==
  /\ At(sim, "await done")
  /\ Resumes(sim, "lpr")
  /\ SignalAndWait(sim, "lpr", "boom")
  /\ Release({"boom"})
  /\ Goto(sim, "await gate")
  /\ UNCHANGED <<queue, lpr, boom, alarm, rego, head, registered, inside, aborted>>

FinishLowering ==
  /\ At(sim, "await gate")
  /\ Resumes(sim, "boom")
  /\ boom = "L"
  /\ boom' = "C"
  /\ SignalAndWait(sim, "boom", "boom")
  /\ Goto(sim, "await reopen")
  /\ UNCHANGED <<owner, queue, lpr, alarm, rego, head, registered, inside,
                 aborted>>

(* Raises a rising gate to the top; the car is outside and may come again. *)
DriveOut ==
  /\ \/ At(sim, "await gate") /\ boom # "L"
     \/ At(sim, "await reopen")
  /\ Resumes(sim, "boom")
  /\ IF boom = "R" THEN boom' = "O" /\ Signal("boom")
                   ELSE UNCHANGED <<boom, waits>>
  /\ head' = None
  /\ Goto(sim, "pop")
  /\ UNCHANGED <<owner, queue, lpr, alarm, rego, registered, inside, aborted>>

Simulator ==
  \/ PopCar \/ AwaitCar \/ CarQueued \/ LockReader \/ ShowPlate \/ Processed
  \/ FinishLowering \/ DriveOut

-----------------------------------------------------------------------------
(* firealarm.c.                                                            *)

RaiseAlarm ==
  /\ ~alarm
  /\ alarm' = TRUE
  /\ Goto(opener, "lock")
  /\ UNCHANGED <<owner, waits, queue, lpr, boom, rego, head, registered, inside,
                 aborted>>

OpenBoomGate ==
  /\ \/ At(opener, "lock") /\ IsFree("boom")
     \/ At(opener, "await boom") /\ Resumes(opener, "boom")
  /\ IF boom = "C" THEN boom' = "R" /\ waits' = [waits EXCEPT !["boom"] = {opener}]
                   ELSE UNCHANGED boom /\ Wait(opener, "boom")
  /\ Goto(opener, "await boom")
  /\ UNCHANGED <<owner, queue, lpr, alarm, rego, head, registered, inside,
                 aborted>>

FireAlarm == RaiseAlarm \/ OpenBoomGate

-----------------------------------------------------------------------------
Next ==
  \/ Manager
  \/ Simulator
  \/ FireAlarm
  \/ \E r \in Cars : Enter(r) \/ QueueUp(r)

Spec == Init /\ [][Next]_vars

(* The operating system runs every thread that can run. *)
FairSpec ==
  /\ Spec
  /\ WF_vars(Manager)
  /\ WF_vars(Simulator)
  /\ WF_vars(OpenBoomGate)

-----------------------------------------------------------------------------
(* Properties.                                                             *)

Queued == {queue[i] : i \in DOMAIN queue}
Outside(r) == r \notin inside \union Queued /\ r # head

(* Where a thread may be: one label for each call that can block it. *)
ManagerLabels == {"start", "await car", "deregister", "await ack", "boom",
                  "await closed", "await open"}
SimulatorLabels == {"pop", "await queue", "lock lpr", "lock boom", "await done",
                    "await gate", "await reopen"}
FireAlarmLabels == {"off", "lock", "await boom"}
AllLabels == ManagerLabels \union SimulatorLabels \union FireAlarmLabels

(* Variables keep their types, and the simulator has every car in one     *)
(* place only: driving around, in the queue once, or at the reader.        *)
TypeOK ==
  /\ owner \in [Objects -> Threads \union {None}]
  /\ waits \in [Objects -> SUBSET Threads]
  /\ pc \in [Threads -> AllLabels]
  /\ queue \in Seq(Cars) /\ \A i, j \in DOMAIN queue : queue[i] = queue[j] => i = j
  /\ (inside \union {head}) \intersect Queued = {} /\ head \notin inside
  /\ lpr \in Cars \union {None}
  /\ boom \in {"C", "R", "O", "L"}
  /\ alarm \in BOOLEAN
  /\ rego \in Cars \union {None}
  /\ head \in Cars \union {None}
  /\ registered \subseteq Cars
  /\ inside \subseteq Cars
  /\ aborted \in BOOLEAN

(* Comment at manager_funcs.c:140: a car that is outside again is gone     *)
(* from the manager's data, so that sending it in anew is no race.  Holds  *)
(* with and without an alarm.                                              *)
OutsideIsForgotten == \A r \in Cars : Outside(r) => r \notin registered

(* The gate moves only from closed to raising to open to lowering to       *)
(* closed, until an alarm.                                                 *)
GateCycle ==
  [][~alarm /\ boom' # boom =>
       <<boom, boom'>> \in {<<"C", "R">>, <<"R", "O">>, <<"O", "L">>, <<"L", "C">>}]_vars

(* Where a thread has to get the mutex of an object before it can go on. *)
Needing ==
  [queue |-> {"pop", "await queue"},
   lpr   |-> {"start", "await car", "await ack", "lock lpr", "await done"},
   boom  |-> {"boom", "await open", "await closed", "lock boom", "await gate",
              "await reopen", "lock", "await boom"}]

(* A thread waits for a signal or for a mutex that another one holds. *)
Stuck(t) ==
  \E o \in Objects : t \in waits[o] \/ (pc[t] \in Needing[o] /\ ~IsFree(o))

(* The two threads of an exit rest only when there is no car for them: as  *)
(* long as one is in the queue or at the reader, one of them can go on,    *)
(* until an alarm.  Needs the manager to be the first at the reader.       *)
CarsNeverStuck ==
  ~alarm /\ (queue # <<>> \/ head # None) => ~Stuck(mgr) \/ ~Stuck(sim)

(* A car drives out only through an open gate. *)
DriveOutThroughOpenGate == [][head # None /\ head' = None => boom' = "O"]_vars

(* No signal of the hand-over is lost: a car in the queue gets out, unless *)
(* an alarm interferes.  Needs the manager to be the first at the reader.  *)
EveryCarLeaves == \A r \in Cars : r \in Queued ~> (Outside(r) \/ alarm)

(* Comment at firealarm.c:175, "Open up all boom gates": after an alarm    *)
(* the gate gets open.                                                     *)
AlarmOpensGate == alarm ~> boom = "O"
=============================================================================
