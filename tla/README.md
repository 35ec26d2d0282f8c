# A car park in TLA+

This directory holds the verification project of the car park programs: TLA+
models of the manager, the simulator and the fire alarm as they work together,
model-checked with TLC on small car parks, and theorems proved with TLAPS for car
parks of every size: about the manager's shared data and its display, the gates, the
whole site, the readers of the levels, the simulator's plates, the fire alarm, the
queue, the bills and the search for a level.

## The system

Three programs share one mapping of memory that holds, for each entrance, a
plate reader, a sign and a boom gate; for each exit a reader and a gate; for each
level a reader and the temperature and alarm bytes. Each object carries a POSIX
mutex and one condition variable, shared between the processes.

| Part | State | Operations | Talks to |
| --- | --- | --- | --- |
| Manager threads (`libs/manager_funcs.c`, `manager.c`) | `free_spots`, `level_data`, `billing`, `level_m`, `billing_m` | `entrance_thread`, `exit_thread`, `level_thread` | simulator, through readers, signs and gates; each other, through the shared data |
| Level table (`libs/leveldata.c`) | an array of hash maps of regos | `get_available_level`, `insert_in_level`, `remove_from_all_levels`, `cars_in_level`, `exists_in_level` | called under `level_m` |
| Billing (`libs/billing.c`, `time_diff` in `libs/utils.c`) | open entries, plates ever billed, total, `billing.txt` | `insert_rego`, `remove_rego`, settlement in `exit_thread` | called under `billing_m` |
| Simulator (`libs/simulator_funcs.c`, `simulator.c`) | the maps of plates outside and inside, entrance and exit queues | `generator`, `car`, `entrance_queue`, `exit_thr`, `visit_level` | manager |
| Fire alarm (`firealarm.c`) | temperature windows, `alarm_active` | `tempmonitor`, `openboomgate`, the evacuation loop of `main` | gates and signs |
| Queue, hash map (`libs/queue.c`, `libs/map.c`) | linked list, buckets | push, pop; insert, search, remove, random item, growth | used under their users' mutexes |
| Status display (`display_thread`) | the round it is reading | read, print | manager's data, shared memory |
| Temperature generator (`temp_setter`) | start and distance from it of each level | random walk | sensors that the fire alarm reads |
| Shared memory (`macros.h`, `init_shared_mem`, `firealarm.c`) | 2920 bytes | address arithmetic, once in macros and once by hand | all three programs |
| `load_regos` | position in `plates.txt` | count lines, read plates | allow lists of manager and simulator |

What is hard about it:

* **Check-then-act.** An entrance reads `free_spots` after it has given `level_m`
  back and acts on it in a later section; the "full" path unlocks a mutex that it
  no longer holds.
* **Hand-overs through one condition in both directions.** Manager and simulator
  answer each other through the condition of the same reader, sign or gate. A
  signal nobody waits for is lost, and no wait re-tests a predicate.
* **A third party.** After an alarm the fire alarm's threads wait on the same gate
  conditions and write the same signs.
* **Assertions as a design element.** Both the level table and the bills abort the
  manager when a car is in two places or in none, so correctness is that no
  interleaving gets there.
* **Two sections for one decision.** The simulator takes a plate from one map in
  one critical section and puts it into another map in the next.
* **Containers that end the program.** Removing from an empty map, or a random item
  that is not found, calls `exit`; queue and map manage their nodes by hand.
* **Windows.** The fire alarm acts on lists of exactly 5 readings and 30 medians.
* **Widths.** `free_spots` is a `size_t`, money is an `unsigned int`, durations are
  differences of `timespec`s.

What makes each part correct: the manager never loses, duplicates or forgets a
car, and never aborts; its counter says how many parks are not held; a stay has
exactly one bill; both sides of a gate agree on who went through; no thread waits
for a signal that has already been sent; a bill is the time the car was inside.

## Modules

Read them in this order.

* `LevelData` holds the operations of `leveldata.c` as functions of a table
  `Levels -> set of plates`. `scan_levels` is the loop of the C function;
  `get_available_level` says what it means and is what the threads use, so that a slip in
  the loop would show in `ScanFindsMostFree` and not in the runs of `Manager`.
* `Manager` composes all manager threads over the shared data. `pc[t]` is the
  place of a thread between two points where another thread can get in its way;
  reading and writing `free_spots` are separate steps because one reader does not
  hold `level_m`. `rego`, `loaded` and `level` are the threads' local variables.
  A default mutex does not remember its owner, so `Unlock` takes it from whoever
  holds it and records that in the history variable `stolen`. An assertion of the
  code sets `failed`, after which nothing moves any more. The simulator is the
  position `car[r]` of each plate.
* `CarPark` is what the manager promises about each car: out, assigned to a
  park, parked, leaving, and never more cars than parks. `Manager` implements it
  under the mapping `Stage`.
* `Trips` is the way of a car that manager and simulator have to see alike: outside,
  in front of an entrance, inside, in front of an exit. `Manager` and `Simulator` both
  implement it, each under its own mapping `Trip`: for the manager a car at the reader of
  a level is inside, for the simulator one that visits or waits in the queue of an exit.
* `Monitor` is the vocabulary of mutexes and condition variables: owners, wait
  sets, signals that are lost when nobody waits.
* `EntranceGate`, `ExitGate` and `LevelReader` are the hand-overs between manager
  and simulator, call by call: one action is what a thread does from the point
  where it gets a mutex to the point where it next blocks. The two gates include
  the fire alarm's threads. What the manager does to its own data at that point is
  reduced to which cars are `registered`.
* `Site` composes one `EntranceGate` and one `ExitGate` by INSTANCE: cars that drive
  in at the one queue up at the other, and both of the manager's threads change one
  set of `registered` cars. `EntranceView` and `ExitView` are what each gate sees of
  the whole; that `Site` implements both is what each assumed of the other.
* `Display` adds `display_thread` to `Manager`. It locks `level_m` once per level.
* `Billing` has entries, durations, the sum and the file as printed, with the clock in
  nanoseconds and seconds of a few nanoseconds each. A bill may be written, may end the
  manager (an error of `fprintf`, or no file), or may be lost with the buffer when the
  write of `fflush` fails, whose result the code ignores; the history variable `lost` has
  those lines.
* `Simulator` follows the plates: generator, entrances, car threads and exits, one
  action for each section under `maps.m` or a queue's mutex. The manager's answer is
  either one of its two: in only for the allow list, or away.
* `FireAlarm` is `tempmonitor` with its two windows and the loop of `main` that turns on
  the alarms; `readings` is a history variable. `Temperature` extends it with
  `temp_setter`, which moves the sensors.
* `HashMap` is `map.c` with buckets as sequences, and implements `KeyValueMap`, what
  `map.h` promises. `result` is what the last call returned. `Queue` is `queue.c` with
  nodes, pointers and a heap that may give any node, and implements `Fifo`.
* `SharedMemory` has every access of the three programs with the arithmetic the code
  uses for it, octal stride included, and no state.
* `PlatesFile` is `load_regos` over any file of a few characters.
* `ManagerProofs`, `DisplayProofs`, `SimulatorProofs`, `EntranceGateProofs`,
  `ExitGateProofs`, `SiteProofs`, `FireAlarmProofs` and `PartsProofs` hold the theorems,
  each about the module of its name; `PartsProofs` is about `MCParts` and `MCFireAlarm`.
* The `MC...` modules make instances for TLC and state the assumptions on constants of
  the modules they instantiate (`HashAssumption`, `ClockAssumption`, `MutexAssumption`
  and the like, which those modules only define). `Site` states those of the two gates,
  as `ThreadsAssumption`, and `Manager`, `LevelData` and `Simulator` state their own.
  Three of the MC modules hold several instances,
  and a behaviour picks one of them in its initial state: `MCParts` the parts that share
  no state with one another, of which one moves and the others rest; `MCSite` an entrance
  alone, an exit alone or both; `MCFireAlarm` the alarm in two sizes and with the
  simulator's walk. A property stated there speaks of the instance that is picked.
* The definitions named as mutants next to an operator show what a plausible slip in the
  code would break.

How they fit together: `Manager` has every thread but hands a car over in one
step; the gate modules have one thread of the manager each and every step of the
hand-over. What `Manager` assumes of the simulator (a car appears at a reader
only while the thread behind it waits, enters only after it was registered, and
is free to come back only after the exit has forgotten it) is what the gate
modules check: `ProcessesAgree`, `OutsideIsForgotten`, `HandledWhenToldSo`. `Simulator`
has all cars, and shows that no two of them carry the same plate (`EveryPlateOnce`)
and that they come to the gates in the order the manager takes for granted (`Trips`). The modules above use maps as
sets or functions and queues as sequences; `HashMap` and `Queue` say why they may.

## Runs

| Run | Instance | Shows |
| --- | --- | --- |
| `manager_full` | 2 entrances, 1 exit, 2 levels of 1 park, 3 plates | More cars than parks. Until an entrance unlocks a mutex it does not hold: exclusion (`LevelSectionsExclusive`), counter and table agree (`SpotsConserved`), one park per car (`OneParkPerCar`), only overbooking aborts, and every step is one of `CarPark`. Bills match stays and some thread can always go on (`NeverAllStuck`), also after that. |
| `manager_roomy` | the same threads and the display, 2 levels of 1 park, 2 plates and 1 that is not allowed | With no more plates than parks nothing aborts or is stolen, there is no deadlock, the manager implements `CarPark`, the display reads tables that add up with `free_spots` and leaves every step of the others as it would be without it, and `level_m` is always given back. |
| `manager_unprotected` | as `manager_full` | Finding: two threads inside a `level_m` section, against `manager.c:22`. |
| `manager_overbooked` | as `manager_full` | Finding: `assert(level != 0)` (`manager_funcs.c:262`) fails. |
| `site` | 3 cars; an entrance or an exit alone with an alarm at any time, or both without | Simulator and manager agree on who is inside, and the manager forgets a car before it is outside (`ProcessesAgree`), no assertion of the manager fails, the gates follow their cycle and cars only pass open ones, each gate does what the other assumes, at each gate one of the programs can always go on (`NeverStuck`), every car is answered and every stay ends. An entrance starts in either order: `ReadyLost` is the case in which the manager's first signal finds nobody, and `EntranceServes` says that the entrance opens in every other case and never in this one. |
| `site_alarm` | both gates, with the fire alarm | Finding: a letter of the evacuation message makes the simulator send away a registered car; the manager aborts when it comes again. |
| `exit_gate_alarm` | 2 cars at one exit | Finding: the gate can stay rising after an alarm. |
| `exit_gate_start` | a car may come before the manager waits | Finding: the signal is lost and both threads wait forever. |
| `parts` | one of: a map of 4 colliding keys, 1 to 8 buckets, 2 values; a queue of 3 nodes in any order; every file of at most 7 characters; 2 cars with a second of 3 ms of 2 ns and an `unsigned` of 64; 3 cars at a level's reader; the address arithmetic with the sizes of the programs; every table of 3 levels and 2 plates | The map is an abstract map in what it stores and returns; the queue is a sound list without leaks and first-in first-out; what is loaded of a file is what its lines say up to the first malformed one; as long as the manager runs the total is the sum of the lines printed and of those that were lost at a flush, and of nothing else; each visit to a reader is handled exactly once, cannot get stuck (`VisitsSound`), and ends; addresses meet exactly where the programs mean the same object; the C scan finds the level it should. |
| `billing_duration` | the cars and clock of `parts` | Finding: a stay across the turn of a second is computed too long. |
| `simulator` | 2 entrances, 2 exits, 3 allowed plates, 1 other | Across separate sections no plate is lost or doubled, no map operation ends the program, every car comes out, and cars make `Trips`: none comes to an entrance while it is inside or at another gate, none drives in that is not allowed. |
| `fire_alarm` | one of: 1 level, 5 readings, 10 medians; 2 levels, 3 readings, 2 medians; 2 levels with the simulator's walk from 1 and 2, `MIDDLE` 2 | The windows hold the medians of the last readings; outliers cannot pass for heat; a level that stays hot turns on the alarms of all levels; the random walk stays near its start, so the test for heat never succeeds in a simulation. |

Why these bounds are enough to be interesting: two entrances are what the
unlocked test needs; two levels of one park let a level thread move a car into a
level and find another one full; in `manager_roomy` both levels fill up exactly;
three cars for two parks overbook, wrap the
counter and reach the "full" path while another thread holds the mutex; a second
entrance thread, the exit and two level threads are every kind of contender for
`level_m`. `SizeMax = 7` only has to exceed the parks. Three cars at a gate are one
at the reader and one queued, and a car that returns; three cars at a level
reader put two of them behind `outer_level_m`. Cars and entrances are
interchangeable in `Manager`, and symmetry is used only in runs without liveness.
The clock of `Billing` covers several turns of a second and several
wrap-arounds of the total. `MaxTime` and `MaxLines` are its only bounds. Four keys with hashes 0, 2, 4 and 1 share one bucket at first and are alone in the end, so
growth splits chains of every length; three nodes are a first, a middle and a last one.
The fire alarm's run keeps the five readings and shortens thirty medians to ten, so
that nine tenths is still nine of ten and not all; temperatures only matter by their
comparisons. In the walk `HIGH` is the first value the walk cannot reach, as tight as
`CoolAssumption` allows; the program's numbers (40 + 9 < 58) satisfy it too. Files of
seven characters hold two plates, their ends of line and one more character.
Deadlock is checked in `manager_roomy`, `simulator` and `fire_alarm`. The other systems
really stop: `manager_full` at a failed assertion, `site` after an alarm, `parts` when
the file is read, the clock ends or the map ends the program.

Fairness is weak fairness of each thread (`FairSpec`): the operating system runs
every thread that can run. A thread that waits for a mutex is not assumed to get
it when others take it again and again, and in the gate modules nothing makes a car
arrive, leave a level or set off an alarm. In `Simulator` car threads are threads
like the others, so cars do leave; the generator's search for a new random plate may
go on for ever and gets no fairness. `Site` takes from there that a car that drives
around reaches the exit.

## Proofs

`ManagerProofs` begins with what the table operations return: `AvailableLevelCorrect`
(the chosen level has room and no level has more; 0 exactly when all are full)
and that insertion and removal keep every level within its capacity. It rests on
the least element of a set of naturals, taken from well-founded induction.

It proves three invariants of `Spec` next, from the assumptions on the constants
alone:

* `TypeCorrect`: `TypeOK`. Alone it is not inductive: that only plates of the
  allow list reach a level depends on what each thread serves. `Base` adds that
  each thread is at a label of its own code (`Labelled`), that the plate it holds
  is that of the car in front of its reader (`Serving`), that no car is in front
  of two readers (`ServedOnce`), that only allowed cars get past an entrance
  (`Admitted`), that levels are finite and within capacity (`Table`), and that an
  entrance inserts into a level that exists (`Picked`).
* `SectionsExclusive`: `LevelSectionsExclusive`, inductive relative to `Base`.
* `BillsCorrect`: `BillsMatchStays`. The car of a busy thread has a bill exactly
  when the thread's place says so (`BillOfServed`), since no other reader has it.

`SomebodyGoesOn` is the safety part of freedom from deadlock, `NeverAllStuck`. It follows
from `HolderInside`: whoever owns `level_m` is inside a section, and so not itself waiting
for the mutex. That holds even after a thread has unlocked a mutex it did not own, because
such an unlock only makes it free, while exclusion is lost.

The parks come next: `ParksInv`, which holds as long as nothing was stolen: cars in
a level own a park, are in one level only, a car between two levels is in none,
and the level a thread found to have room keeps it until the thread inserts.
Mutual exclusion is what makes it inductive: while one thread is between its
removal and its insertion no other thread is inside. From it follow

* `ParksCorrect`: `OneParkPerCar`,
* `AbortsCorrect`: `OnlyOverbookingAborts`,
* `ReturnedCorrect`: `ReturnedCarsForgotten`, which follows from the other invariants
  and is therefore proved without a run of its own.

Then it relates the counter to the level table. `SpotsCorrect` is
`SpotsConserved`; inductive is the stronger `SpotsInv`, which also says that a
thread about to store still holds the current value of `free_spots`. That needs
`SectionsExclusive`: with the lock in force only one thread is updating
(`UpdatingAlone`). The counter cannot fall below -1 because cars that hold a park
fit into the levels (`HeldBound`), which follows from each level being within its
capacity; the sum over the levels is reasoned about as a least counterexample
(`NoLeastBad`, `TableBound`), since induction is not available. `RoomCorrect` is
`RoomForAllIsSafe`. Its invariant `Room` says that no entrance is on the "no
spaces" path: an entrance that tests the counter is there with a car of the allow
list that has no park, and so is any other entrance that has already taken a spot,
so with no more plates than parks the counter is not 0 (`SpotLeft`) and not every
level is full (`LevelLeft`).

The last part maps the steps of the manager to those of `CarPark`: inserting by an
entrance is `Assign`, removing by an exit is `Vacate`, the two billing steps are
`OpenBill` and `Settle`, and no other step changes a car's stage (`QuietSteps`). In
particular a level thread that moves a car changes nothing: a car between two
levels counts as held. `ImplementsUntilStolen` is this up to the first stolen
`level_m`; `Implements` is the full refinement when the allow list has no more
plates than there are parks.

`ManagerMakesTrips` is the refinement of `Trips`. It needs only `Base`, so it holds even
after a theft: a step that moves a car is one of the thread behind whose reader it is
(`ServedHere`), and a car at a level's reader is inside (`AtLevelInside`).

`DisplayProofs` does not prove the manager again. It looks at `Manager` through `view`,
in which `level_m` is free while the display holds it, and uses the lemmas of
`ManagerProofs` for that manager (`MP`). What remains to show is that the display's own
steps change nothing in this view (`DisplayIsReader`, up to the first stolen `level_m`),
that a thread which unlocks what the display holds counts as a theft, and that while the
display has the lock in force no update of `free_spots` is in progress, so that what it
reads adds up (`ReadsTableCorrectly`). `RoomWithDisplay` and `ImplementsWithDisplay`
carry over the results for car parks with no more plates than parks.

`SimulatorProofs` has one invariant, `Inv`: `Typed` (the generator has a plate exactly
between its choice and its push, and only allowed plates are past an entrance), every
plate that circulates is at one place of its way and every other at none (`Placed`), and
the two properties about the maps. `EveryPlateOnce` alone is not inductive, because it
does not say that a place really holds the plate it is counted for. Each step is
one of three: a plate moves from one place to the next, a line moves up, or
a plate starts or stops to circulate. No assumption but that there are plates.
`SimulatorMakesTrips` rests on the same invariant: because a plate is at one place only,
that place gives its stage (`WhereItIs`), and a step moves one car by one stage or
none. `TypeCorrect` is proved only, since the other properties need more than types.

`EntranceGateProofs` and `ExitGateProofs` prove the safety of a gate for any set of cars,
from the names of its threads being distinct (`DistinctThreads`). The properties speak of cars and
of the gate; what makes them inductive is the state of the hand-over, so `Inv` adds to
`TypeOK` that each thread is at a label of its own (`Labels`), which mutexes it holds there
(`Owners`), which condition it may wait on there (`Waiting`), what it knows of the gate
there (`Gate`), whose plate it holds (`Plates`, `Remembered`), and how far manager and
simulator have got with the car in front (`HandOver`). All of it was checked with TLC as an
invariant before it was proved. At the entrance `HandOver` holds until an alarm, since the
fire alarm changes the sign; at the exit nothing needs that, and `ManagerFirst` may have
either value: a car that comes too early is stuck, but nothing is remembered wrongly.

`EntranceNeverStuck` and `ExitNeverStuck` say that among the threads that serve a car one
is always awake: not every one of them waits for a signal or for a mutex that is taken. At a
gate the two programs signal each other through one condition, so this is where a lost
signal would show. The conjunct `Awake` of `Inv` says whose turn it is at each point of the
hand-over, and that this thread is not waiting for the other one. At the entrance either
thread may start first, and `ReadyLost` is the one exception: the manager has signalled that
it is ready and the simulator did not listen yet, as the comment at `manager_funcs.c:194`
fears. With that signal received, the theorem says, no later one is lost. The exit needs
`ManagerFirst`, and without it the run `exit_gate_start` shows the lost signal.

`SiteProofs` puts both gates together. Each gate's module allows its surroundings
some steps (cars that come in, cars that leave, what others do to `registered`), and
these are what the other gate does, as long as that one is in a state of its own invariant.
`SiteInv` is therefore one induction over both: no alarm, `Inv` of each gate in its view,
and that the cars present are exactly those on their way to the exit or at it (`Link`).
`SiteImplements` is the refinement of both gate modules. The theorems about `FairGates` are
the properties of the run `site` as it checks them; `GatesNeverStuck` is one of them.

`FireAlarmProofs` is about windows of any odd size and any number of levels.
`WindowsOf` ties the two lists to the history of readings: as long as a window is full, it
holds the last readings and the median of every window of consecutive ones
(`MediansCorrect`). `median` sorts a copy, defined in `FireAlarm` as any sequence with the
same number of each value in order, and its middle element has at most half of the
readings on either side (`MedianIsMedian`). `HeatSustained` counts the
pairs of a high median and a high reading under it twice (`Fibres`): every high median has
more than half of its window high, and every reading is in at most as many windows as a
window has readings. `WalkStaysCool` needs that the distance of each level from its start
stays from `-MIDDLE` to `MIDDLE - 1` (-10 to 9), the start below `HIGH - MIDDLE + 1`, and that readings and medians are
temperatures that a sensor has shown, or 0.

`PartsProofs` proves the properties of the runs `parts` and `fire_alarm` from the
modules behind them:

* `MediansCorrect`, `HeatSustained` and `WalkStaysCool` apply `FireAlarmProofs` to the three
  sizes of `MCFireAlarm`.
* `VisitsCorrect` and `RightCarHandled`, for any number of cars at a level's reader:
  `outer_level_m` has one visitor (`OneVisitor`), so the signal of either side finds the
  other one waiting (`HandOver`) and handles the car (`HandledOnce`), and nobody waits for
  a partner that has already signalled (`OneGoesOn`).
* `ListCorrect` and `FifoImplemented`, for any memory and any number of operations of the
  queue. `ListSound` follows the links from the head; the invariant `IsQueue` says it of a
  list of distinct nodes that is there: `Linked` in both directions and equal to what was
  allocated. `ChainIsList` shows that following the links gives that list, and `Fits` that
  it is never longer than the memory. Push and pop make a new list of the old one
  (`PushQueue`, `PopQueue`), from which the steps of `Fifo` follow.
* `LayoutCorrect`, for any size of a mutex with its condition that fits into an object of
  96 bytes (`MutexAssumption`). An access is a kind of object and a number. The fire
  alarm's addresses, its octal stride included, are those of the macros
  (`AlarmMeansTheSame`); `Lies` says where the macros put each object, objects of different
  kinds or numbers lie apart (`LiesApart`), and each is aligned and inside the mapping
  (`LiesInside`).
* `ScanCorrect`: after each level the loop holds the first of the largest so far
  (`FirstStep`), so at the end it holds the level that `get_available_level` names.
* `TotalExplained`, for any prices, widths and lengths of a second: a bill is one more line of
  the file or one more that is lost (`OneMoreLine`), and its dollars and cents are the bill
  (`SumOfRemainder` takes care of the wrap-around of both sums).
* `PlatesCorrect`, for plates of any number of letters and files of any length:
  `PlatesInv` says that as long as the next line is a plate, `pos` is where it begins. The
  ends of line of a file of plates are those of its lines and nothing else (`EndOfLine`,
  `BlanksEnd`), and there are as many as lines (`CountsLines`), so `load_regos` stops
  exactly at the end.
* `MapCorrect` and `MapImplemented`, for any finite number of keys, any hashes and any
  initial size. `IsMap` says that every bucket is a list of different keys that belong
  there, `Counted` that `items` is the number of items a walk through all buckets meets.
  `AllGathered` says where in that walk each item is, so that a change of one bucket
  changes the count by as much (`ItemsChange`) and nothing that is found under other keys
  (`SearchOthers`). Insertion and removal are such changes (`InsertItem`, `UnlinkItem`);
  growth is one insertion after the other of every item met by the walk, each of a key
  that the new map does not have yet (`OneMoreItem`), and so keeps what is found under
  every key (`GrowthKeeps`). The refinement needs nothing but what a search finds
  (`ValuesOf`).

Where these define something by recursion over numbers, existence and uniqueness are
proved from the least counterexample (`LeastNat`), not by an induction theorem.

Only model-checked are the liveness properties, and deadlock in the sense of TLC (no step
of the whole system is possible), which needs `ENABLED`. The prover does neither. What they
rest on is proved: that no hand-over and no mutex leaves everybody waiting.

## What is left out

* Spurious wake-ups. POSIX allows them and no wait in the code re-tests anything, so
  after one every hand-over may run ahead of its partner; the models assume that a wait
  ends only by a signal.
* The display takes `level_m` once per level, so the counts of one round are of different
  moments, and a car that changes levels may be shown twice or not at all. No property
  says otherwise; the bytes it copies without a lock are only printed.
* In `Simulator` the manager is its answer: a car of the allow list may be let in or sent
  away (full), another one is sent away. That this is so is shown by `Manager` (`TypeOK`,
  only plates of the allow list get into a level) and `EntranceGate` (`ProcessesAgree`).
  `rand_m` is only ever the innermost lock and is left out.
* The order in which threads start is free at an entrance (`ReadyLost`) and at an exit with
  `ManagerFirst = FALSE` (run `exit_gate_start`). `Site` has `ManagerFirst = TRUE`: its exit's
  manager thread waits before the first car comes. `ShowPlate` of `LevelReader` has the guard
  `pc[mgr] # "start"`, which `visit_level` does not have: `VisitsSound` and `EveryVisitEnds`
  hold for a level thread that was at its reader before the first car, and a car that came
  earlier would wait forever, as at the exit.
* `Manager` has the assertions of the billing section but not the failures of saving a bill;
  these are in `Billing`.
* A line of `billing.txt` that is cut short in a failed write counts as lost, and a C
  library that drops the buffer in that case (glibc does) is assumed. One that kept it
  would print the line later.
* A round of `tempmonitor` is one step. Its lists are its own, and it shares only the one
  read of the sensor and the flag it sets. A sensor reads 0 until the simulator's first
  write, and how many such readings the alarm takes depends on nothing but speed.
* `malloc` and `calloc` do not fail. Allocation is modelled only where freeing
  matters, in `Queue`.
* Once `level_m` is stolen, two threads may be inside the hash maps at once, which
  is a data race in C. The model keeps map operations atomic there and claims
  nothing about levels after that point; all claims say `~stolen`.
* The contents of plates and of the sign beyond level/`X`/`F`/evacuation letter,
  terminal output.
* `wait_on_lpr`, `search_level`, `free_level_data`, `free_map`, `future_time`: no caller in the
  running programs. Local buffers that
  are overwritten before they are read again are reset when a thread returns to its
  reader. `boom_thread` returns at once.

## Differences without a run

The models follow the code where it differs from what is written about it in these
places too. They show in the definitions named here and need no state to be seen.

* `get_available_level` returns the level with the most free parks (`scan_levels`), as
  its definition says (`leveldata.c:27`); the header promises the first one with room
  (`leveldata.h:15`).
* `remove_key` ends the program when the map is empty (`remove_key` of `HashMap`), where
  `map.h:60` promises `NULL`. The simulator never gets there (`MapsSound` of `Simulator`).
* `save_billing` ignores what `fflush` returns (`manager_funcs.c:23`). Since `fprintf` only
  fills the buffer, a write that fails does not reach the caller, whose message "error
  saving billing information to file" (`manager_funcs.c:131`) says that it would:
  the manager goes on, the total is right and the line is missing.
* `load_regos` returns 0, success, for a missing file (`OpenMissing` of `PlatesFile`),
  and its callers go on with a count that was never set (`manager.c:42`).
* The fire alarm's test for a fast rise compares the newest raw reading with the oldest
  median (`RisesFast`), so one warm reading is enough, where the comment speaks of the
  newest of the last 30 (`firealarm.c:117`).

## Plan

Done: every component with state of its own, composed where components interact
(`Manager` with all threads and the display, `Site` with both gates), and proofs of the
safety of all of them, of the refinements of both containers, of `CarPark` by the manager
and of `Trips` by manager and simulator. What could follow is a model of spurious
wake-ups, to show which hand-overs would need a loop around their wait.
