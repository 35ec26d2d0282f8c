------------------------------ MODULE MCParts ------------------------------
(***************************************************************************)
(* Small instances, for TLC, of the parts that share no state with one     *)
(* another: hash map, queue, the loading of plates.txt, bills, the reader  *)
(* of a level, and the tables that need no state at all.  Since nothing    *)
(* that one part does can matter to another, a behaviour moves one of them *)
(* and the others rest in a state of their own.                            *)
(*                                                                         *)
(* A key of the map is a number that holds its hash and what tells it from *)
(* other keys of the same hash: any finite set of keys can be written so.  *)
(***************************************************************************)
EXTENDS Integers

CONSTANTS
  None, mgr, NL,
  Keys, KeysPerHash,       \* keys of the map: numbers; what is in one of these has one hash
  initial_size,            \* of the map
  Regos,                   \* plates; in a file, their letters
  Nodes,                   \* memory of the queue
  REGO, MaxLength,         \* letters of a plate and of a file
  MS_PER_SEC, NS_PER_MS, CENTS_PER_MS, CENTS_PER_DOLLAR, UINT_RANGE, MaxTime, MaxLines,
  Visitors,                \* cars at the reader of a level
  LEVELS, LEVEL_CAPACITY,  \* of the tables that are scanned
  MutexCond                \* bytes of a mutex and a condition

VARIABLES
  part,
  map, call, result, exited,
  head, tail, next, prev, rego, allocated, last, misused,
  at, file, pos, values, num_regos, allow_list,
  now, entries, existed, total_bill, billing_fp, billing_file, aborted, lost, duration,
  owner, waits, pc, lpr, level_rego, seen

map_vars == <<map, call, result, exited>>
list_vars == <<head, tail, next, prev, rego, allocated, last, misused>>
plates_vars == <<at, file, pos, values, num_regos, allow_list>>
bill_vars == <<now, entries, existed, total_bill, billing_fp, billing_file, aborted,
               lost, duration>>
reader_vars == <<owner, waits, pc, lpr, level_rego, seen>>
vars == <<part, map_vars, list_vars, plates_vars, bill_vars, reader_vars>>

Map == INSTANCE HashMap WITH
         Values <- Regos, Absent <- None, Hash <- [k \in Keys |-> k \div KeysPerHash]

List == INSTANCE Queue WITH Values <- Regos

Plates == INSTANCE PlatesFile WITH Letters <- Regos

Bills == INSTANCE Billing WITH Cars <- Regos, map <- entries, file <- billing_file

Reader == INSTANCE LevelReader WITH Cars <- Visitors, rego <- level_rego

(* The sizes of the programs. *)
Memory == INSTANCE SharedMemory WITH
            ENTRANCES <- 5, EXITS <- 5, LEVELS <- 5, Bytes <- 2920

Table == INSTANCE LevelData

ASSUME PartsAssumption ==
  /\ Map!HashAssumption
  /\ List!NodesAssumption
  /\ Plates!RegoAssumption
  /\ Bills!ClockAssumption
  /\ Reader!ManagerIsNoCar
  /\ Memory!MutexAssumption

Init ==
  /\ part \in {"map", "list", "plates", "bills", "reader", "tables"}
  /\ Map!Init
  /\ List!init_queue
  /\ Plates!Init /\ (part = "plates" \/ file = None)
  /\ Bills!Init /\ (part = "bills" \/ billing_fp)
  /\ Reader!Init

MapStep ==
  /\ part = "map" /\ Map!Next
  /\ UNCHANGED <<part, list_vars, plates_vars, bill_vars, reader_vars>>

ListStep ==
  /\ part = "list" /\ List!Next
  /\ UNCHANGED <<part, map_vars, plates_vars, bill_vars, reader_vars>>

PlatesStep ==
  /\ part = "plates" /\ Plates!Next
  /\ UNCHANGED <<part, map_vars, list_vars, bill_vars, reader_vars>>

BillsStep ==
  /\ part = "bills" /\ Bills!Next
  /\ UNCHANGED <<part, map_vars, list_vars, plates_vars, reader_vars>>

AtReader(step) ==
  /\ part = "reader" /\ step
  /\ UNCHANGED <<part, map_vars, list_vars, plates_vars, bill_vars>>

Next == MapStep \/ ListStep \/ PlatesStep \/ BillsStep \/ AtReader(Reader!Next)

Spec == Init /\ [][Next]_vars

(* The fairness of LevelReader; the other parts have none. *)
FairSpec ==
  /\ Spec
  /\ WF_vars(AtReader(Reader!Manager))
  /\ \A r \in Visitors : WF_vars(AtReader(Reader!Car(r)))

-----------------------------------------------------------------------------
(* Properties of the part that moves.                                      *)

(* Buckets, counts and growth of the map are sound (map.c). *)
MapSound == part = "map" => Map!MapSound

(* Through growth and collisions the map does and returns what map.h says, *)
(* unless it ends the program.                                             *)
ImplementsMap == Map!ImplementsMap

(* The doubly linked list is sound and uses no freed node (queue.c). *)
ListSound == part = "list" => List!ListSound

(* Cars leave through an exit in the order in which they reached it. *)
ImplementsFifo == List!ImplementsFifo

(* What load_regos takes from a file is what its lines say (utils.c:196). *)
PlatesLoaded == part = "plates" => Plates!PlatesLoaded

(* billing.txt and what was lost on the way to it account for the total    *)
(* (manager_funcs.c:17-29, 120-134).                                       *)
FileExplainsTotal == part = "bills" => Bills!TypeOK /\ Bills!FileExplainsTotal

(* A car that may drive on was handled once since it showed its plate, and *)
(* while cars are at the reader of a level one thread there can go on.     *)
VisitsSound ==
  part = "reader" =>
    Reader!TypeOK /\ Reader!HandledWhenToldSo /\ Reader!VisitsNeverStuck

(* The manager handles a car only while that car waits at the reader. *)
HandlesTheCarAtTheReader == Reader!HandlesTheCarAtTheReader

(* No signal at a level's reader is lost. *)
EveryVisitEnds == Reader!EveryVisitEnds

(* Addresses meet exactly where the programs mean the same object. *)
SameBytesSameObject == part = "tables" => Memory!SameBytesSameObject

(* leveldata.c:27, "returns a level that has the most free parks": in      *)
(* every table the scan finds the level that get_available_level names,    *)
(* and 0 only when there is no park left.                                  *)
ScanFindsMostFree ==
  part = "tables" =>
    \A ld \in [1 .. LEVELS -> SUBSET Regos] :
      Table!scan_levels(ld) = Table!get_available_level(ld)
=============================================================================
