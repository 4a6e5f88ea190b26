----------------------------- MODULE Directions -----------------------------
(***************************************************************************)
(* MapView.swift and Models/DirectionsModel.swift: picking a building and  *)
(* getting directions to it.                                               *)
(*                                                                         *)
(* A tap is acted upon one second later on the main queue, in the order of *)
(* the taps.  It moves the pin and starts a task that runs                 *)
(* computeDirections off the main actor, so the tasks of two taps overlap, *)
(* each writing dirs, time and distance one after the other, and then the  *)
(* region.  A value that belongs to the route to a building is represented *)
(* by the building.                                                        *)
(***************************************************************************)
EXTENDS Naturals, Sequences, SequencesExt

CONSTANTS
  Popular,    \* the buildings of popularLocations
  Locations,  \* the buildings of umd.io
  User,       \* the fixed annotation of the user
  None,       \* no directions, no time, no distance
  Campus,     \* the region the map starts with
  MaxTaps     \* bound: taps in one behaviour

Buildings == Popular \cup Locations

ASSUME DirectionsAssumption ==
  /\ User \notin Buildings /\ None \notin Buildings /\ Campus \notin Buildings
  /\ MaxTaps \in Nat

VARIABLES
  query,        \* there is text in the search field, so the list is shown
  locations,    \* apiModel.locations has been fetched
  tapped,       \* the taps made, in order
  started,      \* how many of them the main queue has run
  annotations,  \* the pins: the user, then the destination
  tasks,        \* the Task of each tap
  dirs, time, distance,  \* the fields of DirectionsViewModel
  region,       \* the region of the map
  popupTriggered  \* the popover with the directions is up

screen == <<query, locations, popupTriggered>>
model == <<dirs, time, distance>>
mapVars == <<screen, tapped, started, annotations, tasks, model, region>>

TapIDs == 1..MaxTaps

MapInit ==
  /\ query = FALSE /\ locations = FALSE /\ popupTriggered = FALSE
  /\ tapped = <<>> /\ started = 0
  /\ annotations = <<User>>
  /\ tasks = [n \in TapIDs |-> [pc |-> "none", alone |-> FALSE]]
  /\ dirs = None /\ time = None /\ distance = None
  /\ region = Campus

-----------------------------------------------------------------------------
(* The main thread.  Nothing behind the popover can be tapped.             *)

(* The search field is edited; empty, it shows popularLocations again.     *)
editQuery ==
  /\ ~ popupTriggered
  /\ query' = ~ query
  /\ UNCHANGED <<locations, popupTriggered, tapped, started, annotations, tasks, model, region>>

(* The task of the list; an error is printed and leaves locations as is.   *)
fetchAllBuildings ==
  /\ query
  /\ ~ locations
  /\ locations' = TRUE
  /\ UNCHANGED <<query, popupTriggered, tapped, started, annotations, tasks, model, region>>

tap(building) ==
  /\ ~ popupTriggered
  /\ Len(tapped) < MaxTaps
  /\ building \in IF query THEN {b \in Locations : locations} ELSE Popular
  /\ tapped' = Append(tapped, [dest |-> building, search |-> query])
  /\ UNCHANGED <<screen, started, annotations, tasks, model, region>>

(* Mutant of pinned: the old destination is not removed.                   *)
pinnedTwice(building) == Append(annotations, building)

(* The annotations after a tap.                                            *)
pinned(building) ==
  IF Len(annotations) = 1
    THEN Append(annotations, building)
    ELSE Append(RemoveAt(annotations, 2), building)

RunningTask(n) == tasks[n].pc \notin {"none", "done", "failed"}

(* The block of asyncAfter: the pin moves, a search is cleared, and        *)
(* computeDirs starts the task.  alone records that no other task runs at  *)
(* any time while this one does; no code reads it.                         *)
runTap ==
  /\ started < Len(tapped)
  /\ started' = started + 1
  /\ annotations' = pinned(tapped[started'].dest)
  /\ query' = (query /\ ~ tapped[started'].search)
  /\ tasks' = [n \in TapIDs |->
       IF n = started'
         THEN [pc |-> "reset", alone |-> \A k \in TapIDs : ~ RunningTask(k)]
         ELSE [tasks[n] EXCEPT !.alone = @ /\ ~ RunningTask(n)]]
  /\ UNCHANGED <<locations, popupTriggered, tapped, model, region>>

showDirections ==
  /\ Len(annotations) = 2
  /\ ~ popupTriggered
  /\ popupTriggered' = TRUE
  /\ UNCHANGED <<query, locations, tapped, started, annotations, tasks, model, region>>

dismissDirections ==
  /\ popupTriggered
  /\ popupTriggered' = FALSE
  /\ UNCHANGED <<query, locations, tapped, started, annotations, tasks, model, region>>

-----------------------------------------------------------------------------
(* computeDirections, in the task of tap n.                                *)

main == <<screen, tapped, started, annotations>>

(* Mutant of Dest: the annotation of the user is taken for the destination.*)
DestIsUser(n) == User

Dest(n) == tapped[n].dest

goto(n, from, to) ==
  /\ tasks[n].pc = from
  /\ tasks' = [tasks EXCEPT ![n].pc = to]
  /\ UNCHANGED main

(* Mutant of resetDirs: previous directions are kept.                      *)
resetDirsNever(n) ==
  /\ goto(n, "reset", "calculate")
  /\ UNCHANGED <<model, region>>

(* "reset previous directions".                                            *)
resetDirs(n) ==
  /\ goto(n, "reset", "calculate")
  /\ dirs' = None
  /\ UNCHANGED <<time, distance, region>>

(* MKDirections finds a route ...                                          *)
routeFound(n) ==
  /\ goto(n, "calculate", "dirs")
  /\ UNCHANGED <<model, region>>

(* ... or finds none, or throws.                                           *)
noRoute(n) ==
  /\ goto(n, "calculate", "giveUp")
  /\ UNCHANGED <<model, region>>

setDirs(n) ==
  /\ goto(n, "dirs", "time")
  /\ dirs' = Dest(n)
  /\ UNCHANGED <<time, distance, region>>

(* Mutant of setTime: the time is only set the first time.                 *)
setTimeOnce(n) ==
  /\ goto(n, "time", "distance")
  /\ time' = IF time = None THEN Dest(n) ELSE time
  /\ UNCHANGED <<dirs, distance, region>>

setTime(n) ==
  /\ goto(n, "time", "distance")
  /\ time' = Dest(n)
  /\ UNCHANGED <<dirs, distance, region>>

setDistance(n) ==
  /\ goto(n, "distance", "region")
  /\ distance' = Dest(n)
  /\ UNCHANGED <<dirs, time, region>>

(* Back on the main actor with the region of the route ...                 *)
setRegion(n) ==
  /\ goto(n, "region", "done")
  /\ region' = Dest(n)
  /\ UNCHANGED model

(* Mutant of setDefaultRegion: computeDirections never returns on failure. *)
setDefaultRegionNever(n) == FALSE /\ UNCHANGED mapVars

(* ... or with the region the map started with.                            *)
setDefaultRegion(n) ==
  /\ goto(n, "giveUp", "failed")
  /\ region' = Campus
  /\ UNCHANGED model

computeDirections(n) ==
  \/ resetDirs(n)
  \/ routeFound(n)
  \/ noRoute(n)
  \/ setDirs(n)
  \/ setTime(n)
  \/ setDistance(n)
  \/ setRegion(n)
  \/ setDefaultRegion(n)

-----------------------------------------------------------------------------
MapNext ==
  \/ editQuery
  \/ fetchAllBuildings
  \/ \E building \in Buildings : tap(building)
  \/ runTap
  \/ showDirections
  \/ dismissDirections
  \/ \E n \in TapIDs : computeDirections(n)

(* The main queue runs its blocks, the executor its tasks, and MapKit      *)
(* calls back with a response or an error.  The user owes nothing.         *)
Fairness ==
  /\ WF_mapVars(runTap)
  /\ \A n \in TapIDs : WF_mapVars(computeDirections(n))

MapSpec == MapInit /\ [][MapNext]_mapVars /\ Fairness

-----------------------------------------------------------------------------
(* Every variable holds what it is declared to hold, and a task exists     *)
(* exactly for the taps the main queue has run.                            *)
MapTypeOK ==
  /\ query \in BOOLEAN /\ locations \in BOOLEAN /\ popupTriggered \in BOOLEAN
  /\ tapped \in Seq([dest : Buildings, search : BOOLEAN])
  /\ started \in 0..Len(tapped) /\ Len(tapped) <= MaxTaps
  /\ annotations \in Seq(Buildings \cup {User})
  /\ tasks \in [TapIDs -> [pc : {"none", "reset", "calculate", "dirs", "time", "distance",
                                 "region", "giveUp", "done", "failed"},
                           alone : BOOLEAN]]
  /\ \A n \in TapIDs : tasks[n].pc = "none" <=> n > started
  /\ {dirs, time, distance} \subseteq Buildings \cup {None}
  /\ region \in Buildings \cup {Campus}

(* The delayed blocks of the two lists share the annotations: the user     *)
(* stays first, remove(at: 1) always has something to remove, and the pin  *)
(* is the building of the last tap that was run.                           *)
PinIsLastTap ==
  annotations = IF started = 0 THEN <<User>> ELSE <<User, tapped[started].dest>>

(* A request that no other overlaps is served in full: when it has its     *)
(* route, the directions, the time, the distance and the region shown are  *)
(* all those of the pin, whatever earlier requests left or lost.           *)
AloneTripShown ==
  started > 0 /\ tasks[started].pc = "done" /\ tasks[started].alone
    => {dirs, time, distance, region} = {annotations[2]}

(* "reset previous directions": from its reset on, a request that no other *)
(* overlaps never has the directions to an earlier destination beside it,  *)
(* not even when it fails.                                                 *)
NoOldDirections ==
  started > 0 /\ tasks[started].alone /\ tasks[started].pc # "reset"
    => dirs \in {None, annotations[2]}

(* Every tap is eventually acted upon and its request for directions ends, *)
(* with or without a route.                                                *)
EveryTapServed ==
  \A n \in TapIDs : Len(tapped) >= n ~> tasks[n].pc \in {"done", "failed"}

-----------------------------------------------------------------------------
(* What the README says of this part and the code does not do.             *)

(* "find directions, determine estimated travel time, and distance between *)
(* locations": once every tap has been run and every request has got its   *)
(* route, the directions listed are those to the pin.                      *)
DirectionsOfPin ==
  /\ tapped # <<>>
  /\ \A n \in DOMAIN tapped : tasks[n].pc = "done"
  => dirs = annotations[2]

=============================================================================
