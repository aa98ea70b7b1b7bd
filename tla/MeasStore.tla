------------------------------ MODULE MeasStore ------------------------------
(***************************************************************************)
(* The measures in the memory of atmd-server (_measures) and their mutex.  *)
(*                                                                         *)
(* Two threads use them.  data_task adds a measure when a measurement has  *)
(* ended; with autosave it adds every measure only to write it to a file,  *)
(* as the last of the vector, and deletes it again.  The main thread       *)
(* executes the commands of the one client that is connected: it lists,    *)
(* reads, deletes and clears measures, which the client names by their     *)
(* place in the vector.  The mutex is a Xenomai mutex: its owner may       *)
(* acquire it again, and must then release it as often.                    *)
(*                                                                         *)
(* A measure is a number, in the order of creation.  How its starts are    *)
(* collected is the subject of module DataTask; here every measure has     *)
(* some.                                                                   *)
(***************************************************************************)
EXTENDS Naturals, SequencesExt

CONSTANTS
  MaxMeasures,  \* bound: measures created
  MaxDepth,     \* bound: times the main thread holds the mutex
  ClientDrops,  \* TRUE: a client may disconnect before it has its answer
  ClientQuits,  \* TRUE: a client may send EXT
  SaveMayFail   \* TRUE: writing a file may fail

ASSUME MeasStoreAssumption ==
  /\ MaxMeasures \in Nat
  /\ MaxDepth \in Nat \ {0}
  /\ {ClientDrops, ClientQuits, SaveMayFail} \subseteq BOOLEAN

VARIABLES
  status,    \* _status of the VirtualBoard
  autosave,  \* _autosave # 0
  owner,     \* owner of _meas_mutex
  depth,     \* times its owner has acquired it
  measures,  \* _measures
  created,   \* measures created so far
  freed,     \* measures deleted so far
  curr,      \* data_task: current measure, 0 for none
  data,      \* data_task: what it does next
  last,      \* data_task: the measurement has ended (measure_end)
  files,     \* measures in autosave files
  main,      \* main thread: command being executed, or what is left of it
  place,     \* main thread: the measure the command names
  view,      \* client: the measures it knows from LST, by their place
  deserted,  \* a client has sent EXT while data_task was at work
  dropped    \* a client has disconnected before it had its answer

mutex == <<owner, depth>>
store == <<measures, freed>>
task == <<curr, created, data, last, files>>
client == <<main, place, view, deserted, dropped>>
vars == <<status, autosave, mutex, store, task, client>>

Thread == {"main", "data"}
Id == 1 .. MaxMeasures

Init ==
  /\ status = "IDLE"
  /\ autosave = FALSE
  /\ owner = "none"
  /\ depth = 0
  /\ measures = <<>>
  /\ created = 0
  /\ freed = {}
  /\ curr = 0
  /\ data = "idle"
  /\ last = FALSE
  /\ files = <<>>
  /\ main = "idle"
  /\ place = 0
  /\ view = <<>>
  /\ deserted = FALSE
  /\ dropped = FALSE
-----------------------------------------------------------------------------
(* The mutex. *)

Free(t) == owner \in {"none", t}

Acquire(t) ==
  /\ Free(t)
  /\ owner' = t
  /\ depth' = depth + 1

(* A bug to catch: what is acquired is not released. *)
NoRelease(t) == UNCHANGED mutex

Release(t) ==
  /\ depth' = depth - 1
  /\ owner' = IF depth = 1 THEN "none" ELSE owner
-----------------------------------------------------------------------------
(* data_task.  "collect" stands for all its work on packets. *)

NewMeasure == created + 1

(* SET AUTOSAVE and MSR START, and the first packets of a measurement.     *)
StartMeasure ==
  /\ main = "idle"
  /\ status = "IDLE"
  /\ data = "idle"
  /\ created < MaxMeasures
  /\ status' = "RUNNING"
  /\ autosave' \in BOOLEAN
  /\ created' = NewMeasure
  /\ curr' = NewMeasure
  /\ data' = "collect"
  /\ UNCHANGED <<mutex, store, last, files, client>>

(* The last TERM, or with autosave enough starts. *)
MeasureDone ==
  /\ data = "collect"
  /\ \/ last' = TRUE
     \/ last' = FALSE /\ autosave /\ created < MaxMeasures
  /\ data' = "acquire"
  /\ UNCHANGED <<status, autosave, mutex, store, curr, created, files, client>>

DataAcquire ==
  /\ data = "acquire"
  /\ Acquire("data")
  /\ data' = "add"
  /\ UNCHANGED <<status, autosave, store, curr, created, last, files, client>>

(* A bug to catch: the measure that was added is still collected into. *)
CurrKept == curr' = curr /\ UNCHANGED created

NextCurr ==
  IF last THEN curr' = 0 /\ UNCHANGED created
  ELSE curr' = NewMeasure /\ created' = NewMeasure

AddMeasure ==
  /\ data = "add"
  /\ measures' = Append(measures, curr)
  /\ NextCurr
  /\ data' = IF autosave THEN "save" ELSE "release"
  /\ UNCHANGED <<status, autosave, mutex, freed, last, files, client>>

(* A bug to catch: the first measure is written. *)
FirstMeasure == Head(measures)

LastMeasure == measures[Len(measures)]

(* save_measure(measures()-1): refused if there is no measure. *)
SaveLast ==
  /\ data = "save"
  /\ \/ measures # <<>> /\ files' = Append(files, LastMeasure)
     \/ (measures = <<>> \/ SaveMayFail) /\ UNCHANGED files
  /\ data' = "delete"
  /\ UNCHANGED <<status, autosave, mutex, store, curr, created, last, client>>

(* A bug to catch: the first measure is deleted. *)
DeletedPlace == 1

LastPlace == Len(measures)

Delete(i) ==
  IF i \in DOMAIN measures
  THEN /\ measures' = RemoveAt(measures, i)
       /\ freed' = freed \cup {measures[i]}
  ELSE UNCHANGED store

(* delete_measure(measures()-1). *)
DeleteLast ==
  /\ data = "delete"
  /\ Delete(LastPlace)
  /\ data' = "release"
  /\ UNCHANGED <<status, autosave, mutex, curr, created, last, files, client>>

DataRelease ==
  /\ data = "release"
  /\ Release("data")
  /\ IF last THEN data' = "idle" /\ status' = "IDLE"
             ELSE data' = "collect" /\ UNCHANGED status
  /\ UNCHANGED <<autosave, store, curr, created, last, files, client>>
-----------------------------------------------------------------------------
(* Main thread: the commands of the client. *)

(* MSR LST, SAV, STAT, DEL or CLR has come, and the mutex is acquired. *)
Command ==
  /\ main = "idle"
  /\ depth < MaxDepth
  /\ main' \in {"LST", "SAV", "STAT", "DEL", "CLR"}
  /\ place' \in IF main' \in {"SAV", "STAT", "DEL"} THEN 1 .. MaxMeasures ELSE {0}
  /\ Acquire("main")
  /\ UNCHANGED <<status, autosave, store, task, view, deserted, dropped>>

(* The answer has been sent, and the mutex is released. *)
Answered ==
  /\ main' = "idle"
  /\ Release("main")
  /\ UNCHANGED dropped

(* The connection is lost while the answer is sent: send_command throws,   *)
(* and the main loop waits for the next client.                            *)
Dropped ==
  /\ ClientDrops
  /\ main' = "idle"
  /\ dropped' = TRUE
  /\ UNCHANGED mutex

List ==
  /\ main = "LST"
  /\ \/ Answered /\ view' = measures
     \/ Dropped /\ view' = <<>>
  /\ UNCHANGED <<status, autosave, store, task, place, deserted>>

(* SAV and STAT read a measure, if there is one at the place. *)
Read ==
  /\ main \in {"SAV", "STAT"}
  /\ \/ Answered /\ UNCHANGED view
     \/ Dropped /\ view' = <<>>
  /\ UNCHANGED <<status, autosave, store, task, place, deserted>>

DeleteOne ==
  /\ main = "DEL"
  /\ Delete(place)
  /\ \/ Answered /\ view' = IF place \in DOMAIN view THEN RemoveAt(view, place) ELSE view
     \/ Dropped /\ view' = <<>>
  /\ UNCHANGED <<status, autosave, task, place, deserted>>

ClearAll ==
  /\ measures' = <<>>
  /\ view' = <<>>

Clear ==
  /\ main = "CLR"
  /\ ClearAll
  /\ freed' = freed \cup Range(measures)
  /\ Answered \/ Dropped
  /\ UNCHANGED <<status, autosave, task, place, deserted>>

(* EXT: the measures are deleted one by one and then taken off the vector, *)
(* without the mutex.                                                      *)
Quit ==
  /\ ClientQuits
  /\ main = "idle"
  /\ freed' = freed \cup Range(measures)
  /\ main' = "EXT"
  /\ deserted' = (deserted \/ data # "idle")
  /\ UNCHANGED <<status, autosave, mutex, measures, task, place, view, dropped>>

QuitCleared ==
  /\ main = "EXT"
  /\ ClearAll
  /\ status' = "IDLE"
  /\ autosave' = FALSE
  /\ main' = "idle"
  /\ UNCHANGED <<mutex, freed, task, place, deserted, dropped>>
-----------------------------------------------------------------------------
DataTask ==
  MeasureDone \/ DataAcquire \/ AddMeasure \/ SaveLast \/ DeleteLast \/ DataRelease

MainTask == List \/ Read \/ DeleteOne \/ Clear \/ QuitCleared

Next == StartMeasure \/ DataTask \/ Command \/ Quit \/ MainTask

Spec == Init /\ [][Next]_vars

(* Both threads run, and a measurement does not last for ever.  A thread   *)
(* that waits for the mutex gets it although the other one acquires it     *)
(* again and again: Xenomai hands a mutex over to the thread that waits.   *)
Fairness ==
  /\ SF_vars(DataAcquire)
  /\ WF_vars(MeasureDone \/ AddMeasure \/ SaveLast \/ DeleteLast \/ DataRelease)
  /\ WF_vars(MainTask)

FairSpec == Spec /\ Fairness
-----------------------------------------------------------------------------
TypeOK ==
  /\ status \in {"IDLE", "RUNNING"}
  /\ autosave \in BOOLEAN
  /\ owner \in Thread \cup {"none"}
  /\ depth \in 0 .. MaxDepth
  /\ measures \in Seq(Id)
  /\ created \in 0 .. MaxMeasures
  /\ freed \subseteq Id
  /\ curr \in Id \cup {0}
  /\ data \in {"idle", "collect", "acquire", "add", "save", "delete", "release"}
  /\ last \in BOOLEAN
  /\ files \in Seq(Id)
  /\ main \in {"idle", "LST", "SAV", "STAT", "DEL", "CLR", "EXT"}
  /\ place \in Id \cup {0}
  /\ view \in Seq(Id)
  /\ {deserted, dropped} \subseteq BOOLEAN

(* Every measure ever created is in one place: it is being collected, or   *)
(* it is in the vector once, or it was deleted.  None leaks, and none that *)
(* was deleted can be listed, saved or deleted again, whenever clients     *)
(* disconnect; only an EXT in the middle of a measurement is excepted,     *)
(* since it deletes and clears the measures without the mutex.             *)
EveryMeasureOnce ==
  (~deserted /\ main # "EXT") =>
    /\ IsInjective(measures)
    /\ \A m \in 1 .. created :
         Cardinality({w \in {"curr", "vector", "freed"} :
                        CASE w = "curr"   -> m = curr
                          [] w = "vector" -> m \in Range(measures)
                          [] w = "freed"  -> m \in freed}) = 1

(* The place a client knows a measure by stays the place of that measure   *)
(* until the client itself deletes or clears some, whatever data_task adds *)
(* and autosaves in between.                                               *)
ListingHolds == main = "idle" => IsPrefix(view, measures)

(* Autosave leaves nothing behind: once data_task has released the mutex,  *)
(* no measure of an autosave file is in the vector, where the next client  *)
(* would find it; and none was written twice.                              *)
AutosaveLeavesNothing ==
  /\ IsInjective(files)
  /\ owner # "data" => Range(files) \cap Range(measures) = {}

(* The mutex is still held for a command whose client has gone. *)
MutexLeft == dropped /\ owner = "main" /\ main = "idle"

(* A measurement ends, although data_task has to wait for the mutex and    *)
(* clients keep acquiring it, unless the mutex was left held.              *)
EndsUnlessMutexLeft == status = "RUNNING" ~> status = "IDLE" \/ MutexLeft
-----------------------------------------------------------------------------
(* What comments of the repository say, and the code does not do. *)

(* "Re-enable start button if IDLE": a client that waits for IDLE sees the *)
(* measurement end, whatever clients did before.                           *)
MeasurementEnds == status = "RUNNING" ~> status = "IDLE"
=============================================================================
