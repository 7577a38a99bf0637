------------------------------ MODULE Routines ------------------------------
(***************************************************************************)
(* osmoda-routines (main.rs, api.rs, routine.rs, scheduler.rs): a list of  *)
(* routines behind a mutex, and a scheduler that looks every minute which  *)
(* are due.  It remembers their POSITIONS, runs them one after another     *)
(* without the mutex, and then credits what stands at each position.       *)
(* Times are whole minutes of the wall clock.                              *)
(***************************************************************************)
EXTENDS Integers, Lists

CONSTANTS
    Ids,           \* ids of routines: the defaults', and fresh ones
    Triggers,      \* triggers that callers ask for
    Actions,       \* actions that callers ask for
    Defaults,      \* default_routines: a list of routines
    Calendar,      \* Calendar[t]: the five cron fields of minute t
    Never,         \* last_run of a routine that has not run
    Unreadable,    \* a routines.json that was cut off
    MaxMinutes,    \* bound: minutes that pass
    MaxEvents      \* bound: manual triggers, crashes, failed writes and
                   \* changes of the clock

KnownTriggers == Triggers \cup {Defaults[i].trigger : i \in DOMAIN Defaults}

\* struct Routine, but for its name and its action.
RoutineRecords ==
    [id : Ids, trigger : KnownTriggers, enabled : BOOLEAN, last : Int \cup {Never}, runs : Nat]

ASSUME RoutinesAssumption ==
    /\ MaxMinutes \in Nat /\ MaxEvents \in Nat
    /\ \A t \in KnownTriggers : t.kind \in {"interval", "cron", "event"}
    /\ \A t \in KnownTriggers : t.kind = "interval" => t.minutes \in Nat
    /\ Defaults \in Seq(RoutineRecords)
    /\ \A i, j \in DOMAIN Defaults : Defaults[i].id = Defaults[j].id => i = j
    /\ Never \notin Int
    /\ \A file \in {Never, Unreadable} : file \notin Seq(RoutineRecords)

VARIABLES
    routinesUp,
    routines,      \* the list
    routinesFile,  \* routines.json: a list, Never (absent) or Unreadable
    wall, passed,  \* the wall clock, and the minutes that have passed
    ticks,         \* ticks of the scheduler that are due; missed ones are made up for
    batch,         \* routines it still has to run: position, id, and `now' of the tick
    events,
    \* observers: runs by id, last tick that chose it, ids whose credit may have
    \* been taken by a shift, a removal during this batch, ids used, removed
    \* ids, their runs since
    ran, chosen, disturbed, shifted, usedIds, removedIds, ranSince

routineVars == <<routinesUp, routines, routinesFile, wall, passed, ticks, batch,
                 events, ran, chosen, disturbed, shifted, usedIds, removedIds, ranSince>>

NewRoutine(id, trigger, enabled) ==
    [id |-> id, trigger |-> trigger, enabled |-> enabled, last |-> Never, runs |-> 0]

Listed == {routines[i].id : i \in DOMAIN routines}

-----------------------------------------------------------------------------
(* Cron expressions (scheduler.rs): a pattern for each of the five fields. *)
(* A list has no lists in it.                                              *)

OneMatches(p, v) ==
    \/ p.kind = "any"
    \/ p.kind = "every" /\ p.n # 0 /\ v % p.n = 0
    \/ p.kind = "range" /\ p.from <= v /\ v <= p.to
    \/ p.kind = "is" /\ v = p.n

FieldMatches(p, v) ==
    IF p.kind = "list" THEN \E q \in p.of : OneMatches(q, v) ELSE OneMatches(p, v)

CronMatches(expression, t) ==
    \A field \in DOMAIN expression : FieldMatches(expression[field], Calendar[t][field])

-----------------------------------------------------------------------------
(* Which routines are due, and which actions may be registered.            *)

\* Mutant: the comparison is the wrong way round at the edge.
DueSetsEarly ==
    {{i \in DOMAIN routines :
        /\ routines[i].trigger.kind = "interval"
        /\ \/ routines[i].last = Never
           \/ wall - routines[i].last + 1 >= routines[i].trigger.minutes}}

\* Whole seconds are compared, and ticks come a little early or late: a routine
\* whose interval ends with this tick may have to wait for the next.  After
\* the clock was set back the difference is negative, and huge as u64.
DueSets ==
    LET Enabled == {i \in DOMAIN routines : routines[i].enabled}
        Waited(i) == wall - routines[i].last
        Interval == {i \in Enabled : routines[i].trigger.kind = "interval"}
        Sure == {i \in Interval : \/ routines[i].last = Never
                                  \/ Waited(i) < 0
                                  \/ Waited(i) > routines[i].trigger.minutes}
        OnEdge == {i \in Interval \ Sure : Waited(i) = routines[i].trigger.minutes}
        Cron == {i \in Enabled : /\ routines[i].trigger.kind = "cron"
                                 /\ CronMatches(routines[i].trigger.expression, wall)}
    IN  {Sure \cup Cron \cup some : some \in SUBSET OnEdge}

\* An absolute path, not an interpreter, without "..".
ValidAction(a) ==
    /\ a.kind = "command" => a.absolute /\ ~ a.interpreter /\ ~ a.dotdot
    /\ a.kind = "webhook" => a.http
    /\ a.kind = "service_monitor" => \A unit \in a.units : unit.safe

-----------------------------------------------------------------------------
(* Handlers.                                                               *)

\* save_routines, in place: saved, not touched, or cut off.  A failure is
\* logged only; from then on a restart may bring removed routines back.
SaveRoutines(list) ==
    \/ routinesFile' = list /\ UNCHANGED events
    \/ /\ events < MaxEvents
       /\ events' = events + 1
       /\ routinesFile' \in {routinesFile, Unreadable}

Saved(list) == routinesFile' = list

RoutineAdd(id, trigger, enabled, action) ==
    /\ routinesUp
    /\ ValidAction(action)
    /\ id \notin usedIds
    /\ usedIds' = usedIds \cup {id}
    /\ routines' = Append(routines, NewRoutine(id, trigger, enabled))
    /\ SaveRoutines(routines')
    /\ removedIds' = IF Saved(routines') THEN removedIds ELSE {}
    /\ disturbed' = IF shifted THEN disturbed \cup {id} ELSE disturbed
    /\ UNCHANGED <<routinesUp, wall, passed, ticks, batch, ran, chosen,
                   shifted, ranSince>>

Without(list, id) == Retained(list, {i \in DOMAIN list : list[i].id # id})

\* Mutant: the routine stays in the file.
RoutineRemoveUnsaved(id) ==
    /\ routinesUp
    /\ id \in Listed
    /\ routines' = Without(routines, id)
    /\ removedIds' = removedIds \cup {id}
    /\ ranSince' = [ranSince EXCEPT ![id] = 0]
    /\ UNCHANGED <<routinesUp, routinesFile, wall, passed, ticks, batch, events,
                   ran, chosen, disturbed, shifted, usedIds>>

\* The routines behind it move up by one position.
RoutineRemove(id) ==
    /\ routinesUp
    /\ id \in Listed
    /\ routines' = Without(routines, id)
    /\ SaveRoutines(routines')
    /\ removedIds' = IF Saved(routines') THEN removedIds \cup {id} ELSE {}
    /\ ran' = [ran EXCEPT ![id] = 0] /\ chosen' = [chosen EXCEPT ![id] = Never]
    /\ ranSince' = [ranSince EXCEPT ![id] = 0]
    /\ shifted' = (shifted \/ batch # {})
    /\ disturbed' =
          IF batch = {} THEN disturbed
          ELSE disturbed \cup {routines[j].id :
                  j \in {j \in DOMAIN routines : \E i \in 1 .. j - 1 : routines[i].id = id}}
    /\ UNCHANGED <<routinesUp, wall, passed, ticks, batch, usedIds>>

\* It counts first and runs afterwards, next to whatever the scheduler runs.
RoutineTrigger(id) ==
    /\ routinesUp
    /\ events < MaxEvents
    /\ events' = events + 1
    /\ id \in Listed
    /\ routines' = [i \in DOMAIN routines |->
                       IF routines[i].id # id THEN routines[i]
                       ELSE [routines[i] EXCEPT !.last = wall, !.runs = @ + 1]]
    /\ ran' = [ran EXCEPT ![id] = @ + 1]
    /\ UNCHANGED <<routinesUp, routinesFile, wall, passed, ticks, batch,
                   chosen, disturbed, shifted, usedIds, removedIds, ranSince>>

-----------------------------------------------------------------------------
(* The scheduler.                                                          *)

SchedulerTick ==
    /\ routinesUp
    /\ ticks > 0
    /\ batch = {}
    /\ ticks' = ticks - 1
    /\ \E due \in DueSets :
          /\ batch' = {[at |-> i, id |-> routines[i].id, now |-> wall] : i \in due}
          /\ chosen' = [id \in Ids |->
                          IF \E i \in due : routines[i].id = id THEN wall ELSE chosen[id]]
    /\ shifted' = FALSE
    /\ UNCHANGED <<routinesUp, routines, routinesFile, wall, passed, events, ran,
                   disturbed, usedIds, removedIds, ranSince>>

\* Mutant: positions are counted from one too far.
SchedulerRunsNext ==
    /\ routinesUp
    /\ \E run \in batch :
          /\ \A other \in batch : run.at <= other.at
          /\ batch' = batch \ {run}
          /\ routines' =
                IF run.at + 1 \in DOMAIN routines
                   THEN [routines EXCEPT ![run.at + 1].last = run.now, ![run.at + 1].runs = @ + 1]
                   ELSE routines
          /\ ran' = [ran EXCEPT ![run.id] = IF run.id \in Listed THEN @ + 1 ELSE 0]
          /\ ranSince' = [ranSince EXCEPT ![run.id] = IF run.id \in removedIds THEN @ + 1 ELSE 0]
    /\ shifted' = (shifted /\ batch' # {})
    /\ UNCHANGED <<routinesUp, routinesFile, wall, passed, ticks, events,
                   chosen, disturbed, usedIds, removedIds>>

\* The first of the batch has run, or was given up after its time; the result
\* is logged only.
SchedulerRuns ==
    /\ routinesUp
    /\ \E run \in batch :
          /\ \A other \in batch : run.at <= other.at
          /\ batch' = batch \ {run}
          /\ routines' =
                IF run.at \in DOMAIN routines
                   THEN [routines EXCEPT ![run.at].last = run.now, ![run.at].runs = @ + 1]
                   ELSE routines
          /\ ran' = [ran EXCEPT ![run.id] = IF run.id \in Listed THEN @ + 1 ELSE 0]
          /\ ranSince' = [ranSince EXCEPT ![run.id] = IF run.id \in removedIds THEN @ + 1 ELSE 0]
    /\ shifted' = (shifted /\ batch' # {})
    /\ UNCHANGED <<routinesUp, routinesFile, wall, passed, ticks, events,
                   chosen, disturbed, usedIds, removedIds>>

-----------------------------------------------------------------------------
(* Time, crash and start.                                                  *)

MinutePasses ==
    /\ passed < MaxMinutes
    /\ passed' = passed + 1
    /\ wall' = wall + 1
    /\ ticks' = IF routinesUp THEN ticks + 1 ELSE ticks
    /\ UNCHANGED <<routinesUp, routines, routinesFile, batch, events, ran,
                   chosen, disturbed, shifted, usedIds, removedIds, ranSince>>

WallSetBack ==
    /\ events < MaxEvents
    /\ events' = events + 1
    /\ wall > 0
    /\ wall' = wall - 1
    /\ chosen' = [id \in Ids |-> Never]
    /\ UNCHANGED <<routinesUp, routines, routinesFile, passed, ticks, batch, ran,
                   disturbed, shifted, usedIds, removedIds, ranSince>>

RoutinesCrash ==
    /\ routinesUp
    /\ events < MaxEvents
    /\ events' = events + 1
    /\ routinesUp' = FALSE
    /\ routines' = <<>> /\ batch' = {} /\ ticks' = 0
    /\ chosen' = [id \in Ids |-> Never]
    /\ UNCHANGED <<routinesFile, wall, passed, ran, disturbed, shifted,
                   usedIds, removedIds, ranSince>>

LoadedRoutines == IF routinesFile \in {Never, Unreadable} THEN Defaults ELSE routinesFile

\* The interval fires at once.  Counts are those of the last save.
RoutinesStart ==
    /\ ~ routinesUp
    /\ routinesUp' = TRUE
    /\ routines' = LoadedRoutines
    /\ ticks' = 1
    /\ ran' = [id \in Ids |->
                 IF \E i \in DOMAIN LoadedRoutines : LoadedRoutines[i].id = id
                    THEN LET i == CHOOSE i \in DOMAIN LoadedRoutines : LoadedRoutines[i].id = id
                         IN  LoadedRoutines[i].runs
                    ELSE 0]
    /\ disturbed' = {} /\ shifted' = FALSE
    /\ UNCHANGED <<routinesFile, wall, passed, batch, events, chosen,
                   usedIds, removedIds, ranSince>>

RoutinesInit ==
    /\ routinesUp = FALSE
    /\ routines = <<>> /\ routinesFile = Never
    /\ wall = 0 /\ passed = 0 /\ ticks = 0
    /\ batch = {} /\ events = 0
    /\ ran = [id \in Ids |-> 0] /\ chosen = [id \in Ids |-> Never]
    /\ disturbed = {} /\ shifted = FALSE
    /\ usedIds = {Defaults[i].id : i \in DOMAIN Defaults}
    /\ removedIds = {} /\ ranSince = [id \in Ids |-> 0]

RoutinesNext ==
    \/ \E id \in Ids :
          \/ \E t \in Triggers, on \in BOOLEAN, a \in Actions : RoutineAdd(id, t, on, a)
          \/ RoutineRemove(id) \/ RoutineTrigger(id)
    \/ SchedulerTick \/ SchedulerRuns
    \/ MinutePasses \/ WallSetBack \/ RoutinesCrash \/ RoutinesStart

RoutinesSpec == RoutinesInit /\ [][RoutinesNext]_routineVars

-----------------------------------------------------------------------------
(* Properties.                                                             *)

\* run_count is the number of times that the routine has run (since it was
\* loaded), by schedule and by hand in any interleaving; only a removal while
\* a batch is under way credits runs to the wrong routine, and only for those
\* behind the removed one and those added after it.
RunsCounted ==
    \A i \in DOMAIN routines :
        routines[i].id \notin disturbed => routines[i].runs = ran[routines[i].id]

\* Between two scheduled runs of an interval routine its interval passes,
\* whatever is triggered by hand, added or removed in between; a restart
\* and a clock that is set back begin anew.
IntervalKept ==
    [][\A run \in batch' \ batch :
          (/\ routines[run.at].trigger.kind = "interval"
           /\ chosen[run.id] # Never
           /\ run.id \notin disturbed)
          => wall - chosen[run.id] >= routines[run.at].trigger.minutes]_routineVars

\* A routine whose removal was answered and saved runs at most once more (it
\* may be in the batch that is under way), and no restart lists it again
\* unless routines.json could not be written later.
RemovedStaysOut == \A id \in removedIds : id \notin Listed /\ ranSince[id] <= 1
=============================================================================
