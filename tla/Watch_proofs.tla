---------------------------- MODULE Watch_proofs ----------------------------
(***************************************************************************)
(* Theorems about osmoda-watch: sessions, the mutex and watchers (Watch),  *)
(* for every number of sessions, watchers, rungs, orphaned children,       *)
(* hung-up clients and crashes; and the fleet switches (FleetSwitch), for  *)
(* any number of switches and peers, any lists, percentages and timeouts,  *)
(* and whatever the clock does.                                            *)
(***************************************************************************)
EXTENDS Watch, FleetSwitch, FiniteSetTheorems, TLAPS
-----------------------------------------------------------------------------
(***************************************************************************)
(* Type correctness, in the four parts of TypeOK.                          *)
(***************************************************************************)

\* A step that leaves a part of the state alone keeps its types.
LEMMA StillTypes ==
  /\ SessionTypes /\ UNCHANGED sessions => SessionTypes'
  /\ ProfileTypes /\ UNCHANGED <<gens, children>> => ProfileTypes'
  /\ AutopilotTypes /\ UNCHANGED autopilot => AutopilotTypes'
  /\ TaskTypes /\ UNCHANGED <<task, newest>> => TaskTypes'
BY DEF SessionTypes, ProfileTypes, AutopilotTypes, TaskTypes, sessions, gens, children, autopilot

\* The idle mutex is a task.
LEMMA NobodyType == Nobody \in TaskType /\ Nobody.at # "activate" /\ Nobody.by # "manual"
BY DEF Nobody, TaskType

\* A loop that starts, or goes on.
LEMMA LoopType ==
  ASSUME NEW by \in {"probation", "watchers", "nobody"},
         NEW todo \in SUBSET (Sessions \cup Watchers)
  PROVE  LET t == [Nobody EXCEPT !.by = by, !.todo = todo]
         IN  t \in TaskType /\ t.at # "activate" /\ t.by # "manual"
BY DEF Nobody, TaskType

\* Going on with the loop, or letting go of the mutex.
LEMMA MoveOnType == ASSUME TaskTypes, MoveOn PROVE TaskTypes'
<1>1. task' \in TaskType /\ task'.at # "activate" /\ task'.by # "manual"
  <2>1. CASE task.todo = {}
    BY <2>1, NobodyType DEF MoveOn
  <2>2. CASE task.todo # {}
    <3>1. task.by \in {"probation", "watchers", "nobody"}
          /\ task.todo \in SUBSET (Sessions \cup Watchers)
      BY <2>2 DEF TaskTypes, TaskType
    <3> QED
      BY <2>2, <3>1, LoopType DEF MoveOn
  <2> QED
    BY <2>1, <2>2
<1> QED
  BY <1>1 DEF TaskTypes

\* The end of a rollback keeps the type of the task and of the sessions.
LEMMA RolledBackType ==
  ASSUME SessionTypes, TaskTypes, NEW done, RolledBack(done),
         UNCHANGED <<prev, due, gen, launched, cut>>
  PROVE  TaskTypes' /\ SessionTypes'
<1>1. TaskTypes'
  BY MoveOnType DEF RolledBack
<1>2. status' \in [Sessions -> Statuses]
  BY DEF RolledBack, SessionTypes, Statuses
<1> QED
  BY <1>1, <1>2 DEF SessionTypes

\* No watcher, as a fresh daemon and an unreadable watchers.json have it.
LEMMA NoWatchersType ==
  /\ Absent \in WatcherType
  /\ [there |-> TRUE, failures |-> 0] \in WatcherType
  /\ NoWatchers \in [Watchers -> WatcherType]
<1>1. Len(Ladder) \in Nat
  BY WatchAssumption
<1>2. /\ Absent \in WatcherType
      /\ [there |-> TRUE, failures |-> 0] \in WatcherType
  BY <1>1 DEF Absent, WatcherType
<1> QED
  BY <1>2 DEF NoWatchers

\* The initial state is typed.
LEMMA InitTypeOK == Init => TypeOK
<1> SUFFICES ASSUME Init PROVE TypeOK
  OBVIOUS
<1>1. SessionTypes
  BY WatchAssumption DEF Init, SessionTypes, Statuses
<1>2. ProfileTypes
  BY WatchAssumption DEF Init, ProfileTypes
<1>3. AutopilotTypes
  BY NoWatchersType DEF Init, AutopilotTypes
<1>4. TaskTypes
  BY NobodyType DEF Init, TaskTypes
<1>5. crashes \in 0 .. MaxCrashes
  BY WatchAssumption DEF Init
<1>6. up \in BOOLEAN
  BY Zenon DEF Init
<1> QED
  BY <1>1, <1>2, <1>3, <1>4, <1>5, <1>6 DEF TypeOK

\* A step of a session keeps the types.
LEMMA SessionStepTypeOK == ASSUME TypeOK, NEW id \in Sessions, SessionStep(id) PROVE TypeOK'
<1> USE DEF TypeOK
<1>1. CASE \/ BeginArrives(id) \/ BeginInserts(id) \/ BeginDropped(id) \/ TtlPasses(id)
           \/ Commit(id)
  <2>1. SessionTypes'
    <3>1. current \in Nat
      BY DEF ProfileTypes
    <3> QED
      BY <1>1, <3>1 DEF BeginArrives, BeginInserts, BeginDropped, TtlPasses, Commit,
                        SessionTypes, Statuses
  <2>2. UNCHANGED <<up, gens, task, children, autopilot, crashes>>
    BY <1>1 DEF BeginArrives, BeginInserts, BeginDropped, TtlPasses, Commit
  <2> QED
    BY <2>1, <2>2, StillTypes DEF gens
<1>2. CASE Deploy(id)
  <2>1. SessionTypes'
    BY <1>2 DEF Deploy, SessionTypes, ProfileTypes
  <2>2. ProfileTypes'
    BY <1>2 DEF Deploy, ProfileTypes, children
  <2>3. TaskTypes'
    BY <1>2 DEF Deploy, TaskTypes, ProfileTypes
  <2>4. UNCHANGED <<up, autopilot, crashes>>
    BY <1>2 DEF Deploy
  <2> QED
    BY <2>1, <2>2, <2>3, <2>4, StillTypes
<1>3. CASE RollbackBegins(id)
  <2>1. SessionTypes'
    BY <1>3 DEF RollbackBegins, SessionTypes
  <2>2. TaskTypes'
    BY <1>3 DEF RollbackBegins, TaskTypes, Nobody, TaskType
  <2>3. UNCHANGED <<up, gens, children, autopilot, crashes>>
    BY <1>3 DEF RollbackBegins
  <2> QED
    BY <2>1, <2>2, <2>3, StillTypes
<1>4. CASE RollbackDropped(id)
  <2>1. SessionTypes'
    <3>1. cut' \in [Sessions -> 0 .. MaxCuts]
      BY <1>4, WatchAssumption DEF RollbackDropped, SessionTypes
    <3> QED
      BY <1>4, <3>1 DEF RollbackDropped, SessionTypes
  <2>2. TaskTypes'
    BY <1>4, NobodyType DEF RollbackDropped, TaskTypes
  <2>3. ProfileTypes'
    <3>1. orphans' \in 0 .. MaxOrphans
      BY <1>4, WatchAssumption DEF RollbackDropped, ProfileTypes
    <3>2. late' \subseteq 1 .. newest
      BY <1>4 DEF RollbackDropped, ProfileTypes, TaskTypes
    <3> QED
      BY <1>4, <3>1, <3>2 DEF RollbackDropped, ProfileTypes, gens
  <2>4. UNCHANGED <<up, autopilot, crashes>>
    BY <1>4 DEF RollbackDropped
  <2> QED
    BY <2>1, <2>2, <2>3, <2>4, StillTypes
<1> QED
  BY <1>1, <1>2, <1>3, <1>4 DEF SessionStep

\* What holds of a step of the holder of the mutex, but for its own effect.
LEMMA LoopTypes ==
  ASSUME TypeOK, ProbationTick \/ WatcherTick \/ \E x \in Sessions \cup Watchers : Pick(x)
  PROVE  TypeOK'
<1> USE DEF TypeOK
<1>1. UNCHANGED <<up, sessions, gens, children, autopilot, crashes>>
  BY DEF ProbationTick, WatcherTick, Pick
<1>2. TaskTypes'
  <2>1. CASE ProbationTick
    BY <2>1, NobodyType, LoopType DEF ProbationTick, Active, TaskTypes
  <2>2. CASE WatcherTick
    BY <2>2, NobodyType, LoopType DEF WatcherTick, Present, TaskTypes
  <2>3. ASSUME NEW x \in Sessions \cup Watchers, Pick(x) PROVE TaskTypes'
    <3> DEFINE answer == x \in due
    <3>1. answer \in BOOLEAN
      OBVIOUS
    <3>2. task' = [task EXCEPT !.at = "check", !.on = x, !.todo = @ \ {x}, !.due = answer]
          /\ task.at = "pick"
      BY <2>3 DEF Pick
    <3> HIDE DEF answer
    <3> QED
      BY <3>1, <3>2 DEF TaskTypes, TaskType
  <2> QED
    BY <2>1, <2>2, <2>3
<1> QED
  BY <1>1, <1>2, StillTypes

\* The outcome of a check keeps the types.
LEMMA CheckTypes ==
  ASSUME TypeOK,
         \/ \E id \in Sessions : SessionPasses(id) \/ SessionFails(id)
         \/ \E w \in Watchers : WatcherPasses(w) \/ WatcherFails(w)
         \/ RestartEnds
  PROVE  TypeOK'
<1> USE DEF TypeOK
<1>1. ASSUME NEW id \in Sessions, SessionPasses(id) PROVE TypeOK'
  <2>1. SessionTypes'
    BY <1>1 DEF SessionPasses, SessionTypes, Statuses
  <2>2. TaskTypes'
    BY <1>1, MoveOnType DEF SessionPasses
  <2>3. UNCHANGED <<up, gens, children, autopilot, crashes>>
    BY <1>1 DEF SessionPasses
  <2> QED
    BY <2>1, <2>2, <2>3, StillTypes
<1>2. ASSUME NEW id \in Sessions, SessionFails(id) PROVE TypeOK'
  <2>1. SessionTypes'
    BY <1>2 DEF SessionFails, SessionTypes
  <2>2. TaskTypes'
    BY <1>2 DEF SessionFails, TaskTypes, TaskType
  <2>3. UNCHANGED <<up, gens, children, autopilot, crashes>>
    BY <1>2 DEF SessionFails
  <2> QED
    BY <2>1, <2>2, <2>3, StillTypes
<1>3. ASSUME NEW w \in Watchers, WatcherPasses(w) PROVE TypeOK'
  <2>1. AutopilotTypes'
    <3>0. Len(Ladder) \in Nat /\ watchers[w] \in WatcherType
      BY WatchAssumption DEF AutopilotTypes
    <3>1. [watchers[w] EXCEPT !.failures = 0] \in WatcherType
      BY <3>0 DEF WatcherType
    <3>2. watchers' = [watchers EXCEPT ![w] = [watchers[w] EXCEPT !.failures = 0]]
      BY <1>3 DEF WatcherPasses
    <3>3. watchers' \in [Watchers -> WatcherType]
      BY <3>1, <3>2 DEF AutopilotTypes
    <3>4. tried' = [tried EXCEPT ![w] = {}] /\ {} \in SUBSET (1 .. Len(Ladder))
      BY <1>3 DEF WatcherPasses
    <3>5. tried' \in [Watchers -> SUBSET (1 .. Len(Ladder))]
      BY <3>4 DEF AutopilotTypes
    <3> QED
      BY <1>3, <3>3, <3>5 DEF WatcherPasses, AutopilotTypes
  <2>2. TaskTypes'
    BY <1>3, MoveOnType DEF WatcherPasses
  <2>3. UNCHANGED <<up, sessions, gens, children, crashes>>
    BY <1>3 DEF WatcherPasses
  <2> QED
    BY <2>1, <2>2, <2>3, StillTypes
<1>4. ASSUME NEW w \in Watchers, WatcherFails(w) PROVE TypeOK'
  <2> DEFINE failures == Least(watchers[w].failures + 1, Len(Ladder) + 1)
  <2>0. Len(Ladder) \in Nat
    BY WatchAssumption
  <2>1. failures \in 1 .. Len(Ladder) + 1
    BY <2>0 DEF AutopilotTypes, WatcherType, Least
  <2>2. Ladder # <<>> => Rung(failures) \in 1 .. Len(Ladder)
    BY <2>0, <2>1, WatchAssumption DEF Rung, Least
  <2>3. AutopilotTypes'
    <3>1. watchers' \in [Watchers -> WatcherType]
      BY <1>4, <2>0, <2>1 DEF WatcherFails, AutopilotTypes, WatcherType
    <3>2. tried' \in [Watchers -> SUBSET (1 .. Len(Ladder))]
      <4>1. CASE Ladder = <<>>
        BY <1>4, <4>1 DEF WatcherFails, AutopilotTypes
      <4>2. CASE Ladder # <<>>
        <5> DEFINE rungs == tried[w] \cup {Rung(failures)}
        <5>1. rungs \in SUBSET (1 .. Len(Ladder))
          BY <2>2, <4>2 DEF AutopilotTypes
        <5>2. tried' = [tried EXCEPT ![w] = rungs]
          BY <1>4, <4>2 DEF WatcherFails
        <5> HIDE DEF rungs
        <5> QED
          BY <5>1, <5>2 DEF AutopilotTypes
      <4> QED
        BY <4>1, <4>2
    <3> QED
      BY <1>4, <3>1, <3>2 DEF WatcherFails, AutopilotTypes
  <2>4. TaskTypes'
    <3>1. CASE MoveOn
      BY <3>1, MoveOnType
    <3>2. CASE \E at \in {"restart", "nix-env"} : task' = [task EXCEPT !.at = at]
      BY <1>4, <3>2 DEF WatcherFails, TaskTypes, TaskType
    <3>3. CASE Ladder = <<>>
      BY <1>4, <3>1, <3>3 DEF WatcherFails
    <3>4. CASE Ladder # <<>>
      <4>1. Ladder[Rung(failures)] \in {"restart", "rollback", "notify"}
        BY <2>2, <3>4, WatchAssumption
      <4> QED
        BY <1>4, <3>1, <3>2, <3>4, <4>1 DEF WatcherFails
    <3> QED
      BY <3>3, <3>4
  <2>5. UNCHANGED <<up, sessions, gens, children, crashes>>
    BY <1>4 DEF WatcherFails
  <2> QED
    BY <2>3, <2>4, <2>5, StillTypes
<1>5. CASE RestartEnds
  <2>1. TaskTypes'
    BY <1>5, MoveOnType DEF RestartEnds
  <2> QED
    BY <1>5, <2>1, StillTypes DEF RestartEnds
<1> QED
  BY <1>1, <1>2, <1>3, <1>4, <1>5

\* A step of rollback_generation or of a child that was given up keeps the types.
LEMMA ChildTypes ==
  ASSUME TypeOK,
         \/ NixEnvWorks \/ NixEnvFails \/ NixEnvTimesOut
         \/ ActivateWorks \/ ActivateFails
         \/ OrphanEnds \/ \E g \in late : LateEnds(g)
  PROVE  TypeOK'
<1> USE DEF TypeOK
<1>1. CASE NixEnvWorks
  <2>1. ProfileTypes'
    BY <1>1 DEF NixEnvWorks, ProfileTypes, children
  <2>2. TaskTypes'
    <3>1. current - 1 \in 1 .. newest /\ current - 1 \in Nat
      BY <1>1 DEF NixEnvWorks, ProfileTypes
    <3>2. task' = [task EXCEPT !.at = "activate", !.to = current - 1]
          /\ newest' = newest /\ task.at = "nix-env"
      BY <1>1 DEF NixEnvWorks
    <3> QED
      BY <3>1, <3>2 DEF TaskTypes, TaskType
  <2>3. UNCHANGED <<up, sessions, autopilot, crashes>>
    BY <1>1 DEF NixEnvWorks
  <2> QED
    BY <2>1, <2>2, <2>3, StillTypes
<1>2. CASE NixEnvFails \/ NixEnvTimesOut
  <2>1. TaskTypes' /\ SessionTypes'
    <3>1. RolledBack(FALSE) /\ UNCHANGED <<prev, due, gen, launched, cut>>
      BY <1>2 DEF NixEnvFails, NixEnvTimesOut
    <3> QED
      BY <3>1, RolledBackType
  <2>2. ProfileTypes'
    <3>1. newest' = newest /\ current' = current /\ running' = running /\ late' = late
      BY <1>2 DEF NixEnvFails, NixEnvTimesOut, gens, children
    <3>2. orphans' = orphans \/ (orphans < MaxOrphans /\ orphans' = orphans + 1)
      BY <1>2 DEF NixEnvFails, NixEnvTimesOut, children
    <3>3. orphans' \in 0 .. MaxOrphans
      BY <3>2, WatchAssumption DEF ProfileTypes
    <3> QED
      BY <3>1, <3>3 DEF ProfileTypes
  <2>3. UNCHANGED <<up, autopilot, crashes>>
    BY <1>2 DEF NixEnvFails, NixEnvTimesOut
  <2> QED
    BY <2>1, <2>2, <2>3, StillTypes
<1>3. CASE ActivateWorks \/ ActivateFails
  <2>1. TaskTypes' /\ SessionTypes'
    <3>1. \E done : RolledBack(done)
      BY <1>3 DEF ActivateWorks, ActivateFails
    <3>2. UNCHANGED <<prev, due, gen, launched, cut>>
      BY <1>3 DEF ActivateWorks, ActivateFails
    <3> QED
      BY <3>1, <3>2, RolledBackType
  <2>2. ProfileTypes'
    <3>1. task.to \in 1 .. newest /\ newest' = newest /\ current' = current /\ orphans' = orphans
      BY <1>3 DEF ActivateWorks, ActivateFails, TaskTypes, gens, children
    <3>2. running' \in {running, task.to}
      BY <1>3 DEF ActivateWorks, ActivateFails, gens
    <3>3. late' \in {late, late \cup {task.to}}
      BY <1>3 DEF ActivateWorks, ActivateFails, children
    <3> QED
      BY <3>1, <3>2, <3>3 DEF ProfileTypes
  <2>3. UNCHANGED <<up, autopilot, crashes>>
    BY <1>3 DEF ActivateWorks, ActivateFails
  <2> QED
    BY <2>1, <2>2, <2>3, StillTypes
<1>4. CASE OrphanEnds \/ \E g \in late : LateEnds(g)
  <2>1. ASSUME OrphanEnds PROVE ProfileTypes'
    <3>1. current' \in 1 .. newest
      <4>1. current' = current \/ (current' = current - 1 /\ current > 1)
        BY <2>1 DEF OrphanEnds
      <4> QED
        BY <4>1 DEF ProfileTypes
    <3>2. orphans' \in 0 .. MaxOrphans
      <4>1. orphans > 0 /\ orphans' = orphans - 1
        BY <2>1 DEF OrphanEnds
      <4> QED
        BY <4>1, WatchAssumption DEF ProfileTypes
    <3>3. newest' = newest /\ running' = running /\ late' = late
      BY <2>1 DEF OrphanEnds
    <3> QED
      BY <3>1, <3>2, <3>3 DEF ProfileTypes
  <2>2. ASSUME NEW g \in late, LateEnds(g) PROVE ProfileTypes'
    BY <2>2 DEF LateEnds, ProfileTypes
  <2>3. ProfileTypes'
    BY <1>4, <2>1, <2>2
  <2>4. UNCHANGED <<up, sessions, newest, task, autopilot, crashes>>
    BY <1>4 DEF OrphanEnds, LateEnds
  <2> QED
    BY <2>3, <2>4, StillTypes
<1> QED
  BY <1>1, <1>2, <1>3, <1>4

\* Every step keeps the types.
LEMMA NextTypeOK == TypeOK /\ [Next]_vars => TypeOK'
<1> SUFFICES ASSUME TypeOK, [Next]_vars PROVE TypeOK'
  OBVIOUS
<1>1. CASE UNCHANGED vars
  <2>1. UNCHANGED <<up, crashes>> /\ UNCHANGED sessions /\ UNCHANGED <<gens, children>>
        /\ UNCHANGED autopilot /\ UNCHANGED <<task, newest>>
    BY <1>1 DEF vars, gens
  <2> QED
    BY <2>1, StillTypes DEF TypeOK
<1>2. ASSUME NEW w \in Watchers, WatcherAdd(w) \/ WatcherRemove(w) PROVE TypeOK'
  <2>1. watchers' \in [Watchers -> WatcherType]
    BY <1>2, NoWatchersType DEF WatcherAdd, WatcherRemove, TypeOK, AutopilotTypes
  <2>2. saved' \in [Watchers -> WatcherType]
    BY <1>2, <2>1, NoWatchersType DEF WatcherAdd, WatcherRemove, Save, TypeOK, AutopilotTypes
  <2>3. AutopilotTypes'
    BY <1>2, <2>1, <2>2 DEF WatcherAdd, WatcherRemove, TypeOK, AutopilotTypes
  <2>4. UNCHANGED <<up, sessions, gens, task, children, crashes>>
    BY <1>2 DEF WatcherAdd, WatcherRemove
  <2> QED
    BY <2>3, <2>4, StillTypes DEF TypeOK, gens
<1>3. CASE Crash
  <2>1. SessionTypes'
    <3>1. status' \in [Sessions -> Statuses]
      BY <1>3 DEF Crash, TypeOK, SessionTypes, Statuses
    <3> QED
      BY <1>3, <3>1 DEF Crash, TypeOK, SessionTypes
  <2>2. ProfileTypes'
    BY <1>3, WatchAssumption DEF Crash, TypeOK, ProfileTypes, gens
  <2>3. AutopilotTypes'
    BY <1>3, NoWatchersType DEF Crash, TypeOK, AutopilotTypes
  <2>4. TaskTypes'
    BY <1>3, NobodyType DEF Crash, TaskTypes
  <2>5. crashes' \in 0 .. MaxCrashes
    BY <1>3, WatchAssumption DEF Crash, TypeOK
  <2>6. up' \in BOOLEAN
    BY <1>3, Zenon DEF Crash
  <2> QED
    BY <2>1, <2>2, <2>3, <2>4, <2>5, <2>6 DEF TypeOK
<1>4. CASE Start
  <2>1. AutopilotTypes'
    BY <1>4 DEF Start, TypeOK, AutopilotTypes
  <2>2. up' \in BOOLEAN
    BY <1>4, Zenon DEF Start
  <2>3. UNCHANGED <<sessions, gens, task, children, crashes>>
    BY <1>4 DEF Start
  <2> QED
    BY <2>1, <2>2, <2>3, StillTypes DEF TypeOK, gens
<1> QED
  BY <1>1, <1>2, <1>3, <1>4, SessionStepTypeOK, LoopTypes, CheckTypes, ChildTypes
     DEF Next, Proceed

\* Every variable keeps its type in every behaviour of the daemon.
THEOREM TypeCorrect == Spec => []TypeOK
BY InitTypeOK, NextTypeOK, PTL DEF Spec
-----------------------------------------------------------------------------
(***************************************************************************)
(* Sessions and the mutex.  RolledBackOnce is not inductive: it needs to   *)
(* know that a session for which no rollback is under way has one to       *)
(* spare, and that the session a rollback is for stays on probation, which *)
(* is what the mutex is held for.                                          *)
(***************************************************************************)
RollingBack(id) ==
  /\ task.by \in {"probation", "manual"}
  /\ task.at \in {"nix-env", "activate"}
  /\ task.on = id

Counts ==
  \A id \in Sessions :
    /\ launched[id] <= 1 + cut[id]
    /\ status[id] \notin {"committed", "rolledback", "lost"} /\ ~RollingBack(id)
         => launched[id] <= cut[id]
    /\ RollingBack(id) => launched[id] > 0

SwitchInv == TypeOK /\ HeldOnProbation /\ Counts

\* The mutex at rest, and in a loop that is about to pick.
LEMMA NobodyIdle == Nobody.by = "nobody" /\ Nobody.at = "pick" /\ Nobody.todo = {}
BY DEF Nobody

\* Going on with a loop keeps what waits in it, and ends a rollback.
LEMMA MoveOnSteps ==
  ASSUME MoveOn
  PROVE  /\ task'.at = "pick"
         /\ task'.todo \subseteq task.todo
         /\ task' = Nobody \/ task'.by = task.by
<1>1. CASE task.todo = {}
  BY <1>1, NobodyIdle DEF MoveOn
<1>2. CASE task.todo # {}
  BY <1>2 DEF MoveOn, Nobody
<1> QED
  BY <1>1, <1>2

\* The steps in which the sessions and their counts do not change.
QuietStep ==
  \/ UNCHANGED vars
  \/ ProbationTick \/ WatcherTick \/ RestartEnds
  \/ \E x \in Sessions \cup Watchers : Pick(x)
  \/ \E w \in Watchers : WatcherPasses(w) \/ WatcherFails(w) \/ WatcherAdd(w) \/ WatcherRemove(w)
  \/ NixEnvWorks \/ OrphanEnds
  \/ \E g \in late : LateEnds(g)
  \/ \E id \in Sessions : TtlPasses(id) \/ Deploy(id)
  \/ Start

\* They leave the mutex alone, take it for a loop, or go on with what holds it.
Goes ==
  \/ UNCHANGED task
  \/ /\ Free
     /\ \/ task' = Nobody
        \/ task' = [Nobody EXCEPT !.by = "probation", !.todo = Active]
        \/ task'.by = "watchers"
  \/ task.by = "watchers" /\ (MoveOn \/ task'.by = "watchers")
  \/ task.at = "restart" /\ MoveOn
  \/ /\ task.at = "pick"
     /\ \E x \in task.todo : \E b : task' = [task EXCEPT !.at = "check", !.on = x, !.todo = @ \ {x}, !.due = b]
  \/ /\ task.at = "nix-env"
     /\ \E n : task' = [task EXCEPT !.at = "activate", !.to = n]

\* That is what they do.
LEMMA QuietSteps ==
  ASSUME TypeOK, QuietStep, ~up => task = Nobody
  PROVE  UNCHANGED <<status, launched, cut>> /\ Goes /\ (~up' => ~up /\ task' = task)
<1> USE NobodyIdle
<1>1. CASE UNCHANGED vars
  BY <1>1 DEF vars, sessions, Goes
<1>2. CASE ProbationTick
  BY <1>2 DEF ProbationTick, sessions, Goes
<1>3. CASE WatcherTick
  <2>1. [Nobody EXCEPT !.by = "watchers", !.todo = Present].by = "watchers"
    BY DEF Nobody
  <2> QED
    BY <1>3, <2>1 DEF WatcherTick, sessions, Goes
<1>4. CASE RestartEnds
  BY <1>4 DEF RestartEnds, sessions, Goes
<1>5. ASSUME NEW x \in Sessions \cup Watchers, Pick(x)
      PROVE  UNCHANGED <<status, launched, cut>> /\ Goes /\ (~up' => ~up /\ task' = task)
  BY <1>5 DEF Pick, sessions, Goes
<1>6. ASSUME NEW w \in Watchers,
             WatcherPasses(w) \/ WatcherFails(w) \/ WatcherAdd(w) \/ WatcherRemove(w)
      PROVE  UNCHANGED <<status, launched, cut>> /\ Goes /\ (~up' => ~up /\ task' = task)
  <2>1. CASE WatcherPasses(w)
    BY <2>1 DEF WatcherPasses, sessions, Goes
  <2>3. CASE WatcherAdd(w)
    BY <2>3 DEF WatcherAdd, sessions, Goes
  <2>4. CASE WatcherRemove(w)
    BY <2>4 DEF WatcherRemove, sessions, Goes
  <2>2. CASE WatcherFails(w)
    <3>1. MoveOn \/ \E at \in {"restart", "nix-env"} : task' = [task EXCEPT !.at = at]
      <4>1. CASE Ladder = <<>>
        BY <2>2, <4>1 DEF WatcherFails
      <4>2. CASE Ladder # <<>>
        <5> DEFINE failures == Least(watchers[w].failures + 1, Len(Ladder) + 1)
        <5>1. failures \in Nat /\ failures > 0
          BY WatchAssumption DEF TypeOK, AutopilotTypes, WatcherType, Least
        <5>2. Rung(failures) \in 1 .. Len(Ladder)
          BY <5>1, <4>2, WatchAssumption DEF Rung, Least
        <5>3. Ladder[Rung(failures)] \in {"restart", "rollback", "notify"}
          BY <5>2, WatchAssumption
        <5> QED
          BY <2>2, <4>2, <5>3 DEF WatcherFails
      <4> QED
        BY <4>1, <4>2
    <3>2. task.by = "watchers" /\ task \in TaskType
      BY <2>2 DEF WatcherFails, TypeOK, TaskTypes
    <3>3. Goes
      BY <3>1, <3>2 DEF Goes, TaskType
    <3> QED
      BY <2>2, <3>3 DEF WatcherFails, sessions
  <2> QED
    BY <1>6, <2>1, <2>2, <2>3, <2>4
<1>7. CASE NixEnvWorks
  BY <1>7 DEF NixEnvWorks, sessions, Goes
<1>8. CASE OrphanEnds
  BY <1>8 DEF OrphanEnds, sessions, Goes
<1>9. ASSUME NEW g \in late, LateEnds(g) PROVE UNCHANGED <<status, launched, cut>> /\ Goes /\ (~up' => ~up /\ task' = task)
  BY <1>9 DEF LateEnds, sessions, Goes
<1>10. ASSUME NEW id \in Sessions, TtlPasses(id) \/ Deploy(id)
       PROVE  UNCHANGED <<status, launched, cut>> /\ Goes /\ (~up' => ~up /\ task' = task)
  <2>1. CASE TtlPasses(id)
    BY <2>1 DEF TtlPasses, Goes
  <2>2. CASE Deploy(id)
    BY <2>2 DEF Deploy, Goes
  <2> QED
    BY <1>10, <2>1, <2>2
<1>11. CASE Start
  BY <1>11 DEF Start, sessions, Goes
<1> QED
  BY <1>1, <1>2, <1>3, <1>4, <1>5, <1>6, <1>7, <1>8, <1>9, <1>10, <1>11 DEF QuietStep

\* In a quiet step no rollback begins, and whoever has work for a session had it before.
LEMMA QuietTask ==
  ASSUME TypeOK, Goes
  PROVE  /\ \A id \in Sessions : RollingBack(id)' <=> RollingBack(id)
         /\ task'.by \in {"probation", "manual"} =>
              \/ task'.todo = Active /\ task'.at = "pick"
              \/ /\ task'.todo \subseteq task.todo
                 /\ task.by \in {"probation", "manual"}
                 /\ \/ task'.at = "pick"
                    \/ task'.on = task.on /\ task.at # "pick" /\ task'.todo = task.todo
                    \/ task'.on \in task.todo /\ task'.todo = task.todo \ {task'.on}
<1>0. task \in TaskType
  BY DEF TypeOK, TaskTypes
<1> USE NobodyIdle DEF RollingBack
<1>1. CASE UNCHANGED task
  BY <1>1
<1>2. CASE Free /\ task' = Nobody
  BY <1>2 DEF Free
<1>3. CASE Free /\ task' = [Nobody EXCEPT !.by = "probation", !.todo = Active]
  <2>1. task'.by = "probation" /\ task'.todo = Active /\ task'.at = "pick"
    BY <1>3 DEF Nobody
  <2> QED
    BY <2>1, <1>3 DEF Free
<1>4. CASE (Free \/ task.by = "watchers") /\ task'.by = "watchers"
  BY <1>4 DEF Free
<1>5. CASE (task.by = "watchers" \/ task.at = "restart") /\ MoveOn
  BY <1>5, MoveOnSteps
<1>6. ASSUME task.at = "pick", NEW x \in task.todo, NEW b,
             task' = [task EXCEPT !.at = "check", !.on = x, !.todo = @ \ {x}, !.due = b]
      PROVE  /\ task'.by = task.by /\ task'.at = "check" /\ task'.on = x
             /\ task'.todo = task.todo \ {x}
  BY <1>0, <1>6 DEF TaskType
<1>7. ASSUME task.at = "nix-env", NEW n, task' = [task EXCEPT !.at = "activate", !.to = n]
      PROVE  /\ task'.by = task.by /\ task'.at = "activate" /\ task'.on = task.on
             /\ task'.todo = task.todo
  BY <1>0, <1>7 DEF TaskType
<1> QED
  BY <1>1, <1>2, <1>3, <1>4, <1>5, <1>6, <1>7 DEF Goes

\* Quiet steps keep the invariant.
LEMMA QuietKeeps ==
  ASSUME SwitchInv, QuietStep
  PROVE  HeldOnProbation' /\ Counts'
<1>1. TypeOK /\ HeldOnProbation /\ Counts /\ (~up => task = Nobody)
  BY DEF SwitchInv, HeldOnProbation
<1>2. UNCHANGED <<status, launched, cut>> /\ Goes /\ (~up' => ~up /\ task' = task)
  BY <1>1, QuietSteps
<1>3. Active' = Active
  BY <1>2 DEF Active
<1>4. Counts'
  BY <1>1, <1>2, QuietTask DEF Counts
<1>5. ~up' => task' = Nobody
  BY <1>1, <1>2
<1>6. QED
  BY <1>1, <1>2, <1>3, <1>4, <1>5, QuietTask DEF HeldOnProbation

\* Whoever rolls back for a session keeps it on probation, and there is one such session.
LEMMA RollingHolds ==
  ASSUME SwitchInv, NEW id \in Sessions, RollingBack(id)
  PROVE  status[id] = "probation" /\ up /\ \A j \in Sessions : RollingBack(j) => j = id
BY NobodyIdle DEF SwitchInv, HeldOnProbation, RollingBack, Active

\* The request handlers that settle or open a session, or start a rollback.
LEMMA HandlerKeeps ==
  ASSUME SwitchInv, NEW id \in Sessions,
         \/ BeginArrives(id) \/ BeginInserts(id) \/ BeginDropped(id) \/ Commit(id)
         \/ RollbackBegins(id) \/ RollbackDropped(id)
  PROVE  HeldOnProbation' /\ Counts'
<1>0. /\ status \in [Sessions -> Statuses] /\ launched \in [Sessions -> Nat]
      /\ cut \in [Sessions -> Nat] /\ task \in TaskType
      /\ HeldOnProbation /\ Counts
  BY WatchAssumption DEF SwitchInv, TypeOK, SessionTypes, TaskTypes
<1>1. ASSUME BeginArrives(id) \/ BeginDropped(id) PROVE HeldOnProbation' /\ Counts'
  <2>1. /\ UNCHANGED <<task, launched, cut>> /\ UNCHANGED up
        /\ status[id] \in {"none", "arriving"}
        /\ \E s \in {"arriving", "dropped"} : status' = [status EXCEPT ![id] = s]
    <3>1. CASE BeginArrives(id)
      BY <3>1 DEF BeginArrives
    <3>2. CASE BeginDropped(id)
      BY <3>2 DEF BeginDropped
    <3> QED
      BY <1>1, <3>1, <3>2
  <2>2. Active' = Active
    BY <2>1, <1>0 DEF Active
  <2>3. HeldOnProbation'
    BY <2>1, <2>2, <1>0 DEF HeldOnProbation
  <2>4. Counts'
    BY <2>1, <1>0 DEF Counts, RollingBack
  <2> QED
    BY <2>3, <2>4
<1>2. ASSUME BeginInserts(id) \/ Commit(id) PROVE HeldOnProbation' /\ Counts'
  <2>1. /\ UNCHANGED <<task, launched, cut>> /\ UNCHANGED up /\ task = Nobody
        /\ \/ status[id] = "arriving"
           \/ status'[id] = "committed"
        /\ \E s \in Statuses : status' = [status EXCEPT ![id] = s]
    <3>1. CASE BeginInserts(id)
      BY <3>1 DEF BeginInserts, Free, Statuses
    <3>2. CASE Commit(id)
      BY <3>2, <1>0 DEF Commit, Free, Statuses
    <3> QED
      BY <1>2, <3>1, <3>2
  <2>2. HeldOnProbation'
    BY <2>1, NobodyIdle DEF HeldOnProbation
  <2>3. \A j \in Sessions : ~RollingBack(j) /\ ~RollingBack(j)'
    BY <2>1, NobodyIdle DEF RollingBack
  <2>4. Counts'
    BY <2>1, <2>3, <1>0 DEF Counts
  <2> QED
    BY <2>2, <2>4
<1>3. ASSUME RollbackBegins(id) PROVE HeldOnProbation' /\ Counts'
  <2>1. /\ task' = [Nobody EXCEPT !.by = "manual", !.at = "nix-env", !.on = id]
        /\ launched' = [launched EXCEPT ![id] = @ + 1]
        /\ UNCHANGED <<status, cut>> /\ UNCHANGED up
        /\ up /\ task = Nobody /\ id \in Active
    BY <1>3 DEF RollbackBegins, Free
  <2>2. task'.by = "manual" /\ task'.at = "nix-env" /\ task'.on = id /\ task'.todo = {}
    BY <2>1 DEF Nobody
  <2>3. Active' = Active
    BY <2>1 DEF Active
  <2>4. HeldOnProbation'
    BY <2>1, <2>2, <2>3 DEF HeldOnProbation
  <2>5. \A j \in Sessions : ~RollingBack(j) /\ (RollingBack(j)' <=> j = id)
    BY <2>1, <2>2, NobodyIdle DEF RollingBack
  <2>6. Counts'
    BY <2>1, <2>5, <1>0 DEF Counts, Active
  <2> QED
    BY <2>4, <2>6
<1>4. ASSUME RollbackDropped(id) PROVE HeldOnProbation' /\ Counts'
  <2>1. /\ task.by = "manual" /\ task.on = id
        /\ task' = Nobody
        /\ cut' = [cut EXCEPT ![id] = @ + 1]
        /\ UNCHANGED <<status, launched>>
    BY <1>4 DEF RollbackDropped
  <2>2. RollingBack(id)
    BY <2>1 DEF RollingBack, SwitchInv, TypeOK, TaskTypes
  <2>3. HeldOnProbation'
    BY <2>1, NobodyIdle DEF HeldOnProbation
  <2>4. \A j \in Sessions : ~RollingBack(j)' /\ (RollingBack(j) => j = id)
    BY <2>1, <2>2, NobodyIdle DEF RollingBack
  <2>5. Counts'
    BY <2>1, <2>2, <2>4, <1>0 DEF Counts
  <2> QED
    BY <2>3, <2>5
<1> QED
  BY <1>1, <1>2, <1>3, <1>4

\* The steps that end the visit of a session or watcher: they may commit a session
\* that was checked, and they settle the one that was rolled back.
EndStep ==
  \/ \E id \in Sessions : SessionPasses(id)
  \/ NixEnvFails \/ NixEnvTimesOut \/ ActivateWorks \/ ActivateFails

Ends ==
  /\ MoveOn
  /\ task.at # "pick"
  /\ UNCHANGED <<launched, cut>>
  /\ UNCHANGED up
  /\ \/ UNCHANGED status /\ \A id \in Sessions : ~RollingBack(id)
     \/ /\ task.by = "probation" /\ task.at = "check"
        /\ status' = [status EXCEPT ![task.on] = "committed"]
     \/ /\ task.by \in {"probation", "manual"} /\ task.at \in {"nix-env", "activate"}
        /\ status' = [status EXCEPT ![task.on] = "rolledback"]

\* That is what they do.
LEMMA EndSteps == ASSUME EndStep PROVE Ends
<1>1. ASSUME NEW id \in Sessions, SessionPasses(id) PROVE Ends
  BY <1>1 DEF SessionPasses, Ends, RollingBack
<1>2. ASSUME NEW done, RolledBack(done), task.at \in {"nix-env", "activate"},
             UNCHANGED <<launched, cut>>, UNCHANGED up
      PROVE  Ends
  BY <1>2 DEF RolledBack, Ends, RollingBack
<1>3. CASE NixEnvFails
  BY <1>3, <1>2 DEF NixEnvFails
<1>4. CASE NixEnvTimesOut
  BY <1>4, <1>2 DEF NixEnvTimesOut
<1>5. CASE ActivateWorks
  BY <1>5, <1>2 DEF ActivateWorks
<1>6. CASE ActivateFails
  BY <1>6, <1>2 DEF ActivateFails
<1> QED
  BY <1>1, <1>3, <1>4, <1>5, <1>6 DEF EndStep

\* They keep the invariant.
LEMMA EndKeeps ==
  ASSUME SwitchInv, Ends
  PROVE  HeldOnProbation' /\ Counts'
<1> USE DEF Ends
<1>0. /\ status \in [Sessions -> Statuses] /\ launched \in [Sessions -> Nat]
      /\ cut \in [Sessions -> Nat] /\ task \in TaskType
      /\ HeldOnProbation /\ Counts
  BY WatchAssumption DEF SwitchInv, TypeOK, SessionTypes, TaskTypes
<1>1. up
  BY <1>0, NobodyIdle DEF HeldOnProbation
<1>2. /\ task'.at = "pick"
      /\ task'.todo \subseteq task.todo
      /\ task' = Nobody \/ task'.by = task.by
  BY MoveOnSteps
<1>3. task.by \in {"probation", "manual"} => task.on \in Active \ task.todo /\ task.todo \subseteq Active
  BY <1>0 DEF HeldOnProbation
<1>4. task.by \in {"probation", "manual"} => task.todo \subseteq Active'
  BY <1>0, <1>3 DEF Active
<1>5. HeldOnProbation'
  BY <1>1, <1>2, <1>4, NobodyIdle DEF HeldOnProbation
<1>6. \A j \in Sessions : ~RollingBack(j)'
  BY <1>2 DEF RollingBack
<1>7. ASSUME NEW j \in Sessions, status'[j] \notin {"committed", "rolledback", "lost"}
      PROVE  launched'[j] <= cut'[j]
  <2>1. status'[j] = status[j]
    BY <1>0, <1>3, <1>7 DEF Active
  <2>2. ~RollingBack(j)
    BY <1>0, <1>7 DEF RollingBack
  <2> QED
    BY <2>1, <2>2, <1>0, <1>7 DEF Counts
<1>8. Counts'
  BY <1>6, <1>7, <1>0 DEF Counts
<1> QED
  BY <1>5, <1>8

\* A failed check starts a rollback for a session that had one to spare.
LEMMA FailureKeeps ==
  ASSUME SwitchInv, NEW id \in Sessions, SessionFails(id)
  PROVE  HeldOnProbation' /\ Counts'
<1>0. /\ status \in [Sessions -> Statuses] /\ launched \in [Sessions -> Nat]
      /\ cut \in [Sessions -> Nat] /\ task \in TaskType
      /\ HeldOnProbation /\ Counts
  BY WatchAssumption DEF SwitchInv, TypeOK, SessionTypes, TaskTypes
<1>1. /\ task.by = "probation" /\ task.at = "check" /\ task.on = id
      /\ task' = [task EXCEPT !.at = "nix-env"]
      /\ launched' = [launched EXCEPT ![id] = @ + 1]
      /\ UNCHANGED <<status, cut>> /\ UNCHANGED up
  BY DEF SessionFails
<1>2. task'.by = "probation" /\ task'.at = "nix-env" /\ task'.on = id /\ task'.todo = task.todo
  BY <1>0, <1>1 DEF TaskType
<1>3. up /\ Active' = Active
  BY <1>0, <1>1, NobodyIdle DEF HeldOnProbation, Active
<1>4. HeldOnProbation'
  BY <1>0, <1>1, <1>2, <1>3 DEF HeldOnProbation
<1>5. \A j \in Sessions : ~RollingBack(j) /\ (RollingBack(j)' <=> j = id)
  BY <1>1, <1>2 DEF RollingBack
<1>6. status[id] = "probation"
  BY <1>0, <1>1 DEF HeldOnProbation, Active
<1>7. Counts'
  BY <1>0, <1>1, <1>5, <1>6 DEF Counts
<1> QED
  BY <1>4, <1>7

\* A crash keeps it: what is rolled back or waits is lost with the process.
LEMMA CrashKeeps == ASSUME SwitchInv, Crash PROVE HeldOnProbation' /\ Counts'
<1>1. task' = Nobody /\ UNCHANGED <<launched, cut>>
  BY DEF Crash
<1>2. HeldOnProbation'
  BY <1>1, NobodyIdle DEF HeldOnProbation
<1>3. \A j \in Sessions : ~RollingBack(j)'
  BY <1>1, NobodyIdle DEF RollingBack
<1>4. ASSUME NEW j \in Sessions, status'[j] \notin {"committed", "rolledback", "lost"}
      PROVE  status[j] \notin {"committed", "rolledback", "lost", "probation"}
  BY <1>4 DEF Crash
<1>5. Counts'
  BY <1>1, <1>3, <1>4, RollingHolds DEF Counts, SwitchInv
<1> QED
  BY <1>2, <1>5

\* Every step is of one of these kinds.
LEMMA StepKinds ==
  ASSUME [Next]_vars
  PROVE  \/ QuietStep
         \/ \E id \in Sessions :
              \/ BeginArrives(id) \/ BeginInserts(id) \/ BeginDropped(id) \/ Commit(id)
              \/ RollbackBegins(id) \/ RollbackDropped(id)
         \/ \E id \in Sessions : SessionFails(id)
         \/ EndStep
         \/ Crash
BY Zenon DEF Next, SessionStep, Proceed, QuietStep, EndStep

\* The invariant is inductive.
LEMMA InitSwitchInv == Init => SwitchInv
<1> SUFFICES ASSUME Init PROVE SwitchInv
  OBVIOUS
<1>1. task = Nobody /\ launched = [id \in Sessions |-> 0] /\ cut = [id \in Sessions |-> 0]
  BY DEF Init
<1>2. HeldOnProbation
  BY <1>1, NobodyIdle DEF HeldOnProbation
<1>3. Counts
  BY <1>1, NobodyIdle DEF Counts, RollingBack
<1> QED
  BY <1>2, <1>3, InitTypeOK DEF SwitchInv

LEMMA NextSwitchInv == SwitchInv /\ [Next]_vars => SwitchInv'
<1> SUFFICES ASSUME SwitchInv, [Next]_vars PROVE SwitchInv'
  OBVIOUS
<1>1. TypeOK'
  BY NextTypeOK DEF SwitchInv
<1>2. HeldOnProbation' /\ Counts'
  BY StepKinds, QuietKeeps, HandlerKeeps, FailureKeeps, EndSteps, EndKeeps, CrashKeeps
<1> QED
  BY <1>1, <1>2 DEF SwitchInv

\* Whoever rolls back for a session keeps it on probation meanwhile.
THEOREM HeldAlways == Spec => []HeldOnProbation
<1>1. SwitchInv => HeldOnProbation
  BY DEF SwitchInv
<1> QED
  BY <1>1, InitSwitchInv, NextSwitchInv, PTL DEF Spec

\* No session is rolled back twice, unless a client hung up on a rollback of it.
THEOREM RolledBackAtMostOnce == Spec => []RolledBackOnce
<1>1. SwitchInv => RolledBackOnce
  BY DEF SwitchInv, Counts, RolledBackOnce
<1> QED
  BY <1>1, InitSwitchInv, NextSwitchInv, PTL DEF Spec
-----------------------------------------------------------------------------
(***************************************************************************)
(* Watch implements DeploySessions.                                        *)
(***************************************************************************)
Phase == [id \in Sessions |-> IF status[id] \in {"arriving", "dropped"} THEN "none"
                              ELSE status[id]]

\* A session that is settled as rolled back has launched a rollback.
LEMMA EndSettles ==
  ASSUME SwitchInv, Ends, status' # status
  PROVE  /\ launched' = launched
         /\ task.on \in Sessions /\ status[task.on] = "probation"
         /\ \E verdict \in {"committed", "rolledback"} :
              /\ status' = [status EXCEPT ![task.on] = verdict]
              /\ verdict = "rolledback" => launched[task.on] > 0
BY DEF Ends, SwitchInv, HeldOnProbation, Counts, RollingBack, Active

\* Every step of Watch is a step of DeploySessions or changes nothing there.
LEMMA NextImplements ==
  ASSUME SwitchInv, [Next]_vars
  PROVE  [Deploys!DeployNext]_(Deploys!deployVars)
<1> USE DEF Deploys!deployVars
<1>0. status \in [Sessions -> Statuses] /\ launched \in [Sessions -> Nat]
  BY DEF SwitchInv, TypeOK, SessionTypes
<1>1. ASSUME UNCHANGED launched, Phase' = Phase PROVE UNCHANGED Deploys!deployVars
  BY <1>1 DEF Phase
<1>2. CASE QuietStep
  <2>1. UNCHANGED <<status, launched>>
    BY <1>2, QuietSteps DEF SwitchInv, HeldOnProbation
  <2> QED
    BY <1>1, <2>1 DEF Phase
<1>3. ASSUME NEW id \in Sessions, NEW s \in {"arriving", "dropped"},
             status[id] \in {"none", "arriving"}, status' = [status EXCEPT ![id] = s],
             UNCHANGED launched
      PROVE  UNCHANGED Deploys!deployVars
  BY <1>0, <1>1, <1>3 DEF Phase
<1>4. ASSUME NEW id \in Sessions, BeginArrives(id) PROVE UNCHANGED Deploys!deployVars
  BY <1>3, <1>4 DEF BeginArrives
<1>5. ASSUME NEW id \in Sessions, BeginDropped(id) PROVE UNCHANGED Deploys!deployVars
  BY <1>3, <1>5 DEF BeginDropped
<1>6. ASSUME NEW id \in Sessions, BeginInserts(id) PROVE Deploys!DeployNext
  <2>1. status[id] = "arriving" /\ status' = [status EXCEPT ![id] = "probation"] /\ UNCHANGED launched
    BY <1>6 DEF BeginInserts
  <2>2. Phase[id] = "none" /\ Phase' = [Phase EXCEPT ![id] = "probation"]
    BY <2>1, <1>0 DEF Phase
  <2>3. Deploys!Open(id)
    BY <2>1, <2>2 DEF Deploys!Open, Phase
  <2> QED
    BY <2>3 DEF Deploys!DeployNext
<1>7. ASSUME NEW id \in Sessions, NEW verdict \in {"committed", "rolledback"},
             status[id] = "probation", status' = [status EXCEPT ![id] = verdict],
             UNCHANGED launched, verdict = "rolledback" => launched[id] > 0
      PROVE  Deploys!DeployNext
  <2>1. Phase[id] = "probation" /\ Phase' = [Phase EXCEPT ![id] = verdict]
    BY <1>7, <1>0 DEF Phase
  <2>2. Deploys!Settle(id, verdict)
    BY <1>7, <2>1 DEF Deploys!Settle, Phase
  <2> QED
    BY <2>2 DEF Deploys!DeployNext
<1>8. ASSUME NEW id \in Sessions, Commit(id) PROVE Deploys!DeployNext
  BY <1>7, <1>8 DEF Commit, Active
<1>9. ASSUME NEW id \in Sessions, status[id] = "probation",
             launched' = [launched EXCEPT ![id] = @ + 1], UNCHANGED status
      PROVE  Deploys!DeployNext
  <2>1. Phase[id] = "probation" /\ Phase' = Phase
    BY <1>9, <1>0 DEF Phase
  <2>2. Deploys!Undo(id)
    BY <1>9, <2>1 DEF Deploys!Undo, Phase
  <2> QED
    BY <2>2 DEF Deploys!DeployNext
<1>10. ASSUME NEW id \in Sessions, RollbackBegins(id) PROVE Deploys!DeployNext
  BY <1>9, <1>10 DEF RollbackBegins, Active
<1>11. ASSUME NEW id \in Sessions, SessionFails(id) PROVE Deploys!DeployNext
  BY <1>9, <1>11 DEF SessionFails, SwitchInv, HeldOnProbation, Active
<1>12. ASSUME NEW id \in Sessions, RollbackDropped(id) PROVE UNCHANGED Deploys!deployVars
  BY <1>1, <1>12 DEF RollbackDropped, Phase
<1>13. CASE EndStep
  <2>1. Ends
    BY <1>13, EndSteps
  <2>2. CASE status' = status
    BY <2>1, <2>2, <1>1 DEF Ends, Phase
  <2>3. CASE status' # status
    BY <2>1, <2>3, <1>7, EndSettles
  <2> QED
    BY <2>2, <2>3
<1>14. CASE Crash
  <2>1. UNCHANGED launched
    BY <1>14 DEF Crash
  <2>2. Phase' = [id \in Sessions |-> IF Phase[id] = "probation" THEN "lost" ELSE Phase[id]]
    <3>1. ASSUME NEW id \in Sessions
          PROVE  Phase'[id] = IF Phase[id] = "probation" THEN "lost" ELSE Phase[id]
      BY <1>14, <1>0 DEF Crash, Phase
    <3> QED
      BY <3>1 DEF Phase
  <2>3. Deploys!Forget
    BY <2>1, <2>2 DEF Deploys!Forget, Phase
  <2> QED
    BY <2>3 DEF Deploys!DeployNext
<1> QED
  BY StepKinds, <1>2, <1>4, <1>5, <1>6, <1>8, <1>10, <1>11, <1>12, <1>13, <1>14

\* The daemon keeps the promise of DeploySessions.
THEOREM WatchImplementsDeploys == Spec => RefinesDeploys
<1>1. Init => Deploys!DeployInit
  BY DEF Init, Deploys!DeployInit
<1>2. SwitchInv /\ [Next]_vars => [Deploys!DeployNext]_(Deploys!deployVars)
  BY NextImplements
<1> QED
  BY <1>1, <1>2, InitSwitchInv, NextSwitchInv, PTL DEF Spec, RefinesDeploys, Deploys!DeploySpec
-----------------------------------------------------------------------------
(***************************************************************************)
(* The ladder of a watcher.                                                *)
(***************************************************************************)

\* The watcher loop has only watchers that are there to visit: nobody else
\* changes them while it keeps the mutex.
Visiting ==
  task.by = "watchers" =>
    /\ task.todo \subseteq Present
    /\ task.at # "pick" => task.on \in Present

\* The rungs of a ladder up to this number of failed checks.
Climbed(failures) == 1 .. Least(failures, Len(Ladder))

\* Until the first crash the retries of a watcher say which actions it has
\* executed; afterwards it may be reloaded with fewer or more of them.
Climbing ==
  /\ ~up => saved = NoWatchers
  /\ \A w \in Watchers : w \notin minted => w \notin Present /\ tried[w] = {}
  /\ \A w \in Present : tried[w] = Climbed(watchers[w].failures)
  /\ LadderInOrder

LadderInv == TypeOK /\ HeldOnProbation /\ Visiting /\ (crashes = 0 => Climbing)

\* What a step has to do to the task for its loop to stay among its watchers.
StaysAmong ==
  task'.by = "watchers" =>
    /\ task.by = "watchers"
    /\ task'.todo \subseteq task.todo
    /\ task'.at # "pick" => task.at # "pick" /\ task'.on = task.on

\* The steps that leave the watchers and their ladders alone.
LEMMA OtherSteps ==
  ASSUME TypeOK,
         \/ UNCHANGED vars
         \/ \E id \in Sessions : SessionStep(id) \/ SessionPasses(id) \/ SessionFails(id)
         \/ ProbationTick
         \/ NixEnvWorks \/ NixEnvFails \/ NixEnvTimesOut
         \/ ActivateWorks \/ ActivateFails \/ RestartEnds
         \/ OrphanEnds \/ \E g \in late : LateEnds(g)
  PROVE  StaysAmong /\ UNCHANGED <<watchers, saved, minted, tried, crashes, up>>
<1> USE NobodyIdle DEF StaysAmong
<1>0. task \in TaskType
  BY DEF TypeOK, TaskTypes
<1>1. CASE UNCHANGED vars
  BY <1>1 DEF vars, autopilot
<1>2. ASSUME NEW id \in Sessions, SessionStep(id)
      PROVE  StaysAmong /\ UNCHANGED <<watchers, saved, minted, tried, crashes, up>>
  <2>1. task' = task \/ task' = Nobody \/ task'.by = "manual"
    BY <1>2 DEF SessionStep, BeginArrives, BeginInserts, BeginDropped, TtlPasses, Deploy,
                Commit, RollbackBegins, RollbackDropped, Nobody
  <2>2. UNCHANGED <<watchers, saved, minted, tried, crashes, up>>
    BY <1>2 DEF SessionStep, BeginArrives, BeginInserts, BeginDropped, TtlPasses, Deploy,
                Commit, RollbackBegins, RollbackDropped, autopilot
  <2> QED
    BY <2>1, <2>2
<1>3. ASSUME NEW id \in Sessions, SessionPasses(id) \/ SessionFails(id)
      PROVE  StaysAmong /\ UNCHANGED <<watchers, saved, minted, tried, crashes, up>>
  <2>1. CASE SessionPasses(id)
    BY <2>1, MoveOnSteps DEF SessionPasses, autopilot
  <2>2. CASE SessionFails(id)
    BY <2>2, <1>0 DEF SessionFails, autopilot, TaskType
  <2> QED
    BY <1>3, <2>1, <2>2
<1>4. CASE ProbationTick
  BY <1>4 DEF ProbationTick, autopilot, Nobody
<1>5. CASE NixEnvWorks
  BY <1>5, <1>0 DEF NixEnvWorks, autopilot, TaskType
<1>6. CASE NixEnvFails \/ NixEnvTimesOut \/ ActivateWorks \/ ActivateFails \/ RestartEnds
  <2>1. MoveOn
    BY <1>6 DEF NixEnvFails, NixEnvTimesOut, ActivateWorks, ActivateFails, RestartEnds, RolledBack
  <2>2. UNCHANGED <<watchers, saved, minted, tried, crashes, up>>
    BY <1>6 DEF NixEnvFails, NixEnvTimesOut, ActivateWorks, ActivateFails, RestartEnds, autopilot
  <2> QED
    BY <2>1, <2>2, MoveOnSteps
<1>7. CASE OrphanEnds \/ \E g \in late : LateEnds(g)
  BY <1>7 DEF OrphanEnds, LateEnds, autopilot
<1> QED
  BY <1>1, <1>2, <1>3, <1>4, <1>5, <1>6, <1>7

LEMMA OtherStepsClimb ==
  ASSUME LadderInv, StaysAmong, UNCHANGED <<watchers, saved, minted, tried, crashes, up>>
  PROVE  Visiting' /\ (crashes' = 0 => Climbing')
<1>1. Visiting'
  BY DEF LadderInv, Visiting, StaysAmong, Present
<1>2. crashes = 0 => Climbing'
  BY DEF LadderInv, Climbing, Present, LadderInOrder
<1> QED
  BY <1>1, <1>2

\* One rung more, or the last one again.
LEMMA NextRung ==
  ASSUME NEW failures \in 0 .. Len(Ladder) + 1
  PROVE  LET more == Least(failures + 1, Len(Ladder) + 1)
         IN  /\ Ladder = <<>> => Climbed(more) = Climbed(failures)
             /\ Ladder # <<>> => Climbed(more) = Climbed(failures) \cup {Rung(more)}
<1>1. Len(Ladder) \in Nat /\ (Ladder = <<>> <=> Len(Ladder) = 0)
  BY WatchAssumption
<1> DEFINE n == Len(Ladder)
<1>2. n \in Nat /\ (Ladder = <<>> <=> n = 0) /\ failures \in 0 .. n + 1
  BY <1>1
<1> HIDE DEF n
<1>3. CASE failures < n
  <2>1. Least(failures + 1, n + 1) = failures + 1 /\ Least(failures, n) = failures
        /\ Least(failures + 1, n) = failures + 1
    BY <1>2, <1>3 DEF Least
  <2>2. n # 0
    BY <1>2, <1>3
  <2>3. 1 .. failures + 1 = (1 .. failures) \cup {failures + 1}
    BY <1>2
  <2> QED
    BY <1>2, <2>1, <2>2, <2>3 DEF Climbed, Rung, n
<1>4. CASE ~ (failures < n)
  <2>1. Least(failures + 1, n + 1) = n + 1 /\ Least(failures, n) = n /\ Least(n + 1, n) = n
    BY <1>2, <1>4 DEF Least
  <2>2. n # 0 => 1 .. n = (1 .. n) \cup {n}
    BY <1>2
  <2> QED
    BY <1>2, <2>1, <2>2 DEF Climbed, Rung, n
<1> QED
  BY <1>3, <1>4

\* The rungs up to one are in order.
LEMMA ClimbedInOrder ==
  ASSUME NEW failures \in Nat
  PROVE  \A k \in Climbed(failures) : 1 .. k \subseteq Climbed(failures)
<1>1. Len(Ladder) \in Nat
  BY WatchAssumption
<1>2. Least(failures, Len(Ladder)) \in Nat
  BY <1>1 DEF Least
<1> QED
  BY <1>2 DEF Climbed

\* A step that changes the ladder of one watcher that is there.
LEMMA OneLadder ==
  ASSUME LadderInv, crashes = 0, NEW w \in Present, NEW n \in 0 .. Len(Ladder) + 1,
         watchers' = [watchers EXCEPT ![w].failures = n],
         tried' = [tried EXCEPT ![w] = Climbed(n)],
         UNCHANGED <<saved, minted, up>>
  PROVE  Climbing'
<1>1. /\ watchers \in [Watchers -> WatcherType] /\ w \in Watchers
      /\ tried \in [Watchers -> SUBSET (1 .. Len(Ladder))]
      /\ Len(Ladder) \in Nat
  BY WatchAssumption DEF LadderInv, TypeOK, AutopilotTypes, Present
<1>2. Present' = Present
  BY <1>1 DEF Present, WatcherType
<1>3. watchers'[w].failures = n /\ tried'[w] = Climbed(n)
  BY <1>1 DEF WatcherType
<1>4. \A v \in Watchers \ {w} : watchers'[v] = watchers[v] /\ tried'[v] = tried[v]
  BY <1>1
<1>5. \A v \in Present : tried'[v] = Climbed(watchers'[v].failures)
  BY <1>3, <1>4 DEF LadderInv, Climbing, Present
<1>6. LadderInOrder'
  BY <1>1, <1>3, <1>4, ClimbedInOrder DEF LadderInv, Climbing, LadderInOrder
<1>7. \A v \in Watchers : v \notin minted => v \notin Present /\ tried'[v] = {}
  BY <1>4 DEF LadderInv, Climbing
<1> HIDE DEF Present
<1> QED
  BY <1>2, <1>5, <1>6, <1>7 DEF LadderInv, Climbing

\* The checks of a watcher.
LEMMA CheckClimbs ==
  ASSUME LadderInv, NEW w \in Watchers, WatcherPasses(w) \/ WatcherFails(w)
  PROVE  Visiting' /\ (crashes' = 0 => Climbing')
<1>1. w \in Present
  BY DEF WatcherPasses, WatcherFails, LadderInv, Visiting
<1>2. /\ watchers \in [Watchers -> WatcherType] /\ Len(Ladder) \in Nat
      /\ tried \in [Watchers -> SUBSET (1 .. Len(Ladder))]
      /\ task \in TaskType
      /\ watchers[w].failures \in 0 .. Len(Ladder) + 1
  BY WatchAssumption DEF LadderInv, TypeOK, AutopilotTypes, WatcherType, TaskTypes
<1>3. CASE WatcherPasses(w)
  <2>1. Climbed(0) = {}
    BY <1>2 DEF Climbed, Least
  <2>2. crashes' = crashes /\ UNCHANGED <<saved, minted, up>>
    BY <1>3 DEF WatcherPasses
  <2>3. crashes = 0 => Climbing'
    <3>1. 0 \in 0 .. Len(Ladder) + 1
      BY <1>2
    <3>2. /\ watchers' = [watchers EXCEPT ![w].failures = 0]
          /\ tried' = [tried EXCEPT ![w] = Climbed(0)]
      BY <1>3, <2>1 DEF WatcherPasses
    <3> QED
      BY <1>1, <2>2, <3>1, <3>2, OneLadder
  <2>4. Present' = Present
    BY <1>2, <1>3 DEF WatcherPasses, Present, WatcherType
  <2>5. Visiting'
    BY <1>3, <2>4, MoveOnSteps, NobodyIdle DEF WatcherPasses, Visiting, LadderInv
  <2> QED
    BY <2>2, <2>3, <2>5
<1>4. CASE WatcherFails(w)
  <2> DEFINE more == Least(watchers[w].failures + 1, Len(Ladder) + 1)
  <2>0. more \in 0 .. Len(Ladder) + 1
    BY <1>2 DEF Least
  <2>1. /\ watchers' = [watchers EXCEPT ![w].failures = more]
        /\ UNCHANGED <<saved, minted, up, crashes>>
    BY <1>4 DEF WatcherFails
  <2>2. crashes = 0 => tried' = [tried EXCEPT ![w] = Climbed(more)]
    <3> SUFFICES ASSUME crashes = 0 PROVE tried' = [tried EXCEPT ![w] = Climbed(more)]
      OBVIOUS
    <3>1. tried[w] = Climbed(watchers[w].failures)
      BY <1>1 DEF LadderInv, Climbing
    <3>2. CASE Ladder = <<>>
      <4>1. tried' = tried
        BY <1>4, <3>2 DEF WatcherFails
      <4>2. Climbed(more) = tried[w]
        BY <1>2, <3>1, <3>2, NextRung
      <4> QED
        BY <1>2, <4>1, <4>2
    <3>3. CASE Ladder # <<>>
      <4>1. tried' = [tried EXCEPT ![w] = @ \cup {Rung(more)}]
        BY <1>4, <3>3 DEF WatcherFails
      <4>2. Climbed(more) = tried[w] \cup {Rung(more)}
        BY <1>2, <3>1, <3>3, NextRung
      <4> QED
        BY <1>2, <4>1, <4>2
    <3> QED
      BY <3>2, <3>3
  <2>3. Present' = Present
    BY <1>2, <2>1 DEF Present, WatcherType
  <2> HIDE DEF more
  <2>4. crashes = 0 => Climbing'
    BY <1>1, <2>0, <2>1, <2>2, OneLadder
  <2>5. MoveOn \/ \E at \in {"restart", "nix-env"} : task' = [task EXCEPT !.at = at]
    <3>1. CASE Ladder = <<>>
      BY <1>4, <3>1 DEF WatcherFails
    <3>2. CASE Ladder # <<>>
      <4>1. more > 0
        BY <1>2 DEF more, Least
      <4>2. Rung(more) \in 1 .. Len(Ladder)
        BY <1>2, <2>0, <3>2, <4>1, WatchAssumption DEF Rung, Least
      <4>3. Ladder[Rung(more)] \in {"restart", "rollback", "notify"}
        BY <4>2, WatchAssumption
      <4> QED
        BY <1>4, <3>2, <4>3 DEF WatcherFails, more
    <3> QED
      BY <3>1, <3>2
  <2>6. Visiting'
    <3>1. task.by = "watchers" /\ task.todo \subseteq Present /\ task.on \in Present
      BY <1>1, <1>4 DEF WatcherFails, LadderInv, Visiting
    <3>2. task'.todo \subseteq Present /\ (task'.at # "pick" => task'.on \in Present)
      <4>1. CASE MoveOn
        BY <3>1, <4>1, MoveOnSteps
      <4>2. ASSUME NEW at \in {"restart", "nix-env"}, task' = [task EXCEPT !.at = at]
            PROVE  task'.todo \subseteq Present /\ task'.on \in Present
        BY <1>2, <3>1, <4>2 DEF TaskType
      <4> QED
        BY <2>5, <4>1, <4>2
    <3> QED
      BY <2>3, <3>2 DEF Visiting
  <2> QED
    BY <2>1, <2>4, <2>6
<1> QED
  BY <1>3, <1>4

\* The handlers that add and remove a watcher wait for the mutex, and an id is
\* never used again.
LEMMA HandlerClimbs ==
  ASSUME LadderInv, NEW w \in Watchers, WatcherAdd(w) \/ WatcherRemove(w)
  PROVE  Visiting' /\ (crashes' = 0 => Climbing')
<1>1. /\ watchers \in [Watchers -> WatcherType] /\ Len(Ladder) \in Nat
      /\ tried' = tried /\ crashes' = crashes /\ up /\ up' = up /\ minted \subseteq minted'
  BY WatchAssumption DEF LadderInv, TypeOK, AutopilotTypes, WatcherAdd, WatcherRemove
<1>2. Visiting'
  BY NobodyIdle DEF WatcherAdd, WatcherRemove, Free, Visiting
<1>3. crashes = 0 => Climbing'
  <2> SUFFICES ASSUME crashes = 0 PROVE Climbing'
    OBVIOUS
  <2>1. \A v \in Watchers \ {w} : watchers'[v] = watchers[v]
    BY <1>1 DEF WatcherAdd, WatcherRemove
  <2>0. w \notin Present \/ w \in minted
    BY DEF LadderInv, Climbing
  <2>2. /\ minted' = minted \cup {w}
        /\ \/ w \notin minted /\ watchers'[w] = [there |-> TRUE, failures |-> 0]
           \/ w \in minted /\ watchers'[w] = Absent
    <3>1. CASE WatcherAdd(w)
      BY <1>1, <3>1 DEF WatcherAdd
    <3>2. CASE WatcherRemove(w)
      <4>1. w \in minted
        BY <2>0, <3>2 DEF WatcherRemove
      <4>2. watchers' = [watchers EXCEPT ![w] = Absent] /\ minted' = minted
        BY <3>2 DEF WatcherRemove
      <4> QED
        BY <1>1, <4>1, <4>2
    <3> QED
      BY <3>1, <3>2
  <2>3. minted' = minted \cup {w} /\ (watchers'[w].there => w \notin minted)
    BY <2>2 DEF Absent
  <2>4. Climbed(0) = {}
    BY <1>1 DEF Climbed, Least
  <2>5. \A v \in Watchers : watchers'[v].there => tried'[v] = Climbed(watchers'[v].failures)
    <3>1. CASE w \in minted
      BY <1>1, <2>1, <2>2, <2>3, <3>1 DEF LadderInv, Climbing, Present
    <3>2. CASE w \notin minted
      <4>1. tried[w] = {} /\ watchers'[w].failures = 0
        BY <2>2, <3>2 DEF LadderInv, Climbing
      <4>2. \A v \in Watchers : watchers[v].there => tried[v] = Climbed(watchers[v].failures)
        BY DEF LadderInv, Climbing, Present
      <4> QED
        BY <1>1, <2>1, <2>4, <4>1, <4>2
    <3> QED
      BY <3>1, <3>2
  <2>6. \A v \in Watchers : v \notin minted' => ~ watchers'[v].there /\ tried'[v] = {}
    BY <1>1, <2>1, <2>3 DEF LadderInv, Climbing, Present
  <2>7. LadderInOrder'
    BY <1>1 DEF LadderInv, Climbing, LadderInOrder
  <2> QED
    BY <1>1, <2>5, <2>6, <2>7 DEF Climbing, Present
<1> QED
  BY <1>1, <1>2, <1>3

\* The loop starts, and picks.
LEMMA LoopClimbs ==
  ASSUME LadderInv, WatcherTick \/ \E x \in Sessions \cup Watchers : Pick(x)
  PROVE  Visiting' /\ (crashes' = 0 => Climbing')
<1>1. UNCHANGED <<watchers, saved, minted, tried, crashes, up>>
  BY DEF WatcherTick, Pick, autopilot
<1>2. Present' = Present
  BY <1>1 DEF Present
<1>3. crashes = 0 => Climbing'
  BY <1>1 DEF LadderInv, Climbing, Present, LadderInOrder
<1>4. Visiting'
  <2>1. CASE WatcherTick
    BY <1>2, <2>1, NobodyIdle DEF WatcherTick, Visiting, Nobody
  <2>2. ASSUME NEW x \in Sessions \cup Watchers, Pick(x)
        PROVE  Visiting'
    <3>1. task \in TaskType
      BY DEF LadderInv, TypeOK, TaskTypes
    <3>2. task'.by = task.by /\ task'.todo \subseteq task.todo /\ task'.on \in task.todo
      BY <2>2, <3>1 DEF Pick, TaskType
    <3> QED
      BY <1>2, <3>2 DEF Visiting, LadderInv
  <2> QED
    BY <2>1, <2>2
<1> QED
  BY <1>1, <1>3, <1>4

\* The process goes down, and comes up with what it saved.
LEMMA ProcessClimbs ==
  ASSUME LadderInv, Crash \/ Start
  PROVE  Visiting' /\ (crashes' = 0 => Climbing')
<1>1. CASE Crash
  <2>1. crashes \in Nat /\ crashes' = crashes + 1
    BY <1>1, WatchAssumption DEF Crash, LadderInv, TypeOK
  <2>2. crashes' # 0
    BY <2>1
  <2>3. Visiting'
    BY <1>1, NobodyIdle DEF Crash, Visiting
  <2> QED
    BY <2>2, <2>3
<1>2. CASE Start
  <2>1. task' = Nobody
    BY <1>2 DEF Start, LadderInv, HeldOnProbation
  <2>2. Visiting'
    BY <2>1, NobodyIdle DEF Visiting
  <2>3. crashes' = 0 => Climbing'
    BY <1>2 DEF Start, LadderInv, Climbing, Present, NoWatchers, Absent, LadderInOrder
  <2> QED
    BY <2>2, <2>3
<1> QED
  BY <1>1, <1>2

LEMMA InitLadderInv == Init => LadderInv
<1> SUFFICES ASSUME Init PROVE LadderInv
  OBVIOUS
<1>1. TypeOK /\ HeldOnProbation
  BY InitSwitchInv DEF SwitchInv
<1>2. Visiting
  BY NobodyIdle DEF Init, Visiting
<1>3. Climbing
  BY DEF Init, Climbing, Present, NoWatchers, Absent, LadderInOrder
<1> QED
  BY <1>1, <1>2, <1>3 DEF LadderInv

LEMMA NextLadderInv == LadderInv /\ TypeOK' /\ HeldOnProbation' /\ [Next]_vars => LadderInv'
<1> SUFFICES ASSUME LadderInv, [Next]_vars PROVE Visiting' /\ (crashes' = 0 => Climbing')
  BY DEF LadderInv
<1>1. CASE WatcherTick \/ \E x \in Sessions \cup Watchers : Pick(x)
  BY <1>1, LoopClimbs
<1>2. CASE \E w \in Watchers : WatcherPasses(w) \/ WatcherFails(w)
  BY <1>2, CheckClimbs
<1>3. CASE \E w \in Watchers : WatcherAdd(w) \/ WatcherRemove(w)
  BY <1>3, HandlerClimbs
<1>4. CASE Crash \/ Start
  BY <1>4, ProcessClimbs
<1>5. CASE \/ UNCHANGED vars
           \/ \E id \in Sessions : SessionStep(id) \/ SessionPasses(id) \/ SessionFails(id)
           \/ ProbationTick
           \/ NixEnvWorks \/ NixEnvFails \/ NixEnvTimesOut
           \/ ActivateWorks \/ ActivateFails \/ RestartEnds
           \/ OrphanEnds \/ \E g \in late : LateEnds(g)
  <2>1. TypeOK
    BY DEF LadderInv
  <2> QED
    BY <1>5, <2>1, OtherSteps, OtherStepsClimb
<1> QED
  BY <1>1, <1>2, <1>3, <1>4, <1>5 DEF Next, Proceed

\* As long as osmoda-watch is not restarted, run_watcher never skips an action of
\* a watcher, whatever checks, additions, removals and failing saves there are.
THEOREM LadderIsClimbed == Spec => []LadderUntilRestart
<1>1. Init => LadderInv
  BY InitLadderInv
<1>2. SwitchInv /\ [Next]_vars => SwitchInv'
  BY NextSwitchInv
<1>3. Init => SwitchInv
  BY InitSwitchInv
<1>4. SwitchInv' => TypeOK' /\ HeldOnProbation'
  BY DEF SwitchInv
<1>5. LadderInv => LadderUntilRestart
  BY DEF LadderInv, Climbing, LadderUntilRestart
<1> QED
  BY <1>1, <1>2, <1>3, <1>4, <1>5, NextLadderInv, PTL DEF Spec
-----------------------------------------------------------------------------
(***************************************************************************)
(* Fleet switches: votes and quorum.                                       *)
(***************************************************************************)

\* As many votes as quorum_required are the whole of the percentage.
LEMMA RequiredIsEnough ==
  ASSUME NEW total \in Nat, NEW percent \in Nat
  PROVE  /\ Required(total, percent) \in Nat
         /\ 100 * Required(total, percent) >= percent * total
<1> DEFINE x == total * percent
<1>1. x \in Nat /\ percent * total = x
  OBVIOUS
<1> HIDE DEF x
<1>2. (x + 99) \div 100 \in Nat /\ 100 * ((x + 99) \div 100) >= x
  BY <1>1, SMT
<1> QED
  BY <1>1, <1>2, SMT DEF Required, x

\* Changing an entry of a sequence.
LEMMA EntryChanged ==
  ASSUME NEW S, NEW w \in Seq(S), NEW k, NEW v \in S
  PROVE  /\ [w EXCEPT ![k] = v] \in Seq(S)
         /\ DOMAIN [w EXCEPT ![k] = v] = DOMAIN w
<1> DEFINE e == [w EXCEPT ![k] = v]
<1>1. Len(w) \in Nat /\ DOMAIN w = 1 .. Len(w) /\ \A i \in 1 .. Len(w) : w[i] \in S
  OBVIOUS
<1>2. DOMAIN e = 1 .. Len(w) /\ \A i \in 1 .. Len(w) : e[i] \in S
  BY <1>1
<1>3. e = [i \in 1 .. Len(w) |-> e[i]]
  BY <1>1
<1> HIDE DEF e
<1>4. e \in Seq(S)
  BY <1>1, <1>2, <1>3
<1> QED
  BY <1>1, <1>2, <1>4 DEF e

\* The fields of a switch; its list, a sequence, has a natural length.
LEMMA SwitchFields ==
  ASSUME NEW f \in SwitchType
  PROVE  /\ f.roster \in Rosters /\ f.roster \in Seq(Peers) /\ Len(f.roster) \in Nat
         /\ DOMAIN f.roster = 1 .. Len(f.roster)
         /\ f.status \in Seq(ParticipantStatuses)
         /\ f.ayes \in SUBSET Peers /\ f.noes \in SUBSET Peers
         /\ f.percent \in Percents /\ f.percent \in Nat
         /\ f.timeout \in Timeouts /\ f.timeout \in Nat
         /\ f.phase \in Phases
<1>1. /\ f.roster \in Rosters
      /\ f.status \in Seq(ParticipantStatuses)
      /\ f.ayes \in SUBSET Peers /\ f.noes \in SUBSET Peers
      /\ f.percent \in Percents /\ f.timeout \in Timeouts /\ f.phase \in Phases
  BY DEF SwitchType
<1>2. f.roster \in Seq(Peers)
  BY <1>1, FleetAssumption
<1>3. Len(f.roster) \in Nat /\ DOMAIN f.roster = 1 .. Len(f.roster)
  BY <1>2
<1>4. f.percent \in Nat /\ f.timeout \in Nat
  <2>1. Percents \subseteq 0 .. 255
    BY FleetAssumption
  <2>2. Timeouts \subseteq Nat
    BY FleetAssumption
  <2>3. \A q \in 0 .. 255 : q \in Nat
    OBVIOUS
  <2> QED
    BY <1>1, <2>1, <2>2, <2>3
<1> QED
  BY <1>1, <1>2, <1>3, <1>4

\* A switch that is proposed is well typed.
LEMMA OpenTyped ==
  ASSUME NEW r \in Rosters, NEW q \in Percents, NEW t \in Timeouts
  PROVE  /\ Open(r, q, t) \in SwitchType
         /\ DOMAIN Open(r, q, t).status = DOMAIN r
<1>1. r \in Seq(Peers) /\ Len(r) \in Nat /\ DOMAIN r = 1 .. Len(r)
  BY FleetAssumption
<1>2. [i \in DOMAIN r |-> "pending"] \in Seq(ParticipantStatuses)
  BY <1>1 DEF ParticipantStatuses
<1> QED
  BY <1>2 DEF Open, SwitchType, Phases

\* What record_vote does to a switch: the vote is added, the status of one entry
\* of the list changes to "voted", and nothing else.
LEMMA RecordedVote ==
  ASSUME NEW f \in SwitchType, DOMAIN f.status = DOMAIN f.roster,
         NEW p \in Peers, NEW b \in BOOLEAN, Recordable(f, p)
  PROVE  LET g == Record(f, p, b)
         IN  /\ g \in SwitchType
             /\ DOMAIN g.status = DOMAIN g.roster
             /\ g.roster = f.roster /\ g.percent = f.percent
             /\ g.phase = f.phase /\ g.timeout = f.timeout
             /\ g.ayes = IF b THEN f.ayes \cup {p} ELSE f.ayes
             /\ g.noes = IF b THEN f.noes ELSE f.noes \cup {p}
             /\ \A i \in DOMAIN f.roster : g.status[i] = f.status[i] \/ g.status[i] = "voted"
<1> DEFINE g == Record(f, p, b)
           first == CHOOSE i \in DOMAIN f.roster :
                       /\ f.roster[i] = p
                       /\ \A j \in DOMAIN f.roster : f.roster[j] = p => i <= j
<1>1. g = [f EXCEPT !.ayes = IF b THEN @ \cup {p} ELSE @,
                    !.noes = IF b THEN @ ELSE @ \cup {p},
                    !.status[first] = "voted"]
  BY DEF Record
<1>2. /\ f.status \in Seq(ParticipantStatuses)
      /\ Len(f.status) \in Nat /\ DOMAIN f.status = 1 .. Len(f.status)
  BY SwitchFields
<1> HIDE DEF first
<1>3. /\ [f.status EXCEPT ![first] = "voted"] \in Seq(ParticipantStatuses)
      /\ DOMAIN [f.status EXCEPT ![first] = "voted"] = DOMAIN f.status
  BY <1>2, EntryChanged DEF ParticipantStatuses
<1>4. g.status = [f.status EXCEPT ![first] = "voted"]
  BY <1>1 DEF SwitchType
<1>5. /\ g.roster = f.roster /\ g.percent = f.percent
      /\ g.phase = f.phase /\ g.timeout = f.timeout
      /\ g.ayes = IF b THEN f.ayes \cup {p} ELSE f.ayes
      /\ g.noes = IF b THEN f.noes ELSE f.noes \cup {p}
  BY <1>1 DEF SwitchType
<1>6. g \in SwitchType
  <2> DEFINE ay == IF b THEN f.ayes \cup {p} ELSE f.ayes
             no == IF b THEN f.noes ELSE f.noes \cup {p}
             st == [f.status EXCEPT ![first] = "voted"]
  <2>1. g = [f EXCEPT !.ayes = ay, !.noes = no, !.status = st]
    BY <1>1 DEF SwitchType
  <2>2. ay \in SUBSET Peers /\ no \in SUBSET Peers
    BY SwitchFields
  <2> HIDE DEF g, ay, no, st
  <2>3. st \in Seq(ParticipantStatuses)
    BY <1>3 DEF st
  <2> QED
    BY <2>1, <2>2, <2>3 DEF SwitchType
<1>7. \A i \in DOMAIN f.roster : g.status[i] = f.status[i] \/ g.status[i] = "voted"
  <2> SUFFICES ASSUME NEW i \in DOMAIN f.roster
               PROVE  g.status[i] = f.status[i] \/ g.status[i] = "voted"
    OBVIOUS
  <2>1. i \in DOMAIN f.status
    OBVIOUS
  <2> HIDE DEF g
  <2> QED
    BY <1>4, <2>1
<1>8. DOMAIN g.status = DOMAIN g.roster
  BY <1>3, <1>4, <1>5
<1> HIDE DEF g
<1> QED
  BY <1>5, <1>6, <1>7, <1>8 DEF g

-----------------------------------------------------------------------------
(***************************************************************************)
(* Fleet switches: the inductive invariant.                                *)
(***************************************************************************)

\* Whoever is executing has approved, under a quorum, and only a switch that is
\* no longer open has somebody who is.
Backed(f) ==
    \A i \in DOMAIN f.roster : f.status[i] = "executing" =>
        /\ f.phase # "propose"
        /\ f.roster[i] \in f.ayes
        /\ 100 * Cardinality(f.ayes) >= f.percent * Len(f.roster)

\* Votes come from listed peers, finitely many, and each of them has one.
FairVotes(f) ==
    /\ IsFiniteSet(f.ayes) /\ IsFiniteSet(f.noes)
    /\ f.ayes \cap f.noes = {}
    /\ \A p \in Voted(f) : \E j \in DOMAIN f.roster : f.roster[j] = p

\* Every vote on an open switch was followed by the two questions of Decide.
Weighed(f) ==
    f.phase = "propose" /\ Voted(f) # {} => ~ HasQuorum(f) /\ ~ IsVetoed(f)

Good(f) ==
    /\ f \in SwitchType
    /\ DOMAIN f.status = DOMAIN f.roster
    /\ FairVotes(f)
    /\ Backed(f)

Settled(f) == Good(f) /\ Weighed(f)

FleetInv ==
    /\ fleet \in [Switches -> SwitchType \cup {NoSwitch}]
    /\ elapsed \in [Switches -> Int]
    /\ \A s \in Switches : fleet[s] # NoSwitch => Settled(fleet[s])

-----------------------------------------------------------------------------
(***************************************************************************)
(* What the steps do to one fleet switch.                                  *)
(***************************************************************************)

LEMMA GoodProposal ==
  ASSUME NEW r \in Rosters, NEW q \in Percents, NEW t \in Timeouts
  PROVE  Settled(Open(r, q, t))
<1>1. Open(r, q, t).status = [i \in DOMAIN r |-> "pending"] /\ Open(r, q, t).roster = r
      /\ Open(r, q, t).ayes = {} /\ Open(r, q, t).noes = {}
  BY DEF Open
<1> QED
  BY <1>1, OpenTyped, FS_EmptySet DEF Settled, Good, FairVotes, Backed, Weighed, Voted

\* A switch that is settled by hand or by the clock keeps its votes.
LEMMA GoodSettled ==
  ASSUME NEW f, Good(f), NEW ph \in {"aborted", "rolled_back"}
  PROVE  /\ Settled([f EXCEPT !.phase = ph])
         /\ [f EXCEPT !.phase = ph].phase = ph
         /\ [f EXCEPT !.phase = ph].ayes = f.ayes
         /\ [f EXCEPT !.phase = ph].noes = f.noes
         /\ [f EXCEPT !.phase = ph].status = f.status
<1> DEFINE g == [f EXCEPT !.phase = ph]
<1>1. /\ g \in SwitchType /\ g.phase = ph /\ g.ayes = f.ayes /\ g.noes = f.noes
      /\ g.status = f.status /\ g.roster = f.roster /\ g.percent = f.percent
  BY DEF Good, SwitchType, Phases
<1> HIDE DEF g
<1>2. Good(g)
  BY <1>1 DEF Good, FairVotes, Backed, Voted
<1>3. Weighed(g)
  BY <1>1 DEF Weighed
<1> QED
  BY <1>1, <1>2, <1>3 DEF g, Settled

\* A vote on an open switch: nobody is executing yet, and a new vote is not a
\* second one.
LEMMA GoodRecord ==
  ASSUME NEW f, Good(f), f.phase = "propose", NEW p \in Peers, NEW b \in BOOLEAN,
         Recordable(f, p)
  PROVE  /\ Good(Record(f, p, b))
         /\ Record(f, p, b).phase = "propose"
<1> DEFINE g == Record(f, p, b)
<1>1. /\ g \in SwitchType
      /\ DOMAIN g.status = DOMAIN g.roster
      /\ g.roster = f.roster /\ g.percent = f.percent /\ g.phase = "propose"
      /\ g.ayes = IF b THEN f.ayes \cup {p} ELSE f.ayes
      /\ g.noes = IF b THEN f.noes ELSE f.noes \cup {p}
      /\ \A i \in DOMAIN f.roster : g.status[i] = f.status[i] \/ g.status[i] = "voted"
  <2>1. f \in SwitchType /\ DOMAIN f.status = DOMAIN f.roster
    BY DEF Good
  <2>2. /\ g \in SwitchType
        /\ DOMAIN g.status = DOMAIN g.roster
        /\ g.roster = f.roster /\ g.percent = f.percent
        /\ g.phase = f.phase /\ g.timeout = f.timeout
        /\ g.ayes = IF b THEN f.ayes \cup {p} ELSE f.ayes
        /\ g.noes = IF b THEN f.noes ELSE f.noes \cup {p}
        /\ \A i \in DOMAIN f.roster : g.status[i] = f.status[i] \/ g.status[i] = "voted"
    BY <2>1, RecordedVote, Zenon
  <2> HIDE DEF g
  <2> QED
    BY <2>2
<1> HIDE DEF g
<1>2. p \notin f.ayes /\ p \notin f.noes /\ \E j \in DOMAIN f.roster : f.roster[j] = p
  BY DEF Recordable, Voted
<1>3. FairVotes(g)
  <2>1. IsFiniteSet(g.ayes) /\ IsFiniteSet(g.noes)
    <3>1. IsFiniteSet(f.ayes) /\ IsFiniteSet(f.noes)
      BY DEF Good, FairVotes
    <3>2. IsFiniteSet(f.ayes \cup {p}) /\ IsFiniteSet(f.noes \cup {p})
      BY <3>1, FS_AddElement
    <3> QED
      BY <1>1, <3>1, <3>2
  <2>2. g.ayes \cap g.noes = {}
    BY <1>1, <1>2 DEF Good, FairVotes
  <2>3. \A q \in Voted(g) : q = p \/ q \in Voted(f)
    BY <1>1 DEF Voted
  <2>4. \A q \in Voted(g) : \E j \in DOMAIN g.roster : g.roster[j] = q
    BY <1>1, <1>2, <2>3 DEF Good, FairVotes
  <2> QED
    BY <2>1, <2>2, <2>4 DEF FairVotes
<1>4. \A i \in DOMAIN g.roster : g.status[i] # "executing"
  BY <1>1 DEF Good, Backed
<1> QED
  BY <1>1, <1>3, <1>4 DEF Good, Backed, g

\* What the vote leads to: the execution needs the quorum of it.
LEMMA GoodDecision ==
  ASSUME NEW f, Good(f), f.phase = "propose"
  PROVE  Settled(Decide(f))
<1>1. CASE HasQuorum(f)
  <2> DEFINE g == Execute(f)
             st == [i \in DOMAIN f.roster |-> IF f.roster[i] \in f.ayes THEN "executing"
                                              ELSE f.status[i]]
  <2>1. g = [f EXCEPT !.phase = "execute", !.status = st]
    BY DEF Execute, Good, SwitchType
  <2>2. st \in Seq(ParticipantStatuses)
    <3>1. /\ DOMAIN f.roster = 1 .. Len(f.roster) /\ Len(f.roster) \in Nat
          /\ f.status \in Seq(ParticipantStatuses) /\ DOMAIN f.status = 1 .. Len(f.roster)
      BY SwitchFields DEF Good
    <3>2. \A i \in 1 .. Len(f.roster) : f.status[i] \in ParticipantStatuses
      BY <3>1
    <3> QED
      BY <3>1, <3>2 DEF ParticipantStatuses
  <2> HIDE DEF st
  <2>3. /\ g \in SwitchType /\ g.phase = "execute" /\ g.ayes = f.ayes /\ g.noes = f.noes
        /\ g.status = st /\ g.roster = f.roster /\ g.percent = f.percent
    BY <2>1, <2>2 DEF Good, SwitchType, Phases
  <2> HIDE DEF g
  <2>4. 100 * Cardinality(f.ayes) >= f.percent * Len(f.roster)
    <3>1. Cardinality(f.ayes) \in Nat
      BY FS_CardinalityType DEF Good, FairVotes
    <3>2. Len(f.roster) \in Nat /\ f.percent \in Nat
      BY SwitchFields DEF Good
    <3>3. /\ QuorumRequired(f) \in Nat
          /\ 100 * QuorumRequired(f) >= f.percent * Len(f.roster)
      BY <3>2, RequiredIsEnough DEF QuorumRequired
    <3> DEFINE x == f.percent * Len(f.roster)
               c == Cardinality(f.ayes)
               q == QuorumRequired(f)
    <3>4. x \in Nat /\ c \in Nat /\ q \in Nat /\ 100 * q >= x /\ c >= q
      BY <1>1, <3>1, <3>2, <3>3 DEF HasQuorum
    <3> HIDE DEF x, c, q
    <3>5. 100 * c >= x
      BY <3>4
    <3> QED
      BY <3>5 DEF x, c
  <2>5. \A i \in DOMAIN f.roster : st[i] = "executing" => f.roster[i] \in f.ayes
    BY DEF st, Good, Backed
  <2>6. DOMAIN st = DOMAIN f.roster
    BY DEF st
  <2>7. Good(g)
    BY <2>3, <2>4, <2>5, <2>6 DEF Good, FairVotes, Backed, Voted
  <2> QED
    BY <1>1, <2>3, <2>7 DEF Decide, g, Settled, Weighed
<1>2. CASE ~ HasQuorum(f) /\ IsVetoed(f)
  BY <1>2, GoodSettled DEF Decide
<1>3. CASE ~ HasQuorum(f) /\ ~ IsVetoed(f)
  BY <1>3 DEF Decide, Settled, Weighed
<1> QED
  BY <1>1, <1>2, <1>3

\* A list without repetitions names as many peers as it has entries.
LEMMA ListedPeers ==
  ASSUME NEW r \in Seq(Peers), \A i, j \in DOMAIN r : r[i] = r[j] => i = j
  PROVE  /\ IsFiniteSet({r[i] : i \in DOMAIN r})
         /\ Cardinality({r[i] : i \in DOMAIN r}) = Len(r)
<1> DEFINE named == {r[i] : i \in DOMAIN r}
<1>1. Len(r) \in Nat /\ DOMAIN r = 1 .. Len(r) /\ r = [i \in DOMAIN r |-> r[i]]
  OBVIOUS
<1>2. IsFiniteSet(1 .. Len(r)) /\ Cardinality(1 .. Len(r)) = Len(r)
  <2>1. ASSUME NEW n \in Nat
        PROVE  IsFiniteSet(1 .. n) /\ Cardinality(1 .. n) = n
    <3>1. 1 \in Int /\ n \in Int
      OBVIOUS
    <3>2. IsFiniteSet(1 .. n) /\ Cardinality(1 .. n) = IF 1 > n THEN 0 ELSE n - 1 + 1
      BY <3>1, FS_Interval, Zenon
    <3> QED
      BY <3>2
  <2> QED
    BY <1>1, <2>1
<1>3. r \in [1 .. Len(r) -> named]
  BY <1>1
<1>4. r \in Surjection(1 .. Len(r), named)
  BY <1>1, <1>3 DEF Surjection
<1>5. r \in Injection(1 .. Len(r), named)
  BY <1>1, <1>3 DEF Injection, IsInjective
<1> HIDE DEF named
<1>6. IsFiniteSet(named) /\ Cardinality(named) = Len(r)
  BY <1>2, <1>4, <1>5, FS_Surjection
<1> QED
  BY <1>6 DEF named

\* Whoever has not voted yet is what is missing to the length of the list.
LEMMA WeighedIsOpen ==
  ASSUME NEW f, Good(f), ~ IsVetoed(f),
         \A i, j \in DOMAIN f.roster : f.roster[i] = f.roster[j] => i = j
  PROVE  StillOpen(f)
<1> DEFINE named == {f.roster[i] : i \in DOMAIN f.roster}
<1>1. IsFiniteSet(named) /\ Cardinality(named) = Len(f.roster)
  <2>1. f.roster \in Seq(Peers)
    BY SwitchFields DEF Good
  <2> QED
    BY <2>1, ListedPeers
<1>2. Voted(f) \subseteq named
  BY DEF Good, FairVotes
<1> HIDE DEF named
<1>3. named \cap Voted(f) = Voted(f)
  BY <1>2
<1>4. Cardinality(named \ Voted(f)) = Len(f.roster) - Cardinality(Voted(f))
  BY <1>1, <1>3, FS_Difference
<1>5. Cardinality(f.ayes) + Cardinality(named \ Voted(f)) >= QuorumRequired(f)
  <2>1. Cardinality(f.ayes) \in Nat /\ QuorumRequired(f) \in Nat
    <3>1. Cardinality(f.ayes) \in Nat
      BY FS_CardinalityType DEF Good, FairVotes
    <3>2. Len(f.roster) \in Nat /\ f.percent \in Nat
      BY SwitchFields DEF Good
    <3> QED
      BY <3>1, <3>2, RequiredIsEnough DEF QuorumRequired
  <2>2. Cardinality(Voted(f)) \in Nat /\ Len(f.roster) \in Nat
    <3>1. IsFiniteSet(Voted(f))
      BY <1>1, <1>2, FS_Subset
    <3> QED
      BY <3>1, FS_CardinalityType, SwitchFields DEF Good
  <2> QED
    BY <1>4, <2>1, <2>2 DEF IsVetoed
<1> QED
  BY <1>5 DEF StillOpen, named

-----------------------------------------------------------------------------
(***************************************************************************)
(* The steps of the coordinator.                                           *)
(***************************************************************************)

\* A step that only changes the switch s, to one that is good.
LEMMA OneSwitch ==
  ASSUME FleetInv, NEW s \in Switches, NEW f, Settled(f),
         fleet' = [fleet EXCEPT ![s] = f], elapsed' \in [Switches -> Int]
  PROVE  FleetInv'
<1>1. f \in SwitchType
  BY DEF Settled, Good
<1>2. fleet' \in [Switches -> SwitchType \cup {NoSwitch}]
  BY <1>1 DEF FleetInv
<1>3. \A t \in Switches : fleet'[t] # NoSwitch => Settled(fleet'[t])
  BY DEF FleetInv
<1> QED
  BY <1>2, <1>3 DEF FleetInv

LEMMA FleetInvInit ==
  FleetInit => FleetInv
  BY DEF FleetInit, FleetInv

LEMMA FleetInvStep ==
  FleetInv /\ [FleetNext]_fleetVars => FleetInv'
<1> SUFFICES ASSUME FleetInv, [FleetNext]_fleetVars
             PROVE  FleetInv'
  OBVIOUS
<1>1. ASSUME NEW s \in Switches, NEW r \in Rosters, NEW q \in Percents, NEW t \in Timeouts,
             FleetPropose(s, r, q, t)
      PROVE  FleetInv'
  <2>1. elapsed' \in [Switches -> Int]
    BY <1>1 DEF FleetPropose, FleetInv
  <2>2. fleet' = [fleet EXCEPT ![s] = Open(r, q, t)] /\ Settled(Open(r, q, t))
    BY <1>1, GoodProposal DEF FleetPropose
  <2> QED
    BY <2>1, <2>2, OneSwitch
<1>2. ASSUME NEW s \in Switches, NEW p \in Peers, NEW b \in BOOLEAN, FleetVote(s, p, b)
      PROVE  FleetInv'
  <2>1. elapsed' \in [Switches -> Int]
    BY <1>2 DEF FleetVote, FleetInv
  <2>2. Good(fleet[s]) /\ fleet[s].phase = "propose" /\ Recordable(fleet[s], p)
    BY <1>2 DEF FleetVote, FleetInv, Settled
  <2>3. Good(Record(fleet[s], p, b)) /\ Record(fleet[s], p, b).phase = "propose"
    BY <2>2, GoodRecord
  <2>4. Settled(Decide(Record(fleet[s], p, b)))
    BY <2>3, GoodDecision
  <2>5. fleet' = [fleet EXCEPT ![s] = Decide(Record(fleet[s], p, b))]
    BY <1>2 DEF FleetVote
  <2> QED
    BY <2>1, <2>4, <2>5, OneSwitch
<1>3. ASSUME NEW s \in Switches, FleetVoteLate(s) \/ FleetRollback(s)
      PROVE  FleetInv'
  <2>1. elapsed' \in [Switches -> Int]
    BY <1>3 DEF FleetVoteLate, FleetRollback, FleetInv
  <2>2. Good(fleet[s])
    BY <1>3 DEF FleetVoteLate, FleetRollback, FleetInv, Settled
  <2>3. PICK ph \in {"aborted", "rolled_back"} :
            fleet' = [fleet EXCEPT ![s] = [fleet[s] EXCEPT !.phase = ph]]
    BY <1>3 DEF FleetVoteLate, FleetRollback
  <2>4. Settled([fleet[s] EXCEPT !.phase = ph])
    BY <2>2, GoodSettled
  <2> QED
    BY <2>1, <2>3, <2>4, OneSwitch
<1>4. ASSUME NEW s \in Switches, FleetTick(s) \/ FleetClockSetBack(s)
      PROVE  FleetInv'
  BY <1>4 DEF FleetTick, FleetClockSetBack, FleetInv
<1>5. CASE FleetRestart
  BY <1>5 DEF FleetRestart, FleetInv
<1>6. CASE UNCHANGED fleetVars
  BY <1>6 DEF fleetVars, FleetInv
<1> QED
  BY <1>1, <1>2, <1>3, <1>4, <1>5, <1>6 DEF FleetNext

-----------------------------------------------------------------------------
(***************************************************************************)
(* The theorems about fleet switches.                                      *)
(***************************************************************************)

\* Every reachable state of the coordinator is good: votes are cast once, by
\* listed peers, and whoever executes has a quorum behind it (fleet.rs).
THEOREM FleetInvariant == FleetSpec => []FleetInv
<1>1. FleetInit => FleetInv
  BY FleetInvInit
<1>2. FleetInv /\ [FleetNext]_fleetVars => FleetInv'
  BY FleetInvStep
<1> QED
  BY <1>1, <1>2, PTL DEF FleetSpec

\* The records of FleetCoordinator are well typed.
THEOREM FleetTypeCorrect == FleetSpec => []FleetTypeOK
<1>1. FleetInv => FleetTypeOK
  BY DEF FleetInv, FleetTypeOK, Settled, Good
<1> QED
  BY <1>1, FleetInvariant, PTL

\* Nobody executes without a quorum (record_vote, advance_to_execute), for any
\* lists, with or without repetitions, any percentages and any clock.
THEOREM NobodyExecutesAlone == FleetSpec => []QuorumBehindExecution
<1>1. FleetInv => QuorumBehindExecution
  BY DEF FleetInv, QuorumBehindExecution, Settled, Good, FairVotes, Backed, Voted
<1> QED
  BY <1>1, FleetInvariant, PTL

\* A proposal that has votes and is open can be decided either way (has_quorum,
\* is_vetoed), whenever its list has no repetitions.
THEOREM OpenSwitchesAreUndecided == FleetSpec => []OpenIsUndecided
<1>1. FleetInv => OpenIsUndecided
  BY WeighedIsOpen DEF FleetInv, OpenIsUndecided, Settled, Weighed
<1> QED
  BY <1>1, FleetInvariant, PTL

\* A decision is final while the daemon runs (fleet_vote_handler,
\* fleet_rollback_handler).
THEOREM DecisionsAreFinal == FleetSpec => DecisionIsFinal
<1> DEFINE Kept(s) ==
        (/\ fleet[s] # NoSwitch
         /\ fleet'[s] # NoSwitch
         /\ fleet[s].phase # "propose")
        => /\ fleet'[s].phase # "propose"
           /\ fleet'[s].phase = "execute" => fleet[s].phase = "execute"
           /\ <<fleet'[s].ayes, fleet'[s].noes, fleet'[s].status>>
                = <<fleet[s].ayes, fleet[s].noes, fleet[s].status>>
<1>1. ASSUME FleetInv, [FleetNext]_fleetVars, NEW s \in Switches
      PROVE  Kept(s)
  <2> SUFFICES ASSUME fleet[s] # NoSwitch, fleet'[s] # NoSwitch, fleet[s].phase # "propose"
               PROVE  \/ fleet'[s] = fleet[s]
                      \/ \E ph \in {"aborted", "rolled_back"} :
                            /\ fleet'[s].phase = ph
                            /\ <<fleet'[s].ayes, fleet'[s].noes, fleet'[s].status>>
                                 = <<fleet[s].ayes, fleet[s].noes, fleet[s].status>>
    OBVIOUS
  <2>1. Good(fleet[s])
    BY <1>1 DEF FleetInv, Settled
  <2>2. ASSUME NEW t \in Switches, NEW r \in Rosters, NEW q \in Percents, NEW d \in Timeouts,
               FleetPropose(t, r, q, d)
        PROVE  fleet'[s] = fleet[s]
    BY <1>1, <2>2 DEF FleetPropose, FleetInv
  <2>3. ASSUME NEW t \in Switches, NEW p \in Peers, NEW b \in BOOLEAN, FleetVote(t, p, b)
        PROVE  fleet'[s] = fleet[s]
    BY <1>1, <2>3 DEF FleetVote, FleetInv
  <2>4. ASSUME NEW t \in Switches, FleetVoteLate(t) \/ FleetRollback(t)
        PROVE  \/ fleet'[s] = fleet[s]
               \/ \E ph \in {"aborted", "rolled_back"} :
                     /\ fleet'[s].phase = ph
                     /\ <<fleet'[s].ayes, fleet'[s].noes, fleet'[s].status>>
                          = <<fleet[s].ayes, fleet[s].noes, fleet[s].status>>
    <3>1. PICK ph \in {"aborted", "rolled_back"} :
              fleet' = [fleet EXCEPT ![t] = [fleet[t] EXCEPT !.phase = ph]]
      BY <2>4 DEF FleetVoteLate, FleetRollback
    <3>2. CASE t = s
      <4>1. fleet'[s] = [fleet[s] EXCEPT !.phase = ph]
        BY <1>1, <3>1, <3>2 DEF FleetInv
      <4> QED
        BY <2>1, <4>1, GoodSettled
    <3>3. CASE t # s
      BY <1>1, <3>1, <3>3 DEF FleetInv
    <3> QED
      BY <3>2, <3>3
  <2>5. CASE \E t \in Switches : FleetTick(t) \/ FleetClockSetBack(t)
    BY <2>5 DEF FleetTick, FleetClockSetBack
  <2>6. CASE FleetRestart
    BY <2>6 DEF FleetRestart
  <2>7. CASE UNCHANGED fleetVars
    BY <2>7 DEF fleetVars
  <2> QED
    BY <1>1, <2>2, <2>3, <2>4, <2>5, <2>6, <2>7 DEF FleetNext
<1>2. FleetInv /\ [FleetNext]_fleetVars => [\A s \in Switches : Kept(s)]_fleetVars
  BY <1>1
<1> QED
  BY <1>2, FleetInvariant, PTL DEF FleetSpec, DecisionIsFinal
=============================================================================
