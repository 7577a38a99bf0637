------------------------------- MODULE Watch -------------------------------
(***************************************************************************)
(* osmoda-watch: SafeSwitch sessions and autopilot watchers.               *)
(*                                                                         *)
(* All state is behind one tokio Mutex.  The probation loop, the watcher   *)
(* loop and a manual rollback keep it for as long as they run checks and   *)
(* child processes; the other handlers take it for one step.  A rollback   *)
(* is two child processes, nix-env --rollback and then                     *)
(* switch-to-configuration, each given up after 60 s but never killed.     *)
(* Sessions are in memory only; watchers are also written to               *)
(* watchers.json.  The outcome of a health check is a free choice.         *)
(***************************************************************************)
EXTENDS Naturals, Sequences, FiniteSets

CONSTANTS
  Sessions,     \* the UUIDs that switch_begin_handler may generate
  Watchers,     \* the UUIDs that watcher_add_handler may generate
  None,         \* neither
  Ladder,       \* the actions of every watcher, in escalation order
  Generation0,  \* generations in the system profile at the start
  MaxOrphans,   \* bound on child processes that were given up and still run
  MaxCuts,      \* bound on clients that hang up during a manual rollback
  MaxCrashes    \* bound on the number of crashes

ASSUME WatchAssumption ==
  /\ Sessions \cap Watchers = {}
  /\ None \notin Sessions \cup Watchers
  /\ Ladder \in Seq({"restart", "rollback", "notify"})
  /\ Generation0 \in Nat \ {0}
  /\ MaxOrphans \in Nat /\ MaxCuts \in Nat /\ MaxCrashes \in Nat

VARIABLES
  up,        \* the daemon runs
  status,    \* session id -> status, with the stages before and after its life
  prev,      \* session id -> previous_generation
  due,       \* the sessions whose ttl_secs have passed
  gen,       \* session id -> the generation its caller deployed, 0 if none yet
  newest,    \* generations 1 .. newest exist in the profile
  current,   \* the one the profile points at
  running,   \* the one that was activated last
  task,      \* who holds the mutex, and what for
  orphans,   \* nix-env --rollback processes that were given up and still run
  late,      \* generations that switch-to-configuration is still activating
  watchers,  \* watcher id -> its state in memory
  saved,     \* watcher id -> its state in watchers.json
  minted,    \* the watcher ids generated so far
  crashes,
  launched,  \* observer: session id -> rollbacks started for it
  cut,       \* observer: session id -> rollbacks whose client hung up
  tried      \* observer: watcher id -> rungs executed since a check passed

gens == <<newest, current, running>>
children == <<orphans, late>>
sessions == <<status, prev, due, gen, launched, cut>>
autopilot == <<watchers, saved, minted, tried>>
vars == <<up, sessions, gens, task, children, autopilot, crashes>>
-----------------------------------------------------------------------------
Statuses == {"none", "arriving", "dropped", "probation", "committed", "rolledback", "lost"}

\* failures = 0 is Healthy, failures = n + 1 is Degraded with n retries.  Above
\* the length of the ladder the number makes no difference.
WatcherType == [there : BOOLEAN, failures : 0 .. Len(Ladder) + 1]
Absent == [there |-> FALSE, failures |-> 0]
NoWatchers == [w \in Watchers |-> Absent]

\* `by` holds the mutex and is at step `at` for `on`; `todo` waits its turn in
\* the loop; `due` is the answer is_expired gave; `to` is being activated.
TaskType == [by : {"nobody", "probation", "watchers", "manual"},
             at : {"pick", "check", "nix-env", "activate", "restart"},
             on : Sessions \cup Watchers \cup {None},
             todo : SUBSET (Sessions \cup Watchers), due : BOOLEAN, to : Nat]
Nobody == [by |-> "nobody", at |-> "pick", on |-> None, todo |-> {}, due |-> FALSE, to |-> 0]

\* Mutant: a handler that does not wait for the mutex.
AlwaysFree == TRUE

Free == task = Nobody

Active == {id \in Sessions : status[id] = "probation"}
Present == {w \in Watchers : watchers[w].there}

\* Mutant: the loop visits all watchers again before it lets go of the mutex.
MoveOnAgain ==
  LET todo == IF task.todo = {} /\ task.by = "watchers" THEN Present ELSE task.todo
  IN  task' = IF todo = {} THEN Nobody ELSE [Nobody EXCEPT !.by = task.by, !.todo = todo]

\* The loop goes on to its next session or watcher, or lets go of the mutex.
MoveOn ==
  task' = IF task.todo = {} THEN Nobody
          ELSE [Nobody EXCEPT !.by = task.by, !.todo = task.todo]
-----------------------------------------------------------------------------
(***************************************************************************)
(* Sessions.                                                               *)
(***************************************************************************)

\* POST /switch/begin: the handler reads the generation and the clock ...
BeginArrives(id) ==
  /\ up
  /\ status[id] = "none"
  /\ status' = [status EXCEPT ![id] = "arriving"]
  /\ prev' = [prev EXCEPT ![id] = current]
  /\ UNCHANGED <<up, due, gen, launched, cut, gens, task, children, autopilot, crashes>>

\* ... and inserts the session when it gets the mutex.
BeginInserts(id) ==
  /\ status[id] = "arriving"
  /\ Free
  /\ status' = [status EXCEPT ![id] = "probation"]
  /\ UNCHANGED <<up, prev, due, gen, launched, cut, gens, task, children, autopilot, crashes>>

\* Its client hangs up while it waits.
BeginDropped(id) ==
  /\ status[id] = "arriving"
  /\ ~Free
  /\ status' = [status EXCEPT ![id] = "dropped"]
  /\ UNCHANGED <<up, prev, due, gen, launched, cut, gens, task, children, autopilot, crashes>>

TtlPasses(id) ==
  /\ status[id] \in {"arriving", "probation"}
  /\ id \notin due
  /\ due' = due \cup {id}
  /\ UNCHANGED <<up, status, prev, gen, launched, cut, gens, task, children, autopilot, crashes>>

\* The caller applies its change, once, some time after begin has answered.
Deploy(id) ==
  /\ status[id] \in {"probation", "committed", "rolledback", "lost"}
  /\ gen[id] = 0
  /\ newest' = newest + 1
  /\ current' = newest + 1
  /\ running' = newest + 1
  /\ gen' = [gen EXCEPT ![id] = newest + 1]
  /\ UNCHANGED <<up, status, prev, due, launched, cut, task, children, autopilot, crashes>>

\* Mutant: the handler does not ask is_active.
CommitAnySession(id) ==
  /\ up
  /\ Free
  /\ status[id] \notin {"none", "arriving", "dropped", "lost"}
  /\ status' = [status EXCEPT ![id] = "committed"]
  /\ UNCHANGED <<up, prev, due, gen, launched, cut, gens, task, children, autopilot, crashes>>

\* POST /switch/commit/{id}
Commit(id) ==
  /\ up
  /\ Free
  /\ id \in Active
  /\ status' = [status EXCEPT ![id] = "committed"]
  /\ UNCHANGED <<up, prev, due, gen, launched, cut, gens, task, children, autopilot, crashes>>

\* POST /switch/rollback/{id}: the mutex is held until the children are done.
RollbackBegins(id) ==
  /\ up
  /\ Free
  /\ id \in Active
  /\ task' = [Nobody EXCEPT !.by = "manual", !.at = "nix-env", !.on = id]
  /\ launched' = [launched EXCEPT ![id] = @ + 1]
  /\ UNCHANGED <<up, status, prev, due, gen, cut, gens, children, autopilot, crashes>>

\* Its client hangs up: the server drops the handler and with it the mutex,
\* the child process goes on, and the session stays on probation.
RollbackDropped(id) ==
  /\ task.by = "manual"
  /\ task.on = id
  /\ cut[id] < MaxCuts
  /\ IF task.at = "nix-env"
     THEN /\ orphans < MaxOrphans
          /\ orphans' = orphans + 1
          /\ UNCHANGED late
     ELSE late' = late \cup {task.to} /\ UNCHANGED orphans
  /\ task' = Nobody
  /\ cut' = [cut EXCEPT ![id] = @ + 1]
  /\ UNCHANGED <<up, status, prev, due, gen, launched, gens, autopilot, crashes>>
-----------------------------------------------------------------------------
(***************************************************************************)
(* The probation loop: a tick visits every active session, if there is one.*)
(***************************************************************************)
ProbationTick ==
  /\ up
  /\ Free
  /\ task' = IF Active = {} THEN Nobody ELSE [Nobody EXCEPT !.by = "probation", !.todo = Active]
  /\ UNCHANGED <<up, sessions, gens, children, autopilot, crashes>>

\* Mutant: started_at does not parse, and is_expired is always false.
PickNeverDue(x) ==
  /\ task.at = "pick"
  /\ x \in task.todo
  /\ task' = [task EXCEPT !.at = "check", !.on = x, !.todo = @ \ {x}, !.due = FALSE]
  /\ UNCHANGED <<up, sessions, gens, children, autopilot, crashes>>

\* The session or watcher whose turn it is; is_expired is asked before the checks.
Pick(x) ==
  /\ task.at = "pick"
  /\ x \in task.todo
  /\ task' = [task EXCEPT !.at = "check", !.on = x, !.todo = @ \ {x}, !.due = x \in due]
  /\ UNCHANGED <<up, sessions, gens, children, autopilot, crashes>>

\* All checks pass: after the TTL that commits the session.
SessionPasses(id) ==
  /\ task.by = "probation" /\ task.at = "check" /\ task.on = id
  /\ status' = IF task.due THEN [status EXCEPT ![id] = "committed"] ELSE status
  /\ MoveOn
  /\ UNCHANGED <<up, prev, due, gen, launched, cut, gens, children, autopilot, crashes>>

\* A check fails: roll back, before the TTL and after it.
SessionFails(id) ==
  /\ task.by = "probation" /\ task.at = "check" /\ task.on = id
  /\ task' = [task EXCEPT !.at = "nix-env"]
  /\ launched' = [launched EXCEPT ![id] = @ + 1]
  /\ UNCHANGED <<up, status, prev, due, gen, cut, gens, children, autopilot, crashes>>
-----------------------------------------------------------------------------
(***************************************************************************)
(* rollback_generation, on behalf of a session or a watcher.               *)
(***************************************************************************)

\* Mutant: a session is settled only when its rollback has worked.
RolledBackIfDone(done) ==
  /\ status' = IF task.by \in {"probation", "manual"} /\ done
               THEN [status EXCEPT ![task.on] = "rolledback"] ELSE status
  /\ MoveOn

\* rollback_generation has returned: whether it worked is logged, no more.
RolledBack(done) ==
  /\ status' = IF task.by \in {"probation", "manual"}
               THEN [status EXCEPT ![task.on] = "rolledback"] ELSE status
  /\ MoveOn

\* nix-env goes to the generation before the current one, if there is one.
NixEnvWorks ==
  /\ task.at = "nix-env"
  /\ current > 1
  /\ current' = current - 1
  /\ task' = [task EXCEPT !.at = "activate", !.to = current - 1]
  /\ UNCHANGED <<up, sessions, newest, running, children, autopilot, crashes>>

NixEnvFails ==
  /\ task.at = "nix-env"
  /\ RolledBack(FALSE)
  /\ UNCHANGED <<up, prev, due, gen, launched, cut, gens, children, autopilot, crashes>>

NixEnvTimesOut ==
  /\ task.at = "nix-env"
  /\ orphans < MaxOrphans
  /\ orphans' = orphans + 1
  /\ RolledBack(FALSE)
  /\ UNCHANGED <<up, prev, due, gen, launched, cut, gens, late, autopilot, crashes>>

ActivateWorks ==
  /\ task.at = "activate"
  /\ running' = task.to
  /\ RolledBack(TRUE)
  /\ UNCHANGED <<up, prev, due, gen, launched, cut, newest, current, children, autopilot, crashes>>

\* switch-to-configuration fails, or is given up and goes on.
ActivateFails ==
  /\ task.at = "activate"
  /\ late' \in {late, late \cup {task.to}}
  /\ RolledBack(FALSE)
  /\ UNCHANGED <<up, prev, due, gen, launched, cut, gens, orphans, autopilot, crashes>>

\* A child process that was given up comes to its end.
OrphanEnds ==
  /\ orphans > 0
  /\ orphans' = orphans - 1
  /\ current' \in {current} \cup {g \in {current - 1} : current > 1}
  /\ UNCHANGED <<up, sessions, newest, running, task, late, autopilot, crashes>>

LateEnds(g) ==
  /\ g \in late
  /\ late' = late \ {g}
  /\ running' \in {running, g}
  /\ UNCHANGED <<up, sessions, newest, current, task, orphans, autopilot, crashes>>
-----------------------------------------------------------------------------
(***************************************************************************)
(* Watchers.                                                               *)
(***************************************************************************)

\* save_watchers: it works, or the file cannot be opened, or the write fails
\* after the file was truncated; load_watchers finds no watcher in it then.
\* Both handlers ignore which.
Save(ws) == saved' \in {ws, saved, NoWatchers}

\* POST /watcher/add
WatcherAdd(w) ==
  /\ up
  /\ Free
  /\ w \notin minted
  /\ minted' = minted \cup {w}
  /\ watchers' = [watchers EXCEPT ![w] = [there |-> TRUE, failures |-> 0]]
  /\ Save(watchers')
  /\ UNCHANGED <<up, sessions, gens, task, children, tried, crashes>>

\* DELETE /watcher/remove/{id}
WatcherRemove(w) ==
  /\ up
  /\ Free
  /\ w \in Present
  /\ watchers' = [watchers EXCEPT ![w] = Absent]
  /\ Save(watchers')
  /\ UNCHANGED <<up, sessions, gens, task, children, minted, tried, crashes>>

\* The watcher loop: a tick visits every watcher, if there is one.
WatcherTick ==
  /\ up
  /\ Free
  /\ task' = IF Present = {} THEN Nobody ELSE [Nobody EXCEPT !.by = "watchers", !.todo = Present]
  /\ UNCHANGED <<up, sessions, gens, children, autopilot, crashes>>

WatcherPasses(w) ==
  /\ task.by = "watchers" /\ task.at = "check" /\ task.on = w
  /\ watchers' = [watchers EXCEPT ![w].failures = 0]
  /\ tried' = [tried EXCEPT ![w] = {}]
  /\ MoveOn
  /\ UNCHANGED <<up, sessions, gens, children, saved, minted, crashes>>

Least(m, n) == IF m < n THEN m ELSE n

\* Mutant: the retries are counted before the first action.
RungOneUp(failures) == Least(failures + 1, Len(Ladder))

\* The action for this many failed checks in a row: the last one is repeated.
Rung(failures) == Least(failures, Len(Ladder))

\* A check fails: escalate.  A watcher without actions has none to run.
WatcherFails(w) ==
  LET failures == Least(watchers[w].failures + 1, Len(Ladder) + 1)
      rung == Rung(failures)
  IN /\ task.by = "watchers" /\ task.at = "check" /\ task.on = w
     /\ watchers' = [watchers EXCEPT ![w].failures = failures]
     /\ IF Ladder = <<>> THEN MoveOn /\ UNCHANGED tried
        ELSE /\ tried' = [tried EXCEPT ![w] = @ \cup {rung}]
             /\ CASE Ladder[rung] = "restart"  -> task' = [task EXCEPT !.at = "restart"]
                  [] Ladder[rung] = "rollback" -> task' = [task EXCEPT !.at = "nix-env"]
                  [] Ladder[rung] = "notify"   -> MoveOn
     /\ UNCHANGED <<up, sessions, gens, children, saved, minted, crashes>>

\* systemctl restart comes to its end.  The daemon sets no limit to it.
RestartEnds ==
  /\ task.at = "restart"
  /\ MoveOn
  /\ UNCHANGED <<up, sessions, gens, children, autopilot, crashes>>
-----------------------------------------------------------------------------
(***************************************************************************)
(* The process.  systemd kills what is left of the unit with it.           *)
(***************************************************************************)
Crash ==
  /\ up
  /\ crashes < MaxCrashes
  /\ crashes' = crashes + 1
  /\ up' = FALSE
  /\ status' = [id \in Sessions |->
                  CASE status[id] = "arriving"  -> "dropped"
                    [] status[id] = "probation" -> "lost"
                    [] OTHER                    -> status[id]]
  /\ task' = Nobody
  /\ orphans' = 0
  /\ late' = {}
  /\ watchers' = NoWatchers
  /\ UNCHANGED <<prev, due, gen, launched, cut, gens, saved, minted, tried>>

\* load_watchers
Start ==
  /\ ~up
  /\ up' = TRUE
  /\ watchers' = saved
  /\ UNCHANGED <<sessions, gens, task, children, saved, minted, tried, crashes>>
-----------------------------------------------------------------------------
Init ==
  /\ up = FALSE
  /\ status = [id \in Sessions |-> "none"]
  /\ prev = [id \in Sessions |-> 0]
  /\ due = {}
  /\ gen = [id \in Sessions |-> 0]
  /\ newest = Generation0
  /\ current = Generation0
  /\ running = Generation0
  /\ task = Nobody
  /\ orphans = 0
  /\ late = {}
  /\ watchers = NoWatchers
  /\ saved = NoWatchers
  /\ minted = {}
  /\ crashes = 0
  /\ launched = [id \in Sessions |-> 0]
  /\ cut = [id \in Sessions |-> 0]
  /\ tried = [w \in Watchers |-> {}]

SessionStep(id) ==
  \/ BeginArrives(id) \/ BeginInserts(id) \/ BeginDropped(id)
  \/ TtlPasses(id) \/ Deploy(id) \/ Commit(id)
  \/ RollbackBegins(id) \/ RollbackDropped(id)

\* What the holder of the mutex does next.
Proceed ==
  \/ \E x \in Sessions \cup Watchers : Pick(x)
  \/ \E id \in Sessions : SessionPasses(id) \/ SessionFails(id)
  \/ \E w \in Watchers : WatcherPasses(w) \/ WatcherFails(w)
  \/ NixEnvWorks \/ NixEnvFails \/ NixEnvTimesOut
  \/ ActivateWorks \/ ActivateFails
  \/ RestartEnds

Next ==
  \/ \E id \in Sessions : SessionStep(id)
  \/ ProbationTick
  \/ WatcherTick
  \/ Proceed
  \/ OrphanEnds
  \/ \E g \in late : LateEnds(g)
  \/ \E w \in Watchers : WatcherAdd(w) \/ WatcherRemove(w)
  \/ Crash
  \/ Start

Spec == Init /\ [][Next]_vars

(***************************************************************************)
(* Checks and both children of a rollback have time limits, and a restart  *)
(* is assumed to end; the mutex is a FIFO queue in which both loops and    *)
(* the handlers get their turn; the loops tick; time passes; systemd       *)
(* restarts the unit.                                                      *)
(***************************************************************************)
Fairness ==
  /\ WF_vars(Proceed)
  /\ SF_vars(ProbationTick)
  /\ \A id \in Sessions : SF_vars(BeginInserts(id)) /\ WF_vars(TtlPasses(id))
  /\ WF_vars(Start)

FairSpec == Spec /\ Fairness
-----------------------------------------------------------------------------
SessionTypes ==
  /\ status \in [Sessions -> Statuses]
  /\ prev \in [Sessions -> Nat]
  /\ due \subseteq Sessions
  /\ gen \in [Sessions -> Nat]
  /\ launched \in [Sessions -> Nat]
  /\ cut \in [Sessions -> 0 .. MaxCuts]

ProfileTypes ==
  /\ newest \in Nat
  /\ current \in 1 .. newest
  /\ running \in 1 .. newest
  /\ orphans \in 0 .. MaxOrphans
  /\ late \subseteq 1 .. newest

AutopilotTypes ==
  /\ watchers \in [Watchers -> WatcherType]
  /\ saved \in [Watchers -> WatcherType]
  /\ minted \subseteq Watchers
  /\ tried \in [Watchers -> SUBSET (1 .. Len(Ladder))]

\* What is being activated exists, and a manual rollback does nothing else.
TaskTypes ==
  /\ task \in TaskType
  /\ task.at = "activate" => task.to \in 1 .. newest
  /\ task.by = "manual" => task.at \in {"nix-env", "activate"} /\ task.todo = {}

TypeOK ==
  /\ up \in BOOLEAN
  /\ crashes \in 0 .. MaxCrashes
  /\ SessionTypes
  /\ ProfileTypes
  /\ AutopilotTypes
  /\ TaskTypes

(***************************************************************************)
(* A session is rolled back once, however many ticks, failing checks,      *)
(* failing children, manual rollbacks and timeouts it sees: one rollback   *)
(* too many would take a healthy generation away.  The exception are the   *)
(* manual rollbacks whose client hung up: each leaves the session on       *)
(* probation with a child still at work, and may be followed by another.   *)
(***************************************************************************)
RolledBackOnce == \A id \in Sessions : launched[id] <= 1 + cut[id]

\* Nothing is in flight while the daemon is down, and whoever rolls back for a
\* session, or is about to visit it, keeps it on probation meanwhile.
HeldOnProbation ==
  /\ ~up => task = Nobody
  /\ task.by \in {"probation", "manual"} =>
       /\ task.todo \subseteq Active
       /\ task.at # "pick" => task.on \in Active \ task.todo

Deploys == INSTANCE DeploySessions WITH
  phase <- [id \in Sessions |-> IF status[id] \in {"arriving", "dropped"} THEN "none"
                                ELSE status[id]],
  undos <- launched

(***************************************************************************)
(* The daemon implements the sessions it promises: a manual commit or      *)
(* rollback that races the probation loop, a client that hangs up and a    *)
(* restart all leave a session settled at most once, with no rollback      *)
(* launched for it afterwards.                                             *)
(***************************************************************************)
RefinesDeploys == Deploys!DeploySpec

LadderInOrder == \A w \in Watchers : \A k \in tried[w] : 1 .. k \subseteq tried[w]

\* As long as the daemon is not restarted, a watcher climbs its ladder one rung
\* at a time: no action is executed unless all the ones before it were, since
\* the check last passed.
LadderUntilRestart == crashes = 0 => LadderInOrder

\* README: autopilot watchers with escalation (restart -> rollback -> notify).
\* No rung is ever skipped, across restarts of the daemon too.
Escalation == LadderInOrder

\* README: if any check fails, automatic rollback to the previous generation.
\* When the probation loop settles a deployed session as rolled back, the profile
\* is at the generation that was current when the session began, and it runs.
RollbackToPrevious ==
  [][ \A id \in Sessions :
        /\ task.by = "probation" /\ status[id] = "probation" /\ status'[id] = "rolledback"
        /\ gen[id] # 0
        => current' = prev[id] /\ running' = prev[id] ]_vars

\* No session stays on probation for ever.
ProbationEnds == \A id \in Sessions : status[id] = "probation" ~> status[id] # "probation"

\* A begin request is answered or given up: the loops let go of the mutex.
BeginAnswered == \A id \in Sessions : status[id] = "arriving" ~> status[id] # "arriving"
=============================================================================
