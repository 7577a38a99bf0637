------------------------------ MODULE AgentLoop ------------------------------
(***************************************************************************)
(* osmoda-gateway: loops that fire turns of the agent by themselves        *)
(* (agent-loop.ts), turns that clients ask for (POST /agent/turn in        *)
(* index.ts), and the meter that refuses both when the budget of the day   *)
(* is spent (spend.ts).  JavaScript runs one callback at a time: what a    *)
(* tick does before its await is one step, and what it does after it is    *)
(* another.  One agent with one cap; messages and transcripts are left out.*)
(***************************************************************************)
EXTENDS Integers, FiniteSets

CONSTANTS
    LoopIds,
    Turns,               \* turns in flight at the same time
    MaxLoops,            \* 50 in the code, of loops that run
    MaxIterations,       \* of a loop
    MaxErrors,           \* 3 in the code: consecutive errors
    DailyCap,            \* of the agent, in tokens
    MaxUse,              \* bound: tokens that one turn uses
    MaxDays,             \* bound: days
    MaxMishaps,          \* bound: crashes, and times that the disk fills up
    NoLoop, NoTurn,      \* no loop, no turn
    Client               \* who asks for a turn over HTTP

ASSUME AgentLoopAssumption ==
    /\ IsFiniteSet(Turns) /\ NoTurn \notin Turns /\ Client \notin LoopIds
    /\ MaxLoops \in Nat /\ MaxIterations \in Nat \ {0} /\ MaxErrors \in Nat \ {0}
    /\ DailyCap \in Nat \ {0} /\ MaxUse \in Nat /\ MaxDays \in Nat /\ MaxMishaps \in Nat

VARIABLES
    gatewayUp,
    loops,                  \* status, iterations and consecutive errors by id
    timers,                 \* loops for which a tick is scheduled
    turns,                  \* turns[t]: whose turn it is, and whether it was aborted
    aborts,                 \* aborts[l]: the turn whose controller is registered
    bucket,                 \* the meter: a day and what was used on it
    loopsFile, spendFile,   \* loops.json and spend.json
    today, full, mishaps,   \* the date; whether writes may fail
    \* observers: what was billed today, the most turns at a time today, whether a
    \* restart lost some of today's tally; loops that were resumed while a turn was
    \* returning, and loops that were paused after their end
    billed, together, lost, overlapped, revived

loopVars == <<gatewayUp, loops, timers, turns, aborts, bucket, loopsFile, spendFile, today,
              full, mishaps, billed, together, lost, overlapped, revived>>

LoopStatuses == {"running", "paused", "completed", "stopped"}
Loop == [status: LoopStatuses, iteration: Nat, errors: Nat]
Turn == [of: LoopIds \cup {Client}, aborted: BOOLEAN]

ASSUME NoneAssumption == NoLoop \notin Loop /\ NoTurn \notin Turn

Is(l, status) == loops[l] # NoLoop /\ loops[l].status = status
InFlight == {t \in Turns : turns[t] # NoTurn}
TurnsOf(l) == {t \in InFlight : turns[t].of = l}

\* A loop is created or changed.
SetLoop(l, status, iteration, errors) ==
    loops' = [loops EXCEPT ![l] = [status |-> status, iteration |-> iteration, errors |-> errors]]

\* persist and save: the file is replaced at once, and an error is ignored.
SaveLoops == loopsFile' = loops' \/ (full /\ UNCHANGED loopsFile)
SaveSpend == spendFile' = bucket' \/ (full /\ UNCHANGED spendFile)

\* The one timer of a loop is scheduled anew, or cancelled.
Schedule(l) == timers' = timers \cup {l}
ClearTimer(l) == timers' = timers \ {l}

-----------------------------------------------------------------------------
(* The spend meter: the bucket of another day counts as empty.             *)

UsedOf(b) == IF b.day = today THEN b.used ELSE 0

Allowed == UsedOf(bucket) < DailyCap

Record(use) ==
    /\ bucket' = [day |-> today, used |-> UsedOf(bucket) + use]
    /\ SaveSpend
    /\ billed' = billed + use
    /\ UNCHANGED <<today, lost>>

NotBilled == UNCHANGED <<bucket, spendFile, billed, today, lost>>

\* A turn may end without saying what it used.
Bill(use) == Record(use) \/ (use = 0 /\ NotBilled)

-----------------------------------------------------------------------------
(* Turns: each has a slot, any free one.                                   *)

NewTurn == CHOOSE t \in Turns \ InFlight : TRUE

TurnStarts(who) ==
    LET busy == Cardinality(InFlight) + 1
    IN  /\ InFlight # Turns
        /\ turns' = [turns EXCEPT ![NewTurn] = [of |-> who, aborted |-> FALSE]]
        /\ together' = IF busy > together THEN busy ELSE together
        /\ NotBilled

\* The turn is over; an overlap lasts as long as its loop has turns.
TurnReturns(t) ==
    /\ turns' = [turns EXCEPT ![t] = NoTurn]
    /\ overlapped' = IF TurnsOf(turns[t].of) = {t} THEN overlapped \ {turns[t].of} ELSE overlapped

\* POST /agent/turn: checked, run, and billed whatever comes of it.
ClientTurn ==
    /\ gatewayUp /\ Allowed
    /\ TurnStarts(Client)
    /\ UNCHANGED <<gatewayUp, loops, timers, aborts, loopsFile, full, mishaps, overlapped, revived>>

ClientTurnEnds(t, use) ==
    /\ t \in TurnsOf(Client)
    /\ TurnReturns(t)
    /\ Bill(use)
    /\ UNCHANGED <<gatewayUp, loops, timers, aborts, loopsFile, full, mishaps, together, revived>>

-----------------------------------------------------------------------------
(* Requests about loops.                                                   *)

CreateLoop(l) ==
    /\ gatewayUp
    /\ loops[l] = NoLoop
    /\ Cardinality({k \in LoopIds : Is(k, "running")}) < MaxLoops
    /\ SetLoop(l, "running", 0, 0)
    /\ SaveLoops
    /\ Schedule(l)
    /\ UNCHANGED <<gatewayUp, turns, aborts, full, mishaps, together, overlapped, revived>>
    /\ NotBilled

\* The registered controller tells its turn to end.
Aborted(l) ==
    [t \in Turns |-> IF t = aborts[l] THEN [turns[t] EXCEPT !.aborted = TRUE] ELSE turns[t]]

\* Mutant: the turn in flight goes on.
HaltsTimer(l, status) ==
    /\ SetLoop(l, status, loops[l].iteration, loops[l].errors)
    /\ ClearTimer(l)
    /\ SaveLoops
    /\ UNCHANGED <<gatewayUp, turns, aborts, full, mishaps, together, overlapped>>
    /\ NotBilled

Halts(l, status) ==
    /\ SetLoop(l, status, loops[l].iteration, loops[l].errors)
    /\ ClearTimer(l)
    /\ turns' = Aborted(l)
    /\ SaveLoops
    /\ UNCHANGED <<gatewayUp, aborts, full, mishaps, together, overlapped>>
    /\ NotBilled

StopLoop(l) ==
    /\ gatewayUp /\ loops[l] # NoLoop
    /\ Halts(l, "stopped")
    /\ UNCHANGED revived

\* Also when it has been completed or stopped.
PauseLoop(l) ==
    /\ gatewayUp /\ loops[l] # NoLoop
    /\ Halts(l, "paused")
    /\ revived' = IF Is(l, "completed") \/ Is(l, "stopped") THEN revived \cup {l} ELSE revived

ResumeLoop(l) ==
    /\ gatewayUp /\ Is(l, "paused")
    /\ SetLoop(l, "running", loops[l].iteration, 0)
    /\ SaveLoops
    /\ Schedule(l)
    /\ overlapped' = IF TurnsOf(l) # {} THEN overlapped \cup {l} ELSE overlapped
    /\ UNCHANGED <<gatewayUp, turns, aborts, full, mishaps, together, revived>>
    /\ NotBilled

-----------------------------------------------------------------------------
(* tick: the timer of a loop has fired.  Whoever takes a loop out of       *)
(* "running" cancels its timer, so that no other loop's ever fires.        *)

Fires(l) == gatewayUp /\ l \in timers /\ Is(l, "running")

HasIterations(l) == loops[l].iteration < MaxIterations

TickFinishes(l) ==
    /\ Fires(l) /\ ~ HasIterations(l)
    /\ SetLoop(l, "completed", loops[l].iteration, loops[l].errors)
    /\ ClearTimer(l)
    /\ SaveLoops
    /\ UNCHANGED <<gatewayUp, turns, aborts, full, mishaps, together, overlapped, revived>>
    /\ NotBilled

\* The agent, its credential or its driver is no longer configured.
TickPauses(l) ==
    /\ Fires(l) /\ HasIterations(l)
    /\ Halts(l, "paused")
    /\ UNCHANGED revived

\* Over the cap: the tick is scheduled again.
TickSkips(l) ==
    /\ Fires(l) /\ HasIterations(l) /\ ~ Allowed
    /\ UNCHANGED <<gatewayUp, loops, timers, turns, aborts, full, mishaps, together, overlapped,
                   revived>>
    /\ SaveLoops
    /\ NotBilled

\* Mutant: the meter is not asked.
TickStartsUngated(l) ==
    /\ Fires(l) /\ HasIterations(l)
    /\ TurnStarts(l)
    /\ ClearTimer(l)
    /\ aborts' = [aborts EXCEPT ![l] = NewTurn]
    /\ UNCHANGED <<gatewayUp, loops, loopsFile, full, mishaps, overlapped, revived>>

TickStarts(l) ==
    /\ Fires(l) /\ HasIterations(l) /\ Allowed
    /\ TurnStarts(l)
    /\ ClearTimer(l)
    /\ aborts' = [aborts EXCEPT ![l] = NewTurn]
    /\ UNCHANGED <<gatewayUp, loops, loopsFile, full, mishaps, overlapped, revived>>

\* After the await: the entry of the loop is dropped, whoever's controller it holds.
TickReturns(l, t) ==
    /\ t \in TurnsOf(l)
    /\ TurnReturns(t)
    /\ aborts' = [aborts EXCEPT ![l] = NoTurn]
    /\ UNCHANGED <<gatewayUp, full, mishaps, together, revived>>

\* Paused, stopped or completed meanwhile: the turn is not billed.
TickIgnores(l, t) ==
    /\ TickReturns(l, t)
    /\ ~ Is(l, "running")
    /\ UNCHANGED <<loops, timers, loopsFile>>
    /\ NotBilled

\* Mutant: only a success is scheduled again.
TickFailsForGood(l, t) ==
    /\ TickReturns(l, t)
    /\ Is(l, "running")
    /\ SetLoop(l, IF loops[l].errors + 1 >= MaxErrors THEN "paused" ELSE "running",
               loops[l].iteration, loops[l].errors + 1)
    /\ ClearTimer(l)
    /\ SaveLoops
    /\ NotBilled

\* An error and no output.
TickFails(l, t) ==
    LET last == loops[l].errors + 1 >= MaxErrors
    IN  /\ TickReturns(l, t)
        /\ Is(l, "running")
        /\ SetLoop(l, IF last THEN "paused" ELSE "running", loops[l].iteration, loops[l].errors + 1)
        /\ IF last THEN ClearTimer(l) ELSE Schedule(l)
        /\ SaveLoops
        /\ NotBilled

\* The goal is met when the answer holds the sentinel.
TickSucceeds(l, t, use, met) ==
    LET done == met \/ loops[l].iteration + 1 >= MaxIterations
    IN  /\ TickReturns(l, t)
        /\ Is(l, "running")
        /\ Bill(use)
        /\ SetLoop(l, IF done THEN "completed" ELSE "running", loops[l].iteration + 1, 0)
        /\ IF done THEN ClearTimer(l) ELSE Schedule(l)
        /\ SaveLoops

-----------------------------------------------------------------------------
(* The clock, the disk, and the process.                                   *)

NewDay ==
    /\ today < MaxDays
    /\ today' = today + 1
    /\ billed' = 0 /\ lost' = FALSE /\ together' = Cardinality(InFlight)
    /\ UNCHANGED <<gatewayUp, loops, timers, turns, aborts, bucket, loopsFile, spendFile, full,
                   mishaps, overlapped, revived>>

DiskChanges ==
    /\ full \/ mishaps < MaxMishaps
    /\ full' = ~ full
    /\ mishaps' = IF full THEN mishaps ELSE mishaps + 1
    /\ UNCHANGED <<gatewayUp, loops, timers, turns, aborts, bucket, loopsFile, spendFile, today,
                   billed, together, lost, overlapped, revived>>

\* A signal or a crash: the unit is ended with its children.
GatewayEnds ==
    /\ gatewayUp /\ mishaps < MaxMishaps
    /\ gatewayUp' = FALSE
    /\ mishaps' = mishaps + 1
    /\ timers' = {} /\ overlapped' = {}
    /\ turns' = [t \in Turns |-> NoTurn] /\ aborts' = [l \in LoopIds |-> NoTurn]
    /\ lost' = (lost \/ UsedOf(spendFile) # UsedOf(bucket))
    /\ UNCHANGED <<loops, bucket, loopsFile, spendFile, today, full, billed, together, revived>>

\* load, and resumeAll.
GatewayStart ==
    /\ ~ gatewayUp
    /\ gatewayUp' = TRUE
    /\ loops' = loopsFile
    /\ bucket' = spendFile
    /\ timers' = {l \in LoopIds : loopsFile[l] # NoLoop /\ loopsFile[l].status = "running"}
    /\ UNCHANGED <<turns, aborts, loopsFile, spendFile, today, full, mishaps, billed, together,
                   lost, overlapped, revived>>

AgentLoopInit ==
    /\ gatewayUp = TRUE /\ full = FALSE /\ today = 0 /\ mishaps = 0
    /\ loops = [l \in LoopIds |-> NoLoop] /\ loopsFile = loops
    /\ timers = {} /\ turns = [t \in Turns |-> NoTurn] /\ aborts = [l \in LoopIds |-> NoTurn]
    /\ bucket = [day |-> 0, used |-> 0] /\ spendFile = bucket
    /\ billed = 0 /\ together = 0 /\ lost = FALSE /\ overlapped = {} /\ revived = {}

AgentLoopNext ==
    \/ \E l \in LoopIds :
          \/ CreateLoop(l) \/ StopLoop(l) \/ PauseLoop(l) \/ ResumeLoop(l)
          \/ TickFinishes(l) \/ TickPauses(l) \/ TickSkips(l) \/ TickStarts(l)
    \/ \E l \in LoopIds, t \in Turns :
          \/ TickIgnores(l, t) \/ TickFails(l, t)
          \/ \E use \in 0 .. MaxUse, met \in BOOLEAN : TickSucceeds(l, t, use, met)
    \/ ClientTurn
    \/ \E t \in Turns, use \in 0 .. MaxUse : ClientTurnEnds(t, use)
    \/ NewDay \/ DiskChanges \/ GatewayEnds \/ GatewayStart

AgentLoopSpec == AgentLoopInit /\ [][AgentLoopNext]_loopVars

-----------------------------------------------------------------------------
(* Properties.                                                             *)

\* Type correctness of the loops, their turns, the meter and the observers.
AgentLoopTypeOK ==
    /\ gatewayUp \in BOOLEAN /\ full \in BOOLEAN /\ today \in Nat /\ mishaps \in Nat
    /\ loops \in [LoopIds -> Loop \cup {NoLoop}] /\ loopsFile \in [LoopIds -> Loop \cup {NoLoop}]
    /\ timers \subseteq LoopIds
    /\ turns \in [Turns -> Turn \cup {NoTurn}]
    /\ aborts \in [LoopIds -> Turns \cup {NoTurn}]
    /\ bucket \in [day: Nat, used: Nat] /\ spendFile \in [day: Nat, used: Nat]
    /\ billed \in Nat /\ together \in Nat /\ lost \in BOOLEAN
    /\ overlapped \subseteq LoopIds /\ revived \subseteq LoopIds

\* A running loop is never forgotten: either a tick is scheduled or a turn is in
\* flight that will see to it, over errors, the spend cap, restarts, and turns
\* that return after a pause and a resume.
RunningIsDriven ==
    gatewayUp => \A l \in LoopIds : Is(l, "running") => l \in timers \/ TurnsOf(l) # {}

\* The budget of a day is outrun by what is in flight at most: one turn for each
\* that was in flight at the same time on that day, loops and clients together,
\* also over midnight and over restarts that lose nothing of spend.json.
BudgetOverrun == lost \/ billed < DailyCap + MaxUse * together

\* Stop and pause reach the turn in flight: it is told to end.  Only while two
\* turns of a loop overlap, after a resume that did not wait for the first one,
\* does the return of either take the other out of reach.
HaltReachesTurns ==
    \A l \in LoopIds \ overlapped :
        (Is(l, "paused") \/ Is(l, "stopped")) => \A t \in TurnsOf(l) : turns[t].aborted

\* A loop goes through no more iterations than it was created with, also with
\* two turns at a time, unless it was paused and resumed after its end.
IterationsCapped ==
    \A l \in LoopIds \ revived : loops[l] # NoLoop => loops[l].iteration <= MaxIterations
=============================================================================
