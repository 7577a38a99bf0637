-------------------------- MODULE AgentLoop_proofs --------------------------
(* Theorems about AgentLoop, for any loops and turns, any cap and bounds.  *)
EXTENDS AgentLoop, FiniteSetTheorems, TLAPS

-----------------------------------------------------------------------------
(* The inductive invariant.                                                *)

\* A registered controller is that of a turn of its loop; while the gateway
\* is down nothing is scheduled or in flight.
RegInv == \A l \in LoopIds : aborts[l] = NoTurn \/ aborts[l] \in TurnsOf(l)
DownInv == ~ gatewayUp => timers = {} /\ InFlight = {}
TypeInv == AgentLoopTypeOK /\ RegInv /\ DownInv

\* A loop that does not overlap itself has one turn at most, the registered
\* one, none when a tick is scheduled, and an aborted one when it is halted.
Lone(l) ==
    /\ TurnsOf(l) \subseteq {aborts[l]}
    /\ l \in timers => TurnsOf(l) = {}
    /\ Is(l, "paused") \/ Is(l, "stopped") => \A t \in TurnsOf(l) : turns[t].aborted
Good(l) ==
    /\ loops[l] = NoLoop => TurnsOf(l) = {}
    /\ gatewayUp /\ Is(l, "running") => l \in timers \/ TurnsOf(l) # {}
    /\ l \notin overlapped => Lone(l)
GoodInv == \A l \in LoopIds : Good(l)

\* In memory and in the file; before its end a loop has iterations left.
Capped(loop) ==
    loop # NoLoop =>
        /\ loop.iteration <= MaxIterations
        /\ loop.status \in {"running", "paused"} => loop.iteration < MaxIterations
CapInv == \A l \in LoopIds \ revived : Capped(loops[l]) /\ Capped(loopsFile[l])

\* What the turns in flight may use is accounted for.
SpendInv ==
    /\ Cardinality(InFlight) <= together
    /\ bucket.day <= today /\ spendFile.day <= today
    /\ lost \/ billed = UsedOf(bucket)
    /\ gatewayUp \/ lost \/ UsedOf(spendFile) = UsedOf(bucket)
    /\ lost \/ billed + MaxUse * Cardinality(InFlight) < DailyCap + MaxUse * together

-----------------------------------------------------------------------------
(* Turns that start, return and are aborted.                               *)

LEMMA Constants ==
  /\ Client \notin LoopIds /\ NoTurn \notin Turns /\ IsFiniteSet(Turns)
  /\ MaxIterations \in Nat \ {0} /\ MaxErrors \in Nat \ {0}
  /\ DailyCap \in Nat \ {0} /\ MaxUse \in Nat
BY AgentLoopAssumption

\* Whose the turns in flight are, before and after.
SameOwners == InFlight' = InFlight /\ \A k \in LoopIds : TurnsOf(k)' = TurnsOf(k)

LEMMA OwnersStay ==
  ASSUME UNCHANGED turns
  PROVE  SameOwners
BY DEF SameOwners, InFlight, TurnsOf

\* What TurnStarts does, for a slot n that was free.
Takes(n, who) ==
    /\ n \in Turns /\ n \notin InFlight
    /\ turns' = [turns EXCEPT ![n] = [of |-> who, aborted |-> FALSE]]

LEMMA StartTakes ==
  ASSUME NEW who, TurnStarts(who)
  PROVE  NewTurn \in Turns /\ NewTurn \notin InFlight /\ Takes(NewTurn, who)
<1>1. \E t \in Turns \ InFlight : TRUE
  BY DEF TurnStarts, InFlight
<1>2. NewTurn \in Turns \ InFlight
  BY <1>1 DEF NewTurn
<1> QED
  BY <1>2 DEF TurnStarts, Takes

LEMMA Taken ==
  ASSUME TypeInv, NEW n, NEW who \in LoopIds \cup {Client}, Takes(n, who)
  PROVE  /\ turns' \in [Turns -> Turn \cup {NoTurn}]
         /\ turns'[n] = [of |-> who, aborted |-> FALSE]
         /\ \A t \in Turns \ {n} : turns'[t] = turns[t]
         /\ InFlight' = InFlight \cup {n}
         /\ \A k \in LoopIds : TurnsOf(k)' = IF k = who THEN TurnsOf(k) \cup {n} ELSE TurnsOf(k)
<1> DEFINE turn == [of |-> who, aborted |-> FALSE]
<1>0. turn \in Turn /\ turn.of = who
  BY DEF Turn
<1>1. turn \in Turn /\ turn # NoTurn /\ turn.of = who
  BY <1>0, NoneAssumption
<1>2. /\ turns' = [turns EXCEPT ![n] = turn] /\ n \in Turns /\ n \notin InFlight
      /\ turns \in [Turns -> Turn \cup {NoTurn}]
  BY DEF Takes, TypeInv, AgentLoopTypeOK
<1> HIDE DEF turn
<1>3. /\ turns' \in [Turns -> Turn \cup {NoTurn}] /\ turns'[n] = turn
      /\ \A t \in Turns \ {n} : turns'[t] = turns[t]
  BY <1>1, <1>2
<1>4. InFlight' = InFlight \cup {n}
  BY <1>1, <1>2, <1>3 DEF InFlight
<1>5. ASSUME NEW k \in LoopIds
      PROVE  TurnsOf(k)' = IF k = who THEN TurnsOf(k) \cup {n} ELSE TurnsOf(k)
  <2>1. ASSUME NEW t
        PROVE  t \in TurnsOf(k)' <=> t \in TurnsOf(k) \/ (t = n /\ k = who)
    BY <1>1, <1>2, <1>3, <1>4 DEF TurnsOf, InFlight
  <2> QED
    BY <2>1
<1> QED
  BY <1>3, <1>4, <1>5 DEF turn

LEMMA Returned ==
  ASSUME TypeInv, NEW t \in InFlight, TurnReturns(t)
  PROVE  /\ turns' \in [Turns -> Turn \cup {NoTurn}]
         /\ \A u \in Turns \ {t} : turns'[u] = turns[u]
         /\ InFlight' = InFlight \ {t}
         /\ \A k \in LoopIds : TurnsOf(k)' = TurnsOf(k) \ {t}
<1>1. /\ turns' = [turns EXCEPT ![t] = NoTurn] /\ t \in Turns
      /\ turns \in [Turns -> Turn \cup {NoTurn}]
  BY DEF TurnReturns, InFlight, TypeInv, AgentLoopTypeOK
<1>2. /\ turns' \in [Turns -> Turn \cup {NoTurn}] /\ turns'[t] = NoTurn
      /\ \A u \in Turns \ {t} : turns'[u] = turns[u]
  BY <1>1
<1>3. InFlight' = InFlight \ {t}
  BY <1>1, <1>2 DEF InFlight
<1>4. ASSUME NEW k \in LoopIds
      PROVE  TurnsOf(k)' = TurnsOf(k) \ {t}
  <2>1. ASSUME NEW u
        PROVE  u \in TurnsOf(k)' <=> u \in TurnsOf(k) /\ u # t
    BY <1>2, <1>3 DEF TurnsOf, InFlight
  <2> QED
    BY <2>1
<1> QED
  BY <1>2, <1>3, <1>4

LEMMA Halted ==
  ASSUME TypeInv, NEW l \in LoopIds, turns' = Aborted(l)
  PROVE  /\ turns' \in [Turns -> Turn \cup {NoTurn}]
         /\ SameOwners
         /\ \A t \in Turns : t # aborts[l] => turns'[t] = turns[t]
         /\ aborts[l] # NoTurn => turns'[aborts[l]].aborted
<1>1. turns \in [Turns -> Turn \cup {NoTurn}] /\ NoTurn \notin Turns
  BY Constants DEF TypeInv, AgentLoopTypeOK
<1>2. \A t \in Turns : t # aborts[l] => turns'[t] = turns[t]
  BY DEF Aborted
<1>3. ASSUME aborts[l] # NoTurn
      PROVE  /\ aborts[l] \in Turns /\ turns[aborts[l]] \in Turn /\ turns[aborts[l]] # NoTurn
             /\ turns'[aborts[l]] \in Turn /\ turns'[aborts[l]] # NoTurn
             /\ turns'[aborts[l]].aborted
             /\ turns'[aborts[l]].of = turns[aborts[l]].of
  <2>1. aborts[l] \in Turns /\ turns[aborts[l]] \in Turn
    BY <1>1, <1>3 DEF TypeInv, RegInv, TurnsOf, InFlight
  <2>2. turns'[aborts[l]] = [turns[aborts[l]] EXCEPT !.aborted = TRUE]
    BY <2>1 DEF Aborted
  <2>3. \A turn \in Turn : /\ [turn EXCEPT !.aborted = TRUE] \in Turn
                           /\ [turn EXCEPT !.aborted = TRUE].aborted
                           /\ [turn EXCEPT !.aborted = TRUE].of = turn.of
    BY DEF Turn
  <2> QED
    BY <2>1, <2>2, <2>3, NoneAssumption
<1>4. turns' \in [Turns -> Turn \cup {NoTurn}]
  <2>1. turns' = [t \in Turns |-> turns'[t]]
    BY DEF Aborted
  <2>2. \A t \in Turns : turns'[t] \in Turn \cup {NoTurn}
    BY <1>1, <1>2, <1>3
  <2> QED
    BY <2>1, <2>2
<1>5. \A t \in Turns : /\ turns'[t] = NoTurn <=> turns[t] = NoTurn
                       /\ turns'[t].of = turns[t].of
  BY <1>1, <1>2, <1>3
<1>6. InFlight' = InFlight
  BY <1>5 DEF InFlight
<1>7. ASSUME NEW k \in LoopIds
      PROVE  TurnsOf(k)' = TurnsOf(k)
  BY <1>5, <1>6 DEF TurnsOf, InFlight
<1> QED
  BY <1>2, <1>3, <1>4, <1>6, <1>7 DEF SameOwners

-----------------------------------------------------------------------------
(* What the actions do to loops and timers, and to turns.                  *)

\* The table of loops changes at l, if at all, and the file follows or not.
Changes(l) ==
    /\ loops' \in [LoopIds -> Loop \cup {NoLoop}] /\ loopsFile' \in [LoopIds -> Loop \cup {NoLoop}]
    /\ \A k \in LoopIds \ {l} : loops'[k] = loops[k] /\ (k \in timers' <=> k \in timers)
    /\ loops'[l] # NoLoop
    /\ timers' \subseteq LoopIds
    /\ loopsFile' = loops' \/ loopsFile' = loopsFile

LEMMA SetChanges ==
  ASSUME TypeInv, NEW l \in LoopIds, NEW status \in LoopStatuses, NEW i \in Nat, NEW e \in Nat,
         SetLoop(l, status, i, e), SaveLoops, Schedule(l) \/ ClearTimer(l) \/ UNCHANGED timers
  PROVE  /\ Changes(l)
         /\ loops'[l].iteration = i
         /\ \A st \in LoopStatuses : Is(l, st)' <=> st = status
         /\ \A k \in LoopIds \ {l}, st \in LoopStatuses : Is(k, st)' <=> Is(k, st)
<1> DEFINE loop == [status |-> status, iteration |-> i, errors |-> e]
<1>0. loop \in Loop /\ loop.status = status /\ loop.iteration = i
  BY DEF Loop
<1>1. loop \in Loop /\ loop # NoLoop
  BY <1>0, NoneAssumption
<1>2. loops' = [loops EXCEPT ![l] = loop] /\ loops \in [LoopIds -> Loop \cup {NoLoop}]
  BY DEF SetLoop, TypeInv, AgentLoopTypeOK
<1> HIDE DEF loop
<1>3. /\ loops' \in [LoopIds -> Loop \cup {NoLoop}] /\ loops'[l] = loop
      /\ \A k \in LoopIds \ {l} : loops'[k] = loops[k]
  BY <1>1, <1>2
<1>4. loopsFile' = loops' \/ loopsFile' = loopsFile
  BY DEF SaveLoops
<1>5. Changes(l)
  BY <1>1, <1>3, <1>4 DEF Changes, Schedule, ClearTimer, TypeInv, AgentLoopTypeOK
<1>6. /\ \A st \in LoopStatuses : Is(l, st)' <=> st = status
      /\ \A k \in LoopIds \ {l}, st \in LoopStatuses : Is(k, st)' <=> Is(k, st)
  BY <1>0, <1>1, <1>3 DEF Is
<1> QED
  BY <1>0, <1>3, <1>5, <1>6

LEMMA Fields ==
  ASSUME TypeInv, NEW l \in LoopIds, loops[l] # NoLoop
  PROVE  loops[l].iteration \in Nat /\ loops[l].errors \in Nat /\ loops[l].status \in LoopStatuses
BY DEF TypeInv, AgentLoopTypeOK, Loop

\* The meter stays well typed; the bucket is of no later day than today.
MeterOK ==
    /\ today \in Nat /\ billed \in Nat /\ lost \in BOOLEAN
    /\ bucket \in [day: Nat, used: Nat] /\ spendFile \in [day: Nat, used: Nat]

LEMMA Recorded ==
  ASSUME TypeInv, NEW use \in 0 .. MaxUse, Record(use)
  PROVE  MeterOK' /\ UsedOf(bucket)' = UsedOf(bucket) + use /\ bucket'.day = today
<1>1. /\ bucket \in [day: Nat, used: Nat] /\ spendFile \in [day: Nat, used: Nat]
      /\ today \in Nat /\ billed \in Nat /\ lost \in BOOLEAN
  BY DEF TypeInv, AgentLoopTypeOK
<1>2. PICK used \in Nat : used = UsedOf(bucket)
  BY <1>1 DEF UsedOf
<1>3. use \in Nat
  BY Constants
<1>4. /\ bucket' = [day |-> today, used |-> used + use] /\ billed' = billed + use
      /\ UNCHANGED <<today, lost>>
      /\ spendFile' = bucket' \/ spendFile' = spendFile
  BY <1>2 DEF Record, SaveSpend
<1>5. bucket' \in [day: Nat, used: Nat] /\ bucket'.day = today /\ bucket'.used = used + use
  BY <1>1, <1>2, <1>3, <1>4
<1>6. today' \in Nat /\ billed' \in Nat /\ lost' \in BOOLEAN /\ spendFile' \in [day: Nat, used: Nat]
  BY <1>1, <1>3, <1>4, <1>5
<1>7. UsedOf(bucket)' = used + use
  BY <1>4, <1>5 DEF UsedOf
<1> QED
  BY <1>2, <1>5, <1>6, <1>7 DEF MeterOK

LEMMA NotRecorded ==
  ASSUME TypeInv, NotBilled
  PROVE  MeterOK'
BY DEF NotBilled, MeterOK, TypeInv, AgentLoopTypeOK

LEMMA BilledOrNot ==
  ASSUME TypeInv, NEW use \in 0 .. MaxUse, Bill(use)
  PROVE  MeterOK'
BY Recorded, NotRecorded DEF Bill

-----------------------------------------------------------------------------
(* Type correctness, and controllers.                                      *)

\* Steps that leave turns alone, up to marks, and change at most one loop.
LEMMA TypeKeeps ==
  ASSUME TypeInv, NEW l \in LoopIds, Changes(l) \/ UNCHANGED <<loops, loopsFile, timers>>,
         turns' \in [Turns -> Turn \cup {NoTurn}], SameOwners, gatewayUp, MeterOK',
         UNCHANGED <<gatewayUp, aborts, full, mishaps, together>>,
         overlapped' \subseteq LoopIds, revived' \subseteq LoopIds
  PROVE  TypeInv'
<1>1. AgentLoopTypeOK'
  BY DEF TypeInv, AgentLoopTypeOK, Changes, MeterOK
<1>2. RegInv' /\ DownInv'
  BY DEF TypeInv, RegInv, DownInv, SameOwners
<1> QED
  BY <1>1, <1>2 DEF TypeInv

LEMMA TypeStarts ==
  ASSUME TypeInv, NEW who \in LoopIds \cup {Client}, TurnStarts(who), gatewayUp,
         aborts' = IF who \in LoopIds THEN [aborts EXCEPT ![who] = NewTurn] ELSE aborts,
         timers' \subseteq LoopIds,
         UNCHANGED <<gatewayUp, loops, loopsFile, full, mishaps, overlapped, revived>>
  PROVE  TypeInv'
<1>1. PICK n : n = NewTurn
  OBVIOUS
<1>2. Takes(n, who) /\ n \in Turns /\ n \notin InFlight
  BY <1>1, StartTakes
<1>3. /\ turns' \in [Turns -> Turn \cup {NoTurn}] /\ InFlight' = InFlight \cup {n}
      /\ \A k \in LoopIds : TurnsOf(k)' = IF k = who THEN TurnsOf(k) \cup {n} ELSE TurnsOf(k)
  BY <1>2, Taken
<1>4. MeterOK'
  BY NotRecorded DEF TurnStarts
<1>5. together' \in Nat
  <2>1. InFlight \subseteq Turns
    BY DEF InFlight
  <2>2. Cardinality(InFlight) \in Nat
    BY <2>1, Constants, FS_Subset, FS_CardinalityType
  <2> QED
    BY <2>2 DEF TurnStarts, TypeInv, AgentLoopTypeOK
<1>6. aborts \in [LoopIds -> Turns \cup {NoTurn}]
  BY DEF TypeInv, AgentLoopTypeOK
<1>7. /\ aborts' \in [LoopIds -> Turns \cup {NoTurn}]
      /\ \A k \in LoopIds : aborts'[k] = IF k = who THEN n ELSE aborts[k]
  BY <1>1, <1>2, <1>6, Constants
<1>8. AgentLoopTypeOK'
  BY <1>3, <1>4, <1>5, <1>7 DEF TypeInv, AgentLoopTypeOK, MeterOK
<1>9. RegInv'
  BY <1>3, <1>7 DEF RegInv, TypeInv
<1> QED
  BY <1>8, <1>9 DEF TypeInv, DownInv

LEMMA TypeReturns ==
  ASSUME TypeInv, NEW t \in InFlight, TurnReturns(t), MeterOK',
         \/ turns[t].of = Client /\ UNCHANGED <<aborts, loops, loopsFile, timers>>
         \/ /\ turns[t].of \in LoopIds /\ aborts' = [aborts EXCEPT ![turns[t].of] = NoTurn]
            /\ Changes(turns[t].of) \/ UNCHANGED <<loops, loopsFile, timers>>,
         UNCHANGED <<gatewayUp, full, mishaps, together, revived>>
  PROVE  TypeInv'
<1>1. /\ turns' \in [Turns -> Turn \cup {NoTurn}] /\ InFlight' = InFlight \ {t}
      /\ \A k \in LoopIds : TurnsOf(k)' = TurnsOf(k) \ {t}
  BY Returned
<1>2. aborts \in [LoopIds -> Turns \cup {NoTurn}]
  BY DEF TypeInv, AgentLoopTypeOK
<1>3. /\ aborts' \in [LoopIds -> Turns \cup {NoTurn}]
      /\ \A k \in LoopIds : aborts'[k] = IF k = turns[t].of THEN NoTurn ELSE aborts[k]
  BY <1>2, Constants
<1>4. overlapped' \subseteq LoopIds
  BY DEF TurnReturns, TypeInv, AgentLoopTypeOK
<1>5. /\ loops' \in [LoopIds -> Loop \cup {NoLoop}] /\ loopsFile' \in [LoopIds -> Loop \cup {NoLoop}]
      /\ timers' \subseteq LoopIds
  BY DEF TypeInv, AgentLoopTypeOK, Changes
<1>6. AgentLoopTypeOK'
  BY <1>1, <1>3, <1>4, <1>5 DEF TypeInv, AgentLoopTypeOK, MeterOK
<1>7. ASSUME NEW k \in LoopIds, aborts'[k] # NoTurn
      PROVE  aborts'[k] \in TurnsOf(k)'
  <2>1. k # turns[t].of /\ aborts[k] # NoTurn /\ aborts'[k] = aborts[k]
    BY <1>3, <1>7
  <2>2. aborts[k] \in TurnsOf(k) /\ aborts[k] # t
    BY <2>1 DEF TypeInv, RegInv, TurnsOf
  <2> QED
    BY <1>1, <2>1, <2>2
<1>8. DownInv'
  BY DEF TypeInv, DownInv
<1> QED
  BY <1>6, <1>7, <1>8 DEF TypeInv, RegInv

-----------------------------------------------------------------------------
(* Ticks, turns and halts.                                                 *)

\* Nothing happens to a loop.
Same(k) ==
    /\ loops'[k] = loops[k] /\ aborts'[k] = aborts[k]
    /\ TurnsOf(k)' = TurnsOf(k) /\ \A t \in TurnsOf(k) : turns'[t] = turns[t]
    /\ k \in timers' <=> k \in timers
    /\ k \in overlapped' <=> k \in overlapped

LEMMA SameGood ==
  ASSUME NEW k \in LoopIds, Good(k), Same(k), gatewayUp
  PROVE  Good(k)'
<1>1. (Is(k, "running")' <=> Is(k, "running")) /\ (Is(k, "paused")' <=> Is(k, "paused"))
      /\ (Is(k, "stopped")' <=> Is(k, "stopped"))
  BY DEF Same, Is
<1>2. \A t \in TurnsOf(k)' : turns'[t] = turns[t] /\ t \in TurnsOf(k)
  BY DEF Same
<1>3. Lone(k) => Lone(k)'
  BY <1>1, <1>2 DEF Lone, Same
<1> QED
  BY <1>1, <1>3 DEF Good, Same

LEMMA GoodHalts ==
  ASSUME TypeInv, GoodInv, NEW l \in LoopIds, NEW status \in {"paused", "stopped"},
         loops[l] # NoLoop, gatewayUp, Halts(l, status)
  PROVE  GoodInv' /\ (revived' \subseteq LoopIds => TypeInv')
<1>1. /\ Changes(l) /\ loops'[l] # NoLoop /\ l \notin timers'
      /\ ~ Is(l, "running")'
  <2>1. status \in LoopStatuses /\ "running" \in LoopStatuses /\ status # "running"
    BY DEF LoopStatuses
  <2> QED
    BY <2>1, Fields, SetChanges DEF Halts, Changes, ClearTimer
<1>2. /\ turns' \in [Turns -> Turn \cup {NoTurn}] /\ SameOwners
      /\ \A t \in Turns : t # aborts[l] => turns'[t] = turns[t]
      /\ aborts[l] # NoTurn => turns'[aborts[l]].aborted
  BY Halted DEF Halts
<1>3. Good(l)'
  <2>1. ASSUME l \notin overlapped'
        PROVE  Lone(l)'
    <3>1. Lone(l) /\ aborts' = aborts /\ TurnsOf(l)' = TurnsOf(l)
      BY <1>2, <2>1 DEF Halts, GoodInv, Good, SameOwners
    <3>2. \A t \in TurnsOf(l) : t = aborts[l] /\ turns'[t].aborted
      BY <1>2, <3>1, Constants DEF Lone, TurnsOf, InFlight
    <3> QED
      BY <1>1, <3>1, <3>2 DEF Lone
  <2> QED
    BY <1>1, <2>1 DEF Good
<1>4. ASSUME NEW k \in LoopIds, k # l
      PROVE  Good(k)'
  <2>1. \A t \in TurnsOf(k) : t # aborts[l] /\ t \in Turns
    BY <1>4, Constants DEF TypeInv, RegInv, TurnsOf, InFlight
  <2>2. Same(k)
    BY <1>1, <1>2, <1>4, <2>1 DEF Same, Changes, SameOwners, Halts
  <2> QED
    BY <2>2, SameGood DEF GoodInv
<1>5. revived' \subseteq LoopIds => TypeInv'
  BY <1>1, <1>2, NotRecorded, TypeKeeps DEF Halts, TypeInv, AgentLoopTypeOK
<1> QED
  BY <1>3, <1>4, <1>5 DEF GoodInv

\* Steps that leave turns alone: l is created, resumed, finished or skipped.
LEMMA GoodKeeps ==
  ASSUME TypeInv, GoodInv, NEW l \in LoopIds, Changes(l) \/ UNCHANGED <<loops, timers, loopsFile>>,
         UNCHANGED <<gatewayUp, turns, aborts, full, mishaps, together, revived>>, NotBilled,
         gatewayUp, Good(l)', overlapped' \in {overlapped, overlapped \cup {l}}
  PROVE  GoodInv' /\ TypeInv'
<1>1. SameOwners
  BY OwnersStay
<1>2. ASSUME NEW k \in LoopIds, k # l
      PROVE  Good(k)'
  <2>1. Same(k)
    BY <1>1, <1>2 DEF Same, Changes, SameOwners
  <2> QED
    BY <2>1, SameGood DEF GoodInv
<1>3. TypeInv'
  BY <1>1, NotRecorded, TypeKeeps DEF TypeInv, AgentLoopTypeOK
<1> QED
  BY <1>2, <1>3 DEF GoodInv

LEMMA GoodStarts ==
  ASSUME TypeInv, GoodInv, NEW l \in LoopIds, TickStarts(l)
  PROVE  GoodInv' /\ TypeInv'
<1>1. PICK n : n = NewTurn
  OBVIOUS
<1>2. Takes(n, l) /\ n \in Turns /\ n \notin InFlight
  BY <1>1, StartTakes DEF TickStarts
<1>3. /\ \A t \in Turns \ {n} : turns'[t] = turns[t]
      /\ \A k \in LoopIds : TurnsOf(k)' = IF k = l THEN TurnsOf(k) \cup {n} ELSE TurnsOf(k)
  BY <1>2, Taken
<1>4. aborts' = [aborts EXCEPT ![l] = n] /\ aborts \in [LoopIds -> Turns \cup {NoTurn}]
  BY <1>1 DEF TickStarts, TypeInv, AgentLoopTypeOK
<1>5. l \in timers /\ Is(l, "running") /\ timers' = timers \ {l} /\ loops' = loops
      /\ UNCHANGED <<gatewayUp, overlapped>> /\ gatewayUp
  BY DEF TickStarts, Fires, ClearTimer
<1>6. Good(l)'
  <2>1. ~ Is(l, "paused")' /\ ~ Is(l, "stopped")' /\ loops'[l] # NoLoop
    BY <1>5 DEF Is
  <2>2. n \in TurnsOf(l)'
    BY <1>3
  <2>3. l \notin overlapped => TurnsOf(l)' = {n}
    BY <1>3, <1>5 DEF GoodInv, Good, Lone
  <2>4. l \notin timers' /\ aborts'[l] = n
    BY <1>4, <1>5
  <2> QED
    BY <1>5, <2>1, <2>2, <2>3, <2>4 DEF Good, Lone
<1>7. ASSUME NEW k \in LoopIds, k # l
      PROVE  Good(k)'
  <2>1. \A t \in TurnsOf(k) : t \in Turns \ {n}
    BY <1>2 DEF TurnsOf, InFlight
  <2>2. Same(k)
    BY <1>3, <1>4, <1>5, <1>7, <2>1 DEF Same
  <2> QED
    BY <1>5, <2>2, SameGood DEF GoodInv
<1>8. TypeInv'
  BY <1>5, TypeStarts DEF TickStarts, TypeInv, AgentLoopTypeOK
<1> QED
  BY <1>6, <1>7, <1>8 DEF GoodInv

LEMMA GoodReturns ==
  ASSUME TypeInv, GoodInv, NEW l \in LoopIds, NEW t, TickReturns(l, t), gatewayUp, MeterOK',
         Changes(l) \/ UNCHANGED <<loops, timers, loopsFile>>,
         Is(l, "running")' => l \in timers'
  PROVE  GoodInv' /\ TypeInv'
<1>1. t \in InFlight /\ turns[t].of = l /\ t \in TurnsOf(l) /\ TurnReturns(t)
  BY DEF TickReturns, TurnsOf
<1>2. /\ \A u \in Turns \ {t} : turns'[u] = turns[u]
      /\ \A k \in LoopIds : TurnsOf(k)' = TurnsOf(k) \ {t}
  BY <1>1, Returned
<1>3. aborts' = [aborts EXCEPT ![l] = NoTurn] /\ aborts \in [LoopIds -> Turns \cup {NoTurn}]
  BY DEF TickReturns, TypeInv, AgentLoopTypeOK
<1>4. overlapped' = IF TurnsOf(l) = {t} THEN overlapped \ {l} ELSE overlapped
  BY <1>1 DEF TurnReturns
<1>5. Good(l)'
  <2>1. loops[l] # NoLoop /\ loops'[l] # NoLoop
    BY <1>1 DEF GoodInv, Good, Changes
  <2>2. l \notin overlapped' => TurnsOf(l)' = {}
    BY <1>1, <1>2, <1>4 DEF GoodInv, Good, Lone
  <2>3. l \notin overlapped' => Lone(l)'
    BY <2>2 DEF Lone
  <2> QED
    BY <2>1, <2>3 DEF Good
<1>6. ASSUME NEW k \in LoopIds, k # l
      PROVE  Good(k)'
  <2>1. \A u \in TurnsOf(k) : u \in Turns \ {t}
    BY <1>1, <1>6 DEF TurnsOf, InFlight
  <2>2. t \notin TurnsOf(k)
    BY <1>1, <1>6 DEF TurnsOf
  <2>3. Same(k)
    BY <1>2, <1>3, <1>4, <1>6, <2>1, <2>2 DEF Same, Changes
  <2> QED
    BY <2>3, SameGood DEF GoodInv
<1>7. TypeInv'
  BY <1>1, <1>3, TypeReturns DEF TickReturns
<1> QED
  BY <1>5, <1>6, <1>7 DEF GoodInv

\* Turns of clients, and what happens to the gateway as a whole.
LEMMA GoodClient ==
  ASSUME TypeInv, GoodInv, ClientTurn \/ \E t \in Turns, use \in 0 .. MaxUse : ClientTurnEnds(t, use)
  PROVE  GoodInv' /\ TypeInv'
<1>1. CASE ClientTurn
  <2>1. PICK n : n = NewTurn
    OBVIOUS
  <2>2. Takes(n, Client) /\ n \in Turns /\ n \notin InFlight
    BY <1>1, <2>1, StartTakes DEF ClientTurn
  <2>3. /\ \A t \in Turns \ {n} : turns'[t] = turns[t]
        /\ \A k \in LoopIds : TurnsOf(k)' = TurnsOf(k)
    BY <2>2, Taken, Constants
  <2>4. ASSUME NEW k \in LoopIds
        PROVE  Good(k)'
    <3>1. \A t \in TurnsOf(k) : t \in Turns \ {n}
      BY <2>2 DEF TurnsOf, InFlight
    <3>2. Same(k)
      BY <1>1, <2>3, <3>1 DEF Same, ClientTurn
    <3> QED
      BY <1>1, <3>2, SameGood DEF GoodInv, ClientTurn
  <2>5. TypeInv'
    BY <1>1, TypeStarts, Constants DEF ClientTurn, TypeInv, AgentLoopTypeOK
  <2> QED
    BY <2>4, <2>5 DEF GoodInv
<1>2. ASSUME NEW t \in Turns, NEW use \in 0 .. MaxUse, ClientTurnEnds(t, use)
      PROVE  GoodInv' /\ TypeInv'
  <2>1. t \in InFlight /\ turns[t].of = Client /\ TurnReturns(t) /\ MeterOK' /\ gatewayUp
    BY <1>2, BilledOrNot DEF ClientTurnEnds, TurnsOf, TypeInv, DownInv
  <2>2. /\ \A u \in Turns \ {t} : turns'[u] = turns[u]
        /\ \A k \in LoopIds : TurnsOf(k)' = TurnsOf(k) \ {t}
    BY <2>1, Returned
  <2>3. ASSUME NEW k \in LoopIds
        PROVE  Good(k)'
    <3>1. t \notin TurnsOf(k) /\ k # Client
      BY <2>1, Constants DEF TurnsOf
    <3>2. \A u \in TurnsOf(k) : u \in Turns \ {t}
      BY <3>1 DEF TurnsOf, InFlight
    <3>3. k \in overlapped' <=> k \in overlapped
      BY <2>1, <3>1 DEF TurnReturns
    <3>4. Same(k)
      BY <1>2, <2>2, <3>1, <3>2, <3>3 DEF Same, ClientTurnEnds
    <3> QED
      BY <2>1, <3>4, SameGood DEF GoodInv
  <2>4. TypeInv'
    BY <1>2, <2>1, TypeReturns DEF ClientTurnEnds
  <2> QED
    BY <2>3, <2>4 DEF GoodInv
<1> QED
  BY <1>1, <1>2

LEMMA GoodRest ==
  ASSUME TypeInv, GoodInv,
         NewDay \/ DiskChanges \/ GatewayEnds \/ GatewayStart \/ UNCHANGED loopVars
  PROVE  GoodInv' /\ TypeInv'
<1>1. CASE NewDay \/ DiskChanges \/ UNCHANGED loopVars
  <2>1. UNCHANGED <<gatewayUp, loops, timers, turns, aborts, loopsFile, overlapped, revived, bucket,
                    spendFile>>
    BY <1>1 DEF NewDay, DiskChanges, loopVars
  <2>2. SameOwners
    BY <2>1, OwnersStay
  <2>3. ASSUME NEW k \in LoopIds
        PROVE  Good(k)'
    BY <2>1, <2>2 DEF GoodInv, Good, Lone, SameOwners, Is
  <2>4. Cardinality(InFlight) \in Nat
    <3>1. InFlight \subseteq Turns
      BY DEF InFlight
    <3> QED
      BY <3>1, Constants, FS_Subset, FS_CardinalityType
  <2>5. today' \in Nat /\ billed' \in Nat /\ together' \in Nat /\ mishaps' \in Nat
    BY <1>1, <2>4 DEF NewDay, DiskChanges, loopVars, TypeInv, AgentLoopTypeOK
  <2>7. lost' \in BOOLEAN /\ full' \in BOOLEAN
    <3>1. lost \in BOOLEAN /\ full \in BOOLEAN
      BY DEF TypeInv, AgentLoopTypeOK
    <3> QED
      BY <1>1, <3>1 DEF NewDay, DiskChanges, loopVars
  <2>6. TypeInv'
    BY <2>1, <2>2, <2>5, <2>7 DEF TypeInv, AgentLoopTypeOK, RegInv, DownInv, SameOwners
  <2> QED
    BY <2>3, <2>6 DEF GoodInv
<1>2. CASE GatewayEnds
  <2>1. /\ turns' = [t \in Turns |-> NoTurn] /\ aborts' = [l \in LoopIds |-> NoTurn]
        /\ gatewayUp' = FALSE /\ timers' = {} /\ overlapped' = {} /\ lost' \in BOOLEAN
        /\ mishaps' = mishaps + 1
        /\ UNCHANGED <<loops, bucket, loopsFile, spendFile, today, full, billed, together, revived>>
    BY <1>2 DEF GatewayEnds, TypeInv, AgentLoopTypeOK
  <2>2. InFlight' = {} /\ \A k \in LoopIds : TurnsOf(k)' = {}
    BY <2>1 DEF InFlight, TurnsOf
  <2>3. GoodInv'
    BY <2>1, <2>2 DEF GoodInv, Good, Lone
  <2>4. TypeInv'
    <3>1. turns' \in [Turns -> Turn \cup {NoTurn}] /\ aborts' \in [LoopIds -> Turns \cup {NoTurn}]
      BY <2>1
    <3>2. \A l \in LoopIds : aborts'[l] = NoTurn
      BY <2>1
    <3>3. /\ mishaps' \in Nat /\ timers' \subseteq LoopIds /\ overlapped' \subseteq LoopIds
          /\ gatewayUp' \in BOOLEAN
      <4>1. mishaps \in Nat
        BY DEF TypeInv, AgentLoopTypeOK
      <4>2. mishaps' = mishaps + 1 /\ timers' = {} /\ overlapped' = {}
        BY <2>1, Zenon
      <4>3. gatewayUp' \in BOOLEAN
        BY <2>1, Zenon
      <4> QED
        BY <4>1, <4>2, <4>3
    <3>4. lost' \in BOOLEAN
      BY <2>1
    <3>5. AgentLoopTypeOK'
      BY <2>1, <3>1, <3>3, <3>4, Zenon DEF TypeInv, AgentLoopTypeOK
    <3> QED
      BY <2>1, <2>2, <3>2, <3>5 DEF TypeInv, RegInv, DownInv
  <2> QED
    BY <2>3, <2>4
<1>3. CASE GatewayStart
  <2>1. /\ ~ gatewayUp /\ gatewayUp' = TRUE /\ loops' = loopsFile /\ bucket' = spendFile
        /\ timers' = {l \in LoopIds : loopsFile[l] # NoLoop /\ loopsFile[l].status = "running"}
        /\ UNCHANGED <<turns, aborts, loopsFile, spendFile, today, full, mishaps, billed, together,
                       lost, overlapped, revived>>
    BY <1>3 DEF GatewayStart
  <2>2. InFlight = {} /\ SameOwners
    BY <2>1, OwnersStay DEF TypeInv, DownInv
  <2>3. \A k \in LoopIds : TurnsOf(k)' = {}
    BY <2>2 DEF SameOwners, TurnsOf
  <2>4. ASSUME NEW k \in LoopIds
        PROVE  Good(k)'
    <3>1. Is(k, "running")' => k \in timers'
      BY <2>1 DEF Is
    <3> QED
      BY <2>3, <3>1 DEF Good, Lone
  <2>5. TypeInv'
    BY <2>1, <2>2 DEF TypeInv, AgentLoopTypeOK, RegInv, DownInv, SameOwners
  <2> QED
    BY <2>4, <2>5 DEF GoodInv
<1> QED
  BY <1>1, <1>2, <1>3

\* What the steps of one loop are, for every invariant.
LEMMA LoopSteps ==
  ASSUME TypeInv, NEW l \in LoopIds
  PROVE  /\ CreateLoop(l) => /\ Changes(l) /\ Is(l, "running")' /\ l \in timers'
                             /\ loops'[l].iteration = 0
         /\ ResumeLoop(l) => /\ Changes(l) /\ Is(l, "running")' /\ l \in timers'
                             /\ loops'[l].iteration = loops[l].iteration
         /\ TickFinishes(l) => /\ Changes(l) /\ Is(l, "completed")' /\ l \notin timers'
                               /\ loops'[l].iteration = loops[l].iteration
<1>1. "running" \in LoopStatuses /\ "completed" \in LoopStatuses /\ 0 \in Nat
  BY DEF LoopStatuses
<1>2. ASSUME CreateLoop(l)
      PROVE  /\ Changes(l) /\ Is(l, "running")' /\ l \in timers' /\ loops'[l].iteration = 0
  BY <1>1, <1>2, SetChanges DEF CreateLoop, Schedule
<1>3. ASSUME ResumeLoop(l)
      PROVE  /\ Changes(l) /\ Is(l, "running")' /\ l \in timers'
             /\ loops'[l].iteration = loops[l].iteration
  <2>1. loops[l] # NoLoop
    BY <1>3 DEF ResumeLoop, Is
  <2> QED
    BY <1>1, <1>3, <2>1, Fields, SetChanges DEF ResumeLoop, Schedule
<1>4. ASSUME TickFinishes(l)
      PROVE  /\ Changes(l) /\ Is(l, "completed")' /\ l \notin timers'
             /\ loops'[l].iteration = loops[l].iteration
  <2>1. loops[l] # NoLoop
    BY <1>4 DEF TickFinishes, Fires, Is
  <2> QED
    BY <1>1, <1>4, <2>1, Fields, SetChanges DEF TickFinishes, ClearTimer
<1> QED
  BY <1>2, <1>3, <1>4

\* A tick that returns, whatever its turn came to.
TickEnds(l, t) ==
    \/ TickIgnores(l, t) \/ TickFails(l, t)
    \/ \E use \in 0 .. MaxUse, met \in BOOLEAN : TickSucceeds(l, t, use, met)

LEMMA TickEffects ==
  ASSUME TypeInv, NEW l \in LoopIds, NEW t, TickEnds(l, t)
  PROVE  /\ TickReturns(l, t) /\ gatewayUp /\ MeterOK'
         /\ Is(l, "running")' => l \in timers'
         /\ \/ UNCHANGED <<loops, timers, loopsFile>>
            \/ /\ Changes(l) /\ Is(l, "running")
               /\ \/ loops'[l].iteration = loops[l].iteration
                  \/ /\ loops'[l].iteration = loops[l].iteration + 1
                     /\ Is(l, "running")' => loops'[l].iteration < MaxIterations
                     /\ ~ Is(l, "paused")'
<1>1. gatewayUp
  BY DEF TickEnds, TickIgnores, TickFails, TickSucceeds, TickReturns, TurnsOf, InFlight, TypeInv, DownInv
<1>2. {"running", "paused", "completed"} \subseteq LoopStatuses
  BY DEF LoopStatuses
<1>3. CASE TickIgnores(l, t)
  BY <1>1, <1>3, NotRecorded DEF TickIgnores, Is
<1>4. ASSUME TickFails(l, t)
      PROVE  /\ TickReturns(l, t) /\ MeterOK' /\ Changes(l) /\ Is(l, "running")
             /\ Is(l, "running")' => l \in timers'
             /\ loops'[l].iteration = loops[l].iteration
  <2>1. Is(l, "running") /\ TickReturns(l, t) /\ NotBilled /\ SaveLoops
    BY <1>4 DEF TickFails
  <2>2. loops[l].iteration \in Nat /\ loops[l].errors + 1 \in Nat
    BY <2>1, Fields DEF Is
  <2>3. CASE loops[l].errors + 1 >= MaxErrors
    <3>1. SetLoop(l, "paused", loops[l].iteration, loops[l].errors + 1) /\ ClearTimer(l)
      BY <1>4, <2>3, Zenon DEF TickFails
    <3>2. Changes(l) /\ loops'[l].iteration = loops[l].iteration /\ ~ Is(l, "running")'
      BY <1>2, <2>1, <2>2, <3>1, SetChanges
    <3> QED
      BY <2>1, <3>2, NotRecorded
  <2>4. CASE ~ (loops[l].errors + 1 >= MaxErrors)
    <3>1. SetLoop(l, "running", loops[l].iteration, loops[l].errors + 1) /\ Schedule(l)
      BY <1>4, <2>4, Zenon DEF TickFails
    <3>2. Changes(l) /\ loops'[l].iteration = loops[l].iteration
      BY <1>2, <2>1, <2>2, <3>1, SetChanges
    <3> QED
      BY <2>1, <3>1, <3>2, NotRecorded DEF Schedule
  <2> QED
    BY <2>3, <2>4
<1>5. ASSUME NEW use \in 0 .. MaxUse, NEW met \in BOOLEAN, TickSucceeds(l, t, use, met)
      PROVE  /\ TickReturns(l, t) /\ MeterOK' /\ Changes(l) /\ Is(l, "running")
             /\ Is(l, "running")' => l \in timers' /\ loops'[l].iteration < MaxIterations
             /\ ~ Is(l, "paused")' /\ loops'[l].iteration = loops[l].iteration + 1
  <2>1. Is(l, "running") /\ TickReturns(l, t) /\ Bill(use) /\ SaveLoops
    BY <1>5 DEF TickSucceeds
  <2>2. loops[l].iteration + 1 \in Nat /\ 0 \in Nat /\ MeterOK'
    BY <2>1, Fields, BilledOrNot DEF Is
  <2>3. CASE met \/ loops[l].iteration + 1 >= MaxIterations
    <3>1. SetLoop(l, "completed", loops[l].iteration + 1, 0) /\ ClearTimer(l)
      BY <1>5, <2>3, Zenon DEF TickSucceeds
    <3>2. /\ Changes(l) /\ loops'[l].iteration = loops[l].iteration + 1
          /\ ~ Is(l, "running")' /\ ~ Is(l, "paused")'
      BY <1>2, <2>1, <2>2, <3>1, SetChanges
    <3> QED
      BY <2>1, <2>2, <3>2
  <2>4. CASE ~ (met \/ loops[l].iteration + 1 >= MaxIterations)
    <3>1. SetLoop(l, "running", loops[l].iteration + 1, 0) /\ Schedule(l)
      BY <1>5, <2>4, Zenon DEF TickSucceeds
    <3>2. Changes(l) /\ loops'[l].iteration = loops[l].iteration + 1 /\ ~ Is(l, "paused")'
      BY <1>2, <2>1, <2>2, <3>1, SetChanges
    <3>3. loops[l].iteration + 1 < MaxIterations
      BY <2>2, <2>4, Constants
    <3> QED
      BY <2>1, <2>2, <3>1, <3>2, <3>3 DEF Schedule
  <2> QED
    BY <2>3, <2>4
<1> QED
  BY <1>1, <1>3, <1>4, <1>5 DEF TickEnds

LEMMA GoodStep ==
  TypeInv /\ GoodInv /\ [AgentLoopNext]_loopVars => TypeInv' /\ GoodInv'
<1> SUFFICES ASSUME TypeInv, GoodInv, [AgentLoopNext]_loopVars
             PROVE  TypeInv' /\ GoodInv'
  OBVIOUS
<1>0. overlapped \subseteq LoopIds /\ revived \subseteq LoopIds
  BY DEF TypeInv, AgentLoopTypeOK
<1>1. ASSUME NEW l \in LoopIds, CreateLoop(l)
      PROVE  TypeInv' /\ GoodInv'
  <2>1. TurnsOf(l)' = {} /\ Changes(l) /\ Is(l, "running")' /\ l \in timers' /\ gatewayUp
    BY <1>1, LoopSteps, OwnersStay DEF CreateLoop, GoodInv, Good, SameOwners
  <2>2. Good(l)'
    BY <2>1 DEF Good, Lone, Is
  <2> QED
    BY <1>1, <2>1, <2>2, GoodKeeps DEF CreateLoop
<1>2. ASSUME NEW l \in LoopIds, StopLoop(l) \/ PauseLoop(l) \/ TickPauses(l)
      PROVE  TypeInv' /\ GoodInv'
  <2>1. /\ Halts(l, "stopped") \/ Halts(l, "paused")
        /\ gatewayUp /\ loops[l] # NoLoop /\ revived' \subseteq LoopIds
    BY <1>0, <1>2 DEF StopLoop, PauseLoop, TickPauses, Fires, Is
  <2> QED
    BY <2>1, GoodHalts
<1>3. ASSUME NEW l \in LoopIds, ResumeLoop(l)
      PROVE  TypeInv' /\ GoodInv'
  <2>1. /\ TurnsOf(l)' = TurnsOf(l) /\ Changes(l) /\ Is(l, "running")' /\ l \in timers' /\ gatewayUp
    BY <1>3, LoopSteps, OwnersStay DEF ResumeLoop, SameOwners
  <2>2. overlapped' = IF TurnsOf(l) # {} THEN overlapped \cup {l} ELSE overlapped
    BY <1>3 DEF ResumeLoop
  <2>3. Good(l)'
    BY <2>1, <2>2 DEF Good, Lone, Is
  <2> QED
    BY <1>3, <2>1, <2>2, <2>3, GoodKeeps DEF ResumeLoop
<1>4. ASSUME NEW l \in LoopIds, TickFinishes(l)
      PROVE  TypeInv' /\ GoodInv'
  <2>1. /\ TurnsOf(l)' = TurnsOf(l) /\ Changes(l) /\ Is(l, "completed")' /\ l \notin timers' /\ gatewayUp
        /\ UNCHANGED <<aborts, overlapped>>
    BY <1>4, LoopSteps, OwnersStay DEF TickFinishes, Fires, SameOwners
  <2>2. Good(l)'
    BY <2>1 DEF GoodInv, Good, Lone, Is
  <2> QED
    BY <1>4, <2>1, <2>2, GoodKeeps DEF TickFinishes
<1>5. ASSUME NEW l \in LoopIds, TickSkips(l)
      PROVE  TypeInv' /\ GoodInv'
  <2>1. /\ UNCHANGED <<gatewayUp, loops, timers, turns, aborts, overlapped, full, mishaps, together,
                       revived>>
        /\ gatewayUp /\ NotBilled /\ Is(l, "running")
        /\ loopsFile' = loops' \/ loopsFile' = loopsFile
    BY <1>5 DEF TickSkips, Fires, SaveLoops
  <2>2. Good(l)'
    BY <2>1, OwnersStay DEF GoodInv, Good, Lone, Is, SameOwners
  <2>3. Changes(l)
    BY <2>1 DEF Changes, Is, TypeInv, AgentLoopTypeOK
  <2> QED
    BY <2>1, <2>2, <2>3, GoodKeeps
<1>6. ASSUME NEW l \in LoopIds, TickStarts(l)
      PROVE  TypeInv' /\ GoodInv'
  BY <1>6, GoodStarts
<1>7. ASSUME NEW l \in LoopIds, NEW t \in Turns, TickEnds(l, t)
      PROVE  TypeInv' /\ GoodInv'
  BY <1>7, TickEffects, GoodReturns
<1>8. CASE ClientTurn \/ \E t \in Turns, use \in 0 .. MaxUse : ClientTurnEnds(t, use)
  BY <1>8, GoodClient
<1>9. CASE NewDay \/ DiskChanges \/ GatewayEnds \/ GatewayStart \/ UNCHANGED loopVars
  BY <1>9, GoodRest
<1> QED
  BY <1>1, <1>2, <1>3, <1>4, <1>5, <1>6, <1>7, <1>8, <1>9 DEF AgentLoopNext, TickEnds

-----------------------------------------------------------------------------
(* The cap on iterations.                                                  *)

LEMMA CapKeeps ==
  ASSUME CapInv, NEW l \in LoopIds, Changes(l), revived \subseteq revived',
         l \notin revived' => Capped(loops'[l])
  PROVE  CapInv'
<1>1. ASSUME NEW k \in LoopIds \ revived'
      PROVE  Capped(loops'[k]) /\ Capped(loopsFile'[k])
  BY <1>1 DEF CapInv, Changes
<1> QED
  BY <1>1 DEF CapInv

LEMMA HaltSteps ==
  ASSUME TypeInv, NEW l \in LoopIds, NEW status \in {"paused", "stopped"}, loops[l] # NoLoop,
         Halts(l, status)
  PROVE  Changes(l) /\ loops'[l].iteration = loops[l].iteration /\ Is(l, status)'
<1>1. status \in LoopStatuses
  BY DEF LoopStatuses
<1> QED
  BY <1>1, Fields, SetChanges DEF Halts

LEMMA CapStep ==
  TypeInv /\ CapInv /\ [AgentLoopNext]_loopVars => CapInv'
<1> SUFFICES ASSUME TypeInv, CapInv, [AgentLoopNext]_loopVars
             PROVE  CapInv'
  OBVIOUS
<1>0. ASSUME NEW l \in LoopIds, l \notin revived, loops[l] # NoLoop
      PROVE  /\ loops[l].iteration <= MaxIterations
             /\ Is(l, "running") \/ Is(l, "paused") => loops[l].iteration < MaxIterations
  BY <1>0 DEF CapInv, Capped, Is
<1>1. ASSUME NEW l \in LoopIds, CreateLoop(l)
      PROVE  CapInv'
  BY <1>1, LoopSteps, CapKeeps, Constants DEF CreateLoop, Capped
<1>2. ASSUME NEW l \in LoopIds, StopLoop(l) \/ PauseLoop(l) \/ TickPauses(l)
      PROVE  CapInv'
  <2>1. loops[l] # NoLoop
    BY <1>2 DEF StopLoop, PauseLoop, TickPauses, Fires, Is
  <2>2. CASE Halts(l, "stopped") /\ revived' = revived
    <3>1. Changes(l) /\ loops'[l].iteration = loops[l].iteration /\ loops'[l].status = "stopped"
      BY <2>1, <2>2, HaltSteps DEF Is
    <3> QED
      BY <1>0, <2>1, <2>2, <3>1, CapKeeps DEF Capped
  <2>3. CASE /\ Halts(l, "paused") /\ revived \subseteq revived'
             /\ Is(l, "running") \/ Is(l, "paused") \/ l \in revived'
    <3>1. Changes(l) /\ loops'[l].iteration = loops[l].iteration
      BY <2>1, <2>3, HaltSteps
    <3>2. l \notin revived' => loops[l].iteration < MaxIterations /\ loops[l].iteration <= MaxIterations
      BY <1>0, <2>1, <2>3
    <3> QED
      BY <2>3, <3>1, <3>2, CapKeeps DEF Capped
  <2>4. Is(l, "running") \/ Is(l, "paused") \/ Is(l, "completed") \/ Is(l, "stopped")
    BY <2>1, Fields DEF Is, LoopStatuses
  <2> QED
    BY <1>2, <2>2, <2>3, <2>4 DEF StopLoop, PauseLoop, TickPauses, Fires
<1>3. ASSUME NEW l \in LoopIds, ResumeLoop(l) \/ TickFinishes(l)
      PROVE  CapInv'
  <2>1. /\ Changes(l) /\ loops'[l].iteration = loops[l].iteration /\ revived' = revived
        /\ loops[l] # NoLoop
        /\ Is(l, "running") \/ Is(l, "paused")
    BY <1>3, LoopSteps DEF ResumeLoop, TickFinishes, Fires, Is
  <2> QED
    BY <1>0, <2>1, CapKeeps DEF Capped
<1>4. ASSUME NEW l \in LoopIds, TickSkips(l)
      PROVE  CapInv'
  BY <1>4 DEF TickSkips, SaveLoops, CapInv
<1>5. ASSUME NEW l \in LoopIds, TickStarts(l)
      PROVE  CapInv'
  BY <1>5 DEF TickStarts, CapInv
<1>6. ASSUME NEW l \in LoopIds, NEW t \in Turns, TickEnds(l, t)
      PROVE  CapInv'
  <2>1. revived' = revived
    BY <1>6, TickEffects DEF TickReturns
  <2>2. CASE UNCHANGED <<loops, timers, loopsFile>>
    BY <2>1, <2>2 DEF CapInv
  <2>3. CASE /\ Changes(l) /\ Is(l, "running")
             /\ \/ loops'[l].iteration = loops[l].iteration
                \/ /\ loops'[l].iteration = loops[l].iteration + 1
                   /\ Is(l, "running")' => loops'[l].iteration < MaxIterations
                   /\ ~ Is(l, "paused")'
    <3>1. loops[l] # NoLoop /\ loops[l].iteration \in Nat
      BY <2>3, Fields DEF Is
    <3>2. l \notin revived => loops'[l].iteration <= MaxIterations
      BY <1>0, <2>3, <3>1, Constants
    <3>3. l \notin revived /\ (Is(l, "running")' \/ Is(l, "paused")') => loops'[l].iteration < MaxIterations
      BY <1>0, <2>3, <3>1
    <3> QED
      BY <2>1, <2>3, <3>2, <3>3, CapKeeps DEF Capped, Is
  <2> QED
    BY <1>6, <2>2, <2>3, TickEffects
<1>7. CASE ClientTurn \/ \E t \in Turns, use \in 0 .. MaxUse : ClientTurnEnds(t, use)
  BY <1>7 DEF ClientTurn, ClientTurnEnds, CapInv
<1>8. CASE NewDay \/ DiskChanges \/ GatewayEnds \/ GatewayStart \/ UNCHANGED loopVars
  BY <1>8 DEF NewDay, DiskChanges, GatewayEnds, GatewayStart, loopVars, CapInv
<1> QED
  BY <1>1, <1>2, <1>3, <1>4, <1>5, <1>6, <1>7, <1>8 DEF AgentLoopNext, TickEnds

-----------------------------------------------------------------------------
(* The budget.                                                             *)

LEMMA Products ==
  ASSUME NEW a \in Nat, NEW b \in Nat, NEW c \in Nat
  PROVE  /\ a * b \in Nat /\ a * (b + 1) = a * b + a
         /\ c <= b => a * c <= a * b
<1>1. ASSUME c <= b
      PROVE  a * c <= a * b
  <2>1. PICK d \in Nat : b = c + d
    BY <1>1, b = c + (b - c)
  <2>2. a * b = a * c + a * d /\ a * d \in Nat /\ a * c \in Nat
    BY <2>1
  <2> QED
    BY <2>2
<1> QED
  BY <1>1

LEMMA Flights ==
  ASSUME TypeInv
  PROVE  /\ IsFiniteSet(InFlight) /\ Cardinality(InFlight) \in Nat
         /\ together \in Nat /\ billed \in Nat /\ today \in Nat
<1>1. InFlight \subseteq Turns
  BY DEF InFlight
<1>2. IsFiniteSet(InFlight) /\ Cardinality(InFlight) \in Nat
  BY <1>1, Constants, FS_Subset, FS_CardinalityType
<1> QED
  BY <1>2 DEF TypeInv, AgentLoopTypeOK

\* Nothing is billed, and no turn starts.
LEMMA SpendKeeps ==
  ASSUME TypeInv, SpendInv, gatewayUp, UNCHANGED <<gatewayUp, together>>, NotBilled,
         Cardinality(InFlight') <= Cardinality(InFlight)
  PROVE  SpendInv'
<1>1. PICK f, g : f = Cardinality(InFlight) /\ g = Cardinality(InFlight')
  OBVIOUS
<1>2. f \in Nat /\ g \in Nat /\ g <= f /\ Cardinality(InFlight)' = g
  <2>1. InFlight' \subseteq Turns
    BY DEF InFlight
  <2>2. g \in Nat
    BY <1>1, <2>1, Constants, FS_Subset, FS_CardinalityType
  <2> QED
    BY <1>1, <2>2, Flights
<1>3. /\ MaxUse * g <= MaxUse * f /\ MaxUse * g \in Nat /\ MaxUse * f \in Nat
      /\ MaxUse * together \in Nat
  BY <1>2, Products, Constants, Flights
<1>4. UsedOf(bucket)' = UsedOf(bucket)
  BY DEF UsedOf, NotBilled
<1>5. /\ f <= together /\ bucket.day <= today /\ spendFile.day <= today
      /\ lost \/ billed = UsedOf(bucket)
      /\ lost \/ billed + MaxUse * f < DailyCap + MaxUse * together
  BY <1>1 DEF SpendInv
<1>6. lost \/ billed + MaxUse * g < DailyCap + MaxUse * together
  BY <1>3, <1>5, Constants, Flights
<1>7. g <= together
  BY <1>2, <1>5, Flights
<1> QED
  BY <1>2, <1>4, <1>5, <1>6, <1>7 DEF SpendInv, NotBilled

LEMMA SpendStarts ==
  ASSUME TypeInv, SpendInv, NEW who \in LoopIds \cup {Client}, TurnStarts(who), Allowed,
         gatewayUp, UNCHANGED gatewayUp
  PROVE  SpendInv'
<1>1. PICK n : n = NewTurn
  OBVIOUS
<1>2. Takes(n, who) /\ n \notin InFlight
  BY <1>1, StartTakes
<1>3. InFlight' = InFlight \cup {n}
  BY <1>2, Taken
<1>4. PICK f : f = Cardinality(InFlight)
  OBVIOUS
<1>5. f \in Nat /\ Cardinality(InFlight)' = f + 1
  BY <1>2, <1>3, <1>4, Flights, FS_AddElement
<1>6. together' = IF f + 1 > together THEN f + 1 ELSE together
  BY <1>4 DEF TurnStarts
<1>7. together' \in Nat /\ f + 1 <= together'
  <2>1. together \in Nat
    BY Flights
  <2> QED
    BY <1>5, <1>6, <2>1
<1>8. /\ MaxUse * (f + 1) <= MaxUse * together' /\ MaxUse * (f + 1) \in Nat
      /\ MaxUse * together' \in Nat
  <2>1. PICK p \in Nat : p = together'
    BY <1>7
  <2>2. PICK q \in Nat : q = f + 1
    BY <1>5
  <2>3. MaxUse * q <= MaxUse * p /\ MaxUse * q \in Nat /\ MaxUse * p \in Nat
    BY <1>7, <2>1, <2>2, Products, Constants
  <2> QED
    BY <2>1, <2>2, <2>3
<1>9. /\ UNCHANGED <<bucket, spendFile, billed, today, lost>> /\ UsedOf(bucket)' = UsedOf(bucket)
  BY DEF TurnStarts, NotBilled, UsedOf
<1>10. /\ bucket.day <= today /\ spendFile.day <= today
       /\ lost \/ billed = UsedOf(bucket)
  BY DEF SpendInv
<1>11. lost \/ billed < DailyCap
  BY <1>10 DEF Allowed
<1>12. lost \/ billed + MaxUse * (f + 1) < DailyCap + MaxUse * together'
  BY <1>8, <1>11, Constants, Flights
<1> QED
  BY <1>5, <1>7, <1>9, <1>10, <1>12 DEF SpendInv

LEMMA SpendRecords ==
  ASSUME TypeInv, SpendInv, NEW t \in InFlight, TurnReturns(t), NEW use \in 0 .. MaxUse,
         Record(use), gatewayUp, UNCHANGED <<gatewayUp, together>>
  PROVE  SpendInv'
<1>1. InFlight' = InFlight \ {t}
  BY Returned
<1>2. PICK f : f = Cardinality(InFlight)
  OBVIOUS
<1>3. PICK g : g = Cardinality(InFlight')
  OBVIOUS
<1>4. f \in Nat /\ g \in Nat /\ f = g + 1 /\ Cardinality(InFlight)' = g
  <2>1. g = f - 1 /\ IsFiniteSet(InFlight')
    BY <1>1, <1>2, <1>3, Flights, FS_RemoveElement
  <2>2. g \in Nat /\ f \in Nat
    BY <2>1, <1>2, <1>3, Flights, FS_CardinalityType
  <2> QED
    BY <1>3, <2>1, <2>2
<1>5. MaxUse * f = MaxUse * g + MaxUse /\ MaxUse * g \in Nat /\ MaxUse * together \in Nat
  BY <1>4, Products, Constants, Flights
<1>6. UsedOf(bucket)' = UsedOf(bucket) + use /\ bucket'.day = today /\ use \in Nat /\ use <= MaxUse
  BY Recorded, Constants
<1>7. /\ billed' = billed + use /\ UNCHANGED <<today, lost>>
      /\ spendFile' = bucket' \/ spendFile' = spendFile
  BY DEF Record, SaveSpend
<1>8. /\ f <= together /\ bucket.day <= today /\ spendFile.day <= today
      /\ lost \/ billed = UsedOf(bucket)
      /\ lost \/ billed + MaxUse * f < DailyCap + MaxUse * together
  BY <1>2 DEF SpendInv
<1>9. lost \/ billed' + MaxUse * g < DailyCap + MaxUse * together
  BY <1>5, <1>6, <1>7, <1>8, Constants, Flights
<1>10. g <= together /\ bucket'.day <= today /\ spendFile'.day <= today
  BY <1>4, <1>6, <1>7, <1>8, Flights
<1> QED
  BY <1>4, <1>6, <1>7, <1>8, <1>9, <1>10 DEF SpendInv

LEMMA SpendBills ==
  ASSUME TypeInv, SpendInv, NEW t \in InFlight, TurnReturns(t), NEW use \in 0 .. MaxUse,
         Bill(use), UNCHANGED <<gatewayUp, together>>
  PROVE  SpendInv'
<1>1. gatewayUp
  BY DEF TypeInv, DownInv
<1>2. Cardinality(InFlight') <= Cardinality(InFlight)
  <2>1. InFlight' = InFlight \ {t}
    BY Returned
  <2> QED
    BY <2>1, Flights, FS_Subset
<1> QED
  BY <1>1, <1>2, SpendRecords, SpendKeeps DEF Bill

LEMMA SpendRest ==
  ASSUME TypeInv, SpendInv,
         NewDay \/ DiskChanges \/ GatewayEnds \/ GatewayStart \/ UNCHANGED loopVars
  PROVE  SpendInv'
<1>1. PICK f : f = Cardinality(InFlight)
  OBVIOUS
<1>2. /\ f \in Nat /\ MaxUse * f \in Nat /\ MaxUse * together \in Nat /\ MaxUse * 0 = 0
      /\ together \in Nat /\ billed \in Nat /\ today \in Nat
  BY <1>1, Flights, Products, Constants
<1>3. /\ f <= together /\ bucket.day <= today /\ spendFile.day <= today
      /\ lost \/ billed = UsedOf(bucket)
      /\ gatewayUp \/ lost \/ UsedOf(spendFile) = UsedOf(bucket)
      /\ lost \/ billed + MaxUse * f < DailyCap + MaxUse * together
  BY <1>1 DEF SpendInv
<1>4. bucket.day \in Nat /\ spendFile.day \in Nat
  BY DEF TypeInv, AgentLoopTypeOK
<1>5. CASE NewDay
  <2>1. /\ today' = today + 1 /\ billed' = 0 /\ together' = f
        /\ UNCHANGED <<gatewayUp, turns, bucket, spendFile>>
    BY <1>1, <1>5 DEF NewDay
  <2>2. Cardinality(InFlight)' = f
    BY <1>1, <2>1 DEF InFlight
  <2>3. UsedOf(bucket)' = 0 /\ UsedOf(spendFile)' = 0 /\ bucket'.day <= today' /\ spendFile'.day <= today'
    BY <1>2, <1>3, <1>4, <2>1 DEF UsedOf
  <2>4. 0 + MaxUse * f < DailyCap + MaxUse * f /\ f <= f
    BY <1>2, Constants
  <2> QED
    BY <2>1, <2>2, <2>3, <2>4 DEF SpendInv
<1>6. CASE DiskChanges \/ UNCHANGED loopVars
  <2>1. UNCHANGED <<today, billed, together, gatewayUp, turns, bucket, spendFile, lost>>
    BY <1>6 DEF DiskChanges, loopVars
  <2>2. InFlight' = InFlight /\ UsedOf(bucket)' = UsedOf(bucket) /\ UsedOf(spendFile)' = UsedOf(spendFile)
    BY <2>1 DEF InFlight, UsedOf
  <2> QED
    BY <2>1, <2>2 DEF SpendInv
<1>7. CASE GatewayEnds
  <2>1. /\ turns' = [t \in Turns |-> NoTurn]
        /\ lost' = (lost \/ UsedOf(spendFile) # UsedOf(bucket))
        /\ UNCHANGED <<today, billed, together, bucket, spendFile>>
    BY <1>7 DEF GatewayEnds
  <2>2. InFlight' = {}
    BY <2>1 DEF InFlight
  <2>3. Cardinality(InFlight)' = 0
    BY <2>2, FS_EmptySet
  <2>4. UsedOf(bucket)' = UsedOf(bucket) /\ UsedOf(spendFile)' = UsedOf(spendFile)
    BY <2>1 DEF UsedOf
  <2>5. ~ lost' => ~ lost /\ UsedOf(spendFile) = UsedOf(bucket)
    BY <2>1
  <2>6. 0 <= together /\ (lost' \/ billed + MaxUse * 0 < DailyCap + MaxUse * together)
    BY <1>2, <1>3, <2>5, Constants
  <2> QED
    BY <1>3, <2>1, <2>3, <2>4, <2>5, <2>6 DEF SpendInv
<1>8. CASE GatewayStart
  <2>1. /\ ~ gatewayUp /\ gatewayUp' = TRUE /\ bucket' = spendFile
        /\ UNCHANGED <<turns, spendFile, today, billed, together, lost>>
    BY <1>8 DEF GatewayStart
  <2>2. InFlight' = InFlight /\ UsedOf(bucket)' = UsedOf(spendFile)
    BY <2>1 DEF InFlight, UsedOf
  <2> QED
    BY <1>1, <1>3, <2>1, <2>2 DEF SpendInv
<1> QED
  BY <1>5, <1>6, <1>7, <1>8

LEMMA SpendStep ==
  TypeInv /\ SpendInv /\ [AgentLoopNext]_loopVars => SpendInv'
<1> SUFFICES ASSUME TypeInv, SpendInv, [AgentLoopNext]_loopVars
             PROVE  SpendInv'
  OBVIOUS
<1>1. ASSUME gatewayUp, UNCHANGED <<gatewayUp, together>>, NotBilled, InFlight' = InFlight
      PROVE  SpendInv'
  BY <1>1, Flights, SpendKeeps
<1>2. ASSUME NEW l \in LoopIds,
             CreateLoop(l) \/ ResumeLoop(l) \/ TickFinishes(l) \/ TickSkips(l)
      PROVE  SpendInv'
  <2>1. gatewayUp /\ UNCHANGED <<gatewayUp, together, turns>> /\ NotBilled
    BY <1>2 DEF CreateLoop, ResumeLoop, TickFinishes, TickSkips, Fires
  <2> QED
    BY <1>1, <2>1, OwnersStay DEF SameOwners
<1>3. ASSUME NEW l \in LoopIds, StopLoop(l) \/ PauseLoop(l) \/ TickPauses(l)
      PROVE  SpendInv'
  <2>1. gatewayUp /\ (Halts(l, "stopped") \/ Halts(l, "paused"))
    BY <1>3 DEF StopLoop, PauseLoop, TickPauses, Fires
  <2> QED
    BY <1>1, <2>1, Halted DEF Halts, SameOwners
<1>4. ASSUME NEW l \in LoopIds, TickStarts(l)
      PROVE  SpendInv'
  BY <1>4, SpendStarts DEF TickStarts, Fires
<1>5. ASSUME NEW l \in LoopIds, NEW t \in Turns, TickIgnores(l, t) \/ TickFails(l, t)
      PROVE  SpendInv'
  <2>1. t \in InFlight /\ TurnReturns(t) /\ UNCHANGED <<gatewayUp, together>> /\ NotBilled
    BY <1>5 DEF TickIgnores, TickFails, TickReturns, TurnsOf
  <2>2. gatewayUp
    BY <2>1 DEF TypeInv, DownInv
  <2>3. InFlight' = InFlight \ {t}
    BY <2>1, Returned
  <2>4. Cardinality(InFlight') <= Cardinality(InFlight)
    BY <2>3, Flights, FS_Subset
  <2> QED
    BY <2>1, <2>2, <2>4, SpendKeeps
<1>6. ASSUME NEW l \in LoopIds, NEW t \in Turns, NEW use \in 0 .. MaxUse, NEW met \in BOOLEAN,
             TickSucceeds(l, t, use, met)
      PROVE  SpendInv'
  <2>1. /\ t \in InFlight /\ TurnReturns(t) /\ UNCHANGED <<gatewayUp, together>> /\ Bill(use)
    BY <1>6 DEF TickSucceeds, TickReturns, TurnsOf
  <2> QED
    BY <2>1, SpendBills
<1>7. ASSUME ClientTurn
      PROVE  SpendInv'
  BY <1>7, SpendStarts DEF ClientTurn
<1>8. ASSUME NEW t \in Turns, NEW use \in 0 .. MaxUse, ClientTurnEnds(t, use)
      PROVE  SpendInv'
  <2>1. /\ t \in InFlight /\ TurnReturns(t) /\ UNCHANGED <<gatewayUp, together>> /\ Bill(use)
    BY <1>8 DEF ClientTurnEnds, TurnsOf
  <2> QED
    BY <2>1, SpendBills
<1> QED
  BY <1>2, <1>3, <1>4, <1>5, <1>6, <1>7, <1>8, SpendRest DEF AgentLoopNext

-----------------------------------------------------------------------------
(* Theorems.                                                               *)

IInv == TypeInv /\ GoodInv /\ CapInv /\ SpendInv

LEMMA InitStep ==
  AgentLoopInit => IInv
<1> SUFFICES ASSUME AgentLoopInit
             PROVE  IInv
  OBVIOUS
<1>1. /\ \A l \in LoopIds : loops[l] = NoLoop /\ loopsFile[l] = NoLoop /\ aborts[l] = NoTurn
      /\ \A t \in Turns : turns[t] = NoTurn
  BY DEF AgentLoopInit
<1>2. InFlight = {} /\ \A l \in LoopIds : TurnsOf(l) = {}
  BY <1>1 DEF InFlight, TurnsOf
<1>3. AgentLoopTypeOK
  BY DEF AgentLoopInit, AgentLoopTypeOK
<1>4. TypeInv
  BY <1>1, <1>3 DEF TypeInv, RegInv, DownInv, AgentLoopInit
<1>5. GoodInv
  BY <1>1, <1>2 DEF GoodInv, Good, Lone, Is
<1>6. CapInv
  BY <1>1 DEF CapInv, Capped
<1>7. SpendInv
  <2>1. Cardinality(InFlight) = 0
    BY <1>2, FS_EmptySet
  <2>2. MaxUse * 0 = 0 /\ DailyCap > 0
    BY Constants
  <2>3. /\ billed = 0 /\ together = 0 /\ today = 0 /\ gatewayUp
        /\ bucket = [day |-> 0, used |-> 0] /\ spendFile = [day |-> 0, used |-> 0]
    BY DEF AgentLoopInit
  <2>4. UsedOf(bucket) = 0 /\ bucket.day = 0 /\ spendFile.day = 0
    BY <2>3 DEF UsedOf
  <2> QED
    BY <2>1, <2>2, <2>3, <2>4, Constants DEF SpendInv
<1> QED
  BY <1>4, <1>5, <1>6, <1>7 DEF IInv

\* The inductive invariant: controllers and turns belong together, loops have
\* at most one turn unless resumed too early, none goes past its iterations,
\* and what turns in flight may use is accounted for.
THEOREM AgentLoopInvariant ==
  AgentLoopSpec => []IInv
<1>1. IInv /\ [AgentLoopNext]_loopVars => IInv'
  BY GoodStep, CapStep, SpendStep DEF IInv
<1> QED
  BY InitStep, <1>1, PTL DEF AgentLoopSpec

\* Loops, turns, meter and observers keep their types.
THEOREM AgentLoopTypeCorrect ==
  AgentLoopSpec => []AgentLoopTypeOK
<1>1. IInv => AgentLoopTypeOK
  BY DEF IInv, TypeInv
<1> QED
  BY AgentLoopInvariant, <1>1, PTL

\* A running loop has a tick scheduled or a turn in flight (tick, resumeAll).
THEOREM RunningAlwaysDriven ==
  AgentLoopSpec => []RunningIsDriven
<1>1. IInv => RunningIsDriven
  BY DEF IInv, GoodInv, Good, RunningIsDriven
<1> QED
  BY AgentLoopInvariant, <1>1, PTL

\* A pause or a stop tells the turn in flight to end, unless two overlap
\* (pause, stop and the abort map of agent-loop.ts).
THEOREM HaltAlwaysReaches ==
  AgentLoopSpec => []HaltReachesTurns
<1>1. IInv => HaltReachesTurns
  BY DEF IInv, GoodInv, Good, Lone, HaltReachesTurns
<1> QED
  BY AgentLoopInvariant, <1>1, PTL

\* A loop ends at its last iteration, unless it is revived after its end.
THEOREM IterationsAlwaysCapped ==
  AgentLoopSpec => []IterationsCapped
<1>1. IInv => IterationsCapped
  BY DEF IInv, CapInv, Capped, IterationsCapped
<1> QED
  BY AgentLoopInvariant, <1>1, PTL

\* The meter of spend.ts lets what is billed on a day exceed the cap by what
\* the turns that ran together can use, and by no more.
THEOREM BudgetNeverOutrun ==
  AgentLoopSpec => []BudgetOverrun
<1>1. ASSUME IInv
      PROVE  BudgetOverrun
  <2>1. PICK f : f = Cardinality(InFlight)
    OBVIOUS
  <2>2. f \in Nat /\ MaxUse * f \in Nat /\ MaxUse * together \in Nat
    BY <1>1, <2>1, Flights, Products, Constants DEF IInv
  <2>3. billed \in Nat /\ (lost \/ billed + MaxUse * f < DailyCap + MaxUse * together)
    BY <1>1, <2>1, Flights DEF IInv, SpendInv
  <2> QED
    BY <2>2, <2>3, Constants DEF BudgetOverrun
<1> QED
  BY AgentLoopInvariant, <1>1, PTL
=============================================================================
