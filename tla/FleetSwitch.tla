---------------------------- MODULE FleetSwitch ----------------------------
(***************************************************************************)
(* Fleet-wide switches of osmoda-watch (fleet.rs, fleet_api.rs): a         *)
(* proposal lists participants, who vote; a quorum starts the execution, a *)
(* proposal that can no longer reach it is aborted, and so is one that is  *)
(* voted on after its time.  All switches are in memory, behind the mutex  *)
(* of the daemon, so a handler is one step.  What would commit a switch    *)
(* (commit, record_health_result) is called from tests only.               *)
(***************************************************************************)
EXTENDS Integers, Sequences, FiniteSets

CONSTANTS
    Switches,      \* ids of proposals
    Peers,         \* peers that may be listed, and vote
    Rosters,       \* the lists of peers that callers propose; not always without repetition
    Percents,      \* quorum_percent: a u8, or the default of 51
    Timeouts,      \* timeout_secs
    NoSwitch       \* what there is before a proposal

ASSUME FleetAssumption ==
    /\ Rosters \subseteq Seq(Peers) \ {<<>>}
    /\ Percents \subseteq 0 .. 255
    /\ Timeouts \subseteq Nat
    /\ \A s \in Switches : s # NoSwitch

VARIABLES
    fleet,         \* fleet[s]: the switch s of the coordinator, or NoSwitch
    elapsed        \* elapsed[s]: seconds by the wall clock since it was created

fleetVars == <<fleet, elapsed>>

\* FleetPhase without Vote, Verify and Committed, which nothing sets.
Phases == {"propose", "execute", "rolled_back", "aborted"}
ParticipantStatuses == {"pending", "voted", "executing"}

Open(roster, percent, timeout) ==
    [roster |-> roster, status |-> [i \in DOMAIN roster |-> "pending"],
     ayes |-> {}, noes |-> {}, percent |-> percent, timeout |-> timeout,
     phase |-> "propose"]

SwitchType ==
    [roster: Rosters, status: Seq(ParticipantStatuses), ayes: SUBSET Peers,
     noes: SUBSET Peers, percent: Percents, timeout: Timeouts, phase: Phases]

-----------------------------------------------------------------------------
(* Votes and quorum.                                                       *)

\* Mutant: rounded down.
RequiredRoundedDown(total, percent) ==
    LET share == (total * percent) \div 100
    IN  IF share < 1 THEN 1 ELSE share

\* The rounded-up percentage, at least 1.  The double that the code computes
\* is rounded up to the same number: the product is exact, and a quotient that
\* is not whole is at least 1/100 away from one.
Required(total, percent) ==
    LET share == (total * percent + 99) \div 100
    IN  IF share < 1 THEN 1 ELSE share

QuorumRequired(f) == Required(Len(f.roster), f.percent)

Voted(f) == f.ayes \cup f.noes

HasQuorum(f) == Cardinality(f.ayes) >= QuorumRequired(f)

\* Mutant: the refusals alone decide.
IsVetoedByMajority(f) == 2 * Cardinality(f.noes) > Len(f.roster) + 1

\* Not enough votes are left.  One that is listed twice counts twice here.
IsVetoed(f) ==
    LET remaining == Len(f.roster) - Cardinality(Voted(f))
    IN  Cardinality(f.ayes) + remaining < QuorumRequired(f)

\* num_seconds() is negative if the clock was set back since the proposal, and
\* a negative number is a huge one as u64.
TimedOut(s) == elapsed[s] < 0 \/ elapsed[s] >= fleet[s].timeout

\* A vote of somebody listed who has not voted; the first entry is updated.
Recordable(f, p) == p \notin Voted(f) /\ \E i \in DOMAIN f.roster : f.roster[i] = p

Record(f, p, approve) ==
    LET first == CHOOSE i \in DOMAIN f.roster :
                    /\ f.roster[i] = p
                    /\ \A j \in DOMAIN f.roster : f.roster[j] = p => i <= j
    IN  [f EXCEPT !.ayes = IF approve THEN @ \cup {p} ELSE @,
                  !.noes = IF approve THEN @ ELSE @ \cup {p},
                  !.status[first] = "voted"]

Execute(f) ==
    [f EXCEPT !.phase = "execute",
              !.status = [i \in DOMAIN f.roster |->
                             IF f.roster[i] \in f.ayes THEN "executing" ELSE @[i]]]

\* What a recorded vote leads to.
Decide(f) ==
    IF HasQuorum(f) THEN Execute(f)
    ELSE IF IsVetoed(f) THEN [f EXCEPT !.phase = "aborted"] ELSE f

-----------------------------------------------------------------------------
(* Handlers, the clock, and the end of the daemon.                         *)

FleetPropose(s, roster, percent, timeout) ==
    /\ fleet[s] = NoSwitch
    /\ fleet' = [fleet EXCEPT ![s] = Open(roster, percent, timeout)]
    /\ elapsed' = [elapsed EXCEPT ![s] = 0]

\* A vote after the time aborts the switch, whatever its phase.
FleetVoteLate(s) ==
    /\ fleet[s] # NoSwitch
    /\ TimedOut(s)
    /\ fleet' = [fleet EXCEPT ![s].phase = "aborted"]
    /\ UNCHANGED elapsed

\* Mutant: the phase is not checked.
FleetVoteAnyPhase(s, p, approve) ==
    /\ fleet[s] # NoSwitch
    /\ ~ TimedOut(s)
    /\ Recordable(fleet[s], p)
    /\ fleet' = [fleet EXCEPT ![s] = Decide(Record(@, p, approve))]
    /\ UNCHANGED elapsed

FleetVote(s, p, approve) ==
    /\ fleet[s] # NoSwitch
    /\ ~ TimedOut(s)
    /\ fleet[s].phase = "propose"
    /\ Recordable(fleet[s], p)
    /\ fleet' = [fleet EXCEPT ![s] = Decide(Record(@, p, approve))]
    /\ UNCHANGED elapsed

FleetRollback(s) ==
    /\ fleet[s] # NoSwitch
    /\ fleet' = [fleet EXCEPT ![s].phase = "rolled_back"]
    /\ UNCHANGED elapsed

\* A second passes; nothing happens by itself when the time is over.
FleetTick(s) ==
    /\ fleet[s] # NoSwitch
    /\ elapsed[s] < fleet[s].timeout
    /\ elapsed' = [elapsed EXCEPT ![s] = @ + 1]
    /\ UNCHANGED fleet

\* Somebody sets the wall clock to before the proposal.
FleetClockSetBack(s) ==
    /\ fleet[s] # NoSwitch
    /\ elapsed' = [elapsed EXCEPT ![s] = -1]
    /\ UNCHANGED fleet

FleetRestart ==
    /\ fleet' = [s \in Switches |-> NoSwitch]
    /\ elapsed' = [s \in Switches |-> 0]

FleetInit ==
    /\ fleet = [s \in Switches |-> NoSwitch]
    /\ elapsed = [s \in Switches |-> 0]

FleetNext ==
    \/ \E s \in Switches :
          \/ \E r \in Rosters, q \in Percents, t \in Timeouts : FleetPropose(s, r, q, t)
          \/ \E p \in Peers, b \in BOOLEAN : FleetVote(s, p, b)
          \/ FleetVoteLate(s) \/ FleetRollback(s) \/ FleetTick(s) \/ FleetClockSetBack(s)
    \/ FleetRestart

FleetSpec == FleetInit /\ [][FleetNext]_fleetVars

-----------------------------------------------------------------------------
(* Properties.                                                             *)

\* Type correctness of the switches of the coordinator and their clocks.
FleetTypeOK ==
    /\ fleet \in [Switches -> SwitchType \cup {NoSwitch}]
    /\ elapsed \in [Switches -> Int]
    /\ \A s \in Switches : fleet[s] # NoSwitch =>
          DOMAIN fleet[s].status = DOMAIN fleet[s].roster

\* Nobody executes without a quorum: whatever happened to the switch since, if
\* a participant was told to execute (advance_to_execute), it approved, and
\* different listed peers did, for the whole of the percentage.
QuorumBehindExecution ==
    \A s \in Switches : fleet[s] # NoSwitch =>
        \A i \in DOMAIN fleet[s].roster : fleet[s].status[i] = "executing" =>
            /\ fleet[s].roster[i] \in fleet[s].ayes \ fleet[s].noes
            /\ 100 * Cardinality(fleet[s].ayes) >= fleet[s].percent * Len(fleet[s].roster)
            /\ \A p \in fleet[s].ayes : \E j \in DOMAIN fleet[s].roster : fleet[s].roster[j] = p

\* A proposal that has votes and is open can be decided either way: the votes
\* that can still come would carry it, and no quorum was overlooked.  This
\* needs a list without repetitions: a peer listed twice raises the quorum
\* and can only vote once.
StillOpen(f) ==
    Cardinality(f.ayes) + Cardinality({f.roster[i] : i \in DOMAIN f.roster} \ Voted(f))
        >= QuorumRequired(f)

OpenIsUndecided ==
    \A s \in Switches :
        (/\ fleet[s] # NoSwitch
         /\ fleet[s].phase = "propose"
         /\ Voted(fleet[s]) # {}
         /\ \A i, j \in DOMAIN fleet[s].roster : fleet[s].roster[i] = fleet[s].roster[j] => i = j)
        => ~ HasQuorum(fleet[s]) /\ StillOpen(fleet[s])

\* While the daemon runs a decision is final: the votes it rests on do not
\* change any more, and a switch that was aborted or rolled back is not
\* executed later, whatever votes and clock changes follow.
DecisionIsFinal ==
    [][\A s \in Switches :
          (/\ fleet[s] # NoSwitch
           /\ fleet'[s] # NoSwitch
           /\ fleet[s].phase # "propose")
          => /\ fleet'[s].phase # "propose"
             /\ fleet'[s].phase = "execute" => fleet[s].phase = "execute"
             /\ <<fleet'[s].ayes, fleet'[s].noes, fleet'[s].status>>
                  = <<fleet[s].ayes, fleet[s].noes, fleet[s].status>>]_fleetVars
=============================================================================
