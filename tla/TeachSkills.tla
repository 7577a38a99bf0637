---------------------------- MODULE TeachSkills ----------------------------
(***************************************************************************)
(* osmoda-teachd, from the tools that the agent calls to skills            *)
(* (knowledge.rs, skillgen.rs, verifier.rs, api.rs): sequences of tools    *)
(* that several sessions share become candidates, candidates become        *)
(* SKILL.md files, and the outcomes of executions promote, reject or       *)
(* retire them.  Each cycle and handler holds the mutex; its steps for     *)
(* different candidates are separate here, as a cycle can be cut off after *)
(* any of them.  The row and the file are written one after the other.     *)
(***************************************************************************)
EXTENDS Integers, Sequences, FiniteSets

CONSTANTS
    Sessions, Tools,   \* sessions of the agent, and the tools it calls
    Stem,              \* Stem[t]: the tool without its prefix (system_, service_, shell_)
    Logs,              \* logs that an earlier process may have left
    MinLength,         \* 3 in the code
    MaxLength,         \* 6 in the code
    MinSessions,       \* 3 in the code
    SlugTools,         \* tools whose names fill the 60 characters of an id
    BatchSize,         \* 10 in the code
    MinExecutions,     \* 5 in the code
    MaxLogChanges,     \* bound: actions that are added to or dropped from the log
    MaxExecutions,     \* bound: executions of a skill
    MaxSkillTroubles,  \* bound: crashes in between and failed writes
    NoSkill            \* no file

ASSUME TeachSkillsAssumption ==
    /\ MinLength \in Nat \ {0} /\ MaxLength \in Nat /\ MinSessions \in Nat /\ SlugTools \in Nat
    /\ BatchSize \in Nat /\ MinExecutions \in Nat \ {0}
    /\ MaxLogChanges \in Nat /\ MaxExecutions \in Nat /\ MaxSkillTroubles \in Nat
    /\ Logs \subseteq [Sessions -> Seq(Tools)]
    /\ NoSkill \notin {"manual", "auto", "retired", "cut off"}

VARIABLES
    log,            \* log[s]: the tools that worked, of the last thirty days
    candidates,     \* skill_candidates: tools and status, by id
    skillFile,      \* skillFile[n]: the activation that auto-<n>/SKILL.md has
    outcomes,       \* outcomes[n]: executions of a skill, good and all
    logChanges, skillTroubles,
    torn            \* observer: names whose row and file were not both written

skillVars == <<log, candidates, skillFile, outcomes, logChanges, skillTroubles, torn>>

-----------------------------------------------------------------------------
(* find_tool_sequences.                                                    *)

Windows(seq) ==
    LET ends == {e \in (1 .. Len(seq)) \X (1 .. Len(seq)) :
                    /\ e[2] - e[1] + 1 >= MinLength
                    /\ e[2] - e[1] + 1 <= MaxLength}
    IN  {SubSeq(seq, e[1], e[2]) : e \in ends}

\* The number of sessions that have it, for each window of the log.
Supports ==
    LET found == UNION {{s} \X Windows(log[s]) : s \in Sessions}
    IN  [w \in {f[2] : f \in found} |-> Cardinality({f \in found : f[2] = w})]

RanksBefore(support, v, w) ==
    \/ support[v] > support[w]
    \/ support[v] = support[w] /\ Len(v) < Len(w)

IsSubsequence(small, big) ==
    \E i \in 0 .. Len(big) - Len(small) : small = SubSeq(big, i + 1, i + Len(small))

\* A sequence is dropped for one that comes before it, is as frequent and
\* contains it.  Shorter ones come first, so that never happens.
Kept(support) ==
    LET frequent == {w \in DOMAIN support : support[w] >= MinSessions}
    IN  {w \in frequent : ~ \E v \in frequent : /\ RanksBefore(support, v, w)
                                                /\ support[v] >= support[w]
                                                /\ IsSubsequence(w, v)}

-----------------------------------------------------------------------------
(* Candidates (skillgen.rs).                                               *)

ToolsIn(w) == {w[i] : i \in DOMAIN w}

\* Four fifths of all their tools are in both.
Overlap(v, w) ==
    5 * Cardinality(ToolsIn(v) \cap ToolsIn(w)) >= 4 * Cardinality(ToolsIn(v) \cup ToolsIn(w))

SlugFrom(w) == IF Len(w) > SlugTools THEN SubSeq(w, 1, SlugTools) ELSE w

SkillName(w) == [i \in DOMAIN w |-> Stem[w[i]]]

Existing == DOMAIN candidates
NameOf(c) == SkillName(candidates[c].tools)
Activation(n) == IF n \in DOMAIN skillFile THEN skillFile[n] ELSE NoSkill
Outcomes(n) == IF n \in DOMAIN outcomes THEN outcomes[n] ELSE [good |-> 0, all |-> 0]

\* There is a candidate with its id, or one with much the same tools (the code
\* looks at the best fifty).
Skipped(w) ==
    \/ SlugFrom(w) \in Existing
    \/ \E c \in Existing : Overlap(w, candidates[c].tools)

\* A row or a file that is inserted, or replaced.
Put(f, k, v) == [x \in DOMAIN f \cup {k} |-> IF x = k THEN v ELSE f[x]]

\* The rows of agent_actions (those that failed are never looked at), of
\* skill_candidates and of skill_executions.
PutAction(s, t) == log' = [log EXCEPT ![s] = Append(@, t)]
PutCandidate(id, c) == candidates' = Put(candidates, id, c)
PutOutcome(n, good) ==
    outcomes' = Put(outcomes, n, [good |-> Outcomes(n).good + (IF good THEN 1 ELSE 0),
                                  all |-> Outcomes(n).all + 1])

ObserveAction(s, t, good) ==
    /\ logChanges < MaxLogChanges
    /\ logChanges' = logChanges + 1
    /\ IF good THEN PutAction(s, t) ELSE UNCHANGED log
    /\ UNCHANGED <<candidates, skillFile, outcomes, skillTroubles, torn>>

\* prune_agent_actions, or the limit of thirty days of the query.
ActionAges(s) ==
    /\ logChanges < MaxLogChanges
    /\ logChanges' = logChanges + 1
    /\ log[s] # <<>>
    /\ log' = [log EXCEPT ![s] = Tail(@)]
    /\ UNCHANGED <<candidates, skillFile, outcomes, skillTroubles, torn>>

\* One step of a cycle: all sequences before this one, of the first ten, are
\* there already or are skipped.  Those of one rank come in any order.
SkillgenStep ==
    LET support == Supports
        kept == Kept(support)
    IN  \E w \in kept :
            /\ ~ Skipped(w)
            /\ \A v \in kept : RanksBefore(support, v, w) => Skipped(v)
            /\ Cardinality({v \in kept : RanksBefore(support, v, w)}) < BatchSize
            /\ PutCandidate(SlugFrom(w), [tools |-> w, status |-> "pending"])
            /\ UNCHANGED <<log, skillFile, outcomes, logChanges, skillTroubles, torn>>

-----------------------------------------------------------------------------
(* Files and states of a candidate.                                        *)

SetStatus(c, status) == PutCandidate(c, [candidates[c] EXCEPT !.status = status])

SetActivation(n, a) == skillFile' = Put(skillFile, n, a)

Trouble(n) ==
    /\ skillTroubles < MaxSkillTroubles
    /\ skillTroubles' = skillTroubles + 1
    /\ torn' = torn \cup {n}

NoTrouble == UNCHANGED <<skillTroubles, torn>>

HasState(c, status) == candidates[c].status = status

\* POST /skills/generate: the file, then the row; without the file no change
\* of the row.  A file of the same name is overwritten.
SkillGenerate(c) ==
    /\ HasState(c, "pending")
    /\ \/ SetActivation(NameOf(c), "manual") /\ SetStatus(c, "generated") /\ NoTrouble
       \/ /\ \E a \in {"manual", "cut off"} : SetActivation(NameOf(c), a)
          /\ Trouble(NameOf(c))
          /\ UNCHANGED candidates
    /\ UNCHANGED <<log, outcomes, logChanges>>

\* Mutant: only files of skills that are not active are edited.
EditFileManual(c, from, to) ==
    IF Activation(NameOf(c)) = "manual" THEN SetActivation(NameOf(c), to) ELSE UNCHANGED skillFile

\* The activation is replaced in the file if it is what it should be.
EditFile(c, from, to) ==
    IF Activation(NameOf(c)) = from THEN SetActivation(NameOf(c), to) ELSE UNCHANGED skillFile

\* The file, then the row; a failure to read or write the file is logged only.
Advance(c, from, to, status) ==
    \/ EditFile(c, from, to) /\ SetStatus(c, status) /\ NoTrouble
    \/ /\ Trouble(NameOf(c))
       /\ \/ EditFile(c, from, to) /\ UNCHANGED candidates
          \/ SetStatus(c, status) /\ UNCHANGED skillFile
          \/ SetStatus(c, status) /\ SetActivation(NameOf(c), "cut off")

SkillPromote(c) ==
    /\ HasState(c, "generated")
    /\ Advance(c, "manual", "auto", "promoted")
    /\ UNCHANGED <<log, outcomes, logChanges>>

\* POST /skills/execution, for whatever name the caller gives.
SkillExecution(n, good) ==
    /\ Outcomes(n).all < MaxExecutions
    /\ PutOutcome(n, good)
    /\ UNCHANGED <<log, candidates, skillFile, logChanges, skillTroubles, torn>>

Enough(n) == Outcomes(n).all >= MinExecutions
RateAtLeast(n, percent) == 100 * Outcomes(n).good >= percent * Outcomes(n).all

\* A step of a cycle of the verifier.  Outcomes count by name.
VerifyStep(c) ==
    /\ c \in Existing
    /\ Enough(NameOf(c))
    /\ \/ /\ HasState(c, "generated")
          /\ RateAtLeast(NameOf(c), 80)
          /\ Advance(c, "manual", "auto", "promoted")
       \/ /\ HasState(c, "generated")
          /\ ~ RateAtLeast(NameOf(c), 30)
          /\ SetStatus(c, "rejected")
          /\ NoTrouble /\ UNCHANGED skillFile
       \/ /\ HasState(c, "promoted")
          /\ ~ RateAtLeast(NameOf(c), 40)
          /\ Advance(c, "auto", "retired", "retired")
    /\ UNCHANGED <<log, outcomes, logChanges>>

\* A cycle of skillgen or of the verifier that finds nothing to change.
QuietCycle == UNCHANGED skillVars

TeachSkillsInit ==
    /\ log \in Logs
    /\ candidates = <<>> /\ skillFile = <<>> /\ outcomes = <<>>
    /\ logChanges = 0 /\ skillTroubles = 0 /\ torn = {}

TeachSkillsNext ==
    \/ \E s \in Sessions :
          \/ \E t \in Tools, good \in BOOLEAN : ObserveAction(s, t, good)
          \/ ActionAges(s)
    \/ SkillgenStep \/ QuietCycle
    \/ \E c \in Existing :
          \/ SkillGenerate(c) \/ SkillPromote(c) \/ VerifyStep(c)
          \/ \E good \in BOOLEAN : SkillExecution(NameOf(c), good)

TeachSkillsSpec == TeachSkillsInit /\ [][TeachSkillsNext]_skillVars

-----------------------------------------------------------------------------
(* Properties.                                                             *)

\* What the agent finds on disk is what the table says: a file activates itself
\* only while a candidate of its name is promoted, and the file of a promoted
\* one does, unless another candidate has the same name.  Crashes between the
\* two writes, and failed ones, are the exceptions.
FilesAgree ==
    /\ \A n \in DOMAIN skillFile \ torn :
          skillFile[n] = "auto" => \E c \in Existing : NameOf(c) = n /\ HasState(c, "promoted")
    /\ \A c \in Existing :
          (/\ HasState(c, "promoted")
           /\ NameOf(c) \notin torn
           /\ \A d \in Existing \ {c} : NameOf(d) # NameOf(c))
          => Activation(NameOf(c)) = "auto"
=============================================================================
