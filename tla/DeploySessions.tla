--------------------------- MODULE DeploySessions ---------------------------
(***************************************************************************)
(* What SafeSwitch promises of its sessions, with no mutex, no background  *)
(* loops, no health checks, no child processes and no clients that hang    *)
(* up: a session is opened once, may be undone while it is on probation,   *)
(* and is settled once.  A session that reports a rollback has launched    *)
(* one, and none is launched for a settled session.  Watch implements it.  *)
(***************************************************************************)
EXTENDS Naturals

CONSTANT Sessions

VARIABLES
  phase,   \* id -> where the session is
  undos    \* id -> rollbacks launched on its behalf

deployVars == <<phase, undos>>

DeployInit ==
  /\ phase = [id \in Sessions |-> "none"]
  /\ undos = [id \in Sessions |-> 0]

Open(id) ==
  /\ phase[id] = "none"
  /\ phase' = [phase EXCEPT ![id] = "probation"]
  /\ UNCHANGED undos

Undo(id) ==
  /\ phase[id] = "probation"
  /\ undos' = [undos EXCEPT ![id] = @ + 1]
  /\ UNCHANGED phase

Settle(id, verdict) ==
  /\ phase[id] = "probation"
  /\ verdict = "rolledback" => undos[id] > 0
  /\ phase' = [phase EXCEPT ![id] = verdict]
  /\ UNCHANGED undos

\* Sessions are not persisted: a restart forgets the ones that are not settled.
Forget ==
  /\ phase' = [id \in Sessions |-> IF phase[id] = "probation" THEN "lost" ELSE phase[id]]
  /\ UNCHANGED undos

DeployNext ==
  \/ \E id \in Sessions : Open(id) \/ Undo(id)
  \/ \E id \in Sessions, verdict \in {"committed", "rolledback"} : Settle(id, verdict)
  \/ Forget

DeploySpec == DeployInit /\ [][DeployNext]_deployVars
=============================================================================
