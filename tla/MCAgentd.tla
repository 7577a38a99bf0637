------------------------------ MODULE MCAgentd ------------------------------
(* Small instances of Agentd for TLC. *)
EXTENDS Agentd, TLC

CONSTANTS r1, r2, a1, c1

TwoHandlers == {r1, r2}
OneId == {a1}
OneCommand == {c1}

\* An approvals page from before an approval and an events page from after it,
\* and a row that does not point at the one before.
MixedPages ==
  [approvals |-> [id \in ApprovalIds |-> [command |-> c1, status |-> "pending"]],
   events    |-> <<NewRow(<<>>, Plain("start"), Genesis),
                   NewRow(<<>>, OfTicket("approved", a1, c1), Genesis)>>,
   whole     |-> FALSE]
OneWreck == {MixedPages}

\* Handlers are interchangeable.
Symmetry == Permutations(Handlers)
=============================================================================
