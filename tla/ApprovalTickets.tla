-------------------------- MODULE ApprovalTickets --------------------------
(***************************************************************************)
(* What the approval gate of agentd promises, with no handlers, locks,     *)
(* transactions, crashes or files: a ticket is filed for one command, is   *)
(* settled at most once, and only an approved ticket ever authorises its   *)
(* own command.  Agentd implements this specification.                     *)
(*                                                                         *)
(* The promise has one exception, which the code has too: restoring a      *)
(* backup brings all tickets back to a state they had before, or, when the *)
(* backup or the restore went wrong, to what is left of the files.         *)
(***************************************************************************)
CONSTANTS
  ApprovalIds,
  Commands,
  NoCommand,
  damaged    \* the ticket tables that files in pieces may show

VARIABLES
  tickets,   \* id -> [command, status]
  granted,   \* the <<id, command>> pairs that were authorised so far
  saved      \* the ticket tables a restore may bring back

ticketVars == <<tickets, granted, saved>>

NoTicket == [command |-> NoCommand, status |-> "none"]

TicketInit ==
  /\ tickets = [id \in ApprovalIds |-> NoTicket]
  /\ granted = {}
  /\ saved = {}

File(id, cmd) ==
  /\ tickets[id] = NoTicket
  /\ tickets' = [tickets EXCEPT ![id] = [command |-> cmd, status |-> "pending"]]
  /\ UNCHANGED <<granted, saved>>

Settle(id, verdict) ==
  /\ tickets[id].status = "pending"
  /\ tickets' = [tickets EXCEPT ![id].status = verdict]
  /\ UNCHANGED <<granted, saved>>

\* Several tickets may time out at once.
TimeOut(ids) ==
  /\ \A id \in ids : tickets[id].status = "pending"
  /\ tickets' = [id \in ApprovalIds |->
                   IF id \in ids THEN [tickets[id] EXCEPT !.status = "expired"]
                                 ELSE tickets[id]]
  /\ UNCHANGED <<granted, saved>>

Grant(id) ==
  /\ tickets[id].status = "approved"
  /\ granted' = granted \cup {<<id, tickets[id].command>>}
  /\ UNCHANGED <<tickets, saved>>

\* A backup is taken, or old ones are dropped, or files come to pieces.
Save ==
  /\ saved' \subseteq saved \cup {tickets} \cup damaged
  /\ UNCHANGED <<tickets, granted>>

Revert ==
  /\ tickets' \in saved \cup damaged
  /\ saved' \subseteq saved
  /\ UNCHANGED granted

TicketNext ==
  \/ \E id \in ApprovalIds, cmd \in Commands : File(id, cmd)
  \/ \E id \in ApprovalIds, verdict \in {"approved", "denied"} : Settle(id, verdict)
  \/ \E ids \in SUBSET ApprovalIds : TimeOut(ids)
  \/ \E id \in ApprovalIds : Grant(id)
  \/ Save
  \/ Revert

TicketSpec == TicketInit /\ [][TicketNext]_ticketVars
=============================================================================
