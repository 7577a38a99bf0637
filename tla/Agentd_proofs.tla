--------------------------- MODULE Agentd_proofs ---------------------------
(***************************************************************************)
(* Theorems about Agentd, for every number of handlers, tickets, commands, *)
(* events, backups and crashes.                                            *)
(***************************************************************************)
EXTENDS Agentd, FiniteSetTheorems, WellFoundedInduction, TLAPS
-----------------------------------------------------------------------------
(***************************************************************************)
(* Types of the operators that the actions are built from.                 *)
(***************************************************************************)

\* The body of every event an action creates has the type of a body.
LEMMA BodyTypes ==
  /\ \A kind \in Kinds : Plain(kind) \in Bodies
  /\ \A kind \in Kinds, id \in ApprovalIds \cup {NoId}, cmd \in Commands \cup {NoCommand},
        allow \in BOOLEAN : /\ OfTicket(kind, id, cmd) \in Bodies
                            /\ [OfTicket(kind, id, cmd) EXCEPT !.allow = allow] \in Bodies
  /\ \A kind \in Kinds, n \in Nat : OfBackup(kind, n) \in Bodies
BY DEF Plain, OfTicket, OfBackup, Bodies

\* An idle handler is typed.
LEMMA IdleType == Idle \in HandlerType
<1>1. Plain("other") \in Bodies
  BY BodyTypes DEF Kinds
<1>2. Genesis \in Digest(Bodies)
  BY DEF Genesis, Digest
<1> QED
  BY <1>1, <1>2 DEF Idle, HandlerType, PCs

\* So is one that has a body to tell.
LEMMA TellingType == ASSUME NEW body \in Bodies PROVE Telling(body) \in HandlerType
<1>1. Genesis \in Digest(Bodies)
  BY DEF Genesis, Digest
<1> QED
  BY <1>1 DEF Telling, HandlerType, PCs

\* The database of a state directory that was empty.
LEMMA EmptyDbType == EmptyDb \in DbType
BY DEF EmptyDb, DbType, TicketType, NoTicket, Statuses

\* The row that append commits, and the hash it builds on.
LEMMA RowType ==
  ASSUME NEW events \in Seq(EventRow(Bodies)), NEW body \in Bodies,
         NEW prev \in Digest(Bodies)
  PROVE  NewRow(events, body, prev) \in EventRow(Bodies)
<1>1. Len(events) + 1 \in Nat
  OBVIOUS
<1>2. <<Len(events) + 1, body>> \in Nat \X Bodies
  BY <1>1
<1>3. Hash(Len(events) + 1, body, prev) \in Digest(Bodies)
  BY <1>2 DEF Hash, Digest
<1> QED
  BY <1>1, <1>3 DEF NewRow, EventRow

\* The hash an append builds on is a digest.
LEMMA LastHashType ==
  ASSUME NEW events \in Seq(EventRow(Bodies))
  PROVE  LastHash(events) \in Digest(Bodies)
<1>1. CASE events = <<>>
  BY <1>1 DEF LastHash, Genesis, Digest
<1>2. CASE events # <<>>
  <2>1. events[Len(events)] \in EventRow(Bodies)
    BY <1>2
  <2> QED
    BY <1>2, <2>1 DEF LastHash, EventRow
<1> QED
  BY <1>1, <1>2
-----------------------------------------------------------------------------
(***************************************************************************)
(* Type correctness.                                                       *)
(***************************************************************************)

\* The initial state is typed.
LEMMA InitTypeOK == Init => TypeOK
<1> SUFFICES ASSUME Init PROVE TypeOK
  OBVIOUS
<1>1. db \in DbType /\ restored \in DbType
  BY EmptyDbType DEF Init
<1>2. h \in [Handlers -> HandlerType]
  BY IdleType DEF Init
<1>3. requested \in 0 .. MaxBackups /\ crashes \in 0 .. MaxCrashes
  BY AgentdAssumption DEF Init
<1> QED
  BY <1>1, <1>2, <1>3, Zenon DEF Init, TypeOK

\* What an append does to handlers, lock and archives.
LEMMA AfterAppendType ==
  ASSUME TypeOK, NEW r \in Handlers, AfterAppend(r)
  PROVE  /\ lock' \in Handlers \cup {NoHandler}
         /\ stale' \in BOOLEAN
         /\ h' \in [Handlers -> HandlerType]
         /\ archives' \subseteq archives
<1>1. h[r].body \in Bodies
  BY DEF TypeOK, HandlerType
<1>2. [Idle EXCEPT !.pc = "extract", !.body = h[r].body] \in HandlerType
  BY <1>1, IdleType DEF HandlerType, PCs
<1>3. h' \in [Handlers -> HandlerType]
  BY <1>2, IdleType DEF AfterAppend, TypeOK
<1> QED
  BY <1>3 DEF AfterAppend, Newest

\* A commit of the gate keeps the type of the database.
LEMMA GateWriteType ==
  ASSUME TypeOK, NEW approvals \in [ApprovalIds -> TicketType], GateWrite(approvals)
  PROVE  db' \in DbType /\ stale' \in BOOLEAN /\ mixed' \subseteq Handlers
BY DEF GateWrite, FilesChange, Packing, TypeOK, DbType

\* What comes of copying a database is a database.
LEMMA CopiedType ==
  ASSUME NEW d \in DbType, NEW disturbed
  PROVE  Copied(d, disturbed) \subseteq DbType
BY WrecksAssumption DEF Copied, Wreckage

\* An append to the ledger keeps the type of the database.
LEMMA AppendType ==
  ASSUME NEW d \in DbType, NEW body \in Bodies, NEW prev \in Digest(Bodies)
  PROVE  [d EXCEPT !.events = Append(@, NewRow(@, body, prev))] \in DbType
<1>1. d.events \in Seq(EventRow(Bodies))
  BY DEF DbType
<1>2. NewRow(d.events, body, prev) \in EventRow(Bodies)
  BY <1>1, RowType
<1>3. Append(d.events, NewRow(d.events, body, prev)) \in Seq(EventRow(Bodies))
  BY <1>1, <1>2
<1> QED
  BY <1>3 DEF DbType

\* Every step keeps the types: one step of the proof per action.
LEMMA NextTypeOK == TypeOK /\ [Next]_vars => TypeOK'
<1> SUFFICES ASSUME TypeOK, [Next]_vars PROVE TypeOK'
  OBVIOUS
<1> USE AgentdAssumption
<1>1. CASE UNCHANGED vars
  BY <1>1 DEF vars, TypeOK
<1>2. ASSUME NEW r \in Handlers, NEW cmd \in Commands,
             NEW id \in ApprovalIds \cup {NoId}, CheckCommand(r, cmd, id)
      PROVE  TypeOK'
  <2> DEFINE allow == Authorised(db.approvals, cmd, id)
             body == [OfTicket("check", id, cmd) EXCEPT !.allow = allow]
  <2>1. allow \in BOOLEAN
    BY DEF Authorised
  <2>2. body \in Bodies
    BY <2>1, BodyTypes DEF Kinds
  <2>3. h' \in [Handlers -> HandlerType]
    BY <1>2, <2>2, TellingType DEF CheckCommand, TypeOK
  <2>4. grants' \subseteq ApprovalIds \X Commands
    BY <1>2 DEF CheckCommand, Authorised, TypeOK
  <2> QED
    BY <1>2, <2>3, <2>4 DEF CheckCommand, diskVars, pathVars, TypeOK
<1>3. ASSUME NEW r \in Handlers, NEW cmd \in Commands, NEW id \in ApprovalIds,
             RequestApproval(r, cmd, id)
      PROVE  TypeOK'
  <2> DEFINE new == [db.approvals EXCEPT ![id] = [command |-> cmd, status |-> "pending"]]
  <2>1. new \in [ApprovalIds -> TicketType]
    BY DEF TypeOK, DbType, TicketType, Statuses
  <2>2. db' \in DbType /\ stale' \in BOOLEAN /\ mixed' \subseteq Handlers
    BY <1>3, <2>1, GateWriteType DEF RequestApproval
  <2>3. OfTicket("requested", id, cmd) \in Bodies
    BY BodyTypes DEF Kinds
  <2>4. h' \in [Handlers -> HandlerType]
    BY <1>3, <2>3, TellingType DEF RequestApproval, TypeOK
  <2> QED
    BY <1>3, <2>2, <2>4 DEF RequestApproval, pathVars, TypeOK
<1>4. ASSUME NEW r \in Handlers, NEW id \in ApprovalIds,
             NEW verdict \in {"approved", "denied"}, Decide(r, id, verdict)
      PROVE  TypeOK'
  <2> DEFINE new == [db.approvals EXCEPT ![id].status = verdict]
  <2>1. new \in [ApprovalIds -> TicketType]
    BY DEF TypeOK, DbType, TicketType, Statuses
  <2>2. db' \in DbType /\ stale' \in BOOLEAN /\ mixed' \subseteq Handlers
    BY <1>4, <2>1, GateWriteType DEF Decide
  <2>3. db.approvals[id].command \in Commands \cup {NoCommand}
    BY DEF TypeOK, DbType, TicketType
  <2>4. OfTicket(verdict, id, db.approvals[id].command) \in Bodies
    BY <2>3, BodyTypes DEF Kinds
  <2>5. h' \in [Handlers -> HandlerType]
    BY <1>4, <2>4, TellingType DEF Decide, TypeOK
  <2> QED
    BY <1>4, <2>2, <2>5 DEF Decide, pathVars, TypeOK
<1>5. ASSUME NEW r \in Handlers, AppendOther(r) PROVE TypeOK'
  <2>1. h' \in [Handlers -> HandlerType]
    BY <1>5, BodyTypes, TellingType DEF AppendOther, Kinds, TypeOK
  <2> QED
    BY <1>5, <2>1 DEF AppendOther, diskVars, pathVars, TypeOK
<1>6. ASSUME NEW r \in Handlers, BackupCreate(r) PROVE TypeOK'
  <2>1. requested' \in 0 .. MaxBackups
    BY <1>6 DEF BackupCreate, TypeOK
  <2>2. OfBackup("backup", requested + 1) \in Bodies
    BY BodyTypes DEF Kinds, TypeOK
  <2>3. [Idle EXCEPT !.pc = "tar", !.body = OfBackup("backup", requested + 1)] \in HandlerType
    BY <2>2, IdleType DEF HandlerType, PCs
  <2>4. h' \in [Handlers -> HandlerType]
    BY <1>6, <2>3 DEF BackupCreate, TypeOK
  <2> QED
    BY <1>6, <2>1, <2>4 DEF BackupCreate, FilesChange, Packing, TypeOK
<1>7. ASSUME NEW r \in Handlers, NEW a \in archives, Restore(r, a) PROVE TypeOK'
  <2>1. OfBackup("restore", a.name) \in Bodies
    BY BodyTypes DEF Kinds, TypeOK
  <2>2. h' \in [Handlers -> HandlerType]
    BY <1>7, <2>1, TellingType DEF Restore, TypeOK
  <2> QED
    BY <1>7, <2>2 DEF Restore, diskVars, pathVars, TypeOK
<1>8. ASSUME NEW r \in Handlers, AppendBegin(r) PROVE TypeOK'
  <2>1. LastHash(db.events) \in Digest(Bodies)
    BY LastHashType DEF TypeOK, DbType
  <2>2. h' \in [Handlers -> HandlerType]
    BY <1>8, <2>1 DEF AppendBegin, TypeOK, HandlerType, PCs
  <2> QED
    BY <1>8, <2>2 DEF AppendBegin, diskVars, pathVars, TypeOK
<1>9. ASSUME NEW r \in Handlers, AppendCommit(r) PROVE TypeOK'
  <2>1. h[r].body \in Bodies /\ h[r].prev \in Digest(Bodies)
    BY DEF TypeOK, HandlerType
  <2>2. db' \in DbType
    BY <1>9, <2>1, AppendType DEF AppendCommit, TypeOK
  <2> QED
    BY <1>9, <2>2, AfterAppendType DEF AppendCommit, FilesChange, Packing, TypeOK
<1>10. ASSUME NEW r \in Handlers, AppendBusy(r) PROVE TypeOK'
  BY <1>10, AfterAppendType DEF AppendBusy, TypeOK
<1>11. ASSUME NEW r \in Handlers, Disconnect(r) PROVE TypeOK'
  BY <1>11, IdleType DEF Disconnect, diskVars, pathVars, TypeOK
<1>12. ASSUME NEW r \in Handlers, TarCreates(r) \/ TarCreateFails(r) PROVE TypeOK'
  <2>1. h[r].body \in Bodies
    BY DEF TypeOK, HandlerType
  <2>2. OnDisk \in DbType
    BY DEF OnDisk, TypeOK
  <2>3. ASSUME NEW disturbed, NEW d \in Copied(OnDisk, disturbed)
        PROVE  Archive(r, d) \subseteq [name : Nat, db : DbType]
    <3>1. d \in DbType
      BY <2>2, <2>3, CopiedType
    <3> QED
      BY <2>1, <3>1 DEF Archive, Bodies, TypeOK
  <2>4. archives' \subseteq [name : Nat, db : DbType]
    <3>1. CASE archives' = archives
      BY <3>1 DEF TypeOK
    <3>2. CASE archives' # archives
      <4>1. PICK disturbed \in BOOLEAN :
              \E d \in Copied(OnDisk, disturbed) : archives' = Archive(r, d)
        BY <1>12, <3>2 DEF TarCreates, TarCreateFails, Disturbed
      <4> QED
        BY <2>3, <4>1
    <3> QED
      BY <3>1, <3>2
  <2>5. h' \in [Handlers -> HandlerType]
    BY <1>12, <2>1, TellingType, IdleType DEF TarCreates, TarCreateFails, TypeOK
  <2> QED
    BY <1>12, <2>4, <2>5 DEF TarCreates, TarCreateFails, TypeOK
<1>13. ASSUME NEW r \in Handlers, NEW a \in archives, TarExtracts(r, a) PROVE TypeOK'
  <2>1. a.db \in DbType
    BY DEF TypeOK
  <2>2. PICK d \in DbType : Replaced(r, d)
    BY <1>13, <2>1, CopiedType DEF TarExtracts
  <2>3. h' \in [Handlers -> HandlerType]
    BY <1>13, IdleType DEF TarExtracts, TypeOK
  <2> QED
    BY <1>13, <2>2, <2>3 DEF TarExtracts, Replaced, Packing, Extracting, TypeOK
<1>14. ASSUME NEW r \in Handlers, TarExtractFails(r) PROVE TypeOK'
  <2>1. h' \in [Handlers -> HandlerType]
    BY <1>14, IdleType DEF TarExtractFails, TypeOK
  <2>2. CASE UNCHANGED <<detached, restored>> /\ mixed' = mixed \ {r}
    BY <1>14, <2>1, <2>2 DEF TarExtractFails, TypeOK
  <2>3. CASE \E d \in Wreckage : Replaced(r, d)
    <3>1. PICK d \in DbType : Replaced(r, d)
      BY <2>3, WrecksAssumption DEF Wreckage
    <3> QED
      BY <1>14, <2>1, <3>1 DEF TarExtractFails, Replaced, Packing, Extracting, TypeOK
  <2> QED
    BY <1>14, <2>2, <2>3 DEF TarExtractFails
<1>15. CASE ExpireTick
  <2> DEFINE new == [id \in ApprovalIds |->
                       IF id \in Overdue(db.approvals)
                       THEN [db.approvals[id] EXCEPT !.status = "expired"]
                       ELSE db.approvals[id]]
  <2>1. new \in [ApprovalIds -> TicketType]
    BY DEF TypeOK, DbType, TicketType, Statuses
  <2>2. db' \in DbType /\ stale' \in BOOLEAN /\ mixed' \subseteq Handlers
    BY <1>15, <2>1, GateWriteType DEF ExpireTick, TypeOK
  <2> QED
    BY <1>15, <2>2 DEF ExpireTick, pathVars, TypeOK
<1>16. ASSUME NEW id \in ApprovalIds, TtlPasses(id) PROVE TypeOK'
  BY <1>16 DEF TtlPasses, diskVars, pathVars, TypeOK
<1>17. CASE Crash
  <2>1. OnDisk \in DbType
    BY DEF OnDisk, TypeOK
  <2>2. h' \in [Handlers -> HandlerType]
    BY <1>17, IdleType DEF Crash
  <2>3. crashes' \in 0 .. MaxCrashes
    BY <1>17 DEF Crash, TypeOK
  <2>4. db' \in DbType /\ restored' \in DbType
    BY <1>17, <2>1, EmptyDbType, CopiedType DEF Crash
  <2> QED
    BY <1>17, <2>2, <2>3, <2>4 DEF Crash, TypeOK
<1>18. CASE Start
  <2>1. LastHash(db.events) \in Digest(Bodies) /\ Plain("start") \in Bodies /\ db \in DbType
    BY LastHashType, BodyTypes DEF TypeOK, DbType, Kinds
  <2>2. db' \in DbType
    BY <1>18, <2>1, AppendType DEF Start
  <2> QED
    BY <1>18, <2>2 DEF Start, diskVars, pathVars, TypeOK
<1> QED
  BY <1>1, <1>2, <1>3, <1>4, <1>5, <1>6, <1>7, <1>8, <1>9, <1>10, <1>11, <1>12, <1>13,
     <1>14, <1>15, <1>16, <1>17, <1>18 DEF Next, Request, Proceed

\* Every variable keeps its type in every behaviour of the daemon.
THEOREM TypeCorrect == Spec => []TypeOK
BY InitTypeOK, NextTypeOK, PTL DEF Spec
-----------------------------------------------------------------------------
(***************************************************************************)
(* The hash chain.  ChainIntact is not inductive by itself: a commit keeps *)
(* the chain only because the hash it builds on is still the last one.     *)
(***************************************************************************)
ChainInv == TypeOK /\ NoTornAppend /\ DownIsIdle /\ ChainIntact

\* A row that builds on the last hash extends a chain that verifies.
LEMMA VerifyAppend ==
  ASSUME NEW events \in Seq(EventRow(Bodies)), NEW body \in Bodies, Verify(events)
  PROVE  Verify(Append(events, NewRow(events, body, LastHash(events))))
<1> DEFINE row == NewRow(events, body, LastHash(events))
           longer == Append(events, row)
<1>1. row \in EventRow(Bodies)
  BY RowType, LastHashType
<1>2. Len(longer) = Len(events) + 1 /\ longer[Len(events) + 1] = row
  BY <1>1
<1>3. \A i \in 1 .. Len(events) : longer[i] = events[i]
  BY <1>1
<1> SUFFICES ASSUME NEW i \in 1 .. Len(events) + 1
             PROVE  /\ Linked(longer, i)
                    /\ longer[i].hash = Hash(longer[i].id, longer[i].body, longer[i].prev)
  BY <1>1, <1>2 DEF Verify
<1>4. CASE i \in 1 .. Len(events)
  <2>1. i \in DOMAIN events
    BY <1>4
  <2>2. Linked(events, i)
    BY <2>1 DEF Verify
  <2>3. i # 1 => i - 1 \in 1 .. Len(events)
    BY <1>4
  <2>4. Linked(longer, i)
    BY <1>3, <1>4, <2>2, <2>3 DEF Linked
  <2> QED
    BY <1>3, <1>4, <2>1, <2>4 DEF Verify
<1>5. CASE i = Len(events) + 1
  <2>1. row.hash = Hash(row.id, row.body, row.prev) /\ row.prev = LastHash(events)
    BY DEF NewRow
  <2>2. CASE events = <<>>
    BY <1>2, <1>5, <2>1, <2>2 DEF Linked, LastHash
  <2>3. CASE events # <<>>
    <3>1. Len(events) \in 1 .. Len(events) /\ Len(events) + 1 # 1
      BY <2>3
    <3> QED
      BY <1>2, <1>3, <1>5, <2>1, <2>3, <3>1 DEF Linked, LastHash
  <2> QED
    BY <2>2, <2>3
<1> QED
  BY <1>4, <1>5

\* The steps that neither append nor take or release the mutex.
QuietStep(r) ==
  \/ Request(r)
  \/ Disconnect(r)
  \/ TarCreates(r)
  \/ TarCreateFails(r)
  \/ \E a \in archives : TarExtracts(r, a)
  \/ TarExtractFails(r)

\* The events, the mutex and the open transaction are as they were.
Quiet ==
  /\ db'.events = db.events /\ db'.whole = db.whole
  /\ lock' = lock
  /\ \A q \in Handlers : h'[q].pc = "tx" => h'[q] = h[q]

\* A commit of the gate touches no event.
LEMMA GateWriteQuiet ==
  ASSUME TypeOK, NEW approvals, GateWrite(approvals)
  PROVE  /\ db'.events = db.events /\ db'.whole = db.whole
         /\ db'.approvals = approvals
BY DEF GateWrite, TypeOK, DbType

\* Replacing the state of one handler by one that is not in a transaction.
LEMMA OtherHandlersStill ==
  ASSUME TypeOK, NEW r \in Handlers, NEW new, new.pc # "tx", h' = [h EXCEPT ![r] = new]
  PROVE  \A q \in Handlers : h'[q].pc = "tx" => h'[q] = h[q]
BY DEF TypeOK

\* A handler that starts to tell is not in a transaction.
LEMMA TellingPc == \A body : Telling(body).pc # "tx"
BY DEF Telling

\* Nor is an idle one.
LEMMA IdlePc == Idle.pc = "idle" /\ Idle.pc # "tx"
BY DEF Idle

\* The steps outside the transaction of an append leave the events and the mutex alone.
LEMMA QuietSteps ==
  ASSUME TypeOK, NEW r \in Handlers, QuietStep(r)
  PROVE  Quiet
<1> USE TellingPc, IdlePc
<1>1. CASE \E cmd \in Commands, id \in ApprovalIds \cup {NoId} : CheckCommand(r, cmd, id)
  BY <1>1, OtherHandlersStill DEF CheckCommand, Quiet
<1>2. CASE \E cmd \in Commands, id \in ApprovalIds : RequestApproval(r, cmd, id)
  BY <1>2, OtherHandlersStill, GateWriteQuiet DEF RequestApproval, Quiet
<1>3. CASE \E id \in ApprovalIds, verdict \in {"approved", "denied"} : Decide(r, id, verdict)
  BY <1>3, OtherHandlersStill, GateWriteQuiet DEF Decide, Quiet
<1>4. CASE AppendOther(r)
  BY <1>4, OtherHandlersStill DEF AppendOther, Quiet
<1>5. CASE BackupCreate(r)
  <2>1. [Idle EXCEPT !.pc = "tar", !.body = OfBackup("backup", requested + 1)].pc # "tx"
    BY DEF Idle
  <2> QED
    BY <1>5, <2>1, OtherHandlersStill DEF BackupCreate, Quiet
<1>6. CASE \E a \in archives : Restore(r, a)
  BY <1>6, OtherHandlersStill DEF Restore, Quiet
<1>7. CASE Disconnect(r)
  BY <1>7, OtherHandlersStill DEF Disconnect, Quiet
<1>8. CASE TarCreates(r) \/ TarCreateFails(r)
  BY <1>8, OtherHandlersStill DEF TarCreates, TarCreateFails, Quiet
<1>9. CASE (\E a \in archives : TarExtracts(r, a)) \/ TarExtractFails(r)
  BY <1>9, OtherHandlersStill DEF TarExtracts, TarExtractFails, Quiet
<1> QED
  BY <1>1, <1>2, <1>3, <1>4, <1>5, <1>6, <1>7, <1>8, <1>9 DEF QuietStep, Request

\* Who is in a transaction after AfterAppend: nobody but a stranger to the mutex.
LEMMA AfterAppendTx ==
  ASSUME TypeOK, NEW r \in Handlers, AfterAppend(r)
  PROVE  \A q \in Handlers : h'[q].pc = "tx" => q # r /\ h'[q] = h[q]
<1>1. [Idle EXCEPT !.pc = "extract", !.body = h[r].body].pc # "tx"
  BY DEF Idle
<1> QED
  BY <1>1, IdlePc DEF AfterAppend, TypeOK

\* Mutual exclusion: a step keeps every open append at the last hash.
LEMMA NextNoTornAppend ==
  ASSUME TypeOK, NoTornAppend, DownIsIdle, [Next]_vars
  PROVE  NoTornAppend' /\ DownIsIdle'
<1> USE AgentdAssumption
<1>1. CASE UNCHANGED vars
  BY <1>1 DEF vars, NoTornAppend, DownIsIdle
<1>2. ASSUME Quiet, up' = up, up \/ h' = h PROVE NoTornAppend' /\ DownIsIdle'
  <2>1. NoTornAppend'
    BY <1>2 DEF Quiet, NoTornAppend
  <2>2. DownIsIdle'
    BY <1>2 DEF Quiet, DownIsIdle
  <2> QED
    BY <2>1, <2>2
<1>3. ASSUME NEW r \in Handlers, h[r] # Idle PROVE up
  BY <1>3 DEF DownIsIdle
<1>4. ASSUME NEW r \in Handlers, QuietStep(r) PROVE NoTornAppend' /\ DownIsIdle'
  <2>1. up' = up
    BY <1>4 DEF QuietStep, Request, CheckCommand, RequestApproval, Decide, AppendOther,
       BackupCreate, Restore, Disconnect, TarCreates, TarCreateFails, TarExtracts,
       TarExtractFails
  <2>2. Request(r) => up
    BY DEF Request, CheckCommand, RequestApproval, Decide, AppendOther,
       BackupCreate, Restore, Accepts
  <2>3. ~Request(r) => h[r] # Idle
    BY <1>4, IdlePc DEF QuietStep, Disconnect, TarCreates, TarCreateFails, TarExtracts,
       TarExtractFails
  <2> QED
    BY <1>2, <1>3, <1>4, <2>1, <2>2, <2>3, QuietSteps
<1>5. ASSUME NEW r \in Handlers, AppendBegin(r) PROVE NoTornAppend' /\ DownIsIdle'
  <2>1. up' /\ up
    BY <1>3, <1>5, IdlePc DEF AppendBegin
  <2>2. ASSUME NEW q \in Handlers, h'[q].pc = "tx"
        PROVE  lock' = q /\ h'[q].prev = LastHash(db'.events)
    <3>1. CASE q = r
      BY <1>5, <3>1 DEF AppendBegin, TypeOK, HandlerType
    <3>2. CASE q # r
      <4>1. h'[q] = h[q]
        BY <1>5, <3>2 DEF AppendBegin, TypeOK
      <4>2. lock = q
        BY <2>2, <4>1 DEF NoTornAppend
      <4> QED
        BY <1>5, <4>2 DEF AppendBegin, Free
    <3> QED
      BY <3>1, <3>2
  <2> QED
    BY <2>1, <2>2 DEF NoTornAppend, DownIsIdle
<1>6. ASSUME NEW r \in Handlers, AppendCommit(r) \/ AppendBusy(r)
      PROVE  NoTornAppend' /\ DownIsIdle'
  <2>1. up' /\ AfterAppend(r) /\ lock = r
    BY <1>3, <1>6, IdlePc DEF AppendCommit, AppendBusy, NoTornAppend
  <2>2. \A q \in Handlers : h'[q].pc # "tx"
    BY <2>1, AfterAppendTx DEF NoTornAppend
  <2> QED
    BY <2>1, <2>2 DEF NoTornAppend, DownIsIdle
<1>7. CASE ExpireTick
  <2>1. Quiet
    BY <1>7, GateWriteQuiet DEF ExpireTick, Quiet
  <2> QED
    BY <1>2, <1>7, <2>1 DEF ExpireTick
<1>8. ASSUME NEW id \in ApprovalIds, TtlPasses(id) PROVE NoTornAppend' /\ DownIsIdle'
  BY <1>2, <1>8 DEF TtlPasses, Quiet
<1>9. CASE Crash
  BY <1>9, IdlePc DEF Crash, NoTornAppend, DownIsIdle
<1>10. CASE Start
  BY <1>10, IdlePc DEF Start, NoTornAppend, DownIsIdle
<1> QED
  BY <1>1, <1>4, <1>5, <1>6, <1>7, <1>8, <1>9, <1>10 DEF Next, QuietStep, Proceed

\* A step that keeps the events at hand, drops archives or adds a copy of the
\* files at the path, or puts an archive there, has no new events to verify; nor
\* has one that leaves a wreck.
CopiesOnly ==
  /\ db'.events = db.events /\ db'.whole = db.whole
  /\ restored' = restored \/ restored' \in Wreckage \/ \E a \in archives : restored' = a.db
  /\ \A a \in archives' : a \in archives \/ a.db = OnDisk \/ a.db \in Wreckage

\* Those steps also make no new copy of the database, they move copies about.
LEMMA CopiesOnlySteps ==
  ASSUME TypeOK, NEW r \in Handlers, QuietStep(r)
  PROVE  CopiesOnly
<1>1. db'.events = db.events /\ db'.whole = db.whole
  BY QuietSteps DEF Quiet
<1>2. CASE Request(r) \/ Disconnect(r)
  BY <1>1, <1>2 DEF Request, CheckCommand, RequestApproval, Decide, AppendOther, BackupCreate,
     Restore, Disconnect, diskVars, pathVars, CopiesOnly
<1>3. CASE TarCreates(r) \/ TarCreateFails(r)
  BY <1>1, <1>3 DEF TarCreates, TarCreateFails, Copied, Archive, CopiesOnly
<1>4. CASE (\E a \in archives : TarExtracts(r, a)) \/ TarExtractFails(r)
  BY <1>1, <1>4 DEF TarExtracts, TarExtractFails, Copied, Replaced, CopiesOnly
<1> QED
  BY <1>2, <1>3, <1>4 DEF QuietStep

\* What tar and the next start read is one of the copies.
LEMMA OnDiskIsCopy == OnDisk \in Copies
BY DEF OnDisk, Copies

\* Every step keeps every copy verifiable.
LEMMA NextChainIntact ==
  ASSUME TypeOK, NoTornAppend, ChainIntact, [Next]_vars
  PROVE  ChainIntact'
<1>0. \A w \in Wreckage : ~w.whole
  BY WrecksAssumption DEF Wreckage
<1>1. /\ db.whole => Verify(db.events)
      /\ restored.whole => Verify(restored.events)
      /\ OnDisk.whole => Verify(OnDisk.events)
  BY OnDiskIsCopy DEF ChainIntact, Copies
<1>2. \A a \in archives : a.db.whole => Verify(a.db.events)
  BY DEF ChainIntact, Copies
<1>3. ASSUME db'.whole => Verify(db'.events), restored'.whole => Verify(restored'.events),
             \A a \in archives' : a.db.whole => Verify(a.db.events)
      PROVE  ChainIntact'
  BY <1>3 DEF ChainIntact, Copies
<1>4. ASSUME CopiesOnly PROVE ChainIntact'
  BY <1>0, <1>1, <1>2, <1>3, <1>4 DEF CopiesOnly
<1>5. CASE UNCHANGED vars
  BY <1>4, <1>5 DEF vars, CopiesOnly
<1>6. ASSUME NEW r \in Handlers, QuietStep(r) PROVE ChainIntact'
  BY <1>4, <1>6, CopiesOnlySteps
<1>7. ASSUME NEW r \in Handlers, AppendBegin(r) PROVE ChainIntact'
  BY <1>4, <1>7 DEF AppendBegin, diskVars, pathVars, CopiesOnly
<1>8. ASSUME NEW r \in Handlers, AppendCommit(r) PROVE ChainIntact'
  <2>1. db.events \in Seq(EventRow(Bodies)) /\ h[r].body \in Bodies
    BY DEF TypeOK, DbType, HandlerType
  <2>2. h[r].prev = LastHash(db.events)
    BY <1>8 DEF AppendCommit, NoTornAppend
  <2>3. db'.events = Append(db.events, NewRow(db.events, h[r].body, LastHash(db.events)))
    BY <1>8, <2>2 DEF AppendCommit, TypeOK, DbType
  <2>4. db'.whole => Verify(db'.events)
    <3>1. db'.whole = db.whole
      BY <1>8 DEF AppendCommit, TypeOK, DbType
    <3> QED
      BY <1>1, <2>1, <2>3, <3>1, VerifyAppend
  <2>5. restored' = restored /\ archives' \subseteq archives
    BY <1>8, AfterAppendType DEF AppendCommit
  <2> QED
    BY <1>1, <1>2, <1>3, <2>4, <2>5
<1>9. ASSUME NEW r \in Handlers, AppendBusy(r) PROVE ChainIntact'
  BY <1>4, <1>9, AfterAppendType DEF AppendBusy, CopiesOnly
<1>10. CASE ExpireTick
  BY <1>4, <1>10, GateWriteQuiet DEF ExpireTick, pathVars, CopiesOnly
<1>11. ASSUME NEW id \in ApprovalIds, TtlPasses(id) PROVE ChainIntact'
  BY <1>4, <1>11 DEF TtlPasses, diskVars, pathVars, CopiesOnly
<1>12. CASE Crash
  <2>1. Verify(EmptyDb.events)
    BY DEF EmptyDb, Verify
  <2>2. db' = OnDisk \/ db' \in Wreckage
    BY <1>12 DEF Crash, Copied
  <2> QED
    BY <1>0, <1>1, <1>2, <1>3, <1>12, <2>1, <2>2 DEF Crash
<1>13. CASE Start
  <2>1. db.events \in Seq(EventRow(Bodies)) /\ Plain("start") \in Bodies
    BY BodyTypes DEF TypeOK, DbType, Kinds
  <2>2. CASE db' = db
    BY <1>1, <1>2, <1>3, <1>13, <2>2 DEF Start, diskVars, pathVars
  <2>3. CASE db' # db
    <3>1. /\ db'.events = Append(db.events, NewRow(db.events, Plain("start"), LastHash(db.events)))
          /\ db'.whole = db.whole
      BY <1>13, <2>3 DEF Start, TypeOK, DbType
    <3>2. db'.whole => Verify(db'.events)
      BY <1>1, <2>1, <3>1, VerifyAppend
    <3> QED
      BY <1>1, <1>2, <1>3, <1>13, <3>2 DEF Start, diskVars, pathVars
  <2> QED
    BY <2>2, <2>3
<1> QED
  BY <1>5, <1>6, <1>7, <1>8, <1>9, <1>10, <1>11, <1>12, <1>13 DEF Next, QuietStep, Proceed

\* The invariant of the chain holds at the start ...
LEMMA InitChainInv == Init => ChainInv
<1> SUFFICES ASSUME Init PROVE ChainInv
  OBVIOUS
<1>1. NoTornAppend /\ DownIsIdle
  BY IdlePc DEF Init, NoTornAppend, DownIsIdle
<1>2. Verify(EmptyDb.events)
  BY DEF EmptyDb, Verify
<1>3. ChainIntact
  BY <1>2 DEF Init, ChainIntact, Copies
<1> QED
  BY <1>1, <1>3, InitTypeOK DEF ChainInv

\* ... and every step keeps it.
LEMMA NextChainInv == ChainInv /\ [Next]_vars => ChainInv'
BY NextTypeOK, NextNoTornAppend, NextChainIntact DEF ChainInv

\* No interleaving of appends works with a hash that is not the last one.
THEOREM AppendsNeverTorn == Spec => []NoTornAppend
<1>1. ChainInv => NoTornAppend
  BY DEF ChainInv
<1> QED
  BY <1>1, InitChainInv, NextChainInv, PTL DEF Spec

\* Whatever handlers, crashes, backups and restores do, every whole copy of the
\* ledger verifies: one that no tar was disturbed or failed on the way to.
THEOREM ChainAlwaysIntact == Spec => []ChainIntact
<1>1. ChainInv => ChainIntact
  BY DEF ChainInv
<1> QED
  BY <1>1, InitChainInv, NextChainInv, PTL DEF Spec
-----------------------------------------------------------------------------
(***************************************************************************)
(* The audit trail.  The invariant speaks of one copy of the database at a *)
(* time, and of the events that are on their way to the daemon's copy.     *)
(***************************************************************************)
CopyOK(d, ids) ==
  /\ d.whole => /\ \A body \in Says(d) : Truthful(body, d.approvals)
                /\ \A i, j \in DOMAIN d.events :
                     SameFact(d.events[i].body, d.events[j].body) => i = j
  /\ \A id \in ApprovalIds \ ids : d.approvals[id] = NoTicket

FlightOK ==
  /\ \A r \in Pending : Truthful(h[r].body, db.approvals)
  /\ db.whole => \A r \in Pending : \A body \in Says(db) : ~SameFact(h[r].body, body)
  /\ \A r, q \in Pending : SameFact(h[r].body, h[q].body) => r = q
  /\ \A r \in Handlers : h[r].pc = "tar" => h[r].body.kind = "backup"

CopiesOK == \A d \in Copies : CopyOK(d, minted)

AuditInv == TypeOK /\ DownIsIdle /\ CopiesOK /\ FlightOK

\* The inductive invariant is strong enough.
LEMMA AuditInvImplies == AuditInv => AuditSound /\ AuditOnce /\ UnmintedUnused
BY DEF AuditInv, CopiesOK, CopyOK, FlightOK, AuditSound, AuditOnce, UnmintedUnused

\* A ticket may be filed, or settled while it is pending: what was true stays true.
Settling(old, new) ==
  \A id \in ApprovalIds :
    \/ new[id] = old[id]
    \/ old[id] = NoTicket
    \/ /\ old[id].status = "pending"
       /\ new[id].command = old[id].command
       /\ new[id].status # "none"

\* Filing and settling pending tickets contradicts nothing that was true.
LEMMA TruthKept ==
  ASSUME NEW old \in [ApprovalIds -> TicketType], NEW new \in [ApprovalIds -> TicketType],
         Settling(old, new), NEW body \in Bodies, Truthful(body, old)
  PROVE  Truthful(body, new)
BY DEF Settling, Truthful, NoTicket, Bodies, Kinds

\* Events that state no fact about a ticket.
LEMMA PlainTruth ==
  ASSUME NEW body \in Bodies, body.kind \in {"start", "other", "backup", "restore"}
  PROVE  /\ \A approvals : Truthful(body, approvals)
         /\ \A b : ~SameFact(body, b) /\ ~SameFact(b, body)
BY DEF Truthful, SameFact

\* It does not matter which of two events came first.
LEMMA SameFactSymmetric == \A b1, b2 : SameFact(b1, b2) <=> SameFact(b2, b1)
BY DEF SameFact

\* An append that tells a truth for the first time keeps a copy sound.
LEMMA AppendKeepsCopy ==
  ASSUME NEW d \in DbType, NEW ids, CopyOK(d, ids), NEW body \in Bodies,
         NEW prev \in Digest(Bodies), d.whole => Truthful(body, d.approvals),
         d.whole => \A b \in Says(d) : ~SameFact(body, b)
  PROVE  LET new == [d EXCEPT !.events = Append(@, NewRow(@, body, prev))]
         IN  CopyOK(new, ids) /\ Says(new) = Says(d) \cup {body}
<1> DEFINE row == NewRow(d.events, body, prev)
           new == [d EXCEPT !.events = Append(@, NewRow(@, body, prev))]
<1>1. d.events \in Seq(EventRow(Bodies)) /\ row \in EventRow(Bodies)
  BY RowType DEF DbType
<1>2. /\ new.events = Append(d.events, row) /\ new.approvals = d.approvals
      /\ new.whole = d.whole
  BY DEF DbType
<1>3. row.body = body
  BY DEF NewRow
<1>4. /\ DOMAIN new.events = 1 .. Len(d.events) + 1
      /\ DOMAIN d.events = 1 .. Len(d.events)
      /\ Len(d.events) \in Nat
      /\ new.events[Len(d.events) + 1].body = body
      /\ \A i \in DOMAIN d.events : new.events[i] = d.events[i]
  BY <1>1, <1>2, <1>3
<1>5. Says(new) = Says(d) \cup {body}
  BY <1>4 DEF Says
<1>6. ASSUME d.whole, NEW i \in DOMAIN new.events, NEW j \in DOMAIN new.events,
             SameFact(new.events[i].body, new.events[j].body)
      PROVE  i = j
  <2>1. CASE i \in DOMAIN d.events /\ j \in DOMAIN d.events
    BY <1>4, <1>6, <2>1 DEF CopyOK
  <2>2. CASE i \in DOMAIN d.events /\ j = Len(d.events) + 1
    BY <1>4, <1>6, <2>2, SameFactSymmetric DEF Says
  <2>3. CASE i = Len(d.events) + 1 /\ j \in DOMAIN d.events
    BY <1>4, <1>6, <2>3 DEF Says
  <2>4. CASE i = Len(d.events) + 1 /\ j = Len(d.events) + 1
    BY <2>4
  <2> QED
    BY <1>4, <2>1, <2>2, <2>3, <2>4
<1> QED
  BY <1>2, <1>5, <1>6 DEF CopyOK

\* Of a wreck only the ids are said anything.
LEMMA WreckCopyOK == \A w \in Wreckage : CopyOK(w, minted)
BY WrecksAssumption DEF Wreckage, CopyOK

\* Sound copies in a step that moves whole copies about and mints nothing away.
LEMMA CopiesMove ==
  ASSUME CopiesOK, minted \subseteq minted', CopyOK(db', minted'),
         \/ restored' = restored
         \/ restored' = EmptyDb
         \/ restored' \in Wreckage
         \/ \E a \in archives : restored' = a.db,
         \A a \in archives' : a \in archives \/ a.db = OnDisk \/ a.db \in Wreckage
  PROVE  CopiesOK'
<1>1. ASSUME NEW d, CopyOK(d, minted) PROVE CopyOK(d, minted')
  BY <1>1 DEF CopyOK
<1>2. CopyOK(EmptyDb, minted')
  BY DEF CopyOK, EmptyDb, Says
<1>3. \A d \in Copies : CopyOK(d, minted')
  BY <1>1 DEF CopiesOK
<1>4. CopyOK(OnDisk, minted')
  BY <1>3, OnDiskIsCopy
<1>w. \A w \in Wreckage : CopyOK(w, minted')
  BY <1>1, WreckCopyOK
<1>5. CopyOK(restored', minted')
  BY <1>2, <1>3, <1>w DEF Copies
<1>6. \A a \in archives' : CopyOK(a.db, minted')
  BY <1>3, <1>4, <1>w DEF Copies
<1> QED
  BY <1>5, <1>6 DEF CopiesOK, Copies

\* The commit of the gate that files a ticket or settles pending ones.
LEMMA GateKeepsCopy ==
  ASSUME TypeOK, CopiesOK, NEW new \in [ApprovalIds -> TicketType], GateWrite(new),
         Settling(db.approvals, new), minted \subseteq minted',
         \A id \in ApprovalIds \ minted' : new[id] = NoTicket
  PROVE  /\ CopyOK(db', minted') /\ Says(db') = Says(db)
         /\ db'.approvals = new /\ db'.whole = db.whole
<1>1. CopyOK(db, minted)
  BY DEF CopiesOK, Copies
<1>2. db'.events = db.events /\ db'.approvals = new /\ db'.whole = db.whole
  BY GateWriteQuiet
<1>3. Says(db') = Says(db)
  BY <1>2 DEF Says
<1>4. db.approvals \in [ApprovalIds -> TicketType]
  BY DEF TypeOK, DbType
<1>5. \A body \in Says(db) : body \in Bodies
  <2>1. db.events \in Seq(EventRow(Bodies))
    BY DEF TypeOK, DbType
  <2>2. \A i \in DOMAIN db.events : db.events[i] \in EventRow(Bodies)
    BY <2>1
  <2> QED
    BY <2>2 DEF Says, EventRow
<1>6. db.whole => \A body \in Says(db) : Truthful(body, new)
  BY <1>1, <1>4, <1>5, TruthKept DEF CopyOK
<1> QED
  BY <1>1, <1>2, <1>3, <1>6 DEF CopyOK

\* A handler that decides: what it will tell is true and new, the rest stays true.
LEMMA FlightTells ==
  ASSUME TypeOK, FlightOK, NEW r \in Handlers, h[r].pc \notin {"ledger", "tx"},
         NEW body \in Bodies, h' = [h EXCEPT ![r] = Telling(body)],
         Says(db') = Says(db), db'.whole = db.whole, Settling(db.approvals, db'.approvals),
         db'.approvals \in [ApprovalIds -> TicketType],
         Truthful(body, db'.approvals),
         db.whole => \A b \in Says(db) : ~SameFact(body, b),
         \A q \in Pending : ~SameFact(body, h[q].body)
  PROVE  FlightOK'
<1>1. h'[r].pc = "ledger" /\ h'[r].body = body
  BY DEF TypeOK, Telling
<1>2. \A q \in Handlers \ {r} : h'[q] = h[q]
  BY DEF TypeOK
<1>3. Pending' = Pending \cup {r} /\ r \notin Pending
  BY <1>1, <1>2 DEF Pending
<1>4. \A q \in Pending : h[q].body \in Bodies /\ q # r /\ h'[q].body = h[q].body
  BY <1>2, <1>3 DEF Pending, TypeOK, HandlerType
<1>5. db.approvals \in [ApprovalIds -> TicketType]
  BY DEF TypeOK, DbType
<1>6. \A q \in Pending' : Truthful(h'[q].body, db'.approvals)
  BY <1>1, <1>3, <1>4, <1>5, TruthKept DEF FlightOK
<1>7. db'.whole => \A q \in Pending' : \A b \in Says(db') : ~SameFact(h'[q].body, b)
  BY <1>1, <1>3, <1>4 DEF FlightOK
<1>8. \A q1, q2 \in Pending' : SameFact(h'[q1].body, h'[q2].body) => q1 = q2
  BY <1>1, <1>3, <1>4, SameFactSymmetric DEF FlightOK
<1>9. \A q \in Handlers : h'[q].pc = "tar" => h'[q].body.kind = "backup"
  BY <1>1, <1>2 DEF FlightOK
<1> QED
  BY <1>6, <1>7, <1>8, <1>9 DEF FlightOK

\* No one starts to tell anything, and what there is to tell stays true.
LEMMA FlightStill ==
  ASSUME TypeOK, FlightOK, Says(db') = Says(db), db'.whole = db.whole,
         Settling(db.approvals, db'.approvals),
         db'.approvals \in [ApprovalIds -> TicketType],
         \A q \in Pending' : q \in Pending /\ h'[q].body = h[q].body,
         \A q \in Handlers : h'[q].pc = "tar" => h'[q].body.kind = "backup"
  PROVE  FlightOK'
<1>1. db.approvals \in [ApprovalIds -> TicketType]
  BY DEF TypeOK, DbType
<1>2. \A q \in Pending : h[q].body \in Bodies
  BY DEF Pending, TypeOK, HandlerType
<1>3. \A q \in Pending' : Truthful(h'[q].body, db'.approvals)
  BY <1>1, <1>2, TruthKept DEF FlightOK
<1> QED
  BY <1>3 DEF FlightOK

\* Leaving the tickets alone settles nothing.
LEMMA SettlingSame == \A old : Settling(old, old)
BY DEF Settling

\* The handler becomes one that has nothing to append.
LEMMA FlightLeaves ==
  ASSUME TypeOK, FlightOK, NEW r \in Handlers, NEW new, h' = [h EXCEPT ![r] = new],
         new.pc \notin {"ledger", "tx"}, new.pc = "tar" => new.body.kind = "backup", db' = db
  PROVE  FlightOK'
<1>1. \A q \in Handlers : h'[q] = IF q = r THEN new ELSE h[q]
  BY DEF TypeOK
<1>2. \A q \in Pending' : q \in Pending /\ h'[q].body = h[q].body
  BY <1>1 DEF Pending
<1>3. \A q \in Handlers : h'[q].pc = "tar" => h'[q].body.kind = "backup"
  BY <1>1 DEF FlightOK
<1>4. db'.approvals \in [ApprovalIds -> TicketType] /\ Says(db') = Says(db)
  BY DEF TypeOK, DbType
<1> QED
  BY <1>2, <1>3, <1>4, FlightStill, SettlingSame

\* Every step keeps the audit invariant: one step of the proof per action.
LEMMA NextAuditInv ==
  ASSUME AuditInv, NoTornAppend, [Next]_vars
  PROVE  CopiesOK' /\ FlightOK'
<1> USE AgentdAssumption
<1>0. /\ TypeOK /\ DownIsIdle /\ CopiesOK /\ FlightOK /\ CopyOK(db, minted)
      /\ db.approvals \in [ApprovalIds -> TicketType]
      /\ db.whole => \A b \in Says(db) : Truthful(b, db.approvals)
      /\ \A q \in Pending : Truthful(h[q].body, db.approvals)
  BY DEF AuditInv, CopiesOK, Copies, CopyOK, FlightOK, TypeOK, DbType
<1> USE <1>0
<1>1. CASE UNCHANGED vars
  BY <1>1 DEF vars, CopiesOK, Copies, CopyOK, FlightOK, Pending, Says
<1>2. ASSUME db' = db, minted \subseteq minted', diskVars' = diskVars PROVE CopiesOK'
  <2>1. CopyOK(db', minted')
    BY <1>2 DEF CopyOK
  <2> QED
    BY <1>2, <2>1, CopiesMove DEF diskVars, pathVars
<1>3. ASSUME NEW r \in Handlers, NEW cmd \in Commands,
             NEW id \in ApprovalIds \cup {NoId}, CheckCommand(r, cmd, id)
      PROVE  CopiesOK' /\ FlightOK'
  <2> DEFINE allow == Authorised(db.approvals, cmd, id)
             body == [OfTicket("check", id, cmd) EXCEPT !.allow = allow]
  <2>1. body \in Bodies
    BY BodyTypes DEF Kinds, Authorised
  <2>2. /\ body.kind = "check" /\ body.id = id /\ body.cmd = cmd
        /\ body.allow = allow
    BY DEF OfTicket, Plain
  <2>3. Truthful(body, db.approvals)
    BY <2>2 DEF Truthful, Authorised
  <2>4. \A b : ~SameFact(body, b)
    BY <2>2 DEF SameFact
  <2>5. /\ h[r].pc \notin {"ledger", "tx"} /\ h' = [h EXCEPT ![r] = Telling(body)]
        /\ db' = db /\ minted' = minted /\ diskVars' = diskVars
    BY <1>3, IdlePc DEF CheckCommand, Accepts, diskVars
  <2>6. FlightOK'
    BY <2>1, <2>3, <2>4, <2>5, FlightTells, SettlingSame
  <2> QED
    BY <1>2, <2>5, <2>6
<1>4. ASSUME NEW r \in Handlers, NEW cmd \in Commands, NEW id \in ApprovalIds,
             RequestApproval(r, cmd, id)
      PROVE  CopiesOK' /\ FlightOK'
  <2> DEFINE new == [db.approvals EXCEPT ![id] = [command |-> cmd, status |-> "pending"]]
             body == OfTicket("requested", id, cmd)
  <2>1. db.approvals[id] = NoTicket
    BY <1>4 DEF RequestApproval, CopyOK
  <2>2. new \in [ApprovalIds -> TicketType] /\ Settling(db.approvals, new)
    BY <2>1 DEF TicketType, Statuses, Settling
  <2>3. \A i \in ApprovalIds \ minted' : new[i] = NoTicket
    BY <1>4 DEF RequestApproval, CopyOK
  <2>4. /\ CopyOK(db', minted') /\ Says(db') = Says(db) /\ db'.approvals = new
        /\ db'.whole = db.whole
    BY <1>4, <2>2, <2>3, GateKeepsCopy DEF RequestApproval
  <2>5. CopiesOK'
    BY <1>4, <2>4, CopiesMove DEF RequestApproval, pathVars
  <2>6. body \in Bodies /\ body.kind = "requested" /\ body.id = id /\ body.cmd = cmd
    BY BodyTypes DEF Kinds, OfTicket, Plain
  <2>7. Truthful(body, new)
    BY <2>6 DEF Truthful
  <2>8. ASSUME NEW b, Truthful(b, db.approvals) PROVE ~SameFact(body, b)
    BY <2>1, <2>6, <2>8 DEF SameFact, Truthful, NoTicket
  <2>9. h[r].pc \notin {"ledger", "tx"} /\ h' = [h EXCEPT ![r] = Telling(body)]
    BY <1>4, IdlePc DEF RequestApproval, Accepts
  <2>10. FlightOK'
    BY <2>2, <2>4, <2>6, <2>7, <2>8, <2>9, FlightTells
  <2> QED
    BY <2>5, <2>10
<1>5. ASSUME NEW r \in Handlers, NEW id \in ApprovalIds,
             NEW verdict \in {"approved", "denied"}, Decide(r, id, verdict)
      PROVE  CopiesOK' /\ FlightOK'
  <2> DEFINE new == [db.approvals EXCEPT ![id].status = verdict]
             body == OfTicket(verdict, id, db.approvals[id].command)
  <2>1. db.approvals[id].status = "pending"
    BY <1>5 DEF Decide, Decidable
  <2>2. /\ new \in [ApprovalIds -> TicketType] /\ Settling(db.approvals, new)
        /\ new[id].status = verdict /\ new[id].command = db.approvals[id].command
    BY <2>1 DEF TicketType, Statuses, Settling
  <2>3. \A i \in ApprovalIds \ minted' : new[i] = NoTicket
    BY <1>5, <2>1 DEF Decide, CopyOK, NoTicket
  <2>4. /\ CopyOK(db', minted') /\ Says(db') = Says(db) /\ db'.approvals = new
        /\ db'.whole = db.whole
    BY <1>5, <2>2, <2>3, GateKeepsCopy DEF Decide
  <2>5. CopiesOK'
    BY <1>5, <2>4, CopiesMove DEF Decide, pathVars
  <2>6. /\ body \in Bodies /\ body.kind = verdict /\ body.id = id
        /\ body.cmd = db.approvals[id].command
    BY BodyTypes DEF Kinds, OfTicket, Plain, TicketType
  <2>7. Truthful(body, new)
    BY <2>2, <2>6 DEF Truthful
  <2>8. ASSUME NEW b, Truthful(b, db.approvals) PROVE ~SameFact(body, b)
    BY <2>1, <2>6, <2>8 DEF SameFact, Truthful
  <2>9. h[r].pc \notin {"ledger", "tx"} /\ h' = [h EXCEPT ![r] = Telling(body)]
    BY <1>5, IdlePc DEF Decide, Accepts
  <2>10. FlightOK'
    BY <2>2, <2>4, <2>6, <2>7, <2>8, <2>9, FlightTells
  <2> QED
    BY <2>5, <2>10
<1>6. ASSUME NEW r \in Handlers, NEW body \in Bodies,
             body.kind \in {"other", "backup", "restore"},
             h[r].pc \notin {"ledger", "tx"}, h' = [h EXCEPT ![r] = Telling(body)], db' = db
      PROVE  FlightOK'
  BY <1>6, PlainTruth, FlightTells, SettlingSame
<1>7. ASSUME NEW r \in Handlers, AppendOther(r) \/ (\E a \in archives : Restore(r, a))
      PROVE  CopiesOK' /\ FlightOK'
  <2>1. db' = db /\ minted' = minted /\ diskVars' = diskVars
    BY <1>7 DEF AppendOther, Restore, diskVars
  <2>2. h[r].pc \notin {"ledger", "tx"}
    BY <1>7, IdlePc DEF AppendOther, Restore, Accepts
  <2>3. Plain("other") \in Bodies /\ Plain("other").kind = "other"
    BY BodyTypes DEF Kinds, Plain
  <2>4. \A a \in archives : /\ OfBackup("restore", a.name) \in Bodies
                            /\ OfBackup("restore", a.name).kind = "restore"
    BY BodyTypes DEF Kinds, OfBackup, Plain, TypeOK
  <2>5. FlightOK'
    BY <1>6, <1>7, <2>1, <2>2, <2>3, <2>4 DEF AppendOther, Restore
  <2> QED
    BY <1>2, <2>1, <2>5
<1>8. ASSUME NEW r \in Handlers, BackupCreate(r) PROVE CopiesOK' /\ FlightOK'
  <2> DEFINE new == [Idle EXCEPT !.pc = "tar", !.body = OfBackup("backup", requested + 1)]
  <2>1. new.pc = "tar" /\ new.body.kind = "backup"
    BY DEF Idle, OfBackup, Plain
  <2>2. FlightOK'
    BY <1>8, <2>1, FlightLeaves DEF BackupCreate
  <2>3. CopyOK(db', minted')
    BY <1>8 DEF BackupCreate
  <2>4. CopiesOK'
    BY <1>8, <2>3, CopiesMove DEF BackupCreate
  <2> QED
    BY <2>2, <2>4
<1>9. ASSUME NEW r \in Handlers, AppendBegin(r) PROVE CopiesOK' /\ FlightOK'
  <2>1. /\ db' = db /\ minted' = minted /\ diskVars' = diskVars
        /\ h[r].pc = "ledger" /\ h'[r].pc = "tx" /\ h'[r].body = h[r].body
        /\ \A q \in Handlers \ {r} : h'[q] = h[q]
    BY <1>9 DEF AppendBegin, diskVars, TypeOK, HandlerType
  <2>2. \A q \in Pending' : q \in Pending /\ h'[q].body = h[q].body
    BY <2>1 DEF Pending
  <2>3. \A q \in Handlers : h'[q].pc = "tar" => h'[q].body.kind = "backup"
    BY <2>1 DEF FlightOK
  <2>4. FlightOK'
    BY <2>1, <2>2, <2>3, FlightStill, SettlingSame
  <2> QED
    BY <1>2, <2>1, <2>4
<1>10. ASSUME NEW r \in Handlers, AfterAppend(r), h[r].pc = "tx"
       PROVE  /\ Pending' = Pending \ {r}
              /\ \A q \in Handlers \ {r} : h'[q] = h[q]
              /\ h'[r].pc # "tar"
  <2>1. h'[r] = Idle \/ h'[r] = [Idle EXCEPT !.pc = "extract", !.body = h[r].body]
    BY <1>10 DEF AfterAppend, TypeOK
  <2>2. h'[r].pc \in {"idle", "extract"}
    <3>1. [Idle EXCEPT !.pc = "extract", !.body = h[r].body].pc = "extract"
      BY DEF Idle
    <3> QED
      BY <2>1, <3>1, IdlePc
  <2>3. \A q \in Handlers \ {r} : h'[q] = h[q]
    BY <1>10 DEF AfterAppend, TypeOK
  <2>4. h'[r].pc \notin {"ledger", "tx"} /\ h'[r].pc # "tar"
    BY <2>2
  <2>5. Pending' = Pending \ {r}
    BY <2>3, <2>4 DEF Pending
  <2> QED
    BY <2>3, <2>4, <2>5
<1>11. ASSUME NEW r \in Handlers, AppendCommit(r) PROVE CopiesOK' /\ FlightOK'
  <2>1. /\ h[r].pc = "tx" /\ AfterAppend(r) /\ r \in Pending
        /\ h[r].body \in Bodies /\ h[r].prev \in Digest(Bodies)
    BY <1>11 DEF AppendCommit, Pending, TypeOK, HandlerType
  <2>2. /\ Truthful(h[r].body, db.approvals)
        /\ db.whole => \A b \in Says(db) : ~SameFact(h[r].body, b)
    BY <2>1 DEF FlightOK
  <2>3. db \in DbType
    BY DEF TypeOK
  <2>4. db' = [db EXCEPT !.events = Append(@, NewRow(@, h[r].body, h[r].prev))]
    BY <1>11 DEF AppendCommit
  <2>5. CopyOK(db', minted) /\ Says(db') = Says(db) \cup {h[r].body}
    BY <2>1, <2>2, <2>3, <2>4, AppendKeepsCopy
  <2>6. db'.approvals = db.approvals /\ db'.whole = db.whole
    BY <2>3, <2>4 DEF DbType
  <2>7. CopiesOK'
    BY <1>11, <2>1, <2>5, AfterAppendType, CopiesMove DEF AppendCommit
  <2>8. /\ Pending' = Pending \ {r}
        /\ \A q \in Handlers \ {r} : h'[q] = h[q]
        /\ h'[r].pc # "tar"
    BY <1>10, <2>1
  <2>9. \A q \in Pending' : q \in Pending /\ q # r /\ h'[q] = h[q]
    BY <2>8 DEF Pending
  <2>10. db'.whole => \A q \in Pending' : \A b \in Says(db') : ~SameFact(h'[q].body, b)
    BY <2>1, <2>5, <2>6, <2>9 DEF FlightOK
  <2>11. \A q \in Handlers : h'[q].pc = "tar" => h'[q].body.kind = "backup"
    BY <2>8 DEF FlightOK
  <2>12. FlightOK'
    BY <2>6, <2>9, <2>10, <2>11 DEF FlightOK
  <2> QED
    BY <2>7, <2>12
<1>12. ASSUME NEW r \in Handlers, AppendBusy(r) PROVE CopiesOK' /\ FlightOK'
  <2>1. AfterAppend(r) /\ h[r].pc = "tx" /\ db' = db /\ minted' = minted
    BY <1>12 DEF AppendBusy
  <2>2. \A q \in Pending' : q \in Pending /\ h'[q].body = h[q].body
    BY <1>10, <2>1 DEF Pending
  <2>3. \A q \in Handlers : h'[q].pc = "tar" => h'[q].body.kind = "backup"
    BY <1>10, <2>1 DEF FlightOK
  <2>4. FlightOK'
    BY <2>1, <2>2, <2>3, FlightStill, SettlingSame
  <2>5. CopiesOK'
    BY <1>12, <2>1, AfterAppendType, CopiesMove DEF AppendBusy
  <2> QED
    BY <2>4, <2>5
<1>13. ASSUME NEW r \in Handlers, Disconnect(r) PROVE CopiesOK' /\ FlightOK'
  <2>1. /\ db' = db /\ minted' = minted /\ diskVars' = diskVars
        /\ h' = [h EXCEPT ![r] = Idle]
    BY <1>13 DEF Disconnect, diskVars
  <2>2. FlightOK'
    BY <2>1, IdlePc, FlightLeaves
  <2> QED
    BY <1>2, <2>1, <2>2
<1>14. ASSUME NEW r \in Handlers, TarCreates(r) PROVE CopiesOK' /\ FlightOK'
  <2>1. /\ h[r].pc = "tar" /\ h[r].body \in Bodies /\ h[r].body.kind = "backup"
        /\ h' = [h EXCEPT ![r] = Telling(h[r].body)] /\ db' = db
    BY <1>14 DEF TarCreates, FlightOK, TypeOK, HandlerType
  <2>2. FlightOK'
    BY <1>6, <2>1
  <2>3. CopiesOK'
    BY <1>14, CopiesMove DEF TarCreates, Archive, Copied
  <2> QED
    BY <2>2, <2>3
<1>15. ASSUME NEW r \in Handlers,
              \/ TarCreateFails(r)
              \/ \E a \in archives : TarExtracts(r, a)
              \/ TarExtractFails(r)
       PROVE  CopiesOK' /\ FlightOK'
  <2>1. h' = [h EXCEPT ![r] = Idle] /\ db' = db /\ minted' = minted
    BY <1>15 DEF TarCreateFails, TarExtracts, TarExtractFails
  <2>2. FlightOK'
    BY <2>1, IdlePc, FlightLeaves
  <2>3. CopiesOK'
    BY <1>15, <2>1, CopiesMove
    DEF TarCreateFails, TarExtracts, TarExtractFails, Archive, Copied, Replaced
  <2> QED
    BY <2>2, <2>3
<1>16. CASE ExpireTick
  <2> DEFINE ids == Overdue(db.approvals)
             new == [id \in ApprovalIds |->
                       IF id \in ids THEN [db.approvals[id] EXCEPT !.status = "expired"]
                                     ELSE db.approvals[id]]
  <2>1. CASE ids = {}
    <3>1. db' = db /\ minted' = minted /\ diskVars' = diskVars /\ h' = h
      BY <1>16, <2>1 DEF ExpireTick, diskVars, pathVars
    <3>2. FlightOK'
      BY <3>1 DEF FlightOK, Pending
    <3> QED
      BY <1>2, <3>1, <3>2
  <2>2. CASE ids # {}
    <3>1. new \in [ApprovalIds -> TicketType] /\ Settling(db.approvals, new)
      BY DEF TicketType, Statuses, Settling, Overdue
    <3>2. \A i \in ApprovalIds \ minted : new[i] = NoTicket
      BY DEF CopyOK, Overdue, NoTicket
    <3>3. /\ GateWrite(new) /\ h' = h /\ minted' = minted
          /\ restored' = restored /\ archives' = archives
      BY <1>16, <2>2 DEF ExpireTick, pathVars
    <3>4. /\ CopyOK(db', minted') /\ Says(db') = Says(db) /\ db'.approvals = new
        /\ db'.whole = db.whole
      BY <3>1, <3>2, <3>3, GateKeepsCopy
    <3>5. CopiesOK'
      BY <3>3, <3>4, CopiesMove
    <3>6. Pending' = Pending
      BY <3>3 DEF Pending
    <3>7. FlightOK'
      BY <3>1, <3>3, <3>4, <3>6, FlightStill DEF FlightOK
    <3> QED
      BY <3>5, <3>7
  <2> QED
    BY <2>1, <2>2
<1>17. ASSUME NEW id \in ApprovalIds, TtlPasses(id) PROVE CopiesOK' /\ FlightOK'
  <2>1. db' = db /\ minted' = minted /\ diskVars' = diskVars /\ h' = h
    BY <1>17 DEF TtlPasses, diskVars
  <2>2. FlightOK'
    BY <2>1 DEF FlightOK, Pending
  <2> QED
    BY <1>2, <2>1, <2>2
<1>18. CASE Crash
  <2>1. CopyOK(db', minted')
    BY <1>18, OnDiskIsCopy, WreckCopyOK DEF Crash, Copied, CopiesOK
  <2>2. CopiesOK'
    BY <1>18, <2>1, CopiesMove DEF Crash
  <2>3. Pending' = {} /\ \A q \in Handlers : h'[q].pc # "tar"
    BY <1>18, IdlePc DEF Crash, Pending
  <2> QED
    BY <2>2, <2>3 DEF FlightOK
<1>19. CASE Start
  <2>1. db \in DbType /\ db.events \in Seq(EventRow(Bodies))
    BY DEF TypeOK, DbType
  <2>2. Plain("start") \in Bodies /\ Plain("start").kind = "start"
    BY BodyTypes DEF Kinds, Plain
  <2>3. LastHash(db.events) \in Digest(Bodies)
    BY <2>1, LastHashType
  <2>4. CopyOK(db', minted)
    <3>1. CASE db' = db
      BY <3>1
    <3>2. CASE db' = [db EXCEPT !.events = Append(@, NewRow(@, Plain("start"), LastHash(@)))]
      BY <2>1, <2>2, <2>3, <3>2, PlainTruth, AppendKeepsCopy
    <3> QED
      BY <1>19, <3>1, <3>2 DEF Start
  <2>5. CopiesOK'
    BY <1>19, <2>4, CopiesMove DEF Start, diskVars, pathVars
  <2>6. Pending' = {} /\ \A q \in Handlers : h'[q].pc # "tar"
    BY <1>19, IdlePc DEF Start, DownIsIdle, Pending
  <2> QED
    BY <2>5, <2>6 DEF FlightOK
<1> QED
  BY <1>1, <1>3, <1>4, <1>5, <1>7, <1>8, <1>9, <1>11, <1>12, <1>13, <1>14, <1>15, <1>16,
     <1>17, <1>18, <1>19 DEF Next, Request, Proceed

\* It holds at the start.
LEMMA InitAuditInv == Init => AuditInv
<1> SUFFICES ASSUME Init PROVE AuditInv
  OBVIOUS
<1>1. CopyOK(EmptyDb, {})
  BY DEF CopyOK, EmptyDb, Says
<1>2. CopiesOK
  BY <1>1 DEF Init, CopiesOK, Copies
<1>3. Pending = {} /\ \A q \in Handlers : h[q].pc # "tar"
  BY IdlePc DEF Init, Pending
<1> QED
  BY <1>2, <1>3, InitTypeOK, InitChainInv DEF AuditInv, FlightOK, ChainInv

\* The whole inductive step, types and transactions included.
LEMMA NextAuditInvAll == AuditInv /\ NoTornAppend /\ [Next]_vars => AuditInv'
BY NextTypeOK, NextNoTornAppend, NextAuditInv DEF AuditInv

\* No whole copy of the ledger ever contradicts the approvals table of the same
\* copy, and no handler is about to append something that is not true any more.
THEOREM AuditAlwaysSound == Spec => []AuditSound
<1>1. AuditInv => AuditSound
  BY AuditInvImplies
<1> QED
  BY <1>1, InitAuditInv, NextAuditInvAll, AppendsNeverTorn, PTL DEF Spec

\* No whole copy of the ledger ever files or settles a ticket twice.
THEOREM AuditAlwaysOnce == Spec => []AuditOnce
<1>1. AuditInv => AuditOnce
  BY AuditInvImplies
<1> QED
  BY <1>1, InitAuditInv, NextAuditInvAll, AppendsNeverTorn, PTL DEF Spec
-----------------------------------------------------------------------------
(***************************************************************************)
(* The gate implements ApprovalTickets.  Each step of the daemon is one    *)
(* step of the tickets or none; the mapping needs the invariant only to    *)
(* know that a ticket that is filed was not there before.                  *)
(***************************************************************************)
Saved == {a.db.approvals : a \in archives}
           \cup (IF detached THEN {restored.approvals} ELSE {})

Damaged == {w.approvals : w \in Wrecks}

\* What the next start reads is a table that a restore may bring back, or the daemon's.
LEMMA OnDiskSaved == OnDisk.approvals \in Saved \cup {db.approvals}
BY DEF OnDisk, Saved

\* The initial state is the initial state of the tickets.
LEMMA InitRefines == Init => Tickets!TicketInit
BY DEF Init, Tickets!TicketInit, EmptyDb, NoTicket, Tickets!NoTicket

\* Every step of the daemon is a step of the tickets, or none.
LEMMA NextRefines ==
  ASSUME TypeOK, CopiesOK, [Next]_vars
  PROVE  [Tickets!TicketNext]_(Tickets!ticketVars)
<1> USE AgentdAssumption
<1>0. db.approvals \in [ApprovalIds -> TicketType]
  BY DEF TypeOK, DbType
<1>1. ASSUME db'.approvals = db.approvals, grants' = grants,
             Saved' \subseteq Saved \cup {db.approvals} \cup Damaged
      PROVE  Tickets!TicketNext
  <2>1. Tickets!Save
    BY <1>1 DEF Tickets!Save, Saved, Damaged
  <2> QED
    BY <2>1 DEF Tickets!TicketNext
<1>2. ASSUME detached' = detached, restored' = restored, archives' \subseteq archives
      PROVE  Saved' \subseteq Saved
  BY <1>2 DEF Saved
<1>3. CASE UNCHANGED vars
  BY <1>3 DEF vars, Tickets!ticketVars
<1>4. ASSUME NEW r \in Handlers, NEW cmd \in Commands,
             NEW id \in ApprovalIds \cup {NoId}, CheckCommand(r, cmd, id)
      PROVE  Tickets!TicketNext
  <2>1. db' = db /\ Saved' = Saved
    BY <1>4 DEF CheckCommand, diskVars, pathVars, Saved
  <2>2. CASE Authorised(db.approvals, cmd, id)
    <3>1. id \in ApprovalIds /\ db.approvals[id].command = cmd
      BY <2>2 DEF Authorised
    <3>2. grants' = grants \cup {<<id, db.approvals[id].command>>}
      BY <1>4, <2>2, <3>1 DEF CheckCommand
    <3>3. Tickets!Grant(id)
      BY <2>1, <2>2, <3>2 DEF Tickets!Grant, Authorised, Saved
    <3> QED
      BY <3>1, <3>3 DEF Tickets!TicketNext
  <2>3. CASE ~Authorised(db.approvals, cmd, id)
    BY <1>1, <1>4, <2>1, <2>3 DEF CheckCommand
  <2> QED
    BY <2>2, <2>3
<1>5. ASSUME NEW r \in Handlers, NEW cmd \in Commands, NEW id \in ApprovalIds,
             RequestApproval(r, cmd, id)
      PROVE  Tickets!TicketNext
  <2>1. db.approvals[id] = NoTicket
    BY <1>5 DEF RequestApproval, CopiesOK, Copies, CopyOK
  <2>2. db'.approvals = [db.approvals EXCEPT ![id] = [command |-> cmd, status |-> "pending"]]
    BY <1>5, GateWriteQuiet DEF RequestApproval
  <2>3. Tickets!File(id, cmd)
    BY <1>5, <2>1, <2>2
    DEF RequestApproval, pathVars, NoTicket, Tickets!NoTicket, Tickets!File
  <2> QED
    BY <2>3 DEF Tickets!TicketNext
<1>6. ASSUME NEW r \in Handlers, NEW id \in ApprovalIds,
             NEW verdict \in {"approved", "denied"}, Decide(r, id, verdict)
      PROVE  Tickets!TicketNext
  <2>1. db'.approvals = [db.approvals EXCEPT ![id].status = verdict]
    BY <1>6, GateWriteQuiet DEF Decide
  <2>2. Tickets!Settle(id, verdict)
    BY <1>6, <2>1 DEF Decide, Decidable, pathVars, Tickets!Settle
  <2> QED
    BY <2>2 DEF Tickets!TicketNext
<1>7. ASSUME NEW r \in Handlers,
             \/ AppendOther(r)
             \/ \E a \in archives : Restore(r, a)
             \/ AppendBegin(r)
             \/ Disconnect(r)
      PROVE  Tickets!TicketNext
  BY <1>1, <1>2, <1>7 DEF AppendOther, Restore, AppendBegin, Disconnect, diskVars, pathVars
<1>8. ASSUME NEW r \in Handlers, BackupCreate(r) PROVE Tickets!TicketNext
  BY <1>1, <1>2, <1>8 DEF BackupCreate
<1>9. ASSUME NEW r \in Handlers, AppendCommit(r) \/ AppendBusy(r) PROVE Tickets!TicketNext
  <2>1. db'.approvals = db.approvals
    BY <1>9 DEF AppendCommit, AppendBusy, TypeOK, DbType
  <2>2. archives' \subseteq archives
    BY <1>9, AfterAppendType DEF AppendCommit, AppendBusy
  <2> QED
    BY <1>1, <1>2, <1>9, <2>1, <2>2 DEF AppendCommit, AppendBusy
<1>10. ASSUME NEW r \in Handlers, TarCreates(r) \/ TarCreateFails(r) PROVE Tickets!TicketNext
  <2>1. \A a \in archives' : a \in archives \/ a.db = OnDisk \/ a.db \in Wrecks
    BY <1>10 DEF TarCreates, TarCreateFails, Archive, Copied, Wreckage
  <2>2. detached' = detached /\ restored' = restored /\ db' = db /\ grants' = grants
    BY <1>10 DEF TarCreates, TarCreateFails
  <2>3. Saved' \subseteq Saved \cup {db.approvals} \cup Damaged
    BY <2>1, <2>2, OnDiskSaved DEF Saved, Damaged
  <2> QED
    BY <1>1, <2>2, <2>3
<1>11. ASSUME NEW r \in Handlers,
              (\E a \in archives : TarExtracts(r, a)) \/ TarExtractFails(r)
       PROVE  Tickets!TicketNext
  <2>1. /\ archives' = archives
        /\ \/ detached' = detached /\ restored' = restored
           \/ restored' \in Wrecks
           \/ \E a \in archives : restored' = a.db
    BY <1>11 DEF TarExtracts, TarExtractFails, Replaced, Copied, Wreckage
  <2>2. Saved' \subseteq Saved \cup Damaged
    BY <2>1 DEF Saved, Damaged
  <2> QED
    BY <1>1, <1>11, <2>2 DEF TarExtracts, TarExtractFails
<1>12. CASE ExpireTick
  <2> DEFINE ids == Overdue(db.approvals)
  <2>1. CASE ids = {}
    BY <1>1, <1>2, <1>12, <2>1 DEF ExpireTick, pathVars
  <2>2. CASE ids # {}
    <3>1. ids \subseteq ApprovalIds /\ \A id \in ids : db.approvals[id].status = "pending"
      BY DEF Overdue, TypeOK
    <3>2. db'.approvals = [id \in ApprovalIds |->
                            IF id \in ids THEN [db.approvals[id] EXCEPT !.status = "expired"]
                                          ELSE db.approvals[id]]
      BY <1>12, <2>2, GateWriteQuiet DEF ExpireTick
    <3>3. Tickets!TimeOut(ids)
      BY <1>12, <3>1, <3>2 DEF ExpireTick, pathVars, Tickets!TimeOut
    <3> QED
      BY <3>1, <3>3 DEF Tickets!TicketNext
  <2> QED
    BY <2>1, <2>2
<1>13. ASSUME NEW id \in ApprovalIds, TtlPasses(id) PROVE Tickets!TicketNext
  BY <1>1, <1>2, <1>13 DEF TtlPasses, diskVars, pathVars
<1>14. CASE Crash
  <2>1. /\ Saved' \subseteq Saved /\ grants' = grants
        /\ db' = OnDisk \/ db'.approvals \in Damaged
    BY <1>14 DEF Crash, Saved, Copied, Wreckage, Damaged
  <2>2. CASE db'.approvals = db.approvals
    BY <1>1, <2>1, <2>2
  <2>3. CASE db'.approvals \in Saved \cup Damaged
    <3>1. Tickets!Revert
      BY <2>1, <2>3 DEF Tickets!Revert, Saved, Damaged
    <3> QED
      BY <3>1 DEF Tickets!TicketNext
  <2> QED
    BY <2>1, <2>2, <2>3, OnDiskSaved
<1>15. CASE Start
  <2>1. db'.approvals = db.approvals
    BY <1>15 DEF Start, TypeOK, DbType
  <2> QED
    BY <1>1, <1>2, <1>15, <2>1 DEF Start, diskVars, pathVars
<1> QED
  BY <1>3, <1>4, <1>5, <1>6, <1>7, <1>8, <1>9, <1>10, <1>11, <1>12, <1>13, <1>14, <1>15
  DEF Next, Request, Proceed

\* The daemon, with its handlers, locks, transactions, crashes and backups,
\* implements the tickets.
THEOREM GateImplementsTickets == Spec => RefinesTickets
<1>1. Init => Tickets!TicketInit
  BY InitRefines
<1>2. AuditInv /\ [Next]_vars => [Tickets!TicketNext]_(Tickets!ticketVars)
  BY NextRefines DEF AuditInv
<1> QED
  BY <1>1, <1>2, InitAuditInv, NextAuditInvAll, AppendsNeverTorn, PTL
  DEF Spec, RefinesTickets, Tickets!TicketSpec
-----------------------------------------------------------------------------
(***************************************************************************)
(* The ledger as evidence: it only grows, and a row cannot be rewritten.   *)
(***************************************************************************)
Grows(old, new) ==
  /\ Len(old) <= Len(new)
  /\ SubSeq(new, 1, Len(old)) = old

\* A sequence extends itself.
LEMMA SameGrows == ASSUME NEW S, NEW s \in Seq(S) PROVE Grows(s, s)
BY DEF Grows

\* And an append extends it.
LEMMA AppendGrows == ASSUME NEW S, NEW s \in Seq(S), NEW e \in S PROVE Grows(s, Append(s, e))
BY DEF Grows

\* Every step extends the ledger, but for the end of a restored daemon.
LEMMA NextAppendOnly ==
  ASSUME TypeOK, [Next]_vars
  PROVE  Grows(db.events, db'.events) \/ ((detached \/ Extracting # {}) /\ ~up')
<1>0. db.events \in Seq(EventRow(Bodies)) /\ db \in DbType
  BY DEF TypeOK, DbType
<1>1. ASSUME db'.events = db.events PROVE Grows(db.events, db'.events)
  BY <1>0, <1>1, SameGrows
<1>2. ASSUME NEW body \in Bodies, NEW prev \in Digest(Bodies),
             db' = [db EXCEPT !.events = Append(@, NewRow(@, body, prev))]
      PROVE  Grows(db.events, db'.events)
  <2>1. db'.events = Append(db.events, NewRow(db.events, body, prev))
    BY <1>0, <1>2 DEF DbType
  <2>2. NewRow(db.events, body, prev) \in EventRow(Bodies)
    BY <1>0, RowType
  <2> QED
    BY <1>0, <2>1, <2>2, AppendGrows
<1>3. CASE UNCHANGED vars
  BY <1>1, <1>3 DEF vars
<1>4. ASSUME NEW r \in Handlers, QuietStep(r) \/ AppendBegin(r) \/ AppendBusy(r)
      PROVE  Grows(db.events, db'.events)
  BY <1>1, <1>4, QuietSteps DEF Quiet, AppendBegin, AppendBusy
<1>5. ASSUME NEW r \in Handlers, AppendCommit(r) PROVE Grows(db.events, db'.events)
  <2>1. h[r].body \in Bodies /\ h[r].prev \in Digest(Bodies)
    BY DEF TypeOK, HandlerType
  <2> QED
    BY <1>2, <1>5, <2>1 DEF AppendCommit
<1>6. CASE ExpireTick
  BY <1>1, <1>6, GateWriteQuiet DEF ExpireTick
<1>7. ASSUME NEW id \in ApprovalIds, TtlPasses(id) PROVE Grows(db.events, db'.events)
  BY <1>1, <1>7 DEF TtlPasses
<1>8. CASE Crash
  BY <1>1, <1>8 DEF Crash, OnDisk
<1>9. CASE Start
  <2>1. Plain("start") \in Bodies /\ LastHash(db.events) \in Digest(Bodies)
    BY <1>0, BodyTypes, LastHashType DEF Kinds
  <2> QED
    BY <1>1, <1>2, <1>9, <2>1 DEF Start
<1> QED
  BY <1>3, <1>4, <1>5, <1>6, <1>7, <1>8, <1>9 DEF Next, QuietStep, Proceed

\* No step changes, drops or reorders a committed event, but for the end of a
\* daemon under which a backup was restored or was being restored.
THEOREM LedgerAppendOnly == Spec => AppendOnly
<1>1. TypeOK /\ [Next]_vars =>
        [ \/ /\ Len(db.events) <= Len(db'.events)
             /\ SubSeq(db'.events, 1, Len(db.events)) = db.events
          \/ (detached \/ Extracting # {}) /\ ~up' ]_vars
  BY NextAppendOnly DEF Grows
<1> QED
  BY <1>1, TypeCorrect, PTL DEF Spec, AppendOnly

\* A set of naturals that is not empty has a smallest element.
LEMMA SmallestOf ==
  ASSUME NEW T, T \subseteq Nat, T # {}
  PROVE  \E m \in T : \A n \in T : m <= n
<1>1. PICK m \in T : \A n \in T : <<n, m>> \notin OpToRel(<, Nat)
  BY WFMin, NatLessThanWellFounded, Zenon
<1>2. \A n \in T : ~ (n < m)
  BY <1>1, Zenon DEF OpToRel
<1> QED
  BY <1>2

\* Appending loses nothing.
LEMMA AppendInjective ==
  ASSUME NEW S, NEW s \in Seq(S), NEW t \in Seq(S), NEW x \in S, NEW y \in S,
         Append(s, x) = Append(t, y)
  PROVE  x = y /\ s = t
<1>1. /\ Len(s) \in Nat /\ Len(t) \in Nat
      /\ Len(Append(s, x)) = Len(s) + 1 /\ Len(Append(t, y)) = Len(t) + 1
      /\ Append(s, x)[Len(s) + 1] = x /\ Append(t, y)[Len(t) + 1] = y
      /\ \A i \in 1 .. Len(s) : Append(s, x)[i] = s[i]
      /\ \A i \in 1 .. Len(t) : Append(t, y)[i] = t[i]
  OBVIOUS
<1>2. Len(s) = Len(t) /\ x = y
  BY <1>1
<1>3. \A i \in 1 .. Len(s) : s[i] = t[i]
  BY <1>1, <1>2
<1> QED
  BY <1>2, <1>3

\* A digest tells which row it was computed of.
LEMMA HashInjective ==
  ASSUME NEW a \in EventRow(Bodies), NEW b \in EventRow(Bodies),
         Hash(a.id, a.body, a.prev) = Hash(b.id, b.body, b.prev)
  PROVE  a.id = b.id /\ a.body = b.body /\ a.prev = b.prev
<1> DEFINE ra == <<a.id, a.body>>
           rb == <<b.id, b.body>>
           S == Nat \X Bodies
           p == a.prev
           q == b.prev
<1>1. p \in Seq(S) /\ ra \in S /\ q \in Seq(S) /\ rb \in S
  BY DEF EventRow, Digest
<1>2. Append(p, ra) = Append(q, rb)
  BY DEF Hash
<1> HIDE DEF ra, rb, S, p, q
<1>3. ra = rb /\ p = q
  BY <1>1, <1>2, AppendInjective
<1> QED
  BY <1>3 DEF ra, rb, p, q

\* So a row is known from its hash.
LEMMA RowOfHash ==
  ASSUME NEW a \in EventRow(Bodies), NEW b \in EventRow(Bodies),
         a.hash = Hash(a.id, a.body, a.prev), b.hash = Hash(b.id, b.body, b.prev),
         a.hash = b.hash
  PROVE  a = b
<1>1. a.id = b.id /\ a.body = b.body /\ a.prev = b.prev
  BY HashInjective
<1> QED
  BY <1>1 DEF EventRow

\* Two ledgers that `verify` accepts, of the same length and with the same last
\* hash, are equal: who knows these two notices any row that was rewritten, also
\* when all the hashes after it were computed anew.
THEOREM TamperEvident ==
  ASSUME NEW e1 \in Seq(EventRow(Bodies)), NEW e2 \in Seq(EventRow(Bodies)),
         Verify(e1), Verify(e2), Len(e1) = Len(e2), LastHash(e1) = LastHash(e2)
  PROVE  e1 = e2
<1> DEFINE N == Len(e1)
           back(n) == N + 1 - n
           Differ == {n \in 1 .. N : e1[back(n)] # e2[back(n)]}
<1>1. /\ N \in Nat /\ DOMAIN e1 = 1 .. N /\ DOMAIN e2 = 1 .. N
      /\ \A i \in 1 .. N : e1[i] \in EventRow(Bodies) /\ e2[i] \in EventRow(Bodies)
  OBVIOUS
<1>2. N # 0 => e1[N].hash = e2[N].hash
  BY <1>1 DEF LastHash
<1>3. e1 = e2 <=> \A i \in 1 .. N : e1[i] = e2[i]
  BY <1>1
<1> HIDE DEF N
<1>4. ASSUME NEW i \in 1 .. N, e1[i].hash = e2[i].hash PROVE e1[i] = e2[i]
  BY <1>1, <1>4, RowOfHash DEF Verify
<1>5. ASSUME NEW i \in 1 .. N, \A j \in i + 1 .. N : e1[j] = e2[j]
      PROVE  e1[i] = e2[i]
  <2>1. CASE i = N
    BY <1>1, <1>2, <1>4, <2>1
  <2>2. CASE i # N
    <3> DEFINE j == i + 1
    <3>1. j \in i + 1 .. N /\ j \in 1 .. N /\ j # 1 /\ j - 1 = i
      BY <1>1, <2>2
    <3>2. e1[j] = e2[j]
      BY <1>5, <3>1
    <3>3. e1[j].prev = e1[j - 1].hash /\ e2[j].prev = e2[j - 1].hash
      BY <1>1, <3>1 DEF Verify, Linked
    <3> QED
      BY <1>4, <3>1, <3>2, <3>3
  <2> QED
    BY <2>1, <2>2
<1>6. Differ = {}
  <2> SUFFICES ASSUME Differ # {} PROVE FALSE
    OBVIOUS
  <2>1. PICK m \in Differ : \A n \in Differ : m <= n
    <3>1. Differ \subseteq Nat
      BY <1>1
    <3> QED
      BY <3>1, SmallestOf
  <2>2. m \in 1 .. N /\ back(m) \in 1 .. N /\ e1[back(m)] # e2[back(m)]
    BY <1>1
  <2>3. ASSUME NEW j \in back(m) + 1 .. N PROVE e1[j] = e2[j]
    <3>1. back(j) \in 1 .. N /\ back(j) < m /\ back(back(j)) = j
      BY <1>1, <2>2
    <3>2. ASSUME back(j) \in Differ PROVE FALSE
      <4>1. m <= back(j)
        BY <2>1, <3>2
      <4> QED
        BY <1>1, <2>2, <3>1, <4>1
    <3> QED
      BY <3>1, <3>2
  <2> QED
    BY <1>5, <2>2, <2>3
<1>7. ASSUME NEW i \in 1 .. N PROVE e1[i] = e2[i]
  <2>1. back(i) \in 1 .. N /\ back(back(i)) = i
    BY <1>1
  <2>2. back(i) \notin Differ
    BY <1>6
  <2> QED
    BY <2>1, <2>2
<1> QED
  BY <1>3, <1>7
=============================================================================
