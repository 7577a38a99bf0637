------------------------------- MODULE Agentd -------------------------------
(***************************************************************************)
(* agentd: the approval gate, the hash-chained ledger and the backups.     *)
(*                                                                         *)
(* One SQLite file, ledger.db, holds the table pending_approvals and the   *)
(* table events.  The gate writes the first through a connection of its    *)
(* own; request handlers append to the second through the connection of    *)
(* the ledger, which a tokio Mutex guards.  A handler decides at the gate  *)
(* first and appends the event that tells of it afterwards, as a separate  *)
(* transaction.  Backups are tar archives of the files at the path of the  *)
(* database, made without a lock while the daemon goes on; a restore       *)
(* replaces those files under the running daemon, which goes on with the   *)
(* files it has open until it is started again.  An archive of files that  *)
(* changed under tar, and files that an extraction replaced in part, may   *)
(* hold anything: they are `Wrecks`.                                       *)
(***************************************************************************)
EXTENDS HashChain, FiniteSets

CONSTANTS
  Handlers,      \* request handlers that can be in flight at a time
  ApprovalIds,   \* the UUIDs that request_approval may generate
  Commands,
  Destructive,   \* the commands is_destructive is true of
  NoHandler, NoId, NoCommand,
  Wrecks,        \* what SQLite may find in files that are of no single moment
  KeepBackups,   \* MAX_BACKUPS
  MaxEvents,     \* bound: requests start only while the table has room
  MaxBackups,    \* bound on the number of backups requested
  MaxCrashes     \* bound on the number of crashes

ASSUME AgentdAssumption ==
  /\ Destructive \subseteq Commands
  /\ NoHandler \notin Handlers
  /\ NoId \notin ApprovalIds
  /\ NoCommand \notin Commands
  /\ KeepBackups \in Nat \ {0}
  /\ MaxEvents \in Nat /\ MaxBackups \in Nat /\ MaxCrashes \in Nat

VARIABLES
  up,         \* the daemon runs
  db,         \* ledger.db as the daemon's open files show it
  detached,   \* a restore replaced the files at the path since they were opened
  restored,   \* what is at the path then
  archives,   \* the backups in OSMODA_BACKUP_DIR
  mixed,      \* the tars under which files at the path have changed
  requested,  \* number of backups asked for: the clock that names them
  minted,     \* the ids request_approval has generated
  past,       \* the ids whose expires_at has passed
  lock,       \* the handler that holds the mutex of the ledger
  stale,      \* the gate committed after the snapshot of the open append
  h,          \* the state of each handler
  crashes,
  grants      \* observer: the <<id, command>> pairs answered with allow = true

vars == <<up, db, detached, restored, archives, mixed, requested, minted, past,
          lock, stale, h, crashes, grants>>

\* What a commit leaves alone, and what every step but a commit and a tar does.
pathVars == <<detached, restored, archives, requested>>
diskVars == <<pathVars, mixed>>
-----------------------------------------------------------------------------
Kinds == {"start", "requested", "approved", "denied", "check", "other",
          "backup", "restore"}

\* What an event says: its type and the fields of its payload.
Bodies == [kind : Kinds, id : ApprovalIds \cup {NoId},
           cmd : Commands \cup {NoCommand}, allow : BOOLEAN, backup : Nat]

Plain(kind) == [kind |-> kind, id |-> NoId, cmd |-> NoCommand,
                allow |-> FALSE, backup |-> 0]
OfTicket(kind, id, cmd) == [Plain(kind) EXCEPT !.id = id, !.cmd = cmd]
OfBackup(kind, n) == [Plain(kind) EXCEPT !.backup = n]

Statuses == {"none", "pending", "approved", "denied", "expired"}
TicketType == [command : Commands \cup {NoCommand}, status : Statuses]
NoTicket == [command |-> NoCommand, status |-> "none"]

\* `whole` is an observer: the database as it was at one moment, and what was
\* committed to it since.  No step of the program reads it; what SQLite makes of
\* a database that is not whole is left open.
DbType == [approvals : [ApprovalIds -> TicketType], events : Seq(EventRow(Bodies)),
           whole : BOOLEAN]
EmptyDb == [approvals |-> [id \in ApprovalIds |-> NoTicket], events |-> <<>>,
            whole |-> TRUE]

ASSUME WrecksAssumption ==
  /\ Wrecks \subseteq DbType
  /\ \A w \in Wrecks : ~w.whole

PCs == {"idle", "ledger", "tx", "tar", "extract"}
HandlerType == [pc : PCs, body : Bodies, prev : Digest(Bodies)]
Idle == [pc |-> "idle", body |-> Plain("other"), prev |-> Genesis]

\* A handler that has decided and now has to tell the ledger `body`.
Telling(body) == [pc |-> "ledger", body |-> body, prev |-> Genesis]

\* Mutant: the last commit is not synced to the disk.
OnDiskWithoutLast ==
  LET d == IF detached THEN restored ELSE db
  IN  [d EXCEPT !.events = SubSeq(@, 1, Len(@) - 1)]

\* Mutant: a restore replaces ledger.db and leaves the WAL with the events.
OnDiskMixed ==
  IF detached THEN [restored EXCEPT !.events = db.events] ELSE db

\* The files at the path of the database: what tar and the next start read.
OnDisk == IF detached THEN restored ELSE db

\* The tars that read the files at the path, and those that replace them.
Packing == {r \in Handlers : h[r].pc = "tar"}
Extracting == {r \in Handlers : h[r].pc = "extract"}

\* A wreck mixes pages that were there: it knows no id that was not generated.
Wreckage == {w \in Wrecks : \A id \in ApprovalIds \ minted : w.approvals[id] = NoTicket}

\* What may come of copying the files that hold d: d itself, and a wreck when
\* something changed them on the way or they are a wreck already.
Copied(d, disturbed) == {d} \cup (IF disturbed \/ ~d.whole THEN Wreckage ELSE {})

\* Another extraction, a commit or a checkpoint came between the beginning of r's
\* tar and now.
Disturbed(r) == r \in mixed \/ Extracting \ {r} # {}

\* A commit or a checkpoint: the daemon writes to its files, which are those at
\* the path unless a restore has replaced them.
FilesChange == mixed' = IF detached THEN mixed ELSE mixed \cup Packing

Busy == {r \in Handlers : h[r].pc # "idle"}

\* A handler takes a request.  The second conjunct is the bound.
Accepts(r) ==
  /\ up
  /\ h[r] = Idle
  /\ Len(db.events) + Cardinality(Busy) < MaxEvents
-----------------------------------------------------------------------------
(***************************************************************************)
(* The gate.  Each operation is one statement on the gate's connection, so *)
(* it is atomic; a commit makes the snapshot of an open append old.        *)
(***************************************************************************)
GateWrite(approvals) ==
  /\ db' = [db EXCEPT !.approvals = approvals]
  /\ stale' = (lock # NoHandler)
  /\ FilesChange

\* Mutant: a check that names no ticket is let through.
AuthorisedWithoutId(approvals, cmd, id) ==
  id # NoId =>
    /\ approvals[id].status = "approved"
    /\ approvals[id].command = cmd

\* check_and_reject of a destructive command.  It does not read expires_at.
Authorised(approvals, cmd, id) ==
  /\ id # NoId
  /\ approvals[id].status = "approved"
  /\ approvals[id].command = cmd

\* Mutant: expires_at is compared the wrong way round.
OverdueReversed(approvals) == {id \in minted \ past : approvals[id].status = "pending"}

\* The rows that expire_stale updates.
Overdue(approvals) == {id \in past : approvals[id].status = "pending"}

\* Mutant: the UPDATE does not ask for status = 'pending'.
DecidableWhateverStatus(approvals, id) == approvals[id] # NoTicket

\* approve and deny find a row.  They do not read expires_at either.
Decidable(approvals, id) == approvals[id].status = "pending"

\* POST /approval/check of a destructive command; others answer at once.
CheckCommand(r, cmd, id) ==
  /\ Accepts(r)
  /\ cmd \in Destructive
  /\ LET allow == Authorised(db.approvals, cmd, id) IN
       /\ h' = [h EXCEPT ![r] = Telling([OfTicket("check", id, cmd) EXCEPT !.allow = allow])]
       /\ grants' = IF allow THEN grants \cup {<<id, cmd>>} ELSE grants
  /\ UNCHANGED <<up, db, diskVars, minted, past, lock, stale, crashes>>

\* POST /approval/request of a destructive command; others are auto_approved.
RequestApproval(r, cmd, id) ==
  /\ Accepts(r)
  /\ cmd \in Destructive
  /\ id \notin minted
  /\ GateWrite([db.approvals EXCEPT ![id] = [command |-> cmd, status |-> "pending"]])
  /\ minted' = minted \cup {id}
  /\ h' = [h EXCEPT ![r] = Telling(OfTicket("requested", id, cmd))]
  /\ UNCHANGED <<up, pathVars, past, lock, crashes, grants>>

\* POST /approval/{id}/approve and /deny; `verdict` is "approved" or "denied".
Decide(r, id, verdict) ==
  /\ Accepts(r)
  /\ Decidable(db.approvals, id)
  /\ GateWrite([db.approvals EXCEPT ![id].status = verdict])
  /\ h' = [h EXCEPT ![r] = Telling(OfTicket(verdict, id, db.approvals[id].command))]
  /\ UNCHANGED <<up, pathVars, minted, past, lock, crashes, grants>>

\* expiry_loop: one tick of expire_stale.  With no row to update it commits nothing.
ExpireTick ==
  /\ up
  /\ LET ids == Overdue(db.approvals) IN
       IF ids = {} THEN UNCHANGED <<db, stale, mixed>>
       ELSE GateWrite([id \in ApprovalIds |->
                         IF id \in ids THEN [db.approvals[id] EXCEPT !.status = "expired"]
                                       ELSE db.approvals[id]])
  /\ UNCHANGED <<up, pathVars, minted, past, lock, h, crashes, grants>>

TtlPasses(id) ==
  /\ id \in minted \ past
  /\ past' = past \cup {id}
  /\ UNCHANGED <<up, db, diskVars, minted, lock, stale, h, crashes, grants>>
-----------------------------------------------------------------------------
(***************************************************************************)
(* Appending to the ledger, under its mutex.  `append` opens a deferred    *)
(* transaction: the SELECT of the last hash fixes a snapshot, the INSERT   *)
(* that follows fails at once with SQLITE_BUSY_SNAPSHOT when the gate has  *)
(* committed in between; once it succeeds no one else can write before the *)
(* COMMIT.                                                                 *)
(***************************************************************************)

\* The handlers of the other mutations: memory, system, discovery, sandbox, ...
AppendOther(r) ==
  /\ Accepts(r)
  /\ h' = [h EXCEPT ![r] = Telling(Plain("other"))]
  /\ UNCHANGED <<up, db, diskVars, minted, past, lock, stale, crashes, grants>>

\* Mutant: a handler does not wait for the mutex.
AlwaysFree == TRUE

Free == lock = NoHandler

\* The mutex is taken and the transaction reads the last hash.
AppendBegin(r) ==
  /\ h[r].pc = "ledger"
  /\ Free
  /\ lock' = r
  /\ stale' = FALSE
  /\ h' = [h EXCEPT ![r].pc = "tx", ![r].prev = LastHash(db.events)]
  /\ UNCHANGED <<up, db, diskVars, minted, past, crashes, grants>>

\* prune_backups: archives sort by name, and the name is a timestamp.
Newest(as) ==
  {a \in as : Cardinality({b \in as : b.name > a.name}) < KeepBackups}

\* Mutant: the mutex stays taken when the append has failed.
AfterAppendKeepsLock(r) ==
  LET kind == h[r].body.kind IN
  /\ lock' = IF stale THEN lock ELSE NoHandler
  /\ stale' = FALSE
  /\ h' = [h EXCEPT ![r] = IF kind = "restore"
                           THEN [Idle EXCEPT !.pc = "extract", !.body = h[r].body]
                           ELSE Idle]
  /\ archives' = IF kind = "backup" THEN Newest(archives) ELSE archives

\* What the handler does when append has returned, whether it failed or not.
AfterAppend(r) ==
  LET kind == h[r].body.kind IN
  /\ lock' = NoHandler
  /\ stale' = FALSE
  /\ h' = [h EXCEPT ![r] = IF kind = "restore"
                           THEN [Idle EXCEPT !.pc = "extract", !.body = h[r].body]
                           ELSE Idle]
  /\ archives' = IF kind = "backup" THEN Newest(archives) ELSE archives

\* INSERT, UPDATE of the hash, COMMIT.
AppendCommit(r) ==
  /\ h[r].pc = "tx"
  /\ ~stale
  /\ db' = [db EXCEPT !.events = Append(@, NewRow(@, h[r].body, h[r].prev))]
  /\ FilesChange
  /\ AfterAppend(r)
  /\ UNCHANGED <<up, detached, restored, requested, minted, past, crashes, grants>>

\* The INSERT fails, or the database is a wreck on which any statement may fail:
\* no row, and the handlers ignore the error.
AppendBusy(r) ==
  /\ h[r].pc = "tx"
  /\ stale \/ ~db.whole
  /\ AfterAppend(r)
  /\ UNCHANGED <<up, db, detached, restored, mixed, requested, minted, past, crashes, grants>>

\* The client closes its connection while the handler waits for the mutex:
\* the server drops the future of the handler.
Disconnect(r) ==
  /\ h[r].pc = "ledger"
  /\ ~Free
  /\ h' = [h EXCEPT ![r] = Idle]
  /\ UNCHANGED <<up, db, diskVars, minted, past, lock, stale, crashes, grants>>
-----------------------------------------------------------------------------
(***************************************************************************)
(* Backups.                                                                *)
(***************************************************************************)

\* POST /backup/create up to the start of tar.  The checkpoint of the WAL, made
\* under the mutex, changes no content but rewrites ledger.db, also under the tar
\* of another request.
BackupCreate(r) ==
  /\ Accepts(r)
  /\ Free
  /\ requested < MaxBackups
  /\ requested' = requested + 1
  /\ FilesChange
  /\ h' = [h EXCEPT ![r] = [Idle EXCEPT !.pc = "tar", !.body = OfBackup("backup", requested + 1)]]
  /\ UNCHANGED <<up, db, detached, restored, archives, minted, past, lock, stale, crashes, grants>>

\* The archive that r's tar leaves, with the content d.
Archive(r, d) == archives \cup {[name |-> h[r].body.backup, db |-> d]}

\* tar has written the archive and exits with status 0.  It reads ledger.db and
\* the WAL one after the other, without a lock.
TarCreates(r) ==
  /\ h[r].pc = "tar"
  /\ \E d \in Copied(OnDisk, Disturbed(r)) : archives' = Archive(r, d)
  /\ h' = [h EXCEPT ![r] = Telling(h[r].body)]
  /\ mixed' = mixed \ {r}
  /\ UNCHANGED <<up, db, detached, restored, requested, minted, past, lock, stale, crashes, grants>>

\* tar fails, or finds that a file changed under it, or the handler gave up on it
\* after 120 s or with its client, which does not stop tar: no event, no pruning,
\* and what tar has written, be it truncated, stays as an archive.
TarCreateFails(r) ==
  /\ h[r].pc = "tar"
  /\ \/ archives' = archives
     \/ \E d \in Copied(OnDisk, TRUE) : archives' = Archive(r, d)
  /\ h' = [h EXCEPT ![r] = Idle]
  /\ mixed' = mixed \ {r}
  /\ UNCHANGED <<up, db, detached, restored, requested, minted, past, lock, stale, crashes, grants>>

\* POST /backup/restore: the archive exists, and the intent is logged first.
Restore(r, a) ==
  /\ Accepts(r)
  /\ a \in archives
  /\ h' = [h EXCEPT ![r] = Telling(OfBackup("restore", a.name))]
  /\ UNCHANGED <<up, db, diskVars, minted, past, lock, stale, crashes, grants>>

\* r's tar ends with d at the path, under every other tar in flight.
Replaced(r, d) ==
  /\ detached' = TRUE
  /\ restored' = d
  /\ mixed' = (mixed \cup Packing \cup Extracting) \ {r}

\* tar puts new files at the path; the daemon keeps the ones it has open.
TarExtracts(r, a) ==
  /\ h[r].pc = "extract"
  /\ a \in archives
  /\ a.name = h[r].body.backup
  /\ \E d \in Copied(a.db, Disturbed(r)) : Replaced(r, d)
  /\ h' = [h EXCEPT ![r] = Idle]
  /\ UNCHANGED <<up, db, archives, requested, minted, past, lock, stale, crashes, grants>>

\* tar fails: the archive was pruned since the handler saw it, and nothing is
\* replaced; or the archive ends too early, or the disk is full, and only some
\* of the files are.
TarExtractFails(r) ==
  /\ h[r].pc = "extract"
  /\ \/ mixed' = mixed \ {r} /\ UNCHANGED <<detached, restored>>
     \/ \E d \in Wreckage : Replaced(r, d)
  /\ h' = [h EXCEPT ![r] = Idle]
  /\ UNCHANGED <<up, db, archives, requested, minted, past, lock, stale, crashes, grants>>
-----------------------------------------------------------------------------
(***************************************************************************)
(* The process.  Nothing committed is lost with it, everything else is.    *)
(***************************************************************************)

\* The daemon stops: handlers, locks and open transactions go, and with them
\* the files that a restore had unlinked; systemd stops the tars too, and an
\* extraction that is cut off has replaced some of the files.
Crash ==
  /\ up
  /\ crashes < MaxCrashes
  /\ crashes' = crashes + 1
  /\ up' = FALSE
  /\ db' \in IF detached \/ Extracting # {} THEN Copied(OnDisk, Extracting # {})
                                           ELSE {OnDisk}
  /\ detached' = FALSE
  /\ restored' = EmptyDb
  /\ mixed' = {}
  /\ lock' = NoHandler
  /\ stale' = FALSE
  /\ h' = [r \in Handlers |-> Idle]
  /\ UNCHANGED <<archives, requested, minted, past, grants>>

\* systemd starts it (Restart=always): it verifies the chain, which only logs,
\* and appends daemon.start before any handler or the gate exists.  On a wreck it
\* may not come up, or go on without the event.
Start ==
  /\ ~up
  /\ up' = TRUE
  /\ \/ db' = [db EXCEPT !.events = Append(@, NewRow(@, Plain("start"), LastHash(@)))]
     \/ ~db.whole /\ db' = db
  /\ UNCHANGED <<diskVars, minted, past, lock, stale, h, crashes, grants>>
-----------------------------------------------------------------------------
\* The state directory is empty and the daemon was never started.
Init ==
  /\ up = FALSE
  /\ db = EmptyDb
  /\ detached = FALSE
  /\ restored = EmptyDb
  /\ archives = {}
  /\ mixed = {}
  /\ requested = 0
  /\ minted = {}
  /\ past = {}
  /\ lock = NoHandler
  /\ stale = FALSE
  /\ h = [r \in Handlers |-> Idle]
  /\ crashes = 0
  /\ grants = {}

\* A request arrives at handler r.
Request(r) ==
  \/ \E cmd \in Commands, id \in ApprovalIds \cup {NoId} : CheckCommand(r, cmd, id)
  \/ \E cmd \in Commands, id \in ApprovalIds : RequestApproval(r, cmd, id)
  \/ \E id \in ApprovalIds, verdict \in {"approved", "denied"} : Decide(r, id, verdict)
  \/ AppendOther(r)
  \/ BackupCreate(r)
  \/ \E a \in archives : Restore(r, a)

\* A step of the handler that is not waiting for the mutex.
Proceed(r) ==
  \/ AppendCommit(r)
  \/ AppendBusy(r)
  \/ TarCreates(r)
  \/ TarCreateFails(r)
  \/ \E a \in archives : TarExtracts(r, a)
  \/ TarExtractFails(r)

Next ==
  \/ \E r \in Handlers : Request(r) \/ AppendBegin(r) \/ Proceed(r) \/ Disconnect(r)
  \/ ExpireTick
  \/ \E id \in ApprovalIds : TtlPasses(id)
  \/ Crash
  \/ Start

Spec == Init /\ [][Next]_vars

(***************************************************************************)
(* The runtime polls every ready handler; the tokio Mutex is a FIFO queue, *)
(* so a waiter gets its turn however often others take the lock; tar ends; *)
(* the expiry task ticks every 30 s; time passes; systemd restarts the     *)
(* unit.  Nothing is assumed of a daemon that has a wreck for its          *)
(* database: it need not come up, and its ticks may all fail.              *)
(***************************************************************************)
Fairness ==
  /\ \A r \in Handlers : SF_vars(AppendBegin(r)) /\ WF_vars(Proceed(r))
  /\ WF_vars(db.whole /\ ExpireTick)
  /\ \A id \in ApprovalIds : WF_vars(TtlPasses(id))
  /\ WF_vars(db.whole /\ Start)

FairSpec == Spec /\ Fairness
-----------------------------------------------------------------------------
TypeOK ==
  /\ up \in BOOLEAN
  /\ db \in DbType
  /\ detached \in BOOLEAN
  /\ restored \in DbType
  /\ archives \subseteq [name : Nat, db : DbType]
  /\ mixed \subseteq Handlers
  /\ requested \in 0 .. MaxBackups
  /\ minted \subseteq ApprovalIds
  /\ past \subseteq minted
  /\ lock \in Handlers \cup {NoHandler}
  /\ stale \in BOOLEAN
  /\ h \in [Handlers -> HandlerType]
  /\ crashes \in 0 .. MaxCrashes
  /\ grants \subseteq ApprovalIds \X Commands

\* Every copy of the database: the daemon's, the one at the path, the archives.
Copies == {db, restored} \cup {a.db : a \in archives}

(***************************************************************************)
(* No append works with a hash that is not the last one any more: whoever  *)
(* has read the last hash holds the mutex until the row is in (the comment *)
(* on `append`: concurrent appends do not interleave).                     *)
(***************************************************************************)
NoTornAppend ==
  \A r \in Handlers : h[r].pc = "tx" => lock = r /\ h[r].prev = LastHash(db.events)

\* Nothing is in flight while the daemon is down.
DownIsIdle == ~up => lock = NoHandler /\ h = [r \in Handlers |-> Idle]

(***************************************************************************)
(* `verify` would accept every whole copy of the ledger at any time: no    *)
(* order of handlers, gate commits, failed appends and crashes forks or    *)
(* breaks the hash chain; nor does one of backups and restores, as long as *)
(* no tar on the way to the copy was disturbed or failed.                  *)
(***************************************************************************)
ChainIntact == \A d \in Copies : d.whole => Verify(d.events)

\* What an event says is true of the approvals table.
Truthful(body, approvals) ==
  /\ body.kind \in {"requested", "approved", "denied"} =>
       /\ body.id \in ApprovalIds
       /\ approvals[body.id].status # "none"
       /\ approvals[body.id].command = body.cmd
  /\ body.kind \in {"approved", "denied"} => approvals[body.id].status = body.kind
  /\ body.kind = "check" /\ body.allow =>
       /\ body.id \in ApprovalIds
       /\ approvals[body.id].status = "approved"
       /\ approvals[body.id].command = body.cmd

Says(d) == {d.events[i].body : i \in DOMAIN d.events}

\* The handlers that have yet to append their event.
Pending == {r \in Handlers : h[r].pc \in {"ledger", "tx"}}

(***************************************************************************)
(* No event in a whole copy of the ledger contradicts the approvals table  *)
(* of the same copy: a logged approval, denial or allowed check is one that*)
(* the table still shows, for the same command, although the two tables    *)
(* are written by different connections at different times.  The same is   *)
(* true of the events that handlers are about to append: what they decided *)
(* does not go stale while they wait.                                      *)
(***************************************************************************)
AuditSound ==
  /\ \A d \in Copies : d.whole => \A body \in Says(d) : Truthful(body, d.approvals)
  /\ \A r \in Pending : Truthful(h[r].body, db.approvals)

\* Both events tell how the same ticket was filed, or how it was settled.
SameFact(b1, b2) ==
  /\ b1.id = b2.id
  /\ \/ b1.kind = "requested" /\ b2.kind = "requested"
     \/ b1.kind \in {"approved", "denied"} /\ b2.kind \in {"approved", "denied"}

(***************************************************************************)
(* In every whole copy a ticket is filed by at most one event and settled  *)
(* by at most one: two operators that decide at the same time, or a retry  *)
(* after a crash or a restore, do not leave two verdicts in the ledger;    *)
(* nor is a second one on its way.                                         *)
(***************************************************************************)
AuditOnce ==
  /\ \A d \in Copies : d.whole => \A i, j \in DOMAIN d.events :
       SameFact(d.events[i].body, d.events[j].body) => i = j
  /\ db.whole => \A r \in Pending : \A body \in Says(db) : ~SameFact(h[r].body, body)
  /\ \A r, q \in Pending : SameFact(h[r].body, h[q].body) => r = q

\* An id that request_approval has not generated is in no table.
UnmintedUnused ==
  \A d \in Copies : \A id \in ApprovalIds \ minted : d.approvals[id] = NoTicket

Tickets == INSTANCE ApprovalTickets WITH
  tickets <- db.approvals,
  granted <- grants,
  saved   <- {a.db.approvals : a \in archives}
               \cup (IF detached THEN {restored.approvals} ELSE {}),
  damaged <- {w.approvals : w \in Wrecks}

(***************************************************************************)
(* The gate implements its promise: a destructive command is allowed only  *)
(* on a ticket that was filed for exactly that command and approved while  *)
(* it was pending, and nothing but a restore, whole or in pieces, reopens  *)
(* a settled ticket.                                                       *)
(***************************************************************************)
RefinesTickets == Tickets!TicketSpec

(***************************************************************************)
(* A committed event is never changed, dropped or reordered, across        *)
(* handlers, failed appends and restarts alike.  The one exception is the  *)
(* end of a daemon under which a backup was being or had been restored.    *)
(***************************************************************************)
AppendOnly ==
  [][ \/ /\ Len(db.events) <= Len(db'.events)
         /\ SubSeq(db'.events, 1, Len(db.events)) = db.events
      \/ (detached \/ Extracting # {}) /\ ~up' ]_vars

\* docs/SECURITY.md: every gated (destructive) decision is appended to the
\* ledger.  A check handler that is done with its append has added an event.
GatedDecisionAudited ==
  [][ \A r \in Handlers :
        h[r].pc = "tx" /\ h[r].body.kind = "check" /\ h'[r].pc # "tx" /\ up'
          => Len(db'.events) > Len(db.events) ]_vars

\* README: approval gates are time-limited with auto-expiry.  No command is
\* let through by a ticket whose expires_at has passed.
ApprovalTimeLimited == [][ \A g \in grants' \ grants : g[1] \notin past ]_vars

\* Every handler comes back to answer, and no waiter on the mutex starves.
EveryRequestAnswered == \A r \in Handlers : h[r].pc # "idle" ~> h[r].pc = "idle"

\* No ticket stays pending for ever: an operator settles it or it expires, also
\* when the daemon restarts meanwhile or a backup brings it back; unless a restore
\* ends in a wreck.
PendingSettles ==
  \A id \in ApprovalIds :
    db.approvals[id].status = "pending" ~> db.approvals[id].status # "pending" \/ ~db.whole
=============================================================================
