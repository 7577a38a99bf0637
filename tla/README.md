# os-moda in TLA+

Specifications of the daemons of os-moda, written from their source: state machines that TLC checks on small instances, and proofs for every value of the constants, which TLAPS checks.
The repository is under `src/`; paths below are relative to `src/crates` unless they start with `packages`.

## 1. The system

os-moda is an operating system run by an agent.
Its daemons are Rust programs, each an HTTP server (axum, tokio) on a Unix socket, each started by systemd with `Restart=always`; the gateway is a TypeScript program on top of them.
In most daemons all state is behind one `tokio::sync::Mutex` that a handler or a background loop takes, and some keep it while they run child processes.

| Component | State | Operations | What is hard | Correct means |
|---|---|---|---|---|
| agentd, approval gate (`agentd/src/approval.rs`, `api/approval.rs`) | table `pending_approvals` | check, request, approve, deny, expiry loop | decisions race each other and the expiry; decision and event are two transactions | a command runs only on its own approved ticket; a ticket is settled once |
| agentd, ledger (`ledger.rs`) | table `events`, a SHA-256 chain, with a full-text index | append, verify, query; migration from older versions | two connections to one database; crash between decision and event, or between the transactions of a migration | the chain always verifies; events are never lost once committed and never contradict the gate; a migration completes |
| agentd, backups (`api/backup.rs`) | tar archives, `ledger.db` | create, prune, restore | tar reads and replaces the files without a lock while the daemon writes them; pruning during a restore | a copy that no tar has disturbed is consistent in itself |
| agentd, the rest (`receipts.rs`, `memory.rs`; system, discovery, agent card, sandbox) | incident tables and others in `ledger.db` | handlers that append events | an insert and its event are two transactions | incident tables and their events agree |
| osmoda-watch, SafeSwitch (`switch.rs`, `api.rs`, `main.rs`) | sessions in memory, the NixOS system profile | begin, commit, rollback, probation loop | manual requests race the loop; child processes that fail, hang or outlive their timeout; restart during probation | a session is settled once, and rolled back once |
| osmoda-watch, autopilot (`watcher.rs`) | watchers in memory and in `watchers.json` | add, remove, watcher loop | restart with old retry counts | the ladder is climbed rung by rung |
| osmoda-watch, fleet (`fleet.rs`, `fleet_api.rs`) | proposals and votes, in memory | propose, vote, rollback | late votes, timeout by a clock that may be set back, quorum arithmetic | nothing is executed without a quorum; a decision is final |
| osmoda-keyd (`signer.rs`, `policy.rs`, `api.rs`) | daily counters, wallets, encrypted keys, key cache | create, delete, sign, send, build | five kinds of file written in place; two mutexes taken one after another; counted first, signed later | quotas hold over restarts; a listed wallet can sign; a deleted one cannot |
| osmoda-mesh (`main.rs`, `api.rs`, `transport.rs`, `peers.rs`) | peers, connections, their keys and counters | invite, connect, send, receive, health loop, delete | several connections to one peer; loops that outlive them; a daemon that answers under another id; three locks for one message | a connected peer has its connection; a peer is not forgotten; a healthy connection lives |
| osmoda-routines (`main.rs`, `api.rs`, `scheduler.rs`) | routines, `routines.json` | add, remove, trigger, scheduler | list positions kept over an unlock; the clock | a due routine runs once, and is credited |
| osmoda-mcpd (`server.rs`, `api.rs`, `main.rs`) | managed servers and their processes | start, stop, restart, reload, manager loop | process exits at any time; a reload cut off half-way | no process is lost; what was stopped stays stopped; a crash is noticed |
| osmoda-teachd (`learner.rs`, `optimizer.rs`, `skillgen.rs`, `verifier.rs`, `knowledge.rs`) | observations, documents, optimizations, skill candidates and files | observe, learn, suggest, approve, apply; mine, generate, promote, verify | apply runs without the lock; row and file are written one after the other | an approval is used once; a suggestion has a cause; files say what the table says |
| osmoda-gateway (`packages/osmoda-gateway`: `agent-loop.ts`, `spend.ts`, `index.ts`) | agent loops, spend meter, chats | turns, loop ticks, stop, pause, resume | timers and turns in flight; asked before a turn, told after it | a loop is driven while it runs and reached when it is halted; the budget of the day holds |
| osmoda-egress, osmoda-voice, agentctl, bridges, UI, nix, infra | none that outlives a request, or deployment | | | not modelled |

Components interact by HTTP over sockets: every daemon posts events to agentd (and goes on if that fails), teachd opens SafeSwitch sessions at osmoda-watch, the gateway asks agentd's gate before it runs commands.
Inside agentd, gate and ledger share one SQLite file through two connections.
Inside osmoda-watch, sessions and watchers share the mutex and the system profile.

Each of the other daemons keeps its state to itself, and none reads another one's: what they tell agentd changes nothing for them, whether it arrives or not.
Their models therefore stand alone.

The hazards are listed with their lines in `PROJECT.json`; the properties below are aimed at them.

## 2. Modules

| Module | What it is |
|---|---|
| `HashChain` | the chained table as operators on sequences: `LastHash`, `NewRow`, `Verify`. A digest is the text it commits to, so two digests are equal only if the texts are |
| `ApprovalTickets` | abstract: what the gate promises |
| `Agentd` | gate, ledger, backups, crash and restart; implements `ApprovalTickets` |
| `MCAgentd` | small instances for TLC |
| `Agentd_proofs` | theorems about `Agentd` and `HashChain` |
| `DeploySessions` | abstract: what SafeSwitch promises |
| `Watch` | sessions, watchers, the mutex, child processes, the profile; implements `DeploySessions` |
| `MCWatch` | small instances for TLC |
| `Watch_proofs` | theorems about `Watch` and `FleetSwitch` |
| `FleetSwitch` | fleet switches of osmoda-watch |
| `Lists` | what `Vec::retain` leaves of a list, as a function of the positions that are kept |
| `Routines`, `Mcpd` | osmoda-routines, osmoda-mcpd |
| `Mesh`, `MeshLink` | osmoda-mesh: the connections of one daemon, and the counters of one connection |
| `MCDaemons` | small instances of these five |
| `Keyd` | osmoda-keyd |
| `TeachKnowledge`, `TeachSkills` | osmoda-teachd: from observations to optimizations, and from tool calls to skills |
| `AgentdRecords` | agentd: start, migrations, full-text index, incidents; uses `HashChain` |
| `AgentLoop` | osmoda-gateway: loops, turns of clients and the spend meter |
| `MCServices` | small instances of these five |
| `Mesh_proofs` | theorems about `Mesh` and `MeshLink` |
| `Keyd_proofs`, `AgentLoop_proofs`, `AgentdRecords_proofs` | theorems about the modules they are named after |
| `Teach_proofs` | theorems about `TeachKnowledge` and `TeachSkills` |
| `RoutinesMcpd_proofs` | theorems about `Lists`, `Routines` and `Mcpd` |

Some definitions come right after a variant whose comment begins with "Mutant:": the variant is a plausible mistake in the same code, and `PROJECT.json` names the property that TLC finds violated with it.

### agentd

`Agentd` has one handler state per request in flight (`h[r]`).
A request handler decides at the gate in one step, since each operation of `ApprovalGate` is one SQL statement on its own connection, and then has an event to append (`Telling`).
`append` opens a deferred transaction on the connection of the ledger: `AppendBegin` is the moment its SELECT of the last hash fixes the snapshot, `AppendCommit` is INSERT, UPDATE and COMMIT, `AppendBusy` is the INSERT that fails because the gate has committed since (`stale`).
SQLite reports that as `SQLITE_BUSY_SNAPSHOT`, which `busy_timeout` does not retry.
Every caller ignores the error, so the handler answers as if the event were there.
`Disconnect` is the server dropping the handler of a client that went away while it waited for the mutex.

| Action | Code |
|---|---|
| `CheckCommand`, `RequestApproval`, `Decide` | handlers in `api/approval.rs` with `check_and_reject`, `request_approval`, `approve`, `deny` |
| `ExpireTick`, `TtlPasses` | `expiry_loop` with `expire_stale`; the clock |
| `AppendOther` | handlers that only append: memory, system, discovery, agent card, sandbox, receipts |
| `AppendBegin`, `AppendCommit`, `AppendBusy`, `Disconnect` | `Ledger::append` under the mutex of `AppState` |
| `BackupCreate`, `TarCreates`, `TarCreateFails` | `backup_create_handler`; pruning (`Newest`) follows the event (`AfterAppend`) |
| `Restore`, `TarExtracts`, `TarExtractFails` | `backup_restore_handler` |
| `Crash`, `Start` | the end of the process; `main` up to the start event |

`db` is what the open files of the daemon show, `OnDisk` what is at their path: a restore separates the two (`detached`) until the next start.
`requested` numbers the backups in place of their timestamps, `grants` is an observer: the pairs for which a check answered `allow`.

tar runs without a lock, so what it copies need not be the database of any one moment: it reads `ledger.db` and the WAL one after the other, and a commit, the checkpoint of another backup or a restore may come in between (`mixed`, `Disturbed`).
The checkpoint before it (`backup.rs:38`, "for consistent snapshot") does not prevent that.
A tar that fails, or that its handler gave up on after 120 s, leaves the archive it has written; an extraction that fails, or is cut off by a crash, has replaced some of the files.
In all these cases the copy may be intact, or it may be any of `Wrecks`, a constant: databases in which tables and events may contradict each other and the chain may be broken.
`whole`, an observer, tells the two apart: it is true of a database that is what the daemon had at some moment and what was committed to it since, and false of a wreck and of all that comes of it.
A wreck knows no ticket that was never requested (`Wreckage`), since pages are copied and not made up; that is all that is assumed of it.
On a wreck any append may fail, and a start may not come to its event.

### osmoda-watch

`task` says who holds the mutex and what for: a loop that visits its sessions or watchers one after another (`todo`), or a manual rollback.
A rollback is two steps, `nix-env --rollback` and `switch-to-configuration`, and each may work, fail, or be given up after 60 seconds and end later (`orphans`, `late`).
Health checks end in one of two ways, `SessionPasses` or `SessionFails`, whatever they look at.
`Deploy` is the caller who applies its change after `begin` has answered; `STATUS.md` describes both this order and the opposite, and the daemon takes part in neither.
`failures` of a watcher is 0 when it is healthy and retries plus one when it is degraded; beyond the length of the ladder the number makes no difference, so it stops there.

| Action | Code |
|---|---|
| `BeginArrives`, `BeginInserts`, `BeginDropped` | `switch_begin_handler`: reads generation and clock, waits for the mutex, inserts |
| `Commit`, `RollbackBegins`, `RollbackDropped` | `switch_commit_handler`, `switch_rollback_handler`, the latter dropped with its client |
| `ProbationTick`, `Pick`, `SessionPasses`, `SessionFails` | `switch_probation_loop` |
| `NixEnv...`, `Activate...`, `RolledBack` | `rollback_generation` and what its callers do with the result, which is nothing |
| `OrphanEnds`, `LateEnds` | child processes that outlive their timeout |
| `WatcherAdd`, `WatcherRemove`, `Save` | handlers with `save_watchers`, whose write may fail half-way |
| `WatcherTick`, `WatcherPasses`, `WatcherFails`, `RestartEnds` | `watcher_loop`, `run_watcher_cycle`, `execute_action` |
| `Crash`, `Start` | the unit is killed with its children; `load_watchers` |

`launched`, `cut` and `tried` are observers: rollbacks started for a session, those whose client hung up, and the rungs a watcher executed since its check last passed.

### The other daemons

`FleetSwitch`: a handler keeps the mutex of osmoda-watch and has no await, so it is one step.
A proposal lists participants, sometimes one of them twice, and a percentage that is a byte of 0 to 255; `QuorumRequired` rounds up like `f64::ceil`, in integers.
The timeout is measured by the wall clock (`FleetTick`, `FleetClockSetBack`), and switches are lost with the process (`FleetRestart`).
`commit` and `record_health_result` are called from tests only and have no action.

`Routines`: a routine may be added disabled. The scheduler notes positions of due routines (`SchedulerTick`), runs them without the mutex and credits what stands at each position (`SchedulerRuns`), while handlers add, remove and trigger.
Each write of `routines.json` may fail or be cut off.
`ran`, `chosen`, `disturbed` and the others are observers: what ran, which tick chose it, and whose credit a removal has shifted.

`Mcpd`: the state of a server and of its child are separate, and a child may exit at any time (`ServerExits`).
Handlers keep the mutex over their awaits, so they are one step when they end, and a step of their own when they are cut off at an await (`McpdKillCutOff`, `McpdReloadCutOff`, `McpdReloadLoses`).
`orphans` observes processes that no handle knows any more, `excuses` why, `halted` what an operator has stopped.

`Mesh`: one daemon with its list of peers, its map of connections, and the receive loop of each connection, which may serve one that the map no longer has.
An attempt to connect is a task of its own with the steps dial and handshake (`HandshakeEnds`) and connect (`Outbound`), and what can fail at each; the health loop notes stale connections (`HealthCollects`) and probes them later (`ProbeSucceeds`, `ProbeFails`).
Any connection may have been silent for ninety seconds, so heartbeats and `last_seen` are not in the state.
A handshake is its outcome, and part of that is the id that the other side claims, which may be any (`claims`): `identity.rs:159` checks that an identity is signed with its own key, and `main.rs:798` that its Noise key is the one listed for the peer that was dialled, but nobody compares the ids.
The connection is kept under the claimed id, and the dialled peer is called Connected (`Reached`).
`own` observes which peers were called so for a connection of their own, and `dropped` the peers off the list that a task was connecting to when they were removed, or in whose name somebody answered.
Invites are used up by code (`usedInvites`), so a peer that was deleted may come back with another one.

`MeshLink`: one message takes its number in Noise (`Seal`), its number in the post-quantum layer (`Wrap`) and its place on the wire (`WriteFrame`) under three locks, and a handler that is dropped may leave half a frame (`SendCutOff`).
The receiver takes the next numbers only (`Receive`), and its first error ends the connection (`ReceiveBreaks`).
Two sends that overlap break a healthy connection, contrary to the comments at `osmoda-mesh/src/transport.rs:27` and `:57`.

`Keyd`: a request goes through lookup, policy check, load, signature and receipt as the code does, one step per mutex or await (`KeydProceeds`), and its client may hang up at each (`KeydHangUp`).
Master key, salt, wallet keys, index and counters are files written in place, and one write may fail or be cut off (`Torn`).
Amounts are written with a fraction and become fixed-point numbers, and one that does not fit into a `u128` is refused, as in `policy.rs`; the encoders of `build_tx` parse the same text as a whole number of the smallest unit, so they refuse fractions that the policy has accepted and counted (`BuildAccepts`).
A cipher is its outcome: a file decrypts with the key it was encrypted with.
`granted`, `excused`, `deleted`, `botched` and `minted` are observers.

`TeachKnowledge`: observations of the last hour in order, the learner's documents, and optimizations under the id of their document.
An application goes on without the lock: check, open a session at osmoda-watch, execute, roll back if that failed, record.
Answers of osmoda-watch are any (`ok`).
`reasons`, `runs` and `unsure` are observers.

`TeachSkills`: the log of tool calls, mined for sequences that several sessions share; a candidate's id and file name are shortened, so two candidates may share them.
Row and file are two writes, between which the process may end (`torn`).
A cycle keeps the mutex over all candidates; its steps are separate here because it may be cut off after each.

`AgentdRecords`: the start of agentd on no database, or on one of version 1 or 2, each of its transactions a step and each a place for a crash, then events and incidents, each statement a transaction.
Hashes of version 1 had no delimiters between columns, so they differ from today's; this is what `MigrateHashes` repairs.
The version that `migrate` goes by is what it has read (`found`): 0 when `schema_version` has no row or the read fails (`unwrap_or(0)`), whatever the table of events holds.
Version 0 is taken for a new database: its rows are not rehashed, and it is stamped 3.
`format` observes that: rows of version 1 that a start took for new ones are `passed by`, and their chain never verifies again.

`AgentLoop`: JavaScript runs one callback at a time, so a tick is what happens before its await (`TickStarts` and its early returns) and what happens after it (`TickSucceeds`, `TickFails`, `TickIgnores`).
Turns of clients ask and tell the same meter (`ClientTurn`, `ClientTurnEnds`).
A turn may end without saying what it used.
Files are replaced by renaming, and a write that fails is ignored.
`billed`, `together`, `lost`, `overlapped` and `revived` are observers.

| Module | Action | Code |
|---|---|---|
| `FleetSwitch` | `FleetPropose`, `FleetVote`, `FleetVoteLate`, `FleetRollback` | handlers in `fleet_api.rs` with `record_vote`, `has_quorum`, `is_vetoed`, `is_timed_out`, `advance_to_execute`, `rollback`, `abort` |
| `Routines` | `RoutineAdd`, `RoutineRemove`, `RoutineTrigger` | handlers in `api.rs`, with `validate_routine_action` |
| | `SchedulerTick`, `SchedulerRuns`, `RoutinesStart` | `scheduler_loop` with `cron_matches`; `main` with `load_routines` |
| `Mcpd` | `McpdStartServer`, `McpdStopServer`, `McpdRestartServer`, `McpdReload...`, `ManagerChecks`, `McpdStarts` | handlers in `api.rs`, `server.rs`; the manager loop and `main` |
| `Mesh` | `InviteAccept`, `PeerDelete`, `Inbound` | handlers in `api.rs`; `tcp_accept_loop` |
| | `DialFails` ... `GivesUp`, `ReceiveFails`, `Health...`, `Probe...` | `initiate_outbound_connection`, `recv_loop`, `connection_health_loop` |
| `Keyd` | `KeydArrives`, `KeydProceeds`, `Generate`, `KeydStart` | handlers in `api.rs` with `signer.rs` and `policy.rs`; `main` |
| `TeachKnowledge` | `Observe...`, `LearningCycle`, `OptimizeSuggest` | `observer.rs`, `learner.rs`, `suggest_optimizations` |
| | `OptimizeApprove`, `ApplyChecks` ... `ApplyRecords` | `optimize_approve_handler`, `optimize_apply_handler` with `execute_and_apply` |
| `TeachSkills` | `ObserveAction`, `SkillgenStep`, `VerifyStep`, `SkillGenerate`, `SkillPromote`, `SkillExecution` | `skillgen.rs`, `verifier.rs`, handlers in `api.rs` |
| `AgentdRecords` | `RecordsOpen` ... `RecordsStart`, `IncidentCreate`, `IncidentStep`, `MemoryStore` | `Ledger::new` with `migrate`; handlers in `receipts.rs`, `memory.rs` |
| `AgentLoop` | `CreateLoop`, `StopLoop`, `PauseLoop`, `ResumeLoop`, `Tick...`, `ClientTurn`, `GatewayStart` | `agent-loop.ts`, `spend.ts`, `POST /agent/turn` in `index.ts` |

## 3. What the runs show

| Run | Instance | Shows |
|---|---|---|
| `agentd_gate` | 2 handlers, 1 ticket, 4 events, 1 backup, 1 wreck, 1 crash, with symmetry | `TypeOK`, `NoTornAppend`, `AuditOnce`, `ChainIntact`, `AuditSound`, `AppendOnly`, and that the gate implements `ApprovalTickets`, over backups, restores and tars that are disturbed or fail |
| `agentd_live` | 2 handlers, 1 ticket, 3 events, 2 backups of which 1 is kept, no wreck, 1 crash, fairness | `EveryRequestAnswered`, `PendingSettles`, over backups, pruning and restores |
| `agentd_gated` | 2 handlers, 1 ticket | violated: a gated decision that is in no event (`docs/SECURITY.md:101`) |
| `agentd_expired` | 2 handlers, 1 ticket | violated: an approval used after it expired (`README.md:240`) |
| `watch_switch` | 2 sessions, 1 orphan, 1 hung-up client, 1 crash | `RolledBackOnce`, `HeldOnProbation`, and that the daemon implements `DeploySessions` |
| `watch_pilot` | 1 session, 1 watcher with two rungs, the same bounds, fairness | `LadderUntilRestart`; `ProbationEnds` and `BeginAnswered` with both loops at work |
| `watch_ladder` | 2 watchers with three rungs, 1 crash | violated: a rung skipped after a restart (`README.md:288`) |
| `watch_previous` | 1 session, 1 watcher | violated: a session reported as rolled back while its generation runs (`README.md:236`) |
| `daemons` | fleet: 1 switch, 3 peers; routines: 2 defaults and 1 added, 3 minutes; mcpd: 2 names, 4 configurations; mesh: 2 peers, 2 invites for one of them, 2 connections, 2 attempts; link: 3 senders, 4 messages | the properties of these five modules, below |
| `services` | keyd: 2 requests, 1 wallet, 2 days; teachd: 2 units, 2 observations, 2 apply requests; skills: 3 chats, 4 tools; records: 2 incidents, 6 events; gateway: 1 loop, 2 turns, 2 days | the properties of these five modules, below |
| `teachd_approval` | the instance of `services`, teachd only | violated: one approval, two runs (`docs/ARCHITECTURE.md:563`) |
| `teachd_trend` | teachd with memory readings only | violated: an increase found in memory use that falls (`skills/predictive-resources/SKILL.md:31`) |

In `daemons` and `services` one component moves in a behaviour, the one in `focus`, and the others, which share nothing with it, stay in their first state; a run is the union of five.
Each property reads the variables of one component.

| Component | Property | Statement |
|---|---|---|
| fleet | `QuorumBehindExecution` | whoever was told to execute had approved, with a quorum of different listed peers |
| | `OpenIsUndecided` | a proposal with votes that is still open could go either way |
| | `DecisionIsFinal` | late votes, rollbacks and clock changes do not undo a decision or revive a switch |
| routines | `RunsCounted` | the run count of a routine is the number of its runs, unless a removal shifted it under a batch |
| | `IntervalKept` | two scheduled runs are an interval apart, manual ones notwithstanding |
| | `RemovedStaysOut` | a removed routine runs once more at most, and no restart lists it again |
| mcpd | `NoOrphans` | no process is lost, unless a name is configured twice or a reload is cut off |
| | `StoppedStays` | what an operator stopped is started by nobody else |
| | `CrashIsNoticed` | a Running server whose process has ended does not stay so |
| mesh | `ConnectedHasConnection` | a peer shown as connected has a connection, unless it has answered under another id |
| | `NoPeerForgotten` | a peer without a connection is being tried or will be, unless it has answered under another id; and a connection has a receive loop |
| | `RemovedNotConnected` | a peer that is not listed has no connection, unless a task was connecting to it or somebody answered in its name |
| | `QuietLinkLives` | a connection whose sends do not overlap is not ended by its counters |
| keyd | `QuotaPerDay` | no day sees more sends, value or signatures than the policy allows, unless its counters were lost |
| | `ListedCanSign` | a listed wallet has a key file that the present master key decrypts |
| | `DeletedIsGone` | no file, cache or failed write brings a deleted wallet back |
| | `SignerHeldForReceipt` | the signer's mutex is kept over an await only for a receipt that is under way |
| teachd | `OneRunPerApproval` | an optimization runs once per approval, unless requests overlap or are cut off |
| | `SuggestionHasCause` | a restart is suggested only for a unit that failed often enough within one hour, or that somebody named |
| | `FilesAgree` | a skill's file activates itself exactly while its row says promoted, but for two skills of one name and for torn writes |
| agentd | `MigrationCompletes` | however often a migration was cut short, in the end the index has every row, and the chain verifies unless rows of version 1 were passed by |
| | `IncidentTrail` | incident tables and events agree |
| gateway | `RunningIsDriven` | a running loop has a tick scheduled or a turn in flight |
| | `BudgetOverrun` | the budget of a day is outrun by less than one turn for each in flight at the same time |
| | `HaltReachesTurns` | stop and pause tell every turn of the loop to end, unless two of them overlap |

The word "unless" in these marks what the code really does, found by TLC while the property was being stated: a stronger one is false.
The observers mark the exceptions, and keep them as narrow as they can be: `disturbed` has only the routines behind a removed one, `unsure` only the documents of requests that overlapped, and so on.

**Bounds.** Two handlers are enough for every race of the gate and the ledger: a transaction is open in one while the other commits at the gate; a third could only wait.
One ticket and one command are enough for `agentd_gate`, since no property relates two tickets; that a ticket lets through its own command only is `Authorised`, and the proofs are for any number of both.
`MaxEvents` limits when a request is accepted (`Accepts`): of four events one is that of the first start, and the others are a request, its approval and a check, or a backup and its restore, or a second start among them; three do in `agentd_live`.
In `agentd_gate` one archive meets every order of one tar with commits and restores, and the one wreck breaks what can be broken: its approvals table is older than its events, and its second row does not link to the first.
In `agentd_live` two backups of which one is kept make pruning happen while a restore has seen the older archive.
One crash is enough to find every intermediate state on the disk, and `Start` runs before and after it.
In `Watch` two sessions overlap on one profile; a third adds no kind of visit to a tick.
One orphan, one hung-up client and one crash let each of them meet everything else once.
A ladder of a restart and a rollback has a rung that changes the profile and one that does not.
Three peers with percentages 0, 51, 100 and 150 give quorums of none, two, all and more than all; the list that names a peer twice has a quorum its voters may miss.
Three minutes let a routine be due, missed and due again; a list position shifts with the first of three routines.
Two connections to two peers, with two attempts, let an old receive loop outlive the connection that replaced it, and one peer answer in the name of the other; two invites for one peer let it come back after it was deleted; one try per attempt (`MaxTries`, 3 in the code) leaves out only repetitions of the same steps.
Four messages of three senders overlap in pairs and in threes.
In `Keyd` one crash and one failed write meet every step of two requests; amounts have one decimal (`DECIMALS`, 18 in the code), and `MaxFixed` is small, so that the day's amount limit is reached by the second send, before the limit on their number.
In `TeachKnowledge` the thresholds are 1 and 3 mentions in place of 3 and 8, so that one observation makes a pattern and two may make it confident.
Three chats are the number the miner asks for; of four tools two have one stem, so that names collide.
The cap of the gateway is one token and a turn uses one or none: each turn may spend what is left, and a second one in flight outruns it.
`NoMoreMinutes`, `NoMoreMessages` and `NoMoreRecords` mark states in which only a bound of the model stops a component.
Deadlock is checked in all runs.

**Symmetry** is used only in `agentd_gate`, which checks safety only: handlers occur in no ordered comparison, and no property has a place for a particular one.

**Fairness.** In `Agentd`: the runtime polls every ready handler (weak fairness of `Proceed`); tokio's Mutex is a FIFO queue, so a waiter gets its turn although others take the lock again and again (strong fairness of `AppendBegin`, which is not always enabled); the expiry task ticks; time passes; systemd restarts the unit.
A tar comes to an end, which makes `Proceed` of it fair; it may be after the 120 s that its handler waits for it.
Nothing is assumed of a daemon that runs on a wreck: it need not come up (`Start`), and the statements of the expiry task may all fail.
`PendingSettles` excepts it for that reason; `agentd_live` has no wrecks, so the exception is not used there.
In `Watch`: checks and both children of a rollback have time limits, so the holder of the mutex proceeds; both loops tick and queue for the mutex (strong fairness of `ProbationTick` and `BeginInserts`); the TTL passes; systemd restarts the unit.
One assumption goes beyond the code: `systemctl restart` (`RestartEnds`) comes to an end, although the daemon sets no limit to it.
In `Mcpd`: the runtime runs the manager loop (weak fairness of `ManagerChecks`), which awaits answers of agentd.
No fairness is assumed of clients, operators, deployments, servers, or of a child that was given up.

**The six disagreements** between documents and code are `findings` in `PROJECT.json`, with the quoted lines:
a gated decision may be missing from the ledger; an approval has no time limit once given; a watcher may skip a rung after a restart; a rollback that failed is reported as done, and it is relative to the current generation, not to `previous_generation`, which is recorded and never used; an approved optimization may be applied twice; the detector of monotonic memory use reads newest first, so it reports a decrease and misses an increase.

## 4. What is proved

`tlapm` checks eight modules of proofs. The theorems hold for any finite or infinite sets of handlers, tickets, commands, sessions, watchers, peers, connections, requests, wallets, routines, servers, skills, incidents and loops, any ladder, policy, quorum, cap and bounds, under the named assumptions on the constants, which TLC evaluates in every run.
Those say little more than that numbers are numbers and that a mark such as `Absent`, `NoLoop` or `Nobody` is not one of the values it stands beside.
Turns in flight are a finite set, and a power of ten is a natural number.
The default routines have ids of their own (`osmoda-routines/src/routine.rs:395`), and intervals are not negative.

| Theorem | Statement |
|---|---|
| `Agentd_proofs!TypeCorrect` | `Spec => []TypeOK` |
| `AppendsNeverTorn` | `Spec => []NoTornAppend` |
| `ChainAlwaysIntact` | `Spec => []ChainIntact`, for whole copies |
| `AuditAlwaysSound`, `AuditAlwaysOnce` | `Spec => []AuditSound`, `Spec => []AuditOnce`, for whole copies |
| `GateImplementsTickets` | `Spec => RefinesTickets` |
| `LedgerAppendOnly` | `Spec => AppendOnly` |
| `TamperEvident` | two ledgers that verify, with the same length and last hash, are equal |
| `Watch_proofs!TypeCorrect` | `Spec => []TypeOK` |
| `HeldAlways` | `Spec => []HeldOnProbation` |
| `RolledBackAtMostOnce` | `Spec => []RolledBackOnce` |
| `WatchImplementsDeploys` | `Spec => RefinesDeploys` |
| `LadderIsClimbed` | `Spec => []LadderUntilRestart` |
| `FleetTypeCorrect` | `FleetSpec => []FleetTypeOK` |
| `NobodyExecutesAlone`, `OpenSwitchesAreUndecided`, `DecisionsAreFinal` | `FleetSpec => []QuorumBehindExecution`, `[]OpenIsUndecided`, `DecisionIsFinal` |
| `CreditsAreRight`, `RemovedIsGone`, `IntervalsAreKept` | `RoutinesSpec => []RunsCounted`, `[]RemovedStaysOut`, `IntervalKept` |
| `NoProcessIsLost`, `StoppedStaysStopped` | `McpdSpec => []NoOrphans`, `[]StoppedStays` |
| `MeshInvariant` | the inductive invariant of `Mesh` |
| `ConnectedIsTrue`, `NobodyForgotten`, `RemovedStaysOff` | `MeshSpec => []ConnectedHasConnection`, `[]NoPeerForgotten`, `[]RemovedNotConnected` |
| `StrangersAlwaysLimited` | `MeshSpec => []StrangersLimited`: no more listed peers without an endpoint than the limit |
| `LinkInvariant`, `QuietLinkAlwaysLives` | the inductive invariant of `MeshLink`; `MeshLinkSpec => []QuietLinkLives` |
| `KeydTypeCorrect` | `KeydSpec => []KeydTypeOK` |
| `SignerOnlyForReceipt`, `DeletedStaysGone`, `ListedWalletsSign`, `QuotasHold` | `KeydSpec => []SignerHeldForReceipt`, `[]DeletedIsGone`, `[]ListedCanSign`, `[]QuotaPerDay` |
| `OneRun`, `RestartHasCause` | `TeachKnowledgeSpec => []OneRunPerApproval`, `[]SuggestionHasCause` |
| `FilesAlwaysAgree` | `TeachSkillsSpec => []FilesAgree` |
| `MigrationsComplete`, `TrailsAgree` | `RecordsSpec => []MigrationCompletes`, `[]IncidentTrail` |
| `AgentLoopInvariant` | the inductive invariant of `AgentLoop` |
| `RunningAlwaysDriven`, `HaltAlwaysReaches`, `BudgetNeverOutrun` | `AgentLoopSpec => []RunningIsDriven`, `[]HaltReachesTurns`, `[]BudgetOverrun` |
| `IterationsAlwaysCapped` | `AgentLoopSpec => []IterationsCapped` |

**agentd.** `ChainIntact` needs `NoTornAppend`: a row links to the hash its append has read, and that is still the last one because whoever has read it holds the mutex.
`NoTornAppend` needs to know that nothing is in flight while the daemon is down, since `Start` appends without the mutex (`DownIsIdle`).
All copies are treated alike (`Copies`): a backup copies the files, a restore and a crash exchange one copy for another, and each of these may put a wreck there instead, for which the invariants ask nothing.
The proofs hold for any set of wrecks, so they say which copies are consistent and not that all are.
`AuditSound` and `AuditOnce` speak of the events that are yet to be appended too (`Pending`): the step that decides is the one that has to be right, not the one that writes.
They also need `UnmintedUnused`, that a fresh id is in no copy of the table, or a restore could bring back a ticket that is being filed.
The refinement maps the tickets to the live table and the saved states to those of the archives and of the restored files; a crash is a step of the abstract `Revert` when a restore took place or was cut off, and stutters otherwise; the tables of wrecks are the constant `damaged`.

**osmoda-watch.** `RolledBackOnce` is not inductive.
`Counts` adds what keeps it: a session with no rollback under way that is not settled has one to spare, and one with a rollback under way has launched it.
`HeldOnProbation` adds that the session that the holder of the mutex works on, and those it is about to visit, stay on probation until it gets to them; this is what the mutex is for, and is the part a change to finer locking would break.
The steps are grouped by what they do to sessions: those that leave them alone (`QuietStep`), the request handlers, the ones that end a visit (`EndStep`), a failed check, and a crash.
The refinement then follows step by step; that a session is settled as rolled back only after a rollback was launched for it is again `Counts`.
`LadderUntilRestart` is not inductive either: `Climbing` says which rungs a watcher has tried, namely those up to its number of failures, so that the next failure adds the next rung.
For that the loop has to find the watcher it is working on still there when the action ends (`Visiting`), which is the mutex once more; it is proved as long as nothing has crashed, after which watchers come back with older numbers, and `Escalation` fails.

**agentd, records.** `Stages` says what each stage of a start has done: the chain verifies once the rows are hashed, or were never of version 1, or rows of version 1 were passed by because the version was missing or could not be read; the index is complete once it is filled, or the version says so; and the version is stamped last.
A crash goes back to the first stage with whatever was committed, so nothing may depend on the stages that are past.
Nothing is appended before the stamp, and then row and index grow together, so every row stays in the index.
`RehashedChain` is the lemma that a rehashed table verifies, whatever hashes it had: with digests that are the texts they commit to, the new rows have a closed form, and no induction over the table is needed.
`IncidentTrail` is inductive as it stands: an incident or step is in its table before its event is, so no event tells of a step that is not there, and the next step has a higher number than all that were told of.

**Fleet switches.** The invariant adds that every vote is one of a listed peer and is cast once (`FairVotes`), and that whoever executes has a quorum behind it (`Backed`).
`RequiredIsEnough` is the arithmetic: as many votes as the rounded-up percentage are at least that percentage.
`OpenIsUndecided` rests on `Weighed`: after each vote both questions, quorum and veto, were asked and answered with no.
That the quorum can still be reached is then counted: of a list without repetitions, those who have not denied are at least as many as are required.
`DecisionIsFinal` then needs no more than the phases that the handlers look at, `FleetVoteLate` and `FleetRollback` included.

**Mesh.** `MeshInv` is the three safety properties together with `TriedIsListed` (a peer that a task tries is listed, or was removed meanwhile) and that nothing is connected while the daemon is down.
The three need each other: that a connected peer has its connection, as long as `own` is true of it, rests on each connection in the map having its own loop, under the id that the connection has there, which is why the loop of a replaced connection, which still removes the entry of its peer, also sets the peer to disconnected.
`StrangersLimited` is proved on its own.

**Mesh connection.** While sends do not overlap and none is cut off, at most one message is between its numbers (`OneUnderWay`), and the frames on the wire carry consecutive numbers in both layers, from those the receiver expects to those the next send takes (`InOrder`).
So the receiver never finds a wrong one, however far it lags behind.

**osmoda-routines.** What `Vec::retain` leaves of a list is its entries at the positions that are kept, in order (`Retained`); `KeptPositions`, `OneGone` and `OneEntry` say that those in front of it stay where they are, and that no entry appears or is doubled.
`Placed` is the strengthening that matters: a position that the scheduler remembers is that of the routine it has chosen, unless a removal has disturbed one of the two.
`RunsCounted` follows, since a run is credited to a position and counted for an id.
`Credited` carries `IntervalKept`: the last tick that chose a routine is either still in the batch or was credited, and a later credit, by hand, can only be later, as long as the clock is not set back.
`RemovedGone` adds that the file lists none of the removed, and that a batch has each routine once.

**osmoda-mcpd.** Only a server that is Running has a process (`Handled`): `start_server` would overwrite the handle of a child, but returns early for those.
Without excuses every name is listed once (`Unexcused`), so a handler that looks for the first server of a name finds the only one, and a reload stops those it drops.
`HaltedRest`: what an operator has stopped is listed and is not Running, and the manager loop starts only what is.

**osmoda-keyd.** `IInv` has five parts.
`MutexInv`: the signer's mutex belongs to the request that waits for its receipt, and to no other.
`DeletedInv`: ids are fresh, and what is cached was read from a key file, so a request that is past its lookup cannot bring a deleted wallet back.
`KeysInv`: a key file decrypts with the derived key, and is listed in memory or in the index file, over first starts that were cut short.
`QuotaInv`: a day either is excused, or what was granted on it is within the rules and agrees with the counters, in memory while the daemon is up (`UpInv`) and in the file while it is down (`DownInv`); this is what counting and saving before signing is for, and it fails if the order is changed.

**osmoda-teachd.** `RunsInv`: a document that is not `unsure` has at most one request, which has not run it before its execution, and an Approved one without a request was not run; each approval starts a new count.
`CauseInv`: a document was written by hand, or blames the unit it was learned for and has a reason, and so does an optimization that came from it.
`SkillInv` has the two halves of `FilesAgree`, and adds to the second that a skill on probation has a file that does not activate itself, so that the promotion finds a file to change; a name of two candidates, and a name whose write was lost, are left out of it.

**osmoda-gateway.** The steps split at the await of a tick, and two turns of one loop may overlap, when a resume does not wait for the turn that the pause has aborted.
`Lone` says what holds otherwise: at most the registered turn is in flight, none while a tick is scheduled, and an aborted one when the loop is halted; a loop that has overlapped keeps only that a running one is driven.
`Capped`: a loop that runs or is paused has iterations left, in memory and in its file.
`SpendInv`: what is billed, and the most that turns in flight can still be billed, is less than the cap and the most turns at a time together allow; while the gateway is down the file has the same tally, or some of it was lost.
Cardinalities of the turns in flight carry it over each step.

**Model-checked only.** Liveness (`EveryRequestAnswered`, `PendingSettles`, `ProbationEnds`, `BeginAnswered`, `CrashIsNoticed`), which is out of the prover's reach. Every other property of a passing run is a theorem.

## 5. What is left out

- Wording, JSON, HTTP status codes, timestamps and the actors of events; `ts` and `actor` are hashed like the payload.
- agentd: the text matching of `is_destructive` (the set `Destructive`); a gate that could not be opened (the handlers then answer 503 and change nothing); a stop by SIGTERM after a restore, where closing the old files could remove the WAL of the new ones by name; two backups in one second; a query of the last hash that fails; what `memory_recall` finds: which words a search matches, in the index or by a scan; capability tokens and the arguments of the sandbox, which are not stored. `resolve_incident` is never called.
- osmoda-watch: events posted to agentd, which are sent from separate tasks and ignored if they fail; an activation that restarts osmoda-watch itself; garbage collection of generations; the announcement of a fleet switch, which changes nothing here.
- osmoda-routines: what an action does to the system.
- osmoda-mcpd: a failed spawn leaves a server Starting (`server.rs:77`), which the manager loop does not look at; the model has that state, and no property forbids it.
- osmoda-mesh: the cryptography of the handshake, of which only the outcome is there; bytes. `api.rs:193` keeps the mutex while it writes to a socket, so two daemons with full buffers could wait for each other; this needs both daemons and the buffers between them and is not modelled. Rooms and gossip: `RoomStore::create_room` is called from tests only, and with foreign keys on no other table can be filled.
- osmoda-keyd: the byte formats of transactions.
- osmoda-teachd: the patterns table, which nothing reads but a listing; `POST /teach`, which answers from the documents and changes nothing.
- osmoda-gateway: chats, sessions, credentials, drivers and the configuration. Turns over web sockets and Telegram ask and tell the meter as `ClientTurn` does. There is one agent with one cap, in tokens; `BudgetOverrun` speaks of what was billed, and `README.md:222` ("can never outrun its budget") holds up to that bound only: the turn of a loop that was halted or failed meanwhile is not.
- All components marked `not_modelled` in `PROJECT.json`, with the reason there.

## 6. What remains

1. The deadlock of two mesh daemons (`osmoda-mesh/src/api.rs:193`), with the buffers between them.
2. `TeachKnowledge` composed with `DeploySessions`: the session that an application opens, and the rollback it asks for.
3. An abstract `Quota` that `Keyd` implements: `QuotaPerDay` as steps.
4. Pure algorithms against reference definitions: cron matching over a calendar, the approval matcher.
5. Backups named by the second.
