-------------------------------- MODULE Mcpd --------------------------------
(***************************************************************************)
(* osmoda-mcpd: MCP servers as child processes, started, stopped, watched  *)
(* and restarted (server.rs, api.rs, main.rs).  The list of servers is     *)
(* behind a mutex that every handler and the manager loop keep until they  *)
(* end, receipts included, so each is one step here (agentd is assumed to  *)
(* answer).  A handler whose client goes away ends at an await.            *)
(***************************************************************************)
EXTENDS Integers, Lists

CONSTANTS
    Names,         \* names of servers
    ConfigLists,   \* what mcp-servers.json may list: sequences of names
    NoFile         \* openclaw-mcp.json that is not there, or was cut off

ASSUME McpdAssumption == ConfigLists \subseteq Seq(Names)

VARIABLES
    mcpdUp,
    servers,       \* ManagedServers: name, status, and the state of the child
    configured,    \* mcp-servers.json; one that does not parse is the empty list
    openclaw,      \* openclaw-mcp.json: the names in it, or NoFile
    \* observers: names of processes that no handle knows; why that may be;
    \* servers an operator has stopped, by name
    orphans, excuses, halted

mcpdVars == <<mcpdUp, servers, configured, openclaw, orphans, excuses, halted>>

Statuses == {"stopped", "starting", "running", "failed", "restarting"}

\* child: no handle, or the handle of a process that runs or has ended.
FromConfig(name) == [name |-> name, status |-> "stopped", child |-> "none"]

NamesOf(list) == {list[i].name : i \in DOMAIN list}
NamesIn(list) == {list[i] : i \in DOMAIN list}

\* iter().find(): the first server of that name.
IsFirst(i) == \A j \in DOMAIN servers : servers[j].name = servers[i].name => i <= j

Repeated(list) == \E i, j \in DOMAIN list : i # j /\ list[i] = list[j]

-----------------------------------------------------------------------------
(* server.rs: what starting, stopping and checking do to one server.       *)

\* The process is spawned, or that fails and the status stays Starting.
Started(s) == {[s EXCEPT !.status = "running", !.child = "alive"], [s EXCEPT !.status = "starting"]}

Stopped(s) == [s EXCEPT !.status = "stopped", !.child = "none"]

\* The child is killed; if the client goes away before it has been waited for,
\* that is all.
Killed(s) == [s EXCEPT !.child = IF @ = "alive" THEN "ended" ELSE @]

\* The names in the file that OpenClaw reads.
InOpenclaw(list) ==
    {list[i].name : i \in {i \in DOMAIN list : list[i].status \in {"running", "starting"}}}

\* In place: written, not touched, or cut off.
WriteOpenclaw(list) == openclaw' \in {InOpenclaw(list), openclaw, NoFile}

-----------------------------------------------------------------------------
(* Handlers.                                                               *)

McpdStartServer(i) ==
    /\ mcpdUp
    /\ IsFirst(i)
    /\ servers[i].status # "running"
    /\ \E s \in Started(servers[i]) :
          /\ servers' = [servers EXCEPT ![i] = s]
          /\ orphans' = IF servers[i].child = "alive" THEN orphans \cup {s.name} ELSE orphans
    /\ halted' = halted \ {servers[i].name}
    /\ UNCHANGED <<mcpdUp, configured, openclaw, excuses>>

\* Mutant: the handle is dropped and its process not killed.
McpdStopServerDrops(i) ==
    /\ mcpdUp
    /\ IsFirst(i)
    /\ servers' = [servers EXCEPT ![i] = Stopped(@)]
    /\ halted' = halted \cup {servers[i].name}
    /\ orphans' = IF servers[i].child = "alive" THEN orphans \cup {servers[i].name} ELSE orphans
    /\ UNCHANGED <<mcpdUp, configured, openclaw, excuses>>

McpdStopServer(i) ==
    /\ mcpdUp
    /\ IsFirst(i)
    /\ servers' = [servers EXCEPT ![i] = Stopped(@)]
    /\ halted' = halted \cup {servers[i].name}
    /\ UNCHANGED <<mcpdUp, configured, openclaw, orphans, excuses>>

McpdRestartServer(i) ==
    /\ mcpdUp
    /\ IsFirst(i)
    /\ \E s \in Started(Stopped(servers[i])) : servers' = [servers EXCEPT ![i] = s]
    /\ halted' = halted \ {servers[i].name}
    /\ UNCHANGED <<mcpdUp, configured, openclaw, orphans, excuses>>

\* The client of a stop or a restart goes away while the child is waited for.
McpdKillCutOff(i) ==
    /\ mcpdUp
    /\ IsFirst(i)
    /\ servers[i].child = "alive"
    /\ servers' = [servers EXCEPT ![i] = Killed(@)]
    /\ UNCHANGED <<mcpdUp, configured, openclaw, orphans, excuses, halted>>

NotConfigured == {i \in DOMAIN servers : servers[i].name \notin NamesIn(configured)}

Survivors == Retained(servers, DOMAIN servers \ NotConfigured)
Fresh(list) == Retained(list, {i \in DOMAIN list : list[i] \notin NamesOf(servers)})

\* The lists that starting the named servers, one after another, can lead to.
StartedLists(names) ==
    {list \in [DOMAIN names -> UNION {Started(FromConfig(n)) : n \in NamesIn(names)}] :
        \A i \in DOMAIN names : list[i].name = names[i]}

\* iter().find() stops the first of several that have one name.
DroppedAlive ==
    {servers[i].name : i \in {i \in NotConfigured : servers[i].child = "alive" /\ ~ IsFirst(i)}}

\* Servers that are not configured any more are stopped and dropped.  Those
\* whose name is new are started; one that has stayed is not touched.
McpdReload ==
    /\ mcpdUp
    /\ \E more \in StartedLists(Fresh(configured)) :
          /\ servers' = Survivors \o more
          /\ WriteOpenclaw(servers')
    /\ orphans' = orphans \cup DroppedAlive
    /\ excuses' = IF Repeated(configured) THEN excuses \cup {"repeated"} ELSE excuses
    /\ halted' = halted \cap NamesIn(configured)
    /\ UNCHANGED <<mcpdUp, configured>>

\* The client of a reload goes away while a server is stopped or that is
\* reported: those up to it are stopped, and all are still listed.
McpdReloadCutOff ==
    /\ mcpdUp
    /\ \E last \in {i \in NotConfigured : IsFirst(i)} :
          \E end \in {Killed(servers[last]), Stopped(servers[last])} :
             servers' = [i \in DOMAIN servers |->
                IF i = last THEN end
                ELSE IF i < last /\ i \in NotConfigured /\ IsFirst(i) THEN Stopped(servers[i])
                ELSE servers[i]]
    /\ UNCHANGED <<mcpdUp, configured, openclaw, orphans, excuses, halted>>

\* Or while the start of a server is reported that is not in the list yet:
\* the handle goes with the handler.
McpdReloadLoses ==
    /\ mcpdUp
    /\ \E n \in DOMAIN Fresh(configured) :
          \E more \in StartedLists(SubSeq(Fresh(configured), 1, n)) :
             /\ more[n].status = "running"
             /\ servers' = Survivors \o SubSeq(more, 1, n - 1)
             /\ orphans' = orphans \cup DroppedAlive \cup {more[n].name}
    /\ excuses' = excuses \cup {"cut off"}
    /\ halted' = halted \cap NamesIn(configured)
    /\ UNCHANGED <<mcpdUp, configured, openclaw>>

-----------------------------------------------------------------------------
(* The manager loop.                                                       *)

\* Mutant: every server without a process is started.
ManagerChecksAll ==
    /\ mcpdUp
    /\ \E i \in DOMAIN servers :
          /\ servers[i].child # "alive"
          /\ \E s \in Started(servers[i]) : servers' = [servers EXCEPT ![i] = s]
    /\ UNCHANGED <<mcpdUp, configured, openclaw, orphans, excuses, halted>>

\* Mutant: only the first server is looked at.
ManagerChecksFirst ==
    /\ mcpdUp
    /\ servers # <<>>
    /\ servers[1].status = "running"
    /\ servers[1].child = "ended"
    /\ \E s \in Started([servers[1] EXCEPT !.child = "none"]) :
          servers' = [servers EXCEPT ![1] = IF s.status = "running" THEN s
                                            ELSE [s EXCEPT !.status = "failed"]]
    /\ UNCHANGED <<mcpdUp, configured, openclaw, orphans, excuses, halted>>

\* Every ten seconds.  Of the servers that are Running those whose process has
\* ended are started again, and are Failed for good if that does not work.
ManagerChecks ==
    LET crashed == {i \in DOMAIN servers :
                       servers[i].status = "running" /\ servers[i].child # "alive"}
        Again(s) == {IF t.status = "running" THEN t ELSE [t EXCEPT !.status = "failed"] :
                        t \in Started([s EXCEPT !.child = "none"])}
    IN  /\ mcpdUp
        /\ crashed # {}
        /\ servers' \in {list \in [DOMAIN servers -> UNION {Again(servers[i]) : i \in crashed}
                                                     \cup {servers[i] : i \in DOMAIN servers}] :
                            \A i \in DOMAIN servers :
                                IF i \in crashed THEN list[i] \in Again(servers[i])
                                ELSE list[i] = servers[i]}
        /\ UNCHANGED <<mcpdUp, configured, openclaw, orphans, excuses, halted>>

-----------------------------------------------------------------------------
(* Environment, shutdown and start.                                        *)

\* A server ends by itself.
ServerExits(i) ==
    /\ servers[i].child = "alive"
    /\ servers' = [servers EXCEPT ![i].child = "ended"]
    /\ UNCHANGED <<mcpdUp, configured, openclaw, orphans, excuses, halted>>

\* The system is rebuilt, with other servers or none.
ConfigChanges ==
    /\ configured' \in ConfigLists \ {configured}
    /\ UNCHANGED <<mcpdUp, servers, openclaw, orphans, excuses, halted>>

\* Graceful or not: the service manager ends what the daemon leaves behind.
McpdEnds ==
    /\ mcpdUp
    /\ mcpdUp' = FALSE
    /\ servers' = <<>> /\ orphans' = {} /\ excuses' = {} /\ halted' = {}
    /\ UNCHANGED <<configured, openclaw>>

McpdStarts ==
    /\ ~ mcpdUp
    /\ mcpdUp' = TRUE
    /\ \E list \in StartedLists(configured) : servers' = list /\ WriteOpenclaw(list)
    /\ excuses' = IF Repeated(configured) THEN {"repeated"} ELSE {}
    /\ UNCHANGED <<configured, orphans, halted>>

McpdInit ==
    /\ mcpdUp = FALSE
    /\ servers = <<>>
    /\ configured \in ConfigLists
    /\ openclaw = NoFile
    /\ orphans = {} /\ excuses = {} /\ halted = {}

McpdNext ==
    \/ \E i \in DOMAIN servers :
          \/ McpdStartServer(i) \/ McpdStopServer(i) \/ McpdRestartServer(i) \/ McpdKillCutOff(i)
          \/ ServerExits(i)
    \/ McpdReload \/ McpdReloadCutOff \/ McpdReloadLoses \/ ManagerChecks
    \/ ConfigChanges \/ McpdEnds \/ McpdStarts

McpdSpec == McpdInit /\ [][McpdNext]_mcpdVars

-----------------------------------------------------------------------------
(* Properties.                                                             *)

\* Every process that the daemon has started is one that it can still stop:
\* no sequence of starts, stops, restarts, crashes and reloads, some cut off
\* by their client, loses one (start_server would overwrite a handle,
\* retain would drop it), unless a name is configured twice or a reload
\* is cut off between starting a server and listing it.
NoOrphans == orphans # {} => excuses # {}

\* What an operator has stopped stays stopped until somebody starts it: the
\* manager loop does not, nor does a reload.  Names configured once.
StoppedStays ==
    \A i \in DOMAIN servers :
        (servers[i].name \in halted /\ IsFirst(i)) => servers[i].child # "alive"

\* A Running server whose process has ended does not stay so: the manager loop
\* starts it again or calls it Failed, if nobody else changes it, also when
\* other servers crash again and again.
CrashIsNoticed ==
    \A name \in Names :
        LET Dead == \E i \in DOMAIN servers : /\ servers[i].name = name
                                              /\ servers[i].status = "running"
                                              /\ servers[i].child = "ended"
        IN  Dead ~> ~ Dead
=============================================================================
