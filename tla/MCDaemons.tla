----------------------------- MODULE MCDaemons -----------------------------
(* Small instances of FleetSwitch, Routines, Mcpd, Mesh and MeshLink.  They  *)
(* share nothing here, and each property reads one of them only: in a      *)
(* behaviour one of them, `focus', moves, and the others stay in their     *)
(* first state.                                                            *)
EXTENDS FleetSwitch, Routines, Mcpd, Mesh, MeshLink

CONSTANTS p1, p2, p3, s1, daily, extra, added, web, db, friend, stranger, i1, i2, c1, c2, t1, t2,
          m1, m2, m3

VARIABLE focus

daemonVars == <<fleetVars, routineVars, mcpdVars, meshVars, linkVars, focus>>

\* Fleet switches: three peers, and a list that names one of them twice.
TheSwitches == {s1}
ThePeers == {p1, p2, p3}
TheRosters == {<<p1, p2, p3>>, <<p1, p1, p2>>}
ThePercents == {0, 51, 100, 150}
TheTimeouts == {0, 2}

\* Routines: default ones for every minute and for every other minute, and one
\* that is added, for the minutes 1 and 2 (by cron).
TheIds == {daily, extra, added}
EveryMinute == [kind |-> "interval", minutes |-> 1]
EveryOtherMinute == [kind |-> "interval", minutes |-> 2]
AnyTime == [kind |-> "any"]
OneAndTwo ==
    [kind |-> "cron",
     expression |->
        [minute |-> [kind |-> "list", of |-> {[kind |-> "is", n |-> 1],
                                              [kind |-> "range", from |-> 2, to |-> 2]}],
         hour |-> AnyTime, dom |-> AnyTime, month |-> AnyTime, dow |-> AnyTime]]
TheTriggers == {OneAndTwo}
TheActions ==
    {[kind |-> "command", absolute |-> TRUE, interpreter |-> FALSE, dotdot |-> FALSE],
     [kind |-> "command", absolute |-> TRUE, interpreter |-> TRUE, dotdot |-> FALSE]}
TheDefaults == <<NewRoutine(daily, EveryMinute, TRUE), NewRoutine(extra, EveryOtherMinute, TRUE)>>
TheCalendar ==
    [t \in 0 .. MaxMinutes |-> [minute |-> t, hour |-> 0, dom |-> 1, month |-> 1, dow |-> 4]]

\* MCP servers: two, none, one, and one that is listed twice.
TheNames == {web, db}
TheConfigLists == {<<>>, <<web>>, <<web, db>>, <<web, web>>}

\* Mesh: a peer that two invites name, and one that none does.
TheRemotes == {friend, stranger}
TheInvites == {i1, i2}
TheInviteFor == [i \in TheInvites |-> friend]
TheConns == {c1, c2}
TheAttempts == {t1, t2}

\* One connection: two handlers and a probe send.
TheSenders == {m1, m2, m3}

DaemonsInit ==
    /\ FleetInit /\ RoutinesInit /\ McpdInit /\ MeshInit /\ MeshLinkInit
    /\ focus \in {"fleet", "routines", "mcpd", "mesh", "link"}
    /\ focus # "mcpd" => configured = <<>>

FleetMoves ==
    focus = "fleet" /\ FleetNext /\ UNCHANGED <<routineVars, mcpdVars, meshVars, linkVars, focus>>
RoutinesMove ==
    focus = "routines" /\ RoutinesNext /\ UNCHANGED <<fleetVars, mcpdVars, meshVars, linkVars, focus>>
McpdMoves ==
    focus = "mcpd" /\ McpdNext /\ UNCHANGED <<fleetVars, routineVars, meshVars, linkVars, focus>>
\* The two invites are alike: the first is used first.
MeshMoves ==
    /\ focus = "mesh" /\ MeshNext
    /\ i2 \in usedInvites' => i1 \in usedInvites'
    /\ UNCHANGED <<fleetVars, routineVars, mcpdVars, linkVars, focus>>
LinkMoves ==
    focus = "link" /\ MeshLinkNext /\ UNCHANGED <<fleetVars, routineVars, mcpdVars, meshVars, focus>>

\* The bounds of the model, not the end of the daemons.
NoMoreMinutes == focus = "routines" /\ passed = MaxMinutes /\ UNCHANGED daemonVars
NoMoreMessages == focus = "link" /\ sealed = MaxSealed /\ UNCHANGED daemonVars

DaemonsNext ==
    \/ FleetMoves \/ RoutinesMove \/ McpdMoves \/ MeshMoves \/ LinkMoves
    \/ NoMoreMinutes \/ NoMoreMessages

\* tokio runs the manager loop, and agentd answers its receipts.
ManagerRuns ==
    focus = "mcpd" /\ ManagerChecks /\ UNCHANGED <<fleetVars, routineVars, meshVars, linkVars, focus>>

DaemonsSpec == DaemonsInit /\ [][DaemonsNext]_daemonVars /\ WF_daemonVars(ManagerRuns)
=============================================================================
