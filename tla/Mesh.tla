-------------------------------- MODULE Mesh --------------------------------
(***************************************************************************)
(* osmoda-mesh, the connections of one daemon: the list of peers, the map  *)
(* from peers to connections, a receive loop for each connection, attempts *)
(* to connect, and a health loop (main.rs, api.rs, peers.rs, invite.rs).   *)
(* All take one mutex, but for short steps only; what they do between two  *)
(* steps (dialling, handshakes, probes) others overtake.  A connection     *)
(* that is dropped from the map lives on in its receive loop.  A daemon    *)
(* that is dialled says who it is, and may say anything: its connection is *)
(* known by that id, while the peer that was dialled is called Connected.  *)
(***************************************************************************)
EXTENDS Integers, FiniteSets

CONSTANTS
    Remotes,       \* instance ids of other daemons
    Invites,       \* invite codes
    InviteFor,     \* the daemon that an invite names; there may be several for one
    Conns,         \* bound: connections at a time, in the map or not
    Attempts,      \* bound: tasks that try to connect
    MaxTries,      \* 3 in the code
    MaxUnknown,    \* MAX_UNKNOWN_INBOUND_PEERS
    MaxMeshEnds,   \* bound: ends of the daemon
    Nobody         \* no connection, no task, not listed, no file

ASSUME MeshAssumption ==
    /\ InviteFor \in [Invites -> Remotes]
    /\ MaxTries \in Nat \ {0} /\ MaxUnknown \in Nat /\ MaxMeshEnds \in Nat
    /\ Nobody \notin Remotes \cup Conns
    /\ Nobody \notin [endpoint: BOOLEAN, own: BOOLEAN,
                      state: {"connecting", "connected", "disconnected", "failed"}]
    /\ Nobody \notin [peer: Remotes, claims: Remotes, try: 1 .. MaxTries,
                      step: {"dial", "connect", "give up"}]

VARIABLES
    meshUp,
    peers,         \* peers[p]: endpoint known, connection_state, and (observer)
                   \* own, FALSE if it was called Connected for a connection
                   \* under another id; or Nobody
    connections,   \* connections[p]: the connection in the map
    loopOf,        \* loopOf[c]: the peer that c's receive loop serves, or Nobody
    attempt,       \* attempt[t]: a task of initiate_outbound_connection, with the id
                   \* of whom it has reached, or Nobody
    probing,       \* the stale connections that the health loop still has to probe
    usedInvites,   \* used_invites: the codes, in memory only
    peersFile,     \* peers.json: the peers whose endpoint is known and those
                   \* whose endpoint is not, or Nobody (absent or cut off)
    meshEnds,
    dropped        \* observer, of peers that are not listed: those removed while a
                   \* task was connecting to them, or in whose name a daemon that
                   \* was dialled has answered

meshVars == <<meshUp, peers, connections, loopOf, attempt, probing, usedInvites,
              peersFile, meshEnds, dropped>>

Peer(endpoint, state) == [endpoint |-> endpoint, state |-> state, own |-> TRUE]

IsListed(p) == peers[p] # Nobody
InMap(p) == connections[p] # Nobody
Trying(p) == \E t \in Attempts : attempt[t] # Nobody /\ attempt[t].peer = p

\* save_peers: the list, in place; states are reset when it is loaded.
Contents(list) ==
    [known |-> {p \in Remotes : list[p] # Nobody /\ list[p].endpoint},
     unknown |-> {p \in Remotes : list[p] # Nobody /\ ~ list[p].endpoint}]

SavePeers == peersFile' \in {Contents(peers'), peersFile, Nobody}

\* A listed peer gets the state; one that is not listed is not added.
WithState(p, state) ==
    IF IsListed(p) THEN [peers EXCEPT ![p] = Peer(peers[p].endpoint, state)] ELSE peers

\* A new connection, under a name that is free, goes into the map, and its
\* receive loop starts.
\* One that was there before is replaced, not closed.
Connect(p) ==
    LET free == {c \in Conns : loopOf[c] = Nobody}
        new == CHOOSE c \in free : TRUE
    IN  /\ free # {}
        /\ connections' = [connections EXCEPT ![p] = new]
        /\ loopOf' = [loopOf EXCEPT ![new] = p]

\* Mutant: the state is forgotten.
DisconnectSilently(p) ==
    /\ connections' = [connections EXCEPT ![p] = Nobody]
    /\ UNCHANGED peers
    /\ SavePeers

\* Whatever the map has for the peer is removed.
Disconnect(p) ==
    /\ connections' = [connections EXCEPT ![p] = Nobody]
    /\ peers' = WithState(p, "disconnected")
    /\ SavePeers

Spare == {t \in Attempts : attempt[t] = Nobody}
Task(p) == [peer |-> p, claims |-> p, step |-> "dial", try |-> 1]

-----------------------------------------------------------------------------
(* The local API.                                                          *)

\* An invite names a peer, its key and its endpoint.  Its code counts as used
\* even when the peer is known already; another invite for the same peer does
\* not.  One that is used, has expired or does not parse changes nothing.
InviteAccept(i) ==
    LET p == InviteFor[i]
    IN
    /\ meshUp
    /\ i \notin usedInvites
    /\ usedInvites' = usedInvites \cup {i}
    /\ IF IsListed(p)
          THEN UNCHANGED <<peers, peersFile, attempt, dropped>>
          ELSE /\ peers' = [peers EXCEPT ![p] = Peer(TRUE, "connecting")]
               /\ SavePeers
               /\ dropped' = dropped \ {p}
               /\ Spare # {}
               /\ attempt' = [attempt EXCEPT ![CHOOSE t \in Spare : TRUE] = Task(p)]
    /\ UNCHANGED <<meshUp, connections, loopOf, probing, meshEnds>>

\* Mutant: the connection stays in the map.
PeerDeleteKeepsConnection(p) ==
    /\ meshUp
    /\ IsListed(p)
    /\ peers' = [peers EXCEPT ![p] = Nobody]
    /\ SavePeers
    /\ dropped' = IF Trying(p) THEN dropped \cup {p} ELSE dropped \ {p}
    /\ UNCHANGED <<meshUp, connections, loopOf, attempt, probing, usedInvites, meshEnds>>

\* DELETE /peer/{id}.  Receive loops and tasks go on.
PeerDelete(p) ==
    /\ meshUp
    /\ IsListed(p) \/ InMap(p)
    /\ connections' = [connections EXCEPT ![p] = Nobody]
    /\ peers' = [peers EXCEPT ![p] = Nobody]
    /\ IF IsListed(p) THEN SavePeers ELSE UNCHANGED peersFile
    /\ dropped' = IF Trying(p) THEN dropped \cup {p} ELSE dropped \ {p}
    /\ UNCHANGED <<meshUp, loopOf, attempt, probing, usedInvites, meshEnds>>

-----------------------------------------------------------------------------
(* Incoming connections.                                                   *)

Unknown == {p \in Remotes : IsListed(p) /\ ~ peers[p].endpoint}

\* A handshake with p has ended well; peers nobody has invited are listed
\* without endpoint, up to a limit.
Inbound(p) ==
    /\ meshUp
    /\ IsListed(p) \/ Cardinality(Unknown) < MaxUnknown
    /\ Connect(p)
    /\ IF IsListed(p)
          THEN peers' = WithState(p, "connected") /\ UNCHANGED peersFile
          ELSE /\ peers' = [peers EXCEPT ![p] = Peer(FALSE, "connected")]
               /\ SavePeers
    /\ dropped' = dropped \ {p}
    /\ UNCHANGED <<meshUp, attempt, probing, usedInvites, meshEnds>>

-----------------------------------------------------------------------------
(* initiate_outbound_connection: several tasks may try the same peer.      *)

At(t, step) == meshUp /\ attempt[t] # Nobody /\ attempt[t].step = step

Next1(t) ==
    LET old == attempt[t]
        new == IF old.try < MaxTries THEN [old EXCEPT !.step = "dial", !.try = old.try + 1]
               ELSE [old EXCEPT !.step = "give up"]
    IN  [attempt EXCEPT ![t] = new]

\* Nobody answers within ten seconds, or the connection is refused.
DialFails(t) ==
    /\ At(t, "dial")
    /\ attempt' = Next1(t)
    /\ UNCHANGED <<meshUp, peers, connections, loopOf, probing, usedInvites, peersFile,
                   meshEnds, dropped>>

\* Dialling and the handshake read nothing that others change.  The handshake
\* fails, or the key is not the one of the invite (that is only noticed while
\* the peer is listed).
HandshakeFails(t) ==
    /\ At(t, "dial")
    /\ peers' = WithState(attempt[t].peer, "failed")
    /\ attempt' = Next1(t)
    /\ UNCHANGED <<meshUp, connections, loopOf, probing, usedInvites, peersFile, meshEnds,
                   dropped>>

\* The other side says that it is q.  What is compared is its key, with the one
\* that is listed for the peer that was dialled, if that is listed; its id is not.
HandshakeEnds(t, q) ==
    /\ At(t, "dial")
    /\ attempt' = [attempt EXCEPT ![t].step = "connect", ![t].claims = q]
    /\ UNCHANGED <<meshUp, peers, connections, loopOf, probing, usedInvites, peersFile,
                   meshEnds, dropped>>

\* Connected is said of the peer that was dialled.
Reached(p, q) ==
    IF IsListed(p) THEN [peers EXCEPT ![p].state = "connected", ![p].own = (q = p)]
    ELSE peers

\* The connection goes into the map under the id that the other side gave.
Outbound(t) ==
    LET p == attempt[t].peer
        q == attempt[t].claims
    IN  /\ At(t, "connect")
        /\ Connect(q)
        /\ peers' = Reached(p, q)
        /\ attempt' = [attempt EXCEPT ![t] = Nobody]
        /\ dropped' = IF q # p /\ ~ IsListed(q) THEN dropped \cup {q} ELSE dropped
        /\ UNCHANGED <<meshUp, probing, usedInvites, peersFile, meshEnds>>

\* Mutant: the last state stays.
GivesUpSilently(t) ==
    /\ At(t, "give up")
    /\ attempt' = [attempt EXCEPT ![t] = Nobody]
    /\ UNCHANGED <<meshUp, peers, connections, loopOf, probing, usedInvites, peersFile,
                   meshEnds, dropped>>

\* All tries failed: also if the peer has connected to us meanwhile.
GivesUp(t) ==
    /\ At(t, "give up")
    /\ peers' = WithState(attempt[t].peer, "disconnected")
    /\ attempt' = [attempt EXCEPT ![t] = Nobody]
    /\ UNCHANGED <<meshUp, connections, loopOf, probing, usedInvites, peersFile, meshEnds,
                   dropped>>

-----------------------------------------------------------------------------
(* Receive loops and the health loop.                                      *)

\* The peer is gone, or a frame does not decrypt: the loop ends, and takes
\* what is in the map with it, its own connection or a newer one.
ReceiveFails(c) ==
    /\ meshUp
    /\ loopOf[c] # Nobody
    /\ Disconnect(loopOf[c])
    /\ loopOf' = [loopOf EXCEPT ![c] = Nobody]
    /\ UNCHANGED <<meshUp, attempt, probing, usedInvites, meshEnds, dropped>>

\* The health loop remembers stale connections, and probes them later: those of
\* listed peers not seen for ninety seconds, and any may have been silent so long.
HealthCollects ==
    /\ meshUp
    /\ probing = {}
    /\ probing' \in (SUBSET {p \in Remotes : InMap(p) /\ IsListed(p)}) \ {{}}
    /\ UNCHANGED <<meshUp, peers, connections, loopOf, attempt, usedInvites, peersFile,
                   meshEnds, dropped>>

ProbeSucceeds(p) ==
    /\ meshUp
    /\ p \in probing
    /\ probing' = probing \ {p}
    /\ UNCHANGED <<meshUp, peers, connections, loopOf, attempt, usedInvites, peersFile,
                   meshEnds, dropped>>

ProbeFails(p) ==
    /\ meshUp
    /\ p \in probing
    /\ probing' = probing \ {p}
    /\ Disconnect(p)
    /\ UNCHANGED <<meshUp, loopOf, attempt, usedInvites, meshEnds, dropped>>

\* After the probes: a task for each peer that is disconnected, also for one
\* that another task is trying already.  Bound: as many tasks as are left.
HealthReconnects ==
    LET lost == {p \in Remotes : /\ IsListed(p)
                                 /\ peers[p].endpoint
                                 /\ peers[p].state = "disconnected"
                                 /\ ~ InMap(p)}
        slots == {f \in [lost -> Spare] : \A p, q \in lost : f[p] = f[q] => p = q}
        slot == CHOOSE f \in slots : TRUE
    IN  /\ meshUp
        /\ probing = {}
        /\ lost # {}
        /\ slots # {}
        /\ attempt' = [t \in Attempts |->
              IF \E p \in lost : slot[p] = t THEN Task(CHOOSE p \in lost : slot[p] = t)
              ELSE attempt[t]]
        /\ UNCHANGED <<meshUp, peers, connections, loopOf, probing, usedInvites, peersFile,
                       meshEnds, dropped>>

-----------------------------------------------------------------------------
(* End and start of the daemon.                                            *)

MeshEnds ==
    /\ meshUp
    /\ meshEnds < MaxMeshEnds
    /\ meshEnds' = meshEnds + 1
    /\ meshUp' = FALSE
    /\ peers' = [p \in Remotes |-> Nobody]
    /\ connections' = [p \in Remotes |-> Nobody]
    /\ loopOf' = [c \in Conns |-> Nobody]
    /\ attempt' = [t \in Attempts |-> Nobody]
    /\ probing' = {} /\ usedInvites' = {} /\ dropped' = {}
    /\ UNCHANGED peersFile

LoadedPeer(p) ==
    IF peersFile = Nobody THEN Nobody
    ELSE IF p \in peersFile.known THEN Peer(TRUE, "disconnected")
    ELSE IF p \in peersFile.unknown THEN Peer(FALSE, "disconnected") ELSE Nobody

MeshStarts ==
    /\ ~ meshUp
    /\ meshUp' = TRUE
    /\ peers' = [p \in Remotes |-> LoadedPeer(p)]
    /\ UNCHANGED <<connections, loopOf, attempt, probing, usedInvites, peersFile, meshEnds,
                   dropped>>

MeshInit ==
    /\ meshUp = FALSE
    /\ peers = [p \in Remotes |-> Nobody] /\ connections = [p \in Remotes |-> Nobody]
    /\ loopOf = [c \in Conns |-> Nobody]
    /\ attempt = [t \in Attempts |-> Nobody] /\ probing = {} /\ usedInvites = {}
    /\ peersFile = Nobody /\ meshEnds = 0 /\ dropped = {}

MeshNext ==
    \/ \E i \in Invites : InviteAccept(i)
    \/ \E p \in Remotes : \/ PeerDelete(p) \/ Inbound(p) \/ ProbeSucceeds(p) \/ ProbeFails(p)
    \/ \E t \in Attempts : \/ DialFails(t) \/ HandshakeFails(t)
                           \/ \E q \in Remotes : HandshakeEnds(t, q)
                           \/ Outbound(t) \/ GivesUp(t)
    \/ \E c \in Conns : ReceiveFails(c)
    \/ HealthCollects \/ HealthReconnects \/ MeshEnds \/ MeshStarts

MeshSpec == MeshInit /\ [][MeshNext]_meshVars

-----------------------------------------------------------------------------
(* Properties.                                                             *)

\* What the list says is true: a peer that is listed as Connected has a
\* connection in the map, over attempts, receive loops, probes and restarts
\* that overtake each other (recv_loop, connection_health_loop, load_peers).
\* The one exception is a peer that was dialled and answered under another id:
\* it is called Connected for a connection that is in the map under that id,
\* and whose end will not be noted with the peer (main.rs:792 and 836 to 843).
\* The converse does not hold: a task that gives up calls a peer Disconnected
\* that has connected to us.
ConnectedHasConnection ==
    \A p \in Remotes :
        (IsListed(p) /\ peers[p].state = "connected" /\ peers[p].own) => InMap(p)

\* No peer with a known endpoint is forgotten: while it has no connection, a
\* task is trying it or the health loop will (it looks for Disconnected only),
\* unless whoever answered for it said to be somebody else; and a connection in
\* the map has a receive loop that notices its end.
NoPeerForgotten ==
    \A p \in Remotes :
        /\ (IsListed(p) /\ peers[p].endpoint /\ ~ InMap(p))
              => peers[p].state = "disconnected" \/ Trying(p) \/ ~ peers[p].own
        /\ InMap(p) => loopOf[connections[p]] = p

\* At most MAX_UNKNOWN_INBOUND_PEERS strangers are listed, whoever connects at
\* the same time, and after restarts.
StrangersLimited == Cardinality(Unknown) <= MaxUnknown

\* A connection that can be used belongs to a listed peer: one that was removed
\* has none, unless a task was connecting to it at that moment, or a daemon that
\* somebody else's task had dialled said to be it.
RemovedNotConnected ==
    \A p \in Remotes : (InMap(p) /\ ~ IsListed(p)) => p \in dropped
=============================================================================
