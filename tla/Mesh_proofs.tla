----------------------------- MODULE Mesh_proofs -----------------------------
(***************************************************************************)
(* Proofs about the connections of osmoda-mesh, for any number of peers,   *)
(* connections, tasks, tries and restarts: what the list of peers says is  *)
(* true, nobody is forgotten, nobody who was removed is connected, and     *)
(* strangers are limited; and about the counters of one connection: one on *)
(* which sends do not overlap, and none is cut off, never ends by them.    *)
(***************************************************************************)
EXTENDS Mesh, MeshLink, FiniteSetTheorems, TLAPS

-----------------------------------------------------------------------------
(* The inductive invariant.                                                *)

States == {"connecting", "connected", "disconnected", "failed"}
PeerType == [endpoint: BOOLEAN, own: BOOLEAN, state: States]
TaskType == [peer: Remotes, claims: Remotes, try: 1 .. MaxTries,
             step: {"dial", "connect", "give up"}]

\* The tables of the daemon, and its file.
MeshTypes ==
    /\ peers \in [Remotes -> PeerType \cup {Nobody}]
    /\ connections \in [Remotes -> Conns \cup {Nobody}]
    /\ loopOf \in [Conns -> Remotes \cup {Nobody}]
    /\ attempt \in [Attempts -> TaskType \cup {Nobody}]
    /\ probing \subseteq Remotes

\* Whoever is being tried is listed, or was removed meanwhile.
TriedIsListed == \A p \in Remotes : Trying(p) /\ ~ IsListed(p) => p \in dropped

\* A daemon that is down has nothing in memory.
DownIsEmpty ==
    ~ meshUp => /\ \A p \in Remotes : ~ IsListed(p) /\ ~ InMap(p)
                /\ \A t \in Attempts : attempt[t] = Nobody

MeshInv ==
    /\ MeshTypes
    /\ ConnectedHasConnection
    /\ NoPeerForgotten
    /\ RemovedNotConnected
    /\ TriedIsListed
    /\ DownIsEmpty

-----------------------------------------------------------------------------
(* What the helpers do to the tables.                                      *)

\* Records are not Nobody.
LEMMA NotNobody ==
  /\ \A p \in PeerType : p # Nobody
  /\ \A t \in TaskType : t # Nobody
  /\ \A p \in Remotes : p # Nobody
  /\ \A c \in Conns : c # Nobody
  BY MeshAssumption DEF PeerType, TaskType, States

LEMMA NewPeerTyped ==
  ASSUME NEW e \in BOOLEAN, NEW st \in States
  PROVE  /\ Peer(e, st) \in PeerType
         /\ Peer(e, st) # Nobody
         /\ Peer(e, st).endpoint = e /\ Peer(e, st).state = st
<1>1. Peer(e, st) \in PeerType
  BY DEF Peer, PeerType
<1> QED
  BY <1>1, NotNobody DEF Peer

LEMMA NewTaskTyped ==
  ASSUME NEW p \in Remotes
  PROVE  /\ Task(p) \in TaskType
         /\ Task(p) # Nobody
         /\ Task(p).peer = p
<1>1. 1 \in 1 .. MaxTries
  <2>1. MaxTries \in Nat \ {0}
    BY MeshAssumption, Zenon
  <2> QED
    BY <2>1
<1>2. Task(p) \in TaskType
  BY <1>1 DEF Task, TaskType
<1> QED
  BY <1>2, NotNobody DEF Task

\* update_peer_state: one peer's state, if it is listed; nothing else.
LEMMA StateChanged ==
  ASSUME MeshTypes, NEW p \in Remotes, NEW st \in States
  PROVE  LET list == WithState(p, st)
         IN  /\ list \in [Remotes -> PeerType \cup {Nobody}]
             /\ \A q \in Remotes \ {p} : list[q] = peers[q]
             /\ ~ IsListed(p) => list[p] = Nobody
             /\ IsListed(p) => /\ list[p] # Nobody
                               /\ list[p].endpoint = peers[p].endpoint
                               /\ list[p].state = st
<1>1. CASE IsListed(p)
  <2> DEFINE new == Peer(peers[p].endpoint, st)
  <2>1. peers[p].endpoint \in BOOLEAN
    BY <1>1 DEF MeshTypes, IsListed, PeerType
  <2>2. /\ new \in PeerType /\ new # Nobody
        /\ new.endpoint = peers[p].endpoint /\ new.state = st
    BY <2>1, NewPeerTyped
  <2>3. WithState(p, st) = [peers EXCEPT ![p] = new]
    BY <1>1 DEF WithState
  <2> HIDE DEF new
  <2> QED
    BY <1>1, <2>2, <2>3 DEF MeshTypes
<1>2. CASE ~ IsListed(p)
  BY <1>2 DEF WithState, MeshTypes, IsListed
<1> QED
  BY <1>1, <1>2

-----------------------------------------------------------------------------
(* Groups of steps that do the same to the tables.                         *)

LEMMA TaskFields ==
  ASSUME NEW r \in TaskType, NEW st \in {"dial", "connect", "give up"}
  PROVE  /\ r.peer \in Remotes /\ r.claims \in Remotes
         /\ r.try \in 1 .. MaxTries
         /\ [r EXCEPT !.step = st] \in TaskType
         /\ [r EXCEPT !.step = st].peer = r.peer
  BY DEF TaskType

\* A step that changes neither list nor connections, and leaves every task at
\* its peer.
LEMMA TasksGoOn ==
  ASSUME MeshInv, meshUp, UNCHANGED <<meshUp, peers, connections, loopOf, dropped>>,
         attempt' \in [Attempts -> TaskType \cup {Nobody}], probing' \subseteq Remotes,
         \A p \in Remotes : Trying(p)' <=> Trying(p)
  PROVE  MeshInv'
  BY DEF MeshInv, MeshTypes, ConnectedHasConnection, NoPeerForgotten, RemovedNotConnected,
         TriedIsListed, DownIsEmpty, IsListed, InMap

\* A task goes on with the same peer.
LEMMA TaskReplaced ==
  ASSUME MeshTypes, NEW t \in Attempts, attempt[t] # Nobody, NEW new \in TaskType,
         new.peer = attempt[t].peer, attempt' = [attempt EXCEPT ![t] = new]
  PROVE  /\ attempt' \in [Attempts -> TaskType \cup {Nobody}]
         /\ \A p \in Remotes : Trying(p)' <=> Trying(p)
<1>1. new # Nobody
  BY NotNobody
<1>2. attempt' \in [Attempts -> TaskType \cup {Nobody}]
  BY DEF MeshTypes
<1>3. ASSUME NEW p \in Remotes, Trying(p)
      PROVE  Trying(p)'
  <2>1. PICK u \in Attempts : attempt[u] # Nobody /\ attempt[u].peer = p
    BY <1>3 DEF Trying
  <2>2. attempt'[u] # Nobody /\ attempt'[u].peer = p
    BY <1>1, <2>1 DEF MeshTypes
  <2> QED
    BY <2>2 DEF Trying
<1>4. ASSUME NEW p \in Remotes, Trying(p)'
      PROVE  Trying(p)
  <2>1. PICK u \in Attempts : attempt'[u] # Nobody /\ attempt'[u].peer = p
    BY <1>4 DEF Trying
  <2>2. attempt[u] # Nobody /\ attempt[u].peer = p
    BY <1>1, <2>1 DEF MeshTypes
  <2> QED
    BY <2>2 DEF Trying
<1> QED
  BY <1>2, <1>3, <1>4

\* A task has reached somebody.
LEMMA ReachedTask ==
  ASSUME NEW r \in TaskType, NEW q \in Remotes
  PROVE  LET new == [r EXCEPT !.step = "connect", !.claims = q]
         IN  new \in TaskType /\ new.peer = r.peer
  BY DEF TaskType

\* What a task does after a failure.
LEMMA NextTry ==
  ASSUME MeshTypes, NEW t \in Attempts, attempt[t] # Nobody
  PROVE  \E new \in TaskType : /\ new.peer = attempt[t].peer
                               /\ Next1(t) = [attempt EXCEPT ![t] = new]
<1> DEFINE r == attempt[t]
<1>1. r \in TaskType
  BY DEF MeshTypes
<1>2. MaxTries \in Nat \ {0}
  BY MeshAssumption, Zenon
<1> DEFINE again == [r EXCEPT !.step = "dial", !.try = r.try + 1]
           last == [r EXCEPT !.step = "give up"]
           new == IF r.try < MaxTries THEN again ELSE last
<1>3. Next1(t) = [attempt EXCEPT ![t] = new]
  BY DEF Next1
<1>4. last \in TaskType /\ last.peer = r.peer
  BY <1>1, TaskFields
<1>5. ASSUME r.try < MaxTries
      PROVE  again \in TaskType /\ again.peer = r.peer
  <2> DEFINE n == r.try + 1
  <2>1. r.try \in 1 .. MaxTries
    BY <1>1, TaskFields
  <2>2. n \in 1 .. MaxTries
    BY <1>2, <1>5, <2>1
  <2> HIDE DEF n
  <2>3. /\ [r EXCEPT !.step = "dial", !.try = n] \in TaskType
        /\ [r EXCEPT !.step = "dial", !.try = n].peer = r.peer
    BY <1>1, <2>2 DEF TaskType
  <2> QED
    BY <2>3 DEF n
<1> HIDE DEF again, last
<1>6. new \in TaskType /\ new.peer = r.peer
  BY <1>4, <1>5
<1> QED
  BY <1>3, <1>6

-----------------------------------------------------------------------------
(* The steps.                                                              *)

\* A task that is started for p, or ends: only Trying(p) changes.
LEMMA TaskStarted ==
  ASSUME MeshTypes, NEW t \in Attempts, attempt[t] = Nobody, NEW p \in Remotes,
         attempt' = [attempt EXCEPT ![t] = Task(p)]
  PROVE  /\ attempt' \in [Attempts -> TaskType \cup {Nobody}]
         /\ Trying(p)'
         /\ \A q \in Remotes : Trying(q) => Trying(q)'
         /\ \A q \in Remotes \ {p} : Trying(q)' => Trying(q)
<1>1. Task(p) \in TaskType /\ Task(p) # Nobody /\ Task(p).peer = p
  BY NewTaskTyped
<1> QED
  BY <1>1 DEF MeshTypes, Trying

LEMMA TaskEnds ==
  ASSUME MeshTypes, NEW t \in Attempts, attempt[t] # Nobody,
         attempt' = [attempt EXCEPT ![t] = Nobody]
  PROVE  /\ attempt' \in [Attempts -> TaskType \cup {Nobody}]
         /\ attempt[t].peer \in Remotes /\ Trying(attempt[t].peer)
         /\ \A q \in Remotes : Trying(q)' => Trying(q)
         /\ \A q \in Remotes \ {attempt[t].peer} : Trying(q) => Trying(q)'
<1>1. attempt[t] \in TaskType
  BY DEF MeshTypes
<1>2. attempt[t].peer \in Remotes
  BY <1>1, TaskFields
<1> QED
  BY <1>2 DEF MeshTypes, Trying

LEMMA StepDials ==
  ASSUME MeshInv, NEW t \in Attempts, NEW q \in Remotes, DialFails(t) \/ HandshakeEnds(t, q)
  PROVE  MeshInv'
<1>1. MeshTypes /\ meshUp /\ attempt[t] # Nobody
  BY DEF MeshInv, DialFails, HandshakeEnds, At
<1>2. attempt[t] \in TaskType
  BY <1>1 DEF MeshTypes
<1>3. \E new \in TaskType : new.peer = attempt[t].peer /\ attempt' = [attempt EXCEPT ![t] = new]
  <2>1. CASE DialFails(t)
    BY <1>1, <2>1, NextTry DEF DialFails
  <2>2. CASE HandshakeEnds(t, q)
    <3> DEFINE new == [attempt[t] EXCEPT !.step = "connect", !.claims = q]
    <3>1. attempt' = [attempt EXCEPT ![t] = new]
      BY <1>1, <2>2 DEF HandshakeEnds, MeshTypes
    <3>2. new \in TaskType /\ new.peer = attempt[t].peer
      BY <1>2, ReachedTask
    <3> HIDE DEF new
    <3> QED
      BY <3>1, <3>2
  <2> QED
    BY <2>1, <2>2
<1>4. /\ attempt' \in [Attempts -> TaskType \cup {Nobody}]
      /\ \A p \in Remotes : Trying(p)' <=> Trying(p)
  BY <1>1, <1>3, TaskReplaced
<1>5. UNCHANGED <<meshUp, peers, connections, loopOf, probing, dropped>>
  BY DEF DialFails, HandshakeEnds
<1>6. probing' \subseteq Remotes
  BY <1>1, <1>5 DEF MeshTypes
<1> QED
  BY <1>1, <1>4, <1>5, <1>6, TasksGoOn

\* List, map and tasks change for the peers in D only; if one of them has no
\* connection, the list says so, or that somebody tries, or who answered for it.
LEMMA SomeListedDifferently ==
  ASSUME MeshInv, meshUp, meshUp', NEW D \in SUBSET Remotes,
         peers' \in [Remotes -> PeerType \cup {Nobody}],
         \A q \in Remotes \ D : peers'[q] = peers[q],
         connections' \in [Remotes -> Conns \cup {Nobody}],
         \A q \in Remotes \ D : connections'[q] = connections[q],
         attempt' \in [Attempts -> TaskType \cup {Nobody}],
         \A q \in Remotes \ D : Trying(q)' <=> Trying(q),
         loopOf' \in [Conns -> Remotes \cup {Nobody}],
         \A q \in Remotes : InMap(q)' => loopOf'[connections'[q]] = q,
         probing' \subseteq Remotes,
         \A q \in Remotes \ D : q \in dropped => q \in dropped',
         \A p \in D :
            /\ (IsListed(p)' /\ peers'[p].state = "connected" /\ peers'[p].own) => InMap(p)'
            /\ (IsListed(p)' /\ peers'[p].endpoint /\ ~ InMap(p)')
                  => peers'[p].state = "disconnected" \/ Trying(p)' \/ ~ peers'[p].own
            /\ (InMap(p)' \/ Trying(p)') /\ ~ IsListed(p)' => p \in dropped'
  PROVE  MeshInv'
<1>1. MeshTypes'
  BY DEF MeshTypes
<1>2. ConnectedHasConnection'
  BY DEF MeshInv, ConnectedHasConnection, IsListed, InMap
<1>3. NoPeerForgotten'
  <2> SUFFICES ASSUME NEW q \in Remotes
               PROVE  /\ (IsListed(q)' /\ peers'[q].endpoint /\ ~ InMap(q)')
                            => peers'[q].state = "disconnected" \/ Trying(q)' \/ ~ peers'[q].own
                      /\ InMap(q)' => loopOf'[connections'[q]] = q
    BY DEF NoPeerForgotten
  <2>1. CASE q \in D
    BY <2>1
  <2>2. CASE q \notin D
    BY <2>2 DEF MeshInv, NoPeerForgotten, IsListed, InMap
  <2> QED
    BY <2>1, <2>2
<1>4. RemovedNotConnected' /\ TriedIsListed'
  BY DEF MeshInv, RemovedNotConnected, TriedIsListed, IsListed, InMap
<1>5. DownIsEmpty'
  BY DEF DownIsEmpty
<1> QED
  BY <1>1, <1>2, <1>3, <1>4, <1>5 DEF MeshInv

LEMMA ListedDifferently ==
  ASSUME MeshInv, meshUp, meshUp', NEW p \in Remotes,
         peers' \in [Remotes -> PeerType \cup {Nobody}],
         \A q \in Remotes \ {p} : peers'[q] = peers[q],
         connections' \in [Remotes -> Conns \cup {Nobody}],
         \A q \in Remotes \ {p} : connections'[q] = connections[q],
         attempt' \in [Attempts -> TaskType \cup {Nobody}],
         \A q \in Remotes \ {p} : Trying(q)' <=> Trying(q),
         loopOf' \in [Conns -> Remotes \cup {Nobody}],
         \A q \in Remotes : InMap(q)' => loopOf'[connections'[q]] = q,
         probing' \subseteq Remotes,
         \A q \in Remotes \ {p} : q \in dropped => q \in dropped',
         (IsListed(p)' /\ peers'[p].state = "connected" /\ peers'[p].own) => InMap(p)',
         (IsListed(p)' /\ peers'[p].endpoint /\ ~ InMap(p)')
            => peers'[p].state = "disconnected" \/ Trying(p)' \/ ~ peers'[p].own,
         (InMap(p)' \/ Trying(p)') /\ ~ IsListed(p)' => p \in dropped'
  PROVE  MeshInv'
<1> DEFINE D == {p}
<1>1. /\ D \in SUBSET Remotes
      /\ \A q \in D : q = p
      /\ \A q \in Remotes \ D : q \in Remotes \ {p}
  OBVIOUS
<1> HIDE DEF D
<1>2. \A q \in D :
         /\ (IsListed(q)' /\ peers'[q].state = "connected" /\ peers'[q].own) => InMap(q)'
         /\ (IsListed(q)' /\ peers'[q].endpoint /\ ~ InMap(q)')
               => peers'[q].state = "disconnected" \/ Trying(q)' \/ ~ peers'[q].own
         /\ (InMap(q)' \/ Trying(q)') /\ ~ IsListed(q)' => q \in dropped'
  BY <1>1
<1>3. /\ \A q \in Remotes \ D : peers'[q] = peers[q]
      /\ \A q \in Remotes \ D : connections'[q] = connections[q]
      /\ \A q \in Remotes \ D : Trying(q)' <=> Trying(q)
      /\ \A q \in Remotes \ D : q \in dropped => q \in dropped'
  BY <1>1
<1> QED
  BY <1>1, <1>2, <1>3, SomeListedDifferently

\* What the group lemma needs of the tables that a step leaves alone.
LEMMA Before ==
  ASSUME MeshInv
  PROVE  /\ peers \in [Remotes -> PeerType \cup {Nobody}]
         /\ connections \in [Remotes -> Conns \cup {Nobody}]
         /\ loopOf \in [Conns -> Remotes \cup {Nobody}]
         /\ attempt \in [Attempts -> TaskType \cup {Nobody}]
         /\ probing \subseteq Remotes
         /\ \A q \in Remotes : InMap(q) => loopOf[connections[q]] = q
         /\ \A q \in Remotes :
               (IsListed(q) /\ peers[q].state = "connected" /\ peers[q].own) => InMap(q)
         /\ \A q \in Remotes : (IsListed(q) /\ peers[q].endpoint /\ ~ InMap(q))
                                  => peers[q].state = "disconnected" \/ Trying(q) \/ ~ peers[q].own
         /\ \A q \in Remotes : (InMap(q) \/ Trying(q)) /\ ~ IsListed(q) => q \in dropped
  BY DEF MeshInv, MeshTypes, ConnectedHasConnection, NoPeerForgotten, RemovedNotConnected,
         TriedIsListed

LEMMA StepInviteAccept ==
  ASSUME MeshInv, NEW i \in Invites, InviteAccept(i)
  PROVE  MeshInv'
<1> DEFINE p == InviteFor[i]
<1>0. p \in Remotes
  BY MeshAssumption
<1>1. CASE IsListed(p)
  BY <1>1 DEF InviteAccept, MeshInv, MeshTypes, ConnectedHasConnection, NoPeerForgotten,
              RemovedNotConnected, TriedIsListed, DownIsEmpty, IsListed, InMap, Trying
<1>2. CASE ~ IsListed(p)
  <2>1. /\ meshUp /\ meshUp' = meshUp
        /\ peers' = [peers EXCEPT ![p] = Peer(TRUE, "connecting")]
        /\ dropped' = dropped \ {p} /\ UNCHANGED <<connections, loopOf, probing>>
    BY <1>2 DEF InviteAccept
  <2>2. PICK t \in Attempts : /\ attempt[t] = Nobody
                              /\ attempt' = [attempt EXCEPT ![t] = Task(p)]
    BY <1>2 DEF InviteAccept, Spare
  <2> HIDE DEF p
  <2>3. /\ attempt' \in [Attempts -> TaskType \cup {Nobody}]
        /\ Trying(p)'
        /\ \A q \in Remotes \ {p} : Trying(q)' <=> Trying(q)
    BY <1>0, <2>2, TaskStarted DEF MeshInv
  <2>4. /\ Peer(TRUE, "connecting") \in PeerType /\ Peer(TRUE, "connecting") # Nobody
        /\ Peer(TRUE, "connecting").state = "connecting"
    BY NewPeerTyped DEF States
  <2>5. /\ peers' \in [Remotes -> PeerType \cup {Nobody}]
        /\ \A q \in Remotes \ {p} : peers'[q] = peers[q]
        /\ IsListed(p)' /\ peers'[p].state = "connecting"
    BY <1>0, <2>1, <2>4, Before DEF IsListed
  <2>6. /\ \A q \in Remotes : InMap(q)' => loopOf'[connections'[q]] = q
        /\ connections' \in [Remotes -> Conns \cup {Nobody}]
        /\ loopOf' \in [Conns -> Remotes \cup {Nobody}] /\ probing' \subseteq Remotes
        /\ \A q \in Remotes \ {p} : connections'[q] = connections[q]
    BY <1>0, <2>1, Before DEF InMap
  <2> QED
    BY <1>0, <2>1, <2>3, <2>5, <2>6, ListedDifferently
<1> QED
  BY <1>1, <1>2

LEMMA StepPeerDelete ==
  ASSUME MeshInv, NEW p \in Remotes, PeerDelete(p)
  PROVE  MeshInv'
<1>1. /\ meshUp /\ meshUp' = meshUp
      /\ connections' = [connections EXCEPT ![p] = Nobody]
      /\ peers' = [peers EXCEPT ![p] = Nobody]
      /\ dropped' = IF Trying(p) THEN dropped \cup {p} ELSE dropped \ {p}
      /\ UNCHANGED <<loopOf, attempt, probing>>
  BY DEF PeerDelete
<1>2. /\ peers' \in [Remotes -> PeerType \cup {Nobody}]
      /\ \A q \in Remotes \ {p} : peers'[q] = peers[q]
      /\ ~ IsListed(p)'
  BY <1>1, Before DEF IsListed
<1>3. /\ connections' \in [Remotes -> Conns \cup {Nobody}]
      /\ \A q \in Remotes \ {p} : connections'[q] = connections[q]
      /\ ~ InMap(p)'
      /\ \A q \in Remotes : InMap(q)' => loopOf'[connections'[q]] = q
  BY <1>1, Before DEF InMap
<1>4. \A q \in Remotes : Trying(q)' <=> Trying(q)
  BY <1>1 DEF Trying
<1>5. /\ attempt' \in [Attempts -> TaskType \cup {Nobody}]
      /\ loopOf' \in [Conns -> Remotes \cup {Nobody}] /\ probing' \subseteq Remotes
      /\ \A q \in Remotes \ {p} : q \in dropped => q \in dropped'
      /\ Trying(p)' => p \in dropped'
  BY <1>1, <1>4, Before
<1> QED
  BY <1>1, <1>2, <1>3, <1>4, <1>5, ListedDifferently

\* A new connection: the names of those that are in the map are taken.
LEMMA Connected ==
  ASSUME MeshInv, NEW p \in Remotes, Connect(p)
  PROVE  /\ connections' \in [Remotes -> Conns \cup {Nobody}]
         /\ loopOf' \in [Conns -> Remotes \cup {Nobody}]
         /\ \A q \in Remotes \ {p} : connections'[q] = connections[q]
         /\ InMap(p)'
         /\ \A q \in Remotes : InMap(q)' => loopOf'[connections'[q]] = q
<1>1. PICK new \in Conns : /\ loopOf[new] = Nobody
                           /\ connections' = [connections EXCEPT ![p] = new]
                           /\ loopOf' = [loopOf EXCEPT ![new] = p]
  <2> DEFINE free == {c \in Conns : loopOf[c] = Nobody}
  <2>1. (CHOOSE c \in free : TRUE) \in free
    BY DEF Connect
  <2> QED
    BY <2>1 DEF Connect
<1>2. /\ connections' \in [Remotes -> Conns \cup {Nobody}]
      /\ loopOf' \in [Conns -> Remotes \cup {Nobody}]
      /\ \A q \in Remotes \ {p} : connections'[q] = connections[q]
      /\ connections'[p] = new /\ loopOf'[new] = p
      /\ \A c \in Conns \ {new} : loopOf'[c] = loopOf[c]
  BY <1>1, Before
<1>3. ASSUME NEW q \in Remotes \ {p}, InMap(q)'
      PROVE  loopOf'[connections'[q]] = q
  <2>1. InMap(q) /\ connections[q] \in Conns /\ loopOf[connections[q]] = q
    BY <1>2, <1>3, Before DEF InMap
  <2>2. connections[q] # new
    BY <1>1, <2>1, NotNobody
  <2> QED
    BY <1>2, <2>1, <2>2
<1>4. InMap(p)'
  BY <1>2, NotNobody DEF InMap
<1> QED
  BY <1>2, <1>3, <1>4

LEMMA StepInbound ==
  ASSUME MeshInv, NEW p \in Remotes, Inbound(p)
  PROVE  MeshInv'
<1>1. /\ meshUp /\ meshUp' = meshUp /\ Connect(p)
      /\ dropped' = dropped \ {p} /\ UNCHANGED <<attempt, probing>>
  BY DEF Inbound
<1>2. /\ peers' \in [Remotes -> PeerType \cup {Nobody}]
      /\ \A q \in Remotes \ {p} : peers'[q] = peers[q]
      /\ IsListed(p)'
  <2>1. CASE IsListed(p)
    <3>1. peers' = WithState(p, "connected")
      BY <2>1 DEF Inbound
    <3> QED
      BY <2>1, <3>1, StateChanged DEF MeshInv, States, IsListed
  <2>2. CASE ~ IsListed(p)
    <3>1. peers' = [peers EXCEPT ![p] = Peer(FALSE, "connected")]
      BY <2>2 DEF Inbound
    <3>2. Peer(FALSE, "connected") \in PeerType /\ Peer(FALSE, "connected") # Nobody
      BY NewPeerTyped DEF States
    <3> QED
      BY <3>1, <3>2, Before DEF IsListed
  <2> QED
    BY <2>1, <2>2
<1>3. /\ \A q \in Remotes : Trying(q)' <=> Trying(q)
      /\ attempt' \in [Attempts -> TaskType \cup {Nobody}] /\ probing' \subseteq Remotes
  BY <1>1, Before DEF Trying
<1> QED
  BY <1>1, <1>2, <1>3, Connected, ListedDifferently

\* Connected is written for one peer, in whoever's name.
LEMMA ReachedPeer ==
  ASSUME MeshTypes, NEW p \in Remotes, NEW q \in Remotes
  PROVE  LET list == Reached(p, q)
         IN  /\ list \in [Remotes -> PeerType \cup {Nobody}]
             /\ \A o \in Remotes \ {p} : list[o] = peers[o]
             /\ ~ IsListed(p) => list[p] = Nobody
             /\ IsListed(p) => /\ list[p] # Nobody
                               /\ list[p].endpoint = peers[p].endpoint
                               /\ list[p].own = (q = p)
<1>1. CASE IsListed(p)
  <2> DEFINE new == [peers[p] EXCEPT !.state = "connected", !.own = (q = p)]
  <2>1. peers[p] \in PeerType
    BY <1>1 DEF MeshTypes, IsListed
  <2>2. new \in PeerType /\ new.endpoint = peers[p].endpoint /\ new.own = (q = p)
    BY <2>1 DEF PeerType, States
  <2>3. Reached(p, q) = [peers EXCEPT ![p] = new]
    BY <1>1 DEF Reached, MeshTypes
  <2> HIDE DEF new
  <2> QED
    BY <1>1, <2>2, <2>3, NotNobody DEF MeshTypes
<1>2. CASE ~ IsListed(p)
  BY <1>2 DEF Reached, MeshTypes, IsListed
<1> QED
  BY <1>1, <1>2

\* The peer that was dialled and the one that the other side says it is change.
LEMMA StepOutbound ==
  ASSUME MeshInv, NEW t \in Attempts, Outbound(t)
  PROVE  MeshInv'
<1>1. /\ meshUp /\ meshUp' = meshUp /\ attempt[t] # Nobody
      /\ attempt' = [attempt EXCEPT ![t] = Nobody]
      /\ UNCHANGED probing
  BY DEF Outbound, At
<1>2. attempt[t].claims \in Remotes
  BY <1>1, Before, TaskFields
<1>3. PICK p \in Remotes :
          /\ p = attempt[t].peer /\ Trying(p)
          /\ attempt' \in [Attempts -> TaskType \cup {Nobody}]
          /\ \A o \in Remotes \ {p} : Trying(o)' <=> Trying(o)
  BY <1>1, TaskEnds DEF MeshInv
<1>4. PICK q \in Remotes : q = attempt[t].claims
  BY <1>2
<1>5. /\ Connect(q) /\ peers' = Reached(p, q)
      /\ dropped' = IF q # p /\ ~ IsListed(q) THEN dropped \cup {q} ELSE dropped
  BY <1>3, <1>4 DEF Outbound
<1>6. /\ connections' \in [Remotes -> Conns \cup {Nobody}]
      /\ loopOf' \in [Conns -> Remotes \cup {Nobody}]
      /\ \A o \in Remotes \ {q} : connections'[o] = connections[o]
      /\ InMap(q)'
      /\ \A o \in Remotes : InMap(o)' => loopOf'[connections'[o]] = o
  BY <1>5, Connected
<1>7. /\ peers' \in [Remotes -> PeerType \cup {Nobody}]
      /\ \A o \in Remotes \ {p} : peers'[o] = peers[o]
      /\ IsListed(p)' <=> IsListed(p)
      /\ IsListed(p) => peers'[p].own = (q = p)
  BY <1>5, ReachedPeer DEF MeshInv, IsListed
<1>8. probing' \subseteq Remotes
  BY <1>1, Before
<1>9. ~ IsListed(p) => p \in dropped'
  BY <1>3, <1>5, Before
<1>10. ASSUME NEW o \in {p, q}
       PROVE  /\ (IsListed(o)' /\ peers'[o].state = "connected" /\ peers'[o].own) => InMap(o)'
              /\ (IsListed(o)' /\ peers'[o].endpoint /\ ~ InMap(o)')
                    => peers'[o].state = "disconnected" \/ Trying(o)' \/ ~ peers'[o].own
              /\ (InMap(o)' \/ Trying(o)') /\ ~ IsListed(o)' => o \in dropped'
  <2>1. CASE o = p
    BY <1>6, <1>7, <1>9, <2>1
  <2>2. CASE o # p
    BY <1>5, <1>6, <1>7, <1>10, <2>2 DEF IsListed
  <2> QED
    BY <2>1, <2>2
<1>11. /\ {p, q} \in SUBSET Remotes
       /\ \A o \in Remotes \ {p, q} : o \in dropped => o \in dropped'
       /\ \A o \in Remotes \ {p, q} : peers'[o] = peers[o]
       /\ \A o \in Remotes \ {p, q} : connections'[o] = connections[o]
       /\ \A o \in Remotes \ {p, q} : Trying(o)' <=> Trying(o)
  BY <1>3, <1>5, <1>6, <1>7
<1> QED
  BY <1>1, <1>3, <1>6, <1>7, <1>8, <1>10, <1>11, SomeListedDifferently

\* The state of one peer changes, and nothing else but one task, which goes on
\* with it or ends.
LEMMA StateOnly ==
  ASSUME MeshInv, meshUp, meshUp', NEW p \in Remotes, NEW st \in {"failed", "disconnected"},
         peers' = WithState(p, st), UNCHANGED <<connections, loopOf, probing, dropped>>,
         attempt' \in [Attempts -> TaskType \cup {Nobody}],
         \A q \in Remotes \ {p} : Trying(q)' <=> Trying(q),
         Trying(p)' => Trying(p),
         st = "failed" => Trying(p)'
  PROVE  MeshInv'
<1>1. st \in States
  BY DEF States
<1>2. /\ peers' \in [Remotes -> PeerType \cup {Nobody}]
      /\ \A q \in Remotes \ {p} : peers'[q] = peers[q]
      /\ ~ IsListed(p) => ~ IsListed(p)'
      /\ IsListed(p) => IsListed(p)' /\ peers'[p].state = st
  BY <1>1, StateChanged DEF MeshInv, IsListed
<1>3. /\ connections' \in [Remotes -> Conns \cup {Nobody}]
      /\ loopOf' \in [Conns -> Remotes \cup {Nobody}] /\ probing' \subseteq Remotes
      /\ \A q \in Remotes \ {p} : connections'[q] = connections[q]
      /\ \A q \in Remotes : InMap(q)' <=> InMap(q)
      /\ \A q \in Remotes : InMap(q)' => loopOf'[connections'[q]] = q
  BY Before DEF InMap
<1>4. (InMap(p)' \/ Trying(p)') /\ ~ IsListed(p)' => p \in dropped'
  BY <1>2, <1>3, Before
<1>5. (IsListed(p)' /\ peers'[p].state = "connected") => InMap(p)'
  BY <1>2
<1>6. (IsListed(p)' /\ peers'[p].endpoint /\ ~ InMap(p)')
         => peers'[p].state = "disconnected" \/ Trying(p)'
  BY <1>2
<1> QED
  BY <1>2, <1>3, <1>4, <1>5, <1>6, ListedDifferently

LEMMA StepHandshakeFails ==
  ASSUME MeshInv, NEW t \in Attempts, HandshakeFails(t)
  PROVE  MeshInv'
<1>1. /\ meshUp /\ meshUp' = meshUp /\ attempt[t] # Nobody
      /\ peers' = WithState(attempt[t].peer, "failed") /\ attempt' = Next1(t)
      /\ UNCHANGED <<connections, loopOf, probing, dropped>>
  BY DEF HandshakeFails, At
<1>2. attempt[t] \in TaskType
  BY <1>1, Before
<1>3. PICK p \in Remotes : p = attempt[t].peer
  BY <1>2, TaskFields
<1>4. Trying(p)
  BY <1>1, <1>3 DEF Trying
<1>5. /\ attempt' \in [Attempts -> TaskType \cup {Nobody}]
      /\ \A q \in Remotes : Trying(q)' <=> Trying(q)
  BY <1>1, NextTry, TaskReplaced DEF MeshInv
<1> QED
  BY <1>1, <1>3, <1>4, <1>5, StateOnly

LEMMA StepGivesUp ==
  ASSUME MeshInv, NEW t \in Attempts, GivesUp(t)
  PROVE  MeshInv'
<1>1. /\ meshUp /\ meshUp' = meshUp /\ attempt[t] # Nobody
      /\ peers' = WithState(attempt[t].peer, "disconnected")
      /\ attempt' = [attempt EXCEPT ![t] = Nobody]
      /\ UNCHANGED <<connections, loopOf, probing, dropped>>
  BY DEF GivesUp, At
<1>2. PICK p \in Remotes :
          /\ p = attempt[t].peer /\ Trying(p)
          /\ attempt' \in [Attempts -> TaskType \cup {Nobody}]
          /\ \A q \in Remotes \ {p} : Trying(q)' <=> Trying(q)
  BY <1>1, TaskEnds DEF MeshInv
<1> QED
  BY <1>1, <1>2, StateOnly

\* The end of a connection, or of one that replaced it.
LEMMA Disconnected ==
  ASSUME MeshInv, meshUp, meshUp', NEW p \in Remotes, Disconnect(p),
         UNCHANGED <<attempt, dropped>>, probing' \subseteq Remotes,
         loopOf' \in [Conns -> Remotes \cup {Nobody}],
         \A c \in Conns : loopOf'[c] = loopOf[c] \/ loopOf[c] = p
  PROVE  MeshInv'
<1>1. peers' = WithState(p, "disconnected") /\ connections' = [connections EXCEPT ![p] = Nobody]
  BY DEF Disconnect
<1>2. /\ peers' \in [Remotes -> PeerType \cup {Nobody}]
      /\ \A q \in Remotes \ {p} : peers'[q] = peers[q]
      /\ ~ IsListed(p) => ~ IsListed(p)'
      /\ IsListed(p) => IsListed(p)' /\ peers'[p].state = "disconnected"
  BY <1>1, StateChanged DEF MeshInv, IsListed, States
<1>3. /\ connections' \in [Remotes -> Conns \cup {Nobody}]
      /\ \A q \in Remotes \ {p} : connections'[q] = connections[q]
      /\ ~ InMap(p)'
  BY <1>1, Before DEF InMap
<1>4. ASSUME NEW q \in Remotes, InMap(q)'
      PROVE  loopOf'[connections'[q]] = q
  <2>1. q # p /\ connections'[q] = connections[q]
    BY <1>3, <1>4
  <2>2. InMap(q) /\ connections[q] \in Conns /\ loopOf[connections[q]] = q
    BY <1>4, <2>1, Before DEF InMap
  <2> QED
    BY <2>1, <2>2
<1>5. /\ \A q \in Remotes : Trying(q)' <=> Trying(q)
      /\ attempt' \in [Attempts -> TaskType \cup {Nobody}]
  BY Before DEF Trying
<1>6. (InMap(p)' \/ Trying(p)') /\ ~ IsListed(p)' => p \in dropped'
  BY <1>2, <1>3, <1>5, Before
<1>7. (IsListed(p)' /\ peers'[p].endpoint /\ ~ InMap(p)')
         => peers'[p].state = "disconnected" \/ Trying(p)'
  BY <1>2
<1>8. (IsListed(p)' /\ peers'[p].state = "connected") => InMap(p)'
  BY <1>2
<1> QED
  BY <1>2, <1>3, <1>4, <1>5, <1>6, <1>7, <1>8, ListedDifferently

LEMMA StepDisconnects ==
  ASSUME MeshInv,
         \/ \E c \in Conns : ReceiveFails(c)
         \/ \E p \in Remotes : ProbeFails(p)
  PROVE  MeshInv'
<1>1. ASSUME NEW c \in Conns, ReceiveFails(c)
      PROVE  MeshInv'
  <2>1. PICK p \in Remotes : p = loopOf[c]
    BY <1>1, Before DEF ReceiveFails
  <2>2. /\ meshUp /\ meshUp' = meshUp /\ Disconnect(p)
        /\ loopOf' = [loopOf EXCEPT ![c] = Nobody] /\ UNCHANGED <<attempt, probing, dropped>>
    BY <1>1, <2>1 DEF ReceiveFails
  <2>3. /\ loopOf' \in [Conns -> Remotes \cup {Nobody}] /\ probing' \subseteq Remotes
        /\ \A d \in Conns : loopOf'[d] = loopOf[d] \/ loopOf[d] = p
    BY <2>1, <2>2, Before
  <2> QED
    BY <2>2, <2>3, Disconnected
<1>2. ASSUME NEW p \in Remotes, ProbeFails(p)
      PROVE  MeshInv'
  <2>1. /\ meshUp /\ meshUp' = meshUp /\ Disconnect(p)
        /\ probing' = probing \ {p} /\ UNCHANGED <<loopOf, attempt, dropped>>
    BY <1>2 DEF ProbeFails
  <2>2. /\ loopOf' \in [Conns -> Remotes \cup {Nobody}] /\ probing' \subseteq Remotes
        /\ \A d \in Conns : loopOf'[d] = loopOf[d]
    BY <2>1, Before
  <2> QED
    BY <2>1, <2>2, Disconnected
<1> QED
  BY <1>1, <1>2

LEMMA StepProbing ==
  ASSUME MeshInv, HealthCollects \/ \E p \in Remotes : ProbeSucceeds(p)
  PROVE  MeshInv'
<1>1. /\ meshUp /\ UNCHANGED <<meshUp, peers, connections, loopOf, attempt, dropped>>
      /\ probing' \subseteq Remotes
  BY Before DEF HealthCollects, ProbeSucceeds
<1>2. /\ \A q \in Remotes : Trying(q)' <=> Trying(q)
      /\ attempt' \in [Attempts -> TaskType \cup {Nobody}]
  BY <1>1, Before DEF Trying
<1> QED
  BY <1>1, <1>2, TasksGoOn

\* The health loop starts tasks, in places that are free, for listed peers.
LEMMA StepHealthReconnects ==
  ASSUME MeshInv, HealthReconnects
  PROVE  MeshInv'
<1> DEFINE lost == {p \in Remotes : /\ IsListed(p)
                                    /\ peers[p].endpoint
                                    /\ peers[p].state = "disconnected"
                                    /\ ~ InMap(p)}
           slots == {f \in [lost -> Spare] : \A p, q \in lost : f[p] = f[q] => p = q}
           slot == CHOOSE f \in slots : TRUE
           chosen(t) == CHOOSE p \in lost : slot[p] = t
<1>1. /\ meshUp /\ UNCHANGED <<meshUp, peers, connections, loopOf, probing, dropped>>
      /\ slots # {}
      /\ attempt' = [t \in Attempts |->
            IF \E p \in lost : slot[p] = t THEN Task(chosen(t)) ELSE attempt[t]]
  BY DEF HealthReconnects
<1>2. lost \subseteq Remotes /\ \A p \in lost : IsListed(p)
  OBVIOUS
<1>3. slot \in [lost -> Spare]
  BY <1>1
<1> HIDE DEF lost, slot
<1>4. ASSUME NEW t \in Attempts, \E p \in lost : slot[p] = t
      PROVE  /\ chosen(t) \in lost
             /\ attempt[t] = Nobody
             /\ attempt'[t] \in TaskType /\ attempt'[t].peer = chosen(t)
  <2>1. chosen(t) \in lost /\ slot[chosen(t)] = t
    BY <1>4
  <2>2. attempt[t] = Nobody
    BY <1>3, <2>1 DEF Spare
  <2>3. attempt'[t] = Task(chosen(t))
    BY <1>1, <1>4
  <2> QED
    BY <1>2, <2>1, <2>2, <2>3, NewTaskTyped
<1>5. ASSUME NEW t \in Attempts, ~ \E p \in lost : slot[p] = t
      PROVE  attempt'[t] = attempt[t]
  BY <1>1, <1>5
<1>6. attempt' \in [Attempts -> TaskType \cup {Nobody}]
  <2>1. \A t \in Attempts : attempt'[t] \in TaskType \cup {Nobody}
    BY <1>4, <1>5, Before
  <2>2. attempt' = [t \in Attempts |-> attempt'[t]]
    BY <1>1
  <2> QED
    BY <2>1, <2>2
<1>7. ASSUME NEW p \in Remotes, Trying(p)
      PROVE  Trying(p)'
  <2>1. PICK t \in Attempts : attempt[t] # Nobody /\ attempt[t].peer = p
    BY <1>7 DEF Trying
  <2>2. attempt'[t] = attempt[t]
    BY <1>4, <1>5, <2>1
  <2> QED
    BY <2>1, <2>2 DEF Trying
<1>8. ASSUME NEW p \in Remotes, Trying(p)'
      PROVE  Trying(p) \/ IsListed(p)
  <2>1. PICK t \in Attempts : attempt'[t] # Nobody /\ attempt'[t].peer = p
    BY <1>8 DEF Trying
  <2>2. CASE \E q \in lost : slot[q] = t
    BY <1>2, <1>4, <2>1, <2>2
  <2>3. CASE ~ \E q \in lost : slot[q] = t
    BY <1>5, <2>1, <2>3 DEF Trying
  <2> QED
    BY <2>2, <2>3
<1>9. MeshTypes'
  BY <1>1, <1>6 DEF MeshInv, MeshTypes
<1>10. ConnectedHasConnection' /\ NoPeerForgotten' /\ RemovedNotConnected'
  BY <1>1, <1>7 DEF MeshInv, ConnectedHasConnection, NoPeerForgotten, RemovedNotConnected,
                    IsListed, InMap
<1>11. TriedIsListed'
  BY <1>1, <1>8 DEF MeshInv, TriedIsListed, IsListed
<1>12. DownIsEmpty'
  BY <1>1 DEF DownIsEmpty
<1> QED
  BY <1>9, <1>10, <1>11, <1>12 DEF MeshInv

\* The end of the daemon: nothing is left in memory.
LEMMA NothingInMemory ==
  ASSUME peers' = [p \in Remotes |-> Nobody], connections' = [p \in Remotes |-> Nobody],
         loopOf' = [c \in Conns |-> Nobody], attempt' = [t \in Attempts |-> Nobody],
         probing' = {}
  PROVE  MeshInv'
<1>1. /\ \A p \in Remotes : ~ IsListed(p)' /\ ~ InMap(p)' /\ ~ Trying(p)'
      /\ \A t \in Attempts : attempt'[t] = Nobody
  BY DEF IsListed, InMap, Trying
<1>2. MeshTypes'
  BY DEF MeshTypes
<1> QED
  BY <1>1, <1>2 DEF MeshInv, ConnectedHasConnection, NoPeerForgotten, RemovedNotConnected,
                    TriedIsListed, DownIsEmpty

\* load_peers: everybody is Disconnected.
LEMMA StepMeshStarts ==
  ASSUME MeshInv, MeshStarts
  PROVE  MeshInv'
<1>1. /\ ~ meshUp /\ meshUp' = TRUE
      /\ peers' = [p \in Remotes |-> LoadedPeer(p)]
      /\ UNCHANGED <<connections, loopOf, attempt, probing, dropped>>
  BY DEF MeshStarts
<1>2. \A p \in Remotes : /\ LoadedPeer(p) \in PeerType \cup {Nobody}
                         /\ LoadedPeer(p) # Nobody => LoadedPeer(p).state = "disconnected"
  <2>1. \A e \in BOOLEAN : /\ Peer(e, "disconnected") \in PeerType
                           /\ Peer(e, "disconnected").state = "disconnected"
    BY NewPeerTyped DEF States
  <2> QED
    BY <2>1 DEF LoadedPeer
<1>3. /\ \A p \in Remotes : ~ InMap(p)' /\ ~ Trying(p)'
      /\ \A p \in Remotes : IsListed(p)' => peers'[p].state = "disconnected"
  BY <1>1, <1>2 DEF MeshInv, DownIsEmpty, InMap, IsListed, Trying
<1>4. MeshTypes'
  BY <1>1, <1>2 DEF MeshInv, MeshTypes
<1>5. ConnectedHasConnection' /\ NoPeerForgotten' /\ RemovedNotConnected' /\ TriedIsListed'
  BY <1>3 DEF ConnectedHasConnection, NoPeerForgotten, RemovedNotConnected, TriedIsListed
<1>6. DownIsEmpty'
  BY <1>1 DEF DownIsEmpty
<1> QED
  BY <1>4, <1>5, <1>6 DEF MeshInv

LEMMA MeshInvInit ==
  MeshInit => MeshInv
<1> SUFFICES ASSUME MeshInit
             PROVE  MeshInv
  OBVIOUS
<1>1. /\ \A p \in Remotes : ~ IsListed(p) /\ ~ InMap(p) /\ ~ Trying(p)
      /\ \A t \in Attempts : attempt[t] = Nobody
  BY DEF MeshInit, IsListed, InMap, Trying
<1>2. MeshTypes
  BY DEF MeshInit, MeshTypes
<1> QED
  BY <1>1, <1>2 DEF MeshInv, ConnectedHasConnection, NoPeerForgotten, RemovedNotConnected,
                    TriedIsListed, DownIsEmpty

LEMMA MeshInvStep ==
  MeshInv /\ [MeshNext]_meshVars => MeshInv'
<1> SUFFICES ASSUME MeshInv, [MeshNext]_meshVars
             PROVE  MeshInv'
  OBVIOUS
<1>1. ASSUME NEW p \in Remotes, PeerDelete(p) \/ Inbound(p) \/ ProbeSucceeds(p) \/ ProbeFails(p)
      PROVE  MeshInv'
  BY <1>1, StepPeerDelete, StepInbound, StepProbing, StepDisconnects
<1>2. ASSUME NEW t \in Attempts,
             DialFails(t) \/ HandshakeFails(t) \/ (\E q \in Remotes : HandshakeEnds(t, q))
                \/ Outbound(t) \/ GivesUp(t)
      PROVE  MeshInv'
  <2>1. CASE DialFails(t)
    <3>1. attempt[t].peer \in Remotes
      BY <2>1, Before, TaskFields DEF DialFails, At
    <3> QED
      BY <2>1, <3>1, StepDials
  <2>2. ASSUME NEW q \in Remotes, HandshakeEnds(t, q)
        PROVE  MeshInv'
    BY <2>2, StepDials
  <2> QED
    BY <1>2, <2>1, <2>2, StepHandshakeFails, StepOutbound, StepGivesUp
<1>3. ASSUME NEW c \in Conns, ReceiveFails(c)
      PROVE  MeshInv'
  BY <1>3, StepDisconnects
<1>8. ASSUME NEW i \in Invites, InviteAccept(i)
      PROVE  MeshInv'
  BY <1>8, StepInviteAccept
<1>4. CASE HealthCollects \/ HealthReconnects
  BY <1>4, StepProbing, StepHealthReconnects
<1>5. CASE MeshEnds
  BY <1>5, NothingInMemory DEF MeshEnds
<1>6. CASE MeshStarts
  BY <1>6, StepMeshStarts
<1>7. CASE UNCHANGED meshVars
  BY <1>7 DEF meshVars, MeshInv, MeshTypes, ConnectedHasConnection, NoPeerForgotten,
              RemovedNotConnected, TriedIsListed, DownIsEmpty, IsListed, InMap, Trying
<1> QED
  BY <1>1, <1>2, <1>3, <1>4, <1>5, <1>6, <1>7, <1>8 DEF MeshNext

-----------------------------------------------------------------------------
(* Strangers.                                                              *)

Few(S) == IsFiniteSet(S) /\ Cardinality(S) <= MaxUnknown

\* Not too many of them, in memory or in the file.
StrangersInv ==
    /\ Few(Unknown)
    /\ peersFile # Nobody => Few(peersFile.unknown)

LEMMA Fewer ==
  ASSUME NEW S, Few(S), NEW T, T \subseteq S
  PROVE  Few(T)
<1>1. MaxUnknown \in Nat
  BY MeshAssumption, Zenon
<1>2. IsFiniteSet(T) /\ Cardinality(T) <= Cardinality(S)
  BY FS_Subset DEF Few
<1>3. Cardinality(S) \in Nat /\ Cardinality(T) \in Nat
  BY <1>2, FS_CardinalityType DEF Few
<1> QED
  BY <1>1, <1>2, <1>3 DEF Few

LEMMA OneMore ==
  ASSUME NEW S, IsFiniteSet(S), Cardinality(S) < MaxUnknown, NEW x
  PROVE  Few(S \cup {x})
<1>1. MaxUnknown \in Nat
  BY MeshAssumption, Zenon
<1>2. /\ IsFiniteSet(S \cup {x}) /\ Cardinality(S) \in Nat
      /\ \/ Cardinality(S \cup {x}) = Cardinality(S)
         \/ Cardinality(S \cup {x}) = Cardinality(S) + 1
  BY FS_AddElement, FS_CardinalityType
<1> QED
  BY <1>1, <1>2 DEF Few

\* The file is left alone, cut off, or gets the strangers of the list.
LEMMA SavedStrangers ==
  ASSUME StrangersInv, Few(Unknown'), SavePeers \/ UNCHANGED peersFile
  PROVE  StrangersInv'
<1>1. Contents(peers').unknown = Unknown'
  BY DEF Contents, Unknown, IsListed
<1> QED
  BY <1>1 DEF StrangersInv, SavePeers

\* A step after which every stranger was one before.
LEMMA NoNewStranger ==
  ASSUME StrangersInv, SavePeers \/ UNCHANGED peersFile,
         \A p \in Remotes : IsListed(p)' /\ ~ peers'[p].endpoint
                               => IsListed(p) /\ ~ peers[p].endpoint
  PROVE  StrangersInv'
<1>1. Unknown' \subseteq Unknown
  BY DEF Unknown
<1> QED
  BY <1>1, Fewer, SavedStrangers DEF StrangersInv

\* update_peer_state makes no strangers.
LEMMA StateKeepsStrangers ==
  ASSUME MeshInv, StrangersInv, NEW p \in Remotes, NEW st \in States,
         peers' = WithState(p, st), SavePeers \/ UNCHANGED peersFile
  PROVE  StrangersInv'
<1>1. \A q \in Remotes : IsListed(q)' /\ ~ peers'[q].endpoint => IsListed(q) /\ ~ peers[q].endpoint
  BY StateChanged DEF MeshInv, IsListed
<1> QED
  BY <1>1, NoNewStranger

LEMMA StrangersStep ==
  ASSUME MeshInv, StrangersInv, [MeshNext]_meshVars
  PROVE  StrangersInv'
<1> USE DEF States
<1>1. ASSUME NEW i \in Invites, InviteAccept(i)
      PROVE  StrangersInv'
  <2> DEFINE p == InviteFor[i]
  <2>1. SavePeers \/ UNCHANGED peersFile
    BY <1>1 DEF InviteAccept
  <2>2. /\ Peer(TRUE, "connecting").endpoint
        /\ peers' = peers \/ peers' = [peers EXCEPT ![p] = Peer(TRUE, "connecting")]
    BY <1>1 DEF InviteAccept, Peer
  <2>4. p \in Remotes
    BY MeshAssumption
  <2> HIDE DEF States, p
  <2>3. \A q \in Remotes : IsListed(q)' /\ ~ peers'[q].endpoint
                              => IsListed(q) /\ ~ peers[q].endpoint
    BY <2>2, <2>4, Before DEF IsListed
  <2> QED
    BY <2>1, <2>3, NoNewStranger
<1>2. ASSUME NEW p \in Remotes, PeerDelete(p)
      PROVE  StrangersInv'
  <2>1. SavePeers \/ UNCHANGED peersFile
    BY <1>2 DEF PeerDelete
  <2>2. \A q \in Remotes : IsListed(q)' => IsListed(q) /\ peers'[q] = peers[q]
    BY <1>2, Before DEF PeerDelete, IsListed
  <2> QED
    BY <2>1, <2>2, NoNewStranger
<1>3. ASSUME NEW p \in Remotes, Inbound(p)
      PROVE  StrangersInv'
  <2>1. CASE IsListed(p)
    BY <1>3, <2>1, StateKeepsStrangers DEF Inbound
  <2>2. CASE ~ IsListed(p)
    <3>1. /\ Cardinality(Unknown) < MaxUnknown /\ SavePeers
          /\ peers' = [peers EXCEPT ![p] = Peer(FALSE, "connected")]
      BY <1>3, <2>2 DEF Inbound
    <3>2. Unknown' \subseteq Unknown \cup {p}
      BY <3>1, Before DEF Unknown, IsListed
    <3>3. Few(Unknown \cup {p})
      BY <3>1, OneMore DEF StrangersInv, Few
    <3> QED
      BY <3>1, <3>2, <3>3, Fewer, SavedStrangers
  <2> QED
    BY <2>1, <2>2
<1>4. ASSUME NEW t \in Attempts, Outbound(t)
      PROVE  StrangersInv'
  <2> DEFINE q == attempt[t].claims
  <2>1. /\ attempt[t] # Nobody /\ UNCHANGED peersFile /\ peers' = Reached(attempt[t].peer, q)
    BY <1>4 DEF Outbound, At
  <2>2. attempt[t].peer \in Remotes /\ q \in Remotes
    BY <2>1, Before, TaskFields
  <2> HIDE DEF q
  <2>3. \A o \in Remotes : IsListed(o)' /\ ~ peers'[o].endpoint => IsListed(o) /\ ~ peers[o].endpoint
    BY <2>1, <2>2, ReachedPeer DEF MeshInv, IsListed
  <2> QED
    BY <2>1, <2>3, NoNewStranger
<1>5. CASE \/ \E c \in Conns : ReceiveFails(c)
           \/ \E p \in Remotes : ProbeFails(p)
  <2>1. PICK q \in Remotes : Disconnect(q)
    BY <1>5, Before DEF ProbeFails, ReceiveFails
  <2> QED
    BY <2>1, StateKeepsStrangers DEF Disconnect
<1>6. ASSUME NEW t \in Attempts, HandshakeFails(t) \/ GivesUp(t)
      PROVE  StrangersInv'
  <2>1. attempt[t] # Nobody /\ UNCHANGED peersFile
        /\ \E st \in States : peers' = WithState(attempt[t].peer, st)
    BY <1>6 DEF HandshakeFails, GivesUp, At
  <2>2. attempt[t].peer \in Remotes
    BY <2>1, Before, TaskFields
  <2> QED
    BY <2>1, <2>2, StateKeepsStrangers
<1>7. CASE \/ UNCHANGED meshVars \/ HealthCollects \/ HealthReconnects
           \/ \E p \in Remotes : ProbeSucceeds(p)
           \/ \E t \in Attempts : DialFails(t) \/ \E q \in Remotes : HandshakeEnds(t, q)
  <2>1. UNCHANGED <<peers, peersFile>>
    BY <1>7 DEF meshVars, HealthCollects, HealthReconnects, ProbeSucceeds, DialFails,
                HandshakeEnds
  <2> QED
    BY <2>1, NoNewStranger DEF IsListed
<1>8. CASE MeshEnds
  BY <1>8, NoNewStranger DEF MeshEnds, IsListed
<1>9. CASE MeshStarts
  <2>1. UNCHANGED peersFile /\ peers' = [p \in Remotes |-> LoadedPeer(p)]
    BY <1>9 DEF MeshStarts
  <2>2. CASE peersFile = Nobody
    <3>1. \A p \in Remotes : ~ IsListed(p)'
      BY <2>1, <2>2 DEF LoadedPeer, IsListed
    <3> QED
      BY <2>1, <3>1, NoNewStranger
  <2>3. CASE peersFile # Nobody
    <3>1. Unknown' \subseteq peersFile.unknown
      <4>1. Peer(TRUE, "disconnected").endpoint
        BY DEF Peer
      <4> QED
        BY <2>1, <2>3, <4>1 DEF Unknown, LoadedPeer, IsListed
    <3> QED
      BY <2>1, <2>3, <3>1, Fewer, SavedStrangers DEF StrangersInv
  <2> QED
    BY <2>2, <2>3
<1> QED
  BY <1>1, <1>2, <1>3, <1>4, <1>5, <1>6, <1>7, <1>8, <1>9 DEF MeshNext

-----------------------------------------------------------------------------
(* The theorems.                                                           *)

\* Every reachable state of the daemon satisfies the invariant: what tasks,
\* receive loops, probes and restarts do to list and map fits together (main.rs).
THEOREM MeshInvariant == MeshSpec => []MeshInv
<1>1. MeshInit => MeshInv
  BY MeshInvInit
<1>2. MeshInv /\ [MeshNext]_meshVars => MeshInv'
  BY MeshInvStep
<1> QED
  BY <1>1, <1>2, PTL DEF MeshSpec

\* A peer that is listed as Connected has a connection (recv_loop,
\* connection_health_loop, initiate_outbound_connection).
THEOREM ConnectedIsTrue == MeshSpec => []ConnectedHasConnection
<1>1. MeshInv => ConnectedHasConnection
  BY DEF MeshInv
<1> QED
  BY <1>1, MeshInvariant, PTL

\* A peer whose endpoint is known is connected, tried, or found by the health
\* loop, and every connection in the map has a receive loop.
THEOREM NobodyForgotten == MeshSpec => []NoPeerForgotten
<1>1. MeshInv => NoPeerForgotten
  BY DEF MeshInv
<1> QED
  BY <1>1, MeshInvariant, PTL

\* A peer that was removed (peer_delete_handler) has no connection in the map,
\* unless a task was connecting to it then.
THEOREM RemovedStaysOff == MeshSpec => []RemovedNotConnected
<1>1. MeshInv => RemovedNotConnected
  BY DEF MeshInv
<1> QED
  BY <1>1, MeshInvariant, PTL

\* At most MAX_UNKNOWN_INBOUND_PEERS strangers are listed (handle_inbound),
\* also after restarts.
THEOREM StrangersAlwaysLimited == MeshSpec => []StrangersLimited
<1>1. MeshInit => StrangersInv
  <2> SUFFICES ASSUME MeshInit
               PROVE  StrangersInv
    OBVIOUS
  <2>1. Unknown = {} /\ peersFile = Nobody
    BY DEF MeshInit, Unknown, IsListed
  <2>2. MaxUnknown \in Nat
    BY MeshAssumption, Zenon
  <2> QED
    BY <2>1, <2>2, FS_EmptySet DEF StrangersInv, Few
<1>2. MeshInv /\ StrangersInv /\ [MeshNext]_meshVars => StrangersInv'
  BY StrangersStep
<1>3. StrangersInv => StrangersLimited
  BY DEF StrangersInv, Few, StrangersLimited
<1> QED
  BY <1>1, <1>2, <1>3, MeshInvariant, PTL DEF MeshSpec

-----------------------------------------------------------------------------
(* Lemmas about the wire.                                                  *)

\* A frame that is written goes to the end of the wire.
LEMMA Written ==
  ASSUME NEW w \in Seq(Frames), NEW f \in Frames
  PROVE  /\ Append(w, f) \in Seq(Frames)
         /\ Len(Append(w, f)) = Len(w) + 1
         /\ Len(w) \in Nat
         /\ Append(w, f)[Len(w) + 1] = f
         /\ \A i \in 1 .. Len(w) : Append(w, f)[i] = w[i]
  OBVIOUS

\* The frame that is read is the first of the wire.
LEMMA Read ==
  ASSUME NEW w \in Seq(Frames), w # <<>>
  PROVE  /\ Tail(w) \in Seq(Frames)
         /\ Len(w) \in Nat /\ Len(w) > 0
         /\ Len(Tail(w)) = Len(w) - 1
         /\ Head(w) = w[1]
         /\ \A i \in 1 .. Len(Tail(w)) : Tail(w)[i] = w[i + 1]
  OBVIOUS

-----------------------------------------------------------------------------
(* The inductive invariant.                                                *)

\* The number that the next frame on the wire would get.
Expected == delivered + Len(wire)

\* At most one message is under way; it is numbered for the next frame.
OneUnderWay ==
    /\ \A s, t \in Senders : sending[s] # NoMessage /\ sending[t] # NoMessage => s = t
    /\ (\A s \in Senders : sending[s] = NoMessage) => sealed = Expected /\ wrapped = Expected
    /\ \A s \in Senders : sending[s] # NoMessage =>
          /\ sending[s].noise = Expected
          /\ sealed = Expected + 1
          /\ sending[s].step = "sealed" => wrapped = Expected
          /\ sending[s].step = "wrapped" => sending[s].pq = Expected /\ wrapped = Expected + 1

\* The receiver has counted alike in both layers, and finds the frames in order.
InOrder ==
    /\ opened = delivered
    /\ \A i \in 1 .. Len(wire) : wire[i] = Frame(delivered + i - 1, delivered + i - 1, TRUE)

Quiet == ~ overlapped /\ ~ cutOff

LinkInv ==
    /\ MeshLinkTypeOK
    /\ Quiet => OneUnderWay /\ InOrder /\ ~ broken

\* Every reachable state of a connection is well typed, and until sends
\* overlap or one is cut off its counters agree (send_message, recv_message).
THEOREM LinkInvariant == MeshLinkSpec => []LinkInv
<1>1. MeshLinkInit => LinkInv
  <2> SUFFICES ASSUME MeshLinkInit PROVE LinkInv
    OBVIOUS
  <2>1. wire = <<>> /\ <<>> \in Seq(Frames) /\ Len(wire) = 0
    BY DEF MeshLinkInit
  <2>2. MeshLinkTypeOK
    BY <2>1 DEF MeshLinkInit, MeshLinkTypeOK
  <2>3. OneUnderWay /\ InOrder /\ ~ broken
    BY <2>1 DEF MeshLinkInit, OneUnderWay, InOrder, Expected
  <2> QED
    BY <2>2, <2>3 DEF LinkInv
<1>2. LinkInv /\ [MeshLinkNext]_linkVars => LinkInv'
  <2> SUFFICES ASSUME LinkInv, [MeshLinkNext]_linkVars PROVE LinkInv'
    OBVIOUS
  <2> USE MeshLinkAssumption
  <2>1. ASSUME NEW s \in Senders, Seal(s) PROVE LinkInv'
    <3> DEFINE m == [step |-> "sealed", noise |-> sealed, pq |-> 0]
    <3>1. m \in Message /\ m # NoMessage
      BY DEF LinkInv, MeshLinkTypeOK, Message, Steps
    <3>2. MeshLinkTypeOK'
      BY <2>1, <3>1 DEF LinkInv, MeshLinkTypeOK, Seal
    <3>3. sending' = [sending EXCEPT ![s] = m] /\ sealed' = sealed + 1
      BY <2>1 DEF Seal
    <3>4. ASSUME Quiet' PROVE OneUnderWay' /\ InOrder' /\ ~ broken'
      <4>1. Quiet /\ \A t \in Senders : sending[t] = NoMessage
        BY <2>1, <3>4 DEF Seal, Quiet, Busy
      <4>2. sealed = Expected /\ wrapped = Expected /\ Expected \in Nat /\ Expected' = Expected
        BY <2>1, <4>1 DEF LinkInv, OneUnderWay, Seal, Expected, MeshLinkTypeOK
      <4>3. \A t \in Senders : sending'[t] # NoMessage => t = s /\ sending'[t] = m
        BY <3>3, <4>1 DEF LinkInv, MeshLinkTypeOK
      <4>4. sending'[s] # NoMessage
        BY <3>1, <3>3 DEF LinkInv, MeshLinkTypeOK
      <4>5. OneUnderWay'
        BY <2>1, <3>3, <4>2, <4>3, <4>4 DEF OneUnderWay, Seal
      <4> QED
        BY <2>1, <4>1, <4>5 DEF LinkInv, InOrder, Seal
    <3> QED
      BY <3>2, <3>4 DEF LinkInv
  <2>2. ASSUME NEW s \in Senders, Wrap(s) PROVE LinkInv'
    <3>1. sending[s] \in Message /\ sending[s] # NoMessage /\ sending[s].step = "sealed"
      BY <2>2 DEF LinkInv, MeshLinkTypeOK, Wrap, HasStep, Busy
    <3> DEFINE m == [sending[s] EXCEPT !.step = "wrapped", !.pq = wrapped]
    <3>2. m \in Message /\ m # NoMessage /\ m.step = "wrapped" /\ m.pq = wrapped
             /\ m.noise = sending[s].noise
      BY <3>1 DEF LinkInv, MeshLinkTypeOK, Message, Steps
    <3>3. sending' = [sending EXCEPT ![s] = m] /\ wrapped' = wrapped + 1
      BY <2>2, <3>1 DEF Wrap, LinkInv, MeshLinkTypeOK
    <3>4. MeshLinkTypeOK'
      BY <2>2, <3>2, <3>3 DEF LinkInv, MeshLinkTypeOK, Wrap
    <3>5. ASSUME Quiet' PROVE OneUnderWay' /\ InOrder' /\ ~ broken'
      <4>1. Quiet /\ Expected' = Expected /\ Expected \in Nat
        BY <2>2, <3>5 DEF Wrap, Quiet, Expected, LinkInv, MeshLinkTypeOK
      <4>2. OneUnderWay /\ InOrder /\ ~ broken
        BY <4>1 DEF LinkInv
      <4>3. sending'[s] = m /\ \A t \in Senders \ {s} : sending'[t] = NoMessage
        BY <3>1, <3>3, <4>2 DEF OneUnderWay, LinkInv, MeshLinkTypeOK
      <4>4. OneUnderWay'
        BY <2>2, <3>1, <3>2, <3>3, <4>1, <4>2, <4>3 DEF OneUnderWay, Wrap
      <4> QED
        BY <2>2, <4>2, <4>4 DEF InOrder, Wrap
    <3> QED
      BY <3>4, <3>5 DEF LinkInv
  <2>3. ASSUME NEW s \in Senders, WriteFrame(s) PROVE LinkInv'
    <3>1. sending[s] \in Message /\ sending[s] # NoMessage /\ sending[s].step = "wrapped"
      BY <2>3 DEF LinkInv, MeshLinkTypeOK, WriteFrame, HasStep, Busy
    <3> DEFINE f == Frame(sending[s].noise, sending[s].pq, TRUE)
    <3>2. f \in Frames
      BY <3>1 DEF Frame, Frames, Message
    <3>3. wire' = Append(wire, f) /\ sending' = [sending EXCEPT ![s] = NoMessage]
      BY <2>3 DEF WriteFrame
    <3>6. /\ wire' \in Seq(Frames)
          /\ Len(wire) \in Nat
          /\ Len(wire') = Len(wire) + 1
          /\ wire'[Len(wire) + 1] = f
          /\ \A i \in 1 .. Len(wire) : wire'[i] = wire[i]
      <4> HIDE DEF f
      <4>1. wire \in Seq(Frames)
        BY DEF LinkInv, MeshLinkTypeOK
      <4> QED
        BY <3>2, <3>3, <4>1, Written
    <3>4. MeshLinkTypeOK'
      <4>1. sending' \in [Senders -> Message \cup {NoMessage}]
        BY <3>3 DEF LinkInv, MeshLinkTypeOK
      <4> QED
        BY <2>3, <3>6, <4>1 DEF LinkInv, MeshLinkTypeOK, WriteFrame
    <3>5. ASSUME Quiet' PROVE OneUnderWay' /\ InOrder' /\ ~ broken'
      <4>1. Quiet /\ OneUnderWay /\ InOrder /\ ~ broken
        BY <2>3, <3>5 DEF WriteFrame, Quiet, LinkInv
      <4>2. Expected' = Expected + 1 /\ Expected \in Nat /\ Len(wire') = Len(wire) + 1
        BY <2>3, <3>6 DEF WriteFrame, Expected, LinkInv, MeshLinkTypeOK
      <4>3. f = Frame(Expected, Expected, TRUE)
        BY <3>1, <4>1 DEF OneUnderWay
      <4>4. \A t \in Senders : sending'[t] = NoMessage
        BY <3>1, <3>3, <4>1 DEF OneUnderWay, LinkInv, MeshLinkTypeOK
      <4>5. OneUnderWay'
        BY <2>3, <3>1, <4>1, <4>2, <4>4 DEF OneUnderWay, WriteFrame
      <4>6. ASSUME NEW i \in 1 .. Len(wire')
            PROVE  wire'[i] = Frame(delivered + i - 1, delivered + i - 1, TRUE)
        <5>1. CASE i \in 1 .. Len(wire)
          BY <3>6, <4>1, <5>1 DEF InOrder
        <5>2. CASE i = Len(wire) + 1
          <6>1. wire'[i] = f
            BY <3>6, <5>2
          <6>2. delivered + i - 1 = Expected
            BY <3>6, <5>2 DEF Expected, LinkInv, MeshLinkTypeOK
          <6> QED
            BY <4>3, <6>1, <6>2
        <5>3. i \in 1 .. Len(wire) \/ i = Len(wire) + 1
          <6> HIDE DEF f
          <6> QED
            BY <3>6
        <5> QED
          BY <5>1, <5>2, <5>3
      <4> QED
        BY <2>3, <4>1, <4>5, <4>6 DEF InOrder, WriteFrame
    <3> QED
      BY <3>4, <3>5 DEF LinkInv
  <2>4. ASSUME NEW s \in Senders, SendCutOff(s) PROVE LinkInv'
    <3>1. ~ Quiet'
      BY <2>4 DEF SendCutOff, Quiet
    <3>2. sending[s] \in Message
      BY <2>4 DEF LinkInv, MeshLinkTypeOK, SendCutOff, Busy
    <3>3. wire' \in Seq(Frames)
      <4>1. Frame(sending[s].noise, sending[s].pq, FALSE) \in Frames
        BY <3>2 DEF Frame, Frames, Message
      <4>2. wire' = wire \/ wire' = Append(wire, Frame(sending[s].noise, sending[s].pq, FALSE))
        BY <2>4 DEF SendCutOff
      <4> QED
        BY <4>1, <4>2, Written DEF LinkInv, MeshLinkTypeOK
    <3> QED
      BY <2>4, <3>1, <3>3 DEF LinkInv, MeshLinkTypeOK, SendCutOff
  <2>5. CASE Receive
    <3>3. /\ wire' \in Seq(Frames)
          /\ Len(wire) \in Nat /\ Len(wire) > 0
          /\ Len(wire') = Len(wire) - 1
          /\ \A i \in 1 .. Len(wire') : wire'[i] = wire[i + 1]
      BY <2>5, Read DEF LinkInv, MeshLinkTypeOK, Receive
    <3>1. MeshLinkTypeOK'
      BY <2>5, <3>3 DEF LinkInv, MeshLinkTypeOK, Receive
    <3>2. ASSUME Quiet' PROVE OneUnderWay' /\ InOrder' /\ ~ broken'
      <4>1. Quiet /\ OneUnderWay /\ InOrder /\ ~ broken
        BY <2>5, <3>2 DEF Receive, Quiet, LinkInv
      <4>2. Expected' = Expected /\ delivered' = delivered + 1 /\ delivered \in Nat
        BY <2>5, <3>3 DEF Receive, Expected, LinkInv, MeshLinkTypeOK
      <4>3. OneUnderWay'
        BY <2>5, <4>1, <4>2 DEF OneUnderWay, Receive
      <4>4. ASSUME NEW i \in 1 .. Len(wire')
            PROVE  wire'[i] = Frame(delivered' + i - 1, delivered' + i - 1, TRUE)
        <5>1. i + 1 \in 1 .. Len(wire) /\ delivered + (i + 1) - 1 = delivered' + i - 1
          BY <3>3, <4>2
        <5> QED
          BY <3>3, <4>1, <5>1 DEF InOrder
      <4> QED
        BY <2>5, <4>1, <4>3, <4>4 DEF InOrder, Receive
    <3> QED
      BY <3>1, <3>2 DEF LinkInv
  <2>6. CASE ReceiveBreaks
    <3>1. MeshLinkTypeOK' /\ (Quiet' => Quiet)
      BY <2>6 DEF LinkInv, MeshLinkTypeOK, ReceiveBreaks, Quiet
    <3>2. ~ Quiet
      <4> SUFFICES ASSUME Quiet PROVE FALSE
        OBVIOUS
      <4>1. InOrder /\ Len(wire) > 0 /\ Head(wire) = wire[1]
        BY <2>6, Read DEF LinkInv, MeshLinkTypeOK, ReceiveBreaks
      <4>3. 1 \in 1 .. Len(wire) /\ delivered + 1 - 1 = delivered
        BY <4>1, <2>6, Read DEF LinkInv, MeshLinkTypeOK, ReceiveBreaks
      <4>2. Head(wire) = Frame(delivered, delivered, TRUE) /\ opened = delivered
        BY <4>1, <4>3 DEF InOrder
      <4> QED
        BY <2>6, <4>2 DEF ReceiveBreaks, Acceptable, Frame
    <3> QED
      BY <3>1, <3>2 DEF LinkInv
  <2>7. CASE UNCHANGED linkVars
    BY <2>7 DEF LinkInv, linkVars, MeshLinkTypeOK, Quiet, OneUnderWay, InOrder, Expected
  <2> QED
    BY <2>1, <2>2, <2>3, <2>4, <2>5, <2>6, <2>7 DEF MeshLinkNext
<1> QED
  BY <1>1, <1>2, PTL DEF MeshLinkSpec

\* A connection without overlapping sends or cut-offs is never ended by its own
\* counters (recv_loop ends it at the first error of recv_message).
THEOREM QuietLinkAlwaysLives == MeshLinkSpec => []QuietLinkLives
<1>1. LinkInv => QuietLinkLives
  BY DEF LinkInv, QuietLinkLives, Quiet
<1> QED
  BY <1>1, LinkInvariant, PTL
==============================================================================
