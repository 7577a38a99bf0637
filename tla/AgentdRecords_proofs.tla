------------------------- MODULE AgentdRecords_proofs -------------------------
(***************************************************************************)
(* Proofs about AgentdRecords, for any number of inherited and of new      *)
(* events, of incidents, of crashes and of failed appends: the migrations  *)
(* end with a complete index, and a chain that verifies unless its version *)
(* was taken for that of a new database, and the events about an incident  *)
(* agree with its tables.                                                  *)
(***************************************************************************)
EXTENDS AgentdRecords, TLAPS

-----------------------------------------------------------------------------
(* The inductive invariant.                                                *)

\* A text that a digest commits to: what version 1 hashed has another form.
Texts == (Nat \X Facts) \cup ({"joined"} \X Nat \X Facts)
Rows == [id: Nat, body: Facts, prev: Seq(Texts), hash: Seq(Texts)]

RecordTypes ==
    /\ ledger \in Seq(Rows)
    /\ version \in {0, 1, 2, 3} /\ found \in {0, 1, 2, 3}
    /\ format \in {"joined", "passed by", "piped"}
    /\ incidents \in [Incidents -> Seq(Nat) \cup {NoIncident}]

\* Rows that can be verified, or whose hashing again was passed by.
Trusted(events, form) == Verify(events) \/ form = "passed by"

\* How far a start has come: the stamp is set last, and nothing is appended
\* before it.  Rows of version 1 have its number or none, until it is read.
Stages ==
    /\ opening \in {"closed", "tables", "hashed", "indexed", "stamped", "open"}
    /\ format # "joined" => Trusted(ledger, format)
    /\ format = "joined" => version \in {0, 1} /\ opening \in {"closed", "tables"}
    /\ opening = "tables" => found \in {0, version}
    /\ (version = 3 \/ opening \in {"indexed", "stamped", "open"}) => indexed = DOMAIN ledger
    /\ indexed \subseteq DOMAIN ledger
    /\ opening \in {"stamped", "open"} => version = 3

RecordInv == RecordTypes /\ Stages /\ IncidentTrail

-----------------------------------------------------------------------------
(* The chain.                                                              *)

\* The last hash, and the row that builds on it.
LEMMA NewRowType ==
    ASSUME NEW events \in Seq(Rows), NEW fact \in Facts
    PROVE  /\ NewRow(events, fact, LastHash(events)) \in Rows
           /\ NewRow(events, fact, LastHash(events)).body = fact
<1>1. LastHash(events) \in Seq(Texts)
  <2>1. CASE events = <<>>
    BY <2>1 DEF LastHash, Genesis
  <2>2. CASE events # <<>>
    <3>1. Len(events) \in DOMAIN events
      BY <2>2
    <3>2. events[Len(events)] \in Rows
      BY <3>1
    <3> QED
      BY <2>2, <3>2 DEF LastHash, Rows
  <2> QED
    BY <2>1, <2>2
<1>2. Len(events) + 1 \in Nat
  OBVIOUS
<1>3. <<Len(events) + 1, fact>> \in Texts
  BY <1>2 DEF Texts
<1>4. Append(LastHash(events), <<Len(events) + 1, fact>>) \in Seq(Texts)
  BY <1>1, <1>3
<1> QED
  BY <1>1, <1>2, <1>4 DEF NewRow, Hash, Rows

\* A row that builds on the last hash extends a chain that verifies.
LEMMA OneRowMore ==
    ASSUME NEW events \in Seq(Rows), NEW fact \in Facts
    PROVE  LET longer == Append(events, NewRow(events, fact, LastHash(events)))
           IN  /\ longer \in Seq(Rows)
               /\ Len(events) \in Nat /\ DOMAIN events = 1 .. Len(events)
               /\ DOMAIN longer = 1 .. Len(events) + 1
               /\ \A k \in DOMAIN events : k \in DOMAIN longer /\ longer[k] = events[k]
               /\ longer[Len(events) + 1].body = fact
               /\ Verify(events) => Verify(longer)
<1> DEFINE row == NewRow(events, fact, LastHash(events))
           longer == Append(events, row)
           n == Len(events)
<1>1. row \in Rows /\ row.body = fact
  BY NewRowType
<1>2. row.prev = LastHash(events) /\ row.hash = Hash(row.id, row.body, row.prev)
  BY DEF NewRow
<1>3. n \in Nat /\ DOMAIN events = 1 .. n
  OBVIOUS
<1> HIDE DEF row
<1>4. /\ longer \in Seq(Rows) /\ DOMAIN longer = 1 .. n + 1 /\ longer[n + 1] = row
      /\ \A k \in DOMAIN events : longer[k] = events[k]
  BY <1>1
<1>5. \A k \in DOMAIN events : k \in DOMAIN longer
  BY <1>3, <1>4
<1>6. LastHash(events) = IF n + 1 = 1 THEN Genesis ELSE events[n].hash
  BY DEF LastHash
<1> HIDE DEF longer, n
<1>7. ASSUME Verify(events), NEW k \in DOMAIN longer
      PROVE  Linked(longer, k) /\ longer[k].hash = Hash(longer[k].id, longer[k].body, longer[k].prev)
  <2>1. CASE k = n + 1
    <3>1. CASE n = 0
      BY <1>2, <1>4, <1>6, <2>1, <3>1 DEF Linked
    <3>2. CASE n # 0
      <4>1. n \in DOMAIN events /\ n + 1 - 1 = n /\ n + 1 # 1
        BY <1>3, <3>2
      <4>2. longer[n] = events[n]
        BY <1>4, <4>1
      <4> QED
        BY <1>2, <1>4, <1>6, <2>1, <4>1, <4>2 DEF Linked
    <3> QED
      BY <3>1, <3>2
  <2>2. CASE k # n + 1
    <3>1. k \in DOMAIN events /\ (k # 1 => k - 1 \in DOMAIN events)
      BY <1>3, <1>4, <2>2
    <3>2. Linked(events, k) /\ events[k].hash = Hash(events[k].id, events[k].body, events[k].prev)
      BY <1>7, <3>1 DEF Verify
    <3>3. longer[k] = events[k] /\ (k # 1 => longer[k - 1] = events[k - 1])
      BY <1>4, <3>1
    <3> QED
      BY <3>2, <3>3 DEF Linked
  <2> QED
    BY <2>1, <2>2
<1>8. Verify(events) => Verify(longer)
  BY <1>7 DEF Verify
<1> QED
  BY <1>1, <1>3, <1>4, <1>5, <1>8 DEF longer, n, row

\* What rehash_chain writes: the same events, in a chain that verifies.
LEMMA RehashedChain ==
    ASSUME NEW n \in Nat, NEW events, DOMAIN events = 1 .. n,
           \A k \in 1 .. n : events[k].id \in Nat /\ events[k].body \in Facts
    PROVE  /\ Rehashed(events) \in Seq(Rows)
           /\ DOMAIN Rehashed(events) = 1 .. n
           /\ \A k \in 1 .. n : Rehashed(events)[k].body = events[k].body
           /\ Verify(Rehashed(events))
<1> DEFINE Text(k) == [j \in 1 .. k |-> <<events[j].id, events[j].body>>]
           new == Rehashed(events)
<1>1. new = [k \in 1 .. n |->
                [id |-> events[k].id, body |-> events[k].body, prev |-> Text(k - 1),
                 hash |-> Hash(events[k].id, events[k].body, Text(k - 1))]]
  BY DEF Rehashed
<1>2. ASSUME NEW k \in 0 .. n
      PROVE  Text(k) \in Seq(Texts) /\ Len(Text(k)) = k
  <2>1. \A j \in 1 .. k : <<events[j].id, events[j].body>> \in Texts
    BY DEF Texts
  <2> QED
    BY <2>1
<1>3. ASSUME NEW k \in 1 .. n
      PROVE  Append(Text(k - 1), <<events[k].id, events[k].body>>) = Text(k)
  <2>1. k - 1 \in 0 .. n /\ k \in 0 .. n
    OBVIOUS
  <2>2. Text(k - 1) \in Seq(Texts) /\ Len(Text(k - 1)) = k - 1
    BY <1>2, <2>1
  <2>3. DOMAIN Text(k) = 1 .. k /\ DOMAIN Append(Text(k - 1), <<events[k].id, events[k].body>>) = 1 .. k
    BY <2>2
  <2>4. ASSUME NEW j \in 1 .. k
        PROVE  Append(Text(k - 1), <<events[k].id, events[k].body>>)[j] = Text(k)[j]
    <3>1. CASE j = k
      BY <2>2, <3>1
    <3>2. CASE j # k
      <4>1. j \in 1 .. k - 1
        BY <3>2
      <4> QED
        BY <2>2, <4>1
    <3> QED
      BY <3>1, <3>2
  <2> QED
    BY <2>2, <2>3, <2>4
<1>4. Text(0) = <<>>
  OBVIOUS
<1> HIDE DEF Text, new
<1>5. \A k \in 1 .. n : /\ new[k].id = events[k].id /\ new[k].body = events[k].body
                        /\ new[k].prev = Text(k - 1)
                        /\ new[k].hash = Hash(events[k].id, events[k].body, Text(k - 1))
  BY <1>1
<1>6. \A k \in 1 .. n : new[k].hash = Text(k)
  BY <1>3, <1>5 DEF Hash
<1>7. \A k \in 1 .. n : new[k] \in Rows
  <2> SUFFICES ASSUME NEW k \in 1 .. n PROVE new[k] \in Rows
    OBVIOUS
  <2>1. Text(k - 1) \in Seq(Texts) /\ Text(k) \in Seq(Texts)
    BY <1>2
  <2>2. new[k] = [id |-> events[k].id, body |-> events[k].body, prev |-> Text(k - 1), hash |-> Text(k)]
    BY <1>1, <1>3 DEF Hash
  <2> QED
    BY <2>1, <2>2 DEF Rows
<1>8. new \in Seq(Rows) /\ DOMAIN new = 1 .. n
  BY <1>1, <1>7
<1>9. Verify(new)
  <2> SUFFICES ASSUME NEW k \in 1 .. n
               PROVE  Linked(new, k) /\ new[k].hash = Hash(new[k].id, new[k].body, new[k].prev)
    BY <1>8 DEF Verify
  <2>1. CASE k = 1
    BY <1>4, <1>5, <2>1 DEF Linked, Genesis
  <2>2. CASE k # 1
    <3>1. k - 1 \in 1 .. n
      BY <2>2
    <3> QED
      BY <1>5, <1>6, <2>2, <3>1 DEF Linked
  <2> QED
    BY <2>1, <2>2
<1> QED
  BY <1>5, <1>8, <1>9 DEF new

\* What an older version has left: events about no incident, in a chain that
\* verifies unless version 1 has hashed it.
LEMMA LegacyRows ==
    ASSUME NEW v \in {1, 2}, NEW n \in Nat
    PROVE  /\ Legacy(v, n) \in Seq(Rows)
           /\ DOMAIN Legacy(v, n) = 1 .. n
           /\ \A k \in 1 .. n : Legacy(v, n)[k].body = Fact("memory", NoIncident, 0)
           /\ v = 2 => Verify(Legacy(v, n))
<1> DEFINE fact == Fact("memory", NoIncident, 0)
           Joined(k) == [j \in 1 .. k |-> <<"joined", j, fact>>]
           joined == [k \in 1 .. n |->
                         [id |-> k, body |-> fact, prev |-> Joined(k - 1), hash |-> Joined(k)]]
<1>1. Legacy(v, n) = IF v = 1 THEN joined ELSE Rehashed(joined)
  BY DEF Legacy
<1>2. fact \in Facts
  BY DEF Fact, Facts, FactKinds
<1> HIDE DEF fact
<1>3. ASSUME NEW k \in 0 .. n
      PROVE  Joined(k) \in Seq(Texts)
  <2>1. \A j \in 1 .. k : <<"joined", j, fact>> \in Texts
    BY <1>2 DEF Texts
  <2> QED
    BY <2>1
<1> HIDE DEF Joined
<1>4. \A k \in 1 .. n : joined[k].id = k /\ joined[k].body = fact /\ joined[k] \in Rows
  <2> SUFFICES ASSUME NEW k \in 1 .. n
               PROVE  joined[k].id = k /\ joined[k].body = fact /\ joined[k] \in Rows
    OBVIOUS
  <2>1. Joined(k - 1) \in Seq(Texts) /\ Joined(k) \in Seq(Texts)
    BY <1>3
  <2> QED
    BY <1>2, <2>1 DEF Rows
<1>5. joined \in Seq(Rows) /\ DOMAIN joined = 1 .. n
  BY <1>4
<1> HIDE DEF joined
<1>6. /\ Rehashed(joined) \in Seq(Rows) /\ DOMAIN Rehashed(joined) = 1 .. n
      /\ \A k \in 1 .. n : Rehashed(joined)[k].body = joined[k].body
      /\ Verify(Rehashed(joined))
  BY <1>2, <1>4, <1>5, RehashedChain
<1> QED
  BY <1>1, <1>4, <1>5, <1>6 DEF fact

-----------------------------------------------------------------------------
(* The events about one incident.                                          *)

About(events, i, kind) ==
    {k \in DOMAIN events : events[k].body.incident = i /\ events[k].body.kind = kind}

\* What IncidentTrail says of one incident.
TrailOf(i, events, steps) ==
    IF steps = NoIncident
    THEN About(events, i, "incident.create") \cup About(events, i, "incident.step") = {}
    ELSE /\ \A n \in DOMAIN steps : steps[n] = n
         /\ \A k \in About(events, i, "incident.step") : events[k].body.step \in DOMAIN steps
         /\ \A k, l \in About(events, i, "incident.step") :
               k < l => events[k].body.step < events[l].body.step
         /\ \A k \in About(events, i, "incident.create"), l \in About(events, i, "incident.step") :
               k < l

LEMMA TrailIsOfEach ==
    /\ IncidentTrail <=> \A i \in Incidents : TrailOf(i, ledger, incidents[i])
    /\ IncidentTrail' <=> \A i \in Incidents : TrailOf(i, ledger', incidents'[i])
BY DEF IncidentTrail, IsIncident, TrailOf, About

\* A table that begins with another one, and has one row more.
OneMore(longer, events, fact) ==
    /\ Len(events) \in Nat /\ DOMAIN events = 1 .. Len(events)
    /\ DOMAIN longer = 1 .. Len(events) + 1
    /\ \A k \in DOMAIN events : k \in DOMAIN longer /\ longer[k] = events[k]
    /\ longer[Len(events) + 1].body = fact

\* Its rows about an incident are those of the other, and maybe the new one.
LEMMA AboutMore ==
    ASSUME NEW longer, NEW events, NEW fact, OneMore(longer, events, fact), NEW i, NEW kind
    PROVE  /\ \A k \in About(longer, i, kind) :
                \/ k \in About(events, i, kind) /\ longer[k] = events[k]
                \/ /\ k = Len(events) + 1 /\ longer[k].body = fact
                   /\ fact.incident = i /\ fact.kind = kind
           /\ \A k \in About(events, i, kind) : k \in Nat /\ k < Len(events) + 1
<1>1. \A k \in DOMAIN longer : k \in DOMAIN events \/ k = Len(events) + 1
  BY DEF OneMore
<1>2. \A k \in DOMAIN events : k \in Nat /\ k < Len(events) + 1
  BY DEF OneMore
<1> QED
  BY <1>1, <1>2 DEF OneMore, About

\* An event about something else changes nothing.
LEMMA TrailOfOther ==
    ASSUME NEW i, NEW steps, NEW longer, NEW events, NEW fact, OneMore(longer, events, fact),
           TrailOf(i, events, steps),
           fact.incident = i => fact.kind \notin {"incident.create", "incident.step"}
    PROVE  TrailOf(i, longer, steps)
<1>1. ASSUME NEW kind \in {"incident.create", "incident.step"}, NEW k \in About(longer, i, kind)
      PROVE  k \in About(events, i, kind) /\ longer[k] = events[k]
  BY <1>1, AboutMore
<1> QED
  BY <1>1 DEF TrailOf

\* An incident is created, and its event appended or not.
LEMMA TrailOfNew ==
    ASSUME NEW i, NEW events, TrailOf(i, events, NoIncident), <<>> # NoIncident
    PROVE  /\ TrailOf(i, events, <<>>)
           /\ \A longer : OneMore(longer, events, Fact("incident.create", i, 0)) => TrailOf(i, longer, <<>>)
<1>1. About(events, i, "incident.create") = {} /\ About(events, i, "incident.step") = {}
  BY DEF TrailOf
<1>2. DOMAIN <<>> = {}
  OBVIOUS
<1>3. ASSUME NEW longer, OneMore(longer, events, Fact("incident.create", i, 0))
      PROVE  TrailOf(i, longer, <<>>)
  <2>1. About(longer, i, "incident.step") = {}
    BY <1>1, <1>3, AboutMore DEF Fact
  <2> QED
    BY <1>2, <2>1 DEF TrailOf
<1>4. TrailOf(i, events, <<>>)
  BY <1>1, <1>2 DEF TrailOf
<1> QED
  BY <1>3, <1>4

\* A step is inserted, with the next number, and its event appended or not.
LEMMA TrailOfStep ==
    ASSUME NEW i, NEW events, NEW steps \in Seq(Nat), steps # NoIncident,
           TrailOf(i, events, steps), Append(steps, Len(steps) + 1) # NoIncident
    PROVE  LET more == Append(steps, Len(steps) + 1)
           IN  /\ TrailOf(i, events, more)
               /\ \A longer : OneMore(longer, events, Fact("incident.step", i, Len(steps) + 1))
                                => TrailOf(i, longer, more)
<1> DEFINE more == Append(steps, Len(steps) + 1)
           fact == Fact("incident.step", i, Len(steps) + 1)
<1>1. /\ Len(steps) \in Nat /\ DOMAIN steps = 1 .. Len(steps)
      /\ DOMAIN more = 1 .. Len(steps) + 1
      /\ \A n \in DOMAIN steps : n \in DOMAIN more /\ more[n] = steps[n]
      /\ more[Len(steps) + 1] = Len(steps) + 1
  OBVIOUS
<1>2. /\ \A n \in DOMAIN steps : steps[n] = n
      /\ \A k \in About(events, i, "incident.step") : events[k].body.step \in DOMAIN steps
      /\ \A k, l \in About(events, i, "incident.step") :
            k < l => events[k].body.step < events[l].body.step
      /\ \A k \in About(events, i, "incident.create"), l \in About(events, i, "incident.step") :
            k < l
  BY DEF TrailOf
<1>3. fact.incident = i /\ fact.kind = "incident.step" /\ fact.step = Len(steps) + 1
  BY DEF Fact
<1> HIDE DEF more, fact
<1>4. \A n \in DOMAIN more : more[n] = n
  BY <1>1, <1>2
<1>5. TrailOf(i, events, more)
  <2>1. \A k \in About(events, i, "incident.step") : events[k].body.step \in DOMAIN more
    BY <1>1, <1>2
  <2> QED
    BY <1>2, <1>4, <2>1 DEF TrailOf, more
<1>6. ASSUME NEW longer, OneMore(longer, events, fact)
      PROVE  TrailOf(i, longer, more)
  <2>1. \A k \in About(longer, i, "incident.create") : k \in About(events, i, "incident.create")
    BY <1>3, <1>6, AboutMore
  <2>2. \A k \in About(longer, i, "incident.step") :
            \/ k \in About(events, i, "incident.step") /\ longer[k] = events[k]
            \/ k = Len(events) + 1 /\ longer[k].body = fact
    BY <1>6, AboutMore
  <2>3. /\ Len(events) \in Nat
        /\ \A k \in About(events, i, "incident.step") : k \in Nat /\ k < Len(events) + 1
        /\ \A k \in About(events, i, "incident.create") : k \in Nat /\ k < Len(events) + 1
    <3>1. Len(events) \in Nat
      BY <1>6 DEF OneMore
    <3> QED
      BY <1>6, <3>1, AboutMore
  <2>4. \A k \in About(longer, i, "incident.step") : longer[k].body.step \in DOMAIN more
    BY <1>1, <1>2, <1>3, <2>2
  <2>5. ASSUME NEW k \in About(longer, i, "incident.step"), NEW l \in About(longer, i, "incident.step"),
               k < l
        PROVE  longer[k].body.step < longer[l].body.step
    <3>1. k \in About(events, i, "incident.step") /\ longer[k] = events[k]
      BY <2>2, <2>3, <2>5
    <3>2. CASE l \in About(events, i, "incident.step") /\ longer[l] = events[l]
      BY <1>2, <2>5, <3>1, <3>2
    <3>3. CASE l = Len(events) + 1 /\ longer[l].body = fact
      <4>1. events[k].body.step \in 1 .. Len(steps)
        BY <1>1, <1>2, <3>1
      <4> QED
        BY <1>1, <1>3, <3>1, <3>3, <4>1
    <3> QED
      BY <2>2, <3>2, <3>3
  <2>6. \A k \in About(longer, i, "incident.create"), l \in About(longer, i, "incident.step") : k < l
    BY <1>2, <2>1, <2>2, <2>3
  <2> QED
    BY <1>4, <2>4, <2>5, <2>6 DEF TrailOf, more
<1> QED
  BY <1>5, <1>6 DEF more, fact

\* A table with the same bodies.
LEMMA TrailOfSame ==
    ASSUME NEW i, NEW steps, NEW new, NEW events, DOMAIN new = DOMAIN events,
           \A k \in DOMAIN events : new[k].body = events[k].body,
           TrailOf(i, events, steps)
    PROVE  TrailOf(i, new, steps)
<1>1. \A kind : About(new, i, kind) = About(events, i, kind)
  BY DEF About
<1>2. \A kind : \A k \in About(events, i, kind) : new[k].body = events[k].body
  BY DEF About
<1> QED
  BY <1>1, <1>2 DEF TrailOf

-----------------------------------------------------------------------------
(* The actions.                                                            *)

\* An event that is appended: the chain goes on, and the index has it.
LEMMA AppendedRow ==
    ASSUME RecordTypes, NEW fact \in Facts, Appended(fact)
    PROVE  /\ ledger' \in Seq(Rows)
           /\ OneMore(ledger', ledger, fact)
           /\ Verify(ledger) => Verify(ledger')
           /\ indexed = DOMAIN ledger => indexed' = DOMAIN ledger'
<1>1. /\ ledger' = Append(ledger, NewRow(ledger, fact, LastHash(ledger)))
      /\ indexed' = indexed \cup {Len(ledger) + 1}
  BY DEF Appended
<1>2. ledger \in Seq(Rows)
  BY DEF RecordTypes
<1>3. /\ ledger' \in Seq(Rows)
      /\ Len(ledger) \in Nat /\ DOMAIN ledger = 1 .. Len(ledger)
      /\ DOMAIN ledger' = 1 .. Len(ledger) + 1
      /\ \A k \in DOMAIN ledger : k \in DOMAIN ledger' /\ ledger'[k] = ledger[k]
      /\ ledger'[Len(ledger) + 1].body = fact
      /\ Verify(ledger) => Verify(ledger')
  BY <1>1, <1>2, OneRowMore
<1>4. 1 .. Len(ledger) + 1 = (1 .. Len(ledger)) \cup {Len(ledger) + 1}
  BY <1>3
<1> QED
  BY <1>1, <1>3, <1>4 DEF OneMore

\* While the daemon serves, the migrations are over.
LEMMA Serving ==
    ASSUME RecordInv, opening \in {"stamped", "open"}
    PROVE  version = 3 /\ Trusted(ledger, format) /\ format # "joined" /\ indexed = DOMAIN ledger
BY DEF RecordInv, Stages

\* An event about no incident.
LEMMA OtherEventKeeps ==
    ASSUME RecordInv, opening \in {"stamped", "open"}, NEW fact \in Facts,
           fact.incident = NoIncident, Appended(fact),
           opening' = "open", UNCHANGED <<version, found, format, incidents>>
    PROVE  RecordInv'
<1>1. version = 3 /\ Trusted(ledger, format) /\ format # "joined" /\ indexed = DOMAIN ledger
  BY Serving
<1>2. /\ ledger' \in Seq(Rows) /\ OneMore(ledger', ledger, fact)
      /\ Trusted(ledger', format) /\ indexed' = DOMAIN ledger'
  BY <1>1, AppendedRow DEF RecordInv, Trusted
<1>3. RecordTypes' /\ Stages'
  BY <1>1, <1>2 DEF RecordInv, RecordTypes, Stages
<1>4. ASSUME NEW i \in Incidents
      PROVE  TrailOf(i, ledger', incidents[i])
  <2>1. TrailOf(i, ledger, incidents[i])
    BY TrailIsOfEach DEF RecordInv
  <2>2. fact.incident # i
    BY RecordsAssumption
  <2> QED
    BY <1>2, <2>1, <2>2, TrailOfOther
<1>5. IncidentTrail'
  BY <1>4, TrailIsOfEach
<1> QED
  BY <1>3, <1>5 DEF RecordInv

\* The tables stay as they are, and a start goes on or ends.
LEMMA QuietKeeps ==
    ASSUME RecordInv, UNCHANGED <<ledger, format, incidents, version>>, found' \in {0, 1, 2, 3}, Stages'
    PROVE  RecordInv'
<1>1. RecordTypes'
  BY DEF RecordInv, RecordTypes
<1>2. IncidentTrail'
  BY DEF RecordInv, IncidentTrail, IsIncident
<1> QED
  BY <1>1, <1>2 DEF RecordInv

\* A handler that changes the tables of an incident, and tells of that.
LEMMA ToldKeeps ==
    ASSUME RecordInv, opening = "open", UNCHANGED <<version, found, format>>,
           NEW i \in Incidents, NEW steps \in Seq(Nat),
           incidents' = [incidents EXCEPT ![i] = steps],
           NEW fact \in Facts, fact.incident = i, Told(fact),
           TrailOf(i, ledger, steps),
           \A longer : OneMore(longer, ledger, fact) => TrailOf(i, longer, steps)
    PROVE  RecordInv'
<1>1. version = 3 /\ Trusted(ledger, format) /\ format # "joined" /\ indexed = DOMAIN ledger
  BY Serving
<1>2. /\ incidents' \in [Incidents -> Seq(Nat) \cup {NoIncident}]
      /\ incidents'[i] = steps
      /\ \A j \in Incidents : j # i => incidents'[j] = incidents[j]
  BY DEF RecordInv, RecordTypes
<1>3. \A j \in Incidents : TrailOf(j, ledger, incidents[j])
  BY TrailIsOfEach DEF RecordInv
<1>4. CASE Appended(fact) /\ UNCHANGED <<opening, troubles>>
  <2>1. /\ ledger' \in Seq(Rows) /\ OneMore(ledger', ledger, fact)
        /\ Trusted(ledger', format) /\ indexed' = DOMAIN ledger'
    BY <1>1, <1>4, AppendedRow DEF RecordInv, Trusted
  <2>2. RecordTypes' /\ Stages'
    BY <1>1, <1>2, <1>4, <2>1 DEF RecordInv, RecordTypes, Stages
  <2>3. ASSUME NEW j \in Incidents
        PROVE  TrailOf(j, ledger', incidents'[j])
    <3>1. CASE j = i
      BY <1>2, <2>1, <3>1
    <3>2. CASE j # i
      BY <1>2, <1>3, <2>1, <3>2, TrailOfOther
    <3> QED
      BY <3>1, <3>2
  <2> QED
    BY <2>2, <2>3, TrailIsOfEach DEF RecordInv
<1>5. CASE opening' \in {opening, "closed"} /\ UNCHANGED <<ledger, indexed>>
  <2>1. RecordTypes' /\ Stages'
    BY <1>1, <1>2, <1>5 DEF RecordInv, RecordTypes, Stages
  <2>2. \A j \in Incidents : TrailOf(j, ledger', incidents'[j])
    BY <1>2, <1>3, <1>5
  <2> QED
    BY <2>1, <2>2, TrailIsOfEach DEF RecordInv
<1> QED
  BY <1>4, <1>5 DEF Told

LEMMA IncidentCreateKeeps ==
    ASSUME RecordInv, NEW i \in Incidents, IncidentCreate(i)
    PROVE  RecordInv'
<1>1. /\ opening = "open" /\ UNCHANGED <<version, found, format>> /\ incidents[i] = NoIncident
      /\ incidents' = [incidents EXCEPT ![i] = <<>>]
      /\ Told(Fact("incident.create", i, 0))
  BY DEF IncidentCreate, IsIncident
<1>2. Fact("incident.create", i, 0) \in Facts /\ Fact("incident.create", i, 0).incident = i
  BY DEF Fact, Facts, FactKinds
<1>3. <<>> \in Seq(Nat) /\ <<>> # NoIncident
  <2>1. <<>> \in Seq(Nat)
    OBVIOUS
  <2> QED
    BY <2>1, RecordsAssumption, Zenon
<1>4. TrailOf(i, ledger, NoIncident)
  BY <1>1, TrailIsOfEach DEF RecordInv
<1>5. /\ TrailOf(i, ledger, <<>>)
      /\ \A longer : OneMore(longer, ledger, Fact("incident.create", i, 0)) => TrailOf(i, longer, <<>>)
  BY <1>3, <1>4, TrailOfNew
<1> QED
  BY <1>1, <1>2, <1>3, <1>5, ToldKeeps

LEMMA IncidentStepKeeps ==
    ASSUME RecordInv, NEW i \in Incidents, IncidentStep(i)
    PROVE  RecordInv'
<1> DEFINE steps == incidents[i]
           more == Append(steps, Len(steps) + 1)
           fact == Fact("incident.step", i, Len(steps) + 1)
<1>1. /\ opening = "open" /\ UNCHANGED <<version, found, format>> /\ steps # NoIncident
      /\ incidents' = [incidents EXCEPT ![i] = more]
      /\ Told(fact)
  BY DEF IncidentStep, IsIncident, StepNumber
<1>2. steps \in Seq(Nat)
  BY <1>1 DEF RecordInv, RecordTypes
<1>3. Len(steps) + 1 \in Nat /\ more \in Seq(Nat) /\ more # NoIncident
  <2>1. Len(steps) \in Nat
    BY <1>2
  <2>2. Len(steps) + 1 \in Nat
    BY <2>1
  <2> HIDE DEF steps
  <2>3. more \in Seq(Nat)
    BY <1>2, <2>2
  <2> HIDE DEF more
  <2> QED
    BY <2>2, <2>3, RecordsAssumption
<1>4. fact \in Facts /\ fact.incident = i
  BY <1>3 DEF Fact, Facts, FactKinds
<1>5. TrailOf(i, ledger, steps)
  BY TrailIsOfEach DEF RecordInv
<1>6. /\ TrailOf(i, ledger, more)
      /\ \A longer : OneMore(longer, ledger, fact) => TrailOf(i, longer, more)
  BY <1>1, <1>2, <1>3, <1>5, TrailOfStep
<1> HIDE DEF steps, more, fact
<1> QED
  BY <1>1, <1>3, <1>4, <1>6, ToldKeeps

\* Version 1's rows are hashed again.
LEMMA MigrateHashesKeeps ==
    ASSUME RecordInv, MigrateHashes
    PROVE  RecordInv'
<1>1. /\ opening = "tables" /\ opening' = "hashed"
      /\ ledger' = IF found = 1 THEN Rehashed(ledger) ELSE ledger
      /\ format' = IF found = 1 THEN "piped"
                   ELSE IF found = 0 /\ format = "joined" THEN "passed by" ELSE format
      /\ UNCHANGED <<version, found, indexed, incidents, troubles>>
  BY DEF MigrateHashes
<1>2. /\ ledger \in Seq(Rows) /\ Len(ledger) \in Nat /\ DOMAIN ledger = 1 .. Len(ledger)
      /\ \A k \in 1 .. Len(ledger) : ledger[k] \in Rows
  <2>1. ledger \in Seq(Rows)
    BY DEF RecordInv, RecordTypes
  <2> QED
    BY <2>1
<1>3. \A k \in 1 .. Len(ledger) : ledger[k].id \in Nat /\ ledger[k].body \in Facts
  BY <1>2 DEF Rows
<1>4. /\ Rehashed(ledger) \in Seq(Rows) /\ DOMAIN Rehashed(ledger) = DOMAIN ledger
      /\ \A k \in DOMAIN ledger : Rehashed(ledger)[k].body = ledger[k].body
      /\ Verify(Rehashed(ledger))
  BY <1>2, <1>3, RehashedChain
<1>5. /\ ledger' \in Seq(Rows) /\ DOMAIN ledger' = DOMAIN ledger
      /\ \A k \in DOMAIN ledger : ledger'[k].body = ledger[k].body
      /\ Trusted(ledger', format') /\ format' \in {"passed by", "piped"}
  <2>1. CASE found = 1
    BY <1>1, <1>4, <2>1 DEF Trusted
  <2>2. CASE found # 1 /\ format = "joined"
    <3>1. found = 0
      BY <1>1, <2>2 DEF RecordInv, Stages
    <3> QED
      BY <1>1, <1>2, <2>2, <3>1 DEF Trusted
  <2>3. CASE found # 1 /\ format # "joined"
    BY <1>1, <1>2, <2>3 DEF RecordInv, RecordTypes, Stages
  <2> QED
    BY <2>1, <2>2, <2>3
<1>6. RecordTypes' /\ Stages'
  BY <1>1, <1>5 DEF RecordInv, RecordTypes, Stages
<1>7. \A i \in Incidents : TrailOf(i, ledger', incidents[i])
  BY <1>5, TrailIsOfEach, TrailOfSame DEF RecordInv
<1> QED
  BY <1>1, <1>6, <1>7, TrailIsOfEach DEF RecordInv

-----------------------------------------------------------------------------
(* The theorems.                                                           *)

LEMMA RecordInvInit == RecordsInit => RecordInv
<1> SUFFICES ASSUME RecordsInit PROVE RecordInv
  OBVIOUS
<1>1. /\ opening = "closed" /\ indexed = {} /\ incidents = [i \in Incidents |-> NoIncident]
      /\ found = 0
  BY DEF RecordsInit
<1>2. /\ ledger \in Seq(Rows) /\ version \in {0, 1, 2} /\ format \in {"joined", "piped"}
      /\ \A k \in DOMAIN ledger : ledger[k].body = Fact("memory", NoIncident, 0)
      /\ format = "joined" => version \in {0, 1}
      /\ format # "joined" => Verify(ledger)
  <2>1. PICK v \in {1, 2}, n \in 0 .. Inherited :
            /\ ledger = Legacy(v, n) /\ version \in {0, v}
            /\ format = IF v = 1 THEN "joined" ELSE "piped"
    BY DEF RecordsInit
  <2>2. n \in Nat
    BY RecordsAssumption
  <2> QED
    BY <2>1, <2>2, LegacyRows
<1>3. RecordTypes /\ Stages
  <2>1. incidents \in [Incidents -> Seq(Nat) \cup {NoIncident}]
    BY <1>1
  <2>2. RecordTypes
    BY <1>1, <1>2, <2>1 DEF RecordTypes
  <2>3. /\ version \in {0, 1, 2}
        /\ format = "joined" => version \in {0, 1}
        /\ format # "joined" => Verify(ledger)
        /\ opening = "closed" /\ indexed = {}
    BY <1>1, <1>2
  <2>4. format # "joined" => Trusted(ledger, format)
    BY <2>3 DEF Trusted
  <2>5. Stages
    BY <2>3, <2>4 DEF Stages
  <2> QED
    BY <2>2, <2>5
<1>4. \A i \in Incidents : TrailOf(i, ledger, incidents[i])
  <2>1. \A k \in DOMAIN ledger : ledger[k].body.kind = "memory"
    <3>1. Fact("memory", NoIncident, 0).kind = "memory"
      BY DEF Fact
    <3> QED
      BY <1>2, <3>1
  <2>2. \A kind \in {"incident.create", "incident.step"}, i \in Incidents : About(ledger, i, kind) = {}
    BY <2>1 DEF About
  <2>3. \A i \in Incidents : incidents[i] = NoIncident
    BY <1>1
  <2> QED
    BY <2>2, <2>3 DEF TrailOf
<1> QED
  BY <1>3, <1>4, TrailIsOfEach DEF RecordInv

LEMMA RecordInvStep == RecordInv /\ [RecordsNext]_recordVars => RecordInv'
<1> SUFFICES ASSUME RecordInv, [RecordsNext]_recordVars PROVE RecordInv'
  OBVIOUS
<1>1. CASE RecordsOpen
  <2>1. Stages'
    <3>1. /\ opening = "closed" /\ found' \in {0, version}
          /\ opening' = IF found' >= 3 THEN "stamped" ELSE "tables"
          /\ UNCHANGED <<version, ledger, format, indexed>>
      BY <1>1 DEF RecordsOpen
    <3>2. version \in {0, 1, 2, 3}
      BY DEF RecordInv, RecordTypes
    <3>3. opening' = "stamped" => version = 3 /\ found' = 3
      BY <3>1, <3>2
    <3>4. format = "joined" => opening' = "tables"
      BY <3>1, <3>3 DEF RecordInv, Stages
    <3>5. opening' \in {"stamped", "tables"}
      BY <3>1
    <3> QED
      BY <3>1, <3>3, <3>4, <3>5 DEF RecordInv, Stages
  <2>2. found' \in {0, 1, 2, 3}
    BY <1>1 DEF RecordsOpen, RecordInv, RecordTypes
  <2> QED
    BY <1>1, <2>1, <2>2, QuietKeeps DEF RecordsOpen
<1>2. CASE MigrateHashes
  BY <1>2, MigrateHashesKeeps
<1>3. CASE BackfillFts
  <2>1. /\ indexed' = DOMAIN ledger /\ UNCHANGED <<version, found, format, ledger, incidents>>
    BY <1>3 DEF BackfillFts, RecordInv, Stages
  <2>2. RecordTypes' /\ Stages'
    BY <1>3, <2>1 DEF BackfillFts, RecordInv, RecordTypes, Stages
  <2>3. IncidentTrail'
    BY <2>1 DEF RecordInv, IncidentTrail, IsIncident
  <2> QED
    BY <2>2, <2>3 DEF RecordInv
<1>4. CASE StampVersion
  <2>1. RecordTypes' /\ Stages'
    BY <1>4 DEF StampVersion, RecordInv, RecordTypes, Stages
  <2>2. IncidentTrail'
    BY <1>4 DEF StampVersion, RecordInv, IncidentTrail, IsIncident
  <2> QED
    BY <2>1, <2>2 DEF RecordInv
<1>5. CASE RecordsStart
  <2>1. Fact("start", NoIncident, 0) \in Facts /\ Fact("start", NoIncident, 0).incident = NoIncident
    BY DEF Fact, Facts, FactKinds
  <2>2. CASE Appended(Fact("start", NoIncident, 0))
    BY <1>5, <2>1, <2>2, OtherEventKeeps DEF RecordsStart
  <2>3. CASE UNCHANGED <<ledger, indexed>>
    <3>1. Stages'
      BY <1>5, <2>3 DEF RecordsStart, RecordInv, Stages
    <3> QED
      BY <1>5, <2>3, <3>1, QuietKeeps DEF RecordsStart, RecordInv, RecordTypes
  <2> QED
    BY <1>5, <2>2, <2>3 DEF RecordsStart
<1>6. CASE MemoryStore
  <2>1. Fact("memory", NoIncident, 0) \in Facts /\ Fact("memory", NoIncident, 0).incident = NoIncident
    BY DEF Fact, Facts, FactKinds
  <2> QED
    BY <1>6, <2>1, OtherEventKeeps DEF MemoryStore
<1>7. CASE RecordsCrash
  <2>1. Stages'
    BY <1>7 DEF RecordsCrash, RecordInv, Stages
  <2> QED
    BY <1>7, <2>1, QuietKeeps DEF RecordsCrash, RecordInv, RecordTypes
<1>8. ASSUME NEW i \in Incidents, IncidentCreate(i) \/ IncidentStep(i)
      PROVE  RecordInv'
  BY <1>8, IncidentCreateKeeps, IncidentStepKeeps
<1>9. CASE UNCHANGED recordVars
  <2>1. Stages'
    BY <1>9 DEF recordVars, RecordInv, Stages
  <2> QED
    BY <1>9, <2>1, QuietKeeps DEF recordVars, RecordInv, RecordTypes
<1> QED
  BY <1>1, <1>2, <1>3, <1>4, <1>5, <1>6, <1>7, <1>8, <1>9 DEF RecordsNext

LEMMA RecordInvHolds == RecordsSpec => []RecordInv
BY RecordInvInit, RecordInvStep, PTL DEF RecordsSpec

\* Whatever version left the database, and however often its migration (migrate,
\* rehash_chain, backfill_fts) was cut short: what is served is indexed, and
\* verifies unless rows of version 1 were taken for those of a new database.
THEOREM MigrationsComplete == RecordsSpec => []MigrationCompletes
<1>1. RecordInv => MigrationCompletes
  BY Serving DEF MigrationCompletes, Trusted
<1> QED
  BY <1>1, RecordInvHolds, PTL

\* The events about an incident (incident_create_handler, incident_step_handler)
\* agree with its tables, over crashes and failed appends.
THEOREM TrailsAgree == RecordsSpec => []IncidentTrail
<1>1. RecordInv => IncidentTrail
  BY DEF RecordInv
<1> QED
  BY <1>1, RecordInvHolds, PTL
=============================================================================
