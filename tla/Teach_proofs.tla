---------------------------- MODULE Teach_proofs ----------------------------
(***************************************************************************)
(* Theorems about osmoda-teachd: observations, knowledge and what is       *)
(* applied of it (TeachKnowledge), and the skills that its log of tool     *)
(* calls leads to (TeachSkills), for any units, sightings, requests, tools *)
(* and sessions, and every number of crashes and failed writes.            *)
(***************************************************************************)
EXTENDS TeachKnowledge, TeachSkills, TLAPS

-----------------------------------------------------------------------------
(* Applying.                                                               *)

Busy(d) == \E r \in ApplyRequests : applying[r] # NoDoc /\ applying[r].doc = d

\* Rows are records, and a request works on a row.
RowsInv ==
    /\ opts = [d \in DocIds |-> opts[d]]
    /\ \A d \in DocIds : opts[d] # NoDoc => opts[d] \in Rows
    /\ applying \in [ApplyRequests -> Applications \cup {NoDoc}]
    /\ runs \in [DocIds -> 0 .. 2]
    /\ unsure \subseteq DocIds
    /\ \A r \in ApplyRequests : applying[r] # NoDoc => opts[applying[r].doc] \in Rows

\* Unless it is unsure an optimization has one request, which has not run it
\* before it has; and one that waits for a request was not run.
RunsRight(d) ==
    /\ \A r, t \in ApplyRequests :
          /\ applying[r] # NoDoc /\ applying[r].doc = d
          /\ applying[t] # NoDoc /\ applying[t].doc = d
          => r = t
    /\ \A r \in ApplyRequests :
          /\ applying[r] # NoDoc /\ applying[r].doc = d
          /\ applying[r].step \in {"begin", "execute"}
          => runs[d] = 0
    /\ ~ Busy(d) /\ HasStatus(d, "approved") => runs[d] = 0
    /\ runs[d] <= 1

RunsInv == \A d \in DocIds \ unsure : RunsRight(d)

\* A document that blames a unit was written by hand, or learned for that unit.
Blames(d, about) ==
    about.of = "failures" => d \in reasons /\ \E n \in Units : d = Recurring(n) /\ about.unit = n

DocRight(d) ==
    \E a, c : /\ docs[d] = Doc(a, c)
              /\ a.of = "failures" => a.unit \in Units
              /\ d \in Written \/ Blames(d, a)

CauseInv ==
    /\ docs = [d \in DocIds |-> docs[d]]
    /\ \A d \in DocIds : docs[d] # NoDoc => DocRight(d)
    /\ SuggestionHasCause

LEMMA BusyApplying ==
  \A d : Applying(d) = {} <=> ~ Busy(d)
  BY DEF Applying, Busy

LEMMA NoDocApart ==
  NoDoc \notin Applications /\ NoDoc \notin Rows
  BY NoDocAssumption

LEMMA RowsInit ==
  TeachKnowledgeInit => RowsInv /\ RunsInv
<1>1. ASSUME TeachKnowledgeInit PROVE RowsInv
  BY <1>1 DEF TeachKnowledgeInit, RowsInv
<1>2. ASSUME TeachKnowledgeInit PROVE RunsInv
  BY <1>2 DEF TeachKnowledgeInit, RunsInv, RunsRight
<1> QED
  BY <1>1, <1>2

\* What a document suggests makes a row.
LEMMA SuggestionTyped ==
  ASSUME CauseInv, NEW d \in DocIds, docs[d] # NoDoc, SuggestedAction(docs[d]) # NoDoc
  PROVE  Suggestion(docs[d]) \in Rows /\ Suggestion(docs[d]).status = "suggested"
<1>1. PICK a, c : docs[d] = Doc(a, c) /\ (a.of = "failures" => a.unit \in Units)
  BY DEF CauseInv, DocRight
<1>2. docs[d].about = a
  BY <1>1 DEF Doc
<1>3. SuggestedAction(docs[d]) \in Actions
  <2>1. CASE a.of = "failures"
    <3>1. Lower[a.unit] \in Units
      BY <1>1, <2>1, TeachKnowledgeAssumption
    <3>2. SuggestedAction(docs[d]) = [do |-> "restart", unit |-> Lower[a.unit]]
      BY <1>2, <2>1 DEF SuggestedAction
    <3> QED
      BY <3>1, <3>2 DEF Actions
  <2>2. CASE a.of # "failures"
    <3>1. SuggestedAction(docs[d]) = [do |-> "sysctl"]
      BY <1>2, <2>2 DEF SuggestedAction
    <3> QED
      BY <3>1 DEF Actions
  <2> QED
    BY <2>1, <2>2
<1> QED
  BY <1>3 DEF Suggestion, Rows, Statuses

\* A suggestion replaces rows by rows.
LEMMA SuggestRows ==
  ASSUME RowsInv, CauseInv, OptimizeSuggest
  PROVE  /\ RowsInv'
         /\ \A d \in DocIds : HasStatus(d, "approved")' => HasStatus(d, "approved")
<1>1. opts' = Suggested /\ UNCHANGED <<applying, runs, unsure>>
  BY DEF OptimizeSuggest
<1>2. \A d \in DocIds : opts'[d] = opts[d]
                       \/ (opts'[d] \in Rows /\ opts'[d].status = "suggested")
  BY <1>1, SuggestionTyped DEF Suggested, ListedDocs
<1>3. opts' = [d \in DocIds |-> opts'[d]]
  BY <1>1 DEF Suggested
<1>4. \A d \in DocIds : opts'[d] # NoDoc => opts'[d] \in Rows
  BY <1>2 DEF RowsInv
<1>5. \A d \in DocIds : opts[d] \in Rows => opts'[d] \in Rows
  BY <1>2
<1>6. \A r \in ApplyRequests : applying[r] # NoDoc => applying[r].doc \in DocIds
  BY DEF RowsInv, Applications
<1>7. RowsInv'
  BY <1>1, <1>3, <1>4, <1>5, <1>6 DEF RowsInv
<1>8. \A d \in DocIds : HasStatus(d, "approved")' => HasStatus(d, "approved")
  BY <1>2 DEF HasStatus
<1> QED
  BY <1>7, <1>8

\* The status of a row changes.
LEMMA StatusRows ==
  ASSUME RowsInv, NEW d \in DocIds, NEW status \in Statuses, SetOptStatus(d, status),
         opts[d] \in Rows
  PROVE  /\ opts' = [e \in DocIds |-> opts'[e]]
         /\ \A e \in DocIds \ {d} : opts'[e] = opts[e]
         /\ opts'[d].status = status /\ opts'[d].action = opts[d].action
         /\ \A e \in DocIds : opts[e] \in Rows => opts'[e] \in Rows
         /\ \A e \in DocIds : opts'[e] # NoDoc => opts'[e] \in Rows
<1> DEFINE row == [opts[d] EXCEPT !.status = status]
<1>1. row \in Rows /\ row.status = status /\ row.action = opts[d].action
  BY DEF Rows
<1>2. opts' = [opts EXCEPT ![d] = row]
  BY DEF SetOptStatus
<1> HIDE DEF row
<1>3. opts' = [e \in DocIds |-> IF e = d THEN row ELSE opts[e]]
  BY <1>2 DEF RowsInv
<1>4. opts'[d] = row /\ \A e \in DocIds \ {d} : opts'[e] = opts[e]
  BY <1>3
<1>5. opts' = [e \in DocIds |-> opts'[e]]
  BY <1>3
<1> QED
  BY <1>1, <1>4, <1>5 DEF RowsInv

\* The request r appears, goes on, or ends.
LEMMA OneApplication ==
  ASSUME RowsInv, NEW r \in ApplyRequests, NEW q \in Applications \cup {NoDoc},
         applying' = [applying EXCEPT ![r] = q]
  PROVE  /\ applying' \in [ApplyRequests -> Applications \cup {NoDoc}]
         /\ applying'[r] = q
         /\ \A t \in ApplyRequests \ {r} : applying'[t] = applying[t]
  BY DEF RowsInv

\* A request goes on with the same document.
GoesOn(r, st, ok) ==
    applying' = [applying EXCEPT ![r] = [applying[r] EXCEPT !.step = st, !.ok = ok]]

LEMMA ApplicationGoes ==
  ASSUME RowsInv, NEW r \in ApplyRequests, applying[r] # NoDoc, NEW st \in ApplySteps,
         NEW ok \in BOOLEAN, GoesOn(r, st, ok)
  PROVE  /\ applying' \in [ApplyRequests -> Applications \cup {NoDoc}]
         /\ applying'[r] # NoDoc /\ applying'[r].doc = applying[r].doc /\ applying'[r].step = st
         /\ \A t \in ApplyRequests \ {r} : applying'[t] = applying[t]
<1> DEFINE q == [applying[r] EXCEPT !.step = st, !.ok = ok]
<1>1. applying[r] \in Applications
  BY DEF RowsInv
<1>2. q \in Applications /\ q.doc = applying[r].doc /\ q.step = st
  BY <1>1 DEF Applications
<1>3. q # NoDoc
  BY <1>2, NoDocApart
<1> HIDE DEF q
<1>4. applying' = [applying EXCEPT ![r] = q]
  BY DEF q, GoesOn
<1> QED
  BY <1>2, <1>3, <1>4, OneApplication

\* A request that starts makes an optimization unsure if it is not the only one.
LEMMA ChecksStep ==
  ASSUME RowsInv, RunsInv, NEW d \in DocIds, ApplyChecks(d)
  PROVE  RowsInv' /\ RunsInv'
<1>1. PICK r \in ApplyRequests :
         /\ applying[r] = NoDoc
         /\ applying' = [applying EXCEPT ![r] = [doc |-> d, step |-> "begin", ok |-> TRUE]]
  BY DEF ApplyChecks
<1> DEFINE q == [doc |-> d, step |-> "begin", ok |-> TRUE]
<1>2. q \in Applications /\ q.doc = d /\ q.step = "begin"
  BY DEF Applications, ApplySteps
<1>3. q # NoDoc
  BY <1>2, NoDocApart
<1> HIDE DEF q
<1>4. /\ applying' \in [ApplyRequests -> Applications \cup {NoDoc}]
      /\ applying'[r] = q
      /\ \A t \in ApplyRequests \ {r} : applying'[t] = applying[t]
  BY <1>1, <1>2, OneApplication DEF q
<1>5. /\ HasStatus(d, "approved")
      /\ unsure' = IF Busy(d) THEN unsure \cup {d} ELSE unsure
      /\ UNCHANGED <<opts, runs>>
  BY BusyApplying DEF ApplyChecks
<1>6. opts[d] \in Rows
  BY <1>5 DEF HasStatus, RowsInv
<1>7. RowsInv'
  <2>1. \A t \in ApplyRequests : applying'[t] # NoDoc => opts[applying'[t].doc] \in Rows
    BY <1>2, <1>4, <1>6 DEF RowsInv
  <2> QED
    BY <1>4, <1>5, <2>1 DEF RowsInv
<1>8. RunsInv'
  <2> SUFFICES ASSUME NEW e \in DocIds, e \notin unsure'
               PROVE  RunsRight(e)'
    BY DEF RunsInv
  <2>1. e \notin unsure
    BY <1>5
  <2>2. CASE e = d
    <3>1. ~ Busy(d)
      BY <1>5, <2>2
    <3>2. \A t \in ApplyRequests : applying'[t] # NoDoc /\ applying'[t].doc = d => t = r
      BY <1>4, <3>1 DEF Busy
    <3>3. runs[d] = 0
      BY <1>5, <2>1, <2>2, <3>1 DEF RunsInv, RunsRight
    <3> QED
      BY <1>5, <2>2, <3>2, <3>3 DEF RunsRight
  <2>3. CASE e # d
    <3>1. \A t \in ApplyRequests : applying'[t] # NoDoc /\ applying'[t].doc = e
             => t # r /\ applying'[t] = applying[t]
      BY <1>2, <1>4, <2>3
    <3>2. Busy(e) => Busy(e)'
      BY <1>1, <1>4 DEF Busy
    <3>3. HasStatus(e, "approved")' => HasStatus(e, "approved")
      BY <1>5 DEF HasStatus
    <3> QED
      BY <1>5, <2>1, <3>1, <3>2, <3>3 DEF RunsInv, RunsRight
  <2> QED
    BY <2>2, <2>3
<1> QED
  BY <1>7, <1>8

\* It counts a run when it has executed.
CountsRun(r, st) ==
    \/ /\ UNCHANGED runs
       /\ st \in {"begin", "execute"} => applying[r].step \in {"begin", "execute"}
    \/ /\ runs' = [runs EXCEPT ![applying[r].doc] = IF runs[applying[r].doc] = 0 THEN 1 ELSE 2]
       /\ applying[r].step = "execute" /\ st \in {"roll back", "record"}

LEMMA GoesStep ==
  ASSUME RowsInv, RunsInv, NEW r \in ApplyRequests, applying[r] # NoDoc,
         NEW st \in ApplySteps, NEW ok \in BOOLEAN, GoesOn(r, st, ok),
         UNCHANGED <<opts, unsure>>, CountsRun(r, st)
  PROVE  RowsInv' /\ RunsInv'
<1>2. PICK d \in DocIds : d = applying[r].doc
  BY DEF RowsInv, Applications
<1>1. /\ applying' \in [ApplyRequests -> Applications \cup {NoDoc}]
      /\ applying'[r] # NoDoc /\ applying'[r].doc = d /\ applying'[r].step = st
      /\ \A t \in ApplyRequests \ {r} : applying'[t] = applying[t]
  BY <1>2, ApplicationGoes
<1>5. /\ runs' \in [DocIds -> 0 .. 2]
      /\ \A e \in DocIds \ {d} : runs'[e] = runs[e]
      /\ \/ /\ runs'[d] = runs[d]
            /\ st \in {"begin", "execute"} => applying[r].step \in {"begin", "execute"}
         \/ /\ runs[d] = 0 => runs'[d] = 1
            /\ applying[r].step = "execute" /\ st \in {"roll back", "record"}
  <2>0. runs \in [DocIds -> 0 .. 2]
    BY DEF RowsInv
  <2>1. CASE UNCHANGED runs /\ (st \in {"begin", "execute"} => applying[r].step \in {"begin", "execute"})
    BY <1>2, <2>0, <2>1
  <2>2. CASE /\ runs' = [runs EXCEPT ![applying[r].doc] = IF runs[applying[r].doc] = 0 THEN 1 ELSE 2]
             /\ applying[r].step = "execute" /\ st \in {"roll back", "record"}
    <3>1. runs' = [runs EXCEPT ![d] = IF runs[d] = 0 THEN 1 ELSE 2]
      BY <1>2, <2>2
    <3> DEFINE n == IF runs[d] = 0 THEN 1 ELSE 2
    <3>2. n \in 0 .. 2 /\ (runs[d] = 0 => n = 1)
      BY DEF n
    <3> HIDE DEF n
    <3>3. runs' = [runs EXCEPT ![d] = n]
      BY <3>1 DEF n
    <3> QED
      BY <2>0, <2>2, <3>2, <3>3
  <2> QED
    BY <2>1, <2>2 DEF CountsRun
<1>3. RowsInv'
  <2>1. runs' \in [DocIds -> 0 .. 2]
    BY <1>5
  <2>2. \A t \in ApplyRequests : applying'[t] # NoDoc => opts[applying'[t].doc] \in Rows
    BY <1>1, <1>2 DEF RowsInv
  <2> QED
    BY <1>1, <2>1, <2>2 DEF RowsInv
<1>4. RunsInv'
  <2> SUFFICES ASSUME NEW e \in DocIds, e \notin unsure
               PROVE  RunsRight(e)'
    BY DEF RunsInv
  <2>1. \A t \in ApplyRequests : (applying'[t] # NoDoc <=> applying[t] # NoDoc)
                                /\ applying'[t].doc = applying[t].doc
    BY <1>1, <1>2
  <2>2. RunsRight(e)
    BY DEF RunsInv
  <2>3. Busy(e)' <=> Busy(e)
    BY <2>1 DEF Busy
  <2>4. HasStatus(e, "approved")' <=> HasStatus(e, "approved")
    BY DEF HasStatus
  <2>5. CASE e # d
    <3>1. runs'[e] = runs[e]
      BY <1>5, <2>5
    <3>2. \A t \in ApplyRequests : applying'[t].doc = e => applying'[t] = applying[t]
      BY <1>1, <2>5
    <3>3. \A t, u \in ApplyRequests :
             /\ applying'[t] # NoDoc /\ applying'[t].doc = e
             /\ applying'[u] # NoDoc /\ applying'[u].doc = e
             => t = u
      BY <2>1, <2>2 DEF RunsRight
    <3>4. \A t \in ApplyRequests :
             /\ applying'[t] # NoDoc /\ applying'[t].doc = e
             /\ applying'[t].step \in {"begin", "execute"}
             => runs'[e] = 0
      BY <2>1, <2>2, <3>1, <3>2 DEF RunsRight
    <3>5. ~ Busy(e)' /\ HasStatus(e, "approved")' => runs'[e] = 0
      BY <2>2, <2>3, <2>4, <3>1 DEF RunsRight
    <3>6. runs'[e] <= 1
      BY <2>2, <3>1 DEF RunsRight
    <3> QED
      BY <3>3, <3>4, <3>5, <3>6, Zenon DEF RunsRight
  <2>6. CASE e = d
    <3>1. Busy(e)'
      BY <1>1, <2>6 DEF Busy
    <3>2. \A t \in ApplyRequests : applying'[t] # NoDoc /\ applying'[t].doc = e => t = r
      BY <1>2, <2>1, <2>2, <2>6 DEF RunsRight
    <3>3. applying[r].step \in {"begin", "execute"} => runs[e] = 0
      BY <1>2, <2>2, <2>6 DEF RunsRight
    <3>4. runs[e] \in {0, 1}
      BY <2>2 DEF RunsRight, RowsInv
    <3>5. (st \in {"begin", "execute"} => runs'[e] = 0) /\ runs'[e] <= 1
      <4>1. CASE runs'[e] = runs[e] /\ (st \in {"begin", "execute"} => applying[r].step \in {"begin", "execute"})
        BY <3>3, <3>4, <4>1
      <4>2. CASE /\ runs[e] = 0 => runs'[e] = 1
                 /\ applying[r].step = "execute" /\ st \in {"roll back", "record"}
        <5>1. runs'[e] = 1
          BY <3>3, <4>2, Zenon
        <5>2. st \notin {"begin", "execute"}
          BY <4>2
        <5> QED
          BY <5>1, <5>2
      <4> QED
        BY <1>5, <2>6, <4>1, <4>2, Zenon
    <3>6. \A t, u \in ApplyRequests :
             /\ applying'[t] # NoDoc /\ applying'[t].doc = e
             /\ applying'[u] # NoDoc /\ applying'[u].doc = e
             => t = u
      BY <3>2
    <3>7. \A t \in ApplyRequests :
             /\ applying'[t] # NoDoc /\ applying'[t].doc = e
             /\ applying'[t].step \in {"begin", "execute"}
             => runs'[e] = 0
      BY <1>1, <3>2, <3>5
    <3>8. ~ Busy(e)' /\ HasStatus(e, "approved")' => runs'[e] = 0
      BY <3>1
    <3>9. runs'[e] <= 1
      BY <3>5
    <3> QED
      BY <3>6, <3>7, <3>8, <3>9, Zenon DEF RunsRight
  <2> QED
    BY <2>5, <2>6
<1> QED
  BY <1>3, <1>4

\* A request ends: it has stored another status, or the optimization is unsure.
LEMMA EndsStep ==
  ASSUME RowsInv, RunsInv, NEW r \in ApplyRequests, ApplyRecords(r) \/ ApplyCutOff(r)
  PROVE  RowsInv' /\ RunsInv'
<1>0. PICK d \in DocIds : applying[r] # NoDoc /\ d = applying[r].doc /\ opts[d] \in Rows
  BY DEF ApplyRecords, ApplyCutOff, ApplyAt, RowsInv, Applications
<1>1. applying' = [applying EXCEPT ![r] = NoDoc] /\ UNCHANGED runs
  BY DEF ApplyRecords, ApplyCutOff
<1>2. /\ applying' \in [ApplyRequests -> Applications \cup {NoDoc}]
      /\ applying'[r] = NoDoc
      /\ \A t \in ApplyRequests \ {r} : applying'[t] = applying[t]
  BY <1>1, OneApplication
<1>3. /\ opts' = [e \in DocIds |-> opts'[e]]
      /\ \A e \in DocIds \ {d} : opts'[e] = opts[e]
      /\ \A e \in DocIds : opts[e] \in Rows => opts'[e] \in Rows
      /\ \A e \in DocIds : opts'[e] # NoDoc => opts'[e] \in Rows
      /\ \/ unsure' = unsure \cup {d}
         \/ unsure' = unsure /\ ~ HasStatus(d, "approved")'
  <2>1. CASE ApplyCutOff(r)
    BY <1>0, <2>1 DEF ApplyCutOff, RowsInv
  <2>2. CASE ApplyRecords(r)
    <3>1. PICK status \in {"applied", "rolled_back"} : SetOptStatus(d, status) /\ status \in Statuses
      BY <1>0, <2>2 DEF ApplyRecords, Statuses
    <3>2. opts'[d].status = status
      BY <1>0, <3>1, StatusRows
    <3>3. ~ HasStatus(d, "approved")'
      BY <3>1, <3>2 DEF HasStatus
    <3> QED
      BY <1>0, <2>2, <3>1, <3>3, StatusRows DEF ApplyRecords
  <2> QED
    BY <2>1, <2>2
<1>4. \A t \in ApplyRequests : applying'[t] # NoDoc => applying[t] # NoDoc /\ applying'[t] = applying[t]
  BY <1>2
<1>5. RowsInv'
  <2>1. \A t \in ApplyRequests : applying'[t] # NoDoc => opts'[applying'[t].doc] \in Rows
    BY <1>3, <1>4 DEF RowsInv, Applications
  <2>2. unsure' \subseteq DocIds
    BY <1>0, <1>3 DEF RowsInv
  <2> QED
    BY <1>1, <1>2, <1>3, <2>1, <2>2 DEF RowsInv
<1>6. RunsInv'
  <2> SUFFICES ASSUME NEW e \in DocIds, e \notin unsure'
               PROVE  RunsRight(e)'
    BY DEF RunsInv
  <2>1. e \notin unsure
    BY <1>3
  <2>2. ~ Busy(e)' /\ HasStatus(e, "approved")' => ~ Busy(e) /\ HasStatus(e, "approved")
    <3>1. CASE e = d
      BY <1>3, <3>1
    <3>2. CASE e # d
      <4>1. Busy(e) => Busy(e)'
        BY <1>0, <1>2, <3>2 DEF Busy
      <4>2. HasStatus(e, "approved")' => HasStatus(e, "approved")
        BY <1>3, <3>2 DEF HasStatus
      <4> QED
        BY <4>1, <4>2
    <3> QED
      BY <3>1, <3>2
  <2> QED
    BY <1>1, <1>4, <2>1, <2>2 DEF RunsInv, RunsRight
<1> QED
  BY <1>5, <1>6

\* An approval starts to count anew.
LEMMA ApproveStep ==
  ASSUME RowsInv, RunsInv, NEW d \in DocIds, OptimizeApprove(d)
  PROVE  RowsInv' /\ RunsInv'
<1>1. /\ HasStatus(d, "suggested") /\ SetOptStatus(d, "approved")
      /\ runs' = [runs EXCEPT ![d] = 0] /\ UNCHANGED applying
      /\ unsure' = IF ~ Busy(d) THEN unsure \ {d} ELSE unsure
  BY BusyApplying DEF OptimizeApprove
<1>2. opts[d] \in Rows
  BY <1>1 DEF HasStatus, RowsInv
<1>3. /\ opts' = [e \in DocIds |-> opts'[e]]
      /\ \A e \in DocIds \ {d} : opts'[e] = opts[e]
      /\ \A e \in DocIds : opts[e] \in Rows => opts'[e] \in Rows
      /\ \A e \in DocIds : opts'[e] # NoDoc => opts'[e] \in Rows
  BY <1>1, <1>2, StatusRows DEF Statuses
<1>4. runs' \in [DocIds -> 0 .. 2] /\ runs'[d] = 0 /\ \A e \in DocIds \ {d} : runs'[e] = runs[e]
  BY <1>1 DEF RowsInv
<1>5. RowsInv'
  <2>1. \A t \in ApplyRequests : applying[t] # NoDoc => opts'[applying[t].doc] \in Rows
    BY <1>3 DEF RowsInv, Applications
  <2> QED
    BY <1>1, <1>3, <1>4, <2>1 DEF RowsInv
<1>6. \A e : Busy(e)' <=> Busy(e)
  BY <1>1 DEF Busy
<1>7. RunsInv'
  <2> SUFFICES ASSUME NEW e \in DocIds, e \notin unsure'
               PROVE  RunsRight(e)'
    BY <1>1 DEF RunsInv
  <2>1. CASE e = d
    <3>1. CASE Busy(d)
      BY <1>1, <1>4, <2>1, <3>1 DEF RunsInv, RunsRight
    <3>2. CASE ~ Busy(d)
      BY <1>1, <1>4, <2>1, <3>2 DEF Busy, RunsRight
    <3> QED
      BY <3>1, <3>2
  <2>2. CASE e # d
    <3>1. e \notin unsure /\ runs'[e] = runs[e]
      BY <1>1, <1>4, <2>2
    <3>2. HasStatus(e, "approved")' => HasStatus(e, "approved")
      BY <1>3, <2>2 DEF HasStatus
    <3> QED
      BY <1>1, <1>6, <3>1, <3>2 DEF RunsInv, RunsRight
  <2> QED
    BY <2>1, <2>2
<1> QED
  BY <1>5, <1>7

-----------------------------------------------------------------------------
(* Causes.                                                                 *)

\* A document that was put is right, and nothing else has changed.
LEMMA PutStep ==
  ASSUME CauseInv, NEW d \in DocIds, NEW a, NEW c, PutDoc(d, Doc(a, c)),
         a.of = "failures" => a.unit \in Units, d \in Written \/ Blames(d, a),
         UNCHANGED <<opts, reasons>>
  PROVE  CauseInv'
<1>1. docs' = [e \in DocIds |-> IF e = d THEN Doc(a, c) ELSE docs[e]]
  BY DEF PutDoc, CauseInv
<1>2. ASSUME NEW e \in DocIds, docs'[e] # NoDoc
      PROVE  DocRight(e)'
  <2>1. CASE e = d
    <3>1. Blames(d, a) => Blames(d, a)'
      BY DEF Blames
    <3> QED
      BY <1>1, <2>1, <3>1 DEF DocRight
  <2>2. CASE e # d
    <3>1. PICK b, k : /\ docs[e] = Doc(b, k)
                      /\ b.of = "failures" => b.unit \in Units
                      /\ e \in Written \/ Blames(e, b)
      BY <1>1, <1>2, <2>2 DEF CauseInv, DocRight
    <3>2. Blames(e, b) => Blames(e, b)'
      BY DEF Blames
    <3> QED
      BY <1>1, <2>2, <3>1, <3>2 DEF DocRight
  <2> QED
    BY <2>1, <2>2
<1>3. docs' = [e \in DocIds |-> docs'[e]]
  BY <1>1
<1>4. SuggestionHasCause'
  BY DEF CauseInv, SuggestionHasCause
<1> QED
  BY <1>2, <1>3, <1>4 DEF CauseInv

\* What the learner writes is right, and reasons are only added.
LEMMA LearnStep ==
  ASSUME CauseInv, LearningCycle
  PROVE  CauseInv'
<1>1. PICK found \in SUBSET (Confident \cup {Correlation}) :
         /\ docs' = [d \in DocIds |-> IF d \in found THEN LearnedDoc(d) ELSE docs[d]]
         /\ reasons' = reasons \cup
               {Recurring(n) : n \in {n \in Units : Mentions(n) >= ConfidentMentions}}
         /\ opts' = opts
  BY DEF LearningCycle
<1>2. \A d \in found : (\E n \in Units : d = Recurring(n) /\ d \in reasons') \/ d \in {Increase, Correlation}
  <2>1. ASSUME NEW d \in Confident
        PROVE  (\E n \in Units : d = Recurring(n) /\ d \in reasons') \/ d = Increase
    <3>1. CASE d = Increase
      BY <3>1
    <3>2. CASE d # Increase
      <4>1. PICK n \in Units : d = Recurring(n) /\ Mentions(n) >= ConfidentMentions
        BY <3>2 DEF Confident, RecurringFailures
      <4>2. d \in reasons'
        BY <1>1, <4>1
      <4> QED
        BY <4>1, <4>2
    <3> QED
      BY <3>1, <3>2
  <2> QED
    BY <2>1
<1>3. \A e, b : Blames(e, b) => Blames(e, b)'
  BY <1>1 DEF Blames
<1>4. ASSUME NEW e \in DocIds, docs'[e] # NoDoc
      PROVE  DocRight(e)'
  <2>1. CASE e \notin found
    <3>1. PICK b, k : /\ docs[e] = Doc(b, k)
                      /\ b.of = "failures" => b.unit \in Units
                      /\ e \in Written \/ Blames(e, b)
      BY <1>1, <1>4, <2>1 DEF CauseInv, DocRight
    <3> QED
      BY <1>1, <1>3, <2>1, <3>1 DEF DocRight
  <2>2. ASSUME NEW n \in Units, e \in found, e = Recurring(n), e \in reasons'
        PROVE  DocRight(e)'
    <3> DEFINE b == [of |-> "failures", unit |-> n]
    <3>1. LearnedDoc(e) = Doc(b, "reliability")
      <4>1. e[1] = "recurring" /\ e[2] = n
        BY <2>2 DEF Recurring
      <4>2. e # Increase /\ e # Correlation
        BY <4>1 DEF Increase, Correlation
      <4> QED
        BY <4>1, <4>2 DEF LearnedDoc
    <3>2. Blames(e, b)'
      BY <2>2 DEF Blames
    <3> QED
      BY <1>1, <2>2, <3>1, <3>2 DEF DocRight
  <2>3. CASE e \in found /\ e \in {Increase, Correlation}
    <3>1. \E b : LearnedDoc(e) = Doc(b, "performance") /\ b.of # "failures"
      <4>1. CASE e = Increase
        <5>1. LearnedDoc(e) = Doc([of |-> "memory"], "performance")
          BY <4>1 DEF LearnedDoc, Increase, Correlation
        <5> QED
          BY <5>1
      <4>2. CASE e = Correlation
        <5>1. LearnedDoc(e) = Doc([of |-> "other"], "performance")
          BY <4>2 DEF LearnedDoc, Increase, Correlation
        <5> QED
          BY <5>1
      <4> QED
        BY <2>3, <4>1, <4>2
    <3>2. PICK b : LearnedDoc(e) = Doc(b, "performance") /\ b.of # "failures"
      BY <3>1
    <3>3. Blames(e, b)'
      BY <3>2 DEF Blames
    <3> QED
      BY <1>1, <2>3, <3>2, <3>3 DEF DocRight
  <2> QED
    BY <1>2, <2>1, <2>2, <2>3
<1>5. docs' = [e \in DocIds |-> docs'[e]]
  BY <1>1
<1>6. SuggestionHasCause'
  BY <1>1 DEF CauseInv, SuggestionHasCause
<1> QED
  BY <1>4, <1>5, <1>6 DEF CauseInv

\* A suggestion follows its document.
LEMMA SuggestCause ==
  ASSUME CauseInv, OptimizeSuggest
  PROVE  CauseInv'
<1>1. opts' = Suggested /\ UNCHANGED <<docs, reasons>>
  BY DEF OptimizeSuggest
<1>2. ASSUME NEW d \in DocIds \ Written, opts'[d] # NoDoc, opts'[d].action.do = "restart"
      PROVE  d \in reasons /\ \E n \in Units : d = Recurring(n) /\ opts'[d].action.unit = Lower[n]
  <2>1. \/ opts'[d] = opts[d]
        \/ /\ docs[d] # NoDoc /\ SuggestedAction(docs[d]) # NoDoc
           /\ opts'[d] = Suggestion(docs[d])
    BY <1>1 DEF Suggested, ListedDocs
  <2>2. CASE opts'[d] = opts[d]
    BY <1>2, <2>2 DEF CauseInv, SuggestionHasCause
  <2>3. CASE docs[d] # NoDoc /\ SuggestedAction(docs[d]) # NoDoc /\ opts'[d] = Suggestion(docs[d])
    <3>1. PICK a, c : docs[d] = Doc(a, c) /\ Blames(d, a)
      BY <2>3 DEF CauseInv, DocRight
    <3>2. docs[d].about = a
      BY <3>1 DEF Doc
    <3>3. opts'[d].action = SuggestedAction(docs[d])
      BY <2>3 DEF Suggestion
    <3>4. a.of = "failures"
      <4>1. ASSUME a.of # "failures"
            PROVE  FALSE
        <5>1. SuggestedAction(docs[d]) = [do |-> "sysctl"]
          BY <2>3, <3>2, <4>1 DEF SuggestedAction
        <5>2. [do |-> "sysctl"].do = "sysctl"
          OBVIOUS
        <5>3. opts'[d].action.do = "sysctl"
          BY <3>3, <5>1, <5>2
        <5> QED
          BY <1>2, <5>3
      <4> QED
        BY <4>1
    <3>5. opts'[d].action.unit = Lower[a.unit]
      <4>1. SuggestedAction(docs[d]) = [do |-> "restart", unit |-> Lower[a.unit]]
        BY <3>2, <3>4 DEF SuggestedAction
      <4> QED
        BY <3>3, <4>1
    <3> QED
      BY <3>1, <3>4, <3>5 DEF Blames
  <2> QED
    BY <2>1, <2>2, <2>3
<1>3. SuggestionHasCause'
  BY <1>1, <1>2 DEF SuggestionHasCause
<1> QED
  BY <1>1, <1>3 DEF CauseInv, DocRight, Blames

\* An optimization that is approved, or has an outcome, keeps its action.
LEMMA StatusCause ==
  ASSUME RowsInv, CauseInv, NEW d \in DocIds, NEW status \in Statuses, SetOptStatus(d, status),
         opts[d] \in Rows, UNCHANGED <<docs, reasons>>
  PROVE  CauseInv'
<1>1. /\ opts'[d].action = opts[d].action
      /\ \A e \in DocIds \ {d} : opts'[e] = opts[e]
  BY StatusRows
<1>2. SuggestionHasCause'
  BY <1>1, NoDocApart DEF CauseInv, SuggestionHasCause
<1> QED
  BY <1>2 DEF CauseInv, DocRight, Blames

\* CauseInv depends on these only.
LEMMA CauseStays ==
  ASSUME CauseInv, UNCHANGED <<docs, opts, reasons>>
  PROVE  CauseInv'
  BY DEF CauseInv, DocRight, Blames, SuggestionHasCause

\* RowsInv and RunsInv depend on these only.
LEMMA RunsStay ==
  ASSUME RowsInv, RunsInv, UNCHANGED <<opts, applying, runs, unsure>>
  PROVE  RowsInv' /\ RunsInv'
<1>1. \A d : (Busy(d)' <=> Busy(d)) /\ (HasStatus(d, "approved")' <=> HasStatus(d, "approved"))
  BY DEF Busy, HasStatus
<1> QED
  BY <1>1 DEF RowsInv, RunsInv, RunsRight

-----------------------------------------------------------------------------
(* The theorems.                                                           *)

IInv == RowsInv /\ RunsInv /\ CauseInv

LEMMA IInvInit ==
  TeachKnowledgeInit => IInv
<1> SUFFICES ASSUME TeachKnowledgeInit
             PROVE  IInv
  OBVIOUS
<1>1. CauseInv
  BY DEF TeachKnowledgeInit, CauseInv, SuggestionHasCause
<1> QED
  BY <1>1, RowsInit DEF IInv

\* A request to apply an optimization moves.
LEMMA ApplyStep ==
  ASSUME IInv, NEW r \in ApplyRequests,
         \/ \E ok \in BOOLEAN : ApplyBegins(r, ok) \/ ApplyExecutes(r, ok)
         \/ ApplyRollsBack(r) \/ ApplyRecords(r) \/ ApplyCutOff(r)
  PROVE  IInv'
<1> USE DEF IInv
<1>1. ASSUME NEW ok \in BOOLEAN, ApplyBegins(r, ok)
      PROVE  IInv'
  <2>1. applying[r] # NoDoc /\ UNCHANGED <<docs, opts, reasons, runs, unsure>>
        /\ applying[r].step = "begin"
    BY <1>1 DEF ApplyBegins, ApplyAt
  <2>2. PICK st \in {"execute", "record"} : GoesOn(r, st, ok)
    BY <1>1 DEF ApplyBegins, GoesOn
  <2>3. CountsRun(r, st) /\ st \in ApplySteps
    BY <2>1 DEF CountsRun, ApplySteps
  <2> QED
    BY <2>1, <2>2, <2>3, GoesStep, CauseStays
<1>2. ASSUME NEW ok \in BOOLEAN, ApplyExecutes(r, ok)
      PROVE  IInv'
  <2>1. applying[r] # NoDoc /\ UNCHANGED <<docs, opts, reasons, unsure>>
        /\ applying[r].step = "execute"
    BY <1>2 DEF ApplyExecutes, ApplyAt
  <2>2. PICK st \in {"roll back", "record"} : GoesOn(r, st, ok)
    BY <1>2 DEF ApplyExecutes, GoesOn
  <2>3. CountsRun(r, st) /\ st \in ApplySteps
    BY <1>2, <2>1 DEF CountsRun, ApplyExecutes, ApplySteps
  <2> QED
    BY <2>1, <2>2, <2>3, GoesStep, CauseStays
<1>3. CASE ApplyRollsBack(r)
  <2>1. applying[r] # NoDoc /\ UNCHANGED <<docs, opts, reasons, runs, unsure>>
    BY <1>3 DEF ApplyRollsBack, ApplyAt
  <2>2. applying[r].ok \in BOOLEAN /\ applying[r] \in Applications
    BY <2>1 DEF RowsInv, Applications
  <2>3. [applying[r] EXCEPT !.step = "record"]
        = [applying[r] EXCEPT !.step = "record", !.ok = applying[r].ok]
    BY <2>2 DEF Applications
  <2>4. GoesOn(r, "record", applying[r].ok)
    BY <1>3, <2>3 DEF ApplyRollsBack, GoesOn
  <2>5. CountsRun(r, "record") /\ "record" \in ApplySteps
    BY <2>1 DEF CountsRun, ApplySteps
  <2> QED
    BY <2>1, <2>2, <2>4, <2>5, GoesStep, CauseStays
<1>4. CASE ApplyRecords(r)
  <2>1. applying[r] # NoDoc /\ UNCHANGED <<docs, reasons>>
    BY <1>4 DEF ApplyRecords, ApplyAt
  <2>2. PICK d \in DocIds : d = applying[r].doc /\ opts[d] \in Rows
    BY <2>1 DEF RowsInv, Applications
  <2>3. \E status \in Statuses : SetOptStatus(d, status)
    BY <1>4, <2>2 DEF ApplyRecords, Statuses
  <2> QED
    BY <1>4, <2>1, <2>2, <2>3, EndsStep, StatusCause
<1>5. CASE ApplyCutOff(r)
  BY <1>5, EndsStep, CauseStays DEF ApplyCutOff
<1> QED
  BY <1>1, <1>2, <1>3, <1>4, <1>5

LEMMA IInvStep ==
  IInv /\ [TeachKnowledgeNext]_teachVars => IInv'
<1> SUFFICES ASSUME IInv, [TeachKnowledgeNext]_teachVars
             PROVE  IInv'
  OBVIOUS
<1> USE DEF IInv
<1>1. ASSUME NEW o \in Sightings, ObserveLoad(o) \/ ObserveFailures(o)
      PROVE  IInv'
  BY <1>1, RunsStay, CauseStays DEF ObserveLoad, ObserveFailures, Store
<1>2. CASE ObservationAges
  BY <1>2, RunsStay, CauseStays DEF ObservationAges
<1>3. CASE LearningCycle
  BY <1>3, RunsStay, LearnStep DEF LearningCycle
<1>4. CASE OptimizeSuggest
  <2>1. RowsInv' /\ \A d \in DocIds : HasStatus(d, "approved")' => HasStatus(d, "approved")
    BY <1>4, SuggestRows
  <2>2. UNCHANGED <<applying, runs, unsure>>
    BY <1>4 DEF OptimizeSuggest
  <2>3. \A d : Busy(d)' <=> Busy(d)
    BY <2>2 DEF Busy
  <2>4. RunsInv'
    BY <2>1, <2>2, <2>3 DEF RunsInv, RunsRight
  <2> QED
    BY <1>4, <2>1, <2>4, SuggestCause
<1>5. ASSUME NEW d \in Written, NEW title \in Titles, NEW category,
             KnowledgeCreate(d, title, category)
      PROVE  IInv'
  <2>1. title.of = "failures" => title.unit \in Units
    BY TeachKnowledgeAssumption
  <2>2. d \in DocIds
    BY DEF DocIds
  <2> QED
    BY <1>5, <2>1, <2>2, PutStep, RunsStay DEF KnowledgeCreate
<1>6. ASSUME NEW d \in DocIds, NEW category, KnowledgeUpdate(d, category)
      PROVE  IInv'
  <2>1. docs[d] # NoDoc /\ PutDoc(d, Doc(docs[d].about, category))
        /\ UNCHANGED <<opts, applying, runs, unsure, reasons>>
    BY <1>6 DEF KnowledgeUpdate, Known
  <2>2. PICK a, c : /\ docs[d] = Doc(a, c)
                    /\ a.of = "failures" => a.unit \in Units
                    /\ d \in Written \/ Blames(d, a)
    BY <2>1 DEF CauseInv, DocRight
  <2>3. docs[d].about = a
    BY <2>2 DEF Doc
  <2> QED
    BY <2>1, <2>2, <2>3, PutStep, RunsStay
<1>7. ASSUME NEW d \in DocIds, OptimizeApprove(d)
      PROVE  IInv'
  <2>1. /\ SetOptStatus(d, "approved") /\ "approved" \in Statuses
        /\ opts[d] \in Rows /\ UNCHANGED <<docs, reasons>>
    BY <1>7 DEF OptimizeApprove, HasStatus, RowsInv, Statuses
  <2> QED
    BY <1>7, <2>1, ApproveStep, StatusCause
<1>8. ASSUME NEW d \in DocIds, ApplyChecks(d)
      PROVE  IInv'
  <2>1. UNCHANGED <<docs, opts, reasons>>
    BY <1>8 DEF ApplyChecks
  <2> QED
    BY <1>8, <2>1, ChecksStep, CauseStays
<1>9. ASSUME NEW r \in ApplyRequests,
             \/ \E ok \in BOOLEAN : ApplyBegins(r, ok) \/ ApplyExecutes(r, ok)
             \/ ApplyRollsBack(r) \/ ApplyRecords(r) \/ ApplyCutOff(r)
      PROVE  IInv'
  BY <1>9, ApplyStep
<1>10. CASE UNCHANGED teachVars
  BY <1>10, RunsStay, CauseStays DEF teachVars
<1> QED
  BY <1>1, <1>2, <1>3, <1>4, <1>5, <1>6, <1>7, <1>8, <1>9, <1>10 DEF TeachKnowledgeNext

\* The inductive invariant: rows, requests, runs and causes.
THEOREM TeachInvariant ==
  TeachKnowledgeSpec => []IInv
  BY IInvInit, IInvStep, PTL DEF TeachKnowledgeSpec

\* An optimization runs once for each approval (the check in
\* optimize_apply_handler, which does not change the status): unless two
\* requests overlapped, or one was cut off, since the approval.
THEOREM OneRun ==
  TeachKnowledgeSpec => []OneRunPerApproval
<1>1. IInv => OneRunPerApproval
  BY DEF IInv, RunsInv, RunsRight, OneRunPerApproval
<1> QED
  BY <1>1, TeachInvariant, PTL

\* A learned document makes teachd suggest a restart only of the unit that it
\* was learned for (detect_recurring_failures, learning_cycle, suggest_optimizations).
THEOREM RestartHasCause ==
  TeachKnowledgeSpec => []SuggestionHasCause
<1>1. IInv => SuggestionHasCause
  BY DEF IInv, CauseInv
<1> QED
  BY <1>1, TeachInvariant, PTL

-----------------------------------------------------------------------------
(***************************************************************************)
(* Skills: candidates and their files.                                     *)
(***************************************************************************)

CandidateStatuses == {"pending", "generated", "promoted", "rejected", "retired"}
CandidateType == [tools : Seq(Tools), status : CandidateStatuses]

\* The activation of a skill in these files.
FileOf(files, n) == IF n \in DOMAIN files THEN files[n] ELSE NoSkill

CandidateTypes ==
  /\ log \in [Sessions -> Seq(Tools)]
  /\ candidates \in [Existing -> CandidateType]

\* Whatever name it has, a skill that is on probation or promoted has the file
\* that says so, if no other candidate shares the name and no write of it was lost.
FileOfCandidate ==
  \A c \in Existing :
    (/\ NameOf(c) \notin torn
     /\ \A d \in Existing \ {c} : NameOf(d) # NameOf(c))
    => /\ HasState(c, "generated") => FileOf(skillFile, NameOf(c)) = "manual"
       /\ HasState(c, "promoted") => FileOf(skillFile, NameOf(c)) = "auto"

\* A file that activates itself is that of a promoted skill.
CandidateOfFile ==
  \A n \in DOMAIN skillFile \ torn :
    skillFile[n] = "auto" => \E c \in Existing : NameOf(c) = n /\ HasState(c, "promoted")

SkillInv == CandidateTypes /\ FileOfCandidate /\ CandidateOfFile

\* Putting a row that is of the type of the others.
LEMMA PutType ==
  ASSUME NEW f, NEW k, NEW S, NEW v \in S, \A x \in DOMAIN f : f[x] \in S
  PROVE  Put(f, k, v) \in [DOMAIN f \cup {k} -> S]
BY DEF Put

\* The activation of a skill after its file was written.
LEMMA OneActivation ==
  ASSUME NEW n, NEW a, SetActivation(n, a)
  PROVE  /\ DOMAIN skillFile' = DOMAIN skillFile \cup {n}
         /\ skillFile'[n] = a /\ FileOf(skillFile', n) = a
         /\ \A m \in DOMAIN skillFile \ {n} : skillFile'[m] = skillFile[m]
         /\ \A m : m # n => FileOf(skillFile', m) = FileOf(skillFile, m)
<1>1. skillFile' = Put(skillFile, n, a)
  BY DEF SetActivation
<1>2. /\ DOMAIN skillFile' = DOMAIN skillFile \cup {n}
      /\ skillFile'[n] = a
      /\ \A m \in DOMAIN skillFile \ {n} : skillFile'[m] = skillFile[m]
  BY <1>1 DEF Put
<1> QED
  BY <1>2 DEF FileOf

\* The windows of a sequence of tools are such sequences.
LEMMA WindowType ==
  ASSUME NEW q \in Seq(Tools), NEW w \in Windows(q)
  PROVE  w \in Seq(Tools)
<1>1. PICK e \in (1 .. Len(q)) \X (1 .. Len(q)) : w = SubSeq(q, e[1], e[2])
  BY DEF Windows
<1>2. e[1] \in 1 .. Len(q) /\ e[2] \in 1 .. Len(q)
  OBVIOUS
<1> QED
  BY <1>1, <1>2

\* So are the candidates that a cycle of skillgen finds.
LEMMA KeptType ==
  ASSUME log \in [Sessions -> Seq(Tools)], NEW w \in Kept(Supports)
  PROVE  w \in Seq(Tools)
<1>1. w \in DOMAIN Supports
  BY DEF Kept
<1>2. PICK f \in UNION {{s} \X Windows(log[s]) : s \in Sessions} : w = f[2]
  BY <1>1 DEF Supports
<1>3. PICK s \in Sessions : f \in {s} \X Windows(log[s])
  BY <1>2
<1>4. w \in Windows(log[s])
  BY <1>2, <1>3
<1>5. log[s] \in Seq(Tools)
  OBVIOUS
<1> QED
  BY <1>4, <1>5, WindowType

\* A step that changes the state of one candidate, and maybe the file of its name.
LEMMA OneCandidate ==
  ASSUME SkillInv, NEW c \in Existing, NEW st \in CandidateStatuses, SetStatus(c, st)
  PROVE  /\ Existing' = Existing
         /\ candidates' \in [Existing -> CandidateType]
         /\ \A d \in Existing : NameOf(d)' = NameOf(d)
         /\ candidates'[c].status = st
         /\ \A d \in Existing \ {c} : candidates'[d] = candidates[d]
<1>1. candidates[c] \in CandidateType
  BY DEF SkillInv, CandidateTypes
<1> DEFINE r == [candidates[c] EXCEPT !.status = st]
<1>2. r \in CandidateType /\ r.status = st /\ r.tools = candidates[c].tools
  BY <1>1 DEF CandidateType
<1>3. candidates' = Put(candidates, c, r)
  BY DEF SetStatus, PutCandidate
<1> HIDE DEF r
<1>4. DOMAIN candidates' = DOMAIN candidates /\ candidates'[c] = r
      /\ \A d \in Existing \ {c} : candidates'[d] = candidates[d]
  <2>1. /\ DOMAIN candidates' = DOMAIN candidates \cup {c} /\ candidates'[c] = r
        /\ \A d \in DOMAIN candidates \ {c} : candidates'[d] = candidates[d]
    BY <1>3 DEF Put
  <2> QED
    BY <2>1 DEF Existing
<1>5. candidates' \in [Existing -> CandidateType]
  <2>1. \A d \in DOMAIN candidates : candidates[d] \in CandidateType
    BY DEF Existing, SkillInv, CandidateTypes
  <2>2. candidates' \in [DOMAIN candidates \cup {c} -> CandidateType]
    BY <1>2, <1>3, <2>1, PutType
  <2>3. DOMAIN candidates \cup {c} = Existing
    BY DEF Existing
  <2> QED
    BY <2>2, <2>3
<1>6. \A d \in Existing : NameOf(d)' = NameOf(d)
  BY <1>2, <1>4 DEF NameOf
<1> QED
  BY <1>2, <1>4, <1>5, <1>6 DEF Existing

\* It leaves the names and the states of the others, and their files, alone.
LEMMA OthersKept ==
  ASSUME SkillInv, NEW c \in Existing, log' = log,
         UNCHANGED candidates \/ \E st \in CandidateStatuses : SetStatus(c, st),
         UNCHANGED skillFile \/ \E a : SetActivation(NameOf(c), a)
  PROVE  /\ Existing' = Existing
         /\ CandidateTypes'
         /\ \A d \in Existing : NameOf(d)' = NameOf(d)
         /\ \A d \in Existing \ {c} : candidates'[d] = candidates[d]
         /\ \A m : m # NameOf(c) => FileOf(skillFile', m) = FileOf(skillFile, m)
         /\ DOMAIN skillFile' \subseteq DOMAIN skillFile \cup {NameOf(c)}
         /\ \A m \in DOMAIN skillFile \ {NameOf(c)} : skillFile'[m] = skillFile[m]
<1>1. /\ Existing' = Existing
      /\ candidates' \in [Existing -> CandidateType]
      /\ \A d \in Existing : NameOf(d)' = NameOf(d)
      /\ \A d \in Existing \ {c} : candidates'[d] = candidates[d]
  <2>1. CASE UNCHANGED candidates
    BY <2>1 DEF SkillInv, CandidateTypes, Existing, NameOf
  <2> QED
    BY <2>1, OneCandidate
<1>2. /\ \A m : m # NameOf(c) => FileOf(skillFile', m) = FileOf(skillFile, m)
      /\ DOMAIN skillFile' \subseteq DOMAIN skillFile \cup {NameOf(c)}
      /\ \A m \in DOMAIN skillFile \ {NameOf(c)} : skillFile'[m] = skillFile[m]
  <2>1. CASE UNCHANGED skillFile
    BY <2>1 DEF FileOf
  <2> QED
    BY <2>1, OneActivation
<1>3. CandidateTypes'
  BY <1>1 DEF SkillInv, CandidateTypes
<1> QED
  BY <1>1, <1>2, <1>3

\* So whatever it does for its own name decides.
LEMMA OwnName ==
  ASSUME SkillInv, NEW c \in Existing, log' = log, torn \subseteq torn',
         UNCHANGED candidates \/ \E st \in CandidateStatuses : SetStatus(c, st),
         UNCHANGED skillFile \/ \E a : SetActivation(NameOf(c), a),
         (/\ NameOf(c) \notin torn'
          /\ \A d \in Existing \ {c} : NameOf(d) # NameOf(c))
         => /\ HasState(c, "generated")' => FileOf(skillFile', NameOf(c)) = "manual"
            /\ HasState(c, "promoted")' => FileOf(skillFile', NameOf(c)) = "auto",
         NameOf(c) \notin torn' /\ FileOf(skillFile', NameOf(c)) = "auto"
         => \/ HasState(c, "promoted")'
            \/ UNCHANGED skillFile /\ ~ HasState(c, "promoted")
  PROVE  SkillInv'
<1> DEFINE n == NameOf(c)
<1>1. /\ Existing' = Existing
      /\ CandidateTypes'
      /\ \A d \in Existing : NameOf(d)' = NameOf(d)
      /\ \A d \in Existing \ {c} : candidates'[d] = candidates[d]
      /\ \A m : m # n => FileOf(skillFile', m) = FileOf(skillFile, m)
      /\ DOMAIN skillFile' \subseteq DOMAIN skillFile \cup {n}
      /\ \A m \in DOMAIN skillFile \ {n} : skillFile'[m] = skillFile[m]
  BY OthersKept
<1>2. FileOfCandidate'
  <2> SUFFICES ASSUME NEW d \in Existing, NameOf(d) \notin torn',
                      \A e \in Existing \ {d} : NameOf(e) # NameOf(d)
               PROVE  /\ HasState(d, "generated")' => FileOf(skillFile', NameOf(d)) = "manual"
                      /\ HasState(d, "promoted")' => FileOf(skillFile', NameOf(d)) = "auto"
    BY <1>1 DEF FileOfCandidate
  <2>1. CASE d = c
    BY <2>1
  <2>2. CASE d # c
    BY <1>1, <2>2 DEF SkillInv, FileOfCandidate, HasState
  <2> QED
    BY <2>1, <2>2
<1>3. CandidateOfFile'
  <2> SUFFICES ASSUME NEW m \in DOMAIN skillFile', m \notin torn', skillFile'[m] = "auto"
               PROVE  \E d \in Existing : NameOf(d) = m /\ candidates'[d].status = "promoted"
    BY <1>1 DEF CandidateOfFile, HasState
  <2>1. ASSUME m \in DOMAIN skillFile, skillFile[m] = "auto", m # n \/ ~ HasState(c, "promoted")
        PROVE  \E d \in Existing : NameOf(d) = m /\ candidates'[d].status = "promoted"
    <3>1. m \notin torn
      OBVIOUS
    <3>2. PICK d \in Existing : NameOf(d) = m /\ candidates[d].status = "promoted"
      BY <2>1, <3>1 DEF SkillInv, CandidateOfFile, HasState
    <3>3. d # c
      BY <2>1, <3>2 DEF HasState
    <3> QED
      BY <1>1, <3>2, <3>3
  <2>2. CASE m # n
    BY <1>1, <2>1, <2>2
  <2>3. CASE m = n
    <3>1. FileOf(skillFile', n) = "auto"
      BY <2>3 DEF FileOf
    <3>2. CASE HasState(c, "promoted")'
      BY <2>3, <3>2 DEF HasState
    <3>3. CASE UNCHANGED skillFile /\ ~ HasState(c, "promoted")
      BY <2>1, <3>3
    <3> QED
      BY <2>3, <3>1, <3>2, <3>3
  <2> QED
    BY <2>2, <2>3
<1> QED
  BY <1>1, <1>2, <1>3 DEF SkillInv

\* Once a write of a name was lost nothing is said of it.
LEMMA TornName ==
  ASSUME SkillInv, NEW c \in Existing, log' = log, Trouble(NameOf(c)),
         UNCHANGED candidates \/ \E st \in CandidateStatuses : SetStatus(c, st),
         UNCHANGED skillFile \/ \E a : SetActivation(NameOf(c), a)
  PROVE  SkillInv'
BY OwnName DEF Trouble

\* The steps that both promote and retire are made of.
LEMMA AdvanceAgrees ==
  ASSUME SkillInv, NEW c \in Existing, log' = log,
         NEW from, NEW to, NEW st,
         \/ from = "manual" /\ to = "auto" /\ st = "promoted" /\ HasState(c, "generated")
         \/ from = "auto" /\ to = "retired" /\ st = "retired" /\ HasState(c, "promoted"),
         Advance(c, from, to, st)
  PROVE  SkillInv'
<1>1. st \in CandidateStatuses
  BY DEF CandidateStatuses
<1>2. EditFile(c, from, to) => UNCHANGED skillFile \/ \E a : SetActivation(NameOf(c), a)
  BY DEF EditFile
<1>3. CASE EditFile(c, from, to) /\ SetStatus(c, st) /\ NoTrouble
  <2>1. torn' = torn
    BY <1>3 DEF NoTrouble
  <2>2. candidates'[c].status = st
    BY <1>1, <1>3, OneCandidate
  <2>3. \/ FileOf(skillFile, NameOf(c)) = from /\ FileOf(skillFile', NameOf(c)) = to
        \/ FileOf(skillFile, NameOf(c)) # from /\ UNCHANGED skillFile
           /\ FileOf(skillFile', NameOf(c)) = FileOf(skillFile, NameOf(c))
    <3>1. CASE FileOf(skillFile, NameOf(c)) = from
      BY <1>3, <3>1, OneActivation DEF EditFile, Activation, FileOf
    <3>2. CASE FileOf(skillFile, NameOf(c)) # from
      <4>1. skillFile' = skillFile
        BY <1>3, <3>2 DEF EditFile, Activation, FileOf
      <4> QED
        BY <3>2, <4>1
    <3> QED
      BY <3>1, <3>2
  <2>4. (/\ NameOf(c) \notin torn
         /\ \A d \in Existing \ {c} : NameOf(d) # NameOf(c))
        => /\ HasState(c, "generated") => FileOf(skillFile, NameOf(c)) = "manual"
           /\ HasState(c, "promoted") => FileOf(skillFile, NameOf(c)) = "auto"
    BY DEF SkillInv, FileOfCandidate
  <2> QED
    BY <1>1, <1>2, <1>3, <2>1, <2>2, <2>3, <2>4, OwnName DEF HasState
<1>4. CASE Trouble(NameOf(c))
  BY <1>1, <1>2, <1>4, TornName DEF Advance, NoTrouble
<1> QED
  BY <1>3, <1>4 DEF Advance

LEMMA SkillInvInit == TeachSkillsInit => SkillInv
<1> SUFFICES ASSUME TeachSkillsInit PROVE SkillInv
  OBVIOUS
<1>1. log \in [Sessions -> Seq(Tools)]
  BY TeachSkillsAssumption DEF TeachSkillsInit
<1>2. Existing = {} /\ DOMAIN skillFile = {}
  BY DEF TeachSkillsInit, Existing
<1>3. candidates \in [{} -> CandidateType]
  BY DEF TeachSkillsInit
<1> QED
  BY <1>1, <1>2, <1>3 DEF SkillInv, CandidateTypes, FileOfCandidate, CandidateOfFile

\* The log and the outcomes do not matter to the files.
LEMMA LogStep ==
  ASSUME SkillInv, UNCHANGED <<candidates, skillFile, torn>>, log' \in [Sessions -> Seq(Tools)]
  PROVE  SkillInv'
BY DEF SkillInv, CandidateTypes, FileOfCandidate, CandidateOfFile, Existing, NameOf,
       HasState

\* A new candidate is pending.
LEMMA NewCandidate ==
  ASSUME SkillInv, SkillgenStep
  PROVE  SkillInv'
<1>1. PICK w \in Kept(Supports) :
          /\ ~ Skipped(w)
          /\ PutCandidate(SlugFrom(w), [tools |-> w, status |-> "pending"])
          /\ UNCHANGED <<log, skillFile, torn>>
  BY DEF SkillgenStep
<1> DEFINE id == SlugFrom(w)
           r == [tools |-> w, status |-> "pending"]
<1>2. id \notin Existing
  BY <1>1 DEF Skipped
<1>3. r \in CandidateType
  <2>1. w \in Seq(Tools)
    BY KeptType DEF SkillInv, CandidateTypes
  <2> QED
    BY <2>1 DEF CandidateType, CandidateStatuses
<1>4. r.status = "pending"
  OBVIOUS
<1>5. candidates' = Put(candidates, id, r)
  BY <1>1 DEF PutCandidate
<1> HIDE DEF id, r
<1>6. /\ Existing' = Existing \cup {id} /\ candidates'[id] = r
      /\ \A d \in Existing : candidates'[d] = candidates[d]
  <2>1. /\ DOMAIN candidates' = DOMAIN candidates \cup {id} /\ candidates'[id] = r
        /\ \A d \in DOMAIN candidates \ {id} : candidates'[d] = candidates[d]
    BY <1>5 DEF Put
  <2> QED
    BY <1>2, <2>1 DEF Existing
<1>7. CandidateTypes'
  <2>1. \A d \in DOMAIN candidates : candidates[d] \in CandidateType
    BY DEF Existing, SkillInv, CandidateTypes
  <2>2. candidates' \in [DOMAIN candidates \cup {id} -> CandidateType]
    BY <1>3, <1>5, <2>1, PutType
  <2> QED
    BY <1>1, <1>6, <2>2 DEF Existing, SkillInv, CandidateTypes
<1>8. \A d \in Existing : NameOf(d)' = NameOf(d) /\ (\A st : HasState(d, st)' = HasState(d, st))
  BY <1>6 DEF NameOf, HasState
<1>9. FileOfCandidate'
  <2> SUFFICES ASSUME NEW d \in Existing \cup {id}, NameOf(d)' \notin torn,
                      \A e \in (Existing \cup {id}) \ {d} : NameOf(e)' # NameOf(d)'
               PROVE  /\ HasState(d, "generated")' => FileOf(skillFile', NameOf(d)') = "manual"
                      /\ HasState(d, "promoted")' => FileOf(skillFile', NameOf(d)') = "auto"
    BY <1>1, <1>6 DEF FileOfCandidate
  <2>1. CASE d = id
    BY <1>4, <1>6, <2>1 DEF HasState
  <2>2. CASE d \in Existing
    <3>1. NameOf(d) \notin torn /\ \A e \in Existing \ {d} : NameOf(e) # NameOf(d)
      BY <1>8, <2>2
    <3>2. /\ HasState(d, "generated") => FileOf(skillFile, NameOf(d)) = "manual"
          /\ HasState(d, "promoted") => FileOf(skillFile, NameOf(d)) = "auto"
      BY <2>2, <3>1 DEF SkillInv, FileOfCandidate
    <3> QED
      BY <1>1, <1>6, <1>8, <2>2, <3>2 DEF HasState
  <2> QED
    BY <2>1, <2>2
<1>10. CandidateOfFile'
  BY <1>1, <1>6, <1>8 DEF SkillInv, CandidateOfFile
<1> QED
  BY <1>7, <1>9, <1>10 DEF SkillInv

LEMMA SkillInvStep == SkillInv /\ [TeachSkillsNext]_skillVars => SkillInv'
<1> SUFFICES ASSUME SkillInv, [TeachSkillsNext]_skillVars PROVE SkillInv'
  OBVIOUS
<1>0. log \in [Sessions -> Seq(Tools)]
  BY DEF SkillInv, CandidateTypes
<1>1. ASSUME NEW s \in Sessions, NEW t \in Tools, NEW good \in BOOLEAN, ObserveAction(s, t, good)
      PROVE  SkillInv'
  <2>1. log' = [log EXCEPT ![s] = Append(log[s], t)] \/ log' = log
    BY <1>1 DEF ObserveAction, PutAction
  <2>2. Append(log[s], t) \in Seq(Tools)
    BY <1>0
  <2>3. log' \in [Sessions -> Seq(Tools)]
    BY <1>0, <2>1, <2>2
  <2> QED
    BY <1>1, <2>3, LogStep DEF ObserveAction
<1>2. ASSUME NEW s \in Sessions, ActionAges(s) PROVE SkillInv'
  BY <1>0, <1>2, LogStep DEF ActionAges
<1>3. CASE SkillgenStep
  BY <1>3, NewCandidate
<1>4. ASSUME NEW c \in Existing, SkillGenerate(c) PROVE SkillInv'
  <2>1. CASE /\ SetActivation(NameOf(c), "manual") /\ SetStatus(c, "generated") /\ NoTrouble
    <3>1. candidates'[c].status = "generated" /\ NameOf(c)' = NameOf(c)
      BY <2>1, OneCandidate DEF CandidateStatuses
    <3>2. FileOf(skillFile', NameOf(c)) = "manual"
      BY <2>1, <3>1, OneActivation
    <3> QED
      BY <1>4, <2>1, <3>1, <3>2, OwnName DEF SkillGenerate, NoTrouble, HasState, CandidateStatuses
  <2>2. CASE Trouble(NameOf(c))
    BY <1>4, <2>2, TornName DEF SkillGenerate, NoTrouble, CandidateStatuses
  <2> QED
    BY <1>4, <2>1, <2>2 DEF SkillGenerate
<1>5. ASSUME NEW c \in Existing, SkillPromote(c) PROVE SkillInv'
  BY <1>5, AdvanceAgrees DEF SkillPromote
<1>6. ASSUME NEW c \in Existing, VerifyStep(c) PROVE SkillInv'
  <2>1. CASE HasState(c, "generated") /\ SetStatus(c, "rejected") /\ NoTrouble /\ UNCHANGED skillFile
    <3>1. candidates'[c].status = "rejected"
      BY <2>1, OneCandidate DEF CandidateStatuses
    <3> QED
      BY <1>6, <2>1, <3>1, OwnName DEF VerifyStep, NoTrouble, HasState, CandidateStatuses
  <2>2. CASE HasState(c, "generated") /\ Advance(c, "manual", "auto", "promoted")
    BY <1>6, <2>2, AdvanceAgrees DEF VerifyStep
  <2>3. CASE HasState(c, "promoted") /\ Advance(c, "auto", "retired", "retired")
    BY <1>6, <2>3, AdvanceAgrees DEF VerifyStep
  <2> QED
    BY <1>6, <2>1, <2>2, <2>3 DEF VerifyStep
<1>7. ASSUME NEW n, NEW good \in BOOLEAN, SkillExecution(n, good) PROVE SkillInv'
  BY <1>0, <1>7, LogStep DEF SkillExecution
<1>8. CASE QuietCycle \/ UNCHANGED skillVars
  BY <1>0, <1>8, LogStep DEF QuietCycle, skillVars
<1> QED
  BY <1>1, <1>2, <1>3, <1>4, <1>5, <1>6, <1>7, <1>8 DEF TeachSkillsNext

\* The table of candidates and the files on disk agree (skillgen.rs, verifier.rs),
\* but for the names a write of which was lost.
THEOREM FilesAlwaysAgree == TeachSkillsSpec => []FilesAgree
<1>1. SkillInv => FilesAgree
  BY DEF SkillInv, CandidateOfFile, FileOfCandidate, FilesAgree, Activation, FileOf
<1> QED
  BY <1>1, SkillInvInit, SkillInvStep, PTL DEF TeachSkillsSpec
=============================================================================
