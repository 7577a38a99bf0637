--------------------------- MODULE TeachKnowledge ---------------------------
(***************************************************************************)
(* osmoda-teachd, from observations to optimizations (observer.rs,         *)
(* learner.rs, knowledge.rs, optimizer.rs, api.rs).  Everything is in one  *)
(* database behind one mutex; an optimization is applied without it.  The  *)
(* patterns table is left out: it is written, and listed, but nothing      *)
(* reads it.  Confidence is kept as the threshold that it has to pass.     *)
(***************************************************************************)
EXTENDS Integers, Sequences, FiniteSets

CONSTANTS
    Units,               \* names of units and journal identifiers
    Lower,               \* Lower[n]: the name in lower case
    Sightings,           \* what the observer may store
    Written,             \* ids of documents written by hand
    Titles,              \* their titles
    ApplyRequests,             \* requests that apply an optimization at the same time
    MinMentions,         \* 3 in the code
    ConfidentMentions,   \* 8 in the code: a tenth for each, more than 0.7
    MinPoints,           \* 6 in the code
    ConfidentTrend,      \* 35 in the code: tenths of a percent for each point
    MaxObservations,     \* bound: observations in the last hour
    MaxApprovals,        \* bound: approvals
    MaxEdits,            \* bound: documents written or edited by hand
    NoDoc                \* no document, no optimization, no request

ASSUME TeachKnowledgeAssumption ==
    /\ MinMentions \in Nat \ {0} /\ ConfidentMentions \in Nat /\ ConfidentMentions >= MinMentions
    /\ MinPoints \in Nat /\ ConfidentTrend \in Nat
    /\ MaxObservations \in Nat /\ MaxApprovals \in Nat /\ MaxEdits \in Nat
    /\ \A n \in Units : Lower[n] \in Units
    /\ \A title \in Titles : title.of = "failures" => title.unit \in Units

VARIABLES
    observations,  \* those of the last hour, oldest first
    docs,          \* knowledge_docs: title and category by id
    opts,          \* optimizations: status and action, by the id of the document
    applying,      \* applying[r]: document, action and step of a request
    approvals, edits,
    \* observers: documents for whose pattern the last hour gave reason at some
    \* time; runs of an optimization since its approval, up to 2; documents with two
    \* requests at a time, or one that was cut off
    reasons, runs, unsure

teachVars == <<observations, docs, opts, applying, approvals, edits, reasons, runs, unsure>>

-----------------------------------------------------------------------------
(* Patterns (learner.rs).  list_observations returns the newest first.     *)

Newest == [i \in DOMAIN observations |-> observations[Len(observations) + 1 - i]]

From(source) == SelectSeq(Newest, LAMBDA o : o.source = source)

\* A unit is mentioned once by each list of failed services, and once by each
\* of its errors in the journal.
Mentions(n) ==
    LET Mentioned(o) == IF o.source \in {"service", "journal"} THEN 1 .. o.mentions[n] ELSE {}
    IN  Cardinality(UNION {{i} \X Mentioned(Newest[i]) : i \in DOMAIN Newest})

RecurringFailures == {n \in Units : Mentions(n) >= MinMentions}

\* More than six of ten steps up, and up on the whole; the slope times the
\* number of steps, or 0.
MonotonicTrend(values) ==
    LET steps == Len(values) - 1
        up == {i \in 1 .. steps : values[i + 1] > values[i]}
    IN  IF Len(values) >= 3 /\ 10 * Cardinality(up) > 6 * steps /\ values[Len(values)] > values[1]
           THEN values[Len(values)] - values[1]
           ELSE 0

MemoryUse == [i \in DOMAIN From("memory") |-> From("memory")[i].used]

MemoryTrend == Len(MemoryUse) >= MinPoints /\ MonotonicTrend(MemoryUse) > 0

ConfidentMemoryTrend ==
    MemoryTrend /\ 10 * MonotonicTrend(MemoryUse) > ConfidentTrend * (Len(MemoryUse) - 1)

\* A busy CPU and a failed service within a minute of each other, which is up
\* to the order that the two were read in.  One id stands for all of these.
MayCorrelate ==
    /\ \E i \in DOMAIN From("cpu") : From("cpu")[i].busy
    /\ \E i \in DOMAIN From("service"), n \in Units : From("service")[i].mentions[n] > 0

\* Documents of patterns; an error spike's is like a correlation's: nothing
\* comes of it.
Recurring(n) == <<"recurring", n>>
Increase == <<"trend", "memory">>
Correlation == <<"correlation", "cpu">>
DocIds == {Recurring(n) : n \in Units} \cup {Increase, Correlation} \cup Written

\* A request to apply an optimization.
ApplySteps == {"begin", "execute", "roll back", "record"}
Applications == [doc: DocIds, step: ApplySteps, ok: BOOLEAN]

\* A row of optimizations.
Statuses == {"suggested", "approved", "applied", "rolled_back"}
Actions == [do: {"restart"}, unit: Units] \cup [do: {"sysctl"}]
Rows == [status: Statuses, action: Actions]

ASSUME NoDocAssumption == NoDoc \notin Applications \cup Rows

Doc(about, category) == [about |-> about, category |-> category]

\* get_knowledge_doc, list_knowledge_docs (there are at most 50 here, so that
\* its limit cuts nothing off) and insert_knowledge_doc.
Known(d) == docs[d] # NoDoc
ListedDocs == {d \in DocIds : docs[d] # NoDoc}
PutDoc(d, doc) == docs' = [docs EXCEPT ![d] = doc]

LearnedDoc(id) ==
    CASE id[1] = "recurring" -> Doc([of |-> "failures", unit |-> id[2]], "reliability")
      [] id = Increase -> Doc([of |-> "memory"], "performance")
      [] id = Correlation -> Doc([of |-> "other"], "performance")

\* Mutant: every pattern becomes a document.
ConfidentInAll ==
    {Recurring(n) : n \in RecurringFailures} \cup (IF MemoryTrend THEN {Increase} ELSE {})

Confident ==
    {Recurring(n) : n \in {n \in RecurringFailures : Mentions(n) >= ConfidentMentions}}
    \cup (IF ConfidentMemoryTrend THEN {Increase} ELSE {})

-----------------------------------------------------------------------------
(* The loops of the observer and the learner.                              *)

Store(o) ==
    /\ Len(observations) < MaxObservations
    /\ observations' = Append(observations, o)
    /\ UNCHANGED <<docs, opts, applying, approvals, edits, reasons, runs, unsure>>

ObserveLoad(o) == o.source \in {"cpu", "memory"} /\ Store(o)

\* The failed services, also if there are none; the errors of the journal, if any.
ObserveFailures(o) ==
    /\ o.source \in {"service", "journal"}
    /\ o.source = "journal" => \E n \in Units : o.mentions[n] > 0
    /\ Store(o)

\* The oldest is more than an hour old (it is deleted after seven days).
ObservationAges ==
    /\ observations # <<>>
    /\ observations' = Tail(observations)
    /\ UNCHANGED <<docs, opts, applying, approvals, edits, reasons, runs, unsure>>

\* Documents are replaced, also those that were edited meanwhile.
LearningCycle ==
    \E found \in {Confident} \cup (IF MayCorrelate THEN {Confident \cup {Correlation}} ELSE {}) :
        /\ found # {}
        /\ docs' = [d \in DocIds |-> IF d \in found THEN LearnedDoc(d) ELSE docs[d]]
        /\ reasons' = reasons \cup
              {Recurring(n) : n \in {n \in Units : Mentions(n) >= ConfidentMentions}}
        /\ UNCHANGED <<observations, opts, applying, approvals, edits, runs, unsure>>

-----------------------------------------------------------------------------
(* The API: documents, suggestions and approvals, under the mutex.         *)

KnowledgeCreate(d, title, category) ==
    /\ edits < MaxEdits
    /\ edits' = edits + 1
    /\ ~ Known(d)
    /\ PutDoc(d, Doc(title, category))
    /\ UNCHANGED <<observations, opts, applying, approvals, reasons, runs, unsure>>

\* Contents and tags have no effect here; the title cannot be changed.
KnowledgeUpdate(d, category) ==
    /\ edits < MaxEdits
    /\ edits' = edits + 1
    /\ Known(d)
    /\ PutDoc(d, Doc(docs[d].about, category))
    /\ UNCHANGED <<observations, opts, applying, approvals, reasons, runs, unsure>>

\* The unit is taken from the title in lower case.
SuggestedAction(doc) ==
    IF doc.about.of = "failures" THEN [do |-> "restart", unit |-> Lower[doc.about.unit]]
    ELSE IF doc.about.of = "memory" /\ doc.category = "performance" THEN [do |-> "sysctl"]
    ELSE NoDoc

\* The rows of optimizations: inserted or replaced, read, and updated.
Suggestion(doc) == [status |-> "suggested", action |-> SuggestedAction(doc)]
HasStatus(d, status) == opts[d] # NoDoc /\ opts[d].status = status
SetOptStatus(d, status) == opts' = [opts EXCEPT ![d].status = status]

\* No document is ever marked as applied: each suggestion is made again, and
\* replaces the row, whatever its status was.
Suggested ==
    LET fit == {d \in ListedDocs : SuggestedAction(docs[d]) # NoDoc}
    IN  [d \in DocIds |-> IF d \in fit THEN Suggestion(docs[d]) ELSE opts[d]]

OptimizeSuggest ==
    /\ opts' = Suggested
    /\ UNCHANGED <<observations, docs, applying, approvals, edits, reasons, runs, unsure>>

Applying(d) == {r \in ApplyRequests : applying[r] # NoDoc /\ applying[r].doc = d}

OptimizeApprove(d) ==
    /\ approvals < MaxApprovals
    /\ HasStatus(d, "suggested")
    /\ SetOptStatus(d, "approved")
    /\ approvals' = approvals + 1
    /\ runs' = [runs EXCEPT ![d] = 0]
    /\ unsure' = IF Applying(d) = {} THEN unsure \ {d} ELSE unsure
    /\ UNCHANGED <<observations, docs, applying, edits, reasons>>

-----------------------------------------------------------------------------
(* POST /optimize/apply/{id}: the status is checked under the mutex; the   *)
(* session at osmoda-watch, the action and the rollback come without it;   *)
(* the outcome is stored under it again.                                   *)

ApplyChecks(d) ==
    LET free == {r \in ApplyRequests : applying[r] = NoDoc}
        new == CHOOSE r \in free : TRUE
    IN  /\ free # {}
        /\ HasStatus(d, "approved")
        /\ applying' = [applying EXCEPT ![new] = [doc |-> d, step |-> "begin", ok |-> TRUE]]
        /\ unsure' = IF Applying(d) # {} THEN unsure \cup {d} ELSE unsure
        /\ UNCHANGED <<observations, docs, opts, approvals, edits, reasons, runs>>

ApplyAt(r, step) == applying[r] # NoDoc /\ applying[r].step = step

\* Without a session nothing is done, and the optimization counts as rolled back.
ApplyBegins(r, ok) ==
    /\ ApplyAt(r, "begin")
    /\ applying' = [applying EXCEPT ![r].step = IF ok THEN "execute" ELSE "record", ![r].ok = ok]
    /\ UNCHANGED <<observations, docs, opts, approvals, edits, reasons, runs, unsure>>

ApplyExecutes(r, ok) ==
    /\ ApplyAt(r, "execute")
    /\ applying' = [applying EXCEPT ![r].step = IF ok THEN "record" ELSE "roll back", ![r].ok = ok]
    /\ runs' = [runs EXCEPT ![applying[r].doc] = IF @ = 0 THEN 1 ELSE 2]
    /\ UNCHANGED <<observations, docs, opts, approvals, edits, reasons, unsure>>

\* The answer is not looked at.
ApplyRollsBack(r) ==
    /\ ApplyAt(r, "roll back")
    /\ applying' = [applying EXCEPT ![r].step = "record"]
    /\ UNCHANGED <<observations, docs, opts, approvals, edits, reasons, runs, unsure>>

\* Mutant: only a failure is stored.
ApplyRecordsFailure(r) ==
    LET d == applying[r].doc
    IN  /\ ApplyAt(r, "record")
        /\ opts' = IF applying[r].ok THEN opts ELSE [opts EXCEPT ![d].status = "rolled_back"]
        /\ applying' = [applying EXCEPT ![r] = NoDoc]
        /\ UNCHANGED <<observations, docs, approvals, edits, reasons, runs, unsure>>

ApplyRecords(r) ==
    LET d == applying[r].doc
    IN  /\ ApplyAt(r, "record")
        /\ SetOptStatus(d, IF applying[r].ok THEN "applied" ELSE "rolled_back")
        /\ applying' = [applying EXCEPT ![r] = NoDoc]
        /\ UNCHANGED <<observations, docs, approvals, edits, reasons, runs, unsure>>

\* The client hangs up, or the process ends: the rest is not done.
ApplyCutOff(r) ==
    /\ applying[r] # NoDoc
    /\ applying' = [applying EXCEPT ![r] = NoDoc]
    /\ unsure' = unsure \cup {applying[r].doc}
    /\ UNCHANGED <<observations, docs, opts, approvals, edits, reasons, runs>>

TeachKnowledgeInit ==
    /\ observations = <<>> /\ approvals = 0 /\ edits = 0
    /\ docs = [d \in DocIds |-> NoDoc] /\ opts = [d \in DocIds |-> NoDoc]
    /\ applying = [r \in ApplyRequests |-> NoDoc]
    /\ reasons = {} /\ runs = [d \in DocIds |-> 0] /\ unsure = {}

TeachKnowledgeNext ==
    \/ \E o \in Sightings : ObserveLoad(o) \/ ObserveFailures(o)
    \/ ObservationAges \/ LearningCycle \/ OptimizeSuggest
    \/ \E d \in Written, title \in Titles, category \in {"performance", "reliability"} :
          KnowledgeCreate(d, title, category)
    \/ \E d \in DocIds :
          \/ \E category \in {"performance", "reliability"} : KnowledgeUpdate(d, category)
          \/ OptimizeApprove(d)
          \/ ApplyChecks(d)
    \/ \E r \in ApplyRequests :
          \/ \E ok \in BOOLEAN : ApplyBegins(r, ok) \/ ApplyExecutes(r, ok)
          \/ ApplyRollsBack(r) \/ ApplyRecords(r) \/ ApplyCutOff(r)

TeachKnowledgeSpec == TeachKnowledgeInit /\ [][TeachKnowledgeNext]_teachVars

-----------------------------------------------------------------------------
(* Properties.                                                             *)

\* One approval, one run: suggestions, approvals and requests may overtake each
\* other between the check of the status and its change, but an optimization
\* runs again only after a new approval; two requests at the same time, and a
\* request that was cut off, are the exceptions.
OneRunPerApproval == \A d \in DocIds \ unsure : runs[d] <= 1

\* The documents say that "Optimizations require explicit approval flow
\* (Suggested -> Approved -> Applied)": each run would need an approval.
ApprovalPerRun == \A d \in DocIds : runs[d] <= 1

\* A restart is only ever suggested for a unit whose failures had reached the
\* threshold of confidence within one hour, or that a document written by hand
\* names, through the observations, the learner and the titles.
SuggestionHasCause ==
    \A d \in DocIds \ Written :
        (opts[d] # NoDoc /\ opts[d].action.do = "restart")
        => d \in reasons /\ \E n \in Units : d = Recurring(n) /\ opts[d].action.unit = Lower[n]

\* The documents say that teachd "automatically detects monotonic memory
\* increases": the pattern would not be found while memory use only falls.
TrendIsAnIncrease ==
    MemoryTrend => \E i, j \in DOMAIN MemoryUse : i < j /\ MemoryUse[i] > MemoryUse[j]
=============================================================================
