-------------------------- MODULE RoutinesMcpd_proofs --------------------------
(***************************************************************************)
(* Proofs about osmoda-routines and osmoda-mcpd, two daemons that keep a   *)
(* list and remove entries from it: what stays of such a list, and the     *)
(* inductive invariants of Routines and of Mcpd.                           *)
(***************************************************************************)
EXTENDS Routines, Mcpd, FiniteSetTheorems, TLAPS

-----------------------------------------------------------------------------
(***************************************************************************)
(* Lists of which some entries are kept.                                   *)
(***************************************************************************)

\* The interval of positions of a list.
LEMMA Interval ==
  ASSUME NEW n \in Nat
  PROVE  IsFiniteSet(1 .. n) /\ Cardinality(1 .. n) = n
<1>1. 1 \in Int /\ n \in Int
  OBVIOUS
<1>2. IsFiniteSet(1 .. n) /\ Cardinality(1 .. n) = IF 1 > n THEN 0 ELSE n - 1 + 1
  BY <1>1, FS_Interval, Zenon
<1> QED
  BY <1>2

\* The n-th entry that is kept exists, and the order stays as it was.
LEMMA KeptPositions ==
  ASSUME NEW m \in Nat, NEW at \in SUBSET (1 .. m)
  PROVE  /\ Cardinality(at) \in Nat
         /\ \A n \in 1 .. Cardinality(at) : KeptAt(at, n) \in at
         /\ \A i, j \in 1 .. Cardinality(at) : i < j => KeptAt(at, i) < KeptAt(at, j)
         /\ \A k \in at : \E n \in 1 .. Cardinality(at) : KeptAt(at, n) = k
         /\ \A n \in 1 .. Cardinality(at) : Cardinality({j \in at : j <= KeptAt(at, n)}) = n
<1> DEFINE c == Cardinality(at)
           below(k) == {j \in at : j <= k}
           rank == [k \in at |-> Cardinality(below(k))]
<1>1. IsFiniteSet(at) /\ c \in Nat
  BY Interval, FS_Subset, FS_CardinalityType
<1>2. \A k \in at : k \in Nat
  OBVIOUS
<1> HIDE DEF c
<1>3. \A k \in at : IsFiniteSet(below(k)) /\ rank[k] \in 1 .. c
  <2> SUFFICES ASSUME NEW k \in at PROVE IsFiniteSet(below(k)) /\ rank[k] \in 1 .. c
    OBVIOUS
  <2>1. below(k) \in SUBSET at
    OBVIOUS
  <2>2. IsFiniteSet(below(k)) /\ Cardinality(below(k)) <= c
    BY <1>1, <2>1, FS_Subset DEF c
  <2>3. Cardinality(below(k)) \in Nat
    BY <2>2, FS_CardinalityType
  <2>4. k \in below(k)
    BY <1>2
  <2>5. Cardinality(below(k)) # 0
    BY <2>2, <2>4, FS_EmptySet
  <2> QED
    BY <1>1, <2>2, <2>3, <2>5
<1>4. \A j, k \in at : j < k => rank[j] < rank[k]
  <2> SUFFICES ASSUME NEW j \in at, NEW k \in at, j < k PROVE rank[j] < rank[k]
    OBVIOUS
  <2>0. j \in Nat /\ k \in Nat
    BY <1>2
  <2>1. below(j) \in SUBSET below(k) /\ k \in below(k) /\ k \notin below(j)
    <3>1. \A x \in at : x <= j => x <= k
      BY <1>2, <2>0
    <3>2. j <= k /\ ~ (k <= j) /\ k <= k
      BY <2>0
    <3> QED
      BY <3>1, <3>2, Zenon
  <2>2. Cardinality(below(j)) <= Cardinality(below(k))
        /\ Cardinality(below(j)) # Cardinality(below(k))
    <3>1. Cardinality(below(j)) <= Cardinality(below(k))
      BY <1>3, <2>1, FS_Subset
    <3>2. Cardinality(below(k)) = Cardinality(below(j)) => below(k) = below(j)
      BY <1>3, <2>1, FS_Subset
    <3> QED
      BY <2>1, <3>1, <3>2
  <2>3. rank[j] \in Nat /\ rank[k] \in Nat
    BY <1>3
  <2> QED
    BY <2>2, <2>3
<1>5. \A n \in 1 .. c : \E k \in at : rank[k] = n
  <2>1. rank \in [at -> 1 .. c]
    BY <1>3
  <2>2. \A j, k \in at : rank[j] = rank[k] => j = k
    BY <1>2, <1>3, <1>4
  <2>3. rank \in Injection(at, 1 .. c)
    BY <2>1, <2>2 DEF Injection, IsInjective
  <2>4. IsFiniteSet(1 .. c) /\ Cardinality(1 .. c) = c
    BY <1>1, Interval
  <2> HIDE DEF rank
  <2>5. rank \in Surjection(at, 1 .. c)
    BY <1>1, <2>3, <2>4, FS_Injection DEF c
  <2> QED
    BY <2>5 DEF Surjection
<1>6. \A n \in 1 .. c : KeptAt(at, n) \in at /\ rank[KeptAt(at, n)] = n
  BY <1>5 DEF KeptAt
<1>7. \A i, j \in 1 .. c : i < j => KeptAt(at, i) < KeptAt(at, j)
  <2> SUFFICES ASSUME NEW i \in 1 .. c, NEW j \in 1 .. c, i < j
               PROVE  KeptAt(at, i) < KeptAt(at, j)
    OBVIOUS
  <2> HIDE DEF rank
  <2>1. /\ KeptAt(at, i) \in at /\ rank[KeptAt(at, i)] = i
        /\ KeptAt(at, j) \in at /\ rank[KeptAt(at, j)] = j
    BY <1>6
  <2>2. i \in Nat /\ j \in Nat /\ KeptAt(at, i) \in Nat /\ KeptAt(at, j) \in Nat
    <3>1. i \in Nat /\ j \in Nat
      BY <1>1
    <3> QED
      BY <1>2, <2>1, <3>1, Zenon
  <2>3. CASE KeptAt(at, j) < KeptAt(at, i)
    BY <1>4, <2>1, <2>2, <2>3
  <2>4. CASE KeptAt(at, j) = KeptAt(at, i)
    BY <2>1, <2>2, <2>4
  <2> QED
    BY <2>2, <2>3, <2>4
<1>8. \A k \in at : KeptAt(at, rank[k]) = k
  <2> SUFFICES ASSUME NEW k \in at PROVE KeptAt(at, rank[k]) = k
    OBVIOUS
  <2> HIDE DEF rank
  <2>1. rank[k] \in 1 .. c
    BY <1>3
  <2>2. KeptAt(at, rank[k]) \in at /\ rank[KeptAt(at, rank[k])] = rank[k]
    BY <1>6, <2>1
  <2>3. ASSUME NEW j \in at, rank[j] = rank[k] PROVE j = k
    <3>1. j \in Nat /\ k \in Nat /\ rank[j] \in Nat /\ rank[k] \in Nat
      <4>1. \A l \in 1 .. c : l \in Nat
        BY <1>1
      <4> QED
        BY <1>2, <1>3, <4>1, Zenon
    <3> QED
      BY <1>4, <2>3, <3>1
  <2> QED
    BY <2>2, <2>3
<1>9. \A n \in 1 .. c : Cardinality({j \in at : j <= KeptAt(at, n)}) = n
  BY <1>6
<1> HIDE DEF rank
<1> QED
  BY <1>1, <1>3, <1>6, <1>7, <1>8, <1>9 DEF c

\* A list from which one entry was taken: those before it stay where they are.
LEMMA OneGone ==
  ASSUME NEW m \in Nat, NEW p \in 1 .. m,
         NEW n \in 1 .. Cardinality((1 .. m) \ {p}), KeptAt((1 .. m) \ {p}, n) < p
  PROVE  KeptAt((1 .. m) \ {p}, n) = n
<1> DEFINE at == (1 .. m) \ {p}
           k == KeptAt(at, n)
<1>1. at \in SUBSET (1 .. m)
  OBVIOUS
<1> HIDE DEF at
<1>2. k \in at /\ Cardinality({j \in at : j <= k}) = n
  BY <1>1, KeptPositions DEF at
<1>3. k \in 1 .. m /\ k < p
  BY <1>1, <1>2 DEF at
<1>4. {j \in at : j <= k} = 1 .. k
  BY <1>3 DEF at
<1>5. Cardinality(1 .. k) = k
  BY <1>3, Interval
<1> QED
  BY <1>2, <1>4, <1>5 DEF at

\* A function on the first natural numbers is a list.
LEMMA ListOf ==
  ASSUME NEW S, NEW n \in Nat, NEW f \in [1 .. n -> S]
  PROVE  f \in Seq(S) /\ Len(f) = n /\ DOMAIN f = 1 .. n
<1>1. f = [i \in 1 .. n |-> f[i]] /\ \A i \in 1 .. n : f[i] \in S
  OBVIOUS
<1>2. [i \in 1 .. n |-> f[i]] \in Seq(S) /\ Len([i \in 1 .. n |-> f[i]]) = n
  BY <1>1
<1> QED
  BY <1>1, <1>2

\* A list of which one entry changes.
LEMMA OneEntry ==
  ASSUME NEW S, NEW list \in Seq(S), NEW i \in DOMAIN list, NEW v \in S
  PROVE  LET new == [list EXCEPT ![i] = v]
         IN  /\ new \in Seq(S) /\ DOMAIN new = DOMAIN list
             /\ new[i] = v
             /\ \A j \in DOMAIN list \ {i} : new[j] = list[j]
<1> DEFINE new == [list EXCEPT ![i] = v]
<1>1. Len(list) \in Nat /\ DOMAIN list = 1 .. Len(list) /\ \A j \in DOMAIN list : list[j] \in S
  OBVIOUS
<1>2. /\ DOMAIN new = 1 .. Len(list) /\ new[i] = v
      /\ \A j \in DOMAIN list \ {i} : new[j] = list[j]
  BY <1>1
<1>3. new \in [1 .. Len(list) -> S]
  BY <1>1, <1>2
<1> HIDE DEF new
<1>4. new \in Seq(S)
  BY <1>1, <1>3, ListOf
<1> QED
  BY <1>1, <1>2, <1>4 DEF new

\* What is kept of a list: its length, its entries, their order, and each of them.
LEMMA RetainedList ==
  ASSUME NEW S, NEW list \in Seq(S), NEW at \in SUBSET DOMAIN list
  PROVE  LET kept == Retained(list, at)
         IN  /\ kept \in Seq(S)
             /\ Len(kept) = Cardinality(at) /\ Cardinality(at) \in Nat
             /\ DOMAIN kept = 1 .. Cardinality(at)
             /\ \A n \in DOMAIN kept : KeptAt(at, n) \in at /\ kept[n] = list[KeptAt(at, n)]
             /\ \A i, j \in DOMAIN kept : i < j => KeptAt(at, i) < KeptAt(at, j)
             /\ \A k \in at : \E n \in DOMAIN kept : KeptAt(at, n) = k
<1> DEFINE kept == Retained(list, at)
           c == Cardinality(at)
<1>1. Len(list) \in Nat /\ DOMAIN list = 1 .. Len(list) /\ \A k \in DOMAIN list : list[k] \in S
  OBVIOUS
<1>2. /\ c \in Nat
      /\ \A n \in 1 .. c : KeptAt(at, n) \in at
      /\ \A i, j \in 1 .. c : i < j => KeptAt(at, i) < KeptAt(at, j)
      /\ \A k \in at : \E n \in 1 .. c : KeptAt(at, n) = k
  BY <1>1, KeptPositions
<1> HIDE DEF c
<1>3. kept = [n \in 1 .. c |-> list[KeptAt(at, n)]]
  BY DEF Retained, c
<1> HIDE DEF kept
<1>4. DOMAIN kept = 1 .. c /\ \A n \in 1 .. c : kept[n] = list[KeptAt(at, n)] /\ kept[n] \in S
  BY <1>1, <1>2, <1>3
<1>5. kept \in Seq(S) /\ Len(kept) = c
  BY <1>2, <1>3, <1>4
<1> QED
  BY <1>2, <1>4, <1>5 DEF kept, c

-----------------------------------------------------------------------------
(***************************************************************************)
(* osmoda-routines: the inductive invariant.                               *)
(***************************************************************************)

IdsOf(list) == {list[i].id : i \in DOMAIN list}
IdsOnce(list) == \A i, j \in DOMAIN list : list[i].id = list[j].id => i = j

\* A list that the daemon may hold, or load: every id once, and no id that the
\* daemon has not given out.
GoodList(list) ==
  list \in Seq(RoutineRecords) /\ IdsOnce(list) /\ IdsOf(list) \subseteq usedIds

RoutineTypes ==
  /\ GoodList(routines)
  /\ routinesFile \notin {Never, Unreadable} => GoodList(routinesFile)
  /\ wall \in Int
  /\ batch \subseteq [at : Nat, id : usedIds, now : Int]
  /\ ran \in [Ids -> Nat] /\ chosen \in [Ids -> Int \cup {Never}]
  /\ ranSince \in [Ids -> Nat]
  /\ shifted \in BOOLEAN
  /\ usedIds \subseteq Ids /\ removedIds \subseteq usedIds
  /\ IdsOf(Defaults) \subseteq usedIds
  /\ \A id \in Ids \ usedIds : ran[id] = 0 /\ chosen[id] = Never
  /\ ~ routinesUp => batch = {} /\ routines = <<>> /\ \A id \in Ids : chosen[id] = Never

\* A position that the scheduler remembers is that of the routine it chose,
\* but for the ids that a removal has disturbed.
Placed ==
  /\ \A r, s \in batch : r.id = s.id => r = s
  /\ ~ shifted => \A run \in batch : run.at \in DOMAIN routines
  /\ \A run \in batch : \A j \in DOMAIN routines :
       /\ routines[j].id = run.id => j = run.at \/ run.id \in disturbed
       /\ j = run.at => routines[j].id = run.id \/ routines[j].id \in disturbed

\* What was removed is in no list, and in the batch at most once more.
RemovedGone ==
  /\ removedIds # {} => routinesFile \notin {Never, Unreadable}
                         /\ IdsOf(routinesFile) \cap removedIds = {}
  /\ \A id \in removedIds :
       /\ id \notin Listed
       /\ ranSince[id] <= 1
       /\ ranSince[id] = 1 => \A run \in batch : run.id # id

\* The last tick that chose a routine is still to be credited, or was: nothing
\* that is credited later carries an earlier time.
Credited ==
  /\ \A run \in batch : chosen[run.id] # Never => run.now = chosen[run.id]
  /\ \A i \in DOMAIN routines :
       LET r == routines[i]
       IN  (r.id \notin disturbed /\ chosen[r.id] # Never) =>
             /\ chosen[r.id] <= wall
             /\ \/ \E run \in batch : run.id = r.id
                \/ r.last # Never /\ chosen[r.id] <= r.last /\ r.last <= wall

RoutineInv == RoutineTypes /\ RunsCounted /\ Placed /\ RemovedGone /\ Credited

-----------------------------------------------------------------------------
(* Lists of routines.                                                      *)

\* A list without one of its routines: those before it have not moved.
LEMMA OneTaken ==
  ASSUME NEW list \in Seq(RoutineRecords), IdsOnce(list), NEW p \in DOMAIN list
  PROVE  LET new == Without(list, list[p].id)
         IN  /\ new \in Seq(RoutineRecords) /\ IdsOnce(new)
             /\ IdsOf(new) \subseteq IdsOf(list) \ {list[p].id}
             /\ \A n \in DOMAIN new : \E k \in DOMAIN list :
                  /\ k # p /\ new[n] = list[k]
                  /\ k < p => k = n
<1> DEFINE at == {i \in DOMAIN list : list[i].id # list[p].id}
           new == Without(list, list[p].id)
           m == Len(list)
<1>1. m \in Nat /\ DOMAIN list = 1 .. m
  OBVIOUS
<1>2. at = (1 .. m) \ {p}
  BY <1>1 DEF IdsOnce
<1>s. at \in SUBSET DOMAIN list
  OBVIOUS
<1>3. new = Retained(list, at)
  BY DEF Without
<1>4. \A k \in at : list[k].id # list[p].id
  OBVIOUS
<1> HIDE DEF at, new
<1>5. /\ new \in Seq(RoutineRecords) /\ DOMAIN new = 1 .. Cardinality(at) /\ Cardinality(at) \in Nat
      /\ \A n \in DOMAIN new : KeptAt(at, n) \in at /\ new[n] = list[KeptAt(at, n)]
      /\ \A i, j \in DOMAIN new : i < j => KeptAt(at, i) < KeptAt(at, j)
  BY <1>s, <1>3, RetainedList
<1> HIDE DEF m
<1>6. \A n \in DOMAIN new : KeptAt(at, n) < p => KeptAt(at, n) = n
  <2> SUFFICES ASSUME NEW n \in 1 .. Cardinality(at), KeptAt(at, n) < p
               PROVE  KeptAt(at, n) = n
    BY <1>5
  <2>1. p \in 1 .. m
    BY <1>1
  <2> QED
    BY <1>1, <1>2, <2>1, OneGone
<1>7. \A n \in DOMAIN new : /\ KeptAt(at, n) \in DOMAIN list /\ KeptAt(at, n) # p
                           /\ list[KeptAt(at, n)].id # list[p].id
  BY <1>1, <1>2, <1>4, <1>5
<1>8. IdsOnce(new)
  <2> SUFFICES ASSUME NEW i \in DOMAIN new, NEW j \in DOMAIN new, new[i].id = new[j].id
               PROVE  i = j
    BY DEF IdsOnce
  <2>1. KeptAt(at, i) = KeptAt(at, j)
    BY <1>5, <1>7 DEF IdsOnce
  <2>2. KeptAt(at, i) \in Nat /\ i \in Nat /\ j \in Nat
    BY <1>1, <1>5, <1>7
  <2>3. ~ (i < j) /\ ~ (j < i)
    BY <1>5, <2>1, <2>2
  <2> QED
    BY <2>2, <2>3
<1>9. IdsOf(new) \subseteq IdsOf(list) \ {list[p].id}
  BY <1>5, <1>7 DEF IdsOf
<1> QED
  BY <1>5, <1>6, <1>7, <1>8, <1>9 DEF new

\* A list with one more routine, of a new id.
LEMMA OneAdded ==
  ASSUME NEW list \in Seq(RoutineRecords), IdsOnce(list),
         NEW r \in RoutineRecords, r.id \notin IdsOf(list)
  PROVE  LET new == Append(list, r)
         IN  /\ new \in Seq(RoutineRecords) /\ IdsOnce(new)
             /\ IdsOf(new) \subseteq IdsOf(list) \cup {r.id}
             /\ Len(list) \in Nat /\ DOMAIN list = 1 .. Len(list)
             /\ DOMAIN new = 1 .. Len(list) + 1
             /\ \A i \in DOMAIN list : i \in DOMAIN new /\ new[i] = list[i]
             /\ new[Len(list) + 1] = r
             /\ \A i \in DOMAIN new : i \in DOMAIN list \/ i = Len(list) + 1
<1> DEFINE new == Append(list, r)
<1>1. Len(list) \in Nat /\ DOMAIN list = 1 .. Len(list)
  OBVIOUS
<1>2. /\ new \in Seq(RoutineRecords) /\ DOMAIN new = 1 .. Len(list) + 1
      /\ \A i \in DOMAIN list : new[i] = list[i]
      /\ new[Len(list) + 1] = r
  OBVIOUS
<1> HIDE DEF new
<1>3. \A i \in DOMAIN new : i \in DOMAIN list \/ i = Len(list) + 1
  BY <1>1, <1>2
<1>4. \A i \in DOMAIN list : i \in DOMAIN new
  BY <1>1, <1>2
<1>5. IdsOnce(new) /\ IdsOf(new) \subseteq IdsOf(list) \cup {r.id}
  BY <1>2, <1>3 DEF IdsOnce, IdsOf
<1> QED
  BY <1>1, <1>2, <1>3, <1>4, <1>5 DEF new

-----------------------------------------------------------------------------
(* The handlers.                                                           *)

LEMMA AddKeeps ==
  ASSUME RoutineInv, NEW id \in Ids, NEW t \in Triggers, NEW on \in BOOLEAN, NEW a \in Actions,
         RoutineAdd(id, t, on, a)
  PROVE  RoutineInv'
<1> DEFINE r == NewRoutine(id, t, on)
           n == Len(routines) + 1
<1>0. routines \in Seq(RoutineRecords) /\ IdsOnce(routines) /\ IdsOf(routines) \subseteq usedIds
  BY DEF RoutineInv, RoutineTypes, GoodList
<1>1. /\ r \in RoutineRecords /\ r.id = id /\ r.last = Never /\ r.runs = 0
  BY DEF NewRoutine, RoutineRecords, KnownTriggers
<1>2. /\ routinesUp /\ id \notin usedIds /\ usedIds' = usedIds \cup {id}
      /\ routines' = Append(routines, r)
      /\ \/ routinesFile' = routines'
         \/ routinesFile' \in {routinesFile, Unreadable}
      /\ removedIds' = IF routinesFile' = routines' THEN removedIds ELSE {}
      /\ disturbed' = IF shifted THEN disturbed \cup {id} ELSE disturbed
      /\ UNCHANGED <<routinesUp, wall, passed, ticks, batch, ran, chosen, shifted, ranSince>>
  BY DEF RoutineAdd, SaveRoutines, Saved
<1> HIDE DEF r
<1>3. /\ routines' \in Seq(RoutineRecords) /\ IdsOnce(routines')
      /\ IdsOf(routines') \subseteq IdsOf(routines) \cup {id}
      /\ Len(routines) \in Nat /\ DOMAIN routines = 1 .. Len(routines)
      /\ DOMAIN routines' = 1 .. n
      /\ \A i \in DOMAIN routines : i \in DOMAIN routines' /\ routines'[i] = routines[i]
      /\ routines'[n] = r
      /\ \A i \in DOMAIN routines' : i \in DOMAIN routines \/ i = n
  BY <1>0, <1>1, <1>2, OneAdded
<1>n. n \notin DOMAIN routines
  BY <1>3
<1> HIDE DEF n
<1>4. RoutineTypes'
  <2>1. GoodList(routines)'
    BY <1>0, <1>2, <1>3 DEF GoodList, IdsOf
  <2>2. (routinesFile \notin {Never, Unreadable} => GoodList(routinesFile))'
    BY <1>2, <2>1 DEF RoutineInv, RoutineTypes, GoodList
  <2>3. (/\ batch \subseteq [at : Nat, id : usedIds, now : Int]
         /\ usedIds \subseteq Ids /\ removedIds \subseteq usedIds
         /\ IdsOf(Defaults) \subseteq usedIds)'
    BY <1>2 DEF RoutineInv, RoutineTypes
  <2> QED
    BY <1>2, <2>1, <2>2, <2>3 DEF RoutineInv, RoutineTypes
<1>5. RunsCounted'
  <2> SUFFICES ASSUME NEW i \in DOMAIN routines', routines'[i].id \notin disturbed'
               PROVE  routines'[i].runs = ran'[routines'[i].id]
    BY DEF RunsCounted
  <2>1. CASE i \in DOMAIN routines
    BY <1>2, <1>3, <2>1 DEF RoutineInv, RunsCounted
  <2>2. CASE i = n
    BY <1>1, <1>2, <1>3, <2>2 DEF RoutineInv, RoutineTypes
  <2> QED
    BY <1>3, <2>1, <2>2
<1>6. Placed'
  <2>1. \A run \in batch : run.id \in usedIds
    BY DEF RoutineInv, RoutineTypes
  <2>2. ASSUME NEW run \in batch, NEW j \in DOMAIN routines'
        PROVE  /\ routines'[j].id = run.id => j = run.at \/ run.id \in disturbed'
               /\ j = run.at => routines'[j].id = run.id \/ routines'[j].id \in disturbed'
    <3>1. CASE j \in DOMAIN routines
      BY <1>2, <1>3, <2>2, <3>1 DEF RoutineInv, Placed
    <3>2. CASE j = n
      <4>1. routines'[j].id # run.id
        BY <1>1, <1>2, <1>3, <2>1, <3>2
      <4>2. j = run.at => shifted
        BY <1>n, <3>2 DEF RoutineInv, RoutineTypes, Placed
      <4> QED
        BY <1>1, <1>2, <1>3, <3>2, <4>1, <4>2
    <3> QED
      BY <1>3, <3>1, <3>2
  <2> QED
    BY <1>2, <1>3, <2>2 DEF RoutineInv, Placed
<1>7. RemovedGone'
  <2>1. removedIds' # {} => removedIds' = removedIds /\ routinesFile' = routines'
    BY <1>2
  <2>2. id \notin removedIds
    BY <1>2 DEF RoutineInv, RoutineTypes
  <2>3. IdsOf(routines) = Listed /\ IdsOf(routines') = Listed'
    BY DEF IdsOf, Listed
  <2>4. removedIds \cap IdsOf(routines) = {}
    BY <2>3 DEF RoutineInv, RemovedGone
  <2>5. removedIds \cap IdsOf(routines') = {}
    BY <1>3, <2>2, <2>4
  <2>6. routines' \notin {Never, Unreadable}
    BY <1>3, RoutinesAssumption
  <2>7. \A other \in removedIds' :
            /\ other \notin Listed'
            /\ ranSince'[other] <= 1
            /\ ranSince'[other] = 1 => \A run \in batch' : run.id # other
    BY <1>2, <2>1, <2>3, <2>5 DEF RoutineInv, RemovedGone
  <2> QED
    BY <2>1, <2>5, <2>6, <2>7 DEF RemovedGone, IdsOf
<1>8. Credited'
  <2>1. ASSUME NEW i \in DOMAIN routines', routines'[i].id \notin disturbed',
               chosen'[routines'[i].id] # Never
        PROVE  /\ chosen'[routines'[i].id] <= wall'
               /\ \/ \E run \in batch' : run.id = routines'[i].id
                  \/ /\ routines'[i].last # Never /\ chosen'[routines'[i].id] <= routines'[i].last
                     /\ routines'[i].last <= wall'
    <3>1. CASE i \in DOMAIN routines
      BY <1>2, <1>3, <2>1, <3>1 DEF RoutineInv, Credited
    <3>2. CASE i = n
      BY <1>1, <1>2, <1>3, <2>1, <3>2 DEF RoutineInv, RoutineTypes
    <3> QED
      BY <1>3, <3>1, <3>2
  <2>2. \A run \in batch' : chosen'[run.id] # Never => run.now = chosen'[run.id]
    BY <1>2 DEF RoutineInv, Credited
  <2> QED
    BY <2>1, <2>2 DEF Credited
<1> QED
  BY <1>4, <1>5, <1>6, <1>7, <1>8 DEF RoutineInv

LEMMA RemoveKeeps ==
  ASSUME RoutineInv, NEW id \in Ids, RoutineRemove(id)
  PROVE  RoutineInv'
<1>0. routines \in Seq(RoutineRecords) /\ IdsOnce(routines) /\ IdsOf(routines) \subseteq usedIds
  BY DEF RoutineInv, RoutineTypes, GoodList
<1>1. /\ routinesUp /\ id \in Listed
      /\ routines' = Without(routines, id)
      /\ \/ routinesFile' = routines'
         \/ routinesFile' \in {routinesFile, Unreadable}
      /\ removedIds' = IF routinesFile' = routines' THEN removedIds \cup {id} ELSE {}
      /\ ran' = [ran EXCEPT ![id] = 0] /\ chosen' = [chosen EXCEPT ![id] = Never]
      /\ ranSince' = [ranSince EXCEPT ![id] = 0]
      /\ shifted' = (shifted \/ batch # {})
      /\ disturbed' =
            IF batch = {} THEN disturbed
            ELSE disturbed \cup {routines[j].id :
                    j \in {j \in DOMAIN routines : \E i \in 1 .. j - 1 : routines[i].id = id}}
      /\ UNCHANGED <<routinesUp, wall, passed, ticks, batch, usedIds>>
  BY DEF RoutineRemove, SaveRoutines, Saved
<1>2. PICK p \in DOMAIN routines : routines[p].id = id
  BY <1>1 DEF Listed
<1>3. /\ routines' \in Seq(RoutineRecords) /\ IdsOnce(routines')
      /\ IdsOf(routines') \subseteq IdsOf(routines) \ {id}
      /\ \A n \in DOMAIN routines' : \E k \in DOMAIN routines :
           /\ k # p /\ routines'[n] = routines[k]
           /\ k < p => k = n
  <2>1. routines' = Without(routines, routines[p].id)
    BY <1>1, <1>2
  <2>2. /\ routines' \in Seq(RoutineRecords) /\ IdsOnce(routines')
        /\ IdsOf(routines') \subseteq IdsOf(routines) \ {routines[p].id}
        /\ \A n \in DOMAIN routines' : \E k \in DOMAIN routines :
             /\ k # p /\ routines'[n] = routines[k]
             /\ k < p => k = n
    <3>1. /\ Without(routines, routines[p].id) \in Seq(RoutineRecords)
          /\ IdsOnce(Without(routines, routines[p].id))
          /\ IdsOf(Without(routines, routines[p].id)) \subseteq IdsOf(routines) \ {routines[p].id}
          /\ \A n \in DOMAIN Without(routines, routines[p].id) : \E k \in DOMAIN routines :
               /\ k # p /\ Without(routines, routines[p].id)[n] = routines[k]
               /\ k < p => k = n
      BY <1>0, OneTaken
    <3> QED
      BY <2>1, <3>1
  <2> QED
    BY <1>2, <2>2
<1>4. \A k \in DOMAIN routines : k > p /\ batch # {} => routines[k].id \in disturbed'
  <2> SUFFICES ASSUME NEW k \in DOMAIN routines, k > p, batch # {}
               PROVE  routines[k].id \in disturbed'
    OBVIOUS
  <2>1. p \in 1 .. k - 1
    BY <1>0
  <2> QED
    BY <1>1, <1>2, <2>1
<1>5. \A k \in DOMAIN routines : k \in Nat /\ p \in Nat
  BY <1>0
<1>6. /\ ran' \in [Ids -> Nat] /\ chosen' \in [Ids -> Int \cup {Never}] /\ ranSince' \in [Ids -> Nat]
      /\ ran'[id] = 0 /\ chosen'[id] = Never /\ ranSince'[id] = 0
      /\ \A other \in Ids \ {id} : /\ ran'[other] = ran[other] /\ chosen'[other] = chosen[other]
                                   /\ ranSince'[other] = ranSince[other]
  BY <1>1 DEF RoutineInv, RoutineTypes
<1>7. disturbed \subseteq disturbed'
  BY <1>1
<1>8. /\ id \in usedIds /\ routines # <<>>
      /\ \A run \in batch : run.id \in Ids
      /\ \A i \in DOMAIN routines : routines[i].id \in Ids
      /\ \A i \in DOMAIN routines' : routines'[i].id \in Ids \ {id}
  <2>1. \A i \in DOMAIN routines : routines[i].id \in usedIds
    BY <1>0 DEF IdsOf
  <2>2. \A i \in DOMAIN routines' : routines'[i].id \in usedIds \ {id}
    BY <1>0, <1>3 DEF IdsOf
  <2> QED
    BY <1>2, <2>1, <2>2 DEF RoutineInv, RoutineTypes
<1>9. RoutineTypes'
  <2>1. GoodList(routines)'
    BY <1>0, <1>1, <1>3 DEF GoodList
  <2>2. (routinesFile \notin {Never, Unreadable} => GoodList(routinesFile))'
    BY <1>1, <2>1 DEF RoutineInv, RoutineTypes, GoodList
  <2>3. (/\ batch \subseteq [at : Nat, id : usedIds, now : Int]
         /\ usedIds \subseteq Ids /\ removedIds \subseteq usedIds
         /\ shifted \in BOOLEAN
         /\ IdsOf(Defaults) \subseteq usedIds)'
    BY <1>1, <1>8 DEF RoutineInv, RoutineTypes
  <2>4. (\A other \in Ids \ usedIds : ran[other] = 0 /\ chosen[other] = Never)'
    BY <1>1, <1>6, <1>8 DEF RoutineInv, RoutineTypes
  <2> QED
    BY <1>1, <1>6, <2>1, <2>2, <2>3, <2>4 DEF RoutineInv, RoutineTypes
<1>10. RunsCounted'
  <2> SUFFICES ASSUME NEW i \in DOMAIN routines', routines'[i].id \notin disturbed'
               PROVE  routines'[i].runs = ran'[routines'[i].id]
    BY DEF RunsCounted
  <2>1. PICK k \in DOMAIN routines : routines'[i] = routines[k]
    BY <1>3
  <2> QED
    BY <1>6, <1>7, <1>8, <2>1 DEF RoutineInv, RunsCounted
<1>11. Placed'
  <2>1. ASSUME NEW run \in batch, NEW j \in DOMAIN routines'
        PROVE  /\ routines'[j].id = run.id => j = run.at \/ run.id \in disturbed'
               /\ j = run.at => routines'[j].id = run.id \/ routines'[j].id \in disturbed'
    <3>1. PICK k \in DOMAIN routines : k # p /\ routines'[j] = routines[k] /\ (k < p => k = j)
      BY <1>3, <2>1
    <3>2. CASE k < p
      BY <1>7, <2>1, <3>1, <3>2 DEF RoutineInv, Placed
    <3>3. CASE k > p
      BY <1>4, <2>1, <3>1, <3>3
    <3> QED
      BY <1>5, <3>1, <3>2, <3>3
  <2>2. shifted' \/ batch' = {}
    BY <1>1
  <2> QED
    BY <1>1, <2>1, <2>2 DEF RoutineInv, Placed
<1>12. RemovedGone'
  <2>1. removedIds' # {} => removedIds' = removedIds \cup {id} /\ routinesFile' = routines'
    BY <1>1
  <2>2. IdsOf(routines) = Listed /\ IdsOf(routines') = Listed'
    BY DEF IdsOf, Listed
  <2>3. removedIds \cap IdsOf(routines) = {}
    BY <2>2 DEF RoutineInv, RemovedGone
  <2>4. (removedIds \cup {id}) \cap IdsOf(routines') = {}
    BY <1>3, <2>3
  <2>5. routines' \notin {Never, Unreadable}
    BY <1>3, RoutinesAssumption
  <2>6. ASSUME NEW other \in removedIds'
        PROVE  /\ other \notin Listed'
               /\ ranSince'[other] <= 1
               /\ ranSince'[other] = 1 => \A run \in batch' : run.id # other
    <3>1. other \notin Listed' /\ other \in removedIds \cup {id}
      BY <2>1, <2>2, <2>4, <2>6
    <3>2. other \in Ids
      BY <1>8, <3>1 DEF RoutineInv, RoutineTypes
    <3>3. CASE other = id
      BY <1>6, <3>1, <3>3
    <3>4. CASE other # id
      BY <1>1, <1>6, <3>1, <3>2, <3>4 DEF RoutineInv, RemovedGone
    <3> QED
      BY <3>3, <3>4
  <2> QED
    BY <2>1, <2>4, <2>5, <2>6 DEF RemovedGone, IdsOf
<1>13. Credited'
  <2>1. ASSUME NEW i \in DOMAIN routines', routines'[i].id \notin disturbed',
               chosen'[routines'[i].id] # Never
        PROVE  /\ chosen'[routines'[i].id] <= wall'
               /\ \/ \E run \in batch' : run.id = routines'[i].id
                  \/ /\ routines'[i].last # Never /\ chosen'[routines'[i].id] <= routines'[i].last
                     /\ routines'[i].last <= wall'
    <3>1. PICK k \in DOMAIN routines : routines'[i] = routines[k]
      BY <1>3
    <3>2. chosen'[routines'[i].id] = chosen[routines[k].id] /\ routines[k].id \notin disturbed
      BY <1>6, <1>7, <1>8, <2>1, <3>1
    <3> QED
      BY <1>1, <2>1, <3>1, <3>2 DEF RoutineInv, Credited
  <2>2. \A run \in batch' : chosen'[run.id] # Never => run.now = chosen'[run.id]
    BY <1>1, <1>6, <1>8 DEF RoutineInv, Credited
  <2> QED
    BY <2>1, <2>2 DEF Credited
<1> QED
  BY <1>9, <1>10, <1>11, <1>12, <1>13 DEF RoutineInv

LEMMA TriggerKeeps ==
  ASSUME RoutineInv, NEW id \in Ids, RoutineTrigger(id)
  PROVE  RoutineInv'
<1>0. /\ routines \in Seq(RoutineRecords) /\ IdsOnce(routines) /\ IdsOf(routines) \subseteq usedIds
      /\ Len(routines) \in Nat /\ DOMAIN routines = 1 .. Len(routines)
      /\ \A i \in DOMAIN routines : routines[i] \in RoutineRecords
  BY DEF RoutineInv, RoutineTypes, GoodList
<1>f. routines' = [i \in DOMAIN routines |->
                      IF routines[i].id # id THEN routines[i]
                      ELSE [routines[i] EXCEPT !.last = wall, !.runs = routines[i].runs + 1]]
  BY DEF RoutineTrigger
<1>1. /\ routinesUp /\ id \in Listed
      /\ ran' = [ran EXCEPT ![id] = ran[id] + 1]
      /\ UNCHANGED <<routinesUp, routinesFile, wall, passed, ticks, batch,
                     chosen, disturbed, shifted, usedIds, removedIds, ranSince>>
  BY DEF RoutineTrigger
<1>2. wall \in Int /\ ran \in [Ids -> Nat]
  BY DEF RoutineInv, RoutineTypes
<1>3. DOMAIN routines' = DOMAIN routines
  BY <1>f
<1>4. \A i \in DOMAIN routines :
        /\ routines'[i] \in RoutineRecords /\ routines'[i].id = routines[i].id
        /\ routines[i].id # id => routines'[i] = routines[i]
        /\ routines[i].id = id => routines'[i].last = wall /\ routines'[i].runs = routines[i].runs + 1
  <2> SUFFICES ASSUME NEW i \in DOMAIN routines
               PROVE  /\ routines'[i] \in RoutineRecords /\ routines'[i].id = routines[i].id
                      /\ routines[i].id # id => routines'[i] = routines[i]
                      /\ routines[i].id = id => /\ routines'[i].last = wall
                                                /\ routines'[i].runs = routines[i].runs + 1
    OBVIOUS
  <2>1. routines'[i] = IF routines[i].id # id THEN routines[i]
                       ELSE [routines[i] EXCEPT !.last = wall, !.runs = routines[i].runs + 1]
    BY <1>f
  <2>2. routines[i] \in RoutineRecords
    BY <1>0
  <2>3. CASE routines[i].id # id
    BY <2>1, <2>2, <2>3
  <2>4. CASE routines[i].id = id
    <3>1. routines'[i] = [routines[i] EXCEPT !.last = wall, !.runs = routines[i].runs + 1]
      BY <2>1, <2>4
    <3>2. routines[i].runs + 1 \in Nat /\ wall \in Int \cup {Never}
      BY <1>2, <2>2 DEF RoutineRecords
    <3> DEFINE more == routines[i].runs + 1
    <3> HIDE DEF more
    <3>3. routines'[i] = [routines[i] EXCEPT !.last = wall, !.runs = more] /\ more \in Nat
      BY <3>1, <3>2 DEF more
    <3>4. routines'[i] \in RoutineRecords /\ routines'[i].id = routines[i].id
          /\ routines'[i].last = wall /\ routines'[i].runs = more
      BY <2>2, <3>2, <3>3 DEF RoutineRecords
    <3> QED
      BY <2>4, <3>4 DEF more
  <2> QED
    BY <2>3, <2>4
<1>5. ran' \in [Ids -> Nat] /\ ran'[id] = ran[id] + 1 /\ \A other \in Ids \ {id} : ran'[other] = ran[other]
  BY <1>1, <1>2
<1>6. /\ id \in usedIds /\ \A i \in DOMAIN routines : routines[i].id \in Ids
  <2>1. Listed = IdsOf(routines)
    BY DEF IdsOf, Listed
  <2> QED
    BY <1>0, <1>1, <2>1 DEF RoutineRecords
<1>7. GoodList(routines)'
  <2>1. routines' \in [1 .. Len(routines) -> RoutineRecords]
    BY <1>0, <1>f, <1>3, <1>4
  <2>2. routines' \in Seq(RoutineRecords)
    BY <1>0, <2>1, ListOf
  <2>3. IdsOnce(routines') /\ IdsOf(routines') = IdsOf(routines)
    BY <1>0, <1>3, <1>4 DEF IdsOnce, IdsOf
  <2> QED
    BY <1>0, <1>1, <2>2, <2>3 DEF GoodList
<1>8. RoutineTypes'
  <2>1. (routinesFile \notin {Never, Unreadable} => GoodList(routinesFile))'
    BY <1>1 DEF RoutineInv, RoutineTypes, GoodList
  <2>2. (\A other \in Ids \ usedIds : ran[other] = 0 /\ chosen[other] = Never)'
    BY <1>1, <1>5, <1>6 DEF RoutineInv, RoutineTypes
  <2> QED
    BY <1>1, <1>5, <1>7, <2>1, <2>2 DEF RoutineInv, RoutineTypes
<1>9. RunsCounted'
  <2> SUFFICES ASSUME NEW i \in DOMAIN routines, routines'[i].id \notin disturbed'
               PROVE  routines'[i].runs = ran'[routines'[i].id]
    BY <1>3 DEF RunsCounted
  <2>1. routines[i].runs = ran[routines[i].id]
    BY <1>1, <1>4 DEF RoutineInv, RunsCounted
  <2> QED
    BY <1>4, <1>5, <1>6, <2>1
<1>10. Placed'
  BY <1>1, <1>3, <1>4 DEF RoutineInv, Placed
<1>11. RemovedGone'
  <2>1. Listed' = Listed
    BY <1>3, <1>4 DEF Listed
  <2> QED
    BY <1>1, <2>1 DEF RoutineInv, RemovedGone, IdsOf
<1>12. Credited'
  <2>1. ASSUME NEW i \in DOMAIN routines, routines'[i].id \notin disturbed',
               chosen'[routines'[i].id] # Never
        PROVE  /\ chosen'[routines'[i].id] <= wall'
               /\ \/ \E run \in batch' : run.id = routines'[i].id
                  \/ /\ routines'[i].last # Never /\ chosen'[routines'[i].id] <= routines'[i].last
                     /\ routines'[i].last <= wall'
    <3>1. /\ chosen[routines[i].id] <= wall
          /\ \/ \E run \in batch : run.id = routines[i].id
             \/ /\ routines[i].last # Never /\ chosen[routines[i].id] <= routines[i].last
                /\ routines[i].last <= wall
      BY <1>1, <1>4, <2>1 DEF RoutineInv, Credited
    <3>2. CASE routines[i].id = id
      BY <1>1, <1>2, <1>4, <3>1, <3>2, RoutinesAssumption
    <3>3. CASE routines[i].id # id
      BY <1>1, <1>4, <3>1, <3>3
    <3> QED
      BY <3>2, <3>3
  <2>2. \A run \in batch' : chosen'[run.id] # Never => run.now = chosen'[run.id]
    BY <1>1 DEF RoutineInv, Credited
  <2> QED
    BY <1>3, <2>1, <2>2 DEF Credited
<1> QED
  BY <1>8, <1>9, <1>10, <1>11, <1>12 DEF RoutineInv

-----------------------------------------------------------------------------
(* The scheduler.                                                          *)

CreditedAt(list, a, t) == [list EXCEPT ![a].last = t, ![a].runs = @ + 1]

\* A routine is credited with a run.
LEMMA OneCredited ==
  ASSUME NEW list \in Seq(RoutineRecords), NEW a \in DOMAIN list, NEW t \in Int
  PROVE  LET new == CreditedAt(list, a, t)
         IN  /\ new \in Seq(RoutineRecords) /\ DOMAIN new = DOMAIN list
             /\ new[a].id = list[a].id /\ new[a].last = t /\ new[a].runs = list[a].runs + 1
             /\ \A j \in DOMAIN list : j # a => new[j] = list[j]
<1> DEFINE more == list[a].runs + 1
           r == [list[a] EXCEPT !.last = t, !.runs = more]
           new == CreditedAt(list, a, t)
<1>0. list[a] \in RoutineRecords
  OBVIOUS
<1>1. list[a] \in RoutineRecords /\ more \in Nat
  BY <1>0 DEF RoutineRecords
<1>2. new = [list EXCEPT ![a] = r]
  BY DEF CreditedAt
<1> HIDE DEF more
<1>3. r \in RoutineRecords /\ r.id = list[a].id /\ r.last = t /\ r.runs = more
  BY <1>1 DEF RoutineRecords
<1> HIDE DEF r, new
<1>4. /\ new \in Seq(RoutineRecords) /\ DOMAIN new = DOMAIN list
      /\ new[a] = r /\ \A j \in DOMAIN list : j # a => new[j] = list[j]
  BY <1>2, <1>3, OneEntry
<1> QED
  BY <1>3, <1>4 DEF new, more

\* Which routines are due: their positions, and for those with an interval that
\* it has passed, or the clock was set back, or they have not run.
LEMMA DueRoutines ==
  ASSUME NEW due \in DueSets
  PROVE  /\ due \subseteq DOMAIN routines
         /\ \A i \in due : routines[i].trigger.kind = "interval" =>
              \/ routines[i].last = Never
              \/ wall - routines[i].last < 0
              \/ wall - routines[i].last > routines[i].trigger.minutes
              \/ wall - routines[i].last = routines[i].trigger.minutes
BY DEF DueSets

LEMMA TickKeeps ==
  ASSUME RoutineInv, SchedulerTick
  PROVE  RoutineInv'
<1>1. PICK due \in DueSets :
        /\ batch' = {[at |-> i, id |-> routines[i].id, now |-> wall] : i \in due}
        /\ chosen' = [id \in Ids |->
                        IF \E i \in due : routines[i].id = id THEN wall ELSE chosen[id]]
  BY DEF SchedulerTick
<1>2. /\ routinesUp /\ batch = {} /\ shifted' = FALSE
      /\ UNCHANGED <<routinesUp, routines, routinesFile, wall, passed, events, ran,
                     disturbed, usedIds, removedIds, ranSince>>
  BY DEF SchedulerTick
<1>3. due \subseteq DOMAIN routines
  BY DueRoutines
<1>4. /\ IdsOnce(routines) /\ wall \in Int /\ chosen \in [Ids -> Int \cup {Never}] /\ usedIds \subseteq Ids
      /\ \A i \in DOMAIN routines : i \in Nat /\ routines[i].id \in usedIds
  BY DEF RoutineInv, RoutineTypes, GoodList, IdsOf
<1>5. \A run \in batch' : \E i \in due : run = [at |-> i, id |-> routines[i].id, now |-> wall]
  BY <1>1
<1>6. \A i \in due : \E run \in batch' : run.id = routines[i].id
  <2> SUFFICES ASSUME NEW i \in due PROVE \E run \in batch' : run.id = routines[i].id
    OBVIOUS
  <2>1. [at |-> i, id |-> routines[i].id, now |-> wall] \in batch'
    BY <1>1
  <2> QED
    BY <2>1
<1>7. /\ chosen' \in [Ids -> Int \cup {Never}]
      /\ \A id \in Ids : chosen'[id] = wall \/ chosen'[id] = chosen[id]
      /\ \A id \in Ids : (\E i \in due : routines[i].id = id) => chosen'[id] = wall
      /\ \A id \in Ids : ~ (\E i \in due : routines[i].id = id) => chosen'[id] = chosen[id]
  BY <1>1, <1>4
<1>8. ASSUME NEW run \in batch'
      PROVE  /\ run \in [at : Nat, id : usedIds, now : Int]
             /\ run.at \in DOMAIN routines /\ run.id = routines[run.at].id
             /\ run.now = wall /\ run.now = chosen'[run.id]
  <2>1. PICK i \in due : run = [at |-> i, id |-> routines[i].id, now |-> wall]
    BY <1>5, <1>8
  <2> QED
    BY <1>3, <1>4, <1>7, <2>1
<1>9. RoutineTypes'
  <2>1. (\A id \in Ids \ usedIds : ran[id] = 0 /\ chosen[id] = Never)'
    BY <1>2, <1>3, <1>4, <1>7 DEF RoutineInv, RoutineTypes
  <2>2. GoodList(routines)' /\ (routinesFile \notin {Never, Unreadable} => GoodList(routinesFile))'
    BY <1>2 DEF RoutineInv, RoutineTypes, GoodList
  <2> QED
    BY <1>2, <1>7, <1>8, <2>1, <2>2 DEF RoutineInv, RoutineTypes
<1>10. RunsCounted'
  BY <1>2 DEF RoutineInv, RunsCounted
<1>11. Placed'
  <2>1. \A r, s \in batch' : r.id = s.id => r = s
    <3> SUFFICES ASSUME NEW r \in batch', NEW s \in batch', r.id = s.id
                 PROVE  r = s
      OBVIOUS
    <3>1. PICK i \in due : r = [at |-> i, id |-> routines[i].id, now |-> wall]
      BY <1>5
    <3>2. PICK j \in due : s = [at |-> j, id |-> routines[j].id, now |-> wall]
      BY <1>5
    <3> QED
      BY <1>3, <1>4, <3>1, <3>2 DEF IdsOnce
  <2>2. \A run \in batch' : \A j \in DOMAIN routines :
          /\ routines[j].id = run.id => j = run.at
          /\ j = run.at => routines[j].id = run.id
    BY <1>4, <1>8 DEF IdsOnce
  <2> QED
    BY <1>2, <1>8, <2>1, <2>2 DEF Placed
<1>12. RemovedGone'
  <2>1. \A run \in batch' : run.id \in Listed
    BY <1>8 DEF Listed
  <2>2. Listed' = Listed
    BY <1>2 DEF Listed
  <2>3. \A id \in removedIds : \A run \in batch' : run.id # id
    BY <2>1 DEF RoutineInv, RemovedGone
  <2> QED
    BY <1>2, <2>2, <2>3 DEF RoutineInv, RemovedGone, IdsOf
<1>13. Credited'
  <2>1. ASSUME NEW i \in DOMAIN routines, routines[i].id \notin disturbed,
               chosen'[routines[i].id] # Never
        PROVE  /\ chosen'[routines[i].id] <= wall
               /\ \/ \E run \in batch' : run.id = routines[i].id
                  \/ /\ routines[i].last # Never /\ chosen'[routines[i].id] <= routines[i].last
                     /\ routines[i].last <= wall
    <3>1. routines[i].id \in Ids
      BY <1>4
    <3>2. CASE \E k \in due : routines[k].id = routines[i].id
      BY <1>4, <1>6, <1>7, <3>1, <3>2
    <3>3. CASE ~ \E k \in due : routines[k].id = routines[i].id
      BY <1>2, <1>7, <2>1, <3>1, <3>3 DEF RoutineInv, Credited
    <3> QED
      BY <3>2, <3>3
  <2> QED
    BY <1>2, <1>8, <2>1 DEF Credited
<1> QED
  BY <1>9, <1>10, <1>11, <1>12, <1>13 DEF RoutineInv

LEMMA RunsKeep ==
  ASSUME RoutineInv, SchedulerRuns
  PROVE  RoutineInv'
<1>1. PICK run \in batch :
        /\ batch' = batch \ {run}
        /\ routines' =
              IF run.at \in DOMAIN routines
                 THEN [routines EXCEPT ![run.at].last = run.now, ![run.at].runs = @ + 1]
                 ELSE routines
        /\ ran' = [ran EXCEPT ![run.id] = IF run.id \in Listed THEN @ + 1 ELSE 0]
        /\ ranSince' = [ranSince EXCEPT ![run.id] = IF run.id \in removedIds THEN @ + 1 ELSE 0]
  BY DEF SchedulerRuns
<1>2. /\ routinesUp /\ shifted' = (shifted /\ batch' # {})
      /\ UNCHANGED <<routinesUp, routinesFile, wall, passed, ticks, events,
                     chosen, disturbed, usedIds, removedIds>>
  BY DEF SchedulerRuns
<1>3. /\ routines \in Seq(RoutineRecords) /\ IdsOnce(routines) /\ IdsOf(routines) \subseteq usedIds
      /\ wall \in Int /\ usedIds \subseteq Ids
      /\ run.id \in usedIds /\ run.now \in Int
      /\ ran \in [Ids -> Nat] /\ ranSince \in [Ids -> Nat]
      /\ \A i \in DOMAIN routines : routines[i] \in RoutineRecords /\ routines[i].id \in usedIds
  BY DEF RoutineInv, RoutineTypes, GoodList, IdsOf
<1>4. /\ routines' \in Seq(RoutineRecords) /\ DOMAIN routines' = DOMAIN routines
      /\ \A j \in DOMAIN routines :
           /\ routines'[j].id = routines[j].id
           /\ j # run.at => routines'[j] = routines[j]
           /\ j = run.at => routines'[j].last = run.now /\ routines'[j].runs = routines[j].runs + 1
  <2>1. CASE run.at \in DOMAIN routines
    <3>1. routines' = CreditedAt(routines, run.at, run.now)
      BY <1>1, <2>1 DEF CreditedAt
    <3>2. routines \in Seq(RoutineRecords) /\ run.now \in Int
      BY <1>3
    <3> DEFINE new == CreditedAt(routines, run.at, run.now)
    <3>3. /\ new \in Seq(RoutineRecords) /\ DOMAIN new = DOMAIN routines
          /\ new[run.at].id = routines[run.at].id /\ new[run.at].last = run.now
          /\ new[run.at].runs = routines[run.at].runs + 1
          /\ \A j \in DOMAIN routines : j # run.at => new[j] = routines[j]
      BY <2>1, <3>2, OneCredited
    <3>4. routines' = new
      BY <3>1
    <3> HIDE DEF new
    <3> QED
      BY <2>1, <3>3, <3>4
  <2>2. CASE run.at \notin DOMAIN routines
    BY <1>1, <1>3, <2>2
  <2> QED
    BY <2>1, <2>2
<1>5. /\ ran' \in [Ids -> Nat] /\ \A id \in Ids : id # run.id => ran'[id] = ran[id]
      /\ run.id \in Listed => ran'[run.id] = ran[run.id] + 1
      /\ run.id \notin Listed => ran'[run.id] = 0
  BY <1>1, <1>3
<1>6. /\ ranSince' \in [Ids -> Nat] /\ \A id \in Ids : id # run.id => ranSince'[id] = ranSince[id]
      /\ run.id \in removedIds => ranSince'[run.id] = ranSince[run.id] + 1
  BY <1>1, <1>3
<1>b. batch' = batch \ {run}
  BY <1>1
<1>7. \A j \in DOMAIN routines :
        /\ routines[j].id = run.id => j = run.at \/ run.id \in disturbed
        /\ j = run.at => routines[j].id = run.id \/ routines[j].id \in disturbed
  BY DEF RoutineInv, Placed
<1>8. RoutineTypes'
  <2>1. GoodList(routines)'
    BY <1>2, <1>3, <1>4 DEF GoodList, IdsOnce, IdsOf
  <2>2. (routinesFile \notin {Never, Unreadable} => GoodList(routinesFile))'
    BY <1>2 DEF RoutineInv, RoutineTypes, GoodList
  <2>3. (\A id \in Ids \ usedIds : ran[id] = 0 /\ chosen[id] = Never)'
    BY <1>2, <1>3, <1>5 DEF RoutineInv, RoutineTypes
  <2>4. batch' \subseteq [at : Nat, id : usedIds', now : Int] /\ shifted' \in BOOLEAN
    BY <1>b, <1>2 DEF RoutineInv, RoutineTypes
  <2> QED
    BY <1>2, <1>5, <1>6, <2>1, <2>2, <2>3, <2>4 DEF RoutineInv, RoutineTypes
<1>9. RunsCounted'
  <2> SUFFICES ASSUME NEW j \in DOMAIN routines, routines[j].id \notin disturbed
               PROVE  routines'[j].runs = ran'[routines[j].id]
    BY <1>2, <1>4 DEF RunsCounted
  <2>1. routines[j].runs = ran[routines[j].id] /\ routines[j].id \in Ids
    BY <1>3 DEF RoutineInv, RunsCounted
  <2>2. CASE j = run.at
    <3>1. routines[j].id = run.id /\ run.id \in Listed
      BY <1>7, <2>2 DEF Listed
    <3> QED
      BY <1>4, <1>5, <2>1, <2>2, <3>1
  <2>3. CASE j # run.at
    <3>1. routines[j].id # run.id
      BY <1>7, <2>3
    <3> QED
      BY <1>4, <1>5, <2>1, <2>3, <3>1
  <2> QED
    BY <2>2, <2>3
<1>10. Placed'
  BY <1>b, <1>2, <1>4 DEF RoutineInv, Placed
<1>11. RemovedGone'
  <2>1. Listed' = Listed
    BY <1>4 DEF Listed
  <2>2. ASSUME NEW id \in removedIds
        PROVE  /\ id \notin Listed
               /\ ranSince'[id] <= 1
               /\ ranSince'[id] = 1 => \A r \in batch' : r.id # id
    <3>1. /\ id \notin Listed /\ ranSince[id] <= 1
          /\ ranSince[id] = 1 => \A r \in batch : r.id # id
          /\ id \in Ids
      BY <2>2 DEF RoutineInv, RoutineTypes, RemovedGone
    <3>2. CASE id = run.id
      <4>1. ranSince[id] = 0
        <5>1. ranSince[id] \in Nat
          BY <1>3, <3>1
        <5>2. ranSince[id] # 1
          BY <3>1, <3>2
        <5> QED
          BY <3>1, <5>1, <5>2
      <4>2. \A r \in batch' : r.id # id
        BY <1>b, <3>2 DEF RoutineInv, Placed
      <4> QED
        BY <1>6, <2>2, <3>1, <3>2, <4>1, <4>2
    <3>3. CASE id # run.id
      BY <1>b, <1>6, <3>1, <3>3
    <3> QED
      BY <3>2, <3>3
  <2> QED
    BY <1>2, <2>1, <2>2 DEF RoutineInv, RemovedGone, IdsOf
<1>12. Credited'
  <2>1. ASSUME NEW j \in DOMAIN routines, routines[j].id \notin disturbed,
               chosen[routines[j].id] # Never
        PROVE  /\ chosen[routines[j].id] <= wall
               /\ \/ \E r \in batch' : r.id = routines[j].id
                  \/ /\ routines'[j].last # Never /\ chosen[routines[j].id] <= routines'[j].last
                     /\ routines'[j].last <= wall
    <3>1. /\ chosen[routines[j].id] <= wall
          /\ \/ \E r \in batch : r.id = routines[j].id
             \/ /\ routines[j].last # Never /\ chosen[routines[j].id] <= routines[j].last
                /\ routines[j].last <= wall
      BY <2>1 DEF RoutineInv, Credited
    <3>2. CASE j = run.at
      <4>1. routines[j].id = run.id
        BY <1>7, <2>1, <3>2
      <4>2. run.now = chosen[run.id]
        BY <2>1, <4>1 DEF RoutineInv, Credited
      <4>3. routines'[j].last = run.now /\ run.now # Never
        BY <1>3, <1>4, <3>2, RoutinesAssumption
      <4> QED
        BY <1>3, <3>1, <4>1, <4>2, <4>3
    <3>3. CASE j # run.at
      <4>1. routines[j].id # run.id /\ routines'[j] = routines[j]
        BY <1>4, <1>7, <2>1, <3>3
      <4> QED
        BY <1>b, <3>1, <4>1
    <3> QED
      BY <3>2, <3>3
  <2>2. \A r \in batch' : chosen[r.id] # Never => r.now = chosen[r.id]
    BY <1>b DEF RoutineInv, Credited
  <2> QED
    BY <1>2, <1>4, <2>1, <2>2 DEF Credited
<1> QED
  BY <1>8, <1>9, <1>10, <1>11, <1>12 DEF RoutineInv

-----------------------------------------------------------------------------
(* Time, crash and start.                                                  *)

LEMMA TimeKeeps ==
  ASSUME RoutineInv, MinutePasses \/ WallSetBack \/ RoutinesCrash
  PROVE  RoutineInv'
<1>0. wall \in Int /\ chosen \in [Ids -> Int \cup {Never}]
  BY DEF RoutineInv, RoutineTypes
<1>1. CASE MinutePasses
  <2>1. /\ wall' = wall + 1
        /\ UNCHANGED <<routinesUp, routines, routinesFile, batch, events, ran,
                       chosen, disturbed, shifted, usedIds, removedIds, ranSince>>
    BY <1>1 DEF MinutePasses
  <2>2. RoutineTypes' /\ RunsCounted' /\ Placed' /\ RemovedGone'
    BY <1>0, <2>1 DEF RoutineInv, RoutineTypes, GoodList, RunsCounted, Placed, RemovedGone, Listed, IdsOf
  <2>3. ASSUME NEW i \in DOMAIN routines, routines[i].id \notin disturbed,
               chosen[routines[i].id] # Never
        PROVE  /\ chosen[routines[i].id] <= wall'
               /\ \/ \E r \in batch : r.id = routines[i].id
                  \/ /\ routines[i].last # Never /\ chosen[routines[i].id] <= routines[i].last
                     /\ routines[i].last <= wall'
    <3>1. /\ chosen[routines[i].id] <= wall
          /\ \/ \E r \in batch : r.id = routines[i].id
             \/ /\ routines[i].last # Never /\ chosen[routines[i].id] <= routines[i].last
                /\ routines[i].last <= wall
      BY <2>3 DEF RoutineInv, Credited
    <3>2. routines[i] \in RoutineRecords /\ routines[i].last \in Int \cup {Never}
      <4>1. routines[i] \in RoutineRecords
        BY DEF RoutineInv, RoutineTypes, GoodList
      <4> QED
        BY <4>1 DEF RoutineRecords
    <3>3. chosen[routines[i].id] \in Int
      BY <1>0, <2>3, <3>2 DEF RoutineRecords
    <3> QED
      BY <1>0, <2>1, <3>1, <3>2, <3>3
  <2>4. Credited'
    BY <2>1, <2>3 DEF RoutineInv, Credited
  <2> QED
    BY <2>2, <2>4 DEF RoutineInv
<1>2. CASE WallSetBack
  <2>1. /\ wall' = wall - 1 /\ chosen' = [id \in Ids |-> Never]
        /\ UNCHANGED <<routinesUp, routines, routinesFile, batch, ran,
                       disturbed, shifted, usedIds, removedIds, ranSince>>
    BY <1>2 DEF WallSetBack
  <2>2. chosen' \in [Ids -> Int \cup {Never}] /\ \A id \in Ids : chosen'[id] = Never
    BY <2>1
  <2>3. RoutineTypes'
    BY <1>0, <2>1, <2>2 DEF RoutineInv, RoutineTypes, GoodList
  <2>4. RunsCounted' /\ Placed' /\ RemovedGone'
    BY <2>1 DEF RoutineInv, RunsCounted, Placed, RemovedGone, Listed, IdsOf
  <2>5. \A run \in batch : run.id \in Ids
    BY DEF RoutineInv, RoutineTypes
  <2>6. \A i \in DOMAIN routines : routines[i].id \in Ids
    BY DEF RoutineInv, RoutineTypes, GoodList, IdsOf
  <2>7. Credited'
    BY <2>1, <2>2, <2>5, <2>6 DEF Credited
  <2> QED
    BY <2>3, <2>4, <2>7 DEF RoutineInv
<1>3. CASE RoutinesCrash
  <2>1. /\ routinesUp' = FALSE /\ routines' = <<>> /\ batch' = {}
        /\ chosen' = [id \in Ids |-> Never]
        /\ UNCHANGED <<routinesFile, wall, passed, ran, disturbed, shifted,
                       usedIds, removedIds, ranSince>>
    BY <1>3 DEF RoutinesCrash
  <2>2. chosen' \in [Ids -> Int \cup {Never}] /\ \A id \in Ids : chosen'[id] = Never
    BY <2>1
  <2>3. DOMAIN routines' = {} /\ routines' \in Seq(RoutineRecords)
    BY <2>1
  <2>4. GoodList(routines)'
    BY <2>3 DEF GoodList, IdsOnce, IdsOf
  <2>5. RoutineTypes'
    BY <2>1, <2>2, <2>4 DEF RoutineInv, RoutineTypes, GoodList
  <2>6. RunsCounted' /\ Placed' /\ Credited'
    BY <2>1, <2>3 DEF RunsCounted, Placed, Credited
  <2>7. Listed' = {}
    BY <2>3 DEF Listed
  <2>8. RemovedGone'
    BY <2>1, <2>7 DEF RoutineInv, RemovedGone, IdsOf
  <2> QED
    BY <2>5, <2>6, <2>8 DEF RoutineInv
<1> QED
  BY <1>1, <1>2, <1>3

LEMMA StartKeeps ==
  ASSUME RoutineInv, RoutinesStart
  PROVE  RoutineInv'
<1> DEFINE list == LoadedRoutines
           At(id) == CHOOSE i \in DOMAIN list : list[i].id = id
           Known(id) == \E i \in DOMAIN list : list[i].id = id
<1>1. /\ ~ routinesUp /\ routinesUp'
      /\ routines' = list
      /\ ran' = [id \in Ids |-> IF Known(id) THEN list[At(id)].runs ELSE 0]
      /\ disturbed' = {} /\ shifted' = FALSE
      /\ UNCHANGED <<routinesFile, wall, passed, batch, events, chosen,
                     usedIds, removedIds, ranSince>>
  BY DEF RoutinesStart
<1>2. GoodList(list)
  BY RoutinesAssumption DEF RoutineInv, RoutineTypes, GoodList, LoadedRoutines, IdsOnce
<1>3. removedIds # {} => list = routinesFile /\ IdsOf(list) \cap removedIds = {}
  BY DEF RoutineInv, RemovedGone, LoadedRoutines
<1>4. batch = {} /\ \A id \in Ids : chosen[id] = Never
  BY <1>1 DEF RoutineInv, RoutineTypes
<1> HIDE DEF list
<1>5. /\ list \in Seq(RoutineRecords) /\ IdsOnce(list) /\ usedIds \subseteq Ids
      /\ \A i \in DOMAIN list : /\ list[i] \in RoutineRecords /\ list[i].id \in usedIds
                                /\ list[i].id \in Ids /\ list[i].runs \in Nat
  <2>1. list \in Seq(RoutineRecords) /\ IdsOnce(list) /\ IdsOf(list) \subseteq usedIds /\ usedIds \subseteq Ids
    BY <1>2 DEF GoodList, RoutineInv, RoutineTypes
  <2>2. \A i \in DOMAIN list : list[i] \in RoutineRecords /\ list[i].id \in usedIds
    BY <2>1 DEF IdsOf
  <2> QED
    BY <2>1, <2>2 DEF RoutineRecords
<1>6. \A i \in DOMAIN list : Known(list[i].id) /\ At(list[i].id) = i
  BY <1>5 DEF IdsOnce
<1>7. \A id \in Ids : Known(id) => At(id) \in DOMAIN list /\ list[At(id)].id = id
  OBVIOUS
<1> HIDE DEF At, Known
<1>8. /\ ran' \in [Ids -> Nat]
      /\ \A i \in DOMAIN list : ran'[list[i].id] = list[i].runs
  BY <1>1, <1>5, <1>6, <1>7
<1>9. \A id \in Ids \ usedIds : ran'[id] = 0
  <2>1. \A id \in Ids \ usedIds : ~ Known(id)
    BY <1>5 DEF Known
  <2> QED
    BY <1>1, <2>1
<1>10. RoutineTypes'
  <2>1. GoodList(routines)' /\ (routinesFile \notin {Never, Unreadable} => GoodList(routinesFile))'
    BY <1>1, <1>2 DEF RoutineInv, RoutineTypes, GoodList
  <2> QED
    BY <1>1, <1>4, <1>8, <1>9, <2>1 DEF RoutineInv, RoutineTypes
<1>11. RunsCounted'
  BY <1>1, <1>8 DEF RunsCounted
<1>12. Placed'
  BY <1>1, <1>4 DEF Placed
<1>13. RemovedGone'
  <2>1. Listed' = IdsOf(list)
    BY <1>1 DEF Listed, IdsOf
  <2> QED
    BY <1>1, <1>3, <2>1 DEF RoutineInv, RemovedGone, IdsOf
<1>14. Credited'
  BY <1>1, <1>4, <1>5 DEF Credited
<1> QED
  BY <1>10, <1>11, <1>12, <1>13, <1>14 DEF RoutineInv

LEMMA RoutineInvInit == RoutinesInit => RoutineInv
<1> SUFFICES ASSUME RoutinesInit PROVE RoutineInv
  OBVIOUS
<1>1. routines = <<>> /\ DOMAIN routines = {} /\ routines \in Seq(RoutineRecords) /\ Listed = {}
  BY DEF RoutinesInit, Listed
<1>2. usedIds = IdsOf(Defaults) /\ IdsOf(Defaults) \subseteq Ids
  <2>1. usedIds = IdsOf(Defaults)
    BY DEF RoutinesInit, IdsOf
  <2>2. \A i \in DOMAIN Defaults : Defaults[i] \in RoutineRecords
    BY RoutinesAssumption
  <2>3. \A i \in DOMAIN Defaults : Defaults[i].id \in Ids
    BY <2>2 DEF RoutineRecords
  <2> QED
    BY <2>1, <2>3 DEF IdsOf
<1>3. GoodList(routines)
  BY <1>1 DEF GoodList, IdsOnce, IdsOf
<1>4. RoutineTypes
  <2>1. /\ routinesFile = Never /\ wall = 0 /\ batch = {} /\ shifted = FALSE /\ removedIds = {}
        /\ ran = [id \in Ids |-> 0] /\ chosen = [id \in Ids |-> Never]
        /\ ranSince = [id \in Ids |-> 0]
    BY DEF RoutinesInit
  <2>2. /\ ran \in [Ids -> Nat] /\ chosen \in [Ids -> Int \cup {Never}] /\ ranSince \in [Ids -> Nat]
        /\ \A id \in Ids : ran[id] = 0 /\ chosen[id] = Never
    BY <2>1
  <2>3. /\ wall \in Int /\ batch \subseteq [at : Nat, id : usedIds, now : Int]
        /\ shifted \in BOOLEAN /\ removedIds \subseteq usedIds
    <3>1. wall = 0 /\ batch = {} /\ removedIds = {}
      BY <2>1
    <3>2. wall \in Int /\ batch \subseteq [at : Nat, id : usedIds, now : Int] /\ removedIds \subseteq usedIds
      BY <3>1
    <3>3. shifted \in BOOLEAN
      BY <2>1, Zenon
    <3> QED
      BY <3>2, <3>3
  <2>4. routinesFile \notin {Never, Unreadable} => GoodList(routinesFile)
    BY <2>1
  <2> QED
    BY <1>1, <1>2, <1>3, <2>1, <2>2, <2>3, <2>4, Zenon DEF RoutineTypes
<1>5. RunsCounted /\ Placed /\ RemovedGone /\ Credited
  BY <1>1 DEF RoutinesInit, RunsCounted, Placed, RemovedGone, Credited
<1> QED
  BY <1>4, <1>5 DEF RoutineInv

LEMMA RoutineInvStep == RoutineInv /\ [RoutinesNext]_routineVars => RoutineInv'
<1> SUFFICES ASSUME RoutineInv, [RoutinesNext]_routineVars PROVE RoutineInv'
  OBVIOUS
<1>1. CASE UNCHANGED routineVars
  <2>1. RoutineTypes' /\ RunsCounted'
    BY <1>1 DEF routineVars, RoutineInv, RoutineTypes, GoodList, RunsCounted
  <2>2. Placed' /\ RemovedGone' /\ Credited'
    BY <1>1 DEF routineVars, RoutineInv, Placed, RemovedGone, Credited, Listed, IdsOf
  <2> QED
    BY <2>1, <2>2 DEF RoutineInv
<1>2. CASE RoutinesNext
  BY <1>2, AddKeeps, RemoveKeeps, TriggerKeeps, TickKeeps, RunsKeep, TimeKeeps, StartKeeps
     DEF RoutinesNext
<1> QED
  BY <1>1, <1>2

LEMMA RoutineInvHolds == RoutinesSpec => []RoutineInv
BY RoutineInvInit, RoutineInvStep, PTL DEF RoutinesSpec

\* run_count counts the runs of its routine (run_due_routines credits positions).
THEOREM CreditsAreRight == RoutinesSpec => []RunsCounted
<1>1. RoutineInv => RunsCounted
  BY DEF RoutineInv
<1> QED
  BY <1>1, RoutineInvHolds, PTL

\* A routine that was removed is in no list again, and runs at most once more.
THEOREM RemovedIsGone == RoutinesSpec => []RemovedStaysOut
<1>1. RoutineInv => RemovedStaysOut
  BY DEF RoutineInv, RemovedGone, RemovedStaysOut
<1> QED
  BY <1>1, RoutineInvHolds, PTL

\* Only a tick adds to the batch, and it chooses a routine only after its interval.
LEMMA IntervalStep ==
  ASSUME RoutineInv, [RoutinesNext]_routineVars, NEW run \in batch' \ batch,
         routines[run.at].trigger.kind = "interval", chosen[run.id] # Never,
         run.id \notin disturbed
  PROVE  wall - chosen[run.id] >= routines[run.at].trigger.minutes
<1>1. SchedulerTick
  <2>1. batch' # batch
    OBVIOUS
  <2>2. CASE UNCHANGED routineVars
    BY <2>1, <2>2 DEF routineVars
  <2>3. CASE \E id \in Ids : \/ \E t \in Triggers, on \in BOOLEAN, a \in Actions : RoutineAdd(id, t, on, a)
                            \/ RoutineRemove(id) \/ RoutineTrigger(id)
    BY <2>1, <2>3 DEF RoutineAdd, RoutineRemove, RoutineTrigger
  <2>4. CASE SchedulerRuns
    <3>1. batch' \subseteq batch
      BY <2>4 DEF SchedulerRuns
    <3> QED
      BY <3>1
  <2>5. CASE MinutePasses \/ WallSetBack \/ RoutinesStart
    BY <2>1, <2>5 DEF MinutePasses, WallSetBack, RoutinesStart
  <2>6. CASE RoutinesCrash
    BY <2>6 DEF RoutinesCrash
  <2> QED
    BY <2>2, <2>3, <2>4, <2>5, <2>6 DEF RoutinesNext
<1>2. PICK due \in DueSets :
        batch' = {[at |-> i, id |-> routines[i].id, now |-> wall] : i \in due}
  BY <1>1 DEF SchedulerTick
<1>3. PICK i \in due : run = [at |-> i, id |-> routines[i].id, now |-> wall]
  <2>1. run \in {[at |-> i, id |-> routines[i].id, now |-> wall] : i \in due}
    BY <1>2
  <2> QED
    BY <2>1
<1>4. batch = {} /\ i \in DOMAIN routines /\ run.at = i /\ run.id = routines[i].id
  BY <1>1, <1>3, DueRoutines DEF SchedulerTick
<1>5. \/ routines[i].last = Never
      \/ wall - routines[i].last < 0
      \/ wall - routines[i].last > routines[i].trigger.minutes
      \/ wall - routines[i].last = routines[i].trigger.minutes
  <2>1. routines[i].trigger.kind = "interval"
    BY <1>4
  <2> QED
    BY <1>3, <2>1, DueRoutines
<1>6. /\ routines[i].last # Never /\ chosen[run.id] <= routines[i].last
      /\ routines[i].last <= wall
  BY <1>4 DEF RoutineInv, Credited
<1>7. wall \in Int /\ chosen[run.id] \in Int /\ routines[i].last \in Int
      /\ routines[i].trigger.minutes \in Int
  <2>1. routines[i] \in RoutineRecords
    BY <1>4 DEF RoutineInv, RoutineTypes, GoodList
  <2>2. routines[i].id \in Ids /\ routines[i].trigger \in KnownTriggers
        /\ routines[i].last \in Int \cup {Never}
    BY <2>1 DEF RoutineRecords
  <2> QED
    BY <1>4, <1>6, <2>2, RoutinesAssumption DEF RoutineInv, RoutineTypes
<1> QED
  BY <1>4, <1>5, <1>6, <1>7

\* A routine with an interval waits for it, whatever is done to the list meanwhile.
THEOREM IntervalsAreKept == RoutinesSpec => IntervalKept
<1>1. RoutineInv /\ [RoutinesNext]_routineVars =>
        [\A run \in batch' \ batch :
            (/\ routines[run.at].trigger.kind = "interval"
             /\ chosen[run.id] # Never
             /\ run.id \notin disturbed)
            => wall - chosen[run.id] >= routines[run.at].trigger.minutes]_routineVars
  BY IntervalStep
<1> QED
  BY <1>1, RoutineInvHolds, PTL DEF RoutinesSpec, IntervalKept

-----------------------------------------------------------------------------
(***************************************************************************)
(* osmoda-mcpd: the inductive invariant.                                   *)
(***************************************************************************)

ServerType == [name : Names, status : Statuses, child : {"none", "alive", "ended"}]

\* Only a server that is Running has a process: start_server, which would
\* overwrite its handle, does nothing then.
Handled(s) == s.child = "alive" => s.status = "running"

McpdTypes ==
  /\ servers \in Seq(ServerType)
  /\ configured \in Seq(Names)
  /\ \A i \in DOMAIN servers : Handled(servers[i])
  /\ ~ mcpdUp => servers = <<>> /\ orphans = {} /\ excuses = {} /\ halted = {}

\* No process is lost as long as every name is listed once.
Unexcused ==
  excuses = {} => orphans = {} /\ \A i, j \in DOMAIN servers : servers[i].name = servers[j].name => i = j

\* A server that was stopped is in the list, and is not Running.
HaltedRest ==
  /\ halted \subseteq NamesOf(servers)
  /\ \A i \in DOMAIN servers :
       servers[i].name \in halted /\ IsFirst(i) => servers[i].status # "running"

McpdInv == McpdTypes /\ Unexcused /\ HaltedRest

-----------------------------------------------------------------------------
(* What the functions of server.rs do to a server.                         *)

LEMMA ServerSteps ==
  ASSUME NEW s \in ServerType, Handled(s)
  PROVE  /\ Stopped(s) \in ServerType /\ Handled(Stopped(s))
         /\ Stopped(s).name = s.name /\ Stopped(s).status = "stopped"
         /\ Stopped(s).child = "none"
         /\ Killed(s) \in ServerType /\ Handled(Killed(s))
         /\ Killed(s).name = s.name /\ Killed(s).status = s.status
BY DEF Stopped, Killed, ServerType, Handled, Statuses

\* Starting one that has no process.
LEMMA StartSteps ==
  ASSUME NEW s \in ServerType, s.child # "alive", NEW t \in Started(s)
  PROVE  t \in ServerType /\ Handled(t) /\ t.name = s.name
BY DEF Started, ServerType, Handled, Statuses

\* A server that is new.
LEMMA NewServer ==
  ASSUME NEW n \in Names
  PROVE  /\ FromConfig(n) \in ServerType /\ FromConfig(n).child = "none"
         /\ \A t \in Started(FromConfig(n)) : t \in ServerType /\ Handled(t) /\ t.name = n
<1>1. FromConfig(n) \in ServerType /\ FromConfig(n).child = "none" /\ FromConfig(n).name = n
  BY DEF FromConfig, ServerType, Statuses
<1> HIDE DEF FromConfig
<1> QED
  BY <1>1, StartSteps

\* The servers that are started one after another.
LEMMA NewServers ==
  ASSUME NEW names \in Seq(Names), NEW list \in StartedLists(names)
  PROVE  /\ list \in Seq(ServerType)
         /\ DOMAIN list = DOMAIN names
         /\ \A i \in DOMAIN names : Handled(list[i]) /\ list[i].name = names[i]
<1>1. Len(names) \in Nat /\ DOMAIN names = 1 .. Len(names) /\ \A i \in DOMAIN names : names[i] \in Names
  OBVIOUS
<1>2. /\ list \in [DOMAIN names -> UNION {Started(FromConfig(n)) : n \in NamesIn(names)}]
      /\ \A i \in DOMAIN names : list[i].name = names[i]
  BY DEF StartedLists
<1>3. NamesIn(names) \subseteq Names
  BY <1>1 DEF NamesIn
<1>4. \A t \in UNION {Started(FromConfig(n)) : n \in NamesIn(names)} : t \in ServerType /\ Handled(t)
  BY <1>3, NewServer
<1> HIDE DEF StartedLists, NamesIn
<1>5. list \in [1 .. Len(names) -> ServerType] /\ \A i \in DOMAIN names : Handled(list[i])
  BY <1>1, <1>2, <1>4
<1>6. list \in Seq(ServerType) /\ DOMAIN list = DOMAIN names
  BY <1>1, <1>5, ListOf
<1> QED
  BY <1>2, <1>5, <1>6

-----------------------------------------------------------------------------
(* Steps that keep the list as it is but for the state of its servers.     *)

\* The first server of a name is the same if the names are.
LEMMA SameFirst ==
  ASSUME DOMAIN servers' = DOMAIN servers,
         \A j \in DOMAIN servers : servers'[j].name = servers[j].name
  PROVE  /\ NamesOf(servers)' = NamesOf(servers)
         /\ \A i \in DOMAIN servers : IsFirst(i)' <=> IsFirst(i)
BY DEF NamesOf, IsFirst

LEMMA InPlace ==
  ASSUME McpdInv, mcpdUp, mcpdUp' = mcpdUp, configured' = configured,
         orphans' = orphans, excuses' = excuses,
         servers' \in Seq(ServerType), DOMAIN servers' = DOMAIN servers,
         \A j \in DOMAIN servers : Handled(servers'[j]) /\ servers'[j].name = servers[j].name,
         halted' \subseteq NamesOf(servers),
         \A j \in DOMAIN servers :
           servers[j].name \in halted' /\ IsFirst(j) => servers'[j].status # "running"
  PROVE  McpdInv'
<1>1. NamesOf(servers)' = NamesOf(servers) /\ \A i \in DOMAIN servers : IsFirst(i)' <=> IsFirst(i)
  BY SameFirst
<1>2. McpdTypes'
  BY DEF McpdInv, McpdTypes
<1>3. Unexcused'
  BY DEF McpdInv, Unexcused
<1>4. HaltedRest'
  BY <1>1 DEF McpdInv, HaltedRest
<1> QED
  BY <1>2, <1>3, <1>4 DEF McpdInv

\* A step of one server.
LEMMA OneServer ==
  ASSUME McpdInv, mcpdUp, mcpdUp' = mcpdUp, configured' = configured,
         orphans' = orphans, excuses' = excuses,
         NEW i \in DOMAIN servers, NEW s \in ServerType, Handled(s), s.name = servers[i].name,
         servers' = [servers EXCEPT ![i] = s],
         halted' \subseteq halted \cup {servers[i].name},
         servers[i].name \in halted' /\ IsFirst(i) => s.status # "running",
         servers[i].name \in halted' \ halted => IsFirst(i)
  PROVE  McpdInv'
<1>1. servers \in Seq(ServerType)
  BY DEF McpdInv, McpdTypes
<1>2. /\ servers' \in Seq(ServerType) /\ DOMAIN servers' = DOMAIN servers
      /\ servers'[i] = s
      /\ \A j \in DOMAIN servers \ {i} : servers'[j] = servers[j]
  BY <1>1, OneEntry
<1>3. \A j \in DOMAIN servers : Handled(servers'[j]) /\ servers'[j].name = servers[j].name
  BY <1>2 DEF McpdInv, McpdTypes
<1>4. halted' \subseteq NamesOf(servers)
  BY DEF McpdInv, HaltedRest, NamesOf
<1>5. ASSUME NEW j \in DOMAIN servers, servers[j].name \in halted', IsFirst(j)
      PROVE  servers'[j].status # "running"
  <2>1. CASE j = i
    BY <1>2, <1>5, <2>1
  <2>2. CASE j # i /\ servers[j].name \in halted
    BY <1>2, <1>5, <2>2 DEF McpdInv, HaltedRest
  <2>3. CASE j # i /\ servers[j].name \notin halted
    <3>1. servers[j].name = servers[i].name /\ IsFirst(i)
      BY <1>5, <2>3
    <3>2. i <= j /\ j <= i /\ i \in Nat /\ j \in Nat
      BY <1>1, <1>5, <3>1 DEF IsFirst
    <3> QED
      BY <2>3, <3>2
  <2> QED
    BY <2>1, <2>2, <2>3
<1> QED
  BY <1>2, <1>3, <1>4, <1>5, InPlace

\* The handlers of one server, and its end.
LEMMA ServerStepsKeep ==
  ASSUME McpdInv, NEW i \in DOMAIN servers,
         \/ McpdStartServer(i) \/ McpdStopServer(i) \/ McpdRestartServer(i)
         \/ McpdKillCutOff(i) \/ ServerExits(i)
  PROVE  McpdInv'
<1>0. servers[i] \in ServerType /\ Handled(servers[i])
  BY DEF McpdInv, McpdTypes
<1>1. mcpdUp
  <2>1. servers # <<>>
    OBVIOUS
  <2> QED
    BY <2>1 DEF McpdInv, McpdTypes
<1>2. CASE McpdStartServer(i)
  <2>1. servers[i].child # "alive"
    BY <1>0, <1>2 DEF McpdStartServer, Handled
  <2>2. PICK s \in Started(servers[i]) : servers' = [servers EXCEPT ![i] = s]
    BY <1>2 DEF McpdStartServer
  <2>3. s \in ServerType /\ Handled(s) /\ s.name = servers[i].name
    BY <1>0, <2>1, StartSteps
  <2>4. /\ UNCHANGED <<mcpdUp, configured, excuses>>
        /\ orphans' = orphans
        /\ halted' = halted \ {servers[i].name}
    BY <1>2, <2>1 DEF McpdStartServer
  <2> QED
    BY <1>1, <2>2, <2>3, <2>4, OneServer
<1>3. CASE McpdStopServer(i)
  <2>1. /\ servers' = [servers EXCEPT ![i] = Stopped(servers[i])]
        /\ UNCHANGED <<mcpdUp, configured, excuses, orphans>>
        /\ halted' = halted \cup {servers[i].name} /\ IsFirst(i)
    BY <1>3 DEF McpdStopServer
  <2> QED
    BY <1>0, <1>1, <2>1, ServerSteps, OneServer
<1>4. CASE McpdRestartServer(i)
  <2>1. PICK s \in Started(Stopped(servers[i])) : servers' = [servers EXCEPT ![i] = s]
    BY <1>4 DEF McpdRestartServer
  <2>2. s \in ServerType /\ Handled(s) /\ s.name = servers[i].name
    BY <1>0, ServerSteps, StartSteps
  <2>3. /\ UNCHANGED <<mcpdUp, configured, excuses, orphans>>
        /\ halted' = halted \ {servers[i].name}
    BY <1>4 DEF McpdRestartServer
  <2> QED
    BY <1>1, <2>1, <2>2, <2>3, OneServer
<1>5. CASE McpdKillCutOff(i)
  <2>1. /\ servers' = [servers EXCEPT ![i] = Killed(servers[i])]
        /\ UNCHANGED <<mcpdUp, configured, excuses, orphans, halted>>
    BY <1>5 DEF McpdKillCutOff
  <2>2. servers[i].name \in halted /\ IsFirst(i) => servers[i].status # "running"
    BY DEF McpdInv, HaltedRest
  <2> QED
    BY <1>0, <1>1, <2>1, <2>2, ServerSteps, OneServer
<1>6. CASE ServerExits(i)
  <2> DEFINE s == [servers[i] EXCEPT !.child = "ended"]
  <2>1. s \in ServerType /\ Handled(s) /\ s.name = servers[i].name /\ s.status = servers[i].status
    BY <1>0 DEF ServerType, Handled
  <2>2. /\ servers' = [servers EXCEPT ![i] = s]
        /\ UNCHANGED <<mcpdUp, configured, excuses, orphans, halted>>
    BY <1>6 DEF ServerExits
  <2>3. servers[i].name \in halted /\ IsFirst(i) => servers[i].status # "running"
    BY DEF McpdInv, HaltedRest
  <2> HIDE DEF s
  <2> QED
    BY <1>1, <2>1, <2>2, <2>3, OneServer
<1> QED
  BY <1>2, <1>3, <1>4, <1>5, <1>6

\* The manager loop touches only servers that are Running.
LEMMA ManagerKeeps ==
  ASSUME McpdInv, ManagerChecks
  PROVE  McpdInv'
<1> DEFINE crashed == {i \in DOMAIN servers :
                          servers[i].status = "running" /\ servers[i].child # "alive"}
           Again(s) == {IF t.status = "running" THEN t ELSE [t EXCEPT !.status = "failed"] :
                          t \in Started([s EXCEPT !.child = "none"])}
<1>1. /\ mcpdUp
      /\ servers' \in [DOMAIN servers -> UNION {Again(servers[i]) : i \in crashed}
                                          \cup {servers[i] : i \in DOMAIN servers}]
      /\ \A i \in DOMAIN servers :
            IF i \in crashed THEN servers'[i] \in Again(servers[i]) ELSE servers'[i] = servers[i]
      /\ UNCHANGED <<mcpdUp, configured, openclaw, orphans, excuses, halted>>
  BY DEF ManagerChecks
<1>2. \A i \in DOMAIN servers : servers[i] \in ServerType /\ Handled(servers[i])
  BY DEF McpdInv, McpdTypes
<1>3. ASSUME NEW s \in ServerType, NEW t \in Again(s)
      PROVE  t \in ServerType /\ Handled(t) /\ t.name = s.name
  <2> DEFINE none == [s EXCEPT !.child = "none"]
  <2>1. none \in ServerType /\ none.child = "none" /\ none.name = s.name
    BY DEF ServerType
  <2>2. PICK u \in Started(none) : t = IF u.status = "running" THEN u ELSE [u EXCEPT !.status = "failed"]
    BY <1>3
  <2> HIDE DEF none
  <2>3. u \in ServerType /\ Handled(u) /\ u.name = s.name
    BY <2>1, StartSteps
  <2> QED
    BY <2>2, <2>3 DEF ServerType, Handled, Statuses
<1> HIDE DEF Again
<1>4. \A i \in DOMAIN servers : /\ servers'[i] \in ServerType /\ Handled(servers'[i])
                                /\ servers'[i].name = servers[i].name
  BY <1>1, <1>2, <1>3
<1>5. servers' \in Seq(ServerType) /\ DOMAIN servers' = DOMAIN servers
  <2>1. Len(servers) \in Nat /\ DOMAIN servers = 1 .. Len(servers)
    BY DEF McpdInv, McpdTypes
  <2>2. servers' \in [1 .. Len(servers) -> ServerType]
    BY <1>1, <1>4, <2>1
  <2> QED
    BY <2>1, <2>2, ListOf
<1>6. halted' \subseteq NamesOf(servers)
  BY <1>1 DEF McpdInv, HaltedRest
<1>7. ASSUME NEW i \in DOMAIN servers, servers[i].name \in halted', IsFirst(i)
      PROVE  servers'[i].status # "running"
  <2>1. servers[i].status # "running"
    BY <1>1, <1>7 DEF McpdInv, HaltedRest
  <2> QED
    BY <1>1, <2>1
<1> QED
  BY <1>1, <1>4, <1>5, <1>6, <1>7, InPlace

\* A reload that is cut off while it stops servers has stopped some of them.
LEMMA ReloadCutOffKeeps ==
  ASSUME McpdInv, McpdReloadCutOff
  PROVE  McpdInv'
<1>0. PICK last \in NotConfigured :
          \E end \in {Killed(servers[last]), Stopped(servers[last])} :
             servers' = [i \in DOMAIN servers |->
                IF i = last THEN end
                ELSE IF i < last /\ i \in NotConfigured /\ IsFirst(i) THEN Stopped(servers[i])
                ELSE servers[i]]
  BY DEF McpdReloadCutOff
<1>1. PICK end \in {Killed(servers[last]), Stopped(servers[last])} :
          servers' = [i \in DOMAIN servers |->
                IF i = last THEN end
                ELSE IF i < last /\ i \in NotConfigured /\ IsFirst(i) THEN Stopped(servers[i])
                ELSE servers[i]]
  BY <1>0
<1>2. mcpdUp /\ UNCHANGED <<mcpdUp, configured, orphans, excuses, halted>>
  BY DEF McpdReloadCutOff
<1>3. \A i \in DOMAIN servers : servers[i] \in ServerType /\ Handled(servers[i])
  BY DEF McpdInv, McpdTypes
<1>4. last \in DOMAIN servers
  BY DEF NotConfigured
<1>5. \A i \in DOMAIN servers : servers'[i] \in {servers[i], Killed(servers[i]), Stopped(servers[i])}
  BY <1>1, <1>4
<1>6. \A i \in DOMAIN servers :
          /\ servers'[i] \in ServerType /\ Handled(servers'[i])
          /\ servers'[i].name = servers[i].name
          /\ servers'[i].status \in {servers[i].status, "stopped"}
  BY <1>3, <1>5, ServerSteps
<1>7. servers' \in Seq(ServerType) /\ DOMAIN servers' = DOMAIN servers
  <2>1. Len(servers) \in Nat /\ DOMAIN servers = 1 .. Len(servers)
    BY DEF McpdInv, McpdTypes
  <2>2. servers' \in [1 .. Len(servers) -> ServerType]
    BY <1>1, <1>6, <2>1
  <2> QED
    BY <2>1, <2>2, ListOf
<1>8. halted' \subseteq NamesOf(servers)
  BY <1>2 DEF McpdInv, HaltedRest
<1>9. ASSUME NEW i \in DOMAIN servers, servers[i].name \in halted', IsFirst(i)
      PROVE  servers'[i].status # "running"
  <2>1. servers[i].status # "running"
    BY <1>2, <1>9 DEF McpdInv, HaltedRest
  <2> QED
    BY <1>6, <2>1
<1> QED
  BY <1>2, <1>6, <1>7, <1>8, <1>9, InPlace

-----------------------------------------------------------------------------
(* Steps that make a new list.                                             *)

\* What stays at a reload: the servers that are configured, as they are and in
\* their order.
LEMMA SurvivorsOf ==
  ASSUME McpdTypes
  PROVE  LET at == DOMAIN servers \ NotConfigured
         IN  /\ Survivors \in Seq(ServerType)
             /\ Len(Survivors) \in Nat /\ DOMAIN Survivors = 1 .. Len(Survivors)
             /\ \A n \in DOMAIN Survivors : KeptAt(at, n) \in at /\ Survivors[n] = servers[KeptAt(at, n)]
             /\ \A i, j \in DOMAIN Survivors : i < j => KeptAt(at, i) < KeptAt(at, j)
             /\ \A k \in at : \E n \in DOMAIN Survivors : KeptAt(at, n) = k
<1> DEFINE at == DOMAIN servers \ NotConfigured
<1>1. servers \in Seq(ServerType) /\ at \in SUBSET DOMAIN servers
  BY DEF McpdTypes
<1>2. Survivors = Retained(servers, at)
  BY DEF Survivors
<1> HIDE DEF at
<1>3. /\ Survivors \in Seq(ServerType)
      /\ Len(Survivors) = Cardinality(at) /\ Cardinality(at) \in Nat
      /\ DOMAIN Survivors = 1 .. Cardinality(at)
      /\ \A n \in DOMAIN Survivors : KeptAt(at, n) \in at /\ Survivors[n] = servers[KeptAt(at, n)]
      /\ \A i, j \in DOMAIN Survivors : i < j => KeptAt(at, i) < KeptAt(at, j)
      /\ \A k \in at : \E n \in DOMAIN Survivors : KeptAt(at, n) = k
  BY <1>1, <1>2, RetainedList
<1> QED
  BY <1>3 DEF at

\* What a reload starts: names that are configured and not listed, once each
\* unless one is configured twice.
LEMMA FreshOf ==
  ASSUME McpdTypes
  PROVE  /\ Fresh(configured) \in Seq(Names)
         /\ \A i \in DOMAIN Fresh(configured) : Fresh(configured)[i] \notin NamesOf(servers)
         /\ ~ Repeated(configured) =>
              \A i, j \in DOMAIN Fresh(configured) : Fresh(configured)[i] = Fresh(configured)[j] => i = j
<1> DEFINE at == {i \in DOMAIN configured : configured[i] \notin NamesOf(servers)}
           fresh == Fresh(configured)
<1>1. configured \in Seq(Names) /\ at \in SUBSET DOMAIN configured
  BY DEF McpdTypes
<1>2. fresh = Retained(configured, at)
  BY DEF Fresh
<1> HIDE DEF at, fresh
<1>3. /\ fresh \in Seq(Names)
      /\ Cardinality(at) \in Nat /\ DOMAIN fresh = 1 .. Cardinality(at)
      /\ \A n \in DOMAIN fresh : KeptAt(at, n) \in at /\ fresh[n] = configured[KeptAt(at, n)]
      /\ \A i, j \in DOMAIN fresh : i < j => KeptAt(at, i) < KeptAt(at, j)
  BY <1>1, <1>2, RetainedList
<1>4. \A n \in DOMAIN fresh : fresh[n] \notin NamesOf(servers)
  BY <1>3 DEF at
<1>5. ASSUME ~ Repeated(configured), NEW i \in DOMAIN fresh, NEW j \in DOMAIN fresh, fresh[i] = fresh[j]
      PROVE  i = j
  <2>1. KeptAt(at, i) = KeptAt(at, j)
    BY <1>3, <1>5 DEF Repeated, at
  <2>2. i \in Nat /\ j \in Nat /\ (\A k \in at : k \in Nat)
    BY <1>1, <1>3
  <2>3. KeptAt(at, i) \in Nat /\ KeptAt(at, j) \in Nat
    BY <1>3, <2>2, Zenon
  <2>4. ~ (i < j) /\ ~ (j < i)
    BY <1>3, <2>1, <2>3
  <2> QED
    BY <2>2, <2>4
<1> QED
  BY <1>3, <1>4, <1>5 DEF fresh

\* The survivors, with new servers behind them.
LEMMA Reloaded ==
  ASSUME McpdInv, mcpdUp, mcpdUp' = mcpdUp, configured' = configured,
         NEW more \in Seq(ServerType),
         \A i \in DOMAIN more : Handled(more[i]) /\ more[i].name \notin NamesOf(servers),
         servers' = Survivors \o more,
         halted' = halted \cap NamesIn(configured),
         excuses' = {} =>
           /\ excuses = {} /\ orphans' = orphans \cup DroppedAlive
           /\ \A i, j \in DOMAIN more : more[i].name = more[j].name => i = j
  PROVE  McpdInv'
<1> DEFINE at == DOMAIN servers \ NotConfigured
           old == Survivors
           c == Len(old)
<1>1. /\ old \in Seq(ServerType) /\ c \in Nat /\ DOMAIN old = 1 .. c
      /\ \A n \in DOMAIN old : KeptAt(at, n) \in at /\ old[n] = servers[KeptAt(at, n)]
      /\ \A i, j \in DOMAIN old : i < j => KeptAt(at, i) < KeptAt(at, j)
      /\ \A k \in at : \E n \in DOMAIN old : KeptAt(at, n) = k
  BY SurvivorsOf DEF McpdInv
<1>2. \A k \in at : k \in DOMAIN servers /\ k \in Nat /\ servers[k].name \in NamesIn(configured)
  BY DEF NotConfigured, McpdInv, McpdTypes
<1>3. \A k \in DOMAIN servers : servers[k].name \in NamesIn(configured) => k \in at
  BY DEF NotConfigured
<1>4. Len(more) \in Nat /\ DOMAIN more = 1 .. Len(more)
  OBVIOUS
<1> HIDE DEF at, old
<1>5. servers' = old \o more
  BY DEF old
<1> HIDE DEF c
<1>6. /\ servers' \in Seq(ServerType) /\ DOMAIN servers' = 1 .. c + Len(more)
      /\ \A i \in DOMAIN servers' :
            servers'[i] = IF i <= c THEN old[i] ELSE more[i - c]
  BY <1>1, <1>4, <1>5 DEF c
<1>7. \A i \in DOMAIN servers' : \/ i <= c /\ i \in DOMAIN old /\ servers'[i] = old[i]
                                 \/ i > c /\ i - c \in DOMAIN more /\ servers'[i] = more[i - c]
  BY <1>1, <1>4, <1>6
<1>8. \A i \in DOMAIN old : /\ i \in DOMAIN servers' /\ servers'[i] = servers[KeptAt(at, i)]
                           /\ KeptAt(at, i) \in DOMAIN servers
                           /\ servers[KeptAt(at, i)].name \in NamesOf(servers)
  <2>1. \A i \in DOMAIN old : i \in DOMAIN servers' /\ i <= c
    BY <1>1, <1>4, <1>6
  <2> QED
    BY <1>1, <1>2, <1>6, <2>1 DEF NamesOf
<1>9. McpdTypes'
  <2>1. \A i \in DOMAIN servers' : Handled(servers'[i])
    BY <1>7, <1>8 DEF McpdInv, McpdTypes
  <2> QED
    BY <1>6, <2>1 DEF McpdInv, McpdTypes
<1>10. Unexcused'
  <2> SUFFICES ASSUME excuses' = {}
               PROVE  /\ orphans' = {}
                      /\ \A i, j \in DOMAIN servers' : servers'[i].name = servers'[j].name => i = j
    BY DEF Unexcused
  <2>1. orphans = {} /\ \A i, j \in DOMAIN servers : servers[i].name = servers[j].name => i = j
    BY DEF McpdInv, Unexcused
  <2>2. \A i \in DOMAIN servers : IsFirst(i)
    <3>1. \A i \in DOMAIN servers : i \in Nat
      BY DEF McpdInv, McpdTypes
    <3> QED
      BY <2>1, <3>1 DEF IsFirst
  <2>3. DroppedAlive = {}
    BY <2>2 DEF DroppedAlive, NotConfigured
  <2>4. ASSUME NEW i \in DOMAIN servers', NEW j \in DOMAIN servers',
               servers'[i].name = servers'[j].name
        PROVE  i = j
    <3>1. CASE i \in DOMAIN old /\ j \in DOMAIN old
      <4>1. KeptAt(at, i) = KeptAt(at, j)
        BY <1>8, <2>1, <2>4, <3>1
      <4>2. KeptAt(at, i) \in Nat /\ i \in Nat /\ j \in Nat
        BY <1>1, <1>2, <3>1
      <4>3. ~ (i < j) /\ ~ (j < i)
        BY <1>1, <3>1, <4>1, <4>2
      <4> QED
        BY <4>2, <4>3
    <3>2. CASE i \in DOMAIN old /\ j > c /\ j - c \in DOMAIN more /\ servers'[j] = more[j - c]
      BY <1>8, <2>4, <3>2
    <3>3. CASE j \in DOMAIN old /\ i > c /\ i - c \in DOMAIN more /\ servers'[i] = more[i - c]
      BY <1>8, <2>4, <3>3
    <3>4. CASE /\ i > c /\ i - c \in DOMAIN more /\ servers'[i] = more[i - c]
               /\ j > c /\ j - c \in DOMAIN more /\ servers'[j] = more[j - c]
      <4>1. i - c = j - c
        BY <2>4, <3>4
      <4>2. i \in Nat /\ j \in Nat /\ c \in Nat
        BY <1>1, <1>4, <1>6
      <4> QED
        BY <4>1, <4>2
    <3> QED
      BY <1>7, <2>4, <3>1, <3>2, <3>3, <3>4
  <2> QED
    BY <2>1, <2>3, <2>4
<1>11. HaltedRest'
  <2>1. halted \subseteq NamesOf(servers)
    BY DEF McpdInv, HaltedRest
  <2>2. halted' \subseteq NamesOf(servers)'
    <3> SUFFICES ASSUME NEW h \in halted, h \in NamesIn(configured)
                 PROVE  \E i \in DOMAIN servers' : servers'[i].name = h
      BY DEF NamesOf
    <3>1. PICK k \in DOMAIN servers : servers[k].name = h
      BY <2>1 DEF NamesOf
    <3>2. k \in at
      BY <1>3, <3>1
    <3>3. PICK n \in DOMAIN old : KeptAt(at, n) = k
      BY <1>1, <3>2
    <3> QED
      BY <1>8, <3>1, <3>3
  <2>3. ASSUME NEW i \in DOMAIN servers', servers'[i].name \in halted', IsFirst(i)'
        PROVE  servers'[i].status # "running"
    <3>1. i \in DOMAIN old
      <4>1. servers'[i].name \in NamesOf(servers)
        BY <2>1, <2>3
      <4> QED
        BY <1>7, <4>1
    <3> DEFINE k == KeptAt(at, i)
    <3>2. k \in at /\ k \in DOMAIN servers /\ servers'[i] = servers[k]
      BY <1>1, <1>8, <3>1
    <3>3. ASSUME NEW j \in DOMAIN servers, servers[j].name = servers[k].name
          PROVE  k <= j
      <4>1. j \in at
        BY <1>2, <1>3, <3>2, <3>3
      <4>2. PICK n \in DOMAIN old : KeptAt(at, n) = j
        BY <1>1, <4>1
      <4>3. i <= n
        BY <1>8, <2>3, <3>2, <3>3, <4>2 DEF IsFirst
      <4>4. i \in Nat /\ n \in Nat
        BY <1>1, <3>1
      <4>5. k \in Nat /\ j \in Nat
        BY <1>2, <3>2, <4>1
      <4>6. CASE i < n
        BY <1>1, <3>1, <4>2, <4>5, <4>6
      <4>7. CASE i = n
        BY <4>2, <4>5, <4>7
      <4> QED
        BY <4>3, <4>4, <4>6, <4>7
    <3>4. IsFirst(k)
      BY <3>3 DEF IsFirst
    <3>5. servers[k].name \in halted
      BY <2>3, <3>2
    <3> QED
      BY <3>2, <3>4, <3>5 DEF McpdInv, HaltedRest
  <2> QED
    BY <2>2, <2>3 DEF HaltedRest
<1> QED
  BY <1>9, <1>10, <1>11 DEF McpdInv

LEMMA ReloadKeeps ==
  ASSUME McpdInv, McpdReload \/ McpdReloadLoses
  PROVE  McpdInv'
<1> DEFINE fresh == Fresh(configured)
<1>1. /\ fresh \in Seq(Names)
      /\ \A i \in DOMAIN fresh : fresh[i] \notin NamesOf(servers)
      /\ ~ Repeated(configured) =>
           \A i, j \in DOMAIN fresh : fresh[i] = fresh[j] => i = j
  BY FreshOf DEF McpdInv
<1> HIDE DEF fresh
<1>2. CASE McpdReload
  <2>1. PICK more \in StartedLists(fresh) : servers' = Survivors \o more
    BY <1>2 DEF McpdReload, fresh
  <2>2. /\ more \in Seq(ServerType) /\ DOMAIN more = DOMAIN fresh
        /\ \A i \in DOMAIN fresh : Handled(more[i]) /\ more[i].name = fresh[i]
    BY <1>1, NewServers
  <2>3. /\ mcpdUp /\ UNCHANGED <<mcpdUp, configured>>
        /\ orphans' = orphans \cup DroppedAlive
        /\ excuses' = IF Repeated(configured) THEN excuses \cup {"repeated"} ELSE excuses
        /\ halted' = halted \cap NamesIn(configured)
    BY <1>2 DEF McpdReload
  <2>4. excuses' = {} => excuses = {} /\ ~ Repeated(configured)
    BY <2>3
  <2> QED
    BY <1>1, <2>1, <2>2, <2>3, <2>4, Reloaded
<1>3. CASE McpdReloadLoses
  <2>1. PICK n \in DOMAIN fresh : \E more \in StartedLists(SubSeq(fresh, 1, n)) :
            servers' = Survivors \o SubSeq(more, 1, n - 1)
    BY <1>3 DEF McpdReloadLoses, fresh
  <2>2. PICK more \in StartedLists(SubSeq(fresh, 1, n)) :
            servers' = Survivors \o SubSeq(more, 1, n - 1)
    BY <2>1
  <2>3. n \in Nat /\ n >= 1 /\ n <= Len(fresh) /\ Len(fresh) \in Nat
    BY <1>1
  <2>4. /\ SubSeq(fresh, 1, n) \in Seq(Names) /\ DOMAIN SubSeq(fresh, 1, n) = 1 .. n
        /\ \A i \in 1 .. n : SubSeq(fresh, 1, n)[i] = fresh[i] /\ i \in DOMAIN fresh
    BY <1>1, <2>3
  <2>5. /\ more \in Seq(ServerType) /\ DOMAIN more = 1 .. n
        /\ \A i \in 1 .. n : Handled(more[i]) /\ more[i].name = fresh[i]
    BY <2>4, NewServers
  <2> DEFINE listed == SubSeq(more, 1, n - 1)
  <2>6. /\ listed \in Seq(ServerType) /\ DOMAIN listed = 1 .. n - 1
        /\ \A i \in 1 .. n - 1 : listed[i] = more[i] /\ i \in 1 .. n
    <3>1. Len(more) = n
      BY <2>3, <2>5
    <3> QED
      BY <2>3, <2>5, <3>1
  <2> HIDE DEF listed
  <2>7. \A i \in DOMAIN listed : Handled(listed[i]) /\ listed[i].name \notin NamesOf(servers)
    BY <1>1, <2>4, <2>5, <2>6
  <2>8. /\ mcpdUp /\ UNCHANGED <<mcpdUp, configured>>
        /\ excuses' # {}
        /\ halted' = halted \cap NamesIn(configured)
    BY <1>3 DEF McpdReloadLoses
  <2>9. servers' = Survivors \o listed
    BY <2>2 DEF listed
  <2> QED
    BY <2>6, <2>7, <2>8, <2>9, Reloaded
<1> QED
  BY <1>2, <1>3

\* The daemon ends, and starts what is configured.
LEMMA DaemonKeeps ==
  ASSUME McpdInv, McpdEnds \/ McpdStarts \/ ConfigChanges
  PROVE  McpdInv'
<1>1. CASE McpdEnds
  <2>1. servers' = <<>> /\ DOMAIN <<>> = {} /\ <<>> \in Seq(ServerType)
    BY <1>1 DEF McpdEnds
  <2> QED
    BY <1>1, <2>1 DEF McpdEnds, McpdInv, McpdTypes, Unexcused, HaltedRest
<1>2. CASE McpdStarts
  <2>1. PICK list \in StartedLists(configured) : servers' = list
    BY <1>2 DEF McpdStarts
  <2>2. /\ orphans' = {} /\ halted' = {} /\ configured' = configured /\ mcpdUp'
        /\ excuses' = IF Repeated(configured) THEN {"repeated"} ELSE {}
    BY <1>2 DEF McpdStarts, McpdInv, McpdTypes
  <2>3. configured \in Seq(Names)
    BY DEF McpdInv, McpdTypes
  <2>4. /\ list \in Seq(ServerType) /\ DOMAIN list = DOMAIN configured
        /\ \A i \in DOMAIN configured : Handled(list[i]) /\ list[i].name = configured[i]
    BY <2>3, NewServers
  <2>5. McpdTypes'
    BY <2>1, <2>2, <2>3, <2>4 DEF McpdTypes
  <2>6. Unexcused'
    <3> SUFFICES ASSUME excuses' = {}, NEW i \in DOMAIN list, NEW j \in DOMAIN list,
                        list[i].name = list[j].name
                 PROVE  i = j
      BY <2>1, <2>2 DEF Unexcused
    <3>1. ~ Repeated(configured)
      BY <2>2
    <3>2. configured[i] = configured[j] /\ i \in DOMAIN configured /\ j \in DOMAIN configured
      BY <2>4
    <3> QED
      BY <3>1, <3>2 DEF Repeated
  <2>7. HaltedRest'
    BY <2>2 DEF HaltedRest
  <2> QED
    BY <2>5, <2>6, <2>7 DEF McpdInv
<1>3. CASE ConfigChanges
  <2>1. configured' \in Seq(Names) /\ UNCHANGED <<mcpdUp, servers, orphans, excuses, halted>>
    BY <1>3, McpdAssumption DEF ConfigChanges
  <2>2. McpdTypes' /\ Unexcused'
    BY <2>1 DEF McpdInv, McpdTypes, Unexcused
  <2>3. HaltedRest'
    BY <2>1 DEF McpdInv, HaltedRest, NamesOf, IsFirst
  <2> QED
    BY <2>2, <2>3 DEF McpdInv
<1> QED
  BY <1>1, <1>2, <1>3

LEMMA McpdInvInit == McpdInit => McpdInv
<1> SUFFICES ASSUME McpdInit PROVE McpdInv
  OBVIOUS
<1>1. servers = <<>> /\ DOMAIN <<>> = {} /\ <<>> \in Seq(ServerType)
  BY DEF McpdInit
<1>2. configured \in Seq(Names)
  BY McpdAssumption DEF McpdInit
<1> QED
  BY <1>1, <1>2 DEF McpdInit, McpdInv, McpdTypes, Unexcused, HaltedRest

LEMMA McpdInvStep == McpdInv /\ [McpdNext]_mcpdVars => McpdInv'
<1> SUFFICES ASSUME McpdInv, [McpdNext]_mcpdVars PROVE McpdInv'
  OBVIOUS
<1>1. CASE UNCHANGED mcpdVars
  BY <1>1 DEF mcpdVars, McpdInv, McpdTypes, Unexcused, HaltedRest, NamesOf, IsFirst
<1> QED
  BY <1>1, ServerStepsKeep, ManagerKeeps, ReloadCutOffKeeps, ReloadKeeps, DaemonKeeps DEF McpdNext

\* Every process that osmoda-mcpd started has a handle, but for the two excuses.
THEOREM NoProcessIsLost == McpdSpec => []NoOrphans
<1>1. McpdInv => NoOrphans
  BY DEF McpdInv, Unexcused, NoOrphans
<1> QED
  BY <1>1, McpdInvInit, McpdInvStep, PTL DEF McpdSpec

\* What an operator has stopped stays stopped (stop_handler, check_health).
THEOREM StoppedStaysStopped == McpdSpec => []StoppedStays
<1>1. McpdInv => StoppedStays
  BY DEF McpdInv, McpdTypes, Handled, HaltedRest, StoppedStays
<1> QED
  BY <1>1, McpdInvInit, McpdInvStep, PTL DEF McpdSpec
===============================================================================
