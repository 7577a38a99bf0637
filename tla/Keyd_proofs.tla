----------------------------- MODULE Keyd_proofs -----------------------------
(***************************************************************************)
(* Proofs about osmoda-keyd, for any number of requests, wallets, days,    *)
(* crashes and failed writes, and any rules and amounts: who holds the     *)
(* signer's mutex, that a deleted wallet is gone, that a listed one can    *)
(* sign, and that no day exceeds the policy.                               *)
(***************************************************************************)
EXTENDS Keyd, TLAPS

-----------------------------------------------------------------------------
(* Facts about the constants.                                              *)

LEMMA Constants ==
  /\ ChainOf \in [Wallets -> Chains]
  /\ MaxFixed \in Nat /\ DECIMALS \in Nat /\ MaxDay \in Nat \ {0} /\ MaxCrashes \in Nat
  /\ MaxFaults \in Nat
  /\ None \notin Requests
  BY KeydAssumption, Zenon

LEMMA AmountParts ==
  ASSUME NEW a \in Amounts
  PROVE  a.whole \in Nat /\ a.fraction \in Nat /\ a.digits \in Nat
  BY KeydAssumption, Zenon

LEMMA RuleParts ==
  ASSUME NEW u \in Rules
  PROVE  /\ u.action \in {"send", "sign"}
         /\ u.max_per_day \subseteq Nat /\ u.max_amount \subseteq Nat
  BY KeydAssumption, Zenon

LEMMA FileMarks ==
  /\ {Absent, Torn, None} \cap (Generations \X Generations) = {}
  /\ {Absent, Torn} \cap (Counters \cup Generations) = {}
  BY KeydAssumption, Zenon

-----------------------------------------------------------------------------
(* The counters.                                                           *)

LEMMA NoUseTyped ==
  /\ NoUse \in Use
  /\ \A d \in Days : Fresh(d) \in Counters /\ Fresh(d).date = d /\ Fresh(d).use = NoUse
<1>1. [c \in Chains |-> 0] \in [Chains -> Nat] /\ [c \in Chains |-> 0] \in [Chains -> 0 .. MaxFixed]
  BY Constants
<1>2. NoUse \in Use
  BY <1>1 DEF NoUse, Use
<1> QED
  BY <1>2 DEF Fresh, Counters

\* An amount that parses fits in a u128.
LEMMA ParsedTyped ==
  ASSUME NEW a \in Amounts, NEW v \in Parsed(a)
  PROVE  v \in 0 .. MaxFixed /\ Parsed(a) = {v}
<1> DEFINE p == 10 ^ DECIMALS
           q == 10 ^ (DECIMALS - a.digits)
           value == a.whole * p + a.fraction * q
<1>1. a.digits <= DECIMALS /\ value <= MaxFixed /\ v = value /\ Parsed(a) = {value}
  BY DEF Parsed
<1>2. a.whole \in Nat /\ a.fraction \in Nat /\ a.digits \in Nat
      /\ DECIMALS \in Nat /\ MaxFixed \in Nat
  BY AmountParts, Constants
<1>3. DECIMALS \in 0 .. DECIMALS /\ DECIMALS - a.digits \in 0 .. DECIMALS
  BY <1>1, <1>2
<1>4. p \in Nat /\ q \in Nat
  BY <1>3, KeydAssumption, Zenon
<1> HIDE DEF p, q
<1>5. value \in Nat
  BY <1>2, <1>4
<1> HIDE DEF value
<1> QED
  BY <1>1, <1>2, <1>5

LEMMA AfterSendTyped ==
  ASSUME NEW use \in Use, NEW c \in Chains, NEW a \in Amounts, Parsed(a) # {}
  PROVE  LET v == CHOOSE x \in Parsed(a) : TRUE
             after == AfterSend(use, c, a)
         IN  /\ after \in Use
             /\ after.sends = [use.sends EXCEPT ![c] = use.sends[c] + 1]
             /\ after.signs = use.signs
             /\ \A d \in Chains \ {c} : after.amounts[d] = use.amounts[d]
             /\ \/ after.amounts[c] = use.amounts[c] + v
                \/ after.amounts[c] = use.amounts[c] /\ CheckedAdd(use.amounts[c], v) = {}
             /\ after # NoUse
<1> DEFINE v == CHOOSE x \in Parsed(a) : TRUE
           after == AfterSend(use, c, a)
           sends == [use.sends EXCEPT ![c] = use.sends[c] + 1]
           sum == CheckedAdd(use.amounts[c], v)
           amount == IF sum = {} THEN use.amounts[c] ELSE use.amounts[c] + v
           amounts == [use.amounts EXCEPT ![c] = amount]
<1>1. v \in 0 .. MaxFixed
  BY ParsedTyped
<1>2. /\ use.sends \in [Chains -> Nat] /\ use.amounts \in [Chains -> 0 .. MaxFixed]
      /\ use.signs \in Nat
  BY DEF Use
<1> HIDE DEF v
<1>3. sum # {} => use.amounts[c] + v <= MaxFixed
  BY DEF CheckedAdd
<1>4. amount \in 0 .. MaxFixed
  BY <1>1, <1>2, <1>3, Constants
<1>5. sends \in [Chains -> Nat] /\ amounts \in [Chains -> 0 .. MaxFixed]
  BY <1>2, <1>4
<1>6. after = [use EXCEPT !.sends = sends, !.amounts = amounts]
  BY DEF AfterSend, v, Use
<1> HIDE DEF after, sends, amounts
<1>7. after \in Use /\ after.sends = sends /\ after.amounts = amounts /\ after.signs = use.signs
  BY <1>5, <1>6 DEF Use
<1>8. after # NoUse
  <2>1. sends[c] # 0
    BY <1>2 DEF sends
  <2>2. NoUse.sends[c] = 0
    BY DEF NoUse
  <2> QED
    BY <1>7, <2>1, <2>2
<1>9. /\ \A d \in Chains \ {c} : amounts[d] = use.amounts[d]
      /\ amounts[c] = amount
  BY <1>2 DEF amounts
<1> QED
  BY <1>7, <1>8, <1>9 DEF after, sends, v

LEMMA AfterSignTyped ==
  ASSUME NEW use \in Use
  PROVE  /\ AfterSign(use) \in Use
         /\ AfterSign(use).sends = use.sends /\ AfterSign(use).amounts = use.amounts
         /\ AfterSign(use).signs = use.signs + 1
         /\ AfterSign(use) # NoUse
<1>1. use.signs \in Nat
  BY DEF Use
<1>2. AfterSign(use) = [use EXCEPT !.signs = use.signs + 1]
  BY DEF AfterSign
<1>3. AfterSign(use) \in Use /\ AfterSign(use).signs = use.signs + 1
      /\ AfterSign(use).sends = use.sends /\ AfterSign(use).amounts = use.amounts
  BY <1>1, <1>2 DEF Use
<1>4. NoUse.signs = 0
  BY DEF NoUse
<1> QED
  BY <1>1, <1>3, <1>4

-----------------------------------------------------------------------------
(* Types.                                                                  *)

RequestType ==
    [step: Steps, op: {"create", "delete", "sign", "send", "build"},
     wallet: Wallets \cup {None}, amount: Amounts \cup {None}, to: Destinations \cup {None}]

\* A request to send or to build has all that the policy asks for.
Complete(q) ==
    /\ q.op \in {"send", "build"} => q.wallet \in Wallets /\ q.amount \in Amounts
    /\ q.step = "load" => q.op = "build"

RequestsTyped ==
    /\ req \in [Requests -> RequestType]
    /\ \A r \in Requests : Complete(req[r])

\* A daemon that is up has a key.
TypeInv ==
    /\ KeydTypeOK
    /\ RequestsTyped
    /\ keydUp => derived \in Generations \X Generations

LEMMA IdleTyped ==
  Idle \in RequestType /\ Complete(Idle) /\ Idle.step = "idle"
  BY DEF Idle, RequestType, Complete, Steps

\* The request r changes.
LEMMA OneRequest ==
  ASSUME RequestsTyped, NEW r \in Requests, NEW q \in RequestType, Complete(q),
         req' = [req EXCEPT ![r] = q]
  PROVE  RequestsTyped'
  BY DEF RequestsTyped

\* A request goes on, and keeps what it asks for, or ends.
LEMMA RequestGoes ==
  ASSUME RequestsTyped, NEW r \in Requests, NEW st \in Steps, Goes(r, st),
         st = "load" => req[r].op = "build"
  PROVE  /\ RequestsTyped'
         /\ req'[r].step = st
         /\ \A q \in Requests \ {r} : req'[q] = req[q]
<1> DEFINE q == [req[r] EXCEPT !.step = st]
<1>1. req[r] \in RequestType /\ Complete(req[r])
  BY DEF RequestsTyped
<1>2. q \in RequestType /\ Complete(q) /\ q.step = st
  BY <1>1 DEF RequestType, Complete
<1>3. req' = [req EXCEPT ![r] = q]
  BY DEF Goes, RequestsTyped
<1> HIDE DEF q
<1>4. RequestsTyped'
  BY <1>2, <1>3, OneRequest
<1>5. req'[r] = q /\ \A t \in Requests \ {r} : req'[t] = req[t]
  BY <1>3 DEF RequestsTyped
<1> QED
  BY <1>2, <1>4, <1>5

LEMMA RequestEnds ==
  ASSUME RequestsTyped, NEW r \in Requests, Ends(r)
  PROVE  /\ RequestsTyped'
         /\ req'[r].step = "idle"
         /\ \A q \in Requests \ {r} : req'[q] = req[q]
<1>1. req' = [req EXCEPT ![r] = Idle]
  BY DEF Ends
<1>2. RequestsTyped'
  BY <1>1, IdleTyped, OneRequest
<1> QED
  BY <1>1, <1>2, IdleTyped DEF RequestsTyped

\* What a write leaves.
LEMMA WriteTyped ==
  ASSUME NEW file, NEW new, NEW content, Write(file, new, content), faults \in 0 .. MaxFaults
  PROVE  /\ new \in {content, file, Torn}
         /\ faults' \in 0 .. MaxFaults
<1>1. MaxFaults \in Nat
  BY Constants
<1> QED
  BY <1>1 DEF Write

\* The counters of the day.
LEMMA TodayTyped ==
  ASSUME TypeInv
  PROVE  /\ Today \in Counters /\ Today.date = day /\ Today.use \in Use
         /\ counters.date \in Days /\ counters.use \in Use
  BY NoUseTyped DEF TypeInv, KeydTypeOK, Today, Counters

\* What is allowed is counted.
LEMMA AllowTyped ==
  ASSUME TypeInv, NEW r \in Requests, NEW use \in Use, Allow(r, use)
  PROVE  /\ counters' \in Counters /\ counters'.date = day /\ counters'.use = use
         /\ counterFile' \in {counters', counterFile, Torn}
         /\ counterFile' \in Counters \cup {Absent, Torn}
         /\ faults' \in 0 .. MaxFaults
         /\ RequestsTyped'
         /\ req'[r].step \in {"load", "sign"}
         /\ \A q \in Requests \ {r} : req'[q] = req[q]
<1>1. counters' = [date |-> day, use |-> use] /\ Write(counterFile, counterFile', counters')
  BY DEF Allow
<1>2. counters' \in Counters /\ counters'.date = day /\ counters'.use = use
  BY <1>1 DEF TypeInv, KeydTypeOK, Counters
<1>3. counterFile' \in {counters', counterFile, Torn} /\ faults' \in 0 .. MaxFaults
  BY <1>1, WriteTyped DEF TypeInv, KeydTypeOK
<1>4. Goes(r, IF req[r].op = "build" THEN "load" ELSE "sign")
  BY DEF Allow
<1>5. /\ RequestsTyped' /\ req'[r].step \in {"load", "sign"}
      /\ \A q \in Requests \ {r} : req'[q] = req[q]
  BY <1>4, RequestGoes DEF TypeInv, Steps
<1> QED
  BY <1>2, <1>3, <1>5 DEF TypeInv, KeydTypeOK

LEMMA DenyTyped ==
  ASSUME TypeInv, NEW r \in Requests, Deny(r)
  PROVE  /\ counters' = Today /\ counters' \in Counters
         /\ UNCHANGED <<counterFile, faults, granted>>
         /\ RequestsTyped'
         /\ req'[r].step = "logging"
         /\ \A q \in Requests \ {r} : req'[q] = req[q]
  BY TodayTyped, RequestGoes DEF TypeInv, Deny, Steps

\* Loading a key only adds the wallet to the cache, if its key can be had; the
\* request goes on then, or ends.
LEMMA KeyLoaded ==
  ASSUME NEW w, NEW A \in BOOLEAN, NEW B \in BOOLEAN, LoadKey(w, A, B)
  PROVE  /\ cache' \subseteq cache \cup {w}
         /\ w \in cache' => w \in cache \/ keyFile[w] = derived
         /\ A \/ B
  BY DEF LoadKey, Decrypts

USE DEF memory, files, environment, observers

LEMMA TypeInvInit ==
  KeydInit => TypeInv
<1> SUFFICES ASSUME KeydInit
             PROVE  TypeInv
  OBVIOUS
<1>1. RequestsTyped
  BY IdleTyped DEF KeydInit, RequestsTyped
<1>2. 1 \in Days /\ 0 \in 0 .. MaxCrashes /\ 0 \in 0 .. MaxFaults
  BY Constants DEF Days
<1>3. Fresh(1) \in Counters
  BY <1>2, NoUseTyped
<1>4. [d \in Days |-> NoUse] \in [Days -> Use]
  BY NoUseTyped
<1>5. req \in [Requests -> [step: Steps, op: {"create", "delete", "sign", "send", "build"},
                            wallet: Wallets \cup {None}, amount: Amounts \cup {None},
                            to: Destinations \cup {None}]]
  BY <1>1 DEF RequestsTyped, RequestType
<1> QED
  <2>1. /\ keydUp = FALSE /\ index \subseteq Wallets /\ cache \subseteq Wallets
        /\ derived \in (Generations \X Generations) \cup {None}
        /\ signer \in Requests \cup {None}
    BY DEF KeydInit
  <2>4. {masterKey, masterSalt} \subseteq Generations \cup {Absent, Torn}
    BY DEF KeydInit
  <2>5. indexFile \in (SUBSET Wallets) \cup {Absent, Torn}
    <3>1. indexFile = Absent
      BY DEF KeydInit
    <3> QED
      BY <3>1
  <2>6. excused \subseteq Days /\ deleted \cup botched \cup minted \subseteq Wallets
    BY DEF KeydInit
  <2>2. /\ keyFile \in [Wallets -> (Generations \X Generations) \cup {Absent, Torn}]
        /\ counterFile \in Counters \cup {Absent, Torn}
        /\ counters \in Counters /\ granted \in [Days -> Use]
        /\ day \in Days /\ keydCrashes \in 0 .. MaxCrashes /\ faults \in 0 .. MaxFaults
    BY <1>2, <1>3, <1>4 DEF KeydInit
  <2> QED
    BY <1>1, <1>5, <2>1, <2>2, <2>4, <2>5, <2>6 DEF TypeInv, KeydTypeOK

\* The days that are not counted any more.
LEMMA ExcuseTyped ==
  ASSUME TypeInv, NEW days \in SUBSET Days, Excuse(days)
  PROVE  /\ granted' \in [Days -> Use] /\ excused' \subseteq Days
         /\ excused' = excused \cup days
         /\ \A d \in Days \ excused' : granted'[d] = granted[d]
<1>1. \A d \in Days : (IF d \in days THEN NoUse ELSE granted[d]) \in Use
  BY NoUseTyped DEF TypeInv, KeydTypeOK
<1> QED
  BY <1>1 DEF Excuse, TypeInv, KeydTypeOK

\* A step that leaves everything but requests, mutex and cache alone.
LEMMA TypeRequests ==
  ASSUME TypeInv, RequestsTyped', signer' \in Requests \cup {None}, cache' \subseteq Wallets,
         UNCHANGED <<keydUp, index, derived, counters, files, environment, observers>>
  PROVE  TypeInv'
<1>1. req' \in [Requests -> [step: Steps, op: {"create", "delete", "sign", "send", "build"},
                             wallet: Wallets \cup {None}, amount: Amounts \cup {None},
                             to: Destinations \cup {None}]]
  BY DEF RequestsTyped, RequestType
<1> QED
  BY <1>1 DEF TypeInv, KeydTypeOK

LEMMA TypeArrives ==
  ASSUME TypeInv, NEW r \in Requests, NEW b \in Bodies, KeydArrives(r, b)
  PROVE  TypeInv'
<1> DEFINE first == IF b.op \in {"create", "delete"} THEN b.op ELSE "lookup"
           q == [step |-> first, op |-> b.op, wallet |-> b.wallet, amount |-> b.amount, to |-> b.to]
<1>1. q \in RequestType /\ Complete(q)
  BY DEF Bodies, RequestType, Complete, Steps
<1>2. req' = [req EXCEPT ![r] = q]
  BY DEF KeydArrives
<1>3. RequestsTyped'
  BY <1>1, <1>2, OneRequest DEF TypeInv
<1>4. /\ UNCHANGED <<keydUp, index, derived, counters, files, environment, observers>>
      /\ signer' \in Requests \cup {None} /\ cache' \subseteq Wallets
  BY DEF KeydArrives, TypeInv, KeydTypeOK
<1> QED
  BY <1>3, <1>4, TypeRequests

\* The other steps of a request that touch neither list nor files.
LEMMA TypeProceeds ==
  ASSUME TypeInv, NEW r \in Requests,
         Lookup(r) \/ Sign(r) \/ BadPayload(r) \/ Load(r) \/ Build(r) \/ ReceiptLogged(r)
            \/ KeydHangUp(r)
  PROVE  TypeInv'
<1>1. UNCHANGED <<keydUp, index, derived, counters, files, environment, observers>>
  BY DEF Lookup, Sign, BadPayload, Load, Build, ReceiptLogged, KeydHangUp
<1>2. signer' \in Requests \cup {None}
  BY DEF Lookup, Sign, BadPayload, Load, Build, ReceiptLogged, KeydHangUp, LoadKey,
         TypeInv, KeydTypeOK
<1>3. cache' \subseteq Wallets
  <2>1. CASE Sign(r)
    BY <2>1 DEF Sign, LoadKey, TypeInv, KeydTypeOK
  <2>2. CASE Load(r)
    <3>1. req[r].wallet \in Wallets
      BY <2>2 DEF Load, TypeInv, RequestsTyped, Complete
    <3> QED
      BY <2>2, <3>1 DEF Load, LoadKey, TypeInv, KeydTypeOK
  <2> QED
    BY <2>1, <2>2 DEF Lookup, BadPayload, Build, ReceiptLogged, KeydHangUp, TypeInv, KeydTypeOK
<1>4. Ends(r) \/ \E st \in Steps \ {"load"} : Goes(r, st)
  BY DEF Lookup, Sign, BadPayload, Load, Build, ReceiptLogged, KeydHangUp, LoadKey, Steps
<1>5. RequestsTyped'
  BY <1>4, RequestGoes, RequestEnds DEF TypeInv
<1> QED
  BY <1>1, <1>2, <1>3, <1>5, TypeRequests

LEMMA TypeCreate ==
  ASSUME TypeInv, NEW r \in Requests, CreateWallet(r)
  PROVE  TypeInv'
<1>1. PICK w \in Wallets \ minted :
          /\ minted' = minted \cup {w}
          /\ index' \in {index, index \cup {w}}
          /\ \E f \in {Absent, Torn, derived} : keyFile' = [keyFile EXCEPT ![w] = f]
          /\ indexFile' \in {index', indexFile, Torn}
          /\ faults' \in 0 .. MaxFaults
          /\ signer' \in {signer, r}
          /\ Ends(r) \/ Goes(r, "receipt")
  <2>1. MaxFaults \in Nat /\ faults \in 0 .. MaxFaults
    BY Constants DEF TypeInv, KeydTypeOK
  <2> QED
    BY <2>1, WriteTyped DEF CreateWallet
<1>2. /\ keydUp /\ UNCHANGED <<keydUp, cache, derived, counters, masterKey, masterSalt, counterFile,
                               day, keydCrashes, granted, excused, deleted, botched>>
  BY DEF CreateWallet, SignerFree
<1>3. RequestsTyped'
  BY <1>1, RequestGoes, RequestEnds DEF TypeInv, Steps
<1>4. req' \in [Requests -> [step: Steps, op: {"create", "delete", "sign", "send", "build"},
                             wallet: Wallets \cup {None}, amount: Amounts \cup {None},
                             to: Destinations \cup {None}]]
  BY <1>3 DEF RequestsTyped, RequestType
<1>5. keyFile' \in [Wallets -> (Generations \X Generations) \cup {Absent, Torn}]
  <2>1. derived \in Generations \X Generations
    BY <1>2 DEF TypeInv
  <2> QED
    BY <1>1, <2>1 DEF TypeInv, KeydTypeOK
<1>6. indexFile' \in (SUBSET Wallets) \cup {Absent, Torn}
  BY <1>1 DEF TypeInv, KeydTypeOK
<1>7. /\ index' \subseteq Wallets /\ signer' \in Requests \cup {None}
      /\ deleted' \cup botched' \cup minted' \subseteq Wallets
  BY <1>1, <1>2 DEF TypeInv, KeydTypeOK
<1> QED
  BY <1>1, <1>2, <1>3, <1>4, <1>5, <1>6, <1>7 DEF TypeInv, KeydTypeOK

LEMMA TypeDelete ==
  ASSUME TypeInv, NEW r \in Requests, DeleteWallet(r)
  PROVE  TypeInv'
<1> DEFINE w == req[r].wallet
<1>1. /\ UNCHANGED <<keydUp, derived, counters, masterKey, masterSalt, counterFile, day,
                     keydCrashes, granted, excused, minted>>
      /\ keyFile' \in {keyFile, [keyFile EXCEPT ![w] = Absent]}
      /\ cache' \subseteq cache /\ index' \subseteq index
      /\ signer' \in {signer, r}
      /\ Ends(r) \/ Goes(r, "receipt")
      /\ deleted' \subseteq deleted \cup index /\ botched' \subseteq botched \cup index
  BY DEF DeleteWallet
<1>2. faults' \in 0 .. MaxFaults /\ indexFile' \in (SUBSET Wallets) \cup {Absent, Torn}
  BY WriteTyped DEF DeleteWallet, TypeInv, KeydTypeOK
<1>3. RequestsTyped'
  BY <1>1, RequestGoes, RequestEnds DEF TypeInv, Steps
<1>4. req' \in [Requests -> [step: Steps, op: {"create", "delete", "sign", "send", "build"},
                             wallet: Wallets \cup {None}, amount: Amounts \cup {None},
                             to: Destinations \cup {None}]]
  BY <1>3 DEF RequestsTyped, RequestType
<1>5. keyFile' \in [Wallets -> (Generations \X Generations) \cup {Absent, Torn}]
  BY <1>1 DEF TypeInv, KeydTypeOK
<1>6. /\ index' \subseteq Wallets /\ cache' \subseteq Wallets
      /\ signer' \in Requests \cup {None}
      /\ deleted' \cup botched' \cup minted' \subseteq Wallets
  BY <1>1 DEF TypeInv, KeydTypeOK
<1> QED
  BY <1>1, <1>2, <1>3, <1>4, <1>5, <1>6 DEF TypeInv, KeydTypeOK

\* The policy is asked: what it allows is counted.
LEMMA PolicyAsked ==
  ASSUME TypeInv, NEW r \in Requests, CheckSign(r) \/ CheckSend(r)
  PROVE  /\ keydUp
         /\ UNCHANGED <<keydUp, index, cache, derived, signer, masterKey, masterSalt, keyFile,
                        indexFile, day, keydCrashes, excused, deleted, botched, minted>>
         /\ \/ Deny(r)
            \/ /\ CheckSign(r) /\ SignAllowed
               /\ Allow(r, AfterSign(Today.use))
               /\ granted' = [granted EXCEPT ![day] =
                                IF day \in excused THEN granted[day] ELSE AfterSign(granted[day])]
            \/ \E c \in Chains, a \in Amounts, to \in Destinations \cup {None} :
                  /\ SendAllowed(c, a, to)
                  /\ Allow(r, AfterSend(Today.use, c, a))
                  /\ granted' = [granted EXCEPT ![day] =
                                   IF day \in excused THEN granted[day]
                                   ELSE AfterSend(granted[day], c, a)]
<1>1. CASE CheckSign(r)
  BY <1>1 DEF CheckSign
<1>2. CASE CheckSend(r)
  <2> DEFINE c == ChainOf[req[r].wallet]
             a == req[r].amount
             to == req[r].to
  <2>1. req[r].wallet \in Wallets /\ a \in Amounts /\ to \in Destinations \cup {None}
    BY <1>2 DEF CheckSend, TypeInv, RequestsTyped, Complete, RequestType
  <2>2. c \in Chains
    BY <2>1, Constants
  <2>3. IF SendAllowed(c, a, to)
           THEN /\ Allow(r, AfterSend(Today.use, c, a))
                /\ granted' = [granted EXCEPT ![day] =
                                 IF day \in excused THEN granted[day]
                                 ELSE AfterSend(granted[day], c, a)]
           ELSE Deny(r)
    BY <1>2 DEF CheckSend
  <2>4. /\ keydUp
        /\ UNCHANGED <<keydUp, index, cache, derived, signer, masterKey, masterSalt, keyFile,
                       indexFile, day, keydCrashes, excused, deleted, botched, minted>>
    BY <1>2 DEF CheckSend
  <2> HIDE DEF c, a, to
  <2> QED
    BY <2>1, <2>2, <2>3, <2>4
<1> QED
  BY <1>1, <1>2

\* The same, typed.
LEMMA PolicyTyped ==
  ASSUME TypeInv, NEW r \in Requests, CheckSign(r) \/ CheckSend(r)
  PROVE  /\ counters' \in Counters
         /\ counterFile' \in Counters \cup {Absent, Torn}
         /\ faults' \in 0 .. MaxFaults
         /\ granted' \in [Days -> Use]
         /\ RequestsTyped'
         /\ req'[r].step \in {"load", "sign", "logging"}
         /\ \A q \in Requests \ {r} : req'[q] = req[q]
<1>1. Today.use \in Use /\ day \in Days /\ granted \in [Days -> Use] /\ granted[day] \in Use
  BY TodayTyped DEF TypeInv, KeydTypeOK
<1>2. CASE Deny(r)
  BY <1>1, <1>2, DenyTyped DEF TypeInv, KeydTypeOK
<1>3. CASE /\ Allow(r, AfterSign(Today.use))
           /\ granted' = [granted EXCEPT ![day] =
                            IF day \in excused THEN granted[day] ELSE AfterSign(granted[day])]
  <2>1. AfterSign(Today.use) \in Use /\ AfterSign(granted[day]) \in Use
    BY <1>1, AfterSignTyped
  <2>2. granted' \in [Days -> Use]
    BY <1>1, <1>3, <2>1
  <2> QED
    BY <1>3, <2>1, <2>2, AllowTyped
<1>4. ASSUME NEW c \in Chains, NEW a \in Amounts, NEW to, SendAllowed(c, a, to),
             Allow(r, AfterSend(Today.use, c, a)),
             granted' = [granted EXCEPT ![day] =
                           IF day \in excused THEN granted[day] ELSE AfterSend(granted[day], c, a)]
      PROVE  /\ counters' \in Counters
             /\ counterFile' \in Counters \cup {Absent, Torn}
             /\ faults' \in 0 .. MaxFaults
             /\ granted' \in [Days -> Use]
             /\ RequestsTyped'
             /\ req'[r].step \in {"load", "sign", "logging"}
             /\ \A q \in Requests \ {r} : req'[q] = req[q]
  <2>1. Parsed(a) # {}
    BY <1>4 DEF SendAllowed
  <2>2. AfterSend(Today.use, c, a) \in Use /\ AfterSend(granted[day], c, a) \in Use
    BY <1>1, <2>1, AfterSendTyped
  <2>3. granted' \in [Days -> Use]
    BY <1>1, <1>4, <2>2
  <2> QED
    BY <1>4, <2>2, <2>3, AllowTyped
<1> QED
  BY <1>2, <1>3, <1>4, PolicyAsked

LEMMA TypePolicy ==
  ASSUME TypeInv, NEW r \in Requests, CheckSign(r) \/ CheckSend(r)
  PROVE  TypeInv'
<1>1. req' \in [Requests -> [step: Steps, op: {"create", "delete", "sign", "send", "build"},
                             wallet: Wallets \cup {None}, amount: Amounts \cup {None},
                             to: Destinations \cup {None}]]
  BY PolicyTyped DEF RequestsTyped, RequestType
<1>2. UNCHANGED <<keydUp, index, cache, derived, signer, masterKey, masterSalt, keyFile,
                  indexFile, day, keydCrashes, excused, deleted, botched, minted>>
  BY PolicyAsked
<1> QED
  BY <1>1, <1>2, PolicyTyped DEF TypeInv, KeydTypeOK

\* Time passes, or the clock is set back.
LEMMA TypeClock ==
  ASSUME TypeInv, DayPasses \/ ClockSetBack
  PROVE  TypeInv'
<1>1. day' \in Days
  BY Constants DEF DayPasses, ClockSetBack, TypeInv, KeydTypeOK, Days
<1>2. granted' \in [Days -> Use] /\ excused' \subseteq Days
  BY ExcuseTyped DEF DayPasses, ClockSetBack, TypeInv, KeydTypeOK
<1>3. /\ UNCHANGED <<keydUp, index, cache, derived, counters, signer, req, files, keydCrashes,
                     faults, deleted, botched, minted>>
  BY DEF DayPasses, ClockSetBack
<1>4. RequestsTyped'
  BY <1>3 DEF TypeInv, RequestsTyped
<1> QED
  BY <1>1, <1>2, <1>3, <1>4 DEF TypeInv, KeydTypeOK

LEMMA CountOneMore ==
  ASSUME TypeInv, keydCrashes < MaxCrashes
  PROVE  keydCrashes + 1 \in 0 .. MaxCrashes
  BY Constants DEF TypeInv, KeydTypeOK

LEMMA TypeCrash ==
  ASSUME TypeInv, KeydCrash
  PROVE  TypeInv'
<1>1. keydCrashes' \in 0 .. MaxCrashes
  BY CountOneMore DEF KeydCrash
<1>2. granted' \in [Days -> Use] /\ excused' \subseteq Days
  <2> DEFINE days == IF counterFile = counters \/ counters.use = NoUse THEN {} ELSE {counters.date}
  <2>1. days \subseteq Days /\ Excuse(days)
    BY TodayTyped DEF KeydCrash
  <2> QED
    BY <2>1, ExcuseTyped
<1>3. counters' \in Counters
  BY NoUseTyped DEF KeydCrash, TypeInv, KeydTypeOK
<1>4. RequestsTyped'
  BY IdleTyped DEF KeydCrash, RequestsTyped
<1>5. req' \in [Requests -> [step: Steps, op: {"create", "delete", "sign", "send", "build"},
                             wallet: Wallets \cup {None}, amount: Amounts \cup {None},
                             to: Destinations \cup {None}]]
  BY <1>4 DEF RequestsTyped, RequestType
<1>6. /\ keydUp' = FALSE /\ index' = {} /\ cache' = {} /\ derived' = None /\ signer' = None
      /\ UNCHANGED <<files, day, faults, deleted, botched, minted>>
  BY DEF KeydCrash
<1> QED
  BY <1>1, <1>2, <1>3, <1>4, <1>5, <1>6 DEF TypeInv, KeydTypeOK

LEMMA TypeGenerate ==
  ASSUME TypeInv, Generate
  PROVE  TypeInv'
<1>1. keydCrashes' \in 0 .. MaxCrashes /\ keydCrashes \in Generations
  BY CountOneMore DEF Generate, TypeInv, KeydTypeOK, Generations
<1>2. {masterKey', masterSalt'} \subseteq Generations \cup {Absent, Torn}
  BY <1>1 DEF Generate, TypeInv, KeydTypeOK
<1>3. /\ UNCHANGED <<memory, keyFile, indexFile, counterFile, day, faults, observers>>
  BY DEF Generate
<1>4. RequestsTyped'
  BY <1>3 DEF TypeInv, RequestsTyped
<1> QED
  BY <1>1, <1>2, <1>3, <1>4 DEF TypeInv, KeydTypeOK

LEMMA TypeStart ==
  ASSUME TypeInv, KeydStart
  PROVE  TypeInv' /\ derived' = DerivedKey /\ derived' \in Generations \X Generations
<1>1. derived' \in Generations \X Generations /\ derived' = DerivedKey
  BY DEF KeydStart, Startable, DerivedKey, TypeInv, KeydTypeOK
<1>2. index' \subseteq Wallets
  BY DEF KeydStart, Startable, TypeInv, KeydTypeOK
<1>3. counters' \in Counters
  BY NoUseTyped DEF KeydStart, LoadedCounters, TypeInv, KeydTypeOK
<1>4. /\ UNCHANGED <<cache, signer, req, files, environment, observers>> /\ keydUp' = TRUE
  BY DEF KeydStart
<1>5. RequestsTyped'
  BY <1>4 DEF TypeInv, RequestsTyped
<1> QED
  BY <1>1, <1>2, <1>3, <1>4, <1>5 DEF TypeInv, KeydTypeOK

LEMMA TypeInvStep ==
  TypeInv /\ [KeydNext]_keydVars => TypeInv'
<1> SUFFICES ASSUME TypeInv, [KeydNext]_keydVars
             PROVE  TypeInv'
  OBVIOUS
<1>1. ASSUME NEW r \in Requests, NEW b \in Bodies, KeydArrives(r, b)
      PROVE  TypeInv'
  BY <1>1, TypeArrives
<1>2. ASSUME NEW r \in Requests, KeydProceeds(r) \/ KeydHangUp(r)
      PROVE  TypeInv'
  BY <1>2, TypeCreate, TypeDelete, TypePolicy, TypeProceeds DEF KeydProceeds
<1>3. CASE DayPasses \/ ClockSetBack
  BY <1>3, TypeClock
<1>4. CASE KeydCrash
  BY <1>4, TypeCrash
<1>5. CASE Generate
  BY <1>5, TypeGenerate
<1>6. CASE KeydStart
  BY <1>6, TypeStart
<1>7. CASE KeydStartFails \/ UNCHANGED keydVars
  BY <1>7 DEF KeydStartFails, keydVars, TypeInv, KeydTypeOK, RequestsTyped
<1> QED
  BY <1>1, <1>2, <1>3, <1>4, <1>5, <1>6, <1>7 DEF KeydNext

-----------------------------------------------------------------------------
(* The mutex of the signer.                                                *)

\* Who waits for the answer to a receipt has it, and nobody else.
MutexInv ==
    /\ \A r \in Requests : req[r].step = "receipt" <=> signer = r
    /\ ~ keydUp => signer = None

LEMMA MutexStep ==
  ASSUME TypeInv, MutexInv, [KeydNext]_keydVars
  PROVE  MutexInv'
<1> USE DEF MutexInv
<1>0. None \notin Requests /\ RequestsTyped
  BY Constants DEF TypeInv
\* The request r moves while the mutex is free, and takes it if it has a receipt.
<1>1. ASSUME NEW r \in Requests, keydUp, keydUp', signer = None,
             \/ Goes(r, "receipt") /\ signer' = r
             \/ Ends(r) /\ signer' = signer
             \/ \E st \in Steps \ {"receipt", "load"} : Goes(r, st) /\ signer' = signer
      PROVE  MutexInv'
  BY <1>0, <1>1, RequestGoes, RequestEnds DEF Steps
<1>2. ASSUME NEW r \in Requests, CreateWallet(r) \/ DeleteWallet(r) \/ Lookup(r) \/ Sign(r) \/ Load(r)
      PROVE  MutexInv'
  <2>1. keydUp /\ signer = None /\ keydUp' = keydUp
    BY <1>2 DEF CreateWallet, DeleteWallet, Lookup, Sign, Load, SignerFree
  <2>2. \/ Goes(r, "receipt") /\ signer' = r
        \/ Ends(r) /\ signer' = signer
        \/ \E st \in Steps \ {"receipt", "load"} : Goes(r, st) /\ signer' = signer
    BY <1>2 DEF CreateWallet, DeleteWallet, Lookup, Sign, Load, LoadKey, Steps
  <2> QED
    BY <1>1, <2>1, <2>2
\* The request r moves, and had nothing to do with the mutex.
<1>3. ASSUME NEW r \in Requests, keydUp' = keydUp, signer' = signer,
             req[r].step # "receipt", req'[r].step # "receipt",
             \A q \in Requests \ {r} : req'[q] = req[q]
      PROVE  MutexInv'
  BY <1>3
<1>4. ASSUME NEW r \in Requests, NEW b \in Bodies, KeydArrives(r, b)
      PROVE  MutexInv'
  <2>1. req'[r].step # "receipt" /\ \A q \in Requests \ {r} : req'[q] = req[q]
    BY <1>0, <1>4 DEF KeydArrives, Bodies, RequestsTyped
  <2>2. req[r].step # "receipt" /\ UNCHANGED <<keydUp, signer>>
    BY <1>4 DEF KeydArrives
  <2> QED
    BY <1>3, <2>1, <2>2
<1>5. ASSUME NEW r \in Requests, CheckSign(r) \/ CheckSend(r)
      PROVE  MutexInv'
  <2>1. req[r].step # "receipt"
    BY <1>5 DEF CheckSign, CheckSend
  <2> QED
    BY <1>3, <1>5, <2>1, PolicyTyped, PolicyAsked
<1>6. ASSUME NEW r \in Requests, BadPayload(r) \/ Build(r)
      PROVE  MutexInv'
  <2>1. req[r].step # "receipt" /\ UNCHANGED <<keydUp, signer>>
        /\ (Ends(r) \/ Goes(r, "logging"))
    BY <1>6 DEF BadPayload, Build
  <2>2. req'[r].step # "receipt" /\ \A q \in Requests \ {r} : req'[q] = req[q]
    BY <1>0, <2>1, RequestGoes, RequestEnds DEF Steps
  <2> QED
    BY <1>3, <2>1, <2>2
<1>7. ASSUME NEW r \in Requests, ReceiptLogged(r) \/ KeydHangUp(r)
      PROVE  MutexInv'
  <2>1. /\ Ends(r) /\ keydUp /\ keydUp' = keydUp
        /\ signer' = IF signer = r THEN None ELSE signer
    BY <1>7 DEF ReceiptLogged, KeydHangUp
  <2>2. req'[r].step # "receipt" /\ \A q \in Requests \ {r} : req'[q] = req[q]
    BY <1>0, <2>1, RequestEnds
  <2> QED
    BY <1>0, <2>1, <2>2
<1>8. CASE KeydCrash
  <2>1. keydUp' = FALSE /\ signer' = None /\ req' = [r \in Requests |-> Idle]
    BY <1>8 DEF KeydCrash
  <2> QED
    BY <1>0, <2>1, IdleTyped
<1>9. CASE DayPasses \/ ClockSetBack \/ Generate \/ KeydStart \/ KeydStartFails \/ UNCHANGED keydVars
  <2>1. UNCHANGED <<req, signer>> /\ (keydUp => keydUp')
    BY <1>9 DEF DayPasses, ClockSetBack, Generate, KeydStart, KeydStartFails, keydVars
  <2>2. keydUp' \in BOOLEAN
    BY TypeInvStep DEF TypeInv, KeydTypeOK
  <2> QED
    BY <2>1
<1> QED
  BY <1>2, <1>4, <1>5, <1>6, <1>7, <1>8, <1>9 DEF KeydNext, KeydProceeds

-----------------------------------------------------------------------------
(* Keys and lists.                                                         *)

\* A wallet that is listed or was deleted has been made; a deleted one is nowhere.
DeletedInv ==
    /\ deleted \cup index \subseteq minted
    /\ indexFile \notin {Absent, Torn} => indexFile \subseteq minted
    /\ DeletedIsGone

\* Signing and building may cache a key, of a wallet whose key can be had.
LEMMA CachedKeys ==
  ASSUME TypeInv, NEW r \in Requests, KeydProceeds(r) \/ KeydHangUp(r),
         ~ CreateWallet(r), ~ DeleteWallet(r)
  PROVE  /\ keydUp
         /\ UNCHANGED <<keydUp, index, derived, masterKey, masterSalt, keyFile, indexFile,
                        deleted, botched, minted>>
         /\ \A w \in cache' : w \in cache \/ keyFile[w] = derived
<1>1. CASE CheckSign(r) \/ CheckSend(r)
  BY <1>1, PolicyAsked
<1>2. CASE Sign(r) \/ Load(r)
  BY <1>2 DEF Sign, Load, LoadKey, Decrypts, SignerFree
<1>3. CASE Lookup(r) \/ BadPayload(r) \/ Build(r) \/ ReceiptLogged(r) \/ KeydHangUp(r)
  BY <1>3 DEF Lookup, BadPayload, Build, ReceiptLogged, KeydHangUp, SignerFree
<1> QED
  BY <1>1, <1>2, <1>3 DEF KeydProceeds

\* Steps that touch neither keys nor lists.
LEMMA KeysAlone ==
  ASSUME TypeInv, [KeydNext]_keydVars,
         \A r \in Requests : ~ CreateWallet(r) /\ ~ DeleteWallet(r),
         ~ KeydCrash, ~ Generate, ~ KeydStart
  PROVE  /\ UNCHANGED <<keydUp, index, derived, masterKey, masterSalt, keyFile, indexFile,
                        deleted, botched, minted>>
         /\ \A w \in cache' : w \in cache \/ (keydUp /\ keyFile[w] = derived)
<1> DEFINE Alone ==
        /\ UNCHANGED <<keydUp, index, derived, masterKey, masterSalt, keyFile, indexFile,
                       deleted, botched, minted>>
        /\ \A w \in cache' : w \in cache \/ (keydUp /\ keyFile[w] = derived)
<1>1. ASSUME NEW r \in Requests, KeydProceeds(r) \/ KeydHangUp(r)
      PROVE  Alone
  BY <1>1, CachedKeys
<1>2. ASSUME NEW r \in Requests, NEW b \in Bodies, KeydArrives(r, b)
      PROVE  Alone
  <2>1. UNCHANGED <<keydUp, index, cache, derived, masterKey, masterSalt, keyFile, indexFile,
                    deleted, botched, minted>>
    BY <1>2 DEF KeydArrives
  <2> QED
    BY <2>1
<1>3. ASSUME DayPasses \/ ClockSetBack \/ KeydStartFails \/ UNCHANGED keydVars
      PROVE  Alone
  <2>1. UNCHANGED <<keydUp, index, cache, derived, masterKey, masterSalt, keyFile, indexFile,
                    deleted, botched, minted>>
    BY <1>3 DEF DayPasses, ClockSetBack, KeydStartFails, keydVars
  <2> QED
    BY <2>1
<1> HIDE DEF Alone
<1>4. Alone
  BY <1>1, <1>2, <1>3 DEF KeydNext
<1> QED
  BY <1>4 DEF Alone

LEMMA DeletedStep ==
  ASSUME TypeInv, DeletedInv, [KeydNext]_keydVars
  PROVE  DeletedInv'
<1> USE DEF DeletedInv, DeletedIsGone
<1>1. Absent \notin Generations \X Generations
  BY FileMarks, Zenon
<1>2. ASSUME NEW r \in Requests, CreateWallet(r)
      PROVE  DeletedInv'
  <2>1. PICK w \in Wallets \ minted :
            /\ minted' = minted \cup {w}
            /\ index' \in {index, index \cup {w}}
            /\ \E f \in {Absent, Torn, derived} : keyFile' = [keyFile EXCEPT ![w] = f]
            /\ indexFile' \in {index', indexFile, Torn}
    BY <1>2 DEF CreateWallet, Write
  <2>2. UNCHANGED <<cache, deleted>>
    BY <1>2 DEF CreateWallet
  <2> QED
    BY <2>1, <2>2 DEF TypeInv, KeydTypeOK
<1>3. ASSUME NEW r \in Requests, DeleteWallet(r)
      PROVE  DeletedInv'
  <2> DEFINE w == req[r].wallet
  <2>1. CASE w \notin index
    BY <1>3, <2>1 DEF DeleteWallet
  <2>2. CASE w \in index
    <3>1. /\ keyFile' = [keyFile EXCEPT ![w] = Absent]
          /\ cache' = cache \ {w} /\ index' = index \ {w} /\ minted' = minted
          /\ indexFile' \in {index', indexFile, Torn}
          /\ deleted' = IF indexFile' = index' THEN deleted \cup {w} ELSE deleted
      BY <1>3, <2>2 DEF DeleteWallet, Write
    <3>2. w \in Wallets /\ w \in minted
      BY <2>2 DEF TypeInv, KeydTypeOK
    <3> HIDE DEF w
    <3>3. deleted' \cup index' \subseteq minted' /\ (indexFile' \notin {Absent, Torn} => indexFile' \subseteq minted')
      BY <3>1, <3>2
    <3>4. \A d \in deleted \cup {w} : d \in Wallets /\ (d = w \/ d \in deleted)
      BY <3>2 DEF TypeInv, KeydTypeOK
    <3>5. \A d \in deleted' : d \notin cache' /\ d \notin index'
                               /\ (indexFile' \notin {Absent, Torn} => d \notin indexFile')
      BY <3>1
    <3>6. \A d \in deleted' : keyFile'[d] = Absent
      BY <3>1, <3>4 DEF TypeInv, KeydTypeOK
    <3> QED
      BY <3>3, <3>5, <3>6
  <2> QED
    BY <2>1, <2>2
<1>4. CASE KeydCrash
  BY <1>4 DEF KeydCrash, Excuse
<1>5. CASE Generate
  BY <1>5 DEF Generate
<1>6. CASE KeydStart
  BY <1>6 DEF KeydStart, Startable
<1>7. ASSUME \A r \in Requests : ~ CreateWallet(r) /\ ~ DeleteWallet(r),
             ~ KeydCrash, ~ Generate, ~ KeydStart
      PROVE  DeletedInv'
  <2>1. /\ UNCHANGED <<index, keyFile, indexFile, deleted, minted>>
        /\ \A w \in cache' : w \in cache \/ (keydUp /\ keyFile[w] = derived)
    BY <1>7, KeysAlone
  <2>2. ASSUME NEW w \in deleted
        PROVE  ~ (keydUp /\ keyFile[w] = derived)
    BY <1>1 DEF TypeInv
  <2> QED
    BY <2>1, <2>2
<1> QED
  BY <1>2, <1>3, <1>4, <1>5, <1>6, <1>7

\* What is listed, in memory or in the file, was made, and has its key.
Keyed(w) ==
    /\ w \in minted
    /\ {masterKey, masterSalt} \cap {Absent, Torn} = {}
    /\ keyFile[w] = DerivedKey

KeysInv ==
    /\ keydUp => /\ derived = DerivedKey
                 /\ {masterKey, masterSalt} \cap {Absent, Torn} = {}
    /\ index \cup botched \subseteq minted
    /\ indexFile \notin {Absent, Torn} => indexFile \subseteq minted
    /\ keydUp => \A w \in index \ botched : Keyed(w)
    /\ indexFile \notin {Absent, Torn} => \A w \in indexFile \ botched : Keyed(w)

\* KeysInv depends on these only.
LEMMA KeysStay ==
  ASSUME KeysInv,
         UNCHANGED <<keydUp, index, derived, masterKey, masterSalt, keyFile, indexFile, botched,
                     minted>>
  PROVE  KeysInv'
  BY DEF KeysInv, Keyed, DerivedKey

LEMMA KeysStep ==
  ASSUME TypeInv, KeysInv, [KeydNext]_keydVars
  PROVE  KeysInv'
<1>2. ASSUME NEW r \in Requests, CreateWallet(r)
      PROVE  KeysInv'
  <2>1. PICK w \in Wallets \ minted :
            /\ minted' = minted \cup {w}
            /\ \/ UNCHANGED <<index, indexFile>>
               \/ index' = index \cup {w} /\ indexFile' \in {index', indexFile, Torn}
                  /\ keyFile' = [keyFile EXCEPT ![w] = derived]
            /\ \E f \in {Absent, Torn, derived} : keyFile' = [keyFile EXCEPT ![w] = f]
    BY <1>2 DEF CreateWallet, Write
  <2>2. keydUp /\ UNCHANGED <<keydUp, derived, masterKey, masterSalt, botched>>
    BY <1>2 DEF CreateWallet, SignerFree
  <2>3. \A x \in minted : x \in Wallets /\ keyFile'[x] = keyFile[x]
    BY <2>1 DEF TypeInv, KeydTypeOK
  <2>4. \A x : Keyed(x) => Keyed(x)'
    BY <2>1, <2>2, <2>3 DEF Keyed, DerivedKey
  <2>5. index' # index => Keyed(w)'
    BY <2>1, <2>2 DEF KeysInv, Keyed, DerivedKey, TypeInv, KeydTypeOK
  <2>6. keydUp' /\ derived' = DerivedKey' /\ {masterKey', masterSalt'} \cap {Absent, Torn} = {}
    BY <2>2 DEF KeysInv, DerivedKey
  <2>7. /\ index' \cup botched' \subseteq minted'
        /\ indexFile' \notin {Absent, Torn} => indexFile' \subseteq minted'
    BY <2>1, <2>2 DEF KeysInv
  <2>8. \A x \in index' \ botched' : Keyed(x)'
    BY <2>1, <2>2, <2>4, <2>5 DEF KeysInv
  <2>9. indexFile' \notin {Absent, Torn} => \A x \in indexFile' \ botched' : Keyed(x)'
    BY <2>1, <2>2, <2>4, <2>8 DEF KeysInv
  <2> QED
    BY <2>6, <2>7, <2>8, <2>9 DEF KeysInv
<1>3. ASSUME NEW r \in Requests, DeleteWallet(r)
      PROVE  KeysInv'
  <2> DEFINE w == req[r].wallet
  <2>1. CASE w \notin index
    BY <1>3, <2>1, KeysStay DEF DeleteWallet
  <2>2. CASE w \in index
    <3>1. /\ keyFile' = [keyFile EXCEPT ![w] = Absent]
          /\ index' = index \ {w}
          /\ indexFile' \in {index', indexFile, Torn}
          /\ IF indexFile' = index' THEN botched' = botched ELSE botched' = botched \cup {w}
          /\ keydUp /\ UNCHANGED <<keydUp, minted, derived, masterKey, masterSalt>>
      BY <1>3, <2>2 DEF DeleteWallet, Write, SignerFree
    <3>2. w \in minted
      BY <2>2 DEF KeysInv
    <3> HIDE DEF w
    <3>3. \A x \in Wallets \ {w} : Keyed(x) => Keyed(x)'
      BY <3>1 DEF Keyed, DerivedKey, TypeInv, KeydTypeOK
    <3>4. minted \subseteq Wallets
      BY DEF TypeInv, KeydTypeOK
    <3>5. keydUp' /\ derived' = DerivedKey' /\ {masterKey', masterSalt'} \cap {Absent, Torn} = {}
      BY <3>1 DEF KeysInv, DerivedKey
    <3>6. /\ index' \cup botched' \subseteq minted'
          /\ indexFile' \notin {Absent, Torn} => indexFile' \subseteq minted'
      BY <3>1, <3>2 DEF KeysInv
    <3>7. \A x \in index' \ botched' : Keyed(x)'
      BY <3>1, <3>3, <3>4 DEF KeysInv
    <3>8. indexFile' \notin {Absent, Torn} => \A x \in indexFile' \ botched' : Keyed(x)'
      BY <3>1, <3>3, <3>4, <3>7 DEF KeysInv
    <3> QED
      BY <3>5, <3>6, <3>7, <3>8 DEF KeysInv
  <2> QED
    BY <2>1, <2>2
<1>4. CASE KeydCrash
  <2>1. keydUp' = FALSE /\ index' = {}
        /\ UNCHANGED <<masterKey, masterSalt, keyFile, indexFile, botched, minted>>
    BY <1>4 DEF KeydCrash
  <2> QED
    BY <2>1 DEF KeysInv, Keyed, DerivedKey
\* A part of the master key is missing, so nothing is listed with its key.
<1>5. CASE Generate
  <2>1. ~ keydUp /\ (masterKey = Absent \/ masterSalt = Absent)
        /\ UNCHANGED <<keydUp, index, keyFile, indexFile, botched, minted>>
    BY <1>5 DEF Generate
  <2>2. \A x : ~ Keyed(x)
    BY <2>1 DEF Keyed
  <2> QED
    BY <2>1, <2>2 DEF KeysInv
<1>6. CASE KeydStart
  <2>1. /\ derived' = DerivedKey /\ {masterKey, masterSalt} \cap {Absent, Torn} = {}
        /\ index' = IF indexFile = Absent THEN {} ELSE indexFile
        /\ indexFile # Torn
        /\ UNCHANGED <<masterKey, masterSalt, keyFile, indexFile, botched, minted>>
    BY <1>6 DEF KeydStart, Startable
  <2>2. \A x : Keyed(x)' <=> Keyed(x)
    BY <2>1 DEF Keyed, DerivedKey
  <2>3. DerivedKey' = DerivedKey
    BY <2>1 DEF DerivedKey
  <2> QED
    BY <2>1, <2>2, <2>3 DEF KeysInv
<1>7. ASSUME \A r \in Requests : ~ CreateWallet(r) /\ ~ DeleteWallet(r),
             ~ KeydCrash, ~ Generate, ~ KeydStart
      PROVE  KeysInv'
  BY <1>7, KeysAlone, KeysStay
<1> QED
  BY <1>2, <1>3, <1>4, <1>5, <1>6, <1>7

-----------------------------------------------------------------------------
(* The quotas.                                                             *)

\* The rules allow that much on one day.
Within(use) ==
    \A u \in Rules :
        /\ u.action = "send" => \A c \in Chains : Applies(u, "send", c) =>
              /\ \A m \in u.max_per_day : use.sends[c] <= m
              /\ \A m \in u.max_amount : use.amounts[c] <= m
        /\ u.action = "sign" => \A m \in u.max_per_day : use.signs <= m

Counted == counterFile \notin {Absent, Torn}

\* While the daemon runs its counters are of the last day on which it was asked,
\* and the file is not ahead of them.
UpInv ==
    /\ counters.date <= day
    /\ Counted => /\ counterFile.date <= counters.date
                  /\ counterFile.date = counters.date /\ counters.use = NoUse
                        => counterFile.use = NoUse
    /\ \A d \in Days \ excused :
          /\ d = counters.date => granted[d] = counters.use
          /\ d > counters.date => granted[d] = NoUse

\* While it does not run the file has all that was allowed on this day.
DownInv ==
    /\ Counted => counterFile.date <= day
    /\ \A d \in Days \ excused : d >= day =>
          granted[d] = IF Counted /\ counterFile.date = d THEN counterFile.use ELSE NoUse

QuotaInv ==
    \/ excused = Days
    \/ /\ \A d \in Days \ excused : Within(granted[d])
       /\ IF keydUp THEN UpInv ELSE DownInv

LEMMA NoUseWithin ==
  Within(NoUse)
<1>1. \A u \in Rules : u.max_per_day \subseteq Nat /\ u.max_amount \subseteq Nat
  BY RuleParts
<1> QED
  BY <1>1 DEF Within, NoUse

\* What check_send allows is within the rules, once it is counted.
LEMMA SendWithin ==
  ASSUME TypeInv, Within(Today.use), NEW c \in Chains, NEW a \in Amounts, NEW to,
         SendAllowed(c, a, to)
  PROVE  /\ AfterSend(Today.use, c, a) \in Use
         /\ AfterSend(Today.use, c, a) # NoUse
         /\ Within(AfterSend(Today.use, c, a))
<1> DEFINE use == Today.use
           after == AfterSend(use, c, a)
           v == CHOOSE x \in Parsed(a) : TRUE
<1>1. use \in Use /\ Parsed(a) # {}
  BY TodayTyped DEF SendAllowed
<1>2. v \in 0 .. MaxFixed /\ Parsed(a) = {v}
  BY <1>1, ParsedTyped
<1>3. /\ after \in Use /\ after # NoUse
      /\ after.sends = [use.sends EXCEPT ![c] = use.sends[c] + 1]
      /\ after.signs = use.signs
      /\ \A d \in Chains \ {c} : after.amounts[d] = use.amounts[d]
      /\ \/ after.amounts[c] = use.amounts[c] + v
         \/ after.amounts[c] = use.amounts[c] /\ CheckedAdd(use.amounts[c], v) = {}
  BY <1>1, AfterSendTyped
<1>4. \A u \in Rules : Applies(u, "send", c) =>
         /\ \A m \in u.max_per_day : use.sends[c] < m
         /\ \A m \in u.max_amount : \E total \in CheckedAdd(use.amounts[c], v) : total <= m
  <2>1. PICK value \in Parsed(a) : \A u \in Rules : Applies(u, "send", c) =>
            /\ \A m \in u.max_per_day : use.sends[c] < m
            /\ \A m \in u.max_amount :
                  \E total \in CheckedAdd(use.amounts[c], value) : total <= m
    BY DEF SendAllowed
  <2>2. value = v
    BY <1>2
  <2> QED
    BY <2>1, <2>2
<1>5. /\ use.sends \in [Chains -> Nat] /\ use.amounts \in [Chains -> 0 .. MaxFixed]
      /\ MaxFixed \in Nat
  BY <1>1, Constants DEF Use
<1>6. Within(use)
  OBVIOUS
<1> HIDE DEF use, after, v
<1>7. ASSUME NEW u \in Rules, u.action = "send", NEW d \in Chains, Applies(u, "send", d)
      PROVE  /\ \A m \in u.max_per_day : after.sends[d] <= m
             /\ \A m \in u.max_amount : after.amounts[d] <= m
  <2>1. u.max_per_day \subseteq Nat /\ u.max_amount \subseteq Nat
    BY RuleParts
  <2>2. CASE d = c
    <3>1. \A m \in u.max_per_day : after.sends[c] <= m
      <4>1. \A m \in u.max_per_day : use.sends[c] < m
        BY <1>4, <1>7, <2>2
      <4>2. use.sends[c] \in Nat /\ after.sends[c] = use.sends[c] + 1
        BY <1>3, <1>5
      <4> QED
        BY <2>1, <4>1, <4>2
    <3>2. ASSUME NEW m \in u.max_amount
          PROVE  after.amounts[c] <= m
      <4>1. PICK total \in CheckedAdd(use.amounts[c], v) : total <= m
        BY <1>4, <1>7, <2>2
      <4>2. total = use.amounts[c] + v /\ CheckedAdd(use.amounts[c], v) # {}
        BY <4>1 DEF CheckedAdd
      <4> QED
        BY <1>3, <4>1, <4>2
    <3> QED
      BY <2>2, <3>1, <3>2
  <2>3. CASE d # c
    <3>1. after.sends[d] = use.sends[d] /\ after.amounts[d] = use.amounts[d]
      BY <1>3, <1>5, <2>3
    <3> QED
      BY <1>6, <1>7, <3>1 DEF Within
  <2> QED
    BY <2>2, <2>3
<1>8. Within(after)
  BY <1>3, <1>6, <1>7 DEF Within
<1> QED
  BY <1>3, <1>8 DEF after, use

LEMMA SignWithin ==
  ASSUME TypeInv, Within(Today.use), SignAllowed
  PROVE  /\ AfterSign(Today.use) \in Use
         /\ AfterSign(Today.use) # NoUse
         /\ Within(AfterSign(Today.use))
<1>1. Today.use \in Use /\ Today.use.signs \in Nat
  BY TodayTyped DEF Use
<1>2. /\ AfterSign(Today.use) \in Use /\ AfterSign(Today.use) # NoUse
      /\ AfterSign(Today.use).sends = Today.use.sends
      /\ AfterSign(Today.use).amounts = Today.use.amounts
      /\ AfterSign(Today.use).signs = Today.use.signs + 1
  BY <1>1, AfterSignTyped
<1>3. \A u \in Rules : u.action = "sign" => \A m \in u.max_per_day : Today.use.signs + 1 <= m
  BY <1>1, RuleParts DEF SignAllowed
<1> QED
  BY <1>2, <1>3 DEF Within

\* The counters of the day are what was allowed on it.
LEMMA TodayGranted ==
  ASSUME TypeInv, QuotaInv, keydUp, excused # Days
  PROVE  /\ day \notin excused => granted[day] = Today.use
         /\ \A d \in Days \ excused : d > day => granted[d] = NoUse
<1>1. UpInv
  BY DEF QuotaInv
<1>2. day \in Int /\ day \in Days /\ counters.date \in Int /\ Days \subseteq Int
  BY TodayTyped DEF TypeInv, KeydTypeOK, Days
<1>3. day \notin excused => granted[day] = Today.use
  <2>1. CASE counters.date = day
    BY <1>1, <1>2, <2>1 DEF UpInv, Today
  <2>2. CASE counters.date # day
    <3>1. day > counters.date
      BY <1>1, <1>2, <2>2 DEF UpInv
    <3>2. Today.use = NoUse
      BY <1>2, <2>2, NoUseTyped DEF Today
    <3> QED
      BY <1>1, <1>2, <3>1, <3>2 DEF UpInv
  <2> QED
    BY <2>1, <2>2
<1>4. \A d \in Days \ excused : d > day => granted[d] = NoUse
  BY <1>1, <1>2 DEF UpInv
<1> QED
  BY <1>3, <1>4

\* A request that is allowed.
LEMMA QuotaAllowed ==
  ASSUME TypeInv, QuotaInv, keydUp, keydUp', excused # Days, UNCHANGED <<day, excused>>,
         NEW r \in Requests, NEW use \in Use, use # NoUse, Allow(r, use),
         \A d \in Days \ {day} : granted'[d] = granted[d],
         day \notin excused => granted'[day] = use /\ Within(use)
  PROVE  QuotaInv'
<1>1. /\ counters'.date = day /\ counters'.use = use
      /\ counterFile' \in {counters', counterFile, Torn}
  BY AllowTyped
<1>2. UpInv
  BY DEF QuotaInv
<1>3. /\ day \in Int /\ counters.date \in Int /\ Days \subseteq Int /\ day \in Days
      /\ counterFile \in Counters \cup {Absent, Torn}
  BY TodayTyped DEF TypeInv, KeydTypeOK, Days
<1>4. Counted => counterFile.date \in Int
  BY <1>3 DEF Counted, Counters, Days
<1>5. Counted' => counterFile'.date <= counters'.date
  BY <1>1, <1>2, <1>3, <1>4 DEF Counted, UpInv
<1>6. \A d \in Days \ excused : d > day => granted'[d] = NoUse
  BY <1>3, TodayGranted
<1>7. UpInv'
  BY <1>1, <1>3, <1>5, <1>6 DEF UpInv
<1>8. \A d \in Days \ excused' : Within(granted'[d])
  BY DEF QuotaInv
<1> QED
  BY <1>7, <1>8 DEF QuotaInv, Within

\* A request that is denied.
LEMMA QuotaDenied ==
  ASSUME TypeInv, QuotaInv, keydUp, keydUp', excused # Days, counters' = Today,
         UNCHANGED <<day, excused, granted, counterFile>>
  PROVE  QuotaInv'
<1>1. UpInv
  BY DEF QuotaInv
<1>2. /\ day \in Int /\ counters.date \in Int /\ Days \subseteq Int /\ Today.date = day
      /\ counterFile \in Counters \cup {Absent, Torn}
  BY TodayTyped DEF TypeInv, KeydTypeOK, Days
<1>3. Counted' <=> Counted
  BY DEF Counted
<1>4. Counted => counterFile.date \in Int
  BY <1>2 DEF Counted, Counters, Days
<1>5. UpInv'
  <2>1. CASE counters.date = day
    <3>1. counters' = counters
      BY <2>1 DEF Today
    <3> QED
      BY <1>1, <3>1 DEF UpInv, Counted
  <2>2. CASE counters.date # day
    <3>1. counters.date < day
      BY <1>1, <1>2, <2>2 DEF UpInv
    <3>2. Counted => counterFile.date < day
      BY <1>1, <1>2, <1>4, <3>1 DEF UpInv
    <3>3. counters'.date = day
      BY <1>2
    <3>4. \A d \in Days \ excused : /\ d = day => granted[d] = counters'.use
                                    /\ d > day => granted[d] = NoUse
      BY TodayGranted
    <3>5. Counted' => counterFile'.date < counters'.date
      BY <1>3, <3>2, <3>3
    <3>6. Counted' => counterFile'.date \in Int
      BY <1>3, <1>4
    <3>7. \A d \in Days \ excused' : /\ d = counters'.date => granted'[d] = counters'.use
                                     /\ d > counters'.date => granted'[d] = NoUse
      BY <3>3, <3>4
    <3>8. counters'.date <= day'
      BY <1>2, <3>3
    <3>9. Counted' => /\ counterFile'.date <= counters'.date
                      /\ counterFile'.date # counters'.date
      BY <1>2, <3>3, <3>5, <3>6
    <3> QED
      BY <3>7, <3>8, <3>9 DEF UpInv, Counted
  <2> QED
    BY <2>1, <2>2
<1>6. \A d \in Days \ excused' : Within(granted'[d])
  BY DEF QuotaInv
<1> QED
  BY <1>5, <1>6 DEF QuotaInv, Within

LEMMA QuotaPolicy ==
  ASSUME TypeInv, QuotaInv, excused # Days, NEW r \in Requests, CheckSign(r) \/ CheckSend(r)
  PROVE  QuotaInv'
<1>1. keydUp /\ keydUp' /\ UNCHANGED <<day, excused>>
  BY PolicyAsked
<1>2. day \notin excused => granted[day] = Today.use /\ Within(Today.use)
  <2>1. day \in Days
    BY DEF TypeInv, KeydTypeOK
  <2>2. \A d \in Days \ excused : Within(granted[d])
    BY DEF QuotaInv
  <2> QED
    BY <1>1, <2>1, <2>2, TodayGranted
<1>3. granted \in [Days -> Use] /\ day \in Days /\ Today.use \in Use
  BY TodayTyped DEF TypeInv, KeydTypeOK
<1>4. CASE Deny(r)
  BY <1>1, <1>4, DenyTyped, QuotaDenied
<1>5. ASSUME SignAllowed, Allow(r, AfterSign(Today.use)),
             granted' = [granted EXCEPT ![day] =
                           IF day \in excused THEN granted[day] ELSE AfterSign(granted[day])]
      PROVE  QuotaInv'
  <2> DEFINE use == AfterSign(Today.use)
  <2>1. use \in Use /\ use # NoUse
    BY <1>3, AfterSignTyped
  <2>2. day \notin excused => granted'[day] = use /\ Within(use)
    BY <1>2, <1>3, <1>5, SignWithin
  <2>3. \A d \in Days \ {day} : granted'[d] = granted[d]
    BY <1>3, <1>5
  <2> HIDE DEF use
  <2>4. Allow(r, use)
    BY <1>5 DEF use
  <2> QED
    BY <1>1, <2>1, <2>2, <2>3, <2>4, QuotaAllowed
<1>6. ASSUME NEW c \in Chains, NEW a \in Amounts, NEW to, SendAllowed(c, a, to),
             Allow(r, AfterSend(Today.use, c, a)),
             granted' = [granted EXCEPT ![day] =
                           IF day \in excused THEN granted[day]
                           ELSE AfterSend(granted[day], c, a)]
      PROVE  QuotaInv'
  <2> DEFINE use == AfterSend(Today.use, c, a)
  <2>1. Parsed(a) # {}
    BY <1>6 DEF SendAllowed
  <2>2. use \in Use /\ use # NoUse
    BY <1>3, <2>1, AfterSendTyped
  <2>3. day \notin excused => granted'[day] = use /\ Within(use)
    BY <1>2, <1>3, <1>6, SendWithin
  <2>4. \A d \in Days \ {day} : granted'[d] = granted[d]
    BY <1>3, <1>6
  <2> HIDE DEF use
  <2>5. Allow(r, use)
    BY <1>6 DEF use
  <2> QED
    BY <1>1, <2>2, <2>3, <2>4, <2>5, QuotaAllowed
<1> QED
  BY <1>4, <1>5, <1>6, PolicyAsked

\* The end of the daemon: what the file does not have is excused.
LEMMA QuotaCrash ==
  ASSUME TypeInv, QuotaInv, excused # Days, KeydCrash
  PROVE  QuotaInv'
<1> DEFINE days == IF counterFile = counters \/ counters.use = NoUse THEN {} ELSE {counters.date}
<1>1. /\ keydUp /\ keydUp' = FALSE /\ UNCHANGED <<day, counterFile>> /\ Excuse(days)
  BY DEF KeydCrash
<1>2. days \subseteq Days
  BY TodayTyped
<1>3. excused' = excused \cup days /\ \A d \in Days \ excused' : granted'[d] = granted[d]
  BY <1>1, <1>2, ExcuseTyped
<1>4. UpInv
  BY <1>1 DEF QuotaInv
<1>5. /\ day \in Int /\ counters.date \in Int /\ Days \subseteq Int
      /\ counterFile \in Counters \cup {Absent, Torn} /\ counters \in Counters
  BY TodayTyped DEF TypeInv, KeydTypeOK, Days
<1>6. Counted => counterFile.date \in Int /\ counterFile \in Counters
  BY <1>5 DEF Counted, Counters, Days
<1>7. Counted => counterFile.date <= day
  BY <1>4, <1>5, <1>6 DEF UpInv
<1>8. ASSUME NEW d \in Days \ excused', d >= day
      PROVE  granted'[d] = IF Counted /\ counterFile.date = d THEN counterFile.use ELSE NoUse
  <2>1. d \in Int /\ d \in Days \ excused /\ d \notin days /\ granted'[d] = granted[d]
    BY <1>3, <1>5
  <2>2. CASE d > counters.date
    <3>1. granted[d] = NoUse
      BY <1>4, <2>1, <2>2 DEF UpInv
    <3>2. ~ (Counted /\ counterFile.date = d)
      BY <1>4, <1>5, <1>6, <2>1, <2>2 DEF UpInv
    <3> QED
      BY <2>1, <3>1, <3>2
  <2>3. CASE d = counters.date
    <3>1. granted[d] = counters.use
      BY <1>4, <2>1, <2>3 DEF UpInv
    <3>2. counterFile = counters \/ counters.use = NoUse
      BY <2>1, <2>3
    <3>3. CASE counterFile = counters
      <4>1. Counted
        BY <1>5, <3>3, FileMarks DEF Counted
      <4> QED
        BY <2>1, <2>3, <3>1, <3>3, <4>1
    <3>4. CASE counters.use = NoUse
      BY <1>4, <2>1, <2>3, <3>1, <3>4 DEF UpInv
    <3> QED
      BY <3>2, <3>3, <3>4
  <2>4. d >= counters.date
    BY <1>4, <1>5, <1>8, <2>1 DEF UpInv
  <2> QED
    BY <1>5, <2>1, <2>2, <2>3, <2>4
<1>9. DownInv'
  BY <1>1, <1>7, <1>8 DEF DownInv, Counted
<1>10. \A d \in Days \ excused' : Within(granted'[d])
  BY <1>3 DEF QuotaInv
<1> QED
  BY <1>1, <1>9, <1>10 DEF QuotaInv, Within

LEMMA QuotaStart ==
  ASSUME TypeInv, QuotaInv, excused # Days, KeydStart
  PROVE  QuotaInv'
<1>1. /\ ~ keydUp /\ keydUp' = TRUE /\ UNCHANGED <<day, counterFile, granted, excused>>
      /\ counters' = LoadedCounters
  BY DEF KeydStart
<1>2. DownInv
  BY <1>1 DEF QuotaInv
<1>3. /\ day \in Int /\ Days \subseteq Int /\ day \in Days
      /\ counterFile \in Counters \cup {Absent, Torn}
  BY DEF TypeInv, KeydTypeOK, Days
<1>4. Counted => counterFile.date \in Int
  BY <1>3 DEF Counted, Counters, Days
<1>5. /\ counters'.date = day
      /\ counters'.use = IF Counted /\ counterFile.date = day THEN counterFile.use ELSE NoUse
  BY <1>1, <1>3, NoUseTyped DEF LoadedCounters, Counted
<1>6. \A d \in Days \ excused : /\ d = day => granted[d] = counters'.use
                                /\ d > day => granted[d] = NoUse
  <2> SUFFICES ASSUME NEW d \in Days \ excused
               PROVE  /\ d = day => granted[d] = counters'.use
                      /\ d > day => granted[d] = NoUse
    OBVIOUS
  <2>1. d \in Int /\ (d >= day => granted[d] = IF Counted /\ counterFile.date = d
                                               THEN counterFile.use ELSE NoUse)
    BY <1>2, <1>3 DEF DownInv
  <2>2. d = day => granted[d] = counters'.use
    BY <1>3, <1>5, <2>1
  <2>3. d > day => ~ (Counted /\ counterFile.date = d)
    BY <1>2, <1>3, <1>4, <2>1 DEF DownInv
  <2> QED
    BY <1>3, <2>1, <2>2, <2>3
<1>7. UpInv'
  BY <1>1, <1>2, <1>3, <1>4, <1>5, <1>6 DEF UpInv, DownInv, Counted
<1>8. \A d \in Days \ excused' : Within(granted'[d])
  BY <1>1 DEF QuotaInv
<1> QED
  BY <1>1, <1>7, <1>8 DEF QuotaInv, Within

\* Time passes.
LEMMA QuotaDay ==
  ASSUME TypeInv, QuotaInv, excused # Days, DayPasses
  PROVE  QuotaInv'
<1>1. day' = day + 1 /\ UNCHANGED <<keydUp, counters, counterFile, granted, excused>>
  BY DEF DayPasses
<1>2. /\ day \in Int /\ Days \subseteq Int /\ counters.date \in Int
      /\ counterFile \in Counters \cup {Absent, Torn}
  BY TodayTyped DEF TypeInv, KeydTypeOK, Days
<1>3. Counted => counterFile.date \in Int
  BY <1>2 DEF Counted, Counters, Days
<1>4. UpInv => UpInv'
  BY <1>1, <1>2 DEF UpInv, Counted
<1>5. ASSUME DownInv
      PROVE  DownInv'
  <2>1. Counted' <=> Counted
    BY <1>1 DEF Counted
  <2>2. Counted' => counterFile'.date <= day'
    BY <1>1, <1>2, <1>3, <1>5, <2>1 DEF DownInv
  <2>3. \A d \in Days \ excused : d >= day' => d >= day
    BY <1>1, <1>2
  <2> QED
    BY <1>1, <1>5, <2>1, <2>2, <2>3 DEF DownInv
<1>6. \A d \in Days \ excused' : Within(granted'[d])
  BY <1>1 DEF QuotaInv
<1> QED
  BY <1>1, <1>4, <1>5, <1>6 DEF QuotaInv, Within

\* QuotaInv depends on these only.
LEMMA QuotaStays ==
  ASSUME QuotaInv, UNCHANGED <<keydUp, counters, counterFile, day, granted, excused>>
  PROVE  QuotaInv'
  BY DEF QuotaInv, UpInv, DownInv, Counted, Within

\* What was lost stays lost.
LEMMA ExcusedStay ==
  ASSUME TypeInv, [KeydNext]_keydVars, excused = Days
  PROVE  excused' = Days
<1>1. ASSUME NEW r \in Requests, KeydProceeds(r) \/ KeydHangUp(r)
      PROVE  excused' = excused
  <2>1. CASE CheckSign(r) \/ CheckSend(r)
    BY <2>1, PolicyAsked
  <2>2. CASE ~ (CheckSign(r) \/ CheckSend(r))
    BY <1>1, <2>2 DEF KeydProceeds, KeydHangUp, CreateWallet, Lookup, Sign, BadPayload, Load,
                      Build, DeleteWallet, ReceiptLogged
  <2> QED
    BY <2>1, <2>2
<1>2. ASSUME NEW r \in Requests, NEW b \in Bodies, KeydArrives(r, b)
      PROVE  excused' = excused
  BY <1>2 DEF KeydArrives
<1>3. CASE KeydCrash
  <2>1. PICK days : Excuse(days) /\ days \subseteq Days
    BY <1>3, TodayTyped DEF KeydCrash
  <2> QED
    BY <2>1 DEF Excuse
<1>4. CASE DayPasses \/ ClockSetBack \/ Generate \/ KeydStart \/ KeydStartFails \/ UNCHANGED keydVars
  BY <1>4 DEF DayPasses, ClockSetBack, Generate, KeydStart, KeydStartFails, keydVars, Excuse
<1> QED
  BY <1>1, <1>2, <1>3, <1>4 DEF KeydNext

LEMMA QuotaStep ==
  ASSUME TypeInv, QuotaInv, [KeydNext]_keydVars
  PROVE  QuotaInv'
<1>1. CASE excused = Days
  BY <1>1, ExcusedStay DEF QuotaInv
<1>2. CASE excused # Days
  <2>1. ASSUME NEW r \in Requests, KeydProceeds(r) \/ KeydHangUp(r)
        PROVE  QuotaInv'
    <3>1. CASE CheckSign(r) \/ CheckSend(r)
      BY <1>2, <3>1, QuotaPolicy
    <3>2. CASE ~ (CheckSign(r) \/ CheckSend(r))
      <4>1. UNCHANGED <<keydUp, counters, counterFile, day, granted, excused>>
        BY <2>1, <3>2 DEF KeydProceeds, KeydHangUp, CreateWallet, Lookup, Sign, BadPayload,
                          Load, Build, DeleteWallet, ReceiptLogged
      <4> QED
        BY <4>1, QuotaStays
    <3> QED
      BY <3>1, <3>2
  <2>2. ASSUME NEW r \in Requests, NEW b \in Bodies, KeydArrives(r, b)
        PROVE  QuotaInv'
    BY <2>2, QuotaStays DEF KeydArrives
  <2>3. CASE KeydCrash
    BY <1>2, <2>3, QuotaCrash
  <2>4. CASE KeydStart
    BY <1>2, <2>4, QuotaStart
  <2>5. CASE DayPasses
    BY <1>2, <2>5, QuotaDay
  <2>6. CASE ClockSetBack
    <3>1. excused' = Days
      BY <2>6 DEF ClockSetBack, Excuse, TypeInv, KeydTypeOK
    <3> QED
      BY <3>1 DEF QuotaInv
  <2>7. CASE Generate \/ KeydStartFails \/ UNCHANGED keydVars
    BY <2>7, QuotaStays DEF Generate, KeydStartFails, keydVars
  <2> QED
    BY <2>1, <2>2, <2>3, <2>4, <2>5, <2>6, <2>7 DEF KeydNext
<1> QED
  BY <1>1, <1>2

-----------------------------------------------------------------------------
(* The theorems.                                                           *)

IInv == TypeInv /\ MutexInv /\ DeletedInv /\ KeysInv /\ QuotaInv

LEMMA IInvInit ==
  KeydInit => IInv
<1> SUFFICES ASSUME KeydInit
             PROVE  IInv
  OBVIOUS
<1>1. TypeInv
  BY TypeInvInit
<1>2. MutexInv
  <2>1. None \notin Requests /\ \A r \in Requests : req[r].step = "idle"
    BY Constants, IdleTyped DEF KeydInit
  <2> QED
    BY <2>1 DEF KeydInit, MutexInv
<1>3. DeletedInv
  BY DEF KeydInit, DeletedInv, DeletedIsGone
<1>4. KeysInv
  BY DEF KeydInit, KeysInv
<1>5. QuotaInv
  <2>1. DownInv
    BY DEF KeydInit, DownInv, Counted
  <2>2. \A d \in Days \ excused : Within(granted[d])
    BY NoUseWithin DEF KeydInit
  <2> QED
    BY <2>1, <2>2 DEF QuotaInv, KeydInit
<1> QED
  BY <1>1, <1>2, <1>3, <1>4, <1>5 DEF IInv

\* The inductive invariant: types, the mutex, what is deleted, what is listed,
\* and what is counted, of a daemon that runs or has ended.
THEOREM KeydInvariant == KeydSpec => []IInv
<1>1. IInv /\ [KeydNext]_keydVars => IInv'
  BY TypeInvStep, MutexStep, DeletedStep, KeysStep, QuotaStep DEF IInv
<1> QED
  BY <1>1, IInvInit, PTL DEF KeydSpec

\* Every variable keeps its type, and a daemon that runs has its key.
THEOREM KeydTypeCorrect == KeydSpec => []KeydTypeOK
<1>1. IInv => KeydTypeOK
  BY DEF IInv, TypeInv
<1> QED
  BY <1>1, KeydInvariant, PTL

\* The signer's mutex is held over an await for a receipt only (create_wallet,
\* delete_wallet and sign handlers), and by one handler.
THEOREM SignerOnlyForReceipt == KeydSpec => []SignerHeldForReceipt
<1>1. IInv => SignerHeldForReceipt
  BY DEF IInv, TypeInv, KeydTypeOK, MutexInv, SignerHeldForReceipt
<1> QED
  BY <1>1, KeydInvariant, PTL

\* A wallet whose deletion was answered has no key on disk or in memory, and is
\* never listed again (delete_wallet, load_index).
THEOREM DeletedStaysGone == KeydSpec => []DeletedIsGone
<1>1. IInv => DeletedIsGone
  BY DEF IInv, DeletedInv
<1> QED
  BY <1>1, KeydInvariant, PTL

\* A listed wallet has a key file that the daemon can decrypt
\* (load_or_create_master_key, create_wallet, load_index).
THEOREM ListedWalletsSign == KeydSpec => []ListedCanSign
<1>1. IInv => ListedCanSign
  BY DEF IInv, KeysInv, Keyed, ListedCanSign
<1> QED
  BY <1>1, KeydInvariant, PTL

\* No day on which the counters were kept exceeds a rule (check_send, check_sign,
\* save_counters, load_counters).
THEOREM QuotasHold == KeydSpec => []QuotaPerDay
<1>1. IInv => QuotaPerDay
  <2>1. QuotaInv => \A d \in Days \ excused : Within(granted[d])
    BY DEF QuotaInv
  <2> QED
    BY <2>1 DEF IInv, Within, QuotaPerDay
<1> QED
  BY <1>1, KeydInvariant, PTL

=============================================================================
