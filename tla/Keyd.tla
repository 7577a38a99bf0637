-------------------------------- MODULE Keyd --------------------------------
(***************************************************************************)
(* osmoda-keyd: wallets whose keys are encrypted with a master key, a key  *)
(* cache, and a policy with daily quotas (signer.rs, policy.rs, api.rs,    *)
(* main.rs).  Signer and policy are behind two mutexes; a handler takes    *)
(* them one after another, and several keep the signer's until agentd has  *)
(* answered their receipt.  All files are written in place.                *)
(***************************************************************************)
EXTENDS Integers, FiniteSets

CONSTANTS
    Requests,      \* HTTP requests that may be in flight at the same time
    Wallets,       \* wallet ids, fresh for each wallet
    Chains,
    ChainOf,       \* the chain of each wallet
    Rules,         \* the policy; an optional field is a set of at most one value
    Amounts,       \* decimal amounts as written: whole part, fraction, its digits
    Destinations,
    DECIMALS,      \* 18 in the code
    MaxFixed,      \* the largest u128
    MaxDay,        \* bound: days that are modelled
    MaxCrashes,    \* bound: ends of the daemon
    MaxFaults,     \* bound: writes that fail or are cut off
    Absent, Torn,  \* a file that is not there, or was cut off by a crash or a full disk
    None           \* no request

Days == 1 .. MaxDay
Generations == 0 .. MaxCrashes
Use == [sends: [Chains -> Nat], amounts: [Chains -> 0 .. MaxFixed], signs: Nat]
Counters == [date: Days, use: Use]

ASSUME KeydAssumption ==
    /\ ChainOf \in [Wallets -> Chains]
    /\ MaxFixed \in Nat /\ DECIMALS \in Nat /\ MaxDay \in Nat \ {0} /\ MaxCrashes \in Nat
    /\ MaxFaults \in Nat
    /\ \A a \in Amounts : a.whole \in Nat /\ a.fraction \in Nat /\ a.digits \in Nat
    /\ \A u \in Rules :
          /\ u.action \in {"send", "sign"}
          /\ u.chain \subseteq Chains
          /\ u.max_per_day \subseteq Nat /\ u.max_amount \subseteq Nat
          /\ u.allowed_destinations \subseteq SUBSET Destinations
    /\ None \notin Requests
    /\ {Absent, Torn, None} \cap (Generations \X Generations) = {}
    /\ {Absent, Torn} \cap (Counters \cup Generations) = {}
    /\ \A n \in 0 .. DECIMALS : 10 ^ n \in Nat

VARIABLES
    \* memory of the daemon
    keydUp,
    index,         \* WalletIndex: the wallets it lists
    cache,         \* wallets whose decrypted key is cached
    derived,       \* the key derived from master key and salt
    counters,      \* DailyCounters
    signer,        \* who holds the signer's mutex over an await, or None
    req,           \* req[r]: the request r
    \* files
    masterKey, masterSalt, keyFile, indexFile, counterFile,
    \* environment
    day, keydCrashes, faults,
    \* observers: what was allowed on which day, days excused, wallets deleted,
    \* wallets whose deletion was not saved, wallet ids used
    granted, excused, deleted, botched, minted

memory == <<keydUp, index, cache, derived, counters, signer, req>>
files == <<masterKey, masterSalt, keyFile, indexFile, counterFile>>
observers == <<granted, excused, deleted, botched, minted>>
environment == <<day, keydCrashes, faults>>
keydVars == <<memory, files, environment, observers>>

Steps == {"idle", "create", "delete", "lookup", "policy", "sign", "load", "build",
          "receipt", "logging"}

\* Request bodies; what an operation does not take is None.
Bodies ==
    [op: {"create"}, wallet: {None}, amount: {None}, to: {None}]
    \cup [op: {"delete", "sign"}, wallet: Wallets, amount: {None}, to: {None}]
    \cup [op: {"send", "build"}, wallet: Wallets, amount: Amounts, to: Destinations]

NoUse == [sends |-> [c \in Chains |-> 0], amounts |-> [c \in Chains |-> 0], signs |-> 0]
Fresh(d) == [date |-> d, use |-> NoUse]

-----------------------------------------------------------------------------
(* Amounts: fixed point with DECIMALS places in an unsigned integer.       *)

\* FixedAmount::from_str: no value, or one.
Parsed(a) ==
    LET value == a.whole * 10 ^ DECIMALS + a.fraction * 10 ^ (DECIMALS - a.digits)
    IN  IF a.digits <= DECIMALS /\ value <= MaxFixed THEN {value} ELSE {}

CheckedAdd(x, y) == IF x + y <= MaxFixed THEN {x + y} ELSE {}

-----------------------------------------------------------------------------
(* The policy.  Each check works on the counters of the current day.       *)

Today == IF counters.date = day THEN counters ELSE Fresh(day)

Applies(u, action, chain) == u.action = action /\ (u.chain = {} \/ chain \in u.chain)

SendAllowed(chain, amount, to) ==
    \E value \in Parsed(amount) :
        \A u \in Rules : Applies(u, "send", chain) =>
            /\ \A allowed \in u.allowed_destinations : to \in allowed
            /\ \A m \in u.max_per_day : Today.use.sends[chain] < m
            /\ \A m \in u.max_amount :
                  \E total \in CheckedAdd(Today.use.amounts[chain], value) : total <= m

SignAllowed ==
    \A u \in Rules : u.action = "sign" => \A m \in u.max_per_day : Today.use.signs < m

\* An amount that does not fit any more is not added.
AfterSend(use, chain, amount) ==
    LET value == CHOOSE x \in Parsed(amount) : TRUE
        sum == CheckedAdd(use.amounts[chain], value)
    IN  [use EXCEPT !.sends[chain] = @ + 1,
                    !.amounts[chain] = IF sum = {} THEN @ ELSE @ + value]

AfterSign(use) == [use EXCEPT !.signs = @ + 1]

-----------------------------------------------------------------------------
(* Requests, and the files they write in place: saved, left as it was      *)
(* (the open failed), or cut off.  A crash during the write is a file cut  *)
(* off and then a crash.                                                   *)

Idle == [step |-> "idle", op |-> "sign", wallet |-> None, amount |-> None, to |-> None]

Goes(r, step) == req' = [req EXCEPT ![r].step = step]
Ends(r) == req' = [req EXCEPT ![r] = Idle]

Write(file, new, content) ==
    \/ new = content /\ UNCHANGED faults
    \/ faults < MaxFaults /\ faults' = faults + 1 /\ new \in {file, Torn}

\* The signer's mutex can be had.
SignerFree == keydUp /\ signer = None

KeydArrives(r, b) ==
    /\ keydUp
    /\ req[r].step = "idle"
    /\ b.op = "create" => \* bound: an id is left
          Cardinality(minted) + Cardinality({q \in Requests : req[q].step = "create"}) < Cardinality(Wallets)
    /\ LET first == IF b.op \in {"create", "delete"} THEN b.op ELSE "lookup"
       IN  req' = [req EXCEPT ![r] = [step |-> first, op |-> b.op, wallet |-> b.wallet,
                                      amount |-> b.amount, to |-> b.to]]
    /\ UNCHANGED <<keydUp, index, cache, derived, counters, signer, files, environment, observers>>

\* Mutant: the wallet is listed although its key could not be written.
CreateWalletListsFirst(r) ==
    /\ SignerFree
    /\ req[r].step = "create"
    /\ \E w \in Wallets \ minted :
          /\ minted' = minted \cup {w}
          /\ index' = index \cup {w}
          /\ keyFile' \in {keyFile, [keyFile EXCEPT ![w] = derived]}
          /\ indexFile' = index'
    /\ Ends(r)
    /\ UNCHANGED <<keydUp, cache, derived, counters, signer, masterKey, masterSalt,
                   counterFile, environment, granted, excused, deleted, botched>>

\* create_wallet: the key file first, then the index; it fails before the key
\* file, after it, or in save_index, when the wallet is listed already.
CreateWallet(r) ==
    /\ SignerFree
    /\ req[r].step = "create"
    /\ \E w \in Wallets \ minted :
          /\ minted' = minted \cup {w}
          /\ \/ /\ faults < MaxFaults
                /\ faults' = faults + 1
                /\ keyFile' \in {[keyFile EXCEPT ![w] = f] : f \in {Absent, Torn, derived}}
                /\ Ends(r)
                /\ UNCHANGED <<index, indexFile, signer>>
             \/ /\ keyFile' = [keyFile EXCEPT ![w] = derived]
                /\ index' = index \cup {w}
                /\ Write(indexFile, indexFile', index')
                /\ IF indexFile' = index'
                      THEN Goes(r, "receipt") /\ signer' = r
                      ELSE Ends(r) /\ UNCHANGED signer
    /\ UNCHANGED <<keydUp, cache, derived, counters, masterKey, masterSalt, counterFile,
                   day, keydCrashes, granted, excused, deleted, botched>>

\* The handlers that sign look the wallet up and let go of the mutex.
Lookup(r) ==
    /\ SignerFree
    /\ req[r].step = "lookup"
    /\ IF req[r].wallet \in index THEN Goes(r, "policy") ELSE Ends(r)
    /\ UNCHANGED <<keydUp, index, cache, derived, counters, signer, files, environment, observers>>

\* check_sign and check_send: what is allowed is counted, and saved if that works.
Allow(r, use) ==
    /\ counters' = [date |-> day, use |-> use]
    /\ Write(counterFile, counterFile', counters')
    /\ Goes(r, IF req[r].op = "build" THEN "load" ELSE "sign")

Deny(r) ==
    /\ counters' = Today
    /\ Goes(r, "logging")
    /\ UNCHANGED <<counterFile, faults, granted>>

CheckSign(r) ==
    /\ keydUp
    /\ req[r].step = "policy"
    /\ req[r].op = "sign"
    /\ IF SignAllowed
          THEN /\ Allow(r, AfterSign(Today.use))
               /\ granted' = [granted EXCEPT ![day] =
                                IF day \in excused THEN @ ELSE AfterSign(@)]
          ELSE Deny(r)
    /\ UNCHANGED <<keydUp, index, cache, derived, signer, masterKey, masterSalt, keyFile,
                   indexFile, day, keydCrashes, excused, deleted, botched, minted>>

CheckSend(r) ==
    /\ keydUp
    /\ req[r].step = "policy"
    /\ req[r].op \in {"send", "build"}
    /\ LET chain == ChainOf[req[r].wallet]
           amount == req[r].amount
       IN  IF SendAllowed(chain, amount, req[r].to)
              THEN /\ Allow(r, AfterSend(Today.use, chain, amount))
                   /\ granted' = [granted EXCEPT ![day] =
                                    IF day \in excused THEN @ ELSE AfterSend(@, chain, amount)]
              ELSE Deny(r)
    /\ UNCHANGED <<keydUp, index, cache, derived, signer, masterKey, masterSalt, keyFile,
                   indexFile, day, keydCrashes, excused, deleted, botched, minted>>

\* A key file decrypts with the key it was encrypted with; one that is torn, or
\* absent, with none.
Decrypts(w) == keyFile[w] = derived

\* load_key_bytes: entries not used for KEY_CACHE_TTL_SECS are dropped first,
\* then the cache is asked, then the key file.  Nothing else drops an entry because of its age.
LoadKey(w, onSuccess, onFailure) ==
    \E old \in SUBSET cache :
        IF w \in cache \ old \/ Decrypts(w)
           THEN cache' = (cache \ old) \cup {w} /\ onSuccess
           ELSE cache' = cache \ old /\ onFailure

\* wallet_sign_handler and wallet_send_handler; the wallet has to be listed
\* still.  A payload that is not hexadecimal ends the request before.
Sign(r) ==
    /\ SignerFree
    /\ req[r].step = "sign"
    /\ IF req[r].wallet \in index
          THEN LoadKey(req[r].wallet, Goes(r, "receipt") /\ signer' = r, Ends(r) /\ UNCHANGED signer)
          ELSE Ends(r) /\ UNCHANGED <<cache, signer>>
    /\ UNCHANGED <<keydUp, index, derived, counters, files, environment, observers>>

BadPayload(r) ==
    /\ keydUp
    /\ req[r].step = "sign"
    /\ req[r].op = "sign"
    /\ Ends(r)
    /\ UNCHANGED <<keydUp, index, cache, derived, counters, signer, files, environment, observers>>

\* wallet_build_tx_handler copies the key, without looking at the list again,
\* and signs with the copy after it has let go of the mutex.
Load(r) ==
    /\ SignerFree
    /\ req[r].step = "load"
    /\ LoadKey(req[r].wallet, Goes(r, "build"), Ends(r))
    /\ UNCHANGED <<keydUp, index, derived, counters, signer, files, environment, observers>>

\* An amount is decimal for the policy and has to be whole (wei, lamports) here.
BuildAccepts(r) == req[r].amount.digits = 0

\* Addresses, blockhash and call data may be malformed in any request.
Build(r) ==
    /\ keydUp
    /\ req[r].step = "build"
    /\ \/ BuildAccepts(r) /\ Goes(r, "logging")
       \/ Ends(r)
    /\ UNCHANGED <<keydUp, index, cache, derived, counters, signer, files, environment, observers>>

\* Mutant: the cache keeps the key.
DeleteWalletKeepsCache(r) ==
    /\ SignerFree
    /\ req[r].step = "delete"
    /\ req[r].wallet \in index
    /\ keyFile' = [keyFile EXCEPT ![req[r].wallet] = Absent]
    /\ index' = index \ {req[r].wallet}
    /\ indexFile' = index'
    /\ deleted' = deleted \cup {req[r].wallet}
    /\ Ends(r)
    /\ UNCHANGED <<keydUp, cache, signer, derived, counters, masterKey, masterSalt, counterFile,
                   environment, granted, excused, botched, minted>>

\* delete_wallet: the key file, the cache, the list, and the index file.
DeleteWallet(r) ==
    /\ SignerFree
    /\ req[r].step = "delete"
    /\ LET w == req[r].wallet
       IN  IF w \in index
              THEN /\ keyFile' = [keyFile EXCEPT ![w] = Absent]
                   /\ cache' = cache \ {w}
                   /\ index' = index \ {w}
                   /\ Write(indexFile, indexFile', index')
                   /\ IF indexFile' = index'
                         THEN /\ deleted' = deleted \cup {w}
                              /\ signer' = r
                              /\ Goes(r, "receipt")
                              /\ UNCHANGED botched
                         ELSE /\ botched' = botched \cup {w}
                              /\ Ends(r)
                              /\ UNCHANGED <<deleted, signer>>
              ELSE /\ Ends(r)
                   /\ UNCHANGED <<index, cache, signer, keyFile, indexFile, faults, deleted, botched>>
    /\ UNCHANGED <<keydUp, derived, counters, masterKey, masterSalt, counterFile, day, keydCrashes,
                   granted, excused, minted>>

\* Mutant: the guard is forgotten.
ReceiptLoggedKeepsLock(r) ==
    /\ keydUp
    /\ req[r].step \in {"receipt", "logging"}
    /\ Ends(r)
    /\ UNCHANGED <<keydUp, index, cache, derived, counters, signer, files, environment, observers>>

\* agentd has answered the receipt, or could not be reached.
ReceiptLogged(r) ==
    /\ keydUp
    /\ req[r].step \in {"receipt", "logging"}
    /\ signer' = IF signer = r THEN None ELSE signer
    /\ Ends(r)
    /\ UNCHANGED <<keydUp, index, cache, derived, counters, files, environment, observers>>

\* The client goes away while its handler waits for a mutex or for agentd.
KeydHangUp(r) ==
    /\ keydUp
    /\ req[r].step \notin {"idle", "build"}
    /\ signer' = IF signer = r THEN None ELSE signer
    /\ Ends(r)
    /\ UNCHANGED <<keydUp, index, cache, derived, counters, files, environment, observers>>

-----------------------------------------------------------------------------
(* Time, crash and start.                                                  *)

\* From now on these days are not counted any more.
Excuse(days) ==
    /\ excused' = excused \cup days
    /\ granted' = [d \in Days |-> IF d \in days THEN NoUse ELSE granted[d]]

DayPasses ==
    /\ day < MaxDay
    /\ day' = day + 1
    /\ UNCHANGED <<memory, files, keydCrashes, faults, observers>>

\* The date is the wall clock's, which may be set back: an old day begins anew.
ClockSetBack ==
    /\ day > 1
    /\ day' = day - 1
    /\ Excuse(Days)
    /\ UNCHANGED <<memory, files, keydCrashes, faults, deleted, botched, minted>>

\* The counts of a day that the file does not have are lost.
KeydCrash ==
    /\ keydUp
    /\ keydCrashes < MaxCrashes
    /\ keydCrashes' = keydCrashes + 1
    /\ keydUp' = FALSE
    /\ index' = {} /\ cache' = {}
    /\ derived' = None
    /\ counters' = Fresh(day)
    /\ signer' = None
    /\ req' = [r \in Requests |-> Idle]
    /\ Excuse(IF counterFile = counters \/ counters.use = NoUse THEN {} ELSE {counters.date})
    /\ UNCHANGED <<files, day, faults, deleted, botched, minted>>

\* load_or_create_master_key: unless both files are there both are written
\* anew; the daemon may end after any part of that.
Generate ==
    /\ ~ keydUp
    /\ masterKey = Absent \/ masterSalt = Absent
    /\ \/ masterKey' = keydCrashes /\ masterSalt' = keydCrashes /\ UNCHANGED keydCrashes
       \/ /\ keydCrashes < MaxCrashes
          /\ keydCrashes' = keydCrashes + 1
          /\ \/ masterKey' \in {Torn, keydCrashes} /\ UNCHANGED masterSalt
             \/ masterKey' = keydCrashes /\ masterSalt' = Torn
    /\ UNCHANGED <<memory, keyFile, indexFile, counterFile, day, faults, observers>>

\* Mutant: a new process starts counting at zero.
LoadedCountersFresh == Fresh(day)

\* Counters of another day, or that do not parse, are not used.
LoadedCounters ==
    IF counterFile \notin {Absent, Torn} /\ counterFile.date = day THEN counterFile ELSE Fresh(day)

\* The master key is complete and the index parses; the daemon ends otherwise.
Startable ==
    /\ {masterKey, masterSalt} \cap {Absent, Torn} = {}
    /\ indexFile # Torn

\* Argon2 over the two files.
DerivedKey == <<masterKey, masterSalt>>

KeydStart ==
    /\ ~ keydUp
    /\ Startable
    /\ keydUp' = TRUE
    /\ derived' = DerivedKey
    /\ index' = IF indexFile = Absent THEN {} ELSE indexFile
    /\ counters' = LoadedCounters
    /\ UNCHANGED <<cache, signer, req, files, environment, observers>>

\* systemd starts the daemon again and again; it cannot read its files.
KeydStartFails ==
    /\ ~ keydUp
    /\ ~ Startable
    /\ Absent \notin {masterKey, masterSalt}
    /\ UNCHANGED keydVars

KeydInit ==
    /\ keydUp = FALSE
    /\ index = {} /\ cache = {} /\ derived = None
    /\ counters = Fresh(1) /\ signer = None
    /\ req = [r \in Requests |-> Idle]
    /\ masterKey = Absent /\ masterSalt = Absent
    /\ keyFile = [w \in Wallets |-> Absent] /\ indexFile = Absent /\ counterFile = Absent
    /\ day = 1 /\ keydCrashes = 0 /\ faults = 0
    /\ granted = [d \in Days |-> NoUse] /\ excused = {}
    /\ deleted = {} /\ botched = {} /\ minted = {}

\* What a handler does next without its client.
KeydProceeds(r) ==
    \/ CreateWallet(r) \/ Lookup(r) \/ CheckSign(r) \/ CheckSend(r) \/ Sign(r) \/ BadPayload(r)
    \/ Load(r) \/ Build(r) \/ DeleteWallet(r) \/ ReceiptLogged(r)

KeydNext ==
    \/ \E r \in Requests :
          \/ \E b \in Bodies : KeydArrives(r, b)
          \/ KeydProceeds(r) \/ KeydHangUp(r)
    \/ DayPasses \/ ClockSetBack \/ KeydCrash \/ Generate \/ KeydStart \/ KeydStartFails

KeydSpec == KeydInit /\ [][KeydNext]_keydVars

-----------------------------------------------------------------------------
(* Properties.                                                             *)

\* Type correctness of memory, files and observers.
KeydTypeOK ==
    /\ keydUp \in BOOLEAN
    /\ index \subseteq Wallets /\ cache \subseteq Wallets
    /\ derived \in (Generations \X Generations) \cup {None}
    /\ counters \in Counters
    /\ signer \in Requests \cup {None}
    /\ req \in [Requests -> [step: Steps, op: {"create", "delete", "sign", "send", "build"},
                            wallet: Wallets \cup {None}, amount: Amounts \cup {None},
                            to: Destinations \cup {None}]]
    /\ {masterKey, masterSalt} \subseteq Generations \cup {Absent, Torn}
    /\ keyFile \in [Wallets -> (Generations \X Generations) \cup {Absent, Torn}]
    /\ indexFile \in (SUBSET Wallets) \cup {Absent, Torn}
    /\ counterFile \in Counters \cup {Absent, Torn}
    /\ day \in Days /\ keydCrashes \in 0 .. MaxCrashes /\ faults \in 0 .. MaxFaults
    /\ granted \in [Days -> Use]
    /\ excused \subseteq Days
    /\ deleted \cup botched \cup minted \subseteq Wallets

\* On no day is more allowed than the policy's rules say (check_send,
\* check_sign), over any number of requests in any order and over restarts of
\* the daemon; excused are days of which the counters were lost, because they
\* were not saved before the daemon ended, or because the clock was set back.
QuotaPerDay ==
    \A d \in Days \ excused, u \in Rules :
        /\ u.action = "send" => \A c \in Chains : Applies(u, "send", c) =>
              /\ \A m \in u.max_per_day : granted[d].sends[c] <= m
              /\ \A m \in u.max_amount : granted[d].amounts[c] <= m
        /\ u.action = "sign" => \A m \in u.max_per_day : granted[d].signs <= m

\* A listed wallet can sign: its key file was written, and is encrypted with
\* the master key that the daemon has, also after restarts and after a first
\* start that was cut short.  Excepted are wallets whose deletion failed half
\* way, which a restart lists again without their key.
ListedCanSign ==
    keydUp => \A w \in index \ botched : keyFile[w] = derived

\* When a deletion has been answered the key is nowhere any more, on disk or
\* in memory, and no restart and no failed write of the index brings the wallet
\* back; only a build_tx request that has copied the key may still use it.
DeletedIsGone ==
    \A w \in deleted :
        /\ w \notin cache
        /\ keyFile[w] = Absent
        /\ w \notin index
        /\ indexFile \notin {Absent, Torn} => w \notin indexFile

\* The signer's mutex is kept over an await only by a handler whose receipt is
\* under way, and is free again when that handler ends, is dropped with its
\* client, or dies with the daemon: nobody else can block the daemon.
SignerHeldForReceipt ==
    signer # None =>
        /\ keydUp
        /\ req[signer].step = "receipt"
        /\ \A r \in Requests : req[r].step = "receipt" => r = signer
=============================================================================
