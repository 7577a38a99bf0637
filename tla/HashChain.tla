----------------------------- MODULE HashChain -----------------------------
(***************************************************************************)
(* The hash-chained `events` table of agentd (crates/agentd/src/ledger.rs) *)
(* as operators on sequences of rows.  A SHA-256 digest is modelled by the *)
(* text it commits to: the digest of a row is the digest of its            *)
(* predecessor extended with the row's own columns.  This is the usual     *)
(* collision-free reading of a hash; it is finite, typed, and lets TLC and *)
(* the provers compare digests.                                            *)
(***************************************************************************)
EXTENDS Naturals, Sequences

\* prev_hash of the first row: GENESIS_PREV_HASH, the hash of no text at all.
Genesis == <<>>

\* compute_hash: covers the id, the other columns (`body`) and prev_hash.
Hash(id, body, prev) == Append(prev, <<id, body>>)

Digest(Bodies) == Seq(Nat \X Bodies)

EventRow(Bodies) ==
  [id : Nat, body : Bodies, prev : Digest(Bodies), hash : Digest(Bodies)]

\* Mutant: ORDER BY id ASC.
OldestHash(events) == IF events = <<>> THEN Genesis ELSE events[1].hash

\* last_hash_conn: the hash of the newest row, the genesis hash of an empty table.
LastHash(events) == IF events = <<>> THEN Genesis ELSE events[Len(events)].hash

(***************************************************************************)
(* The row that `append` commits.  The id is AUTOINCREMENT and no row is   *)
(* ever deleted, so it is the position of the row.                         *)
(***************************************************************************)
NewRow(events, body, prev) ==
  LET id == Len(events) + 1
  IN  [id |-> id, body |-> body, prev |-> prev, hash |-> Hash(id, body, prev)]

Linked(events, i) ==
  events[i].prev = IF i = 1 THEN Genesis ELSE events[i - 1].hash

\* verify: every row points at its predecessor and carries its own hash.
Verify(events) ==
  \A i \in DOMAIN events :
    /\ Linked(events, i)
    /\ events[i].hash = Hash(events[i].id, events[i].body, events[i].prev)
=============================================================================
