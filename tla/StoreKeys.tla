----------------------------- MODULE StoreKeys ------------------------------
(***************************************************************************)
(* Encryption at rest, crates/dwbase-storage-sled/src/lib.rs: atoms are    *)
(* sealed with the key of the id the store was opened with, and the sealed *)
(* body says which id that was. From one opening to the next the operator  *)
(* turns encryption on or off, goes on to another key id, loses a key, or  *)
(* sets another one under the same id.                                     *)
(*                                                                         *)
(* Abstractions: a call is one step, and nothing written is lost: SledStore*)
(* models threads and crashes. Nonce and derived key are left out, as they *)
(* are the same for sealing and opening; a body opens with its key only.   *)
(***************************************************************************)
EXTENDS Naturals, Sequences, SequencesExt

CONSTANTS
  KeyId,
  FitKey,   \* keys that fit, of 32 bytes
  Misfit,   \* a key of another length
  Absent,   \* a key id without a key
  Atoms,    \* atoms that callers append: [world, ts, vector]
  MaxLog,   \* bound: atoms appended
  MaxOpens  \* bound: openings of the store

KeysAssumption ==
  /\ Misfit \notin FitKey /\ Absent \notin FitKey \cup {Misfit}
  /\ \A a \in Atoms : a.ts \in Nat
  /\ MaxLog \in Nat /\ MaxOpens \in Nat

VARIABLES
  provider, \* KeyProvider: the key of each id
  key_id,   \* the id the store was opened with, << >> when encryption is off
  is_open,
  bodies,   \* the stored bodies in the order of the frames of their worlds
  confirmed, \* history: places of the atoms whose append answered Ok
  opens

sealed == <<provider, key_id, is_open, bodies, confirmed, opens>>

Plain == << >>
AtomWorld == {a.world : a \in Atoms}
Instants == {0} \cup {a.ts : a \in Atoms}
Provider == [KeyId -> FitKey \cup {Misfit, Absent}]

-----------------------------------------------------------------------------
(* Sealing and opening *)

key_from_bytes(k) == provider[k] \in FitKey

\* encode_atom fails when the id has no key, or one that does not fit.
Encodes == key_id = Plain \/ key_from_bytes(key_id[1])
encode_atom(a) == [atom |-> a, seal |-> IF key_id = Plain THEN Plain
                                        ELSE <<key_id[1], provider[key_id[1]]>>]

\* A faulty variant of the definition below: the key is the current one's.
decode_with_current(b) ==
  b.seal = Plain \/ (key_id # Plain /\ key_from_bytes(key_id[1]) /\ provider[key_id[1]] = b.seal[2])

\* A body that is not sealed is read as it is, whatever the store was opened with.
decode_atom(b) ==
  b.seal = Plain \/ (key_from_bytes(b.seal[1]) /\ provider[b.seal[1]] = b.seal[2])

BodiesOf(w) == {i \in DOMAIN bodies : bodies[i].atom.world = w}

-----------------------------------------------------------------------------
(* The reads: what they answer, or an error *)

Error == [ok |-> FALSE, places |-> {}]
Ok(S) == [ok |-> TRUE, places |-> S]

\* scan and list_ids_in_window decode one body after another and give up at
\* the first that does not open; scan ends at its limit before that. "hits"
\* are the bodies that match, once they are open.
Walk(w, hits, limit) ==
  LET Ended(i) == limit > 0 /\ Cardinality({j \in hits : j <= i}) >= limit
      read     == {i \in BodiesOf(w) : \A j \in BodiesOf(w) : j < i => ~Ended(j)}
  IN  IF \E i \in read : ~decode_atom(bodies[i]) THEN Error ELSE Ok(read \cap hits)

scan(w, since, limit) ==
  Walk(w, {i \in BodiesOf(w) : bodies[i].atom.ts >= since}, limit)
list_ids_in_window(w, start, end) ==
  Walk(w, {i \in BodiesOf(w) : bodies[i].atom.ts \in start..end}, 0)

get_by_ids(ids) ==
  LET found == ids \cap DOMAIN bodies
  IN  IF \E i \in found : ~decode_atom(bodies[i]) THEN Error ELSE Ok(found)

\* What does not open counts as an atom and as no vector.
stats(w) == [atom_count   |-> Cardinality(BodiesOf(w)),
             vector_count |-> Cardinality({i \in BodiesOf(w) : decode_atom(bodies[i]) /\ bodies[i].atom.vector})]

stored_worlds == {bodies[i].atom.world : i \in DOMAIN bodies}

-----------------------------------------------------------------------------
KeysInit ==
  /\ provider = [k \in KeyId |-> Absent] /\ key_id = Plain /\ is_open = FALSE
  /\ bodies = << >> /\ confirmed = {} /\ opens = 0

(* The provider is the one of this process. Encryption without a key id is *)
(* refused before anything is touched.                                     *)
\* A faulty variant of the definition below: repair drops what does not open.
RepairedByReading(l, p) ==
  LET Opens(b) == b.seal = Plain \/ p[b.seal[1]] = b.seal[2]
  IN  SelectSeq(l, Opens)

\* repair_logs compares the checksum of the sealed body, which no key changes.
Repaired(l, p) == l

open_store ==
  /\ ~is_open /\ opens < MaxOpens /\ opens' = opens + 1
  /\ is_open' = TRUE
  /\ provider' \in Provider
  /\ key_id' \in {Plain} \cup {<<k>> : k \in KeyId}
  /\ bodies' = Repaired(bodies, provider')
  /\ UNCHANGED confirmed

CloseStore ==
  /\ is_open /\ is_open' = FALSE
  /\ UNCHANGED <<provider, key_id, bodies, confirmed, opens>>

(* append_atoms: the first atom of a batch that belongs to another world   *)
(* ends it with an error, and so does one that does not seal; what was     *)
(* written before stays.                                                   *)
append_atoms(w) ==
  /\ is_open
  /\ \E batch \in SeqOf(Atoms, MaxLog - Len(bodies)) :
       LET good == {n \in 0..Len(batch) : \A i \in 1..n : batch[i].world = w /\ Encodes}
           done == CHOOSE n \in good : \A m \in good : m <= n
       IN  /\ batch # << >>
           /\ bodies' = bodies \o [i \in 1..done |-> encode_atom(batch[i])]
           /\ confirmed' = confirmed \cup (IF done = Len(batch) THEN Len(bodies) + 1 .. Len(bodies) + done ELSE {})
  /\ UNCHANGED <<provider, key_id, is_open, opens>>

KeysNext == open_store \/ CloseStore \/ \E w \in AtomWorld : append_atoms(w)
KeysSpec == KeysInit /\ [][KeysNext]_sealed

-----------------------------------------------------------------------------
(* A body is sealed with a key that fits, or not at all.                   *)
KeysTypeOK ==
  /\ provider \in Provider /\ is_open \in BOOLEAN /\ opens \in 0..MaxOpens
  /\ key_id \in {Plain} \cup {<<k>> : k \in KeyId}
  /\ \A i \in DOMAIN bodies :
       bodies[i].atom \in Atoms /\ bodies[i].seal \in {Plain} \cup (KeyId \X FitKey)

(* Whatever keys the store was opened with in between: when the provider   *)
(* has, under its id, the key that each body of a world was sealed with,   *)
(* every read answers everything, also under another key id or with        *)
(* encryption turned on or off since.                                      *)
RotationReads ==
  is_open =>
    \A w \in AtomWorld :
      (\A i \in BodiesOf(w) :
         bodies[i].seal # Plain => provider[bodies[i].seal[1]] = bodies[i].seal[2]) =>
        /\ \A since \in Instants :
             scan(w, since, 0) = Ok({i \in BodiesOf(w) : bodies[i].atom.ts >= since})
        /\ get_by_ids(BodiesOf(w)) = Ok(BodiesOf(w))
        /\ stats(w).vector_count = Cardinality({i \in BodiesOf(w) : bodies[i].atom.vector})

(* A lost or changed key makes nothing disappear: what an append answered  *)
(* Ok for stays in the log, stats counts it and its world is listed; and a *)
(* read answers all of it that was asked for, or an error.                 *)
KeysLoseNothing ==
  /\ confirmed \subseteq DOMAIN bodies
  /\ \A i \in confirmed : bodies[i].atom.world \in stored_worlds
  /\ \A w \in AtomWorld :
       LET Owed(start) == {i \in confirmed \cap BodiesOf(w) : bodies[i].atom.ts >= start}
       IN  /\ stats(w).atom_count >= Cardinality(confirmed \cap BodiesOf(w))
           /\ \A since \in Instants :
                LET r == scan(w, since, 0) IN r.ok => Owed(since) \subseteq r.places
           /\ \A start, end \in Instants :
                LET r == list_ids_in_window(w, start, end)
                IN  r.ok => \A i \in Owed(start) : bodies[i].atom.ts <= end => i \in r.places
=============================================================================
