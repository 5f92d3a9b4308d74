----------------------------- MODULE SledStore -----------------------------
(***************************************************************************)
(* The sled-backed storage engine, crates/dwbase-storage-sled/src/lib.rs.  *)
(*                                                                         *)
(* One sled tree holds three families of keys, each a set of records here: *)
(*   world/{w}/atoms/{id}  the encoded atom          -> atoms              *)
(*   world/{w}/log/{seq}   a frame: id and checksum  -> log                *)
(*   idx/atom/{id}         the world that owns an id -> index              *)
(* No lock is held across the calls into sled, so an append or a delete of *)
(* one thread interleaves with the others between any two of its writes.   *)
(* sled persists its writes in order, in the background or at a flush; a   *)
(* crash keeps some prefix of them ("disk").                               *)
(*                                                                         *)
(* Abstractions: an encoded atom is a member of Bytes, its checksum is the *)
(* bytes themselves (no CRC collision); a filter is left to the reader of  *)
(* a scan; the seq held by an index entry, which no code reads, is left    *)
(* out; an empty batch, which only flushes, is Persist; I/O errors of sled *)
(* and world names that hold "/log/" or "/atoms/" are not modelled.        *)
(***************************************************************************)
EXTENDS Naturals, Sequences

CONSTANTS
  World,        \* world names
  Id,           \* atom ids
  Bytes,        \* encoded atom bodies
  Thread,       \* threads that call the storage engine
  Segment,      \* a world's name up to its first "/", see Listed
  Garbled,      \* what a damaged frame decodes to
  FlushOnWrite, \* SledConfig.flush_on_write
  FreshIds,     \* callers never append an id twice
  Deletable,    \* ids the garbage collector may delete
  MaxSeq,       \* bound: largest sequence number
  MaxBatch,     \* bound: atoms in one append_atoms call
  MaxCrashes,   \* bound: crashes of the process
  MaxDamage     \* bound: frames damaged at rest

ASSUME SegmentAssumption ==
  \A w \in World : Segment[w] \in World => Segment[Segment[w]] = Segment[w]

ASSUME ConstantsAssumption ==
  /\ Garbled \notin Id
  /\ FlushOnWrite \in BOOLEAN /\ FreshIds \in BOOLEAN
  /\ Deletable \subseteq Id
  /\ MaxSeq \in Nat /\ MaxBatch \in Nat
  /\ MaxCrashes \in Nat /\ MaxDamage \in Nat
  /\ World # {}

VARIABLES
  atoms, log, index, \* the tree as the open handle sees it
  disk,    \* the tree as it is persisted
  phase,   \* "down", "repair" (inside open) or "up"
  pending, \* worlds repair_logs has still to look at
  doomed,  \* frames the truncation of a world has still to remove
  job,     \* what each thread is doing
  sent,    \* history: atoms handed to append
  before,  \* history: the ids acknowledged when the append of an id began
  acked,   \* history: atoms whose append returned Ok
  dropped, \* history: <<world, id>> pairs handed to delete_atoms
  crashes, damage \* the faults so far

tree   == <<atoms, log, index>>
opens  == <<phase, pending, doomed>>
hist   == <<sent, before, acked, dropped>>
faults == <<crashes, damage>>
vars   == <<tree, disk, opens, job, hist, faults>>

Atom  == [world : World, id : Id, bytes : Bytes]
Frame == [world : World, seq : Nat, id : Id \cup {Garbled}, sum : Bytes]
Entry == [id : Id, world : World]
Tree  == [atoms : SUBSET Atom, log : SUBSET Frame, index : SUBSET Entry]
Job   == [pc     : {"idle", "body", "frame", "index", "flush", "strip", "unlog"},
          world  : World,
          batch  : Seq(Atom),   \* append: atoms still to write
          seq    : Nat,         \* append: seq of the next frame; delete: cursor
          done   : SUBSET Atom, \* append: atoms written
          ids    : SUBSET Id,   \* the ids of the call
          rest   : SUBSET Id]   \* delete: bodies still to remove

Idle == [pc |-> "idle", world |-> CHOOSE w \in World : TRUE, batch |-> << >>,
         seq |-> 0, done |-> {}, ids |-> {}, rest |-> {}]

-----------------------------------------------------------------------------
(* The tree: one entry per key, an insert replaces what the key held.      *)

PutAtom(S, a)  == {b \in S : b.world # a.world \/ b.id # a.id} \cup {a}
PutFrame(S, f) == {g \in S : g.world # f.world \/ g.seq # f.seq} \cup {f}
PutEntry(S, e) == {x \in S : x.id # e.id} \cup {e}

Image == [atoms |-> atoms, log |-> log, index |-> index]

Frames(w) == {f \in log : f.world = w}

(* The test of repair_world_log: the frame decodes, its atom is there, and *)
(* the checksum of the atom's bytes is the frame's.                        *)
Valid(f) ==
  \E a \in atoms : a.world = f.world /\ a.id = f.id /\ a.bytes = f.sum

-----------------------------------------------------------------------------
(* Faulty variants of definitions below. No action uses them: each is put  *)
(* in the place of the definition it varies, to see a property fail.       *)

(* next_seq forgets the + 1.                                               *)
LastSeq(w, s) ==
  /\ \A f \in Frames(w) : f.seq <= s
  /\ s = 0 \/ \E f \in Frames(w) : f.seq = s

(* next_seq fills the first hole that a delete left.                       *)
FirstFreeSeq(w, s) ==
  /\ \A f \in Frames(w) : f.seq # s
  /\ \A r \in 0 .. MaxSeq : r < s => \E f \in Frames(w) : f.seq = r

(* world_from_key takes the last part of an atom's key.                    *)
LastParts == {a.id : a \in atoms} \cup {Segment[f.world] : f \in log}

(* append_atoms returns Ok before anything is flushed.                     *)
AckUnflushed(t) ==
  /\ job[t].pc = "flush"
  /\ acked' = acked \cup job[t].done
  /\ job' = [job EXCEPT ![t] = Idle]
  /\ UNCHANGED <<tree, disk, opens, sent, before, dropped, faults>>

(* delete_atoms removes the bodies of an id in every world.                *)
StripEverywhere(t, i) ==
  /\ job[t].pc = "strip" /\ i \in job[t].rest
  /\ atoms' = {a \in atoms : a.id # i}
  /\ index' = {e \in index : e.id # i}
  /\ job' = [job EXCEPT
       ![t].rest = job[t].rest \ {i},
       ![t].pc   = IF job[t].rest = {i} THEN "unlog" ELSE "strip"]
  /\ UNCHANGED <<log, disk, opens, hist, faults>>

(* repair_world_log removes what follows the bad frame, but not the frame. *)
RepairAfter(w) ==
  /\ phase = "repair" /\ w \in pending /\ doomed = {}
  /\ doomed' = {f \in Frames(w) : \E g \in Frames(w) : ~Valid(g) /\ g.seq < f.seq}
  /\ pending' = pending \ {w}
  /\ UNCHANGED <<tree, disk, phase, job, hist, faults>>

-----------------------------------------------------------------------------
(* next_seq: one above the last key of the world's log, 0 when it is empty *)
IsNextSeq(w, s) ==
  /\ \A f \in Frames(w) : f.seq < s
  /\ s = 0 \/ \E f \in Frames(w) : f.seq = s - 1

(* world_from_key splits the key at "/" and takes the second part, so a    *)
(* world whose name holds a "/" is known by the part before it.            *)
Listed(w) == Segment[w] = w
StoredWorlds ==
  {Segment[a.world] : a \in atoms} \cup {Segment[f.world] : f \in log}

(* get_by_ids for one id, as the set of answers it may give: through the   *)
(* index if the atom is where the entry says, else the first listed world  *)
(* that has a body for the id.                                             *)
GetById(id) ==
  LET indexed == {a \in atoms : a.id = id /\ [id |-> id, world |-> a.world] \in index}
      legacy  == {a \in atoms : a.id = id /\ Listed(a.world)}
  IN  IF indexed # {} THEN indexed ELSE legacy

-----------------------------------------------------------------------------
Init ==
  /\ atoms = {} /\ log = {} /\ index = {}
  /\ disk = Image
  /\ phase = "up" /\ pending = {} /\ doomed = {}
  /\ job = [t \in Thread |-> Idle]
  /\ sent = {} /\ before = [i \in Id |-> {}] /\ acked = {} /\ dropped = {}
  /\ crashes = 0 /\ damage = 0

(* append_atoms, up to and including next_seq                              *)
BeginAppend(t, w, batch) ==
  LET ids == {batch[k].id : k \in DOMAIN batch}
  IN  /\ phase = "up" /\ job[t].pc = "idle"
      /\ batch # << >>
      /\ FreshIds =>
           /\ \A a \in sent : a.id \notin ids
           /\ \A k, l \in DOMAIN batch : batch[k].id = batch[l].id => k = l
      /\ \E s \in 0 .. MaxSeq :
           /\ IsNextSeq(w, s)
           /\ s + Len(batch) <= MaxSeq + 1
           /\ job' = [job EXCEPT ![t] =
                [pc |-> "body", world |-> w, batch |-> batch, seq |-> s,
                 done |-> {}, ids |-> ids, rest |-> {}]]
      /\ sent' = sent \cup {batch[k] : k \in DOMAIN batch}
      /\ before' = [i \in Id |-> IF i \in ids THEN {a.id : a \in acked} ELSE before[i]]
      /\ UNCHANGED <<tree, disk, opens, acked, dropped, faults>>

(* The world check fails: Err, without a flush; what the batch wrote stays *)
Refuse(t) ==
  /\ job[t].pc = "body" /\ Head(job[t].batch).world # job[t].world
  /\ job' = [job EXCEPT ![t] = Idle]
  /\ UNCHANGED <<tree, disk, opens, hist, faults>>

WriteBody(t) ==
  /\ job[t].pc = "body" /\ Head(job[t].batch).world = job[t].world
  /\ atoms' = PutAtom(atoms, Head(job[t].batch))
  /\ job' = [job EXCEPT ![t].pc = "frame"]
  /\ UNCHANGED <<log, index, disk, opens, hist, faults>>

WriteFrame(t) ==
  /\ job[t].pc = "frame"
  /\ LET a == Head(job[t].batch)
     IN  log' = PutFrame(log, [world |-> job[t].world, seq |-> job[t].seq,
                               id |-> a.id, sum |-> a.bytes])
  /\ job' = [job EXCEPT ![t].pc = "index"]
  /\ UNCHANGED <<atoms, index, disk, opens, hist, faults>>

(* record_index, and the turn of the loop                                  *)
WriteIndex(t) ==
  /\ job[t].pc = "index"
  /\ LET a == Head(job[t].batch)
     IN  /\ index' = PutEntry(index, [id |-> a.id, world |-> job[t].world])
         /\ job' = [job EXCEPT
              ![t].pc    = IF Len(job[t].batch) = 1 THEN "flush" ELSE "body",
              ![t].batch = Tail(job[t].batch),
              ![t].seq   = job[t].seq + 1,
              ![t].done  = job[t].done \cup {a}]
  /\ UNCHANGED <<atoms, log, disk, opens, hist, faults>>

(* flush_if_needed and Ok(ids)                                             *)
FinishAppend(t) ==
  /\ job[t].pc = "flush"
  /\ disk' = IF FlushOnWrite THEN Image ELSE disk
  /\ acked' = acked \cup job[t].done
  /\ job' = [job EXCEPT ![t] = Idle]
  /\ UNCHANGED <<tree, opens, sent, before, dropped, faults>>

-----------------------------------------------------------------------------
BeginDelete(t, w, ids) ==
  /\ phase = "up" /\ job[t].pc = "idle"
  /\ ids # {}
  /\ job' = [job EXCEPT ![t] = 
       [Idle EXCEPT !.pc = "strip", !.world = w, !.ids = ids, !.rest = ids]]
  /\ dropped' = dropped \cup {<<w, i>> : i \in ids}
  /\ UNCHANGED <<tree, disk, opens, sent, before, acked, faults>>

(* The body and the index entry of one id; the entry goes whatever world   *)
(* it names. One step for the two removals: an entry without its body is   *)
(* no more than a missing entry to get_by_ids.                             *)
StripAtom(t, i) ==
  /\ job[t].pc = "strip" /\ i \in job[t].rest
  /\ atoms' = {a \in atoms : a.world # job[t].world \/ a.id # i}
  /\ index' = {e \in index : e.id # i}
  /\ job' = [job EXCEPT
       ![t].rest = job[t].rest \ {i},
       ![t].pc   = IF job[t].rest = {i} THEN "unlog" ELSE "strip"]
  /\ UNCHANGED <<log, disk, opens, hist, faults>>

(* Frames of the ids that the scan of the log has still to come to         *)
Unlogged(t) ==
  {f \in Frames(job[t].world) : f.seq >= job[t].seq /\ f.id \in job[t].ids}

RemoveFrame(t) ==
  /\ job[t].pc = "unlog"
  /\ \E f \in Unlogged(t) :
       /\ \A g \in Unlogged(t) : f.seq <= g.seq
       /\ log' = log \ {f}
       /\ job' = [job EXCEPT ![t].seq = f.seq + 1]
  /\ UNCHANGED <<atoms, index, disk, opens, hist, faults>>

(* delete_atoms returns; it does not flush                                 *)
FinishDelete(t) ==
  /\ job[t].pc = "unlog" /\ Unlogged(t) = {}
  /\ job' = [job EXCEPT ![t] = Idle]
  /\ UNCHANGED <<tree, disk, opens, hist, faults>>

-----------------------------------------------------------------------------
(* sled's background flusher                                               *)
Persist ==
  /\ phase # "down" /\ disk # Image
  /\ disk' = Image
  /\ UNCHANGED <<tree, opens, job, hist, faults>>

(* The process dies; the next open will find what was persisted.           *)
Crash ==
  /\ phase # "down" /\ crashes < MaxCrashes
  /\ atoms' = disk.atoms /\ log' = disk.log /\ index' = disk.index
  /\ phase' = "down" /\ pending' = {} /\ doomed' = {}
  /\ job' = [t \in Thread |-> Idle]
  /\ crashes' = crashes + 1
  /\ UNCHANGED <<disk, hist, damage>>

(* Damage at rest that repair is there for: a frame no longer decodes.     *)
Damage(f) ==
  /\ phase = "down" /\ damage < MaxDamage
  /\ f \in log /\ f.id # Garbled
  /\ log' = PutFrame(log, [f EXCEPT !.id = Garbled])
  /\ disk' = [disk EXCEPT !.log = log']
  /\ damage' = damage + 1
  /\ UNCHANGED <<atoms, index, opens, job, hist, crashes>>

(* open: the handle is ours, and repair_logs lists the worlds              *)
Open ==
  /\ phase = "down"
  /\ phase' = "repair" /\ pending' = StoredWorlds
  /\ UNCHANGED <<tree, disk, doomed, job, hist, faults>>

(* repair_world_log, the scan: the first bad frame and all that follow go  *)
RepairWorld(w) ==
  /\ phase = "repair" /\ w \in pending /\ doomed = {}
  /\ doomed' = {f \in Frames(w) : \E g \in Frames(w) : ~Valid(g) /\ g.seq <= f.seq}
  /\ pending' = pending \ {w}
  /\ UNCHANGED <<tree, disk, phase, job, hist, faults>>

(* ... and the removals, in key order                                      *)
Truncate ==
  /\ phase = "repair"
  /\ \E f \in doomed :
       /\ \A g \in doomed : f.seq <= g.seq
       /\ log' = log \ {f}
       /\ doomed' = doomed \ {f}
  /\ UNCHANGED <<atoms, index, disk, phase, pending, job, hist, faults>>

(* rebuild_index: cleared, then one entry per id that has a frame in a     *)
(* listed world (the last frame met wins; worlds come in no fixed order).  *)
(* One step: nobody reads the index before open returns, and the next open *)
(* clears whatever a crash half way would leave of it.                     *)
RebuildIndex ==
  LET framed == {f \in log : f.id \in Id /\ Listed(f.world)}
      found  == {[id |-> f.id, world |-> f.world] : f \in framed}
  IN  /\ phase = "repair" /\ pending = {} /\ doomed = {}
      /\ index' \in SUBSET found
      /\ \A e \in found : \E x \in index' : x.id = e.id
      /\ \A x, y \in index' : x.id = y.id => x = y
      /\ phase' = "up"
      /\ UNCHANGED <<atoms, log, disk, pending, doomed, job, hist, faults>>

-----------------------------------------------------------------------------
Batches == UNION {[1 .. n -> Atom] : n \in 1 .. MaxBatch}

Step(t) ==
  \/ \E w \in World, batch \in Batches : BeginAppend(t, w, batch)
  \/ Refuse(t)
  \/ WriteBody(t)
  \/ WriteFrame(t)
  \/ WriteIndex(t)
  \/ FinishAppend(t)
  \/ \E w \in World, ids \in SUBSET Deletable : BeginDelete(t, w, ids)
  \/ \E i \in Id : StripAtom(t, i)
  \/ RemoveFrame(t)
  \/ FinishDelete(t)

Recover ==
  \/ Open
  \/ \E w \in pending : RepairWorld(w)
  \/ Truncate
  \/ RebuildIndex

Next ==
  \/ \E t \in Thread : Step(t)
  \/ Persist
  \/ Crash
  \/ \E f \in log : Damage(f)
  \/ Recover

Spec == Init /\ [][Next]_vars

-----------------------------------------------------------------------------
TypeOK ==
  /\ atoms \in SUBSET Atom /\ log \in SUBSET Frame /\ index \in SUBSET Entry
  /\ disk \in Tree
  /\ phase \in {"down", "repair", "up"}
  /\ pending \subseteq {Segment[w] : w \in World} /\ doomed \in SUBSET Frame
  /\ job \in [Thread -> Job]
  /\ sent \in SUBSET Atom /\ before \in [Id -> SUBSET Id]
  /\ acked \in SUBSET Atom /\ dropped \in SUBSET (World \X Id)
  /\ crashes \in 0 .. MaxCrashes /\ damage \in 0 .. MaxDamage

(* With fresh ids and flush_on_write, an atom whose append returned Ok and *)
(* that was never handed to delete_atoms is what get_by_ids finds whenever *)
(* the store is open: through races of appends on one sequence number,     *)
(* deletes of other atoms, crashes, truncations and rebuilt indexes.       *)
AckedReadable ==
  phase = "up" =>
    \A a \in acked :
      Listed(a.world) /\ <<a.world, a.id>> \notin dropped => GetById(a.id) = {a}

(* The same without the restriction to names free of "/": what             *)
(* docs/developer/storage.md says of get_by_ids and of the rebuilt index.  *)
AckedReadableAnywhere ==
  phase = "up" =>
    \A a \in acked : <<a.world, a.id>> \notin dropped => GetById(a.id) = {a}

(* The log records append order: of two frames of a world, the one whose   *)
(* append was acknowledged before the other began comes first, whatever    *)
(* threads, crashes, truncations and deletes did in between.               *)
ReplayOrder ==
  \A f, g \in log :
    f.world = g.world /\ g.id \in Id /\ f.id \in before[g.id] => f.seq < g.seq

(* A crash never leaves a frame without its atom: body before frame in     *)
(* append_atoms, so only a delete (body first, frame last) can.            *)
FramesBacked ==
  \A f \in log : f.id # Garbled /\ <<f.world, f.id>> \notin dropped => Valid(f)

(* Once repair_logs is through, no listed world's log holds a frame that   *)
(* does not decode, or whose atom is missing or changed.                   *)
Repaired ==
  phase = "repair" /\ pending = {} /\ doomed = {} =>
    \A f \in log : Listed(f.world) => Valid(f)

(* A replay returns what was acknowledged: every acknowledged atom that    *)
(* was not deleted has a frame and a body while the store is open.         *)
AckedReplayed ==
  phase = "up" =>
    \A a \in acked :
      <<a.world, a.id>> \notin dropped =>
        a \in atoms /\ \E f \in Frames(a.world) : f.id = a.id /\ Valid(f)

(* The part of it that .codex/PR-23.md:21 states ("preserves all valid     *)
(* atoms"): an acknowledged atom whose bytes are intact is in the replay.  *)
IntactReplayed ==
  phase = "up" =>
    \A a \in acked :
      <<a.world, a.id>> \notin dropped /\ a \in atoms =>
        \E f \in Frames(a.world) : f.id = a.id
=============================================================================
