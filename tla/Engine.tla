------------------------------- MODULE Engine -------------------------------
(***************************************************************************)
(* The engine of a node, crates/dwbase-engine/src/lib.rs: remember,        *)
(* ingest_remote_atoms, gc_once, manage_world and what ask finds, called   *)
(* by the threads of one process that share the engine.                    *)
(*                                                                         *)
(* Storage is abstract here: a log of atoms per world in which an append,  *)
(* a delete, and a scan with those of the policy worlds, are one step each *)
(* and nothing acknowledged is lost. SledStore models what is behind that. *)
(* The reflex and conflict indexes are in memory and gone after a restart. *)
(*                                                                         *)
(* Abstractions: time is one counter that every reading moves on, so days  *)
(* of retention and seconds of recency are the same unit; an atom carries  *)
(* at most one policy label; what makes remember suspicious is left open;  *)
(* the vector index is left out, as the node's embedder answers None, and  *)
(* so is index_state, which changes only with the embedder's version. What *)
(* the next open does to a log in which an id was stored over is the       *)
(* subject of EngineIds.                                                   *)
(***************************************************************************)
EXTENDS Naturals, Sequences, FiniteSets

CONSTANTS
  World,        \* world names
  Thread,       \* threads that run handlers
  Quarantine,   \* Quarantine[w]: the world "quarantine:<w>"
  PolicyWorlds, \* PolicyWorlds[w]: the worlds whose policy atoms rule w, in order
  Requests,     \* atoms that callers pass to remember
  Batches,      \* sequences of atoms that peers deliver
  Unset,        \* the empty timestamp
  Unparsable,   \* a timestamp that is not RFC 3339
  Retention,    \* retention_days when no policy atom sets it
  Recency,      \* ReflexIndexConfig.recency_seconds
  Width,        \* ReflexIndexConfig.bucket_width_seconds
  Budgets,      \* bound: how many calls of each kind there are, one of these
  MaxRestarts   \* bound: restarts of the process

Call     == {"remember", "ingest", "gc", "manage"}
LinkKind == {"supersedes", "contradicts", "confirms", "references"}
Link     == [kind : LinkKind, target : Nat]
RuleKey  == {"none", "retention_days", "retention_min_days", "min_importance"}
Rule     == [key : RuleKey, value : Nat]
Atom     == [id : Nat, world : World, ts : Nat \cup {Unparsable}, importance : Nat,
             links : Seq(Link), status : {"none", "active", "archived"}, rule : Rule]
Request  == [world : World, ts : Nat \cup {Unset, Unparsable}, importance : Nat,
             links : Seq(Link), status : {"none", "active", "archived"}, rule : Rule]

ASSUME ConstantsAssumption ==
  /\ Unset \notin Nat /\ Unparsable \notin Nat
  /\ Quarantine \in [World -> World] /\ PolicyWorlds \in [World -> Seq(World)]
  /\ Requests \subseteq Request
  /\ Retention \in Nat /\ Recency \in Nat /\ Width \in Nat
  /\ Budgets \subseteq [Call -> Nat] /\ MaxRestarts \in Nat

ASSUME BatchesAssumption == Batches \subseteq Seq(Atom)

VARIABLES
  store,     \* the stored atoms with their places in the logs of their worlds
  reflex,    \* the atoms in the buckets of ReflexIndex
  conflicts, \* the atoms whose links ConflictIndex has registered, in order
  idGen, clock,
  job,       \* what each thread is doing
  published, \* history: the atoms handed to the stream, in order
  fed,       \* history: the atoms this process put into the reflex index
  accepted,  \* history: the atoms of the batches ingested with Ok
  evicted,   \* history: the ids gc deleted
  acts,      \* history: the calls of manage_world
  shared,    \* history: ids given out over a stored one, or stored by two calls
  mixed,     \* history: worlds whose status atoms others wrote or stored over
  left, restarts

indexes == <<reflex, conflicts>>
hist    == <<published, fed, accepted, evicted, acts>>
marks   == <<shared, mixed>>
bounds  == <<left, restarts>>
vars    == <<store, indexes, idGen, clock, job, hist, marks, bounds>>

Job  == [pc      : {"idle", "stamp", "store", "reflex", "register", "publish", "next", "evict"},
         call    : Call,
         batch   : Seq(Atom),      \* ingest: the whole batch
         rest    : Seq(Atom),      \* the atom in hand and those after it
         todo    : SUBSET World,   \* gc: worlds still to visit
         victims : SUBSET Atom,    \* gc: atoms to delete
         seen    : SUBSET Atom,    \* gc: what the scan returned
         act     : Nat]            \* manage: its place in acts

Idle == [pc |-> "idle", call |-> "gc", batch |-> << >>, rest |-> << >>,
         todo |-> {}, victims |-> {}, seen |-> {}, act |-> 0]

Act  == [world : World, want : {"active", "archived"}, state : {"running", "ended", "cut"},
         after : SUBSET Nat]       \* the calls that were over when this one began

Put(t, j) == job' = [job EXCEPT ![t] = j]

Elements(s) == {s[i] : i \in DOMAIN s}
Entry       == [at : Nat, atom : Atom]
Log(w)      == {e \in store : e.atom.world = w}
Atoms(w)    == {e.atom : e \in Log(w)}
Free(w)     == {n \in {0} \cup {e.at + 1 : e \in Log(w)} : \A e \in Log(w) : e.at < n}
StoredIds   == {e.atom.id : e \in store}
UsedIds(w)  == {e.atom.id : e \in Log(w)} \cup evicted
NoRule      == [key |-> "none", value |-> 0]
Parsed(a)   == a.ts # Unparsable
Epoch(a)    == IF Parsed(a) THEN a.ts ELSE 0

-----------------------------------------------------------------------------
(* The buckets of the reflex index; what gc may have to keep *)

Bucket(a)     == a.ts \div (IF Width = 0 THEN 1 ELSE Width)
WindowBuckets == LET n == Recency \div (IF Width = 0 THEN 1 ELSE Width)
                 IN  IF n = 0 THEN 1 ELSE n

(* parse_policy: the last policy atom of the last policy world wins.       *)
Setting(w, key, default) ==
  LET Rank(e) == {k \in DOMAIN PolicyWorlds[w] : PolicyWorlds[w][k] = e.atom.world}
      found   == {e \in store : e.atom.rule.key = key /\ Rank(e) # {}}
      Last(e) == \A f \in found : \A i \in Rank(e), j \in Rank(f) :
                   j < i \/ (j = i /\ f.at <= e.at)
  IN  IF found = {} THEN default ELSE (CHOOSE e \in found : Last(e)).atom.rule.value

RetentionOf(w) ==
  LET days == Setting(w, "retention_days", Retention)
      floor == Setting(w, "retention_min_days", 0)
  IN  IF days < floor THEN floor ELSE days

-----------------------------------------------------------------------------
(* Steps of several calls *)

(* A thread takes up a call, if one is left.                               *)
Begin(t, c, j) ==
  /\ job[t].pc = "idle"
  /\ left[c] > 0
  /\ left' = [left EXCEPT ![c] = @ - 1]
  /\ Put(t, [j EXCEPT !.call = c])
  /\ UNCHANGED restarts

(* The call of manage_world that a thread makes, if it does, is over.      *)
Close(t, state) ==
  acts' = IF job[t].call = "manage"
          THEN [acts EXCEPT ![job[t].act].state = state] ELSE acts

(* A call takes an id, and does not look whether storage has it already.   *)
NewId == /\ idGen' = idGen + 1
         /\ shared' = shared \cup ({idGen} \cap StoredIds)
         /\ UNCHANGED mixed
Tick  == clock' = clock + 1

-----------------------------------------------------------------------------
(* Faulty variants of definitions below. No action uses them: each is put  *)
(* in the place of the definition it varies, to see a property fail.       *)

(* trim_old_buckets with > for >=.                                         *)
FedTight(a) == {b \in reflex \cup {a} :
                  b.world = a.world => Bucket(b) + WindowBuckets > Bucket(a)}

(* remember that does not fill in an empty timestamp.                      *)
RememberUnset(t) ==
  /\ \E r \in Requests : \E w \in {r.world, Quarantine[r.world]} :
       LET a == [id |-> idGen, world |-> w, ts |-> r.ts, importance |-> r.importance,
                 links |-> r.links, status |-> r.status, rule |-> r.rule]
       IN  Begin(t, "remember", [Idle EXCEPT !.pc = "store", !.rest = <<a>>])
  /\ NewId /\ Tick
  /\ UNCHANGED <<store, indexes, hist>>

(* world_status that keeps the earliest meta atom.                         *)
StatusOldest(w) ==
  LET metas == {e \in Log(w) : e.atom.status # "none"}
      Oldest(e) == \A f \in metas : Epoch(e.atom) <= Epoch(f.atom)
  IN  IF metas = {} THEN "none" ELSE (CHOOSE e \in metas : Oldest(e)).atom.status

(* gc_once that takes only links of kind "references" for references.      *)
VictimsByKind(w) ==
  LET all    == Atoms(w)
      linked == {l.target : l \in {k \in UNION {Elements(a.links) : a \in all} :
                                     k.kind = "references"}}
      Expired(a) == /\ RetentionOf(w) > 0 /\ Parsed(a)
                    /\ \E b \in all : Parsed(b) /\ b.ts > a.ts + RetentionOf(w)
      Minor(a) == a.importance < Setting(w, "min_importance", 0)
  IN  {a \in all : /\ a.rule = NoRule /\ a.status = "none"
                    /\ a.id \notin linked
                    /\ (Expired(a) \/ Minor(a))}

(* ingest_remote_atoms that asks the reflex index whether it has an atom.  *)
LookUpRecent(t) ==
  /\ job[t].pc = "next" /\ job[t].rest # << >>
  /\ Put(t, IF Head(job[t].rest).id \in {a.id : a \in reflex}
            THEN [job[t] EXCEPT !.rest = Tail(@)]
            ELSE [job[t] EXCEPT !.pc = "store"])
  /\ UNCHANGED <<store, indexes, idGen, clock, hist, marks, bounds>>

(* ingest_remote_atoms that takes the rest of a batch for known when one   *)
(* atom of it is ("break" for "continue").                                 *)
LookUpOnce(t) ==
  /\ job[t].pc = "next" /\ job[t].rest # << >>
  /\ Put(t, IF Head(job[t].rest).id \in StoredIds
            THEN [job[t] EXCEPT !.rest = << >>]
            ELSE [job[t] EXCEPT !.pc = "store"])
  /\ UNCHANGED <<store, indexes, idGen, clock, hist, marks, bounds>>

-----------------------------------------------------------------------------
(* The indexes, the status of a world, and what gc deletes *)

(* insert puts the atom in its bucket, then drops the buckets of its world *)
(* that are too old by that atom's bucket.                                 *)
Fed(a) == {b \in reflex \cup {a} :
             b.world = a.world => Bucket(b) + WindowBuckets >= Bucket(a)}

(* The candidates of ask without a filter: the reflex index, or a scan     *)
(* when that has nothing for the world.                                    *)
Answer(w) ==
  LET recent == {a \in reflex : a.world = w}
  IN  IF recent # {} THEN recent ELSE Atoms(w)

(* world_status: the latest world_meta atom, the first of equals.          *)
Status(w) ==
  LET metas == {e \in Log(w) : e.atom.status # "none"}
      Latest(e) == \A f \in metas : \/ Epoch(f.atom) < Epoch(e.atom)
                                   \/ (Epoch(f.atom) = Epoch(e.atom) /\ e.at <= f.at)
  IN  IF metas = {} THEN "none" ELSE (CHOOSE e \in metas : Latest(e)).atom.status

(* What gc_once deletes from a world: by age against the newest atom, or   *)
(* by importance, but no policy or world_meta atom and none that is linked *)
(* to in its world.                                                        *)
Victims(w) ==
  LET all    == Atoms(w)
      linked == {l.target : l \in UNION {Elements(a.links) : a \in all}}
      Expired(a) == /\ RetentionOf(w) > 0 /\ Parsed(a)
                    /\ \E b \in all : Parsed(b) /\ b.ts > a.ts + RetentionOf(w)
      Minor(a)   == a.importance < Setting(w, "min_importance", 0)
  IN  {a \in all : /\ a.rule = NoRule /\ a.status = "none"
                    /\ a.id \notin linked
                    /\ (Expired(a) \/ Minor(a))}

-----------------------------------------------------------------------------
Init ==
  /\ store = {}
  /\ reflex = {} /\ conflicts = << >>
  /\ idGen = 1 /\ clock = 0
  /\ job = [t \in Thread |-> Idle]
  /\ published = << >> /\ fed = {} /\ accepted = {} /\ evicted = {} /\ acts = << >>
  /\ shared = {} /\ mixed = {}
  /\ left \in Budgets /\ restarts = 0

(* remember up to the embedder's await: the id is taken, the timestamp     *)
(* filled in, and a suspicious atom sent to the quarantine world. Labels   *)
(* are the caller's, those of a status atom included.                      *)
BeginRemember(t) ==
  /\ \E r \in Requests : \E w \in {r.world, Quarantine[r.world]} :
       LET a == [id |-> idGen, world |-> w, ts |-> IF r.ts = Unset THEN clock ELSE r.ts,
                 importance |-> r.importance, links |-> r.links, status |-> r.status,
                 rule |-> r.rule]
       IN  Begin(t, "remember", [Idle EXCEPT !.pc = "store", !.rest = <<a>>])
  /\ NewId /\ Tick
  /\ UNCHANGED <<store, indexes, hist>>

(* The embedder, the vector index, storage or the stream fails, or the     *)
(* caller gives up during the await: the call ends without storing or      *)
(* without publishing its atom, and with the rest of its batch, or the     *)
(* other worlds of gc, undone.                                             *)
Abandon(t) ==
  /\ \/ job[t].pc \in {"store", "publish"}
     \/ job[t].pc = "next" /\ (job[t].rest # << >> \/ job[t].todo # {})
  /\ Close(t, "cut")
  /\ Put(t, Idle)
  /\ UNCHANGED <<store, indexes, idGen, clock, published, fed, accepted, evicted, marks, bounds>>

(* The four steps that every call takes with an atom. A body is stored     *)
(* under its world and id, and replaces one that is there: the frames of   *)
(* both name the new body. An id is shared when another thread has looked  *)
(* it up in vain and is about to store it too; a world is mixed when one   *)
(* of its ids is used again, or a status atom is not manage_world's.       *)
Overwritten(a) ==
  {IF e.atom.world = a.world /\ e.atom.id = a.id THEN [e EXCEPT !.atom = a] ELSE e : e \in store}

StoreAtom(t) ==
  LET a == Head(job[t].rest) IN
  /\ job[t].pc = "store"
  /\ \E n \in Free(a.world) : store' = Overwritten(a) \cup {[at |-> n, atom |-> a]}
  /\ shared' = shared \cup {x \in {a.id} : \E u \in Thread \ {t} :
                                job[u].pc = "store" /\ Head(job[u].rest).id = x}
  /\ mixed' = mixed \cup {x \in {a.world} :
                   \/ a.id \in UsedIds(x)
                   \/ a.status # "none" /\ job[t].call # "manage"}
  /\ Put(t, [job[t] EXCEPT !.pc = "reflex"])
  /\ UNCHANGED <<indexes, idGen, clock, hist, bounds>>

InsertReflex(t) ==
  LET a == Head(job[t].rest) IN
  /\ job[t].pc = "reflex" /\ Parsed(a)
  /\ reflex' = Fed(a)
  /\ fed' = fed \cup {a}
  /\ Put(t, [job[t] EXCEPT !.pc = "register"])
  /\ UNCHANGED <<store, conflicts, idGen, clock, published, accepted, evicted, acts, marks, bounds>>

(* insert refuses the timestamp: the call answers Err, the atom is stored. *)
RefuseTimestamp(t) ==
  /\ job[t].pc = "reflex" /\ ~Parsed(Head(job[t].rest))
  /\ Put(t, Idle)
  /\ UNCHANGED <<store, indexes, idGen, clock, hist, marks, bounds>>

Register(t) ==
  /\ job[t].pc = "register"
  /\ conflicts' = Append(conflicts, Head(job[t].rest))
  /\ Put(t, [job[t] EXCEPT !.pc = "publish"])
  /\ UNCHANGED <<store, reflex, idGen, clock, hist, marks, bounds>>

Publish(t) ==
  /\ job[t].pc = "publish"
  /\ published' = Append(published, Head(job[t].rest))
  /\ Put(t, [job[t] EXCEPT !.pc = "next", !.rest = Tail(@)])
  /\ UNCHANGED <<store, indexes, idGen, clock, fed, accepted, evicted, acts, marks, bounds>>

(* ingest_remote_atoms                                                     *)
BeginIngest(t) ==
  /\ \E b \in Batches :
       Begin(t, "ingest", [Idle EXCEPT !.pc = "next", !.batch = b, !.rest = b])
  /\ UNCHANGED <<store, indexes, idGen, clock, hist, marks>>

LookUp(t) ==
  /\ job[t].pc = "next" /\ job[t].rest # << >>
  /\ Put(t, IF Head(job[t].rest).id \in StoredIds
            THEN [job[t] EXCEPT !.rest = Tail(@)]
            ELSE [job[t] EXCEPT !.pc = "store"])
  /\ UNCHANGED <<store, indexes, idGen, clock, hist, marks, bounds>>

(* gc_once: for each world a scan that chooses the victims, then a delete, *)
(* which may fail and end the call when some of them are gone.             *)
BeginGc(t) ==
  /\ Begin(t, "gc", [Idle EXCEPT !.pc = "next",
                                 !.todo = {w \in World : Atoms(w) # {}}])
  /\ UNCHANGED <<store, indexes, idGen, clock, hist, marks>>

Scan(t) ==
  /\ job[t].pc = "next" /\ job[t].call = "gc"
  /\ \E w \in job[t].todo :
       IF Victims(w) = {}
       THEN Put(t, [job[t] EXCEPT !.todo = @ \ {w}])
       ELSE Put(t, [job[t] EXCEPT !.pc = "evict", !.todo = @ \ {w},
                                  !.victims = Victims(w), !.seen = Atoms(w)])
  /\ UNCHANGED <<store, indexes, idGen, clock, hist, marks, bounds>>

Evict(t) ==
  /\ job[t].pc = "evict"
  /\ \E gone \in SUBSET job[t].victims :
       /\ store' = {e \in store : \A v \in gone : v.world # e.atom.world \/ v.id # e.atom.id}
       /\ evicted' = evicted \cup {v.id : v \in gone}
       /\ \/ /\ gone = job[t].victims
             /\ Put(t, [job[t] EXCEPT !.pc = "next", !.victims = {}, !.seen = {}])
          \/ Put(t, Idle)
  /\ UNCHANGED <<indexes, idGen, clock, published, fed, accepted, acts, marks, bounds>>

(* manage_world: the status is read, and the call is over when it is the   *)
(* one asked for, unless it is a create with a description or labels; a    *)
(* scan that fails counts as no status.                                    *)
BeginManage(t) ==
  \E w \in World, want \in {"active", "archived"}, pc \in {"next", "stamp"} :
    LET over == {n \in DOMAIN acts : acts[n].state # "running"}
        act  == [world |-> w, want |-> want, state |-> "running", after |-> over]
    IN  /\ pc = "next" => Status(w) = want
        /\ acts' = Append(acts, act)
        /\ Begin(t, "manage", [Idle EXCEPT !.pc = pc, !.act = Len(acts) + 1])
        /\ UNCHANGED <<store, indexes, idGen, clock, published, fed, accepted, evicted, marks>>

Stamp(t) ==
  /\ job[t].pc = "stamp"
  /\ LET a == [id |-> idGen, world |-> acts[job[t].act].world, ts |-> clock,
               importance |-> 1, links |-> << >>,
               status |-> acts[job[t].act].want, rule |-> NoRule]
     IN  Put(t, [job[t] EXCEPT !.pc = "store", !.rest = <<a>>])
  /\ NewId /\ Tick
  /\ UNCHANGED <<store, indexes, hist, bounds>>

(* A call answers Ok.                                                      *)
Finish(t) ==
  /\ job[t].pc = "next" /\ job[t].rest = << >>
  /\ job[t].call = "gc" => job[t].todo = {}
  /\ accepted' = accepted \cup Elements(job[t].batch)
  /\ Close(t, "ended")
  /\ Put(t, Idle)
  /\ UNCHANGED <<store, indexes, idGen, clock, published, fed, evicted, marks, bounds>>

(* The process dies and a new engine is built over the same storage, which *)
(* gives out its ids from 1 again.                                         *)
Restart ==
  /\ restarts < MaxRestarts /\ restarts' = restarts + 1
  /\ job' = [t \in Thread |-> Idle]
  /\ reflex' = {} /\ conflicts' = << >>
  /\ idGen' = 1
  /\ fed' = {}
  /\ acts' = [n \in DOMAIN acts |->
                IF acts[n].state = "running" THEN [acts[n] EXCEPT !.state = "cut"] ELSE acts[n]]
  /\ UNCHANGED <<store, clock, published, accepted, evicted, marks, left>>

Next ==
  \/ \E t \in Thread :
       \/ BeginRemember(t) \/ BeginIngest(t) \/ BeginGc(t) \/ BeginManage(t)
       \/ Stamp(t) \/ Abandon(t)
       \/ StoreAtom(t) \/ InsertReflex(t) \/ RefuseTimestamp(t) \/ Register(t) \/ Publish(t)
       \/ LookUp(t) \/ Scan(t) \/ Evict(t) \/ Finish(t)
  \/ Restart

Spec == Init /\ [][Next]_vars

-----------------------------------------------------------------------------
(* Every variable keeps its type: what remember, ingest and manage_world   *)
(* build are atoms, with a timestamp filled in.                            *)
TypeOK ==
  /\ store \subseteq Entry
  /\ reflex \subseteq Atom /\ conflicts \in Seq(Atom)
  /\ idGen \in Nat /\ clock \in Nat
  /\ job \in [Thread -> Job]
  /\ published \in Seq(Atom) /\ fed \subseteq Atom /\ accepted \subseteq Atom
  /\ evicted \subseteq Nat /\ acts \in Seq(Act)
  /\ shared \subseteq Nat /\ mixed \subseteq World
  /\ left \in [Call -> Nat] /\ restarts \in Nat

(* ask finds every atom that this process indexed and that is within the   *)
(* window of the newest one of its world, in whatever order threads and    *)
(* peers bring in atoms of old and new timestamps.                         *)
AskFindsRecent ==
  \A a \in fed :
    (\A b \in fed : b.world = a.world => Bucket(b) <= Bucket(a) + WindowBuckets)
      => a \in Answer(a.world)

(* However often batches are delivered, by how many threads at a time, cut *)
(* short by errors or by restarts: an atom of a peer is stored, registered *)
(* and published once until gc evicts it, and so is one of this node, but  *)
(* for an id that one thread stored when another had already looked it up  *)
(* in vain, and one that this node gave out when storage had it.           *)
AtMostOnce ==
  LET Exempt    == evicted \cup shared
      Single(s) == \A i, j \in DOMAIN s : i # j /\ s[i].id = s[j].id => s[i].id \in Exempt
  IN  /\ \A e, f \in store : e # f /\ e.atom.id = f.atom.id => e.atom.id \in Exempt
      /\ Single(conflicts)
      /\ Single(published)

(* crates/dwbase-engine/src/lib.rs:1030, "Ingest atoms received from       *)
(* peers; idempotent (skips existing ids)": a batch that is delivered      *)
(* again puts no atom of it into storage again.                            *)
IngestIdempotent == \A e, f \in store : e.atom = f.atom => e = f

(* A batch that ingest_remote_atoms answered Ok for is stored whole, but   *)
(* for what gc evicted, also when an earlier delivery failed half way.     *)
AcceptedStored == \A a \in accepted : a.id \in StoredIds \cup evicted

(* .codex/PR-20.md:22, "node B syncs and ends with same atoms": when       *)
(* ingest_remote_atoms answers Ok, each atom of the batch is stored as the *)
(* peer sent it, or was evicted.                                           *)
AcceptedWhole ==
  [][\A a \in accepted' \ accepted : a.id \in evicted \/ a \in {e.atom : e \in store}]_vars

Links(b, a) == \E i \in DOMAIN b.links : b.links[i].target = a.id
Deleted(w)  == {a \in Atoms(w) : a.id \notin {b.id : b \in Atoms(w)'}}

(* gc deletes an atom that another of its world links to only if the link  *)
(* was stored after gc had scanned the world.                              *)
SeenLinksKept ==
  [][\A w \in World : \A a \in Deleted(w), b \in Atoms(w)' :
       Links(b, a) => \E t \in Thread : /\ a.id \in {v.id : v \in job[t].victims}
                                        /\ b \notin job[t].seen]_vars

(* .codex/PR-24.md:12, "never delete atoms referenced by newer atoms".     *)
LinkedNeverDeleted ==
  [][\A w \in World : \A a \in Deleted(w), b \in Atoms(w)' : ~Links(b, a)]_vars

(* The status of a world is the one asked for by a call of manage_world    *)
(* that no completed call came entirely after, whatever the calls, gc and  *)
(* restarts do in between; in particular an archive or resume that         *)
(* answered Ok without writing was right to. Worlds are left out in which  *)
(* a caller or a peer wrote a status atom by itself, or an id came again.  *)
LastActionHolds ==
  \A w \in World \ mixed :
    LET on(n) == acts[n].world = w
        Undone(n) == \E m \in DOMAIN acts :
                       on(m) /\ acts[m].state = "ended" /\ n \in acts[m].after
    IN  \/ \E n \in DOMAIN acts : on(n) /\ acts[n].want = Status(w) /\ ~Undone(n)
        \/ \A n \in DOMAIN acts : on(n) => (Status(w) = "none" /\ acts[n].state # "ended")

=============================================================================
