------------------------------- MODULE Recall -------------------------------
(***************************************************************************)
(* What an engine finds again, crates/dwbase-engine/src/lib.rs: ask, with  *)
(* the reflex index, the conflict index that ranks its answers, the vector *)
(* index of crates/dwbase-vector-hnsw, and remember, which feeds them all. *)
(* ask looks into each at another moment, and awaits the embedder between  *)
(* the first two and the rest.                                             *)
(*                                                                         *)
(* Abstractions: as in Engine, storage appends, deletes and reads in one   *)
(* step each and what is suspicious is left open; an importance is in      *)
(* tenths; a timestamp is a second. The sort locks the conflict index for  *)
(* every comparison, so its order is open when that changes under it. The  *)
(* search for neighbours answers any of the points. rebuild does nothing,  *)
(* and the version of an embedder never changes, so an index is ready.     *)
(***************************************************************************)
EXTENDS Integers, Sequences, FiniteSets

CONSTANTS
  Writer,       \* threads that call remember
  Asker,        \* threads that call ask
  RecallWorld,
  Isolated,     \* Isolated[w]: the world "quarantine:<w>", of a world that is none
  NewAtoms,     \* atoms that callers pass to remember
  Questions,    \* questions that callers ask
  EmbedDim,     \* the length of the embedder's vectors, 0 when it answers None
  Hint,         \* trust_hint of each worker
  Near,         \* atoms a search returns at most
  Bounded,      \* atoms the last scan returns at most
  Recency,      \* ReflexIndexConfig.recency_seconds, in buckets of a second
  MaxMinted,    \* bound: atoms made
  MaxAsks,      \* bound: calls of ask
  MaxMishaps    \* bound: evictions by gc and restarts

LinkKind == {"supersedes", "contradicts", "confirms", "references"}

RecallAssumption ==
  /\ Writer \cap Asker = {} /\ DOMAIN Isolated \subseteq RecallWorld
  /\ \A w \in DOMAIN Isolated : Isolated[w] \in RecallWorld
  /\ \A r \in NewAtoms :
       /\ r.world \in RecallWorld /\ r.importance \in 0..10 /\ r.ts \in Nat /\ r.vector \in Nat
       /\ r.links \in Seq([kind : LinkKind, target : Nat])
  /\ \A q \in Questions : q.world \in RecallWorld /\ q.limit \in Nat
  /\ EmbedDim \in Nat /\ Near \in Nat /\ Bounded \in Nat /\ Recency \in Nat \ {0}
  /\ MaxMinted \in Nat /\ MaxAsks \in Nat /\ MaxMishaps \in Nat

VARIABLES
  frames,    \* what each frame of the logs holds, by its place
  reflex,    \* the atoms in the buckets of ReflexIndex
  conflicts, \* ConflictIndex
  dims,      \* the length of the vectors of each world that has an index
  points,    \* the ids in the vector index of each world
  idGen,
  task,      \* what each thread is doing
  minted,    \* history: every atom remember made
  reissued,  \* history: the ids that more than one atom got
  told,      \* history: the atoms whose remember answered Ok
  registered,\* history: those of them that this process answered
  asks, mishaps

indexes == <<reflex, conflicts, dims, points>>
past    == <<minted, reissued, told, registered>>
recalls == <<frames, indexes, idGen, task, past, asks, mishaps>>

Quiet == [pc |-> "idle"]
NoConflicts == [supersedes |-> << >>, contradicts |-> << >>, confirms |-> << >>]
Put(t, j) == task' = [task EXCEPT ![t] = j]
With(f, k, v) == [x \in DOMAIN f \cup {k} |-> IF x = k THEN v ELSE f[x]]
AtomsAt(places) == {frames[i] : i \in places}
StoredAtoms == AtomsAt(DOMAIN frames)

-----------------------------------------------------------------------------
(* Storage, the filters, and the search *)

\* SledStorage::append replaces the body of an atom of the same world and id,
\* and adds a frame.
Appended(a, place) ==
  With([i \in DOMAIN frames |->
          IF frames[i].world = a.world /\ frames[i].id = a.id THEN a ELSE frames[i]], place, a)

\* ReflexIndex::filter: the world is the question's, and the filter's flags exclude.
Recent(q) ==
  {a \in reflex : /\ a.world = q.world
                  /\ q.kinds # {} => a.kind \in q.kinds
                  /\ a.ts >= q.since
                  /\ q.labels \subseteq a.labels
                  /\ q.flags \cap a.flags = {}}

\* SledStorage::scan: the filter's flags are required.
Matches(q, a) ==
  /\ a.world = q.world
  /\ q.kinds # {} => a.kind \in q.kinds
  /\ q.labels \subseteq a.labels /\ q.flags \subseteq a.flags
  /\ a.ts >= q.since /\ a.ts <= q.until
Matching(q) == {i \in DOMAIN frames : Matches(q, frames[i])}
First(n, places) == {i \in places : Cardinality({j \in places : j < i}) < n}

\* The limit is looked at after an atom is taken: none is below 1.
Scanned(q) == AtomsAt(First(IF q.limit = 0 THEN 1 ELSE q.limit, Matching(q)))

\* A faulty variant of the definition below: the index of every world is searched.
FoundAnywhere(q) ==
  {S \in SUBSET UNION {points[w] : w \in DOMAIN points} : Cardinality(S) <= Near}

\* search: the metadata that remember stores are the default ones, which no
\* filter by kind, label or flag matches.
Found(q) ==
  LET blank == q.kinds = {} /\ q.labels = {} /\ q.flags = {}
      ids   == IF blank /\ q.within \in {"any", q.world} THEN points[q.world] ELSE {}
  IN  {S \in SUBSET ids : Cardinality(S) <= Near /\ (ids # {} /\ Near > 0 => S # {})}

OneOf(S, id) == Cardinality({a \in S : a.id = id}) = 1

\* get_by_ids answers one atom for an id, of whatever world.
Fetched(ids) == {S \in SUBSET {a \in StoredAtoms : a.id \in ids} :
                   \A a \in StoredAtoms : a.id \in ids => OneOf(S, a.id)}

-----------------------------------------------------------------------------
(* The order of an answer *)

Count(f, id) == IF id \in DOMAIN f THEN f[id] ELSE 0

\* A faulty variant of the definition below: what is superseded ranks as before.
rank_score_of_all(a) ==
  a.importance - 3 * Count(conflicts.contradicts, a.id) + 2 * Count(conflicts.confirms, a.id)

rank_score(a) ==
  a.importance - (IF a.id \in DOMAIN conflicts.supersedes THEN 10 ELSE 0)
    - 3 * Count(conflicts.contradicts, a.id) + 2 * Count(conflicts.confirms, a.id)

\* What a score depends on. While the process lives each part can only grow, so
\* an atom that stands as before has stood so in between.
Standing(a) == <<a.id \in DOMAIN conflicts.supersedes,
                 Count(conflicts.contradicts, a.id), Count(conflicts.confirms, a.id)>>

Rank(a) == <<rank_score(a), a.ts, a.importance, Hint[a.worker]>>
Above(a, b) == \E i \in 1..4 : /\ Rank(a)[i] > Rank(b)[i]
                               /\ \A j \in 1..(i - 1) : Rank(a)[j] = Rank(b)[j]

\* The first candidate of each id stays.
Distinct(first, more) ==
  {S \in SUBSET (first \cup more) :
     /\ \A a \in first \cup more : OneOf(S, a.id)
     /\ \A b \in S : b \in first \/ b.id \notin {a.id : a \in first}}

Orders(S) == {s \in [1..Cardinality(S) -> S] : \A i, j \in DOMAIN s : i < j => s[i] # s[j]}
Ranked(S) == {s \in Orders(S) : \A i, j \in DOMAIN s : i < j => ~Above(s[j], s[i])}

-----------------------------------------------------------------------------
RecallInit ==
  /\ frames = << >> /\ reflex = {} /\ conflicts = NoConflicts
  /\ dims = << >> /\ points = << >> /\ idGen = 1
  /\ task = [t \in Writer \cup Asker |-> Quiet]
  /\ minted = {} /\ reissued = {} /\ told = {} /\ registered = {} /\ asks = 0 /\ mishaps = 0

(* atom_from_new, and what quarantine makes of it, in its own world.       *)
atom_from_new(r, v) ==
  LET Made(world, labels, flags) ==
        [id |-> idGen, world |-> world, kind |-> r.kind, labels |-> labels, flags |-> flags,
         ts |-> r.ts, importance |-> r.importance, links |-> r.links, worker |-> r.worker,
         vector |-> v]
  IN  {Made(r.world, r.labels, r.flags)} \cup
      {Made(Isolated[w], r.labels \cup {"quarantine"}, r.flags \cup {"suspect"}) :
         w \in {r.world} \cap DOMAIN Isolated}

(* remember up to the await and beyond it: the embedder's vector stands in *)
(* for a missing one.                                                      *)
BeginRemember(t) ==
  /\ task[t].pc = "idle" /\ Cardinality(minted) < MaxMinted /\ idGen' = idGen + 1
  /\ \E r \in NewAtoms :
       \E v \in IF r.vector = 0 THEN {0, EmbedDim} ELSE {r.vector} :
         \E a \in atom_from_new(r, v) :
           /\ Put(t, [pc |-> IF v = 0 THEN "store" ELSE "upsert", atom |-> a])
           /\ minted' = minted \cup {a}
  /\ reissued' = reissued \cup {a.id : a \in {b \in minted : b.id = idGen}}
  /\ UNCHANGED <<frames, indexes, told, registered, asks, mishaps>>

\* The embedder, the vector index or storage fails, the caller gives up, or the
\* sort panics, which it may when the order changes under it.
GiveUp(t) ==
  /\ task[t].pc \in {"upsert", "store", "scan", "search", "fetch", "rank", "sort"}
  /\ Put(t, Quiet)
  /\ UNCHANGED <<frames, indexes, idGen, past, asks, mishaps>>

(* upsert: the first vector of a world settles their length; another is    *)
(* refused, and then nothing is stored.                                    *)
UpsertVector(t) ==
  LET a == task[t].atom
      settled == a.world \in DOMAIN dims
  IN
  /\ task[t].pc = "upsert"
  /\ IF settled /\ dims[a.world] # a.vector
     THEN Put(t, Quiet) /\ UNCHANGED <<dims, points>>
     ELSE /\ Put(t, [task[t] EXCEPT !.pc = "store"])
          /\ dims' = With(dims, a.world, a.vector)
          /\ points' = With(points, a.world,
                            {a.id} \cup IF settled THEN points[a.world] ELSE {})
  /\ UNCHANGED <<frames, reflex, conflicts, idGen, past, asks, mishaps>>

Store(t) ==
  /\ task[t].pc = "store"
  /\ \E last \in {0} \cup DOMAIN frames :
       /\ \A i \in DOMAIN frames : i <= last
       /\ frames' = Appended(task[t].atom, last + 1)
  /\ Put(t, [task[t] EXCEPT !.pc = "insert"])
  /\ UNCHANGED <<indexes, idGen, past, asks, mishaps>>

Insert(t) ==
  LET a == task[t].atom IN
  /\ task[t].pc = "insert"
  /\ reflex' = {b \in reflex \cup {a} : b.world = a.world => b.ts + Recency >= a.ts}
  /\ Put(t, [task[t] EXCEPT !.pc = "register"])
  /\ UNCHANGED <<frames, conflicts, dims, points, idGen, past, asks, mishaps>>

(* ConflictIndex::register: the last atom to supersede another is kept,    *)
(* and all that contradict or confirm it. The stream answers Ok here.      *)
Register(t) ==
  LET a == task[t].atom
      targets(k) == {a.links[i].target : i \in {j \in DOMAIN a.links : a.links[j].kind = k}}
      times(k, id) == Cardinality({i \in DOMAIN a.links : a.links[i] = [kind |-> k, target |-> id]})
      Superseded == [id \in DOMAIN conflicts.supersedes \cup targets("supersedes") |->
                       IF id \in targets("supersedes") THEN a.id ELSE conflicts.supersedes[id]]
      More(f, k) == [id \in DOMAIN f \cup targets(k) |-> Count(f, id) + times(k, id)]
  IN
  /\ task[t].pc = "register"
  /\ conflicts' = [supersedes  |-> Superseded,
                   contradicts |-> More(conflicts.contradicts, "contradicts"),
                   confirms    |-> More(conflicts.confirms, "confirms")]
  /\ told' = told \cup {a} /\ registered' = registered \cup {a}
  /\ Put(t, Quiet)
  /\ UNCHANGED <<frames, reflex, dims, points, idGen, minted, reissued, asks, mishaps>>

(* ask: the reflex index, and storage when that has nothing.               *)
AskQuestion(t) ==
  /\ task[t].pc = "idle" /\ asks < MaxAsks /\ asks' = asks + 1
  /\ \E q \in Questions :
       Put(t, [pc |-> IF Recent(q) = {} THEN "scan" ELSE "search", q |-> q, first |-> Recent(q),
               more |-> {}, ids |-> {}, before |-> told])
  /\ UNCHANGED <<frames, indexes, idGen, past, mishaps>>

\* A faulty variant of the definition below: nothing is looked up in storage.
SkipScan(t) ==
  /\ task[t].pc = "scan" /\ Put(t, [task[t] EXCEPT !.pc = "search"])
  /\ UNCHANGED <<frames, indexes, idGen, past, asks, mishaps>>

Scan(t) ==
  LET q == task[t].q IN
  /\ task[t].pc = "scan"
  /\ Put(t, [task[t] EXCEPT !.pc = "search", !.first = Scanned(q)])
  /\ UNCHANGED <<frames, indexes, idGen, past, asks, mishaps>>

(* The embedder has answered: the vector index is searched, and refuses a  *)
(* vector of another length.                                               *)
Search(t) ==
  LET q == task[t].q IN
  /\ task[t].pc = "search"
  /\ \/ Put(t, [task[t] EXCEPT !.pc = "rank"])
     \/ /\ EmbedDim > 0 /\ q.world \in DOMAIN dims /\ q.within \in {"any", q.world}
        /\ IF dims[q.world] # EmbedDim THEN Put(t, Quiet)
           ELSE \E found \in Found(q) \ {{}} :
                  Put(t, [task[t] EXCEPT !.pc = "fetch", !.ids = found])
  /\ UNCHANGED <<frames, indexes, idGen, past, asks, mishaps>>

Fetch(t) ==
  /\ task[t].pc = "fetch"
  /\ \E S \in Fetched(task[t].ids) : Put(t, [task[t] EXCEPT !.pc = "rank", !.more = S])
  /\ UNCHANGED <<frames, indexes, idGen, past, asks, mishaps>>

(* A last scan when there is nothing still; what is left for each id is to *)
(* be sorted.                                                              *)
Gather(t) ==
  LET q     == task[t].q
      limit == IF q.limit = 0 THEN 1 ELSE q.limit
      first == IF task[t].first \cup task[t].more # {} \/ q.within \notin {"any", q.world}
               THEN task[t].first
               ELSE AtomsAt(First(IF limit < Bounded THEN limit ELSE Bounded, Matching(q)))
  IN
  /\ task[t].pc = "rank"
  /\ \E S \in Distinct(first, task[t].more) :
       Put(t, [pc |-> "sort", q |-> q, before |-> task[t].before, known |-> registered,
               candidates |-> S, standing |-> [a \in S |-> Standing(a)]])
  /\ UNCHANGED <<frames, indexes, idGen, past, asks, mishaps>>

(* The sort is over. If register changed what it compares by on the way,   *)
(* there is no order that it must have come to.                            *)
Answer(t) ==
  LET S    == task[t].candidates
      calm == \A a \in S : task[t].standing[a] = Standing(a)
  IN
  /\ task[t].pc = "sort"
  /\ \E s \in IF calm THEN Ranked(S) ELSE Orders(S) :
       Put(t, [pc |-> "answered", q |-> task[t].q, before |-> task[t].before,
               known |-> task[t].known, calm |-> calm, answer |-> s])
  /\ UNCHANGED <<frames, indexes, idGen, past, asks, mishaps>>

Return(t) ==
  /\ task[t].pc = "answered" /\ Put(t, Quiet)
  /\ UNCHANGED <<frames, indexes, idGen, past, asks, mishaps>>

Mishap == mishaps < MaxMishaps /\ mishaps' = mishaps + 1

(* gc_once deletes an atom from storage and from nowhere else.             *)
Evict ==
  /\ Mishap
  /\ \E a \in StoredAtoms :
       LET kept == {i \in DOMAIN frames : frames[i].id # a.id \/ frames[i].world # a.world}
       IN  frames' = [i \in kept |-> frames[i]]
  /\ UNCHANGED <<indexes, idGen, task, past, asks>>

(* The process dies: the indexes are gone and ids start over.              *)
ProcessDies ==
  /\ Mishap
  /\ reflex' = {} /\ conflicts' = NoConflicts /\ dims' = << >> /\ points' = << >>
  /\ idGen' = 1 /\ task' = [t \in Writer \cup Asker |-> Quiet]
  /\ registered' = {} /\ UNCHANGED <<frames, minted, reissued, told, asks>>

RecallNext ==
  \/ \E t \in Writer :
       BeginRemember(t) \/ UpsertVector(t) \/ Store(t) \/ Insert(t) \/ Register(t) \/ GiveUp(t)
  \/ \E t \in Asker :
       AskQuestion(t) \/ Scan(t) \/ Search(t) \/ Fetch(t) \/ Gather(t) \/ Answer(t) \/ Return(t) \/ GiveUp(t)
  \/ Evict \/ ProcessDies

RecallSpec == RecallInit /\ [][RecallNext]_recalls

-----------------------------------------------------------------------------
(* Every index holds what remember made; and what it made is well formed.  *)
RecallTypeOK ==
  /\ \A a \in minted : /\ a.id \in Nat /\ a.world \in RecallWorld
                       /\ a.importance \in 0..10 /\ a.ts \in Nat /\ a.vector \in Nat
                       /\ a.links \in Seq([kind : LinkKind, target : Nat])
  /\ DOMAIN frames \subseteq Nat \ {0} /\ StoredAtoms \subseteq minted
  /\ reflex \subseteq minted /\ told \subseteq minted /\ registered \subseteq told
  /\ \A k \in {"contradicts", "confirms"} :
       \A id \in DOMAIN conflicts[k] : conflicts[k][id] \in Nat
  /\ DOMAIN dims = DOMAIN points /\ DOMAIN points \subseteq RecallWorld
  /\ \A w \in DOMAIN points : points[w] \subseteq {a.id : a \in {b \in minted : b.world = w}}
  /\ idGen \in Nat

Answered == {task[t] : t \in {u \in Asker : task[u].pc = "answered"}}

(* However the calls of remember, their failures half way, evictions and   *)
(* restarts fall between the looks that ask takes: an answer holds an id   *)
(* once, and an atom of the world asked about, which is no quarantine      *)
(* world unless asked for; all but for ids that two atoms got.             *)
AnswerSound ==
  \A r \in Answered :
    /\ \A i, j \in DOMAIN r.answer : i # j => r.answer[i].id # r.answer[j].id
    /\ \A i \in DOMAIN r.answer :
         /\ r.answer[i] \in minted
         /\ r.answer[i].world = r.q.world \/ r.answer[i].id \in reissued

(* An answer is empty only if storage has none of the atoms that were      *)
(* acknowledged before the question and that the question is about, also   *)
(* after a restart has emptied the indexes.                                *)
EmptyMeansNone ==
  \A r \in Answered :
    r.answer = << >> =>
      \A a \in r.before \cap AtomsAt(Matching(r.q)) : a.id \in reissued

(* An atom comes after the one of the answer that supersedes it, whatever  *)
(* their importances, if remember had answered for that one before the     *)
(* ranking began, in this process, unless confirmations lift the former or *)
(* the latter is itself superseded or contradicted: the conflict index,    *)
(* which many calls write and no call reads back, forgets no link. All but *)
(* for an answer under whose sort a register changed the scores.           *)
Says(a, kind, id) == \E i \in DOMAIN a.links : a.links[i] = [kind |-> kind, target |-> id]
CurrentFirst ==
  \A r \in Answered : r.calm =>
    \A i, j \in DOMAIN r.answer :
      LET old == r.answer[i]
          new == r.answer[j]
      IN  /\ new \in r.known /\ Says(new, "supersedes", old.id)
          /\ \A a \in minted : /\ ~Says(a, "confirms", old.id)
                               /\ ~Says(a, "supersedes", new.id)
                               /\ ~Says(a, "contradicts", new.id)
          /\ new.importance > 0 \/ old.importance < 10
          => j < i
=============================================================================
