-------------------------------- MODULE Node --------------------------------
(***************************************************************************)
(* The node process, crates/dwbase-node/src/main.rs: the HTTP handlers     *)
(* that change something, over an engine of whose calls the steps that     *)
(* the others can see are kept (Engine has them in full): the append to    *)
(* storage, then the publication to the streams of LocalStream, then the   *)
(* handler's own step under the lock of AppState.worlds.                   *)
(*                                                                         *)
(* Abstractions: the storage is a set of atoms in the order of their ids,  *)
(* and lists a world under the part of its name before the first "/", as   *)
(* SledStore has it; what makes remember quarantine an atom is left open,  *)
(* and so is when the rate of the gatekeeper refuses a call, which then    *)
(* does nothing. A handler may be dropped where it awaits the lock. No     *)
(* remember carries the labels of a status. Ids go on counting over a      *)
(* restart: in the code they start over, and an atom may replace an older  *)
(* one, which is Engine's and EngineIds' matter; what is said here of      *)
(* subscribers and of the list is said within one process.                 *)
(***************************************************************************)
EXTENDS LocalStream

CONSTANTS
  Handler,
  Contents,    \* what the atoms of callers say: kind, labels, flags, ts
  MetaContent, \* what the atom of manage_world says
  Policy,      \* Policy[w]: the world a policy for w is written to
  Quarantine,  \* Quarantine[w]: the world "quarantine:<w>"
  Segment,     \* Segment[w]: the name up to its first "/"
  Writable,    \* worlds the capabilities let callers write
  MaxAtoms, MaxManaged, MaxRestarts \* bounds: atoms, calls of manage_world, restarts

NodeAssumption ==
  /\ Writable \subseteq WorldName
  /\ DOMAIN Policy \subseteq WorldName
  /\ \A w \in Writable : Quarantine[w] \in WorldName
  /\ MaxAtoms \in Nat /\ MaxManaged \in Nat /\ MaxRestarts \in Nat
  /\ StreamAssumption

VARIABLES
  store,    \* the stored atoms
  worlds,   \* AppState.worlds, a list without repetitions
  ids,      \* ids given out
  doing,    \* what each handler's call is doing
  scanned,  \* history: the ids a subscriber replayed once it had subscribed
  acked,    \* history: the ids of atoms whose remember answered Ok
  crossed,  \* history: the handlers whose call another may have undone while it ran
  settled,  \* history: what this process did to a world by calls not undone since
  managed, restarts

shown  == <<scanned, acked, crossed, settled>>
served == <<stream, store, worlds, ids, doing, shown, managed, restarts>>

Free == [pc |-> "idle"]

Body(w, c, status) ==
  [id |-> ids + 1, world |-> w, status |-> status,
   kind |-> c.kind, labels |-> c.labels, flags |-> c.flags, ts |-> c.ts]

Turn(t, j) == doing' = [doing EXCEPT ![t] = j]

\* What undoes for the list what a call that wanted x did.
Undoing(x) == IF x = "archived" THEN {"active"} ELSE {"archived"}

\* The history of calls that cross each other on a world: t begins a call there.
Begins(t, w, want) ==
  LET others == {u \in Handler : doing[u] # Free /\ doing[u].asked = w}
      undone == \E u \in others : doing[u].want \in Undoing(want)
  IN  /\ crossed' = (crossed \ {t}) \cup (IF undone THEN {t} ELSE {})
                      \cup {u \in others : want \in Undoing(doing[u].want)}
      /\ settled' = [settled EXCEPT ![w] = {x \in @ : want \notin Undoing(x)}]
      /\ UNCHANGED <<scanned, acked>>

(* world_status: that of the latest world_meta atom.                       *)
StatusOf(w) ==
  LET metas == {a \in store : a.world = w /\ a.status # "none"}
  IN  IF metas = {} THEN "none"
      ELSE (CHOOSE a \in metas : \A b \in metas : b.id <= a.id).status

world_archived(w) == StatusOf(w) = "archived"

\* A faulty variant of the definition below: the world of the atom is pushed.
PushedStored(j) ==
  IF j.want = "archived" THEN worlds \ {j.asked}
  ELSE worlds \cup {a.world : a \in {b \in store : b.id = j.id}}

\* The list once a handler has run its last step.
Pushed(j) ==
  IF j.want = "archived" THEN worlds \ {j.asked} ELSE worlds \cup {j.asked}

\* engine.worlds(): what storage lists, without the archived ones.
worlds_filtered == {w \in {Segment[a.world] : a \in store} : ~world_archived(w)}

\* What list_worlds_handler answers: these, and those of the list.
Listed == worlds_filtered \cup {w \in worlds : ~world_archived(w)}

-----------------------------------------------------------------------------
NodeInit ==
  /\ StreamInit
  /\ store = {} /\ worlds = {} /\ ids = 0
  /\ doing = [t \in Handler |-> Free]
  /\ scanned = << >> /\ acked = {}
  /\ crossed = {} /\ settled = [w \in WorldName |-> {}]
  /\ managed = 0 /\ restarts = 0

(* remember up to the append; a suspicious atom goes to another world.     *)
Remember(t, asked, c) ==
  /\ doing[t] = Free /\ asked \in Writable /\ ids < MaxAtoms
  /\ \E w \in {asked, Quarantine[asked]} :
       Turn(t, [pc |-> "store", asked |-> asked, want |-> "none",
               id |-> ids + 1, atom |-> Body(w, c, "none")])
  /\ ids' = ids + 1 /\ Begins(t, asked, "none")
  /\ UNCHANGED <<stream, store, worlds, managed, restarts>>

(* world_policy_handler: the policy is remembered in a world of its own.   *)
SetPolicy(t, w) == \E c \in Contents : Remember(t, Policy[w], c)

(* manage_world, which does nothing when the status is the one wanted and  *)
(* the request has no description and no labels ("plain").                 *)
Manage(t, w, want) ==
  /\ doing[t] = Free /\ w \in Writable /\ managed < MaxManaged
  /\ managed' = managed + 1 /\ Begins(t, w, want)
  /\ \E plain \in {TRUE, want = "archived"} :
       Turn(t, [pc |-> IF plain /\ StatusOf(w) = want THEN "list" ELSE "stamp",
               asked |-> w, want |-> want, id |-> 0])
  /\ UNCHANGED <<stream, store, worlds, ids, restarts>>

Stamp(t) ==
  /\ doing[t].pc = "stamp" /\ ids < MaxAtoms
  /\ Turn(t, [pc |-> "store", asked |-> doing[t].asked, want |-> doing[t].want,
             id |-> ids + 1, atom |-> Body(doing[t].asked, MetaContent, doing[t].want)])
  /\ ids' = ids + 1
  /\ UNCHANGED <<stream, store, worlds, shown, managed, restarts>>

StoreAtom(t) ==
  /\ doing[t].pc = "store"
  /\ store' = store \cup {doing[t].atom}
  /\ Turn(t, [doing[t] EXCEPT !.pc = "publish"])
  /\ UNCHANGED <<stream, worlds, ids, shown, managed, restarts>>

PublishStored(t) ==
  /\ doing[t].pc = "publish"
  /\ publish(doing[t].atom)
  /\ Turn(t, [doing[t] EXCEPT !.pc = "list"])
  /\ UNCHANGED <<store, worlds, ids, shown, managed, restarts>>

(* The handler's step on AppState.worlds, and its answer.                  *)
UpdateList(t) ==
  LET j == doing[t] IN
  /\ j.pc = "list"
  /\ worlds' = Pushed(j)
  /\ acked' = IF j.id = 0 THEN acked ELSE acked \cup {j.id}
  /\ settled' = IF t \in crossed THEN settled
                ELSE [settled EXCEPT ![j.asked] = @ \cup {j.want}]
  /\ Turn(t, Free) /\ crossed' = crossed \ {t}
  /\ UNCHANGED <<stream, store, ids, scanned, managed, restarts>>

(* Storage fails, or the caller goes away while the handler waits.         *)
Abandon(t) ==
  /\ doing[t].pc \in {"store", "list"}
  /\ Turn(t, Free) /\ crossed' = crossed \ {t}
  /\ UNCHANGED <<stream, store, worlds, ids, scanned, acked, settled, managed, restarts>>

Streams ==
  /\ \/ \E w \in Writable, f \in Filters : subscribe(w, f) /\ UNCHANGED scanned
     \/ \E h \in DOMAIN subscribers :
          \/ poll(h) /\ UNCHANGED scanned
          \/ stop(h) /\ scanned' = [k \in DOMAIN scanned \ {h} |-> scanned[k]]
  /\ UNCHANGED <<store, worlds, ids, doing, acked, crossed, settled, managed, restarts>>

(* replay, as a subscriber would call it to know what came before it.      *)
Replay(h) ==
  /\ h \in DOMAIN subscribers \ DOMAIN scanned
  /\ scanned' = [k \in DOMAIN scanned \cup {h} |->
       IF k = h THEN {a.id : a \in {b \in store : Wanted(b, subscribers[h])}}
       ELSE scanned[k]]
  /\ UNCHANGED <<stream, store, worlds, ids, doing, acked, crossed, settled, managed, restarts>>

Restart ==
  /\ restarts < MaxRestarts /\ restarts' = restarts + 1
  /\ StreamEnds
  /\ doing' = [t \in Handler |-> Free]
  /\ worlds' = {} /\ scanned' = << >>
  /\ crossed' = {} /\ settled' = [w \in WorldName |-> {}]
  /\ UNCHANGED <<store, ids, acked, managed>>

NodeNext ==
  \/ \E t \in Handler :
       \/ \E w \in Writable, c \in Contents : Remember(t, w, c)
       \/ \E w \in DOMAIN Policy : SetPolicy(t, w)
       \/ \E w \in Writable, want \in {"active", "archived"} : Manage(t, w, want)
       \/ Stamp(t) \/ StoreAtom(t) \/ PublishStored(t) \/ UpdateList(t) \/ Abandon(t)
  \/ Streams
  \/ \E h \in DOMAIN subscribers : Replay(h)
  \/ Restart

NodeSpec == NodeInit /\ [][NodeNext]_served

-----------------------------------------------------------------------------
Elements(s) == {s[i] : i \in DOMAIN s}
Sent(h) == {a.id : a \in Elements(got[h] \o subscribers[h].queue)}

(* Every variable has its type, and an atom is stored in one world only.   *)
NodeTypeOK ==
  /\ \A a, b \in store : a.id = b.id => a = b
  /\ \A a \in store : a.id \in 1..ids /\ a.world \in WorldName
  /\ worlds \subseteq WorldName /\ crossed \subseteq Handler
  /\ settled \in [WorldName -> SUBSET {"none", "active", "archived"}]
  /\ acked \subseteq 1..ids
  /\ DOMAIN subscribers \subseteq 1..MaxSubscribers /\ DOMAIN scanned \subseteq DOMAIN subscribers
  /\ \A t \in Handler : doing[t].pc \in {"idle", "stamp", "store", "publish", "list"}
  /\ managed \in 0..MaxManaged /\ restarts \in 0..MaxRestarts

(* One who subscribes first and replays the world afterwards has every     *)
(* atom of it that was acknowledged, from the one or from the other, and   *)
(* none twice from the stream: an atom is stored before it is published    *)
(* (remember, manage_world, publish, poll).                                *)
NothingMissed ==
  \A h \in DOMAIN scanned :
    /\ \A a \in store : a.id \in acked /\ Wanted(a, subscribers[h]) =>
         a.id \in scanned[h] \cup Sent(h)
    /\ LET s == got[h] \o subscribers[h].queue
       IN  \A i, j \in DOMAIN s : s[i].id = s[j].id => i = j

(* What a caller was told holds in the list of worlds, until another call  *)
(* on that world that may undo it begins: a world created or resumed is    *)
(* listed, an archived one is not ("archived worlds are hidden",           *)
(* docs/cli.md:55), and one remembered into is unless its status is        *)
(* archived. It needs the status in storage and the list in memory to      *)
(* agree, which are written apart, through quarantine, names that storage  *)
(* lists under their first part, calls given up half way and any crossing  *)
(* with calls that do not undo it (remember_handler, manage_world_handler, *)
(* list_worlds_handler). A call that crossed one that may undo it promises *)
(* nothing, and a restart forgets the list.                                *)
ListedWorlds ==
  \A w \in WorldName :
    /\ "active" \in settled[w] => w \in Listed
    /\ "archived" \in settled[w] => w \notin Listed
    /\ "none" \in settled[w] => w \in Listed \/ world_archived(w)
=============================================================================
