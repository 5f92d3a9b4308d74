----------------------------- MODULE Replicator -----------------------------
(***************************************************************************)
(* Selective replication between nodes over NATS: Replicator with its      *)
(* SubscriptionTable and ReplayGuard (crates/dwbase-swarm-nats/src/        *)
(* replication.rs) over NatsSwarmTransport (swarm.rs).                     *)
(*                                                                         *)
(* A node announces the world patterns it wants; the others keep them in a *)
(* table, and in a file, until they expire. replicate_new_atom sends an    *)
(* atom to the peers in the table that want its world. Envelopes wait in   *)
(* the receive buffer rx until poll_inbox takes them, newest first, past   *)
(* the replay guard and the filters into the bounded inbox.                *)
(*                                                                         *)
(* Abstractions: an instant is the age it has in ticks, up to the age at   *)
(* which nothing changes any more, so that time needs no bound; a symbol   *)
(* is one character of a pattern; an envelope [from, to, atom] is its own  *)
(* random correlation id, as a node sends an atom to a peer once; kinds of *)
(* messages other than AtomBatch and SubscriptionIntent, request and       *)
(* respond, which no code calls, and errors of the disk are left out; one  *)
(* thread per node polls and one replicates.                               *)
(***************************************************************************)
EXTENDS Naturals, FiniteSets, SequencesExt

CONSTANTS
  Node,
  Atom,       \* atoms to replicate
  Garbled,    \* a payload that does not decode
  WorldOf,    \* the world of each atom, a sequence of symbols
  Symbol,     \* the symbols of worlds and patterns
  Star, Colon,\* the symbols "*" and ":"
  Patterns,   \* the pattern sets a node may be started with
  Announcers, \* the nodes whose host calls announce
  Outbox,     \* the atoms each node has to replicate
  CanSend,    \* WorldAccessPolicy: triples <<node, world, peer>>
  CanReceive, \* WorldAccessPolicy: triples <<node, world, peer>>
  Expiry,     \* ticks an announcement is good for
  Window,     \* ticks the replay guard remembers
  MaxIds,     \* correlation ids it remembers of a peer
  MaxInbox,   \* batches the inbox holds
  Rate,       \* messages a node may send per tick, and at once
  Backoff,    \* ticks a transport is silent after a failed publish
  MaxFaults   \* bound: lost, repeated, unreadable and failed messages, crashes

ASSUME ConstantsAssumption ==
  /\ Garbled \notin Atom
  /\ Star \in Symbol /\ Colon \in Symbol
  /\ WorldOf \in [Atom -> Seq(Symbol)]
  /\ \A n \in Node : Patterns[n] # {} /\ \A s \in Patterns[n] : s \subseteq Seq(Symbol)
  /\ Announcers \subseteq Node
  /\ Outbox \in [Node -> SUBSET Atom]
  /\ Expiry \in Nat /\ Window \in Nat /\ Backoff \in Nat /\ MaxFaults \in Nat
  /\ MaxIds \in Nat \ {0} /\ MaxInbox \in Nat \ {0} /\ Rate \in Nat \ {0}

VARIABLES
  up, self,  \* which nodes run, and with which patterns
  subs,      \* SubscriptionTable: the peers' patterns
  file,      \* its file: the records, and whether the file is whole
  unsaved,   \* who changed a table and has still to write the file
  announced, \* age of last_announce
  intents, mail, \* announcements and envelopes on their way
  pending,   \* atoms replicate_new_atom was not yet called with
  job,       \* the call of replicate_new_atom under way
  tokens, backoff, \* RateLimiter and backoff_until of the transport
  rx,        \* its received envelopes
  seen,      \* ReplayGuard: ids and their ages, per peer
  inbox,     \* incoming
  lost,      \* dropped_inbox
  took,      \* history: envelopes the replay guard accepted
  handed,    \* history: batches poll_atom_batch returned
  heard,     \* history: announcements good now, or when the call began
  faults

table    == <<subs, file, unsaved, heard>>
sending  == <<pending, job, tokens, backoff>>
receiving == <<rx, seen, inbox, lost, took, handed>>
life     == <<up, self>>
vars     == <<life, table, announced, intents, mail, sending, receiving, faults>>

Record   == [peer : Node, patterns : UNION {Patterns[n] : n \in Node}, age : 0..Expiry + 1]
Envelope == [from : Node, to : Node, atom : Atom \cup {Garbled}]
Intent   == [from : Node, to : Node, patterns : UNION {Patterns[n] : n \in Node}]
Idle     == [pc |-> "idle", atom |-> Garbled, todo |-> {}]

-----------------------------------------------------------------------------
MatchesWorld(pattern, world) ==
  \/ pattern = <<Star>>
  \/ pattern = world
  \/ IF IsSuffix(<<Colon, Star>>, pattern)
       THEN IsPrefix(SubSeq(pattern, 1, Len(pattern) - 2), world)
       ELSE IsSuffix(<<Star>>, pattern) /\ IsPrefix(Front(pattern), world)

Wants(patterns, world) == \E p \in patterns : MatchesWorld(p, world)

Older(age, cap) == IF age < cap THEN age + 1 ELSE age
Aged(records, cap) == {[r EXCEPT !.age = Older(r.age, cap)] : r \in records}
AgedSeq(s, cap) == [i \in DOMAIN s |-> [s[i] EXCEPT !.age = Older(s[i].age, cap)]]

\* Faulty variants of definitions below.
LoadUnaged(f) ==
  IF f.whole THEN {[r EXCEPT !.age = 0] : r \in {x \in f.records : x.age <= Expiry}} ELSE {}
SavedUnaged(records) ==
  [whole |-> TRUE, records |-> {[r EXCEPT !.age = 0] : r \in records}]
InsertNew(records, r) ==
  IF \E x \in records : x.peer = r.peer THEN records ELSE records \cup {r}
RememberedLess(s) ==
  LET old == Cardinality({i \in DOMAIN s : s[i].age >= Window})
  IN  SubSeq(s, old + 1, Len(s))
PushOverNewest(box, e) ==
  IF Len(box) >= MaxInbox
    THEN [box |-> Append(Front(box), e), dropped |-> 1]
    ELSE [box |-> Append(box, e), dropped |-> 0]

\* The records of a file or a table that have not expired.
Whole(records) == [whole |-> TRUE, records |-> records]
Live(records) == {r \in records : r.age <= Expiry}
Load(f) == IF f.whole THEN Live(f.records) ELSE {}

\* insert replaces what the table knows of the peer.
Upsert(records, r) == {x \in records : x.peer # r.peer} \cup {r}

\* should_accept: ids leave at the front when they are too old or too many.
Remembered(s) ==
  LET old == Cardinality({i \in DOMAIN s : s[i].age > Window})
  IN  SubSeq(s, old + 1, Len(s))
Noted(s, e) ==
  LET more == Append(s, [id |-> e, age |-> 0])
  IN  IF Len(more) > MaxIds THEN Tail(more) ELSE more

\* A full inbox gives up its oldest batch.
Push(box, e) ==
  IF Len(box) >= MaxInbox
    THEN [box |-> Append(Tail(box), e), dropped |-> 1]
    ELSE [box |-> Append(box, e), dropped |-> 0]

Fault == faults < MaxFaults /\ faults' = faults + 1

-----------------------------------------------------------------------------
Init ==
  /\ up = [n \in Node |-> TRUE]
  /\ self \in {s \in [Node -> UNION {Patterns[n] : n \in Node}] : \A n \in Node : s[n] \in Patterns[n]}
  /\ subs = [n \in Node |-> {}] /\ heard = subs
  /\ file = [n \in Node |-> Whole({})]
  /\ unsaved = [n \in Node |-> {}]
  /\ announced = [n \in Node |-> Expiry]
  /\ intents = {} /\ mail = {}
  /\ pending = Outbox
  /\ job = [n \in Node |-> Idle]
  /\ tokens = [n \in Node |-> Rate] /\ backoff = [n \in Node |-> 0]
  /\ rx = [n \in Node |-> << >>] /\ inbox = rx /\ took = rx
  /\ seen = [n \in Node |-> [p \in Node |-> << >>]]
  /\ lost = [n \in Node |-> 0] /\ handed = lost
  /\ faults = 0

(* announce, called again and again by the host. The time is noted before  *)
(* the publish, which may fail.                                            *)
Announce(n) ==
  /\ n \in Announcers /\ up[n] /\ 2 * announced[n] >= Expiry
  /\ announced' = [announced EXCEPT ![n] = 0]
  /\ \/ /\ intents' = intents \cup {[from |-> n, to |-> m, patterns |-> self[n]] : m \in Node \ {n}}
        /\ UNCHANGED faults
     \/ Fault /\ UNCHANGED intents
  /\ UNCHANGED <<life, table, mail, sending, receiving>>

(* The broadcast handler puts an announcement into the table.              *)
Hear(m) ==
  LET r == [peer |-> m.from, patterns |-> m.patterns, age |-> 0]
  IN  /\ m \in intents /\ up[m.to] /\ "handler" \notin unsaved[m.to]
      /\ subs' = [subs EXCEPT ![m.to] = Upsert(@, r)]
      /\ heard' = [heard EXCEPT ![m.to] = @ \cup {r}]
      /\ unsaved' = [unsaved EXCEPT ![m.to] = @ \cup {"handler"}]
      /\ \/ intents' = intents \ {m} /\ UNCHANGED faults
         \/ Fault /\ UNCHANGED intents
      /\ UNCHANGED <<life, file, announced, mail, sending, receiving>>

(* persist writes the table as it is by then.                              *)
Persist(n) ==
  /\ \E who \in unsaved[n] : unsaved' = [unsaved EXCEPT ![n] = @ \ {who}]
  /\ file' = [file EXCEPT ![n] = Whole(subs[n])]
  /\ UNCHANGED <<life, subs, heard, announced, intents, mail, sending, receiving, faults>>

PruneTable(n) ==
  /\ "sender" \notin unsaved[n]
  /\ subs' = [subs EXCEPT ![n] = Live(@)]
  /\ unsaved' = IF Live(subs[n]) = subs[n] THEN unsaved
                ELSE [unsaved EXCEPT ![n] = @ \cup {"sender"}]
  /\ heard' = [heard EXCEPT ![n] = Live(@)]
  /\ UNCHANGED file

(* SubscriptionTable::snapshot, from the thread that replicates.           *)
Snapshot(n) ==
  /\ up[n] /\ job[n] = Idle /\ Live(subs[n]) # subs[n]
  /\ PruneTable(n)
  /\ UNCHANGED <<life, announced, intents, mail, sending, receiving, faults>>

(* replicate_new_atom: prune the table, and save it if that changed it ... *)
BeginReplicate(n) ==
  /\ up[n] /\ job[n] = Idle
  /\ PruneTable(n)
  /\ \E a \in pending[n] :
       /\ pending' = [pending EXCEPT ![n] = @ \ {a}]
       /\ job' = [job EXCEPT ![n] =
            [pc |-> "collect", atom |-> a, todo |-> {}]]
  /\ UNCHANGED <<life, announced, intents, mail, tokens, backoff, receiving, faults>>

(* ... and collect the peers that want the world from what is there then.  *)
Collect(n) ==
  /\ up[n] /\ job[n].pc = "collect" /\ "sender" \notin unsaved[n]
  /\ job' = [job EXCEPT ![n] =
       [pc |-> "send", atom |-> job[n].atom,
        todo |-> {r.peer : r \in {x \in subs[n] : Wants(x.patterns, WorldOf[job[n].atom])}} \ {n}]]
  /\ UNCHANGED <<life, table, announced, intents, mail, pending, tokens, backoff, receiving, faults>>

is_backing_off(n) == backoff[n] > 0

mark_failure(n) ==
  /\ backoff' = [backoff EXCEPT ![n] = Backoff]
  /\ UNCHANGED mail

(* send_direct to one target, if the policy allows it. The limiter comes   *)
(* first, so a transport that backs off still uses up its tokens.          *)
SendDirect(n, p) ==
  \/ tokens[n] = 0 /\ UNCHANGED <<mail, tokens, backoff, faults>>
  \/ /\ tokens[n] > 0
     /\ tokens' = [tokens EXCEPT ![n] = @ - 1]
     /\ \/ is_backing_off(n) /\ UNCHANGED <<mail, backoff, faults>>
        \/ /\ ~is_backing_off(n)
           /\ mail' = mail \cup {[from |-> n, to |-> p, atom |-> job[n].atom]}
           /\ UNCHANGED <<backoff, faults>>
        \/ ~is_backing_off(n) /\ Fault /\ mark_failure(n)

SendOne(n) ==
  /\ up[n]
  /\ \E p \in job[n].todo :
       /\ job' = [job EXCEPT ![n].todo = @ \ {p}]
       /\ IF <<n, WorldOf[job[n].atom], p>> \in CanSend
            THEN SendDirect(n, p)
            ELSE UNCHANGED <<mail, tokens, backoff, faults>>
  /\ UNCHANGED <<life, table, announced, intents, pending, receiving>>

EndReplicate(n) ==
  /\ up[n] /\ job[n].pc = "send" /\ job[n].todo = {}
  /\ job' = [job EXCEPT ![n] = Idle]
  /\ UNCHANGED <<life, table, announced, intents, mail, pending, tokens, backoff, receiving, faults>>

(* A peer of another version sends what this one cannot decode.            *)
SendGarbled(n, p) ==
  /\ up[n] /\ n # p /\ Fault
  /\ mail' = mail \cup {[from |-> n, to |-> p, atom |-> Garbled]}
  /\ UNCHANGED <<life, table, announced, intents, sending, receiving>>

(* The transport's handler keeps an envelope for the next poll.            *)
Receive(m) ==
  /\ m \in mail /\ up[m.to]
  /\ rx' = [rx EXCEPT ![m.to] = Append(@, m)]
  /\ \/ mail' = mail \ {m} /\ UNCHANGED faults
     \/ Fault /\ UNCHANGED mail
  /\ UNCHANGED <<life, table, announced, intents, sending, seen, inbox, lost, took, handed>>

(* NATS delivers at most once, and nothing to a node that is down.         *)
Lose(m) ==
  /\ m \in mail \cup intents
  /\ mail' = mail \ {m} /\ intents' = intents \ {m}
  /\ IF up[m.to] THEN Fault ELSE UNCHANGED faults
  /\ UNCHANGED <<life, table, announced, sending, receiving>>

(* One round of poll_inbox. A message that does not decode ends the call,  *)
(* after its id was noted; the next call goes on.                          *)
PollOne(n) ==
  LET e      == Last(rx[n])
      known  == Remembered(seen[n][e.from])
      wanted == /\ e.atom # Garbled
                /\ Wants(self[n], WorldOf[e.atom])
                /\ <<n, WorldOf[e.atom], e.from>> \in CanReceive
      next   == IF wanted THEN Push(inbox[n], e) ELSE [box |-> inbox[n], dropped |-> 0]
  IN  /\ rx' = [rx EXCEPT ![n] = Front(@)]
      /\ IF \E i \in DOMAIN known : known[i].id = e
           THEN /\ seen' = [seen EXCEPT ![n][e.from] = known]
                /\ UNCHANGED <<inbox, lost, took>>
           ELSE /\ seen' = [seen EXCEPT ![n][e.from] = Noted(known, e)]
                /\ inbox' = [inbox EXCEPT ![n] = next.box]
                /\ lost' = [lost EXCEPT ![n] = @ + next.dropped]
                /\ took' = [took EXCEPT ![n] = Append(@, [id |-> e, age |-> 0, wanted |-> wanted])]
      /\ UNCHANGED <<life, table, announced, intents, mail, sending, handed, faults>>

PollDecodable(n) == \* faulty: a message is taken once it decodes
  up[n] /\ rx[n] # << >> /\ Last(rx[n]).atom # Garbled /\ PollOne(n)

Poll(n) == up[n] /\ rx[n] # << >> /\ PollOne(n)

PollAtomBatch(n) ==
  /\ up[n] /\ inbox[n] # << >>
  /\ inbox' = [inbox EXCEPT ![n] = Tail(@)]
  /\ handed' = [handed EXCEPT ![n] = @ + 1]
  /\ UNCHANGED <<life, table, announced, intents, mail, sending, rx, seen, lost, took, faults>>

(* A node dies. If it was to write the file, the file is the old one, the  *)
(* new one, or what fs::write left of it.                                  *)
Crash(n) ==
  /\ up[n] /\ Fault
  /\ up' = [up EXCEPT ![n] = FALSE]
  /\ \/ UNCHANGED file
     \/ /\ unsaved[n] # {}
        /\ \E ok \in BOOLEAN :
             file' = [file EXCEPT ![n] = [whole |-> ok, records |-> IF ok THEN subs[n] ELSE {}]]
  /\ subs' = [subs EXCEPT ![n] = {}] /\ unsaved' = [unsaved EXCEPT ![n] = {}]
  /\ job' = [job EXCEPT ![n] = Idle]
  /\ rx' = [rx EXCEPT ![n] = << >>] /\ inbox' = [inbox EXCEPT ![n] = << >>]
  /\ took' = [took EXCEPT ![n] = << >>]
  /\ seen' = [seen EXCEPT ![n] = [p \in Node |-> << >>]]
  /\ lost' = [lost EXCEPT ![n] = 0] /\ handed' = [handed EXCEPT ![n] = 0]
  /\ UNCHANGED <<self, heard, announced, intents, mail, pending, tokens, backoff>>

(* Replicator::new over a new transport; the patterns may be others.       *)
Start(n) ==
  /\ ~up[n]
  /\ up' = [up EXCEPT ![n] = TRUE]
  /\ \E s \in Patterns[n] : self' = [self EXCEPT ![n] = s]
  /\ subs' = [subs EXCEPT ![n] = Load(file[n])]
  /\ announced' = [announced EXCEPT ![n] = Expiry]
  /\ tokens' = [tokens EXCEPT ![n] = Rate] /\ backoff' = [backoff EXCEPT ![n] = 0]
  /\ UNCHANGED <<file, unsaved, heard, intents, mail, pending, job, receiving, faults>>

Tick ==
  /\ subs' = [n \in Node |-> Aged(subs[n], Expiry + 1)]
  /\ file' = [n \in Node |-> [file[n] EXCEPT !.records = Aged(@, Expiry + 1)]]
  /\ heard' = [n \in Node |-> LET known == Aged(heard[n], Expiry + 1)
                              IN  IF job[n].pc = "collect" THEN known ELSE Live(known)]
  /\ announced' = [n \in Node |-> Older(announced[n], Expiry)]
  /\ tokens' = [n \in Node |-> Rate]
  /\ backoff' = [n \in Node |-> IF backoff[n] > 0 THEN backoff[n] - 1 ELSE 0]
  /\ seen' = [n \in Node |-> [p \in Node |-> AgedSeq(seen[n][p], Window + 1)]]
  /\ took' = [n \in Node |-> AgedSeq(took[n], Window + 1)]
  /\ UNCHANGED <<life, unsaved, intents, mail, pending, job, rx, inbox, lost, handed, faults>>

Next ==
  \/ \E n \in Node :
       \/ Announce(n) \/ Persist(n) \/ Snapshot(n) \/ BeginReplicate(n) \/ Collect(n)
       \/ SendOne(n) \/ EndReplicate(n) \/ Poll(n) \/ PollAtomBatch(n) \/ Crash(n) \/ Start(n)
  \/ \E n, p \in Node : SendGarbled(n, p)
  \/ \E m \in intents : Hear(m)
  \/ \E m \in mail : Receive(m)
  \/ \E m \in mail \cup intents : Lose(m)
  \/ Tick

Spec == Init /\ [][Next]_vars

(* The host announces and polls again and again, threads and the broker's  *)
(* deliveries go on, and time passes.                                      *)
HearFrom(n, p) == \E m \in intents : m.to = n /\ m.from = p /\ Hear(m)
FairSpec ==
  /\ Spec
  /\ WF_vars(Tick)
  /\ \A n \in Node : WF_vars(Persist(n)) /\ WF_vars(Poll(n))
  /\ \A p \in Announcers : WF_vars(Announce(p)) /\ \A n \in Node \ {p} : WF_vars(HearFrom(n, p))

-----------------------------------------------------------------------------
(* Every variable has its type.                                            *)
TypeOK ==
  /\ up \in [Node -> BOOLEAN]
  /\ self \in [Node -> UNION {Patterns[n] : n \in Node}]
  /\ subs \in [Node -> SUBSET Record] /\ heard \in [Node -> SUBSET Record]
  /\ file \in [Node -> [whole : BOOLEAN, records : SUBSET Record]]
  /\ unsaved \in [Node -> SUBSET {"handler", "sender"}]
  /\ announced \in [Node -> 0..Expiry]
  /\ intents \subseteq Intent /\ mail \subseteq Envelope
  /\ pending \in [Node -> SUBSET Atom]
  /\ job \in [Node -> [pc : {"idle", "collect", "send"}, atom : Atom \cup {Garbled}, todo : SUBSET Node]]
  /\ tokens \in [Node -> 0..Rate] /\ backoff \in [Node -> 0..Backoff]
  /\ rx \in [Node -> Seq(Envelope)] /\ inbox \in [Node -> Seq(Envelope)]
  /\ \A n \in Node : Len(inbox[n]) <= MaxInbox
  /\ seen \in [Node -> [Node -> Seq([id : Envelope, age : 0..Window + 1])]]
  /\ took \in [Node -> Seq([id : Envelope, age : 0..Window + 1, wanted : BOOLEAN])]
  /\ lost \in [Node -> Nat] /\ handed \in [Node -> Nat]
  /\ faults \in 0..MaxFaults

(* replicate_new_atom sends an atom only to peers that were heard to want  *)
(* its world, at most Expiry before the call or since then, whatever was   *)
(* read back from the file of an earlier life (prune, load_from_disk).     *)
SentToSubscribers ==
  [][\A n \in Node : \A p \in job'[n].todo \ job[n].todo :
       \E r \in heard[n] : r.peer = p /\ Wants(r.patterns, WorldOf[job'[n].atom])]_vars

(* When nobody has the file still to write, a restart would read back      *)
(* exactly the subscribers of the table: the handler's and the sender's    *)
(* writes never leave an older table in the file (upsert, prune, persist). *)
FileAgrees ==
  \A n \in Node : up[n] /\ unsaved[n] = {} => Load(file[n]) = Live(subs[n])

(* Within one life a message is taken twice only when the first time is    *)
(* more than Window ago, or MaxIds other messages of that peer came in     *)
(* between (ReplayGuard): also newest-first polling and pruning of the     *)
(* peer's queue from the front never bring one back sooner.                *)
TakenOnce ==
  [][\A n \in Node : Len(took'[n]) > Len(took[n]) =>
       LET e == Last(took'[n]).id
           t == took[n]
       IN  \A i \in DOMAIN t : t[i].id = e =>
             \/ t[i].age > Window
             \/ Cardinality({j \in DOMAIN t : j > i /\ t[j].id.from = e.from}) >= MaxIds]_vars

(* Nothing accepted disappears without being counted: what was accepted    *)
(* and wanted was handed out, is counted in dropped_inbox, or waits, and   *)
(* the batches that wait are the newest ones, in the order of acceptance.  *)
WantedUpTo(t, j) == Cardinality({k \in DOMAIN t : k <= j /\ t[k].wanted})
InboxAccounts ==
  \A n \in Node :
    /\ WantedUpTo(took[n], Len(took[n])) = handed[n] + lost[n] + Len(inbox[n])
    /\ \A i \in DOMAIN inbox[n] : \E j \in DOMAIN took[n] :
         /\ took[n][j].wanted /\ took[n][j].id = inbox[n][i]
         /\ WantedUpTo(took[n], j) = handed[n] + lost[n] + i

(* A peer that stays up is again and again in the table of a node that     *)
(* stays up, with its present patterns, after whatever lost messages,      *)
(* failed publishes and restarts came before.                              *)
SubscriberListed ==
  \A n \in Node : \A p \in Announcers \ {n} :
    (<>[](up[n] /\ up[p]) =>
      []<>(\E r \in Live(subs[n]) : r.peer = p /\ r.patterns = self[p]))

(* Received envelopes do not stay in the transport's buffer, it is empty   *)
(* again and again: a message that does not decode ends a poll, but stops  *)
(* none of the later ones.                                                 *)
BufferDrained ==
  \A n \in Node : []<>(rx[n] = << >>)
=============================================================================
