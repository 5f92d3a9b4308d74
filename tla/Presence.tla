------------------------------ MODULE Presence ------------------------------
(***************************************************************************)
(* Who is there: PeerTable and start_presence_loop,                        *)
(* crates/dwbase-swarm-nats/src/lib.rs. A thread per node publishes a      *)
(* hello every half ttl; the handler puts the hellos it hears into a table *)
(* whose entries are good for the ttl of the node that holds the table.    *)
(*                                                                         *)
(* Time is modelled with its promptness: a due hello is published before   *)
(* the next tick, and one that is not lost arrives within Latency ticks.   *)
(* Instants are ages, up to the age at which nothing changes any more. The *)
(* content of a hello is left out, and a node that listens hears its own   *)
(* at once. The error of a subscription is ignored: such a node goes on    *)
(* publishing and never listens.                                           *)
(***************************************************************************)
EXTENDS Naturals, Functions

CONSTANTS
  NodeId,
  Ttl,      \* the ttl each node was started with, an even number of ticks
  Latency,  \* ticks a hello may be on its way
  MaxStops, MaxLost \* bounds: nodes that die, hellos lost or not published

Interval(n) == Ttl[n] \div 2

(* One of the ttls is the longest, as there are finitely many nodes.       *)
PresenceAssumption ==
  /\ Ttl \in [NodeId -> Nat] /\ \A n \in NodeId : Ttl[n] > 0 /\ Ttl[n] % 2 = 0
  /\ \E n \in NodeId : \A p \in NodeId : Ttl[p] <= Ttl[n]
  /\ Latency \in Nat /\ MaxStops \in Nat /\ MaxLost \in Nat

(* Nodes hear each other when half a ttl of one and the latency fit into   *)
(* the ttl of the other.                                                   *)
TtlAssumption ==
  \A n, p \in NodeId : Interval(p) + Latency <= Ttl[n]

VARIABLES
  running,
  hearing, \* nodes whose subscription stands
  table,   \* what each node knows: peers, ages and ttls
  sleep,   \* ticks until the next hello
  air,     \* hellos on their way
  age,     \* history: ticks since a node started or died
  missed,  \* history: ticks n has heard since, and lost no hello of p
  stops, losses

presence == <<running, hearing, table, sleep, air, age, missed, stops, losses>>

Grow(k, cap) == IF k < cap THEN k + 1 ELSE k
Longest == CHOOSE k \in {Ttl[n] + Latency + 1 : n \in NodeId} :
             \A n \in NodeId : Ttl[n] + Latency + 1 <= k
Round(p) == Interval(p) + Latency

\* Faulty variants of definitions below.
WholeTtl(n) == Ttl[n]
AllPeers(n) == {r.peer : r \in table[n]}

\* The pause of the publishing thread.
send_interval(n) == Interval(n)

upsert(n, p) ==
  {r \in table[n] : r.peer # p} \cup {[peer |-> p, age |-> 0, ttl |-> Ttl[n]]}

Pruned(n) == {r \in table[n] : r.age <= r.ttl}

\* What peers() answers.
Peers(n) == {r.peer : r \in Pruned(n)}

-----------------------------------------------------------------------------
PresenceInit ==
  /\ running = {} /\ hearing = {} /\ air = {}
  /\ table = [n \in NodeId |-> {}]
  /\ sleep = [n \in NodeId |-> 0]
  /\ age = [n \in NodeId |-> Longest]
  /\ missed = [n \in NodeId |-> [p \in NodeId |-> 0]]
  /\ stops = 0 /\ losses = 0

(* start_presence_loop: the node lists itself and starts its thread.       *)
start_presence_loop(n) ==
  /\ n \notin running
  /\ running' = running \cup {n}
  /\ table' = [table EXCEPT ![n] = upsert(n, n)]
  /\ sleep' = [sleep EXCEPT ![n] = 0]
  /\ age' = [age EXCEPT ![n] = 0]
  /\ UNCHANGED <<hearing, air, missed, stops, losses>>

(* The subscription stands, before or after the first hello of the thread; *)
(* it may as well fail, and never stand.                                   *)
subscribe_hello(n) ==
  /\ n \in running \ hearing
  /\ hearing' = hearing \cup {n}
  /\ missed' = [missed EXCEPT ![n] = [p \in NodeId |-> 0]]
  /\ UNCHANGED <<running, table, sleep, air, age, stops, losses>>

StopNode(n) ==
  /\ n \in running /\ stops < MaxStops
  /\ running' = running \ {n} /\ hearing' = hearing \ {n}
  /\ stops' = stops + 1
  /\ table' = [table EXCEPT ![n] = {}]
  /\ air' = {m \in air : m.to # n}
  /\ age' = [age EXCEPT ![n] = 0]
  /\ UNCHANGED <<sleep, missed, losses>>

(* The thread's round; an error of publish_hello is ignored.               *)
publish_hello(n) ==
  /\ n \in running /\ sleep[n] = 0
  /\ sleep' = [sleep EXCEPT ![n] = send_interval(n)]
  /\ \/ /\ air' = air \cup {[from |-> n, to |-> p, age |-> 0] : p \in hearing \ {n}}
        /\ table' = IF n \in hearing THEN [table EXCEPT ![n] = upsert(n, n)] ELSE table
        /\ UNCHANGED <<missed, losses>>
     \/ /\ losses < MaxLost /\ losses' = losses + 1
        /\ missed' = [p \in NodeId |-> [missed[p] EXCEPT ![n] = 0]]
        /\ UNCHANGED <<air, table>>
  /\ UNCHANGED <<running, hearing, age, stops>>

HearHello(m) ==
  /\ m \in air
  /\ air' = air \ {m}
  /\ table' = [table EXCEPT ![m.to] = upsert(m.to, m.from)]
  /\ UNCHANGED <<running, hearing, sleep, age, missed, stops, losses>>

LoseHello(m) ==
  /\ m \in air /\ losses < MaxLost
  /\ air' = air \ {m} /\ losses' = losses + 1
  /\ missed' = [missed EXCEPT ![m.to][m.from] = 0]
  /\ UNCHANGED <<running, hearing, table, sleep, age, stops>>

(* peers() prunes before it answers.                                       *)
Prune(n) ==
  /\ n \in running /\ Pruned(n) # table[n]
  /\ table' = [table EXCEPT ![n] = Pruned(n)]
  /\ UNCHANGED <<running, hearing, sleep, air, age, missed, stops, losses>>

PresenceTick ==
  /\ \A n \in running : sleep[n] > 0
  /\ \A m \in air : m.age < Latency
  /\ table' = [n \in NodeId |->
       {[r EXCEPT !.age = Grow(r.age, r.ttl + 1)] : r \in table[n]}]
  /\ sleep' = [n \in NodeId |-> IF sleep[n] > 0 THEN sleep[n] - 1 ELSE 0]
  /\ air' = {[m EXCEPT !.age = m.age + 1] : m \in air}
  /\ age' = [n \in NodeId |-> Grow(age[n], Longest)]
  /\ missed' = [n \in NodeId |-> [p \in NodeId |->
       IF n \in hearing THEN Grow(missed[n][p], Round(p) + 1) ELSE 0]]
  /\ UNCHANGED <<running, hearing, stops, losses>>

PresenceNext ==
  \/ \E n \in NodeId : \/ start_presence_loop(n) \/ subscribe_hello(n) \/ StopNode(n)
                       \/ publish_hello(n) \/ Prune(n)
  \/ \E m \in air : HearHello(m) \/ LoseHello(m)
  \/ PresenceTick

PresenceSpec == PresenceInit /\ [][PresenceNext]_presence

-----------------------------------------------------------------------------
(* Every variable has its type, and a table has one entry per peer.        *)
PresenceTypeOK ==
  /\ running \subseteq NodeId /\ hearing \subseteq running
  /\ table \in [NodeId -> SUBSET [peer : NodeId, age : 0..Longest, ttl : Range(Ttl)]]
  /\ \A n \in NodeId : \A r, q \in table[n] : r.peer = q.peer => r = q
  /\ sleep \in [NodeId -> Nat] /\ \A n \in NodeId : sleep[n] <= Interval(n)
  /\ air \subseteq [from : NodeId, to : NodeId, age : 0..Latency]
  /\ age \in [NodeId -> 0..Longest] /\ missed \in [NodeId -> [NodeId -> 0..Longest]]
  /\ stops \in 0..MaxStops /\ losses \in 0..MaxLost

(* A node that has listened for one interval and a latency lists every     *)
(* node that has run that long, and goes on doing so, unless a hello of it *)
(* was lost that recently (start_presence_loop, upsert, prune).            *)
RunningListed ==
  \A n \in hearing, p \in running :
    age[p] > Round(p) /\ missed[n][p] > Round(p) => p \in Peers(n)

(* A node that died more than a ttl and a latency ago is in no answer of   *)
(* peers(), however late its last hellos came in.                          *)
DeadNotListed ==
  \A n \in running : \A p \in Peers(n) :
    p \in running \/ age[p] <= Ttl[n] + Latency
=============================================================================
