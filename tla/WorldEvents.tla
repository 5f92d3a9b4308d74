---------------------------- MODULE WorldEvents ----------------------------
(***************************************************************************)
(* WorldEventBroadcaster, crates/dwbase-swarm-nats/src/world_events.rs:    *)
(* threads hand in atoms, which are buffered per world and published in    *)
(* batches. The lock is released before a batch is published.              *)
(*                                                                         *)
(* Abstractions: an event is its number in the order of acceptance, which  *)
(* is the order of the lock; the age of a buffer counts ticks up to        *)
(* FlushEvery; encoding and batch ids are left out.                        *)
(***************************************************************************)
EXTENDS Naturals, Sequences, FiniteSets, SequencesExt

CONSTANTS
  World, Thread,
  MaxBatch,   \* max_batch
  FlushEvery, \* flush_every, in ticks
  Rate,       \* atoms the limiter lets through per tick, and at once
  MaxEvents, MaxFailures \* bounds: atoms accepted, publishes that fail

EventsAssumption ==
  /\ IsFiniteSet(World)
  /\ MaxBatch \in Nat \ {0} /\ Rate \in Nat \ {0}
  /\ FlushEvery \in Nat /\ MaxEvents \in Nat /\ MaxFailures \in Nat

VARIABLES
  buffer,    \* events of each world, oldest first
  opened,    \* age of each world's buffer
  tokens,    \* the limiter
  hands,     \* batches each thread has taken out and has still to publish
  published, \* history: what the bus carried, in order
  failed,    \* history: events of publishes that failed or were given up
  accepted,  \* history: the world of every accepted event
  failures

events == <<buffer, opened, tokens, hands, published, failed, accepted, failures>>

Batch == [world : World, events : Seq(1..MaxEvents)]

\* Faulty variants of definitions below.
TakenCopies(ws) == buffer
PutBack(b, batch) == [b EXCEPT ![batch.world] = @ \o batch.events]

Full(b) == Len(b) >= MaxBatch

\* The buffers once the events of a set of worlds are taken out.
Taken(ws) == [w \in World |-> IF w \in ws THEN << >> ELSE buffer[w]]

\* What becomes of the buffers when a publish fails: nothing.
AfterFailure(b, batch) == b

-----------------------------------------------------------------------------
EventsInit ==
  /\ buffer = [w \in World |-> << >>]
  /\ opened = [w \in World |-> 0]
  /\ tokens = Rate
  /\ hands = [t \in Thread |-> << >>]
  /\ published = << >> /\ failed = {} /\ accepted = << >>
  /\ failures = 0

(* publish_atom. Without a token the atom is dropped and the answer is Ok. *)
(* The event that fills a buffer, or finds it old, takes the buffer along. *)
PublishAtom(t, w) ==
  LET e == Len(accepted) + 1
      b == Append(buffer[w], e)
      first == buffer[w] = << >>
  IN  /\ hands[t] = << >> /\ tokens > 0 /\ e <= MaxEvents
      /\ tokens' = tokens - 1
      /\ accepted' = Append(accepted, w)
      /\ IF Full(b) \/ (IF first THEN 0 ELSE opened[w]) >= FlushEvery
           THEN /\ buffer' = Taken({w})
                /\ hands' = [hands EXCEPT ![t] = <<[world |-> w, events |-> b]>>]
           ELSE /\ buffer' = [buffer EXCEPT ![w] = b]
                /\ UNCHANGED hands
      /\ opened' = IF first THEN [opened EXCEPT ![w] = 0] ELSE opened
      /\ UNCHANGED <<published, failed, failures>>

(* flush_all drains every buffer first, and publishes world by world.      *)
FlushAll(t) ==
  LET ws == {w \in World : buffer[w] # << >>}
  IN  /\ hands[t] = << >> /\ ws # {}
      /\ \E order \in SetToSeqs(ws) :
           hands' = [hands EXCEPT ![t] =
             [i \in DOMAIN order |-> [world |-> order[i], events |-> buffer[order[i]]]]]
      /\ buffer' = Taken(ws)
      /\ UNCHANGED <<opened, tokens, published, failed, accepted, failures>>

Publish(t) ==
  /\ hands[t] # << >>
  /\ published' = Append(published, Head(hands[t]))
  /\ hands' = [hands EXCEPT ![t] = Tail(@)]
  /\ UNCHANGED <<buffer, opened, tokens, failed, accepted, failures>>

(* An error of the bus ends the call; the batches it still held are gone.  *)
PublishFails(t) ==
  /\ hands[t] # << >> /\ failures < MaxFailures
  /\ failures' = failures + 1
  /\ failed' = failed \cup UNION {Range(b.events) : b \in Range(hands[t])}
  /\ buffer' = AfterFailure(buffer, Head(hands[t]))
  /\ hands' = [hands EXCEPT ![t] = << >>]
  /\ UNCHANGED <<opened, tokens, published, accepted>>

Tick ==
  /\ tokens' = Rate
  /\ opened' = [w \in World |->
       IF buffer[w] # << >> /\ opened[w] < FlushEvery THEN opened[w] + 1 ELSE opened[w]]
  /\ UNCHANGED <<buffer, hands, published, failed, accepted, failures>>

EventsNext ==
  \/ \E t \in Thread :
       \/ \E w \in World : PublishAtom(t, w)
       \/ FlushAll(t) \/ Publish(t) \/ PublishFails(t)
  \/ Tick

EventsSpec == EventsInit /\ [][EventsNext]_events

-----------------------------------------------------------------------------
(* Every variable has its type, and no buffer is left full.                *)
EventsTypeOK ==
  /\ buffer \in [World -> Seq(1..MaxEvents)]
  /\ \A w \in World : Len(buffer[w]) < MaxBatch
  /\ opened \in [World -> 0..FlushEvery]
  /\ tokens \in 0..Rate
  /\ hands \in [Thread -> Seq(Batch)]
  /\ published \in Seq(Batch)
  /\ failed \subseteq 1..MaxEvents
  /\ accepted \in Seq(World)
  /\ failures \in 0..MaxFailures

Held == UNION {Range(b.events) : b \in UNION {Range(hands[t]) : t \in Thread}}
Carried == UNION {Range(b.events) : b \in Range(published)}

\* Where an event is.
Places(e) ==
  {<<"buffer", w>> : w \in {v \in World : e \in Range(buffer[v])}}
  \cup (UNION {{<<"hands", t, i>> :
                  i \in {j \in DOMAIN hands[t] : e \in Range(hands[t][j].events)}} : t \in Thread})
  \cup {<<"published", i>> : i \in {j \in DOMAIN published : e \in Range(published[j].events)}}
  \cup {<<"failed", f>> : f \in failed \cap {e}}

(* Every event the limiter let in is in exactly one place: a buffer, the   *)
(* hands of one thread, one published batch, or a publish that failed,     *)
(* whatever the threads do to each other's buffers (publish_atom removes   *)
(* under the lock, flush_all drains).                                      *)
EachEventOnce ==
  \A e \in DOMAIN accepted : Cardinality(Places(e)) = 1

(* Batches may overtake each other only between two threads: when events   *)
(* of a world are published, or given up, no older event of that world is  *)
(* still in its buffer (the race of publish_atom and flush_all at the      *)
(* release of the lock).                                                   *)
BufferNewest ==
  \A w \in World : \A e \in Range(buffer[w]) :
    \A f \in Held \cup Carried \cup failed : accepted[f] = w => f < e
=============================================================================
