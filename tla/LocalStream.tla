---------------------------- MODULE LocalStream -----------------------------
(***************************************************************************)
(* LocalStreamEngine, crates/dwbase-stream-local/src/lib.rs: subscribers   *)
(* of one process, each with a queue of its own that has no limit. One     *)
(* lock covers every call, so each is one step; a module that extends this *)
(* one says when they happen.                                              *)
(*                                                                         *)
(* A subscriber holds both ends of its channel, so a send never fails and  *)
(* a receive is never disconnected: the branches for these do not occur.   *)
(***************************************************************************)
EXTENDS Naturals, Sequences

CONSTANTS
  WorldName,
  Filters,       \* the filters that subscribers come with
  MaxSubscribers \* bound: subscriptions made

VARIABLES
  next_id,     \* the handle of the next subscription
  subscribers, \* a partial function from handles
  got          \* history: what poll has handed out for each handle

stream == <<next_id, subscribers, got>>

StreamAssumption == MaxSubscribers \in Nat

(* matches_filter: kinds, labels and flags that are empty ask nothing; of  *)
(* the kinds one is enough, of labels and flags all are needed.            *)
matches_filter(a, f) ==
  /\ f.kinds = {} \/ a.kind \in f.kinds
  /\ f.labels \subseteq a.labels
  /\ f.flags \subseteq a.flags
  /\ f.since <= a.ts /\ a.ts <= f.until

\* subscribe puts its world into the filter, whatever the filter had.
Wanted(a, s) == a.world = s.world /\ matches_filter(a, s.filter)

\* A faulty variant of the definition below: a channel with room for one.
SendBounded(a) ==
  [h \in DOMAIN subscribers |->
     IF Wanted(a, subscribers[h]) /\ subscribers[h].queue = << >>
     THEN [subscribers[h] EXCEPT !.queue = <<a>>] ELSE subscribers[h]]

SendAll(a) ==
  [h \in DOMAIN subscribers |->
     IF Wanted(a, subscribers[h])
     THEN [subscribers[h] EXCEPT !.queue = Append(@, a)] ELSE subscribers[h]]

-----------------------------------------------------------------------------
StreamInit ==
  /\ next_id = 1
  /\ subscribers = << >> /\ got = << >>

publish(a) ==
  /\ subscribers' = SendAll(a)
  /\ UNCHANGED <<next_id, got>>

subscribe(w, f) ==
  /\ next_id <= MaxSubscribers
  /\ next_id' = next_id + 1
  /\ subscribers' = [h \in DOMAIN subscribers \cup {next_id} |->
       IF h = next_id THEN [world |-> w, filter |-> f, queue |-> << >>] ELSE subscribers[h]]
  /\ got' = [h \in DOMAIN got \cup {next_id} |-> IF h = next_id THEN << >> ELSE got[h]]

(* poll of a handle that is known; of another it is an error.              *)
poll(h) ==
  /\ h \in DOMAIN subscribers /\ subscribers[h].queue # << >>
  /\ subscribers' = [subscribers EXCEPT ![h].queue = Tail(@)]
  /\ got' = [got EXCEPT ![h] = Append(@, Head(subscribers[h].queue))]
  /\ UNCHANGED next_id

stop(h) ==
  /\ h \in DOMAIN subscribers
  /\ subscribers' = [k \in DOMAIN subscribers \ {h} |-> subscribers[k]]
  /\ UNCHANGED <<next_id, got>>

(* The process is gone, and its subscribers with it.                       *)
StreamEnds ==
  /\ next_id' = 1
  /\ subscribers' = << >> /\ got' = << >>

=============================================================================
