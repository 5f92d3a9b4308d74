----------------------------- MODULE Gatekeeper -----------------------------
(***************************************************************************)
(* LocalGatekeeper, crates/dwbase-security/src/lib.rs: what a call may do, *)
(* and how often. rate_limit reads the clock before it takes the lock of   *)
(* the buckets, so two calls may charge a bucket in the reverse order of   *)
(* their instants.                                                         *)
(*                                                                         *)
(* Abstractions: tokens are whole units, Cost of them to a token, and a    *)
(* tick is a second. A call the capabilities refuse changes nothing, nor   *)
(* does one that no rate limits: neither is a step.                        *)
(***************************************************************************)
EXTENDS Naturals

CONSTANTS
  Check, WorldKey, Worker, Kind, Label,
  Importances,      \* the importances atoms come with
  caps,             \* the capabilities
  Cost,             \* units in a token
  RememberRate, AskRate, \* units refilled a second
  MaxTime           \* bound: seconds

Ask == "ask-global"
Key == Worker \cup {Ask}
Atom == [world : WorldKey, kind : Kind, labels : SUBSET Label,
         importance : Importances, worker : Worker]

GateAssumption ==
  /\ caps.write_worlds \subseteq WorldKey /\ caps.read_worlds \subseteq WorldKey
  /\ caps.kinds_write \subseteq Kind /\ caps.labels_write \subseteq Label
  /\ Importances \subseteq Nat /\ caps.importance_cap \in Nat
  /\ Cost \in Nat \ {0} /\ RememberRate \in Nat /\ AskRate \in Nat /\ MaxTime \in Nat

VARIABLES
  now,
  buckets,  \* remember_buckets and ask_buckets: a partial function
  reading,  \* calls that have read the clock and wait for the lock
  made,     \* history: when each bucket was made
  admitted, \* history: calls let through
  back      \* history: seconds by which last_refill was set back

gate == <<now, buckets, reading, made, admitted, back>>

Bucket == [tokens : Nat, last_refill : Nat]
Idle == << >>

\* An empty list permits everything.
Permits(list, x) == list = {} \/ x \in list

ensure_world_can_write(w) == Permits(caps.write_worlds, w)
ensure_world_can_read(w) == Permits(caps.read_worlds, w)

\* The checks of check_remember that come before the rate is looked at.
MayRemember(a) ==
  /\ ensure_world_can_write(a.world)
  /\ Permits(caps.kinds_write, a.kind)
  /\ \A l \in a.labels : Permits(caps.labels_write, l)
  /\ a.importance <= caps.importance_cap

refill_per_sec(k) == IF k = Ask THEN AskRate ELSE RememberRate
capacity(k) == IF refill_per_sec(k) < Cost THEN Cost ELSE refill_per_sec(k)

NewBucket(k, t) == [tokens |-> capacity(k), last_refill |-> t]

\* A faulty variant of the definition below.
RefilledUncapped(k, b, t) ==
  b.tokens + (IF t > b.last_refill THEN t - b.last_refill ELSE 0) * refill_per_sec(k)

\* What the tokens come to at t; no time passes backwards.
Refilled(k, b, t) ==
  LET elapsed == IF t > b.last_refill THEN t - b.last_refill ELSE 0
      tokens  == b.tokens + elapsed * refill_per_sec(k)
  IN  IF tokens > capacity(k) THEN capacity(k) ELSE tokens

\* Another: a refused call leaves the instant where it was.
ChargedKeepsInstant(k, b, t) ==
  LET tokens == Refilled(k, b, t)
  IN  IF tokens >= Cost THEN [tokens |-> tokens - Cost, last_refill |-> t]
      ELSE [b EXCEPT !.tokens = tokens]

\* The bucket after a call at t: the instant moves even for a refused call.
Charged(k, b, t) ==
  LET tokens == Refilled(k, b, t)
  IN  [tokens |-> IF tokens >= Cost THEN tokens - Cost ELSE tokens, last_refill |-> t]

-----------------------------------------------------------------------------
GateInit ==
  /\ now = 0
  /\ buckets = << >>
  /\ reading = [t \in Check |-> Idle]
  /\ made = [k \in Key |-> 0] /\ admitted = made /\ back = made

Read(t, k) ==
  /\ reading[t] = Idle
  /\ reading' = [reading EXCEPT ![t] = <<k, now>>]
  /\ UNCHANGED <<now, buckets, made, admitted, back>>

CheckRemember(t, a) == MayRemember(a) /\ Read(t, a.worker)

CheckAsk(t, w) == ensure_world_can_read(w) /\ Read(t, Ask)

(* rate_limit under the lock: entry().or_insert_with(), then allow.        *)
RateLimit(t) ==
  /\ reading[t] # Idle
  /\ LET k == reading[t][1]
         at == reading[t][2]
         known == k \in DOMAIN buckets
         b == IF known THEN buckets[k] ELSE NewBucket(k, at)
     IN  /\ buckets' = [j \in DOMAIN buckets \cup {k} |->
                         IF j = k THEN Charged(k, b, at) ELSE buckets[j]]
         /\ made' = IF known THEN made ELSE [made EXCEPT ![k] = at]
         /\ admitted' =
              IF Refilled(k, b, at) >= Cost THEN [admitted EXCEPT ![k] = @ + 1] ELSE admitted
         /\ back' =
              IF at < b.last_refill
              THEN [back EXCEPT ![k] = @ + b.last_refill - at] ELSE back
  /\ reading' = [reading EXCEPT ![t] = Idle]
  /\ UNCHANGED now

GateTick ==
  /\ now < MaxTime
  /\ now' = now + 1
  /\ UNCHANGED <<buckets, reading, made, admitted, back>>

GateNext ==
  \/ \E t \in Check :
       \/ \E a \in Atom : CheckRemember(t, a)
       \/ \E w \in WorldKey : CheckAsk(t, w)
       \/ RateLimit(t)
  \/ GateTick

GateSpec == GateInit /\ [][GateNext]_gate

-----------------------------------------------------------------------------
(* Every variable has its type, and a bucket never holds more than its     *)
(* capacity, however long it was left alone.                               *)
GateTypeOK ==
  /\ now \in 0..MaxTime
  /\ DOMAIN buckets \subseteq Key
  /\ \A k \in DOMAIN buckets :
       /\ buckets[k] \in [tokens : 0..capacity(k), last_refill : 0..now]
  /\ reading \in [Check -> {Idle} \cup Key \X (0..now)]
  /\ made \in [Key -> 0..now] /\ admitted \in [Key -> Nat] /\ back \in [Key -> Nat]

(* A worker, or all who ask, are let through no more often than one full   *)
(* bucket and the rate allow for the time since the bucket was made, plus  *)
(* the seconds that calls with an older instant gave back: each of those   *)
(* refills the bucket for the same seconds twice (rate_limit, allow).      *)
AdmittedAccounted ==
  \A k \in DOMAIN buckets :
    admitted[k] * Cost + buckets[k].tokens + made[k] * refill_per_sec(k)
      <= capacity(k) + (buckets[k].last_refill + back[k]) * refill_per_sec(k)
=============================================================================
