----------------------------- MODULE Node_proofs -----------------------------
(***************************************************************************)
(* Theorems about what a node does with the calls it gets: about           *)
(* Gatekeeper, for any number of calls, worlds and workers, any            *)
(* capabilities, any cost of a call and any rates; about Node, for any     *)
(* number of handlers, subscribers, filters and worlds, however the        *)
(* handlers' steps and restarts fall between each other; about Suspicion,  *)
(* for any number of calls, workers, any window and any limit; and about   *)
(* Recall, for any number of writers and askers, any atoms, questions and  *)
(* embedder, and any evictions and restarts between their steps.           *)
(***************************************************************************)
EXTENDS Gatekeeper, Node, Suspicion, Recall, FiniteSetTheorems, SequenceTheorems,
  WellFoundedInduction, TLAPS

-----------------------------------------------------------------------------
(* The gatekeeper                                                          *)

\* What is owed by a bucket when it holds tokens and was last charged at t.
Within(k, tokens, t, first, calls, again) ==
  calls * Cost + tokens + first * refill_per_sec(k)
    <= capacity(k) + (t + again) * refill_per_sec(k)

\* Nothing is counted for a bucket nobody has asked for.
Untouched == \A k \in Key \ DOMAIN buckets : made[k] = 0 /\ admitted[k] = 0 /\ back[k] = 0

GateInv == GateTypeOK /\ Untouched /\ AdmittedAccounted

\* A faster bucket holds a second's worth; a slow one holds a call's.
LEMMA CapacityType ==
  ASSUME GateAssumption, NEW k
  PROVE  /\ refill_per_sec(k) \in Nat /\ capacity(k) \in Nat /\ Cost \in Nat \ {0}
         /\ Cost <= capacity(k)
  BY DEF GateAssumption, refill_per_sec, capacity

LEMMA Spread == \A a, b, c \in Nat : (a + b) * c = a * c + b * c /\ a * c \in Nat
  OBVIOUS

\* What the lock holder does to the bucket it finds.
LEMMA ChargedFits ==
  ASSUME GateAssumption, NEW k, NEW b \in [tokens : 0..capacity(k), last_refill : Nat],
         NEW t \in Nat
  PROVE  /\ Refilled(k, b, t) \in 0..capacity(k)
         /\ Charged(k, b, t) \in [tokens : 0..capacity(k), last_refill : {t}]
<1> DEFINE r == refill_per_sec(k)
           elapsed == IF t > b.last_refill THEN t - b.last_refill ELSE 0
<1>1. r \in Nat /\ capacity(k) \in Nat /\ Cost \in Nat /\ Cost <= capacity(k)
  BY CapacityType
<1>2. elapsed \in Nat /\ b.tokens \in 0..capacity(k)
  OBVIOUS
<1>3. Refilled(k, b, t) = IF b.tokens + elapsed * r > capacity(k) THEN capacity(k)
                          ELSE b.tokens + elapsed * r
  BY DEF Refilled
<1> HIDE DEF r, elapsed
<1>4. elapsed * r \in Nat
  BY <1>1, <1>2, Spread
<1>5. Refilled(k, b, t) \in 0..capacity(k)
  BY <1>1, <1>2, <1>3, <1>4
<1> QED
  BY <1>1, <1>5 DEF Charged

\* A call let through takes its cost out of the bucket.
LEMMA ChargedBalances ==
  ASSUME GateAssumption, NEW k, NEW b \in [tokens : 0..capacity(k), last_refill : Nat],
         NEW t \in Nat, NEW calls \in Nat
  PROVE  (IF Refilled(k, b, t) >= Cost THEN calls + 1 ELSE calls) * Cost
           + Charged(k, b, t).tokens = calls * Cost + Refilled(k, b, t)
<1>1. Refilled(k, b, t) \in Nat /\ Cost \in Nat /\ 1 * Cost = Cost
  <2>1. capacity(k) \in Nat /\ Cost \in Nat
    BY CapacityType
  <2>2. Refilled(k, b, t) \in 0..capacity(k)
    BY ChargedFits
  <2> QED
    BY <2>1, <2>2
<1>2. (calls + 1) * Cost = calls * Cost + Cost /\ calls * Cost \in Nat
  BY <1>1, Spread
<1>3. Charged(k, b, t).tokens =
        IF Refilled(k, b, t) >= Cost THEN Refilled(k, b, t) - Cost ELSE Refilled(k, b, t)
  BY DEF Charged
<1> QED
  BY <1>1, <1>2, <1>3

\* The bucket's account after a call that read the clock at t.
LEMMA WithinStays ==
  ASSUME GateAssumption, NEW k, NEW b \in [tokens : 0..capacity(k), last_refill : Nat],
         NEW t \in Nat, NEW first \in Nat, NEW calls \in Nat, NEW again \in Nat,
         Within(k, b.tokens, b.last_refill, first, calls, again)
  PROVE  Within(k, Charged(k, b, t).tokens, t, first,
                IF Refilled(k, b, t) >= Cost THEN calls + 1 ELSE calls,
                IF t < b.last_refill THEN again + b.last_refill - t ELSE again)
<1> DEFINE r == refill_per_sec(k)
           cap == capacity(k)
           full == Refilled(k, b, t)
           now2 == IF t < b.last_refill THEN again + b.last_refill - t ELSE again
           calls2 == IF full >= Cost THEN calls + 1 ELSE calls
           left == Charged(k, b, t).tokens
           elapsed == IF t > b.last_refill THEN t - b.last_refill ELSE 0
<1>1. r \in Nat /\ cap \in Nat /\ Cost \in Nat
  BY CapacityType
<1>2. elapsed \in Nat /\ b.tokens \in 0..cap /\ b.last_refill \in Nat /\ now2 \in Nat
  OBVIOUS
<1>3. t + now2 = (b.last_refill + again) + elapsed
  OBVIOUS
<1>4. full <= b.tokens + elapsed * r
  BY <1>1, <1>2, Spread DEF Refilled
<1>5. full \in Nat
  <2>1. full \in 0..capacity(k)
    BY ChargedFits
  <2> QED
    BY <1>1, <2>1
<1>6. calls * Cost + b.tokens + first * r <= cap + (b.last_refill + again) * r
  BY DEF Within
<1>7. calls2 * Cost + left = calls * Cost + full
  BY ChargedBalances
<1> HIDE DEF r, cap, full, now2, elapsed, calls2, left
<1>8. (t + now2) * r = (b.last_refill + again) * r + elapsed * r
  <2> DEFINE owed == b.last_refill + again
  <2>1. owed \in Nat
    BY <1>2
  <2> HIDE DEF owed
  <2>2. (owed + elapsed) * r = owed * r + elapsed * r
    BY <1>1, <1>2, <2>1, Spread
  <2> QED
    BY <1>3, <2>2 DEF owed
<1>9. /\ calls * Cost \in Nat /\ first * r \in Nat /\ elapsed * r \in Nat
      /\ (b.last_refill + again) * r \in Nat
  BY <1>1, <1>2, Spread
<1>10. (calls * Cost + full) + first * r <= cap + (t + now2) * r
  BY <1>1, <1>2, <1>4, <1>5, <1>6, <1>8, <1>9
<1>11. calls2 * Cost + left + first * r <= cap + (t + now2) * r
  BY <1>7, <1>10
<1>12. Within(k, left, t, first, calls2, now2)
  BY <1>11 DEF Within, r, cap
<1> QED
  BY <1>12 DEF left, calls2, now2, full

\* A bucket starts full, and that is what it may hold at first.
LEMMA WithinNew ==
  ASSUME GateAssumption, NEW k, NEW t \in Nat
  PROVE  /\ NewBucket(k, t) \in [tokens : 0..capacity(k), last_refill : {t}]
         /\ Within(k, NewBucket(k, t).tokens, t, t, 0, 0)
<1>1. refill_per_sec(k) \in Nat /\ capacity(k) \in Nat /\ Cost \in Nat
  BY CapacityType
<1>2. t * refill_per_sec(k) \in Nat /\ 0 * Cost = 0 /\ t + 0 = t
  BY <1>1, Spread
<1>3. /\ NewBucket(k, t).tokens = capacity(k) /\ NewBucket(k, t).last_refill = t
      /\ NewBucket(k, t) \in [tokens : 0..capacity(k), last_refill : {t}]
  BY <1>1 DEF NewBucket
<1>4. 0 * Cost + capacity(k) + t * refill_per_sec(k) <= capacity(k) + (t + 0) * refill_per_sec(k)
  BY <1>1, <1>2
<1> QED
  BY <1>3, <1>4 DEF Within
-----------------------------------------------------------------------------
LEMMA GateInvInit == ASSUME GateAssumption, GateInit PROVE GateInv
<1>1. DOMAIN buckets = {} /\ 0 \in 0..now /\ 0 \in Nat
  BY DEF GateInit
<1>2. 0 \in 0..MaxTime
  BY DEF GateAssumption
<1> QED
  BY <1>1, <1>2 DEF GateInit, GateInv, GateTypeOK, Untouched, AdmittedAccounted

LEMMA ReadStep ==
  ASSUME GateInv, NEW t \in Check, NEW k \in Key, Read(t, k)
  PROVE  GateInv'
<1>1. UNCHANGED <<now, buckets, made, admitted, back>>
  BY DEF Read
<1>2. reading' \in [Check -> {Idle} \cup Key \X (0..now)]
  <2>1. reading' = [reading EXCEPT ![t] = <<k, now>>] /\ now \in 0..now
    BY DEF Read, GateInv, GateTypeOK
  <2> QED
    BY <2>1 DEF GateInv, GateTypeOK
<1>3. GateTypeOK'
  BY <1>1, <1>2 DEF GateInv, GateTypeOK, capacity, refill_per_sec
<1>4. Untouched' /\ AdmittedAccounted'
  BY <1>1 DEF GateInv, Untouched, AdmittedAccounted, capacity, refill_per_sec
<1> QED
  BY <1>3, <1>4 DEF GateInv

LEMMA TickStep ==
  ASSUME GateAssumption, GateInv, GateTick
  PROVE  GateInv'
<1>1. /\ now \in Nat /\ now' \in 0..MaxTime /\ now <= now'
      /\ UNCHANGED <<buckets, reading, made, admitted, back>>
  BY DEF GateAssumption, GateTick, GateInv, GateTypeOK
<1>2. 0..now \subseteq 0..now'
  BY <1>1
<1>3. reading' \in [Check -> {Idle} \cup Key \X (0..now')]
  <2>1. \A t \in Check : reading[t] \in {Idle} \cup Key \X (0..now')
    BY <1>2 DEF GateInv, GateTypeOK
  <2> QED
    BY <1>1, <2>1 DEF GateInv, GateTypeOK
<1>4. made' \in [Key -> 0..now']
  BY <1>1, <1>2 DEF GateInv, GateTypeOK
<1>5. \A k \in DOMAIN buckets : buckets[k] \in [tokens : 0..capacity(k), last_refill : 0..now']
  BY <1>2 DEF GateInv, GateTypeOK
<1>6. GateTypeOK'
  BY <1>1, <1>3, <1>4, <1>5 DEF GateInv, GateTypeOK, capacity, refill_per_sec
<1>7. Untouched' /\ AdmittedAccounted'
  BY <1>1 DEF GateInv, Untouched, AdmittedAccounted, capacity, refill_per_sec
<1> QED
  BY <1>6, <1>7 DEF GateInv

(* The step under the lock: the account of the bucket is settled anew with *)
(* the instant the call read, be it older than the one in the bucket.      *)
LEMMA RateLimitStep ==
  ASSUME GateAssumption, GateInv, NEW t \in Check, RateLimit(t)
  PROVE  GateInv'
<1> DEFINE k == reading[t][1]
           at == reading[t][2]
           known == k \in DOMAIN buckets
           b == IF known THEN buckets[k] ELSE NewBucket(k, at)
           after == Charged(k, b, at)
           first == IF known THEN made[k] ELSE at
           calls == IF Refilled(k, b, at) >= Cost THEN admitted[k] + 1 ELSE admitted[k]
           again == IF at < b.last_refill THEN back[k] + b.last_refill - at ELSE back[k]
<1>1. k \in Key /\ at \in 0..now /\ at \in Nat /\ now \in Nat
  <2>1. reading[t] \in Key \X (0..now) /\ now \in Nat
    BY DEF RateLimit, GateInv, GateTypeOK
  <2> QED
    BY <2>1
<1>2. /\ DOMAIN buckets' = DOMAIN buckets \cup {k}
      /\ buckets'[k] = after
      /\ \A j \in DOMAIN buckets \ {k} : buckets'[j] = buckets[j]
  <2>1. buckets' = [j \in DOMAIN buckets \cup {k} |-> IF j = k THEN after ELSE buckets[j]]
    BY Zenon DEF RateLimit
  <2> HIDE DEF k, after
  <2> QED
    BY <2>1
<1>3. /\ made' = IF known THEN made ELSE [made EXCEPT ![k] = at]
      /\ admitted' = IF Refilled(k, b, at) >= Cost THEN [admitted EXCEPT ![k] = admitted[k] + 1]
                     ELSE admitted
      /\ back' = IF at < b.last_refill THEN [back EXCEPT ![k] = back[k] + b.last_refill - at]
                 ELSE back
      /\ reading' = [reading EXCEPT ![t] = Idle]
      /\ now' = now
  BY Zenon DEF RateLimit
<1>4. /\ b \in [tokens : 0..capacity(k), last_refill : Nat]
      /\ Within(k, b.tokens, b.last_refill, first, admitted[k], back[k])
      /\ first \in 0..now /\ admitted[k] \in Nat /\ back[k] \in Nat
  <2> HIDE DEF k, at
  <2>1. made[k] \in 0..now /\ admitted[k] \in Nat /\ back[k] \in Nat
    BY <1>1 DEF GateInv, GateTypeOK
  <2>2. CASE known
    <3>1. buckets[k] \in [tokens : 0..capacity(k), last_refill : 0..now]
      BY <2>2 DEF GateInv, GateTypeOK
    <3>2. Within(k, buckets[k].tokens, buckets[k].last_refill, made[k], admitted[k], back[k])
      BY <2>2 DEF GateInv, AdmittedAccounted, Within
    <3> QED
      BY <1>1, <2>1, <2>2, <3>1, <3>2
  <2>3. CASE ~known
    <3>1. admitted[k] = 0 /\ back[k] = 0
      BY <1>1, <2>3 DEF GateInv, Untouched
    <3>2. /\ NewBucket(k, at) \in [tokens : 0..capacity(k), last_refill : {at}]
          /\ Within(k, NewBucket(k, at).tokens, at, at, 0, 0)
      BY <1>1, WithinNew
    <3> QED
      BY <1>1, <2>1, <2>3, <3>1, <3>2
  <2> QED
    BY <2>2, <2>3
<1> HIDE DEF k, at, b
<1>5. after \in [tokens : 0..capacity(k), last_refill : {at}]
  BY <1>1, <1>4, ChargedFits
<1>6. Within(k, after.tokens, at, first, calls, again)
  <2>1. first \in Nat
    BY <1>1, <1>4
  <2> HIDE DEF first
  <2> QED
    BY <1>1, <1>4, <2>1, WithinStays
<1>7. /\ made'[k] = first /\ admitted'[k] = calls /\ back'[k] = again
      /\ \A j \in Key \ {k} : made'[j] = made[j] /\ admitted'[j] = admitted[j] /\ back'[j] = back[j]
  BY <1>1, <1>3 DEF GateInv, GateTypeOK
<1>8. calls \in Nat /\ again \in Nat
  <2>1. b.last_refill \in Nat
    BY <1>4
  <2> QED
    BY <1>1, <1>4, <2>1
<1> HIDE DEF known, after, first, calls, again
<1>9. GateTypeOK'
  <2>1. made' \in [Key -> 0..now]
    BY <1>1, <1>3 DEF GateInv, GateTypeOK
  <2>2. admitted' \in [Key -> Nat] /\ back' \in [Key -> Nat]
    <3>1. DOMAIN admitted' = Key /\ DOMAIN back' = Key
      BY <1>3 DEF GateInv, GateTypeOK
    <3>2. admitted' = [j \in Key |-> admitted'[j]] /\ back' = [j \in Key |-> back'[j]]
      BY <1>3, <3>1 DEF GateInv, GateTypeOK
    <3>3. \A j \in Key : admitted'[j] \in Nat /\ back'[j] \in Nat
      BY <1>7, <1>8 DEF GateInv, GateTypeOK
    <3> QED
      BY <3>2, <3>3
  <2>3. reading' \in [Check -> {Idle} \cup Key \X (0..now)]
    BY <1>3 DEF GateInv, GateTypeOK
  <2>4. \A j \in DOMAIN buckets' :
          buckets'[j] \in [tokens : 0..capacity(j), last_refill : 0..now]
    BY <1>1, <1>2, <1>5 DEF GateInv, GateTypeOK
  <2>5. DOMAIN buckets' \subseteq Key
    BY <1>1, <1>2 DEF GateInv, GateTypeOK
  <2> QED
    BY <1>3, <2>1, <2>2, <2>3, <2>4, <2>5 DEF GateInv, GateTypeOK, capacity, refill_per_sec
<1>10. Untouched'
  BY <1>2, <1>7 DEF GateInv, Untouched
<1>11. AdmittedAccounted'
  <2>1. SUFFICES ASSUME NEW j \in DOMAIN buckets'
                 PROVE  Within(j, buckets'[j].tokens, buckets'[j].last_refill,
                               made'[j], admitted'[j], back'[j])
    BY DEF AdmittedAccounted, Within, capacity, refill_per_sec
  <2>2. CASE j = k
    <3>1. after.last_refill = at
      BY <1>5
    <3> QED
      BY <1>2, <1>6, <1>7, <2>2, <3>1
  <2>3. CASE j # k
    <3>1. j \in DOMAIN buckets /\ buckets'[j] = buckets[j] /\ j \in Key
      BY <1>2, <2>3 DEF GateInv, GateTypeOK
    <3>2. Within(j, buckets[j].tokens, buckets[j].last_refill, made[j], admitted[j], back[j])
      BY <3>1 DEF GateInv, AdmittedAccounted, Within
    <3> QED
      BY <1>7, <2>3, <3>1, <3>2
  <2> QED
    BY <2>2, <2>3
<1> QED
  BY <1>9, <1>10, <1>11 DEF GateInv

LEMMA GateInvStep ==
  ASSUME GateAssumption, GateInv, [GateNext]_gate
  PROVE  GateInv'
<1>1. ASSUME NEW t \in Check, NEW a \in Atom, CheckRemember(t, a) PROVE GateInv'
  <2>1. a.worker \in Key
    BY DEF Atom, Key
  <2> QED
    BY <1>1, <2>1, ReadStep DEF CheckRemember
<1>2. ASSUME NEW t \in Check, NEW w \in WorldKey, CheckAsk(t, w) PROVE GateInv'
  BY <1>2, ReadStep DEF CheckAsk, Key
<1>3. ASSUME NEW t \in Check, RateLimit(t) PROVE GateInv'
  BY <1>3, RateLimitStep
<1>4. CASE GateTick
  BY <1>4, TickStep
<1>5. CASE UNCHANGED gate
  BY <1>5 DEF gate, GateInv, GateTypeOK, Untouched, AdmittedAccounted, capacity, refill_per_sec
<1> QED
  BY <1>1, <1>2, <1>3, <1>4, <1>5 DEF GateNext

(* For any rate, cost and number of concurrent calls, whatever order they  *)
(* take the lock in, a bucket has let through no more than one full bucket *)
(* and its rate allow, plus what instants set back were refilled twice.    *)
THEOREM AdmittedAccountedCorrect ==
  ASSUME GateAssumption PROVE GateSpec => []AdmittedAccounted
<1>1. GateInit => GateInv
  BY GateInvInit
<1>2. GateInv /\ [GateNext]_gate => GateInv'
  BY GateInvStep
<1>3. GateInv => AdmittedAccounted
  BY DEF GateInv
<1> QED
  BY <1>1, <1>2, <1>3, PTL DEF GateSpec

(* No bucket ever holds more than its capacity or less than nothing, for   *)
(* how long it was left alone and whatever instant a call brings.          *)
THEOREM GateTypeCorrect ==
  ASSUME GateAssumption PROVE GateSpec => []GateTypeOK
<1>1. GateInit => GateInv
  BY GateInvInit
<1>2. GateInv /\ [GateNext]_gate => GateInv'
  BY GateInvStep
<1>3. GateInv => GateTypeOK
  BY DEF GateInv
<1> QED
  BY <1>1, <1>2, <1>3, PTL DEF GateSpec

-----------------------------------------------------------------------------
(* Sets of numbers have a least and a largest element.                     *)
LEMMA LeastNumber ==
  ASSUME NEW S, S \subseteq Nat, S # {}
  PROVE  \E least \in S : \A n \in S : least <= n
<1>1. IsWellFoundedOn(OpToRel(<, Nat), Nat)
  BY NatLessThanWellFounded
<1>2. PICK least \in S : \A n \in S : ~(<<n, least>> \in OpToRel(<, Nat))
  BY <1>1, WFMin
<1>3. \A n \in S : ~(n < least)
  BY <1>2 DEF OpToRel
<1>4. \A n \in S : n \in Nat /\ least \in Nat
  OBVIOUS
<1> QED
  BY <1>3, <1>4

LEMMA LargestNumber ==
  ASSUME NEW n \in Nat, NEW S, S \subseteq 0..n, S # {}
  PROVE  \E most \in S : \A m \in S : m <= most
<1> DEFINE T == {k \in Nat : n - k \in S}
<1>1. T # {}
  <2>1. PICK m \in S : TRUE
    OBVIOUS
  <2>2. n - m \in Nat /\ n - (n - m) = m
    BY <2>1
  <2> QED
    BY <2>1, <2>2
<1>2. PICK least \in T : \A k \in T : least <= k
  <2>1. T \subseteq Nat
    OBVIOUS
  <2> HIDE DEF T
  <2> QED
    BY <1>1, <2>1, LeastNumber
<1>3. \A m \in S : n - m \in T
  OBVIOUS
<1>4. ASSUME NEW m \in S
      PROVE  m <= n - least
  <2>1. least <= n - m
    BY <1>2, <1>3
  <2> QED
    BY <2>1
<1> QED
  BY <1>2, <1>4

-----------------------------------------------------------------------------
(* The handlers and the streams                                            *)

(* The atoms that calls of this process make.                              *)
AtomRecords ==
  [id : Nat, world : WorldName, status : {"none", "active", "archived"},
   kind : {c.kind : c \in Contents \cup {MetaContent}},
   labels : {c.labels : c \in Contents \cup {MetaContent}},
   flags : {c.flags : c \in Contents \cup {MetaContent}},
   ts : {c.ts : c \in Contents \cup {MetaContent}}]

(* What a handler's call can be doing: without an atom yet, or with one.   *)
Doings ==
  {Free}
    \cup [pc : {"stamp", "list"}, asked : WorldName, want : {"active", "archived"}, id : {0}]
    \cup [pc : {"store", "publish", "list"}, asked : WorldName,
          want : {"none", "active", "archived"}, id : Nat \ {0}, atom : AtomRecords]

Typed ==
  /\ store \subseteq AtomRecords /\ ids \in Nat
  /\ doing \in [Handler -> Doings]
  /\ next_id \in Nat /\ 1 <= next_id /\ next_id - 1 <= MaxSubscribers
  /\ DOMAIN got \subseteq 1..(next_id - 1) /\ DOMAIN subscribers \subseteq DOMAIN got
  /\ \A h \in DOMAIN got : got[h] \in Seq(AtomRecords)
  /\ \A h \in DOMAIN subscribers :
       subscribers[h] \in [world : WorldName, filter : Filters, queue : Seq(AtomRecords)]

(* A call that holds an atom, or held it until it was published.           *)
Holds(t) == doing[t].pc \in {"store", "publish", "list"} /\ doing[t].id # 0

(* Calls hold different atoms, whose ids nobody has acknowledged; the atom *)
(* is in the store from the append on, and not before.                     *)
HoldersApart ==
  /\ \A t \in Handler : Holds(t) => doing[t].id \in (1..ids) \ acked
  /\ \A t, u \in Handler : Holds(t) /\ Holds(u) /\ doing[t].id = doing[u].id => t = u
  /\ \A t \in Handler :
       doing[t].pc = "store" =>
         doing[t].atom.id = doing[t].id /\ \A a \in store : a.id # doing[t].id
  /\ \A t \in Handler :
       doing[t].pc = "publish" => doing[t].atom.id = doing[t].id /\ doing[t].atom \in store

Stored(i) == \E a \in store : a.id = i

(* What is acknowledged is stored, and so is what is about to be.          *)
AckedStored ==
  /\ \A i \in acked : Stored(i)
  /\ \A t \in Handler : doing[t].pc = "list" /\ doing[t].id # 0 => Stored(doing[t].id)

(* What a subscriber was sent: first what it polled, then what is queued.  *)
Line(h) == got[h] \o subscribers[h].queue

(* A line holds stored atoms, each once, and none that is yet to be        *)
(* published.                                                              *)
LinesSound ==
  \A h \in DOMAIN subscribers :
    /\ \A i \in DOMAIN Line(h) :
         /\ Line(h)[i] \in store
         /\ \A t \in Handler : doing[t].pc = "publish" => Line(h)[i].id # doing[t].id
    /\ \A i, j \in DOMAIN Line(h) : Line(h)[i].id = Line(h)[j].id => i = j

(* What a subscriber that replayed the world lacks is about to be          *)
(* published.                                                              *)
AboutToCome(a) == \E t \in Handler : doing[t].pc = "publish" /\ doing[t].atom = a
Covered ==
  \A h \in DOMAIN scanned : \A a \in store :
    Wanted(a, subscribers[h]) =>
      a.id \in scanned[h] \/ AboutToCome(a) \/ \E i \in DOMAIN Line(h) : Line(h)[i].id = a.id

NodeInv ==
  /\ Typed /\ NodeTypeOK /\ HoldersApart /\ AckedStored /\ LinesSound /\ Covered

-----------------------------------------------------------------------------
(* What a record of Doings says by its pc.                                 *)
LEMMA DoingKinds ==
  ASSUME NEW d \in Doings
  PROVE  /\ d.pc \in {"idle", "stamp", "store", "publish", "list"}
         /\ d.pc # "idle" => d.asked \in WorldName
         /\ d.pc = "stamp" =>
              d \in [pc : {"stamp", "list"}, asked : WorldName,
                     want : {"active", "archived"}, id : {0}]
         /\ d.pc \in {"store", "publish"} =>
              /\ d \in [pc : {"store", "publish", "list"}, asked : WorldName,
                        want : {"none", "active", "archived"}, id : Nat \ {0},
                        atom : AtomRecords]
              /\ d.id # 0 /\ d.id \in Nat /\ d.atom \in AtomRecords
         /\ d.pc = "list" => d.id \in Nat
BY DEF Doings, Free

(* The body of an atom is one of the records, whoever it is made for.      *)
LEMMA BodyType ==
  ASSUME ids \in Nat, NEW w \in WorldName, NEW c \in Contents \cup {MetaContent},
         NEW s \in {"none", "active", "archived"}
  PROVE  /\ Body(w, c, s) \in AtomRecords
         /\ Body(w, c, s).id = ids + 1
BY DEF Body, AtomRecords

(* The histories of the calls keep their types when a call begins.         *)
HistoryTyped ==
  /\ crossed \subseteq Handler
  /\ settled \in [WorldName -> SUBSET {"none", "active", "archived"}]

LEMMA BeginsTyped ==
  ASSUME HistoryTyped, NEW t \in Handler, NEW w, NEW want, Begins(t, w, want)
  PROVE  HistoryTyped'
BY DEF HistoryTyped, Begins

(* A handler's turn keeps the type of what the handlers do.                *)
LEMMA TurnType ==
  ASSUME doing \in [Handler -> Doings], NEW t \in Handler, NEW d \in Doings, Turn(t, d)
  PROVE  /\ doing' \in [Handler -> Doings]
         /\ doing'[t] = d
         /\ \A u \in Handler : u # t => doing'[u] = doing[u]
BY DEF Turn

LEMMA AppendToLine ==
  ASSUME NEW S, NEW s \in Seq(S), NEW q \in Seq(S), NEW a \in S
  PROVE  s \o Append(q, a) = Append(s \o q, a)
OBVIOUS

LEMMA PollLine ==
  ASSUME NEW S, NEW s \in Seq(S), NEW q \in Seq(S), q # << >>
  PROVE  Append(s, Head(q)) \o Tail(q) = s \o q
OBVIOUS

-----------------------------------------------------------------------------
LEMMA NodeInitInv ==
  ASSUME NodeAssumption, NodeInit
  PROVE  NodeInv
<1> USE DEF NodeInit, StreamInit
<1>1. Free \in Doings
  BY DEF Doings
<1>2. Typed
  BY <1>1 DEF Typed, NodeAssumption, StreamAssumption
<1>3. NodeTypeOK
  BY DEF NodeTypeOK, NodeAssumption, Free
<1>4. HoldersApart
  BY DEF HoldersApart, Holds, Free
<1>5. LinesSound /\ Covered /\ AckedStored
  BY DEF LinesSound, Covered, AckedStored, Free
<1> QED
  BY <1>2, <1>3, <1>4, <1>5 DEF NodeInv

(* A turn that publishes nothing and ends no publication says nothing new  *)
(* about the subscribers.                                                  *)
LEMMA QuietTurn ==
  ASSUME Typed, LinesSound, Covered, NEW t \in Handler, NEW d \in Doings, Turn(t, d),
         doing[t].pc # "publish", d.pc # "publish", UNCHANGED <<stream, store, scanned>>
  PROVE  LinesSound' /\ Covered'
<1>1. \A u \in Handler : /\ doing'[u].pc = "publish" <=> doing[u].pc = "publish"
                         /\ doing[u].pc = "publish" => doing'[u] = doing[u]
  BY TurnType DEF Typed
<1>2. \A h : Line(h)' = Line(h)
  BY DEF Line, stream
<1>3. LinesSound'
  <2>1. SUFFICES ASSUME NEW h \in DOMAIN subscribers
                 PROVE  /\ \A i \in DOMAIN Line(h) :
                             /\ Line(h)[i] \in store
                             /\ \A u \in Handler : doing'[u].pc = "publish" =>
                                                     Line(h)[i].id # doing'[u].id
                        /\ \A i, j \in DOMAIN Line(h) : Line(h)[i].id = Line(h)[j].id => i = j
    BY <1>2 DEF LinesSound, stream
  <2> QED
    BY <1>1 DEF LinesSound
<1>4. \A a : AboutToCome(a) => AboutToCome(a)'
  BY <1>1 DEF AboutToCome
<1>5. Covered'
  <2>1. SUFFICES ASSUME NEW h \in DOMAIN scanned, NEW a \in store, Wanted(a, subscribers[h])
                 PROVE  \/ a.id \in scanned[h] \/ AboutToCome(a)'
                        \/ \E i \in DOMAIN Line(h) : Line(h)[i].id = a.id
    BY <1>2 DEF Covered, stream
  <2> QED
    BY <2>1, <1>4 DEF Covered
<1> QED
  BY <1>3, <1>5

(* An id is taken: the call that takes it holds an atom of its own.        *)
LEMMA TakeId ==
  ASSUME NodeInv, NEW t \in Handler, NEW d \in Doings, Turn(t, d), ids < MaxAtoms,
         d.pc = "store", d.id = ids + 1, d.atom.id = ids + 1, ~Holds(t),
         doing[t].pc \in {"idle", "stamp"}, ids' = ids + 1, HistoryTyped',
         UNCHANGED <<stream, store, worlds, scanned, acked, restarts, managed>>
  PROVE  NodeInv'
<1> USE DEF NodeInv
<1>0. /\ doing' \in [Handler -> Doings] /\ doing'[t] = d
      /\ \A u \in Handler : u # t => doing'[u] = doing[u]
  BY TurnType DEF Typed
<1>1. Typed'
  BY <1>0 DEF Typed, stream
<1>2. NodeTypeOK'
  BY <1>0, DoingKinds DEF NodeTypeOK, HistoryTyped, Typed, stream
<1>3. HoldersApart'
  <2>1. \A u \in Handler : Holds(u)' => doing'[u].id \in (1..ids') \ acked'
    BY <1>0 DEF Holds, HoldersApart, Typed, NodeTypeOK
  <2>2. \A u, v \in Handler : Holds(u)' /\ Holds(v)' /\ doing'[u].id = doing'[v].id => u = v
    BY <1>0 DEF Holds, HoldersApart, Typed
  <2>3. \A u \in Handler :
          doing'[u].pc = "store" =>
            doing'[u].atom.id = doing'[u].id /\ \A a \in store : a.id # doing'[u].id
    BY <1>0 DEF HoldersApart, Typed, NodeTypeOK
  <2>4. \A u \in Handler :
          doing'[u].pc = "publish" => doing'[u].atom.id = doing'[u].id /\ doing'[u].atom \in store
    BY <1>0 DEF HoldersApart
  <2> QED
    BY <2>1, <2>2, <2>3, <2>4 DEF HoldersApart
<1>4. LinesSound' /\ Covered'
  BY QuietTurn
<1>5. AckedStored'
  BY <1>0 DEF AckedStored, Stored
<1> QED
  BY <1>1, <1>2, <1>3, <1>4, <1>5

LEMMA RememberInv ==
  ASSUME NodeAssumption, NodeInv, NEW t \in Handler, NEW w, NEW c \in Contents,
         Remember(t, w, c)
  PROVE  NodeInv'
<1>1. PICK v \in {w, Quarantine[w]} :
        Turn(t, [pc |-> "store", asked |-> w, want |-> "none",
                 id |-> ids + 1, atom |-> Body(v, c, "none")])
  BY DEF Remember
<1> DEFINE d == [pc |-> "store", asked |-> w, want |-> "none",
                 id |-> ids + 1, atom |-> Body(v, c, "none")]
<1>2. ids \in Nat /\ w \in WorldName /\ v \in WorldName
  BY DEF Remember, NodeAssumption, NodeInv, Typed
<1>3. Body(v, c, "none") \in AtomRecords /\ Body(v, c, "none").id = ids + 1
  BY <1>2, BodyType
<1>4. d \in Doings
  BY <1>2, <1>3 DEF Doings
<1>5. ~Holds(t) /\ doing[t].pc = "idle"
  BY DEF Remember, Free, Holds
<1> HIDE DEF d
<1>6. d.pc = "store" /\ d.id = ids + 1 /\ d.atom.id = ids + 1
  BY <1>3 DEF d
<1>7. HistoryTyped' /\ UNCHANGED <<scanned, acked>>
  <2>1. HistoryTyped /\ Begins(t, w, "none")
    BY DEF NodeInv, NodeTypeOK, HistoryTyped, Remember
  <2> QED
    BY <2>1, BeginsTyped DEF Begins
<1> QED
  BY <1>1, <1>4, <1>5, <1>6, <1>7, TakeId DEF Remember, d

LEMMA StampInv ==
  ASSUME NodeAssumption, NodeInv, NEW t \in Handler, Stamp(t)
  PROVE  NodeInv'
<1> DEFINE d == [pc |-> "store", asked |-> doing[t].asked, want |-> doing[t].want,
                 id |-> ids + 1, atom |-> Body(doing[t].asked, MetaContent, doing[t].want)]
<1>1. /\ ids \in Nat /\ doing[t].asked \in WorldName /\ doing[t].id = 0
      /\ doing[t].want \in {"none", "active", "archived"}
  BY DoingKinds DEF Stamp, NodeInv, Typed
<1>2. /\ Body(doing[t].asked, MetaContent, doing[t].want) \in AtomRecords
      /\ Body(doing[t].asked, MetaContent, doing[t].want).id = ids + 1
  BY <1>1, BodyType
<1>3. d \in Doings
  BY <1>1, <1>2 DEF Doings
<1>4. ~Holds(t) /\ doing[t].pc = "stamp" /\ Turn(t, d)
  BY <1>1 DEF Stamp, Holds
<1> HIDE DEF d
<1>5. d.pc = "store" /\ d.id = ids + 1 /\ d.atom.id = ids + 1
  BY <1>2 DEF d
<1>6. HistoryTyped' /\ UNCHANGED <<scanned, acked>>
  BY DEF NodeInv, NodeTypeOK, HistoryTyped, Stamp, shown
<1> QED
  BY <1>3, <1>4, <1>5, <1>6, TakeId DEF Stamp

(* A call that holds no atom any more, acknowledged or given up, disturbs  *)
(* no other; neither does one that has yet to take an id.                  *)
LEMMA HoldNothing ==
  ASSUME NodeInv, NEW t \in Handler, NEW d \in Doings, Turn(t, d),
         d.pc \in {"idle", "stamp", "list"}, d.pc = "idle" \/ d.id = 0,
         doing[t].pc # "publish",
         acked \subseteq acked',
         \A i \in acked' : i \in acked \/ (Holds(t) /\ doing[t].pc = "list" /\ i = doing[t].id),
         worlds' \subseteq WorldName, HistoryTyped',
         managed' \in 0..MaxManaged,
         UNCHANGED <<stream, store, ids, scanned, restarts>>
  PROVE  NodeInv'
<1> USE DEF NodeInv
<1>0. /\ doing' \in [Handler -> Doings] /\ doing'[t] = d
      /\ \A u \in Handler : u # t => doing'[u] = doing[u]
  BY TurnType DEF Typed
<1>1. Typed'
  BY <1>0 DEF Typed, stream
<1>2. ~Holds(t)'
  BY <1>0 DEF Holds
<1>3. \A u \in Handler : Holds(u)' => Holds(u) /\ u # t /\ doing'[u] = doing[u]
  BY <1>0, <1>2 DEF Holds
<1>4. acked' \subseteq 1..ids
  BY DEF HoldersApart, NodeTypeOK, Holds
<1>5. NodeTypeOK'
  BY <1>0, <1>4, DoingKinds DEF NodeTypeOK, HistoryTyped, Typed, stream
<1>6. HoldersApart'
  <2>1. \A u \in Handler : Holds(u)' => doing'[u].id \in (1..ids) \ acked'
    BY <1>3 DEF HoldersApart
  <2>2. \A u, v \in Handler : Holds(u)' /\ Holds(v)' /\ doing'[u].id = doing'[v].id => u = v
    BY <1>3 DEF HoldersApart
  <2>3. \A u \in Handler :
          doing'[u].pc = "store" =>
            doing'[u].atom.id = doing'[u].id /\ \A a \in store : a.id # doing'[u].id
    BY <1>0 DEF HoldersApart
  <2>4. \A u \in Handler :
          doing'[u].pc = "publish" => doing'[u].atom.id = doing'[u].id /\ doing'[u].atom \in store
    BY <1>0 DEF HoldersApart
  <2> QED
    BY <2>1, <2>2, <2>3, <2>4 DEF HoldersApart
<1>7. LinesSound' /\ Covered'
  BY QuietTurn
<1>8. AckedStored'
  <2>1. \A i : Stored(i)' <=> Stored(i)
    BY DEF Stored
  <2>2. Holds(t) /\ doing[t].pc = "list" => Stored(doing[t].id)
    BY DEF AckedStored, Holds
  <2>3. \A i \in acked' : Stored(i)
    BY <2>2 DEF AckedStored
  <2>4. \A u \in Handler : doing'[u].pc = "list" /\ doing'[u].id # 0 => Stored(doing'[u].id)
    BY <1>0 DEF AckedStored
  <2> QED
    BY <2>1, <2>3, <2>4 DEF AckedStored
<1> QED
  BY <1>1, <1>5, <1>6, <1>7, <1>8

LEMMA ManageInv ==
  ASSUME NodeAssumption, NodeInv, NEW t \in Handler, NEW w \in Writable,
         NEW want \in {"active", "archived"}, Manage(t, w, want)
  PROVE  NodeInv'
<1>1. PICK plain \in {TRUE, want = "archived"} :
        Turn(t, [pc |-> IF plain /\ StatusOf(w) = want THEN "list" ELSE "stamp",
                 asked |-> w, want |-> want, id |-> 0])
  BY DEF Manage
<1> DEFINE d == [pc |-> IF plain /\ StatusOf(w) = want THEN "list" ELSE "stamp",
                 asked |-> w, want |-> want, id |-> 0]
<1>2. d \in Doings /\ d.pc \in {"stamp", "list"} /\ d.id = 0
  BY DEF Doings, NodeAssumption
<1>3. doing[t].pc = "idle"
  BY DEF Manage, Free
<1>4. managed' \in 0..MaxManaged
  BY DEF Manage, NodeInv, NodeTypeOK, NodeAssumption
<1>5. worlds \subseteq WorldName /\ HistoryTyped' /\ UNCHANGED <<scanned, acked>>
  <2>1. worlds \subseteq WorldName /\ HistoryTyped
    BY DEF NodeInv, NodeTypeOK, HistoryTyped
  <2>2. Begins(t, w, want)
    BY DEF Manage
  <2>3. HistoryTyped'
    BY <2>1, <2>2, BeginsTyped
  <2> QED
    BY <2>1, <2>2, <2>3 DEF Begins
<1> HIDE DEF d
<1> QED
  BY <1>1, <1>2, <1>3, <1>4, <1>5, HoldNothing DEF Manage, d

LEMMA UpdateListInv ==
  ASSUME NodeAssumption, NodeInv, NEW t \in Handler, UpdateList(t)
  PROVE  NodeInv'
<1>1. doing[t].pc = "list" /\ doing[t].asked \in WorldName
  BY DoingKinds DEF UpdateList, NodeInv, Typed
<1>2. Free \in Doings /\ Free.pc = "idle"
  BY DEF Doings, Free
<1>3. worlds' \subseteq WorldName /\ HistoryTyped'
  <2>1. doing[t].want \in {"none", "active", "archived"}
    BY <1>1 DEF NodeInv, Typed, Doings, Free
  <2>2. /\ worlds' = worlds \ {doing[t].asked} \/ worlds' = worlds \cup {doing[t].asked}
        /\ crossed' = crossed \ {t}
        /\ settled' = settled \/ settled' = [settled EXCEPT ![doing[t].asked] = @ \cup {doing[t].want}]
    BY DEF UpdateList, Pushed
  <2>3. worlds \subseteq WorldName /\ HistoryTyped
    BY DEF NodeInv, NodeTypeOK, HistoryTyped
  <2> QED
    BY <1>1, <2>1, <2>2, <2>3 DEF HistoryTyped
<1>4. /\ acked \subseteq acked'
      /\ \A i \in acked' : i \in acked \/ (Holds(t) /\ doing[t].pc = "list" /\ i = doing[t].id)
  BY <1>1 DEF UpdateList, Holds
<1>5. managed' \in 0..MaxManaged
  BY DEF UpdateList, NodeInv, NodeTypeOK
<1> QED
  BY <1>1, <1>2, <1>3, <1>4, <1>5, HoldNothing DEF UpdateList

LEMMA AbandonInv ==
  ASSUME NodeAssumption, NodeInv, NEW t \in Handler, Abandon(t)
  PROVE  NodeInv'
<1>1. Free \in Doings /\ Free.pc = "idle" /\ doing[t].pc # "publish"
  BY DEF Doings, Free, Abandon
<1>2. worlds \subseteq WorldName /\ HistoryTyped' /\ managed \in 0..MaxManaged
  BY DEF NodeInv, NodeTypeOK, HistoryTyped, Abandon
<1> QED
  BY <1>1, <1>2, HoldNothing DEF Abandon

-----------------------------------------------------------------------------
(* The append: the atom was in nobody's line, and is about to come.        *)
LEMMA StoreAtomInv ==
  ASSUME NodeAssumption, NodeInv, NEW t \in Handler, StoreAtom(t)
  PROVE  NodeInv'
<1> USE DEF NodeInv
<1> DEFINE d == [doing[t] EXCEPT !.pc = "publish"]
<1>1. /\ doing[t].pc = "store" /\ doing[t].id # 0 /\ doing[t].atom \in AtomRecords
      /\ doing[t] \in [pc : {"store", "publish", "list"}, asked : WorldName,
                       want : {"none", "active", "archived"}, id : Nat \ {0},
                       atom : AtomRecords]
  BY DoingKinds DEF StoreAtom, Typed
<1>2. d \in Doings /\ d.pc = "publish" /\ d.id = doing[t].id /\ d.atom = doing[t].atom
  BY <1>1 DEF Doings
<1> HIDE DEF d
<1>3. /\ doing' \in [Handler -> Doings] /\ doing'[t] = d
      /\ \A u \in Handler : u # t => doing'[u] = doing[u]
  BY <1>2, TurnType DEF StoreAtom, Typed, d
<1>4. /\ store' = store \cup {doing[t].atom}
      /\ UNCHANGED <<stream, worlds, ids, shown, managed, restarts>>
  BY DEF StoreAtom
<1>5. /\ doing[t].atom.id = doing[t].id /\ doing[t].id \in 1..ids
      /\ \A a \in store : a.id # doing[t].id
  BY <1>1 DEF HoldersApart, Holds
<1>6. Typed'
  BY <1>1, <1>3, <1>4 DEF Typed, stream
<1>7. NodeTypeOK'
  <2>1. doing[t].atom.world \in WorldName
    BY <1>1 DEF AtomRecords
  <2> QED
    BY <1>3, <1>4, <1>5, <2>1, DoingKinds DEF NodeTypeOK, Typed, stream, shown
<1>8. \A u \in Handler : Holds(u)' <=> Holds(u)
  BY <1>1, <1>2, <1>3 DEF Holds
<1>9. HoldersApart'
  <2>1. \A u \in Handler : Holds(u)' => doing'[u].id \in (1..ids') \ acked'
    BY <1>8, <1>2, <1>3, <1>4 DEF HoldersApart, shown
  <2>2. \A u, v \in Handler : Holds(u)' /\ Holds(v)' /\ doing'[u].id = doing'[v].id => u = v
    BY <1>8, <1>2, <1>3 DEF HoldersApart
  <2>3. ASSUME NEW u \in Handler, doing'[u].pc = "store"
        PROVE  doing'[u].atom.id = doing'[u].id /\ \A a \in store' : a.id # doing'[u].id
    <3>1. u # t /\ doing'[u] = doing[u]
      BY <1>2, <1>3, <2>3
    <3>2. Holds(u) /\ Holds(t)
      BY <1>1, <2>3, <3>1, DoingKinds DEF Holds, Typed
    <3> QED
      BY <1>4, <1>5, <2>3, <3>1, <3>2 DEF HoldersApart
  <2>4. \A u \in Handler :
          doing'[u].pc = "publish" => doing'[u].atom.id = doing'[u].id /\ doing'[u].atom \in store'
    BY <1>2, <1>3, <1>4, <1>5 DEF HoldersApart
  <2> QED
    BY <2>1, <2>2, <2>3, <2>4 DEF HoldersApart
<1>10. \A h : Line(h)' = Line(h)
  BY <1>4 DEF Line, stream
<1>11. LinesSound'
  <2>1. SUFFICES ASSUME NEW h \in DOMAIN subscribers
                 PROVE  /\ \A i \in DOMAIN Line(h) :
                             /\ Line(h)[i] \in store'
                             /\ \A u \in Handler : doing'[u].pc = "publish" =>
                                                     Line(h)[i].id # doing'[u].id
                        /\ \A i, j \in DOMAIN Line(h) : Line(h)[i].id = Line(h)[j].id => i = j
    BY <1>10, <1>4 DEF LinesSound, stream
  <2> QED
    BY <1>2, <1>3, <1>4, <1>5 DEF LinesSound
<1>12. Covered'
  <2>1. \A a : AboutToCome(a) => AboutToCome(a)'
    BY <1>1, <1>2, <1>3 DEF AboutToCome
  <2>2. \A a : a = doing[t].atom => AboutToCome(a)'
    BY <1>2, <1>3 DEF AboutToCome
  <2>3. SUFFICES ASSUME NEW h \in DOMAIN scanned, NEW a \in store', Wanted(a, subscribers[h])
                 PROVE  \/ a.id \in scanned[h] \/ AboutToCome(a)'
                        \/ \E i \in DOMAIN Line(h) : Line(h)[i].id = a.id
    BY <1>10, <1>4 DEF Covered, stream, shown
  <2> QED
    BY <2>1, <2>2, <2>3, <1>4 DEF Covered
<1>13. AckedStored'
  <2>1. \A i : Stored(i) => Stored(i)'
    BY <1>4 DEF Stored
  <2> QED
    BY <1>2, <1>3, <1>4, <2>1 DEF AckedStored, shown
<1> QED
  BY <1>4, <1>6, <1>7, <1>9, <1>11, <1>12, <1>13 DEF shown

(* What a publication does to a line: it is longer by the atom if its      *)
(* subscriber wants it, and is as it was if not.                           *)
LEMMA PublishedLine ==
  ASSUME Typed, NEW a \in AtomRecords, publish(a), NEW h \in DOMAIN subscribers
  PROVE  /\ DOMAIN subscribers' = DOMAIN subscribers
         /\ \A b : Wanted(b, subscribers'[h]) <=> Wanted(b, subscribers[h])
         /\ Line(h) \in Seq(AtomRecords)
         /\ subscribers'[h] \in [world : WorldName, filter : Filters, queue : Seq(AtomRecords)]
         /\ Wanted(a, subscribers[h]) => Line(h)' = Append(Line(h), a)
         /\ ~Wanted(a, subscribers[h]) => Line(h)' = Line(h)
<1>1. /\ subscribers[h] \in [world : WorldName, filter : Filters, queue : Seq(AtomRecords)]
      /\ got[h] \in Seq(AtomRecords)
  BY DEF Typed
<1>2. /\ DOMAIN subscribers' = DOMAIN subscribers /\ got' = got
      /\ subscribers'[h] = IF Wanted(a, subscribers[h])
                           THEN [subscribers[h] EXCEPT !.queue = Append(@, a)]
                           ELSE subscribers[h]
  BY DEF publish, SendAll
<1>3. subscribers'[h].world = subscribers[h].world /\ subscribers'[h].filter = subscribers[h].filter
  BY <1>1, <1>2
<1>4. \A b : Wanted(b, subscribers'[h]) <=> Wanted(b, subscribers[h])
  BY <1>3 DEF Wanted, matches_filter
<1>5. Line(h) \in Seq(AtomRecords)
  BY <1>1 DEF Line
<1>6. Append(subscribers[h].queue, a) \in Seq(AtomRecords)
  BY <1>1
<1>7. subscribers'[h] \in [world : WorldName, filter : Filters, queue : Seq(AtomRecords)]
  BY <1>1, <1>2, <1>6
<1>8. ASSUME Wanted(a, subscribers[h])
      PROVE  Line(h)' = Append(Line(h), a)
  <2>1. subscribers'[h].queue = Append(subscribers[h].queue, a)
    BY <1>1, <1>2, <1>8
  <2>2. got[h] \o Append(subscribers[h].queue, a) = Append(got[h] \o subscribers[h].queue, a)
    <3>1. subscribers[h].queue \in Seq(AtomRecords) /\ got[h] \in Seq(AtomRecords)
      BY <1>1
    <3>2. \A s, q \in Seq(AtomRecords) : s \o Append(q, a) = Append(s \o q, a)
      BY AppendToLine
    <3> QED
      BY <3>1, <3>2
  <2>3. Line(h)' = got[h] \o subscribers'[h].queue
    BY <1>2 DEF Line
  <2> QED
    BY <2>1, <2>2, <2>3, Zenon DEF Line
<1>9. ~Wanted(a, subscribers[h]) => Line(h)' = Line(h)
  BY <1>2 DEF Line
<1> QED
  BY <1>2, <1>4, <1>5, <1>7, <1>8, <1>9

LEMMA PublishStoredInv ==
  ASSUME NodeAssumption, NodeInv, NEW t \in Handler, PublishStored(t)
  PROVE  NodeInv'
<1> USE DEF NodeInv
<1> DEFINE a == doing[t].atom
           d == [doing[t] EXCEPT !.pc = "list"]
<1>1. /\ doing[t].pc = "publish" /\ doing[t].id # 0 /\ a \in AtomRecords
      /\ doing[t] \in [pc : {"store", "publish", "list"}, asked : WorldName,
                       want : {"none", "active", "archived"}, id : Nat \ {0},
                       atom : AtomRecords]
  BY DoingKinds DEF PublishStored, Typed
<1>2. d \in Doings /\ d.pc = "list" /\ d.id = doing[t].id
  BY <1>1 DEF Doings
<1>3. publish(a) /\ Turn(t, d) /\ UNCHANGED <<store, worlds, ids, shown, managed, restarts>>
  BY DEF PublishStored
<1>4. a.id = doing[t].id /\ a \in store /\ Holds(t)
  BY <1>1 DEF HoldersApart, Holds
<1> HIDE DEF d, a
<1>5. /\ doing' \in [Handler -> Doings] /\ doing'[t] = d
      /\ \A u \in Handler : u # t => doing'[u] = doing[u]
  BY <1>2, <1>3, TurnType DEF Typed
<1>6. Typed'
  <2>1. DOMAIN subscribers' = DOMAIN subscribers /\ got' = got /\ next_id' = next_id
    BY <1>3 DEF publish, SendAll
  <2>2. \A h \in DOMAIN subscribers :
          subscribers'[h] \in [world : WorldName, filter : Filters, queue : Seq(AtomRecords)]
    BY <1>1, <1>3, PublishedLine
  <2> QED
    BY <1>3, <1>5, <2>1, <2>2 DEF Typed
<1>7. DOMAIN subscribers' = DOMAIN subscribers
  BY <1>3 DEF publish, SendAll
<1>8. NodeTypeOK'
  BY <1>3, <1>5, <1>7, DoingKinds DEF NodeTypeOK, Typed, shown
<1>9. \A u \in Handler : /\ Holds(u)' <=> Holds(u)
                         /\ doing'[u].id = doing[u].id \/ ~Holds(u)
  BY <1>1, <1>2, <1>5 DEF Holds
<1>10. HoldersApart'
  <2>1. \A u \in Handler : Holds(u)' => doing'[u].id \in (1..ids') \ acked'
    BY <1>9, <1>3 DEF HoldersApart, shown
  <2>2. \A u, v \in Handler : Holds(u)' /\ Holds(v)' /\ doing'[u].id = doing'[v].id => u = v
    BY <1>9 DEF HoldersApart
  <2>3. \A u \in Handler :
          doing'[u].pc = "store" =>
            doing'[u].atom.id = doing'[u].id /\ \A b \in store' : b.id # doing'[u].id
    BY <1>2, <1>3, <1>5 DEF HoldersApart
  <2>4. \A u \in Handler :
          doing'[u].pc = "publish" => doing'[u].atom.id = doing'[u].id /\ doing'[u].atom \in store'
    BY <1>2, <1>3, <1>5 DEF HoldersApart
  <2> QED
    BY <2>1, <2>2, <2>3, <2>4 DEF HoldersApart
<1>11. \A u \in Handler : doing'[u].pc = "publish" =>
         u # t /\ doing[u].pc = "publish" /\ doing'[u] = doing[u] /\ doing[u].id # a.id
  <2>1. SUFFICES ASSUME NEW u \in Handler, doing'[u].pc = "publish"
                 PROVE  u # t /\ doing[u].pc = "publish" /\ doing'[u] = doing[u]
                          /\ doing[u].id # a.id
    OBVIOUS
  <2>2. u # t /\ doing'[u] = doing[u] /\ doing[u].pc = "publish"
    BY <1>2, <1>5, <2>1
  <2>3. Holds(u)
    BY <2>2, DoingKinds DEF Holds, Typed
  <2> QED
    BY <1>4, <2>2, <2>3 DEF HoldersApart
<1>12. LinesSound'
  <2>1. SUFFICES ASSUME NEW h \in DOMAIN subscribers
                 PROVE  /\ \A i \in DOMAIN Line(h)' :
                             /\ Line(h)'[i] \in store
                             /\ \A u \in Handler : doing'[u].pc = "publish" =>
                                                     Line(h)'[i].id # doing'[u].id
                        /\ \A i, j \in DOMAIN Line(h)' :
                             Line(h)'[i].id = Line(h)'[j].id => i = j
    BY <1>3, <1>7 DEF LinesSound
  <2>2. /\ Line(h) \in Seq(AtomRecords)
        /\ Line(h)' = Append(Line(h), a) \/ Line(h)' = Line(h)
    BY <1>1, <1>3, PublishedLine
  <2>3. CASE Line(h)' = Line(h)
    BY <1>11, <2>3 DEF LinesSound
  <2>4. CASE Line(h)' = Append(Line(h), a)
    <3>1. /\ DOMAIN Line(h)' = 1..(Len(Line(h)) + 1) /\ DOMAIN Line(h) = 1..Len(Line(h))
          /\ \A i \in DOMAIN Line(h) : Line(h)'[i] = Line(h)[i]
          /\ Line(h)'[Len(Line(h)) + 1] = a /\ Len(Line(h)) \in Nat
      BY <1>1, <2>2, <2>4
    <3>2. \A i \in DOMAIN Line(h) : Line(h)[i].id # a.id /\ Line(h)[i] \in store
      BY <1>1, <1>4 DEF LinesSound
    <3>3. \A i \in DOMAIN Line(h)' : i \in DOMAIN Line(h) \/ i = Len(Line(h)) + 1
      BY <3>1
    <3>4. ASSUME NEW i \in DOMAIN Line(h)'
          PROVE  /\ Line(h)'[i] \in store
                 /\ \A u \in Handler : doing'[u].pc = "publish" => Line(h)'[i].id # doing'[u].id
      BY <1>4, <1>11, <3>1, <3>2, <3>3 DEF LinesSound
    <3>5. ASSUME NEW i \in DOMAIN Line(h)', NEW j \in DOMAIN Line(h)',
                 Line(h)'[i].id = Line(h)'[j].id
          PROVE  i = j
      BY <3>1, <3>2, <3>3, <3>5 DEF LinesSound
    <3> QED
      BY <3>4, <3>5
  <2> QED
    BY <2>2, <2>3, <2>4
<1>13. Covered'
  <2>1. SUFFICES ASSUME NEW h \in DOMAIN scanned, NEW b \in store, Wanted(b, subscribers[h])
                 PROVE  \/ b.id \in scanned[h] \/ AboutToCome(b)'
                        \/ \E i \in DOMAIN Line(h)' : Line(h)'[i].id = b.id
    <3>1. \A h \in DOMAIN scanned : h \in DOMAIN subscribers
      BY DEF NodeTypeOK
    <3>2. \A h \in DOMAIN scanned : \A b : Wanted(b, subscribers'[h]) <=> Wanted(b, subscribers[h])
      BY <1>1, <1>3, <3>1, PublishedLine
    <3> QED
      BY <1>3, <3>2 DEF Covered, shown
  <2>2. h \in DOMAIN subscribers
    BY DEF NodeTypeOK
  <2>3. /\ Line(h) \in Seq(AtomRecords)
        /\ Wanted(a, subscribers[h]) => Line(h)' = Append(Line(h), a)
        /\ Line(h)' = Append(Line(h), a) \/ Line(h)' = Line(h)
    BY <1>1, <1>3, <2>2, PublishedLine
  <2>4. CASE b = a
    <3>1. Len(Line(h)) + 1 \in DOMAIN Line(h)' /\ Line(h)'[Len(Line(h)) + 1] = a
      BY <1>1, <2>1, <2>3, <2>4
    <3> QED
      BY <2>4, <3>1
  <2>5. CASE AboutToCome(b) /\ b # a
    BY <1>5, <2>5 DEF AboutToCome, a
  <2>6. CASE \E i \in DOMAIN Line(h) : Line(h)[i].id = b.id
    <3>1. \A i \in DOMAIN Line(h) : i \in DOMAIN Line(h)' /\ Line(h)'[i] = Line(h)[i]
      BY <1>1, <2>3
    <3> QED
      BY <2>6, <3>1
  <2> QED
    BY <2>1, <2>4, <2>5, <2>6 DEF Covered
<1>14. AckedStored'
  <2>1. \A i : Stored(i)' <=> Stored(i)
    BY <1>3 DEF Stored
  <2>2. Stored(doing[t].id)
    BY <1>4 DEF Stored
  <2> QED
    BY <1>2, <1>3, <1>5, <2>1, <2>2 DEF AckedStored, shown
<1> QED
  BY <1>3, <1>6, <1>8, <1>10, <1>12, <1>13, <1>14 DEF shown

-----------------------------------------------------------------------------
(* Steps of a subscriber leave the store and the handlers alone.           *)
SubscriberStep ==
  UNCHANGED <<store, worlds, ids, doing, acked, crossed, settled, managed, restarts>>

LEMMA HoldersStay ==
  ASSUME HoldersApart, AckedStored, SubscriberStep
  PROVE  /\ HoldersApart' /\ AckedStored'
         /\ \A a : AboutToCome(a) => AboutToCome(a)'
BY DEF HoldersApart, Holds, AckedStored, Stored, SubscriberStep, AboutToCome

(* Lines that are what they were, for subscribers that ask what they       *)
(* asked, stay sound; so does what covers a world.                         *)
LEMMA LinesStay ==
  ASSUME LinesSound, SubscriberStep,
         \A h \in DOMAIN subscribers' :
           \/ Line(h)' = << >>
           \/ h \in DOMAIN subscribers /\ Line(h)' = Line(h)
  PROVE  LinesSound'
<1>1. SUFFICES ASSUME NEW h \in DOMAIN subscribers'
               PROVE  /\ \A i \in DOMAIN Line(h)' :
                           /\ Line(h)'[i] \in store
                           /\ \A t \in Handler : doing[t].pc = "publish" =>
                                                   Line(h)'[i].id # doing[t].id
                      /\ \A i, j \in DOMAIN Line(h)' : Line(h)'[i].id = Line(h)'[j].id => i = j
  BY DEF LinesSound, SubscriberStep
<1>2. CASE Line(h)' = << >>
  BY <1>2
<1>3. CASE h \in DOMAIN subscribers /\ Line(h)' = Line(h)
  BY <1>3 DEF LinesSound
<1> QED
  BY <1>2, <1>3

LEMMA CoverStays ==
  ASSUME HoldersApart, AckedStored, Covered, SubscriberStep,
         DOMAIN scanned' \subseteq DOMAIN scanned,
         \A h \in DOMAIN scanned' :
           /\ scanned'[h] = scanned[h] /\ Line(h)' = Line(h)
           /\ \A a : Wanted(a, subscribers'[h]) <=> Wanted(a, subscribers[h])
  PROVE  Covered'
<1>1. SUFFICES ASSUME NEW h \in DOMAIN scanned', NEW a \in store, Wanted(a, subscribers[h])
               PROVE  \/ a.id \in scanned[h] \/ AboutToCome(a)'
                      \/ \E i \in DOMAIN Line(h) : Line(h)[i].id = a.id
  BY DEF Covered, SubscriberStep
<1> QED
  BY <1>1, HoldersStay DEF Covered

LEMMA SubscribeInv ==
  ASSUME NodeAssumption, NodeInv, NEW w \in Writable, NEW f \in Filters, subscribe(w, f),
         UNCHANGED scanned, SubscriberStep
  PROVE  NodeInv'
<1> USE DEF NodeInv
<1>1. /\ next_id' = next_id + 1 /\ next_id <= MaxSubscribers
      /\ DOMAIN subscribers' = DOMAIN subscribers \cup {next_id}
      /\ DOMAIN got' = DOMAIN got \cup {next_id}
      /\ subscribers'[next_id] = [world |-> w, filter |-> f, queue |-> << >>]
      /\ got'[next_id] = << >>
      /\ \A h \in DOMAIN got : h # next_id /\ got'[h] = got[h]
      /\ \A h \in DOMAIN subscribers : h # next_id /\ subscribers'[h] = subscribers[h]
  BY DEF subscribe, Typed
<1>2. Typed'
  <2>1. /\ next_id' \in Nat /\ 1 <= next_id' /\ next_id' - 1 <= MaxSubscribers
        /\ DOMAIN got' \subseteq 1..(next_id' - 1) /\ DOMAIN subscribers' \subseteq DOMAIN got'
    BY <1>1 DEF Typed, NodeAssumption, StreamAssumption
  <2> DEFINE Subscribers == [world : WorldName, filter : Filters, queue : Seq(AtomRecords)]
  <2>2. << >> \in Seq(AtomRecords)
    OBVIOUS
  <2>3. subscribers'[next_id] \in Subscribers
    BY <1>1, <2>2 DEF NodeAssumption
  <2> HIDE DEF Subscribers
  <2>4. ASSUME NEW h \in DOMAIN got'
        PROVE  got'[h] \in Seq(AtomRecords)
    <3>1. CASE h = next_id
      BY <1>1, <2>2, <3>1, Zenon
    <3>2. CASE h # next_id
      BY <1>1, <3>2, Zenon DEF Typed
    <3> QED
      BY <3>1, <3>2
  <2>5. ASSUME NEW h \in DOMAIN subscribers'
        PROVE  subscribers'[h] \in Subscribers
    <3>1. CASE h = next_id
      BY <2>3, <3>1, Zenon
    <3>2. CASE h # next_id
      <4>1. h \in DOMAIN subscribers /\ subscribers'[h] = subscribers[h]
        BY <1>1, <3>2, Zenon
      <4> QED
        BY <4>1, Zenon DEF Typed, Subscribers
    <3> QED
      BY <3>1, <3>2
  <2> USE DEF Subscribers
  <2> QED
    BY <2>1, <2>4, <2>5 DEF Typed, SubscriberStep
<1>3. NodeTypeOK'
  <2>1. DOMAIN subscribers' \subseteq 1..MaxSubscribers
    BY <1>1, <1>2 DEF Typed, NodeAssumption, StreamAssumption
  <2> QED
    BY <1>1, <2>1 DEF NodeTypeOK, SubscriberStep
<1>4. /\ \A h : h = next_id => Line(h)' = << >>
      /\ \A h \in DOMAIN subscribers : Line(h)' = Line(h)
  <2>1. \A h : h = next_id => Line(h)' = << >> \o << >>
    BY <1>1 DEF Line
  <2>2. \A h \in DOMAIN subscribers : Line(h)' = Line(h)
    BY <1>1 DEF Line, Typed
  <2> QED
    BY <2>1, <2>2
<1>5. LinesSound'
  BY <1>1, <1>4, LinesStay
<1>6. Covered'
  BY <1>1, <1>4, CoverStays DEF NodeTypeOK
<1> QED
  BY <1>2, <1>3, <1>5, <1>6, HoldersStay DEF SubscriberStep

LEMMA PollInv ==
  ASSUME NodeAssumption, NodeInv, NEW h \in DOMAIN subscribers, poll(h), UNCHANGED scanned,
         SubscriberStep
  PROVE  NodeInv'
<1> USE DEF NodeInv
<1>1. /\ subscribers[h] \in [world : WorldName, filter : Filters, queue : Seq(AtomRecords)]
      /\ h \in DOMAIN got /\ got[h] \in Seq(AtomRecords) /\ subscribers[h].queue # << >>
  BY DEF Typed, poll
<1>2. /\ DOMAIN subscribers' = DOMAIN subscribers /\ DOMAIN got' = DOMAIN got
      /\ subscribers'[h] = [subscribers[h] EXCEPT !.queue = Tail(@)]
      /\ got'[h] = Append(got[h], Head(subscribers[h].queue))
      /\ \A k \in DOMAIN subscribers : k # h => subscribers'[k] = subscribers[k]
      /\ \A k \in DOMAIN got : k # h => got'[k] = got[k]
      /\ next_id' = next_id
  BY <1>1 DEF poll
<1>3. /\ subscribers'[h].world = subscribers[h].world
      /\ subscribers'[h].filter = subscribers[h].filter
      /\ subscribers'[h].queue = Tail(subscribers[h].queue)
  BY <1>1, <1>2
<1>4. /\ Tail(subscribers[h].queue) \in Seq(AtomRecords)
      /\ got'[h] \in Seq(AtomRecords)
  BY <1>1, <1>2
<1>5. Typed'
  <2>1. subscribers'[h] \in [world : WorldName, filter : Filters, queue : Seq(AtomRecords)]
    BY <1>1, <1>2, <1>4
  <2> QED
    BY <1>2, <1>4, <2>1 DEF Typed, SubscriberStep
<1>6. NodeTypeOK'
  BY <1>2 DEF NodeTypeOK, SubscriberStep
<1>7. \A k \in DOMAIN subscribers : Line(k)' = Line(k)
  <2>1. \A s, q \in Seq(AtomRecords) : q # << >> => Append(s, Head(q)) \o Tail(q) = s \o q
    BY PollLine
  <2>2. Line(h)' = Line(h)
    BY <1>1, <1>2, <1>3, <2>1 DEF Line
  <2> QED
    BY <1>2, <2>2 DEF Line, Typed
<1>8. \A k \in DOMAIN subscribers : \A a : Wanted(a, subscribers'[k]) <=> Wanted(a, subscribers[k])
  BY <1>2, <1>3 DEF Wanted, matches_filter
<1>9. LinesSound'
  BY <1>2, <1>7, LinesStay
<1>10. Covered'
  BY <1>7, <1>8, CoverStays DEF NodeTypeOK
<1> QED
  BY <1>5, <1>6, <1>9, <1>10, HoldersStay DEF SubscriberStep

LEMMA StopInv ==
  ASSUME NodeAssumption, NodeInv, NEW h \in DOMAIN subscribers, stop(h),
         scanned' = [k \in DOMAIN scanned \ {h} |-> scanned[k]], SubscriberStep
  PROVE  NodeInv'
<1> USE DEF NodeInv
<1>1. /\ DOMAIN subscribers' = DOMAIN subscribers \ {h}
      /\ \A k \in DOMAIN subscribers' : subscribers'[k] = subscribers[k]
      /\ got' = got /\ next_id' = next_id
  BY DEF stop
<1>2. Typed'
  BY <1>1 DEF Typed, SubscriberStep
<1>3. NodeTypeOK'
  BY <1>1 DEF NodeTypeOK, SubscriberStep
<1>4. \A k \in DOMAIN subscribers' : k \in DOMAIN subscribers /\ Line(k)' = Line(k)
  BY <1>1 DEF Line
<1>5. LinesSound'
  BY <1>4, LinesStay
<1>6. \A k \in DOMAIN scanned' : k \in DOMAIN subscribers' /\ scanned'[k] = scanned[k]
  BY <1>1 DEF NodeTypeOK
<1>7. Covered'
  BY <1>1, <1>4, <1>6, CoverStays
<1> QED
  BY <1>2, <1>3, <1>5, <1>7, HoldersStay DEF SubscriberStep

(* What is stored when the world is replayed is covered by the replay.     *)
LEMMA ReplayInv ==
  ASSUME NodeAssumption, NodeInv, NEW h \in DOMAIN subscribers, Replay(h)
  PROVE  NodeInv'
<1> USE DEF NodeInv
<1>1. /\ h \notin DOMAIN scanned /\ SubscriberStep /\ UNCHANGED stream
      /\ DOMAIN scanned' = DOMAIN scanned \cup {h}
      /\ scanned'[h] = {a.id : a \in {b \in store : Wanted(b, subscribers[h])}}
      /\ \A k \in DOMAIN scanned : scanned'[k] = scanned[k]
  BY DEF Replay, SubscriberStep
<1>2. Typed'
  BY <1>1 DEF Typed, SubscriberStep, stream
<1>3. NodeTypeOK'
  BY <1>1 DEF NodeTypeOK, SubscriberStep, stream
<1>4. \A k : Line(k)' = Line(k)
  BY <1>1 DEF Line, stream
<1>5. LinesSound'
  BY <1>1, <1>4, LinesStay DEF stream
<1>6. Covered'
  <2>1. SUFFICES ASSUME NEW k \in DOMAIN scanned', NEW a \in store, Wanted(a, subscribers[k])
                 PROVE  \/ a.id \in scanned'[k] \/ AboutToCome(a)'
                        \/ \E i \in DOMAIN Line(k) : Line(k)[i].id = a.id
    BY <1>1, <1>4 DEF Covered, SubscriberStep, stream
  <2>2. CASE k = h
    BY <1>1, <2>1, <2>2
  <2>3. CASE k # h
    BY <1>1, <2>1, <2>3, HoldersStay DEF Covered
  <2> QED
    BY <2>2, <2>3
<1> QED
  BY <1>1, <1>2, <1>3, <1>5, <1>6, HoldersStay DEF SubscriberStep

(* A restart leaves nobody who holds anything, and nobody who listens.     *)
LEMMA RestartInv ==
  ASSUME NodeAssumption, NodeInv, Restart
  PROVE  NodeInv'
<1> USE DEF NodeInv
<1>1. /\ doing' = [t \in Handler |-> Free] /\ next_id' = 1
      /\ subscribers' = << >> /\ got' = << >> /\ scanned' = << >>
      /\ worlds' = {} /\ restarts' \in 0..MaxRestarts
      /\ UNCHANGED <<store, ids, acked, managed>>
  BY DEF Restart, StreamEnds, NodeTypeOK, NodeAssumption
<1>2. Free \in Doings
  BY DEF Doings
<1>3. Typed'
  BY <1>1, <1>2 DEF Typed, NodeAssumption, StreamAssumption
<1>4. NodeTypeOK'
  BY <1>1 DEF NodeTypeOK, Free, Restart
<1>5. HoldersApart' /\ AckedStored'
  BY <1>1 DEF HoldersApart, Holds, AckedStored, Stored, Free
<1>6. LinesSound' /\ Covered'
  BY <1>1 DEF LinesSound, Covered
<1> QED
  BY <1>1, <1>3, <1>4, <1>5, <1>6

LEMMA NodeStutter ==
  ASSUME NodeInv, UNCHANGED served
  PROVE  NodeInv'
<1>1. UNCHANGED <<next_id, subscribers, got, store, worlds, ids, doing, scanned, acked,
                  crossed, settled, managed, restarts>>
  BY DEF served, stream, shown
<1>2. (\A h : Line(h)' = Line(h)) /\ (\A t : Holds(t)' <=> Holds(t))
      /\ (\A a : AboutToCome(a)' <=> AboutToCome(a))
  BY <1>1 DEF Line, Holds, AboutToCome
<1>3. (HoldersApart => HoldersApart') /\ (AckedStored => AckedStored')
  BY <1>1, <1>2 DEF HoldersApart, AckedStored, Stored
<1>4. LinesSound => LinesSound'
  BY <1>1, <1>2 DEF LinesSound
<1>5. Covered => Covered'
  BY <1>1, <1>2 DEF Covered
<1> QED
  BY <1>1, <1>3, <1>4, <1>5 DEF NodeInv, Typed, NodeTypeOK

LEMMA NodeStep ==
  ASSUME NodeAssumption, NodeInv, [NodeNext]_served
  PROVE  NodeInv'
<1>1. CASE \E t \in Handler : \E w \in Writable, c \in Contents : Remember(t, w, c)
  BY <1>1, RememberInv
<1>2. CASE \E t \in Handler : \E w \in DOMAIN Policy : SetPolicy(t, w)
  BY <1>2, RememberInv DEF SetPolicy
<1>3. CASE \E t \in Handler : \E w \in Writable, want \in {"active", "archived"} :
             Manage(t, w, want)
  BY <1>3, ManageInv
<1>4. CASE \E t \in Handler : Stamp(t)
  BY <1>4, StampInv
<1>5. CASE \E t \in Handler : StoreAtom(t)
  BY <1>5, StoreAtomInv
<1>6. CASE \E t \in Handler : PublishStored(t)
  BY <1>6, PublishStoredInv
<1>7. CASE \E t \in Handler : UpdateList(t)
  BY <1>7, UpdateListInv
<1>8. CASE \E t \in Handler : Abandon(t)
  BY <1>8, AbandonInv
<1>9. CASE Streams
  <2>1. SubscriberStep
    BY <1>9 DEF Streams, SubscriberStep
  <2>2. CASE \E w \in Writable, f \in Filters : subscribe(w, f) /\ UNCHANGED scanned
    BY <2>1, <2>2, SubscribeInv
  <2>3. CASE \E h \in DOMAIN subscribers : poll(h) /\ UNCHANGED scanned
    BY <2>1, <2>3, PollInv
  <2>4. CASE \E h \in DOMAIN subscribers :
               stop(h) /\ scanned' = [k \in DOMAIN scanned \ {h} |-> scanned[k]]
    BY <2>1, <2>4, StopInv
  <2> QED
    BY <1>9, <2>2, <2>3, <2>4 DEF Streams
<1>10. CASE \E h \in DOMAIN subscribers : Replay(h)
  BY <1>10, ReplayInv
<1>11. CASE Restart
  BY <1>11, RestartInv
<1>12. CASE UNCHANGED served
  BY <1>12, NodeStutter
<1> QED
  BY <1>1, <1>2, <1>3, <1>4, <1>5, <1>6, <1>7, <1>8, <1>9, <1>10, <1>11, <1>12 DEF NodeNext

LEMMA NodeInvariant == ASSUME NodeAssumption PROVE NodeSpec => []NodeInv
<1>1. NodeInit => NodeInv
  BY NodeInitInv
<1>2. NodeInv /\ [NodeNext]_served => NodeInv'
  BY NodeStep
<1> QED
  BY <1>1, <1>2, PTL DEF NodeSpec

(* Every variable of the node keeps its type, however the handlers, the    *)
(* subscribers and restarts interleave, and an atom that is stored is      *)
(* stored in one world, under an id of its own.                            *)
THEOREM NodeTypeCorrect ==
  ASSUME NodeAssumption PROVE NodeSpec => []NodeTypeOK
<1>1. NodeInv => NodeTypeOK
  BY DEF NodeInv
<1> QED
  BY <1>1, NodeInvariant, PTL

(* A subscriber that replays the world once it has subscribed has every    *)
(* acknowledged atom it wants, and none twice from the stream, for any     *)
(* number of handlers, subscribers and filters (remember, manage_world,    *)
(* publish, poll).                                                         *)
THEOREM NothingMissedCorrect ==
  ASSUME NodeAssumption PROVE NodeSpec => []NothingMissed
<1>1. NodeInv => NothingMissed
  <2>1. SUFFICES ASSUME NodeInv, NEW h \in DOMAIN scanned
                 PROVE  /\ \A a \in store : a.id \in acked /\ Wanted(a, subscribers[h]) =>
                             a.id \in scanned[h] \cup Sent(h)
                        /\ \A i, j \in DOMAIN Line(h) : Line(h)[i].id = Line(h)[j].id => i = j
    BY DEF NothingMissed, Line
  <2>2. h \in DOMAIN subscribers
    BY <2>1 DEF NodeInv, NodeTypeOK
  <2>3. ASSUME NEW a \in store, a.id \in acked, Wanted(a, subscribers[h])
        PROVE  a.id \in scanned[h] \cup Sent(h)
    <3>1. ~AboutToCome(a)
      <4>1. ASSUME NEW t \in Handler, doing[t].pc = "publish", doing[t].atom = a
            PROVE  FALSE
        <5>1. Holds(t) /\ doing[t].id = a.id
          BY <2>1, <4>1, DoingKinds DEF Holds, NodeInv, Typed, HoldersApart
        <5> QED
          BY <2>1, <2>3, <5>1 DEF NodeInv, HoldersApart
      <4> QED
        BY <4>1 DEF AboutToCome
    <3>2. CASE \E i \in DOMAIN Line(h) : Line(h)[i].id = a.id
      BY <3>2 DEF Sent, Elements, Line
    <3> QED
      BY <2>1, <2>3, <3>1, <3>2 DEF NodeInv, Covered
  <2>4. \A i, j \in DOMAIN Line(h) : Line(h)[i].id = Line(h)[j].id => i = j
    BY <2>1, <2>2 DEF NodeInv, LinesSound
  <2> QED
    BY <2>3, <2>4
<1> QED
  BY <1>1, NodeInvariant, PTL

-----------------------------------------------------------------------------
(* The list of worlds                                                      *)

Busy(t, w) == doing[t] # Free /\ doing[t].asked = w

(* The latest of the atoms that set w to x or undo it sets it to x.        *)
LatestSets(w, x) ==
  \E a \in store :
    /\ a.world = w /\ a.status = x
    /\ \A b \in store : b.world = w /\ b.status \in Undoing(x) => b.id < a.id

(* A call that nothing crossed runs beside none that may undo it.          *)
UncrossedAlone ==
  \A t, u \in Handler :
    doing[t] # Free /\ Busy(u, doing[t].asked) /\ t \notin crossed =>
      doing[u].want \notin Undoing(doing[t].want)

(* The atom of a call that manages a world says what the call wants.       *)
AtomsSay ==
  \A t \in Handler :
    doing[t].pc = "store" =>
      /\ doing[t].atom.status = doing[t].want /\ doing[t].atom.id = doing[t].id
      /\ doing[t].want # "none" => doing[t].atom.world = doing[t].asked

(* Its atom is the latest of its world, before it is stored and after.     *)
StampsLatest ==
  \A t \in Handler \ crossed :
    doing[t].pc # "idle" /\ doing[t].want # "none" =>
      /\ doing[t].pc = "store" =>
           \A b \in store : b.world = doing[t].asked /\ b.status \in Undoing(doing[t].want) =>
             b.id < doing[t].id
      /\ doing[t].pc \in {"publish", "list"} => LatestSets(doing[t].asked, doing[t].want)

(* What is settled is in storage and in the list, and nothing that may     *)
(* undo it runs.                                                           *)
SettledStands ==
  \A w \in WorldName : \A x \in settled[w] :
    /\ \A u \in Handler : Busy(u, w) => doing[u].want \notin Undoing(x)
    /\ x # "none" => LatestSets(w, x)
    /\ x # "archived" => w \in worlds

ListInv == UncrossedAlone /\ AtomsSay /\ StampsLatest /\ SettledStands

(* The latest atom of a world is its status.                               *)
LEMMA LatestIsStatus ==
  ASSUME Typed, NodeTypeOK, NEW w, NEW x \in {"active", "archived"}
  PROVE  LatestSets(w, x) <=> StatusOf(w) = x
<1> DEFINE metas == {a \in store : a.world = w /\ a.status # "none"}
           latest == CHOOSE a \in metas : \A b \in metas : b.id <= a.id
<1>1. CASE metas = {}
  <2>1. StatusOf(w) = "none"
    BY <1>1 DEF StatusOf
  <2>2. ~LatestSets(w, x)
    BY <1>1 DEF LatestSets
  <2> QED
    BY <2>1, <2>2
<1>2. CASE metas # {}
  <2> DEFINE numbers == {a.id : a \in metas}
  <2>1. numbers \subseteq 0..ids /\ numbers # {} /\ ids \in Nat
    BY <1>2 DEF Typed, NodeTypeOK
  <2>2. \E most \in numbers : \A m \in numbers : m <= most
    <3> HIDE DEF numbers
    <3> QED
      BY <2>1, LargestNumber
  <2>3. \E a \in metas : \A b \in metas : b.id <= a.id
    BY <2>2
  <2>4. latest \in metas /\ \A b \in metas : b.id <= latest.id
    BY <2>3
  <2>5. StatusOf(w) = latest.status
    BY <1>2 DEF StatusOf
  <2> HIDE DEF latest
  <2>6. \A a \in store : a.id \in Nat /\ a.status \in {"none", "active", "archived"}
    BY DEF Typed, AtomRecords
  <2>7. ASSUME latest.status = x
        PROVE  LatestSets(w, x)
    <3>1. \A b \in store : b.world = w /\ b.status \in Undoing(x) =>
            b \in metas /\ b # latest
      BY <2>7 DEF Undoing
    <3>2. \A b \in store : b # latest => b.id # latest.id
      BY <2>4 DEF NodeTypeOK
    <3> QED
      BY <2>4, <2>6, <2>7, <3>1, <3>2 DEF LatestSets
  <2>8. ASSUME LatestSets(w, x), latest.status # x
        PROVE  FALSE
    <3>1. PICK a \in store : /\ a.world = w /\ a.status = x
                             /\ \A b \in store : b.world = w /\ b.status \in Undoing(x) => b.id < a.id
      BY <2>8 DEF LatestSets
    <3>2. latest \in store /\ latest.world = w /\ latest.status \in Undoing(x)
      BY <2>4, <2>6, <2>8 DEF Undoing
    <3>3. a \in metas
      BY <3>1
    <3> QED
      BY <2>4, <2>6, <3>1, <3>2, <3>3
  <2> QED
    BY <2>5, <2>7, <2>8
<1> QED
  BY <1>1, <1>2

LEMMA ListInitInv ==
  ASSUME NodeAssumption, NodeInit
  PROVE  ListInv
BY DEF ListInv, UncrossedAlone, AtomsSay, StampsLatest, SettledStands, Busy, NodeInit, Free

(* A call begins: it takes the marks off what it may undo.                 *)
LEMMA BeginsList ==
  ASSUME NodeInv, ListInv, NEW t \in Handler, NEW d \in Doings, Turn(t, d), doing[t] = Free,
         d.pc \in {"stamp", "store", "list"}, Begins(t, d.asked, d.want),
         d.pc = "store" => d.want = "none" /\ d.atom.status = "none" /\ d.atom.id = d.id,
         d.pc = "list" => d.want # "none" /\ LatestSets(d.asked, d.want),
         UNCHANGED <<store, worlds>>
  PROVE  ListInv'
<1>1. /\ doing' \in [Handler -> Doings] /\ doing'[t] = d /\ d # Free
      /\ \A u \in Handler : u # t => doing'[u] = doing[u]
  BY TurnType DEF NodeInv, Typed, Free
<1>2. /\ \A u \in Handler : Busy(u, d.asked) /\ d.want \in Undoing(doing[u].want) => u \in crossed'
      /\ \A u \in Handler : u # t /\ u \in crossed => u \in crossed'
      /\ \A u \in Handler : Busy(u, d.asked) /\ doing[u].want \in Undoing(d.want) => t \in crossed'
  BY DEF Begins, Busy
<1>3. \A w \in WorldName : \A x \in settled'[w] :
        x \in settled[w] /\ (w = d.asked => d.want \notin Undoing(x))
  BY DEF Begins, NodeInv, NodeTypeOK
<1>4. d.want \notin Undoing(d.want)
  BY DEF Undoing
<1>5. UncrossedAlone'
  <2>1. SUFFICES ASSUME NEW v \in Handler, NEW u \in Handler, doing'[v] # Free, Busy(u, doing[v].asked)',
                        v \notin crossed'
                 PROVE  doing'[u].want \notin Undoing(doing'[v].want)
    BY DEF UncrossedAlone
  <2>2. CASE v = t /\ u = t
    BY <1>1, <1>4, <2>2
  <2>3. CASE v = t /\ u # t
    BY <1>1, <1>2, <2>1, <2>3 DEF Busy
  <2>4. CASE v # t /\ u = t
    BY <1>1, <1>2, <2>1, <2>4 DEF Busy
  <2>5. CASE v # t /\ u # t
    BY <1>1, <1>2, <2>1, <2>5 DEF Busy, ListInv, UncrossedAlone
  <2> QED
    BY <2>2, <2>3, <2>4, <2>5
<1>6. AtomsSay'
  BY <1>1 DEF ListInv, AtomsSay
<1>7. \A w, x : LatestSets(w, x)' <=> LatestSets(w, x)
  BY DEF LatestSets
<1>8. StampsLatest'
  BY <1>1, <1>2, <1>7 DEF ListInv, StampsLatest
<1>9. SettledStands'
  <2>1. SUFFICES ASSUME NEW w \in WorldName, NEW x \in settled'[w]
                 PROVE  /\ \A u \in Handler : Busy(u, w)' => doing'[u].want \notin Undoing(x)
                        /\ x # "none" => LatestSets(w, x)
                        /\ x # "archived" => w \in worlds
    BY <1>7 DEF SettledStands
  <2>2. \A u \in Handler : Busy(u, w)' => doing'[u].want \notin Undoing(x)
    BY <1>1, <1>3, <2>1 DEF Busy, ListInv, SettledStands
  <2> QED
    BY <1>3, <2>1, <2>2 DEF ListInv, SettledStands
<1> QED
  BY <1>5, <1>6, <1>8, <1>9 DEF ListInv

LEMMA RememberList ==
  ASSUME NodeAssumption, NodeInv, ListInv, NEW t \in Handler, NEW w, NEW c \in Contents,
         Remember(t, w, c)
  PROVE  ListInv'
<1>1. PICK v \in {w, Quarantine[w]} :
        Turn(t, [pc |-> "store", asked |-> w, want |-> "none",
                 id |-> ids + 1, atom |-> Body(v, c, "none")])
  BY DEF Remember
<1> DEFINE d == [pc |-> "store", asked |-> w, want |-> "none",
                 id |-> ids + 1, atom |-> Body(v, c, "none")]
<1>2. ids \in Nat /\ w \in WorldName /\ v \in WorldName
  BY DEF Remember, NodeAssumption, NodeInv, Typed
<1>3. Body(v, c, "none") \in AtomRecords /\ Body(v, c, "none").id = ids + 1
  BY <1>2, BodyType
<1>4. d \in Doings
  BY <1>2, <1>3 DEF Doings
<1>5. /\ d.pc = "store" /\ d.want = "none" /\ d.asked = w
      /\ d.atom.status = "none" /\ d.atom.id = d.id
  BY <1>3 DEF Body
<1> HIDE DEF d
<1> QED
  BY <1>1, <1>4, <1>5, BeginsList DEF Remember, d

LEMMA ManageList ==
  ASSUME NodeAssumption, NodeInv, ListInv, NEW t \in Handler, NEW w \in Writable,
         NEW want \in {"active", "archived"}, Manage(t, w, want)
  PROVE  ListInv'
<1>1. PICK plain \in {TRUE, want = "archived"} :
        Turn(t, [pc |-> IF plain /\ StatusOf(w) = want THEN "list" ELSE "stamp",
                 asked |-> w, want |-> want, id |-> 0])
  BY DEF Manage
<1> DEFINE d == [pc |-> IF plain /\ StatusOf(w) = want THEN "list" ELSE "stamp",
                 asked |-> w, want |-> want, id |-> 0]
<1>2. d \in Doings
  BY DEF Doings, NodeAssumption
<1>3. d.pc = "list" => LatestSets(w, want)
  BY LatestIsStatus DEF NodeInv
<1>4. d.pc \in {"stamp", "list"} /\ d.want = want /\ d.asked = w
  OBVIOUS
<1> HIDE DEF d
<1> QED
  BY <1>1, <1>2, <1>3, <1>4, BeginsList DEF Manage, d

(* A call goes on, or ends without an answer: the store and the list stay. *)
LEMMA TurnList ==
  ASSUME NodeInv, ListInv, NEW t \in Handler, NEW d \in Doings, Turn(t, d),
         d = Free \/ (doing[t] # Free /\ d.asked = doing[t].asked /\ d.want = doing[t].want),
         crossed' = IF d = Free THEN crossed \ {t} ELSE crossed,
         UNCHANGED <<store, worlds, settled>>,
         d.pc = "store" =>
           /\ d.atom.status = d.want /\ d.atom.id = d.id
           /\ d.want # "none" => d.atom.world = d.asked
           /\ \A b \in store : b.id < d.id,
         d.pc \in {"publish", "list"} => doing[t].pc \in {"publish", "list"}
  PROVE  ListInv'
<1>1. /\ doing' \in [Handler -> Doings] /\ doing'[t] = d /\ Free.pc = "idle"
      /\ \A u \in Handler : u # t => doing'[u] = doing[u]
  BY TurnType DEF NodeInv, Typed, Free
<1>2. \A u \in Handler : doing'[u] # Free =>
        /\ doing[u] # Free
        /\ doing'[u].asked = doing[u].asked /\ doing'[u].want = doing[u].want
        /\ u \in crossed' <=> u \in crossed
  BY <1>1
<1>3. UncrossedAlone'
  BY <1>2 DEF ListInv, UncrossedAlone, Busy
<1>4. AtomsSay'
  BY <1>1 DEF ListInv, AtomsSay
<1>5. \A w, x : LatestSets(w, x)' <=> LatestSets(w, x)
  BY DEF LatestSets
<1>6. StampsLatest'
  <2>1. SUFFICES ASSUME NEW u \in Handler \ crossed', doing'[u].pc # "idle", doing'[u].want # "none"
        PROVE  /\ doing'[u].pc = "store" =>
                    \A b \in store :
                      b.world = doing'[u].asked /\ b.status \in Undoing(doing'[u].want) =>
                        b.id < doing'[u].id
               /\ doing'[u].pc \in {"publish", "list"} =>
                    LatestSets(doing'[u].asked, doing'[u].want)
    BY <1>5 DEF StampsLatest
  <2>2. CASE u # t
    BY <1>1, <1>2, <2>1, <2>2 DEF ListInv, StampsLatest
  <2>3. CASE u = t
    BY <1>1, <1>2, <2>1, <2>3 DEF ListInv, StampsLatest
  <2> QED
    BY <2>2, <2>3
<1>7. SettledStands'
  BY <1>2, <1>5 DEF ListInv, SettledStands, Busy
<1> QED
  BY <1>3, <1>4, <1>6, <1>7 DEF ListInv

LEMMA StampList ==
  ASSUME NodeAssumption, NodeInv, ListInv, NEW t \in Handler, Stamp(t)
  PROVE  ListInv'
<1> DEFINE d == [pc |-> "store", asked |-> doing[t].asked, want |-> doing[t].want,
                 id |-> ids + 1, atom |-> Body(doing[t].asked, MetaContent, doing[t].want)]
<1>1. /\ ids \in Nat /\ doing[t].asked \in WorldName /\ doing[t] # Free
      /\ doing[t].want \in {"none", "active", "archived"}
  BY DoingKinds DEF Stamp, NodeInv, Typed, Free
<1>2. /\ Body(doing[t].asked, MetaContent, doing[t].want) \in AtomRecords
      /\ Body(doing[t].asked, MetaContent, doing[t].want).id = ids + 1
  BY <1>1, BodyType
<1>3. d \in Doings
  BY <1>1, <1>2 DEF Doings
<1>4. /\ d.pc = "store" /\ d.asked = doing[t].asked /\ d.want = doing[t].want /\ d # Free
      /\ d.atom.status = d.want /\ d.atom.id = d.id /\ d.atom.world = d.asked
  BY <1>2 DEF Body, Free
<1>5. \A b \in store : b.id < d.id
  BY <1>1 DEF NodeInv, NodeTypeOK
<1>6. Turn(t, d) /\ UNCHANGED <<store, worlds, shown>>
  BY DEF Stamp
<1> HIDE DEF d
<1> QED
  BY <1>1, <1>3, <1>4, <1>5, <1>6, TurnList DEF shown

LEMMA PublishStoredList ==
  ASSUME NodeAssumption, NodeInv, ListInv, NEW t \in Handler, PublishStored(t)
  PROVE  ListInv'
<1> DEFINE d == [doing[t] EXCEPT !.pc = "list"]
<1>1. /\ doing[t].pc = "publish" /\ doing[t] # Free
      /\ doing[t] \in [pc : {"store", "publish", "list"}, asked : WorldName,
                       want : {"none", "active", "archived"}, id : Nat \ {0},
                       atom : AtomRecords]
  BY DoingKinds DEF PublishStored, NodeInv, Typed, Free
<1>2. d \in Doings /\ d.pc = "list" /\ d.asked = doing[t].asked /\ d.want = doing[t].want
  BY <1>1 DEF Doings
<1>3. Turn(t, d) /\ UNCHANGED <<store, worlds, shown>>
  BY DEF PublishStored
<1> HIDE DEF d
<1>4. d # Free
  BY <1>2 DEF Free
<1> QED
  BY <1>1, <1>2, <1>3, <1>4, TurnList DEF shown

LEMMA AbandonList ==
  ASSUME NodeAssumption, NodeInv, ListInv, NEW t \in Handler, Abandon(t)
  PROVE  ListInv'
<1>1. Free \in Doings /\ Free.pc = "idle"
  BY DEF Doings, Free
<1> QED
  BY <1>1, TurnList DEF Abandon

(* The append: what it sets or undoes is nothing that is settled, and      *)
(* nothing that a call beside it waits for uncrossed.                      *)
LEMMA StoreAtomList ==
  ASSUME NodeAssumption, NodeInv, ListInv, NEW t \in Handler, StoreAtom(t)
  PROVE  ListInv'
<1> DEFINE d == [doing[t] EXCEPT !.pc = "publish"]
           a == doing[t].atom
<1>1. /\ doing[t].pc = "store" /\ doing[t] # Free
      /\ doing[t] \in [pc : {"store", "publish", "list"}, asked : WorldName,
                       want : {"none", "active", "archived"}, id : Nat \ {0},
                       atom : AtomRecords]
  BY DoingKinds DEF StoreAtom, NodeInv, Typed, Free
<1>2. /\ d \in Doings /\ d.pc = "publish" /\ d.asked = doing[t].asked /\ d.want = doing[t].want
      /\ d # Free
  BY <1>1 DEF Doings, Free
<1>3. /\ Turn(t, d) /\ store' = store \cup {a} /\ UNCHANGED <<worlds, crossed, settled>>
  BY DEF StoreAtom, shown
<1>4. /\ a.status = doing[t].want /\ a.id = doing[t].id
      /\ doing[t].want # "none" => a.world = doing[t].asked
  BY <1>1 DEF ListInv, AtomsSay
<1> HIDE DEF d
<1>5. /\ doing' \in [Handler -> Doings] /\ doing'[t] = d
      /\ \A u \in Handler : u # t => doing'[u] = doing[u]
  BY <1>2, <1>3, TurnType DEF NodeInv, Typed
<1>6. \A u \in Handler : /\ doing'[u] # Free <=> doing[u] # Free
                         /\ doing'[u].asked = doing[u].asked /\ doing'[u].want = doing[u].want
  BY <1>1, <1>2, <1>5
<1>7. UncrossedAlone'
  BY <1>3, <1>6 DEF ListInv, UncrossedAlone, Busy
<1>8. AtomsSay'
  BY <1>2, <1>5 DEF ListInv, AtomsSay
<1>9. ASSUME NEW w, NEW x, LatestSets(w, x),
             Busy(t, w) => doing[t].want \notin Undoing(x)
      PROVE  \E a1 \in store' : /\ a1.world = w /\ a1.status = x
               /\ \A b \in store' : b.world = w /\ b.status \in Undoing(x) => b.id < a1.id
  <2>1. ~(a.world = w /\ a.status \in Undoing(x))
    <3>1. "none" \notin Undoing(x)
      BY DEF Undoing
    <3> QED
      BY <1>1, <1>4, <1>9, <3>1 DEF Busy
  <2> QED
    BY <1>3, <1>9, <2>1 DEF LatestSets
<1>10. StampsLatest'
  <2>1. SUFFICES ASSUME NEW u \in Handler \ crossed, doing'[u].pc # "idle", doing'[u].want # "none"
        PROVE  /\ doing'[u].pc = "store" =>
                    \A b \in store' :
                      b.world = doing'[u].asked /\ b.status \in Undoing(doing'[u].want) =>
                        b.id < doing'[u].id
               /\ doing'[u].pc \in {"publish", "list"} =>
                    LatestSets(doing[u].asked, doing[u].want)'
    BY <1>3 DEF StampsLatest
  <2>2. CASE u = t
    <3>1. \A b \in store : b.world = doing[t].asked /\ b.status \in Undoing(doing[t].want) =>
            b.id < a.id
      BY <1>1, <1>4, <1>6, <2>1, <2>2 DEF ListInv, StampsLatest
    <3>2. a.status \notin Undoing(doing[t].want)
      BY <1>4 DEF Undoing
    <3>3. LatestSets(doing[t].asked, doing[t].want)'
      <4>1. /\ a \in store' /\ a.world = doing[t].asked /\ a.status = doing[t].want
            /\ \A b \in store' : b.world = doing[t].asked /\ b.status \in Undoing(doing[t].want) =>
                 b.id < a.id
        BY <1>3, <1>4, <1>6, <2>1, <2>2, <3>1, <3>2
      <4> QED
        BY <1>6, <4>1 DEF LatestSets
    <3> QED
      BY <1>2, <1>5, <2>2, <3>3
  <2>3. CASE u # t
    <3>1. doing'[u] = doing[u] /\ doing[u] # Free
      BY <1>5, <2>1, <2>3 DEF Free
    <3>2. Busy(t, doing[u].asked) => doing[t].want \notin Undoing(doing[u].want)
      BY <2>1, <3>1 DEF ListInv, UncrossedAlone
    <3>3. ASSUME doing[u].pc = "store", NEW b \in store', b.world = doing[u].asked,
                 b.status \in Undoing(doing[u].want)
          PROVE  b.id < doing[u].id
      <4>1. b # a
        <5>1. "none" \notin Undoing(doing[u].want)
          BY DEF Undoing
        <5> QED
          BY <1>1, <1>4, <3>2, <3>3, <5>1 DEF Busy
      <4> QED
        BY <1>3, <2>1, <3>1, <3>3, <4>1 DEF ListInv, StampsLatest
    <3>4. doing[u].pc \in {"publish", "list"} => LatestSets(doing[u].asked, doing[u].want)'
      <4> DEFINE v == doing[u].asked
                 x == doing[u].want
      <4>1. doing[u].pc \in {"publish", "list"} => LatestSets(doing[u].asked, doing[u].want)
        BY <2>1, <3>1 DEF ListInv, StampsLatest
      <4>2. ASSUME doing[u].pc \in {"publish", "list"}
            PROVE  \E a1 \in store' : /\ a1.world = v /\ a1.status = x
                     /\ \A b \in store' : b.world = v /\ b.status \in Undoing(x) => b.id < a1.id
        BY <1>9, <3>2, <4>1, <4>2
      <4> QED
        BY <1>6, <4>2 DEF LatestSets
    <3> QED
      BY <3>1, <3>3, <3>4
  <2> QED
    BY <2>2, <2>3
<1>11. SettledStands'
  <2>1. SUFFICES ASSUME NEW w \in WorldName, NEW x \in settled[w]
                 PROVE  /\ \A u \in Handler : Busy(u, w)' => doing'[u].want \notin Undoing(x)
                        /\ x # "none" => LatestSets(w, x)'
                        /\ x # "archived" => w \in worlds
    BY <1>3 DEF SettledStands
  <2>2. \A u \in Handler : Busy(u, w)' => doing'[u].want \notin Undoing(x)
    BY <1>6, <2>1 DEF Busy, ListInv, SettledStands
  <2>3. x # "none" => LatestSets(w, x)'
    <3>1. /\ x # "none" => LatestSets(w, x)
          /\ Busy(t, w) => doing[t].want \notin Undoing(x)
      BY <2>1 DEF ListInv, SettledStands
    <3> QED
      BY <1>9, <3>1 DEF LatestSets
  <2> QED
    BY <2>1, <2>2, <2>3 DEF ListInv, SettledStands
<1> QED
  BY <1>7, <1>8, <1>10, <1>11 DEF ListInv

(* The last step of a handler settles what it did, unless it was crossed.  *)
LEMMA UpdateListList ==
  ASSUME NodeAssumption, NodeInv, ListInv, NEW t \in Handler, UpdateList(t)
  PROVE  ListInv'
<1> DEFINE w == doing[t].asked
           want == doing[t].want
<1>1. /\ doing[t].pc = "list" /\ doing[t] # Free /\ w \in WorldName
      /\ want \in {"none", "active", "archived"}
  BY DEF UpdateList, NodeInv, Typed, Doings, Free
<1>2. /\ Turn(t, Free) /\ store' = store /\ crossed' = crossed \ {t}
      /\ worlds' = IF want = "archived" THEN worlds \ {w} ELSE worlds \cup {w}
      /\ settled' = IF t \in crossed THEN settled
                    ELSE [settled EXCEPT ![w] = @ \cup {want}]
  BY DEF UpdateList, Pushed
<1>3. /\ doing'[t] = Free /\ Free.pc = "idle"
      /\ \A u \in Handler : u # t => doing'[u] = doing[u]
  <2>1. Free \in Doings
    BY DEF Doings
  <2> QED
    BY <1>2, <2>1, TurnType DEF NodeInv, Typed, Free
<1>4. UncrossedAlone' /\ AtomsSay'
  BY <1>2, <1>3 DEF ListInv, UncrossedAlone, AtomsSay, Busy
<1>5. \A v, x : LatestSets(v, x)' <=> LatestSets(v, x)
  BY <1>2 DEF LatestSets
<1>6. StampsLatest'
  BY <1>2, <1>3, <1>5 DEF ListInv, StampsLatest
<1>7. SettledStands'
  <2>1. SUFFICES ASSUME NEW v \in WorldName, NEW x \in settled'[v]
                 PROVE  /\ \A u \in Handler : Busy(u, v)' => doing'[u].want \notin Undoing(x)
                        /\ x # "none" => LatestSets(v, x)
                        /\ x # "archived" => v \in worlds'
    BY <1>5 DEF SettledStands
  <2>2. \A u \in Handler : Busy(u, v)' => u # t /\ Busy(u, v) /\ doing'[u] = doing[u]
    BY <1>3 DEF Busy
  <2>3. CASE x \in settled[v]
    <3>1. /\ \A u \in Handler : Busy(u, v) => doing[u].want \notin Undoing(x)
          /\ x # "none" => LatestSets(v, x)
          /\ x # "archived" => v \in worlds
      BY <2>3 DEF ListInv, SettledStands
    <3>2. x # "archived" /\ v = w => want # "archived"
      BY <1>1, <3>1 DEF Busy, Undoing
    <3> QED
      BY <1>2, <2>2, <3>1, <3>2
  <2>4. CASE x \notin settled[v]
    <3>1. t \notin crossed /\ v = w /\ x = want
      BY <1>1, <1>2, <2>1, <2>4 DEF NodeInv, NodeTypeOK
    <3>2. \A u \in Handler : Busy(u, v) => doing[u].want \notin Undoing(x)
      BY <1>1, <3>1 DEF ListInv, UncrossedAlone
    <3>3. x # "none" => LatestSets(v, x)
      BY <1>1, <3>1 DEF ListInv, StampsLatest
    <3>4. x # "archived" => v \in worlds'
      BY <1>2, <3>1
    <3> QED
      BY <2>2, <3>2, <3>3, <3>4
  <2> QED
    BY <2>3, <2>4
<1> QED
  BY <1>4, <1>6, <1>7 DEF ListInv

LEMMA ListStutter ==
  ASSUME ListInv, UNCHANGED <<store, worlds, doing, crossed, settled>>
  PROVE  ListInv'
<1>1. (\A v, x : LatestSets(v, x)' <=> LatestSets(v, x)) /\ (\A u, v : Busy(u, v)' <=> Busy(u, v))
  BY DEF LatestSets, Busy
<1> QED
  BY <1>1 DEF ListInv, UncrossedAlone, AtomsSay, StampsLatest, SettledStands

LEMMA ListStep ==
  ASSUME NodeAssumption, NodeInv, ListInv, [NodeNext]_served
  PROVE  ListInv'
<1>1. CASE \E t \in Handler : \E w \in Writable, c \in Contents : Remember(t, w, c)
  BY <1>1, RememberList
<1>2. CASE \E t \in Handler : \E w \in DOMAIN Policy : SetPolicy(t, w)
  BY <1>2, RememberList DEF SetPolicy
<1>3. CASE \E t \in Handler : \E w \in Writable, want \in {"active", "archived"} :
             Manage(t, w, want)
  BY <1>3, ManageList
<1>4. CASE \E t \in Handler : Stamp(t)
  BY <1>4, StampList
<1>5. CASE \E t \in Handler : StoreAtom(t)
  BY <1>5, StoreAtomList
<1>6. CASE \E t \in Handler : PublishStored(t)
  BY <1>6, PublishStoredList
<1>7. CASE \E t \in Handler : UpdateList(t)
  BY <1>7, UpdateListList
<1>8. CASE \E t \in Handler : Abandon(t)
  BY <1>8, AbandonList
<1>9. CASE Streams \/ (\E h \in DOMAIN subscribers : Replay(h)) \/ UNCHANGED served
  <2>1. UNCHANGED <<store, worlds, doing, crossed, settled>>
    BY <1>9 DEF Streams, Replay, served, shown
  <2> QED
    BY <2>1, ListStutter
<1>10. CASE Restart
  <2>1. /\ doing' = [t \in Handler |-> Free]
        /\ settled' = [w \in WorldName |-> {}]
    BY <1>10 DEF Restart
  <2> QED
    BY <2>1 DEF ListInv, UncrossedAlone, AtomsSay, StampsLatest, SettledStands, Busy, Free
<1> QED
  BY <1>1, <1>2, <1>3, <1>4, <1>5, <1>6, <1>7, <1>8, <1>9, <1>10 DEF NodeNext

(* Until a call that may undo it begins, what a caller was told of a world *)
(* holds in the list: created or resumed it is listed, archived it is not, *)
(* and one remembered into is listed or archived, for any number of        *)
(* handlers and worlds (remember_handler, manage_world_handler,            *)
(* list_worlds_handler).                                                   *)
THEOREM ListedWorldsCorrect ==
  ASSUME NodeAssumption PROVE NodeSpec => []ListedWorlds
<1>1. NodeInit => ListInv
  BY ListInitInv
<1>2. NodeInv /\ ListInv /\ [NodeNext]_served => ListInv'
  BY ListStep
<1>3. NodeInv /\ ListInv => ListedWorlds
  <2>1. SUFFICES ASSUME NodeInv, ListInv, NEW w \in WorldName
                 PROVE  /\ "active" \in settled[w] => w \in Listed
                        /\ "archived" \in settled[w] => w \notin Listed
                        /\ "none" \in settled[w] => w \in Listed \/ world_archived(w)
    BY DEF ListedWorlds
  <2>2. /\ \A x \in settled[w] : x # "none" => LatestSets(w, x)
        /\ \A x \in settled[w] : x # "archived" => w \in worlds
    BY <2>1 DEF ListInv, SettledStands
  <2>3. "active" \in settled[w] => StatusOf(w) = "active"
    BY <2>1, <2>2, LatestIsStatus DEF NodeInv
  <2>4. "archived" \in settled[w] => StatusOf(w) = "archived"
    BY <2>1, <2>2, LatestIsStatus DEF NodeInv
  <2> QED
    BY <2>2, <2>3, <2>4 DEF Listed, worlds_filtered, world_archived
<1> QED
  BY <1>1, <1>2, <1>3, NodeInvariant, PTL DEF NodeSpec

-----------------------------------------------------------------------------
(* Suspicion                                                               *)

(* The first k instants of r were older than the window at a later call.   *)
Outlived(r, k) == \A i \in 1..k : \E j \in 1..Len(r) : r[j] > r[i] + Second

LastKept(w) ==
  /\ recorded[w] \in Seq(Nat)
  /\ \E k \in 0..Len(recorded[w]) :
       /\ suspicions[w] = SubSeq(recorded[w], k + 1, Len(recorded[w]))
       /\ Outlived(recorded[w], k)

(* The verdict is about what was kept up to the call, which is the latest. *)
Verdict(r, c, quarantined) ==
  \E k \in 0..Len(r) :
    /\ k < Len(r) /\ Outlived(r, k) /\ c.instant <= r[k + 1] + Second
    /\ quarantined = should_quarantine(c, Len(r) - k)

SuspicionInv ==
  /\ clock \in Nat /\ entered \in [Submitter -> Judged \cup {NoCall}]
  /\ suspicions \in [WorkerKey -> Seq(Nat)] /\ recorded \in [WorkerKey -> Seq(Nat)]
  /\ \A w \in WorkerKey : LastKept(w)
  /\ judged # NoCall =>
       /\ judged.call \in Judged
       /\ Verdict(recorded[judged.call.worker], judged.call, judged.quarantined)

(* What is kept is the end of all that is recorded.                        *)
KeptEnd(kept, all, instant) ==
  \E h \in 0..Len(all) :
    /\ kept = SubSeq(all, h + 1, Len(all)) /\ kept \in Seq(Nat) /\ Len(kept) = Len(all) - h
    /\ Outlived(all, h) /\ h < Len(all) /\ instant <= all[h + 1] + Second

(* Kept drops from the front, and what it leaves first is in the window.   *)
LEMMA KeptIs ==
  ASSUME SuspicionAssumption, NEW s \in Seq(Nat), NEW instant \in Nat
  PROVE  \E g \in 0..Len(s) :
           /\ Kept(s, instant) = SubSeq(s, g + 1, Len(s))
           /\ \A i \in 1..g : instant > s[i] + Second
           /\ g < Len(s) => instant <= s[g + 1] + Second
<1> DEFINE gone == {n \in 0..Len(s) : \A i \in 1..n : instant > s[i] + Second}
           g == CHOOSE n \in gone : \A m \in gone : m <= n
<1>1. Len(s) \in Nat /\ Second \in Nat /\ \A i \in 1..Len(s) : s[i] \in Nat
  BY DEF SuspicionAssumption
<1>2. gone \subseteq 0..Len(s) /\ 0 \in gone
  BY <1>1
<1>3. \E n \in gone : \A m \in gone : m <= n
  <2> HIDE DEF gone
  <2> QED
    BY <1>1, <1>2, LargestNumber, Zenon
<1>4. g \in gone /\ \A m \in gone : m <= g
  <2> HIDE DEF gone
  <2> QED
    BY <1>3
<1>5. Kept(s, instant) = SubSeq(s, 1 + g, Len(s))
  BY DEF Kept
<1> HIDE DEF g
<1>6. g \in 0..Len(s) /\ \A i \in 1..g : instant > s[i] + Second
  BY <1>4
<1>7. ASSUME g < Len(s), ~(instant <= s[g + 1] + Second)
      PROVE  FALSE
  <2>1. g + 1 \in 1..Len(s) /\ instant > s[g + 1] + Second
    BY <1>1, <1>6, <1>7
  <2>2. \A i \in 1..(g + 1) : instant > s[i] + Second
    BY <1>6, <2>1
  <2>3. g + 1 \in gone
    BY <1>1, <2>1, <2>2
  <2> QED
    BY <1>4, <1>6, <2>3
<1>8. 1 + g = g + 1
  BY <1>6
<1> QED
  BY <1>5, <1>6, <1>7, <1>8

(* A call is recorded behind the others, and what is kept is an end again. *)
LEMMA Recorded ==
  ASSUME SuspicionAssumption, NEW r \in Seq(Nat), NEW k \in 0..Len(r), Outlived(r, k),
         NEW instant \in Nat
  PROVE  KeptEnd(Kept(Append(SubSeq(r, k + 1, Len(r)), instant), instant),
                 Append(r, instant), instant)
<1> DEFINE s == SubSeq(r, k + 1, Len(r))
           t == Append(s, instant)
           longer == Append(r, instant)
<1>1. Len(r) \in Nat /\ Second \in Nat /\ \A i \in 1..Len(r) : r[i] \in Nat
  BY DEF SuspicionAssumption
<1>2. /\ s \in Seq(Nat) /\ Len(s) = Len(r) - k
      /\ \A i \in 1..Len(s) : s[i] = r[k + i]
  <2>1. /\ k + 1 \in Int /\ Len(r) \in Int /\ \A i \in (k + 1)..Len(r) : r[i] \in Nat
    BY <1>1
  <2>2. /\ s \in Seq(Nat) /\ Len(s) = IF k + 1 <= Len(r) THEN Len(r) - (k + 1) + 1 ELSE 0
        /\ \A i \in 1..(Len(r) - (k + 1) + 1) : s[i] = r[(k + 1) + i - 1]
    BY <2>1, SubSeqProperties
  <2>3. Len(s) = Len(r) - k
    BY <1>1, <2>2
  <2>4. \A i \in 1..Len(s) : (k + 1) + i - 1 = k + i /\ i \in 1..(Len(r) - (k + 1) + 1)
    BY <1>1, <2>3
  <2> HIDE DEF s
  <2> QED
    BY <2>2, <2>3, <2>4
<1> HIDE DEF s
<1>3. /\ longer \in Seq(Nat) /\ Len(longer) = Len(r) + 1 /\ longer[Len(longer)] = instant
      /\ \A i \in 1..Len(r) : longer[i] = r[i]
      /\ \A i \in 1..Len(longer) : longer[i] \in Nat
  BY <1>1
<1>4. /\ t \in Seq(Nat) /\ Len(t) = Len(s) + 1
      /\ \A i \in 1..Len(t) : t[i] = longer[k + i]
  <2>1. /\ t \in Seq(Nat) /\ Len(t) = Len(s) + 1 /\ t[Len(s) + 1] = instant
        /\ \A i \in 1..Len(s) : t[i] = s[i]
    BY <1>2
  <2>2. k + (Len(s) + 1) = Len(longer)
    BY <1>1, <1>2, <1>3
  <2>3. ASSUME NEW i \in 1..Len(t)
        PROVE  t[i] = longer[k + i]
    <3>1. CASE i = Len(s) + 1
      BY <1>3, <2>1, <2>2, <3>1
    <3>2. CASE i \in 1..Len(s)
      <4>1. k + i \in 1..Len(r)
        BY <1>1, <1>2, <3>2
      <4> QED
        BY <1>2, <1>3, <2>1, <3>2, <4>1
    <3>3. i \in 1..Len(s) \/ i = Len(s) + 1
      <4>1. Len(t) = Len(s) + 1 /\ Len(s) \in Nat /\ i \in 1..Len(t)
        BY <1>1, <1>2, <2>1
      <4> HIDE DEF t, longer
      <4> QED
        BY <4>1
    <3> QED
      BY <3>1, <3>2, <3>3
  <2> QED
    BY <2>1, <2>3
<1> HIDE DEF longer, t
<1>5. PICK g \in 0..Len(t) : /\ Kept(t, instant) = SubSeq(t, g + 1, Len(t))
                             /\ \A i \in 1..g : instant > t[i] + Second
                             /\ g < Len(t) => instant <= t[g + 1] + Second
  BY <1>4, KeptIs
<1>6. g < Len(t)
  <2>1. Len(t) \in 1..Len(t) /\ k + Len(t) = Len(longer)
    BY <1>1, <1>2, <1>3, <1>4
  <2>2. t[Len(t)] = instant
    BY <1>3, <1>4, <2>1
  <2>3. instant <= t[Len(t)] + Second
    BY <1>1, <2>2
  <2>4. Len(t) \notin 1..g
    <3>1. \A i \in 1..g : ~(instant <= t[i] + Second)
      <4>1. \A i \in 1..g : i \in 1..Len(t) /\ t[i] \in Nat
        BY <1>4, <1>5
      <4> QED
        BY <1>1, <1>5, <4>1
    <3> QED
      BY <2>3, <3>1
  <2> QED
    BY <1>5, <2>1, <2>4
<1> DEFINE h == k + g
           kept == Kept(t, instant)
<1>7. h \in 0..Len(longer) /\ h < Len(longer) /\ Len(t) - g = Len(longer) - h
  BY <1>1, <1>2, <1>3, <1>4, <1>6
<1>8. /\ kept \in Seq(Nat) /\ Len(kept) = Len(t) - g
      /\ \A i \in 1..Len(kept) : kept[i] = longer[h + i]
  <2>1. /\ g + 1 \in Int /\ Len(t) \in Int /\ \A i \in (g + 1)..Len(t) : t[i] \in Nat
    BY <1>4, <1>5
  <2>2. /\ kept \in Seq(Nat)
        /\ Len(kept) = IF g + 1 <= Len(t) THEN Len(t) - (g + 1) + 1 ELSE 0
        /\ \A i \in 1..(Len(t) - (g + 1) + 1) : kept[i] = t[(g + 1) + i - 1]
    <3> HIDE DEF kept
    <3>1. kept = SubSeq(t, g + 1, Len(t))
      BY <1>5 DEF kept
    <3> QED
      BY <2>1, <3>1, SubSeqProperties
  <2>3. Len(kept) = Len(t) - g
    BY <1>4, <1>6, <2>2
  <2>4. ASSUME NEW i \in 1..Len(kept)
        PROVE  kept[i] = longer[h + i]
    <3>1. i \in 1..(Len(t) - g) /\ Len(t) \in Nat /\ g \in Nat
      BY <1>4, <2>3
    <3>2. /\ (g + 1) + i - 1 = g + i /\ i \in 1..(Len(t) - (g + 1) + 1)
          /\ g + i \in 1..Len(t) /\ k + (g + i) = h + i
      BY <3>1
    <3>3. kept[i] = t[g + i]
      <4> HIDE DEF kept
      <4> QED
        BY <2>2, <3>2
    <3> HIDE DEF kept, h
    <3> QED
      BY <1>4, <3>2, <3>3
  <2> HIDE DEF kept, h
  <2> QED
    BY <2>2, <2>3, <2>4
<1>9. kept = SubSeq(longer, h + 1, Len(longer))
  <2> DEFINE u == SubSeq(longer, h + 1, Len(longer))
  <2>1. /\ h + 1 \in Int /\ Len(longer) \in Int /\ \A i \in (h + 1)..Len(longer) : longer[i] \in Nat
    BY <1>3, <1>7
  <2>2. /\ u \in Seq(Nat) /\ Len(u) = IF h + 1 <= Len(longer) THEN Len(longer) - (h + 1) + 1 ELSE 0
        /\ \A i \in 1..(Len(longer) - (h + 1) + 1) : u[i] = longer[(h + 1) + i - 1]
    <3> HIDE DEF h
    <3> QED
      BY <2>1, SubSeqProperties
  <2>3. Len(u) = Len(kept)
    BY <1>3, <1>7, <1>8, <2>2
  <2>4. \A i \in 1..Len(u) : (h + 1) + i - 1 = h + i /\ i \in 1..(Len(longer) - (h + 1) + 1)
    BY <1>3, <1>7, <2>2
  <2> HIDE DEF kept, h, u
  <2>5. \A i \in 1..Len(u) : u[i] = kept[i]
    BY <1>8, <2>2, <2>3, <2>4
  <2>6. kept = u
    BY <1>8, <2>2, <2>3, <2>5, SeqEqual, Zenon
  <2> QED
    BY <2>6 DEF u
<1>10. Outlived(longer, h)
  <2>1. SUFFICES ASSUME NEW i \in 1..h
                 PROVE  \E j \in 1..Len(longer) : longer[j] > longer[i] + Second
    BY DEF Outlived
  <2>2. CASE i <= k
    <3>1. i \in 1..k /\ i \in 1..Len(r)
      BY <1>1, <2>2
    <3>2. PICK j \in 1..Len(r) : r[j] > r[i] + Second
      BY <3>1 DEF Outlived
    <3>3. j \in 1..Len(longer) /\ longer[j] = r[j] /\ longer[i] = r[i]
      BY <1>1, <1>3, <3>1, <3>2
    <3> QED
      BY <3>2, <3>3
  <2>3. CASE ~(i <= k)
    <3>1. i - k \in 1..g /\ i - k \in 1..Len(t) /\ k + (i - k) = i
      BY <1>4, <1>5, <2>3
    <3>2. instant > longer[i] + Second
      BY <1>4, <1>5, <3>1
    <3>3. Len(longer) \in 1..Len(longer) /\ longer[Len(longer)] = instant
      BY <1>1, <1>3
    <3> QED
      BY <3>2, <3>3
  <2> QED
    BY <2>2, <2>3
<1>11. instant <= longer[h + 1] + Second
  <2>1. g + 1 \in 1..Len(t) /\ k + (g + 1) = h + 1
    BY <1>4, <1>5, <1>6
  <2>2. instant <= t[g + 1] + Second
    BY <1>5, <1>6
  <2>3. t[g + 1] = longer[k + (g + 1)]
    BY <1>4, <2>1
  <2> HIDE DEF h
  <2> QED
    BY <2>1, <2>2, <2>3
<1>12. Len(kept) = Len(longer) - h
  BY <1>7, <1>8
<1> QED
  BY <1>7, <1>8, <1>9, <1>10, <1>11, <1>12 DEF KeptEnd, longer, t, s

LEMMA SuspicionInitInv == ASSUME SuspicionAssumption, SuspicionInit PROVE SuspicionInv
<1> USE DEF SuspicionInit
<1>1. << >> \in Seq(Nat) /\ Len(<< >>) = 0
  OBVIOUS
<1>2. ASSUME NEW w \in WorkerKey
      PROVE  LastKept(w)
  <2>1. recorded[w] = << >> /\ suspicions[w] = << >>
    BY <1>2
  <2>2. SubSeq(<< >>, 0 + 1, 0) = << >>
    BY SubSeqEmpty
  <2>3. Outlived(<< >>, 0)
    BY DEF Outlived
  <2> QED
    BY <1>1, <2>1, <2>2, <2>3 DEF LastKept
<1> QED
  BY <1>1, <1>2 DEF SuspicionInv

LEMMA SuspicionStep ==
  ASSUME SuspicionAssumption, SuspicionInv, [SuspicionNext]_suspects
  PROVE  SuspicionInv'
<1> USE DEF SuspicionInv
<1>1. CASE UNCHANGED <<suspicions, recorded, judged>>
  <2>1. clock' \in Nat /\ entered' \in [Submitter -> Judged \cup {NoCall}]
    <3>1. CASE SecondPasses
      BY <3>1 DEF SecondPasses
    <3>2. ASSUME NEW t \in Submitter, ReadClock(t)
          PROVE  clock' \in Nat /\ entered' \in [Submitter -> Judged \cup {NoCall}]
      BY <3>2 DEF ReadClock, Judged
    <3>3. ASSUME NEW t \in Submitter, record_suspicion(t)
          PROVE  clock' \in Nat /\ entered' \in [Submitter -> Judged \cup {NoCall}]
      BY <3>3 DEF record_suspicion
    <3> QED
      BY <3>1, <3>2, <3>3 DEF SuspicionNext, suspects
  <2>2. \A w \in WorkerKey : LastKept(w)'
    BY <1>1 DEF LastKept
  <2>3. judged' # NoCall =>
          /\ judged'.call \in Judged
          /\ Verdict(recorded[judged'.call.worker], judged'.call, judged'.quarantined)
    BY <1>1
  <2>4. (\A w \in WorkerKey : LastKept(w))'
    BY <2>2
  <2>5. (judged # NoCall =>
          /\ judged.call \in Judged
          /\ Verdict(recorded[judged.call.worker], judged.call, judged.quarantined))'
    BY <1>1, <2>3
  <2> QED
    BY <1>1, <2>1, <2>4, <2>5
<1>2. ASSUME NEW t \in Submitter, record_suspicion(t)
      PROVE  SuspicionInv'
  <2> DEFINE c == entered[t]
             w == c.worker
             kept == Kept(Append(suspicions[w], c.instant), c.instant)
             longer == Append(recorded[w], c.instant)
  <2>1. /\ c # NoCall /\ clock' = clock
        /\ suspicions' = [suspicions EXCEPT ![w] = kept]
        /\ recorded' = [recorded EXCEPT ![w] = longer]
        /\ judged' = [call |-> c, quarantined |-> should_quarantine(c, Len(kept))]
        /\ entered' = [entered EXCEPT ![t] = NoCall]
    BY <1>2 DEF record_suspicion
  <2>2. c \in Judged /\ w \in WorkerKey /\ c.instant \in Nat
    BY <2>1 DEF Judged
  <2>3. PICK k \in 0..Len(recorded[w]) :
          /\ suspicions[w] = SubSeq(recorded[w], k + 1, Len(recorded[w]))
          /\ Outlived(recorded[w], k)
    BY <2>2 DEF LastKept
  <2>4. PICK h \in 0..Len(longer) :
          /\ kept = SubSeq(longer, h + 1, Len(longer))
          /\ kept \in Seq(Nat) /\ Len(kept) = Len(longer) - h
          /\ Outlived(longer, h) /\ h < Len(longer) /\ c.instant <= longer[h + 1] + Second
    <3>1. recorded[w] \in Seq(Nat)
      BY <2>2
    <3>2. c.instant \in Nat
      BY <2>2
    <3>3. \A r \in Seq(Nat), i \in Nat : \A j \in 0..Len(r) : \A e :
            Outlived(r, j) /\ e = SubSeq(r, j + 1, Len(r)) =>
              KeptEnd(Kept(Append(e, i), i), Append(r, i), i)
      BY Recorded
    <3> HIDE DEF c, w
    <3>4. KeptEnd(kept, longer, c.instant)
      BY <2>3, <3>1, <3>2, <3>3
    <3> QED
      BY <3>4 DEF KeptEnd
  <2>5. longer \in Seq(Nat)
    BY <2>2
  <2> HIDE DEF kept, longer
  <2>6. recorded'[w] = longer /\ suspicions'[w] = kept
    BY <2>1, <2>2
  <2>7. ASSUME NEW v \in WorkerKey
        PROVE  LastKept(v)'
    <3>1. CASE v = w
      <4>1. /\ recorded'[v] \in Seq(Nat)
            /\ \E i \in 0..Len(recorded'[v]) :
                 /\ suspicions'[v] = SubSeq(recorded'[v], i + 1, Len(recorded'[v]))
                 /\ Outlived(recorded'[v], i)
        BY <2>4, <2>5, <2>6, <3>1
      <4> QED
        BY <4>1 DEF LastKept, Outlived
    <3>2. CASE v # w
      <4>1. recorded'[v] = recorded[v] /\ suspicions'[v] = suspicions[v]
        BY <2>1, <3>2
      <4> QED
        BY <4>1 DEF LastKept, Outlived
    <3> QED
      BY <3>1, <3>2
  <2>8. /\ judged'.call \in Judged
        /\ Verdict(recorded'[judged'.call.worker], judged'.call, judged'.quarantined)
    <3>1. judged'.call = c /\ judged'.quarantined = should_quarantine(c, Len(longer) - h)
      BY <2>1, <2>4
    <3>2. Verdict(longer, c, should_quarantine(c, Len(longer) - h))
      BY <2>4 DEF Verdict
    <3> QED
      BY <2>2, <2>6, <3>1, <3>2
  <2>9. suspicions' \in [WorkerKey -> Seq(Nat)] /\ recorded' \in [WorkerKey -> Seq(Nat)]
    BY <2>1, <2>2, <2>4, <2>5
  <2>10. clock' \in Nat /\ entered' \in [Submitter -> Judged \cup {NoCall}]
    BY <2>1
  <2>11. (\A v \in WorkerKey : LastKept(v))'
    BY <2>7
  <2>12. (judged # NoCall =>
           /\ judged.call \in Judged
           /\ Verdict(recorded[judged.call.worker], judged.call, judged.quarantined))'
    BY <2>8 DEF Verdict, Outlived
  <2> QED
    BY <2>9, <2>10, <2>11, <2>12
<1>3. SecondPasses \/ (\E t \in Submitter : ReadClock(t)) \/ UNCHANGED suspects
        => UNCHANGED <<suspicions, recorded, judged>>
  BY DEF SecondPasses, ReadClock, suspects
<1> QED
  BY <1>1, <1>2, <1>3 DEF SuspicionNext

LEMMA SuspicionInvariant == ASSUME SuspicionAssumption PROVE SuspicionSpec => []SuspicionInv
<1>1. SuspicionInit => SuspicionInv
  BY SuspicionInitInv
<1>2. SuspicionInv /\ [SuspicionNext]_suspects => SuspicionInv'
  BY SuspicionStep
<1> QED
  BY <1>1, <1>2, PTL DEF SuspicionSpec

(* What is kept of a worker's calls is always the end of what was          *)
(* recorded of them (record_suspicion).                                    *)
THEOREM SuspicionTypeCorrect ==
  ASSUME SuspicionAssumption PROVE SuspicionSpec => []SuspicionTypeOK
<1>1. SuspicionInv => SuspicionTypeOK
  BY DEF SuspicionInv, SuspicionTypeOK, LastKept
<1> QED
  BY <1>1, SuspicionInvariant, PTL

(* For any window, limit and number of threads, in whatever order these    *)
(* take the lock: nobody is quarantined for a rate that was not exceeded,  *)
(* and who exceeds it within one second is.                                *)
THEOREM SpamCaughtCorrect ==
  ASSUME SuspicionAssumption PROVE SuspicionSpec => []SpamCaught
<1>1. SuspicionInv => SpamCaught
  <2> DEFINE c == judged.call
             r == recorded[c.worker]
             n == Len(r)
             Latest(i) == \A j \in 1..n : r[j] <= r[i] + Second
             Last == {i \in 1..n : Latest(i)}
  <2>1. SUFFICES ASSUME SuspicionInv, judged # NoCall
                 PROVE  /\ Cardinality(Last) > Limit => judged.quarantined
                        /\ judged.quarantined /\ c.payload = "plain" /\ ~low_trust(c)
                             => \E i \in 1..n : c.instant <= r[i] + Second /\ n - i + 1 > Limit
    BY DEF SpamCaught
  <2>2. c \in Judged /\ c.worker \in WorkerKey /\ r \in Seq(Nat) /\ n \in Nat
    BY <2>1 DEF SuspicionInv, Judged
  <2>3. PICK k \in 0..n :
          /\ k < n /\ Outlived(r, k) /\ c.instant <= r[k + 1] + Second
          /\ judged.quarantined = should_quarantine(c, n - k)
    BY <2>1 DEF SuspicionInv, Verdict
  <2>4. Limit \in Nat /\ Second \in Nat /\ \A i \in 1..n : r[i] \in Nat
    BY <2>2 DEF SuspicionAssumption
  <2>5. ASSUME Cardinality(Last) > Limit
        PROVE  judged.quarantined
    <3>1. Last \subseteq (k + 1)..n
      <4>1. ASSUME NEW i \in Last, i <= k
            PROVE  FALSE
        <5>1. PICK j \in 1..n : r[j] > r[i] + Second
          BY <2>2, <2>3, <4>1 DEF Outlived
        <5>2. r[j] <= r[i] + Second
          BY <5>1
        <5>3. r[i] \in Nat /\ r[j] \in Nat /\ Second \in Nat
          BY <2>4, <4>1, <5>1
        <5> HIDE DEF r
        <5> QED
          BY <5>1, <5>2, <5>3
      <4>2. \A i \in Last : i \in 1..n
        OBVIOUS
      <4>3. n \in Nat /\ k \in 0..n
        BY <2>2, <2>3
      <4> HIDE DEF Last, n
      <4>4. ASSUME NEW i \in Last
            PROVE  i \in (k + 1)..n
        BY <4>1, <4>2, <4>3, <4>4
      <4> DEFINE Places == (k + 1)..n
      <4>5. \A i \in Last : i \in Places
        BY <4>4
      <4> HIDE DEF Places
      <4>6. Last \subseteq Places
        BY <4>5
      <4> QED
        BY <4>6 DEF Places
    <3>2. /\ IsFiniteSet((k + 1)..n) /\ Cardinality((k + 1)..n) = n - k
      <4>1. n \in Nat /\ k \in 0..n /\ k < n
        BY <2>2, <2>3
      <4>2. \A a, b \in Int :
              ~(a > b) => IsFiniteSet(a..b) /\ Cardinality(a..b) = b - a + 1
        BY FS_Interval
      <4> HIDE DEF n
      <4>3. k + 1 \in Int /\ n \in Int /\ ~(k + 1 > n) /\ n - (k + 1) + 1 = n - k
        BY <4>1
      <4>4. IsFiniteSet((k + 1)..n) /\ Cardinality((k + 1)..n) = n - (k + 1) + 1
        BY <4>2, <4>3
      <4> QED
        BY <4>3, <4>4
    <3>3. Cardinality(Last) <= n - k /\ Cardinality(Last) \in Nat
      <4> HIDE DEF Last, n
      <4>1. IsFiniteSet(Last) /\ Cardinality(Last) <= Cardinality((k + 1)..n)
        BY <3>1, <3>2, FS_Subset
      <4> QED
        BY <3>2, <4>1, FS_CardinalityType
    <3>4. n - k > Limit
      <4> HIDE DEF Last, n
      <4> QED
        BY <2>2, <2>3, <2>4, <2>5, <3>3
    <3> QED
      BY <2>3, <3>4 DEF should_quarantine
  <2>6. ASSUME judged.quarantined, c.payload = "plain", ~low_trust(c)
        PROVE  \E i \in 1..n : c.instant <= r[i] + Second /\ n - i + 1 > Limit
    <3>1. n - k > Limit
      <4>1. should_quarantine(c, n - k)
        BY <2>3, <2>6, Zenon
      <4> QED
        BY <2>6, <4>1 DEF should_quarantine
    <3>2. k + 1 \in 1..n /\ n - (k + 1) + 1 = n - k
      <4> HIDE DEF n
      <4> QED
        BY <2>2, <2>3
    <3> QED
      BY <2>3, <3>1, <3>2
  <2> QED
    BY <2>5, <2>6
<1> QED
  BY <1>1, SuspicionInvariant, PTL

-----------------------------------------------------------------------------
(* Recall                                                                  *)

\* Whose atoms share an id got it twice.
MintedOnce == \A a, b \in minted : a.id = b.id => a = b \/ a.id \in reissued

\* What a call of remember holds is not acknowledged yet, and nobody else's.
Remembering(t) ==
  /\ task[t].pc \in {"idle", "upsert", "store", "insert", "register"}
  /\ task[t].pc # "idle" =>
       /\ task[t].atom \in minted
       /\ task[t].atom \in told => task[t].atom.id \in reissued
       /\ \A u \in Writer \ {t} : task[u].pc # "idle" /\ task[u].atom.id = task[t].atom.id =>
            task[t].atom.id \in reissued

\* Storage has nothing that an ask should still find.
NothingOwed(j) ==
  \A i \in Matching(j.q) : frames[i] \in j.before => frames[i].id \in reissued

Of(w) == {a \in minted : a.world = w}
Looking(j) ==
  /\ j.first \subseteq Of(j.q.world)
  /\ j.more \subseteq Of(j.q.world) \cup {a \in minted : a.id \in reissued}
  /\ j.ids \subseteq {a.id : a \in Of(j.q.world)}
  /\ j.pc # "scan" /\ j.first = {} => NothingOwed(j)
Sorting(j) ==
  /\ j.candidates \subseteq Of(j.q.world) \cup {a \in minted : a.id \in reissued}
  /\ IsFiniteSet(j.candidates) /\ \A a, b \in j.candidates : a.id = b.id => a = b
  /\ j.candidates = {} => NothingOwed(j)
HasAnswer(j) ==
  /\ \E n \in Nat : DOMAIN j.answer = 1..n
  /\ \A i \in DOMAIN j.answer :
       j.answer[i] \in Of(j.q.world) \cup {a \in minted : a.id \in reissued}
  /\ \A i, k \in DOMAIN j.answer : i # k => j.answer[i].id # j.answer[k].id
  /\ j.answer = << >> => NothingOwed(j)
Proper(j) ==
  IF j.pc = "answered" THEN HasAnswer(j) ELSE IF j.pc = "sort" THEN Sorting(j) ELSE Looking(j)
Asking(t) ==
  /\ task[t].pc \in {"idle", "scan", "search", "fetch", "rank", "sort", "answered"}
  /\ task[t].pc # "idle" =>
       task[t].q \in Questions /\ task[t].before \subseteq told /\ Proper(task[t])

RecallInv ==
  /\ RecallTypeOK /\ MintedOnce /\ IsFiniteSet(minted)
  /\ DOMAIN task = Writer \cup Asker
  /\ \A t \in Writer : Remembering(t)
  /\ \A t \in Asker : Asking(t)

LEMMA RecallInitInv == ASSUME RecallAssumption, RecallInit PROVE RecallInv
<1>1. RecallTypeOK
  BY DEF RecallInit, RecallTypeOK, NoConflicts, StoredAtoms, AtomsAt
<1>2. MintedOnce /\ IsFiniteSet(minted)
  BY FS_EmptySet DEF RecallInit, MintedOnce
<1>3. DOMAIN task = Writer \cup Asker
  BY DEF RecallInit
<1>4. (\A t \in Writer : Remembering(t)) /\ (\A t \in Asker : Asking(t))
  BY DEF RecallInit, Quiet, Remembering, Asking
<1> QED
  BY <1>1, <1>2, <1>3, <1>4 DEF RecallInv

LEMMA RecallTypeStays ==
  ASSUME RecallInv, UNCHANGED <<minted, told, registered, conflicts, dims, points, idGen>>,
         reflex' \subseteq minted, DOMAIN frames' \subseteq DOMAIN frames,
         \A i \in DOMAIN frames' : frames'[i] = frames[i]
  PROVE  RecallTypeOK'
<1>1. DOMAIN frames' \subseteq Nat \ {0} /\ StoredAtoms' \subseteq minted
  BY DEF RecallInv, RecallTypeOK, StoredAtoms, AtomsAt
<1>2. \A k \in {"contradicts", "confirms"} :
        \A id \in DOMAIN conflicts'[k] : conflicts'[k][id] \in Nat
  BY DEF RecallInv, RecallTypeOK
<1>3. /\ DOMAIN dims' = DOMAIN points' /\ DOMAIN points' \subseteq RecallWorld
      /\ \A w \in DOMAIN points' : points'[w] \subseteq {a.id : a \in {b \in minted' : b.world = w}}
  BY DEF RecallInv, RecallTypeOK
<1> QED
  BY <1>1, <1>2, <1>3 DEF RecallInv, RecallTypeOK

(* What others do leaves an ask sound, as long as a acknowledged atom they store  *)
(* is one that was stored before or shares its id.                         *)
FramesFrom ==
  \A i \in DOMAIN frames' :
    \/ \E k \in DOMAIN frames : frames[k] = frames'[i]
    \/ frames'[i] \in told => frames'[i].id \in reissued

LEMMA OwedStays ==
  ASSUME FramesFrom, reissued \subseteq reissued', NEW j, j.before \subseteq told, NothingOwed(j)
  PROVE  NothingOwed(j)'
<1> SUFFICES ASSUME NEW i \in DOMAIN frames', Matches(j.q, frames'[i]), frames'[i] \in j.before
             PROVE  frames'[i].id \in reissued
  BY DEF NothingOwed, Matching
<1>1. CASE \E k \in DOMAIN frames : frames[k] = frames'[i]
  BY <1>1 DEF NothingOwed, Matching
<1>2. CASE frames'[i] \in told => frames'[i].id \in reissued
  BY <1>2
<1> QED
  BY <1>1, <1>2 DEF FramesFrom

LEMMA AskerStays ==
  ASSUME RecallInv, FramesFrom, minted \subseteq minted', reissued \subseteq reissued',
         told \subseteq told', NEW u \in Asker, task'[u] = task[u]
  PROVE  Asking(u)'
<1>1. Asking(u)
  BY DEF RecallInv
<1>2. \A j : j = task[u] /\ j.before \subseteq told /\ NothingOwed(j) => NothingOwed(j)'
  BY OwedStays
<1>3. \A j : j = task[u] /\ j.before \subseteq told /\ Looking(j) => Looking(j)'
  BY <1>2 DEF Looking, Of
<1>4. \A j : j = task[u] /\ j.before \subseteq told /\ HasAnswer(j) => HasAnswer(j)'
  BY <1>2 DEF HasAnswer, Of
<1>5. \A j : j = task[u] /\ j.before \subseteq told /\ Sorting(j) => Sorting(j)'
  BY <1>2 DEF Sorting, Of
<1>6. \A j : j = task[u] /\ j.before \subseteq told /\ Proper(j) => Proper(j)'
  BY <1>3, <1>4, <1>5 DEF Proper
<1>7. task[u].pc # "idle" => Proper(task[u])'
  <2>1. task[u].pc # "idle" => task[u].before \subseteq told /\ Proper(task[u])
    BY <1>1 DEF Asking
  <2> QED
    BY <1>6, <2>1
<1> QED
  BY <1>1, <1>7 DEF Asking

(* A step of a writer that keeps its atom, or lets go of it.               *)
LEMMA WritersStay ==
  ASSUME RecallInv, NEW t \in Writer, NEW j, Put(t, j), UNCHANGED past,
         \/ j.pc = "idle"
         \/ /\ j.pc \in {"upsert", "store", "insert", "register"}
            /\ task[t].pc # "idle" /\ j.atom = task[t].atom
  PROVE  \A u \in Writer : Remembering(u)'
<1>1. \A u \in Writer : Remembering(u) /\ task'[u] = IF u = t THEN j ELSE task[u]
  BY DEF RecallInv, Put
<1> QED
  BY <1>1 DEF Remembering, past

LEMMA AskerMoves ==
  ASSUME RecallAssumption, RecallInv, NEW t \in Asker, NEW j, Put(t, j), UNCHANGED past
  PROVE  \A u \in Writer : Remembering(u)'
<1>1. \A u \in Writer : Remembering(u) /\ task'[u] = task[u]
  BY DEF RecallInv, Put, RecallAssumption
<1> QED
  BY <1>1 DEF Remembering, past

\* What is free for an asker to do when frames only lose or stay.
LEMMA FramesStay == ASSUME RecallInv, frames' = frames PROVE FramesFrom
BY DEF FramesFrom

LEMMA BeginRememberInv ==
  ASSUME RecallAssumption, RecallInv, NEW t \in Writer, BeginRemember(t) PROVE RecallInv'
<1>1. PICK r \in NewAtoms, v \in Nat, a \in minted' :
        /\ a.id = idGen /\ a.world \in RecallWorld /\ a.importance = r.importance
        /\ a.ts = r.ts /\ a.links = r.links /\ a.vector = v
        /\ Put(t, [pc |-> IF v = 0 THEN "store" ELSE "upsert", atom |-> a])
        /\ minted' = minted \cup {a}
  <2>1. PICK r \in NewAtoms :
          \E v \in IF r.vector = 0 THEN {0, EmbedDim} ELSE {r.vector} :
            \E a \in atom_from_new(r, v) :
              /\ Put(t, [pc |-> IF v = 0 THEN "store" ELSE "upsert", atom |-> a])
              /\ minted' = minted \cup {a}
    BY DEF BeginRemember
  <2>2. PICK v \in IF r.vector = 0 THEN {0, EmbedDim} ELSE {r.vector} :
          \E a \in atom_from_new(r, v) :
            /\ Put(t, [pc |-> IF v = 0 THEN "store" ELSE "upsert", atom |-> a])
            /\ minted' = minted \cup {a}
    BY <2>1
  <2>3. PICK a \in atom_from_new(r, v) :
          /\ Put(t, [pc |-> IF v = 0 THEN "store" ELSE "upsert", atom |-> a])
          /\ minted' = minted \cup {a}
    BY <2>2
  <2>4. v \in Nat /\ r.world \in RecallWorld
    BY DEF RecallAssumption
  <2>5. /\ a.id = idGen /\ a.importance = r.importance /\ a.ts = r.ts /\ a.links = r.links
        /\ a.vector = v
    BY DEF atom_from_new
  <2>6. a.world \in RecallWorld
    BY <2>4 DEF RecallAssumption, atom_from_new
  <2> QED
    BY <2>3, <2>4, <2>5, <2>6
<1>2. /\ reissued' = reissued \cup {b.id : b \in {c \in minted : c.id = idGen}}
      /\ idGen' = idGen + 1 /\ UNCHANGED <<frames, indexes, told, registered>>
  BY DEF BeginRemember
<1>3. RecallTypeOK'
  <2>1. /\ a.id \in Nat /\ a.importance \in 0..10 /\ a.ts \in Nat
        /\ a.links \in Seq([kind : LinkKind, target : Nat])
    BY <1>1 DEF RecallAssumption, RecallInv, RecallTypeOK
  <2>2. minted \subseteq minted' /\ idGen' \in Nat
    BY <1>1, <1>2 DEF RecallInv, RecallTypeOK
  <2>3. \A b \in minted' : /\ b.id \in Nat /\ b.world \in RecallWorld
                           /\ b.importance \in 0..10 /\ b.ts \in Nat /\ b.vector \in Nat
                           /\ b.links \in Seq([kind : LinkKind, target : Nat])
    BY <1>1, <2>1 DEF RecallInv, RecallTypeOK
  <2>4. \A w \in DOMAIN points' : points'[w] \subseteq {b.id : b \in {c \in minted' : c.world = w}}
    BY <1>2, <2>2 DEF RecallInv, RecallTypeOK, indexes
  <2> QED
    BY <1>2, <2>2, <2>3, <2>4 DEF RecallInv, RecallTypeOK, StoredAtoms, AtomsAt, indexes
<1>4. MintedOnce'
  BY <1>1, <1>2 DEF RecallInv, MintedOnce
<1>5. IsFiniteSet(minted)'
  BY <1>1, FS_AddElement DEF RecallInv
<1>6. DOMAIN task' = Writer \cup Asker
  BY <1>1, <1>2 DEF RecallInv, Put
<1>7. ASSUME NEW u \in Writer
      PROVE  Remembering(u)'
  <2>1. \A w \in Writer : /\ Remembering(w)
                          /\ w # t => task'[w] = task[w]
    BY <1>1 DEF RecallInv, Put
  <2>2. /\ task'[t].atom = a /\ task'[t].pc \in {"upsert", "store"}
    BY <1>1 DEF RecallInv, Put
  <2>3. \A b \in minted : b.id = a.id => a.id \in reissued'
    BY <1>1, <1>2
  <2>4. /\ told \subseteq minted /\ told' = told
        /\ minted \subseteq minted' /\ reissued \subseteq reissued'
    BY <1>1, <1>2 DEF RecallInv, RecallTypeOK
  <2>5. CASE u = t
    BY <1>1, <2>1, <2>2, <2>3, <2>4, <2>5 DEF Remembering
  <2>6. CASE u # t
    BY <1>1, <2>1, <2>2, <2>3, <2>4, <2>6 DEF Remembering
  <2> QED
    BY <2>5, <2>6
<1>8. ASSUME NEW u \in Asker
      PROVE  Asking(u)'
  <2>1. task'[u] = task[u]
    BY <1>1 DEF RecallInv, Put, RecallAssumption
  <2> QED
    BY <1>1, <1>2, <2>1, AskerStays, FramesStay
<1> QED
  BY <1>3, <1>4, <1>5, <1>6, <1>7, <1>8 DEF RecallInv

\* What an action leaves alone when it makes no atom and knows none.
LEMMA PastStays ==
  ASSUME RecallInv, UNCHANGED past, NEW t \in Writer \cup Asker, NEW j, Put(t, j)
  PROVE  /\ MintedOnce' /\ IsFiniteSet(minted)' /\ DOMAIN task' = Writer \cup Asker
         /\ minted \subseteq minted' /\ reissued \subseteq reissued' /\ told \subseteq told'
         /\ \A u \in (Writer \cup Asker) \ {t} : task'[u] = task[u]
BY DEF RecallInv, MintedOnce, past, Put

(* A writer whose step changes its own call and what the indexes hold.     *)
LEMMA WriterStep ==
  ASSUME RecallAssumption, RecallInv, NEW t \in Writer, NEW j, Put(t, j), UNCHANGED past,
         \/ j.pc = "idle"
         \/ /\ j.pc \in {"upsert", "store", "insert", "register"}
            /\ task[t].pc # "idle" /\ j.atom = task[t].atom,
         RecallTypeOK', FramesFrom
  PROVE  RecallInv'
<1>1. \A u \in Writer : Remembering(u)'
  BY WritersStay
<1>2. \A u \in Asker : Asking(u)'
  <2>1. \A u \in Asker : task'[u] = task[u]
    BY PastStays DEF RecallAssumption
  <2> QED
    BY <2>1, PastStays, AskerStays
<1> QED
  BY <1>1, <1>2, PastStays DEF RecallInv

LEMMA UpsertVectorInv ==
  ASSUME RecallAssumption, RecallInv, NEW t \in Writer, UpsertVector(t) PROVE RecallInv'
<1> DEFINE a == task[t].atom
<1>1. task[t].pc = "upsert" /\ a \in minted /\ UNCHANGED past /\ frames' = frames
  BY DEF UpsertVector, RecallInv, Remembering
<1>2. PICK j : /\ Put(t, j)
               /\ \/ j.pc = "idle"
                  \/ j.pc = "store" /\ j.atom = a
  <2>1. [task[t] EXCEPT !.pc = "store"].pc = "store" /\ [task[t] EXCEPT !.pc = "store"].atom = a
    BY <1>1
  <2>2. Put(t, Quiet) \/ Put(t, [task[t] EXCEPT !.pc = "store"])
    BY DEF UpsertVector
  <2>3. Quiet.pc = "idle"
    BY DEF Quiet
  <2> QED
    BY <2>1, <2>2, <2>3
<1>3. RecallTypeOK'
  <2>1. /\ DOMAIN dims' = DOMAIN points' /\ DOMAIN points' \subseteq RecallWorld
        /\ \A w \in DOMAIN points' :
             points'[w] \subseteq {b.id : b \in {c \in minted : c.world = w}}
    BY <1>1 DEF UpsertVector, With, RecallInv, RecallTypeOK
  <2> QED
    BY <1>1, <2>1 DEF UpsertVector, RecallInv, RecallTypeOK, StoredAtoms, AtomsAt, past
<1> QED
  BY <1>1, <1>2, <1>3, WriterStep, FramesStay DEF RecallInv

LEMMA StoreInv ==
  ASSUME RecallAssumption, RecallInv, NEW t \in Writer, Store(t) PROVE RecallInv'
<1> DEFINE a == task[t].atom
           j == [task[t] EXCEPT !.pc = "insert"]
<1>1. /\ task[t].pc = "store" /\ a \in minted /\ UNCHANGED <<indexes, idGen, past>>
      /\ a \in told => a.id \in reissued
      /\ Put(t, j)
  BY DEF Store, RecallInv, Remembering
<1>2. j.pc = "insert" /\ j.atom = a
  BY <1>1
<1>3. PICK last \in Nat :
        /\ DOMAIN frames' = DOMAIN frames \cup {last + 1}
        /\ \A i \in DOMAIN frames' :
             frames'[i] = a \/ (i \in DOMAIN frames /\ frames'[i] = frames[i])
  <2>1. PICK last \in {0} \cup DOMAIN frames : frames' = Appended(a, last + 1)
    BY DEF Store
  <2>2. last \in Nat
    BY DEF RecallInv, RecallTypeOK
  <2> QED
    BY <2>1, <2>2 DEF Appended, With
<1>4. FramesFrom
  BY <1>1, <1>3 DEF FramesFrom
<1>5. RecallTypeOK'
  <2>1. DOMAIN frames' \subseteq Nat \ {0} /\ StoredAtoms' \subseteq minted
    BY <1>1, <1>3 DEF RecallInv, RecallTypeOK, StoredAtoms, AtomsAt
  <2> QED
    BY <1>1, <2>1 DEF RecallInv, RecallTypeOK, indexes, past
<1> HIDE DEF a, j
<1>6. task[t].atom = a
  BY DEF a
<1> QED
  BY <1>1, <1>2, <1>4, <1>5, <1>6, WriterStep

LEMMA InsertInv ==
  ASSUME RecallAssumption, RecallInv, NEW t \in Writer, Insert(t) PROVE RecallInv'
<1> DEFINE j == [task[t] EXCEPT !.pc = "register"]
<1>1. /\ task[t].pc = "insert" /\ task[t].atom \in minted /\ Put(t, j)
      /\ UNCHANGED <<frames, conflicts, dims, points, idGen, past>>
      /\ reflex' \subseteq reflex \cup {task[t].atom}
  BY DEF Insert, RecallInv, Remembering
<1>2. j.pc = "register" /\ j.atom = task[t].atom
  BY <1>1
<1>3. RecallTypeOK'
  BY <1>1 DEF RecallInv, RecallTypeOK, StoredAtoms, AtomsAt, past
<1> HIDE DEF j
<1> QED
  BY <1>1, <1>2, <1>3, WriterStep, FramesStay DEF RecallInv

LEMMA RegisterInv ==
  ASSUME RecallAssumption, RecallInv, NEW t \in Writer, Register(t) PROVE RecallInv'
<1> DEFINE a == task[t].atom
           times(k, id) ==
             Cardinality({i \in DOMAIN a.links : a.links[i] = [kind |-> k, target |-> id]})
<1>1. /\ task[t].pc = "register" /\ a \in minted /\ Put(t, Quiet) /\ told' = told \cup {a}
      /\ registered' = registered \cup {a}
      /\ UNCHANGED <<frames, reflex, dims, points, idGen, minted, reissued>>
  BY DEF Register, RecallInv, Remembering
<1>2. \A k, id : times(k, id) \in Nat
  <2>1. IsFiniteSet(DOMAIN a.links)
    <3>1. a.links \in Seq([kind : LinkKind, target : Nat])
      BY <1>1 DEF RecallInv, RecallTypeOK
    <3>2. DOMAIN a.links = 1..Len(a.links) /\ Len(a.links) \in Nat
      BY <3>1
    <3>3. \A n \in Nat : IsFiniteSet(1..n)
      BY FS_Interval
    <3> QED
      BY <3>2, <3>3
  <2> SUFFICES ASSUME NEW k, NEW id PROVE times(k, id) \in Nat
    OBVIOUS
  <2>2. \A T \in SUBSET DOMAIN a.links : Cardinality(T) \in Nat
    BY <2>1, FS_Subset, FS_CardinalityType
  <2> QED
    BY <2>2
<1>3. ASSUME NEW k \in {"contradicts", "confirms"}, NEW id \in DOMAIN conflicts'[k]
      PROVE  conflicts'[k][id] \in Nat
  <2>1. conflicts'[k][id] = Count(conflicts[k], id) + times(k, id)
    <3>1. CASE k = "contradicts"
      BY <1>3, <3>1 DEF Register
    <3>2. CASE k = "confirms"
      BY <1>3, <3>2 DEF Register
    <3> QED
      BY <1>3, <3>1, <3>2
  <2>2. Count(conflicts[k], id) \in Nat
    BY DEF Count, RecallInv, RecallTypeOK
  <2> HIDE DEF times
  <2> QED
    BY <1>2, <2>1, <2>2
<1>4. RecallTypeOK'
  BY <1>1, <1>3 DEF RecallInv, RecallTypeOK, StoredAtoms, AtomsAt
<1>5. /\ MintedOnce' /\ IsFiniteSet(minted)' /\ DOMAIN task' = Writer \cup Asker
  BY <1>1 DEF RecallInv, MintedOnce, Put
<1>6. \A u \in Writer : Remembering(u)'
  <2>1. \A u \in Writer : Remembering(u) /\ task'[u] = IF u = t THEN Quiet ELSE task[u]
    BY <1>1 DEF RecallInv, Put
  <2> QED
    BY <1>1, <2>1 DEF Remembering, Quiet
<1>7. \A u \in Asker : Asking(u)'
  <2>1. \A u \in Asker : task'[u] = task[u]
    BY <1>1 DEF RecallInv, Put, RecallAssumption
  <2> QED
    BY <1>1, <2>1, AskerStays, FramesStay
<1> QED
  BY <1>4, <1>5, <1>6, <1>7 DEF RecallInv

(* An asker whose step changes its own call only.                          *)
LEMMA AskerStep ==
  ASSUME RecallAssumption, RecallInv, NEW t \in Asker, NEW j, Put(t, j),
         UNCHANGED <<frames, indexes, idGen, past>>,
         j.pc \in {"idle", "scan", "search", "fetch", "rank", "sort", "answered"},
         j.pc # "idle" => j.q \in Questions /\ j.before \subseteq told /\ Proper(j)
  PROVE  RecallInv'
<1>1. RecallTypeOK'
  BY RecallTypeStays DEF RecallInv, RecallTypeOK, indexes, past
<1>2. \A u \in Writer : Remembering(u)'
  BY AskerMoves
<1>3. \A u \in Asker \ {t} : Asking(u)'
  BY PastStays, AskerStays, FramesStay
<1>4. Asking(t)'
  <2>1. task'[t] = j
    BY DEF RecallInv, Put
  <2>2. \A i : i = task'[t] /\ Looking(i) => Looking(task[t])'
    BY DEF Looking, NothingOwed, Matching, Of, past
  <2>3. \A i : i = task'[t] /\ HasAnswer(i) => HasAnswer(task[t])'
    BY DEF HasAnswer, NothingOwed, Matching, Of, past
  <2>4. \A i : i = task'[t] /\ Sorting(i) => Sorting(task[t])'
    BY DEF Sorting, NothingOwed, Matching, Of, past
  <2> QED
    BY <2>1, <2>2, <2>3, <2>4 DEF Asking, Proper, past
<1> QED
  BY <1>1, <1>2, <1>3, <1>4, PastStays DEF RecallInv

LEMMA GiveUpInv ==
  ASSUME RecallAssumption, RecallInv, NEW t \in Writer \cup Asker, GiveUp(t) PROVE RecallInv'
<1>1. Put(t, Quiet) /\ Quiet.pc = "idle" /\ UNCHANGED <<frames, indexes, idGen, past>>
  BY DEF GiveUp, Quiet
<1>2. RecallTypeOK'
  BY <1>1, RecallTypeStays DEF RecallInv, RecallTypeOK, indexes, past
<1>3. CASE t \in Writer
  BY <1>1, <1>2, <1>3, WriterStep, FramesStay
<1>4. CASE t \in Asker
  BY <1>1, <1>4, AskerStep
<1> QED
  BY <1>3, <1>4

\* What storage answers for a question is of its world.
LEMMA FoundInStorage ==
  ASSUME RecallInv, NEW q, NEW n
  PROVE  AtomsAt(First(n, Matching(q))) \subseteq Of(q.world)
<1>1. \A i \in DOMAIN frames : frames[i] \in minted
  BY DEF RecallInv, RecallTypeOK, AtomsAt, StoredAtoms
<1>2. First(n, Matching(q)) \subseteq Matching(q)
  BY DEF First
<1>3. \A i \in Matching(q) : frames[i] \in Of(q.world)
  BY <1>1 DEF Matching, Matches, Of
<1> QED
  BY <1>2, <1>3 DEF AtomsAt

LEMMA ScanFindsSome ==
  ASSUME RecallAssumption, RecallInv, NEW q \in Questions, Scanned(q) = {}
  PROVE  Matching(q) = {}
<1>1. SUFFICES ASSUME Matching(q) # {} PROVE FALSE
  OBVIOUS
<1>2. Matching(q) \subseteq Nat
  BY DEF Matching, RecallInv, RecallTypeOK
<1>3. PICK i \in Matching(q) : \A j \in Matching(q) : i <= j
  BY <1>1, <1>2, LeastNumber
<1>4. {j \in Matching(q) : j < i} = {}
  BY <1>2, <1>3
<1>5. Cardinality({j \in Matching(q) : j < i}) = 0
  BY <1>4, FS_EmptySet
<1>6. 0 < IF q.limit = 0 THEN 1 ELSE q.limit
  BY DEF RecallAssumption
<1>7. i \in First(IF q.limit = 0 THEN 1 ELSE q.limit, Matching(q))
  BY <1>3, <1>5, <1>6 DEF First
<1> QED
  BY <1>7 DEF Scanned, AtomsAt

LEMMA AskQuestionInv ==
  ASSUME RecallAssumption, RecallInv, NEW t \in Asker, AskQuestion(t) PROVE RecallInv'
<1>1. PICK q \in Questions :
        Put(t, [pc |-> IF Recent(q) = {} THEN "scan" ELSE "search", q |-> q, first |-> Recent(q),
                more |-> {}, ids |-> {}, before |-> told])
  BY DEF AskQuestion
<1> DEFINE j == [pc |-> IF Recent(q) = {} THEN "scan" ELSE "search", q |-> q, first |-> Recent(q),
                 more |-> {}, ids |-> {}, before |-> told]
<1>2. Recent(q) \subseteq Of(q.world)
  BY DEF Recent, Of, RecallInv, RecallTypeOK
<1>3. j.pc \in {"scan", "search"} /\ j.q = q /\ j.before = told
  OBVIOUS
<1>4. Looking(j)
  BY <1>2 DEF Looking
<1>5. Put(t, j) /\ UNCHANGED <<frames, indexes, idGen, past>>
  BY <1>1 DEF AskQuestion
<1> HIDE DEF j
<1> QED
  BY <1>3, <1>4, <1>5, AskerStep DEF Proper

\* What is acknowledged of an ask on its way.
LEMMA OnItsWay ==
  ASSUME RecallInv, NEW t \in Asker, task[t].pc \in {"scan", "search", "fetch", "rank"}
  PROVE  task[t].q \in Questions /\ task[t].before \subseteq told /\ Looking(task[t])
BY DEF RecallInv, Asking, Proper

LEMMA ScanInv ==
  ASSUME RecallAssumption, RecallInv, NEW t \in Asker, Scan(t) PROVE RecallInv'
<1> DEFINE j == [task[t] EXCEPT !.pc = "search", !.first = Scanned(task[t].q)]
<1>1. Put(t, j) /\ task[t].pc = "scan" /\ UNCHANGED <<frames, indexes, idGen, past>>
  BY DEF Scan
<1>2. task[t].q \in Questions /\ task[t].before \subseteq told /\ Looking(task[t])
  BY <1>1, OnItsWay
<1>3. /\ j.pc = "search" /\ j.q = task[t].q /\ j.before = task[t].before
      /\ j.first = Scanned(task[t].q) /\ j.more = task[t].more /\ j.ids = task[t].ids
  BY <1>1
<1>4. Scanned(task[t].q) \subseteq Of(task[t].q.world)
  BY FoundInStorage DEF Scanned
<1>5. Scanned(task[t].q) = {} => Matching(task[t].q) = {}
  BY <1>2, ScanFindsSome
<1> HIDE DEF j
<1>6. Looking(j)
  BY <1>2, <1>3, <1>4, <1>5 DEF Looking, NothingOwed
<1> QED
  BY <1>1, <1>2, <1>3, <1>6, AskerStep DEF Proper

LEMMA SearchInv ==
  ASSUME RecallAssumption, RecallInv, NEW t \in Asker, Search(t) PROVE RecallInv'
<1> DEFINE q == task[t].q
<1>1. task[t].pc = "search" /\ UNCHANGED <<frames, indexes, idGen, past>>
  BY DEF Search
<1>2. q \in Questions /\ task[t].before \subseteq told /\ Looking(task[t])
  BY <1>1, OnItsWay
<1>3. CASE Put(t, [task[t] EXCEPT !.pc = "rank"])
  <2> DEFINE j == [task[t] EXCEPT !.pc = "rank"]
  <2>1. /\ j.pc = "rank" /\ j.q = task[t].q /\ j.before = task[t].before
        /\ j.first = task[t].first /\ j.more = task[t].more /\ j.ids = task[t].ids
    BY <1>1
  <2>2. Put(t, j)
    BY <1>3
  <2> HIDE DEF j
  <2>3. Looking(j)
    BY <1>1, <1>2, <2>1 DEF Looking, NothingOwed
  <2> QED
    BY <1>1, <1>2, <2>1, <2>2, <2>3, AskerStep DEF Proper
<1>4. CASE Put(t, Quiet)
  BY <1>1, <1>4, AskerStep DEF Quiet
<1>5. CASE /\ q.world \in DOMAIN dims
           /\ \E found \in Found(q) : Put(t, [task[t] EXCEPT !.pc = "fetch", !.ids = found])
  <2>1. PICK found \in Found(q) : Put(t, [task[t] EXCEPT !.pc = "fetch", !.ids = found])
    BY <1>5
  <2> DEFINE j == [task[t] EXCEPT !.pc = "fetch", !.ids = found]
  <2>2. /\ j.pc = "fetch" /\ j.q = task[t].q /\ j.before = task[t].before
        /\ j.first = task[t].first /\ j.more = task[t].more /\ j.ids = found
    BY <1>1
  <2>3. found \subseteq points[q.world]
    BY DEF Found
  <2>4. points[q.world] \subseteq {a.id : a \in Of(q.world)}
    BY <1>5 DEF RecallInv, RecallTypeOK, Of
  <2>5. Put(t, j)
    BY <2>1
  <2> HIDE DEF j, q
  <2>6. Looking(j)
    BY <1>1, <1>2, <2>2, <2>3, <2>4 DEF Looking, NothingOwed, q
  <2> QED
    BY <1>1, <1>2, <2>2, <2>5, <2>6, AskerStep DEF q, Proper
<1> QED
  BY <1>3, <1>4, <1>5 DEF Search

LEMMA FetchInv ==
  ASSUME RecallAssumption, RecallInv, NEW t \in Asker, Fetch(t) PROVE RecallInv'
<1>1. PICK S \in Fetched(task[t].ids) : Put(t, [task[t] EXCEPT !.pc = "rank", !.more = S])
  BY DEF Fetch
<1> DEFINE j == [task[t] EXCEPT !.pc = "rank", !.more = S]
<1>2. task[t].pc = "fetch" /\ Put(t, j) /\ UNCHANGED <<frames, indexes, idGen, past>>
  BY <1>1 DEF Fetch
<1>3. task[t].q \in Questions /\ task[t].before \subseteq told /\ Looking(task[t])
  BY <1>2, OnItsWay
<1>4. /\ j.pc = "rank" /\ j.q = task[t].q /\ j.before = task[t].before
      /\ j.first = task[t].first /\ j.more = S /\ j.ids = task[t].ids
  BY <1>2
<1>5. S \subseteq Of(task[t].q.world) \cup {a \in minted : a.id \in reissued}
  <2> SUFFICES ASSUME NEW a \in S
               PROVE  a \in Of(task[t].q.world) \cup {b \in minted : b.id \in reissued}
    OBVIOUS
  <2>1. a \in minted /\ a.id \in task[t].ids
    BY DEF Fetched, RecallInv, RecallTypeOK
  <2>2. PICK b \in Of(task[t].q.world) : b.id = a.id
    BY <1>3, <2>1 DEF Looking
  <2> QED
    BY <2>1, <2>2 DEF RecallInv, MintedOnce, Of
<1> HIDE DEF j
<1>6. Looking(j)
  BY <1>2, <1>3, <1>4, <1>5 DEF Looking, NothingOwed
<1> QED
  BY <1>2, <1>3, <1>4, <1>6, AskerStep DEF Proper

LEMMA OneAnId ==
  ASSUME NEW S, IsFiniteSet(S), NEW id, OneOf(S, id), NEW a \in S, NEW b \in S, a.id = id, b.id = id
  PROVE  a = b
<1> DEFINE T == {c \in S : c.id = id}
<1>1. IsFiniteSet(T) /\ Cardinality(T) = 1
  BY FS_Subset DEF OneOf
<1>2. a \in T /\ b \in T
  OBVIOUS
<1> HIDE DEF T
<1>3. PICK c : T = {c}
  BY <1>1, FS_Singleton
<1> QED
  BY <1>2, <1>3

LEMMA GatherInv ==
  ASSUME RecallAssumption, RecallInv, NEW t \in Asker, Gather(t) PROVE RecallInv'
<1> DEFINE q     == task[t].q
           more  == task[t].more
           limit == IF q.limit = 0 THEN 1 ELSE q.limit
           first == IF task[t].first \cup more # {} \/ q.within \notin {"any", q.world}
                    THEN task[t].first
                    ELSE AtomsAt(First(IF limit < Bounded THEN limit ELSE Bounded, Matching(q)))
<1>1. task[t].pc = "rank" /\ UNCHANGED <<frames, indexes, idGen, past>>
  BY DEF Gather
<1>2. q \in Questions /\ task[t].before \subseteq told /\ Looking(task[t])
  BY <1>1, OnItsWay
<1>3. PICK S \in Distinct(first, more) :
        Put(t, [pc |-> "sort", q |-> q, before |-> task[t].before, known |-> registered,
                candidates |-> S, standing |-> [a \in S |-> Standing(a)]])
  BY DEF Gather
<1> DEFINE j == [pc |-> "sort", q |-> q, before |-> task[t].before, known |-> registered,
                 candidates |-> S, standing |-> [a \in S |-> Standing(a)]]
<1>4. /\ first \subseteq Of(q.world)
      /\ more \subseteq Of(q.world) \cup {a \in minted : a.id \in reissued}
      /\ first \cup more = {} => NothingOwed(task[t])
  <2>1. /\ task[t].first \subseteq Of(q.world)
        /\ more \subseteq Of(q.world) \cup {a \in minted : a.id \in reissued}
        /\ task[t].first = {} => NothingOwed(task[t])
    BY <1>1, <1>2 DEF Looking
  <2>2. \A n : AtomsAt(First(n, Matching(q))) \subseteq Of(q.world)
    BY FoundInStorage
  <2> QED
    BY <2>1, <2>2
<1> HIDE DEF first
<1>5. /\ S \subseteq first \cup more
      /\ \A a \in first \cup more : OneOf(S, a.id)
  BY DEF Distinct
<1>6. IsFiniteSet(S)
  <2>1. S \subseteq minted
    BY <1>4, <1>5 DEF Of
  <2> QED
    BY <2>1, FS_Subset DEF RecallInv
<1>7. \A a, b \in S : a.id = b.id => a = b
  BY <1>5, <1>6, OneAnId
<1>8. S = {} => NothingOwed(task[t])
  <2>1. SUFFICES ASSUME S = {}, NEW a \in first \cup more
                 PROVE  FALSE
    BY <1>4
  <2> DEFINE T == {b \in S : b.id = a.id}
  <2>2. Cardinality(T) = 1
    BY <1>5 DEF OneOf
  <2>3. T = {}
    BY <2>1
  <2> HIDE DEF T
  <2> QED
    BY <2>2, <2>3, FS_EmptySet
<1>9. /\ j.pc = "sort" /\ j.q = q /\ j.before = task[t].before /\ j.candidates = S /\ Put(t, j)
  BY <1>3
<1> HIDE DEF j
<1>10. Sorting(j)
  <2>1. NothingOwed(task[t]) => NothingOwed(j)
    BY <1>9 DEF NothingOwed
  <2> QED
    BY <1>4, <1>5, <1>6, <1>7, <1>8, <1>9, <2>1 DEF Sorting
<1> QED
  BY <1>1, <1>2, <1>9, <1>10, AskerStep DEF Proper

\* Whatever order the sort came to, it is one of the candidates.
LEMMA AnswerIs ==
  ASSUME RecallInv, NEW t \in Asker, Answer(t)
  PROVE  \E s \in Orders(task[t].candidates), c \in BOOLEAN :
           /\ c => s \in Ranked(task[t].candidates)
           /\ Put(t, [pc |-> "answered", q |-> task[t].q, before |-> task[t].before,
                      known |-> task[t].known, calm |-> c, answer |-> s])
<1> DEFINE S    == task[t].candidates
           calm == \A a \in S : task[t].standing[a] = Standing(a)
<1>1. PICK s \in IF calm THEN Ranked(S) ELSE Orders(S) :
        Put(t, [pc |-> "answered", q |-> task[t].q, before |-> task[t].before,
                known |-> task[t].known, calm |-> calm, answer |-> s])
  BY DEF Answer
<1>2. s \in Orders(S) /\ (calm => s \in Ranked(S)) /\ calm \in BOOLEAN
  BY DEF Ranked
<1> HIDE DEF calm
<1> QED
  BY <1>1, <1>2

LEMMA AnswerInv ==
  ASSUME RecallAssumption, RecallInv, NEW t \in Asker, Answer(t) PROVE RecallInv'
<1> DEFINE q == task[t].q
           S == task[t].candidates
<1>1. task[t].pc = "sort" /\ UNCHANGED <<frames, indexes, idGen, past>>
  BY DEF Answer
<1>2. q \in Questions /\ task[t].before \subseteq told /\ Sorting(task[t])
  BY <1>1 DEF RecallInv, Asking, Proper
<1>3. PICK s \in Orders(S), c \in BOOLEAN :
        Put(t, [pc |-> "answered", q |-> q, before |-> task[t].before,
                known |-> task[t].known, calm |-> c, answer |-> s])
  BY AnswerIs
<1> DEFINE j == [pc |-> "answered", q |-> q, before |-> task[t].before,
                 known |-> task[t].known, calm |-> c, answer |-> s]
<1>4. /\ j.pc = "answered" /\ j.q = q /\ j.before = task[t].before /\ j.answer = s
      /\ Put(t, j)
  BY <1>3
<1> HIDE DEF j
<1>5. /\ s \in [1..Cardinality(S) -> S] /\ Cardinality(S) \in Nat
      /\ \A i, k \in DOMAIN s : i < k => s[i] # s[k]
  BY <1>2, FS_CardinalityType DEF Orders, Sorting
<1>6. \A i, k \in DOMAIN s : i # k => s[i].id # s[k].id
  <2>1. \A i, k \in DOMAIN s : i # k => s[i] # s[k]
    BY <1>5
  <2> QED
    BY <1>2, <1>5, <2>1 DEF Sorting
<1>7. s = << >> => NothingOwed(task[t])
  <2>1. SUFFICES ASSUME s = << >> PROVE S = {}
    BY <1>2 DEF Sorting
  <2>2. Cardinality(S) = 0
    BY <1>5, <2>1
  <2> QED
    BY <1>2, <2>2, FS_EmptySet DEF Sorting
<1>8. HasAnswer(j)
  <2>1. \A i \in DOMAIN s : s[i] \in Of(q.world) \cup {a \in minted : a.id \in reissued}
    BY <1>2, <1>5 DEF Sorting
  <2>2. DOMAIN s = 1..Cardinality(S)
    BY <1>5
  <2>3. NothingOwed(task[t]) => NothingOwed(j)
    BY <1>4 DEF NothingOwed
  <2> QED
    BY <1>4, <1>5, <1>6, <1>7, <2>1, <2>2, <2>3 DEF HasAnswer
<1> QED
  BY <1>1, <1>2, <1>4, <1>8, AskerStep DEF Proper

LEMMA ReturnInv ==
  ASSUME RecallAssumption, RecallInv, NEW t \in Asker, Return(t) PROVE RecallInv'
BY AskerStep DEF Return, Quiet

LEMMA EvictInv == ASSUME RecallAssumption, RecallInv, Evict PROVE RecallInv'
<1>1. /\ UNCHANGED <<indexes, idGen, task, past>> /\ DOMAIN frames' \subseteq DOMAIN frames
      /\ \A i \in DOMAIN frames' : frames'[i] = frames[i]
  BY DEF Evict
<1>2. FramesFrom
  BY <1>1 DEF FramesFrom
<1>3. RecallTypeOK'
  BY <1>1, RecallTypeStays DEF RecallInv, RecallTypeOK, indexes, past
<1>4. /\ MintedOnce' /\ IsFiniteSet(minted)' /\ DOMAIN task' = Writer \cup Asker
  BY <1>1 DEF RecallInv, MintedOnce, past
<1>5. \A t \in Writer : Remembering(t)'
  BY <1>1 DEF RecallInv, Remembering, past
<1>6. \A t \in Asker : Asking(t)'
  BY <1>1, <1>2, AskerStays DEF past
<1> QED
  BY <1>3, <1>4, <1>5, <1>6 DEF RecallInv

LEMMA ProcessDiesInv == ASSUME RecallAssumption, RecallInv, ProcessDies PROVE RecallInv'
<1>1. RecallTypeOK'
  <2>1. /\ \A k \in {"contradicts", "confirms"} : DOMAIN conflicts'[k] = {}
        /\ DOMAIN dims' = {} /\ DOMAIN points' = {} /\ reflex' = {} /\ idGen' \in Nat
    BY DEF ProcessDies, NoConflicts
  <2>2. UNCHANGED <<frames, minted, told>> /\ registered' = {}
    BY DEF ProcessDies
  <2>3. DOMAIN frames' \subseteq Nat \ {0} /\ StoredAtoms' \subseteq minted
    BY <2>2 DEF RecallInv, RecallTypeOK, StoredAtoms, AtomsAt
  <2> QED
    BY <2>1, <2>2, <2>3 DEF RecallInv, RecallTypeOK
<1>2. MintedOnce' /\ IsFiniteSet(minted)' /\ DOMAIN task' = Writer \cup Asker
  BY DEF ProcessDies, RecallInv, MintedOnce, past
<1>3. (\A t \in Writer : Remembering(t)') /\ (\A t \in Asker : Asking(t)')
  BY DEF ProcessDies, Quiet, Remembering, Asking
<1> QED
  BY <1>1, <1>2, <1>3 DEF RecallInv

LEMMA RecallStutter == ASSUME RecallInv, UNCHANGED recalls PROVE RecallInv'
<1>1. UNCHANGED <<frames, indexes, idGen, task, past>>
  BY DEF recalls
<1>2. RecallTypeOK'
  BY <1>1, RecallTypeStays DEF RecallInv, RecallTypeOK, indexes, past
<1>3. /\ MintedOnce' /\ IsFiniteSet(minted)' /\ DOMAIN task' = Writer \cup Asker
  BY <1>1 DEF RecallInv, MintedOnce, past
<1>4. \A t \in Writer : Remembering(t)'
  BY <1>1 DEF RecallInv, Remembering, past
<1>5. \A t \in Asker : Asking(t)'
  BY <1>1, AskerStays, FramesStay DEF past
<1> QED
  BY <1>2, <1>3, <1>4, <1>5 DEF RecallInv

LEMMA RecallInvariant == ASSUME RecallAssumption PROVE RecallSpec => []RecallInv
<1>1. RecallInit => RecallInv
  BY RecallInitInv
<1>2. RecallInv /\ [RecallNext]_recalls => RecallInv'
  BY RecallStutter, BeginRememberInv, UpsertVectorInv, StoreInv, InsertInv, RegisterInv, GiveUpInv,
     AskQuestionInv, ScanInv, SearchInv, FetchInv, GatherInv, AnswerInv, ReturnInv, EvictInv, ProcessDiesInv
     DEF RecallNext
<1> QED
  BY <1>1, <1>2, PTL DEF RecallSpec

(* Whatever becomes of its atoms, the indexes and the frames hold nothing  *)
(* that remember did not make, and an index only ids of its world.         *)
THEOREM RecallTypeCorrect ==
  ASSUME RecallAssumption PROVE RecallSpec => []RecallTypeOK
<1>1. RecallInv => RecallTypeOK
  BY DEF RecallInv
<1> QED
  BY <1>1, RecallInvariant, PTL

(* For any number of writers and askers, any questions and embedder, and   *)
(* wherever calls fail, atoms are evicted and the process dies: an answer  *)
(* of ask holds no id twice, and no atom of another world unless its id    *)
(* was given out again after a restart.                                    *)
THEOREM AnswerSoundCorrect ==
  ASSUME RecallAssumption PROVE RecallSpec => []AnswerSound
<1>1. RecallInv => AnswerSound
  <2> SUFFICES ASSUME RecallInv, NEW t \in Asker, task[t].pc = "answered"
               PROVE  /\ \A i, j \in DOMAIN task[t].answer :
                           i # j => task[t].answer[i].id # task[t].answer[j].id
                      /\ \A i \in DOMAIN task[t].answer :
                           /\ task[t].answer[i] \in minted
                           /\ \/ task[t].answer[i].world = task[t].q.world
                              \/ task[t].answer[i].id \in reissued
    BY DEF AnswerSound, Answered
  <2>1. HasAnswer(task[t])
    BY DEF RecallInv, Asking, Proper
  <2> QED
    BY <2>1 DEF HasAnswer, Of
<1> QED
  BY <1>1, RecallInvariant, PTL

(* For the same: ask answers nothing only when storage has nothing that    *)
(* was acknowledged before it, since it scans when the reflex index has    *)
(* nothing, and since what is stored later was not acknowledged before.    *)
THEOREM EmptyMeansNoneCorrect ==
  ASSUME RecallAssumption PROVE RecallSpec => []EmptyMeansNone
<1>1. RecallInv => EmptyMeansNone
  <2> SUFFICES ASSUME RecallInv, NEW t \in Asker, task[t].pc = "answered", task[t].answer = << >>
               PROVE  \A a \in task[t].before \cap AtomsAt(Matching(task[t].q)) : a.id \in reissued
    BY DEF EmptyMeansNone, Answered
  <2>1. NothingOwed(task[t])
    BY DEF RecallInv, Asking, Proper, HasAnswer
  <2> QED
    BY <2>1 DEF NothingOwed, AtomsAt
<1> QED
  BY <1>1, RecallInvariant, PTL

(* For all importances and links: rank_score takes a whole importance off  *)
(* what is superseded, so it comes after what supersedes it.               *)
LEMMA SupersededIsBelow ==
  ASSUME RecallInv, NEW a \in minted, NEW b \in minted,
         b.id \in DOMAIN conflicts.supersedes, Count(conflicts.confirms, b.id) = 0,
         a.id \notin DOMAIN conflicts.supersedes, Count(conflicts.contradicts, a.id) = 0,
         a.importance > 0 \/ b.importance < 10
  PROVE  Above(a, b)
<1>1. a.importance \in 0..10 /\ b.importance \in 0..10
  BY DEF RecallInv, RecallTypeOK
<1>2. Count(conflicts.confirms, a.id) \in Nat /\ Count(conflicts.contradicts, b.id) \in Nat
  BY DEF Count, RecallInv, RecallTypeOK
<1>3. rank_score(a) = a.importance + 2 * Count(conflicts.confirms, a.id)
  BY <1>1, <1>2 DEF rank_score
<1>4. rank_score(b) = b.importance - 10 - 3 * Count(conflicts.contradicts, b.id)
  BY <1>1, <1>2 DEF rank_score
<1>5. rank_score(a) > rank_score(b)
  BY <1>1, <1>2, <1>3, <1>4
<1>6. Rank(a)[1] > Rank(b)[1] /\ \A j \in 1..(1 - 1) : Rank(a)[j] = Rank(b)[j]
  BY <1>5 DEF Rank
<1> QED
  BY <1>6 DEF Above

-----------------------------------------------------------------------------
(* The conflict index                                                      *)

Kinds == {"supersedes", "contradicts", "confirms"}

\* The index has the targets of all that this process answered.
KnownLinks ==
  \A a \in registered : \A id : Says(a, "supersedes", id) => id \in DOMAIN conflicts.supersedes

\* It has nothing that no atom says.
LinksMinted ==
  \A k \in Kinds : \A id \in DOMAIN conflicts[k] : \E a \in minted : Says(a, k, id)

\* What an ask knows to be answered is.
SortsKnow == \A t \in Asker : task[t].pc = "sort" => task[t].known \subseteq registered

Ordered(r) ==
  r.calm =>
    \A i, j \in DOMAIN r.answer :
      LET old == r.answer[i]
          new == r.answer[j]
      IN  /\ new \in r.known /\ Says(new, "supersedes", old.id)
          /\ \A a \in minted : /\ ~Says(a, "confirms", old.id)
                               /\ ~Says(a, "supersedes", new.id)
                               /\ ~Says(a, "contradicts", new.id)
          /\ new.importance > 0 \/ old.importance < 10
          => j < i
AnswersOrdered == \A t \in Asker : task[t].pc = "answered" => Ordered(task[t])

RankInv == KnownLinks /\ LinksMinted /\ SortsKnow /\ AnswersOrdered

LEMMA RankInitInv == ASSUME RecallInit PROVE RankInv
<1>1. \A k \in Kinds : DOMAIN conflicts[k] = {}
  BY DEF RecallInit, NoConflicts, Kinds
<1> QED
  BY <1>1 DEF RecallInit, RankInv, KnownLinks, LinksMinted, SortsKnow, AnswersOrdered, Quiet

\* A step that leaves the index alone and brings no ask to its sort or its answer.
LEMMA RankStays ==
  ASSUME RankInv, UNCHANGED <<conflicts, registered>>, minted \subseteq minted',
         \A t \in Asker : task'[t] = task[t] \/ task'[t].pc \notin {"sort", "answered"}
  PROVE  RankInv'
<1>1. KnownLinks' /\ LinksMinted' /\ SortsKnow'
  BY DEF RankInv, KnownLinks, LinksMinted, SortsKnow
<1>2. \A r : Ordered(r) => Ordered(r)'
  BY DEF Ordered
<1>3. AnswersOrdered'
  BY <1>2 DEF RankInv, AnswersOrdered
<1> QED
  BY <1>1, <1>3 DEF RankInv

\* One step of a thread changes its own task alone.
LEMMA OneTask ==
  ASSUME RecallInv, NEW t \in Writer \cup Asker, NEW j, Put(t, j)
  PROVE  \A u \in Writer \cup Asker : task'[u] = IF u = t THEN j ELSE task[u]
BY DEF RecallInv, Put

LEMMA WriterRank ==
  ASSUME RecallAssumption, RecallInv, RankInv, NEW t \in Writer,
         BeginRemember(t) \/ UpsertVector(t) \/ Store(t) \/ Insert(t) \/ GiveUp(t)
  PROVE  RankInv'
<1>1. \E j : Put(t, j)
  BY DEF BeginRemember, UpsertVector, Store, Insert, GiveUp
<1>2. \A u \in Asker : task'[u] = task[u]
  BY <1>1, OneTask DEF RecallAssumption
<1>3. UNCHANGED <<conflicts, registered>> /\ minted \subseteq minted'
  <2>1. CASE BeginRemember(t)
    BY <2>1 DEF BeginRemember, indexes
  <2>2. CASE UpsertVector(t) \/ Store(t) \/ Insert(t) \/ GiveUp(t)
    BY <2>2 DEF UpsertVector, Store, Insert, GiveUp, indexes, past
  <2> QED
    BY <2>1, <2>2
<1> QED
  BY <1>2, <1>3, RankStays

LEMMA RegisterRank ==
  ASSUME RecallAssumption, RecallInv, RankInv, NEW t \in Writer, Register(t)
  PROVE  RankInv'
<1> DEFINE a == task[t].atom
           targets(k) == {a.links[i].target : i \in {j \in DOMAIN a.links : a.links[j].kind = k}}
<1>1. /\ a \in minted /\ Put(t, Quiet) /\ minted' = minted
      /\ registered' = registered \cup {a}
  BY DEF Register, RecallInv, Remembering
<1>2. \A k \in Kinds : DOMAIN conflicts'[k] = DOMAIN conflicts[k] \cup targets(k)
  <2>1. SUFFICES ASSUME NEW k \in Kinds
                 PROVE  DOMAIN conflicts'[k] = DOMAIN conflicts[k] \cup targets(k)
    OBVIOUS
  <2>2. CASE k = "supersedes"
    BY <2>2 DEF Register
  <2>3. CASE k = "contradicts"
    BY <2>3 DEF Register
  <2>4. CASE k = "confirms"
    BY <2>4 DEF Register
  <2> QED
    BY <2>2, <2>3, <2>4 DEF Kinds
<1>3. \A k : \A id : id \in targets(k) <=> Says(a, k, id)
  <2>1. a.links \in Seq([kind : LinkKind, target : Nat])
    BY <1>1 DEF RecallInv, RecallTypeOK
  <2>2. \A i \in DOMAIN a.links : a.links[i] \in [kind : LinkKind, target : Nat]
    <3> DEFINE Link == [kind : LinkKind, target : Nat]
    <3>1. a.links \in Seq(Link)
      BY <2>1
    <3> HIDE DEF Link
    <3>2. \A i \in 1..Len(a.links) : a.links[i] \in Link
      BY <3>1, ElementOfSeq
    <3>3. DOMAIN a.links = 1..Len(a.links)
      BY <3>1
    <3> QED
      BY <3>2, <3>3 DEF Link
  <2> QED
    BY <2>2 DEF Says
<1>4. KnownLinks' /\ LinksMinted'
  <2>1. KnownLinks'
    <3>1. "supersedes" \in Kinds
      BY DEF Kinds
    <3> HIDE DEF targets, a
    <3> QED
      BY <1>1, <1>2, <1>3, <3>1 DEF RankInv, KnownLinks
  <2>2. LinksMinted'
    <3> HIDE DEF targets, a
    <3> QED
      BY <1>1, <1>2, <1>3 DEF RankInv, LinksMinted
  <2> QED
    BY <2>1, <2>2
<1>5. \A u \in Asker : task'[u] = task[u]
  BY <1>1, OneTask DEF RecallAssumption
<1>6. SortsKnow'
  BY <1>1, <1>5 DEF RankInv, SortsKnow
<1>7. AnswersOrdered'
  <2>1. \A r : Ordered(r) => Ordered(r)'
    BY <1>1 DEF Ordered
  <2> QED
    BY <1>5, <2>1 DEF RankInv, AnswersOrdered
<1> QED
  BY <1>4, <1>6, <1>7 DEF RankInv

\* The steps of an ask before its sort, and after its answer.
LEMMA AskerRank ==
  ASSUME RecallAssumption, RecallInv, RankInv, NEW t \in Asker,
         AskQuestion(t) \/ Scan(t) \/ Search(t) \/ Fetch(t) \/ Return(t) \/ GiveUp(t)
  PROVE  RankInv'
<1>1. \E j : Put(t, j) /\ j.pc \notin {"sort", "answered"}
  <2>1. CASE AskQuestion(t)
    <3>1. PICK q \in Questions :
            Put(t, [pc |-> IF Recent(q) = {} THEN "scan" ELSE "search", q |-> q,
                    first |-> Recent(q), more |-> {}, ids |-> {}, before |-> told])
      BY <2>1 DEF AskQuestion
    <3> DEFINE j == [pc |-> IF Recent(q) = {} THEN "scan" ELSE "search", q |-> q,
                     first |-> Recent(q), more |-> {}, ids |-> {}, before |-> told]
    <3>2. j.pc \in {"scan", "search"}
      OBVIOUS
    <3> HIDE DEF j
    <3> QED
      BY <3>1, <3>2 DEF j
  <2>2. CASE Return(t) \/ GiveUp(t)
    BY <2>2 DEF Return, GiveUp, Quiet
  <2>3. CASE Scan(t)
    <3> DEFINE j == [task[t] EXCEPT !.pc = "search", !.first = Scanned(task[t].q)]
    <3>1. task[t].pc = "scan" /\ Put(t, j)
      BY <2>3 DEF Scan
    <3>2. j.pc = "search"
      BY <3>1
    <3> HIDE DEF j
    <3> QED
      BY <3>1, <3>2
  <2>4. CASE Search(t)
    <3>1. task[t].pc = "search"
      BY <2>4 DEF Search
    <3>2. [task[t] EXCEPT !.pc = "rank"].pc = "rank"
      BY <3>1
    <3>3. \A found : [task[t] EXCEPT !.pc = "fetch", !.ids = found].pc = "fetch"
      BY <3>1
    <3>4. \/ Put(t, [task[t] EXCEPT !.pc = "rank"]) \/ Put(t, Quiet)
          \/ \E found \in Found(task[t].q) : Put(t, [task[t] EXCEPT !.pc = "fetch", !.ids = found])
      BY <2>4 DEF Search
    <3>5. Quiet.pc = "idle"
      BY DEF Quiet
    <3>6. CASE Put(t, [task[t] EXCEPT !.pc = "rank"])
      BY <3>2, <3>6
    <3>7. CASE Put(t, Quiet)
      BY <3>5, <3>7
    <3>8. CASE \E found \in Found(task[t].q) :
                 Put(t, [task[t] EXCEPT !.pc = "fetch", !.ids = found])
      <4>1. PICK found \in Found(task[t].q) :
              Put(t, [task[t] EXCEPT !.pc = "fetch", !.ids = found])
        BY <3>8
      <4> QED
        BY <3>3, <4>1
    <3> QED
      BY <3>4, <3>6, <3>7, <3>8
  <2>5. CASE Fetch(t)
    <3>1. PICK S \in Fetched(task[t].ids) :
            Put(t, [task[t] EXCEPT !.pc = "rank", !.more = S])
      BY <2>5 DEF Fetch
    <3> DEFINE j == [task[t] EXCEPT !.pc = "rank", !.more = S]
    <3>2. task[t].pc = "fetch" /\ Put(t, j)
      BY <2>5, <3>1 DEF Fetch
    <3>3. j.pc = "rank"
      BY <3>2
    <3> HIDE DEF j
    <3> QED
      BY <3>2, <3>3
  <2> QED
    BY <2>1, <2>2, <2>3, <2>4, <2>5
<1>2. \A u \in Asker : task'[u] = task[u] \/ task'[u].pc \notin {"sort", "answered"}
  BY <1>1, OneTask
<1>3. UNCHANGED <<conflicts, registered, minted>>
  BY DEF AskQuestion, Scan, Search, Fetch, Return, GiveUp, indexes, past
<1> QED
  BY <1>2, <1>3, RankStays

LEMMA GatherRank ==
  ASSUME RecallAssumption, RecallInv, RankInv, NEW t \in Asker, Gather(t)
  PROVE  RankInv'
<1>1. PICK j : Put(t, j) /\ j.pc = "sort" /\ j.known = registered
  <2>1. PICK S : Put(t, [pc |-> "sort", q |-> task[t].q, before |-> task[t].before,
                         known |-> registered, candidates |-> S,
                         standing |-> [a \in S |-> Standing(a)]])
    BY DEF Gather
  <2> QED
    BY <2>1
<1>2. UNCHANGED <<conflicts, registered, minted>>
  BY DEF Gather, indexes, past
<1>3. \A u \in Asker : task'[u] = IF u = t THEN j ELSE task[u]
  BY <1>1, OneTask
<1>4. KnownLinks' /\ LinksMinted'
  BY <1>2 DEF RankInv, KnownLinks, LinksMinted
<1>5. SortsKnow'
  BY <1>1, <1>2, <1>3 DEF RankInv, SortsKnow
<1>6. AnswersOrdered'
  <2>1. \A r : Ordered(r) => Ordered(r)'
    BY <1>2 DEF Ordered
  <2> QED
    BY <1>1, <1>3, <2>1 DEF RankInv, AnswersOrdered
<1> QED
  BY <1>4, <1>5, <1>6 DEF RankInv

\* The sort that nothing disturbed ranks by what the index has.
LEMMA AnswerRank ==
  ASSUME RecallAssumption, RecallInv, RankInv, NEW t \in Asker, Answer(t)
  PROVE  RankInv'
<1> DEFINE S == task[t].candidates
<1>1. /\ task[t].pc = "sort" /\ task[t].known \subseteq registered /\ Sorting(task[t])
      /\ UNCHANGED <<conflicts, registered, minted>>
  BY DEF Answer, RankInv, SortsKnow, RecallInv, Asking, Proper, indexes, past
<1>2. PICK s \in Orders(S), c \in BOOLEAN :
        /\ c => s \in Ranked(S)
        /\ Put(t, [pc |-> "answered", q |-> task[t].q, before |-> task[t].before,
                   known |-> task[t].known, calm |-> c, answer |-> s])
  BY AnswerIs
<1> DEFINE r == [pc |-> "answered", q |-> task[t].q, before |-> task[t].before,
                 known |-> task[t].known, calm |-> c, answer |-> s]
<1>3. /\ r.pc = "answered" /\ r.known = task[t].known /\ r.calm = c /\ r.answer = s /\ Put(t, r)
  BY <1>2
<1> HIDE DEF r
<1>4. Ordered(r)
  <2>1. SUFFICES ASSUME c, NEW i \in DOMAIN s, NEW j \in DOMAIN s,
                        s[j] \in task[t].known, Says(s[j], "supersedes", s[i].id),
                        \A a \in minted : /\ ~Says(a, "confirms", s[i].id)
                                          /\ ~Says(a, "supersedes", s[j].id)
                                          /\ ~Says(a, "contradicts", s[j].id),
                        s[j].importance > 0 \/ s[i].importance < 10
                 PROVE  j < i
    BY <1>3 DEF Ordered
  <2>2. /\ i \in Nat /\ j \in Nat /\ s[i] \in minted /\ s[j] \in minted
    <3>1. /\ S \subseteq minted /\ Cardinality(S) \in Nat /\ s \in [1..Cardinality(S) -> S]
      BY <1>1, FS_CardinalityType DEF Sorting, Of, Orders
    <3> QED
      BY <3>1
  <2>3. s[i].id \in DOMAIN conflicts.supersedes
    BY <1>1, <2>1 DEF RankInv, KnownLinks
  <2>4. /\ s[i].id \notin DOMAIN conflicts.confirms
        /\ s[j].id \notin DOMAIN conflicts.supersedes
        /\ s[j].id \notin DOMAIN conflicts.contradicts
    BY <2>1 DEF RankInv, LinksMinted, Kinds
  <2>5. Above(s[j], s[i])
    BY <2>1, <2>2, <2>3, <2>4, SupersededIsBelow DEF Count
  <2>6. ~(i < j)
    BY <1>2, <2>1, <2>5 DEF Ranked
  <2>7. i # j
    BY <2>3, <2>4
  <2> QED
    BY <2>2, <2>6, <2>7
<1>5. \A u \in Asker : task'[u] = IF u = t THEN r ELSE task[u]
  BY <1>3, OneTask
<1>6. KnownLinks' /\ LinksMinted'
  BY <1>1 DEF RankInv, KnownLinks, LinksMinted
<1>7. SortsKnow'
  BY <1>1, <1>3, <1>5 DEF RankInv, SortsKnow
<1>8. AnswersOrdered'
  <2>1. \A x : Ordered(x) => Ordered(x)'
    BY <1>1 DEF Ordered
  <2> QED
    BY <1>4, <1>5, <2>1 DEF RankInv, AnswersOrdered
<1> QED
  BY <1>6, <1>7, <1>8 DEF RankInv

LEMMA RankStep ==
  ASSUME RecallAssumption, RecallInv, RankInv, [RecallNext]_recalls
  PROVE  RankInv'
<1>1. CASE Evict \/ UNCHANGED recalls
  <2>1. UNCHANGED <<conflicts, registered, minted, task>>
    BY <1>1 DEF Evict, recalls, indexes, past
  <2> QED
    BY <2>1, RankStays
<1>2. CASE ProcessDies
  <2>1. /\ \A k \in Kinds : DOMAIN conflicts'[k] = {}
        /\ registered' = {} /\ \A t \in Asker : task'[t] = Quiet
    BY <1>2 DEF ProcessDies, NoConflicts, Kinds
  <2> QED
    BY <2>1 DEF RankInv, KnownLinks, LinksMinted, SortsKnow, AnswersOrdered, Quiet
<1> QED
  BY <1>1, <1>2, WriterRank, RegisterRank, AskerRank, GatherRank, AnswerRank DEF RecallNext

(* For any number of writers and askers, any links and importances: what   *)
(* an atom of the answer supersedes comes after it, if remember had        *)
(* answered for that atom before the ranking began and no register changed *)
(* the scores under the sort (ask, ConflictIndex::register, rank_score).   *)
THEOREM CurrentFirstCorrect ==
  ASSUME RecallAssumption PROVE RecallSpec => []CurrentFirst
<1>1. RecallInit => RankInv
  BY RankInitInv
<1>2. RecallInv /\ RankInv /\ [RecallNext]_recalls => RankInv'
  BY RankStep
<1>3. RankInv => CurrentFirst
  BY DEF RankInv, AnswersOrdered, Ordered, CurrentFirst, Answered
<1> QED
  BY <1>1, <1>2, <1>3, RecallInvariant, PTL DEF RecallSpec
=============================================================================
