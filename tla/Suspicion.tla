----------------------------- MODULE Suspicion ------------------------------
(***************************************************************************)
(* Which atoms remember sends to quarantine: should_quarantine and         *)
(* record_suspicion of crates/dwbase-engine/src/lib.rs. remember reads the *)
(* clock long before record_suspicion takes the lock of the map, so two    *)
(* calls of one worker may be recorded in the reverse order of their       *)
(* instants; and a call is recorded whatever comes of it.                  *)
(*                                                                         *)
(* Abstraction: a payload is "plain" or "impossible".                      *)
(***************************************************************************)
EXTENDS Naturals, Sequences, FiniteSets

CONSTANTS
  Submitter, WorkerKey,
  LowTrust,   \* the workers whose name starts with "lowtrust"
  Second,     \* the window that is kept
  Limit,      \* calls within it that are no spam: 5
  MaxSeconds,    \* bound: ticks of the clock
  MaxRecorded    \* bound: calls of each worker

SuspicionAssumption ==
  /\ LowTrust \subseteq WorkerKey /\ Second \in Nat /\ Limit \in Nat
  /\ MaxSeconds \in Nat /\ MaxRecorded \in Nat

VARIABLES
  clock,
  suspicions, \* the instants kept of each worker
  entered,    \* calls that have read the clock and not taken the lock
  recorded,   \* history: the instants of each worker's calls, as recorded
  judged      \* history: the last call recorded, and whether it was quarantined

suspects == <<clock, suspicions, entered, recorded, judged>>

Judged == [worker : WorkerKey, instant : Nat, payload : {"plain", "impossible"}, heavy : BOOLEAN]
NoCall == << >>

\* A faulty variant of the definition below: what is a second old goes too.
KeptShort(s, instant) ==
  LET Old(i) == instant >= s[i] + Second
      gone   == {n \in 0..Len(s) : \A i \in 1..n : Old(i)}
  IN  SubSeq(s, 1 + CHOOSE n \in gone : \A m \in gone : m <= n, Len(s))

\* What is older than the window goes from the front, up to the first that is not.
Kept(s, instant) ==
  LET Old(i) == instant > s[i] + Second
      gone   == {n \in 0..Len(s) : \A i \in 1..n : Old(i)}
  IN  SubSeq(s, 1 + CHOOSE n \in gone : \A m \in gone : m <= n, Len(s))

low_trust(c) == c.worker \in LowTrust /\ c.heavy
should_quarantine(c, n) == n > Limit \/ c.payload = "impossible" \/ low_trust(c)

SuspicionInit ==
  /\ clock = 0
  /\ suspicions = [w \in WorkerKey |-> << >>] /\ recorded = [w \in WorkerKey |-> << >>]
  /\ entered = [t \in Submitter |-> NoCall] /\ judged = NoCall

SecondPasses ==
  /\ clock < MaxSeconds /\ clock' = clock + 1
  /\ UNCHANGED <<suspicions, entered, recorded, judged>>

ReadClock(t) ==
  /\ entered[t] = NoCall
  /\ \E c \in [worker : WorkerKey, instant : {clock}, payload : {"plain", "impossible"}, heavy : BOOLEAN] :
       Len(recorded[c.worker]) < MaxRecorded /\ entered' = [entered EXCEPT ![t] = c]
  /\ UNCHANGED <<clock, suspicions, recorded, judged>>

record_suspicion(t) ==
  LET c    == entered[t]
      kept == Kept(Append(suspicions[c.worker], c.instant), c.instant)
  IN
  /\ c # NoCall
  /\ suspicions' = [suspicions EXCEPT ![c.worker] = kept]
  /\ recorded' = [recorded EXCEPT ![c.worker] = Append(@, c.instant)]
  /\ judged' = [call |-> c, quarantined |-> should_quarantine(c, Len(kept))]
  /\ entered' = [entered EXCEPT ![t] = NoCall]
  /\ UNCHANGED clock

SuspicionNext == SecondPasses \/ \E t \in Submitter : ReadClock(t) \/ record_suspicion(t)
SuspicionSpec == SuspicionInit /\ [][SuspicionNext]_suspects

-----------------------------------------------------------------------------
(* What is kept of a worker's calls is the last of what was recorded.      *)
SuspicionTypeOK ==
  /\ clock \in Nat /\ entered \in [Submitter -> Judged \cup {NoCall}]
  /\ \A w \in WorkerKey :
       \E n \in 0..Len(recorded[w]) : suspicions[w] = SubSeq(recorded[w], n + 1, Len(recorded[w]))

(* In whatever order the threads take the lock: a worker with more than    *)
(* Limit recorded calls in the second up to its latest one is quarantined, *)
(* and one that is quarantined for nothing else has recorded more than     *)
(* Limit since a call no more than a second before this one.               *)
SpamCaught ==
  judged # NoCall =>
    LET c == judged.call
        r == recorded[c.worker]
        n == Len(r)
        Latest(i) == \A j \in 1..n : r[j] <= r[i] + Second
    IN  /\ Cardinality({i \in 1..n : Latest(i)}) > Limit => judged.quarantined
        /\ judged.quarantined /\ c.payload = "plain" /\ ~low_trust(c)
             => \E i \in 1..n : c.instant <= r[i] + Second /\ n - i + 1 > Limit
=============================================================================
