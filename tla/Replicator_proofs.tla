-------------------------- MODULE Replicator_proofs --------------------------
(***************************************************************************)
(* Theorems about Replicator, for any nodes, patterns, bounds and faults.  *)
(***************************************************************************)
EXTENDS Replicator, TLAPS, FiniteSetTheorems

PatternSets == UNION {Patterns[n] : n \in Node}
Files == [whole : BOOLEAN, records : SUBSET Record]

Typed ==
  /\ up \in [Node -> BOOLEAN] /\ self \in [Node -> PatternSets]
  /\ subs \in [Node -> SUBSET Record] /\ file \in [Node -> Files]
  /\ unsaved \in [Node -> SUBSET {"handler", "sender"}]
  /\ intents \subseteq Intent

Agrees(n) == up[n] /\ unsaved[n] = {} => Load(file[n]) = Live(subs[n])

IInv == Typed /\ \A n \in Node : Agrees(n)

-----------------------------------------------------------------------------
(* What a record does as it ages.                                          *)
LEMMA RecordIs == Record = [peer : Node, patterns : PatternSets, age : 0..Expiry + 1]
  BY DEF Record, PatternSets

LEMMA OlderRecord ==
  ASSUME NEW r \in Record
  PROVE  /\ [r EXCEPT !.age = Older(r.age, Expiry + 1)] \in Record
         /\ [r EXCEPT !.age = Older(r.age, Expiry + 1)].age <= Expiry => r.age <= Expiry
<1>1. Expiry \in Nat
  BY ConstantsAssumption
<1>2. r.age \in 0..Expiry + 1
  BY RecordIs
<1>3. Older(r.age, Expiry + 1) \in 0..Expiry + 1
      /\ (Older(r.age, Expiry + 1) <= Expiry => r.age <= Expiry)
  BY <1>1, <1>2 DEF Older
<1>4. [r EXCEPT !.age = Older(r.age, Expiry + 1)]
        = [peer |-> r.peer, patterns |-> r.patterns, age |-> Older(r.age, Expiry + 1)]
  BY RecordIs
<1> QED
  BY <1>3, <1>4, RecordIs

LEMMA AgedRecords ==
  ASSUME NEW R \in SUBSET Record
  PROVE  /\ Aged(R, Expiry + 1) \in SUBSET Record
         /\ Live(Aged(R, Expiry + 1)) = Live(Aged(Live(R), Expiry + 1))
<1>1. Aged(R, Expiry + 1) \in SUBSET Record
  BY OlderRecord DEF Aged
<1>2. Live(Aged(R, Expiry + 1)) \subseteq Live(Aged(Live(R), Expiry + 1))
  BY OlderRecord DEF Aged, Live
<1>3. Live(Aged(Live(R), Expiry + 1)) \subseteq Live(Aged(R, Expiry + 1))
  BY DEF Aged, Live
<1> QED
  BY <1>1, <1>2, <1>3

LEMMA LiveRecords ==
  ASSUME NEW R \in SUBSET Record PROVE Live(R) \in SUBSET Record /\ Live(Live(R)) = Live(R)
  BY DEF Live

LEMMA LoadIs ==
  ASSUME NEW f \in Files
  PROVE  /\ Load(f) \in SUBSET Record /\ Live(Load(f)) = Load(f)
         /\ f.whole => Load(f) = Live(f.records)
         /\ ~f.whole => Load(f) = {}
<1>1. f.whole \in BOOLEAN /\ f.records \in SUBSET Record
  BY DEF Files
<1>2. Live({}) = {}
  BY DEF Live
<1> QED
  BY <1>1, <1>2, LiveRecords DEF Load

LEMMA WholeIs ==
  ASSUME NEW R \in SUBSET Record
  PROVE  Whole(R) \in Files /\ Load(Whole(R)) = Live(R)
  BY DEF Whole, Files, Load

-----------------------------------------------------------------------------
LEMMA IInvInit == ASSUME Init PROVE IInv
<1>1. \A n \in Node : file[n] = Whole({}) /\ subs[n] = {}
  BY DEF Init
<1>2. {} \in SUBSET Record
  OBVIOUS
<1>3. \A n \in Node : Agrees(n)
  BY <1>1, <1>2, WholeIs DEF Agrees
<1>4. Typed
  BY <1>2, WholeIs DEF Init, Typed, PatternSets
<1> QED
  BY <1>3, <1>4 DEF IInv

\* A step that concerns neither tables nor files.
LEMMA QuietStep ==
  ASSUME IInv, UNCHANGED <<up, self, subs, file, unsaved>>, intents' \subseteq Intent
  PROVE  IInv'
  BY DEF IInv, Typed, Agrees

\* One node's table, file, or both are changed.
LEMMA OneNode ==
  ASSUME IInv, Typed', NEW n \in Node, Agrees(n)',
         \A m \in Node \ {n} : /\ up'[m] = up[m] /\ unsaved'[m] = unsaved[m]
                               /\ file'[m] = file[m] /\ subs'[m] = subs[m]
  PROVE  IInv'
  BY DEF IInv, Agrees

LEMMA AnnounceStep == ASSUME IInv, NEW n \in Node, Announce(n) PROVE IInv'
<1>1. self[n] \in PatternSets /\ intents \subseteq Intent
  BY DEF IInv, Typed
<1>2. \A m \in Node : [from |-> n, to |-> m, patterns |-> self[n]] \in Intent
  BY <1>1 DEF Intent, PatternSets
<1>3. intents' \subseteq Intent
  BY <1>1, <1>2 DEF Announce
<1> QED
  BY <1>3, QuietStep DEF Announce, life, table

LEMMA HearStep == ASSUME IInv, NEW m \in intents, Hear(m) PROVE IInv'
<1> DEFINE n == m.to
           r == [peer |-> m.from, patterns |-> m.patterns, age |-> 0]
<1>1. n \in Node /\ m.from \in Node /\ m.patterns \in PatternSets
  BY DEF IInv, Typed, Intent, PatternSets
<1>2. r \in Record
  BY <1>1, ConstantsAssumption, RecordIs
<1>3. /\ subs' = [subs EXCEPT ![n] = Upsert(@, r)]
      /\ unsaved' = [unsaved EXCEPT ![n] = @ \cup {"handler"}]
      /\ intents' \subseteq intents /\ UNCHANGED <<up, self, file>>
  BY DEF Hear, life
<1> HIDE DEF r, n
<1>4. Upsert(subs[n], r) \in SUBSET Record
  BY <1>1, <1>2 DEF Upsert, IInv, Typed
<1>5. Typed'
  BY <1>1, <1>3, <1>4 DEF IInv, Typed
<1>6. unsaved'[n] # {}
  BY <1>1, <1>3 DEF IInv, Typed
<1>7. \A k \in Node \ {n} : unsaved'[k] = unsaved[k] /\ subs'[k] = subs[k]
  BY <1>3 DEF IInv, Typed
<1>8. ASSUME NEW k \in Node PROVE Agrees(k)'
  <2>1. CASE k = n
    BY <1>6, <2>1 DEF Agrees
  <2>2. CASE k # n
    BY <1>3, <1>7, <2>2 DEF IInv, Agrees
  <2> QED
    BY <2>1, <2>2
<1> QED
  BY <1>5, <1>8 DEF IInv

LEMMA PersistStep == ASSUME IInv, NEW n \in Node, Persist(n) PROVE IInv'
<1>1. /\ \E who \in unsaved[n] : unsaved' = [unsaved EXCEPT ![n] = @ \ {who}]
      /\ file' = [file EXCEPT ![n] = Whole(subs[n])]
      /\ UNCHANGED <<up, self, subs, intents>>
  BY DEF Persist, life
<1>2. subs[n] \in SUBSET Record
  BY DEF IInv, Typed
<1>3. Whole(subs[n]) \in Files /\ Load(Whole(subs[n])) = Live(subs[n])
  BY <1>2, WholeIs
<1>4. Typed'
  BY <1>1, <1>3 DEF IInv, Typed
<1>5. file'[n] = Whole(subs[n])
      /\ \A k \in Node \ {n} : unsaved'[k] = unsaved[k] /\ file'[k] = file[k]
  BY <1>1 DEF IInv, Typed
<1>6. Agrees(n)'
  BY <1>1, <1>3, <1>5 DEF Agrees
<1> QED
  BY <1>1, <1>4, <1>5, <1>6, OneNode

LEMMA PruneStep ==
  ASSUME IInv, NEW n \in Node, PruneTable(n), UNCHANGED <<up, self, intents>>
  PROVE  IInv'
<1>1. subs[n] \in SUBSET Record /\ Live(subs[n]) \in SUBSET Record
      /\ Live(Live(subs[n])) = Live(subs[n])
  BY LiveRecords DEF IInv, Typed
<1>2. subs' = [subs EXCEPT ![n] = Live(subs[n])] /\ UNCHANGED file
  BY DEF PruneTable
<1>3. unsaved' = IF Live(subs[n]) = subs[n] THEN unsaved
                 ELSE [unsaved EXCEPT ![n] = @ \cup {"sender"}]
  BY DEF PruneTable
<1>4. Typed'
  BY <1>1, <1>2, <1>3 DEF IInv, Typed
<1>5. subs'[n] = Live(subs[n])
      /\ \A k \in Node \ {n} : unsaved'[k] = unsaved[k] /\ subs'[k] = subs[k]
  BY <1>2, <1>3 DEF IInv, Typed
<1>6. Agrees(n)'
  <2>1. CASE Live(subs[n]) = subs[n]
    BY <1>2, <1>3, <1>5, <2>1 DEF IInv, Agrees
  <2>2. CASE Live(subs[n]) # subs[n]
    <3>1. "sender" \in unsaved'[n]
      BY <1>3, <2>2 DEF IInv, Typed
    <3> QED
      BY <3>1 DEF Agrees
  <2> QED
    BY <2>1, <2>2
<1> QED
  BY <1>2, <1>4, <1>5, <1>6, OneNode

LEMMA CrashStep == ASSUME IInv, NEW n \in Node, Crash(n) PROVE IInv'
<1>1. /\ up' = [up EXCEPT ![n] = FALSE]
      /\ subs' = [subs EXCEPT ![n] = {}] /\ unsaved' = [unsaved EXCEPT ![n] = {}]
      /\ UNCHANGED <<self, intents>>
      /\ \/ UNCHANGED file
         \/ \E ok \in BOOLEAN :
              file' = [file EXCEPT ![n] = [whole |-> ok, records |-> IF ok THEN subs[n] ELSE {}]]
  BY DEF Crash
<1>2. subs[n] \in SUBSET Record
  BY DEF IInv, Typed
<1>3. \A ok \in BOOLEAN : [whole |-> ok, records |-> IF ok THEN subs[n] ELSE {}] \in Files
  BY <1>2 DEF Files
<1>4. file' \in [Node -> Files] /\ \A k \in Node \ {n} : file'[k] = file[k]
  BY <1>1, <1>3 DEF IInv, Typed
<1>5. Typed'
  BY <1>1, <1>4 DEF IInv, Typed
<1>6. /\ ~up'[n]
      /\ \A k \in Node \ {n} : up'[k] = up[k] /\ unsaved'[k] = unsaved[k] /\ subs'[k] = subs[k]
  BY <1>1 DEF IInv, Typed
<1>7. Agrees(n)'
  BY <1>6 DEF Agrees
<1> QED
  BY <1>4, <1>5, <1>6, <1>7, OneNode

LEMMA StartStep == ASSUME IInv, NEW n \in Node, Start(n) PROVE IInv'
<1>1. /\ up' = [up EXCEPT ![n] = TRUE]
      /\ \E s \in Patterns[n] : self' = [self EXCEPT ![n] = s]
      /\ subs' = [subs EXCEPT ![n] = Load(file[n])]
      /\ UNCHANGED <<file, unsaved, intents>>
  BY DEF Start
<1>2. Load(file[n]) \in SUBSET Record /\ Live(Load(file[n])) = Load(file[n])
  BY LoadIs DEF IInv, Typed
<1>3. self' \in [Node -> PatternSets]
  BY <1>1 DEF IInv, Typed, PatternSets
<1>4. Typed'
  BY <1>1, <1>2, <1>3 DEF IInv, Typed
<1>5. subs'[n] = Load(file[n]) /\ \A k \in Node \ {n} : up'[k] = up[k] /\ subs'[k] = subs[k]
  BY <1>1 DEF IInv, Typed
<1>6. Agrees(n)'
  BY <1>1, <1>2, <1>5 DEF Agrees
<1> QED
  BY <1>1, <1>4, <1>5, <1>6, OneNode

(* Time passes: the file's records expire as the table's do.               *)
LEMMA TickStep == ASSUME IInv, Tick PROVE IInv'
<1>1. /\ subs' = [n \in Node |-> Aged(subs[n], Expiry + 1)]
      /\ file' = [n \in Node |-> [file[n] EXCEPT !.records = Aged(@, Expiry + 1)]]
      /\ UNCHANGED <<up, self, unsaved, intents>>
  BY DEF Tick, life
<1>2. ASSUME NEW n \in Node
      PROVE  /\ subs[n] \in SUBSET Record /\ subs'[n] = Aged(subs[n], Expiry + 1)
             /\ file[n] \in Files /\ file'[n].whole = file[n].whole
             /\ file'[n].records = Aged(file[n].records, Expiry + 1)
             /\ file[n].records \in SUBSET Record
             /\ file'[n] = [whole |-> file[n].whole, records |-> Aged(file[n].records, Expiry + 1)]
  <2>1. file[n] \in Files /\ subs[n] \in SUBSET Record
    BY DEF IInv, Typed
  <2>2. file'[n] = [file[n] EXCEPT !.records = Aged(@, Expiry + 1)]
        /\ subs'[n] = Aged(subs[n], Expiry + 1)
    BY <1>1
  <2> QED
    BY <2>1, <2>2 DEF Files
<1>3. ASSUME NEW n \in Node PROVE subs'[n] \in SUBSET Record /\ file'[n] \in Files
  <2>1. Aged(subs[n], Expiry + 1) \in SUBSET Record
        /\ Aged(file[n].records, Expiry + 1) \in SUBSET Record
    BY <1>2, AgedRecords
  <2>2. file[n].whole \in BOOLEAN
    BY <1>2 DEF Files
  <2>3. [whole |-> file[n].whole, records |-> Aged(file[n].records, Expiry + 1)] \in Files
    BY ONLY <2>1, <2>2 DEF Files
  <2> QED
    BY <1>2, <2>1, <2>3
<1>4. Typed'
  <2>1. subs' \in [Node -> SUBSET Record]
    BY <1>1, <1>3
  <2>2. file' \in [Node -> Files]
    BY <1>1, <1>3
  <2> QED
    BY <1>1, <2>1, <2>2 DEF IInv, Typed
<1>5. ASSUME NEW n \in Node, up[n], unsaved[n] = {} PROVE Load(file'[n]) = Live(subs'[n])
  <2>1. Load(file[n]) = Live(subs[n])
    BY <1>5 DEF IInv, Agrees
  <2>2. Live(subs'[n]) = Live(Aged(Load(file[n]), Expiry + 1))
    BY <1>2, <2>1, AgedRecords
  <2>3. CASE file[n].whole
    <3>1. Load(file'[n]) = Live(file'[n].records) /\ Load(file[n]) = Live(file[n].records)
      BY <1>2, <1>3, <2>3, LoadIs
    <3> QED
      BY <1>2, <2>2, <3>1, AgedRecords
  <2>4. CASE ~file[n].whole
    <3>1. Load(file'[n]) = {} /\ Load(file[n]) = {}
      BY <1>2, <1>3, <2>4, LoadIs
    <3>2. Live(Aged({}, Expiry + 1)) = {}
      BY DEF Live, Aged
    <3> QED
      BY <2>2, <3>1, <3>2
  <2> QED
    BY <2>3, <2>4
<1> QED
  BY <1>1, <1>4, <1>5 DEF IInv, Agrees

LEMMA IInvStep == ASSUME IInv, [Next]_vars PROVE IInv'
<1> USE DEF life, table
<1>0. intents \subseteq Intent
  BY DEF IInv, Typed
<1>1. CASE UNCHANGED vars
  BY <1>0, <1>1, QuietStep DEF vars
<1>2. ASSUME NEW n \in Node,
             \/ Collect(n) \/ SendOne(n) \/ EndReplicate(n) \/ Poll(n) \/ PollAtomBatch(n)
      PROVE  IInv'
  BY <1>0, <1>2, QuietStep DEF Collect, SendOne, EndReplicate, Poll, PollOne, PollAtomBatch
<1>3. ASSUME NEW n \in Node, Snapshot(n) \/ BeginReplicate(n) PROVE IInv'
  BY <1>3, PruneStep DEF Snapshot, BeginReplicate
<1>4. ASSUME NEW n \in Node, NEW p \in Node, SendGarbled(n, p) PROVE IInv'
  BY <1>0, <1>4, QuietStep DEF SendGarbled
<1>5. ASSUME NEW m \in mail, Receive(m) PROVE IInv'
  BY <1>0, <1>5, QuietStep DEF Receive
<1>6. ASSUME NEW m \in mail \cup intents, Lose(m) PROVE IInv'
  <2>1. UNCHANGED <<up, self, subs, file, unsaved>> /\ intents' \subseteq Intent
    BY <1>0, <1>6 DEF Lose
  <2> QED
    BY <2>1, QuietStep
<1>7. CASE Tick
  BY <1>7, TickStep
<1> QED
  BY <1>1, <1>2, <1>3, <1>4, <1>5, <1>6, <1>7, AnnounceStep, HearStep, PersistStep, CrashStep,
     StartStep DEF Next

(* However the handler's and the sender's changes of a table interleave    *)
(* with their writes, and whatever expires, a file that nobody is about to *)
(* write says what the table says: upsert and prune mark the table unsaved *)
(* before persist takes it as it is, and load_from_disk prunes.            *)
THEOREM FileAgreesCorrect == Spec => []FileAgrees
<1>1. Init => IInv
  BY IInvInit
<1>2. IInv /\ [Next]_vars => IInv'
  BY IInvStep
<1>3. IInv => FileAgrees
  BY DEF IInv, Agrees, FileAgrees
<1> QED
  BY <1>1, <1>2, <1>3, PTL DEF Spec

-----------------------------------------------------------------------------
(* Types: what a node sends, and what it receives.                         *)
Entry == [id : Envelope, age : 0..Window + 1]
Taking == [id : Envelope, age : 0..Window + 1, wanted : BOOLEAN]
Job == [pc : {"idle", "collect", "send"}, atom : Atom \cup {Garbled}, todo : SUBSET Node]

SendTyped ==
  /\ announced \in [Node -> 0..Expiry] /\ heard \in [Node -> SUBSET Record]
  /\ pending \in [Node -> SUBSET Atom] /\ job \in [Node -> Job]
  /\ tokens \in [Node -> 0..Rate] /\ backoff \in [Node -> 0..Backoff]
  /\ mail \subseteq Envelope /\ faults \in 0..MaxFaults

ReceiveTyped ==
  /\ rx \in [Node -> Seq(Envelope)] /\ inbox \in [Node -> Seq(Envelope)]
  /\ \A n \in Node : Len(inbox[n]) <= MaxInbox
  /\ seen \in [Node -> [Node -> Seq(Entry)]] /\ took \in [Node -> Seq(Taking)]
  /\ lost \in [Node -> Nat] /\ handed \in [Node -> Nat]

LEMMA TypeOKIs == TypeOK <=> Typed /\ SendTyped /\ ReceiveTyped
  BY DEF TypeOK, Typed, SendTyped, ReceiveTyped, Files, PatternSets, Job, Entry, Taking

LEMMA OlderIn ==
  ASSUME NEW cap \in Nat, NEW age \in 0..cap PROVE Older(age, cap) \in 0..cap
  BY DEF Older

LEMMA AgedEntries ==
  ASSUME NEW s \in Seq(Entry)
  PROVE  /\ AgedSeq(s, Window + 1) \in Seq(Entry) /\ Len(AgedSeq(s, Window + 1)) = Len(s)
         /\ \A i \in 1..Len(s) : /\ AgedSeq(s, Window + 1)[i].id = s[i].id
                                 /\ AgedSeq(s, Window + 1)[i].age = Older(s[i].age, Window + 1)
<1> DEFINE t == AgedSeq(s, Window + 1)
<1>1. t = [i \in 1..Len(s) |-> [s[i] EXCEPT !.age = Older(s[i].age, Window + 1)]]
  BY DEF AgedSeq
<1>2. ASSUME NEW i \in 1..Len(s)
      PROVE  /\ t[i] \in Entry /\ t[i].id = s[i].id /\ t[i].age = Older(s[i].age, Window + 1)
  <2>1. s[i] \in Entry
    OBVIOUS
  <2>2. Older(s[i].age, Window + 1) \in 0..Window + 1
    <3>1. Window + 1 \in Nat
      BY ConstantsAssumption
    <3>2. s[i].age \in 0..Window + 1
      BY <2>1 DEF Entry
    <3> QED
      BY <3>1, <3>2, OlderIn
  <2>3. t[i] = [id |-> s[i].id, age |-> Older(s[i].age, Window + 1)]
    BY <1>1, <2>1 DEF Entry
  <2> QED
    BY <2>1, <2>2, <2>3 DEF Entry
<1>3. t \in Seq(Entry) /\ Len(t) = Len(s)
  BY <1>1, <1>2
<1> QED
  BY <1>2, <1>3

LEMMA AgedTakings ==
  ASSUME NEW s \in Seq(Taking)
  PROVE  /\ AgedSeq(s, Window + 1) \in Seq(Taking) /\ Len(AgedSeq(s, Window + 1)) = Len(s)
         /\ \A i \in 1..Len(s) : /\ AgedSeq(s, Window + 1)[i].id = s[i].id
                                 /\ AgedSeq(s, Window + 1)[i].wanted = s[i].wanted
                                 /\ AgedSeq(s, Window + 1)[i].age = Older(s[i].age, Window + 1)
<1> DEFINE t == AgedSeq(s, Window + 1)
<1>1. t = [i \in 1..Len(s) |-> [s[i] EXCEPT !.age = Older(s[i].age, Window + 1)]]
  BY DEF AgedSeq
<1>2. ASSUME NEW i \in 1..Len(s)
      PROVE  /\ t[i] \in Taking /\ t[i].id = s[i].id /\ t[i].wanted = s[i].wanted
             /\ t[i].age = Older(s[i].age, Window + 1)
  <2>1. s[i] \in Taking
    OBVIOUS
  <2>2. Older(s[i].age, Window + 1) \in 0..Window + 1
    <3>1. Window + 1 \in Nat
      BY ConstantsAssumption
    <3>2. s[i].age \in 0..Window + 1
      BY <2>1 DEF Taking
    <3> QED
      BY <3>1, <3>2, OlderIn
  <2>3. t[i] = [id |-> s[i].id, age |-> Older(s[i].age, Window + 1), wanted |-> s[i].wanted]
    BY <1>1, <2>1 DEF Taking
  <2> QED
    BY <2>1, <2>2, <2>3 DEF Taking
<1>3. t \in Seq(Taking) /\ Len(t) = Len(s)
  BY <1>1, <1>2
<1> QED
  BY <1>2, <1>3

LEMMA LastFront ==
  ASSUME NEW S, NEW s \in Seq(S), s # << >>
  PROVE  Last(s) \in S /\ Front(s) \in Seq(S)
  BY DEF Last, Front

LEMMA DropFirst ==
  ASSUME NEW S, NEW s \in Seq(S), NEW m \in 0..Len(s)
  PROVE  /\ SubSeq(s, m + 1, Len(s)) \in Seq(S)
         /\ Len(SubSeq(s, m + 1, Len(s))) = Len(s) - m
         /\ \A k \in 1..Len(s) - m : SubSeq(s, m + 1, Len(s))[k] = s[m + k]
  OBVIOUS

LEMMA RememberedType ==
  ASSUME NEW s \in Seq(Entry)
  PROVE  /\ Remembered(s) \in Seq(Entry)
         /\ \E m \in 0..Len(s) :
              /\ m = Cardinality({i \in DOMAIN s : s[i].age > Window})
              /\ Len(Remembered(s)) = Len(s) - m
              /\ \A k \in 1..Len(s) - m : Remembered(s)[k] = s[m + k]
<1> DEFINE old == Cardinality({i \in DOMAIN s : s[i].age > Window})
<1>1. IsFiniteSet(1..Len(s)) /\ Cardinality(1..Len(s)) = Len(s) /\ Len(s) \in Nat
  <2>1. Len(s) \in Nat
    OBVIOUS
  <2> HIDE DEF old
  <2> QED
    BY <2>1, FS_Interval
<1>2. {i \in DOMAIN s : s[i].age > Window} \subseteq 1..Len(s)
  OBVIOUS
<1>3. old \in 0..Len(s)
  BY <1>1, <1>2, FS_Subset, FS_CardinalityType
<1>4. Remembered(s) = SubSeq(s, old + 1, Len(s))
  BY DEF Remembered
<1>5. old = Cardinality({i \in DOMAIN s : s[i].age > Window})
  OBVIOUS
<1> HIDE DEF old
<1>6. /\ Remembered(s) \in Seq(Entry) /\ Len(Remembered(s)) = Len(s) - old
      /\ \A k \in 1..Len(s) - old : Remembered(s)[k] = s[old + k]
  BY <1>3, <1>4, DropFirst
<1> QED
  BY <1>3, <1>5, <1>6

LEMMA NotedType ==
  ASSUME NEW s \in Seq(Entry), NEW e \in Envelope
  PROVE  Noted(s, e) \in Seq(Entry)
<1> DEFINE more == Append(s, [id |-> e, age |-> 0])
<1>1. [id |-> e, age |-> 0] \in Entry
  BY ConstantsAssumption DEF Entry
<1>2. more \in Seq(Entry) /\ more # << >>
  BY <1>1
<1> HIDE DEF more
<1>3. Tail(more) \in Seq(Entry)
  BY <1>2
<1> QED
  BY <1>2, <1>3 DEF Noted, more

LEMMA PushType ==
  ASSUME NEW box \in Seq(Envelope), NEW e \in Envelope, Len(box) <= MaxInbox
  PROVE  /\ Push(box, e).box \in Seq(Envelope) /\ Len(Push(box, e).box) <= MaxInbox
         /\ Push(box, e).dropped \in Nat
<1>1. MaxInbox \in Nat \ {0}
  BY ConstantsAssumption
<1>2. CASE Len(box) >= MaxInbox
  <2>1. box # << >>
    BY <1>1, <1>2
  <2>2. Push(box, e) = [box |-> Append(Tail(box), e), dropped |-> 1]
    BY <1>2 DEF Push
  <2>3. Tail(box) \in Seq(Envelope) /\ Len(Tail(box)) = Len(box) - 1
    BY <2>1
  <2> QED
    BY <1>1, <2>2, <2>3
<1>3. CASE ~(Len(box) >= MaxInbox)
  BY <1>1, <1>3 DEF Push
<1> QED
  BY <1>2, <1>3

\* The step to the next poll, for one node.
LEMMA PollType == ASSUME TypeOK, NEW n \in Node, Poll(n) PROVE ReceiveTyped'
<1>0. ReceiveTyped
  BY TypeOKIs
<1> DEFINE e == Last(rx[n])
           known == Remembered(seen[n][e.from])
           wanted == /\ e.atom # Garbled
                     /\ Wants(self[n], WorldOf[e.atom])
                     /\ <<n, WorldOf[e.atom], e.from>> \in CanReceive
           next == IF wanted THEN Push(inbox[n], e) ELSE [box |-> inbox[n], dropped |-> 0]
<1>1. e \in Envelope /\ Front(rx[n]) \in Seq(Envelope)
  BY <1>0, LastFront DEF Poll, ReceiveTyped
<1>2. e.from \in Node
  BY <1>1 DEF Envelope
<1>3. known \in Seq(Entry)
  BY <1>0, <1>2, RememberedType DEF ReceiveTyped
<1>4. wanted \in BOOLEAN
  OBVIOUS
<1>5. /\ rx' = [rx EXCEPT ![n] = Front(@)] /\ UNCHANGED handed
      /\ \/ seen' = [seen EXCEPT ![n][e.from] = known] /\ UNCHANGED <<inbox, lost, took>>
         \/ /\ seen' = [seen EXCEPT ![n][e.from] = Noted(known, e)]
            /\ inbox' = [inbox EXCEPT ![n] = next.box]
            /\ lost' = [lost EXCEPT ![n] = @ + next.dropped]
            /\ took' = [took EXCEPT ![n] = Append(@, [id |-> e, age |-> 0, wanted |-> wanted])]
  BY DEF Poll, PollOne
<1>6. next.box \in Seq(Envelope) /\ Len(next.box) <= MaxInbox /\ next.dropped \in Nat
  BY <1>0, <1>1, PushType DEF ReceiveTyped
<1> HIDE DEF next, wanted, known
<1>7. Noted(known, e) \in Seq(Entry)
  BY <1>1, <1>3, NotedType
<1>8. [id |-> e, age |-> 0, wanted |-> wanted] \in Taking
  BY <1>1, <1>4, ConstantsAssumption DEF Taking
<1> HIDE DEF e
<1>9. seen' \in [Node -> [Node -> Seq(Entry)]]
  <2>1. \E v \in Seq(Entry) : seen' = [seen EXCEPT ![n][e.from] = v]
    BY <1>3, <1>5, <1>7
  <2>2. PICK v \in Seq(Entry) : seen' = [seen EXCEPT ![n] = [@ EXCEPT ![e.from] = v]]
    BY <2>1
  <2>3. [seen[n] EXCEPT ![e.from] = v] \in [Node -> Seq(Entry)]
    BY <1>0, <1>2 DEF ReceiveTyped
  <2> QED
    BY <1>0, <2>2, <2>3 DEF ReceiveTyped
<1>10. took' \in [Node -> Seq(Taking)]
  <2>1. CASE UNCHANGED took
    BY <1>0, <2>1 DEF ReceiveTyped
  <2>2. CASE took' = [took EXCEPT ![n] = Append(@, [id |-> e, age |-> 0, wanted |-> wanted])]
    <3>1. took[n] \in Seq(Taking)
      BY <1>0 DEF ReceiveTyped
    <3>2. Append(took[n], [id |-> e, age |-> 0, wanted |-> wanted]) \in Seq(Taking)
      BY <1>8, <3>1
    <3> QED
      BY <1>0, <2>2, <3>2 DEF ReceiveTyped
  <2> QED
    BY <1>5, <2>1, <2>2
<1>11. rx' \in [Node -> Seq(Envelope)] /\ handed' \in [Node -> Nat]
  BY <1>0, <1>1, <1>5 DEF ReceiveTyped, e
<1>12. inbox' \in [Node -> Seq(Envelope)] /\ (\A m \in Node : Len(inbox'[m]) <= MaxInbox)
       /\ lost' \in [Node -> Nat]
  <2>1. CASE UNCHANGED <<inbox, lost>>
    BY <1>0, <2>1 DEF ReceiveTyped
  <2>2. CASE /\ inbox' = [inbox EXCEPT ![n] = next.box]
             /\ lost' = [lost EXCEPT ![n] = @ + next.dropped]
    BY <1>0, <1>6, <2>2 DEF ReceiveTyped
  <2> QED
    BY <1>5, <2>1, <2>2
<1> QED
  BY <1>9, <1>10, <1>11, <1>12 DEF ReceiveTyped

\* A step that leaves what a node sends alone, and one that leaves what it
\* receives alone.
LEMMA SendQuiet ==
  ASSUME SendTyped, UNCHANGED <<announced, heard, pending, job, tokens, backoff, mail, faults>>
  PROVE  SendTyped'
  BY DEF SendTyped

LEMMA ReceiveQuiet ==
  ASSUME ReceiveTyped, UNCHANGED <<rx, inbox, seen, took, lost, handed>> PROVE ReceiveTyped'
  BY DEF ReceiveTyped

LEMMA FaultType == ASSUME SendTyped, Fault PROVE faults' \in 0..MaxFaults
  BY ConstantsAssumption DEF SendTyped, Fault

LEMMA TickType == ASSUME TypeOK, Tick PROVE SendTyped' /\ ReceiveTyped'
<1>0. Typed /\ SendTyped /\ ReceiveTyped
  BY TypeOKIs
<1>1. /\ announced' = [n \in Node |-> Older(announced[n], Expiry)]
      /\ heard' = [n \in Node |-> LET known == Aged(heard[n], Expiry + 1)
                                  IN  IF job[n].pc = "collect" THEN known ELSE Live(known)]
      /\ tokens' = [n \in Node |-> Rate]
      /\ backoff' = [n \in Node |-> IF backoff[n] > 0 THEN backoff[n] - 1 ELSE 0]
      /\ UNCHANGED <<pending, job, mail, faults>>
  BY DEF Tick
<1>2. /\ seen' = [n \in Node |-> [p \in Node |-> AgedSeq(seen[n][p], Window + 1)]]
      /\ took' = [n \in Node |-> AgedSeq(took[n], Window + 1)]
      /\ UNCHANGED <<rx, inbox, lost, handed>>
  BY DEF Tick
<1>3. announced' \in [Node -> 0..Expiry]
  <2>1. Expiry \in Nat
    BY ConstantsAssumption
  <2> QED
    BY <1>0, <1>1, <2>1, OlderIn DEF SendTyped
<1>4. heard' \in [Node -> SUBSET Record]
  <2>1. ASSUME NEW n \in Node PROVE heard'[n] \in SUBSET Record
    <3>1. Aged(heard[n], Expiry + 1) \in SUBSET Record
      BY <1>0, AgedRecords DEF SendTyped
    <3>2. Live(Aged(heard[n], Expiry + 1)) \in SUBSET Record
      BY <3>1, LiveRecords
    <3> QED
      BY <1>1, <3>1, <3>2
  <2> QED
    BY <1>1, <2>1
<1>5. tokens' \in [Node -> 0..Rate] /\ backoff' \in [Node -> 0..Backoff]
  BY <1>0, <1>1, ConstantsAssumption DEF SendTyped
<1>6. SendTyped'
  BY <1>0, <1>1, <1>3, <1>4, <1>5 DEF SendTyped
<1>7. seen' \in [Node -> [Node -> Seq(Entry)]]
  BY <1>0, <1>2, AgedEntries DEF ReceiveTyped
<1>8. took' \in [Node -> Seq(Taking)]
  BY <1>0, <1>2, AgedTakings DEF ReceiveTyped
<1>9. ReceiveTyped'
  BY <1>0, <1>2, <1>7, <1>8 DEF ReceiveTyped
<1> QED
  BY <1>6, <1>9

LEMMA SendStep ==
  ASSUME TypeOK, NEW n \in Node, BeginReplicate(n) \/ Collect(n) \/ SendOne(n) \/ EndReplicate(n)
  PROVE  SendTyped' /\ ReceiveTyped'
<1>0. Typed /\ SendTyped /\ ReceiveTyped
  BY TypeOKIs
<1>1. ReceiveTyped'
  BY <1>0, ReceiveQuiet DEF BeginReplicate, Collect, SendOne, EndReplicate, receiving
<1>2. CASE BeginReplicate(n)
  <2>1. PICK a \in pending[n] :
          /\ pending' = [pending EXCEPT ![n] = @ \ {a}]
          /\ job' = [job EXCEPT ![n] = [pc |-> "collect", atom |-> a, todo |-> {}]]
    BY <1>2 DEF BeginReplicate
  <2>2. a \in Atom
    BY <1>0 DEF SendTyped
  <2>3. [pc |-> "collect", atom |-> a, todo |-> {}] \in Job
    BY <2>2 DEF Job
  <2>4. heard' = [heard EXCEPT ![n] = Live(@)] /\ Live(heard[n]) \in SUBSET Record
    BY <1>0, <1>2, LiveRecords DEF BeginReplicate, PruneTable, SendTyped
  <2>5. UNCHANGED <<announced, mail, tokens, backoff, faults>>
    BY <1>2 DEF BeginReplicate
  <2> QED
    BY <1>0, <1>1, <2>1, <2>3, <2>4, <2>5 DEF SendTyped
<1>3. CASE Collect(n)
  <2> DEFINE todo ==
               {r.peer : r \in {x \in subs[n] : Wants(x.patterns, WorldOf[job[n].atom])}} \ {n}
             j == [pc |-> "send", atom |-> job[n].atom, todo |-> todo]
  <2>1. job[n] \in Job /\ subs[n] \in SUBSET Record
    BY <1>0 DEF SendTyped, Typed
  <2>2. todo \in SUBSET Node
    BY <2>1, RecordIs
  <2> HIDE DEF todo
  <2>3. j \in Job
    BY <2>1, <2>2 DEF Job
  <2>4. /\ job' = [job EXCEPT ![n] = j]
        /\ UNCHANGED <<announced, heard, pending, mail, tokens, backoff, faults>>
    BY <1>3 DEF Collect, table, todo
  <2> HIDE DEF j
  <2> QED
    BY <1>0, <1>1, <2>3, <2>4 DEF SendTyped
<1>4. CASE SendOne(n)
  <2>1. PICK p \in job[n].todo :
          /\ job' = [job EXCEPT ![n].todo = @ \ {p}]
          /\ SendDirect(n, p) \/ UNCHANGED <<mail, tokens, backoff, faults>>
    BY <1>4 DEF SendOne
  <2>2. job[n] \in Job /\ UNCHANGED <<announced, heard, pending>>
    BY <1>0, <1>4 DEF SendTyped, SendOne, table
  <2>3. [job[n] EXCEPT !.todo = @ \ {p}] \in Job
    BY <2>2 DEF Job
  <2>4. job' \in [Node -> Job]
    BY <1>0, <2>1, <2>3 DEF SendTyped
  <2>5. p \in Node /\ job[n].atom \in Atom \cup {Garbled}
    BY <2>2 DEF Job
  <2>6. CASE UNCHANGED <<mail, tokens, backoff, faults>>
    BY <1>0, <1>1, <2>2, <2>4, <2>6 DEF SendTyped
  <2>7. CASE SendDirect(n, p)
    <3>1. [from |-> n, to |-> p, atom |-> job[n].atom] \in Envelope
      BY <2>5 DEF Envelope
    <3>2. mail' \subseteq Envelope
      BY <1>0, <2>7, <3>1 DEF SendDirect, SendTyped, mark_failure
    <3>3. tokens' \in [Node -> 0..Rate]
      <4>1. tokens' = tokens \/ (tokens[n] > 0 /\ tokens' = [tokens EXCEPT ![n] = @ - 1])
        BY <2>7 DEF SendDirect
      <4>2. tokens \in [Node -> 0..Rate] /\ Rate \in Nat
        BY <1>0, ConstantsAssumption DEF SendTyped
      <4> QED
        BY <4>1, <4>2
    <3>4. backoff' \in [Node -> 0..Backoff]
      <4>1. backoff' = backoff \/ backoff' = [backoff EXCEPT ![n] = Backoff]
        BY <2>7 DEF SendDirect, mark_failure
      <4>2. backoff \in [Node -> 0..Backoff] /\ Backoff \in Nat
        BY <1>0, ConstantsAssumption DEF SendTyped
      <4> QED
        BY <4>1, <4>2
    <3>5. faults' \in 0..MaxFaults
      BY <1>0, <2>7, FaultType DEF SendDirect, SendTyped
    <3> QED
      BY <1>0, <1>1, <2>2, <2>4, <3>2, <3>3, <3>4, <3>5 DEF SendTyped
  <2> QED
    BY <2>1, <2>6, <2>7
<1>5. CASE EndReplicate(n)
  <2>1. Idle \in Job
    BY DEF Idle, Job
  <2>2. /\ job' = [job EXCEPT ![n] = Idle]
        /\ UNCHANGED <<announced, heard, pending, mail, tokens, backoff, faults>>
    BY <1>5 DEF EndReplicate, table
  <2> QED
    BY <1>0, <1>1, <2>1, <2>2 DEF SendTyped
<1> QED
  BY <1>2, <1>3, <1>4, <1>5

\* Announcements, and a crash and a start.
LEMMA LifeStep ==
  ASSUME TypeOK, NEW n \in Node,
         Announce(n) \/ Persist(n) \/ Snapshot(n) \/ Crash(n) \/ Start(n)
  PROVE  SendTyped' /\ ReceiveTyped'
<1>0. Typed /\ SendTyped /\ ReceiveTyped
  BY TypeOKIs
<1>1. CASE Announce(n)
  <2>1. announced' = [announced EXCEPT ![n] = 0] /\ announced' \in [Node -> 0..Expiry]
    BY <1>0, <1>1, ConstantsAssumption DEF Announce, SendTyped
  <2>2. faults' \in 0..MaxFaults
    BY <1>0, <1>1, FaultType DEF Announce, SendTyped
  <2>3. /\ UNCHANGED <<heard, pending, job, tokens, backoff, mail>>
        /\ UNCHANGED <<rx, inbox, seen, took, lost, handed>>
    BY <1>1 DEF Announce, table, sending, receiving
  <2> QED
    BY <1>0, <2>1, <2>2, <2>3, ReceiveQuiet DEF SendTyped
<1>2. CASE Persist(n)
  BY <1>0, <1>2, SendQuiet, ReceiveQuiet DEF Persist, sending, receiving
<1>3. CASE Snapshot(n)
  <2>1. heard' = [heard EXCEPT ![n] = Live(@)] /\ Live(heard[n]) \in SUBSET Record
    BY <1>0, <1>3, LiveRecords DEF Snapshot, PruneTable, SendTyped
  <2>2. /\ UNCHANGED <<announced, pending, job, tokens, backoff, mail, faults>>
        /\ UNCHANGED <<rx, inbox, seen, took, lost, handed>>
    BY <1>3 DEF Snapshot, sending, receiving
  <2> QED
    BY <1>0, <2>1, <2>2, ReceiveQuiet DEF SendTyped
<1>4. CASE Crash(n)
  <2>1. job' = [job EXCEPT ![n] = Idle] /\ Idle \in Job
    BY <1>4 DEF Crash, Idle, Job
  <2>2. faults' \in 0..MaxFaults
    BY <1>0, <1>4, FaultType DEF Crash
  <2>3. SendTyped'
    BY <1>0, <1>4, <2>1, <2>2 DEF SendTyped, Crash
  <2>4. << >> \in Seq(Envelope) /\ << >> \in Seq(Taking) /\ << >> \in Seq(Entry) /\ Len(<< >>) = 0
    OBVIOUS
  <2>5. seen' \in [Node -> [Node -> Seq(Entry)]]
    BY <1>0, <1>4, <2>4 DEF ReceiveTyped, Crash
  <2>6. rx' \in [Node -> Seq(Envelope)] /\ inbox' \in [Node -> Seq(Envelope)]
        /\ took' \in [Node -> Seq(Taking)]
    BY <1>0, <1>4, <2>4 DEF ReceiveTyped, Crash
  <2>7. \A m \in Node : Len(inbox'[m]) <= MaxInbox
    BY <1>0, <1>4, <2>4, ConstantsAssumption DEF ReceiveTyped, Crash
  <2>8. lost' \in [Node -> Nat] /\ handed' \in [Node -> Nat]
    BY <1>0, <1>4 DEF ReceiveTyped, Crash
  <2> QED
    BY <2>3, <2>5, <2>6, <2>7, <2>8 DEF ReceiveTyped
<1>5. CASE Start(n)
  <2>1. /\ announced' \in [Node -> 0..Expiry] /\ tokens' \in [Node -> 0..Rate]
        /\ backoff' \in [Node -> 0..Backoff]
    BY <1>0, <1>5, ConstantsAssumption DEF Start, SendTyped
  <2>2. /\ UNCHANGED <<heard, pending, job, mail, faults>>
        /\ UNCHANGED <<rx, inbox, seen, took, lost, handed>>
    BY <1>5 DEF Start, receiving
  <2> QED
    BY <1>0, <2>1, <2>2, ReceiveQuiet DEF SendTyped
<1> QED
  BY <1>1, <1>2, <1>3, <1>4, <1>5

LEMMA HearTypes == ASSUME TypeOK, NEW m \in intents, Hear(m) PROVE SendTyped' /\ ReceiveTyped'
<1>0. Typed /\ SendTyped /\ ReceiveTyped
  BY TypeOKIs
<1> DEFINE r == [peer |-> m.from, patterns |-> m.patterns, age |-> 0]
<1>1. m.to \in Node /\ m.from \in Node /\ m.patterns \in PatternSets
  BY <1>0 DEF Typed, Intent, PatternSets
<1>2. r \in Record
  BY <1>1, ConstantsAssumption, RecordIs
<1>3. /\ heard' = [heard EXCEPT ![m.to] = @ \cup {r}]
      /\ UNCHANGED <<announced, pending, job, tokens, backoff, mail>>
      /\ UNCHANGED <<rx, inbox, seen, took, lost, handed>>
  BY DEF Hear, sending, receiving
<1>4. faults' \in 0..MaxFaults
  BY <1>0, FaultType DEF Hear, SendTyped
<1> HIDE DEF r
<1> QED
  BY <1>0, <1>1, <1>2, <1>3, <1>4, ReceiveQuiet DEF SendTyped

\* What the transport carries.
LEMMA TransportStep ==
  ASSUME TypeOK,
         \/ \E n, p \in Node : SendGarbled(n, p)
         \/ \E m \in mail : Receive(m)
         \/ \E m \in mail \cup intents : Lose(m)
  PROVE  SendTyped' /\ ReceiveTyped'
<1>0. Typed /\ SendTyped /\ ReceiveTyped
  BY TypeOKIs
<1>1. ASSUME NEW n \in Node, NEW p \in Node, SendGarbled(n, p) PROVE SendTyped' /\ ReceiveTyped'
  <2>1. mail' \subseteq Envelope /\ faults' \in 0..MaxFaults
    BY <1>0, <1>1, FaultType DEF SendGarbled, SendTyped, Envelope
  <2>2. /\ UNCHANGED <<announced, heard, pending, job, tokens, backoff>>
        /\ UNCHANGED <<rx, inbox, seen, took, lost, handed>>
    BY <1>1 DEF SendGarbled, table, sending, receiving
  <2> QED
    BY <1>0, <2>1, <2>2, ReceiveQuiet DEF SendTyped
<1>2. ASSUME NEW m \in mail, Receive(m) PROVE SendTyped' /\ ReceiveTyped'
  <2>1. mail' \subseteq Envelope /\ faults' \in 0..MaxFaults
    BY <1>0, <1>2, FaultType DEF Receive, SendTyped
  <2>2. /\ UNCHANGED <<announced, heard, pending, job, tokens, backoff>>
        /\ UNCHANGED <<inbox, seen, took, lost, handed>>
    BY <1>2 DEF Receive, table, sending
  <2>3. m \in Envelope /\ m.to \in Node
    BY <1>0 DEF SendTyped, Envelope
  <2>4. Append(rx[m.to], m) \in Seq(Envelope)
    BY <1>0, <2>3 DEF ReceiveTyped
  <2>5. rx' \in [Node -> Seq(Envelope)]
    BY <1>0, <1>2, <2>4 DEF ReceiveTyped, Receive
  <2> QED
    BY <1>0, <2>1, <2>2, <2>5 DEF SendTyped, ReceiveTyped
<1>3. ASSUME NEW m \in mail \cup intents, Lose(m) PROVE SendTyped' /\ ReceiveTyped'
  <2>1. mail' \subseteq Envelope /\ faults' \in 0..MaxFaults
    BY <1>0, <1>3, FaultType DEF Lose, SendTyped
  <2>2. /\ UNCHANGED <<announced, heard, pending, job, tokens, backoff>>
        /\ UNCHANGED <<rx, inbox, seen, took, lost, handed>>
    BY <1>3 DEF Lose, table, sending, receiving
  <2> QED
    BY <1>0, <2>1, <2>2, ReceiveQuiet DEF SendTyped
<1> QED
  BY <1>1, <1>2, <1>3

LEMMA HandOutType ==
  ASSUME TypeOK, NEW n \in Node, PollAtomBatch(n)
  PROVE  SendTyped' /\ ReceiveTyped'
<1>0. Typed /\ SendTyped /\ ReceiveTyped
  BY TypeOKIs
<1>1. Tail(inbox[n]) \in Seq(Envelope) /\ Len(Tail(inbox[n])) <= MaxInbox
  <2>1. inbox[n] \in Seq(Envelope) /\ inbox[n] # << >> /\ Len(inbox[n]) <= MaxInbox
    BY <1>0 DEF ReceiveTyped, PollAtomBatch
  <2>2. Len(Tail(inbox[n])) = Len(inbox[n]) - 1 /\ Tail(inbox[n]) \in Seq(Envelope)
    BY <2>1
  <2> QED
    BY <2>1, <2>2, ConstantsAssumption
<1>2. inbox' = [inbox EXCEPT ![n] = Tail(@)] /\ handed' = [handed EXCEPT ![n] = @ + 1]
      /\ UNCHANGED <<announced, heard, pending, job, tokens, backoff, mail, faults>>
      /\ UNCHANGED <<rx, seen, took, lost>>
  BY DEF PollAtomBatch, table, sending
<1> QED
  BY <1>0, <1>1, <1>2, SendQuiet DEF ReceiveTyped

LEMMA TypeInit == ASSUME Init PROVE TypeOK
<1>1. IInv
  BY IInvInit
<1>2. SendTyped
  BY ConstantsAssumption DEF Init, SendTyped, Idle, Job
<1>3. << >> \in Seq(Envelope) /\ << >> \in Seq(Taking) /\ << >> \in Seq(Entry) /\ Len(<< >>) = 0
  OBVIOUS
<1>4. ReceiveTyped
  BY <1>3, ConstantsAssumption DEF Init, ReceiveTyped
<1> QED
  BY <1>1, <1>2, <1>4, TypeOKIs DEF IInv

LEMMA TypeStep == ASSUME IInv, TypeOK, [Next]_vars PROVE TypeOK'
<1>0. Typed /\ SendTyped /\ ReceiveTyped
  BY TypeOKIs
<1>1. Typed'
  BY IInvStep DEF IInv
<1>2. SendTyped' /\ ReceiveTyped'
  <2>1. CASE UNCHANGED vars
    BY <1>0, <2>1, SendQuiet, ReceiveQuiet DEF vars, table, sending, receiving
  <2>2. ASSUME NEW n \in Node, Poll(n) PROVE SendTyped' /\ ReceiveTyped'
    <3>1. UNCHANGED <<announced, heard, pending, job, tokens, backoff, mail, faults>>
      BY <2>2 DEF Poll, PollOne, table, sending
    <3> QED
      BY <1>0, <2>2, <3>1, PollType, SendQuiet
  <2> QED
    BY <2>1, <2>2, TickType, SendStep, LifeStep, HearTypes, TransportStep, HandOutType DEF Next
<1>3. TypeOK' <=> Typed' /\ SendTyped' /\ ReceiveTyped'
  BY DEF TypeOK, Typed, SendTyped, ReceiveTyped, Files, PatternSets, Job, Entry, Taking
<1> QED
  BY <1>1, <1>2, <1>3

THEOREM TypeCorrect == Spec => []TypeOK
<1>1. Init => IInv /\ TypeOK
  BY IInvInit, TypeInit
<1>2. IInv /\ TypeOK /\ [Next]_vars => (IInv /\ TypeOK)'
  BY IInvStep, TypeStep
<1> QED
  BY <1>1, <1>2, PTL DEF Spec

-----------------------------------------------------------------------------
(* What a node may send: see SentToSubscribers.                            *)
Known(n) ==
  /\ Live(subs[n]) \subseteq heard[n]
  /\ Live(file[n].records) \subseteq heard[n]
  /\ job[n].pc = "collect" => subs[n] \subseteq heard[n]

HeardInv == \A n \in Node : Known(n)

LEMMA LiveMonotone ==
  ASSUME NEW R, NEW Q, R \subseteq Q
  PROVE  Live(R) \subseteq Live(Q) /\ Live(R) \subseteq R /\ Live(Live(R)) = Live(R)
         /\ Aged(R, Expiry + 1) \subseteq Aged(Q, Expiry + 1)
  BY DEF Live, Aged

LEMMA KnownQuiet ==
  ASSUME NEW n \in Node, Known(n),
         subs'[n] = subs[n], file'[n] = file[n], heard'[n] = heard[n],
         job'[n].pc = "collect" => job[n].pc = "collect"
  PROVE  Known(n)'
  BY DEF Known

LEMMA KnownInit == ASSUME Init PROVE HeardInv
  BY DEF Init, HeardInv, Known, Live, Whole, Idle

LEMMA KnownPrune ==
  ASSUME TypeOK, HeardInv, NEW n \in Node, PruneTable(n), NEW k \in Node
  PROVE  /\ Live(subs'[k]) \subseteq heard'[k] /\ Live(file'[k].records) \subseteq heard'[k]
         /\ k = n => subs'[k] \subseteq heard'[k]
         /\ k # n => subs'[k] = subs[k] /\ file'[k] = file[k] /\ heard'[k] = heard[k]
<1>1. subs' = [subs EXCEPT ![n] = Live(@)] /\ heard' = [heard EXCEPT ![n] = Live(@)] /\ file' = file
  BY DEF PruneTable
<1>2. subs \in [Node -> SUBSET Record] /\ heard \in [Node -> SUBSET Record]
  BY DEF TypeOK
<1>3. Known(k)
  BY DEF HeardInv
<1>4. CASE k = n
  <2>1. subs'[k] = Live(subs[k]) /\ heard'[k] = Live(heard[k]) /\ file'[k] = file[k]
    BY <1>1, <1>2, <1>4
  <2>2. Live(subs[k]) \subseteq Live(heard[k]) /\ Live(file[k].records) \subseteq Live(heard[k])
    BY <1>3 DEF Known, Live
  <2>3. Live(Live(subs[k])) = Live(subs[k])
    BY DEF Live
  <2> QED
    BY <1>4, <2>1, <2>2, <2>3
<1>5. CASE k # n
  BY <1>1, <1>2, <1>3, <1>5 DEF Known
<1> QED
  BY <1>4, <1>5

LEMMA KnownHear ==
  ASSUME TypeOK, HeardInv, NEW m \in intents, Hear(m), NEW k \in Node
  PROVE  Known(k)'
<1> DEFINE n == m.to
           r == [peer |-> m.from, patterns |-> m.patterns, age |-> 0]
<1>1. /\ subs' = [subs EXCEPT ![n] = Upsert(@, r)] /\ heard' = [heard EXCEPT ![n] = @ \cup {r}]
      /\ UNCHANGED <<file, job>>
  BY DEF Hear, sending
<1>2. subs \in [Node -> SUBSET Record] /\ heard \in [Node -> SUBSET Record] /\ Known(k)
  BY DEF TypeOK, HeardInv
<1> HIDE DEF r, n
<1>3. CASE k = n
  <2>1. subs'[k] = Upsert(subs[k], r) /\ heard'[k] = heard[k] \cup {r}
    BY <1>1, <1>2, <1>3
  <2>2. Upsert(subs[k], r) \subseteq subs[k] \cup {r}
    BY DEF Upsert
  <2>3. Live(subs'[k]) \subseteq heard'[k]
    BY <1>2, <2>1, <2>2 DEF Known, Live
  <2> QED
    BY <1>1, <1>2, <2>1, <2>2, <2>3 DEF Known
<1>4. CASE k # n
  <2>1. subs'[k] = subs[k] /\ heard'[k] = heard[k]
    BY <1>1, <1>2, <1>4
  <2> QED
    BY <1>1, <1>2, <2>1, KnownQuiet
<1> QED
  BY <1>3, <1>4

LEMMA KnownLife ==
  ASSUME TypeOK, HeardInv, NEW n \in Node, Persist(n) \/ Crash(n) \/ Start(n), NEW k \in Node
  PROVE  Known(k)'
<1>1. /\ subs \in [Node -> SUBSET Record] /\ heard \in [Node -> SUBSET Record] /\ Known(k)
      /\ file \in [Node -> Files] /\ job \in [Node -> Job]
  BY DEF TypeOK, HeardInv, Files, Job
<1>2. Live({}) = {}
  BY DEF Live
<1>3. CASE Persist(n)
  <2>1. file' = [file EXCEPT ![n] = Whole(subs[n])] /\ UNCHANGED <<subs, heard, job>>
    BY <1>3 DEF Persist, sending
  <2>2. file'[k] = IF k = n THEN Whole(subs[k]) ELSE file[k]
    BY <1>1, <2>1
  <2> QED
    BY <1>1, <2>1, <2>2 DEF Known, Whole
<1>4. CASE Crash(n)
  <2>1. /\ subs' = [subs EXCEPT ![n] = {}] /\ job' = [job EXCEPT ![n] = Idle]
        /\ heard' = heard
        /\ \/ file' = file
           \/ \E ok \in BOOLEAN :
                file' = [file EXCEPT ![n] = [whole |-> ok, records |-> IF ok THEN subs[n] ELSE {}]]
    BY <1>4 DEF Crash
  <2>2. Live(file'[k].records) \subseteq heard[k]
    <3>1. CASE file' = file
      BY <1>1, <3>1 DEF Known
    <3>2. CASE file' # file
      <4>1. PICK ok \in BOOLEAN :
              file' = [file EXCEPT ![n] = [whole |-> ok, records |-> IF ok THEN subs[n] ELSE {}]]
        BY <2>1, <3>2
      <4>2. file'[k] = IF k = n THEN [whole |-> ok, records |-> IF ok THEN subs[k] ELSE {}]
                       ELSE file[k]
        BY <1>1, <4>1
      <4>3. file'[k].records \in {subs[k], {}, file[k].records}
        BY <4>2
      <4> QED
        BY <1>1, <1>2, <4>3 DEF Known
    <3> QED
      BY <3>1, <3>2
  <2>3. subs'[k] = (IF k = n THEN {} ELSE subs[k]) /\ job'[k] = (IF k = n THEN Idle ELSE job[k])
    BY <1>1, <2>1
  <2>4. Idle.pc = "idle"
    BY DEF Idle
  <2> QED
    BY <1>1, <1>2, <2>1, <2>2, <2>3, <2>4 DEF Known
<1>5. CASE Start(n)
  <2>1. subs' = [subs EXCEPT ![n] = Load(file[n])] /\ UNCHANGED <<file, heard, job>>
    BY <1>5 DEF Start
  <2>2. subs'[k] = IF k = n THEN Load(file[k]) ELSE subs[k]
    BY <1>1, <2>1
  <2>3. Load(file[k]) \subseteq Live(file[k].records) /\ Live(Load(file[k])) \subseteq Load(file[k])
    BY DEF Load, Live
  <2> QED
    BY <1>1, <2>1, <2>2, <2>3 DEF Known
<1> QED
  BY <1>3, <1>4, <1>5

LEMMA KnownTick == ASSUME TypeOK, HeardInv, Tick, NEW k \in Node PROVE Known(k)'
<1>1. /\ subs[k] \in SUBSET Record /\ heard[k] \in SUBSET Record /\ Known(k)
      /\ file[k] \in Files /\ file[k].records \in SUBSET Record
  BY DEF TypeOK, HeardInv, Files
<1>2. /\ subs'[k] = Aged(subs[k], Expiry + 1)
      /\ file'[k] = [file[k] EXCEPT !.records = Aged(@, Expiry + 1)]
      /\ heard'[k] = IF job[k].pc = "collect" THEN Aged(heard[k], Expiry + 1)
                     ELSE Live(Aged(heard[k], Expiry + 1))
      /\ job' = job
  BY DEF Tick
<1>3. file'[k].records = Aged(file[k].records, Expiry + 1)
  BY <1>1, <1>2 DEF Files
<1>4. Live(Aged(heard[k], Expiry + 1)) \subseteq heard'[k]
  BY <1>2 DEF Live
<1>5. ASSUME NEW R \in SUBSET Record, Live(R) \subseteq heard[k]
      PROVE  Live(Aged(R, Expiry + 1)) \subseteq heard'[k]
  <2>1. Live(Aged(R, Expiry + 1)) = Live(Aged(Live(R), Expiry + 1))
    BY AgedRecords
  <2>2. Live(Aged(Live(R), Expiry + 1)) \subseteq Live(Aged(heard[k], Expiry + 1))
    BY <1>5 DEF Live, Aged
  <2> QED
    BY <1>4, <2>1, <2>2
<1>6. job[k].pc = "collect" => subs'[k] \subseteq heard'[k]
  BY <1>1, <1>2 DEF Known, Aged
<1> QED
  BY <1>1, <1>2, <1>3, <1>5, <1>6 DEF Known

LEMMA HeardStep == ASSUME TypeOK, HeardInv, [Next]_vars PROVE HeardInv'
<1> SUFFICES ASSUME NEW k \in Node PROVE Known(k)'
  BY DEF HeardInv
<1>0. Known(k) /\ job \in [Node -> Job]
  BY DEF HeardInv, TypeOK, Job
<1>1. CASE UNCHANGED vars
  BY <1>0, <1>1, KnownQuiet DEF vars, table, sending
<1>2. ASSUME NEW n \in Node, Announce(n) \/ EndReplicate(n) \/ Poll(n) \/ PollAtomBatch(n)
      PROVE  Known(k)'
  <2>1. UNCHANGED <<subs, file, heard>> /\ (job' = job \/ job' = [job EXCEPT ![n] = Idle])
    BY <1>2 DEF Announce, EndReplicate, Poll, PollOne, PollAtomBatch, table, sending
  <2>2. job'[k].pc = "collect" => job[k].pc = "collect"
    BY <1>0, <2>1 DEF Idle
  <2> QED
    BY <1>0, <2>1, <2>2, KnownQuiet
<1>3. ASSUME NEW n \in Node, Collect(n) PROVE Known(k)'
  <2>1. UNCHANGED <<subs, file, heard>>
    BY <1>3 DEF Collect, table
  <2>2. job'[n].pc # "collect" /\ (k # n => job'[k] = job[k])
    BY <1>0, <1>3 DEF Collect
  <2> QED
    BY <1>0, <2>1, <2>2, KnownQuiet
<1>4. ASSUME NEW n \in Node, SendOne(n) PROVE Known(k)'
  <2>1. UNCHANGED <<subs, file, heard>>
    BY <1>4 DEF SendOne, table
  <2>2. \E p : job' = [job EXCEPT ![n].todo = @ \ {p}]
    BY <1>4 DEF SendOne
  <2>3. job'[k].pc = job[k].pc
    BY <1>0, <2>2 DEF Job
  <2> QED
    BY <1>0, <2>1, <2>3, KnownQuiet
<1>5. ASSUME NEW n \in Node, Snapshot(n) PROVE Known(k)'
  <2>1. job' = job /\ job[n].pc # "collect" /\ PruneTable(n)
    BY <1>5 DEF Snapshot, sending, Idle
  <2> QED
    BY <1>0, <2>1, KnownPrune DEF Known
<1>6. ASSUME NEW n \in Node, BeginReplicate(n) PROVE Known(k)'
  <2>1. PruneTable(n) /\ (k # n => job'[k] = job[k])
    BY <1>0, <1>6 DEF BeginReplicate
  <2> QED
    BY <1>0, <2>1, KnownPrune DEF Known
<1>7. ASSUME NEW n \in Node, NEW p \in Node, SendGarbled(n, p) PROVE Known(k)'
  BY <1>0, <1>7, KnownQuiet DEF SendGarbled, table, sending
<1>8. ASSUME NEW m \in mail, Receive(m) PROVE Known(k)'
  BY <1>0, <1>8, KnownQuiet DEF Receive, table, sending
<1>9. ASSUME NEW m \in mail \cup intents, Lose(m) PROVE Known(k)'
  BY <1>0, <1>9, KnownQuiet DEF Lose, table, sending
<1> QED
  BY <1>1, <1>2, <1>3, <1>4, <1>5, <1>6, <1>7, <1>8, <1>9, KnownHear, KnownLife, KnownTick DEF Next

(* Only Collect puts peers on a job's list, from a table that is part of   *)
(* what was heard.                                                         *)
LEMMA SentStep ==
  ASSUME TypeOK, HeardInv, [Next]_vars, NEW n \in Node, NEW p \in job'[n].todo \ job[n].todo
  PROVE  \E r \in heard[n] : r.peer = p /\ Wants(r.patterns, WorldOf[job'[n].atom])
<1>0. job \in [Node -> Job] /\ Known(n) /\ subs[n] \in SUBSET Record
  BY DEF HeardInv, TypeOK, Job
<1>1. ASSUME NEW k \in Node, Collect(k)
      PROVE  \E r \in heard[n] : r.peer = p /\ Wants(r.patterns, WorldOf[job'[n].atom])
  <2>1. k = n
    BY <1>0, <1>1 DEF Collect
  <2>2. /\ job[n].pc = "collect" /\ job'[n].atom = job[n].atom
        /\ job'[n].todo =
             {r.peer : r \in {x \in subs[n] : Wants(x.patterns, WorldOf[job[n].atom])}} \ {n}
    BY <1>0, <1>1, <2>1 DEF Collect
  <2>3. PICK r \in subs[n] : r.peer = p /\ Wants(r.patterns, WorldOf[job[n].atom])
    BY <2>2
  <2> QED
    BY <1>0, <2>2, <2>3 DEF Known
<1>2. ASSUME NEW k \in Node, SendOne(k) PROVE FALSE
  <2>1. \E q : job' = [job EXCEPT ![k].todo = @ \ {q}]
    BY <1>2 DEF SendOne
  <2> QED
    BY <1>0, <2>1 DEF Job
<1>3. ASSUME NEW k \in Node, BeginReplicate(k) PROVE FALSE
  <2>1. \E a : job' = [job EXCEPT ![k] = [pc |-> "collect", atom |-> a, todo |-> {}]]
    BY <1>3 DEF BeginReplicate
  <2> QED
    BY <1>0, <2>1
<1>4. ASSUME NEW k \in Node, EndReplicate(k) \/ Crash(k) PROVE FALSE
  <2>1. job' = [job EXCEPT ![k] = Idle] /\ Idle.todo = {}
    BY <1>4 DEF EndReplicate, Crash, Idle
  <2> QED
    BY <1>0, <2>1
<1>5. ASSUME NEW k \in Node, \/ Announce(k) \/ Persist(k) \/ Snapshot(k) \/ Poll(k)
                             \/ PollAtomBatch(k) \/ Start(k)
      PROVE  FALSE
  BY <1>5 DEF Announce, Persist, Snapshot, Poll, PollOne, PollAtomBatch, Start, sending
<1>6. ASSUME \/ \E k, q \in Node : SendGarbled(k, q)
             \/ \E m \in intents : Hear(m)
             \/ \E m \in mail : Receive(m)
             \/ \E m \in mail \cup intents : Lose(m)
             \/ Tick \/ UNCHANGED vars
      PROVE  FALSE
  BY <1>6 DEF SendGarbled, Hear, Receive, Lose, Tick, vars, sending
<1> QED
  BY <1>1, <1>2, <1>3, <1>4, <1>5, <1>6 DEF Next

THEOREM SentToSubscribersCorrect == Spec => SentToSubscribers
<1>1. Init => IInv /\ TypeOK /\ HeardInv
  BY IInvInit, TypeInit, KnownInit
<1>2. IInv /\ TypeOK /\ HeardInv /\ [Next]_vars => (IInv /\ TypeOK /\ HeardInv)'
  BY IInvStep, TypeStep, HeardStep
<1>3. IInv /\ TypeOK /\ HeardInv /\ [Next]_vars =>
        \A n \in Node : \A p \in job'[n].todo \ job[n].todo :
          \E r \in heard[n] : r.peer = p /\ Wants(r.patterns, WorldOf[job'[n].atom])
  BY SentStep
<1> QED
  BY <1>1, <1>2, <1>3, PTL DEF Spec, SentToSubscribers

-----------------------------------------------------------------------------
(* What the replay guard remembers: see TakenOnce.                         *)
Later(t, i, p) == Cardinality({j \in DOMAIN t : j > i /\ t[j].id.from = p})
Sorted(s) == \A i, j \in DOMAIN s : i <= j => s[i].age >= s[j].age

Held(s, t, i, p) ==
  \/ t[i].age > Window
  \/ Later(t, i, p) >= MaxIds
  \/ \E k \in DOMAIN s : /\ s[k].id = t[i].id /\ s[k].age = t[i].age
                         /\ Len(s) - k = Later(t, i, p)

Guards(s, t, p) ==
  /\ Sorted(s) /\ Len(s) <= MaxIds
  /\ \A i \in DOMAIN t : t[i].id.from = p => Held(s, t, i, p)

GuardInv == \A n, p \in Node : Guards(seen[n][p], took[n], p)

LEMMA LaterIs ==
  ASSUME NEW t \in Seq(Taking), NEW i \in 1..Len(t), NEW p \in Node
  PROVE  IsFiniteSet({j \in DOMAIN t : j > i /\ t[j].id.from = p}) /\ Later(t, i, p) \in Nat
<1>1. IsFiniteSet(1..Len(t)) /\ DOMAIN t = 1..Len(t)
  <2>1. 1 \in Int /\ Len(t) \in Int /\ DOMAIN t = 1..Len(t)
    OBVIOUS
  <2> QED
    BY <2>1, FS_Interval
<1>2. {j \in DOMAIN t : j > i /\ t[j].id.from = p} \subseteq 1..Len(t)
  BY <1>1
<1> QED
  BY <1>1, <1>2, FS_Subset, FS_CardinalityType DEF Later

\* Ages never grow along the list, so that those that are too old are in front.
LEMMA RememberedIs ==
  ASSUME NEW s \in Seq(Entry), Sorted(s)
  PROVE  \E m \in 0..Len(s) :
           /\ Len(Remembered(s)) = Len(s) - m
           /\ \A k \in 1..Len(s) - m : Remembered(s)[k] = s[m + k]
           /\ \A k \in 1..Len(s) : k <= m <=> s[k].age > Window
<1> DEFINE D == {i \in DOMAIN s : s[i].age > Window}
<1>0. DOMAIN s = 1..Len(s) /\ Len(s) \in Nat /\ Window \in Nat
      /\ \A i \in 1..Len(s) : s[i].age \in Nat
  <2>1. Window \in Nat /\ DOMAIN s = 1..Len(s) /\ Len(s) \in Nat
    BY ConstantsAssumption
  <2>2. \A i \in 1..Len(s) : s[i] \in Entry
    OBVIOUS
  <2> QED
    BY <2>1, <2>2 DEF Entry
<1>1. PICK m \in 0..Len(s) :
        /\ m = Cardinality(D) /\ Len(Remembered(s)) = Len(s) - m
        /\ \A k \in 1..Len(s) - m : Remembered(s)[k] = s[m + k]
  BY RememberedType
<1>2. IsFiniteSet(D)
  <2>1. 1 \in Int /\ Len(s) \in Int /\ D \in SUBSET (1..Len(s))
    BY <1>0
  <2>2. IsFiniteSet(1..Len(s))
    BY <2>1, FS_Interval
  <2> QED
    BY <2>1, <2>2, FS_Subset
<1>3. ASSUME NEW k \in 1..Len(s), s[k].age > Window PROVE k <= m
  <2>1. \A i \in 1..k : i \in D
    <3> SUFFICES ASSUME NEW i \in 1..k PROVE i \in D
      OBVIOUS
    <3>1. i \in DOMAIN s /\ k \in DOMAIN s /\ i <= k
      BY <1>0
    <3>2. s[i].age >= s[k].age
      BY <3>1 DEF Sorted
    <3> QED
      BY <1>0, <1>3, <3>1, <3>2
  <2>2. Cardinality(1..k) = k
    <3>1. k \in Int /\ 1 \in Int /\ ~(1 > k)
      BY <1>0
    <3>2. Cardinality(1..k) = k - 1 + 1
      BY <3>1, FS_Interval
    <3> QED
      BY <3>1, <3>2
  <2>3. 1..k \in SUBSET D
    BY <2>1
  <2>4. Cardinality(1..k) <= Cardinality(D)
    BY <1>2, <2>3, FS_Subset
  <2> QED
    BY <1>1, <2>2, <2>4
<1>4. ASSUME NEW k \in 1..Len(s), ~(s[k].age > Window) PROVE ~(k <= m)
  <2>1. \A i \in D : i \in 1..k - 1
    <3> SUFFICES ASSUME NEW i \in D, ~(i \in 1..k - 1) PROVE FALSE
      OBVIOUS
    <3>1. i \in DOMAIN s /\ k \in DOMAIN s /\ k <= i /\ s[i].age > Window
      BY <1>0
    <3>2. s[k].age >= s[i].age
      BY <3>1 DEF Sorted
    <3> QED
      BY <1>0, <1>4, <3>1, <3>2
  <2>2. Cardinality(1..k - 1) = k - 1 /\ IsFiniteSet(1..k - 1)
    <3>1. k - 1 \in Int /\ 1 \in Int /\ k - 1 >= 0
      BY <1>0
    <3>2. Cardinality(1..k - 1) = IF 1 > k - 1 THEN 0 ELSE (k - 1) - 1 + 1
      BY <3>1, FS_Interval
    <3>3. IsFiniteSet(1..k - 1)
      BY <3>1, FS_Interval
    <3> QED
      BY <3>1, <3>2, <3>3
  <2>3. D \in SUBSET (1..k - 1)
    BY <2>1
  <2>4. Cardinality(D) <= Cardinality(1..k - 1)
    BY <2>2, <2>3, FS_Subset
  <2> QED
    BY <1>0, <1>1, <2>2, <2>4
<1> QED
  BY <1>1, <1>3, <1>4

\* Pruning keeps what the guard promises.
LEMMA GuardsPruned ==
  ASSUME NEW s \in Seq(Entry), NEW t \in Seq(Taking), NEW p \in Node, Guards(s, t, p)
  PROVE  /\ Guards(Remembered(s), t, p)
         /\ \A i \in 1..Len(t) : t[i].id.from = p =>
              \/ t[i].age > Window \/ Later(t, i, p) >= MaxIds
              \/ \E k \in 1..Len(Remembered(s)) : Remembered(s)[k].id = t[i].id
<1> DEFINE u == Remembered(s)
<1>1. Sorted(s) /\ Len(s) <= MaxIds
  BY DEF Guards
<1>2. PICK m \in 0..Len(s) :
        /\ Len(u) = Len(s) - m
        /\ \A k \in 1..Len(s) - m : u[k] = s[m + k]
        /\ \A k \in 1..Len(s) : k <= m <=> s[k].age > Window
  BY <1>1, RememberedIs
<1>3. u \in Seq(Entry)
  BY RememberedType
<1> HIDE DEF u
<1>4. DOMAIN s = 1..Len(s) /\ DOMAIN u = 1..Len(u) /\ DOMAIN t = 1..Len(t)
      /\ Len(s) \in Nat /\ MaxIds \in Nat
  BY <1>3, ConstantsAssumption
<1>5. Sorted(u)
  <2> SUFFICES ASSUME NEW i \in DOMAIN u, NEW j \in DOMAIN u, i <= j
               PROVE  u[i].age >= u[j].age
    BY DEF Sorted
  <2>1. m + i \in DOMAIN s /\ m + j \in DOMAIN s /\ m + i <= m + j
    BY <1>2, <1>4
  <2>2. s[m + i].age >= s[m + j].age
    BY <1>1, <2>1 DEF Sorted
  <2>3. u[i] = s[m + i] /\ u[j] = s[m + j]
    BY <1>2, <1>4
  <2> QED
    BY <2>2, <2>3
<1>6. Len(u) <= MaxIds
  BY <1>1, <1>2, <1>4
<1>7. ASSUME NEW i \in 1..Len(t), t[i].id.from = p, ~(t[i].age > Window),
             ~(Later(t, i, p) >= MaxIds)
      PROVE  \E k \in 1..Len(u) : /\ u[k].id = t[i].id /\ u[k].age = t[i].age
                                  /\ Len(u) - k = Later(t, i, p)
  <2>1. PICK k \in 1..Len(s) : /\ s[k].id = t[i].id /\ s[k].age = t[i].age
                               /\ Len(s) - k = Later(t, i, p)
    BY <1>4, <1>7 DEF Guards, Held
  <2>2. ~(k <= m)
    BY <1>2, <1>7, <2>1
  <2>3. k - m \in 1..Len(u) /\ u[k - m] = s[k] /\ Len(u) - (k - m) = Len(s) - k
    <3>1. k - m \in 1..Len(s) - m /\ m + (k - m) = k
      BY <1>2, <1>4, <2>2
    <3> QED
      BY <1>2, <1>4, <3>1
  <2> QED
    BY <2>1, <2>3
<1>8. Guards(u, t, p)
  BY <1>4, <1>5, <1>6, <1>7 DEF Guards, Held
<1> QED
  BY <1>7, <1>8 DEF u

LEMMA LaterAppend ==
  ASSUME NEW t \in Seq(Taking), NEW x \in Taking, NEW i \in 1..Len(t), NEW p \in Node
  PROVE  Later(Append(t, x), i, p) = IF x.id.from = p THEN Later(t, i, p) + 1 ELSE Later(t, i, p)
<1> DEFINE u == Append(t, x)
           D == {j \in DOMAIN t : j > i /\ t[j].id.from = p}
           E == {j \in DOMAIN u : j > i /\ u[j].id.from = p}
<1>1. /\ DOMAIN t = 1..Len(t) /\ DOMAIN u = 1..Len(t) + 1 /\ Len(t) \in Nat
      /\ \A j \in 1..Len(t) : u[j] = t[j]
      /\ u[Len(t) + 1] = x
  OBVIOUS
<1> HIDE DEF u
<1>2. IsFiniteSet(D) /\ Len(t) + 1 \notin D
  BY <1>1, LaterIs
<1>3. CASE x.id.from = p
  <2>1. E = D \cup {Len(t) + 1}
    BY <1>1, <1>3
  <2> QED
    <3>1. Cardinality(D \cup {Len(t) + 1}) = Cardinality(D) + 1
      BY <1>2, FS_AddElement
    <3>2. Later(u, i, p) = Later(t, i, p) + 1
      BY <2>1, <3>1 DEF Later
    <3> QED
      BY <1>3, <3>2 DEF u
<1>4. CASE x.id.from # p
  <2>1. E = D
    BY <1>1, <1>4
  <2> QED
    BY <1>4, <2>1 DEF Later, u
<1> QED
  BY <1>3, <1>4

\* A message of another peer.
LEMMA GuardsOther ==
  ASSUME NEW s \in Seq(Entry), NEW t \in Seq(Taking), NEW x \in Taking, NEW p \in Node,
         x.id.from # p, Guards(s, t, p)
  PROVE  Guards(s, Append(t, x), p)
<1> DEFINE u == Append(t, x)
<1>1. /\ DOMAIN t = 1..Len(t) /\ DOMAIN u = 1..Len(t) + 1 /\ Len(t) \in Nat
      /\ \A j \in 1..Len(t) : u[j] = t[j]
      /\ u[Len(t) + 1] = x
  OBVIOUS
<1>2. \A i \in 1..Len(t) : Later(u, i, p) = Later(t, i, p)
  BY LaterAppend
<1> HIDE DEF u
<1>3. ASSUME NEW i \in DOMAIN u, u[i].id.from = p PROVE Held(s, u, i, p)
  <2>1. i \in 1..Len(t) /\ u[i] = t[i]
    BY <1>1, <1>3
  <2>2. Held(s, t, i, p)
    BY <1>1, <1>3, <2>1 DEF Guards
  <2> QED
    BY <1>2, <2>1, <2>2 DEF Held
<1> QED
  BY <1>3 DEF Guards, u

\* A message of the peer is noted, and the oldest of too many leaves.
LEMMA NotedIs ==
  ASSUME NEW s \in Seq(Entry), NEW e \in Envelope, Len(s) <= MaxIds
  PROVE  \E d \in {0, 1} :
           /\ Len(Noted(s, e)) = Len(s) + 1 - d /\ Len(s) + 1 - d \in 1..MaxIds
           /\ d = 1 => Len(s) = MaxIds
           /\ \A k \in 1..Len(s) - d : Noted(s, e)[k] = s[k + d]
           /\ Noted(s, e)[Len(s) + 1 - d] = [id |-> e, age |-> 0]
<1> DEFINE x == [id |-> e, age |-> 0]
           more == Append(s, x)
<1>1. x \in Entry /\ MaxIds \in Nat \ {0} /\ Len(s) \in Nat
  BY ConstantsAssumption DEF Entry
<1> HIDE DEF x
<1>2. /\ more \in Seq(Entry) /\ Len(more) = Len(s) + 1 /\ more # << >>
      /\ \A k \in 1..Len(s) : more[k] = s[k]
      /\ more[Len(s) + 1] = x
  BY <1>1
<1> HIDE DEF more
<1>3. Noted(s, e) = IF Len(more) > MaxIds THEN Tail(more) ELSE more
  BY DEF Noted, more, x
<1>4. CASE Len(more) > MaxIds
  <2>1. Len(s) = MaxIds
    BY <1>1, <1>2, <1>4
  <2>2. Len(Tail(more)) = Len(more) - 1 /\ \A k \in 1..Len(more) - 1 : Tail(more)[k] = more[k + 1]
    BY <1>2
  <2>3. Len(Noted(s, e)) = Len(s) /\ \A k \in 1..Len(s) : Noted(s, e)[k] = more[k + 1]
    BY <1>1, <1>2, <1>3, <1>4, <2>2
  <2>4. ASSUME NEW k \in 1..Len(s) - 1 PROVE Noted(s, e)[k] = s[k + 1]
    <3>1. k \in 1..Len(s) /\ k + 1 \in 1..Len(s)
      BY <1>1
    <3> QED
      BY <1>2, <2>3, <3>1
  <2>5. Noted(s, e)[Len(s)] = x
    BY <1>1, <1>2, <2>1, <2>3
  <2>6. Len(s) + 1 - 1 = Len(s) /\ Len(s) \in 1..MaxIds
    BY <1>1, <2>1
  <2> QED
    BY <2>1, <2>3, <2>4, <2>5, <2>6 DEF x
<1>5. CASE ~(Len(more) > MaxIds)
  <2>1. Noted(s, e) = more
    BY <1>3, <1>5
  <2>2. Len(s) + 1 - 0 = Len(s) + 1 /\ Len(s) + 1 \in 1..MaxIds /\ Len(s) - 0 = Len(s)
    BY <1>1, <1>2, <1>5
  <2>3. \A k \in 1..Len(s) : Noted(s, e)[k] = s[k + 0]
    BY <1>1, <1>2, <2>1
  <2> QED
    BY <1>2, <2>1, <2>2, <2>3 DEF x
<1> QED
  BY <1>4, <1>5

LEMMA GuardsTaken ==
  ASSUME NEW s \in Seq(Entry), NEW t \in Seq(Taking), NEW e \in Envelope, NEW w \in BOOLEAN,
         Guards(s, t, e.from)
  PROVE  Guards(Noted(s, e), Append(t, [id |-> e, age |-> 0, wanted |-> w]), e.from)
<1> DEFINE p == e.from
           x == [id |-> e, age |-> 0, wanted |-> w]
           u == Append(t, x)
           v == Noted(s, e)
<1>1. /\ p \in Node /\ x \in Taking /\ x.id.from = p /\ x.id = e /\ x.age = 0
      /\ MaxIds \in Nat \ {0} /\ Window \in Nat
  BY ConstantsAssumption DEF Envelope, Taking
<1>2. Sorted(s) /\ Len(s) <= MaxIds /\ \A i \in DOMAIN t : t[i].id.from = p => Held(s, t, i, p)
  BY DEF Guards
<1> HIDE DEF x, p
<1>3. /\ DOMAIN t = 1..Len(t) /\ DOMAIN u = 1..Len(t) + 1 /\ Len(t) \in Nat
      /\ \A j \in 1..Len(t) : u[j] = t[j]
      /\ u[Len(t) + 1] = x /\ u \in Seq(Taking)
  BY <1>1
<1>4. \A i \in 1..Len(t) : Later(u, i, p) = Later(t, i, p) + 1 /\ Later(t, i, p) \in Nat
  BY <1>1, LaterAppend, LaterIs
<1> HIDE DEF u
<1>5. Later(u, Len(t) + 1, p) = 0
  <2>1. {j \in DOMAIN u : j > Len(t) + 1 /\ u[j].id.from = p} = {}
    BY <1>3
  <2> QED
    BY <2>1, FS_EmptySet DEF Later
<1>6. PICK d \in {0, 1} :
        /\ Len(v) = Len(s) + 1 - d /\ Len(s) + 1 - d \in 1..MaxIds
        /\ d = 1 => Len(s) = MaxIds
        /\ \A k \in 1..Len(s) - d : v[k] = s[k + d]
        /\ v[Len(s) + 1 - d] = [id |-> e, age |-> 0]
  BY <1>2, NotedIs
<1>7. v \in Seq(Entry)
  BY NotedType
<1> HIDE DEF v
<1>8. /\ DOMAIN s = 1..Len(s) /\ DOMAIN v = 1..Len(v) /\ Len(s) \in Nat
      /\ \A k \in 1..Len(s) : s[k].age \in Nat
  <2>1. \A k \in 1..Len(s) : s[k] \in Entry
    OBVIOUS
  <2>2. DOMAIN s = 1..Len(s) /\ DOMAIN v = 1..Len(v) /\ Len(s) \in Nat
    BY <1>7
  <2>3. \A a \in 0..Window + 1 : a \in Nat
    BY <1>1
  <2> QED
    BY <2>1, <2>2, <2>3 DEF Entry
<1>9. Sorted(v)
  <2> SUFFICES ASSUME NEW i \in 1..Len(v), NEW j \in 1..Len(v), i <= j PROVE v[i].age >= v[j].age
    BY <1>8 DEF Sorted
  <2>1. CASE j = Len(v)
    <3>1. v[j].age = 0
      BY <1>6, <2>1
    <3>2. v[i].age \in Nat
      <4>1. v[i] \in Entry
        BY <1>7
      <4>2. \A a \in 0..Window + 1 : a \in Nat
        BY <1>1
      <4> QED
        BY <4>1, <4>2 DEF Entry
    <3> QED
      BY <3>1, <3>2
  <2>2. CASE j # Len(v)
    <3>1. i \in 1..Len(s) - d /\ j \in 1..Len(s) - d
      BY <1>6, <1>8, <2>2
    <3>2. i + d \in DOMAIN s /\ j + d \in DOMAIN s /\ i + d <= j + d
      BY <1>6, <1>8, <3>1
    <3> QED
      BY <1>2, <1>6, <3>1, <3>2 DEF Sorted
  <2> QED
    BY <2>1, <2>2
<1>10. ASSUME NEW i \in DOMAIN u, u[i].id.from = p PROVE Held(v, u, i, p)
  <2>1. CASE i = Len(t) + 1
    <3>1. Len(v) \in DOMAIN v /\ v[Len(v)] = [id |-> e, age |-> 0] /\ Len(v) - Len(v) = 0
      BY <1>6, <1>8
    <3>2. v[Len(v)].id = u[i].id /\ v[Len(v)].age = u[i].age
      BY <1>1, <1>3, <2>1, <3>1
    <3> QED
      BY <1>5, <2>1, <3>1, <3>2 DEF Held
  <2>2. CASE i # Len(t) + 1
    <3>1. i \in 1..Len(t) /\ u[i] = t[i] /\ Held(s, t, i, p)
      BY <1>2, <1>3, <1>10, <2>2
    <3>2. CASE t[i].age > Window
      BY <3>1, <3>2 DEF Held
    <3>3. CASE Later(t, i, p) >= MaxIds
      BY <1>1, <1>4, <3>1, <3>3 DEF Held
    <3>4. CASE \E k \in DOMAIN s : /\ s[k].id = t[i].id /\ s[k].age = t[i].age
                                   /\ Len(s) - k = Later(t, i, p)
      <4>1. PICK k \in 1..Len(s) : /\ s[k].id = t[i].id /\ s[k].age = t[i].age
                                   /\ Len(s) - k = Later(t, i, p)
        BY <1>8, <3>4
      <4>2. CASE k - d = 0
        <5>1. Later(u, i, p) >= MaxIds
          BY <1>4, <1>6, <1>8, <3>1, <4>1, <4>2
        <5> QED
          BY <5>1 DEF Held
      <4>3. CASE k - d # 0
        <5>1. k - d \in 1..Len(s) - d /\ (k - d) + d = k /\ k - d \in DOMAIN v
          BY <1>6, <1>8, <4>3
        <5>2. v[k - d] = s[k]
          BY <1>6, <5>1
        <5>3. Len(v) - (k - d) = Later(u, i, p)
          BY <1>4, <1>6, <1>8, <3>1, <4>1
        <5> QED
          BY <3>1, <4>1, <5>1, <5>2, <5>3 DEF Held
      <4> QED
        BY <4>2, <4>3
    <3> QED
      BY <3>1, <3>2, <3>3, <3>4 DEF Held
  <2> QED
    BY <2>1, <2>2
<1>11. Len(v) <= MaxIds
  BY <1>1, <1>6
<1>12. Guards(v, u, p)
  BY <1>9, <1>10, <1>11 DEF Guards
<1> QED
  BY <1>12 DEF v, u, x, p

\* Time passes alike for what was taken and for what the guard remembers.
LEMMA GuardsAged ==
  ASSUME NEW s \in Seq(Entry), NEW t \in Seq(Taking), NEW p \in Node, Guards(s, t, p)
  PROVE  Guards(AgedSeq(s, Window + 1), AgedSeq(t, Window + 1), p)
<1> DEFINE v == AgedSeq(s, Window + 1)
           u == AgedSeq(t, Window + 1)
<1>0. Window \in Nat /\ DOMAIN s = 1..Len(s) /\ DOMAIN t = 1..Len(t) /\ Len(s) \in Nat
  BY ConstantsAssumption
<1>1. /\ v \in Seq(Entry) /\ Len(v) = Len(s)
      /\ \A i \in 1..Len(s) : v[i].id = s[i].id /\ v[i].age = Older(s[i].age, Window + 1)
  BY AgedEntries
<1>2. /\ u \in Seq(Taking) /\ Len(u) = Len(t)
      /\ \A i \in 1..Len(t) : u[i].id = t[i].id /\ u[i].age = Older(t[i].age, Window + 1)
  BY AgedTakings
<1> HIDE DEF u, v
<1>3. DOMAIN v = 1..Len(s) /\ DOMAIN u = 1..Len(t)
  BY <1>1, <1>2
<1>4. \A i \in 1..Len(s) : s[i].age \in 0..Window + 1
  <2>1. \A i \in 1..Len(s) : s[i] \in Entry
    OBVIOUS
  <2> QED
    BY <2>1 DEF Entry
<1>5. Sorted(v)
  <2> SUFFICES ASSUME NEW i \in 1..Len(s), NEW j \in 1..Len(s), i <= j PROVE v[i].age >= v[j].age
    BY <1>3 DEF Sorted
  <2>1. s[i].age >= s[j].age
    BY <1>0 DEF Guards, Sorted
  <2> QED
    BY <1>0, <1>1, <1>4, <2>1 DEF Older
<1>6. \A i \in 1..Len(t) : Later(u, i, p) = Later(t, i, p)
  <2>1. \A i \in 1..Len(t) : {j \in DOMAIN u : j > i /\ u[j].id.from = p}
                               = {j \in DOMAIN t : j > i /\ t[j].id.from = p}
    BY <1>0, <1>2, <1>3
  <2> QED
    BY <2>1 DEF Later
<1>7. ASSUME NEW i \in 1..Len(t), u[i].id.from = p PROVE Held(v, u, i, p)
  <2>1. Held(s, t, i, p)
    BY <1>0, <1>2, <1>7 DEF Guards
  <2>2. CASE t[i].age > Window
    <3>1. t[i].age \in 0..Window + 1
      <4>1. t[i] \in Taking
        OBVIOUS
      <4> QED
        BY <4>1 DEF Taking
    <3>2. u[i].age > Window
      BY <1>0, <1>2, <2>2, <3>1 DEF Older
    <3> QED
      BY <3>2 DEF Held
  <2>3. CASE Later(t, i, p) >= MaxIds
    BY <1>6, <2>3 DEF Held
  <2>4. CASE \E k \in DOMAIN s : /\ s[k].id = t[i].id /\ s[k].age = t[i].age
                                 /\ Len(s) - k = Later(t, i, p)
    BY <1>0, <1>1, <1>2, <1>3, <1>6, <2>4 DEF Held
  <2> QED
    BY <2>1, <2>2, <2>3, <2>4 DEF Held
<1>8. Guards(v, u, p)
  BY <1>1, <1>2, <1>3, <1>5, <1>7 DEF Guards
<1> QED
  BY <1>8 DEF u, v

\* A poll, without what it does not take.
LEMMA PollIs ==
  ASSUME TypeOK, NEW n \in Node, Poll(n)
  PROVE  \E e \in Envelope, w \in BOOLEAN :
           /\ e.from \in Node /\ UNCHANGED handed
           /\ \/ /\ seen' = [seen EXCEPT ![n][e.from] = Remembered(seen[n][e.from])]
                 /\ UNCHANGED <<inbox, lost, took>>
              \/ /\ \A i \in DOMAIN Remembered(seen[n][e.from]) :
                      Remembered(seen[n][e.from])[i].id # e
                 /\ seen' = [seen EXCEPT ![n][e.from] = Noted(Remembered(seen[n][e.from]), e)]
                 /\ took' = [took EXCEPT ![n] = Append(@, [id |-> e, age |-> 0, wanted |-> w])]
                 /\ w => /\ inbox' = [inbox EXCEPT ![n] = Push(inbox[n], e).box]
                         /\ lost' = [lost EXCEPT ![n] = @ + Push(inbox[n], e).dropped]
                 /\ ~w => UNCHANGED <<inbox, lost>>
<1> DEFINE e == Last(rx[n])
           known == Remembered(seen[n][e.from])
           w == /\ e.atom # Garbled
                /\ Wants(self[n], WorldOf[e.atom])
                /\ <<n, WorldOf[e.atom], e.from>> \in CanReceive
           next == IF w THEN Push(inbox[n], e) ELSE [box |-> inbox[n], dropped |-> 0]
<1>1. ReceiveTyped
  BY TypeOKIs
<1>2. e \in Envelope /\ e.from \in Node
  <2>1. e \in Envelope
    BY <1>1, LastFront DEF Poll, ReceiveTyped
  <2> QED
    BY <2>1 DEF Envelope
<1>3. UNCHANGED handed
      /\ \/ seen' = [seen EXCEPT ![n][e.from] = known] /\ UNCHANGED <<inbox, lost, took>>
         \/ /\ ~\E i \in DOMAIN known : known[i].id = e
            /\ seen' = [seen EXCEPT ![n][e.from] = Noted(known, e)]
            /\ inbox' = [inbox EXCEPT ![n] = next.box]
            /\ lost' = [lost EXCEPT ![n] = @ + next.dropped]
            /\ took' = [took EXCEPT ![n] = Append(@, [id |-> e, age |-> 0, wanted |-> w])]
  BY DEF Poll, PollOne
<1>4. w \in BOOLEAN
  OBVIOUS
<1>5. w => next = Push(inbox[n], e)
  OBVIOUS
<1>6. ~w => next.box = inbox[n] /\ next.dropped = 0
  OBVIOUS
<1> HIDE DEF next, w
<1>7. ~w /\ inbox' = [inbox EXCEPT ![n] = next.box] /\ lost' = [lost EXCEPT ![n] = @ + next.dropped]
        => UNCHANGED <<inbox, lost>>
  BY <1>1, <1>6 DEF ReceiveTyped
<1> HIDE DEF e
<1> QED
  BY <1>2, <1>3, <1>4, <1>5, <1>7

LEMMA GuardPoll == ASSUME TypeOK, GuardInv, NEW n \in Node, Poll(n) PROVE GuardInv'
<1> SUFFICES ASSUME NEW k \in Node, NEW p \in Node PROVE Guards(seen'[k][p], took'[k], p)
  BY DEF GuardInv
<1>1. ReceiveTyped
  BY TypeOKIs
<1>2. PICK e \in Envelope, w \in BOOLEAN :
        /\ e.from \in Node
        /\ \/ /\ seen' = [seen EXCEPT ![n][e.from] = Remembered(seen[n][e.from])]
              /\ UNCHANGED took
           \/ /\ seen' = [seen EXCEPT ![n][e.from] = Noted(Remembered(seen[n][e.from]), e)]
              /\ took' = [took EXCEPT ![n] = Append(@, [id |-> e, age |-> 0, wanted |-> w])]
  BY PollIs
<1> DEFINE x == [id |-> e, age |-> 0, wanted |-> w]
           known == Remembered(seen[n][e.from])
<1>3. e.from \in Node
  BY <1>2
<1>4. /\ seen[k][p] \in Seq(Entry) /\ took[k] \in Seq(Taking) /\ seen[n][e.from] \in Seq(Entry)
      /\ Guards(seen[k][p], took[k], p)
  BY <1>1, <1>3 DEF ReceiveTyped, GuardInv
<1>5. x \in Taking /\ x.id.from = e.from
  <2>1. 0 \in 0..Window + 1
    BY ConstantsAssumption
  <2> QED
    BY <2>1 DEF Taking
<1>6. CASE k # n
  BY <1>1, <1>2, <1>4, <1>6 DEF ReceiveTyped
<1>7. CASE k = n /\ p = e.from
  <2>1. Guards(known, took[n], e.from) /\ known \in Seq(Entry)
    BY <1>2, <1>4, <1>7, GuardsPruned, RememberedType
  <2>2. Guards(Noted(known, e), Append(took[n], x), e.from)
    BY <1>4, <1>7, <2>1, GuardsTaken
  <2>3. \/ seen'[n][e.from] = known /\ took'[n] = took[n]
        \/ seen'[n][e.from] = Noted(known, e) /\ took'[n] = Append(took[n], x)
    <3>1. \/ seen' = [seen EXCEPT ![n][e.from] = known] /\ took' = took
          \/ /\ seen' = [seen EXCEPT ![n][e.from] = Noted(known, e)]
             /\ took' = [took EXCEPT ![n] = Append(@, x)]
      BY <1>2
    <3> HIDE DEF known, x
    <3>2. ASSUME NEW v, seen' = [seen EXCEPT ![n][e.from] = v] PROVE seen'[n][e.from] = v
      BY <1>1, <1>3, <3>2 DEF ReceiveTyped
    <3>3. ASSUME NEW v, took' = [took EXCEPT ![n] = v] PROVE took'[n] = v
      BY <1>1, <3>3 DEF ReceiveTyped
    <3> QED
      BY <3>1, <3>2, <3>3
  <2> HIDE DEF known, x
  <2> QED
    BY <1>7, <2>1, <2>2, <2>3
<1>8. CASE k = n /\ p # e.from
  <2>1. Guards(seen[n][p], Append(took[n], x), p)
    BY <1>4, <1>5, <1>8, GuardsOther
  <2>2. seen'[n][p] = seen[n][p] /\ took'[n] \in {took[n], Append(took[n], x)}
    <3>1. /\ \E v : seen' = [seen EXCEPT ![n][e.from] = v]
          /\ took' = took \/ took' = [took EXCEPT ![n] = Append(@, x)]
      BY <1>2
    <3> HIDE DEF x
    <3> QED
      BY <1>1, <1>8, <1>3, <3>1 DEF ReceiveTyped
  <2> HIDE DEF known, x
  <2> QED
    BY <1>4, <1>8, <2>1, <2>2
<1> QED
  BY <1>6, <1>7, <1>8

LEMMA GuardInit == ASSUME Init PROVE GuardInv
  BY ConstantsAssumption DEF Init, GuardInv, Guards, Sorted

LEMMA GuardStep == ASSUME TypeOK, GuardInv, [Next]_vars PROVE GuardInv'
<1>0. ReceiveTyped
  BY TypeOKIs
<1>1. CASE UNCHANGED <<seen, took>>
  BY <1>1 DEF GuardInv
<1>2. CASE Tick
  <2>1. /\ seen' = [n \in Node |-> [p \in Node |-> AgedSeq(seen[n][p], Window + 1)]]
        /\ took' = [n \in Node |-> AgedSeq(took[n], Window + 1)]
    BY <1>2 DEF Tick
  <2>2. ASSUME NEW n \in Node, NEW p \in Node PROVE Guards(seen'[n][p], took'[n], p)
    <3>1. seen[n][p] \in Seq(Entry) /\ took[n] \in Seq(Taking) /\ Guards(seen[n][p], took[n], p)
      BY <1>0 DEF ReceiveTyped, GuardInv
    <3> QED
      BY <2>1, <3>1, GuardsAged
  <2> QED
    BY <2>2 DEF GuardInv
<1>3. ASSUME NEW n \in Node, Crash(n) PROVE GuardInv'
  <2>1. took' = [took EXCEPT ![n] = << >>] /\ seen' = [seen EXCEPT ![n] = [p \in Node |-> << >>]]
    BY <1>3 DEF Crash
  <2>2. \A p \in Node : Guards(<< >>, << >>, p)
    BY ConstantsAssumption DEF Guards, Sorted
  <2>3. ASSUME NEW k \in Node, NEW p \in Node PROVE Guards(seen'[k][p], took'[k], p)
    BY <1>0, <2>1, <2>2 DEF ReceiveTyped, GuardInv
  <2> QED
    BY <2>3 DEF GuardInv
<1>4. ASSUME NEW n \in Node, \/ Announce(n) \/ Persist(n) \/ Snapshot(n) \/ BeginReplicate(n)
                             \/ Collect(n) \/ SendOne(n) \/ EndReplicate(n) \/ PollAtomBatch(n)
                             \/ Start(n)
      PROVE  UNCHANGED <<seen, took>>
  BY <1>4 DEF Announce, Persist, Snapshot, BeginReplicate, Collect, SendOne, EndReplicate,
              PollAtomBatch, Start, receiving
<1>5. ASSUME \/ \E n, p \in Node : SendGarbled(n, p)
             \/ \E m \in intents : Hear(m)
             \/ \E m \in mail : Receive(m)
             \/ \E m \in mail \cup intents : Lose(m)
             \/ UNCHANGED vars
      PROVE  UNCHANGED <<seen, took>>
  BY <1>5 DEF SendGarbled, Hear, Receive, Lose, vars, receiving
<1> QED
  BY <1>1, <1>2, <1>3, <1>4, <1>5, GuardPoll DEF Next

\* Only a poll makes the history of what was taken longer.
LEMMA LongerByPoll ==
  ASSUME TypeOK, [Next]_vars, NEW n \in Node, Len(took'[n]) > Len(took[n])
  PROVE  Poll(n)
<1>0. ReceiveTyped
  BY TypeOKIs
<1>1. Len(took[n]) \in Nat /\ took[n] \in Seq(Taking)
  BY <1>0 DEF ReceiveTyped
<1>2. took'[n] # took[n]
  BY <1>1
<1>3. ASSUME Tick PROVE FALSE
  <2>1. took'[n] = AgedSeq(took[n], Window + 1)
    BY <1>3 DEF Tick
  <2>2. Len(took'[n]) = Len(took[n])
    BY <1>1, <2>1, AgedTakings
  <2> QED
    BY <1>1, <2>2
<1>4. ASSUME NEW k \in Node, Crash(k) PROVE FALSE
  <2>1. took' = [took EXCEPT ![k] = << >>]
    BY <1>4 DEF Crash
  <2>2. took'[n] = << >> \/ took'[n] = took[n]
    BY <1>0, <2>1 DEF ReceiveTyped
  <2>3. Len(<< >>) = 0
    OBVIOUS
  <2> QED
    BY <1>1, <1>2, <2>2, <2>3
<1>5. ASSUME NEW k \in Node, Poll(k), k # n PROVE FALSE
  <2>1. UNCHANGED took \/ \E x : took' = [took EXCEPT ![k] = x]
    BY <1>5 DEF Poll, PollOne
  <2> QED
    BY <1>0, <1>2, <1>5, <2>1 DEF ReceiveTyped
<1>6. ASSUME NEW k \in Node, \/ Announce(k) \/ Persist(k) \/ Snapshot(k) \/ BeginReplicate(k)
                             \/ Collect(k) \/ SendOne(k) \/ EndReplicate(k) \/ PollAtomBatch(k)
                             \/ Start(k)
      PROVE  FALSE
  BY <1>2, <1>6 DEF Announce, Persist, Snapshot, BeginReplicate, Collect, SendOne, EndReplicate,
                    PollAtomBatch, Start, receiving
<1>7. ASSUME \/ \E k, p \in Node : SendGarbled(k, p)
             \/ \E m \in intents : Hear(m)
             \/ \E m \in mail : Receive(m)
             \/ \E m \in mail \cup intents : Lose(m)
             \/ UNCHANGED vars
      PROVE  FALSE
  BY <1>2, <1>7 DEF SendGarbled, Hear, Receive, Lose, vars, receiving
<1> QED
  BY <1>3, <1>4, <1>5, <1>6, <1>7 DEF Next

\* What TakenOnce says of one step and one node.
TakenAgain(n) ==
  Len(took'[n]) > Len(took[n]) =>
    LET e == Last(took'[n]).id
        t == took[n]
    IN  \A i \in DOMAIN t : t[i].id = e =>
          \/ t[i].age > Window
          \/ Cardinality({j \in DOMAIN t : j > i /\ t[j].id.from = e.from}) >= MaxIds

LEMMA TakenStep == ASSUME TypeOK, GuardInv, [Next]_vars, NEW n \in Node PROVE TakenAgain(n)
<1> DEFINE t == took[n]
<1> SUFFICES ASSUME Len(took'[n]) > Len(t),
                    NEW i \in DOMAIN t, t[i].id = Last(took'[n]).id
             PROVE  t[i].age > Window \/ Later(t, i, t[i].id.from) >= MaxIds
  BY DEF TakenAgain, Later
<1>0. ReceiveTyped
  BY TypeOKIs
<1>1. Poll(n)
  BY LongerByPoll
<1>2. PICK e \in Envelope, w \in BOOLEAN :
        /\ e.from \in Node
        /\ \/ UNCHANGED took
           \/ /\ \A k \in DOMAIN Remembered(seen[n][e.from]) : Remembered(seen[n][e.from])[k].id # e
              /\ took' = [took EXCEPT ![n] = Append(@, [id |-> e, age |-> 0, wanted |-> w])]
  BY <1>1, PollIs
<1> DEFINE x == [id |-> e, age |-> 0, wanted |-> w]
           known == Remembered(seen[n][e.from])
<1>3. t \in Seq(Taking) /\ seen[n][e.from] \in Seq(Entry) /\ Guards(seen[n][e.from], t, e.from)
  BY <1>0, <1>2 DEF ReceiveTyped, GuardInv
<1>4. took' # took
  <2>1. Len(t) \in Nat
    BY <1>3
  <2> QED
    BY <2>1
<1>5. (\A k \in DOMAIN known : known[k].id # e) /\ took'[n] = Append(t, x)
  BY <1>0, <1>2, <1>4 DEF ReceiveTyped
<1>6. Last(took'[n]) = x
  BY <1>3, <1>5, ConstantsAssumption DEF Last, Taking
<1>7. t[i].id = e /\ i \in 1..Len(t)
  BY <1>3, <1>6
<1>8. \/ t[i].age > Window \/ Later(t, i, e.from) >= MaxIds
      \/ \E k \in 1..Len(known) : known[k].id = e
  <2>1. e.from \in Node
    BY <1>2
  <2>2. \A j \in 1..Len(t) : t[j].id.from = e.from =>
          \/ t[j].age > Window \/ Later(t, j, e.from) >= MaxIds
          \/ \E k \in 1..Len(known) : known[k].id = t[j].id
    BY <1>3, <2>1, GuardsPruned
  <2> QED
    BY <1>7, <2>2
<1>9. DOMAIN known = 1..Len(known)
  BY <1>3, RememberedType
<1> QED
  BY <1>5, <1>7, <1>8, <1>9

THEOREM TakenOnceCorrect == Spec => TakenOnce
<1>1. Init => IInv /\ TypeOK /\ GuardInv
  BY IInvInit, TypeInit, GuardInit
<1>2. IInv /\ TypeOK /\ GuardInv /\ [Next]_vars => (IInv /\ TypeOK /\ GuardInv)'
  BY IInvStep, TypeStep, GuardStep
<1>3. IInv /\ TypeOK /\ GuardInv /\ [Next]_vars => \A n \in Node : TakenAgain(n)
  BY TakenStep
<1>4. TakenOnce <=> [][\A n \in Node : TakenAgain(n)]_vars
  BY DEF TakenOnce, TakenAgain
<1> QED
  BY <1>1, <1>2, <1>3, <1>4, PTL DEF Spec

-----------------------------------------------------------------------------
(* What became of the batches accepted: see InboxAccounts.                 *)
Accounts(t, gone, box) ==
  /\ WantedUpTo(t, Len(t)) = gone + Len(box)
  /\ \A i \in DOMAIN box : \E j \in DOMAIN t :
       t[j].wanted /\ t[j].id = box[i] /\ WantedUpTo(t, j) = gone + i

LEMMA InboxAccountsIs ==
  InboxAccounts <=> \A n \in Node : Accounts(took[n], handed[n] + lost[n], inbox[n])
  BY DEF InboxAccounts, Accounts

LEMMA WantedUpToIs ==
  ASSUME NEW t \in Seq(Taking), NEW j \in Nat
  PROVE  /\ IsFiniteSet({k \in DOMAIN t : k <= j /\ t[k].wanted}) /\ WantedUpTo(t, j) \in Nat
         /\ DOMAIN t = 1..Len(t) /\ Len(t) \in Nat
<1>1. IsFiniteSet(1..Len(t)) /\ DOMAIN t = 1..Len(t) /\ Len(t) \in Nat
  <2>1. 1 \in Int /\ Len(t) \in Int /\ DOMAIN t = 1..Len(t) /\ Len(t) \in Nat
    OBVIOUS
  <2> QED
    BY <2>1, FS_Interval
<1>2. {k \in DOMAIN t : k <= j /\ t[k].wanted} \in SUBSET (1..Len(t))
  BY <1>1
<1> QED
  BY <1>1, <1>2, FS_Subset, FS_CardinalityType DEF WantedUpTo

LEMMA WantedAppend ==
  ASSUME NEW t \in Seq(Taking), NEW x \in Taking
  PROVE  /\ \A j \in 1..Len(t) : WantedUpTo(Append(t, x), j) = WantedUpTo(t, j)
         /\ WantedUpTo(Append(t, x), Len(t) + 1)
              = IF x.wanted THEN WantedUpTo(t, Len(t)) + 1 ELSE WantedUpTo(t, Len(t))
<1> DEFINE u == Append(t, x)
           D == {k \in DOMAIN t : k <= Len(t) /\ t[k].wanted}
<1>1. /\ DOMAIN t = 1..Len(t) /\ DOMAIN u = 1..Len(t) + 1 /\ Len(t) \in Nat
      /\ \A j \in 1..Len(t) : u[j] = t[j]
      /\ u[Len(t) + 1] = x
  OBVIOUS
<1> HIDE DEF u
<1>2. IsFiniteSet(D) /\ Len(t) + 1 \notin D
  BY <1>1, WantedUpToIs
<1>3. ASSUME NEW j \in 1..Len(t) PROVE WantedUpTo(u, j) = WantedUpTo(t, j)
  <2>1. {k \in DOMAIN u : k <= j /\ u[k].wanted} = {k \in DOMAIN t : k <= j /\ t[k].wanted}
    BY <1>1
  <2> QED
    BY <2>1 DEF WantedUpTo
<1>4. CASE x.wanted
  <2>1. {k \in DOMAIN u : k <= Len(t) + 1 /\ u[k].wanted} = D \cup {Len(t) + 1}
    BY <1>1, <1>4
  <2> QED
    <3>1. Cardinality(D \cup {Len(t) + 1}) = Cardinality(D) + 1
      BY <1>2, FS_AddElement
    <3>2. WantedUpTo(u, Len(t) + 1) = WantedUpTo(t, Len(t)) + 1
      BY <2>1, <3>1 DEF WantedUpTo
    <3> QED
      BY <1>3, <1>4, <3>2 DEF u
<1>5. CASE ~x.wanted
  <2>1. {k \in DOMAIN u : k <= Len(t) + 1 /\ u[k].wanted} = D
    BY <1>1, <1>5
  <2> QED
    BY <1>3, <1>5, <2>1 DEF WantedUpTo, u
<1> QED
  BY <1>4, <1>5

\* A full inbox gives up its oldest batch, and one is counted.
LEMMA PushIs ==
  ASSUME NEW box \in Seq(Envelope), NEW e \in Envelope, Len(box) <= MaxInbox
  PROVE  \E d \in {0, 1} :
           /\ Push(box, e).dropped = d /\ Push(box, e).box \in Seq(Envelope)
           /\ Len(Push(box, e).box) = Len(box) + 1 - d /\ Len(box) + 1 - d \in Nat \ {0}
           /\ \A i \in 1..Len(box) - d : Push(box, e).box[i] = box[i + d]
           /\ Push(box, e).box[Len(box) + 1 - d] = e
<1>1. MaxInbox \in Nat \ {0} /\ Len(box) \in Nat
  BY ConstantsAssumption
<1>2. CASE Len(box) >= MaxInbox
  <2>1. box # << >> /\ Len(box) >= 1
    BY <1>1, <1>2
  <2>2. Push(box, e) = [box |-> Append(Tail(box), e), dropped |-> 1]
    BY <1>2 DEF Push
  <2>3. Tail(box) \in Seq(Envelope) /\ Len(Tail(box)) = Len(box) - 1
        /\ \A i \in 1..Len(box) - 1 : Tail(box)[i] = box[i + 1]
    BY <2>1
  <2> DEFINE b == Append(Tail(box), e)
  <2>4. /\ b \in Seq(Envelope) /\ Len(b) = Len(box)
        /\ \A i \in 1..Len(box) - 1 : b[i] = Tail(box)[i]
        /\ b[Len(box)] = e
    BY <1>1, <2>1, <2>3
  <2> HIDE DEF b
  <2>5. Push(box, e).dropped = 1 /\ Push(box, e).box = b
    BY <2>2 DEF b
  <2>6. Len(box) + 1 - 1 = Len(box)
    BY <1>1
  <2> QED
    BY <1>1, <2>1, <2>3, <2>4, <2>5, <2>6
<1>3. CASE ~(Len(box) >= MaxInbox)
  <2> DEFINE b == Append(box, e)
  <2>1. /\ b \in Seq(Envelope) /\ Len(b) = Len(box) + 1
        /\ \A i \in 1..Len(box) : b[i] = box[i]
        /\ b[Len(box) + 1] = e
    OBVIOUS
  <2>2. Push(box, e).dropped = 0 /\ Push(box, e).box = b
    BY <1>3 DEF Push
  <2> HIDE DEF b
  <2>3. Len(box) + 1 - 0 = Len(box) + 1 /\ Len(box) - 0 = Len(box)
    BY <1>1
  <2>4. \A i \in 1..Len(box) : i + 0 = i
    BY <1>1
  <2> QED
    BY <1>1, <2>1, <2>2, <2>3, <2>4
<1> QED
  BY <1>2, <1>3

\* A batch is taken that the inbox wants, or one it does not want.
LEMMA AccountsTaken ==
  ASSUME NEW t \in Seq(Taking), NEW gone \in Nat, NEW box \in Seq(Envelope), Len(box) <= MaxInbox,
         NEW x \in Taking, Accounts(t, gone, box)
  PROVE  /\ x.wanted => Accounts(Append(t, x), gone + Push(box, x.id).dropped, Push(box, x.id).box)
         /\ ~x.wanted => Accounts(Append(t, x), gone, box)
<1> DEFINE u == Append(t, x)
           b == Push(box, x.id).box
           drop == Push(box, x.id).dropped
<1>1. /\ DOMAIN t = 1..Len(t) /\ DOMAIN u = 1..Len(t) + 1 /\ Len(t) \in Nat /\ Len(u) = Len(t) + 1
      /\ \A j \in 1..Len(t) : u[j] = t[j]
      /\ u[Len(t) + 1] = x
  OBVIOUS
<1>2. /\ \A j \in 1..Len(t) : WantedUpTo(u, j) = WantedUpTo(t, j)
      /\ WantedUpTo(u, Len(t) + 1)
           = IF x.wanted THEN WantedUpTo(t, Len(t)) + 1 ELSE WantedUpTo(t, Len(t))
  BY WantedAppend
<1>3. x.id \in Envelope
  BY DEF Taking
<1>4. PICK d \in {0, 1} :
        /\ drop = d /\ b \in Seq(Envelope)
        /\ Len(b) = Len(box) + 1 - d /\ Len(box) + 1 - d \in Nat \ {0}
        /\ \A i \in 1..Len(box) - d : b[i] = box[i + d]
        /\ b[Len(box) + 1 - d] = x.id
  BY <1>3, PushIs
<1> HIDE DEF u, b, drop
<1>5. DOMAIN box = 1..Len(box) /\ DOMAIN b = 1..Len(b) /\ Len(box) \in Nat
      /\ WantedUpTo(t, Len(t)) = gone + Len(box)
  BY <1>4 DEF Accounts
<1>6. ASSUME x.wanted PROVE Accounts(u, gone + drop, b)
  <2>1. WantedUpTo(u, Len(u)) = gone + drop + Len(b)
    BY <1>1, <1>2, <1>4, <1>5, <1>6
  <2>2. ASSUME NEW i \in 1..Len(b)
        PROVE  \E j \in DOMAIN u : /\ u[j].wanted /\ u[j].id = b[i]
                                   /\ WantedUpTo(u, j) = gone + drop + i
    <3>1. CASE i = Len(b)
      BY <1>1, <1>2, <1>4, <1>5, <1>6, <3>1
    <3>2. CASE i # Len(b)
      <4>1. i \in 1..Len(box) - d /\ i + d \in DOMAIN box /\ b[i] = box[i + d]
        BY <1>4, <1>5, <3>2
      <4>2. PICK j \in DOMAIN t : /\ t[j].wanted /\ t[j].id = box[i + d]
                                  /\ WantedUpTo(t, j) = gone + (i + d)
        BY <4>1 DEF Accounts
      <4>3. j \in DOMAIN u /\ u[j] = t[j] /\ WantedUpTo(u, j) = gone + drop + i
        BY <1>1, <1>2, <1>4, <4>1, <4>2
      <4> QED
        BY <4>1, <4>2, <4>3
    <3> QED
      BY <3>1, <3>2
  <2> QED
    BY <1>5, <2>1, <2>2 DEF Accounts
<1>7. ASSUME ~x.wanted PROVE Accounts(u, gone, box)
  BY <1>1, <1>2, <1>5, <1>7 DEF Accounts
<1> QED
  BY <1>6, <1>7 DEF u, b, drop

LEMMA AccountsPoll == ASSUME TypeOK, InboxAccounts, NEW n \in Node, Poll(n) PROVE InboxAccounts'
<1> SUFFICES ASSUME NEW k \in Node PROVE Accounts(took'[k], handed'[k] + lost'[k], inbox'[k])
  BY DEF InboxAccounts, Accounts
<1>1. ReceiveTyped
  BY TypeOKIs
<1>2. PICK e \in Envelope, w \in BOOLEAN :
        /\ UNCHANGED handed
        /\ \/ UNCHANGED <<inbox, lost, took>>
           \/ /\ took' = [took EXCEPT ![n] = Append(@, [id |-> e, age |-> 0, wanted |-> w])]
              /\ w => /\ inbox' = [inbox EXCEPT ![n] = Push(inbox[n], e).box]
                      /\ lost' = [lost EXCEPT ![n] = @ + Push(inbox[n], e).dropped]
              /\ ~w => UNCHANGED <<inbox, lost>>
  BY PollIs
<1> DEFINE x == [id |-> e, age |-> 0, wanted |-> w]
<1>3. x \in Taking /\ x.id = e /\ x.wanted = w
  <2>1. 0 \in 0..Window + 1
    BY ConstantsAssumption
  <2> QED
    BY <2>1 DEF Taking
<1>4. /\ took[k] \in Seq(Taking) /\ handed[k] \in Nat /\ lost[k] \in Nat
      /\ inbox[k] \in Seq(Envelope) /\ Len(inbox[k]) <= MaxInbox
      /\ Accounts(took[k], handed[k] + lost[k], inbox[k])
  BY <1>1, InboxAccountsIs DEF ReceiveTyped
<1>5. CASE UNCHANGED <<inbox, lost, took>>
  BY <1>2, <1>4, <1>5
<1>6. CASE k # n
  <2>1. took'[k] = took[k] /\ inbox'[k] = inbox[k] /\ lost'[k] = lost[k]
    BY <1>1, <1>2, <1>6 DEF ReceiveTyped
  <2> QED
    BY <1>2, <1>4, <2>1
<1>7. CASE k = n /\ ~UNCHANGED <<inbox, lost, took>>
  <2>1. took'[n] = Append(took[n], x)
    BY <1>1, <1>2, <1>7 DEF ReceiveTyped
  <2>2. CASE w
    <3>1. inbox' = [inbox EXCEPT ![n] = Push(inbox[n], e).box]
          /\ lost' = [lost EXCEPT ![n] = @ + Push(inbox[n], e).dropped]
      BY <1>2, <1>7, <2>2
    <3>2. inbox'[n] = Push(inbox[n], e).box /\ lost'[n] = lost[n] + Push(inbox[n], e).dropped
      BY <1>1, <3>1 DEF ReceiveTyped
    <3> HIDE DEF x
    <3>3. Accounts(took'[n], handed[n] + lost[n] + Push(inbox[n], e).dropped, inbox'[n])
      <4>1. handed[n] + lost[n] \in Nat
        BY <1>4, <1>7
      <4> QED
        BY <1>3, <1>4, <1>7, <2>1, <2>2, <3>2, <4>1, AccountsTaken
    <3>4. Push(inbox[n], e).dropped \in Nat
      BY <1>4, <1>7, PushType
    <3> QED
      BY <1>2, <1>4, <1>7, <3>2, <3>3, <3>4
  <2>3. CASE ~w
    <3>1. UNCHANGED <<inbox, lost>>
      BY <1>2, <1>7, <2>3
    <3> HIDE DEF x
    <3>2. handed[n] + lost[n] \in Nat
      BY <1>4, <1>7
    <3> QED
      BY <1>2, <1>3, <1>4, <1>7, <2>1, <2>3, <3>1, <3>2, AccountsTaken
  <2> QED
    BY <2>2, <2>3
<1> QED
  BY <1>5, <1>6, <1>7

\* poll_atom_batch takes the oldest batch.
LEMMA AccountsHanded ==
  ASSUME NEW t, NEW gone \in Nat, NEW box \in Seq(Envelope), box # << >>, Accounts(t, gone, box)
  PROVE  Accounts(t, gone + 1, Tail(box))
<1>1. /\ Len(box) \in Nat \ {0} /\ DOMAIN box = 1..Len(box) /\ Len(Tail(box)) = Len(box) - 1
      /\ DOMAIN Tail(box) = 1..Len(box) - 1
      /\ \A i \in 1..Len(box) - 1 : Tail(box)[i] = box[i + 1]
  OBVIOUS
<1>2. WantedUpTo(t, Len(t)) = gone + 1 + Len(Tail(box))
  BY <1>1 DEF Accounts
<1>3. ASSUME NEW i \in DOMAIN Tail(box)
      PROVE  \E j \in DOMAIN t : /\ t[j].wanted /\ t[j].id = Tail(box)[i]
                                 /\ WantedUpTo(t, j) = gone + 1 + i
  <2>1. i + 1 \in DOMAIN box /\ Tail(box)[i] = box[i + 1] /\ gone + 1 + i = gone + (i + 1)
    BY <1>1
  <2> QED
    BY <2>1 DEF Accounts
<1> QED
  BY <1>2, <1>3 DEF Accounts

LEMMA AccountsAged ==
  ASSUME NEW t \in Seq(Taking), NEW gone, NEW box, Accounts(t, gone, box)
  PROVE  Accounts(AgedSeq(t, Window + 1), gone, box)
<1> DEFINE u == AgedSeq(t, Window + 1)
<1>1. /\ u \in Seq(Taking) /\ Len(u) = Len(t) /\ DOMAIN t = 1..Len(t) /\ DOMAIN u = 1..Len(t)
      /\ \A i \in 1..Len(t) : u[i].id = t[i].id /\ u[i].wanted = t[i].wanted
  <2>1. /\ u \in Seq(Taking) /\ Len(u) = Len(t)
        /\ \A i \in 1..Len(t) : u[i].id = t[i].id /\ u[i].wanted = t[i].wanted
    BY AgedTakings
  <2> HIDE DEF u
  <2> QED
    BY <2>1
<1> HIDE DEF u
<1>2. \A j : WantedUpTo(u, j) = WantedUpTo(t, j)
  <2>1. \A j : {k \in DOMAIN u : k <= j /\ u[k].wanted} = {k \in DOMAIN t : k <= j /\ t[k].wanted}
    BY <1>1
  <2> QED
    BY <2>1 DEF WantedUpTo
<1>3. Accounts(u, gone, box)
  BY <1>1, <1>2 DEF Accounts
<1> QED
  BY <1>3 DEF u

LEMMA AccountsInit == ASSUME Init PROVE InboxAccounts
<1>1. {k \in DOMAIN << >> : k <= Len(<< >>) /\ << >>[k].wanted} = {}
  OBVIOUS
<1>2. WantedUpTo(<< >>, Len(<< >>)) = 0
  BY <1>1, FS_EmptySet DEF WantedUpTo
<1> QED
  BY <1>2 DEF Init, InboxAccounts

LEMMA AccountsStep == ASSUME TypeOK, InboxAccounts, [Next]_vars PROVE InboxAccounts'
<1>0. ReceiveTyped
  BY TypeOKIs
<1>1. CASE UNCHANGED <<took, handed, lost, inbox>>
  BY <1>1 DEF InboxAccounts
<1>2. CASE Tick
  <2>1. took' = [n \in Node |-> AgedSeq(took[n], Window + 1)] /\ UNCHANGED <<handed, lost, inbox>>
    BY <1>2 DEF Tick
  <2>2. ASSUME NEW n \in Node PROVE Accounts(took'[n], handed[n] + lost[n], inbox[n])
    <3>1. took[n] \in Seq(Taking) /\ Accounts(took[n], handed[n] + lost[n], inbox[n])
      BY <1>0, InboxAccountsIs DEF ReceiveTyped
    <3> QED
      BY <2>1, <3>1, AccountsAged
  <2> QED
    BY <2>1, <2>2 DEF InboxAccounts, Accounts
<1>3. ASSUME NEW n \in Node, PollAtomBatch(n) PROVE InboxAccounts'
  <2>1. /\ inbox[n] # << >> /\ inbox' = [inbox EXCEPT ![n] = Tail(@)]
        /\ handed' = [handed EXCEPT ![n] = @ + 1] /\ UNCHANGED <<took, lost>>
    BY <1>3 DEF PollAtomBatch
  <2>2. ASSUME NEW k \in Node PROVE Accounts(took'[k], handed'[k] + lost'[k], inbox'[k])
    <3>1. /\ handed[k] \in Nat /\ lost[k] \in Nat /\ inbox[k] \in Seq(Envelope)
          /\ Accounts(took[k], handed[k] + lost[k], inbox[k])
      BY <1>0, InboxAccountsIs DEF ReceiveTyped
    <3>2. CASE k = n
      <4>1. inbox'[k] = Tail(inbox[k]) /\ handed'[k] = handed[k] + 1
        BY <1>0, <2>1, <3>2 DEF ReceiveTyped
      <4>2. handed[k] + lost[k] \in Nat /\ handed'[k] + lost'[k] = handed[k] + lost[k] + 1
        BY <2>1, <3>1, <4>1
      <4> QED
        BY <2>1, <3>1, <3>2, <4>1, <4>2, AccountsHanded
    <3>3. CASE k # n
      <4>1. inbox'[k] = inbox[k] /\ handed'[k] = handed[k]
        BY <1>0, <2>1, <3>3 DEF ReceiveTyped
      <4> QED
        BY <2>1, <3>1, <4>1
    <3> QED
      BY <3>2, <3>3
  <2> QED
    BY <2>2 DEF InboxAccounts, Accounts
<1>4. ASSUME NEW n \in Node, Crash(n) PROVE InboxAccounts'
  <2>1. /\ took' = [took EXCEPT ![n] = << >>] /\ inbox' = [inbox EXCEPT ![n] = << >>]
        /\ lost' = [lost EXCEPT ![n] = 0] /\ handed' = [handed EXCEPT ![n] = 0]
    BY <1>4 DEF Crash
  <2>2. Accounts(<< >>, 0, << >>)
    <3>1. {k \in DOMAIN << >> : k <= Len(<< >>) /\ << >>[k].wanted} = {}
      OBVIOUS
    <3>2. WantedUpTo(<< >>, Len(<< >>)) = 0
      BY <3>1, FS_EmptySet DEF WantedUpTo
    <3> QED
      BY <3>2 DEF Accounts
  <2>3. ASSUME NEW k \in Node PROVE Accounts(took'[k], handed'[k] + lost'[k], inbox'[k])
    <3>1. CASE k = n
      <4>1. took'[k] = << >> /\ inbox'[k] = << >> /\ handed'[k] + lost'[k] = 0
        BY <1>0, <2>1, <3>1 DEF ReceiveTyped
      <4> QED
        BY <2>2, <4>1
    <3>2. CASE k # n
      <4>1. /\ took'[k] = took[k] /\ inbox'[k] = inbox[k]
            /\ handed'[k] = handed[k] /\ lost'[k] = lost[k]
        BY <1>0, <2>1, <3>2 DEF ReceiveTyped
      <4> QED
        BY <4>1, InboxAccountsIs
    <3> QED
      BY <3>1, <3>2
  <2> QED
    BY <2>3 DEF InboxAccounts, Accounts
<1>5. ASSUME NEW n \in Node, \/ Announce(n) \/ Persist(n) \/ Snapshot(n) \/ BeginReplicate(n)
                             \/ Collect(n) \/ SendOne(n) \/ EndReplicate(n) \/ Start(n)
      PROVE  UNCHANGED <<took, handed, lost, inbox>>
  BY <1>5 DEF Announce, Persist, Snapshot, BeginReplicate, Collect, SendOne, EndReplicate,
              Start, receiving
<1>6. ASSUME \/ \E n, p \in Node : SendGarbled(n, p)
             \/ \E m \in intents : Hear(m)
             \/ \E m \in mail : Receive(m)
             \/ \E m \in mail \cup intents : Lose(m)
             \/ UNCHANGED vars
      PROVE  UNCHANGED <<took, handed, lost, inbox>>
  BY <1>6 DEF SendGarbled, Hear, Receive, Lose, vars, receiving
<1> QED
  BY <1>1, <1>2, <1>3, <1>4, <1>5, <1>6, AccountsPoll DEF Next

THEOREM InboxAccountsCorrect == Spec => []InboxAccounts
<1>1. Init => IInv /\ TypeOK /\ InboxAccounts
  BY IInvInit, TypeInit, AccountsInit
<1>2. IInv /\ TypeOK /\ InboxAccounts /\ [Next]_vars => (IInv /\ TypeOK /\ InboxAccounts)'
  BY IInvStep, TypeStep, AccountsStep
<1> QED
  BY <1>1, <1>2, PTL DEF Spec
=============================================================================
