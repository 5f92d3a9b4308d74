--------------------------- MODULE Engine_proofs ---------------------------
(***************************************************************************)
(* Theorems about Engine, for every number of threads, worlds and calls,   *)
(* every set of requests and batches and every value of the bounds.        *)
(***************************************************************************)
EXTENDS Engine, SequenceTheorems, TLAPS

LEMMA IdleIsJob == Idle \in Job
<1>1. << >> \in Seq(Atom)
  BY EmptySeq
<1> QED
  BY <1>1 DEF Idle, Job, Call

LEMMA HeadTail ==
  ASSUME NEW S, NEW s \in Seq(S), s # << >>
  PROVE  /\ Head(s) \in S /\ Tail(s) \in Seq(S)
         /\ Head(s) \in Elements(s) /\ Elements(s) = {Head(s)} \cup Elements(Tail(s))
<1>1. Len(s) \in Nat /\ Len(s) # 0 /\ DOMAIN s = 1 .. Len(s)
  BY EmptySeq, LenProperties
<1>2. Head(s) \in S /\ Tail(s) \in Seq(S) /\ Len(Tail(s)) = Len(s) - 1
      /\ \A i \in 1 .. Len(Tail(s)) : Tail(s)[i] = s[i + 1]
  BY HeadTailProperties
<1>3. DOMAIN Tail(s) = 1 .. Len(Tail(s))
  BY <1>2, LenProperties
<1>4. Head(s) = s[1]
  BY <1>1
<1>5. \A i \in DOMAIN s : i = 1 \/ (i - 1 \in DOMAIN Tail(s) /\ s[i] = Tail(s)[i - 1])
  BY <1>1, <1>2, <1>3
<1>6. \A i \in DOMAIN Tail(s) : i + 1 \in DOMAIN s /\ Tail(s)[i] = s[i + 1]
  BY <1>1, <1>2, <1>3
<1> QED
  BY <1>1, <1>2, <1>4, <1>5, <1>6 DEF Elements

LEMMA ElementsTyped ==
  ASSUME NEW S, NEW s \in Seq(S)
  PROVE  Elements(s) \subseteq S
  BY ElementOfSeq, LenProperties DEF Elements

LEMMA Singleton ==
  ASSUME NEW S, NEW x \in S
  PROVE  <<x>> \in Seq(S) /\ <<x>> # << >> /\ Head(<<x>>) = x /\ Elements(<<x>>) = {x}
  BY DEF Elements

LEMMA AppendElements ==
  ASSUME NEW S, NEW s \in Seq(S), NEW x \in S
  PROVE  Append(s, x) \in Seq(S) /\ Len(Append(s, x)) = Len(s) + 1
         /\ \A i \in DOMAIN s : i \in DOMAIN Append(s, x) /\ Append(s, x)[i] = s[i]
         /\ Len(s) + 1 \in DOMAIN Append(s, x) /\ Append(s, x)[Len(s) + 1] = x
  BY AppendProperties, LenProperties

-----------------------------------------------------------------------------
(* Types.  A thread that stores, indexes or publishes has an atom in hand, *)
(* and one in manage_world has its entry in acts.                          *)
InHand == {"store", "reflex", "register", "publish"}

HasWork ==
  \A t \in Thread :
    /\ job[t].pc \in InHand => job[t].rest # << >>
    /\ job[t].pc # "idle" /\ job[t].call = "manage" => job[t].act \in DOMAIN acts
    /\ job[t].pc = "stamp" => job[t].call = "manage"

(* The step that deletes some of the victims and leaves the job at j.      *)
Evicts(t, gone, j) ==
  /\ job[t].pc = "evict" /\ gone \subseteq job[t].victims
  /\ store' = {e \in store : \A v \in gone : v.world # e.atom.world \/ v.id # e.atom.id}
  /\ evicted' = evicted \cup {v.id : v \in gone}
  /\ Put(t, j) /\ j \in {Idle, [job[t] EXCEPT !.pc = "next", !.victims = {}, !.seen = {}]}
  /\ UNCHANGED <<indexes, idGen, clock, published, fed, accepted, acts, marks, bounds>>

LEMMA EvictOf ==
  ASSUME NEW t \in Thread, Evict(t)
  PROVE  \E gone, j : Evicts(t, gone, j)
<1>1. PICK gone \in SUBSET job[t].victims :
        /\ store' = {e \in store : \A v \in gone : v.world # e.atom.world \/ v.id # e.atom.id}
        /\ evicted' = evicted \cup {v.id : v \in gone}
        /\ \/ Put(t, [job[t] EXCEPT !.pc = "next", !.victims = {}, !.seen = {}])
           \/ Put(t, Idle)
  BY Zenon DEF Evict
<1>2. \E j : Put(t, j) /\ j \in {Idle, [job[t] EXCEPT !.pc = "next", !.victims = {}, !.seen = {}]}
  BY <1>1
<1> QED
  BY <1>1, <1>2, Zenon DEF Evict, Evicts

LEMMA TypeStep == TypeOK /\ HasWork /\ [Next]_vars => TypeOK' /\ HasWork'
<1> SUFFICES ASSUME TypeOK, HasWork, [Next]_vars PROVE TypeOK' /\ HasWork'
  OBVIOUS
<1> USE DEF TypeOK, HasWork, InHand, indexes, hist, marks, bounds
<1>a. ASSUME NEW t \in Thread, job[t].pc \in InHand
      PROVE  /\ job[t].rest \in Seq(Atom) /\ Head(job[t].rest) \in Atom
             /\ Tail(job[t].rest) \in Seq(Atom)
  BY <1>a, HeadTail DEF Job
<1>b. ASSUME NEW t \in Thread, NEW j \in Job, Put(t, j),
             \A n \in DOMAIN acts : n \in DOMAIN acts',
             j.pc \in InHand => j.rest # << >>,
             j.pc # "idle" /\ j.call = "manage" => j.act \in DOMAIN acts',
             j.pc = "stamp" => j.call = "manage"
      PROVE  job' \in [Thread -> Job] /\ HasWork'
  <2>1. job' = [job EXCEPT ![t] = j]
    BY <1>b DEF Put
  <2>2. job' \in [Thread -> Job] /\ job'[t] = j /\ \A u \in Thread : u # t => job'[u] = job[u]
    BY <2>1
  <2> QED
    BY <1>b, <2>2
<1>c. ASSUME NEW t \in Thread, NEW c \in Call, NEW j \in Job, Begin(t, c, j),
             \A n \in DOMAIN acts : n \in DOMAIN acts',
             j.pc \in InHand => j.rest # << >>,
             IF c = "manage" THEN j.act \in DOMAIN acts' ELSE j.pc # "stamp"
      PROVE  /\ job' \in [Thread -> Job] /\ HasWork'
             /\ left' \in [Call -> Nat] /\ restarts' \in Nat
  <2> DEFINE k == [j EXCEPT !.call = c]
  <2>1. k \in Job /\ k.call = c /\ k.pc = j.pc /\ k.rest = j.rest /\ k.act = j.act
    BY DEF Job
  <2>2. Put(t, k) /\ left[c] > 0 /\ left' = [left EXCEPT ![c] = @ - 1] /\ restarts' = restarts
    BY <1>c, Zenon DEF Begin
  <2> HIDE DEF k
  <2>3. job' \in [Thread -> Job] /\ HasWork'
    BY <1>c, <2>1, <2>2, <1>b
  <2> QED
    BY <2>2, <2>3
<1>d. ASSUME NEW t \in Thread, NEW state \in {"ended", "cut"}, Close(t, state),
             job[t].pc # "idle"
      PROVE  acts' \in Seq(Act) /\ DOMAIN acts' = DOMAIN acts
  <2>1. CASE job[t].call = "manage"
    <3>1. job[t].act \in DOMAIN acts /\ acts[job[t].act] \in Act
      BY <1>d, <2>1, ElementOfSeq, LenProperties
    <3>2. [acts[job[t].act] EXCEPT !.state = state] \in Act
      BY <3>1 DEF Act
    <3>3. acts' = [acts EXCEPT ![job[t].act] = [acts[job[t].act] EXCEPT !.state = state]]
      BY <1>d, <2>1 DEF Close
    <3> QED
      BY <3>1, <3>2, <3>3, ExceptSeq, LenProperties
  <2> QED
    BY <1>d, <2>1 DEF Close
<1>1. ASSUME NEW t \in Thread, BeginRemember(t) PROVE TypeOK' /\ HasWork'
  <2>1. PICK r \in Requests, w \in World :
          Begin(t, "remember", [Idle EXCEPT !.pc = "store", !.rest =
            <<[id |-> idGen, world |-> w, ts |-> IF r.ts = Unset THEN clock ELSE r.ts,
               importance |-> r.importance, links |-> r.links, status |-> r.status,
               rule |-> r.rule]>>])
    BY <1>1, ConstantsAssumption DEF BeginRemember, Request
  <2> DEFINE a == [id |-> idGen, world |-> w, ts |-> IF r.ts = Unset THEN clock ELSE r.ts,
                   importance |-> r.importance, links |-> r.links, status |-> r.status,
                   rule |-> r.rule]
             j == [Idle EXCEPT !.pc = "store", !.rest = <<a>>]
  <2>2. a \in Atom
    BY ConstantsAssumption DEF Request, Atom
  <2>3. j \in Job /\ j.pc = "store" /\ j.rest # << >>
    BY <2>2, Singleton, IdleIsJob DEF Job, Idle
  <2>4. Begin(t, "remember", j)
    BY <2>1
  <2> HIDE DEF j
  <2>5. job' \in [Thread -> Job] /\ HasWork' /\ left' \in [Call -> Nat] /\ restarts' \in Nat
    BY <1>1, <2>3, <2>4, <1>c DEF BeginRemember, Call
  <2> QED
    BY <1>1, <2>5 DEF BeginRemember, NewId, Tick
<1>2. ASSUME NEW t \in Thread, BeginIngest(t) PROVE TypeOK' /\ HasWork'
  <2>1. PICK b \in Batches :
          Begin(t, "ingest", [Idle EXCEPT !.pc = "next", !.batch = b, !.rest = b])
    BY <1>2 DEF BeginIngest
  <2>2. [Idle EXCEPT !.pc = "next", !.batch = b, !.rest = b] \in Job
    BY IdleIsJob, BatchesAssumption DEF Job
  <2>3. job' \in [Thread -> Job] /\ HasWork' /\ left' \in [Call -> Nat] /\ restarts' \in Nat
    BY <1>2, <2>1, <2>2, <1>c DEF BeginIngest, Call, Idle
  <2> QED
    BY <1>2, <2>3 DEF BeginIngest
<1>3. ASSUME NEW t \in Thread, BeginGc(t) PROVE TypeOK' /\ HasWork'
  <2>1. [Idle EXCEPT !.pc = "next", !.todo = {w \in World : Atoms(w) # {}}] \in Job
    BY IdleIsJob DEF Job
  <2>2. job' \in [Thread -> Job] /\ HasWork' /\ left' \in [Call -> Nat] /\ restarts' \in Nat
    BY <1>3, <2>1, <1>c DEF BeginGc, Call, Idle
  <2> QED
    BY <1>3, <2>2 DEF BeginGc
<1>4. ASSUME NEW t \in Thread, BeginManage(t) PROVE TypeOK' /\ HasWork'
  <2>1. PICK w \in World, want \in {"active", "archived"}, pc \in {"next", "stamp"} :
          /\ acts' = Append(acts, [world |-> w, want |-> want, state |-> "running",
                             after |-> {n \in DOMAIN acts : acts[n].state # "running"}])
          /\ Begin(t, "manage", [Idle EXCEPT !.pc = pc, !.act = Len(acts) + 1])
    BY <1>4 DEF BeginManage
  <2> DEFINE act == [world |-> w, want |-> want, state |-> "running",
                     after |-> {n \in DOMAIN acts : acts[n].state # "running"}]
             j == [Idle EXCEPT !.pc = pc, !.act = Len(acts) + 1]
  <2>2. act \in Act
    BY LenProperties DEF Act
  <2>3. acts' \in Seq(Act) /\ Len(acts) + 1 \in DOMAIN acts'
        /\ \A n \in DOMAIN acts : n \in DOMAIN acts'
    BY <2>1, <2>2, AppendElements
  <2>4. j \in Job /\ j.act = Len(acts) + 1 /\ j.pc = pc
    <3>1. Len(acts) + 1 \in Nat
      BY LenProperties
    <3> QED
      BY <3>1, IdleIsJob DEF Job
  <2>5. Begin(t, "manage", j)
    BY <2>1
  <2> HIDE DEF j
  <2>6. job' \in [Thread -> Job] /\ HasWork' /\ left' \in [Call -> Nat] /\ restarts' \in Nat
    BY <2>3, <2>4, <2>5, <1>c DEF Call, InHand
  <2> QED
    BY <1>4, <2>3, <2>6 DEF BeginManage
<1>5. ASSUME NEW t \in Thread, Stamp(t) PROVE TypeOK' /\ HasWork'
  <2> DEFINE a == [id |-> idGen, world |-> acts[job[t].act].world, ts |-> clock,
                   importance |-> 1, links |-> << >>,
                   status |-> acts[job[t].act].want, rule |-> NoRule]
             j == [job[t] EXCEPT !.pc = "store", !.rest = <<a>>]
  <2>1. job[t].act \in DOMAIN acts /\ acts[job[t].act] \in Act
    BY <1>5, ElementOfSeq, LenProperties DEF Stamp
  <2>2. a \in Atom
    BY <2>1, EmptySeq DEF Act, Atom, NoRule, Rule, RuleKey
  <2>3. <<a>> \in Seq(Atom) /\ <<a>> # << >>
    BY <2>2, Singleton
  <2> HIDE DEF a
  <2>4. j \in Job /\ j.pc = "store" /\ j.rest # << >> /\ j.act = job[t].act
    BY <2>3 DEF Job
  <2>5. Put(t, j) /\ acts' = acts
    BY <1>5 DEF Stamp, a
  <2> HIDE DEF j
  <2>6. job' \in [Thread -> Job] /\ HasWork'
    BY <2>1, <2>4, <2>5, <1>b
  <2> QED
    BY <1>5, <2>6 DEF Stamp, NewId, Tick
<1>6. ASSUME NEW t \in Thread, Abandon(t) PROVE TypeOK' /\ HasWork'
  <2>1. acts' \in Seq(Act) /\ DOMAIN acts' = DOMAIN acts
    BY <1>6, <1>d DEF Abandon
  <2>2. job' \in [Thread -> Job] /\ HasWork'
    BY <1>6, <2>1, <1>b, IdleIsJob DEF Abandon, Idle
  <2> QED
    BY <1>6, <2>1, <2>2 DEF Abandon
<1>7. ASSUME NEW t \in Thread, StoreAtom(t) PROVE TypeOK' /\ HasWork'
  <2> DEFINE a == Head(job[t].rest)
  <2>1. PICK n \in Free(a.world) : store' = Overwritten(a) \cup {[at |-> n, atom |-> a]}
    BY <1>7 DEF StoreAtom
  <2>2. n \in Nat
    BY DEF Free, Log, Entry
  <2>3. store' \subseteq Entry
    <3>1. a \in Atom
      BY <1>7, <1>a DEF StoreAtom
    <3> HIDE DEF a
    <3>2. Overwritten(a) \subseteq Entry
      BY <3>1 DEF Overwritten, Entry
    <3> QED
      BY <2>1, <2>2, <3>1, <3>2 DEF Entry
  <2>4. job' \in [Thread -> Job] /\ HasWork'
    BY <1>7, <1>b DEF StoreAtom, Job
  <2>5. a \in Atom
    BY <1>7, <1>a DEF StoreAtom
  <2>6. shared' \subseteq Nat /\ mixed' \subseteq World
    <3>1. a.id \in Nat /\ a.world \in World
      BY <2>5 DEF Atom
    <3> QED
      BY <1>7, <3>1 DEF StoreAtom
  <2> QED
    BY <1>7, <2>3, <2>4, <2>6 DEF StoreAtom
<1>8. ASSUME NEW t \in Thread, InsertReflex(t) PROVE TypeOK' /\ HasWork'
  <2>1. job' \in [Thread -> Job] /\ HasWork'
    BY <1>8, <1>b DEF InsertReflex, Job
  <2> QED
    BY <1>8, <1>a, <2>1 DEF InsertReflex, Fed
<1>9. ASSUME NEW t \in Thread, RefuseTimestamp(t) PROVE TypeOK' /\ HasWork'
  BY <1>9, <1>b, IdleIsJob DEF RefuseTimestamp, Idle
<1>10. ASSUME NEW t \in Thread, Register(t) PROVE TypeOK' /\ HasWork'
  <2>1. job' \in [Thread -> Job] /\ HasWork'
    BY <1>10, <1>b DEF Register, Job
  <2> QED
    BY <1>10, <1>a, <2>1, AppendElements DEF Register
<1>11. ASSUME NEW t \in Thread, Publish(t) PROVE TypeOK' /\ HasWork'
  <2>1. job' \in [Thread -> Job] /\ HasWork'
    <3> DEFINE j == [job[t] EXCEPT !.pc = "next", !.rest = Tail(@)]
    <3>1. Put(t, j) /\ job[t].pc = "publish" /\ UNCHANGED acts
      BY <1>11 DEF Publish
    <3>2. job[t] \in Job /\ Tail(job[t].rest) \in Seq(Atom)
      BY <1>a, <3>1
    <3>3. j \in Job /\ j.pc = "next" /\ j.call = job[t].call /\ j.act = job[t].act
      BY ONLY <3>2 DEF Job
    <3> HIDE DEF j
    <3> QED
      BY <1>b, <3>1, <3>3
  <2> QED
    BY <1>11, <1>a, <2>1, AppendElements DEF Publish
<1>12. ASSUME NEW t \in Thread, LookUp(t) PROVE TypeOK' /\ HasWork'
  <2>1. job[t].rest # << >> /\ Tail(job[t].rest) \in Seq(Atom)
    BY <1>12, HeadTail DEF LookUp, Job
  <2>2. job' \in [Thread -> Job] /\ HasWork'
    BY <1>12, <2>1, <1>b DEF LookUp, Job
  <2> QED
    BY <1>12, <2>2 DEF LookUp
<1>13. ASSUME NEW t \in Thread, Scan(t) PROVE TypeOK' /\ HasWork'
  <2>1. PICK w \in job[t].todo :
          \/ Put(t, [job[t] EXCEPT !.todo = @ \ {w}])
          \/ Put(t, [job[t] EXCEPT !.pc = "evict", !.todo = @ \ {w},
                       !.victims = Victims(w), !.seen = Atoms(w)])
    BY <1>13, Zenon DEF Scan
  <2>2. Atoms(w) \subseteq Atom /\ Victims(w) \subseteq Atoms(w)
    BY DEF Atoms, Log, Entry, Victims
  <2> DEFINE j == [job[t] EXCEPT !.todo = @ \ {w}]
             k == [job[t] EXCEPT !.pc = "evict", !.todo = @ \ {w},
                                 !.victims = Victims(w), !.seen = Atoms(w)]
  <2>4. job[t].pc = "next" /\ job[t].call = "gc" /\ acts' = acts
    BY <1>13 DEF Scan
  <2>5. j \in Job /\ j.pc = "next" /\ j.call = "gc"
    BY <2>4 DEF Job
  <2>6. k \in Job /\ k.pc = "evict" /\ k.call = "gc"
    BY <2>4, <2>2 DEF Job
  <2>7. Put(t, j) \/ Put(t, k)
    BY <2>1
  <2> HIDE DEF j, k
  <2>3. job' \in [Thread -> Job] /\ HasWork'
    BY <2>4, <2>5, <2>6, <2>7, <1>b
  <2> QED
    BY <1>13, <2>3 DEF Scan
<1>14. ASSUME NEW t \in Thread, Evict(t) PROVE TypeOK' /\ HasWork'
  <2>1. PICK gone, j : Evicts(t, gone, j)
    BY <1>14, EvictOf
  <2>2. job[t].pc = "evict" /\ acts' = acts
    BY <2>1 DEF Evicts
  <2>3. /\ j \in Job /\ Put(t, j) /\ j.pc \notin InHand \cup {"stamp"}
        /\ j.pc # "idle" => j.call = job[t].call /\ j.act = job[t].act
    <3>1. [job[t] EXCEPT !.pc = "next", !.victims = {}, !.seen = {}].pc = "next"
          /\ [job[t] EXCEPT !.pc = "next", !.victims = {}, !.seen = {}].call = job[t].call
          /\ [job[t] EXCEPT !.pc = "next", !.victims = {}, !.seen = {}].act = job[t].act
          /\ [job[t] EXCEPT !.pc = "next", !.victims = {}, !.seen = {}] \in Job
      BY DEF Job
    <3>2. Idle \in Job /\ Idle.pc = "idle"
      BY IdleIsJob DEF Idle
    <3>3. j \in {Idle, [job[t] EXCEPT !.pc = "next", !.victims = {}, !.seen = {}]} /\ Put(t, j)
      BY <2>1 DEF Evicts
    <3> QED
      BY <3>1, <3>2, <3>3
  <2>4. job' \in [Thread -> Job] /\ HasWork'
    BY <2>2, <2>3, <1>b
  <2>5. {v.id : v \in gone} \subseteq Nat
    BY <2>1 DEF Evicts, Job, Atom
  <2> QED
    BY <2>1, <2>4, <2>5 DEF Evicts
<1>15. ASSUME NEW t \in Thread, Finish(t) PROVE TypeOK' /\ HasWork'
  <2>1. acts' \in Seq(Act) /\ DOMAIN acts' = DOMAIN acts
    BY <1>15, <1>d DEF Finish
  <2>2. job' \in [Thread -> Job] /\ HasWork'
    BY <1>15, <2>1, <1>b, IdleIsJob DEF Finish, Idle
  <2>3. Elements(job[t].batch) \subseteq Atom
    BY ElementsTyped DEF Job
  <2> QED
    BY <1>15, <2>1, <2>2, <2>3 DEF Finish
<1>16. CASE Restart
  <2>1. acts' \in Seq(Act)
    <3> DEFINE cut(n) == IF acts[n].state = "running"
                         THEN [acts[n] EXCEPT !.state = "cut"] ELSE acts[n]
    <3>1. ASSUME NEW n \in 1 .. Len(acts) PROVE cut(n) \in Act
      <4>1. acts[n] \in Act
        BY ElementOfSeq
      <4> QED
        BY <4>1 DEF Act
    <3>2. acts' = [n \in 1 .. Len(acts) |-> cut(n)]
      BY <1>16, LenProperties DEF Restart
    <3> QED
      BY <3>1, <3>2, IsASeq, LenProperties
  <2>2. job' \in [Thread -> Job] /\ HasWork'
    BY <1>16, IdleIsJob DEF Restart, Idle
  <2> QED
    BY <1>16, <2>1, <2>2, EmptySeq DEF Restart
<1>17. CASE UNCHANGED vars
  BY <1>17 DEF vars
<1> QED
  BY <1>1, <1>2, <1>3, <1>4, <1>5, <1>6, <1>7, <1>8, <1>9, <1>10, <1>11, <1>12,
     <1>13, <1>14, <1>15, <1>16, <1>17 DEF Next

LEMMA Typing == Spec => [](TypeOK /\ HasWork)
<1>1. Init => TypeOK /\ HasWork
  <2>1. Init => left \in [Call -> Nat]
    BY ConstantsAssumption DEF Init
  <2>2. << >> \in Seq(Atom) /\ << >> \in Seq(Act)
    BY EmptySeq
  <2> QED
    BY IdleIsJob, <2>1, <2>2 DEF Init, TypeOK, HasWork, InHand, Idle
<1> QED
  BY <1>1, TypeStep, PTL DEF Spec

(* Every variable keeps its type: whatever remember, ingest and            *)
(* manage_world put together from their inputs is an atom with a timestamp.*)
THEOREM TypeCorrect == Spec => []TypeOK
  BY Typing, PTL
-----------------------------------------------------------------------------
(* What ask finds.  The index holds indexed atoms only, and lacks one only *)
(* for the sake of another of its world that is newer by more than the     *)
(* window.  The atom to blame may itself be gone: fed remembers it.        *)
IndexInv ==
  /\ reflex \subseteq fed
  /\ \A a \in fed : Parsed(a)
  /\ \A a \in fed : a \in reflex \/ \E b \in fed : /\ b.world = a.world
                                                   /\ Bucket(b) > Bucket(a) + WindowBuckets

LEMMA BucketIsNat ==
  /\ WindowBuckets \in Nat
  /\ \A a \in Atom : Parsed(a) => Bucket(a) \in Nat
<1> DEFINE width == IF Width = 0 THEN 1 ELSE Width
<1>1. width \in Nat \ {0}
  BY ConstantsAssumption
<1>2. \A n \in Nat : n \div width \in Nat
  <2> HIDE DEF width
  <2> QED
    BY <1>1, SMT
<1>3. Recency \div width \in Nat
  BY <1>2, ConstantsAssumption
<1>4. ASSUME NEW a \in Atom, Parsed(a) PROVE Bucket(a) \in Nat
  <2>1. a.ts \in Nat
    BY <1>4 DEF Atom, Parsed
  <2> QED
    BY <1>2, <2>1 DEF Bucket
<1> QED
  BY <1>3, <1>4 DEF WindowBuckets

LEMMA IndexStep == TypeOK /\ HasWork /\ IndexInv /\ [Next]_vars => IndexInv'
<1> SUFFICES ASSUME TypeOK, HasWork, IndexInv, [Next]_vars PROVE IndexInv'
  OBVIOUS
<1>1. ASSUME NEW t \in Thread, InsertReflex(t) PROVE IndexInv'
  <2> DEFINE x == Head(job[t].rest)
  <2>1. x \in Atom /\ Parsed(x) /\ reflex' = Fed(x) /\ fed' = fed \cup {x}
    BY <1>1, HeadTail DEF InsertReflex, TypeOK, HasWork, InHand, Job
  <2> HIDE DEF x
  <2>2. \A a \in fed' : Parsed(a) /\ Bucket(a) \in Nat
    BY <2>1, BucketIsNat DEF IndexInv, TypeOK
  <2>3. reflex' \subseteq fed'
    BY <2>1 DEF IndexInv, Fed
  <2>4. ASSUME NEW a \in fed', a \notin reflex'
        PROVE  \E b \in fed' : b.world = a.world /\ Bucket(b) > Bucket(a) + WindowBuckets
    <3>1. CASE a \in reflex \cup {x}
      BY <2>1, <2>2, <2>4, <3>1, BucketIsNat DEF Fed
    <3>2. CASE a \notin reflex \cup {x}
      BY <2>1, <2>4, <3>2 DEF IndexInv
    <3> QED
      BY <3>1, <3>2
  <2> QED
    BY <2>2, <2>3, <2>4 DEF IndexInv
<1>2. CASE Restart
  BY <1>2 DEF Restart, IndexInv
<1>3. CASE UNCHANGED <<reflex, fed>>
  BY <1>3 DEF IndexInv
<1> QED
  BY <1>1, <1>2, <1>3 DEF Next, vars, indexes, hist, BeginRemember, BeginIngest, BeginGc,
       BeginManage, Stamp, Abandon, StoreAtom, RefuseTimestamp, Register, Publish, LookUp,
       Scan, Evict, Finish

LEMMA IndexFinds == TypeOK /\ IndexInv => AskFindsRecent
<1> SUFFICES ASSUME TypeOK, IndexInv, NEW a \in fed,
                    \A b \in fed : b.world = a.world => Bucket(b) <= Bucket(a) + WindowBuckets
             PROVE  a \in Answer(a.world)
  BY DEF AskFindsRecent
<1>1. \A b \in fed : Bucket(b) \in Nat
  BY BucketIsNat DEF IndexInv, TypeOK
<1>2. a \in reflex
  BY <1>1, BucketIsNat DEF IndexInv
<1> QED
  BY <1>2 DEF Answer

(* ask finds every indexed atom within the window of the newest one of its *)
(* world: whatever the order in which threads insert atoms, however old    *)
(* their timestamps, no trim of a bucket takes a recent atom away.         *)
THEOREM AskFindsRecentCorrect == Spec => []AskFindsRecent
<1>1. Init => IndexInv
  BY DEF Init, IndexInv
<1> QED
  BY <1>1, Typing, IndexStep, IndexFinds, PTL DEF Spec

-----------------------------------------------------------------------------
(* Ingest.  An atom of the batch is still ahead, or in the store, or was   *)
(* evicted; so is the atom in hand once it has been stored.                *)
Kept == StoredIds \cup evicted

Indexing == {"reflex", "register", "publish"}

IngestInv ==
  /\ \A a \in accepted : a.id \in Kept
  /\ \A t \in Thread :
       /\ job[t].call # "ingest" => job[t].batch = << >>
       /\ \A a \in Elements(job[t].batch) : a \in Elements(job[t].rest) \/ a.id \in Kept
       /\ job[t].pc \in Indexing => Head(job[t].rest).id \in Kept

LEMMA OverwrittenIds ==
  ASSUME TypeOK, NEW a, NEW e \in store
  PROVE  \E f \in Overwritten(a) : f.atom.id = e.atom.id /\ f.atom.world = e.atom.world
<1> DEFINE same == e.atom.world = a.world /\ e.atom.id = a.id
<1>1. (IF same THEN [e EXCEPT !.atom = a] ELSE e) \in Overwritten(a)
  BY DEF Overwritten
<1>2. CASE same
  <2>1. e \in Entry
    BY DEF TypeOK
  <2>2. [e EXCEPT !.atom = a].atom = a
    BY <2>1 DEF Entry
  <2> QED
    BY <1>1, <1>2, <2>2
<1> QED
  BY <1>1, <1>2

LEMMA KeptStays ==
  ASSUME TypeOK, [Next]_vars
  PROVE  Kept \subseteq Kept'
<1>1. ASSUME NEW t \in Thread, StoreAtom(t)
      PROVE  Kept \subseteq Kept'
  BY <1>1, OverwrittenIds DEF Kept, StoreAtom, StoredIds, hist
<1>2. ASSUME NEW t \in Thread, Evict(t)
      PROVE  Kept \subseteq Kept'
  <2>1. PICK gone, j : Evicts(t, gone, j)
    BY <1>2, EvictOf
  <2> QED
    BY <2>1 DEF Kept, Evicts, StoredIds
<1>3. CASE UNCHANGED <<store, evicted>>
  BY <1>3 DEF Kept, StoredIds
<1> QED
  BY <1>1, <1>2, <1>3 DEF Next, vars, hist, indexes, BeginRemember, BeginIngest, BeginGc,
       BeginManage, Stamp, Abandon, InsertReflex, RefuseTimestamp, Register, Publish, LookUp,
       Scan, Finish, Restart

LEMMA IngestStep == TypeOK /\ HasWork /\ IngestInv /\ [Next]_vars => IngestInv'
<1> SUFFICES ASSUME TypeOK, HasWork, IngestInv, [Next]_vars PROVE IngestInv'
  OBVIOUS
<1>k. Kept \subseteq Kept'
  BY KeptStays
<1>e. Elements(<< >>) = {}
  BY DEF Elements
<1>i. ASSUME NEW t \in Thread, NEW j, Put(t, j), job \in [Thread -> Job],
             j.call # "ingest" => j.batch = << >>,
             \A a \in Elements(j.batch) : a \in Elements(j.rest) \/ a.id \in Kept',
             j.pc \in Indexing => Head(j.rest).id \in Kept',
             accepted' = accepted
      PROVE  IngestInv'
  <2>1. job' = [job EXCEPT ![t] = j]
    BY <1>i DEF Put
  <2>2. job'[t] = j /\ \A u \in Thread : u # t => job'[u] = job[u]
    BY <1>i, <2>1
  <2>3. \A a \in accepted' : a.id \in Kept'
    BY <1>i, <1>k DEF IngestInv
  <2>4. ASSUME NEW u \in Thread
        PROVE  /\ job'[u].call # "ingest" => job'[u].batch = << >>
               /\ \A a \in Elements(job'[u].batch) : a \in Elements(job'[u].rest) \/ a.id \in Kept'
               /\ job'[u].pc \in Indexing => Head(job'[u].rest).id \in Kept'
    <3>1. CASE u = t
      BY <1>i, <2>2, <3>1
    <3>2. CASE u # t
      BY <2>2, <3>2, <1>k DEF IngestInv
    <3> QED
      BY <3>1, <3>2
  <2> QED
    BY <2>3, <2>4 DEF IngestInv
<1>1. ASSUME NEW t \in Thread, BeginRemember(t) PROVE IngestInv'
  <2>1. PICK x : Begin(t, "remember", [Idle EXCEPT !.pc = "store", !.rest = <<x>>])
    BY <1>1 DEF BeginRemember
  <2>2. Put(t, [Idle EXCEPT !.pc = "store", !.rest = <<x>>, !.call = "remember"])
    BY <2>1 DEF Begin
  <2> QED
    BY <1>1, <1>e, <1>i, <2>2 DEF BeginRemember, Idle, Indexing, TypeOK, hist
<1>2. ASSUME NEW t \in Thread, BeginIngest(t) PROVE IngestInv'
  <2>1. PICK b \in Batches : Put(t, [Idle EXCEPT !.pc = "next", !.batch = b, !.rest = b,
                                                !.call = "ingest"])
    BY <1>2 DEF BeginIngest, Begin
  <2> QED
    BY <1>2, <1>i, <2>1 DEF BeginIngest, Idle, Indexing, TypeOK, hist
<1>3. ASSUME NEW t \in Thread, BeginGc(t) PROVE IngestInv'
  BY <1>3, <1>e, <1>i DEF BeginGc, Begin, Idle, Indexing, TypeOK, hist
<1>4. ASSUME NEW t \in Thread, BeginManage(t) PROVE IngestInv'
  <2>1. PICK pc \in {"next", "stamp"} :
          Begin(t, "manage", [Idle EXCEPT !.pc = pc, !.act = Len(acts) + 1])
    BY <1>4 DEF BeginManage
  <2> QED
    BY <1>4, <1>e, <1>i, <2>1 DEF BeginManage, Begin, Idle, Indexing, TypeOK
<1>5. ASSUME NEW t \in Thread, Stamp(t) PROVE IngestInv'
  <2>1. job[t].batch = << >> /\ job[t].call = "manage"
    BY <1>5 DEF Stamp, HasWork, IngestInv
  <2>2. PICK x : Put(t, [job[t] EXCEPT !.pc = "store", !.rest = <<x>>])
    BY <1>5 DEF Stamp
  <2> QED
    BY <1>5, <1>e, <1>i, <2>1, <2>2 DEF Stamp, Indexing, TypeOK, Job, hist
<1>6. ASSUME NEW t \in Thread, Abandon(t) \/ RefuseTimestamp(t) PROVE IngestInv'
  BY <1>6, <1>e, <1>i DEF Abandon, RefuseTimestamp, Idle, Indexing, TypeOK, hist
<1>7. ASSUME NEW t \in Thread, StoreAtom(t) PROVE IngestInv'
  <2>1. Head(job[t].rest).id \in Kept'
    BY <1>7 DEF StoreAtom, Kept, StoredIds
  <2> QED
    BY <1>7, <1>i, <1>k, <2>1 DEF StoreAtom, IngestInv, TypeOK, Job, hist
<1>8. ASSUME NEW t \in Thread, InsertReflex(t) \/ Register(t) PROVE IngestInv'
  <2>1. PICK pc \in {"register", "publish"} : Put(t, [job[t] EXCEPT !.pc = pc])
    BY <1>8 DEF InsertReflex, Register
  <2>2. Head(job[t].rest).id \in Kept'
    BY <1>8, <1>k DEF InsertReflex, Register, IngestInv, Indexing
  <2> QED
    BY <1>8, <1>i, <1>k, <2>1, <2>2 DEF InsertReflex, Register, IngestInv, TypeOK, Job, hist
<1>9. ASSUME NEW t \in Thread, Publish(t) PROVE IngestInv'
  <2>1. Elements(job[t].rest) = {Head(job[t].rest)} \cup Elements(Tail(job[t].rest))
    BY <1>9, HeadTail DEF Publish, TypeOK, HasWork, InHand, Job
  <2>2. Head(job[t].rest).id \in Kept'
    BY <1>9, <1>k DEF Publish, IngestInv, Indexing
  <2> QED
    BY <1>9, <1>i, <1>k, <2>1, <2>2 DEF Publish, Indexing, IngestInv, TypeOK, Job
<1>10. ASSUME NEW t \in Thread, LookUp(t) PROVE IngestInv'
  <2>1. Elements(job[t].rest) = {Head(job[t].rest)} \cup Elements(Tail(job[t].rest))
    BY <1>10, HeadTail DEF LookUp, TypeOK, Job
  <2>2. CASE Head(job[t].rest).id \in StoredIds
    <3>1. Head(job[t].rest).id \in Kept'
      BY <1>k, <2>2 DEF Kept
    <3> QED
      BY <1>10, <1>i, <1>k, <2>1, <2>2, <3>1
         DEF LookUp, Indexing, IngestInv, TypeOK, Job, hist
  <2>3. CASE Head(job[t].rest).id \notin StoredIds
    BY <1>10, <1>i, <1>k, <2>3 DEF LookUp, Indexing, IngestInv, TypeOK, Job, hist
  <2> QED
    BY <2>2, <2>3
<1>11. ASSUME NEW t \in Thread, Scan(t) PROVE IngestInv'
  <2>1. PICK w \in job[t].todo :
          \/ Put(t, [job[t] EXCEPT !.todo = @ \ {w}])
          \/ Put(t, [job[t] EXCEPT !.pc = "evict", !.todo = @ \ {w},
                       !.victims = Victims(w), !.seen = Atoms(w)])
    BY <1>11, Zenon DEF Scan
  <2> QED
    BY <1>11, <1>i, <1>k, <2>1 DEF Scan, Indexing, IngestInv, TypeOK, Job, hist
<1>12. ASSUME NEW t \in Thread, Evict(t) PROVE IngestInv'
  <2>1. PICK gone, j : Evicts(t, gone, j)
    BY <1>12, EvictOf
  <2>2. Put(t, j) /\ accepted' = accepted
    BY <2>1 DEF Evicts
  <2>3. CASE j = Idle
    BY <1>e, <1>i, <2>2, <2>3 DEF Idle, Indexing, TypeOK
  <2>4. CASE j = [job[t] EXCEPT !.pc = "next", !.victims = {}, !.seen = {}]
    BY <1>i, <1>k, <2>2, <2>4 DEF Indexing, IngestInv, TypeOK, Job
  <2> QED
    BY <2>1, <2>3, <2>4 DEF Evicts
<1>13. ASSUME NEW t \in Thread, Finish(t) PROVE IngestInv'
  <2>1. \A a \in Elements(job[t].batch) : a.id \in Kept'
    BY <1>13, <1>e, <1>k DEF Finish, IngestInv
  <2>2. job' = [job EXCEPT ![t] = Idle] /\ accepted' = accepted \cup Elements(job[t].batch)
    BY <1>13 DEF Finish, Put
  <2> QED
    BY <1>e, <1>k, <2>1, <2>2 DEF IngestInv, Idle, Indexing, TypeOK
<1>14. CASE Restart
  BY <1>14, <1>e, <1>k DEF Restart, IngestInv, Idle, Indexing
<1>15. CASE UNCHANGED vars
  BY <1>15 DEF vars, hist, IngestInv, Kept, StoredIds
<1> QED
  BY <1>1, <1>2, <1>3, <1>4, <1>5, <1>6, <1>7, <1>8, <1>9, <1>10, <1>11, <1>12,
     <1>13, <1>14, <1>15 DEF Next

(* A batch answered Ok is stored whole, but for what gc evicted: however   *)
(* often, on however many threads and after whatever failures half way it  *)
(* is delivered, and whatever gc deletes meanwhile.                        *)
THEOREM AcceptedStoredCorrect == Spec => []AcceptedStored
<1>1. Init => IngestInv
  BY DEF Init, IngestInv, Idle, Elements, Indexing
<1>2. IngestInv => AcceptedStored
  BY DEF IngestInv, AcceptedStored, Kept
<1> QED
  BY <1>1, <1>2, Typing, IngestStep, PTL DEF Spec

-----------------------------------------------------------------------------
(* gc.  No atom that the scan returned links to one it chose to delete.    *)
GcInv ==
  \A t \in Thread : job[t].pc = "evict" =>
    \A v \in job[t].victims, b \in job[t].seen : ~Links(b, v)

LEMMA VictimsUnlinked ==
  ASSUME NEW w \in World
  PROVE  \A v \in Victims(w), b \in Atoms(w) : ~Links(b, v)
  BY DEF Victims, Links, Elements

LEMMA GcStep == TypeOK /\ GcInv /\ [Next]_vars => GcInv'
<1> SUFFICES ASSUME TypeOK, GcInv, [Next]_vars PROVE GcInv'
  OBVIOUS
<1>1. ASSUME NEW t \in Thread, Scan(t) PROVE GcInv'
  <2>1. PICK w \in World :
          \/ job'[t].pc # "evict"
          \/ job'[t].victims = Victims(w) /\ job'[t].seen = Atoms(w)
    BY <1>1 DEF Scan, Put, TypeOK, Job
  <2>2. \A u \in Thread : u # t => job'[u] = job[u]
    BY <1>1 DEF Scan, Put, TypeOK
  <2> QED
    BY <2>1, <2>2, VictimsUnlinked DEF GcInv, Links
<1>2. ASSUME NEW t \in Thread, job'[t].pc # "evict",
             \A u \in Thread : u # t => job'[u] = job[u]
      PROVE  GcInv'
  BY <1>2 DEF GcInv, Links
<1>3. CASE Restart
  BY <1>3 DEF Restart, Idle, GcInv
<1>4. CASE UNCHANGED vars
  BY <1>4 DEF vars, GcInv, Links
<1>5. ASSUME NEW t \in Thread, BeginRemember(t) PROVE GcInv'
  <2>1. PICK x : Begin(t, "remember", [Idle EXCEPT !.pc = "store", !.rest = <<x>>])
    BY <1>5 DEF BeginRemember
  <2> QED
    BY <1>2, <2>1 DEF Begin, Put, Idle, TypeOK
<1>6. ASSUME NEW t \in Thread, BeginManage(t) PROVE GcInv'
  <2>1. PICK pc \in {"next", "stamp"} :
          Begin(t, "manage", [Idle EXCEPT !.pc = pc, !.act = Len(acts) + 1])
    BY <1>6 DEF BeginManage
  <2> QED
    BY <1>2, <2>1 DEF Begin, Put, Idle, TypeOK
<1>7. ASSUME NEW t \in Thread, BeginIngest(t) \/ BeginGc(t) PROVE GcInv'
  <2>1. CASE BeginIngest(t)
    <3>1. PICK b : Begin(t, "ingest", [Idle EXCEPT !.pc = "next", !.batch = b, !.rest = b])
      BY <2>1 DEF BeginIngest
    <3> QED
      BY <1>2, <3>1 DEF Begin, Put, Idle, TypeOK
  <2>2. CASE BeginGc(t)
    <3>1. PICK ws : Begin(t, "gc", [Idle EXCEPT !.pc = "next", !.todo = ws])
      BY <2>2 DEF BeginGc
    <3> QED
      BY <1>2, <3>1 DEF Begin, Put, Idle, TypeOK
  <2> QED
    BY <1>7, <2>1, <2>2
<1>8. ASSUME NEW t \in Thread, Stamp(t) PROVE GcInv'
  <2>1. PICK x : Put(t, [job[t] EXCEPT !.pc = "store", !.rest = x])
    BY <1>8 DEF Stamp
  <2> QED
    BY <1>2, <2>1 DEF Put, TypeOK, Job
<1>9. ASSUME NEW t \in Thread, Abandon(t) \/ RefuseTimestamp(t) \/ Finish(t) PROVE GcInv'
  <2>1. Put(t, Idle)
    BY <1>9 DEF Abandon, RefuseTimestamp, Finish
  <2> QED
    BY <1>2, <2>1 DEF Put, Idle, TypeOK
<1>10. ASSUME NEW t \in Thread, StoreAtom(t) \/ InsertReflex(t) \/ Register(t) PROVE GcInv'
  <2>1. PICK pc \in Indexing : Put(t, [job[t] EXCEPT !.pc = pc])
    BY <1>10 DEF StoreAtom, InsertReflex, Register, Indexing
  <2> QED
    BY <1>2, <2>1 DEF Put, Indexing, TypeOK, Job
<1>11. ASSUME NEW t \in Thread, Publish(t) PROVE GcInv'
  BY <1>2, <1>11 DEF Publish, Put, TypeOK, Job
<1>12. ASSUME NEW t \in Thread, LookUp(t) PROVE GcInv'
  BY <1>2, <1>12 DEF LookUp, Put, TypeOK, Job
<1>13. ASSUME NEW t \in Thread, Evict(t) PROVE GcInv'
  <2>1. PICK gone, j : Evicts(t, gone, j)
    BY <1>13, EvictOf
  <2>2. [job[t] EXCEPT !.pc = "next", !.victims = {}, !.seen = {}].pc = "next"
        /\ Idle.pc = "idle"
    BY DEF TypeOK, Job, Idle
  <2>3. Put(t, j) /\ j.pc # "evict"
    BY <2>1, <2>2 DEF Evicts
  <2>4. job'[t] = j /\ \A u \in Thread : u # t => job'[u] = job[u]
    BY <2>3 DEF Put, TypeOK
  <2> QED
    BY <1>2, <2>3, <2>4
<1> QED
  BY <1>1, <1>3, <1>4, <1>5, <1>6, <1>7, <1>8, <1>9, <1>10, <1>11, <1>12, <1>13 DEF Next

LEMMA GcSpares ==
  ASSUME TypeOK, GcInv, [Next]_vars, NEW w \in World, NEW a \in Deleted(w),
         NEW b \in Atoms(w)', Links(b, a)
  PROVE  \E t \in Thread : a.id \in {v.id : v \in job[t].victims} /\ b \notin job[t].seen
<1>1. \E e \in store : e.atom.world = w /\ e.atom.id = a.id
        /\ \A f \in store' : f.atom.world = w => f.atom.id # a.id
  BY DEF Deleted, Atoms, Log
<1>2. ~(store \subseteq store') /\ \A t \in Thread : ~StoreAtom(t)
  BY <1>1, OverwrittenIds DEF StoreAtom
<1>3. PICK t \in Thread : Evict(t)
  BY <1>2 DEF Next, vars, BeginRemember, BeginIngest, BeginGc, BeginManage, Stamp, Abandon,
       InsertReflex, RefuseTimestamp, Register, Publish, LookUp, Scan, Finish, Restart
<1>6. PICK gone, j : Evicts(t, gone, j)
  BY <1>3, EvictOf
<1>4. PICK v \in job[t].victims : v.id = a.id
  BY <1>6 DEF Evicts, Deleted, Atoms, Log
<1>5. b \notin job[t].seen
  BY <1>4, <1>6 DEF Evicts, GcInv, Links
<1> QED
  BY <1>4, <1>5

(* gc never deletes an atom that another atom of its world links to, unless*)
(* that link was stored between the scan and the delete: whatever other    *)
(* threads write, ingest or delete meanwhile.                              *)
THEOREM SeenLinksKeptCorrect == Spec => SeenLinksKept
<1>1. Init => GcInv
  BY DEF Init, GcInv, Idle
<1> DEFINE Spared == \A w \in World : \A a \in Deleted(w), b \in Atoms(w)' :
              Links(b, a) => \E t \in Thread : /\ a.id \in {v.id : v \in job[t].victims}
                                               /\ b \notin job[t].seen
<1>2. TypeOK /\ GcInv /\ [Next]_vars => [Spared]_vars
  BY GcSpares
<1>3. SeenLinksKept <=> [][Spared]_vars
  BY DEF SeenLinksKept
<1> HIDE DEF Spared
<1> QED
  BY <1>1, <1>2, <1>3, TypeCorrect, GcStep, PTL DEF Spec
-----------------------------------------------------------------------------
(* The steps that a thread takes, and what they do to the atoms ahead of   *)
(* it: none are left, remember has built one, ingest has its batch or goes *)
(* on in it, ingest has looked one up in vain, manage_world has built its  *)
(* atom, or the thread goes on with the one in hand.                       *)
Step(t) ==
  \/ BeginRemember(t) \/ BeginIngest(t) \/ BeginGc(t) \/ BeginManage(t)
  \/ Stamp(t) \/ Abandon(t)
  \/ StoreAtom(t) \/ InsertReflex(t) \/ RefuseTimestamp(t) \/ Register(t) \/ Publish(t)
  \/ LookUp(t) \/ Scan(t) \/ Evict(t) \/ Finish(t)

InRest(t)  == Head(job[t].rest)
Hand(t)    == Head(job[t].rest).id
Held(t)    == job[t].pc \in InHand
Manages(j) == j.pc # "idle" /\ j.call = "manage"

Emptied(t) ==
  /\ job'[t].rest = << >> /\ job'[t].pc \notin InHand
  /\ job'[t].pc = "stamp" => BeginManage(t)
  /\ Manages(job'[t]) => \/ BeginManage(t)
                         \/ /\ Manages(job[t]) /\ job'[t].act = job[t].act
                            /\ job[t].pc \notin {"stamp", "store"}

Loaded(t) ==
  \/ /\ BeginRemember(t) /\ job'[t].call = "remember" /\ job'[t].pc = "store"
     /\ \E a \in Atom : job'[t].rest = <<a>> /\ a.id = idGen
  \/ /\ job'[t].call = "ingest" /\ job'[t].pc \notin InHand

LookedUp(t) ==
  /\ LookUp(t) /\ job'[t].call = "ingest" /\ job'[t].pc = "store"
  /\ job'[t].rest = job[t].rest /\ Hand(t) \notin StoredIds

Stamped(t) ==
  /\ Stamp(t) /\ job[t].call = "manage" /\ job'[t].call = "manage"
  /\ job'[t].pc = "store" /\ job'[t].act = job[t].act
  /\ \E a \in Atom : /\ job'[t].rest = <<a>> /\ a.id = idGen /\ a.ts = clock
                     /\ a.world = acts[job[t].act].world /\ a.status = acts[job[t].act].want

Carried(t) ==
  /\ job[t].pc \in InHand /\ job'[t].pc \in Indexing
  /\ job'[t].call = job[t].call /\ job'[t].rest = job[t].rest /\ job'[t].act = job[t].act
  /\ StoreAtom(t) \/ InsertReflex(t) \/ Register(t)
  /\ job[t].pc = "store" => StoreAtom(t)

(* Calls other than ingest have one atom in hand, or none.                 *)
HandInv ==
  \A t \in Thread : job[t].call # "ingest" =>
    IF Held(t) THEN Tail(job[t].rest) = << >> ELSE job[t].rest = << >>

LEMMA JobPut ==
  ASSUME TypeOK, NEW t \in Thread, NEW j, Put(t, j)
  PROVE  job'[t] = j /\ \A u \in Thread : u # t => job'[u] = job[u]
  BY DEF TypeOK, Put

LEMMA JobsOfOthers ==
  ASSUME TypeOK, NEW t \in Thread, Step(t), NEW u \in Thread, u # t
  PROVE  job'[u] = job[u]
BY DEF Step, BeginRemember, BeginIngest, BeginGc, BeginManage, Begin, Stamp, Abandon, StoreAtom,
     InsertReflex, RefuseTimestamp, Register, Publish, LookUp, Scan, Evict, Finish, Put, TypeOK

LEMMA NoElements == Elements(<< >>) = {}
  BY DEF Elements

LEMMA OneInHand ==
  ASSUME NEW a \in Atom
  PROVE  Tail(<<a>>) = << >> /\ Head(<<a>>) = a
OBVIOUS

LEMMA RestOf ==
  ASSUME TypeOK, HasWork, HandInv, NEW t \in Thread, Step(t)
  PROVE  Emptied(t) \/ Loaded(t) \/ LookedUp(t) \/ Stamped(t) \/ Carried(t)
<1> USE DEF InHand
<1>r. job[t] \in Job
  BY DEF TypeOK
<1>1. CASE BeginRemember(t)
  <2>1. PICK r \in Requests, w \in World :
          Begin(t, "remember", [Idle EXCEPT !.pc = "store", !.rest =
            <<[id |-> idGen, world |-> w, ts |-> IF r.ts = Unset THEN clock ELSE r.ts,
               importance |-> r.importance, links |-> r.links, status |-> r.status,
               rule |-> r.rule]>>])
    BY <1>1, ConstantsAssumption DEF BeginRemember, Request
  <2> DEFINE a == [id |-> idGen, world |-> w, ts |-> IF r.ts = Unset THEN clock ELSE r.ts,
                   importance |-> r.importance, links |-> r.links, status |-> r.status,
                   rule |-> r.rule]
             j == [Idle EXCEPT !.pc = "store", !.rest = <<a>>, !.call = "remember"]
  <2>2. a \in Atom /\ a.id = idGen
    BY ConstantsAssumption DEF Request, Atom, TypeOK
  <2>3. Put(t, j)
    BY <2>1 DEF Begin
  <2> HIDE DEF a
  <2>4. j.rest = <<a>> /\ j.call = "remember" /\ j.pc = "store"
    BY DEF Idle
  <2> HIDE DEF j
  <2> QED
    BY <1>1, <2>2, <2>3, <2>4, JobPut DEF Loaded
<1>2. CASE BeginIngest(t)
  <2>1. PICK b \in Batches :
          Put(t, [Idle EXCEPT !.pc = "next", !.batch = b, !.rest = b, !.call = "ingest"])
    BY <1>2 DEF BeginIngest, Begin
  <2> DEFINE j == [Idle EXCEPT !.pc = "next", !.batch = b, !.rest = b, !.call = "ingest"]
  <2>2. j.pc = "next" /\ j.call = "ingest"
    BY DEF Idle
  <2>3. Put(t, j)
    BY <2>1
  <2> HIDE DEF j
  <2> QED
    BY <2>2, <2>3, JobPut DEF Loaded
<1>3. CASE BeginGc(t)
  <2> DEFINE j == [Idle EXCEPT !.pc = "next", !.todo = {w \in World : Atoms(w) # {}},
                               !.call = "gc"]
  <2>1. Put(t, j)
    BY <1>3 DEF BeginGc, Begin
  <2>2. j.call = "gc" /\ j.rest = << >> /\ j.pc = "next"
    BY DEF Idle
  <2> HIDE DEF j
  <2> QED
    BY <2>1, <2>2, JobPut DEF Manages, Emptied
<1>4. CASE BeginManage(t)
  <2>1. PICK pc \in {"next", "stamp"} :
          Put(t, [Idle EXCEPT !.pc = pc, !.act = Len(acts) + 1, !.call = "manage"])
    BY <1>4 DEF BeginManage, Begin
  <2> DEFINE j == [Idle EXCEPT !.pc = pc, !.act = Len(acts) + 1, !.call = "manage"]
  <2>2. j.rest = << >> /\ j.pc = pc
    BY DEF Idle
  <2>3. Put(t, j)
    BY <2>1
  <2> HIDE DEF j
  <2> QED
    BY <1>4, <2>2, <2>3, JobPut DEF Emptied
<1>5. CASE Stamp(t)
  <2> DEFINE a == [id |-> idGen, world |-> acts[job[t].act].world, ts |-> clock,
                   importance |-> 1, links |-> << >>,
                   status |-> acts[job[t].act].want, rule |-> NoRule]
             j == [job[t] EXCEPT !.pc = "store", !.rest = <<a>>]
  <2>1. Put(t, j) /\ job[t].call = "manage"
    BY <1>5 DEF HasWork, Stamp
  <2>2. job[t].act \in DOMAIN acts /\ acts[job[t].act] \in Act
    BY <1>5, ElementOfSeq, LenProperties DEF Stamp, HasWork, TypeOK
  <2>3. a \in Atom
    BY <2>2, EmptySeq DEF Act, Atom, NoRule, Rule, RuleKey, TypeOK
  <2>4. /\ a.id = idGen /\ a.ts = clock
        /\ a.world = acts[job[t].act].world /\ a.status = acts[job[t].act].want
    OBVIOUS
  <2> HIDE DEF a
  <2>5. j.pc = "store" /\ j.call = job[t].call /\ j.act = job[t].act /\ j.rest = <<a>>
    BY <1>r DEF Job
  <2> HIDE DEF j
  <2> QED
    BY <1>5, <2>1, <2>3, <2>4, <2>5, JobPut DEF Stamped
<1>6. CASE Abandon(t) \/ RefuseTimestamp(t) \/ Finish(t)
  <2>1. Put(t, Idle)
    BY <1>6 DEF Abandon, RefuseTimestamp, Finish
  <2> QED
    BY <2>1, JobPut DEF Idle, Manages, Emptied
<1>7. CASE StoreAtom(t) \/ InsertReflex(t) \/ Register(t)
  <2>1. PICK pc \in Indexing : Put(t, [job[t] EXCEPT !.pc = pc])
    BY <1>7 DEF StoreAtom, InsertReflex, Register, Indexing
  <2>2. job[t].pc \in InHand /\ (job[t].pc = "store" => StoreAtom(t))
    BY <1>7 DEF StoreAtom, InsertReflex, Register
  <2> DEFINE j == [job[t] EXCEPT !.pc = pc]
  <2>3. j.pc = pc /\ j.call = job[t].call /\ j.rest = job[t].rest /\ j.act = job[t].act
    BY <1>r DEF Job
  <2>4. Put(t, j)
    BY <2>1
  <2> HIDE DEF j
  <2> QED
    BY <1>7, <2>2, <2>3, <2>4, JobPut DEF Carried
<1>8. CASE Publish(t)
  <2> DEFINE j == [job[t] EXCEPT !.pc = "next", !.rest = Tail(@)]
  <2>1. Put(t, j) /\ job[t].pc = "publish" /\ job[t].rest # << >>
    BY <1>8 DEF Publish, HasWork
  <2>2. j.pc = "next" /\ j.call = job[t].call /\ j.rest = Tail(job[t].rest)
        /\ j.act = job[t].act
    BY <1>r DEF Job
  <2>3. job[t].call # "ingest" => Tail(job[t].rest) = << >>
    BY <2>1 DEF HandInv, Held
  <2> HIDE DEF j
  <2> QED
    BY <2>1, <2>2, <2>3, JobPut DEF Manages, Emptied, Loaded
<1>9. CASE LookUp(t)
  <2>1. job[t].pc = "next" /\ job[t].rest # << >>
    BY <1>9 DEF LookUp
  <2>2. job[t].call = "ingest"
    BY <2>1 DEF HandInv, Held
  <2>3. CASE Hand(t) \in StoredIds
    <3>1. job'[t].call = job[t].call /\ job'[t].pc = "next"
      BY <1>9, <1>r, <2>1, <2>3 DEF LookUp, Put, TypeOK, Job, Hand
    <3> QED
      BY <2>2, <3>1 DEF Loaded
  <2>4. CASE Hand(t) \notin StoredIds
    <3>1. job'[t].call = job[t].call /\ job'[t].pc = "store" /\ job'[t].rest = job[t].rest
      BY <1>9, <1>r, <2>4 DEF LookUp, Put, TypeOK, Job, Hand
    <3> QED
      BY <1>9, <2>2, <2>4, <3>1 DEF LookedUp
  <2> QED
    BY <2>3, <2>4
<1>s. ASSUME NEW j, Put(t, j), j.pc \in {"next", "evict"}, j.rest = job[t].rest,
             j.call = job[t].call, j.act = job[t].act,
             job[t].pc \in {"next", "evict"}
      PROVE  Emptied(t) \/ Loaded(t)
  <2>1. job[t].call # "ingest" => job[t].rest = << >>
    BY <1>s DEF HandInv, Held
  <2> QED
    BY <1>s, <2>1, JobPut DEF Manages, Emptied, Loaded
<1>10. CASE Scan(t)
  <2>1. PICK w \in job[t].todo :
          \/ Put(t, [job[t] EXCEPT !.todo = @ \ {w}])
          \/ Put(t, [job[t] EXCEPT !.pc = "evict", !.todo = @ \ {w},
                       !.victims = Victims(w), !.seen = Atoms(w)])
    BY <1>10, Zenon DEF Scan
  <2> DEFINE j == [job[t] EXCEPT !.todo = @ \ {w}]
             k == [job[t] EXCEPT !.pc = "evict", !.todo = @ \ {w},
                                 !.victims = Victims(w), !.seen = Atoms(w)]
  <2>2. job[t].pc = "next"
    BY <1>10 DEF Scan
  <2>3. j.pc = "next" /\ j.call = job[t].call /\ j.rest = job[t].rest /\ j.act = job[t].act
    BY <1>r, <2>2 DEF Job
  <2>4. k.pc = "evict" /\ k.call = job[t].call /\ k.rest = job[t].rest /\ k.act = job[t].act
    BY <1>r DEF Job
  <2>5. Put(t, j) \/ Put(t, k)
    BY <2>1
  <2> HIDE DEF j, k
  <2> QED
    BY <1>s, <2>2, <2>3, <2>4, <2>5
<1>11. CASE Evict(t)
  <2>1. PICK gone, i : Evicts(t, gone, i)
    BY <1>11, EvictOf
  <2> DEFINE j == [job[t] EXCEPT !.pc = "next", !.victims = {}, !.seen = {}]
  <2>2. Put(t, i) /\ i \in {Idle, j} /\ job[t].pc = "evict"
    BY <2>1 DEF Evicts
  <2>3. j.pc = "next" /\ j.call = job[t].call /\ j.rest = job[t].rest /\ j.act = job[t].act
    BY <1>r DEF Job
  <2>4. CASE i = Idle
    BY <2>2, <2>4, JobPut DEF Idle, Manages, Emptied
  <2> HIDE DEF j
  <2>5. CASE i = j
    BY <1>s, <2>2, <2>3, <2>5
  <2> QED
    BY <2>2, <2>4, <2>5
<1> QED
  BY <1>1, <1>2, <1>3, <1>4, <1>5, <1>6, <1>7, <1>8, <1>9, <1>10, <1>11 DEF Step

LEMMA HandStep ==
  ASSUME TypeOK, HasWork, HandInv, [Next]_vars
  PROVE  HandInv'
<1>1. ASSUME NEW t \in Thread, Step(t) PROVE HandInv'
  <2>1. ASSUME job'[t].call # "ingest"
        PROVE  IF Held(t)' THEN Tail(job'[t].rest) = << >> ELSE job'[t].rest = << >>
    <3>1. CASE Emptied(t)
      BY <3>1 DEF Emptied, Held
    <3>2. CASE Loaded(t) \/ Stamped(t)
      BY <2>1, <3>2, OneInHand DEF Loaded, Stamped, Held, InHand
    <3>3. CASE Carried(t)
      BY <2>1, <3>3 DEF Carried, Held, InHand, Indexing, HandInv
    <3>4. ~LookedUp(t)
      BY <2>1 DEF LookedUp
    <3> QED
      BY <1>1, <3>1, <3>2, <3>3, <3>4, RestOf
  <2> QED
    BY <1>1, <2>1, JobsOfOthers DEF HandInv, Held
<1>2. CASE Restart
  BY <1>2 DEF Restart, HandInv, Idle, Held, InHand
<1>3. CASE UNCHANGED vars
  BY <1>3 DEF vars, HandInv, Held
<1> QED
  BY <1>1, <1>2, <1>3 DEF Next, Step

LEMMA HandTyping == Spec => [](TypeOK /\ HasWork /\ HandInv)
<1>1. Init => HandInv
  BY DEF Init, HandInv, Held, InHand, Idle
<1> QED
  BY <1>1, HandStep, Typing, PTL DEF Spec

-----------------------------------------------------------------------------
(* At most once, but for the ids that gc evicted and those that two calls  *)
(* may store: what is stored has one entry, what is registered or          *)
(* published is so once, and is stored or was.  The atom in hand is not    *)
(* yet where it goes next, and two threads have the same id in hand only   *)
(* while neither has stored it.                                            *)
Exempt      == evicted \cup shared
Lacks(s, x) == \A i \in DOMAIN s : s[i].id # x

Once(s, gone, kept) ==
  /\ \A i, j \in DOMAIN s : i # j /\ s[i].id \notin gone => s[i].id # s[j].id
  /\ \A i \in DOMAIN s : s[i].id \in kept

OneEntry == \A e, f \in store : e.atom.id = f.atom.id => e = f \/ e.atom.id \in Exempt

Ahead(t) ==
  /\ job[t].pc = "store" => Hand(t) \in Exempt \/ Hand(t) \notin StoredIds
  /\ job[t].pc \in {"store", "reflex", "register"} =>
       Hand(t) \in Exempt \/ Lacks(conflicts, Hand(t))
  /\ Held(t) => Hand(t) \in Exempt \/ Lacks(published, Hand(t))

Apart(t, u) ==
  t # u /\ Held(t) /\ Held(u) /\ Hand(t) = Hand(u) =>
    Hand(t) \in Exempt \/ (job[t].pc = "store" /\ job[u].pc = "store")

OnceInv ==
  /\ OneEntry
  /\ Once(conflicts, Exempt, Kept) /\ Once(published, Exempt, Kept)
  /\ \A t \in Thread : Ahead(t)
  /\ \A t, u \in Thread : Apart(t, u)

LEMMA LacksAppend ==
  ASSUME NEW s \in Seq(Atom), NEW a \in Atom, NEW x, Lacks(s, x), a.id # x
  PROVE  Lacks(Append(s, a), x)
BY AppendProperties, LenProperties DEF Lacks

(* A step that adds the id of the atom in hand to the store, to the        *)
(* conflict index or to the stream.                                        *)
Adds(t) == StoreAtom(t) \/ Register(t) \/ Publish(t)

(* A step puts no id anywhere but the one that its thread has in hand.     *)
LEMMA Untouched ==
  ASSUME TypeOK, HasWork, NEW t \in Thread, Step(t), NEW x, Adds(t) => Hand(t) # x
  PROVE  /\ x \notin StoredIds => x \notin StoredIds'
         /\ Lacks(conflicts, x) => Lacks(conflicts, x)'
         /\ Lacks(published, x) => Lacks(published, x)'
<1>h. Held(t) => Head(job[t].rest) \in Atom
  BY HeadTail DEF TypeOK, HasWork, Job, Held
<1>1. x \notin StoredIds => x \notin StoredIds'
  <2>1. CASE StoreAtom(t)
    <3> DEFINE a == Head(job[t].rest)
    <3>1. a.id # x
      BY <2>1 DEF Adds, Hand
    <3> HIDE DEF a
    <3>2. PICK n : store' = Overwritten(a) \cup {[at |-> n, atom |-> a]}
      BY <2>1 DEF StoreAtom, a
    <3>3. ASSUME NEW e \in store', e.atom.id = x PROVE x \in StoredIds
      <4>1. e \in Overwritten(a)
        BY <3>1, <3>2, <3>3
      <4>2. PICK f \in store : e = IF f.atom.world = a.world /\ f.atom.id = a.id
                                  THEN [f EXCEPT !.atom = a] ELSE f
        BY <4>1 DEF Overwritten
      <4>3. f \in Entry
        BY DEF TypeOK
      <4>4. [f EXCEPT !.atom = a].atom = a
        BY <4>3 DEF Entry
      <4> QED
        BY <3>1, <3>3, <4>2, <4>4 DEF StoredIds
    <3> QED
      BY <3>3 DEF StoredIds
  <2>2. CASE Evict(t)
    <3>1. PICK gone, j : Evicts(t, gone, j)
      BY <2>2, EvictOf
    <3> QED
      BY <3>1 DEF Evicts, StoredIds
  <2>3. CASE store' = store
    BY <2>3 DEF StoredIds
  <2> QED
    BY <2>1, <2>2, <2>3 DEF Step, BeginRemember, BeginIngest, BeginGc, BeginManage, Stamp,
         Abandon, InsertReflex, RefuseTimestamp, Register, Publish, LookUp, Scan, Finish
<1>2. Lacks(conflicts, x) => Lacks(conflicts, x)'
  <2>1. CASE Register(t)
    <3>1. Head(job[t].rest) \in Atom /\ Head(job[t].rest).id # x /\ conflicts \in Seq(Atom)
      BY <1>h, <2>1 DEF Register, Adds, Held, InHand, Hand, TypeOK
    <3>2. conflicts' = Append(conflicts, Head(job[t].rest))
      BY <2>1 DEF Register
    <3>3. Lacks(conflicts, x) => Lacks(conflicts', x)
      BY <3>1, <3>2, LacksAppend
    <3> QED
      BY <3>3 DEF Lacks
  <2>2. CASE conflicts' = conflicts
    BY <2>2 DEF Lacks
  <2> QED
    BY <2>1, <2>2 DEF Step, BeginRemember, BeginIngest, BeginGc, BeginManage, Stamp, StoreAtom,
         Abandon, InsertReflex, RefuseTimestamp, Publish, LookUp, Scan, Evict, Finish, indexes
<1>3. Lacks(published, x) => Lacks(published, x)'
  <2>1. CASE Publish(t)
    <3>1. Head(job[t].rest) \in Atom /\ Head(job[t].rest).id # x /\ published \in Seq(Atom)
      BY <1>h, <2>1 DEF Publish, Adds, Held, InHand, Hand, TypeOK
    <3>2. published' = Append(published, Head(job[t].rest))
      BY <2>1 DEF Publish
    <3>3. Lacks(published, x) => Lacks(published', x)
      BY <3>1, <3>2, LacksAppend
    <3> QED
      BY <3>3 DEF Lacks
  <2>2. CASE published' = published
    BY <2>2 DEF Lacks
  <2> QED
    BY <2>1, <2>2 DEF Step, BeginRemember, BeginIngest, BeginGc, BeginManage, Stamp, StoreAtom,
         Abandon, InsertReflex, RefuseTimestamp, Register, LookUp, Scan, Evict, Finish, hist
<1> QED
  BY <1>1, <1>2, <1>3

LEMMA ExemptStays ==
  ASSUME [Next]_vars
  PROVE  Exempt \subseteq Exempt'
<1>1. ASSUME NEW t \in Thread, Evict(t) PROVE Exempt \subseteq Exempt'
  <2>1. PICK gone, j : Evicts(t, gone, j)
    BY <1>1, EvictOf
  <2> QED
    BY <2>1 DEF Evicts, Exempt, marks
<1> QED
  BY <1>1 DEF Next, vars, hist, marks, Exempt, NewId, BeginRemember, BeginIngest, BeginGc,
     BeginManage, Stamp, Abandon, StoreAtom, InsertReflex, RefuseTimestamp, Register, Publish,
     LookUp, Scan, Finish, Restart

LEMMA OneEntryStep ==
  ASSUME TypeOK, OnceInv, [Next]_vars
  PROVE  OneEntry'
<1>x. Exempt \subseteq Exempt'
  BY ExemptStays
<1>1. ASSUME NEW t \in Thread, StoreAtom(t) PROVE OneEntry'
  <2> DEFINE a == Head(job[t].rest)
  <2>1. a.id \in Exempt \/ a.id \notin StoredIds
    BY <1>1 DEF StoreAtom, OnceInv, Ahead, Hand
  <2>2. PICK n : store' = Overwritten(a) \cup {[at |-> n, atom |-> a]}
    BY <1>1 DEF StoreAtom
  <2> HIDE DEF a
  <2>3. ASSUME NEW e \in store', e.atom.id # a.id PROVE e \in store
    <3>1. e \in Overwritten(a)
      BY <2>2, <2>3
    <3>2. PICK f \in store : e = IF f.atom.world = a.world /\ f.atom.id = a.id
                                THEN [f EXCEPT !.atom = a] ELSE f
      BY <3>1 DEF Overwritten
    <3>3. [f EXCEPT !.atom = a].atom = a
      BY DEF TypeOK, Entry
    <3> QED
      BY <2>3, <3>2, <3>3
  <2>4. ASSUME a.id \notin StoredIds PROVE store' = store \cup {[at |-> n, atom |-> a]}
    <3>1. Overwritten(a) = store
      BY <2>4 DEF Overwritten, StoredIds
    <3> QED
      BY <2>2, <3>1
  <2>5. ASSUME NEW e \in store', NEW f \in store', e.atom.id = f.atom.id
        PROVE  e = f \/ e.atom.id \in Exempt'
    <3>1. CASE e.atom.id # a.id
      BY <1>x, <2>3, <2>5, <3>1 DEF OnceInv, OneEntry
    <3>2. CASE e.atom.id = a.id
      <4>1. CASE a.id \in Exempt
        BY <1>x, <3>2, <4>1
      <4>2. CASE a.id \notin StoredIds
        <5>1. e \notin store /\ f \notin store
          BY <2>5, <3>2, <4>2 DEF StoredIds
        <5> QED
          BY <2>4, <4>2, <5>1
      <4> QED
        BY <2>1, <4>1, <4>2
    <3> QED
      BY <3>1, <3>2
  <2> QED
    BY <2>5 DEF OneEntry
<1>2. ASSUME NEW t \in Thread, Evict(t) PROVE OneEntry'
  <2>1. PICK gone, j : Evicts(t, gone, j)
    BY <1>2, EvictOf
  <2> QED
    BY <1>x, <2>1 DEF OnceInv, OneEntry, Evicts
<1>3. CASE store' = store
  BY <1>x, <1>3 DEF OnceInv, OneEntry
<1> QED
  BY <1>1, <1>2, <1>3 DEF Next, vars, BeginRemember, BeginIngest, BeginGc, BeginManage, Stamp,
       Abandon, InsertReflex, RefuseTimestamp, Register, Publish, LookUp, Scan, Finish, Restart

LEMMA OnceStays ==
  ASSUME NEW s, NEW gone, NEW kept, NEW goneNow, NEW keptNow,
         Once(s, gone, kept), gone \subseteq goneNow, kept \subseteq keptNow
  PROVE  Once(s, goneNow, keptNow)
BY DEF Once

LEMMA OnceAppend ==
  ASSUME NEW s \in Seq(Atom), NEW a \in Atom, NEW gone, NEW kept,
         Once(s, gone, kept), a.id \in kept, a.id \in gone \/ Lacks(s, a.id)
  PROVE  Once(Append(s, a), gone, kept)
<1> DEFINE r == Append(s, a)
<1>1. \A i \in DOMAIN r : (i \in DOMAIN s /\ r[i] = s[i]) \/ (i = Len(s) + 1 /\ r[i] = a)
  BY AppendProperties, LenProperties
<1> HIDE DEF r
<1>2. \A i \in DOMAIN r : r[i].id \in kept
  BY <1>1 DEF Once
<1>3. ASSUME NEW i \in DOMAIN r, NEW j \in DOMAIN r, i # j, r[i].id \notin gone
      PROVE  r[i].id # r[j].id
  BY <1>1, <1>3 DEF Once, Lacks
<1> QED
  BY <1>2, <1>3 DEF Once, r

LEMMA RegisteredStep ==
  ASSUME TypeOK, HasWork, IngestInv, OnceInv, [Next]_vars
  PROVE  Once(conflicts, Exempt, Kept)'
<1>k. Once(conflicts, Exempt', Kept')
  BY KeptStays, ExemptStays, OnceStays DEF OnceInv
<1>1. ASSUME NEW t \in Thread, Register(t) PROVE Once(conflicts, Exempt, Kept)'
  <2> DEFINE a == Head(job[t].rest)
  <2>1. conflicts' = Append(conflicts, a) /\ job[t].pc = "register"
    BY <1>1 DEF Register
  <2>2. a \in Atom /\ conflicts \in Seq(Atom)
    BY <2>1, HeadTail DEF HasWork, InHand, TypeOK, Job
  <2>3. a.id \in Kept'
    BY <2>1, KeptStays DEF IngestInv, Indexing
  <2>4. a.id \in Exempt' \/ Lacks(conflicts, a.id)
    BY <2>1, ExemptStays DEF OnceInv, Ahead, Hand
  <2> HIDE DEF a
  <2> QED
    BY <1>k, <2>1, <2>2, <2>3, <2>4, OnceAppend
<1>2. CASE conflicts' = << >>
  BY <1>2 DEF Once
<1>3. CASE conflicts' = conflicts
  BY <1>k, <1>3
<1> QED
  BY <1>1, <1>2, <1>3 DEF Next, vars, BeginRemember, BeginIngest, BeginGc, BeginManage, Stamp,
       Abandon, StoreAtom, InsertReflex, RefuseTimestamp, Publish, LookUp, Scan, Evict, Finish,
       Restart, indexes

LEMMA PublishedStep ==
  ASSUME TypeOK, HasWork, IngestInv, OnceInv, [Next]_vars
  PROVE  Once(published, Exempt, Kept)'
<1>k. Once(published, Exempt', Kept')
  BY KeptStays, ExemptStays, OnceStays DEF OnceInv
<1>1. ASSUME NEW t \in Thread, Publish(t) PROVE Once(published, Exempt, Kept)'
  <2> DEFINE a == Head(job[t].rest)
  <2>1. published' = Append(published, a) /\ job[t].pc = "publish"
    BY <1>1 DEF Publish
  <2>2. a \in Atom /\ published \in Seq(Atom)
    BY <2>1, HeadTail DEF HasWork, InHand, TypeOK, Job
  <2>3. a.id \in Kept'
    BY <2>1, KeptStays DEF IngestInv, Indexing
  <2>4. a.id \in Exempt' \/ Lacks(published, a.id)
    BY <2>1, ExemptStays DEF OnceInv, Ahead, Hand, Held, InHand
  <2> HIDE DEF a
  <2> QED
    BY <1>k, <2>1, <2>2, <2>3, <2>4, OnceAppend
<1>2. CASE published' = published
  BY <1>k, <1>2
<1> QED
  BY <1>1, <1>2 DEF Next, vars, BeginRemember, BeginIngest, BeginGc, BeginManage, Stamp,
       Abandon, StoreAtom, InsertReflex, RefuseTimestamp, Register, LookUp, Scan, Evict, Finish,
       Restart, hist

LEMMA TakenId ==
  ASSUME TypeOK, NEW t \in Thread, (Loaded(t) /\ job'[t].pc = "store") \/ Stamped(t)
  PROVE  /\ Hand(t)' = idGen /\ (idGen \in shared' \/ idGen \notin StoredIds)
         /\ job'[t].pc = "store" /\ UNCHANGED <<store, conflicts, published>>
<1>1. \E a \in Atom : job'[t].rest = <<a>> /\ a.id = idGen
  BY DEF Loaded, Stamped, InHand
<1>2. BeginRemember(t) \/ Stamp(t)
  BY DEF Loaded, Stamped, InHand
<1> QED
  BY <1>1, <1>2, OneInHand DEF Hand, BeginRemember, Stamp, NewId, Stamped, indexes, hist

(* The thread that takes a step: what it has in hand after it.             *)
LEMMA AheadOwn ==
  ASSUME TypeOK, HasWork, HandInv, OnceInv, NEW t \in Thread, Step(t), [Next]_vars
  PROVE  Ahead(t)'
<1> USE DEF InHand
<1>x. Exempt \subseteq Exempt'
  BY ExemptStays
<1>1. CASE Emptied(t)
  BY <1>1 DEF Emptied, Ahead, Held
<1>2. CASE (Loaded(t) /\ job'[t].pc = "store") \/ Stamped(t)
  <2>1. /\ Hand(t)' = idGen /\ (idGen \in shared' \/ idGen \notin StoredIds)
        /\ UNCHANGED <<store, conflicts, published>>
    BY <1>2, TakenId
  <2>2. idGen \in Exempt' \/ (/\ idGen \notin StoredIds /\ Lacks(conflicts, idGen)
                            /\ Lacks(published, idGen))
    BY <1>x, <2>1 DEF OnceInv, Once, Kept, Lacks, Exempt
  <2> QED
    BY <2>1, <2>2 DEF Ahead, Lacks, StoredIds
<1>3. CASE Loaded(t) /\ job'[t].pc # "store"
  BY <1>3 DEF Loaded, Ahead, Held
<1>4. CASE LookedUp(t)
  <2>1. Hand(t) \in evicted \/ (Lacks(conflicts, Hand(t)) /\ Lacks(published, Hand(t)))
    BY <1>4 DEF LookedUp, OnceInv, Once, Kept, Lacks
  <2>2. UNCHANGED <<store, conflicts, published>> /\ Hand(t)' = Hand(t)
    BY <1>4 DEF LookedUp, LookUp, indexes, hist, Hand
  <2> QED
    BY <1>4, <1>x, <2>1, <2>2 DEF LookedUp, Ahead, Lacks, StoredIds, Exempt
<1>5. CASE Carried(t)
  <2>1. Hand(t)' = Hand(t)
    BY <1>5 DEF Carried, Hand
  <2>2. Register(t) => job'[t].pc = "publish"
    BY JobPut DEF Register, TypeOK, Job
  <2>3. ~Publish(t)
    <3>1. Publish(t) => job'[t].pc = "next"
      BY DEF Publish, Put, TypeOK, Job
    <3> QED
      BY <1>5, <3>1 DEF Carried, Indexing
  <2>4. published' = published /\ (conflicts' = conflicts \/ Register(t))
    BY <1>5, <2>3 DEF Carried, Step, BeginRemember, BeginIngest, BeginGc, BeginManage, Stamp,
       Abandon, StoreAtom, InsertReflex, RefuseTimestamp, LookUp, Scan, Evict, Finish,
       Register, indexes, hist
  <2>5. job[t].pc \in {"store", "reflex", "register"} \/ job'[t].pc = "publish"
    BY <1>5 DEF Carried, StoreAtom, InsertReflex, Register
  <2> QED
    BY <1>5, <1>x, <2>1, <2>2, <2>4, <2>5 DEF Carried, Indexing, OnceInv, Ahead, Held, Lacks
<1> QED
  BY <1>1, <1>2, <1>3, <1>4, <1>5, RestOf

(* Where another thread adds the id that a thread has in hand, that id is  *)
(* exempt from now on.                                                     *)
LEMMA AddedByOther ==
  ASSUME TypeOK, HasWork, OnceInv, NEW t \in Thread, Adds(t), NEW u \in Thread, u # t,
         Held(u), Hand(t) = Hand(u), [Next]_vars
  PROVE  Hand(u) \in Exempt'
<1>x. Exempt \subseteq Exempt'
  BY ExemptStays
<1>1. Held(t)
  BY DEF Adds, StoreAtom, Register, Publish, Held, InHand
<1>2. Hand(t) \in Exempt \/ (job[t].pc = "store" /\ job[u].pc = "store")
  BY <1>1 DEF OnceInv, Apart
<1>3. ASSUME job[t].pc = "store", job[u].pc = "store" PROVE Hand(u) \in shared'
  <2>1. StoreAtom(t)
    BY <1>3 DEF Adds, Register, Publish
  <2> QED
    BY <1>3, <2>1 DEF StoreAtom, Hand
<1> QED
  BY <1>x, <1>2, <1>3 DEF Exempt

LEMMA AheadStep ==
  ASSUME TypeOK, HasWork, HandInv, OnceInv, [Next]_vars, NEW u \in Thread
  PROVE  Ahead(u)'
<1>x. Exempt \subseteq Exempt'
  BY ExemptStays
<1>1. ASSUME NEW t \in Thread, Step(t), u # t PROVE Ahead(u)'
  <2>1. job'[u] = job[u]
    BY <1>1, JobsOfOthers
  <2>2. Hand(u)' = Hand(u) /\ (Held(u)' <=> Held(u))
    BY <2>1 DEF Hand, Held
  <2>3. CASE ~Held(u)
    BY <2>1, <2>3 DEF Ahead, Held, InHand
  <2>4. CASE Held(u) /\ Adds(t) /\ Hand(t) = Hand(u)
    <3>1. Hand(u) \in Exempt'
      BY <1>1, <2>4, AddedByOther
    <3> QED
      BY <2>2, <3>1 DEF Ahead
  <2>5. CASE Adds(t) => Hand(t) # Hand(u)
    <3>1. PICK y : y = Hand(u)
      OBVIOUS
    <3>2. /\ y \notin StoredIds => y \notin StoredIds'
          /\ Lacks(conflicts, y) => Lacks(conflicts, y)'
          /\ Lacks(published, y) => Lacks(published, y)'
      BY <1>1, <2>5, <3>1, Untouched
    <3>3. /\ y \notin StoredIds => y \notin StoredIds'
          /\ Lacks(conflicts, y) => Lacks(conflicts', y)
          /\ Lacks(published, y) => Lacks(published', y)
      BY <3>2 DEF Lacks
    <3>4. Ahead(u)
      BY DEF OnceInv
    <3> QED
      BY <1>x, <2>1, <2>2, <3>1, <3>3, <3>4 DEF Ahead
  <2> QED
    BY <2>3, <2>4, <2>5
<1>2. CASE Restart
  BY <1>2 DEF Restart, Ahead, Idle, Held, InHand
<1>3. CASE UNCHANGED vars
  BY <1>3 DEF vars, indexes, hist, marks, OnceInv, Ahead, Held, Hand, Lacks, StoredIds, Exempt
<1> QED
  BY <1>1, <1>2, <1>3, AheadOwn DEF Next, Step

LEMMA ApartStep ==
  ASSUME TypeOK, HasWork, HandInv, IngestInv, OnceInv, [Next]_vars,
         NEW u \in Thread, NEW v \in Thread
  PROVE  Apart(u, v)'
<1> USE DEF InHand
<1>x. Exempt \subseteq Exempt'
  BY ExemptStays
<1>1. ASSUME NEW t \in Thread, Step(t), NEW o \in Thread, o # t, Held(t)', Held(o)',
             Hand(t)' = Hand(o)'
      PROVE  Hand(o)' \in Exempt' \/ (job'[t].pc = "store" /\ job'[o].pc = "store")
  <2>1. job'[o] = job[o] /\ Hand(o)' = Hand(o) /\ Held(o)
    BY <1>1, JobsOfOthers DEF Hand, Held
  <2>0. ASSUME Hand(o) \notin StoredIds, job'[t].pc = "store"
        PROVE  Hand(o)' \in Exempt' \/ (job'[t].pc = "store" /\ job'[o].pc = "store")
    <3>1. CASE job[o].pc = "store"
      BY <2>1, <2>0, <3>1
    <3>2. CASE job[o].pc # "store"
      <4>1. Hand(o) \in Kept
        BY <2>1, <3>2 DEF IngestInv, Indexing, Held, Hand
      <4> QED
        BY <1>x, <2>1, <2>0, <4>1 DEF Kept, Exempt
    <3> QED
      BY <3>1, <3>2
  <2>2. CASE (Loaded(t) /\ job'[t].pc = "store") \/ Stamped(t)
    <3>1. idGen = Hand(o) /\ (idGen \in shared' \/ Hand(o) \notin StoredIds)
          /\ job'[t].pc = "store"
      BY <1>1, <2>1, <2>2, TakenId
    <3>2. CASE Hand(o) \notin StoredIds
      BY <2>0, <3>1, <3>2
    <3> QED
      BY <2>1, <3>1, <3>2 DEF Exempt
  <2>3. CASE LookedUp(t)
    <3>1. Hand(t) = Hand(o) /\ Hand(t) \notin StoredIds /\ job'[t].pc = "store"
      BY <1>1, <2>1, <2>3 DEF LookedUp, Hand
    <3> QED
      BY <2>0, <3>1
  <2>4. CASE Carried(t)
    <3>1. Held(t) /\ Hand(t) = Hand(o)
      BY <1>1, <2>1, <2>4 DEF Carried, Hand, Held
    <3>2. CASE job[t].pc = "store"
      <4>1. Adds(t)
        BY <2>4, <3>2 DEF Carried, Adds
      <4> QED
        BY <1>1, <2>1, <3>1, <4>1, AddedByOther
    <3>3. CASE job[t].pc # "store"
      <4>1. Hand(t) \in Exempt
        BY <1>1, <2>1, <3>1, <3>3 DEF OnceInv, Apart
      <4> QED
        BY <1>x, <2>1, <3>1, <4>1
    <3> QED
      BY <3>2, <3>3
  <2>5. ~Emptied(t) /\ (Loaded(t) => job'[t].pc = "store")
    BY <1>1 DEF Emptied, Loaded, Held
  <2> QED
    BY <1>1, <2>2, <2>3, <2>4, <2>5, RestOf
<1>2. ASSUME NEW t \in Thread, Step(t) PROVE Apart(u, v)'
  <2>1. CASE u # t /\ v # t
    <3>1. job'[u] = job[u] /\ job'[v] = job[v]
      BY <1>2, <2>1, JobsOfOthers
    <3>2. Apart(u, v)
      BY DEF OnceInv
    <3> QED
      BY <1>x, <3>1, <3>2 DEF Apart, Held, Hand
  <2>2. CASE u = t \/ v = t
    BY <1>1, <1>2, <2>2 DEF Apart
  <2> QED
    BY <2>1, <2>2
<1>3. CASE Restart
  BY <1>3 DEF Restart, Apart, Idle, Held
<1>4. CASE UNCHANGED vars
  BY <1>4 DEF vars, hist, marks, OnceInv, Apart, Held, Hand, Exempt
<1> QED
  BY <1>2, <1>3, <1>4 DEF Next, Step

LEMMA OnceStep ==
  TypeOK /\ HasWork /\ HandInv /\ IngestInv /\ OnceInv /\ [Next]_vars => OnceInv'
<1> SUFFICES ASSUME TypeOK, HasWork, HandInv, IngestInv, OnceInv, [Next]_vars
             PROVE  OnceInv'
  OBVIOUS
<1>1. OneEntry'
  BY OneEntryStep
<1>2. Once(conflicts, Exempt, Kept)' /\ Once(published, Exempt, Kept)'
  BY RegisteredStep, PublishedStep
<1>3. \A t \in Thread : Ahead(t)'
  BY AheadStep
<1>4. \A t, u \in Thread : Apart(t, u)'
  BY ApartStep
<1> QED
  BY <1>1, <1>2, <1>3, <1>4 DEF OnceInv

(* However often batches come, on however many threads, and wherever calls *)
(* are cut or the process restarts: an atom is stored, registered and      *)
(* published at most once until gc evicts it, unless one thread stored it  *)
(* when another had already looked it up in vain, or this node gave the id *)
(* out when storage had it.                                                *)
THEOREM AtMostOnceCorrect == Spec => []AtMostOnce
<1>1. Init => OnceInv
  BY DEF Init, OnceInv, OneEntry, Once, Ahead, Apart, Held, InHand, Idle
<1>2. Init => IngestInv
  BY DEF Init, IngestInv, Idle, Elements, Indexing
<1>3. OnceInv => AtMostOnce
  BY DEF OnceInv, OneEntry, Once, Exempt, AtMostOnce
<1> QED
  BY <1>1, <1>2, <1>3, HandTyping, IngestStep, OnceStep, PTL DEF Spec

-----------------------------------------------------------------------------
(* The status of a world.  In a world whose ids never came again, a victim *)
(* of gc is no status atom, and only manage_world writes one.              *)
Clear == World \ mixed

MyAct(t)   == acts[job[t].act]
Metas(w)   == {e \in Log(w) : e.atom.status # "none"}

Chosen == \A t \in Thread : \A v \in job[t].victims : v.id \in UsedIds(v.world)

ClearInv ==
  \A w \in Clear :
    /\ \A e, f \in Log(w) : e.atom.id = f.atom.id => e = f
    /\ \A t \in Thread : \A v \in job[t].victims, e \in Log(w) :
         v.world = w /\ e.atom.id = v.id => e.atom.status = "none"

LEMMA ClearStays ==
  ASSUME [Next]_vars
  PROVE  Clear' \subseteq Clear
<1>1. mixed \subseteq mixed'
  <2>1. ASSUME NEW t \in Thread, Evict(t) PROVE mixed \subseteq mixed'
    BY <2>1 DEF Evict, marks
  <2> QED
    BY <2>1 DEF Next, vars, marks, NewId, BeginRemember, BeginIngest, BeginGc, BeginManage,
       Stamp, Abandon, StoreAtom, InsertReflex, RefuseTimestamp, Register, Publish, LookUp,
       Scan, Finish, Restart
<1> QED
  BY <1>1 DEF Clear

(* A write to a world that stays clear is one entry more, with an id that  *)
(* the world has not seen; it leaves the other worlds as they are.         *)
LEMMA ClearWrite ==
  ASSUME TypeOK, HasWork, NEW t \in Thread, StoreAtom(t), NEW w \in Clear'
  PROVE  \/ InRest(t).world # w /\ Log(w)' = Log(w)
         \/ /\ InRest(t).world = w /\ InRest(t).id \notin UsedIds(w)
            /\ InRest(t).status # "none" => Manages(job[t])
            /\ \E e : e.atom = InRest(t) /\ Log(w)' = Log(w) \cup {e}
<1> DEFINE a == InRest(t)
<1>1. PICK n : store' = Overwritten(a) \cup {[at |-> n, atom |-> a]}
  BY DEF StoreAtom, InRest
<1>2. mixed' = mixed \cup {x \in {a.world} :
                   \/ a.id \in UsedIds(x)
                   \/ a.status # "none" /\ job[t].call # "manage"}
  BY DEF StoreAtom, InRest
<1>3. w \in World /\ w \notin mixed'
  BY DEF Clear
<1>4. job[t].pc = "store"
  BY DEF StoreAtom
<1> HIDE DEF a
<1>o. \A f \in store : [f EXCEPT !.atom = a].atom = a
  BY DEF TypeOK, Entry
<1>5. CASE a.world # w
  <2>1. \A f \in Overwritten(a) : f.atom.world = w => f \in store
    BY <1>5, <1>o DEF Overwritten
  <2>2. \A f \in store : f.atom.world = w => f \in Overwritten(a)
    BY <1>5 DEF Overwritten
  <2>3. Log(w)' = Log(w)
    BY <1>1, <1>5, <2>1, <2>2 DEF Log
  <2> QED
    BY <1>5, <2>3 DEF a
<1>6. CASE a.world = w
  <2>1. a.id \notin UsedIds(w) /\ (a.status # "none" => Manages(job[t]))
    BY <1>2, <1>3, <1>4, <1>6 DEF Manages
  <2>2. \A f \in store : f.atom.world = w => f.atom.id # a.id
    BY <2>1 DEF UsedIds, Log
  <2>3. Overwritten(a) = store
    BY <1>6, <2>2 DEF Overwritten
  <2> DEFINE e == [at |-> n, atom |-> a]
  <2>4. e.atom = a /\ store' = store \cup {e}
    BY <1>1, <2>3
  <2> HIDE DEF e
  <2>5. Log(w)' = Log(w) \cup {e}
    BY <1>6, <2>4 DEF Log
  <2> QED
    BY <1>6, <2>1, <2>4, <2>5 DEF a
<1> QED
  BY <1>5, <1>6

LEMMA UsedIdsStay ==
  ASSUME TypeOK, [Next]_vars, NEW w
  PROVE  UsedIds(w) \subseteq UsedIds(w)'
<1>1. ASSUME NEW t \in Thread, StoreAtom(t)
      PROVE  UsedIds(w) \subseteq UsedIds(w)'
  BY <1>1, OverwrittenIds DEF UsedIds, StoreAtom, Log, hist
<1>2. ASSUME NEW t \in Thread, Evict(t)
      PROVE  UsedIds(w) \subseteq UsedIds(w)'
  <2>1. PICK gone, j : Evicts(t, gone, j)
    BY <1>2, EvictOf
  <2> QED
    BY <2>1 DEF UsedIds, Evicts, Log
<1>3. CASE UNCHANGED <<store, evicted>>
  BY <1>3 DEF UsedIds, Log
<1> QED
  BY <1>1, <1>2, <1>3 DEF Next, vars, hist, indexes, BeginRemember, BeginIngest, BeginGc,
       BeginManage, Stamp, Abandon, InsertReflex, RefuseTimestamp, Register, Publish, LookUp,
       Scan, Finish, Restart

LEMMA VictimsOf ==
  ASSUME TypeOK, NEW t \in Thread, Step(t)
  PROVE  \/ job'[t].victims \in {{}, job[t].victims}
         \/ Scan(t) /\ \E w \in World : job'[t].victims = Victims(w)
<1>a. ASSUME NEW j, Put(t, j), j.victims \in {{}, job[t].victims}
      PROVE  job'[t].victims \in {{}, job[t].victims}
  BY <1>a, JobPut
<1>1. CASE Scan(t)
  <2>1. PICK w \in job[t].todo :
          \/ Put(t, [job[t] EXCEPT !.todo = @ \ {w}])
          \/ Put(t, [job[t] EXCEPT !.pc = "evict", !.todo = @ \ {w},
                       !.victims = Victims(w), !.seen = Atoms(w)])
    BY <1>1, Zenon DEF Scan
  <2>2. w \in World
    BY DEF TypeOK, Job
  <2>3. [job[t] EXCEPT !.todo = @ \ {w}].victims = job[t].victims
    BY DEF TypeOK, Job
  <2>4. [job[t] EXCEPT !.pc = "evict", !.todo = @ \ {w},
                       !.victims = Victims(w), !.seen = Atoms(w)].victims = Victims(w)
    BY DEF TypeOK, Job
  <2> QED
    BY <1>1, <2>1, <2>2, <2>3, <2>4, JobPut
<1>2. CASE BeginRemember(t)
  <2>1. PICK x : Put(t, [Idle EXCEPT !.pc = "store", !.rest = <<x>>, !.call = "remember"])
    BY <1>2 DEF BeginRemember, Begin
  <2> QED
    BY <1>a, <2>1 DEF Idle
<1>3. CASE BeginManage(t)
  <2>1. PICK pc, act : Put(t, [Idle EXCEPT !.pc = pc, !.act = act, !.call = "manage"])
    BY <1>3 DEF BeginManage, Begin
  <2> QED
    BY <1>a, <2>1 DEF Idle
<1>4. CASE BeginIngest(t)
  <2>1. PICK b : Put(t, [Idle EXCEPT !.pc = "next", !.batch = b, !.rest = b, !.call = "ingest"])
    BY <1>4 DEF BeginIngest, Begin
  <2> QED
    BY <1>a, <2>1 DEF Idle
<1>5. CASE BeginGc(t)
  <2>1. PICK ws : Put(t, [Idle EXCEPT !.pc = "next", !.todo = ws, !.call = "gc"])
    BY <1>5 DEF BeginGc, Begin
  <2> QED
    BY <1>a, <2>1 DEF Idle
<1>6. CASE Stamp(t)
  <2>1. PICK x : Put(t, [job[t] EXCEPT !.pc = "store", !.rest = x])
    BY <1>6 DEF Stamp
  <2>2. [job[t] EXCEPT !.pc = "store", !.rest = x].victims = job[t].victims
    BY DEF TypeOK, Job
  <2> QED
    BY <1>a, <2>1, <2>2
<1>7. CASE Abandon(t) \/ RefuseTimestamp(t) \/ Finish(t)
  <2>1. Put(t, Idle)
    BY <1>7 DEF Abandon, RefuseTimestamp, Finish
  <2> QED
    BY <1>a, <2>1 DEF Idle
<1>8. CASE StoreAtom(t) \/ InsertReflex(t) \/ Register(t)
  <2>1. PICK pc \in Indexing : Put(t, [job[t] EXCEPT !.pc = pc])
    BY <1>8 DEF StoreAtom, InsertReflex, Register, Indexing
  <2>2. [job[t] EXCEPT !.pc = pc].victims = job[t].victims
    BY DEF TypeOK, Job
  <2> QED
    BY <1>a, <2>1, <2>2
<1>9. CASE Publish(t) \/ LookUp(t)
  <2>1. \/ Put(t, [job[t] EXCEPT !.pc = "next", !.rest = Tail(@)])
        \/ Put(t, [job[t] EXCEPT !.rest = Tail(@)])
        \/ Put(t, [job[t] EXCEPT !.pc = "store"])
    BY <1>9, Zenon DEF Publish, LookUp
  <2>2. /\ [job[t] EXCEPT !.pc = "next", !.rest = Tail(@)].victims = job[t].victims
        /\ [job[t] EXCEPT !.rest = Tail(@)].victims = job[t].victims
        /\ [job[t] EXCEPT !.pc = "store"].victims = job[t].victims
    BY DEF TypeOK, Job
  <2> QED
    BY <1>a, <2>1, <2>2
<1>10. CASE Evict(t)
  <2>1. PICK gone, j : Evicts(t, gone, j)
    BY <1>10, EvictOf
  <2>2. [job[t] EXCEPT !.pc = "next", !.victims = {}, !.seen = {}].victims = {}
        /\ Idle.victims = {}
    BY DEF TypeOK, Job, Idle
  <2>3. Put(t, j) /\ j.victims = {}
    BY <2>1, <2>2 DEF Evicts
  <2> QED
    BY <1>a, <2>3
<1> QED
  BY <1>1, <1>2, <1>3, <1>4, <1>5, <1>6, <1>7, <1>8, <1>9, <1>10 DEF Step

LEMMA ChosenStep ==
  ASSUME TypeOK, Chosen, [Next]_vars
  PROVE  Chosen'
<1>1. \A w : UsedIds(w) \subseteq UsedIds(w)'
  BY UsedIdsStay
<1>2. ASSUME NEW t \in Thread, Step(t) PROVE Chosen'
  <2>1. \A w \in World : \A v \in Victims(w) : v.id \in UsedIds(v.world)
    BY DEF Victims, Atoms, Log, UsedIds
  <2>2. ASSUME NEW u \in Thread, NEW v \in job'[u].victims
        PROVE  v.id \in UsedIds(v.world)
    <3>1. v \in job[u].victims \/ \E w \in World : v \in Victims(w)
      BY <1>2, <2>2, VictimsOf, JobsOfOthers
    <3> QED
      BY <2>1, <3>1 DEF Chosen
  <2> QED
    BY <1>1, <2>2 DEF Chosen
<1>3. CASE Restart
  BY <1>3 DEF Restart, Chosen, Idle
<1>4. CASE UNCHANGED vars
  BY <1>4 DEF vars, hist, Chosen, UsedIds, Log
<1> QED
  BY <1>2, <1>3, <1>4 DEF Next, Step

LEMMA LogShrinks ==
  ASSUME NEW t \in Thread, Step(t), ~StoreAtom(t)
  PROVE  store' \subseteq store
<1>1. CASE Evict(t)
  <2>1. PICK gone, j : Evicts(t, gone, j)
    BY <1>1, EvictOf
  <2> QED
    BY <2>1 DEF Evicts
<1> QED
  BY <1>1 DEF Step, BeginRemember, BeginIngest, BeginGc, BeginManage, Stamp, Abandon,
     InsertReflex, RefuseTimestamp, Register, Publish, LookUp, Scan, Finish

LEMMA ClearStep ==
  ASSUME TypeOK, HasWork, Chosen, ClearInv, [Next]_vars
  PROVE  ClearInv'
<1>c. Clear' \subseteq Clear
  BY ClearStays
<1>1. ASSUME NEW t \in Thread, Step(t), NEW w \in Clear', NEW e \in Log(w)', NEW f \in Log(w)',
             e.atom.id = f.atom.id
      PROVE  e = f
  <2>1. CASE StoreAtom(t)
    BY <1>1, <1>c, <2>1, ClearWrite DEF ClearInv, UsedIds
  <2>2. CASE ~StoreAtom(t)
    <3>1. e \in Log(w) /\ f \in Log(w)
      BY <1>1, <2>2, LogShrinks DEF Log
    <3> QED
      BY <1>1, <1>c, <3>1 DEF ClearInv
  <2> QED
    BY <2>1, <2>2
<1>2. ASSUME NEW t \in Thread, Step(t), NEW w \in Clear', NEW u \in Thread,
             NEW v \in job'[u].victims, NEW e \in Log(w)', v.world = w, e.atom.id = v.id
      PROVE  e.atom.status = "none"
  <2>1. CASE StoreAtom(t)
    <3>1. v \in job[u].victims
      <4>1. ~Scan(t)
        BY <2>1 DEF StoreAtom, Scan
      <4> QED
        BY <1>2, <4>1, VictimsOf, JobsOfOthers
    <3>2. v.id \in UsedIds(w)
      BY <1>2, <3>1 DEF Chosen
    <3>3. e \in Log(w)
      BY <1>2, <2>1, <3>2, ClearWrite
    <3> QED
      BY <1>2, <1>c, <3>1, <3>3 DEF ClearInv
  <2>2. CASE ~StoreAtom(t)
    <3>1. e \in Log(w)
      BY <1>2, <2>2, LogShrinks DEF Log
    <3>2. CASE v \in job[u].victims
      BY <1>2, <1>c, <3>1, <3>2 DEF ClearInv
    <3>3. CASE v \notin job[u].victims
      <4>1. PICK x \in World : v \in Victims(x)
        BY <1>2, <3>3, VictimsOf, JobsOfOthers
      <4>2. v \in Atoms(x) /\ v.status = "none"
        BY <4>1 DEF Victims
      <4>3. PICK f \in Log(w) : f.atom = v
        BY <1>2, <4>2 DEF Atoms, Log
      <4> QED
        BY <1>2, <1>c, <3>1, <4>2, <4>3 DEF ClearInv
    <3> QED
      BY <3>2, <3>3
  <2> QED
    BY <2>1, <2>2
<1>3. ASSUME NEW t \in Thread, Step(t) PROVE ClearInv'
  BY <1>1, <1>2, <1>3 DEF ClearInv
<1>4. CASE Restart
  BY <1>4 DEF Restart, ClearInv, Clear, Log, Idle, marks
<1>5. CASE UNCHANGED vars
  BY <1>5 DEF vars, marks, ClearInv, Clear, Log
<1> QED
  BY <1>3, <1>4, <1>5 DEF Next, Step

(* Only manage_world's write changes what the status of a clear world is   *)
(* read from.                                                              *)
LEMMA MetasOf ==
  ASSUME TypeOK, HasWork, ClearInv, NEW t \in Thread, Step(t), [Next]_vars, NEW w \in Clear'
  PROVE  \/ Metas(w)' = Metas(w)
         \/ /\ StoreAtom(t) /\ Manages(job[t]) /\ InRest(t).world = w
            /\ \E e : e.atom = InRest(t) /\ Metas(w)' = Metas(w) \cup {e}
<1>c. w \in Clear
  BY ClearStays
<1>1. CASE StoreAtom(t)
  <2>1. CASE Log(w)' = Log(w)
    BY <2>1 DEF Metas
  <2>2. ASSUME NEW e, e.atom = InRest(t), Log(w)' = Log(w) \cup {e}, InRest(t).world = w,
               InRest(t).status # "none" => Manages(job[t])
        PROVE  \/ Metas(w)' = Metas(w)
               \/ Manages(job[t]) /\ Metas(w)' = Metas(w) \cup {e}
    BY <2>2 DEF Metas
  <2> QED
    BY <1>1, <2>1, <2>2, ClearWrite
<1>2. CASE Evict(t)
  <2>1. PICK gone, j : Evicts(t, gone, j)
    BY <1>2, EvictOf
  <2>2. \A e \in Log(w) : e \in Log(w)' \/ e.atom.status = "none"
    BY <1>c, <2>1 DEF Evicts, ClearInv, Log
  <2>3. Log(w)' \subseteq Log(w)
    BY <2>1 DEF Evicts, Log
  <2> QED
    BY <2>2, <2>3 DEF Metas
<1>3. CASE store' = store
  BY <1>3 DEF Metas, Log
<1> QED
  BY <1>1, <1>2, <1>3 DEF Step, BeginRemember, BeginIngest, BeginGc, BeginManage, Stamp, Abandon,
       InsertReflex, RefuseTimestamp, Register, Publish, LookUp, Scan, Finish

(* The calls of manage_world: their entries are added by BeginManage and   *)
(* change their state once, when the thread that made the call leaves it.  *)
SameCalls ==
  /\ DOMAIN acts' = DOMAIN acts
  /\ \A n \in DOMAIN acts : /\ acts'[n].world = acts[n].world /\ acts'[n].want = acts[n].want
                            /\ acts'[n].after = acts[n].after

LEMMA ActsOf ==
  ASSUME TypeOK, HasWork, NEW t \in Thread, Step(t), ~BeginManage(t)
  PROVE  /\ SameCalls
         /\ \A n \in DOMAIN acts :
              \/ acts'[n].state = acts[n].state
              \/ /\ Manages(job[t]) /\ n = job[t].act /\ ~Manages(job'[t])
                 /\ acts'[n].state \in {"cut", "ended"}
                 /\ acts'[n].state = "ended" => job[t].pc = "next"
<1>1. ASSUME NEW state \in {"cut", "ended"}, Close(t, state), job[t].pc # "idle", Put(t, Idle),
             state = "ended" => job[t].pc = "next"
      PROVE  /\ SameCalls
             /\ \A n \in DOMAIN acts :
                  \/ acts'[n].state = acts[n].state
                  \/ /\ Manages(job[t]) /\ n = job[t].act /\ ~Manages(job'[t])
                     /\ acts'[n].state \in {"cut", "ended"}
                     /\ acts'[n].state = "ended" => job[t].pc = "next"
  <2>1. CASE job[t].call = "manage"
    <3> DEFINE k == job[t].act
    <3>1. k \in DOMAIN acts /\ acts[k] \in Act
      BY <1>1, <2>1, ElementOfSeq, LenProperties DEF HasWork, TypeOK
    <3>2. acts' = [acts EXCEPT ![k] = [acts[k] EXCEPT !.state = state]]
      BY <1>1, <2>1 DEF Close
    <3>3. ~Manages(job'[t]) /\ Manages(job[t])
      BY <1>1, <2>1, JobPut DEF Manages, Idle
    <3> HIDE DEF k
    <3>4. /\ acts'[k].state = state /\ acts'[k].world = acts[k].world
          /\ acts'[k].want = acts[k].want /\ acts'[k].after = acts[k].after
      BY <3>1, <3>2 DEF Act
    <3>5. DOMAIN acts' = DOMAIN acts /\ \A n \in DOMAIN acts : n # k => acts'[n] = acts[n]
      BY <3>2
    <3>6. SameCalls
      BY <3>4, <3>5 DEF SameCalls
    <3> QED
      BY <1>1, <3>3, <3>4, <3>5, <3>6 DEF k
  <2>2. CASE job[t].call # "manage"
    BY <1>1, <2>2 DEF Close, SameCalls
  <2> QED
    BY <2>1, <2>2
<1>2. CASE Abandon(t)
  BY <1>1, <1>2 DEF Abandon
<1>3. CASE Finish(t)
  BY <1>1, <1>3 DEF Finish
<1>4. CASE acts' = acts
  BY <1>4 DEF SameCalls
<1> QED
  BY <1>2, <1>3, <1>4 DEF Step, BeginRemember, BeginIngest, BeginGc, Stamp, StoreAtom,
       InsertReflex, RefuseTimestamp, Register, Publish, LookUp, Scan, Evict, hist

LEMMA BegunCall ==
  ASSUME TypeOK, NEW t \in Thread, BeginManage(t)
  PROVE  /\ job[t].pc = "idle" /\ Manages(job'[t]) /\ job'[t].act = Len(acts) + 1
         /\ job'[t].pc \in {"next", "stamp"}
         /\ acts' \in Seq(Act) /\ DOMAIN acts' = DOMAIN acts \cup {Len(acts) + 1}
         /\ Len(acts) + 1 \notin DOMAIN acts
         /\ \A n \in DOMAIN acts : acts'[n] = acts[n]
         /\ acts'[Len(acts) + 1].state = "running"
         /\ acts'[Len(acts) + 1].after = {n \in DOMAIN acts : acts[n].state # "running"}
         /\ job'[t].pc = "next" =>
              Status(acts'[Len(acts) + 1].world) = acts'[Len(acts) + 1].want
<1>1. PICK w \in World, want \in {"active", "archived"}, pc \in {"next", "stamp"} :
        /\ acts' = Append(acts, [world |-> w, want |-> want, state |-> "running",
                           after |-> {n \in DOMAIN acts : acts[n].state # "running"}])
        /\ Begin(t, "manage", [Idle EXCEPT !.pc = pc, !.act = Len(acts) + 1])
        /\ pc = "next" => Status(w) = want
  BY DEF BeginManage
<1> DEFINE act == [world |-> w, want |-> want, state |-> "running",
                   after |-> {n \in DOMAIN acts : acts[n].state # "running"}]
           j == [Idle EXCEPT !.pc = pc, !.act = Len(acts) + 1, !.call = "manage"]
<1>2. act \in Act
  BY LenProperties DEF Act, TypeOK
<1>3. acts' = Append(acts, act)
  BY <1>1
<1>4. act.state = "running" /\ act.world = w /\ act.want = want
      /\ act.after = {n \in DOMAIN acts : acts[n].state # "running"}
  OBVIOUS
<1>5. Put(t, j) /\ job[t].pc = "idle"
  BY <1>1 DEF Begin
<1>6. j.pc = pc /\ j.act = Len(acts) + 1 /\ j.call = "manage"
  BY DEF Idle
<1> HIDE DEF act, j
<1>7. acts \in Seq(Act) /\ Len(acts) \in Nat /\ DOMAIN acts = 1 .. Len(acts)
  BY LenProperties DEF TypeOK
<1>8. acts' \in Seq(Act) /\ DOMAIN acts' = 1 .. Len(acts) + 1
      /\ acts'[Len(acts) + 1] = act /\ \A n \in 1 .. Len(acts) : acts'[n] = acts[n]
  BY <1>2, <1>3, <1>7, AppendProperties, LenProperties
<1>9. job'[t].pc = pc /\ job'[t].act = Len(acts) + 1 /\ Manages(job'[t])
  BY <1>5, <1>6, JobPut DEF Manages
<1> QED
  BY <1>1, <1>4, <1>5, <1>7, <1>8, <1>9

(* A call that is running is one that a single thread makes, and no call   *)
(* counts it among those that were over when it began.                     *)
ActInv ==
  /\ \A t \in Thread : Manages(job[t]) => MyAct(t).state = "running"
  /\ \A t, u \in Thread : t # u /\ Manages(job[t]) /\ Manages(job[u]) => job[t].act # job[u].act
  /\ \A n \in DOMAIN acts : \A k \in acts[n].after :
       k \in DOMAIN acts /\ acts[k].state # "running"

LEMMA ActStep ==
  ASSUME TypeOK, HasWork, HasWork', HandInv, ActInv, [Next]_vars
  PROVE  ActInv'
<1>h. \A t \in Thread : Manages(job[t]) => job[t].act \in DOMAIN acts
  BY DEF HasWork, Manages
<1>1. ASSUME NEW t \in Thread, BeginManage(t) PROVE ActInv'
  <2> DEFINE k == Len(acts) + 1
  <2>1. /\ job'[t].act = k /\ DOMAIN acts' = DOMAIN acts \cup {k} /\ k \notin DOMAIN acts
        /\ \A n \in DOMAIN acts : acts'[n] = acts[n]
        /\ acts'[k].state = "running"
        /\ acts'[k].after = {n \in DOMAIN acts : acts[n].state # "running"}
    BY <1>1, BegunCall
  <2> HIDE DEF k
  <2>2. \A u \in Thread : u # t => job'[u] = job[u]
    BY <1>1, JobsOfOthers DEF Step
  <2>3. \A u \in Thread : Manages(job'[u]) => acts'[job'[u].act].state = "running"
    BY <1>h, <2>1, <2>2 DEF ActInv, MyAct
  <2>4. \A v, u \in Thread : v # u /\ Manages(job'[v]) /\ Manages(job'[u]) =>
                              job'[v].act # job'[u].act
    BY <1>h, <2>1, <2>2 DEF ActInv
  <2>5. \A n \in DOMAIN acts' : \A i \in acts'[n].after :
          i \in DOMAIN acts' /\ acts'[i].state # "running"
    BY <2>1 DEF ActInv
  <2> QED
    BY <2>3, <2>4, <2>5 DEF ActInv, MyAct
<1>2. ASSUME NEW t \in Thread, Step(t), ~BeginManage(t) PROVE ActInv'
  <2>1. SameCalls
    BY <1>2, ActsOf
  <2>2. \A n \in DOMAIN acts :
          \/ acts'[n].state = acts[n].state
          \/ /\ Manages(job[t]) /\ n = job[t].act /\ ~Manages(job'[t])
             /\ acts'[n].state \in {"cut", "ended"}
    BY <1>2, ActsOf
  <2>3. \A u \in Thread : u # t => job'[u] = job[u]
    BY <1>2, JobsOfOthers
  <2>4. Manages(job'[t]) => Manages(job[t]) /\ job'[t].act = job[t].act
    <3>1. Stamped(t) \/ Carried(t) \/ Loaded(t) \/ LookedUp(t) \/ Emptied(t)
      BY <1>2, RestOf
    <3>2. CASE Stamped(t)
      BY <3>2 DEF Stamped, Manages, Stamp
    <3>3. CASE Carried(t)
      BY <3>3 DEF Carried, Manages, InHand
    <3> QED
      BY <1>2, <3>1, <3>2, <3>3 DEF Loaded, LookedUp, Emptied, Manages
  <2>5. \A u \in Thread : Manages(job'[u]) => Manages(job[u]) /\ job'[u].act = job[u].act
    BY <2>3, <2>4
  <2>6. \A u \in Thread : Manages(job'[u]) => acts'[job'[u].act].state = "running"
    BY <1>h, <2>2, <2>5 DEF ActInv, MyAct
  <2>7. \A n \in DOMAIN acts' : \A i \in acts'[n].after :
          i \in DOMAIN acts' /\ acts'[i].state # "running"
    BY <2>1, <2>2 DEF ActInv, SameCalls
  <2> QED
    BY <2>5, <2>6, <2>7 DEF ActInv, MyAct
<1>3. CASE Restart
  <2>1. \A t \in Thread : ~Manages(job'[t])
    BY <1>3 DEF Restart, Manages, Idle
  <2>2. \A n \in DOMAIN acts : acts[n] \in Act
    BY ElementOfSeq, LenProperties DEF TypeOK
  <2>3. DOMAIN acts' = DOMAIN acts /\ \A n \in DOMAIN acts :
          acts'[n].after = acts[n].after /\ acts'[n].state # "running"
    BY <1>3, <2>2 DEF Restart, Act
  <2> QED
    BY <2>1, <2>3 DEF ActInv
<1>4. CASE UNCHANGED vars
  BY <1>4 DEF vars, hist, ActInv, MyAct
<1> QED
  BY <1>1, <1>2, <1>3, <1>4 DEF Next, Step

LEMMA HandOf ==
  ASSUME TypeOK, HasWork, HandInv, NEW t \in Thread, Step(t), NEW u \in Thread,
         Manages(job'[u]), job'[u].pc \in InHand
  PROVE  \/ u = t /\ Stamped(t)
         \/ /\ Manages(job[u]) /\ job[u].pc \in InHand /\ InRest(u)' = InRest(u)
            /\ job'[u].act = job[u].act
            /\ job'[u].pc = "store" => u # t /\ job[u].pc = "store"
<1>1. CASE u # t
  BY <1>1, JobsOfOthers DEF InRest
<1>2. CASE u = t
  <2>1. CASE Carried(t)
    <3>1. job'[t].pc # "store"
      BY <2>1 DEF Carried, Indexing
    <3>2. Manages(job[t])
      BY <1>2, <2>1 DEF Carried, Manages, InHand
    <3> QED
      BY <1>2, <2>1, <3>1, <3>2 DEF Carried, InRest
  <2>2. ~Emptied(t) /\ ~Loaded(t) /\ ~LookedUp(t)
    BY <1>2 DEF Emptied, Loaded, LookedUp, Manages
  <2> QED
    BY <1>2, <2>1, <2>2, RestOf
<1> QED
  BY <1>1, <1>2

LEMMA StampedAtom ==
  ASSUME TypeOK, NEW t \in Thread, Stamped(t)
  PROVE  /\ InRest(t)'.ts = clock /\ InRest(t)'.world = MyAct(t).world
         /\ InRest(t)'.status = MyAct(t).want
         /\ clock' = clock + 1 /\ store' = store /\ acts' = acts
BY OneInHand DEF Stamped, Stamp, Tick, hist, InRest, MyAct

LEMMA CallsKept ==
  ASSUME TypeOK, HasWork, NEW t \in Thread, Step(t), NEW n \in DOMAIN acts
  PROVE  /\ n \in DOMAIN acts' /\ acts'[n].world = acts[n].world
         /\ acts'[n].want = acts[n].want /\ acts'[n].after = acts[n].after
<1>1. CASE BeginManage(t)
  BY <1>1, BegunCall
<1>2. CASE ~BeginManage(t)
  BY <1>2, ActsOf DEF SameCalls
<1> QED
  BY <1>1, <1>2

(* The atoms of manage_world have timestamps of this process's clock, each *)
(* its own.                                                                *)
StampInv ==
  /\ \A w \in Clear : \A e \in Metas(w) : e.atom.ts \in Nat /\ e.atom.ts < clock
  /\ \A t \in Thread : Manages(job[t]) /\ job[t].pc \in InHand =>
       /\ InRest(t).world = MyAct(t).world /\ InRest(t).status = MyAct(t).want
       /\ InRest(t).ts \in Nat /\ InRest(t).ts < clock
  /\ \A t \in Thread : Manages(job[t]) /\ job[t].pc = "store" =>
       /\ \A w \in Clear : \A e \in Metas(w) : e.atom.ts # InRest(t).ts
       /\ \A u \in Thread : u # t /\ Manages(job[u]) /\ job[u].pc = "store" =>
                             InRest(u).ts # InRest(t).ts

LEMMA StampStep ==
  ASSUME TypeOK, HasWork, HandInv, ClearInv, StampInv, [Next]_vars
  PROVE  StampInv'
<1> USE DEF InHand
<1>h. \A t \in Thread : Manages(job[t]) => job[t].act \in DOMAIN acts
  BY DEF HasWork, Manages
<1>o. HandInv
  OBVIOUS
<1>k. Clear' \subseteq Clear
  BY ClearStays
<1>1. ASSUME NEW t \in Thread, Step(t) PROVE StampInv'
  <2>c. clock \in Nat /\ clock' \in {clock, clock + 1}
    BY <1>1 DEF TypeOK, Step, BeginRemember, BeginIngest, BeginGc, BeginManage, Stamp, Abandon,
       StoreAtom, InsertReflex, RefuseTimestamp, Register, Publish, LookUp, Scan, Evict, Finish,
       Tick
  <2>m. ASSUME NEW w \in Clear', NEW e \in Metas(w)'
        PROVE  e \in Metas(w) \/ /\ StoreAtom(t) /\ Manages(job[t]) /\ job[t].pc = "store"
                                 /\ e.atom = InRest(t)
    <3>1. CASE Metas(w)' = Metas(w)
      BY <2>m, <3>1
    <3>2. CASE Metas(w)' # Metas(w)
      <4>1. StoreAtom(t) /\ Manages(job[t])
        BY <1>1, <2>m, <3>2, MetasOf
      <4>2. PICK f : f.atom = InRest(t) /\ Metas(w)' = Metas(w) \cup {f}
        BY <1>1, <2>m, <3>2, MetasOf
      <4> QED
        BY <2>m, <4>1, <4>2 DEF StoreAtom
    <3> QED
      BY <3>1, <3>2
  <2>1. \A w \in Clear' : \A e \in Metas(w)' : e.atom.ts \in Nat /\ e.atom.ts < clock'
    BY <1>k, <2>c, <2>m DEF StampInv
  <2>2. ASSUME NEW u \in Thread, Manages(job'[u]), job'[u].pc \in InHand
        PROVE  /\ InRest(u)'.world = MyAct(u)'.world /\ InRest(u)'.status = MyAct(u)'.want
               /\ InRest(u)'.ts \in Nat /\ InRest(u)'.ts < clock'
    <3>1. CASE u = t /\ Stamped(t)
      <4>1. MyAct(t)' = MyAct(t)
        BY <3>1, StampedAtom DEF MyAct, Stamped
      <4> QED
        BY <2>c, <3>1, <4>1, StampedAtom
    <3>2. CASE ~(u = t /\ Stamped(t))
      <4>1. Manages(job[u]) /\ job[u].pc \in InHand /\ InRest(u)' = InRest(u)
            /\ job'[u].act = job[u].act
        BY <1>1, <1>o, <2>2, <3>2, HandOf
      <4>2. MyAct(u)'.world = MyAct(u).world /\ MyAct(u)'.want = MyAct(u).want
        BY <1>1, <1>h, <4>1, CallsKept DEF MyAct
      <4> QED
        BY <2>c, <4>1, <4>2 DEF StampInv
    <3> QED
      BY <3>1, <3>2
  <2>3. ASSUME NEW u \in Thread, Manages(job'[u]), job'[u].pc = "store"
        PROVE  \A w \in Clear' : \A e \in Metas(w)' : e.atom.ts # InRest(u)'.ts
    <3>1. CASE u = t /\ Stamped(t)
      <4>1. ~StoreAtom(t) /\ InRest(u)'.ts = clock
        BY <3>1, StampedAtom DEF Stamped, Stamp, StoreAtom
      <4> QED
        BY <1>k, <2>c, <2>m, <4>1 DEF StampInv
    <3>2. CASE ~(u = t /\ Stamped(t))
      <4>1. /\ Manages(job[u]) /\ job[u].pc = "store" /\ u # t /\ InRest(u)' = InRest(u)
        BY <1>1, <1>o, <2>3, <3>2, HandOf
      <4> QED
        BY <1>k, <2>m, <4>1 DEF StampInv
    <3> QED
      BY <3>1, <3>2
  <2>4. ASSUME NEW u \in Thread, Manages(job'[u]), job'[u].pc = "store",
               NEW v \in Thread, Manages(job'[v]), job'[v].pc = "store", u # v
        PROVE  InRest(u)'.ts # InRest(v)'.ts
    <3>1. \A x \in {u, v} : \/ x = t /\ InRest(x)'.ts = clock
                            \/ /\ Manages(job[x]) /\ job[x].pc = "store" /\ x # t
                               /\ InRest(x)' = InRest(x)
      <4>1. \A x \in {u, v} : \/ x = t /\ Stamped(t)
                              \/ /\ Manages(job[x]) /\ job[x].pc = "store" /\ x # t
                                 /\ InRest(x)' = InRest(x)
        BY <1>1, <1>o, <2>4, HandOf
      <4> QED
        BY <4>1, StampedAtom
    <3>2. \A x \in Thread : Manages(job[x]) /\ job[x].pc = "store" => InRest(x).ts < clock
      BY DEF StampInv
    <3>3. CASE u # t /\ v # t
      BY <2>4, <3>1, <3>3 DEF StampInv
    <3>4. CASE u = t
      <4>1. InRest(u)'.ts = clock /\ InRest(v)'.ts = InRest(v).ts /\ InRest(v).ts < clock
        BY <2>4, <3>1, <3>2, <3>4
      <4> QED
        BY <2>c, <4>1
    <3>5. CASE v = t
      <4>1. InRest(v)'.ts = clock /\ InRest(u)'.ts = InRest(u).ts /\ InRest(u).ts < clock
        BY <2>4, <3>1, <3>2, <3>5
      <4> QED
        BY <2>c, <4>1
    <3> QED
      BY <3>3, <3>4, <3>5
  <2> QED
    BY <2>1, <2>2, <2>3, <2>4 DEF StampInv
<1>2. CASE Restart
  <2>1. \A t \in Thread : ~Manages(job'[t])
    BY <1>2 DEF Restart, Manages, Idle
  <2>2. clock' = clock /\ Clear' = Clear /\ \A w \in World : Metas(w)' = Metas(w)
    BY <1>2 DEF Restart, Metas, Log, Clear, marks
  <2> QED
    BY <2>1, <2>2 DEF StampInv, Clear
<1>3. CASE UNCHANGED vars
  BY <1>3 DEF vars, hist, marks, StampInv, InRest, MyAct, Metas, Log, Clear
<1> QED
  BY <1>1, <1>2, <1>3 DEF Next, Step

(* The call n whose atom e is the latest of w, or which found the status   *)
(* that e says already there.  A call that began after n was over has not  *)
(* ended: it has yet to write, with a later timestamp.                     *)
Later(t, w, n) == Manages(job[t]) /\ MyAct(t).world = w /\ n \in MyAct(t).after

Newest(w, e) ==
  /\ e \in Metas(w)
  /\ \A f \in Metas(w) : f # e => f.atom.ts < e.atom.ts

Winner(w, n, e) ==
  /\ n \in DOMAIN acts /\ acts[n].world = w /\ acts[n].want = e.atom.status
  /\ \A m \in DOMAIN acts :
       acts[m].world = w /\ n \in acts[m].after => acts[m].state # "ended"
  /\ \A t \in Thread : Later(t, w, n) =>
       job[t].pc = "stamp" \/ (job[t].pc = "store" /\ e.atom.ts < InRest(t).ts)

Unmanaged(w) ==
  /\ Metas(w) = {}
  /\ \A m \in DOMAIN acts : acts[m].world = w => acts[m].state # "ended"
  /\ \A t \in Thread : Manages(job[t]) /\ MyAct(t).world = w => job[t].pc \in {"stamp", "store"}

WinnerInv ==
  \A w \in Clear : Unmanaged(w) \/ \E n, e : Winner(w, n, e) /\ Newest(w, e)

LEMMA StatusIs ==
  ASSUME TypeOK, StampInv, NEW w \in Clear, NEW e, Newest(w, e)
  PROVE  Status(w) = e.atom.status
<1>1. \A f \in Metas(w) : f.atom.ts \in Nat /\ Epoch(f.atom) = f.atom.ts
  BY ConstantsAssumption DEF StampInv, Epoch, Parsed
<1> DEFINE Latest(f) == \A g \in Metas(w) :
                          \/ Epoch(g.atom) < Epoch(f.atom)
                          \/ (Epoch(g.atom) = Epoch(f.atom) /\ f.at <= g.at)
<1>2. e \in Metas(w) /\ e.at \in Nat
  BY DEF Newest, Metas, Log, TypeOK, Entry
<1>3. Latest(e)
  BY <1>1, <1>2 DEF Newest
<1>4. \A f \in Metas(w) : Latest(f) => f = e
  BY <1>1, <1>2 DEF Newest
<1>5. (CHOOSE f \in Metas(w) : Latest(f)) = e
  <2> HIDE DEF Latest
  <2> QED
    BY <1>2, <1>3, <1>4
<1>6. Status(w) = (CHOOSE f \in Metas(w) : Latest(f)).atom.status
  BY <1>2 DEF Status, Metas
<1> HIDE DEF Latest
<1> QED
  BY <1>5, <1>6

LEMMA NoStatus ==
  ASSUME NEW w, Metas(w) = {}
  PROVE  Status(w) = "none"
BY DEF Status, Metas

(* A step that writes no world_meta atom.                                  *)
LEMMA WinnerStays ==
  ASSUME TypeOK, HasWork, HandInv, StampInv, NEW t \in Thread, Step(t), ~BeginManage(t),
         NEW w \in Clear, Metas(w)' = Metas(w),
         StoreAtom(t) /\ Manages(job[t]) => MyAct(t).world # w
  PROVE  /\ Unmanaged(w) => Unmanaged(w)'
         /\ \A n, e : Winner(w, n, e) /\ Newest(w, e) => Winner(w, n, e)' /\ Newest(w, e)'
<1>h. \A u \in Thread : Manages(job[u]) => job[u].act \in DOMAIN acts
  BY DEF HasWork, Manages
<1>a. SameCalls
  BY ActsOf
<1>e. \A m \in DOMAIN acts : acts'[m].state = "ended" =>
        acts[m].state = "ended" \/ (Manages(job[t]) /\ m = job[t].act /\ job[t].pc = "next")
  BY ActsOf
<1>j. ASSUME NEW u \in Thread, Manages(job'[u]), acts'[job'[u].act].world = w
      PROVE  /\ Manages(job[u]) /\ job'[u].act = job[u].act
             /\ MyAct(u)'.world = MyAct(u).world /\ MyAct(u)'.after = MyAct(u).after
             /\ job[u].pc \in {"stamp", "store"} =>
                  \/ job'[u].pc = job[u].pc /\ InRest(u)' = InRest(u)
                  \/ job'[u].pc = "store" /\ InRest(u)'.ts = clock
  <2>1. CASE u # t
    <3>1. job'[u] = job[u]
      BY <2>1, JobsOfOthers
    <3> QED
      BY <1>a, <1>h, <1>j, <3>1 DEF SameCalls, MyAct, InRest
  <2>2. CASE u = t /\ Stamped(t)
    <3>1. Manages(job[t]) /\ job'[t].act = job[t].act /\ job'[t].pc = "store"
      BY <2>2 DEF Stamped, Stamp, Manages
    <3> QED
      BY <1>a, <1>h, <2>2, <3>1, StampedAtom DEF SameCalls, MyAct
  <2>3. CASE u = t /\ ~Stamped(t)
    <3>1. Manages(job[t]) /\ job'[t].act = job[t].act /\ job[t].pc # "stamp"
          /\ (job[t].pc = "store" => StoreAtom(t))
      <4>1. CASE Emptied(t)
        BY <1>j, <2>3, <4>1 DEF Emptied
      <4>2. CASE Carried(t)
        BY <1>j, <2>3, <4>2 DEF Carried, Manages, InHand
      <4>3. ~Loaded(t) /\ ~LookedUp(t)
        BY <1>j, <2>3 DEF Loaded, LookedUp, Manages
      <4> QED
        BY <2>3, <4>1, <4>2, <4>3, RestOf
    <3>2. MyAct(t)'.world = MyAct(t).world /\ MyAct(t)'.after = MyAct(t).after
      BY <1>a, <1>h, <3>1 DEF SameCalls, MyAct
    <3>3. job[t].pc # "store"
      BY <1>j, <2>3, <3>1, <3>2 DEF MyAct
    <3> QED
      BY <2>3, <3>1, <3>2, <3>3
  <2> QED
    BY <2>1, <2>2, <2>3
<1>1. ASSUME Unmanaged(w) PROVE Unmanaged(w)'
  <2>1. \A m \in DOMAIN acts' : acts'[m].world = w => acts'[m].state # "ended"
    BY <1>1, <1>a, <1>e DEF Unmanaged, SameCalls, MyAct
  <2>2. \A u \in Thread : Manages(job'[u]) /\ MyAct(u)'.world = w
                         => job'[u].pc \in {"stamp", "store"}
    <3> SUFFICES ASSUME NEW u \in Thread, Manages(job'[u]), MyAct(u)'.world = w
                 PROVE  job'[u].pc \in {"stamp", "store"}
      OBVIOUS
    <3>1. acts'[job'[u].act].world = w
      BY DEF MyAct
    <3> QED
      BY <1>1, <1>j, <3>1 DEF Unmanaged
  <2> QED
    BY <1>1, <2>1, <2>2 DEF Unmanaged
<1>2. ASSUME NEW n, NEW e, Winner(w, n, e), Newest(w, e)
      PROVE  Winner(w, n, e)' /\ Newest(w, e)'
  <2>1. Newest(w, e)'
    BY <1>2 DEF Newest
  <2>2. n \in DOMAIN acts' /\ acts'[n].world = w /\ acts'[n].want = e.atom.status
    BY <1>2, <1>a DEF Winner, SameCalls
  <2>3. ASSUME NEW m \in DOMAIN acts', acts'[m].world = w, n \in acts'[m].after
        PROVE  acts'[m].state # "ended"
    <3>1. m \in DOMAIN acts /\ acts[m].world = w /\ n \in acts[m].after
      BY <1>a, <2>3 DEF SameCalls
    <3>2. ~(Manages(job[t]) /\ m = job[t].act /\ job[t].pc = "next")
      BY <1>2, <3>1 DEF Winner, Later, MyAct
    <3> QED
      BY <1>2, <1>e, <3>1, <3>2 DEF Winner
  <2>4. ASSUME NEW u \in Thread, Later(u, w, n)'
        PROVE  job'[u].pc = "stamp" \/ (job'[u].pc = "store" /\ e.atom.ts < InRest(u)'.ts)
    <3>1. Manages(job'[u]) /\ acts'[job'[u].act].world = w
      BY <2>4 DEF Later, MyAct
    <3>2. Later(u, w, n)
      BY <1>j, <2>4, <3>1 DEF Later
    <3>3. e.atom.ts < clock
      BY <1>2 DEF Newest, StampInv
    <3> QED
      BY <1>2, <1>j, <3>1, <3>2, <3>3 DEF Winner
  <2> QED
    BY <2>1, <2>2, <2>3, <2>4 DEF Winner
<1> QED
  BY <1>1, <1>2

(* A call that finds the status it asks for becomes the winner.            *)
LEMMA WinnerBegins ==
  ASSUME TypeOK, HasWork, StampInv, ActInv, WinnerInv, NEW t \in Thread, BeginManage(t),
         NEW w \in Clear
  PROVE  Unmanaged(w)' \/ \E n, e : Winner(w, n, e)' /\ Newest(w, e)'
<1>k. PICK k : k = Len(acts) + 1
  OBVIOUS
<1>1. /\ job[t].pc = "idle" /\ Manages(job'[t]) /\ job'[t].act = k
      /\ job'[t].pc \in {"next", "stamp"}
      /\ acts' \in Seq(Act) /\ DOMAIN acts' = DOMAIN acts \cup {k}
      /\ k \notin DOMAIN acts
      /\ \A n \in DOMAIN acts : acts'[n] = acts[n]
      /\ acts'[k].state = "running"
      /\ acts'[k].after = {n \in DOMAIN acts : acts[n].state # "running"}
      /\ job'[t].pc = "next" => Status(acts'[k].world) = acts'[k].want
  BY <1>k, BegunCall
<1>2. acts'[k].want # "none"
  <2>1. acts' \in Seq(Act) /\ DOMAIN acts' = 1 .. Len(acts') /\ k \in DOMAIN acts'
    BY <1>1, LenProperties
  <2>2. acts'[k] \in Act
    BY ONLY <2>1, ElementOfSeq
  <2> QED
    BY <2>2 DEF Act
<1>m. Metas(w)' = Metas(w)
  BY DEF BeginManage, Metas, Log
<1>o. \A u \in Thread : u # t => job'[u] = job[u]
  BY JobsOfOthers DEF Step
<1>h. \A u \in Thread : Manages(job[u]) => job[u].act \in DOMAIN acts
  BY DEF HasWork, Manages
<1>l. ASSUME NEW u \in Thread, u # t, Manages(job'[u])
      PROVE  Manages(job[u]) /\ job[u].act # k /\ MyAct(u)' = MyAct(u) /\ InRest(u)' = InRest(u)
  BY <1>1, <1>o, <1>h, <1>l DEF MyAct, InRest
<1>3. CASE Unmanaged(w)
  <2>1. acts'[k].world = w => job'[t].pc = "stamp"
    BY <1>1, <1>2, <1>3, NoStatus DEF Unmanaged
  <2>2. \A m \in DOMAIN acts' : acts'[m].world = w => acts'[m].state # "ended"
    BY <1>1, <1>3 DEF Unmanaged
  <2>3. ASSUME NEW u \in Thread, Manages(job'[u]), MyAct(u)'.world = w
        PROVE  job'[u].pc \in {"stamp", "store"}
    <3>1. CASE u = t
      BY <1>1, <2>1, <2>3, <3>1 DEF MyAct
    <3>2. CASE u # t
      BY <1>3, <1>l, <1>o, <2>3, <3>2 DEF Unmanaged
    <3> QED
      BY <3>1, <3>2
  <2>4. Unmanaged(w)'
    BY <1>3, <1>m, <2>2, <2>3 DEF Unmanaged
  <2> QED
    BY <2>4
<1>4. ASSUME NEW n, NEW e, Winner(w, n, e), Newest(w, e)
      PROVE  \E i : Winner(w, i, e)' /\ Newest(w, e)'
  <2>1. Newest(w, e)'
    BY <1>m, <1>4 DEF Newest
  <2>2. CASE acts'[k].world = w /\ job'[t].pc = "next"
    <3>1. acts'[k].want = e.atom.status
      BY <1>1, <1>4, <2>2, StatusIs
    <3>2. \A m \in DOMAIN acts' : k \notin acts'[m].after
      BY <1>1 DEF ActInv
    <3>3. \A u \in Thread : ~Later(u, w, k)'
      <4>1. \A u \in Thread : Manages(job'[u]) => job'[u].act \in DOMAIN acts'
        BY <1>1, <1>o, <1>h
      <4> QED
        BY <3>2, <4>1 DEF Later, MyAct
    <3>4. Winner(w, k, e)'
      BY <1>1, <2>2, <3>1, <3>2, <3>3 DEF Winner
    <3> QED
      BY <2>1, <3>4
  <2>3. CASE ~(acts'[k].world = w /\ job'[t].pc = "next")
    <3>1. n \in DOMAIN acts' /\ acts'[n].world = w /\ acts'[n].want = e.atom.status
      BY <1>1, <1>4 DEF Winner
    <3>2. \A m \in DOMAIN acts' :
            acts'[m].world = w /\ n \in acts'[m].after => acts'[m].state # "ended"
      BY <1>1, <1>4 DEF Winner
    <3>3. ASSUME NEW u \in Thread, Later(u, w, n)'
          PROVE  job'[u].pc = "stamp" \/ (job'[u].pc = "store" /\ e.atom.ts < InRest(u)'.ts)
      <4>1. CASE u = t
        BY <1>1, <2>3, <3>3, <4>1 DEF Later, MyAct
      <4>2. CASE u # t
        <5>1. Later(u, w, n) /\ job'[u] = job[u] /\ InRest(u)' = InRest(u)
          BY <1>l, <1>o, <3>3, <4>2 DEF Later
        <5> QED
          BY <1>4, <5>1 DEF Winner
      <4> QED
        BY <4>1, <4>2
    <3>4. Winner(w, n, e)'
      BY <3>1, <3>2, <3>3 DEF Winner
    <3> QED
      BY <2>1, <3>4
  <2> QED
    BY <2>2, <2>3
<1> QED
  BY <1>3, <1>4 DEF WinnerInv

(* A call that writes becomes the winner, unless a later one already is.   *)
LEMMA WinnerWrites ==
  ASSUME TypeOK, HasWork, StampInv, ActInv, WinnerInv, NEW t \in Thread, StoreAtom(t),
         Manages(job[t]), NEW w \in Clear, MyAct(t).world = w,
         NEW a, a.atom = InRest(t), Metas(w)' = Metas(w) \cup {a}
  PROVE  \E n, e : Winner(w, n, e)' /\ Newest(w, e)'
<1>k. PICK k : k = job[t].act
  OBVIOUS
<1>1. job[t].pc = "store" /\ k \in DOMAIN acts /\ acts' = acts
  BY <1>k DEF StoreAtom, HasWork, Manages, hist
<1>2. /\ InRest(t).world = w /\ InRest(t).status = acts[k].want
      /\ InRest(t).ts \in Nat
      /\ \A e \in Metas(w) : e.atom.ts \in Nat /\ e.atom.ts # InRest(t).ts
  BY <1>1, <1>k DEF StampInv, InHand, MyAct
<1>3. acts[k].want # "none" /\ acts[k].state = "running"
  <2>1. acts[k] \in Act
    BY <1>1, ElementOfSeq, LenProperties DEF TypeOK
  <2> QED
    BY <1>k, <2>1 DEF Act, ActInv, MyAct
<1>4. Metas(w)' = Metas(w) \cup {a}
  OBVIOUS
<1>5. job'[t].pc = "reflex" /\ job'[t].act = k /\ Manages(job'[t])
      /\ \A u \in Thread : u # t => job'[u] = job[u]
  <2>1. Put(t, [job[t] EXCEPT !.pc = "reflex"])
    BY DEF StoreAtom
  <2>2. [job[t] EXCEPT !.pc = "reflex"].pc = "reflex" /\ [job[t] EXCEPT !.pc = "reflex"].act = k
        /\ [job[t] EXCEPT !.pc = "reflex"].call = job[t].call
    BY <1>k DEF TypeOK, Job
  <2> QED
    BY <1>k, <2>1, <2>2, JobPut DEF Manages
<1>6. \A m \in DOMAIN acts : k \notin acts[m].after
  BY <1>3 DEF ActInv
<1>7. \A u \in Thread : Manages(job'[u]) => job'[u].act \in DOMAIN acts
  BY <1>1, <1>5 DEF HasWork, Manages
<1>8. ASSUME \A e \in Metas(w) : e.atom.ts < InRest(t).ts
      PROVE  Winner(w, k, a)' /\ Newest(w, a)'
  <2>1. Newest(w, a)'
    BY <1>4, <1>8 DEF Newest
  <2>2. acts[k].world = w
    BY <1>k DEF MyAct
  <2>3. \A u \in Thread : ~Later(u, w, k)'
    BY <1>1, <1>6, <1>7 DEF Later, MyAct
  <2>4. Winner(w, k, a)'
    BY <1>1, <1>2, <1>6, <2>2, <2>3 DEF Winner
  <2> QED
    BY <2>1, <2>4
<1>9. ASSUME NEW n, NEW e, Winner(w, n, e), Newest(w, e), InRest(t).ts < e.atom.ts
      PROVE  Winner(w, n, e)' /\ Newest(w, e)'
  <2>1. Newest(w, e)'
    BY <1>4, <1>9 DEF Newest
  <2>2. e.atom.ts \in Nat
    BY <1>2, <1>9 DEF Newest
  <2>3. ~Later(t, w, n)
    BY <1>1, <1>2, <1>9, <2>2 DEF Winner
  <2>4. ASSUME NEW u \in Thread, Later(u, w, n)'
        PROVE  job'[u].pc = "stamp" \/ (job'[u].pc = "store" /\ e.atom.ts < InRest(u)'.ts)
    <3>1. u # t
      BY <1>1, <1>5, <1>k, <2>3, <2>4 DEF Later, MyAct
    <3>2. job'[u] = job[u] /\ Later(u, w, n) /\ InRest(u)' = InRest(u)
      BY <1>1, <1>5, <2>4, <3>1 DEF Later, MyAct, InRest
    <3> QED
      BY <1>9, <3>2 DEF Winner
  <2>5. Winner(w, n, e)'
    BY <1>1, <1>9, <2>4 DEF Winner
  <2> QED
    BY <2>1, <2>5
<1>10. CASE Unmanaged(w)
  BY <1>8, <1>10 DEF Unmanaged
<1>11. ASSUME NEW n, NEW e, Winner(w, n, e), Newest(w, e)
       PROVE  \E i, f : Winner(w, i, f)' /\ Newest(w, f)'
  <2>1. e \in Metas(w) /\ \A f \in Metas(w) : f = e \/ f.atom.ts < e.atom.ts
    BY <1>11 DEF Newest
  <2>2. CASE InRest(t).ts < e.atom.ts
    BY <1>9, <1>11, <2>2
  <2>3. CASE e.atom.ts < InRest(t).ts
    <3>1. \A f \in Metas(w) : f.atom.ts < InRest(t).ts
      BY <1>2, <2>1, <2>3
    <3> QED
      BY <1>8, <3>1
  <2> QED
    BY <1>2, <2>1, <2>2, <2>3
<1> QED
  BY <1>10, <1>11 DEF WinnerInv

LEMMA WinnerStep ==
  ASSUME TypeOK, HasWork, HandInv, ClearInv, StampInv, ActInv, WinnerInv, [Next]_vars
  PROVE  WinnerInv'
<1>k. Clear' \subseteq Clear
  BY ClearStays
<1>1. ASSUME NEW t \in Thread, Step(t), NEW w \in Clear'
      PROVE  Unmanaged(w)' \/ \E n, e : Winner(w, n, e)' /\ Newest(w, e)'
  <2>w. w \in Clear
    BY <1>k
  <2>1. CASE BeginManage(t)
    BY <2>1, <2>w, WinnerBegins
  <2>2. CASE ~BeginManage(t) /\ Metas(w)' = Metas(w)
             /\ (StoreAtom(t) /\ Manages(job[t]) => MyAct(t).world # w)
    <3>1. /\ Unmanaged(w) => Unmanaged(w)'
          /\ \A n, e : Winner(w, n, e) /\ Newest(w, e) => Winner(w, n, e)' /\ Newest(w, e)'
      BY <1>1, <2>2, <2>w, WinnerStays
    <3> QED
      BY <2>w, <3>1 DEF WinnerInv
  <2>3. CASE StoreAtom(t) /\ Manages(job[t])
    <3>1. InRest(t).world = MyAct(t).world /\ InRest(t).status = MyAct(t).want
          /\ MyAct(t).want # "none"
      <4>1. job[t].pc \in InHand /\ job[t].pc # "idle"
        BY <2>3 DEF StoreAtom, InHand
      <4>2. acts[job[t].act] \in Act
        BY <2>3, <4>1, ElementOfSeq, LenProperties DEF HasWork, TypeOK, Manages
      <4> QED
        BY <2>3, <4>1, <4>2 DEF StampInv, MyAct, Act
    <3>2. CASE MyAct(t).world = w
      <4>1. PICK a : a.atom = InRest(t) /\ Log(w)' = Log(w) \cup {a}
        BY <2>3, <3>1, <3>2, ClearWrite
      <4>2. Metas(w)' = Metas(w) \cup {a}
        BY <3>1, <4>1 DEF Metas
      <4> QED
        BY <2>3, <2>w, <3>2, <4>1, <4>2, WinnerWrites
    <3>3. CASE MyAct(t).world # w
      <4>1. Metas(w)' = Metas(w)
        BY <1>1, <3>1, <3>3, MetasOf
      <4>2. ~BeginManage(t)
        BY <2>3 DEF StoreAtom, BeginManage, Begin
      <4> QED
        BY <2>2, <3>3, <4>1, <4>2
    <3> QED
      BY <3>2, <3>3
  <2>4. Metas(w)' = Metas(w) \/ (StoreAtom(t) /\ Manages(job[t]))
    BY <1>1, MetasOf
  <2> QED
    BY <2>1, <2>2, <2>3, <2>4
<1>2. ASSUME NEW t \in Thread, Step(t) PROVE WinnerInv'
  <2>1. \A w \in Clear' : Unmanaged(w)' \/ \E n, e : Winner(w, n, e)' /\ Newest(w, e)'
    BY <1>1, <1>2
  <2> QED
    BY <2>1 DEF WinnerInv
<1>3. CASE Restart
  <2>1. \A t \in Thread : ~Manages(job'[t])
    BY <1>3 DEF Restart, Manages, Idle
  <2>2. \A n \in DOMAIN acts : acts[n] \in Act
    BY ElementOfSeq, LenProperties DEF TypeOK
  <2>3. DOMAIN acts' = DOMAIN acts /\ \A n \in DOMAIN acts :
          /\ acts'[n].after = acts[n].after /\ acts'[n].world = acts[n].world
          /\ acts'[n].want = acts[n].want
          /\ acts'[n].state = "ended" => acts[n].state = "ended"
    BY <1>3, <2>2 DEF Restart, Act
  <2>4. \A w \in World : Metas(w)' = Metas(w)
    BY <1>3 DEF Restart, Metas, Log
  <2>5. ASSUME NEW w \in World, Unmanaged(w) PROVE Unmanaged(w)'
    BY <2>1, <2>3, <2>4, <2>5 DEF Unmanaged
  <2>6. ASSUME NEW w \in World, NEW n, NEW e, Winner(w, n, e), Newest(w, e)
        PROVE  Winner(w, n, e)' /\ Newest(w, e)'
    <3>1. Newest(w, e)'
      BY <2>4, <2>6 DEF Newest
    <3>2. Winner(w, n, e)'
      BY <2>1, <2>3, <2>6 DEF Winner, Later
    <3> QED
      BY <3>1, <3>2
  <2> QED
    BY <1>k, <2>5, <2>6 DEF WinnerInv, Clear
<1>4. CASE UNCHANGED vars
  <2>1. ASSUME NEW w \in World, Unmanaged(w) PROVE Unmanaged(w)'
    BY <1>4, <2>1 DEF vars, hist, Unmanaged, Metas, Log, MyAct
  <2>2. ASSUME NEW w \in World, NEW n, NEW e, Winner(w, n, e), Newest(w, e)
        PROVE  Winner(w, n, e)' /\ Newest(w, e)'
    BY <1>4, <2>2 DEF vars, hist, Winner, Newest, Later, Metas, Log, MyAct, InRest
  <2> QED
    BY <1>k, <2>1, <2>2 DEF WinnerInv, Clear
<1> QED
  BY <1>2, <1>3, <1>4 DEF Next, Step

LEMMA WinnerHolds == TypeOK /\ StampInv /\ WinnerInv => LastActionHolds
<1> SUFFICES ASSUME TypeOK, StampInv, WinnerInv, NEW w \in Clear
             PROVE  LET on(n) == acts[n].world = w
                        Undone(n) == \E m \in DOMAIN acts :
                                       on(m) /\ acts[m].state = "ended" /\ n \in acts[m].after
                    IN  \/ \E n \in DOMAIN acts : /\ on(n) /\ acts[n].want = Status(w)
                                                   /\ ~Undone(n)
                        \/ \A n \in DOMAIN acts :
                             on(n) => (Status(w) = "none" /\ acts[n].state # "ended")
  BY DEF LastActionHolds, Clear
<1>1. CASE Unmanaged(w)
  BY <1>1, NoStatus DEF Unmanaged
<1>2. ASSUME NEW n, NEW e, Winner(w, n, e), Newest(w, e)
      PROVE  \E i \in DOMAIN acts : /\ acts[i].world = w /\ acts[i].want = Status(w)
               /\ ~ \E m \in DOMAIN acts :
                      acts[m].world = w /\ acts[m].state = "ended" /\ i \in acts[m].after
  BY <1>2, StatusIs DEF Winner
<1> QED
  BY <1>1, <1>2 DEF WinnerInv

(* The status of a world is the one that a call of manage_world asked for  *)
(* that no completed call came entirely after, however the calls, their    *)
(* failures, gc, the ingest of batches and restarts interleave, until a    *)
(* caller or a peer writes a status atom of its own or an id comes again.  *)
THEOREM LastActionHoldsCorrect == Spec => []LastActionHolds
<1> DEFINE ManageInv == Chosen /\ ClearInv /\ StampInv /\ ActInv /\ WinnerInv
           Base == TypeOK /\ HasWork /\ HandInv
<1>1. Init => ManageInv
  <2> SUFFICES ASSUME Init PROVE ManageInv
    OBVIOUS
  <2>1. \A t \in Thread : ~Manages(job[t]) /\ job[t].rest = << >> /\ job[t].victims = {}
    BY DEF Init, Manages, Idle
  <2>2. acts = << >> /\ store = {}
    BY DEF Init
  <2>3. \A w : Metas(w) = {} /\ Log(w) = {}
    BY <2>2 DEF Metas, Log
  <2>4. Chosen /\ ClearInv /\ StampInv /\ ActInv
    BY <2>1, <2>2, <2>3 DEF Chosen, ClearInv, StampInv, ActInv
  <2>5. WinnerInv
    BY <2>1, <2>2, <2>3 DEF WinnerInv, Unmanaged
  <2> QED
    BY <2>4, <2>5
<1>2. Base /\ ManageInv /\ Base' /\ [Next]_vars => ManageInv'
  <2> SUFFICES ASSUME Base, ManageInv, Base', [Next]_vars PROVE ManageInv'
    OBVIOUS
  <2>1. Chosen' /\ ClearInv'
    BY ChosenStep, ClearStep
  <2>2. StampInv' /\ WinnerInv'
    BY StampStep, WinnerStep
  <2>3. ActInv'
    BY ActStep
  <2> QED
    BY <2>1, <2>2, <2>3
<1>3. Base /\ ManageInv => LastActionHolds
  BY WinnerHolds
<1>4. Spec => []Base
  BY HandTyping
<1> HIDE DEF ManageInv, Base
<1> QED
  BY <1>1, <1>2, <1>3, <1>4, PTL DEF Spec
=============================================================================
