--------------------------- MODULE SledLog_proofs ---------------------------
(***************************************************************************)
(* The log of the store for callers that keep the promises of SledLog, for *)
(* every number of threads, worlds, ids and crashes and every length of    *)
(* batch: what is acknowledged is replayed, and SledStore implements       *)
(* AtomLog.  At the end, the ids of EngineIds: until the process dies they *)
(* are the fresh ones the theorems about SledStore ask for.                *)
(***************************************************************************)
EXTENDS SledLog, EngineIds, SledStore_proofs

(* What the two results ask of the configuration and of the callers: sled  *)
(* flushes on every write, ids are fresh, nothing damages a stored frame.  *)
SoundStore == FlushOnWrite /\ FreshIds /\ MaxDamage = 0

Dead(w, i) == <<w, i>> \in dropped

FrameOf(f, a) == f.world = a.world /\ f.id = a.id /\ f.sum = a.bytes

Framed(a, L) == Dead(a.world, a.id) \/ \E f \in L : FrameOf(f, a)

(* A frame stands for an atom that was sent, alone at its position and     *)
(* alone for its id.                                                       *)
FromSent(L) == \A f \in L : \E a \in sent : FrameOf(f, a)
Keyed(L) ==
  \A f, g \in L : f.id = g.id \/ (f.world = g.world /\ f.seq = g.seq) => f = g

DeletesDropped ==
  \A t \in Thread : job[t].pc \in {"strip", "unlog"} =>
    \A i \in job[t].ids : Dead(job[t].world, i)

(* Recovery has nothing to truncate.                                       *)
Whole == doomed = {} /\ (phase # "up" => \A f \in log : Valid(f))

(* What is persisted and was not given up is in the tree, and the frames   *)
(* that are not yet persisted stand above the others.                      *)
DiskKept ==
  /\ \A a \in disk.atoms : Dead(a.world, a.id) \/ a \in atoms
  /\ \A f \in disk.log : Dead(f.world, f.id) \/ f \in log
  /\ \A f \in log \ disk.log, g \in log \cap disk.log : f.world = g.world => g.seq < f.seq

AckedFramed == \A a \in acked : Framed(a, log) /\ Framed(a, disk.log)

(* An append writes above every frame of its world ...                     *)
OnTop(t) ==
  job[t].pc \in Busy =>
    \A f \in log : f.world = job[t].world =>
      \/ f.seq < job[t].seq
      \/ job[t].pc = "index" /\ f.seq = job[t].seq

(* ... and the atoms it has still to frame have no frame yet.              *)
Unframed(t) ==
  job[t].pc \in Busy =>
    /\ \A k, l \in DOMAIN job[t].batch : job[t].batch[k].id = job[t].batch[l].id => k = l
    /\ \A k \in DOMAIN job[t].batch, f \in log \cup disk.log :
         f.id = job[t].batch[k].id => k = 1 /\ job[t].pc = "index"

JobFramed(t) ==
  /\ \A a \in job[t].done : Framed(a, log)
  /\ job[t].pc = "index" => Framed(Head(job[t].batch), log)

TreeInv ==
  /\ Keyed(log) /\ Keyed(disk.log) /\ FromSent(log) /\ FromSent(disk.log)
  /\ DiskKept /\ AckedFramed

LogInv ==
  /\ OneAppendPerWorld /\ DeletesDropped /\ Whole /\ TreeInv
  /\ \A t \in Thread : OnTop(t) /\ Unframed(t) /\ JobFramed(t)

(* What is known of a store from the theorems about SledStore.             *)
StoreInv == FreshInv /\ RepairInv /\ FrameInv /\ ClaimInv /\ OrderInv

LogStart == SoundStore /\ StoreInv /\ LogInv

-----------------------------------------------------------------------------
(* The steps.                                                              *)
LEMMA InHand ==
  ASSUME FreshInv, NEW t \in Thread, job[t].pc \in Busy
  PROVE  /\ job[t].batch \in Seq(Atom) /\ job[t].batch # << >>
         /\ 1 \in DOMAIN job[t].batch /\ Head(job[t].batch) = job[t].batch[1]
         /\ Head(job[t].batch) \in sent /\ Head(job[t].batch) \in Atom
<1>1. job[t].batch \in Seq(Atom) /\ job[t].batch # << >>
  BY DEF FreshInv, TypeOK, HasWork, Job
<1>2. 1 \in DOMAIN job[t].batch /\ Head(job[t].batch) = job[t].batch[1]
  BY <1>1, SeqTail
<1>3. Head(job[t].batch) \in sent
  BY <1>2 DEF FreshInv, SentInv, Sources
<1> QED
  BY <1>1, <1>2, <1>3 DEF FreshInv, TypeOK

(* A thread at work keeps the store open.                                  *)
LEMMA StepOpen == ASSUME RepairInv, NEW t \in Thread, Step(t) PROVE phase = "up" /\ phase' = "up"
<1> USE DEF tree, opens, hist, faults
<1> QED
  BY DEF RepairInv, Step, BeginAppend, Refuse, WriteBody, WriteFrame, WriteIndex,
       FinishAppend, BeginDelete, StripAtom, RemoveFrame, FinishDelete

(* Nothing is damaged, and with valid frames nothing is truncated.         *)
LEMMA Quiet ==
  ASSUME LogStart, [Next]_vars, ~Crash, ~ \E t \in Thread : Step(t)
  PROVE  /\ UNCHANGED <<atoms, log, job, acked, dropped, sent>> /\ doomed' = {}
         /\ phase = "up" => phase' = "up"
         /\ disk' = disk \/ disk' = Image
<1> USE DEF tree, opens, hist, faults
<1>1. \A f \in log : ~Damage(f)
  BY ConstantsAssumption DEF LogStart, SoundStore, StoreInv, FreshInv, TypeOK, Damage
<1>2. CASE Persist \/ UNCHANGED vars
  BY <1>2 DEF Persist, vars, LogStart, LogInv, Whole
<1>3. CASE Recover
  <2>1. ~Truncate
    BY DEF Truncate, LogStart, LogInv, Whole
  <2>2. ASSUME NEW w \in pending, RepairWorld(w) PROVE doomed' = {}
    BY <2>2 DEF RepairWorld, Frames, LogStart, LogInv, Whole
  <2> QED
    BY <1>3, <2>1, <2>2 DEF Recover, Open, RepairWorld, RebuildIndex, LogStart, LogInv, Whole
<1> QED
  BY <1>1, <1>2, <1>3 DEF Next

(* The new frame stands above all others of its world and replaces none.   *)
LEMMA NewFrameOnTop ==
  ASSUME LogStart, NEW t \in Thread, WriteFrame(t)
  PROVE  /\ log' = log \cup {NewFrame(t)}
         /\ \A g \in log : g.world = NewFrame(t).world => g.seq < NewFrame(t).seq
         /\ \A g \in log \cup disk.log : g.id # NewFrame(t).id
         /\ FrameOf(NewFrame(t), Head(job[t].batch))
         /\ Head(job[t].batch) \in sent
         /\ NewFrame(t).world = job[t].world /\ NewFrame(t).seq = job[t].seq
<1>1. /\ job[t].pc = "frame" /\ job[t].pc \in Busy
      /\ log' = PutFrame(log, NewFrame(t))
  BY DEF WriteFrame, Busy, NewFrame
<1>2. \A g \in log : g.world = job[t].world => g.seq < job[t].seq
  BY <1>1 DEF LogStart, LogInv, OnTop
<1>3. job[t].seq \in Nat /\ \A g \in log : g.seq \in Nat
  BY DEF LogStart, StoreInv, FreshInv, TypeOK, Job, Frame
<1>4. Head(job[t].batch) \in sent /\ \A g \in log \cup disk.log : g.id # Head(job[t].batch).id
  BY <1>1, InHand DEF LogStart, StoreInv, LogInv, Unframed
<1>5. \A g \in log : g.world # NewFrame(t).world \/ g.seq # NewFrame(t).seq
  BY <1>2, <1>3 DEF NewFrame
<1>6. Head(job[t].batch).world = job[t].world
  BY <1>1 DEF LogStart, StoreInv, FreshInv, SentInv, Sources
<1> QED
  BY <1>1, <1>2, <1>4, <1>5, <1>6 DEF PutFrame, NewFrame, FrameOf

(* Until a crash the log grows by new frames and loses those given up.     *)
LEMMA LogChange ==
  ASSUME LogStart, [Next]_vars, ~Crash
  PROVE  \/ log' = log
         \/ \E t \in Thread : WriteFrame(t) /\ log' = log \cup {NewFrame(t)}
         \/ \E t \in Thread, f \in log :
              RemoveFrame(t) /\ Dead(f.world, f.id) /\ log' = log \ {f}
<1> USE DEF tree, opens, hist, faults
<1>1. ASSUME NEW t \in Thread, Step(t), ~WriteFrame(t), ~RemoveFrame(t) PROVE log' = log
  BY <1>1 DEF Step, BeginAppend, Refuse, WriteBody, WriteIndex, FinishAppend,
       BeginDelete, StripAtom, FinishDelete
<1>2. ASSUME NEW t \in Thread, RemoveFrame(t)
      PROVE  \E f \in log : Dead(f.world, f.id) /\ log' = log \ {f}
  BY <1>2 DEF RemoveFrame, Unlogged, Frames, LogStart, LogInv, DeletesDropped
<1>3. ASSUME NEW t \in Thread, WriteFrame(t) PROVE log' = log \cup {NewFrame(t)}
  BY <1>3, NewFrameOnTop
<1>4. CASE ~ \E t \in Thread : Step(t)
  BY <1>4, Quiet
<1> QED
  BY <1>1, <1>2, <1>3, <1>4 DEF Step

LEMMA DiskChange ==
  ASSUME LogStart, [Next]_vars
  PROVE  disk' = disk \/ (disk'.atoms = atoms /\ disk'.log = log /\ UNCHANGED <<atoms, log>>)
<1> USE DEF tree, opens, hist, faults
<1>1. ASSUME NEW t \in Thread, Step(t)
      PROVE  disk' = disk \/ (disk' = Image /\ UNCHANGED <<atoms, log>>)
  BY <1>1 DEF Step, BeginAppend, Refuse, WriteBody, WriteFrame, WriteIndex, FinishAppend,
       BeginDelete, StripAtom, RemoveFrame, FinishDelete
<1>2. CASE Crash
  BY <1>2 DEF Crash
<1> QED
  BY <1>1, <1>2, Quiet DEF Image

(* dropped only grows, and so does sent.                                   *)
LEMMA HistoryGrows ==
  ASSUME LogStart, [Next]_vars
  PROVE  dropped \subseteq dropped' /\ sent \subseteq sent'
<1> USE DEF tree, opens, hist, faults
<1>1. ASSUME NEW t \in Thread, Step(t) PROVE dropped \subseteq dropped' /\ sent \subseteq sent'
  BY <1>1 DEF Step, BeginAppend, Refuse, WriteBody, WriteFrame, WriteIndex,
       FinishAppend, BeginDelete, StripAtom, RemoveFrame, FinishDelete
<1>2. CASE Crash
  BY <1>2 DEF Crash
<1> QED
  BY <1>1, <1>2, Quiet

LEMMA OneSent ==
  ASSUME FreshInv, NEW a \in sent, NEW b \in sent, a.id = b.id PROVE a = b
  BY DEF FreshInv, SentInv, OneAtomPerId

(* Until a crash a framed atom stays framed, unless it is given up.        *)
LEMMA FramedStays ==
  ASSUME LogStart, [Next]_vars, ~Crash, NEW a, Framed(a, log)
  PROVE  Framed(a, log)'
<1>1. dropped \subseteq dropped'
  BY HistoryGrows
<1>2. CASE Dead(a.world, a.id)
  BY <1>1, <1>2 DEF Framed, Dead
<1>3. CASE ~Dead(a.world, a.id)
  <2>1. PICK f \in log : FrameOf(f, a)
    BY <1>3 DEF Framed
  <2>2. f \in log'
    BY <1>3, <2>1, LogChange DEF FrameOf
  <2> QED
    BY <2>1, <2>2 DEF Framed
<1> QED
  BY <1>2, <1>3

LEMMA KeyedStep ==
  ASSUME LogStart, [Next]_vars
  PROVE  Keyed(log') /\ Keyed(disk'.log)
<1>0. Keyed(log) /\ Keyed(disk.log)
  BY DEF LogStart, LogInv, TreeInv
<1>1. CASE Crash
  BY <1>0, <1>1 DEF Crash
<1>2. CASE ~Crash
  <2>1. ASSUME NEW t \in Thread, WriteFrame(t), log' = log \cup {NewFrame(t)}
        PROVE  Keyed(log')
    <3>1. \A g \in log : g.id # NewFrame(t).id
      BY <2>1, NewFrameOnTop
    <3>2. \A g \in log : g.world = NewFrame(t).world => g.seq < NewFrame(t).seq
      BY <2>1, NewFrameOnTop
    <3>3. \A g \in log : g.seq \in Nat
      BY DEF LogStart, StoreInv, FreshInv, TypeOK, Frame
    <3>4. NewFrame(t).seq \in Nat
      BY DEF LogStart, StoreInv, FreshInv, TypeOK, Job, NewFrame
    <3>5. \A g \in log : g.world = NewFrame(t).world => g.seq # NewFrame(t).seq
      BY <3>2, <3>3, <3>4
    <3> QED
      BY <1>0, <2>1, <3>1, <3>5 DEF Keyed
  <2>2. Keyed(log')
    BY <1>0, <1>2, <2>1, LogChange DEF Keyed
  <2> QED
    BY <1>0, <2>2, DiskChange
<1> QED
  BY <1>1, <1>2

LEMMA FromSentStep ==
  ASSUME LogStart, [Next]_vars
  PROVE  FromSent(log)' /\ FromSent(disk.log)'
<1>0. FromSent(log) /\ FromSent(disk.log) /\ sent \subseteq sent'
  BY HistoryGrows DEF LogStart, LogInv, TreeInv
<1>1. CASE Crash
  BY <1>0, <1>1 DEF Crash, FromSent
<1>2. CASE ~Crash
  <2>1. ASSUME NEW t \in Thread, WriteFrame(t) PROVE \E a \in sent : FrameOf(NewFrame(t), a)
    BY <2>1, NewFrameOnTop
  <2>2. FromSent(log)'
    BY <1>0, <1>2, <2>1, LogChange DEF FromSent
  <2> QED
    BY <1>0, <2>2, DiskChange DEF FromSent
<1> QED
  BY <1>1, <1>2

LEMMA DiskKeptStep ==
  ASSUME LogStart, [Next]_vars
  PROVE  DiskKept'
<1>0. DiskKept /\ dropped \subseteq dropped'
  BY HistoryGrows DEF LogStart, LogInv, TreeInv
<1>1. CASE Crash
  BY <1>1 DEF Crash, DiskKept
<1>2. CASE disk'.atoms = atoms /\ disk'.log = log /\ UNCHANGED <<atoms, log>>
  BY <1>2 DEF DiskKept
<1>3. CASE ~Crash /\ disk' = disk
  <2>1. ASSUME NEW a \in disk.atoms, a \in atoms PROVE Dead(a.world, a.id)' \/ a \in atoms'
    <3>1. a \in sent
      BY <2>1 DEF LogStart, StoreInv, FreshInv, SentInv, Sources
    <3>2. Stored(a) => Stored(a)'
      BY <1>3, <3>1, StoredStays DEF LogStart, StoreInv, FreshInv, SoundStore
    <3> QED
      BY <2>1, <3>2 DEF Stored, Dead
  <2>2. \A a \in disk'.atoms : Dead(a.world, a.id)' \/ a \in atoms'
    BY <1>0, <1>3, <2>1 DEF DiskKept, Dead
  <2>3. \A f \in disk'.log : Dead(f.world, f.id)' \/ f \in log'
    BY <1>0, <1>3, LogChange DEF DiskKept, Dead
  <2>4. \A f \in log' \ disk.log, g \in log' \cap disk.log : f.world = g.world => g.seq < f.seq
    <3>1. ASSUME NEW t \in Thread, WriteFrame(t), log' = log \cup {NewFrame(t)},
                 NEW f \in log' \ disk.log, NEW g \in log' \cap disk.log, f.world = g.world
          PROVE  g.seq < f.seq
      <4>1. g # NewFrame(t)
        BY <3>1, NewFrameOnTop
      <4>2. CASE f \in log
        BY <1>0, <3>1, <4>1, <4>2 DEF DiskKept
      <4>3. CASE f = NewFrame(t)
        BY <3>1, <4>1, <4>3, NewFrameOnTop
      <4> QED
        BY <3>1, <4>2, <4>3
    <3> QED
      BY <1>0, <1>3, <3>1, LogChange DEF DiskKept
  <2> QED
    BY <1>3, <2>2, <2>3, <2>4 DEF DiskKept
<1> QED
  BY <1>1, <1>2, <1>3, DiskChange

(* What append answers Ok for has a frame in the tree and on disk.         *)
LEMMA AckStep ==
  ASSUME [Next]_vars, NEW a \in acked', a \notin acked
  PROVE  \E t \in Thread : FinishAppend(t) /\ a \in job[t].done
<1> USE DEF tree, opens, hist, faults
<1>1. ASSUME NEW t \in Thread, Step(t)
      PROVE  acked' = acked \/ (FinishAppend(t) /\ acked' = acked \cup job[t].done)
  BY <1>1 DEF Step, BeginAppend, Refuse, WriteBody, WriteFrame, WriteIndex,
       FinishAppend, BeginDelete, StripAtom, RemoveFrame, FinishDelete
<1>2. ASSUME ~ \E t \in Thread : Step(t) PROVE acked' = acked
  BY <1>2 DEF Next, Persist, Crash, Damage, Recover, Open, RepairWorld, Truncate,
       RebuildIndex, vars
<1> QED
  BY <1>1, <1>2

LEMMA AckedFramedStep ==
  ASSUME LogStart, [Next]_vars
  PROVE  AckedFramed'
<1>0. AckedFramed /\ dropped \subseteq dropped'
  BY HistoryGrows DEF LogStart, LogInv, TreeInv
<1>1. CASE Crash
  BY <1>0, <1>1 DEF Crash, AckedFramed, Framed, Dead, hist
<1>2. CASE ~Crash
  <2>1. ASSUME NEW a \in acked PROVE Framed(a, log)' /\ Framed(a, disk.log)'
    <3>1. Framed(a, log)'
      BY <1>0, <1>2, FramedStays DEF AckedFramed
    <3>2. CASE disk' = disk
      BY <1>0, <3>1, <3>2 DEF AckedFramed, Framed, Dead
    <3>3. CASE disk'.log = log /\ log' = log
      BY <3>1, <3>3 DEF Framed
    <3> QED
      BY <3>1, <3>2, <3>3, DiskChange
  <2>2. ASSUME NEW a \in acked', a \notin acked PROVE Framed(a, log)' /\ Framed(a, disk.log)'
    <3>1. PICK t \in Thread : FinishAppend(t) /\ a \in job[t].done
      BY <2>2, AckStep
    <3>2. Framed(a, log)'
      BY <1>2, <3>1, FramedStays DEF LogStart, LogInv, JobFramed
    <3>3. disk'.log = log /\ log' = log
      BY <3>1 DEF FinishAppend, LogStart, SoundStore, Image, tree
    <3> QED
      BY <3>2, <3>3 DEF Framed
  <2> QED
    BY <2>1, <2>2 DEF AckedFramed
<1> QED
  BY <1>1, <1>2

LEMMA DeletesStep ==
  ASSUME LogStart, [Next]_vars
  PROVE  DeletesDropped'
<1> USE DEF tree, opens, hist, faults
<1>0. DeletesDropped /\ dropped \subseteq dropped' /\ TypeOK
  BY HistoryGrows DEF LogStart, LogInv, StoreInv, FreshInv
<1>1. CASE Crash
  BY <1>1, IdleIsJob DEF Crash, DeletesDropped
<1>2. CASE job' = job
  BY <1>0, <1>2 DEF DeletesDropped, Dead
<1>3. ASSUME NEW t \in Thread, Step(t), job'[t].pc \in {"strip", "unlog"},
             NEW i \in job'[t].ids
      PROVE  <<job'[t].world, i>> \in dropped'
  <2>1. ASSUME NEW w \in World, NEW del \in SUBSET Deletable, BeginDelete(t, w, del)
        PROVE  <<job'[t].world, i>> \in dropped'
    <3>1. job'[t].world = w /\ job'[t].ids = del
      BY <2>1, <1>0, IdleIsJob DEF BeginDelete, TypeOK, Job
    <3> QED
      BY <2>1, <3>1, <1>3 DEF BeginDelete, Dead
  <2>2. CASE (\E j \in Id : StripAtom(t, j)) \/ RemoveFrame(t)
    <3>1. /\ job[t].pc \in {"strip", "unlog"}
          /\ job'[t].world = job[t].world /\ job'[t].ids = job[t].ids
      <4>1. ASSUME NEW j \in Id, StripAtom(t, j)
            PROVE  job'[t].world = job[t].world /\ job'[t].ids = job[t].ids
        <5>1. PICK p \in {"unlog", "strip"} :
                   job' = [job EXCEPT ![t].rest = job[t].rest \ {j}, ![t].pc = p]
          BY <4>1 DEF StripAtom
        <5> QED
          BY <1>0, <5>1 DEF TypeOK, Job
      <4>2. RemoveFrame(t) => job'[t].world = job[t].world /\ job'[t].ids = job[t].ids
        BY <1>0 DEF RemoveFrame, TypeOK, Job
      <4> QED
        BY <2>2, <4>1, <4>2 DEF StripAtom, RemoveFrame
    <3> QED
      BY <1>0, <1>3, <3>1 DEF DeletesDropped, Dead
  <2>3. CASE Refuse(t) \/ FinishAppend(t) \/ FinishDelete(t)
    BY <2>3, <1>0, <1>3, IdleIsJob DEF Refuse, FinishAppend, FinishDelete, TypeOK
  <2>4. CASE \/ \E w \in World, batch \in Batches : BeginAppend(t, w, batch)
             \/ WriteBody(t) \/ WriteFrame(t) \/ WriteIndex(t)
    <3>1. job'[t].pc \in Busy \cup {"flush"}
      BY <2>4, <1>0 DEF BeginAppend, WriteBody, WriteFrame, WriteIndex, TypeOK, Job, Busy
    <3> QED
      BY <1>3, <3>1 DEF Busy
  <2> QED
    BY <1>3, <2>1, <2>2, <2>3, <2>4 DEF Step
<1>4. ASSUME NEW t \in Thread, Step(t) PROVE DeletesDropped'
  BY <1>0, <1>3, <1>4, OthersKeep DEF DeletesDropped, Dead
<1> QED
  BY <1>1, <1>2, <1>4, Quiet

(* The promise about crashes: what is read back has a body for each frame. *)
LEMMA SettledValid ==
  ASSUME LogStart, Settled, NEW f \in disk.log
  PROVE  \E a \in disk.atoms : FrameOf(f, a)
<1>1. PICK a \in disk.atoms : a.world = f.world /\ a.id = f.id
  BY DEF Settled
<1>2. PICK b \in sent : FrameOf(f, b)
  BY DEF LogStart, LogInv, TreeInv, FromSent
<1>3. a = b
  BY <1>1, <1>2, OneSent DEF FrameOf, LogStart, StoreInv, FreshInv, SentInv, Sources
<1> QED
  BY <1>1, <1>2, <1>3

LEMMA WholeStep ==
  ASSUME LogStart, [Next]_vars, Crash => Settled
  PROVE  Whole'
<1> USE DEF tree, opens, hist, faults
<1>0. Whole
  BY DEF LogStart, LogInv
<1>1. CASE Crash
  <2>1. doomed' = {} /\ log' = disk.log /\ atoms' = disk.atoms
    BY <1>1 DEF Crash
  <2>2. \A f \in disk.log : \E a \in disk.atoms : FrameOf(f, a)
    BY <1>1, SettledValid
  <2> QED
    BY <2>1, <2>2 DEF Whole, Valid, FrameOf
<1>2. ASSUME NEW t \in Thread, Step(t) PROVE Whole'
  <2>1. phase' = "up" /\ doomed' = doomed
    <3>1. doomed' = doomed
      BY <1>2 DEF Step, BeginAppend, Refuse, WriteBody, WriteFrame, WriteIndex,
           FinishAppend, BeginDelete, StripAtom, RemoveFrame, FinishDelete
    <3> QED
      BY <1>2, <3>1, StepOpen DEF LogStart, StoreInv
  <2> QED
    BY <1>0, <2>1 DEF Whole
<1>3. CASE ~Crash /\ ~ \E t \in Thread : Step(t)
  BY <1>0, <1>3, Quiet DEF Whole, Valid
<1> QED
  BY <1>1, <1>2, <1>3

(* Frames, in the tree or on disk, are old or the new one of an append.    *)
LEMMA NewFrames ==
  ASSUME LogStart, [Next]_vars
  PROVE  /\ \A f \in (log \cup disk.log)' : 
              f \in log \cup disk.log \/ \E u \in Thread : WriteFrame(u) /\ f = NewFrame(u)
         /\ ~Crash => \A f \in log' : 
              f \in log \/ \E u \in Thread : WriteFrame(u) /\ f = NewFrame(u)
<1>1. CASE Crash
  BY <1>1 DEF Crash
<1>2. CASE ~Crash
  BY <1>2, LogChange, DiskChange
<1> QED
  BY <1>1, <1>2

(* An append of one thread keeps clear of the others: of their worlds, by  *)
(* the promise, and of their ids.                                          *)
LEMMA KeepsClear ==
  ASSUME LogStart, NEW t \in Thread, NEW u \in Thread, t # u, WriteFrame(u),
         job[t].pc \in Busy
  PROVE  /\ NewFrame(u).world # job[t].world
         /\ \A k \in DOMAIN job[t].batch : NewFrame(u).id # job[t].batch[k].id
<1>1. job[u].pc = "frame" /\ job[u].pc \in Busy
  BY DEF WriteFrame, Busy
<1>2. job[u].world # job[t].world
  BY <1>1 DEF LogStart, LogInv, OneAppendPerWorld, Busy
<1>3. Writing(t) /\ Writing(u)
  BY <1>1 DEF Writing, Busy
<1>4. Claim(t) /\ Claim(u) /\ Apart(t, u)
  BY DEF LogStart, StoreInv, ClaimInv
<1>5. Head(job[u].batch).id \in job[u].ids
  BY <1>1, <1>3, <1>4, InHand DEF Claim, LogStart, StoreInv
<1>6. \A k \in DOMAIN job[t].batch : Head(job[u].batch).id # job[t].batch[k].id
  BY <1>3, <1>4, <1>5 DEF Claim, Apart
<1> QED
  BY <1>2, <1>6 DEF NewFrame

(* A thread that does not step keeps its place ...                         *)
LEMMA OthersLog ==
  ASSUME LogStart, [Next]_vars, ~Crash, NEW t \in Thread, job'[t] = job[t],
         \A u \in Thread : WriteFrame(u) => u # t
  PROVE  OnTop(t)' /\ Unframed(t)' /\ JobFramed(t)'
<1>0. OnTop(t) /\ Unframed(t) /\ JobFramed(t)
  BY DEF LogStart, LogInv
<1>1. OnTop(t)'
  <2> SUFFICES ASSUME job[t].pc \in Busy, NEW f \in log', f.world = job[t].world
               PROVE  f.seq < job[t].seq \/ (job[t].pc = "index" /\ f.seq = job[t].seq)
    BY DEF OnTop
  <2>1. f \in log
    BY NewFrames, KeepsClear
  <2> QED
    BY <1>0, <2>1 DEF OnTop
<1>2. Unframed(t)'
  <2> SUFFICES ASSUME job[t].pc \in Busy, NEW k \in DOMAIN job[t].batch,
                      NEW f \in (log \cup disk.log)', f.id = job[t].batch[k].id
               PROVE  k = 1 /\ job[t].pc = "index"
    BY <1>0 DEF Unframed
  <2>1. f \in log \cup disk.log
    BY NewFrames, KeepsClear
  <2> QED
    BY <1>0, <2>1 DEF Unframed
<1>3. JobFramed(t)'
  BY <1>0, FramedStays DEF JobFramed, Framed
<1> QED
  BY <1>1, <1>2, <1>3

(* ... and one that steps takes it, piece by piece.                        *)
LEMMA BeginLog ==
  ASSUME LogStart, NEW t \in Thread, NEW w \in World, NEW batch \in Batches,
         BeginAppend(t, w, batch)
  PROVE  OnTop(t)' /\ Unframed(t)'
<1> USE DEF tree, opens, hist, faults
<1>1. UNCHANGED <<log, disk>>
  BY DEF BeginAppend
<1>2. /\ job'[t].pc = "body" /\ job'[t].world = w /\ job'[t].batch = batch
      /\ IsNextSeq(w, job'[t].seq)
  BY DEF BeginAppend, LogStart, StoreInv, FreshInv, TypeOK
<1>3. /\ \A a \in sent : \A k \in DOMAIN batch : a.id # batch[k].id
      /\ \A k, l \in DOMAIN batch : batch[k].id = batch[l].id => k = l
  BY DEF BeginAppend, LogStart, SoundStore
<1>4. \A f \in log \cup disk.log : \A k \in DOMAIN batch : f.id # batch[k].id
  BY <1>3 DEF LogStart, LogInv, TreeInv, FromSent, FrameOf
<1>5. OnTop(t)'
  BY <1>1, <1>2 DEF OnTop, IsNextSeq, Frames
<1>6. Unframed(t)'
  BY <1>1, <1>2, <1>3, <1>4 DEF Unframed
<1> QED
  BY <1>5, <1>6

LEMMA BodyLog ==
  ASSUME LogStart, NEW t \in Thread, WriteBody(t)
  PROVE  OnTop(t)' /\ Unframed(t)'
<1> USE DEF tree, opens, hist, faults
<1>1. UNCHANGED <<log, disk>>
  BY DEF WriteBody
<1>2. /\ job[t].pc = "body" /\ job'[t].pc = "frame" /\ job'[t].world = job[t].world
      /\ job'[t].batch = job[t].batch /\ job'[t].seq = job[t].seq
  BY DEF WriteBody, LogStart, StoreInv, FreshInv, TypeOK, Job
<1> QED
  BY <1>1, <1>2 DEF LogStart, LogInv, OnTop, Unframed, Busy

LEMMA FrameLog ==
  ASSUME LogStart, NEW t \in Thread, WriteFrame(t)
  PROVE  OnTop(t)' /\ Unframed(t)'
<1> USE DEF tree, opens, hist, faults
<1>1. disk' = disk
  BY DEF WriteFrame
<1>2. /\ job[t].pc = "frame" /\ job'[t].pc = "index" /\ job'[t].world = job[t].world
      /\ job'[t].batch = job[t].batch /\ job'[t].seq = job[t].seq
  BY DEF WriteFrame, LogStart, StoreInv, FreshInv, TypeOK, Job
<1>3. /\ log' = log \cup {NewFrame(t)}
      /\ \A g \in log : g.world = job[t].world => g.seq < job[t].seq
      /\ NewFrame(t).seq = job[t].seq /\ NewFrame(t).id = Head(job[t].batch).id
  BY NewFrameOnTop DEF NewFrame
<1>4. 1 \in DOMAIN job[t].batch /\ Head(job[t].batch) = job[t].batch[1]
  BY <1>2, InHand DEF Busy, LogStart, StoreInv
<1>5. \A k, l \in DOMAIN job[t].batch : job[t].batch[k].id = job[t].batch[l].id => k = l
  BY <1>2 DEF LogStart, LogInv, Unframed, Busy
<1>6. \A k \in DOMAIN job[t].batch, f \in log \cup disk.log : f.id # job[t].batch[k].id
  BY <1>2 DEF LogStart, LogInv, Unframed, Busy
<1>7. \A k \in DOMAIN job[t].batch, f \in log' \cup disk.log :
        f.id = job[t].batch[k].id => k = 1
  BY <1>3, <1>4, <1>5, <1>6
<1>8. OnTop(t)'
  BY <1>2, <1>3 DEF OnTop
<1>9. Unframed(t)'
  BY <1>1, <1>2, <1>5, <1>7 DEF Unframed
<1> QED
  BY <1>8, <1>9

LEMMA IndexLog ==
  ASSUME LogStart, NEW t \in Thread, WriteIndex(t)
  PROVE  OnTop(t)' /\ Unframed(t)'
<1> USE DEF tree, opens, hist, faults
<1>1. UNCHANGED <<log, disk>>
  BY DEF WriteIndex
<1>2. /\ job[t].pc = "index" /\ job'[t].pc \in {"body", "flush"}
      /\ job'[t].world = job[t].world /\ job'[t].batch = Tail(job[t].batch)
      /\ job'[t].seq = job[t].seq + 1
  BY DEF WriteIndex, LogStart, StoreInv, FreshInv, TypeOK, Job
<1>3. job[t].seq \in Nat /\ \A g \in log : g.seq \in Nat
  BY DEF LogStart, StoreInv, FreshInv, TypeOK, Job, Frame
<1>4. \A k \in DOMAIN Tail(job[t].batch) :
        k \in Nat /\ k >= 1 /\ k + 1 \in DOMAIN job[t].batch
        /\ Tail(job[t].batch)[k] = job[t].batch[k + 1]
  BY <1>2, InHand, SeqTail DEF Busy, LogStart, StoreInv
<1>5. \A f \in log : f.world = job[t].world => f.seq < job[t].seq + 1
  BY <1>2, <1>3 DEF LogStart, LogInv, OnTop, Busy
<1>6. \A k, l \in DOMAIN job[t].batch : job[t].batch[k].id = job[t].batch[l].id => k = l
  BY <1>2 DEF LogStart, LogInv, Unframed, Busy
<1>7. \A k, l \in DOMAIN Tail(job[t].batch) :
        Tail(job[t].batch)[k].id = Tail(job[t].batch)[l].id => k = l
  BY <1>4, <1>6
<1>8. \A k \in DOMAIN Tail(job[t].batch), f \in log \cup disk.log :
        f.id # Tail(job[t].batch)[k].id
  <2> SUFFICES ASSUME NEW k \in DOMAIN Tail(job[t].batch), NEW f \in log \cup disk.log
               PROVE  f.id # job[t].batch[k + 1].id
    BY <1>4
  <2>1. k + 1 \in DOMAIN job[t].batch /\ k + 1 # 1
    BY <1>4
  <2> QED
    BY <1>2, <2>1 DEF LogStart, LogInv, Unframed, Busy
<1>9. OnTop(t)'
  BY <1>1, <1>2, <1>5 DEF OnTop
<1>10. Unframed(t)'
  BY <1>1, <1>2, <1>7, <1>8 DEF Unframed
<1> QED
  BY <1>9, <1>10

LEMMA OwnLog ==
  ASSUME LogStart, [Next]_vars, NEW t \in Thread, Step(t)
  PROVE  OnTop(t)' /\ Unframed(t)' /\ JobFramed(t)'
<1> USE DEF tree, opens, hist, faults
<1>0. TypeOK /\ ~Crash
  <2>1. phase' = "up"
    BY StepOpen DEF LogStart, StoreInv
  <2> QED
    BY <2>1 DEF Crash, LogStart, StoreInv, FreshInv
<1>1. (OnTop(t)' /\ Unframed(t)') \/ job'[t].pc \notin Busy
  <2>1. ASSUME NEW w \in World, NEW batch \in Batches, BeginAppend(t, w, batch)
        PROVE  OnTop(t)' /\ Unframed(t)'
    BY <2>1, BeginLog
  <2>2. CASE WriteBody(t) \/ WriteFrame(t) \/ WriteIndex(t)
    BY <2>2, BodyLog, FrameLog, IndexLog
  <2>3. ASSUME NEW i \in Id, StripAtom(t, i) PROVE job'[t].pc \notin Busy
    <3>1. PICK p \in {"unlog", "strip"} :
               job' = [job EXCEPT ![t].rest = job[t].rest \ {i}, ![t].pc = p]
      BY <2>3 DEF StripAtom
    <3> QED
      BY <3>1, <1>0 DEF TypeOK, Job, Busy
  <2>4. ASSUME RemoveFrame(t) PROVE job'[t].pc \notin Busy
    BY <2>4, <1>0 DEF RemoveFrame, TypeOK, Job, Busy
  <2>5. ASSUME NEW w \in World, NEW del \in SUBSET Deletable, BeginDelete(t, w, del)
        PROVE  job'[t].pc \notin Busy
    BY <2>5, <1>0, IdleIsJob DEF BeginDelete, TypeOK, Job, Busy
  <2>6. ASSUME Refuse(t) \/ FinishAppend(t) \/ FinishDelete(t) PROVE job'[t].pc \notin Busy
    BY <2>6, <1>0, IdleIsJob DEF Refuse, FinishAppend, FinishDelete, TypeOK, Busy
  <2> QED
    BY <2>1, <2>2, <2>3, <2>4, <2>5, <2>6 DEF Step
<1>3. OnTop(t)' /\ Unframed(t)'
  BY <1>1 DEF OnTop, Unframed
<1>4. \A a : Framed(a, log) => Framed(a, log)'
  BY <1>0, FramedStays
<1>5. JobFramed(t)'
  <2>0. JobFramed(t)
    BY DEF LogStart, LogInv
  <2>1. WriteFrame(t) => Framed(Head(job[t].batch), log')
    BY NewFrameOnTop DEF Framed
  <2>2. \A a \in job[t].done : Framed(a, log)'
    BY <1>4, <2>0 DEF JobFramed
  <2>3. CASE job'[t].done = {} /\ job'[t].pc \notin {"frame", "index"}
    BY <2>3 DEF JobFramed
  <2>4. CASE /\ WriteBody(t) \/ WriteFrame(t)
             /\ job'[t].done = job[t].done /\ job'[t].batch = job[t].batch
    <3>1. CASE WriteBody(t)
      <4>1. job'[t].pc = "frame"
        BY <1>0, <3>1 DEF WriteBody, TypeOK
      <4> QED
        BY <2>2, <2>4, <4>1 DEF JobFramed, Framed
    <3>2. CASE WriteFrame(t)
      <4>1. dropped' = dropped
        BY <3>2 DEF WriteFrame
      <4> QED
        BY <2>1, <2>2, <2>4, <3>2, <4>1 DEF JobFramed, Framed, Dead
    <3> QED
      BY <2>4, <3>1, <3>2
  <2>5. CASE /\ WriteIndex(t) /\ job'[t].pc \notin {"frame", "index"}
             /\ job'[t].done = job[t].done \cup {Head(job[t].batch)}
    <3>1. job[t].pc = "index" /\ dropped' = dropped /\ log' = log
      BY <2>5 DEF WriteIndex
    <3> QED
      BY <2>0, <2>5, <3>1 DEF JobFramed, Framed, Dead
  <2>6. CASE job'[t].done = job[t].done /\ job'[t].pc \notin {"frame", "index"}
    BY <2>2, <2>6 DEF JobFramed, Framed
  <2> QED
    BY <1>0, <2>3, <2>4, <2>5, <2>6, OwnJob
<1> QED
  BY <1>3, <1>5

LEMMA LogInvStep ==
  ASSUME LogStart, [CarefulNext]_vars
  PROVE  LogInv'
<1> USE DEF tree, opens, hist, faults
<1>1. [Next]_vars /\ (Crash => Settled) 
  BY DEF CarefulNext, Crash, vars, LogStart, StoreInv, FreshInv, TypeOK
<1>2. OneAppendPerWorld'
  BY DEF CarefulNext, vars, LogStart, LogInv, OneAppendPerWorld
<1>3. DeletesDropped' /\ Whole' /\ TreeInv'
  BY <1>1, DeletesStep, WholeStep, KeyedStep, FromSentStep, DiskKeptStep, AckedFramedStep
  DEF TreeInv, Keyed
<1>4. ASSUME NEW t \in Thread PROVE OnTop(t)' /\ Unframed(t)' /\ JobFramed(t)'
  <2>1. CASE Crash
    <3>1. job'[t].pc = "idle" /\ job'[t].done = {}
      BY <2>1, IdleIsJob, NoBatchWhenIdle DEF Crash
    <3> QED
      BY <3>1 DEF OnTop, Unframed, JobFramed, Busy
  <2>2. CASE Step(t)
    BY <1>1, <2>2, OwnLog
  <2>3. CASE ~Crash /\ ~Step(t)
    <3>1. job'[t] = job[t]
      <4>1. CASE \E u \in Thread : Step(u)
        BY <2>3, <4>1, OthersKeep DEF LogStart, StoreInv, FreshInv
      <4>2. CASE ~ \E u \in Thread : Step(u)
        BY <1>1, <2>3, <4>2, Quiet
      <4> QED
        BY <4>1, <4>2
    <3>2. \A u \in Thread : WriteFrame(u) => u # t
      BY <2>3 DEF Step
    <3> QED
      BY <1>1, <2>3, <3>1, <3>2, OthersLog
  <2> QED
    BY <2>1, <2>2, <2>3
<1> QED
  BY <1>2, <1>3, <1>4 DEF LogInv

LEMMA LogStarts ==
  ASSUME Init PROVE LogInv
<1>1. /\ atoms = {} /\ log = {} /\ disk.atoms = {} /\ disk.log = {}
      /\ acked = {} /\ doomed = {}
  BY DEF Init, Image
<1>2. \A t \in Thread : job[t].pc = "idle" /\ job[t].done = {}
  BY IdleIsJob, NoBatchWhenIdle DEF Init
<1> QED
  BY <1>1, <1>2
  DEF LogInv, OneAppendPerWorld, DeletesDropped, Whole, TreeInv, Keyed, FromSent, DiskKept,
      AckedFramed, OnTop, Unframed, JobFramed, Busy

LEMMA StoreTyping == ASSUME FreshIds PROVE Spec => []StoreInv
<1>1. Spec => [](FreshInv /\ RepairInv /\ FrameInv) /\ [](FreshInv /\ ClaimInv /\ OrderInv)
  BY FrameTyping, OrderTyping
<1> QED
  BY <1>1, PTL DEF StoreInv

LEMMA LogTyping == ASSUME SoundStore PROVE CarefulSpec => [](StoreInv /\ LogInv)
<1>1. Init => LogInv
  BY LogStarts
<1>2. CarefulSpec => []StoreInv
  <2>1. [CarefulNext]_vars => [Next]_vars
    BY DEF CarefulNext
  <2>2. Spec => []StoreInv
    BY StoreTyping DEF SoundStore
  <2> QED
    BY <2>1, <2>2, PTL DEF CarefulSpec, Spec
<1>3. StoreInv /\ LogInv /\ [CarefulNext]_vars => LogInv'
  BY LogInvStep DEF LogStart
<1> QED
  BY <1>1, <1>2, <1>3, PTL DEF CarefulSpec

LEMMA LogReplays == ASSUME StoreInv, LogInv, SoundStore PROVE AckedReplayed
<1> SUFFICES ASSUME NEW a \in acked, <<a.world, a.id>> \notin dropped
             PROVE  a \in atoms /\ \E f \in Frames(a.world) : f.id = a.id /\ Valid(f)
  BY DEF AckedReplayed
<1>1. a \in atoms
  BY DEF StoreInv, FreshInv, BodyInv, Stored, SoundStore
<1>2. PICK f \in log : FrameOf(f, a)
  BY DEF LogInv, TreeInv, AckedFramed, Framed, Dead
<1> QED
  BY <1>1, <1>2 DEF Frames, Valid, FrameOf

(* Callers that run one append per world at a time, and a process that     *)
(* dies with no delete half done on disk, read back in a replay every atom *)
(* whose append returned Ok and that was not deleted: whatever threads do  *)
(* in other worlds, whatever is deleted meanwhile, however often the       *)
(* process crashed, and however often while it was opening the store.      *)
THEOREM AckedReplayedCorrect == ASSUME SoundStore PROVE CarefulSpec => []AckedReplayed
<1>1. StoreInv /\ LogInv => AckedReplayed
  BY LogReplays
<1> QED
  BY <1>1, LogTyping, PTL

-----------------------------------------------------------------------------
(* A store from which nothing is deleted is always settled.                *)
NoneDropped == dropped = {}

LEMMA KeeperStep ==
  ASSUME SoundStore, Deletable = {}, StoreInv, LogInv, NoneDropped, OneAppendPerWorld',
         [Next]_vars
  PROVE  [CarefulNext]_vars /\ LogInv' /\ NoneDropped'
<1> USE DEF tree, opens, hist, faults, NoneDropped
<1>1. Settled
  BY ConstantsAssumption
  DEF Settled, StoreInv, FrameInv, BackedOnDisk, LogInv, TreeInv, FromSent, FrameOf, FreshInv,
      TypeOK, Atom
<1>2. dropped' = dropped
  <2>1. ASSUME NEW t \in Thread, Step(t) PROVE dropped' = dropped
    <3>1. ASSUME NEW w \in World, NEW del \in SUBSET Deletable, BeginDelete(t, w, del)
          PROVE  FALSE
      BY <3>1 DEF BeginDelete
    <3> QED
      BY <2>1, <3>1 DEF Step, BeginAppend, Refuse, WriteBody, WriteFrame, WriteIndex,
           FinishAppend, StripAtom, RemoveFrame, FinishDelete
  <2>2. CASE Crash
    BY <2>2 DEF Crash
  <2> QED
    BY <2>1, <2>2, Quiet DEF LogStart
<1>3. [CarefulNext]_vars
  BY <1>1 DEF CarefulNext
<1> QED
  BY <1>2, <1>3, LogInvStep DEF LogStart

(* Where nothing is deleted, the promise about crashes keeps itself: the   *)
(* only thing asked of the callers is one append per world at a time, and  *)
(* one thread cannot but do that.                                          *)
THEOREM KeepersAreCareful ==
  ASSUME SoundStore, Deletable = {} PROVE Spec /\ []OneAppendPerWorld => CarefulSpec
<1>1. Init => LogInv /\ NoneDropped
  BY LogStarts DEF Init, NoneDropped
<1>2. Spec => []StoreInv
  BY StoreTyping DEF SoundStore
<1>3. StoreInv /\ LogInv /\ NoneDropped /\ OneAppendPerWorld' /\ [Next]_vars
        => [CarefulNext]_vars /\ LogInv' /\ NoneDropped'
  BY KeeperStep
<1> QED
  BY <1>1, <1>2, <1>3, PTL DEF Spec, CarefulSpec

(* So one thread that deletes nothing has it from the store as it is.      *)
THEOREM OneWriterReplayed ==
  ASSUME SoundStore, Deletable = {}, \A t, u \in Thread : t = u
  PROVE  Spec => []AckedReplayed
<1>1. OneAppendPerWorld
  BY DEF OneAppendPerWorld
<1>2. Spec => []OneAppendPerWorld
  BY <1>1, PTL
<1> QED
  BY <1>2, KeepersAreCareful, AckedReplayedCorrect, PTL

-----------------------------------------------------------------------------
(* Refinement, step by step.                                               *)
LEMMA InReplay ==
  \A x : x \in Replay <=> \E f \in log : \E a \in atoms :
           a.world = f.world /\ a.id = f.id /\ x = [pos |-> f.seq, atom |-> a]
  BY DEF Replay, Bodies

LEMMA InReplayNext ==
  \A x : x \in Replay' <=> \E f \in log' : \E a \in atoms' :
           a.world = f.world /\ a.id = f.id /\ x = [pos |-> f.seq, atom |-> a]
  BY DEF Replay, Bodies

LEMMA SameReplay == ASSUME UNCHANGED <<atoms, log>> PROVE Replay' = Replay
  BY DEF Replay, Bodies

LEMMA AbstractStutter ==
  ASSUME UNCHANGED <<phase, acked, dropped>>, Replay' = Replay PROVE UNCHANGED Abstract!vars
  BY DEF Abstract!vars

(* A replay is a log.                                                      *)
LEMMA ReplayIsLog ==
  ASSUME FreshInv, Keyed(log) PROVE Abstract!IsLog(Replay)
<1> SUFFICES ASSUME NEW x \in Replay, NEW y \in Replay, x.atom.world = y.atom.world,
                    x.pos = y.pos \/ x.atom.id = y.atom.id
             PROVE  x = y
  BY DEF Abstract!IsLog
<1>1. PICK f \in log, a \in atoms :
           a.world = f.world /\ a.id = f.id /\ x = [pos |-> f.seq, atom |-> a]
  BY InReplay
<1>2. PICK g \in log, b \in atoms :
           b.world = g.world /\ b.id = g.id /\ y = [pos |-> g.seq, atom |-> b]
  BY InReplay
<1>3. f = g
  BY <1>1, <1>2 DEF Keyed
<1>4. a = b
  BY <1>1, <1>2, <1>3, OneSent DEF FreshInv, SentInv, Sources
<1> QED
  BY <1>1, <1>2, <1>3, <1>4

(* A body without a frame is not replayed.                                 *)
LEMMA BodyHidden ==
  ASSUME LogStart, NEW t \in Thread, WriteBody(t) PROVE Replay' = Replay
<1> USE DEF tree, opens, hist, faults
<1>1. job[t].pc = "body" /\ job[t].pc \in Busy /\ log' = log
  BY DEF WriteBody, Busy
<1>2. Head(job[t].batch) \in sent /\ \A f \in log : f.id # Head(job[t].batch).id
  BY <1>1, InHand DEF LogStart, LogInv, Unframed, StoreInv
<1>3. \A b \in atoms : b.id = Head(job[t].batch).id => b = Head(job[t].batch)
  BY <1>2, OneSent DEF LogStart, StoreInv, FreshInv, SentInv, Sources
<1>4. atoms' = atoms \cup {Head(job[t].batch)}
  BY <1>3 DEF WriteBody, PutAtom
<1>5. \A f \in log : Bodies(f)' = Bodies(f)
  BY <1>2, <1>4 DEF Bodies
<1> QED
  BY <1>1, <1>5 DEF Replay

(* A frame shows its atom, at the end of the log; none if the atom was     *)
(* deleted between the two writes.                                         *)
LEMMA FrameAppends ==
  ASSUME LogStart, NEW t \in Thread, WriteFrame(t)
  PROVE  [Abstract!Next]_(Abstract!vars)
<1> USE DEF tree, opens, hist, faults
<1> DEFINE a == Head(job[t].batch)
           x == [pos |-> job[t].seq, atom |-> a]
<1>1. /\ Step(t) /\ UNCHANGED <<atoms, phase, acked, dropped>>
  BY DEF WriteFrame, Step
<1>2. phase = "up"
  BY <1>1, StepOpen DEF LogStart, StoreInv
<1>3. /\ log' = log \cup {NewFrame(t)}
      /\ \A g \in log : g.world = job[t].world => g.seq < job[t].seq
      /\ \A g \in log : g.id # a.id
      /\ a.world = job[t].world /\ a \in sent
  BY NewFrameOnTop DEF FrameOf
<1>4. NewFrame(t).world = a.world /\ NewFrame(t).id = a.id /\ NewFrame(t).seq = job[t].seq
  BY NewFrameOnTop DEF FrameOf
<1>5. \A b \in atoms : b.id = a.id => b = a
  BY <1>3, OneSent DEF LogStart, StoreInv, FreshInv, SentInv, Sources
<1>6. \A y \in Replay : /\ y.atom.world = a.world => y.pos < job[t].seq
                        /\ y.atom.id # a.id
  BY <1>3, InReplay
<1>7. Replay \subseteq Replay'
  BY <1>1, <1>3, InReplay, InReplayNext
<1>8. ASSUME NEW y \in Replay', y \notin Replay PROVE y = x /\ a \in atoms
  <2>1. PICK f \in log', b \in atoms :
             b.world = f.world /\ b.id = f.id /\ y = [pos |-> f.seq, atom |-> b]
    BY <1>1, <1>8, InReplayNext
  <2>2. f = NewFrame(t)
    BY <1>3, <1>8, <2>1, InReplay
  <2> QED
    BY <1>4, <1>5, <2>1, <2>2
<1>9. CASE a \in atoms
  <2>1. x \in Replay'
    BY <1>1, <1>3, <1>4, <1>9, InReplayNext
  <2>2. Replay' = Replay \cup {x}
    BY <1>7, <1>8, <2>1
  <2>3. x \in Replay' \ Replay /\ x.pos = job[t].seq /\ x.atom = a
    BY <1>6, <2>1
  <2>4. job[t].seq \in Nat
    BY DEF LogStart, StoreInv, FreshInv, TypeOK, Job
  <2>5. Abstract!Append(x.pos, x.atom)
    BY <1>1, <1>2, <1>6, <2>2, <2>3, <2>4 DEF Abstract!Append
  <2> QED
    BY <2>3, <2>5 DEF Abstract!Next
<1>10. CASE a \notin atoms
  BY <1>1, <1>7, <1>8, <1>10, AbstractStutter
<1> QED
  BY <1>9, <1>10

(* What append answers Ok for is in the log, unless it was given up.       *)
LEMMA FinishAcks ==
  ASSUME LogStart, NEW t \in Thread, FinishAppend(t)
  PROVE  Abstract!Next
<1> USE DEF tree, opens, hist, faults
<1>1. /\ job[t].pc = "flush" /\ Step(t) /\ UNCHANGED <<atoms, log, phase, dropped>>
      /\ acked' = acked \cup job[t].done
  BY DEF FinishAppend, Step
<1>2. phase = "up"
  BY <1>1, StepOpen DEF LogStart, StoreInv
<1>3. ASSUME NEW a \in acked' \ acked, ~Dead(a.world, a.id) PROVE \E x \in Replay : x.atom = a
  <2>1. a \in job[t].done /\ a \in atoms
    BY <1>1, <1>3 DEF LogStart, StoreInv, FreshInv, BodyInv, JobStored, Stored, Dead
  <2>2. PICK f \in log : FrameOf(f, a)
    BY <1>3, <2>1 DEF LogStart, LogInv, JobFramed, Framed
  <2>3. [pos |-> f.seq, atom |-> a] \in Replay
    BY <2>1, <2>2, InReplay DEF FrameOf
  <2> QED
    BY <2>3
<1>4. Replay' = Replay
  BY <1>1, SameReplay
<1>5. Abstract!Ack(acked' \ acked)
  BY <1>1, <1>2, <1>3, <1>4 DEF Abstract!Ack, Abstract!Gone, Dead
<1> QED
  BY <1>5 DEF Abstract!Next

(* delete_atoms gives atoms up, then takes them out of the replay.         *)
LEMMA DeleteRemoves ==
  ASSUME LogStart, NEW t \in Thread,
         \/ \E w \in World, del \in SUBSET Deletable : BeginDelete(t, w, del)
         \/ \E i \in Id : StripAtom(t, i)
         \/ RemoveFrame(t)
  PROVE  [Abstract!Next]_(Abstract!vars)
<1> USE DEF tree, opens, hist, faults
<1>1. phase = "up" /\ phase' = "up"
  BY StepOpen DEF LogStart, StoreInv, Step
<1>2. ASSUME NEW w \in World, NEW del \in SUBSET Deletable, BeginDelete(t, w, del)
      PROVE  [Abstract!Next]_(Abstract!vars)
  <2>1. UNCHANGED <<atoms, log, acked>> /\ dropped \subseteq dropped'
    BY <1>2 DEF BeginDelete
  <2>2. Replay' = Replay /\ dropped' = dropped \cup (dropped' \ dropped)
    BY <2>1, SameReplay
  <2>3. Abstract!Delete(dropped' \ dropped)
    BY <1>1, <2>1, <2>2 DEF Abstract!Delete
  <2> QED
    BY <2>3 DEF Abstract!Next
<1>3. ASSUME atoms' \subseteq atoms, log' \subseteq log, UNCHANGED <<acked, dropped>>,
             \A a \in atoms : a \in atoms' \/ Dead(a.world, a.id),
             \A f \in log : f \in log' \/ Dead(f.world, f.id)
      PROVE  Abstract!Remove
  <2>1. Replay' \subseteq Replay
    BY <1>3, InReplay, InReplayNext
  <2>2. ASSUME NEW x \in Replay \ Replay' PROVE Dead(x.atom.world, x.atom.id)
    <3>1. PICK f \in log, a \in atoms :
               a.world = f.world /\ a.id = f.id /\ x = [pos |-> f.seq, atom |-> a]
      BY <2>2, InReplay
    <3>2. f \notin log' \/ a \notin atoms'
      BY <2>2, <3>1, InReplayNext
    <3> QED
      BY <1>3, <3>1, <3>2
  <2> QED
    BY <1>1, <1>3, <2>1, <2>2 DEF Abstract!Remove, Abstract!Gone, Dead
<1>4. ASSUME NEW i \in Id, StripAtom(t, i) PROVE Abstract!Remove
  <2>1. \A a \in atoms : a \in atoms' \/ Dead(a.world, a.id)
    BY <1>4 DEF StripAtom, LogStart, StoreInv, FreshInv, StripsDropped, Dead
  <2>2. atoms' \subseteq atoms /\ UNCHANGED <<log, acked, dropped>>
    BY <1>4 DEF StripAtom
  <2> QED
    BY <1>3, <2>1, <2>2
<1>5. ASSUME RemoveFrame(t) PROVE Abstract!Remove
  <2>1. \A f \in log : f \in log' \/ Dead(f.world, f.id)
    BY <1>5 DEF RemoveFrame, Unlogged, Frames, LogStart, LogInv, DeletesDropped
  <2>2. log' \subseteq log /\ UNCHANGED <<atoms, acked, dropped>>
    BY <1>5 DEF RemoveFrame
  <2> QED
    BY <1>3, <2>1, <2>2
<1> QED
  BY <1>2, <1>4, <1>5 DEF Abstract!Next

(* A crash takes an end of each log that nobody was told of, and may undo  *)
(* what a delete had done.                                                 *)
LEMMA CrashForgets ==
  ASSUME LogStart, Crash, Settled
  PROVE  Abstract!Next
<1> USE DEF tree, opens, hist, faults
<1>1. /\ atoms' = disk.atoms /\ log' = disk.log /\ phase' = "down"
      /\ UNCHANGED <<acked, dropped, sent>>
  BY DEF Crash
<1>2. atoms \subseteq sent /\ disk.atoms \subseteq sent /\ FreshInv
  BY DEF LogStart, StoreInv, FreshInv, SentInv, Sources
<1>3. Abstract!IsLog(Replay')
  <2>1. [Next]_vars
    BY DEF Next
  <2>2. Keyed(log') /\ FreshInv'
    BY <2>1, KeyedStep, TypeStep, SentStep, StripsStep, BodyStep
    DEF LogStart, StoreInv, FreshInv, SoundStore
  <2> SUFFICES ASSUME NEW x \in Replay', NEW y \in Replay', x.atom.world = y.atom.world,
                      x.pos = y.pos \/ x.atom.id = y.atom.id
               PROVE  x = y
    BY DEF Abstract!IsLog
  <2>3. PICK f \in log', a \in atoms' :
             a.world = f.world /\ a.id = f.id /\ x = [pos |-> f.seq, atom |-> a]
    BY InReplayNext
  <2>4. PICK g \in log', b \in atoms' :
             b.world = g.world /\ b.id = g.id /\ y = [pos |-> g.seq, atom |-> b]
    BY InReplayNext
  <2>5. f = g
    BY <2>2, <2>3, <2>4 DEF Keyed
  <2>6. a = b
    BY <1>1, <1>2, <2>3, <2>4, <2>5, OneSent
  <2> QED
    BY <2>3, <2>4, <2>5, <2>6
<1>4. ASSUME NEW y \in Replay', y \notin Replay PROVE Dead(y.atom.world, y.atom.id)
  <2>1. PICK g \in disk.log, b \in disk.atoms :
             b.world = g.world /\ b.id = g.id /\ y = [pos |-> g.seq, atom |-> b]
    BY <1>1, <1>4, InReplayNext
  <2>2. g \notin log \/ b \notin atoms
    BY <1>4, <2>1, InReplay
  <2> QED
    BY <2>1, <2>2 DEF LogStart, LogInv, TreeInv, DiskKept
<1>5. ASSUME NEW x \in Replay \ Replay', NEW y \in Replay \cap Replay',
             x.atom.world = y.atom.world
      PROVE  y.pos < x.pos
  <2>1. PICK f \in log, a \in atoms :
             a.world = f.world /\ a.id = f.id /\ x = [pos |-> f.seq, atom |-> a]
    BY <1>5, InReplay
  <2>2. PICK g \in log, b \in atoms :
             b.world = g.world /\ b.id = g.id /\ y = [pos |-> g.seq, atom |-> b]
    BY <1>5, InReplay
  <2>3. PICK h \in disk.log, c \in disk.atoms :
             c.world = h.world /\ c.id = h.id /\ y = [pos |-> h.seq, atom |-> c]
    BY <1>1, <1>5, InReplayNext
  <2>4. f \notin disk.log
    <3> SUFFICES ASSUME f \in disk.log PROVE FALSE
      OBVIOUS
    <3>1. PICK d \in disk.atoms : FrameOf(f, d)
      BY SettledValid
    <3>2. d = a
      BY <1>2, <2>1, <3>1, OneSent DEF FrameOf
    <3> QED
      BY <1>1, <1>5, <2>1, <3>1, <3>2, InReplayNext
  <2>5. g = h
    <3>1. /\ \E p \in sent : FrameOf(g, p)
          /\ \E q \in sent : FrameOf(h, q)
      BY DEF LogStart, LogInv, TreeInv, FromSent
    <3>2. g.world = h.world /\ g.id = h.id /\ g.seq = h.seq
      BY <2>2, <2>3
    <3>3. g.sum = h.sum
      BY <1>2, <3>1, <3>2, OneSent DEF FrameOf
    <3>4. g \in Frame /\ h \in Frame
      BY <1>2 DEF FreshInv, TypeOK, Tree
    <3> QED
      BY <3>2, <3>3, <3>4 DEF Frame
  <2>6. g.seq < f.seq
    BY <1>5, <2>1, <2>2, <2>4, <2>5 DEF LogStart, LogInv, TreeInv, DiskKept
  <2> QED
    BY <2>1, <2>2, <2>6
<1>6. ASSUME NEW a \in acked, ~Dead(a.world, a.id) PROVE \E x \in Replay' : x.atom = a
  <2>1. a \in disk.atoms
    BY <1>6 DEF LogStart, StoreInv, FreshInv, BodyInv, OnDisk, SoundStore, Dead
  <2>2. PICK f \in disk.log : FrameOf(f, a)
    BY <1>6 DEF LogStart, LogInv, TreeInv, AckedFramed, Framed
  <2>3. [pos |-> f.seq, atom |-> a] \in Replay'
    BY <1>1, <2>1, <2>2, InReplayNext DEF FrameOf
  <2> QED
    BY <2>3
<1>7. Abstract!Crash
  BY <1>1, <1>3, <1>4, <1>5, <1>6 DEF Abstract!Crash, Abstract!Gone, Dead
<1> QED
  BY <1>7 DEF Abstract!Next

LEMMA QuietReopens ==
  ASSUME LogStart, [Next]_vars, ~Crash, ~ \E t \in Thread : Step(t)
  PROVE  [Abstract!Next]_(Abstract!vars)
<1> USE DEF tree, opens, hist, faults
<1>1. Replay' = Replay /\ UNCHANGED <<acked, dropped>>
  BY Quiet, SameReplay
<1>2. CASE (phase = "up") = (phase' = "up")
  BY <1>1, <1>2 DEF Abstract!vars
<1>3. CASE ~(phase = "up") /\ phase' = "up"
  <2>1. Abstract!Reopen
    BY <1>1, <1>3 DEF Abstract!Reopen
  <2> QED
    BY <2>1 DEF Abstract!Next
<1> QED
  BY <1>2, <1>3, Quiet

LEMMA StepImplements ==
  ASSUME LogStart, [CarefulNext]_vars
  PROVE  [Abstract!Next]_(Abstract!vars)
<1> USE DEF tree, opens, hist, faults
<1>0. [Next]_vars /\ (Crash => Settled)
  BY DEF CarefulNext, Crash, vars, LogStart, StoreInv, FreshInv, TypeOK
<1>1. ASSUME NEW t \in Thread, Step(t) PROVE [Abstract!Next]_(Abstract!vars)
  <2>1. CASE \/ \E w \in World, batch \in Batches : BeginAppend(t, w, batch)
             \/ Refuse(t) \/ WriteIndex(t) \/ FinishDelete(t)
    <3>1. UNCHANGED <<atoms, log, phase, acked, dropped>>
      BY <2>1 DEF BeginAppend, Refuse, WriteIndex, FinishDelete
    <3> QED
      BY <3>1, SameReplay, AbstractStutter
  <2>2. CASE WriteBody(t)
    <3>1. UNCHANGED <<phase, acked, dropped>>
      BY <2>2 DEF WriteBody
    <3> QED
      BY <2>2, <3>1, BodyHidden, AbstractStutter
  <2> QED
    BY <1>1, <2>1, <2>2, FrameAppends, FinishAcks, DeleteRemoves DEF Step
<1> QED
  BY <1>0, <1>1, CrashForgets, QuietReopens

(* SledStore implements AtomLog for such callers: to them its replays look *)
(* like a log that loses what they deleted, and in a crash at most an end  *)
(* of which nothing was acknowledged.                                      *)
THEOREM SledImplementsAtomLog == ASSUME SoundStore PROVE CarefulSpec => ImplementsAtomLog
<1>1. Init => Abstract!Init
  BY DEF Init, Abstract!Init, Replay
<1>2. StoreInv /\ LogInv /\ [CarefulNext]_vars => [Abstract!Next]_(Abstract!vars)
  BY StepImplements DEF LogStart
<1> QED
  BY <1>1, <1>2, LogTyping, PTL DEF CarefulSpec, ImplementsAtomLog, Abstract!Spec

(* What AtomLog promises holds by its steps alone: at all times, closed or *)
(* open, a replay has one atom at a position and one position for an atom, *)
(* and every acknowledged atom that was not deleted.                       *)
THEOREM AtomLogPromise == ImplementsAtomLog => []Abstract!Promise
<1> USE DEF Abstract!Promise, Abstract!IsLog, Abstract!Gone
<1>1. Abstract!Init => Abstract!Promise
  BY DEF Abstract!Init
<1>2. Abstract!Promise /\ [Abstract!Next]_(Abstract!vars) => Abstract!Promise'
  <2> SUFFICES ASSUME Abstract!Promise, [Abstract!Next]_(Abstract!vars)
               PROVE  Abstract!Promise'
    OBVIOUS
  <2>1. ASSUME NEW x \in Replay' \ Replay, Abstract!Append(x.pos, x.atom)
        PROVE  Abstract!Promise'
    BY <2>1 DEF Abstract!Append
  <2>2. CASE Abstract!Ack(acked' \ acked)
    BY <2>2 DEF Abstract!Ack
  <2>3. CASE Abstract!Delete(dropped' \ dropped)
    BY <2>3 DEF Abstract!Delete
  <2>4. CASE Abstract!Remove
    BY <2>4 DEF Abstract!Remove
  <2>5. CASE Abstract!Crash
    BY <2>5 DEF Abstract!Crash
  <2>6. CASE Abstract!Reopen \/ UNCHANGED Abstract!vars
    BY <2>6 DEF Abstract!Reopen, Abstract!vars
  <2> QED
    BY <2>1, <2>2, <2>3, <2>4, <2>5, <2>6 DEF Abstract!Next
<1> QED
  BY <1>1, <1>2, PTL DEF ImplementsAtomLog, Abstract!Spec

-----------------------------------------------------------------------------
(* The engine's ids.  Within one life of the process id_gen keeps the      *)
(* promise that FreshIds stands for; after a restart it does not, see      *)
(* engine_ids.                                                             *)
Fresh == INSTANCE SledStore_proofs WITH FreshIds <- TRUE

OneLife == MaxCrashes = 0 /\ Id \subseteq Nat /\ 1 <= MaxBatch

IdsInv ==
  /\ TypeOK /\ HasWork /\ phase = "up"
  /\ idGen \in Nat /\ \A a \in sent : a.id < idGen

LEMMA RememberFresh ==
  ASSUME OneLife, IdsInv, NEW t \in Thread, Remember(t)
  PROVE  /\ \E w \in World, batch \in Batches : BeginAppend(t, w, batch)
         /\ \E w \in World, batch \in Fresh!Batches : Fresh!BeginAppend(t, w, batch)
         /\ phase' = "up" /\ idGen' \in Nat /\ \A a \in sent' : a.id < idGen'
<1> USE DEF tree, opens, hist, faults
<1>1. PICK w \in World, b \in Bytes :
           BeginAppend(t, w, <<[world |-> w, id |-> idGen, bytes |-> b]>>)
  BY DEF Remember
<1>2. idGen \in Id /\ idGen' = idGen + 1
  BY DEF Remember
<1> DEFINE a == [world |-> w, id |-> idGen, bytes |-> b]
           batch == <<a>>
<1>3. a \in Atom
  BY <1>2 DEF Atom
<1>4. batch \in [1 .. 1 -> Atom]
  BY <1>3
<1>5. batch \in Batches
  BY <1>4, ConstantsAssumption DEF Batches, OneLife
<1>6. DOMAIN batch = 1 .. 1 /\ batch[1] = a
  BY <1>4
<1>7. \A c \in sent : c.id \notin {batch[k].id : k \in DOMAIN batch}
  BY <1>2, <1>6 DEF IdsInv, OneLife
<1>8. \A k, l \in DOMAIN batch : batch[k].id = batch[l].id => k = l
  BY <1>6
<1>9. Fresh!BeginAppend(t, w, batch)
  BY <1>1, <1>7, <1>8
  DEF BeginAppend, Fresh!BeginAppend, IsNextSeq, Fresh!IsNextSeq, Frames, Fresh!Frames,
      Fresh!tree, Fresh!opens, Fresh!faults
<1>10. Fresh!Batches = Batches
  BY DEF Fresh!Batches, Batches, Fresh!Atom, Atom
<1>11. phase' = "up" /\ sent' = sent \cup {batch[k] : k \in DOMAIN batch}
  BY <1>1 DEF BeginAppend, IdsInv
<1>12. \A c \in sent' : c.id < idGen'
  <2>1. sent' = sent \cup {a}
    BY <1>6, <1>11
  <2>2. \A c \in sent : c.id \in Nat
    BY DEF IdsInv, TypeOK, Atom, OneLife
  <2> QED
    BY <1>2, <2>1, <2>2 DEF IdsInv
<1> QED
  BY <1>1, <1>2, <1>5, <1>9, <1>10, <1>11, <1>12 DEF IdsInv

LEMMA IdsStep ==
  ASSUME OneLife, IdsInv, [IdsNext]_ids
  PROVE  IdsInv' /\ [Fresh!Next]_(Fresh!vars)
<1> USE DEF tree, opens, hist, faults
<1>1. ASSUME NEW t \in Thread, Remember(t) PROVE Next /\ IdsInv' /\ Fresh!Next
  <2>1. Next
    BY <1>1, RememberFresh DEF Next, Step
  <2>2. Fresh!Next
    BY <1>1, RememberFresh DEF Fresh!Next, Fresh!Step
  <2> QED
    BY <1>1, <2>1, <2>2, RememberFresh, TypeStep DEF IdsInv
<1>2. ASSUME NEW t \in Thread, Store(t) PROVE Next /\ Fresh!Next /\ UNCHANGED <<phase, sent, idGen>>
  <2>1. CASE WriteBody(t)
    <3>1. Fresh!WriteBody(t)
      BY <2>1 DEF WriteBody, Fresh!WriteBody, PutAtom, Fresh!PutAtom, Fresh!opens,
           Fresh!hist, Fresh!faults
    <3> QED
      BY <1>2, <2>1, <3>1 DEF Next, Step, Fresh!Next, Fresh!Step, WriteBody, Store
  <2>2. CASE WriteFrame(t)
    <3>1. Fresh!WriteFrame(t)
      BY <2>2 DEF WriteFrame, Fresh!WriteFrame, PutFrame, Fresh!PutFrame, Fresh!opens,
           Fresh!hist, Fresh!faults
    <3> QED
      BY <1>2, <2>2, <3>1 DEF Next, Step, Fresh!Next, Fresh!Step, WriteFrame, Store
  <2>3. CASE WriteIndex(t)
    <3>1. Fresh!WriteIndex(t)
      BY <2>3 DEF WriteIndex, Fresh!WriteIndex, PutEntry, Fresh!PutEntry, Fresh!opens,
           Fresh!hist, Fresh!faults
    <3> QED
      BY <1>2, <2>3, <3>1 DEF Next, Step, Fresh!Next, Fresh!Step, WriteIndex, Store
  <2>4. CASE FinishAppend(t)
    <3>1. Fresh!FinishAppend(t)
      BY <2>4 DEF FinishAppend, Fresh!FinishAppend, Image, Fresh!Image, Idle, Fresh!Idle,
           Fresh!tree, Fresh!opens, Fresh!faults
    <3> QED
      BY <1>2, <2>4, <3>1 DEF Next, Step, Fresh!Next, Fresh!Step, FinishAppend, Store
  <2> QED
    BY <1>2, <2>1, <2>2, <2>3, <2>4 DEF Store
<1>3. CASE Environment
  <2>1. crashes \in Nat /\ ~(crashes < MaxCrashes)
    BY DEF IdsInv, TypeOK, OneLife
  <2>2. ~Crash /\ ~Open /\ ~Truncate /\ \A w \in pending : ~RepairWorld(w)
    BY <2>1 DEF IdsInv, Crash, Open, Truncate, RepairWorld
  <2>3. Persist /\ idGen' = idGen
    BY <1>3, <2>2 DEF Environment
  <2>4. Fresh!Persist
    BY <2>3 DEF Persist, Fresh!Persist, Image, Fresh!Image, Fresh!tree, Fresh!opens,
         Fresh!hist, Fresh!faults
  <2>5. UNCHANGED <<phase, sent, idGen>>
    BY <2>3 DEF Persist
  <2> QED
    BY <2>3, <2>4, <2>5, TypeStep DEF IdsInv, Next, Fresh!Next
<1>4. ~Restart
  BY DEF Restart, RebuildIndex, IdsInv
<1>5. CASE UNCHANGED ids
  <2>1. UNCHANGED vars /\ UNCHANGED <<phase, sent, idGen>> /\ UNCHANGED Fresh!vars
    BY <1>5 DEF ids, vars, Fresh!vars, Fresh!tree, Fresh!opens, Fresh!hist, Fresh!faults
  <2> QED
    BY <2>1, TypeStep DEF IdsInv
<1> QED
  BY <1>1, <1>2, <1>3, <1>4, <1>5, TypeStep DEF IdsNext, IdsInv

(* Until the process dies, the ids the engine gives out are the fresh ids  *)
(* the theorems about the store ask for: its store behaves like one whose  *)
(* callers never append an id twice.                                       *)
THEOREM EngineIdsFresh == ASSUME OneLife PROVE IdsSpec => Fresh!Spec
<1>1. IdsInit => IdsInv /\ Fresh!Init
  <2> SUFFICES ASSUME IdsInit PROVE IdsInv /\ Fresh!Init
    OBVIOUS
  <2>1. Init /\ idGen = 1
    BY DEF IdsInit
  <2>2. TypeOK /\ HasWork
    BY <2>1, ConstantsAssumption, IdleIsJob DEF Init, TypeOK, HasWork, Busy, Image, Tree
  <2>3. Fresh!Init
    BY <2>1 DEF Init, Fresh!Init, Image, Fresh!Image, Idle, Fresh!Idle
  <2> QED
    BY <2>1, <2>2, <2>3 DEF Init, IdsInv
<1>2. IdsInv /\ [IdsNext]_ids => IdsInv' /\ [Fresh!Next]_(Fresh!vars)
  BY IdsStep
<1> QED
  BY <1>1, <1>2, PTL DEF IdsSpec, Fresh!Spec

(* In one life of the engine the log therefore records append order ...    *)
THEOREM EngineOrder == ASSUME OneLife PROVE IdsSpec => []ReplayOrder
<1>1. Fresh!Spec => []Fresh!ReplayOrder
  BY Fresh!ReplayOrderCorrect, SegmentAssumption, ConstantsAssumption
<1>2. Fresh!ReplayOrder <=> ReplayOrder
  BY DEF Fresh!ReplayOrder, ReplayOrder
<1> QED
  BY <1>1, <1>2, EngineIdsFresh, PTL

(* ... and with flush_on_write an acknowledged atom is what get_by_ids     *)
(* finds.                                                                  *)
THEOREM EngineReadable ==
  ASSUME OneLife, FlushOnWrite PROVE IdsSpec => []AckedReadable
<1>1. Fresh!Spec => []Fresh!AckedReadable
  BY Fresh!AckedReadableCorrect, SegmentAssumption, ConstantsAssumption
<1>2. Fresh!AckedReadable <=> AckedReadable
  BY DEF Fresh!AckedReadable, AckedReadable, Fresh!Listed, Listed, Fresh!GetById, GetById
<1> QED
  BY <1>1, <1>2, EngineIdsFresh, PTL
=============================================================================
