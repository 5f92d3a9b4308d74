-------------------------- MODULE SledStore_proofs --------------------------
(***************************************************************************)
(* Theorems about SledStore, for every number of worlds, ids, threads and  *)
(* every value of the bounds.                                              *)
(***************************************************************************)
EXTENDS SledStore, SequenceTheorems, TLAPS

Busy == {"body", "frame", "index"}

LEMMA IdleIsJob == Idle \in Job /\ Idle.pc = "idle"
  BY ConstantsAssumption DEF Idle, Job

(* A batch that BeginAppend takes is a sequence of atoms.                  *)
LEMMA BatchIsSeq ==
  ASSUME NEW batch \in Batches
  PROVE  batch \in Seq(Atom)
<1>1. PICK n \in 1 .. MaxBatch : batch \in [1 .. n -> Atom]
  BY ConstantsAssumption DEF Batches
<1> QED
  BY <1>1, ConstantsAssumption

(* The head of a non-empty sequence and what is left after it.             *)
LEMMA SeqTail ==
  ASSUME NEW S, NEW s \in Seq(S), s # << >>
  PROVE  /\ Head(s) \in S /\ 1 \in DOMAIN s /\ Head(s) = s[1]
         /\ Tail(s) \in Seq(S)
         /\ Len(s) # 1 => Tail(s) # << >>
         /\ \A k \in DOMAIN Tail(s) :
              k \in Nat /\ k >= 1 /\ k + 1 \in DOMAIN s /\ Tail(s)[k] = s[k + 1]
<1>1. Len(s) \in Nat /\ Len(s) # 0 /\ DOMAIN s = 1 .. Len(s)
  BY EmptySeq, LenProperties
<1>2. Head(s) \in S /\ Tail(s) \in Seq(S) /\ Len(Tail(s)) = Len(s) - 1
      /\ \A i \in 1 .. Len(Tail(s)) : Tail(s)[i] = s[i + 1]
  BY HeadTailProperties
<1>3. DOMAIN Tail(s) = 1 .. Len(Tail(s))
  BY <1>2, LenProperties
<1>4. Len(s) # 1 => Tail(s) # << >>
  <2>1. Len(Tail(s)) # 0 => Tail(s) # << >>
    BY EmptySeq
  <2> QED
    BY <1>1, <1>2, <2>1
<1>5. Head(s) = s[1]
  BY <1>1
<1> QED
  BY <1>1, <1>2, <1>3, <1>4, <1>5

-----------------------------------------------------------------------------
(* The type invariant needs one more fact to be inductive: a thread in the *)
(* loop of append_atoms has an atom to work on.                            *)
HasWork == \A t \in Thread : job[t].pc \in Busy => job[t].batch # << >>

(* A step of one thread: its job is replaced by another.                   *)
LEMMA JobReplaced ==
  ASSUME job \in [Thread -> Job], HasWork, NEW t \in Thread, NEW j \in Job,
         j.pc \in Busy => j.batch # << >>, job' = [job EXCEPT ![t] = j]
  PROVE  job' \in [Thread -> Job] /\ HasWork'
<1>1. job' \in [Thread -> Job]
  OBVIOUS
<1>2. job'[t] = j /\ \A u \in Thread : u # t => job'[u] = job[u]
  OBVIOUS
<1> QED
  BY <1>1, <1>2 DEF HasWork

LEMMA TypeStep == TypeOK /\ HasWork /\ [Next]_vars => TypeOK' /\ HasWork'
<1> SUFFICES ASSUME TypeOK, HasWork, [Next]_vars PROVE TypeOK' /\ HasWork'
  OBVIOUS
<1> USE DEF TypeOK, HasWork, Busy, tree, opens, hist, faults
<1>0. job \in [Thread -> Job] /\ HasWork
  OBVIOUS
<1>1. ASSUME NEW t \in Thread, NEW w \in World, NEW batch \in Batches,
             BeginAppend(t, w, batch)
      PROVE  TypeOK' /\ HasWork'
  <2>1. batch \in Seq(Atom) /\ batch # << >>
    BY <1>1, BatchIsSeq DEF BeginAppend
  <2>2. \A k \in DOMAIN batch : batch[k] \in Atom /\ batch[k].id \in Id
    <3>1. \A k \in DOMAIN batch : batch[k] \in Atom
      BY <2>1, ElementOfSeq, LenProperties
    <3> QED
      BY <3>1 DEF Atom
  <2>3. job' \in [Thread -> Job] /\ HasWork'
    BY <1>1, <2>1, <2>2, ConstantsAssumption DEF BeginAppend, Job
  <2>4. before' \in [Id -> SUBSET Id]
    BY <1>1 DEF BeginAppend, Atom
  <2>5. sent' \in SUBSET Atom
    BY <1>1, <2>2 DEF BeginAppend
  <2> QED
    BY <1>1, <2>3, <2>4, <2>5 DEF BeginAppend
<1>2. ASSUME NEW t \in Thread, Refuse(t) PROVE TypeOK' /\ HasWork'
  BY <1>2, IdleIsJob DEF Refuse
<1>3. ASSUME NEW t \in Thread, job[t].pc \in Busy
      PROVE  /\ Head(job[t].batch) \in Atom /\ Tail(job[t].batch) \in Seq(Atom)
             /\ Len(job[t].batch) # 1 => Tail(job[t].batch) # << >>
             /\ job[t] \in Job
  BY <1>3, SeqTail DEF Job
<1>4. ASSUME NEW t \in Thread, WriteBody(t) PROVE TypeOK' /\ HasWork'
  <2> DEFINE j == [job[t] EXCEPT !.pc = "frame"]
  <2>1. job[t].pc \in Busy /\ job' = [job EXCEPT ![t] = j]
    BY <1>4 DEF WriteBody
  <2>2. j \in Job /\ j.batch # << >>
    BY <2>1 DEF Job
  <2>3. job' \in [Thread -> Job] /\ HasWork'
    BY ONLY <1>0, <2>1, <2>2, JobReplaced
  <2>4. atoms' \in SUBSET Atom
    BY <1>4, <1>3, <2>1 DEF WriteBody, PutAtom
  <2> QED
    BY <1>4, <2>3, <2>4 DEF WriteBody
<1>5. ASSUME NEW t \in Thread, WriteFrame(t) PROVE TypeOK' /\ HasWork'
  <2>1. [world |-> job[t].world, seq |-> job[t].seq, id |-> Head(job[t].batch).id,
         sum |-> Head(job[t].batch).bytes] \in Frame
    BY <1>5, <1>3 DEF WriteFrame, Job, Atom, Frame
  <2>2. log' \in SUBSET Frame
    BY <1>5, <2>1 DEF WriteFrame, PutFrame
  <2> DEFINE j == [job[t] EXCEPT !.pc = "index"]
  <2>4. job[t].pc \in Busy /\ job' = [job EXCEPT ![t] = j]
    BY <1>5 DEF WriteFrame
  <2>5. j \in Job /\ j.batch # << >>
    BY <2>4 DEF Job
  <2>3. job' \in [Thread -> Job] /\ HasWork'
    BY ONLY <1>0, <2>4, <2>5, JobReplaced
  <2> QED
    BY <1>5, <2>2, <2>3 DEF WriteFrame
<1>6. ASSUME NEW t \in Thread, WriteIndex(t) PROVE TypeOK' /\ HasWork'
  <2>1. index' \in SUBSET Entry
    BY <1>6, <1>3 DEF WriteIndex, PutEntry, Entry, Job, Atom
  <2> DEFINE a == Head(job[t].batch)
             p == IF Len(job[t].batch) = 1 THEN "flush" ELSE "body"
             j == [job[t] EXCEPT !.pc = p, !.batch = Tail(job[t].batch),
                                 !.seq = job[t].seq + 1, !.done = job[t].done \cup {a}]
  <2>3. job[t].pc \in Busy
    BY <1>6 DEF WriteIndex
  <2>4. job' = [job EXCEPT ![t] = j]
    BY <1>6, Zenon DEF WriteIndex
  <2>5. p = "body" => Tail(job[t].batch) # << >>
    BY <2>3, <1>3
  <2>6. job[t].seq + 1 \in Nat
    BY DEF Job
  <2>7. job[t].done \cup {a} \in SUBSET Atom
    BY <2>3, <1>3 DEF Job
  <2>8. j \in Job /\ (j.pc \in Busy => j.batch # << >>)
    BY <2>3, <2>5, <2>6, <2>7, <1>3 DEF Job
  <2>2. job' \in [Thread -> Job] /\ HasWork'
    BY ONLY <1>0, <2>4, <2>8, JobReplaced
  <2> QED
    BY <1>6, <2>1, <2>2 DEF WriteIndex
<1>7. ASSUME NEW t \in Thread, FinishAppend(t) PROVE TypeOK' /\ HasWork'
  BY <1>7, IdleIsJob DEF FinishAppend, Image, Tree, Job
<1>8. ASSUME NEW t \in Thread, NEW w \in World, NEW ids \in SUBSET Deletable,
             BeginDelete(t, w, ids)
      PROVE  TypeOK' /\ HasWork'
  <2>1. [Idle EXCEPT !.pc = "strip", !.world = w, !.ids = ids, !.rest = ids] \in Job
    BY IdleIsJob, ConstantsAssumption DEF Job
  <2>2. job' \in [Thread -> Job] /\ HasWork'
    BY <1>8, <2>1, IdleIsJob DEF BeginDelete, Job
  <2>3. dropped' \in SUBSET (World \X Id)
    BY <1>8, ConstantsAssumption DEF BeginDelete
  <2> QED
    BY <1>8, <2>2, <2>3 DEF BeginDelete
<1>9. ASSUME NEW t \in Thread, NEW i \in Id, StripAtom(t, i) PROVE TypeOK' /\ HasWork'
  <2>1. PICK p \in {"unlog", "strip"} :
             job' = [job EXCEPT ![t].rest = job[t].rest \ {i}, ![t].pc = p]
    BY <1>9 DEF StripAtom
  <2> DEFINE j == [job[t] EXCEPT !.rest = job[t].rest \ {i}, !.pc = p]
  <2>2. job' = [job EXCEPT ![t] = j]
    BY <2>1, Zenon
  <2>3. j \in Job /\ j.pc \notin Busy
    BY DEF Job
  <2>4. job' \in [Thread -> Job] /\ HasWork'
    BY ONLY <1>0, <2>2, <2>3, JobReplaced
  <2> QED
    BY <1>9, <2>4 DEF StripAtom
<1>10. ASSUME NEW t \in Thread, RemoveFrame(t) PROVE TypeOK' /\ HasWork'
  <2>1. PICK f \in log : /\ log' = log \ {f}
                         /\ job' = [job EXCEPT ![t].seq = f.seq + 1]
    BY <1>10 DEF RemoveFrame, Unlogged, Frames
  <2> DEFINE j == [job[t] EXCEPT !.seq = f.seq + 1]
  <2>2. job' = [job EXCEPT ![t] = j]
    BY <2>1, Zenon
  <2>3. f.seq + 1 \in Nat
    BY DEF Frame
  <2>4. j \in Job /\ j.pc \notin Busy
    <3>1. job[t] \in Job /\ job[t].pc = "unlog"
      BY <1>10 DEF RemoveFrame
    <3>2. j \in Job /\ j.pc = job[t].pc
      BY ONLY <2>3, <3>1 DEF Job
    <3> QED
      BY <3>1, <3>2
  <2>5. job' \in [Thread -> Job] /\ HasWork'
    BY ONLY <1>0, <2>2, <2>4, JobReplaced
  <2> QED
    BY <1>10, <2>1, <2>5 DEF RemoveFrame
<1>11. ASSUME NEW t \in Thread, FinishDelete(t) PROVE TypeOK' /\ HasWork'
  BY <1>11, IdleIsJob DEF FinishDelete
<1>12. CASE Persist
  BY <1>12 DEF Persist, Image, Tree
<1>13. CASE Crash
  BY <1>13, IdleIsJob, ConstantsAssumption DEF Crash, Tree
<1>14. ASSUME NEW f \in log, Damage(f) PROVE TypeOK' /\ HasWork'
  <2>1. [f EXCEPT !.id = Garbled] \in Frame
    BY DEF Frame
  <2>2. log' \in SUBSET Frame
    BY <1>14, <2>1 DEF Damage, PutFrame
  <2> QED
    BY <1>14, <2>2, ConstantsAssumption DEF Damage, Tree
<1>15. CASE Open
  <2>1. StoredWorlds \subseteq {Segment[w] : w \in World}
    BY DEF StoredWorlds, Atom, Frame
  <2> QED
    BY <1>15, <2>1 DEF Open
<1>16. ASSUME NEW w \in pending, RepairWorld(w) PROVE TypeOK' /\ HasWork'
  BY <1>16 DEF RepairWorld, Frames
<1>17. CASE Truncate
  BY <1>17 DEF Truncate
<1>18. CASE RebuildIndex
  <2>1. index' \in SUBSET Entry
    BY <1>18 DEF RebuildIndex, Frame, Entry
  <2> QED
    BY <1>18, <2>1 DEF RebuildIndex
<1>19. CASE UNCHANGED vars
  BY <1>19 DEF vars
<1> QED
  BY <1>1, <1>2, <1>4, <1>5, <1>6, <1>7, <1>8, <1>9, <1>10, <1>11, <1>12, <1>13,
     <1>14, <1>15, <1>16, <1>17, <1>18, <1>19 DEF Next, Step, Recover

LEMMA Typing == Spec => [](TypeOK /\ HasWork)
<1>1. Init => TypeOK /\ HasWork
  BY ConstantsAssumption, IdleIsJob DEF Init, TypeOK, HasWork, Busy, Image, Tree
<1> QED
  BY <1>1, TypeStep, PTL DEF Spec

(* Every variable keeps its type, whatever threads, crashes and damage do. *)
THEOREM TypeCorrect == Spec => []TypeOK
  BY Typing, PTL

-----------------------------------------------------------------------------
(* Repair.  While open is at work no thread is, and an invalid frame of a  *)
(* listed world is in a world still to be scanned or already doomed.       *)
RepairInv ==
  /\ phase # "up" => \A t \in Thread : job[t].pc = "idle"
  /\ phase = "repair" =>
       \A f \in log : Listed(f.world) /\ f.world \notin pending => Valid(f) \/ f \in doomed

LEMMA RepairStep == TypeOK /\ RepairInv /\ [Next]_vars => RepairInv'
<1> SUFFICES ASSUME TypeOK, RepairInv, [Next]_vars PROVE RepairInv'
  OBVIOUS
<1> USE DEF tree, opens, hist, faults
<1>1. ASSUME NEW t \in Thread, Step(t) PROVE RepairInv'
  <2>1. phase = "up" /\ phase' = "up"
    BY <1>1 DEF RepairInv, Step, BeginAppend, Refuse, WriteBody, WriteFrame, WriteIndex,
         FinishAppend, BeginDelete, StripAtom, RemoveFrame, FinishDelete
  <2> QED
    BY <2>1 DEF RepairInv
<1>2. CASE Persist
  BY <1>2 DEF Persist, RepairInv, Listed, Valid
<1>3. CASE Crash
  BY <1>3, IdleIsJob DEF Crash, RepairInv
<1>4. ASSUME NEW f \in log, Damage(f) PROVE RepairInv'
  BY <1>4 DEF Damage, RepairInv
<1>5. CASE Open
  <2>1. \A f \in log : Listed(f.world) => f.world \in StoredWorlds
    BY DEF Listed, StoredWorlds
  <2> QED
    BY <1>5, <2>1 DEF Open, RepairInv
<1>6. ASSUME NEW w \in pending, RepairWorld(w) PROVE RepairInv'
  <2>1. phase = "repair" /\ phase' = "repair" /\ doomed = {} /\ log' = log /\ atoms' = atoms
        /\ job' = job /\ pending' = pending \ {w}
    BY <1>6 DEF RepairWorld
  <2>2. ASSUME NEW f \in log, Listed(f.world), f.world \notin pending'
        PROVE  Valid(f) \/ f \in doomed'
    <3>1. CASE f.world = w
      <4>1. f \in Frames(w) /\ f.seq <= f.seq
        BY <3>1 DEF Frames, TypeOK, Frame
      <4> QED
        BY <1>6, <4>1 DEF RepairWorld
    <3>2. CASE f.world # w
      BY <2>1, <2>2, <3>2 DEF RepairInv
    <3> QED
      BY <3>1, <3>2
  <2>3. \A f \in log : Valid(f)' <=> Valid(f)
    BY <2>1 DEF Valid
  <2> QED
    BY <2>1, <2>2, <2>3 DEF RepairInv, Listed
<1>7. CASE Truncate
  BY <1>7 DEF Truncate, RepairInv, Listed, Valid
<1>8. CASE RebuildIndex
  BY <1>8 DEF RebuildIndex, RepairInv
<1>9. CASE UNCHANGED vars
  BY <1>9 DEF vars, RepairInv, Listed, Valid
<1> QED
  BY <1>1, <1>2, <1>3, <1>4, <1>5, <1>6, <1>7, <1>8, <1>9 DEF Next, Recover

(* When open has repaired the logs, every frame of a listed world decodes  *)
(* and its atom is there unchanged, however damaged the tree was and       *)
(* however many earlier opens were interrupted.                            *)
THEOREM RepairCorrect == Spec => []Repaired
<1>1. Init => RepairInv
  BY DEF Init, RepairInv
<1>2. RepairInv => Repaired
  BY DEF RepairInv, Repaired
<1> QED
  BY <1>1, <1>2, RepairStep, Typing, PTL DEF Spec

-----------------------------------------------------------------------------
(* Fresh ids.  When no id is handed to append twice, an id stands for one  *)
(* atom for ever, and every copy of an atom is the one that was sent.      *)
OneAtomPerId == \A a, b \in sent : a.id = b.id => a = b

Sources ==
  /\ atoms \subseteq sent /\ disk.atoms \subseteq sent /\ acked \subseteq sent
  /\ \A t \in Thread :
       /\ job[t].done \subseteq sent
       /\ \A k \in DOMAIN job[t].batch : job[t].batch[k] \in sent
       /\ job[t].pc \in {"frame", "index"} => Head(job[t].batch).world = job[t].world

SentInv == OneAtomPerId /\ Sources

LEMMA NoBatchWhenIdle == Idle.batch = << >> /\ Idle.done = {} /\ Idle.rest = {} /\ DOMAIN << >> = {}
  BY DEF Idle

LEMMA SentStep ==
  ASSUME FreshIds PROVE TypeOK /\ HasWork /\ SentInv /\ [Next]_vars => SentInv'
<1> SUFFICES ASSUME TypeOK, HasWork, SentInv, [Next]_vars PROVE SentInv'
  OBVIOUS
<1> USE DEF tree, opens, hist, faults, SentInv
<1>1. ASSUME NEW t \in Thread, NEW w \in World, NEW batch \in Batches,
             BeginAppend(t, w, batch)
      PROVE  SentInv'
  <2>1. sent' = sent \cup {batch[k] : k \in DOMAIN batch}
    BY <1>1 DEF BeginAppend
  <2>2. \A k \in DOMAIN batch : \A a \in sent : a.id # batch[k].id
    BY <1>1 DEF BeginAppend
  <2>3. \A k, l \in DOMAIN batch : batch[k].id = batch[l].id => k = l
    BY <1>1 DEF BeginAppend
  <2>4. OneAtomPerId'
    BY <2>1, <2>2, <2>3 DEF OneAtomPerId
  <2>5. \A u \in Thread : u # t => job'[u] = job[u]
    BY <1>1 DEF BeginAppend, TypeOK
  <2>6. job'[t].batch = batch /\ job'[t].done = {} /\ job'[t].pc = "body"
    BY <1>1 DEF BeginAppend, TypeOK
  <2>7. atoms' = atoms /\ disk' = disk /\ acked' = acked
    BY <1>1 DEF BeginAppend
  <2> QED
    BY <2>1, <2>4, <2>5, <2>6, <2>7 DEF Sources
<1>2. ASSUME NEW t \in Thread, Refuse(t) PROVE SentInv'
  BY <1>2, IdleIsJob, NoBatchWhenIdle DEF Refuse, TypeOK, OneAtomPerId, Sources
<1>3. ASSUME NEW t \in Thread, job[t].pc \in Busy
      PROVE  /\ Head(job[t].batch) \in sent
             /\ \A k \in DOMAIN Tail(job[t].batch) : Tail(job[t].batch)[k] \in sent
  <2>1. job[t].batch \in Seq(Atom) /\ job[t].batch # << >>
    BY <1>3 DEF TypeOK, HasWork, Job
  <2> QED
    BY <2>1, SeqTail DEF Sources
<1>4. ASSUME NEW t \in Thread, WriteBody(t) PROVE SentInv'
  <2>1. atoms' \subseteq sent
    BY <1>4, <1>3 DEF WriteBody, PutAtom, Busy, Sources
  <2>2. \A u \in Thread : /\ job'[u].batch = job[u].batch /\ job'[u].done = job[u].done
                          /\ job'[u].world = job[u].world
                          /\ u # t => job'[u].pc = job[u].pc
    BY <1>4 DEF WriteBody, TypeOK, Job
  <2> QED
    BY <1>4, <2>1, <2>2 DEF WriteBody, OneAtomPerId, Sources
<1>5. ASSUME NEW t \in Thread, WriteFrame(t) PROVE SentInv'
  <2>2. \A u \in Thread : /\ job'[u].batch = job[u].batch /\ job'[u].done = job[u].done
                          /\ job'[u].world = job[u].world
                          /\ u # t => job'[u].pc = job[u].pc
    BY <1>5 DEF WriteFrame, TypeOK, Job
  <2> QED
    BY <1>5, <2>2 DEF WriteFrame, OneAtomPerId, Sources
<1>6. ASSUME NEW t \in Thread, WriteIndex(t) PROVE SentInv'
  <2>1. \A u \in Thread : u # t => job'[u] = job[u]
    BY <1>6 DEF WriteIndex, TypeOK
  <2>2. /\ job'[t].batch = Tail(job[t].batch)
        /\ job'[t].done = job[t].done \cup {Head(job[t].batch)}
        /\ job'[t].pc \in {"flush", "body"}
    BY <1>6 DEF WriteIndex, TypeOK, Job
  <2>3. Head(job[t].batch) \in sent
        /\ \A k \in DOMAIN Tail(job[t].batch) : Tail(job[t].batch)[k] \in sent
    BY <1>6, <1>3 DEF WriteIndex, Busy
  <2>4. UNCHANGED <<atoms, disk, acked, sent>>
    BY <1>6 DEF WriteIndex
  <2>5. Sources'
    BY <2>1, <2>2, <2>3, <2>4 DEF Sources
  <2> QED
    BY <2>4, <2>5 DEF OneAtomPerId
<1>7. ASSUME NEW t \in Thread, FinishAppend(t) PROVE SentInv'
  <2>1. disk'.atoms \subseteq sent /\ acked' \subseteq sent
    BY <1>7 DEF FinishAppend, Sources, Image
  <2> QED
    BY <1>7, <2>1, IdleIsJob, NoBatchWhenIdle DEF FinishAppend, TypeOK, OneAtomPerId, Sources
<1>8. ASSUME NEW t \in Thread, NEW w \in World, NEW ids \in SUBSET Deletable,
             BeginDelete(t, w, ids)
      PROVE  SentInv'
  <2>1. job'[t].batch = << >> /\ job'[t].done = {} /\ job'[t].pc = "strip"
    BY <1>8 DEF BeginDelete, TypeOK, Idle
  <2> QED
    BY <1>8, <2>1, NoBatchWhenIdle DEF BeginDelete, TypeOK, OneAtomPerId, Sources
<1>9. ASSUME NEW t \in Thread, NEW i \in Id, StripAtom(t, i) PROVE SentInv'
  <2>1. PICK p \in {"unlog", "strip"} :
             job' = [job EXCEPT ![t].rest = job[t].rest \ {i}, ![t].pc = p]
    BY <1>9 DEF StripAtom
  <2>2. \A u \in Thread : /\ job'[u].batch = job[u].batch /\ job'[u].done = job[u].done
                          /\ job'[u].world = job[u].world
                          /\ u # t => job'[u].pc = job[u].pc
                          /\ job'[t].pc \notin {"frame", "index"}
    BY <2>1 DEF TypeOK, Job
  <2>3. atoms' \subseteq atoms /\ UNCHANGED <<disk, acked, sent>>
    BY <1>9 DEF StripAtom
  <2>4. Sources'
    BY <2>2, <2>3 DEF Sources
  <2> QED
    BY <2>3, <2>4 DEF OneAtomPerId
<1>10. ASSUME NEW t \in Thread, RemoveFrame(t) PROVE SentInv'
  <2>1. \A u \in Thread : /\ job'[u].batch = job[u].batch /\ job'[u].done = job[u].done
                          /\ job'[u].world = job[u].world /\ job'[u].pc = job[u].pc
    BY <1>10 DEF RemoveFrame, TypeOK, Job
  <2> QED
    BY <1>10, <2>1 DEF RemoveFrame, OneAtomPerId, Sources
<1>11. ASSUME NEW t \in Thread, FinishDelete(t) PROVE SentInv'
  BY <1>11, IdleIsJob, NoBatchWhenIdle DEF FinishDelete, TypeOK, OneAtomPerId, Sources
<1>12. CASE Persist
  BY <1>12 DEF Persist, Image, OneAtomPerId, Sources
<1>13. CASE Crash
  BY <1>13, IdleIsJob, NoBatchWhenIdle DEF Crash, OneAtomPerId, Sources
<1>14. ASSUME NEW f \in log, Damage(f) PROVE SentInv'
  <2>1. disk'.atoms = disk.atoms
    BY <1>14 DEF Damage, TypeOK, Tree
  <2> QED
    BY <1>14, <2>1 DEF Damage, OneAtomPerId, Sources
<1>15. CASE Recover
  BY <1>15 DEF Recover, Open, RepairWorld, Truncate, RebuildIndex, OneAtomPerId, Sources
<1>16. CASE UNCHANGED vars
  BY <1>16 DEF vars, OneAtomPerId, Sources
<1> QED
  BY <1>1, <1>2, <1>4, <1>5, <1>6, <1>7, <1>8, <1>9, <1>10, <1>11, <1>12, <1>13,
     <1>14, <1>15, <1>16 DEF Next, Step

-----------------------------------------------------------------------------
(* Bodies.  What was written stays, unless it was handed to delete_atoms.  *)
Stored(a) == <<a.world, a.id>> \in dropped \/ a \in atoms
OnDisk(a) == <<a.world, a.id>> \in dropped \/ a \in disk.atoms

StripsDropped ==
  \A t \in Thread : job[t].pc = "strip" => \A i \in job[t].rest : <<job[t].world, i>> \in dropped

JobStored(t) ==
  /\ \A a \in job[t].done : Stored(a)
  /\ job[t].pc \in {"frame", "index"} => Stored(Head(job[t].batch))

BodyInv ==
  /\ FlushOnWrite => \A a \in acked : Stored(a) /\ OnDisk(a)
  /\ \A t \in Thread : JobStored(t)

(* A step of one thread leaves the jobs of the others alone.               *)
LEMMA OthersKeep ==
  ASSUME TypeOK, NEW t \in Thread, NEW u \in Thread, Step(t), u # t
  PROVE  job'[u] = job[u]
  BY DEF Step, BeginAppend, Refuse, WriteBody, WriteFrame, WriteIndex,
       FinishAppend, BeginDelete, StripAtom, RemoveFrame, FinishDelete, TypeOK

LEMMA StripsStep == TypeOK /\ StripsDropped /\ [Next]_vars => StripsDropped'
<1> SUFFICES ASSUME TypeOK, StripsDropped, [Next]_vars PROVE StripsDropped'
  OBVIOUS
<1> USE DEF tree, opens, hist, faults
<1>2. ASSUME NEW t \in Thread, Step(t) PROVE dropped \subseteq dropped'
  BY <1>2 DEF Step, BeginAppend, Refuse, WriteBody, WriteFrame, WriteIndex,
       FinishAppend, BeginDelete, StripAtom, RemoveFrame, FinishDelete
<1>3. ASSUME NEW t \in Thread, Step(t), job'[t].pc = "strip", NEW i \in job'[t].rest
      PROVE  <<job'[t].world, i>> \in dropped'
  <2>1. ASSUME NEW w \in World, NEW ids \in SUBSET Deletable, BeginDelete(t, w, ids)
        PROVE  <<job'[t].world, i>> \in dropped'
    <3>1. job'[t].world = w /\ job'[t].rest = ids
      BY <2>1, IdleIsJob DEF BeginDelete, TypeOK, Job
    <3> QED
      BY <2>1, <3>1, <1>3 DEF BeginDelete
  <2>2. ASSUME NEW j \in Id, StripAtom(t, j) PROVE <<job'[t].world, i>> \in dropped'
    <3>1. PICK p \in {"unlog", "strip"} :
               job' = [job EXCEPT ![t].rest = job[t].rest \ {j}, ![t].pc = p]
      BY <2>2 DEF StripAtom
    <3>2. job'[t].world = job[t].world /\ job'[t].rest \subseteq job[t].rest
      BY <3>1 DEF TypeOK, Job
    <3>3. i \in job[t].rest /\ job[t].pc = "strip" /\ dropped' = dropped
      BY <2>2, <3>2, <1>3 DEF StripAtom
    <3>4. <<job[t].world, i>> \in dropped
      BY <3>3 DEF StripsDropped
    <3> QED
      BY <3>2, <3>3, <3>4
  <2>3. ASSUME NEW w \in World, NEW batch \in Batches, BeginAppend(t, w, batch) PROVE FALSE
    BY <2>3, <1>3 DEF BeginAppend, TypeOK
  <2>4. CASE Refuse(t) \/ FinishAppend(t) \/ FinishDelete(t)
    BY <2>4, <1>3, IdleIsJob DEF Refuse, FinishAppend, FinishDelete, TypeOK
  <2>5. CASE WriteBody(t)
    BY <2>5, <1>3 DEF WriteBody, TypeOK, Job
  <2>6. CASE WriteFrame(t)
    BY <2>6, <1>3 DEF WriteFrame, TypeOK, Job
  <2>7. CASE WriteIndex(t)
    BY <2>7, <1>3 DEF WriteIndex, TypeOK, Job
  <2>8. CASE RemoveFrame(t)
    BY <2>8, <1>3 DEF RemoveFrame, TypeOK, Job
  <2> QED
    BY <1>3, <2>1, <2>2, <2>3, <2>4, <2>5, <2>6, <2>7, <2>8 DEF Step
<1>4. ASSUME NEW t \in Thread, Step(t) PROVE StripsDropped'
  BY <1>2, <1>3, <1>4, OthersKeep DEF StripsDropped
<1>5. CASE Crash
  BY <1>5, IdleIsJob DEF Crash, StripsDropped
<1>6. CASE Persist \/ (\E f \in log : Damage(f)) \/ Recover \/ UNCHANGED vars
  BY <1>6 DEF Persist, Damage, Recover, Open, RepairWorld, Truncate, RebuildIndex, vars, StripsDropped
<1> QED
  BY <1>4, <1>5, <1>6 DEF Next

(* No step but a crash undoes what is stored.                              *)
LEMMA StoredStays ==
  ASSUME FreshIds, TypeOK, HasWork, SentInv, StripsDropped, [Next]_vars, ~Crash
  PROVE  /\ \A a \in sent : Stored(a) => Stored(a)'
         /\ \A a \in sent : OnDisk(a) /\ Stored(a) => OnDisk(a)'
<1> USE DEF tree, opens, hist, faults, Stored, OnDisk
<1>1. ASSUME NEW t \in Thread, WriteBody(t)
      PROVE  atoms \subseteq atoms' /\ UNCHANGED <<disk, dropped>>
  <2>1. Head(job[t].batch) \in sent
    <3>1. job[t].batch \in Seq(Atom) /\ job[t].batch # << >>
      BY <1>1 DEF WriteBody, Busy, TypeOK, HasWork, Job
    <3> QED
      BY <3>1, SeqTail DEF SentInv, Sources
  <2>2. \A b \in atoms : b.id = Head(job[t].batch).id => b = Head(job[t].batch)
    BY <2>1 DEF SentInv, Sources, OneAtomPerId
  <2> QED
    BY <1>1, <2>2 DEF WriteBody, PutAtom
<1>2. ASSUME NEW t \in Thread, NEW i \in Id, StripAtom(t, i)
      PROVE  /\ \A a \in atoms : a \in atoms' \/ <<a.world, a.id>> \in dropped
             /\ UNCHANGED <<disk, dropped>>
  BY <1>2 DEF StripAtom, StripsDropped
<1>3. ASSUME NEW t \in Thread, FinishAppend(t)
      PROVE  UNCHANGED <<atoms, dropped>> /\ (disk' = disk \/ disk'.atoms = atoms)
  BY <1>3 DEF FinishAppend, Image
<1>4. ASSUME NEW t \in Thread, NEW w \in World, NEW ids \in SUBSET Deletable,
             BeginDelete(t, w, ids)
      PROVE  UNCHANGED <<atoms, disk>> /\ dropped \subseteq dropped'
  BY <1>4 DEF BeginDelete
<1>5. CASE \E t \in Thread :
             \/ \E w \in World, batch \in Batches : BeginAppend(t, w, batch)
             \/ Refuse(t) \/ WriteFrame(t) \/ WriteIndex(t) \/ RemoveFrame(t) \/ FinishDelete(t)
  BY <1>5 DEF BeginAppend, Refuse, WriteFrame, WriteIndex, RemoveFrame, FinishDelete
<1>6. CASE Persist
  BY <1>6 DEF Persist, Image
<1>7. ASSUME NEW f \in log, Damage(f)
      PROVE  UNCHANGED <<atoms, dropped>> /\ disk'.atoms = disk.atoms
  BY <1>7 DEF Damage, TypeOK, Tree
<1>8. CASE Recover \/ UNCHANGED vars
  BY <1>8 DEF Recover, Open, RepairWorld, Truncate, RebuildIndex, vars
<1> QED
  BY <1>1, <1>2, <1>3, <1>4, <1>5, <1>6, <1>7, <1>8 DEF Next, Step

(* What a step of append_atoms or delete_atoms makes of its own job.       *)
LEMMA OwnJob ==
  ASSUME TypeOK, NEW t \in Thread, Step(t)
  PROVE  \/ job'[t].done = {} /\ job'[t].pc \notin {"frame", "index"}
         \/ /\ WriteBody(t) \/ WriteFrame(t)
            /\ job'[t].done = job[t].done /\ job'[t].batch = job[t].batch
         \/ /\ WriteIndex(t) /\ job'[t].pc \notin {"frame", "index"}
            /\ job'[t].done = job[t].done \cup {Head(job[t].batch)}
         \/ job'[t].done = job[t].done /\ job'[t].pc \notin {"frame", "index"}
<1>1. ASSUME NEW w \in World, NEW batch \in Batches, BeginAppend(t, w, batch)
      PROVE  job'[t].done = {} /\ job'[t].pc \notin {"frame", "index"}
  BY <1>1 DEF BeginAppend, TypeOK
<1>2. CASE Refuse(t) \/ FinishAppend(t) \/ FinishDelete(t)
  BY <1>2, IdleIsJob, NoBatchWhenIdle DEF Refuse, FinishAppend, FinishDelete, TypeOK
<1>3. CASE WriteBody(t) \/ WriteFrame(t)
  BY <1>3 DEF WriteBody, WriteFrame, TypeOK, Job
<1>4. CASE WriteIndex(t)
  BY <1>4 DEF WriteIndex, TypeOK, Job
<1>5. ASSUME NEW w \in World, NEW ids \in SUBSET Deletable, BeginDelete(t, w, ids)
      PROVE  job'[t].done = {} /\ job'[t].pc \notin {"frame", "index"}
  BY <1>5, IdleIsJob, NoBatchWhenIdle DEF BeginDelete, TypeOK, Job
<1>6. ASSUME NEW i \in Id, StripAtom(t, i)
      PROVE  job'[t].done = job[t].done /\ job'[t].pc \notin {"frame", "index"}
  <2>1. PICK p \in {"unlog", "strip"} :
             job' = [job EXCEPT ![t].rest = job[t].rest \ {i}, ![t].pc = p]
    BY <1>6 DEF StripAtom
  <2> QED
    BY <2>1 DEF TypeOK, Job
<1>7. CASE RemoveFrame(t)
  BY <1>7 DEF RemoveFrame, TypeOK, Job
<1> QED
  BY <1>1, <1>2, <1>3, <1>4, <1>5, <1>6, <1>7 DEF Step

LEMMA BodyStep ==
  ASSUME FreshIds, TypeOK, HasWork, SentInv, StripsDropped, BodyInv, [Next]_vars
  PROVE  BodyInv'
<1> USE DEF tree, opens, hist, faults
<1>1. CASE Crash
  <2>1. \A a : OnDisk(a) => Stored(a)' /\ OnDisk(a)'
    BY <1>1 DEF Crash, OnDisk, Stored
  <2>2. \A t \in Thread : job'[t].done = {} /\ job'[t].pc = "idle"
    BY <1>1, IdleIsJob, NoBatchWhenIdle DEF Crash
  <2>3. acked' = acked
    BY <1>1 DEF Crash
  <2> QED
    BY <2>1, <2>2, <2>3 DEF BodyInv, JobStored
<1>2. CASE ~Crash
  <2>1. /\ \A a \in sent : Stored(a) => Stored(a)'
        /\ \A a \in sent : OnDisk(a) /\ Stored(a) => OnDisk(a)'
    BY <1>2, StoredStays
  <2>2. \A t \in Thread : /\ job[t].done \subseteq sent
                          /\ job[t].pc \in Busy => Head(job[t].batch) \in sent
    <3>1. ASSUME NEW t \in Thread, job[t].pc \in Busy PROVE Head(job[t].batch) \in sent
      <4>1. job[t].batch \in Seq(Atom) /\ job[t].batch # << >>
        BY <3>1 DEF TypeOK, HasWork, Job
      <4> QED
        BY <4>1, SeqTail DEF SentInv, Sources
    <3> QED
      BY <3>1 DEF SentInv, Sources
  <2>3. ASSUME FlushOnWrite, NEW a \in acked' PROVE Stored(a)' /\ OnDisk(a)'
    <3>1. CASE a \in acked
      BY <3>1, <2>3, <2>1 DEF BodyInv, SentInv, Sources
    <3>2. CASE a \notin acked
      <4>a. ASSUME NEW u \in Thread, Step(u)
            PROVE  acked' = acked \/ (FinishAppend(u) /\ acked' = acked \cup job[u].done)
        BY <4>a DEF Step, BeginAppend, Refuse, WriteBody, WriteFrame, WriteIndex,
             FinishAppend, BeginDelete, StripAtom, RemoveFrame, FinishDelete
      <4>b. ASSUME ~\E u \in Thread : Step(u) PROVE acked' = acked
        BY <1>2, <4>b DEF Next, Persist, Damage, Recover, Open, RepairWorld, Truncate,
             RebuildIndex, vars
      <4>1. PICK t \in Thread : FinishAppend(t) /\ a \in job[t].done
        BY <3>2, <2>3, <4>a, <4>b
      <4>2. Stored(a)'
        BY <4>1, <2>1, <2>2 DEF BodyInv, JobStored
      <4>3. disk'.atoms = atoms /\ atoms' = atoms
        BY <4>1, <2>3 DEF FinishAppend, Image
      <4> QED
        BY <4>2, <4>3 DEF Stored, OnDisk
    <3> QED
      BY <3>1, <3>2
  <2>4. ASSUME NEW t \in Thread PROVE JobStored(t)'
    <3>1. \A a \in job[t].done : Stored(a)'
      BY <2>1, <2>2 DEF BodyInv, JobStored
    <3>2. job[t].pc \in {"frame", "index"} => \A h : h = Head(job[t].batch) => Stored(h)'
      BY <2>1, <2>2 DEF BodyInv, JobStored, Busy
    <3>3. CASE job'[t] = job[t]
      BY <3>1, <3>2, <3>3 DEF JobStored, Stored
    <3>4. CASE Step(t)
      <4>1. WriteBody(t) => \A h : h = Head(job[t].batch) => Stored(h)'
        BY DEF WriteBody, PutAtom, Stored
      <4>2. WriteFrame(t) \/ WriteIndex(t) => job[t].pc \in {"frame", "index"}
        BY DEF WriteFrame, WriteIndex
      <4> QED
        BY <3>1, <3>2, <3>4, <4>1, <4>2, OwnJob DEF JobStored, Stored
    <3> QED
      <4>1. job'[t] = job[t] \/ Step(t)
        <5>1. \/ \E u \in Thread : Step(u)
              \/ job' = job
          BY <1>2 DEF Next, Persist, Damage, Recover, Open, RepairWorld, Truncate, RebuildIndex, vars
        <5> QED
          BY <5>1, OthersKeep
      <4> QED
        BY <3>3, <3>4, <4>1
  <2> QED
    BY <2>3, <2>4 DEF BodyInv
<1> QED
  BY <1>1, <1>2

FreshInv == TypeOK /\ HasWork /\ SentInv /\ StripsDropped /\ BodyInv

LEMMA FreshTyping == ASSUME FreshIds PROVE Spec => []FreshInv
<1>1. Init => FreshInv
  <2> SUFFICES ASSUME Init PROVE FreshInv
    OBVIOUS
  <2>1. TypeOK /\ HasWork
    BY ConstantsAssumption, IdleIsJob DEF Init, TypeOK, HasWork, Busy, Image, Tree
  <2> QED
    BY <2>1, IdleIsJob, NoBatchWhenIdle
    DEF Init, Image, FreshInv, SentInv, OneAtomPerId, Sources, StripsDropped, BodyInv, JobStored
<1>2. FreshInv /\ [Next]_vars => FreshInv'
  BY TypeStep, SentStep, StripsStep, BodyStep DEF FreshInv
<1> QED
  BY <1>1, <1>2, PTL DEF Spec

(* With fresh ids and flush_on_write, an acknowledged atom that was never  *)
(* handed to delete_atoms is what get_by_ids finds while the store is      *)
(* open, for any number of threads, crashes, deletes and damaged frames.   *)
THEOREM AckedReadableCorrect ==
  ASSUME FreshIds, FlushOnWrite PROVE Spec => []AckedReadable
<1>1. FreshInv => AckedReadable
  <2> SUFFICES ASSUME FreshInv, NEW a \in acked, Listed(a.world),
                      <<a.world, a.id>> \notin dropped
               PROVE  GetById(a.id) = {a}
    BY DEF AckedReadable
  <2>1. a \in atoms
    BY DEF FreshInv, BodyInv, Stored
  <2>2. \A b \in atoms : b.id = a.id => b = a
    BY <2>1 DEF FreshInv, SentInv, Sources, OneAtomPerId
  <2> QED
    BY <2>1, <2>2 DEF GetById
<1>2. Spec => []FreshInv
  BY FreshTyping
<1> QED
  BY <1>1, <1>2, PTL

-----------------------------------------------------------------------------
(* Frames.  In the tree and on disk, a frame has its atom; a closed store  *)
(* has nothing that is not on disk.                                        *)
Backed(f) == f.id # Garbled => <<f.world, f.id>> \in dropped \/ Valid(f)

BackedOnDisk(f) ==
  f.id # Garbled =>
    \/ <<f.world, f.id>> \in dropped
    \/ \E a \in disk.atoms : a.world = f.world /\ a.id = f.id /\ a.bytes = f.sum

FrameInv ==
  /\ \A f \in log : Backed(f)
  /\ \A f \in disk.log : BackedOnDisk(f)
  /\ phase = "down" => disk = Image

NewFrame(t) == [world |-> job[t].world, seq |-> job[t].seq,
                id |-> Head(job[t].batch).id, sum |-> Head(job[t].batch).bytes]

(* The frames of the next log are the present ones, a damaged one and the  *)
(* one that append_atoms writes.                                           *)
LEMMA LogStep ==
  ASSUME TypeOK, [Next]_vars, ~Crash, NEW f \in log'
  PROVE  \/ f \in log
         \/ f.id = Garbled
         \/ \E t \in Thread : WriteFrame(t) /\ f = NewFrame(t)
<1> USE DEF tree, opens, hist, faults
<1>1. ASSUME NEW t \in Thread, WriteFrame(t)
      PROVE  f \in log \/ f = NewFrame(t)
  BY <1>1 DEF WriteFrame, PutFrame, NewFrame
<1>2. ASSUME NEW g \in log, Damage(g) PROVE f \in log \/ f.id = Garbled
  BY <1>2 DEF Damage, PutFrame, TypeOK, Frame
<1>3. ASSUME NEW t \in Thread, Step(t), ~WriteFrame(t) PROVE log' \subseteq log
  BY <1>3 DEF Step, BeginAppend, Refuse, WriteBody, WriteIndex, FinishAppend,
       BeginDelete, StripAtom, RemoveFrame, FinishDelete
<1>4. CASE Persist \/ Recover \/ UNCHANGED vars
  BY <1>4 DEF Persist, Recover, Open, RepairWorld, Truncate, RebuildIndex, vars
<1> QED
  BY <1>1, <1>2, <1>3, <1>4 DEF Next

(* Only a flush changes what is persisted, and damage while it is closed.  *)
LEMMA DiskStep ==
  ASSUME TypeOK, [Next]_vars
  PROVE  \/ disk' = disk
         \/ disk' = Image /\ UNCHANGED <<atoms, log>>
         \/ phase = "down" /\ atoms' = atoms /\ disk' = [disk EXCEPT !.log = log']
<1> USE DEF tree, opens, hist, faults
<1>1. ASSUME NEW t \in Thread, Step(t)
      PROVE  disk' = disk \/ (disk' = Image /\ UNCHANGED <<atoms, log>>)
  BY <1>1 DEF Step, BeginAppend, Refuse, WriteBody, WriteFrame, WriteIndex, FinishAppend,
       BeginDelete, StripAtom, RemoveFrame, FinishDelete
<1>2. CASE Persist \/ (\E f \in log : Damage(f))
  BY <1>2 DEF Persist, Damage
<1>3. CASE Crash \/ Recover \/ UNCHANGED vars
  BY <1>3 DEF Crash, Recover, Open, RepairWorld, Truncate, RebuildIndex, vars
<1> QED
  BY <1>1, <1>2, <1>3 DEF Next

LEMMA DownStep ==
  ASSUME TypeOK, RepairInv, [Next]_vars, phase = "down" => disk = Image
  PROVE  phase' = "down" => (disk = Image)'
<1> USE DEF tree, opens, hist, faults
<1>1. ASSUME NEW t \in Thread, Step(t) PROVE phase' = "up"
  BY <1>1 DEF RepairInv, Step, BeginAppend, Refuse, WriteBody, WriteFrame, WriteIndex,
       FinishAppend, BeginDelete, StripAtom, RemoveFrame, FinishDelete
<1>2. CASE Persist
  BY <1>2 DEF Persist
<1>3. CASE Crash
  BY <1>3 DEF Crash, Image, TypeOK, Tree
<1>4. ASSUME NEW f \in log, Damage(f) PROVE (disk = Image)'
  BY <1>4 DEF Damage, Image
<1>5. CASE Recover
  BY <1>5 DEF Recover, Open, RepairWorld, Truncate, RebuildIndex
<1>6. CASE UNCHANGED vars
  BY <1>6 DEF vars, Image
<1> QED
  BY <1>1, <1>2, <1>3, <1>4, <1>5, <1>6 DEF Next

LEMMA FrameStep ==
  ASSUME FreshIds, FreshInv, RepairInv, FrameInv, [Next]_vars
  PROVE  FrameInv'
<1> USE DEF tree, opens, hist, faults
<1>1. (phase = "down" => disk = Image)'
  BY DownStep DEF FreshInv, FrameInv
<1>2. CASE Crash
  BY <1>1, <1>2 DEF Crash, FrameInv, Backed, BackedOnDisk, Valid
<1>3. CASE ~Crash
  <2>1. \A a \in sent : Stored(a) => Stored(a)'
    BY <1>3, StoredStays DEF FreshInv
  <2>2. dropped \subseteq dropped'
    <3>1. ASSUME NEW t \in Thread, Step(t) PROVE dropped \subseteq dropped'
      BY <3>1 DEF Step, BeginAppend, Refuse, WriteBody, WriteFrame, WriteIndex,
           FinishAppend, BeginDelete, StripAtom, RemoveFrame, FinishDelete
    <3>2. CASE ~\E t \in Thread : Step(t)
      BY <1>3, <3>2 DEF Next, Persist, Damage, Recover, Open, RepairWorld, Truncate,
           RebuildIndex, vars
    <3> QED
      BY <3>1, <3>2
  <2>3. ASSUME NEW f, Backed(f) PROVE Backed(f)'
    BY <2>1, <2>2, <2>3 DEF Backed, Valid, Stored, FreshInv, SentInv, Sources
  <2>4. ASSUME NEW t \in Thread, WriteFrame(t) PROVE Backed(NewFrame(t))
    <3>1. Stored(Head(job[t].batch)) /\ Head(job[t].batch).world = job[t].world
      BY <2>4 DEF WriteFrame, FreshInv, BodyInv, JobStored, SentInv, Sources
    <3> QED
      BY <3>1 DEF Stored, Backed, Valid, NewFrame
  <2>5. ASSUME NEW f \in log' PROVE Backed(f)'
    <3>1. Backed(f)
      BY <2>4, LogStep, <1>3 DEF FreshInv, FrameInv, Backed
    <3> QED
      BY <3>1, <2>3
  <2>6. ASSUME NEW f \in disk'.log PROVE BackedOnDisk(f)'
    <3>1. CASE disk' = disk
      BY <3>1, <2>2, <2>6 DEF FrameInv, BackedOnDisk
    <3>2. CASE disk' = Image /\ UNCHANGED <<atoms, log>>
      BY <3>2, <2>5, <2>6 DEF Image, Backed, BackedOnDisk, Valid
    <3>3. CASE phase = "down" /\ atoms' = atoms /\ disk' = [disk EXCEPT !.log = log']
      <4>1. disk'.log = log' /\ disk'.atoms = atoms
        BY <3>3 DEF FrameInv, Image
      <4> QED
        BY <3>3, <4>1, <2>5, <2>6 DEF Backed, BackedOnDisk, Valid
    <3> QED
      BY <3>1, <3>2, <3>3, DiskStep DEF FreshInv
  <2> QED
    BY <1>1, <2>5, <2>6 DEF FrameInv
<1> QED
  BY <1>2, <1>3

LEMMA FrameTyping == ASSUME FreshIds PROVE Spec => [](FreshInv /\ RepairInv /\ FrameInv)
<1>1. Init => RepairInv /\ FrameInv
  BY DEF Init, RepairInv, FrameInv, Image
<1>2. Spec => []FreshInv
  BY FreshTyping
<1>3. FreshInv /\ RepairInv /\ FrameInv /\ [Next]_vars => RepairInv' /\ FrameInv'
  BY RepairStep, FrameStep DEF FreshInv
<1> QED
  BY <1>1, <1>2, <1>3, PTL DEF Spec

(* With fresh ids, no crash, race or truncation leaves a frame without the *)
(* atom whose checksum it holds; only a delete can.                        *)
THEOREM FramesBackedCorrect == ASSUME FreshIds PROVE Spec => []FramesBacked
<1>1. FrameInv => FramesBacked
  BY DEF FrameInv, Backed, FramesBacked
<1> QED
  BY <1>1, FrameTyping, PTL

-----------------------------------------------------------------------------
(* Claims.  A running append has its ids to itself, none is acknowledged   *)
(* yet, and before[i] only ever holds acknowledged ids.                    *)
Writing(t) == job[t].pc \in {"body", "frame", "index", "flush"}

Claim(t) ==
  Writing(t) =>
    /\ \A k \in DOMAIN job[t].batch : job[t].batch[k].id \in job[t].ids
    /\ \A a \in job[t].done : a.id \in job[t].ids
    /\ \A i \in job[t].ids : \E a \in sent : a.id = i
    /\ \A a \in acked : a.id \notin job[t].ids

Apart(t, u) == Writing(t) /\ Writing(u) => job[t].ids \cap job[u].ids = {}

ClaimInv ==
  /\ \A t \in Thread : Claim(t)
  /\ \A t, u \in Thread : t # u => Apart(t, u)
  /\ \A i \in Id : before[i] \subseteq {a.id : a \in acked}

(* An append that goes on works off its batch, in its world, upwards.      *)
GoesOn(t) ==
  /\ job'[t].world = job[t].world /\ job'[t].ids = job[t].ids
  /\ job'[t].seq >= job[t].seq
  /\ job'[t].pc \in Busy => job[t].pc \in Busy
  /\ \A k \in DOMAIN job'[t].batch :
       \E l \in DOMAIN job[t].batch : job'[t].batch[k] = job[t].batch[l]
  /\ \A a \in job'[t].done :
       a \in job[t].done \/ \E l \in DOMAIN job[t].batch : a = job[t].batch[l]

LEMMA WritingStep ==
  ASSUME TypeOK, HasWork, NEW t \in Thread, Step(t), Writing(t)',
         ~ \E w \in World, batch \in Batches : BeginAppend(t, w, batch)
  PROVE  Writing(t) /\ GoesOn(t)
<1>1. CASE Refuse(t) \/ FinishAppend(t) \/ FinishDelete(t)
  BY <1>1, IdleIsJob DEF Refuse, FinishAppend, FinishDelete, TypeOK, Writing
<1>2. ASSUME NEW w \in World, NEW ids \in SUBSET Deletable, BeginDelete(t, w, ids) PROVE FALSE
  BY <1>2, IdleIsJob DEF BeginDelete, TypeOK, Writing, Job
<1>3. ASSUME NEW i \in Id, StripAtom(t, i) PROVE FALSE
  <2>1. PICK p \in {"unlog", "strip"} :
             job' = [job EXCEPT ![t].rest = job[t].rest \ {i}, ![t].pc = p]
    BY <1>3 DEF StripAtom
  <2> QED
    BY <2>1 DEF TypeOK, Job, Writing
<1>4. CASE RemoveFrame(t)
  BY <1>4 DEF RemoveFrame, TypeOK, Job, Writing
<1>5. CASE WriteBody(t) \/ WriteFrame(t)
  <2>1. /\ job'[t].world = job[t].world /\ job'[t].ids = job[t].ids
        /\ job'[t].seq = job[t].seq /\ job'[t].batch = job[t].batch
        /\ job'[t].done = job[t].done /\ job[t].pc \in Busy
    BY <1>5 DEF WriteBody, WriteFrame, TypeOK, Job, Busy
  <2>2. job[t].seq >= job[t].seq
    BY DEF TypeOK, Job
  <2> QED
    BY <2>1, <2>2 DEF GoesOn, Writing, Busy
<1>6. CASE WriteIndex(t)
  <2>1. /\ job'[t].world = job[t].world /\ job'[t].ids = job[t].ids
        /\ job'[t].seq = job[t].seq + 1 /\ job'[t].batch = Tail(job[t].batch)
        /\ job'[t].done = job[t].done \cup {Head(job[t].batch)} /\ job[t].pc \in Busy
    BY <1>6 DEF WriteIndex, TypeOK, Job, Busy
  <2>2. job[t].seq + 1 >= job[t].seq
    BY DEF TypeOK, Job
  <2>3. job[t].batch \in Seq(Atom) /\ job[t].batch # << >>
    BY <2>1 DEF TypeOK, HasWork, Job
  <2>4. /\ Head(job[t].batch) = job[t].batch[1] /\ 1 \in DOMAIN job[t].batch
        /\ \A k \in DOMAIN Tail(job[t].batch) :
             k + 1 \in DOMAIN job[t].batch /\ Tail(job[t].batch)[k] = job[t].batch[k + 1]
    BY <2>3, SeqTail
  <2>5. Writing(t)
    BY <1>6 DEF WriteIndex, Writing
  <2> QED
    BY <2>1, <2>2, <2>4, <2>5 DEF GoesOn
<1> QED
  BY <1>1, <1>2, <1>3, <1>4, <1>5, <1>6 DEF Step

LEMMA AppendGoesOn ==
  ASSUME TypeOK, HasWork, [Next]_vars, NEW t \in Thread, Writing(t)',
         ~ \E w \in World, batch \in Batches : BeginAppend(t, w, batch)
  PROVE  Writing(t) /\ GoesOn(t)
<1> USE DEF tree, opens, hist, faults
<1>1. CASE Step(t)
  BY <1>1, WritingStep
<1>2. CASE job'[t] = job[t]
  <2>1. job[t].seq >= job[t].seq
    BY DEF TypeOK, Job
  <2> QED
    BY <1>2, <2>1 DEF Writing, GoesOn
<1>3. CASE Crash
  BY <1>3, IdleIsJob DEF Crash, Writing
<1> QED
  <2>1. (\E u \in Thread : Step(u)) \/ job' = job \/ Crash
    BY DEF Next, Persist, Damage, Recover, Open, RepairWorld, Truncate, RebuildIndex, vars
  <2> QED
    BY <1>1, <1>2, <1>3, <2>1, OthersKeep

(* Only BeginAppend and FinishAppend touch the history that claims speak of. *)
LEMMA HistoryStep ==
  ASSUME [Next]_vars,
         ~ \E t \in Thread, w \in World, batch \in Batches : BeginAppend(t, w, batch)
  PROVE  /\ sent' = sent /\ before' = before
         /\ acked' = acked \/ \E t \in Thread : FinishAppend(t)
<1> USE DEF tree, opens, hist, faults
<1>1. CASE UNCHANGED vars \/ Persist \/ Crash \/ \E f \in log : Damage(f)
  BY <1>1 DEF vars, Persist, Crash, Damage
<1>2. CASE Recover
  BY <1>2 DEF Recover, Open, RepairWorld, Truncate, RebuildIndex
<1>3. ASSUME NEW t \in Thread, Step(t)
      PROVE  sent' = sent /\ before' = before /\ (acked' = acked \/ FinishAppend(t))
  <2>1. CASE Refuse(t) \/ WriteBody(t) \/ WriteFrame(t) \/ WriteIndex(t) \/ FinishAppend(t)
    BY <2>1 DEF Refuse, WriteBody, WriteFrame, WriteIndex, FinishAppend
  <2>2. CASE \/ \E w \in World, ids \in SUBSET Deletable : BeginDelete(t, w, ids)
             \/ \E i \in Id : StripAtom(t, i)
             \/ RemoveFrame(t) \/ FinishDelete(t)
    BY <2>2 DEF BeginDelete, StripAtom, RemoveFrame, FinishDelete
  <2> QED
    BY <1>3, <2>1, <2>2 DEF Step
<1> QED
  BY <1>1, <1>2, <1>3 DEF Next

LEMMA ClaimStep ==
  ASSUME FreshIds, FreshInv, ClaimInv, [Next]_vars
  PROVE  ClaimInv'
<1> USE DEF tree, opens, hist, faults
<1>1. ASSUME NEW t \in Thread, NEW w \in World, NEW batch \in Batches,
             BeginAppend(t, w, batch)
      PROVE  ClaimInv'
  <2> DEFINE new == {batch[k].id : k \in DOMAIN batch}
  <2>1. /\ job'[t].batch = batch /\ job'[t].ids = new /\ job'[t].done = {}
        /\ Writing(t)'
    BY <1>1 DEF BeginAppend, FreshInv, TypeOK, Writing
  <2>2. \A u \in Thread : u # t => job'[u] = job[u]
    BY <1>1 DEF BeginAppend, FreshInv, TypeOK
  <2>3. sent' = sent \cup {batch[k] : k \in DOMAIN batch} /\ acked' = acked
    BY <1>1 DEF BeginAppend
  <2>4. \A a \in sent : a.id \notin new
    BY <1>1 DEF BeginAppend
  <2>5. Claim(t)'
    <3>1. \A i \in new : \E a \in sent' : a.id = i
      BY <2>3
    <3>2. \A a \in acked' : a.id \notin new
      BY <2>3, <2>4 DEF FreshInv, SentInv, Sources
    <3> QED
      BY <2>1, <3>1, <3>2 DEF Claim
  <2>6. ASSUME NEW u \in Thread, u # t PROVE Claim(u)' /\ Apart(t, u)' /\ Apart(u, t)'
    <3>1. job'[u] = job[u] /\ Claim(u)
      BY <2>2, <2>6 DEF ClaimInv
    <3> QED
      BY <3>1, <2>1, <2>3, <2>4 DEF Claim, Apart, Writing
  <2>7. ASSUME NEW u \in Thread, NEW v \in Thread, u # v, u # t, v # t PROVE Apart(u, v)'
    BY <2>2, <2>7 DEF ClaimInv, Apart, Writing
  <2>8. \A i \in Id : before'[i] \subseteq {a.id : a \in acked'}
    BY <1>1 DEF BeginAppend, ClaimInv
  <2> QED
    BY <2>5, <2>6, <2>7, <2>8 DEF ClaimInv
<1>2. CASE ~ \E t \in Thread, w \in World, batch \in Batches : BeginAppend(t, w, batch)
  <2>1. /\ sent' = sent /\ before' = before
        /\ acked' = acked \/ \E t \in Thread : FinishAppend(t)
    BY <1>2, HistoryStep
  <2>2. acked \subseteq acked'
    BY <2>1 DEF FinishAppend
  <2>3. ASSUME NEW t \in Thread, Writing(t)' PROVE Writing(t) /\ GoesOn(t)
    BY <2>3, <1>2, AppendGoesOn DEF FreshInv
  <2>4. ASSUME NEW t \in Thread, Writing(t)' PROVE \A a \in acked' : a.id \notin job[t].ids
    <3>1. Writing(t) /\ Claim(t)
      BY <2>3, <2>4 DEF ClaimInv
    <3>2. ASSUME NEW u \in Thread, FinishAppend(u) PROVE \A a \in acked' : a.id \notin job[t].ids
      <4>1. u # t
        BY <3>2, <2>4, IdleIsJob DEF FinishAppend, Writing, FreshInv, TypeOK
      <4>2. Writing(u) /\ Claim(u) /\ Apart(t, u)
        BY <3>2, <4>1 DEF FinishAppend, Writing, ClaimInv
      <4> QED
        BY <3>1, <3>2, <4>2 DEF FinishAppend, Claim, Apart
    <3> QED
      BY <2>1, <3>1, <3>2 DEF Claim
  <2>5. ASSUME NEW t \in Thread PROVE Claim(t)'
    <3> SUFFICES ASSUME Writing(t)' PROVE Claim(t)'
      BY DEF Claim
    <3>1. Writing(t) /\ GoesOn(t) /\ Claim(t)
      BY <2>3 DEF ClaimInv
    <3> QED
      BY <3>1, <2>1, <2>4 DEF Claim, GoesOn
  <2>6. ASSUME NEW t \in Thread, NEW u \in Thread, t # u PROVE Apart(t, u)'
    BY <2>3, <2>6 DEF ClaimInv, Apart, GoesOn
  <2>7. \A i \in Id : before'[i] \subseteq {a.id : a \in acked'}
    BY <2>1, <2>2 DEF ClaimInv
  <2> QED
    BY <2>5, <2>6, <2>7 DEF ClaimInv
<1> QED
  BY <1>1, <1>2

-----------------------------------------------------------------------------
(* Order.  In the tree and on disk the log records append order, and an    *)
(* append in progress writes above whatever was acknowledged before it.    *)
Ordered(L) ==
  \A f, g \in L : f.world = g.world /\ g.id \in Id /\ f.id \in before[g.id] => f.seq < g.seq

Known(L) == \A f \in L : f.id \in Id => \E a \in sent : a.id = f.id

Above(t) ==
  job[t].pc \in Busy =>
    \A k \in DOMAIN job[t].batch, f \in log :
      f.world = job[t].world /\ f.id \in before[job[t].batch[k].id] => f.seq < job[t].seq

OrderInv ==
  /\ Ordered(log) /\ Ordered(disk.log)
  /\ Known(log) /\ Known(disk.log)
  /\ \A t \in Thread : Above(t)

LEMMA OrderBegin ==
  ASSUME FreshIds, FreshInv, ClaimInv, OrderInv,
         NEW t \in Thread, NEW w \in World, NEW batch \in Batches, BeginAppend(t, w, batch)
  PROVE  OrderInv'
<1> USE DEF tree, opens, hist, faults
<1> DEFINE new == {batch[k].id : k \in DOMAIN batch}
<1>1. UNCHANGED <<log, disk>> /\ sent \subseteq sent'
  BY DEF BeginAppend
<1>2. \A a \in sent : a.id \notin new
  BY DEF BeginAppend
<1>3. \A i \in Id : i \notin new => before'[i] = before[i]
  BY DEF BeginAppend
<1>4. ASSUME NEW L, Known(L), Ordered(L) PROVE Known(L)' /\ Ordered(L)'
  <2>1. \A g \in L : g.id \in Id => before'[g.id] = before[g.id]
    BY <1>2, <1>3, <1>4 DEF Known
  <2> QED
    BY <1>1, <1>4, <2>1 DEF Known, Ordered
<1>5. Ordered(log)' /\ Known(log)' /\ Ordered(disk.log)' /\ Known(disk.log)'
  BY <1>1, <1>4 DEF OrderInv, Ordered, Known
<1>6. Above(t)'
  <2>1. job'[t].world = w /\ \A f \in log : f.world = w => f.seq < job'[t].seq
    BY DEF BeginAppend, IsNextSeq, Frames, FreshInv, TypeOK
  <2> QED
    BY <1>1, <2>1 DEF Above
<1>7. ASSUME NEW u \in Thread, u # t PROVE Above(u)'
  <2>1. job'[u] = job[u]
    BY <1>7 DEF BeginAppend, FreshInv, TypeOK
  <2>2. ASSUME job[u].pc \in Busy, NEW k \in DOMAIN job[u].batch
        PROVE  before'[job[u].batch[k].id] = before[job[u].batch[k].id]
    <3>1. job[u].batch[k] \in sent
      BY <2>2 DEF FreshInv, SentInv, Sources
    <3>2. job[u].batch[k].id \in Id
      BY <3>1 DEF FreshInv, TypeOK, Atom
    <3> QED
      BY <3>1, <3>2, <1>2, <1>3
  <2> QED
    BY <1>1, <2>1, <2>2 DEF OrderInv, Above
<1> QED
  BY <1>5, <1>6, <1>7 DEF OrderInv

LEMMA OrderStep ==
  ASSUME FreshIds, FreshInv, ClaimInv, OrderInv, [Next]_vars
  PROVE  OrderInv'
<1> USE DEF tree, opens, hist, faults
<1>1. CASE \E t \in Thread, w \in World, batch \in Batches : BeginAppend(t, w, batch)
  BY <1>1, OrderBegin
<1>2. CASE Crash
  <2>1. UNCHANGED <<disk, before, sent>> /\ log' = disk.log
        /\ \A t \in Thread : job'[t].pc = "idle"
    BY <1>2, IdleIsJob DEF Crash
  <2> QED
    BY <2>1 DEF OrderInv, Ordered, Known, Above, Busy
<1>3. CASE ~Crash /\ ~ \E t \in Thread, w \in World, batch \in Batches : BeginAppend(t, w, batch)
  <2>1. sent' = sent /\ before' = before
    BY <1>3, HistoryStep
  <2>2. \A i, j \in Id : i \in before[j] => \E a \in acked : a.id = i
    BY DEF ClaimInv
  <2>3. ASSUME NEW t \in Thread, WriteFrame(t)
        PROVE  /\ NewFrame(t).id \in Id /\ \E a \in sent : a.id = NewFrame(t).id
               /\ \A j \in Id : NewFrame(t).id \notin before[j]
               /\ \A f \in log : f.world = NewFrame(t).world /\ f.id \in before[NewFrame(t).id]
                                => f.seq < NewFrame(t).seq
    <3>1. job[t].batch \in Seq(Atom) /\ job[t].batch # << >> /\ job[t].pc \in Busy /\ Writing(t)
      BY <2>3 DEF WriteFrame, FreshInv, TypeOK, HasWork, Job, Busy, Writing
    <3>2. 1 \in DOMAIN job[t].batch /\ Head(job[t].batch) = job[t].batch[1]
      BY <3>1, SeqTail
    <3>3. Head(job[t].batch) \in sent /\ Head(job[t].batch).id \in job[t].ids
      BY <3>1, <3>2 DEF FreshInv, SentInv, Sources, ClaimInv, Claim
    <3>4. Head(job[t].batch).id \in Id
      BY <3>3 DEF FreshInv, TypeOK, Atom
    <3>5. \A a \in acked : a.id # Head(job[t].batch).id
      BY <3>1, <3>3 DEF ClaimInv, Claim
    <3>6. \A j \in Id : Head(job[t].batch).id \notin before[j]
      BY <2>2, <3>4, <3>5
    <3> QED
      BY <3>1, <3>2, <3>3, <3>4, <3>6 DEF NewFrame, OrderInv, Above
  <2>4. ASSUME NEW f \in log', NEW j \in Id, f.id \in before[j] PROVE f \in log
    <3>1. f.id # Garbled
      BY <2>4, ConstantsAssumption DEF FreshInv, TypeOK
    <3> QED
      BY <3>1, <2>3, <2>4, <1>3, LogStep DEF FreshInv
  <2>5. Ordered(log)'
    <3> SUFFICES ASSUME NEW f \in log', NEW g \in log', f.world = g.world, g.id \in Id,
                        f.id \in before[g.id]
                 PROVE  f.seq < g.seq
      BY <2>1 DEF Ordered
    <3>1. f \in log
      BY <2>4
    <3>2. g \in log \/ \E t \in Thread : WriteFrame(t) /\ g = NewFrame(t)
      BY <1>3, LogStep, ConstantsAssumption DEF FreshInv
    <3> QED
      BY <3>1, <3>2, <2>3 DEF OrderInv, Ordered
  <2>6. Known(log)'
    BY <1>3, <2>1, <2>3, LogStep, ConstantsAssumption DEF FreshInv, OrderInv, Known
  <2>7. Ordered(disk.log)' /\ Known(disk.log)'
    <3>1. disk' = disk \/ disk'.log = log'
      BY DiskStep DEF FreshInv, Image, TypeOK, Tree
    <3> QED
      BY <3>1, <2>1, <2>5, <2>6 DEF OrderInv, Ordered, Known
  <2>8. ASSUME NEW t \in Thread, job'[t].pc \in Busy PROVE Above(t)'
    <3>1. job[t].pc \in Busy /\ GoesOn(t)
      <4>1. Writing(t)'
        BY <2>8 DEF Writing, Busy
      <4>2. GoesOn(t)
        BY <4>1, <1>3, AppendGoesOn DEF FreshInv
      <4> QED
        BY <4>2, <2>8 DEF GoesOn
    <3> SUFFICES ASSUME NEW k \in DOMAIN job'[t].batch, NEW f \in log', f.world = job'[t].world,
                        f.id \in before[job'[t].batch[k].id]
                 PROVE  f.seq < job'[t].seq
      BY <2>1 DEF Above
    <3>2. PICK l \in DOMAIN job[t].batch : job'[t].batch[k] = job[t].batch[l]
      BY <3>1 DEF GoesOn
    <3>3. job[t].batch[l] \in sent
      BY DEF FreshInv, SentInv, Sources
    <3>4. job[t].batch[l].id \in Id
      BY <3>3 DEF FreshInv, TypeOK, Atom
    <3>5. f \in log
      BY <2>4, <3>2, <3>4
    <3>6. f.seq < job[t].seq
      BY <3>1, <3>2, <3>5 DEF GoesOn, OrderInv, Above
    <3>7. f.seq \in Nat /\ job[t].seq \in Nat /\ job'[t].seq \in Nat
      <4>1. TypeOK'
        BY TypeStep DEF FreshInv
      <4> QED
        BY <4>1, <3>5 DEF FreshInv, TypeOK, Frame, Job
    <3> QED
      BY <3>1, <3>6, <3>7 DEF GoesOn
  <2>9. ASSUME NEW t \in Thread PROVE Above(t)'
    <3>1. CASE job'[t].pc \in Busy
      BY <3>1, <2>8
    <3>2. CASE job'[t].pc \notin Busy
      BY <3>2 DEF Above
    <3> QED
      BY <3>1, <3>2
  <2> QED
    BY <2>5, <2>6, <2>7, <2>9 DEF OrderInv
<1> QED
  BY <1>1, <1>2, <1>3

LEMMA OrderTyping == ASSUME FreshIds PROVE Spec => [](FreshInv /\ ClaimInv /\ OrderInv)
<1>1. Init => ClaimInv /\ OrderInv
  <2> SUFFICES ASSUME Init PROVE ClaimInv /\ OrderInv
    OBVIOUS
  <2>1. \A t \in Thread : job[t].pc = "idle"
    BY IdleIsJob DEF Init
  <2> QED
    BY <2>1 DEF Init, Image, ClaimInv, Claim, Apart, Writing, OrderInv, Ordered, Known, Above, Busy
<1>2. Spec => []FreshInv
  BY FreshTyping
<1>3. FreshInv /\ ClaimInv /\ OrderInv /\ [Next]_vars => ClaimInv' /\ OrderInv'
  BY ClaimStep, OrderStep
<1> QED
  BY <1>1, <1>2, <1>3, PTL DEF Spec

(* With fresh ids the log records append order: races on one sequence      *)
(* number, truncations and deletes may remove frames, but never put an     *)
(* atom before one that was acknowledged when its append began.            *)
THEOREM ReplayOrderCorrect == ASSUME FreshIds PROVE Spec => []ReplayOrder
<1>1. OrderInv => ReplayOrder
  BY DEF OrderInv, Ordered, ReplayOrder
<1> QED
  BY <1>1, OrderTyping, PTL
=============================================================================
