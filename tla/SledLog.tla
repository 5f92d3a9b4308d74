------------------------------ MODULE SledLog ------------------------------
(***************************************************************************)
(* SledStore implements AtomLog for callers that keep two promises: the    *)
(* replay of a world (StorageEngine::scan without a filter) is the         *)
(* abstract log.                                                           *)
(***************************************************************************)
EXTENDS SledStore

(* scan: the log in order, a frame whose atom is missing is skipped        *)
Bodies(f) == {a \in atoms : a.world = f.world /\ a.id = f.id}
Replay    == UNION {{[pos |-> f.seq, atom |-> a] : a \in Bodies(f)} : f \in log}

(* The promises.  A world has at most one append at work (append_atoms     *)
(* locks nothing: see store_seq_race) ...                                  *)
OneAppendPerWorld ==
  \A t, u \in Thread :
    /\ {job[t].pc, job[u].pc} \subseteq {"body", "frame", "index"}
    /\ job[t].world = job[u].world
    => t = u

(* ... and the process dies at a moment when no delete is half done on     *)
(* disk, its body gone and its frame not (repair_logs truncates there: see *)
(* store_gc).                                                              *)
Settled == \A f \in disk.log : \E a \in disk.atoms : a.world = f.world /\ a.id = f.id

CarefulNext == Next /\ OneAppendPerWorld' /\ (Crash => Settled)
CarefulSpec == Init /\ [][CarefulNext]_vars

Abstract == INSTANCE AtomLog WITH open <- phase = "up", seen <- Replay

(* Appends of any number of threads, deletes, crashes at any point of an   *)
(* append and recoveries look to a caller like a log that loses what it    *)
(* was told to delete and at most an unacknowledged end.                   *)
ImplementsAtomLog == Abstract!Spec
=============================================================================
