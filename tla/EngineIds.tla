----------------------------- MODULE EngineIds -----------------------------
(***************************************************************************)
(* The engine's atom ids over the sled store: crates/dwbase-engine/src/    *)
(* lib.rs, new_id and the part of remember that reaches storage.append.    *)
(* id_gen is a field of the engine, so it starts at 1 again in every       *)
(* process, while the store it numbers atoms for is durable. Id is a set   *)
(* of numbers here.                                                        *)
(***************************************************************************)
EXTENDS SledStore

VARIABLE idGen

ids == <<vars, idGen>>

IdsInit == Init /\ idGen = 1

(* Two remembered atoms differ in their encoding, by their payloads or by  *)
(* the timestamps the engine fills in.                                     *)
Remember(t) ==
  /\ idGen \in Id  \* bound: ids of the model
  /\ \E w \in World, b \in Bytes \ {a.bytes : a \in acked \cup atoms} :
       BeginAppend(t, w, <<[world |-> w, id |-> idGen, bytes |-> b]>>)
  /\ idGen' = idGen + 1

(* The node opens its storage, then builds the engine over it.             *)
Restart == RebuildIndex /\ idGen' = 1

Store(t) ==
  /\ \/ WriteBody(t) \/ WriteFrame(t) \/ WriteIndex(t) \/ FinishAppend(t)
  /\ UNCHANGED idGen

Environment ==
  /\ \/ Persist \/ Crash
     \/ Open \/ Truncate \/ \E w \in pending : RepairWorld(w)
  /\ UNCHANGED idGen

IdsNext ==
  \/ \E t \in Thread : Remember(t) \/ Store(t)
  \/ Environment
  \/ Restart

IdsSpec == IdsInit /\ [][IdsNext]_ids
=============================================================================
