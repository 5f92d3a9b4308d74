---------------------------- MODULE Parts_proofs ----------------------------
(***************************************************************************)
(* The components of MCParts, put side by side, are the components on      *)
(* their own: a behaviour of all of them is one of each, so that what      *)
(* Commands_proofs, Node_proofs and Swarm_proofs show of each holds of the *)
(* composition.                                                            *)
(***************************************************************************)
EXTENDS MCParts, Commands_proofs, Node_proofs, Swarm_proofs

PartsAssumption ==
  /\ MemberAssumption /\ DeltaAssumption /\ EventsAssumption /\ PresenceAssumption
  /\ GateAssumption /\ NodeAssumption /\ RecallAssumption /\ SuspicionAssumption
  /\ KeysAssumption

LEMMA MemberAlone == Spec => MemberSpec
<1>1. Init => MemberInit
  BY DEF Init
<1>2. [Next]_together => [MemberNext]_membership
  BY DEF Next, together
<1> QED
  BY <1>1, <1>2, PTL DEF Spec, MemberSpec

LEMMA DeltaAlone == Spec => DeltaSpec
<1>1. Init => DeltaInit
  BY DEF Init
<1>2. [Next]_together => [DeltaNext]_deltas
  BY DEF Next, together
<1> QED
  BY <1>1, <1>2, PTL DEF Spec, DeltaSpec

LEMMA EventsAlone == Spec => EventsSpec
<1>1. Init => EventsInit
  BY DEF Init
<1>2. [Next]_together => [EventsNext]_events
  BY DEF Next, together
<1> QED
  BY <1>1, <1>2, PTL DEF Spec, EventsSpec

LEMMA PresenceAlone == Spec => PresenceSpec
<1>1. Init => PresenceInit
  BY DEF Init
<1>2. [Next]_together => [PresenceNext]_presence
  BY DEF Next, together
<1> QED
  BY <1>1, <1>2, PTL DEF Spec, PresenceSpec

LEMMA GateAlone == Spec => GateSpec
<1>1. Init => GateInit
  BY DEF Init
<1>2. [Next]_together => [GateNext]_gate
  BY DEF Next, together
<1> QED
  BY <1>1, <1>2, PTL DEF Spec, GateSpec

LEMMA NodeAlone == Spec => NodeSpec
<1>1. Init => NodeInit
  BY DEF Init
<1>2. [Next]_together => [NodeNext]_served
  BY DEF Next, together
<1> QED
  BY <1>1, <1>2, PTL DEF Spec, NodeSpec

LEMMA RecallAlone == Spec => RecallSpec
<1>1. Init => RecallInit
  BY DEF Init
<1>2. [Next]_together => [RecallNext]_recalls
  BY DEF Next, together
<1> QED
  BY <1>1, <1>2, PTL DEF Spec, RecallSpec

LEMMA SuspicionAlone == Spec => SuspicionSpec
<1>1. Init => SuspicionInit
  BY DEF Init
<1>2. [Next]_together => [SuspicionNext]_suspects
  BY DEF Next, together
<1> QED
  BY <1>1, <1>2, PTL DEF Spec, SuspicionSpec

LEMMA KeysAlone == Spec => KeysSpec
<1>1. Init => KeysInit
  BY DEF Init
<1>2. [Next]_together => [KeysNext]_sealed
  BY DEF Next, together
<1> QED
  BY <1>1, <1>2, PTL DEF Spec, KeysSpec

LEMMA BackupAlone == Spec => BackupSpec
<1>1. Init => BackupInit
  BY DEF Init
<1>2. [Next]_together => [BackupNext]_backups
  BY DEF Next, together
<1> QED
  BY <1>1, <1>2, PTL DEF Spec, BackupSpec

LEMMA DevnetAlone == Spec => DevnetSpec
<1>1. Init => DevnetInit
  BY DEF Init
<1>2. [Next]_together => [DevnetNext]_devnets
  BY DEF Next, together
<1> QED
  BY <1>1, <1>2, PTL DEF Spec, DevnetSpec

LEMMA ConfigAlone == Spec => ConfigSpec
<1>1. Init => ConfigInit
  BY DEF Init
<1>2. [Next]_together => [ConfigNext]_configs
  BY DEF Next, together
<1> QED
  BY <1>1, <1>2, PTL DEF Spec, ConfigSpec

(* No component disturbs another: whichever is picked, what happens is,    *)
(* for every component, a behaviour of its own specification.              *)
THEOREM PartsApart ==
  Spec => /\ MemberSpec /\ DeltaSpec /\ EventsSpec /\ PresenceSpec /\ GateSpec /\ NodeSpec
          /\ RecallSpec /\ SuspicionSpec /\ KeysSpec /\ BackupSpec /\ DevnetSpec /\ ConfigSpec
  BY MemberAlone, DeltaAlone, EventsAlone, PresenceAlone, GateAlone, NodeAlone,
     RecallAlone, SuspicionAlone, KeysAlone, BackupAlone, DevnetAlone, ConfigAlone

(* Every component has its type in any company and for every value of its  *)
(* constants: members, replies, buffers of events, presence, the buckets of*)
(* the gatekeeper, the node's handlers, recall and its indexes, the record *)
(* of a worker's calls, and the keys of the store.                         *)
THEOREM PartsTypeCorrect == ASSUME PartsAssumption PROVE Spec => []PartsTypeOK
<1> USE DEF PartsAssumption
<1>1. MemberSpec => []MemberTypeOK
  BY MemberTypeCorrect
<1>2. DeltaSpec => []DeltaTypeOK
  BY DeltaTypeCorrect
<1>3. EventsSpec => []EventsTypeOK
  BY EventsTypeCorrect
<1>4. PresenceSpec => []PresenceTypeOK
  BY PresenceTypeCorrect
<1>5. GateSpec => []GateTypeOK
  BY GateTypeCorrect
<1>6. NodeSpec => []NodeTypeOK
  BY NodeTypeCorrect
<1>7. RecallSpec => []RecallTypeOK
  BY RecallTypeCorrect
<1>8. SuspicionSpec => []SuspicionTypeOK
  BY SuspicionTypeCorrect
<1>9. KeysSpec => []KeysTypeOK
  BY KeysTypeCorrect
<1>10. /\ MemberTypeOK /\ DeltaTypeOK /\ EventsTypeOK /\ PresenceTypeOK /\ GateTypeOK
       /\ NodeTypeOK /\ RecallTypeOK /\ SuspicionTypeOK /\ KeysTypeOK
       => PartsTypeOK
  BY DEF PartsTypeOK
<1> QED
  BY <1>1, <1>2, <1>3, <1>4, <1>5, <1>6, <1>7, <1>8, <1>9, <1>10, PartsApart, PTL
=============================================================================
