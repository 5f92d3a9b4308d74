---------------------------- MODULE MCSledStore ----------------------------
(* Small instances of SledStore. The world "tx" stands for a name such as  *)
(* "tenant:a/x", whose first segment "tenant:a" is no world of the model.  *)
EXTENDS SledLog, TLC

CONSTANTS w1, tx, tenant

MCSegment == (w1 :> w1) @@ (tx :> tenant)

Symmetry == Permutations(Id \ Deletable) \cup Permutations(Thread)
=============================================================================
