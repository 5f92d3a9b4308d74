---------------------------- MODULE MCEngineIds ----------------------------
(* Small instances of EngineIds. The world "tx" stands for a name such as  *)
(* "tenant:a/x", whose first segment "tenant:a" is no world of the model.  *)
EXTENDS EngineIds, TLC

CONSTANTS w1, tx, tenant

MCSegment == (w1 :> w1) @@ (tx :> tenant)
=============================================================================
