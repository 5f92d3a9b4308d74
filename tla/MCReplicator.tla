---------------------------- MODULE MCReplicator ----------------------------
(* A small instance of Replicator. Node a writes atoms of the worlds "t:x" *)
(* and "u", node b is started with a pattern for the one or for both.      *)
EXTENDS Replicator

CONSTANTS a, b, a1, au, ct, cu, cx

MCWorldOf == [at \in Atom |-> IF at = au THEN <<cu>> ELSE <<ct, Colon, cx>>]
MCPatterns == (a :> {{<<Star>>}})
              @@ (b :> {{<<ct, Colon, Star>>}, {<<ct, Colon, Star>>, <<cu>>}})
MCOutbox == (a :> Atom) @@ (b :> {})
MCAll == Node \X Range(MCWorldOf) \X Node
=============================================================================
