------------------------------ MODULE MCEngine ------------------------------
(* Small instances of Engine: a world "w", its quarantine and policy       *)
(* worlds, and a peer whose atoms are numbered from 11, or from 1 as every *)
(* node numbers them. A behaviour has the calls of one of the budgets.     *)
EXTENDS Engine, TLC

CONSTANTS w, wq, wp

MCQuarantine   == [x \in World |-> IF wq \in World THEN wq ELSE x]
MCPolicyWorlds == [x \in World |-> IF x = w /\ wp \in World THEN <<w, wp>> ELSE <<x>>]

To(kind, id) == <<[kind |-> kind, target |-> id]>>
Req(x, ts, links, status, rule) ==
  [world |-> x, ts |-> ts, importance |-> 2, links |-> links, status |-> status, rule |-> rule]
Peer(id, ts, links) ==
  [id |-> id, world |-> w, ts |-> ts, importance |-> 2, links |-> links,
   status |-> "none", rule |-> NoRule]

MCLinkers  == {Req(w, Unset, To("supersedes", 11), "none", NoRule)}
MCRequests == MCLinkers \cup
              {Req(wp, Unset, << >>, "none", [key |-> "min_importance", value |-> 3]),
               Req(w, Unparsable, << >>, "archived", NoRule)}
MCBatches  == {<<Peer(11, 0, << >>), Peer(12, Unparsable, << >>),
                 Peer(13, 3, To("confirms", 11))>>}
MCNumbered == {<<Peer(1, 0, << >>)>>}
MCPlain    == {<<Peer(11, 0, << >>), Peer(13, 3, << >>)>>}
Calls(r, i, g, m) == [remember |-> r, ingest |-> i, gc |-> g, manage |-> m]
MCCalls    == {Calls(2, 1, 1, 0), Calls(1, 2, 1, 0), Calls(0, 0, 0, 3), Calls(1, 0, 1, 1)}
MCGc       == {Calls(1, 1, 1, 0)}
MCOne      == {Calls(1, 1, 0, 0)}
MCTwice    == {Calls(0, 2, 0, 0)}
Symmetry   == Permutations(Thread)
=============================================================================
