------------------------------ MODULE AtomLog ------------------------------
(***************************************************************************)
(* What a caller of the storage engine relies on: a log of atoms for each  *)
(* world.  An atom enters at the end, once, and leaves only when somebody  *)
(* asked for its deletion; a crash takes away at most the unacknowledged   *)
(* end of a log and may bring back what was deleted; nothing changes while *)
(* the store is closed.                                                    *)
(***************************************************************************)
EXTENDS Naturals

VARIABLES
  open,   \* callers may use the store
  seen,   \* what replays of the worlds return: atoms at their positions
  acked,  \* atoms whose append returned Ok
  dropped \* <<world, id>> pairs whose deletion was asked for

vars == <<open, seen, acked, dropped>>

Gone(a) == <<a.world, a.id>> \in dropped

(* One atom at a position of a world, one position for an atom.            *)
IsLog(S) ==
  \A x, y \in S :
    x.atom.world = y.atom.world /\ (x.pos = y.pos \/ x.atom.id = y.atom.id) => x = y

Init == open = TRUE /\ seen = {} /\ acked = {} /\ dropped = {}

Append(p, a) ==
  /\ open /\ p \in Nat
  /\ \A x \in seen : x.atom.world = a.world => x.pos < p /\ x.atom.id # a.id
  /\ seen' = seen \cup {[pos |-> p, atom |-> a]}
  /\ UNCHANGED <<open, acked, dropped>>

Ack(S) ==
  /\ open
  /\ \A a \in S : Gone(a) \/ \E x \in seen : x.atom = a
  /\ acked' = acked \cup S
  /\ UNCHANGED <<open, seen, dropped>>

Delete(D) ==
  /\ open
  /\ dropped' = dropped \cup D
  /\ UNCHANGED <<open, seen, acked>>

Remove ==
  /\ open
  /\ seen' \subseteq seen
  /\ \A x \in seen \ seen' : Gone(x.atom)
  /\ UNCHANGED <<open, acked, dropped>>

Crash ==
  /\ open' = FALSE
  /\ IsLog(seen')
  /\ \A x \in seen' \ seen : Gone(x.atom)
  /\ \A x \in seen \ seen', y \in seen \cap seen' :
       x.atom.world = y.atom.world => y.pos < x.pos
  /\ \A a \in acked : Gone(a) \/ \E x \in seen' : x.atom = a
  /\ UNCHANGED <<acked, dropped>>

Reopen ==
  /\ ~open /\ open' = TRUE
  /\ UNCHANGED <<seen, acked, dropped>>

Next ==
  \/ \E x \in seen' \ seen : Append(x.pos, x.atom)
  \/ Ack(acked' \ acked)
  \/ Delete(dropped' \ dropped)
  \/ Remove
  \/ Crash
  \/ Reopen

Spec == Init /\ [][Next]_vars

(* The promise in one state: every replay is a log, and holds what was     *)
(* acknowledged and not given up.                                          *)
Promise == IsLog(seen) /\ \A a \in acked : Gone(a) \/ \E x \in seen : x.atom = a
=============================================================================
