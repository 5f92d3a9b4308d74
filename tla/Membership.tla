----------------------------- MODULE Membership -----------------------------
(***************************************************************************)
(* The peers a node knows, crates/dwbase-swarm/src/lib.rs: Membership with *)
(* expiry and exponential backoff, and the gossip loop that expires peers. *)
(* The struct is owned by one task, so every call is one step.             *)
(*                                                                         *)
(* Abstractions: an instant is an age in ticks, up to the age at which     *)
(* nothing changes any more, a deadline the ticks left to it; of PeerInfo  *)
(* the summary adverts are kept; the transport, which the loop does not    *)
(* use yet, is left out.                                                   *)
(***************************************************************************)
EXTENDS Naturals

CONSTANTS
  Peer,
  Advert,      \* summary adverts, told apart by world and digest
  Expiry,      \* expiry
  Base,        \* base_backoff
  MaxShift,    \* the cap on the exponent, 16 in the code
  MaxCounted  \* bound: failures counted

MemberAssumption ==
  /\ Expiry \in Nat /\ MaxShift \in Nat /\ MaxCounted \in Nat
  /\ Base \in Nat \ {0}

VARIABLES
  peers,    \* known peers
  adverts, last_seen, failure_count, backoff_until, \* what is known of each
  in_a_row, \* history: failures reported since the peer was last seen well
  since,    \* history: age of the last of them
  silent    \* history: age of the last sign of life

state      == <<peers, adverts, last_seen, failure_count, backoff_until>>
history    == <<in_a_row, since, silent>>
membership == <<state, history>>

Min2(m, n) == IF m < n THEN m ELSE n
Max2(m, n) == IF m < n THEN n ELSE m

\* 1 << shift
Factor[shift \in Nat] == IF shift = 0 THEN 1 ELSE 2 * Factor[shift - 1]

MaxBackoff == Base * Factor[MaxShift]

\* Faulty variants of definitions below.
DelayShifted(count) == Base * Factor[Min2(count, MaxShift)]
ExpiredAtExpiry == {p \in peers : last_seen[p] >= Expiry}

\* The wait after the count-th failure in a row.
Delay(count) == Max2(Base * Factor[Min2(count - 1, MaxShift)], Base)

Expired == {p \in peers : last_seen[p] > Expiry}

is_backing_off(p) == p \in peers /\ backoff_until[p] > 0
eligible_peers    == {p \in peers : backoff_until[p] = 0}

-----------------------------------------------------------------------------
MemberInit ==
  /\ peers = {}
  /\ adverts = [p \in Peer |-> {}]
  /\ last_seen = [p \in Peer |-> 0] /\ failure_count = last_seen /\ backoff_until = last_seen
  /\ in_a_row = last_seen /\ since = last_seen /\ silent = last_seen

Well(p) ==
  /\ last_seen' = [last_seen EXCEPT ![p] = 0]
  /\ failure_count' = [failure_count EXCEPT ![p] = 0]
  /\ backoff_until' = [backoff_until EXCEPT ![p] = 0]
  /\ in_a_row' = [in_a_row EXCEPT ![p] = 0]
  /\ silent' = [silent EXCEPT ![p] = 0]
  /\ UNCHANGED since

(* upsert and merge_hello: the info is replaced, adverts and all.          *)
Upsert(p, info) ==
  /\ peers' = peers \cup {p}
  /\ adverts' = [adverts EXCEPT ![p] = info]
  /\ Well(p)

(* apply_summary_advert: a sign of life that ends no backoff.              *)
ApplySummaryAdvert(p, a) ==
  /\ p \in peers
  /\ adverts' = [adverts EXCEPT ![p] = @ \cup {a}]
  /\ last_seen' = [last_seen EXCEPT ![p] = 0]
  /\ silent' = [silent EXCEPT ![p] = 0]
  /\ UNCHANGED <<peers, failure_count, backoff_until, in_a_row, since>>

MarkSeen(p) == p \in peers /\ Well(p) /\ UNCHANGED <<peers, adverts>>

MarkFailure(p) ==
  /\ p \in peers /\ failure_count[p] < MaxCounted
  /\ failure_count' = [failure_count EXCEPT ![p] = @ + 1]
  /\ backoff_until' = [backoff_until EXCEPT ![p] = Delay(failure_count'[p])]
  /\ in_a_row' = [in_a_row EXCEPT ![p] = @ + 1]
  /\ since' = [since EXCEPT ![p] = 0]
  /\ UNCHANGED <<peers, adverts, last_seen, silent>>

(* A round of the gossip loop. What was counted of a peer goes with it.    *)
Expire ==
  /\ peers' = peers \ Expired
  /\ adverts' = [p \in Peer |-> IF p \in Expired THEN {} ELSE adverts[p]]
  /\ last_seen' = [p \in Peer |-> IF p \in Expired THEN 0 ELSE last_seen[p]]
  /\ failure_count' = [p \in Peer |-> IF p \in Expired THEN 0 ELSE failure_count[p]]
  /\ backoff_until' = [p \in Peer |-> IF p \in Expired THEN 0 ELSE backoff_until[p]]
  /\ UNCHANGED <<in_a_row, since, silent>>

MemberTick ==
  /\ last_seen' = [p \in Peer |-> Min2(last_seen[p] + 1, Expiry + 1)]
  /\ backoff_until' = [p \in Peer |-> IF backoff_until[p] > 0 THEN backoff_until[p] - 1 ELSE 0]
  /\ since' = [p \in Peer |-> Min2(since[p] + 1, MaxBackoff)]
  /\ silent' = [p \in Peer |-> Min2(silent[p] + 1, Expiry + 1)]
  /\ UNCHANGED <<peers, adverts, failure_count, in_a_row>>

MemberNext ==
  \/ \E p \in Peer, info \in {{}, Advert} : Upsert(p, info)
  \/ \E p \in Peer, a \in Advert : ApplySummaryAdvert(p, a)
  \/ \E p \in Peer : MarkSeen(p) \/ MarkFailure(p)
  \/ Expire
  \/ MemberTick

MemberSpec == MemberInit /\ [][MemberNext]_membership

-----------------------------------------------------------------------------
(* Every variable has its type.                                            *)
MemberTypeOK ==
  /\ peers \subseteq Peer
  /\ adverts \in [Peer -> SUBSET Advert]
  /\ last_seen \in [Peer -> 0..Expiry + 1] /\ silent \in [Peer -> 0..Expiry + 1]
  /\ failure_count \in [Peer -> 0..MaxCounted] /\ in_a_row \in [Peer -> 0..MaxCounted]
  /\ backoff_until \in [Peer -> 0..MaxBackoff] /\ since \in [Peer -> 0..MaxBackoff]

(* A known peer that failed k times since it was last seen well is offered *)
(* again after base_backoff * 2^(k-1), capped, and neither earlier nor     *)
(* later; adverts it sends meanwhile do not end the wait (mark_failure,    *)
(* eligible_peers, is_backing_off).                                        *)
BackoffExact ==
  \A p \in peers :
    /\ p \in eligible_peers <=>
         in_a_row[p] = 0 \/ since[p] >= Min2(Base * Factor[in_a_row[p] - 1], MaxBackoff)
    /\ is_backing_off(p) <=> p \notin eligible_peers

(* expire takes out exactly the peers that gave no sign of life, be it a   *)
(* hello, an advert or a success, for longer than expiry (expire,          *)
(* last_seen); nothing else makes a peer unknown.                          *)
ExpiresSilent ==
  [][peers \ peers' # {} =>
       /\ \A p \in peers \ peers' : silent[p] > Expiry
       /\ \A p \in peers' : silent[p] <= Expiry]_membership
=============================================================================
