----------------------------- MODULE DeltaSync ------------------------------
(***************************************************************************)
(* The exchange of what a peer lacks: BloomFilter, BloomOffer and AtomBatch*)
(* of crates/dwbase-swarm, carried by request and respond of               *)
(* NatsSwarmTransport, crates/dwbase-swarm-nats/src/swarm.rs. Threads of   *)
(* one node offer what it holds, and its peer answers with the atoms the   *)
(* filter misses. A request waits on a subject of its own for its reply;   *)
(* the subscription stays when the wait is over.                           *)
(*                                                                         *)
(* Abstractions: the bits of an id are those its hash functions set; the   *)
(* subject drawn at random is a new one; the window is all of time. Who    *)
(* calls request and respond is not in the program, only in its tests: the *)
(* peer answers every offer it polls, and what is returned is ingested.    *)
(***************************************************************************)
EXTENDS Naturals, Sequences, SequencesExt

CONSTANTS
  Caller,
  Id, Bits,   \* ids of atoms, and the bits of each
  Begin,      \* the ids the node and its peer begin with: a pair
  Backoff,    \* ticks without a request after a timeout
  MaxCalls,   \* bound: requests
  MaxFaults   \* bound: requests and replies lost or repeated

DeltaAssumption ==
  /\ Begin \in (SUBSET Id) \X (SUBSET Id) /\ DOMAIN Bits = Id
  /\ Backoff \in Nat /\ MaxCalls \in Nat /\ MaxFaults \in Nat

VARIABLES
  held,     \* the ids the node holds
  theirs,   \* the ids its peer holds
  waiting,  \* the request each thread waits for, 0 for none
  offers,   \* history: the ids offered by each request
  subject,  \* the reply subject of each request
  listening,\* the subjects whose subscription has reached the bus
  received, \* the envelopes received on each subject
  sent,     \* the requests on their way, with their filters
  mail,     \* the replies on their way
  backoff,
  returned, \* history: what the last request returned
  faults

deltas == <<held, theirs, waiting, offers, subject, listening, received, sent, mail, backoff,
          returned, faults>>

Requests == DOMAIN offers
Reply == [to : Nat, answers : Nat, atoms : SUBSET Id]
Unanswered == << >>

-----------------------------------------------------------------------------
(* BloomFilter *)

from_ids(ids) == UNION {Bits[id] : id \in ids}
contains(bloom, id) == Bits[id] \subseteq bloom
missing(bloom, ids) == {id \in ids : ~contains(bloom, id)}

\* A faulty variant of the definition below: a node has one reply subject.
SubjectOfNode(r) == 1

\* reply_subject, for the request r.
SubjectOf(r) == r

-----------------------------------------------------------------------------
DeltaInit ==
  /\ held = Begin[1] /\ theirs = Begin[2]
  /\ waiting = [t \in Caller |-> 0] /\ offers = << >> /\ subject = << >>
  /\ listening = {} /\ received = [s \in 1..MaxCalls |-> << >>]
  /\ sent = {} /\ mail = {}
  /\ backoff = 0 /\ returned = Unanswered /\ faults = 0

peer_backing_off == backoff > 0

(* request up to its wait. NatsBus::subscribe leaves the subscription to a *)
(* task of its own, so the offer may be on its way first. A failed publish *)
(* ends the call with an error and no backoff.                             *)
request(t) ==
  LET r == Len(offers) + 1 IN
  /\ waiting[t] = 0 /\ ~peer_backing_off /\ r <= MaxCalls
  /\ offers' = Append(offers, held) /\ subject' = Append(subject, SubjectOf(r))
  /\ \/ /\ waiting' = [waiting EXCEPT ![t] = r]
        /\ sent' = sent \cup {[request |-> r, bloom |-> from_ids(held)]}
     \/ UNCHANGED <<waiting, sent>>
  /\ UNCHANGED <<held, theirs, listening, received, mail, backoff, returned, faults>>

Subscribe(r) ==
  /\ subject[r] \notin listening /\ listening' = listening \cup {subject[r]}
  /\ UNCHANGED <<held, theirs, waiting, offers, subject, received, sent, mail, backoff,
                 returned, faults>>

(* The peer polls an offer and calls respond.                              *)
respond ==
  /\ \E m \in sent :
       /\ sent' = sent \ {m}
       /\ mail' = mail \cup {[to |-> subject[m.request], answers |-> m.request,
                              atoms |-> missing(m.bloom, theirs)]}
  /\ UNCHANGED <<held, theirs, waiting, offers, subject, listening, received, backoff,
                 returned, faults>>

(* The handler of the subscription; a reply nobody listens for is lost.    *)
Receive ==
  /\ \E m \in mail :
       /\ mail' = mail \ {m}
       /\ received' = IF m.to \in listening
                      THEN [received EXCEPT ![m.to] = Append(@, m)] ELSE received
  /\ UNCHANGED <<held, theirs, waiting, offers, subject, listening, sent, backoff,
                 returned, faults>>

(* The wait: the newest envelope is returned, or the time is up, even if   *)
(* one came in after the last look.                                        *)
Take(t) ==
  LET r == waiting[t]
      s == subject[r]
  IN
  /\ r # 0 /\ received[s] # << >>
  /\ received' = [received EXCEPT ![s] = Front(@)]
  /\ returned' = [request |-> r, reply |-> Last(received[s])]
  /\ held' = held \cup Last(received[s]).atoms
  /\ waiting' = [waiting EXCEPT ![t] = 0]
  /\ UNCHANGED <<theirs, offers, subject, listening, sent, mail, backoff, faults>>

mark_failure == backoff' = Backoff

Timeout(t) ==
  /\ waiting[t] # 0 /\ waiting' = [waiting EXCEPT ![t] = 0]
  /\ mark_failure
  /\ UNCHANGED <<held, theirs, offers, subject, listening, received, sent, mail,
                 returned, faults>>

BackoffTick ==
  /\ backoff > 0 /\ backoff' = backoff - 1
  /\ UNCHANGED <<held, theirs, waiting, offers, subject, listening, received, sent, mail,
                 returned, faults>>

(* The peer remembers another atom.                                        *)
Learn ==
  /\ \E id \in Id \ theirs : theirs' = theirs \cup {id}
  /\ UNCHANGED <<held, waiting, offers, subject, listening, received, sent, mail, backoff,
                 returned, faults>>

(* A message is lost, or delivered and still on its way.                   *)
Fault ==
  /\ faults < MaxFaults /\ faults' = faults + 1
  /\ \/ \E m \in sent : sent' = sent \ {m} /\ UNCHANGED <<mail, received>>
     \/ \E m \in mail : mail' = mail \ {m} /\ UNCHANGED <<sent, received>>
     \/ \E m \in mail : /\ m.to \in listening /\ UNCHANGED <<sent, mail>>
                       /\ received' = [received EXCEPT ![m.to] = Append(@, m)]
  /\ UNCHANGED <<held, theirs, waiting, offers, subject, listening, backoff, returned>>

DeltaNext ==
  \/ \E t \in Caller : request(t) \/ Take(t) \/ Timeout(t)
  \/ \E r \in Requests : Subscribe(r)
  \/ respond \/ Receive \/ BackoffTick \/ Learn \/ Fault

DeltaSpec == DeltaInit /\ [][DeltaNext]_deltas

-----------------------------------------------------------------------------
(* Nothing is received on a subject that no subscription has reached.      *)
DeltaTypeOK ==
  /\ held \subseteq Id /\ theirs \subseteq Id
  /\ waiting \in [Caller -> {0} \cup Requests] /\ DOMAIN subject = Requests
  /\ \A s \in 1..MaxCalls :
       received[s] \in Seq(Reply) /\ (received[s] # << >> => s \in listening)
  /\ backoff \in 0..Backoff

(* What a request returns was made for it, whichever requests time out     *)
(* before their replies come and however late, repeated or out of order    *)
(* replies arrive: none of its atoms is one the node had offered, and the  *)
(* node holds what its peer began with, but for ids whose bits the offer   *)
(* had all set.                                                            *)
OwnReply ==
  returned # Unanswered =>
    LET ids == offers[returned.request] IN
    /\ returned.reply.answers = returned.request
    /\ returned.reply.atoms \cap ids = {}
    /\ returned.reply.atoms \subseteq theirs /\ returned.reply.atoms \subseteq held
    /\ \A id \in Begin[2] : id \in held \/ contains(from_ids(ids), id)
=============================================================================
