---------------------------- MODULE Swarm_proofs ----------------------------
(***************************************************************************)
(* Theorems about DeltaSync, for any number of threads, requests, faults   *)
(* and atoms, and whatever bits the ids have; about Membership, for any    *)
(* peers, expiry, base and cap of the backoff; about Presence, for any     *)
(* nodes, ttls and latency; and about WorldEvents, for any number of       *)
(* worlds, threads, events and failures, any batch size and any rate.      *)
(***************************************************************************)
EXTENDS DeltaSync, Membership, Presence, WorldEvents, FiniteSetTheorems,
  WellFoundedInduction, TLAPS

IdsTyped == held \subseteq Id /\ theirs \subseteq Id /\ Begin[2] \subseteq theirs

\* Every request has a subject of its own.
Numbered ==
  /\ MaxCalls \in Nat
  /\ offers \in Seq(SUBSET Id) /\ subject \in Seq(Nat)
  /\ Len(subject) = Len(offers) /\ Len(offers) <= MaxCalls
  /\ \A r \in 1..Len(offers) : subject[r] = r
  /\ waiting \in [Caller -> 0..Len(offers)]

\* A request on its way has the filter of what was offered.
SentFits == \A m \in sent : m.request \in 1..Len(offers) /\ m.bloom = from_ids(offers[m.request])

\* Atoms suit the request they answer, given the offers and the peer's atoms.
Suits(r, atoms, ids, all) ==
  /\ r \in 1..Len(ids)
  /\ atoms \cap ids[r] = {} /\ atoms \subseteq all
  /\ \A id \in Begin[2] : id \in atoms \/ contains(from_ids(ids[r]), id)
Fits(m, ids, all) == m \in Reply /\ m.to = m.answers /\ Suits(m.answers, m.atoms, ids, all)
AllFit(s, to, ids, all) ==
  s \in Seq(Reply) /\ \A i \in DOMAIN s : Fits(s[i], ids, all) /\ s[i].to = to

MailFits == \A m \in mail : Fits(m, offers, theirs)
BufferFits ==
  /\ DOMAIN received = 1..MaxCalls
  /\ \A s \in 1..MaxCalls : AllFit(received[s], s, offers, theirs)

ReturnedFits ==
  returned # Unanswered =>
    /\ Suits(returned.request, returned.reply.atoms, offers, theirs)
    /\ returned.reply.answers = returned.request
    /\ returned.reply.atoms \subseteq held

DeltaInv == IdsTyped /\ Numbered /\ SentFits /\ MailFits /\ BufferFits /\ ReturnedFits

LEMMA DeltaInvInit == ASSUME DeltaAssumption, DeltaInit PROVE DeltaInv
<1>1. IdsTyped
  BY DEF DeltaInit, IdsTyped, DeltaAssumption
<1>2. Numbered
  BY DEF DeltaInit, Numbered, DeltaAssumption
<1>3. SentFits /\ MailFits /\ ReturnedFits
  BY DEF DeltaInit, SentFits, MailFits, ReturnedFits
<1>4. BufferFits
  <2>1. \A s \in 1..MaxCalls : received[s] = << >>
    BY DEF DeltaInit
  <2>2. << >> \in Seq(Reply) /\ DOMAIN << >> = {}
    OBVIOUS
  <2> QED
    BY <2>1, <2>2 DEF DeltaInit, BufferFits, AllFit
<1> QED
  BY <1>1, <1>2, <1>3, <1>4 DEF DeltaInv

-----------------------------------------------------------------------------
\* What keeps replies fit: requests and the peer's atoms only grow.
Extends(ids, more, all, rest) ==
  /\ Len(ids) \in Nat /\ Len(more) \in Nat /\ Len(ids) <= Len(more)
  /\ \A r \in 1..Len(ids) : more[r] = ids[r]
  /\ all \subseteq rest
Grows == Extends(offers, offers', theirs, theirs')

LEMMA SuitsStays ==
  ASSUME NEW r, NEW atoms, NEW ids, NEW more, NEW all, NEW rest,
         Suits(r, atoms, ids, all), Extends(ids, more, all, rest)
  PROVE  Suits(r, atoms, more, rest)
<1>1. r \in 1..Len(more) /\ more[r] = ids[r]
  BY DEF Suits, Extends
<1> QED
  BY <1>1 DEF Suits, Extends

LEMMA FitsStays ==
  ASSUME NEW m, NEW ids, NEW more, NEW all, NEW rest,
         Fits(m, ids, all), Extends(ids, more, all, rest)
  PROVE  Fits(m, more, rest)
  BY SuitsStays DEF Fits

LEMMA AllFitStays ==
  ASSUME NEW s, NEW to, NEW ids, NEW more, NEW all, NEW rest,
         AllFit(s, to, ids, all), Extends(ids, more, all, rest)
  PROVE  AllFit(s, to, more, rest)
  BY FitsStays DEF AllFit

LEMMA MailStays == ASSUME MailFits, Grows, mail' \subseteq mail PROVE MailFits'
<1> SUFFICES ASSUME NEW m \in mail PROVE Fits(m, offers', theirs')
  BY DEF MailFits
<1> QED
  BY FitsStays DEF MailFits, Grows

LEMMA BufferStays == ASSUME BufferFits, Grows, UNCHANGED received PROVE BufferFits'
<1>1. ASSUME NEW s \in 1..MaxCalls PROVE AllFit(received[s], s, offers', theirs')
  BY AllFitStays DEF BufferFits, Grows
<1> QED
  BY <1>1 DEF BufferFits

LEMMA SentStays == ASSUME SentFits, Grows, sent' \subseteq sent PROVE SentFits'
<1> SUFFICES ASSUME NEW m \in sent
    PROVE m.request \in 1..Len(offers') /\ m.bloom = from_ids(offers'[m.request])
  BY DEF SentFits, from_ids
<1>1. m.request \in 1..Len(offers) /\ m.bloom = from_ids(offers[m.request])
  BY DEF SentFits
<1>2. m.request \in 1..Len(offers') /\ offers'[m.request] = offers[m.request]
  BY <1>1 DEF Grows, Extends
<1> QED
  BY <1>1, <1>2

LEMMA ReturnedStays ==
  ASSUME ReturnedFits, Grows, UNCHANGED returned, held \subseteq held' PROVE ReturnedFits'
<1> SUFFICES ASSUME returned # Unanswered
    PROVE /\ Suits(returned.request, returned.reply.atoms, offers', theirs')
          /\ returned.reply.answers = returned.request
          /\ returned.reply.atoms \subseteq held'
  BY DEF ReturnedFits, Unanswered
<1> QED
  BY SuitsStays DEF ReturnedFits, Grows

LEMMA Same ==
  ASSUME DeltaInv, UNCHANGED offers, theirs \subseteq theirs' PROVE Grows
  BY DEF DeltaInv, Numbered, Grows, Extends

LEMMA AppendFits ==
  ASSUME NEW s, NEW to, NEW m, NEW ids, NEW all,
         AllFit(s, to, ids, all), Fits(m, ids, all), m.to = to
  PROVE  AllFit(Append(s, m), to, ids, all)
<1>1. s \in Seq(Reply) /\ m \in Reply
  BY DEF AllFit, Fits
<1>2. /\ Append(s, m) \in Seq(Reply)
      /\ \A i \in DOMAIN Append(s, m) :
           Append(s, m)[i] = m \/ (i \in DOMAIN s /\ Append(s, m)[i] = s[i])
  BY <1>1
<1> QED
  BY <1>2 DEF AllFit

\* A reply that fits, received on its subject.
LEMMA BufferAppend ==
  ASSUME DeltaInv, NEW m \in mail, UNCHANGED <<offers, theirs>>,
         received' = [received EXCEPT ![m.to] = Append(@, m)]
  PROVE  BufferFits'
<1>1. Fits(m, offers, theirs)
  BY DEF DeltaInv, MailFits
<1>2. m.to \in 1..MaxCalls
  BY <1>1 DEF DeltaInv, Fits, Suits, Numbered, Reply
<1>3. DOMAIN received = 1..MaxCalls /\ DOMAIN received' = 1..MaxCalls
      /\ received'[m.to] = Append(received[m.to], m)
      /\ \A s \in 1..MaxCalls : s # m.to => received'[s] = received[s]
  BY <1>2 DEF DeltaInv, BufferFits
<1>4. \A s \in 1..MaxCalls : AllFit(received[s], s, offers, theirs)
  BY DEF DeltaInv, BufferFits
<1>5. AllFit(received'[m.to], m.to, offers, theirs)
  BY <1>1, <1>2, <1>3, <1>4, AppendFits
<1>6. \A s \in 1..MaxCalls : AllFit(received'[s], s, offers, theirs)
  BY <1>3, <1>4, <1>5
<1> QED
  BY <1>3, <1>6 DEF BufferFits

LEMMA FrontLastFit ==
  ASSUME NEW s, NEW to, NEW ids, NEW all, AllFit(s, to, ids, all), s # << >>
  PROVE  /\ Fits(Last(s), ids, all) /\ Last(s).to = to
         /\ AllFit(Front(s), to, ids, all)
<1>1. s \in Seq(Reply)
  BY DEF AllFit
<1>2. Len(s) \in DOMAIN s /\ Last(s) = s[Len(s)]
  BY <1>1 DEF Last
<1>3. Front(s) \in Seq(Reply) /\ \A i \in DOMAIN Front(s) : i \in DOMAIN s /\ Front(s)[i] = s[i]
  BY <1>1 DEF Front
<1> QED
  BY <1>2, <1>3 DEF AllFit

LEMMA TakeStep ==
  ASSUME DeltaInv, NEW t \in Caller, Take(t)
  PROVE  DeltaInv'
<1> DEFINE r == waiting[t]
           m == Last(received[r])
<1>1. r \in 1..Len(offers) /\ subject[r] = r /\ r \in 1..MaxCalls
  <2>1. r \in 0..Len(offers) /\ r # 0 /\ Len(offers) \in Nat
    BY DEF Take, DeltaInv, Numbered
  <2> HIDE DEF r
  <2> QED
    BY <2>1 DEF DeltaInv, Numbered
<1>2. /\ received[r] # << >> /\ received' = [received EXCEPT ![r] = Front(@)]
      /\ returned' = [request |-> r, reply |-> m]
      /\ held' = held \cup m.atoms
      /\ waiting' = [waiting EXCEPT ![t] = 0]
      /\ UNCHANGED <<theirs, offers, subject, sent, mail>>
  BY <1>1 DEF Take
<1>3. Grows
  BY <1>2, Same
<1>4. AllFit(received[r], r, offers, theirs)
  BY <1>1 DEF DeltaInv, BufferFits
<1>5. Fits(m, offers, theirs) /\ m.to = r
  BY <1>2, <1>4, FrontLastFit
<1>6. IdsTyped'
  BY <1>2, <1>5 DEF DeltaInv, IdsTyped, Fits, Suits
<1>7. Numbered'
  BY <1>2 DEF DeltaInv, Numbered
<1>8. SentFits' /\ MailFits'
  BY <1>2, <1>3, SentStays, MailStays DEF DeltaInv
<1>9. BufferFits'
  <2>1. AllFit(Front(received[r]), r, offers, theirs)
    BY <1>2, <1>4, FrontLastFit
  <2>2. DOMAIN received' = 1..MaxCalls /\ received'[r] = Front(received[r])
        /\ \A s \in 1..MaxCalls : s # r => received'[s] = received[s]
    BY <1>1, <1>2 DEF DeltaInv, BufferFits
  <2>3. \A s \in 1..MaxCalls : AllFit(received'[s], s, offers, theirs)
    BY <2>1, <2>2 DEF DeltaInv, BufferFits
  <2> QED
    BY <1>2, <2>2, <2>3 DEF BufferFits
<1>10. ReturnedFits'
  <2>1. Suits(r, m.atoms, offers', theirs') /\ m.answers = r
    BY <1>2, <1>5 DEF Fits
  <2>2. returned'.request = r /\ returned'.reply = m /\ m.atoms \subseteq held'
    BY <1>2
  <2> QED
    BY <2>1, <2>2 DEF ReturnedFits
<1> QED
  BY <1>6, <1>7, <1>8, <1>9, <1>10 DEF DeltaInv

LEMMA RespondStep == ASSUME DeltaAssumption, DeltaInv, respond PROVE DeltaInv'
<1>1. PICK n \in sent :
        /\ sent' = sent \ {n}
        /\ mail' = mail \cup {[to |-> subject[n.request], answers |-> n.request,
                               atoms |-> missing(n.bloom, theirs)]}
  BY DEF respond
<1> DEFINE r == n.request
           m == [to |-> subject[r], answers |-> r, atoms |-> missing(n.bloom, theirs)]
<1>2. r \in 1..Len(offers) /\ n.bloom = from_ids(offers[r]) /\ subject[r] = r
  BY DEF DeltaInv, SentFits, Numbered
<1>3. UNCHANGED <<held, theirs, waiting, offers, subject, received, returned>>
  BY DEF respond
<1>4. Grows
  BY <1>3, Same
<1>5. Fits(m, offers, theirs)
  <2>1. \A id \in theirs : id \in missing(n.bloom, theirs) \/ contains(from_ids(offers[r]), id)
    BY <1>2 DEF missing
  <2>2. missing(n.bloom, theirs) \subseteq theirs
    BY DEF missing
  <2>3. missing(n.bloom, theirs) \cap offers[r] = {}
    BY <1>2 DEF missing, contains, from_ids
  <2>4. r \in Nat /\ missing(n.bloom, theirs) \in SUBSET Id
    BY <1>2, <2>2 DEF DeltaInv, IdsTyped, Numbered
  <2>5. Suits(r, missing(n.bloom, theirs), offers, theirs)
    BY <1>2, <2>1, <2>2, <2>3 DEF Suits, DeltaInv, IdsTyped
  <2>6. m = [to |-> r, answers |-> r, atoms |-> missing(n.bloom, theirs)]
    BY <1>2
  <2> QED
    BY <2>4, <2>5, <2>6 DEF Fits, Reply
<1>6. MailFits'
  <2>1. \A k \in mail' : Fits(k, offers, theirs)
    BY <1>1, <1>5 DEF DeltaInv, MailFits
  <2> QED
    BY <1>3, <2>1 DEF MailFits
<1>7. SentFits' /\ BufferFits' /\ ReturnedFits'
  BY <1>1, <1>3, <1>4, SentStays, BufferStays, ReturnedStays DEF DeltaInv
<1> QED
  BY <1>3, <1>6, <1>7 DEF DeltaInv, IdsTyped, Numbered

LEMMA RequestStep == ASSUME DeltaInv, NEW t \in Caller, request(t) PROVE DeltaInv'
<1> DEFINE r == Len(offers) + 1
<1>1. /\ r <= MaxCalls /\ offers' = Append(offers, held) /\ subject' = Append(subject, r)
      /\ UNCHANGED <<held, theirs, received, mail, returned>>
      /\ \/ /\ waiting' = [waiting EXCEPT ![t] = r]
            /\ sent' = sent \cup {[request |-> r, bloom |-> from_ids(held)]}
         \/ UNCHANGED <<waiting, sent>>
  BY DEF request, SubjectOf
<1>2. /\ offers \in Seq(SUBSET Id) /\ subject \in Seq(Nat) /\ Len(subject) = Len(offers)
      /\ Len(offers) \in Nat /\ held \subseteq Id
  BY DEF DeltaInv, Numbered, IdsTyped
<1>3. /\ offers' \in Seq(SUBSET Id) /\ Len(offers') = r /\ offers'[r] = held
      /\ \A k \in 1..Len(offers) : offers'[k] = offers[k]
  BY <1>1, <1>2
<1>4. /\ subject' \in Seq(Nat) /\ Len(subject') = r /\ subject'[r] = r
      /\ \A k \in 1..Len(offers) : subject'[k] = subject[k]
  BY <1>1, <1>2
<1>5. Grows
  BY <1>1, <1>2, <1>3 DEF Grows, Extends
<1>6. Numbered'
  <2>1. /\ waiting \in [Caller -> 0..Len(offers)] /\ MaxCalls \in Nat
        /\ \A k \in 1..Len(offers) : subject[k] = k
    BY DEF DeltaInv, Numbered
  <2>2. r \in Nat /\ r \in 0..r /\ 0..Len(offers) \subseteq 0..r
        /\ 1..r = 1..Len(offers) \cup {r}
    BY <1>2
  <2> HIDE DEF r
  <2>3. waiting' \in [Caller -> 0..r]
    BY <1>1, <2>1, <2>2
  <2>4. \A k \in 1..r : subject'[k] = k
    BY <1>4, <2>1, <2>2
  <2> QED
    BY <1>1, <1>3, <1>4, <2>1, <2>3, <2>4 DEF Numbered
<1>7. SentFits'
  <2> SUFFICES ASSUME NEW m \in sent'
      PROVE m.request \in 1..Len(offers') /\ m.bloom = from_ids(offers'[m.request])
    BY DEF SentFits, from_ids
  <2>1. CASE m \in sent
    <3>1. m.request \in 1..Len(offers) /\ m.bloom = from_ids(offers[m.request])
      BY <2>1 DEF DeltaInv, SentFits
    <3>2. m.request \in 1..Len(offers') /\ offers'[m.request] = offers[m.request]
      BY <1>5, <3>1 DEF Grows, Extends
    <3> QED
      BY <3>1, <3>2
  <2>2. CASE m = [request |-> r, bloom |-> from_ids(held)]
    <3>1. m.request = r /\ m.bloom = from_ids(held)
      BY <2>2
    <3> QED
      BY <1>2, <1>3, <3>1
  <2> QED
    BY <1>1, <2>1, <2>2
<1>8. MailFits' /\ BufferFits' /\ ReturnedFits'
  BY <1>1, <1>5, MailStays, BufferStays, ReturnedStays DEF DeltaInv
<1>9. IdsTyped'
  BY <1>1 DEF DeltaInv, IdsTyped
<1> QED
  BY <1>6, <1>7, <1>8, <1>9 DEF DeltaInv

LEMMA DeltaQuietStep ==
  ASSUME DeltaInv, theirs \subseteq theirs', theirs' \subseteq Id, sent' \subseteq sent,
         mail' \subseteq mail, waiting' \in [Caller -> 0..Len(offers)],
         UNCHANGED <<held, offers, subject, received, returned>>
  PROVE  DeltaInv'
<1>1. Grows
  BY Same
<1>2. SentFits' /\ MailFits' /\ BufferFits' /\ ReturnedFits'
  BY <1>1, SentStays, MailStays, BufferStays, ReturnedStays DEF DeltaInv
<1>3. IdsTyped' /\ Numbered'
  BY DEF DeltaInv, IdsTyped, Numbered
<1> QED
  BY <1>2, <1>3 DEF DeltaInv

LEMMA ReceiveStep ==
  ASSUME DeltaInv, NEW m \in mail, mail' \subseteq mail,
         received' = [received EXCEPT ![m.to] = Append(@, m)],
         UNCHANGED <<held, theirs, waiting, offers, subject, sent, returned>>
  PROVE  DeltaInv'
<1>1. Grows
  BY Same
<1>2. SentFits' /\ MailFits' /\ ReturnedFits' /\ BufferFits'
  BY <1>1, SentStays, MailStays, BufferAppend, ReturnedStays DEF DeltaInv
<1>3. IdsTyped' /\ Numbered'
  BY DEF DeltaInv, IdsTyped, Numbered
<1> QED
  BY <1>2, <1>3 DEF DeltaInv

LEMMA DeltaInvStep == ASSUME DeltaAssumption, DeltaInv, [DeltaNext]_deltas PROVE DeltaInv'
<1>0. theirs \subseteq Id /\ waiting \in [Caller -> 0..Len(offers)]
  BY DEF DeltaInv, IdsTyped, Numbered
<1>1. CASE UNCHANGED deltas
  BY <1>0, <1>1, DeltaQuietStep DEF deltas
<1>2. ASSUME NEW t \in Caller, request(t) PROVE DeltaInv'
  BY <1>2, RequestStep
<1>3. ASSUME NEW t \in Caller, Take(t) PROVE DeltaInv'
  BY <1>3, TakeStep
<1>4. ASSUME NEW t \in Caller, Timeout(t) PROVE DeltaInv'
  <2>1. waiting' \in [Caller -> 0..Len(offers)]
    BY <1>0, <1>4 DEF Timeout, DeltaInv, Numbered
  <2> QED
    BY <1>0, <1>4, <2>1, DeltaQuietStep DEF Timeout
<1>5. ASSUME NEW r \in Requests, Subscribe(r) PROVE DeltaInv'
  BY <1>0, <1>5, DeltaQuietStep DEF Subscribe
<1>6. CASE respond
  BY <1>6, RespondStep
<1>7. CASE Receive
  <2>1. PICK m \in mail :
          /\ mail' = mail \ {m}
          /\ received' = IF m.to \in listening THEN [received EXCEPT ![m.to] = Append(@, m)] ELSE received
    BY <1>7 DEF Receive
  <2>2. CASE m.to \in listening
    BY <1>7, <2>1, <2>2, ReceiveStep DEF Receive
  <2>3. CASE m.to \notin listening
    BY <1>0, <1>7, <2>1, <2>3, DeltaQuietStep DEF Receive
  <2> QED
    BY <2>2, <2>3
<1>8. CASE BackoffTick
  BY <1>0, <1>8, DeltaQuietStep DEF BackoffTick
<1>9. CASE Learn
  BY <1>0, <1>9, DeltaQuietStep DEF Learn
<1>10. CASE Fault
  <2>1. UNCHANGED <<held, theirs, waiting, offers, subject, returned>>
    BY <1>10 DEF Fault
  <2>2. \/ \E m \in sent : sent' = sent \ {m} /\ UNCHANGED <<mail, received>>
        \/ \E m \in mail : mail' = mail \ {m} /\ UNCHANGED <<sent, received>>
        \/ \E m \in mail : /\ UNCHANGED <<sent, mail>>
                           /\ received' = [received EXCEPT ![m.to] = Append(@, m)]
    BY <1>10 DEF Fault
  <2>3. CASE UNCHANGED received /\ sent' \subseteq sent /\ mail' \subseteq mail
    BY <1>0, <2>1, <2>3, DeltaQuietStep
  <2>4. ASSUME NEW m \in mail, UNCHANGED <<sent, mail>>,
               received' = [received EXCEPT ![m.to] = Append(@, m)]
        PROVE  DeltaInv'
    BY <2>1, <2>4, ReceiveStep
  <2> QED
    BY <2>2, <2>3, <2>4
<1> QED
  BY <1>1, <1>2, <1>3, <1>4, <1>5, <1>6, <1>7, <1>8, <1>9, <1>10 DEF DeltaNext

(* What request returns answers that very request, with atoms the node had *)
(* not offered, and leaves the node with all its peer began with but what  *)
(* the filter hid: a reply that comes late goes to a subject that nobody   *)
(* waits on any more, because request draws a new one every time.          *)
THEOREM OwnReplyCorrect ==
  ASSUME DeltaAssumption PROVE DeltaSpec => []OwnReply
<1>1. DeltaInit => DeltaInv
  BY DeltaInvInit
<1>2. DeltaInv /\ [DeltaNext]_deltas => DeltaInv'
  BY DeltaInvStep
<1>3. DeltaInv => OwnReply
  <2> SUFFICES ASSUME ReturnedFits, returned # Unanswered
      PROVE LET ids == offers[returned.request] IN
            /\ returned.reply.answers = returned.request
            /\ returned.reply.atoms \cap ids = {}
            /\ returned.reply.atoms \subseteq theirs /\ returned.reply.atoms \subseteq held
            /\ \A id \in Begin[2] : id \in held \/ contains(from_ids(ids), id)
    BY DEF DeltaInv, OwnReply
  <2> QED
    BY DEF ReturnedFits, Suits
<1> QED
  BY <1>1, <1>2, <1>3, PTL DEF DeltaSpec

\* What a subject holds came after its subscription, and the backoff runs down.
Listened == \A r \in 1..MaxCalls : received[r] # << >> => r \in listening
Waits == backoff \in 0..Backoff /\ Backoff \in Nat

LEMMA ListenedStep ==
  ASSUME DeltaInv, Listened, [DeltaNext]_deltas
  PROVE  Listened'
<1>1. listening \subseteq listening'
  BY DEF DeltaNext, deltas, request, Take, Timeout, Subscribe, respond, Receive, BackoffTick,
         Learn, Fault
<1>2. \A r \in 1..MaxCalls : received'[r] # << >> => received[r] # << >> \/ r \in listening
  <2>1. CASE UNCHANGED received
    BY <2>1
  <2>2. ASSUME NEW m \in mail, m.to \in listening,
               received' = [received EXCEPT ![m.to] = Append(@, m)]
        PROVE  \A r \in 1..MaxCalls : received'[r] # << >> => received[r] # << >> \/ r \in listening
    BY <2>2 DEF DeltaInv, BufferFits
  <2>3. ASSUME NEW t \in Caller, Take(t)
        PROVE  \A r \in 1..MaxCalls : received'[r] # << >> => received[r] # << >> \/ r \in listening
    <3>1. received' = [received EXCEPT ![subject[waiting[t]]] = Front(@)]
      BY <2>3 DEF Take
    <3>2. received[subject[waiting[t]]] # << >>
      BY <2>3 DEF Take
    <3> QED
      BY <3>1, <3>2 DEF DeltaInv, BufferFits
  <2>4. Receive => \/ UNCHANGED received
                   \/ \E m \in mail : /\ m.to \in listening
                                      /\ received' = [received EXCEPT ![m.to] = Append(@, m)]
    BY DEF Receive
  <2>5. Fault => \/ UNCHANGED received
                 \/ \E m \in mail : /\ m.to \in listening
                                    /\ received' = [received EXCEPT ![m.to] = Append(@, m)]
    BY DEF Fault
  <2>6. (\E t \in Caller : request(t) \/ Timeout(t)) \/ (\E r \in Requests : Subscribe(r))
        \/ respond \/ BackoffTick \/ Learn \/ UNCHANGED deltas => UNCHANGED received
    BY DEF request, Timeout, Subscribe, respond, BackoffTick, Learn, deltas
  <2> QED
    BY <2>1, <2>2, <2>3, <2>4, <2>5, <2>6 DEF DeltaNext
<1> QED
  BY <1>1, <1>2 DEF Listened

LEMMA WaitsStep == ASSUME Waits, [DeltaNext]_deltas PROVE Waits'
  BY DEF Waits, DeltaNext, deltas, request, Take, Timeout, Subscribe, respond, Receive,
         BackoffTick, Learn, Fault, mark_failure

(* Every thread waits for a request that was made or for none, every       *)
(* request has a subject, what came in are replies on subjects listened    *)
(* on, and no backoff is longer than the one a timeout begins.             *)
THEOREM DeltaTypeCorrect ==
  ASSUME DeltaAssumption PROVE DeltaSpec => []DeltaTypeOK
<1>1. DeltaInit => DeltaInv /\ Listened /\ Waits
  BY DeltaInvInit DEF DeltaInit, Listened, Waits, DeltaAssumption
<1>2. DeltaInv /\ Listened /\ Waits /\ [DeltaNext]_deltas => (DeltaInv /\ Listened /\ Waits)'
  BY DeltaInvStep, ListenedStep, WaitsStep
<1>3. DeltaInv /\ Listened /\ Waits => DeltaTypeOK
  <2> SUFFICES ASSUME DeltaInv, Listened, Waits PROVE DeltaTypeOK
    OBVIOUS
  <2>1. \A r \in 1..MaxCalls : received[r] \in Seq(Reply)
    BY DEF DeltaInv, BufferFits, AllFit
  <2>2. waiting \in [Caller -> {0} \cup Requests] /\ DOMAIN subject = Requests
    BY DEF DeltaInv, Numbered, Requests
  <2> QED
    BY <2>1, <2>2 DEF DeltaTypeOK, DeltaInv, IdsTyped, Listened, Waits
<1> QED
  BY <1>1, <1>2, <1>3, PTL DEF DeltaSpec
-----------------------------------------------------------------------------
(* Membership. The powers of two come first: that Factor exists, and that  *)
(* it grows, is shown with the least number at which it would not.         *)

LEMMA SomeLeast ==
  ASSUME NEW S, S \subseteq Nat, S # {}
  PROVE  \E least \in S : \A n \in S : least <= n
<1>1. IsWellFoundedOn(OpToRel(<, Nat), Nat)
  BY NatLessThanWellFounded
<1>2. PICK least \in S : \A n \in S : ~(<<n, least>> \in OpToRel(<, Nat))
  BY <1>1, WFMin
<1>3. \A n \in S : ~(n < least)
  BY <1>2 DEF OpToRel
<1>4. \A n \in S : n \in Nat /\ least \in Nat
  OBVIOUS
<1> QED
  BY <1>3, <1>4

\* Tables of the first factors.
Doubling(n) ==
  {g \in [0..n -> Nat] : \A i \in 0..n : g[i] = IF i = 0 THEN 1 ELSE 2 * g[i - 1]}

LEMMA DoublingExists == \A n \in Nat : Doubling(n) # {}
<1> DEFINE S == {n \in Nat : Doubling(n) = {}}
<1>1. SUFFICES ASSUME S # {} PROVE FALSE
  OBVIOUS
<1>2. PICK n \in S : \A m \in S : n <= m
  BY <1>1, SomeLeast
<1>3. CASE n = 0
  <2>1. [i \in 0..0 |-> 1] \in Doubling(0)
    BY DEF Doubling
  <2> QED
    BY <1>2, <1>3, <2>1
<1>4. CASE n # 0
  <2>1. n - 1 \in Nat /\ n - 1 \notin S
    BY <1>2, <1>4
  <2>2. PICK g : g \in Doubling(n - 1)
    BY <2>1
  <2> DEFINE h == [i \in 0..n |-> IF i = n THEN 2 * g[n - 1] ELSE g[i]]
  <2>3. /\ g \in [0..n - 1 -> Nat]
        /\ \A i \in 0..n - 1 : g[i] = IF i = 0 THEN 1 ELSE 2 * g[i - 1]
    BY <2>2 DEF Doubling
  <2>4. \A i \in 0..n : h[i] \in Nat
    BY <1>2, <1>4, <2>3
  <2>5. \A i \in 0..n : h[i] = IF i = 0 THEN 1 ELSE 2 * h[i - 1]
    BY <1>2, <1>4, <2>3
  <2> QED
    BY <1>2, <2>4, <2>5 DEF Doubling
<1> QED
  BY <1>3, <1>4

LEMMA DoublingAgrees ==
  ASSUME NEW n \in Nat, NEW m \in Nat, NEW g \in Doubling(n), NEW h \in Doubling(m),
         NEW i \in Nat, i <= n, i <= m
  PROVE  g[i] = h[i]
<1> DEFINE S == {j \in Nat : j <= n /\ j <= m /\ g[j] # h[j]}
<1>1. SUFFICES ASSUME S # {} PROVE FALSE
  OBVIOUS
<1>2. PICK j \in S : \A k \in S : j <= k
  BY <1>1, SomeLeast
<1>3. /\ g[j] = IF j = 0 THEN 1 ELSE 2 * g[j - 1]
      /\ h[j] = IF j = 0 THEN 1 ELSE 2 * h[j - 1]
  BY DEF Doubling
<1>4. j # 0 => g[j - 1] = h[j - 1]
  BY <1>2
<1> QED
  BY <1>3, <1>4

LEMMA FactorIs ==
  Factor = [n \in Nat |-> IF n = 0 THEN 1 ELSE 2 * Factor[n - 1]]
<1> DEFINE powers(n) == CHOOSE g \in Doubling(n) : TRUE
           f == [n \in Nat |-> powers(n)[n]]
<1>1. \A n \in Nat : powers(n) \in Doubling(n)
  BY DoublingExists
<1> HIDE DEF powers
<1>2. ASSUME NEW n \in Nat PROVE f[n] = IF n = 0 THEN 1 ELSE 2 * f[n - 1]
  <2>1. powers(n)[n] = IF n = 0 THEN 1 ELSE 2 * powers(n)[n - 1]
    BY <1>1 DEF Doubling
  <2>2. n # 0 => powers(n)[n - 1] = powers(n - 1)[n - 1]
    BY <1>1, DoublingAgrees
  <2> QED
    BY <2>1, <2>2
<1>3. f = [n \in Nat |-> IF n = 0 THEN 1 ELSE 2 * f[n - 1]]
  BY <1>2
<1> HIDE DEF f
<1>4. \E g : g = [n \in Nat |-> IF n = 0 THEN 1 ELSE 2 * g[n - 1]]
  BY <1>3
<1> QED
  BY <1>4 DEF Factor

LEMMA FactorType == \A n \in Nat : Factor[n] \in Nat \ {0}
<1> DEFINE S == {n \in Nat : Factor[n] \notin Nat \ {0}}
<1>1. SUFFICES ASSUME S # {} PROVE FALSE
  OBVIOUS
<1>2. PICK n \in S : \A m \in S : n <= m
  BY <1>1, SomeLeast
<1>3. Factor[n] = IF n = 0 THEN 1 ELSE 2 * Factor[n - 1]
  BY FactorIs
<1>4. n # 0 => Factor[n - 1] \in Nat \ {0}
  BY <1>2
<1> QED
  BY <1>3, <1>4

LEMMA FactorGrows == \A m, n \in Nat : m <= n => Factor[m] <= Factor[n]
<1> SUFFICES ASSUME NEW m \in Nat PROVE \A n \in Nat : m <= n => Factor[m] <= Factor[n]
  OBVIOUS
<1> DEFINE S == {n \in Nat : m <= n /\ ~(Factor[m] <= Factor[n])}
<1>1. SUFFICES ASSUME S # {} PROVE FALSE
  OBVIOUS
<1>2. PICK n \in S : \A k \in S : n <= k
  BY <1>1, SomeLeast
<1>3. n # m
  BY FactorType
<1>4. Factor[n] = 2 * Factor[n - 1] /\ n - 1 \in Nat /\ m <= n - 1
  BY <1>3, FactorIs
<1>5. Factor[m] <= Factor[n - 1] /\ Factor[n - 1] \in Nat /\ Factor[m] \in Nat
  BY <1>2, <1>4, FactorType
<1> QED
  BY <1>4, <1>5
\* The wait after the k-th failure in a row, and what is left of it at an age.
Wait(k) == Base * Factor[Min2(k - 1, MaxShift)]
Remaining(k, ago) == IF k = 0 \/ ago >= Wait(k) THEN 0 ELSE Wait(k) - ago

LEMMA Product == \A m, n, b \in Nat : b * m \in Nat /\ (m <= n => b * m <= b * n)
<1> SUFFICES ASSUME NEW m \in Nat, NEW n \in Nat, NEW b \in Nat
             PROVE  b * m \in Nat /\ (m <= n => b * m <= b * n)
  OBVIOUS
<1>1. ASSUME m <= n PROVE b * m <= b * n
  <2>1. n - m \in Nat /\ n = m + (n - m)
    BY <1>1
  <2> DEFINE d == n - m
  <2> HIDE DEF d
  <2>2. b * (m + d) = b * m + b * d /\ b * m \in Nat /\ b * d \in Nat
    BY <2>1 DEF d
  <2>3. n = m + d
    BY <2>1 DEF d
  <2> QED
    BY <2>2, <2>3
<1> QED
  BY <1>1

LEMMA WaitIs ==
  ASSUME MemberAssumption, NEW k \in Nat \ {0}
  PROVE  /\ Wait(k) \in Nat /\ MaxBackoff \in Nat /\ Wait(k) <= MaxBackoff
         /\ Delay(k) = Wait(k)
         /\ Wait(k) = Min2(Base * Factor[k - 1], MaxBackoff)
         /\ Wait(k) > 0
<1> DEFINE e == Min2(k - 1, MaxShift)
<1>1. Base \in Nat \ {0} /\ MaxShift \in Nat /\ k - 1 \in Nat
  BY DEF MemberAssumption
<1>2. e \in Nat /\ e <= MaxShift /\ (e = k - 1 \/ (e = MaxShift /\ MaxShift <= k - 1))
  BY <1>1 DEF Min2
<1> HIDE DEF e
<1>3. /\ Factor[e] \in Nat \ {0} /\ Factor[k - 1] \in Nat \ {0} /\ Factor[MaxShift] \in Nat \ {0}
      /\ Factor[e] <= Factor[MaxShift]
      /\ MaxShift <= k - 1 => Factor[MaxShift] <= Factor[k - 1]
  BY <1>1, <1>2, FactorType, FactorGrows
<1>4. /\ Base * Factor[e] \in Nat /\ MaxBackoff \in Nat /\ Base * Factor[k - 1] \in Nat
      /\ Base * Factor[e] <= MaxBackoff
      /\ MaxShift <= k - 1 => MaxBackoff <= Base * Factor[k - 1]
  BY <1>1, <1>3, Product DEF MaxBackoff
<1>5. Base <= Base * Factor[e]
  <2>1. 1 <= Factor[e] /\ Base * 1 = Base
    BY <1>1, <1>3
  <2>2. Base * 1 <= Base * Factor[e]
    BY <1>1, <1>3, <2>1, Product
  <2> QED
    BY <2>1, <2>2
<1>6. Wait(k) = Base * Factor[e]
  BY DEF Wait, e
<1>7. Delay(k) = Wait(k)
  BY <1>1, <1>4, <1>5, <1>6 DEF Delay, Max2, e
<1>8. Wait(k) = Min2(Base * Factor[k - 1], MaxBackoff)
  <2>1. CASE e = k - 1
    BY <1>4, <1>6, <2>1 DEF Min2
  <2>2. CASE e = MaxShift /\ MaxShift <= k - 1
    BY <1>4, <1>6, <2>2 DEF Min2, MaxBackoff
  <2> QED
    BY <1>2, <2>1, <2>2
<1> QED
  BY <1>1, <1>4, <1>5, <1>6, <1>7, <1>8

(* What the struct keeps of a known peer is what happened to it: the age   *)
(* of the last sign of life, the failures in a row, and what is left of    *)
(* the wait since the last of them.                                        *)
KeptOf(seen, count, left, k, ago, mute) ==
  seen = mute /\ count = k /\ left = Remaining(k, ago)
AllKept ==
  \A p \in peers : KeptOf(last_seen[p], failure_count[p], backoff_until[p], in_a_row[p],
                        since[p], silent[p])

MemberInv == MemberTypeOK /\ AllKept

\* A tick takes one off what is left, and off nothing once the age is not counted on.
LEMMA RemainingTicks ==
  ASSUME MemberAssumption, NEW k \in Nat, NEW ago \in 0..MaxBackoff
  PROVE  Remaining(k, Min2(ago + 1, MaxBackoff))
           = IF Remaining(k, ago) > 0 THEN Remaining(k, ago) - 1 ELSE 0
<1>1. CASE k = 0
  BY <1>1 DEF Remaining
<1>2. CASE k # 0
  <2>1. Wait(k) \in Nat /\ MaxBackoff \in Nat /\ Wait(k) <= MaxBackoff
    BY <1>2, WaitIs
  <2> QED
    BY <1>2, <2>1 DEF Remaining, Min2
<1> QED
  BY <1>1, <1>2

LEMMA MemberBounds ==
  ASSUME MemberAssumption
  PROVE  /\ 0 \in 0..Expiry + 1 /\ 0 \in 0..MaxCounted /\ 0 \in 0..MaxBackoff
         /\ MaxBackoff \in Nat /\ MaxCounted \in Nat /\ Expiry \in Nat
         /\ \A k \in Nat \ {0} : Delay(k) \in 0..MaxBackoff
<1>1. MaxBackoff \in Nat /\ \A k \in Nat \ {0} : Delay(k) \in 0..MaxBackoff
  <2>1. 1 \in Nat \ {0}
    OBVIOUS
  <2>2. MaxBackoff \in Nat
    BY <2>1, WaitIs
  <2>3. \A k \in Nat \ {0} : Delay(k) \in Nat /\ Delay(k) <= MaxBackoff
    BY WaitIs
  <2> QED
    BY <2>2, <2>3
<1> QED
  BY <1>1 DEF MemberAssumption

LEMMA MemberInvInit == ASSUME MemberAssumption, MemberInit PROVE MemberInv
  BY MemberBounds DEF MemberInit, MemberInv, MemberTypeOK, AllKept

\* A peer that is well starts afresh, whatever was known of it.
LEMMA WellKept ==
  ASSUME MemberAssumption, MemberInv, NEW p \in Peer, Well(p), peers' \subseteq peers \cup {p}
  PROVE  /\ AllKept'
         /\ last_seen' \in [Peer -> 0..Expiry + 1] /\ silent' \in [Peer -> 0..Expiry + 1]
         /\ failure_count' \in [Peer -> 0..MaxCounted] /\ in_a_row' \in [Peer -> 0..MaxCounted]
         /\ backoff_until' \in [Peer -> 0..MaxBackoff] /\ since' \in [Peer -> 0..MaxBackoff]
<1>1. /\ last_seen' \in [Peer -> 0..Expiry + 1] /\ silent' \in [Peer -> 0..Expiry + 1]
      /\ failure_count' \in [Peer -> 0..MaxCounted] /\ in_a_row' \in [Peer -> 0..MaxCounted]
      /\ backoff_until' \in [Peer -> 0..MaxBackoff] /\ since' \in [Peer -> 0..MaxBackoff]
  BY MemberBounds DEF Well, MemberInv, MemberTypeOK
<1>2. ASSUME NEW q \in peers'
      PROVE  KeptOf(last_seen'[q], failure_count'[q], backoff_until'[q], in_a_row'[q],
                  since'[q], silent'[q])
  <2>1. CASE q = p
    BY <2>1 DEF Well, MemberInv, MemberTypeOK, KeptOf, Remaining
  <2>2. CASE q # p
    <3>1. q \in peers /\ q \in Peer
      BY <2>2 DEF MemberInv, MemberTypeOK
    <3>2. /\ last_seen'[q] = last_seen[q] /\ failure_count'[q] = failure_count[q]
          /\ backoff_until'[q] = backoff_until[q] /\ in_a_row'[q] = in_a_row[q]
          /\ since'[q] = since[q] /\ silent'[q] = silent[q]
      BY <2>2, <3>1 DEF Well, MemberInv, MemberTypeOK
    <3> QED
      BY <3>1, <3>2 DEF MemberInv, AllKept
  <2> QED
    BY <2>1, <2>2
<1> QED
  BY <1>1, <1>2 DEF AllKept

LEMMA MarkFailureKept ==
  ASSUME MemberAssumption, MemberInv, NEW p \in Peer, MarkFailure(p)
  PROVE  MemberInv'
<1> DEFINE k == failure_count[p] + 1
<1>1. /\ p \in peers /\ k \in 1..MaxCounted /\ in_a_row[p] = failure_count[p]
      /\ k \in Nat \ {0}
  BY MemberBounds DEF MarkFailure, MemberInv, MemberTypeOK, AllKept, KeptOf
<1>2. Delay(k) \in 0..MaxBackoff /\ Delay(k) = Remaining(k, 0)
  <2>1. Delay(k) \in 0..MaxBackoff
    BY <1>1, MemberBounds
  <2>2. Delay(k) = Wait(k) /\ Wait(k) \in Nat /\ Wait(k) > 0
    BY <1>1, WaitIs
  <2> QED
    BY <1>1, <2>1, <2>2 DEF Remaining
<1>3. /\ failure_count' = [failure_count EXCEPT ![p] = k]
      /\ in_a_row' = [in_a_row EXCEPT ![p] = in_a_row[p] + 1]
      /\ since' = [since EXCEPT ![p] = 0]
      /\ UNCHANGED <<peers, adverts, last_seen, silent>>
      /\ backoff_until' = [backoff_until EXCEPT ![p] = Delay(failure_count'[p])]
  BY DEF MarkFailure
<1>4. failure_count'[p] = k
  BY <1>3 DEF MemberInv, MemberTypeOK
<1>5. backoff_until' = [backoff_until EXCEPT ![p] = Delay(k)]
  BY <1>3, <1>4
<1> HIDE DEF k
<1>6. in_a_row[p] + 1 = k
  BY <1>1 DEF k
<1>7. MemberTypeOK'
  BY <1>1, <1>2, <1>3, <1>5, <1>6, MemberBounds DEF MemberInv, MemberTypeOK
<1>8. ASSUME NEW q \in peers
      PROVE  KeptOf(last_seen'[q], failure_count'[q], backoff_until'[q], in_a_row'[q],
                  since'[q], silent'[q])
  <2>1. q \in Peer
    BY DEF MemberInv, MemberTypeOK
  <2>2. KeptOf(last_seen[q], failure_count[q], backoff_until[q], in_a_row[q], since[q], silent[q])
    BY DEF MemberInv, AllKept
  <2>3. CASE q = p
    <3>1. failure_count'[q] = k /\ in_a_row'[q] = k /\ since'[q] = 0 /\ backoff_until'[q] = Delay(k)
      BY <1>3, <1>4, <1>5, <1>6, <2>1, <2>3 DEF MemberInv, MemberTypeOK
    <3> QED
      BY <1>2, <1>3, <2>2, <3>1 DEF KeptOf
  <2>4. CASE q # p
    <3>1. /\ failure_count'[q] = failure_count[q] /\ in_a_row'[q] = in_a_row[q]
          /\ since'[q] = since[q] /\ backoff_until'[q] = backoff_until[q]
      BY <1>3, <1>5, <2>1, <2>4 DEF MemberInv, MemberTypeOK
    <3> QED
      BY <1>3, <2>2, <3>1
  <2> QED
    BY <2>3, <2>4
<1> QED
  BY <1>3, <1>7, <1>8 DEF MemberInv, AllKept

LEMMA MemberTickKept ==
  ASSUME MemberAssumption, MemberInv, MemberTick
  PROVE  MemberInv'
<1>1. MemberTypeOK'
  <2>1. \A n \in 0..Expiry + 1 : Min2(n + 1, Expiry + 1) \in 0..Expiry + 1
    BY MemberBounds DEF Min2
  <2>2. \A n \in 0..MaxBackoff : /\ Min2(n + 1, MaxBackoff) \in 0..MaxBackoff
                                 /\ (IF n > 0 THEN n - 1 ELSE 0) \in 0..MaxBackoff
    BY MemberBounds DEF Min2
  <2> QED
    BY <2>1, <2>2 DEF MemberTick, MemberInv, MemberTypeOK
<1>2. ASSUME NEW q \in peers
      PROVE  KeptOf(last_seen'[q], failure_count'[q], backoff_until'[q], in_a_row'[q],
                  since'[q], silent'[q])
  <2>1. q \in Peer /\ in_a_row[q] \in Nat /\ since[q] \in 0..MaxBackoff
    BY DEF MemberInv, MemberTypeOK
  <2>2. KeptOf(last_seen[q], failure_count[q], backoff_until[q], in_a_row[q], since[q], silent[q])
    BY DEF MemberInv, AllKept
  <2>3. /\ last_seen'[q] = Min2(last_seen[q] + 1, Expiry + 1)
        /\ silent'[q] = Min2(silent[q] + 1, Expiry + 1)
        /\ since'[q] = Min2(since[q] + 1, MaxBackoff)
        /\ backoff_until'[q] = IF backoff_until[q] > 0 THEN backoff_until[q] - 1 ELSE 0
        /\ failure_count' = failure_count /\ in_a_row' = in_a_row
    BY <2>1 DEF MemberTick
  <2>4. Remaining(in_a_row[q], since'[q])
          = IF backoff_until[q] > 0 THEN backoff_until[q] - 1 ELSE 0
    BY <2>1, <2>2, <2>3, RemainingTicks DEF KeptOf
  <2> QED
    BY <2>2, <2>3, <2>4 DEF KeptOf
<1>3. peers' = peers
  BY DEF MemberTick
<1> QED
  BY <1>1, <1>2, <1>3 DEF MemberInv, AllKept

LEMMA ExpireKept ==
  ASSUME MemberAssumption, MemberInv, Expire
  PROVE  MemberInv'
<1>1. MemberTypeOK'
  BY MemberBounds DEF Expire, MemberInv, MemberTypeOK
<1>2. \A q \in peers' :
        /\ q \in peers /\ last_seen'[q] = last_seen[q] /\ failure_count'[q] = failure_count[q]
        /\ backoff_until'[q] = backoff_until[q] /\ UNCHANGED <<in_a_row, since, silent>>
  BY DEF Expire, MemberInv, MemberTypeOK
<1> QED
  BY <1>1, <1>2 DEF MemberInv, AllKept

LEMMA MemberInvStep ==
  ASSUME MemberAssumption, MemberInv, [MemberNext]_membership
  PROVE  MemberInv'
<1>1. ASSUME NEW p \in Peer, NEW info \in {{}, Advert}, Upsert(p, info) PROVE MemberInv'
  <2>1. peers' \subseteq Peer /\ peers' \subseteq peers \cup {p} /\ Well(p)
    BY <1>1 DEF Upsert, MemberInv, MemberTypeOK
  <2>2. adverts' \in [Peer -> SUBSET Advert]
    BY <1>1 DEF Upsert, MemberInv, MemberTypeOK
  <2> QED
    BY <2>1, <2>2, WellKept DEF MemberInv, MemberTypeOK
<1>2. ASSUME NEW p \in Peer, NEW a \in Advert, ApplySummaryAdvert(p, a) PROVE MemberInv'
  <2>1. MemberTypeOK'
    BY <1>2, MemberBounds DEF ApplySummaryAdvert, MemberInv, MemberTypeOK
  <2>2. \A q \in peers : last_seen[q] = silent[q] => last_seen'[q] = silent'[q]
    BY <1>2 DEF ApplySummaryAdvert, MemberInv, MemberTypeOK
  <2>3. UNCHANGED <<peers, failure_count, backoff_until, in_a_row, since>>
    BY <1>2 DEF ApplySummaryAdvert
  <2> QED
    BY <2>1, <2>2, <2>3 DEF MemberInv, AllKept, KeptOf
<1>3. ASSUME NEW p \in Peer, MarkSeen(p) PROVE MemberInv'
  <2>1. Well(p) /\ UNCHANGED <<peers, adverts>>
    BY <1>3 DEF MarkSeen
  <2> QED
    BY <2>1, WellKept DEF MemberInv, MemberTypeOK
<1>4. ASSUME NEW p \in Peer, MarkFailure(p) PROVE MemberInv'
  BY <1>4, MarkFailureKept
<1>5. CASE Expire
  BY <1>5, ExpireKept
<1>6. CASE MemberTick
  BY <1>6, MemberTickKept
<1>7. CASE UNCHANGED membership
  BY <1>7 DEF membership, state, history, MemberInv, MemberTypeOK, AllKept
<1> QED
  BY <1>1, <1>2, <1>3, <1>4, <1>5, <1>6, <1>7 DEF MemberNext

(* Whatever is heard of peers and however long they are silent, ages stop  *)
(* at expiry, and no wait is longer than the capped backoff.               *)
THEOREM MemberTypeCorrect ==
  ASSUME MemberAssumption PROVE MemberSpec => []MemberTypeOK
<1>1. MemberInit => MemberInv
  BY MemberInvInit
<1>2. MemberInv /\ [MemberNext]_membership => MemberInv'
  BY MemberInvStep
<1>3. MemberInv => MemberTypeOK
  BY DEF MemberInv
<1> QED
  BY <1>1, <1>2, <1>3, PTL DEF MemberSpec

(* For any expiry, base and cap, a peer that failed k times in a row since *)
(* it was last well is backing off for base * 2^(k-1), capped, after the   *)
(* last failure, and is offered from then on.                              *)
THEOREM BackoffExactCorrect ==
  ASSUME MemberAssumption PROVE MemberSpec => []BackoffExact
<1>1. MemberInit => MemberInv
  BY MemberInvInit
<1>2. MemberInv /\ [MemberNext]_membership => MemberInv'
  BY MemberInvStep
<1>3. ASSUME MemberInv PROVE BackoffExact
  <2>1. SUFFICES ASSUME NEW p \in peers
                 PROVE /\ backoff_until[p] = 0 <=>
                            \/ in_a_row[p] = 0
                            \/ since[p] >= Min2(Base * Factor[in_a_row[p] - 1], MaxBackoff)
                       /\ backoff_until[p] \in Nat
    BY DEF BackoffExact, eligible_peers, is_backing_off
  <2>2. /\ in_a_row[p] \in Nat /\ since[p] \in Nat /\ backoff_until[p] \in Nat
        /\ backoff_until[p] = Remaining(in_a_row[p], since[p])
    BY <1>3, MemberBounds DEF MemberInv, MemberTypeOK, AllKept, KeptOf
  <2>3. in_a_row[p] # 0 =>
          /\ Wait(in_a_row[p]) \in Nat
          /\ Wait(in_a_row[p]) = Min2(Base * Factor[in_a_row[p] - 1], MaxBackoff)
    BY <2>2, WaitIs
  <2> QED
    BY <2>2, <2>3 DEF Remaining
<1> QED
  BY <1>1, <1>2, <1>3, PTL DEF MemberSpec

(* For any expiry, a peer becomes unknown only in a round of the gossip    *)
(* loop, after which every peer that is left has given a sign of life      *)
(* within expiry, and none that has was taken out.                         *)
THEOREM ExpiresSilentCorrect ==
  ASSUME MemberAssumption PROVE MemberSpec => ExpiresSilent
<1>1. MemberInit => MemberInv
  BY MemberInvInit
<1>2. MemberInv /\ [MemberNext]_membership => MemberInv'
  BY MemberInvStep
<1>3. ASSUME MemberInv, [MemberNext]_membership
      PROVE  [peers \ peers' # {} =>
                /\ \A p \in peers \ peers' : silent[p] > Expiry
                /\ \A p \in peers' : silent[p] <= Expiry]_membership
  <2>1. SUFFICES ASSUME peers \ peers' # {}
                 PROVE /\ \A p \in peers \ peers' : silent[p] > Expiry
                       /\ \A p \in peers' : silent[p] <= Expiry
    OBVIOUS
  <2>2. Expire
    <3>1. ~(peers \subseteq peers')
      BY <2>1
    <3> QED
      BY <1>3, <3>1 DEF MemberNext, Upsert, ApplySummaryAdvert, MarkSeen, MarkFailure, MemberTick,
                        membership, state
  <2>3. /\ \A p \in peers : last_seen[p] = silent[p] /\ silent[p] \in Nat
        /\ Expiry \in Nat
    BY <1>3, MemberBounds DEF MemberInv, MemberTypeOK, AllKept, KeptOf
  <2> QED
    BY <2>2, <2>3 DEF Expire, Expired
<1> QED
  BY <1>1, <1>2, <1>3, PTL DEF MemberSpec, ExpiresSilent

-----------------------------------------------------------------------------
(* Presence.                                                               *)

(* An entry was made with the ttl of the node that holds it.               *)
OwnTtl == \A n \in NodeId : \A r \in table[n] : r.ttl = Ttl[n]

(* Who is heard of, and runs no more, died no longer ago than his last     *)
(* hello was sent.                                                         *)
DiedLately ==
  /\ \A m \in air : m.from \in running \/ age[m.from] <= m.age
  /\ \A n \in NodeId : \A r \in table[n] :
       r.peer \in running \/ age[r.peer] <= r.age + Latency \/ r.age > r.ttl

(* A round of p fits into the ttl of n; and for more than x ticks p has    *)
(* run, n has heard what comes in, and no hello of p to n was lost.        *)
Undisturbed(n, p, x) ==
  Ttl[p] \div 2 + Latency <= Ttl[n] /\ age[p] > x /\ missed[n][p] > x

OnTheWay(p, n) == {m \in air : m.from = p /\ m.to = n}
Heard(n, p, x) == \E r \in table[n] : r.peer = p /\ r.age <= x

(* The hello of the last round is on its way or was heard.                 *)
LastRound ==
  \A n \in hearing, p \in running :
    Undisturbed(n, p, Interval(p) - sleep[p]) =>
      \/ \E m \in OnTheWay(p, n) : m.age = Interval(p) - sleep[p]
      \/ Heard(n, p, Interval(p) - sleep[p])

(* Behind a hello on its way there is an older one, or that of the round   *)
(* before it was heard.                                                    *)
RoundBefore ==
  \A n \in hearing, p \in running : \A m \in OnTheWay(p, n) :
    Undisturbed(n, p, m.age + Interval(p)) =>
      \/ \E q \in OnTheWay(p, n) : m.age < q.age
      \/ Heard(n, p, m.age + Interval(p))

PresenceInv == PresenceTypeOK /\ OwnTtl /\ DiedLately /\ LastRound /\ RoundBefore

LEMMA Times ==
  ASSUME PresenceAssumption, NEW n \in NodeId
  PROVE  /\ Ttl[n] \in Nat /\ Interval(n) \in Nat /\ 0 < Interval(n) /\ Latency \in Nat
         /\ Round(n) = Interval(n) + Latency
         /\ Longest \in Nat /\ Ttl[n] + Latency + 1 <= Longest
         /\ Interval(n) <= Ttl[n]
<1>1. /\ Ttl[n] \in Nat /\ Ttl[n] > 0 /\ Ttl[n] % 2 = 0 /\ Latency \in Nat
  BY DEF PresenceAssumption
<1>2. Interval(n) \in Nat /\ 0 < Interval(n) /\ Interval(n) <= Ttl[n]
  BY <1>1 DEF Interval
<1>3. \E k \in {Ttl[p] + Latency + 1 : p \in NodeId} :
        \A p \in NodeId : Ttl[p] + Latency + 1 <= k
  <2>1. PICK q \in NodeId : \A p \in NodeId : Ttl[p] <= Ttl[q]
    BY DEF PresenceAssumption
  <2>2. \A p \in NodeId : Ttl[p] + Latency + 1 <= Ttl[q] + Latency + 1
    BY <1>1, <2>1 DEF PresenceAssumption
  <2> QED
    BY <2>2
<1>4. /\ Longest \in {Ttl[p] + Latency + 1 : p \in NodeId}
      /\ \A p \in NodeId : Ttl[p] + Latency + 1 <= Longest
  BY <1>3 DEF Longest
<1>5. Longest \in Nat
  BY <1>1, <1>4 DEF PresenceAssumption
<1> QED
  BY <1>1, <1>2, <1>4, <1>5 DEF Round

(* What the invariant says of single entries and hellos.                   *)
LEMMA EntryType ==
  ASSUME PresenceAssumption, PresenceInv, NEW n \in NodeId
  PROVE  /\ \A r \in table[n] : /\ r \in [peer : NodeId, age : 0..Longest, ttl : Range(Ttl)]
                                /\ r.age \in Nat /\ r.ttl = Ttl[n] /\ r.peer \in NodeId
         /\ age[n] \in 0..Longest /\ \A p \in NodeId : missed[n][p] \in 0..Longest
         /\ sleep[n] \in Nat /\ sleep[n] <= Interval(n)
         /\ Interval(n) - sleep[n] \in 0..Interval(n)
         /\ \A m \in air : m.from \in NodeId /\ m.to \in NodeId /\ m.age \in 0..Latency
         /\ \A p : Heard(n, p, 0) => \A x \in Nat : Heard(n, p, x)
<1>1. Interval(n) \in Nat /\ Longest \in Nat
  BY Times
<1>2. \A r \in table[n] : /\ r \in [peer : NodeId, age : 0..Longest, ttl : Range(Ttl)]
                          /\ r.age \in Nat /\ r.ttl = Ttl[n] /\ r.peer \in NodeId
  BY <1>1 DEF PresenceInv, PresenceTypeOK, OwnTtl
<1>3. /\ age[n] \in 0..Longest /\ \A p \in NodeId : missed[n][p] \in 0..Longest
      /\ sleep[n] \in Nat /\ sleep[n] <= Interval(n)
      /\ \A m \in air : m.from \in NodeId /\ m.to \in NodeId /\ m.age \in 0..Latency
  BY <1>1 DEF PresenceInv, PresenceTypeOK
<1>4. \A p : Heard(n, p, 0) => \A x \in Nat : Heard(n, p, x)
  BY <1>2 DEF Heard
<1> QED
  BY <1>1, <1>2, <1>3, <1>4

LEMMA PresenceInitInv ==
  ASSUME PresenceAssumption, PresenceInit
  PROVE  PresenceInv
<1> USE DEF PresenceInit
<1>1. \A n \in NodeId : Longest \in Nat /\ Interval(n) \in Nat
  BY Times
<1>2. PresenceTypeOK
  BY <1>1 DEF PresenceTypeOK, PresenceAssumption
<1> QED
  BY <1>2 DEF PresenceInv, OwnTtl, DiedLately, LastRound, RoundBefore

(* A node is put into a table: its entry is new, the others stay.          *)
LEMMA Upserted ==
  ASSUME PresenceAssumption, PresenceInv, NEW n \in NodeId, NEW p \in NodeId,
         table' = [table EXCEPT ![n] = upsert(n, p)]
  PROVE  /\ table' \in [NodeId -> SUBSET [peer : NodeId, age : 0..Longest, ttl : Range(Ttl)]]
         /\ \A q \in NodeId : \A r, s \in table'[q] : r.peer = s.peer => r = s
         /\ OwnTtl'
         /\ \A x \in Nat : Heard(n, p, x)'
         /\ \A q, c : q # n \/ c # p => \A x : Heard(q, c, x) => Heard(q, c, x)'
         /\ \A q \in NodeId : \A r \in table'[q] :
              r \in table[q] \/ (q = n /\ r.peer = p /\ r.age = 0)
<1> DEFINE Entries == [peer : NodeId, age : 0..Longest, ttl : Range(Ttl)]
           new == [peer |-> p, age |-> 0, ttl |-> Ttl[n]]
<1>1. table \in [NodeId -> SUBSET Entries]
  BY DEF PresenceInv, PresenceTypeOK
<1>2. new \in Entries /\ new.peer = p /\ new.age = 0 /\ new.ttl = Ttl[n]
  BY Times DEF PresenceAssumption, Range
<1>3. /\ table'[n] = {r \in table[n] : r.peer # p} \cup {new}
      /\ \A q \in NodeId : q # n => table'[q] = table[q]
  BY <1>1 DEF upsert
<1> HIDE DEF Entries, new
<1>4. table' \in [NodeId -> SUBSET Entries]
  <2>1. upsert(n, p) \in SUBSET Entries
    BY <1>1, <1>2 DEF upsert, new
  <2> QED
    BY <1>1, <2>1
<1>5. \A q \in NodeId : \A r, s \in table'[q] : r.peer = s.peer => r = s
  BY <1>2, <1>3 DEF PresenceInv, PresenceTypeOK
<1>6. OwnTtl'
  BY <1>2, <1>3 DEF PresenceInv, OwnTtl
<1>7. \A x \in Nat : Heard(n, p, x)'
  BY <1>2, <1>3 DEF Heard
<1>8. ASSUME NEW q, NEW c, q # n \/ c # p, NEW x, Heard(q, c, x)
      PROVE  Heard(q, c, x)'
  <2>1. PICK r \in table[q] : r.peer = c /\ r.age <= x
    BY <1>8 DEF Heard
  <2>2. CASE q = n
    BY <1>3, <1>8, <2>1, <2>2 DEF Heard
  <2>3. CASE q # n
    <3>1. table'[q] = table[q]
      BY <2>3, <1>1
    <3> QED
      BY <2>1, <3>1 DEF Heard
  <2> QED
    BY <2>2, <2>3
<1>9. \A q \in NodeId : \A r \in table'[q] :
        r \in table[q] \/ (q = n /\ r.peer = p /\ r.age = 0)
  BY <1>2, <1>3
<1> QED
  BY <1>4, <1>5, <1>6, <1>7, <1>8, <1>9 DEF Entries

-----------------------------------------------------------------------------
LEMMA StartStep ==
  ASSUME PresenceAssumption, PresenceInv, NEW n \in NodeId, start_presence_loop(n)
  PROVE  PresenceInv'
<1> USE DEF PresenceInv
<1>1. /\ running' = running \cup {n} /\ table' = [table EXCEPT ![n] = upsert(n, n)]
      /\ sleep' = [sleep EXCEPT ![n] = 0] /\ age' = [age EXCEPT ![n] = 0]
      /\ UNCHANGED <<hearing, air, missed, stops, losses>>
  BY DEF start_presence_loop
<1>2. /\ age'[n] = 0 /\ \A p \in NodeId : p # n => age'[p] = age[p] /\ sleep'[p] = sleep[p]
      /\ age' \in [NodeId -> 0..Longest] /\ sleep' \in [NodeId -> Nat] /\ sleep'[n] = 0
  BY <1>1, Times DEF PresenceTypeOK
<1>3. PresenceTypeOK'
  <2>1. /\ table' \in [NodeId -> SUBSET [peer : NodeId, age : 0..Longest, ttl : Range(Ttl)]]
        /\ \A q \in NodeId : \A r, c \in table'[q] : r.peer = c.peer => r = c
    BY <1>1, Upserted
  <2>2. \A q \in NodeId : sleep'[q] <= Interval(q)
    BY <1>2, Times DEF PresenceTypeOK
  <2> QED
    BY <1>1, <1>2, <2>1, <2>2 DEF PresenceTypeOK
<1>4. OwnTtl'
  BY <1>1, Upserted
<1>5. DiedLately'
  <2>1. \A m \in air : m.from \in running' \/ age'[m.from] <= m.age
    BY <1>1, <1>2, EntryType DEF DiedLately
  <2>2. ASSUME NEW q \in NodeId, NEW r \in table'[q]
        PROVE  r.peer \in running' \/ age'[r.peer] <= r.age + Latency \/ r.age > r.ttl
    <3>1. CASE r \in table[q]
      BY <1>1, <1>2, <3>1, EntryType DEF DiedLately
    <3>2. CASE r.peer = n
      BY <1>1, <3>2
    <3>3. r \in table[q] \/ r.peer = n
      <4>1. \A c \in NodeId : \A e \in table'[c] :
              e \in table[c] \/ (c = n /\ e.peer = n /\ e.age = 0)
        BY <1>1, Upserted
      <4> QED
        BY <2>2, <4>1
    <3> QED
      BY <3>1, <3>2, <3>3
  <2> QED
    BY <1>1, <2>1, <2>2 DEF DiedLately
<1>6. n \notin hearing
  BY DEF start_presence_loop, PresenceTypeOK
<1>7. \A q, p : q # n \/ p # n => \A x : Heard(q, p, x) => Heard(q, p, x)'
  BY <1>1, Upserted
<1>8. LastRound'
  <2>1. SUFFICES ASSUME NEW q \in hearing', NEW p \in running',
                        Undisturbed(q, p, Interval(p) - sleep[p])'
                 PROVE  \/ \E m \in OnTheWay(p, q) : m.age = Interval(p) - sleep'[p]
                        \/ Heard(q, p, Interval(p) - sleep[p])'
    BY <1>1 DEF LastRound, OnTheWay, Interval
  <2>2. q \in NodeId /\ p \in NodeId /\ Interval(p) - sleep'[p] \in Nat
    BY <1>1, <1>2, EntryType, Times DEF PresenceTypeOK
  <2>3. q # n /\ p # n
    BY <1>1, <1>2, <1>6, <2>1, <2>2 DEF Undisturbed
  <2>4. q \in hearing /\ p \in running /\ sleep'[p] = sleep[p]
        /\ Undisturbed(q, p, Interval(p) - sleep[p])
    BY <1>1, <1>2, <2>1, <2>2, <2>3 DEF Undisturbed, Interval
  <2>5. \/ \E m \in OnTheWay(p, q) : m.age = Interval(p) - sleep[p]
        \/ Heard(q, p, Interval(p) - sleep[p])
    BY <2>4 DEF LastRound
  <2> QED
    BY <1>7, <2>3, <2>4, <2>5 DEF Heard, Interval
<1>9. RoundBefore'
  <2>1. SUFFICES ASSUME NEW q \in hearing', NEW p \in running', NEW m \in OnTheWay(p, q),
                        Undisturbed(q, p, m.age + Interval(p))'
                 PROVE  \/ \E k \in OnTheWay(p, q) : m.age < k.age
                        \/ Heard(q, p, m.age + Interval(p))'
    BY <1>1 DEF RoundBefore, OnTheWay, Interval
  <2>2. q \in NodeId /\ p \in NodeId /\ m.age + Interval(p) \in Nat
    BY <1>1, EntryType, Times DEF PresenceTypeOK, OnTheWay
  <2>3. q # n /\ p # n /\ Undisturbed(q, p, m.age + Interval(p))
    BY <1>1, <1>2, <1>6, <2>1, <2>2 DEF Undisturbed, Interval
  <2>4. q \in hearing /\ p \in running
    BY <1>1, <2>1, <2>3
  <2>5. \/ \E k \in OnTheWay(p, q) : m.age < k.age
        \/ Heard(q, p, m.age + Interval(p))
    BY <2>1, <2>3, <2>4 DEF RoundBefore
  <2> QED
    BY <1>1, <1>7, <2>3, <2>5 DEF Heard, Interval
<1> QED
  BY <1>3, <1>4, <1>5, <1>8, <1>9

(* Steps by which no round begins and no time goes by: what was on its way *)
(* to a node that was not disturbed still is, or was heard just now.       *)
LEMMA CalmStep ==
  ASSUME PresenceAssumption, PresenceInv, PresenceTypeOK', running' \subseteq running,
         sleep' = sleep, air' \subseteq air,
         \A q \in hearing', p \in running' : \A x \in Nat :
           Undisturbed(q, p, x)' =>
             /\ q \in hearing /\ Undisturbed(q, p, x)
             /\ \A m \in OnTheWay(p, q) : m \in air' \/ Heard(q, p, 0)'
             /\ x <= Round(p) /\ Heard(q, p, x) => Heard(q, p, x)'
  PROVE  LastRound' /\ RoundBefore'
<1> USE DEF PresenceInv
<1>0. hearing' \subseteq NodeId
  BY DEF PresenceTypeOK
<1>1. ASSUME NEW q \in hearing', NEW p \in running', NEW x \in Nat, Heard(q, p, 0)'
      PROVE  Heard(q, p, x)'
  <2>1. PICK r \in table'[q] : r.peer = p /\ r.age <= 0
    BY <1>1 DEF Heard
  <2>2. r.age \in Nat
    BY Times, <1>0, <2>1 DEF PresenceTypeOK
  <2> QED
    BY <2>1, <2>2 DEF Heard
<1>2. \A p \in running : /\ p \in NodeId /\ Interval(p) \in Nat /\ Latency \in Nat
                         /\ Interval(p) - sleep[p] \in Nat
                         /\ Interval(p) - sleep[p] <= Round(p)
  BY EntryType, Times DEF PresenceTypeOK
<1>3. LastRound'
  <2>1. SUFFICES ASSUME NEW q \in hearing', NEW p \in running',
                        Undisturbed(q, p, Interval(p) - sleep[p])'
                 PROVE  \/ \E m \in OnTheWay(p, q)' : m.age = Interval(p) - sleep[p]
                        \/ Heard(q, p, Interval(p) - sleep[p])'
    BY DEF LastRound, Interval
  <2> DEFINE x == Interval(p) - sleep[p]
  <2>2. x' = x /\ x \in Nat /\ x <= Round(p)
    BY <1>2 DEF Interval
  <2>3. \/ \E m \in OnTheWay(p, q) : m.age = x
        \/ Heard(q, p, x)
    BY <2>1, <2>2 DEF LastRound, Undisturbed
  <2> QED
    BY <1>1, <2>1, <2>2, <2>3 DEF OnTheWay, Undisturbed, Heard
<1>4. RoundBefore'
  <2>1. SUFFICES ASSUME NEW q \in hearing', NEW p \in running', NEW m \in OnTheWay(p, q)',
                        Undisturbed(q, p, m.age + Interval(p))'
                 PROVE  \/ \E k \in OnTheWay(p, q)' : m.age < k.age
                        \/ Heard(q, p, m.age + Interval(p))'
    BY DEF RoundBefore, Interval
  <2>2. m \in OnTheWay(p, q)
    BY DEF OnTheWay
  <2>3. m.age + Interval(p) \in Nat /\ m.age + Interval(p) <= Round(p)
    BY <1>2, <2>2, EntryType, Times DEF OnTheWay
  <2>4. q \in hearing /\ Undisturbed(q, p, m.age + Interval(p))
    BY <2>1, <2>3 DEF Undisturbed, Interval
  <2>5. \/ \E k \in OnTheWay(p, q) : m.age < k.age
        \/ Heard(q, p, m.age + Interval(p))
    BY <2>2, <2>4 DEF RoundBefore
  <2> QED
    BY <1>1, <2>1, <2>3, <2>5 DEF OnTheWay, Undisturbed, Heard, Interval
<1> QED
  BY <1>3, <1>4

LEMMA StopStep ==
  ASSUME PresenceAssumption, PresenceInv, NEW n \in NodeId, StopNode(n)
  PROVE  PresenceInv'
<1> USE DEF PresenceInv
<1>1. /\ running' = running \ {n} /\ hearing' = hearing \ {n} /\ stops' = stops + 1 /\ stops < MaxStops
      /\ table' = [table EXCEPT ![n] = {}] /\ air' = {m \in air : m.to # n}
      /\ age' = [age EXCEPT ![n] = 0] /\ UNCHANGED <<sleep, missed, losses>>
  BY DEF StopNode
<1>2. /\ \A q \in NodeId : q # n => age'[q] = age[q] /\ table'[q] = table[q]
      /\ age'[n] = 0 /\ age' \in [NodeId -> 0..Longest] /\ table'[n] = {}
  BY <1>1, Times DEF PresenceTypeOK
<1>3. PresenceTypeOK'
  <2>1. stops' \in 0..MaxStops
    BY <1>1 DEF PresenceTypeOK, PresenceAssumption
  <2>2. /\ table' \in [NodeId -> SUBSET [peer : NodeId, age : 0..Longest, ttl : Range(Ttl)]]
        /\ \A q \in NodeId : \A r, c \in table'[q] : r.peer = c.peer => r = c
    BY <1>1, <1>2 DEF PresenceTypeOK
  <2> QED
    BY <1>1, <1>2, <2>1, <2>2 DEF PresenceTypeOK
<1>4. OwnTtl'
  BY <1>2 DEF OwnTtl
<1>5. DiedLately'
  BY <1>1, <1>2, EntryType, Times DEF DiedLately
<1>6. LastRound' /\ RoundBefore'
  BY <1>1, <1>2, <1>3, CalmStep DEF PresenceTypeOK, Undisturbed, OnTheWay, Heard
<1> QED
  BY <1>3, <1>4, <1>5, <1>6

(* Whoever has only just subscribed is not undisturbed yet.                *)
LEMMA SubscribeStep ==
  ASSUME PresenceAssumption, PresenceInv, NEW n \in NodeId, subscribe_hello(n)
  PROVE  PresenceInv'
<1> USE DEF PresenceInv
<1>1. /\ n \in running /\ hearing' = hearing \cup {n}
      /\ missed' = [missed EXCEPT ![n] = [p \in NodeId |-> 0]]
      /\ UNCHANGED <<running, table, sleep, air, age, stops, losses>>
  BY DEF subscribe_hello
<1>2. /\ missed' \in [NodeId -> [NodeId -> 0..Longest]]
      /\ \A p \in NodeId : missed'[n][p] = 0
      /\ \A q \in NodeId : q # n => missed'[q] = missed[q]
  BY <1>1, Times DEF PresenceTypeOK
<1>3. PresenceTypeOK'
  BY <1>1, <1>2 DEF PresenceTypeOK
<1>4. OwnTtl' /\ DiedLately'
  BY <1>1 DEF OwnTtl, DiedLately
<1>5. ASSUME NEW q \in hearing', NEW p \in running', NEW x \in Nat, Undisturbed(q, p, x)'
      PROVE  q \in hearing /\ Undisturbed(q, p, x)
  <2>1. q \in NodeId /\ p \in NodeId
    BY <1>3 DEF PresenceTypeOK
  <2>2. q # n
    BY <1>2, <1>5, <2>1 DEF Undisturbed
  <2> QED
    BY <1>1, <1>2, <1>5, <2>1, <2>2 DEF Undisturbed
<1>6. LastRound' /\ RoundBefore'
  BY <1>1, <1>3, <1>5, CalmStep DEF OnTheWay, Heard
<1> QED
  BY <1>3, <1>4, <1>6

LEMMA HearStep ==
  ASSUME PresenceAssumption, PresenceInv, NEW m \in air, HearHello(m)
  PROVE  PresenceInv'
<1> USE DEF PresenceInv
<1>1. /\ air' = air \ {m} /\ table' = [table EXCEPT ![m.to] = upsert(m.to, m.from)]
      /\ UNCHANGED <<running, hearing, sleep, age, missed, stops, losses>>
  BY DEF HearHello
<1>2. m.to \in NodeId /\ m.from \in NodeId /\ m.age \in 0..Latency
  BY DEF PresenceTypeOK
<1>3. /\ table' \in [NodeId -> SUBSET [peer : NodeId, age : 0..Longest, ttl : Range(Ttl)]]
      /\ \A q \in NodeId : \A r, c \in table'[q] : r.peer = c.peer => r = c
      /\ OwnTtl'
      /\ \A x \in Nat : Heard(m.to, m.from, x)'
      /\ \A q, c : q # m.to \/ c # m.from => \A x : Heard(q, c, x) => Heard(q, c, x)'
      /\ \A q \in NodeId : \A r \in table'[q] :
           r \in table[q] \/ (q = m.to /\ r.peer = m.from /\ r.age = 0)
  BY <1>1, <1>2, Upserted
<1>4. PresenceTypeOK'
  BY <1>1, <1>3 DEF PresenceTypeOK
<1>5. DiedLately'
  <2>1. ASSUME NEW q \in NodeId, NEW r \in table'[q]
        PROVE  r.peer \in running \/ age[r.peer] <= r.age + Latency \/ r.age > r.ttl
    <3>1. CASE r \in table[q]
      BY <3>1 DEF DiedLately
    <3>2. CASE r.peer = m.from /\ r.age = 0
      <4>1. m.from \in running \/ age[m.from] <= m.age
        BY DEF DiedLately
      <4>2. age[m.from] \in Nat /\ Latency \in Nat
        BY <1>2, EntryType, Times
      <4> QED
        BY <1>2, <3>2, <4>1, <4>2
    <3> QED
      BY <1>3, <3>1, <3>2
  <2> QED
    BY <1>1, <2>1 DEF DiedLately
<1>6. ASSUME NEW q, NEW p, NEW k \in OnTheWay(p, q)
      PROVE  k \in air' \/ Heard(q, p, 0)'
  BY <1>1, <1>3 DEF OnTheWay
<1>7. \A q, p : \A x \in Nat : Heard(q, p, x) => Heard(q, p, x)'
  BY <1>3
<1>8. LastRound' /\ RoundBefore'
  BY <1>1, <1>4, <1>6, <1>7, CalmStep DEF Undisturbed
<1> QED
  BY <1>3, <1>4, <1>5, <1>8

LEMMA LoseStep ==
  ASSUME PresenceAssumption, PresenceInv, NEW m \in air, LoseHello(m)
  PROVE  PresenceInv'
<1> USE DEF PresenceInv
<1>1. /\ air' = air \ {m} /\ losses < MaxLost /\ losses' = losses + 1
      /\ missed' = [missed EXCEPT ![m.to][m.from] = 0]
      /\ UNCHANGED <<running, hearing, table, sleep, age, stops>>
  BY DEF LoseHello
<1>2. m.to \in NodeId /\ m.from \in NodeId
  BY DEF PresenceTypeOK
<1>3. /\ missed'[m.to][m.from] = 0 /\ missed' \in [NodeId -> [NodeId -> 0..Longest]]
      /\ \A q, p \in NodeId : q # m.to \/ p # m.from => missed'[q][p] = missed[q][p]
  BY <1>1, <1>2, Times DEF PresenceTypeOK
<1>4. PresenceTypeOK'
  <2>1. losses' \in 0..MaxLost
    BY <1>1 DEF PresenceTypeOK, PresenceAssumption
  <2> QED
    BY <1>1, <1>3, <2>1 DEF PresenceTypeOK
<1>5. OwnTtl' /\ DiedLately'
  BY <1>1 DEF OwnTtl, DiedLately
<1>6. \A q, p \in NodeId : \A x \in Nat :
        Undisturbed(q, p, x)' => Undisturbed(q, p, x) /\ (q # m.to \/ p # m.from)
  BY <1>1, <1>3 DEF Undisturbed
<1>7. \A q, p : \A k \in OnTheWay(p, q) : k \in air' \/ (q = m.to /\ p = m.from)
  BY <1>1 DEF OnTheWay
<1>8. \A q, p : \A x : Heard(q, p, x)' <=> Heard(q, p, x)
  BY <1>1 DEF Heard
<1>9. LastRound' /\ RoundBefore'
  BY <1>1, <1>4, <1>6, <1>7, <1>8, CalmStep DEF PresenceTypeOK
<1> QED
  BY <1>4, <1>5, <1>9

LEMMA PruneStep ==
  ASSUME PresenceAssumption, PresenceInv, NEW n \in NodeId, Prune(n)
  PROVE  PresenceInv'
<1> USE DEF PresenceInv
<1>1. /\ table' = [table EXCEPT ![n] = Pruned(n)]
      /\ UNCHANGED <<running, hearing, sleep, air, age, missed, stops, losses>>
  BY DEF Prune
<1>2. /\ table'[n] = {r \in table[n] : r.age <= r.ttl}
      /\ \A q \in NodeId : q # n => table'[q] = table[q]
      /\ \A q \in NodeId : table'[q] \subseteq table[q]
  BY <1>1 DEF Pruned, PresenceTypeOK
<1>3. PresenceTypeOK'
  <2>1. table' \in [NodeId -> SUBSET [peer : NodeId, age : 0..Longest, ttl : Range(Ttl)]]
    BY <1>1, <1>2 DEF PresenceTypeOK
  <2>2. \A q \in NodeId : \A r, c \in table'[q] : r.peer = c.peer => r = c
    BY <1>2 DEF PresenceTypeOK
  <2> QED
    BY <1>1, <2>1, <2>2 DEF PresenceTypeOK
<1>4. OwnTtl' /\ DiedLately'
  BY <1>1, <1>2 DEF OwnTtl, DiedLately
<1>5. ASSUME NEW q \in NodeId, NEW p \in NodeId, NEW x \in Nat, x <= Round(p), Heard(q, p, x),
             Ttl[p] \div 2 + Latency <= Ttl[q]
      PROVE  Heard(q, p, x)'
  <2>1. PICK r \in table[q] : r.peer = p /\ r.age <= x
    BY <1>5 DEF Heard
  <2>2. r.age <= r.ttl
    BY <1>5, <2>1, EntryType, Times DEF Round, Interval
  <2> QED
    BY <1>2, <2>1, <2>2 DEF Heard
<1>6. LastRound' /\ RoundBefore'
  BY <1>1, <1>3, <1>5, CalmStep DEF PresenceTypeOK, Undisturbed, OnTheWay
<1> QED
  BY <1>3, <1>4, <1>6

(* A round begins: its hello has that of the round before behind it.       *)
LEMMA PresencePublishStep ==
  ASSUME PresenceAssumption, PresenceInv, NEW n \in NodeId, publish_hello(n)
  PROVE  PresenceInv'
<1> USE DEF PresenceInv
<1>1. /\ n \in running /\ sleep[n] = 0 /\ sleep' = [sleep EXCEPT ![n] = Interval(n)]
      /\ UNCHANGED <<running, hearing, age, stops>>
  BY DEF publish_hello, send_interval
<1>2. /\ sleep' \in [NodeId -> Nat] /\ \A q \in NodeId : sleep'[q] <= Interval(q)
      /\ sleep'[n] = Interval(n) /\ \A q \in NodeId : q # n => sleep'[q] = sleep[q]
      /\ Interval(n) \in Nat /\ 0 < Interval(n) /\ Interval(n) - sleep[n] = Interval(n)
  BY <1>1, Times DEF PresenceTypeOK
<1>3. \A q \in NodeId : Interval(q) - sleep[q] \in Nat /\ Interval(q) \in Nat
  BY EntryType, Times
<1>4. CASE /\ air' = air \cup {[from |-> n, to |-> p, age |-> 0] : p \in hearing \ {n}}
           /\ table' = IF n \in hearing THEN [table EXCEPT ![n] = upsert(n, n)] ELSE table
           /\ UNCHANGED <<missed, losses>>
  <2>1. /\ table' \in [NodeId -> SUBSET [peer : NodeId, age : 0..Longest, ttl : Range(Ttl)]]
        /\ \A q \in NodeId : \A r, c \in table'[q] : r.peer = c.peer => r = c
        /\ OwnTtl'
        /\ n \in hearing => \A x \in Nat : Heard(n, n, x)'
        /\ \A q, p : \A x \in Nat : Heard(q, p, x) => Heard(q, p, x)'
        /\ \A q \in NodeId : \A r \in table'[q] :
             r \in table[q] \/ (q = n /\ r.peer = n /\ r.age = 0)
    <3>1. CASE n \in hearing
      <4>1. /\ \A x \in Nat : Heard(n, n, x)'
            /\ \A q, c : q # n \/ c # n => \A x : Heard(q, c, x) => Heard(q, c, x)'
        BY <1>4, <3>1, Upserted
      <4>2. \A q, p : \A x \in Nat : Heard(q, p, x) => Heard(q, p, x)'
        BY <4>1
      <4>3. /\ table' \in [NodeId -> SUBSET [peer : NodeId, age : 0..Longest, ttl : Range(Ttl)]]
            /\ \A q \in NodeId : \A r, c \in table'[q] : r.peer = c.peer => r = c
            /\ OwnTtl'
            /\ \A q \in NodeId : \A r \in table'[q] :
                 r \in table[q] \/ (q = n /\ r.peer = n /\ r.age = 0)
        BY <1>4, <3>1, Upserted
      <4> QED
        BY <4>1, <4>2, <4>3
    <3>2. CASE n \notin hearing
      BY <1>4, <3>2 DEF PresenceTypeOK, OwnTtl, Heard
    <3> QED
      BY <3>1, <3>2
  <2>2. \A q, p : \A x \in Nat : Heard(q, p, x) => Heard(q, p, x)'
    BY <2>1
  <2>3. air' \subseteq [from : NodeId, to : NodeId, age : 0..Latency]
    BY <1>4, Times DEF PresenceTypeOK
  <2>4. PresenceTypeOK'
    BY <1>1, <1>2, <1>4, <2>1, <2>3 DEF PresenceTypeOK
  <2>5. DiedLately'
    BY <1>1, <1>4, <2>1 DEF DiedLately
  <2>6. \A q, p : \A x : Undisturbed(q, p, x)' <=> Undisturbed(q, p, x)
    BY <1>1, <1>4 DEF Undisturbed
  <2>7. \A q, p : OnTheWay(p, q) \subseteq OnTheWay(p, q)'
    BY <1>4 DEF OnTheWay
  <2>8. LastRound'
    <3>1. SUFFICES ASSUME NEW q \in hearing, NEW p \in running,
                          Undisturbed(q, p, Interval(p) - sleep'[p])
                   PROVE  \/ \E m \in OnTheWay(p, q)' : m.age = Interval(p) - sleep'[p]
                          \/ Heard(q, p, Interval(p) - sleep[p])'
      BY <1>1, <1>4 DEF LastRound, Undisturbed, Interval
    <3>2. q \in NodeId /\ p \in NodeId
      BY DEF PresenceTypeOK
    <3>3. CASE p # n
      <4>1. sleep'[p] = sleep[p]
        BY <1>2, <3>2, <3>3
      <4>2. \/ \E m \in OnTheWay(p, q) : m.age = Interval(p) - sleep[p]
            \/ Heard(q, p, Interval(p) - sleep[p])
        BY <3>1, <4>1 DEF LastRound
      <4> QED
        BY <1>3, <2>2, <2>7, <3>2, <4>1, <4>2 DEF Heard, Interval
    <3>4. CASE p = n /\ q = n
      <4>1. Interval(p) - sleep'[p] = 0
        BY <1>2, <3>4
      <4> QED
        BY <2>1, <3>4, <4>1 DEF Heard, Interval
    <3>5. CASE p = n /\ q # n
      <4>1. Interval(p) - sleep'[p] = 0
        BY <1>2, <3>5
      <4>2. [from |-> n, to |-> q, age |-> 0] \in OnTheWay(p, q)'
        BY <1>4, <3>5 DEF OnTheWay
      <4> QED
        BY <4>1, <4>2
    <3> QED
      BY <3>3, <3>4, <3>5
  <2>9. RoundBefore'
    <3>1. SUFFICES ASSUME NEW q \in hearing, NEW p \in running, NEW m \in OnTheWay(p, q)',
                          Undisturbed(q, p, m.age + Interval(p))
                   PROVE  \/ \E k \in OnTheWay(p, q)' : m.age < k.age
                          \/ Heard(q, p, m.age + Interval(p))'
      BY <1>1, <1>4 DEF RoundBefore, Undisturbed, Interval
    <3>2. q \in NodeId /\ p \in NodeId
      BY DEF PresenceTypeOK
    <3>3. CASE m \in OnTheWay(p, q)
      <4>1. m.age + Interval(p) \in Nat
        BY <1>3, <3>2, <3>3, EntryType DEF OnTheWay
      <4>2. \/ \E k \in OnTheWay(p, q) : m.age < k.age
            \/ Heard(q, p, m.age + Interval(p))
        BY <3>1, <3>3 DEF RoundBefore
      <4>3. CASE \E k \in OnTheWay(p, q) : m.age < k.age
        BY <2>7, <4>3
      <4>4. CASE Heard(q, p, m.age + Interval(p))
        <5>1. \A x \in Nat : Heard(q, p, x) => \E r \in table'[q] : r.peer = p /\ r.age <= x
          BY <2>2 DEF Heard
        <5>2. \E r \in table'[q] : r.peer = p /\ r.age <= m.age + Interval(p)
          BY <4>1, <4>4, <5>1
        <5> QED
          BY <5>2 DEF Heard, Interval
      <4> QED
        BY <4>2, <4>3, <4>4
    <3>4. CASE m \notin OnTheWay(p, q)
      <4>1. p = n /\ m.age = 0
        BY <1>4, <3>1, <3>4 DEF OnTheWay
      <4>2. m.age + Interval(p) = Interval(n) /\ Interval(p) - sleep[p] = Interval(n)
        BY <1>2, <4>1
      <4>3. \/ \E k \in OnTheWay(p, q) : k.age = Interval(n)
            \/ Heard(q, p, Interval(n))
        BY <3>1, <4>2 DEF LastRound
      <4>4. CASE \E k \in OnTheWay(p, q) : k.age = Interval(n)
        BY <1>2, <2>7, <4>1, <4>4
      <4>5. CASE Heard(q, p, Interval(n))
        <5>1. Heard(q, p, Interval(n))'
          BY <1>2, <2>2, <4>5 DEF Heard, Interval
        <5> QED
          BY <4>2, <5>1 DEF Heard, Interval
      <4> QED
        BY <4>3, <4>4, <4>5
    <3> QED
      BY <3>3, <3>4
  <2> QED
    BY <2>1, <2>4, <2>5, <2>8, <2>9
<1>5. CASE /\ losses < MaxLost /\ losses' = losses + 1
           /\ missed' = [p \in NodeId |-> [missed[p] EXCEPT ![n] = 0]]
           /\ UNCHANGED <<air, table>>
  <2>1. /\ missed' \in [NodeId -> [NodeId -> 0..Longest]]
        /\ \A q \in NodeId : missed'[q][n] = 0
        /\ \A q, p \in NodeId : p # n => missed'[q][p] = missed[q][p]
    BY <1>5, Times DEF PresenceTypeOK
  <2>2. losses' \in 0..MaxLost
    BY <1>5 DEF PresenceTypeOK, PresenceAssumption
  <2>3. PresenceTypeOK'
    BY <1>1, <1>2, <1>5, <2>1, <2>2 DEF PresenceTypeOK
  <2>4. OwnTtl' /\ DiedLately'
    BY <1>1, <1>5 DEF OwnTtl, DiedLately
  <2>5. \A q, p \in NodeId : \A x \in Nat :
          Undisturbed(q, p, x)' => p # n /\ Undisturbed(q, p, x)
    BY <1>1, <2>1 DEF Undisturbed
  <2>6. LastRound'
    <3>1. SUFFICES ASSUME NEW q \in hearing, NEW p \in running,
                          Undisturbed(q, p, Interval(p) - sleep[p])'
                   PROVE  \/ \E m \in OnTheWay(p, q) : m.age = Interval(p) - sleep'[p]
                          \/ Heard(q, p, Interval(p) - sleep'[p])
      BY <1>1, <1>5 DEF LastRound, OnTheWay, Interval, Heard
    <3>2. q \in NodeId /\ p \in NodeId /\ Interval(p) - sleep'[p] \in Nat
      BY <1>2, <1>3 DEF PresenceTypeOK
    <3>3. p # n
      BY <1>1, <2>1, <3>1, <3>2 DEF Undisturbed, Interval
    <3>4. sleep'[p] = sleep[p]
      BY <1>2, <3>2, <3>3
    <3>5. Undisturbed(q, p, Interval(p) - sleep[p])
      BY <1>1, <2>1, <3>1, <3>2, <3>3, <3>4 DEF Undisturbed, Interval
    <3> QED
      BY <3>4, <3>5 DEF LastRound
  <2>7. RoundBefore'
    <3>1. SUFFICES ASSUME NEW q \in hearing, NEW p \in running, NEW m \in OnTheWay(p, q),
                          Undisturbed(q, p, m.age + Interval(p))'
                   PROVE  \/ \E k \in OnTheWay(p, q) : m.age < k.age
                          \/ Heard(q, p, m.age + Interval(p))
      BY <1>1, <1>5 DEF RoundBefore, OnTheWay, Interval, Heard
    <3>2. q \in NodeId /\ p \in NodeId /\ m.age + Interval(p) \in Nat
      BY <1>3, EntryType DEF PresenceTypeOK, OnTheWay
    <3>3. Undisturbed(q, p, m.age + Interval(p))
      BY <1>1, <2>1, <3>1, <3>2 DEF Undisturbed, Interval
    <3> QED
      BY <3>3 DEF RoundBefore
  <2> QED
    BY <2>3, <2>4, <2>6, <2>7
<1> QED
  BY <1>4, <1>5 DEF publish_hello

(* A tick: everything is a tick older, and no older than that.             *)
LEMMA PresenceTickStep ==
  ASSUME PresenceAssumption, PresenceInv, PresenceTick
  PROVE  PresenceInv'
<1> USE DEF PresenceInv
<1> DEFINE Entries == [peer : NodeId, age : 0..Longest, ttl : Range(Ttl)]
           older(r) == [r EXCEPT !.age = Grow(r.age, r.ttl + 1)]
<1>1. /\ \A n \in running : sleep[n] > 0
      /\ \A m \in air : m.age < Latency
      /\ table' = [n \in NodeId |-> {older(r) : r \in table[n]}]
      /\ sleep' = [n \in NodeId |-> IF sleep[n] > 0 THEN sleep[n] - 1 ELSE 0]
      /\ air' = {[m EXCEPT !.age = m.age + 1] : m \in air}
      /\ age' = [n \in NodeId |-> Grow(age[n], Longest)]
      /\ missed' = [n \in NodeId |-> [p \in NodeId |->
           IF n \in hearing THEN Grow(missed[n][p], Round(p) + 1) ELSE 0]]
      /\ UNCHANGED <<running, hearing, stops, losses>>
  BY DEF PresenceTick
<1>2. ASSUME NEW n \in NodeId, NEW r \in table[n]
      PROVE  /\ older(r) \in Entries /\ older(r).peer = r.peer /\ older(r).ttl = r.ttl
             /\ older(r).age <= r.age + 1 /\ r.age <= older(r).age
             /\ older(r).age = r.age + 1 \/ older(r).age > r.ttl
  <2>1. r \in Entries /\ r.age \in Nat /\ r.ttl = Ttl[n] /\ Ttl[n] \in Nat
        /\ Ttl[n] + Latency + 1 <= Longest /\ Longest \in Nat /\ Latency \in Nat
    BY EntryType, Times
  <2>2. Grow(r.age, r.ttl + 1) \in 0..Longest
    BY <2>1 DEF Grow
  <2>3. /\ older(r) \in Entries /\ older(r).peer = r.peer /\ older(r).ttl = r.ttl
        /\ older(r).age = Grow(r.age, r.ttl + 1)
    BY <2>1, <2>2
  <2> QED
    BY <2>1, <2>3 DEF Grow
<1> HIDE DEF older, Entries
<1>3. \A n \in NodeId : table'[n] = {older(r) : r \in table[n]}
  BY <1>1
<1>4. ASSUME NEW n \in NodeId
      PROVE  /\ age'[n] \in 0..Longest /\ age'[n] <= age[n] + 1
             /\ \A p \in NodeId : missed'[n][p] \in 0..Longest /\ missed'[n][p] <= missed[n][p] + 1
             /\ sleep'[n] \in Nat /\ sleep'[n] <= Interval(n)
             /\ n \in running => Interval(n) - sleep'[n] = Interval(n) - sleep[n] + 1
  <2>1. /\ age[n] \in 0..Longest /\ Longest \in Nat /\ Interval(n) \in Nat
        /\ sleep[n] \in Nat /\ sleep[n] <= Interval(n)
    BY EntryType, Times
  <2>2. age'[n] \in 0..Longest /\ age'[n] <= age[n] + 1
    BY <1>1, <2>1 DEF Grow
  <2>3. /\ sleep'[n] \in Nat /\ sleep'[n] <= Interval(n)
        /\ n \in running => Interval(n) - sleep'[n] = Interval(n) - sleep[n] + 1
    BY <1>1, <2>1
  <2>4. ASSUME NEW p \in NodeId
        PROVE  missed'[n][p] \in 0..Longest /\ missed'[n][p] <= missed[n][p] + 1
    <3>1. missed[n][p] \in 0..Longest /\ Round(p) + 1 \in 0..Longest
      BY EntryType, Times
    <3> QED
      BY <1>1, <2>1, <3>1 DEF Grow
  <2> QED
    BY <2>2, <2>3, <2>4
<1>5. ASSUME NEW m \in air
      PROVE  /\ [m EXCEPT !.age = m.age + 1] \in [from : NodeId, to : NodeId, age : 0..Latency]
             /\ [m EXCEPT !.age = m.age + 1].from = m.from
             /\ [m EXCEPT !.age = m.age + 1].to = m.to
             /\ [m EXCEPT !.age = m.age + 1].age = m.age + 1
             /\ m.from \in NodeId /\ m.to \in NodeId /\ m.age \in Nat
  <2>1. m \in [from : NodeId, to : NodeId, age : 0..Latency] /\ m.age < Latency /\ Latency \in Nat
    BY <1>1 DEF PresenceTypeOK, PresenceAssumption
  <2> QED
    BY <2>1
<1>6. PresenceTypeOK'
  <2>1. table' \in [NodeId -> SUBSET Entries]
    BY <1>1, <1>2
  <2>2. \A n \in NodeId : \A r, s \in table'[n] : r.peer = s.peer => r = s
    BY <1>2, <1>3 DEF PresenceTypeOK
  <2>3. sleep' \in [NodeId -> Nat] /\ \A n \in NodeId : sleep'[n] <= Interval(n)
    BY <1>1, <1>4
  <2>4. air' \subseteq [from : NodeId, to : NodeId, age : 0..Latency]
    BY <1>1, <1>5
  <2>5. age' \in [NodeId -> 0..Longest]
    BY <1>1, <1>4
  <2>6. missed' \in [NodeId -> [NodeId -> 0..Longest]]
    BY <1>1, <1>4
  <2> QED
    BY <1>1, <2>1, <2>2, <2>3, <2>4, <2>5, <2>6 DEF PresenceTypeOK, Entries
<1>7. OwnTtl'
  BY <1>2, <1>3 DEF OwnTtl
<1>8. DiedLately'
  <2>1. ASSUME NEW m \in air
        PROVE  m.from \in running \/ age'[m.from] <= m.age + 1
    <3>1. m.from \in running \/ age[m.from] <= m.age
      BY DEF DiedLately
    <3>2. m.from \in NodeId /\ m.age \in Nat
      BY <1>5
    <3>3. age[m.from] \in Nat /\ age'[m.from] \in Nat /\ age'[m.from] <= age[m.from] + 1
      BY <1>4, <3>2, EntryType, Times
    <3> QED
      BY <3>1, <3>2, <3>3
  <2>2. ASSUME NEW n \in NodeId, NEW r \in table[n]
        PROVE  r.peer \in running \/ age'[r.peer] <= older(r).age + Latency
                 \/ older(r).age > r.ttl
    <3>1. r.peer \in running \/ age[r.peer] <= r.age + Latency \/ r.age > r.ttl
      BY DEF DiedLately
    <3>2. /\ r.age \in Nat /\ r.ttl \in Nat /\ r.peer \in NodeId /\ Latency \in Nat
          /\ age[r.peer] \in Nat /\ age'[r.peer] \in Nat /\ age'[r.peer] <= age[r.peer] + 1
      BY <1>4, EntryType, Times
    <3>3. /\ older(r).age <= r.age + 1 /\ r.age <= older(r).age /\ older(r).age \in Nat
          /\ older(r).age = r.age + 1 \/ older(r).age > r.ttl
      BY <1>2, Times DEF Entries
    <3> QED
      BY <3>1, <3>2, <3>3
  <2>3. \A m \in air' : m.from \in running \/ age'[m.from] <= m.age
    BY <1>1, <1>5, <2>1
  <2>4. \A n \in NodeId : \A r \in table'[n] :
          r.peer \in running \/ age'[r.peer] <= r.age + Latency \/ r.age > r.ttl
    BY <1>2, <1>3, <2>2
  <2> QED
    BY <1>1, <2>3, <2>4 DEF DiedLately
<1>9. ASSUME NEW q \in NodeId, NEW p \in NodeId, NEW x \in Nat,
             age'[p] > x + 1, missed'[q][p] > x + 1, Ttl[p] \div 2 + Latency <= Ttl[q]
      PROVE  Undisturbed(q, p, x)
  <2>1. /\ age[q] \in Nat /\ age[p] \in Nat /\ missed[q][p] \in Nat
        /\ age'[q] \in Nat /\ age'[p] \in Nat /\ missed'[q][p] \in Nat
    BY <1>4, EntryType, Times
  <2>2. age'[q] <= age[q] + 1 /\ age'[p] <= age[p] + 1 /\ missed'[q][p] <= missed[q][p] + 1
    BY <1>4
  <2> QED
    BY <1>9, <2>1, <2>2 DEF Undisturbed
<1>10. ASSUME NEW q \in NodeId, NEW p \in NodeId, NEW x \in Nat, Heard(q, p, x)
       PROVE  \E r \in table'[q] : r.peer = p /\ r.age <= x + 1
  <2>1. PICK r \in table[q] : r.peer = p /\ r.age <= x
    BY <1>10 DEF Heard
  <2>2. older(r) \in table'[q] /\ older(r).peer = p /\ older(r).age <= x + 1
    BY <1>2, <1>3, <2>1, EntryType, Times DEF Entries
  <2> QED
    BY <2>2
<1>11. ASSUME NEW q, NEW p, NEW m \in OnTheWay(p, q)
       PROVE  \E k \in OnTheWay(p, q)' : k.age = m.age + 1
  BY <1>1, <1>5 DEF OnTheWay
<1>12. LastRound'
  <2>1. SUFFICES ASSUME NEW q \in hearing, NEW p \in running,
                        Undisturbed(q, p, Interval(p) - sleep[p])'
                 PROVE  \/ \E m \in OnTheWay(p, q)' : m.age = Interval(p) - sleep'[p]
                        \/ Heard(q, p, Interval(p) - sleep[p])'
    BY <1>1 DEF LastRound, Interval
  <2> DEFINE x == Interval(p) - sleep[p]
  <2>2. q \in NodeId /\ p \in NodeId /\ x \in Nat /\ Interval(p) - sleep'[p] = x + 1
    BY <1>4, EntryType, Times DEF PresenceTypeOK
  <2>3. /\ age'[p] > x + 1 /\ missed'[q][p] > x + 1
        /\ Ttl[p] \div 2 + Latency <= Ttl[q]
    BY <2>1, <2>2 DEF Undisturbed, Interval
  <2>4. (\E m \in OnTheWay(p, q) : m.age = x) \/ Heard(q, p, x)
    BY <1>9, <2>2, <2>3 DEF LastRound
  <2>5. CASE \E m \in OnTheWay(p, q) : m.age = x
    BY <1>11, <2>2, <2>5
  <2>6. CASE Heard(q, p, x)
    BY <1>10, <2>2, <2>6 DEF Heard, Interval
  <2> QED
    BY <2>4, <2>5, <2>6
<1>13. RoundBefore'
  <2>1. SUFFICES ASSUME NEW q \in hearing, NEW p \in running, NEW m \in OnTheWay(p, q)',
                        Undisturbed(q, p, m.age + Interval(p))'
                 PROVE  \/ \E k \in OnTheWay(p, q)' : m.age < k.age
                        \/ Heard(q, p, m.age + Interval(p))'
    BY <1>1 DEF RoundBefore, Interval
  <2>2. PICK k \in OnTheWay(p, q) : m.age = k.age + 1 /\ k.age \in Nat
    BY <1>1, <1>5 DEF OnTheWay
  <2> DEFINE x == k.age + Interval(p)
  <2>3. q \in NodeId /\ p \in NodeId /\ x \in Nat /\ m.age + Interval(p) = x + 1
    <3>1. q \in NodeId /\ p \in NodeId
      BY DEF PresenceTypeOK
    <3>2. Interval(p) \in Nat
      BY <3>1, Times
    <3> QED
      BY <2>2, <3>1, <3>2
  <2>4. /\ age'[p] > x + 1 /\ missed'[q][p] > x + 1
        /\ Ttl[p] \div 2 + Latency <= Ttl[q]
    BY <2>1, <2>3 DEF Undisturbed, Interval
  <2>5. (\E j \in OnTheWay(p, q) : k.age < j.age) \/ Heard(q, p, x)
    BY <1>9, <2>3, <2>4 DEF RoundBefore
  <2>6. CASE \E j \in OnTheWay(p, q) : k.age < j.age
    <3>1. PICK j \in OnTheWay(p, q) : k.age < j.age
      BY <2>6
    <3>2. j.age \in Nat
      BY <1>5 DEF OnTheWay
    <3> QED
      BY <1>11, <2>2, <3>1, <3>2
  <2>7. CASE Heard(q, p, x)
    BY <1>10, <2>3, <2>7 DEF Heard, Interval
  <2> QED
    BY <2>5, <2>6, <2>7
<1> QED
  BY <1>6, <1>7, <1>8, <1>12, <1>13

LEMMA PresenceStutter ==
  ASSUME PresenceInv, UNCHANGED presence
  PROVE  PresenceInv'
<1>1. UNCHANGED <<running, hearing, table, sleep, air, age, missed, stops, losses>>
  BY DEF presence
<1>2. PresenceTypeOK' /\ OwnTtl' /\ DiedLately'
  BY <1>1 DEF PresenceInv, PresenceTypeOK, OwnTtl, DiedLately
<1>3. LastRound'
  BY <1>1 DEF PresenceInv, LastRound, Undisturbed, OnTheWay, Heard, Interval
<1>4. RoundBefore'
  BY <1>1 DEF PresenceInv, RoundBefore, Undisturbed, OnTheWay, Heard, Interval
<1> QED
  BY <1>2, <1>3, <1>4 DEF PresenceInv

LEMMA PresenceStep ==
  ASSUME PresenceAssumption, PresenceInv, [PresenceNext]_presence
  PROVE  PresenceInv'
<1>1. CASE \E n \in NodeId : start_presence_loop(n)
  BY <1>1, StartStep
<1>2. CASE \E n \in NodeId : StopNode(n)
  BY <1>2, StopStep
<1>3. CASE \E n \in NodeId : publish_hello(n)
  BY <1>3, PresencePublishStep
<1>4. CASE \E n \in NodeId : Prune(n)
  BY <1>4, PruneStep
<1>5. CASE \E m \in air : HearHello(m)
  BY <1>5, HearStep
<1>6. CASE \E m \in air : LoseHello(m)
  BY <1>6, LoseStep
<1>7. CASE PresenceTick
  BY <1>7, PresenceTickStep
<1>8. CASE \E n \in NodeId : subscribe_hello(n)
  BY <1>8, SubscribeStep
<1>9. CASE UNCHANGED presence
  BY <1>9, PresenceStutter
<1> QED
  BY <1>1, <1>2, <1>3, <1>4, <1>5, <1>6, <1>7, <1>8, <1>9 DEF PresenceNext

LEMMA PresenceInvariant ==
  ASSUME PresenceAssumption PROVE PresenceSpec => []PresenceInv
<1>1. PresenceInit => PresenceInv
  BY PresenceInitInv
<1>2. PresenceInv /\ [PresenceNext]_presence => PresenceInv'
  BY PresenceStep
<1> QED
  BY <1>1, <1>2, PTL DEF PresenceSpec

(* Every table has one entry per peer, and no age leaves its bounds.       *)
THEOREM PresenceTypeCorrect ==
  ASSUME PresenceAssumption PROVE PresenceSpec => []PresenceTypeOK
<1>1. PresenceInv => PresenceTypeOK
  BY DEF PresenceInv
<1> QED
  BY <1>1, PresenceInvariant, PTL

(* Nodes that run and lose no hello are listed by those that listen, for   *)
(* any number of nodes with ttls that fit each other (TtlAssumption), any  *)
(* latency, and starts, deaths, late or failed subscriptions and losses    *)
(* between them all (start_presence_loop, upsert, prune).                  *)
THEOREM RunningListedCorrect ==
  ASSUME PresenceAssumption, TtlAssumption PROVE PresenceSpec => []RunningListed
<1>1. PresenceInv => RunningListed
  <2>1. SUFFICES ASSUME PresenceInv, NEW n \in hearing, NEW p \in running,
                        age[p] > Round(p), missed[n][p] > Round(p)
                 PROVE  p \in Peers(n)
    BY DEF RunningListed
  <2>2. n \in NodeId /\ p \in NodeId
    BY <2>1 DEF PresenceInv, PresenceTypeOK
  <2>3. /\ Interval(p) \in Nat /\ Latency \in Nat /\ Ttl[n] \in Nat
        /\ Round(p) = Interval(p) + Latency /\ Round(p) <= Ttl[n]
        /\ Interval(p) - sleep[p] \in 0..Interval(p)
        /\ age[p] \in Nat /\ missed[n][p] \in Nat
    BY <2>1, <2>2, EntryType, Times DEF TtlAssumption
  <2>4. \A x \in Nat : x <= Round(p) => Undisturbed(n, p, x)
    BY <2>1, <2>2, <2>3 DEF Undisturbed, TtlAssumption, Interval
  <2>5. ASSUME NEW x \in Nat, x <= Round(p), Heard(n, p, x)
        PROVE  p \in Peers(n)
    <3>1. PICK r \in table[n] : r.peer = p /\ r.age <= x
      BY <2>5 DEF Heard
    <3>2. r.age <= r.ttl
      BY <2>1, <2>2, <2>3, <2>5, <3>1, EntryType
    <3> QED
      BY <3>1, <3>2 DEF Peers, Pruned
  <2>6. CASE OnTheWay(p, n) = {}
    <3>1. Undisturbed(n, p, Interval(p) - sleep[p])
      BY <2>3, <2>4
    <3>2. Heard(n, p, Interval(p) - sleep[p])
      BY <2>1, <2>6, <3>1 DEF PresenceInv, LastRound
    <3> QED
      BY <2>3, <2>5, <3>2
  <2>7. CASE OnTheWay(p, n) # {}
    <3>1. \A m \in OnTheWay(p, n) : m.age \in 0..Latency
      BY <2>1, <2>2, EntryType DEF OnTheWay
    <3>2. PICK least \in {Latency - m.age : m \in OnTheWay(p, n)} :
            \A k \in {Latency - m.age : m \in OnTheWay(p, n)} : least <= k
      <4> DEFINE S == {Latency - m.age : m \in OnTheWay(p, n)}
      <4>1. S \subseteq Nat
        BY <2>3, <3>1
      <4>2. S # {}
        BY <2>7
      <4> HIDE DEF S
      <4>3. \E least \in S : \A k \in S : least <= k
        BY <4>1, <4>2, SomeLeast, Zenon
      <4> QED
        BY <4>3, Zenon DEF S
    <3>3. PICK m \in OnTheWay(p, n) : least = Latency - m.age
      BY <3>2
    <3>4. ASSUME NEW q \in OnTheWay(p, n)
          PROVE  q.age <= m.age
      <4>1. least <= Latency - q.age
        BY <3>2
      <4>2. q.age \in Nat /\ m.age \in Nat
        BY <2>3, <3>1
      <4> QED
        BY <2>3, <3>3, <4>1, <4>2
    <3>5. m.age + Interval(p) \in Nat /\ m.age + Interval(p) <= Round(p)
      BY <2>3, <3>1
    <3>6. ~ \E q \in OnTheWay(p, n) : m.age < q.age
      BY <3>1, <3>4
    <3>7. Heard(n, p, m.age + Interval(p))
      BY <2>1, <2>4, <3>5, <3>6 DEF PresenceInv, RoundBefore
    <3> QED
      BY <2>5, <3>5, <3>7
  <2> QED
    BY <2>6, <2>7
<1> QED
  BY <1>1, PresenceInvariant, PTL

(* A node that has been dead for more than a ttl and a latency is in       *)
(* nobody's answer, whoever else started, died or went unheard (prune).    *)
THEOREM DeadNotListedCorrect ==
  ASSUME PresenceAssumption PROVE PresenceSpec => []DeadNotListed
<1>1. PresenceInv => DeadNotListed
  <2>1. SUFFICES ASSUME PresenceInv, NEW n \in running, NEW p \in Peers(n)
                 PROVE  p \in running \/ age[p] <= Ttl[n] + Latency
    BY DEF DeadNotListed
  <2>2. PICK r \in table[n] : r.peer = p /\ r.age <= r.ttl
    BY DEF Peers, Pruned
  <2>3. n \in NodeId
    BY <2>1 DEF PresenceInv, PresenceTypeOK
  <2>4. p \in running \/ age[p] <= r.age + Latency \/ r.age > r.ttl
    BY <2>1, <2>2, <2>3 DEF PresenceInv, DiedLately
  <2>5. /\ r.age \in Nat /\ r.ttl = Ttl[n] /\ Ttl[n] \in Nat /\ Latency \in Nat
        /\ p \in NodeId /\ age[p] \in Nat
    BY <2>1, <2>2, <2>3, EntryType, Times
  <2> QED
    BY <2>2, <2>4, <2>5
<1> QED
  BY <1>1, PresenceInvariant, PTL
-----------------------------------------------------------------------------
(* World events. What left the buffers is older than what is in them.      *)

\* The events that have left the buffers.
Out == Held \cup Carried \cup failed

EventsTyped ==
  /\ buffer \in [World -> Seq(1..MaxEvents)]
  /\ hands \in [Thread -> Seq(Batch)] /\ published \in Seq(Batch)
  /\ accepted \in Seq(World)

\* A buffer holds events of its world, and all events are accepted ones.
BufferedOwn ==
  \A w \in World : \A e \in Range(buffer[w]) : e \in 1..Len(accepted) /\ accepted[e] = w
OutAccepted == Out \subseteq 1..Len(accepted)
Newest == \A w \in World : \A e \in Range(buffer[w]) : \A f \in Out : accepted[f] = w => f < e

EventsInv == EventsTyped /\ BufferedOwn /\ OutAccepted /\ Newest

LEMMA RangeOfEmpty == Range(<< >>) = {}
  BY DEF Range

LEMMA RangeIn == ASSUME NEW S, NEW s \in Seq(S) PROVE Range(s) \subseteq S
<1>1. \A i \in DOMAIN s : s[i] \in S
  OBVIOUS
<1> QED
  BY <1>1 DEF Range

LEMMA RangeOfAppend ==
  ASSUME NEW S, NEW s \in Seq(S), NEW x
  PROVE  Range(Append(s, x)) = Range(s) \cup {x}
<1>1. /\ DOMAIN Append(s, x) = DOMAIN s \cup {Len(s) + 1}
      /\ Append(s, x)[Len(s) + 1] = x
      /\ \A i \in DOMAIN s : Append(s, x)[i] = s[i]
  OBVIOUS
<1> QED
  BY <1>1 DEF Range

LEMMA RangeOfTail ==
  ASSUME NEW S, NEW s \in Seq(S), s # << >>
  PROVE  Head(s) \in S /\ Head(s) \in Range(s) /\ Tail(s) \in Seq(S) /\ Range(Tail(s)) \subseteq Range(s)
<1>1. /\ Head(s) \in S /\ Tail(s) \in Seq(S)
      /\ 1 \in DOMAIN s /\ Head(s) = s[1]
      /\ \A i \in DOMAIN Tail(s) : i + 1 \in DOMAIN s /\ Tail(s)[i] = s[i + 1]
  OBVIOUS
<1> QED
  BY <1>1 DEF Range

LEMMA HeldIs ==
  \A e : e \in Held <=> \E t \in Thread : \E b \in Range(hands[t]) : e \in Range(b.events)
<1>1. \A e : e \in Held <=> \E b \in UNION {Range(hands[t]) : t \in Thread} : e \in Range(b.events)
  BY DEF Held
<1> QED
  BY <1>1

LEMMA HeldIsNext ==
  \A e : e \in Held' <=> \E t \in Thread : \E b \in Range(hands'[t]) : e \in Range(b.events)
<1>1. \A e : e \in Held' <=> \E b \in UNION {Range(hands'[t]) : t \in Thread} : e \in Range(b.events)
  BY DEF Held
<1> QED
  BY <1>1

LEMMA CarriedIs ==
  /\ \A e : e \in Carried <=> \E b \in Range(published) : e \in Range(b.events)
  /\ \A e : e \in Carried' <=> \E b \in Range(published') : e \in Range(b.events)
  BY DEF Carried

\* What a thread's hands come to hold is all that can leave the buffers.
LEMMA OutGrows ==
  ASSUME NEW t \in Thread, NEW bs, EventsTyped, hands' = [hands EXCEPT ![t] = bs],
         UNCHANGED <<published, failed>>, NEW e \in Out'
  PROVE  e \in Out \/ \E b \in Range(bs) : e \in Range(b.events)
<1>1. \A u \in Thread : hands'[u] = IF u = t THEN bs ELSE hands[u]
  BY DEF EventsTyped
<1>2. CASE e \in Held'
  BY <1>1, <1>2, HeldIs, HeldIsNext DEF Out
<1>3. CASE e \in Carried' \cup failed'
  BY <1>3, CarriedIs DEF Out
<1> QED
  BY <1>2, <1>3 DEF Out

\* A step that takes nothing out of the buffers.
LEMMA EventsQuietStep ==
  ASSUME EventsInv, EventsTyped', UNCHANGED <<buffer, accepted>>, Out' \subseteq Out
  PROVE  EventsInv'
  BY DEF EventsInv, BufferedOwn, OutAccepted, Newest

LEMMA PublishAtomStep ==
  ASSUME EventsAssumption, EventsInv, NEW t \in Thread, NEW w \in World, PublishAtom(t, w)
  PROVE  EventsInv'
<1> DEFINE e == Len(accepted) + 1
           b == Append(buffer[w], e)
<1>1. /\ accepted \in Seq(World) /\ buffer[w] \in Seq(1..MaxEvents) /\ Len(accepted) \in Nat
      /\ MaxEvents \in Nat
  BY DEF EventsInv, EventsTyped, EventsAssumption
<1>2. e <= MaxEvents /\ accepted' = Append(accepted, w) /\ UNCHANGED <<published, failed>>
  BY DEF PublishAtom
<1>3. /\ accepted' \in Seq(World) /\ accepted'[e] = w
      /\ 1..Len(accepted') = 1..Len(accepted) \cup {e}
      /\ \A f \in 1..Len(accepted) : accepted'[f] = accepted[f] /\ f < e
  BY <1>1, <1>2
<1>4. e \in 1..MaxEvents
  BY <1>1, <1>2
<1>5. \/ buffer' = Taken({w}) /\ hands' = [hands EXCEPT ![t] = <<[world |-> w, events |-> b]>>]
      \/ buffer' = [buffer EXCEPT ![w] = b] /\ UNCHANGED hands
  BY DEF PublishAtom
<1> HIDE DEF e
<1>6. b \in Seq(1..MaxEvents) /\ Range(b) = Range(buffer[w]) \cup {e}
  BY <1>1, <1>4, RangeOfAppend
<1> HIDE DEF b
<1>7. \A f \in Range(b) : f \in 1..Len(accepted') /\ accepted'[f] = w
  BY <1>3, <1>6 DEF EventsInv, BufferedOwn
<1>8. ASSUME NEW v \in World, NEW f \in Range(buffer[v])
      PROVE  f \in 1..Len(accepted') /\ accepted'[f] = v
  <2>1. f \in 1..Len(accepted) /\ accepted[f] = v
    BY DEF EventsInv, BufferedOwn
  <2> QED
    BY <1>3, <2>1
<1>9. \A f \in Out : f \in 1..Len(accepted') /\ accepted'[f] = accepted[f] /\ f < e
  BY <1>3 DEF EventsInv, OutAccepted
<1>10. CASE buffer' = Taken({w}) /\ hands' = [hands EXCEPT ![t] = <<[world |-> w, events |-> b]>>]
  <2> DEFINE batch == [world |-> w, events |-> b]
  <2>1. /\ buffer'[w] = << >>
        /\ \A v \in World : v # w => buffer'[v] = buffer[v]
    BY <1>10 DEF Taken
  <2>2. batch \in Batch /\ batch.events = b
    BY <1>6 DEF Batch
  <2> HIDE DEF batch
  <2>3. Range(<<batch>>) = {batch} /\ <<batch>> \in Seq(Batch)
    BY <2>2 DEF Range
  <2>4. \A f \in Out' : f \in Out \cup Range(b)
    <3>1. hands' = [hands EXCEPT ![t] = <<batch>>] /\ EventsTyped
      BY <1>10 DEF EventsInv, batch
    <3> QED
      BY <1>2, <2>2, <2>3, <3>1, OutGrows
  <2>5. EventsTyped'
    <3>1. hands' \in [Thread -> Seq(Batch)]
      BY <1>10, <2>3 DEF EventsInv, EventsTyped, batch
    <3>2. \A v \in World : buffer'[v] \in Seq(1..MaxEvents)
      <4>1. << >> \in Seq(1..MaxEvents)
        OBVIOUS
      <4>2. \A v \in World : buffer[v] \in Seq(1..MaxEvents)
        BY DEF EventsInv, EventsTyped
      <4> QED
        BY <2>1, <4>1, <4>2
    <3>3. buffer' = [v \in World |-> buffer'[v]]
      BY <1>10 DEF Taken
    <3>4. buffer' \in [World -> Seq(1..MaxEvents)]
      BY <3>2, <3>3
    <3> QED
      BY <1>2, <1>3, <3>1, <3>4 DEF EventsInv, EventsTyped
  <2>6. BufferedOwn'
    BY <1>8, <2>1, RangeOfEmpty DEF BufferedOwn
  <2>7. OutAccepted'
    BY <1>7, <1>9, <2>4 DEF OutAccepted
  <2>8. Newest'
    <3> SUFFICES ASSUME NEW v \in World, NEW d \in Range(buffer'[v]), NEW f \in Out', accepted'[f] = v
        PROVE f < d
      BY DEF Newest
    <3>1. v # w
      BY <2>1, RangeOfEmpty
    <3>2. f \in Out
      BY <1>7, <2>4, <3>1
    <3> QED
      BY <1>9, <2>1, <3>1, <3>2 DEF EventsInv, Newest
  <2> QED
    BY <2>5, <2>6, <2>7, <2>8 DEF EventsInv
<1>11. CASE buffer' = [buffer EXCEPT ![w] = b] /\ UNCHANGED hands
  <2>1. /\ buffer'[w] = b
        /\ \A v \in World : v # w => buffer'[v] = buffer[v]
    BY <1>11 DEF EventsInv, EventsTyped
  <2>2. Out' = Out
    BY <1>2, <1>11 DEF Out, Held, Carried
  <2>3. EventsTyped'
    BY <1>2, <1>3, <1>6, <1>11 DEF EventsInv, EventsTyped
  <2>4. BufferedOwn'
    BY <1>7, <1>8, <2>1 DEF BufferedOwn
  <2>5. OutAccepted'
    BY <1>9, <2>2 DEF OutAccepted
  <2>6. Newest'
    <3> SUFFICES ASSUME NEW v \in World, NEW d \in Range(buffer'[v]), NEW f \in Out, accepted'[f] = v
        PROVE f < d
      BY <2>2 DEF Newest
    <3>1. CASE d \in Range(buffer[v])
      BY <1>9, <3>1 DEF EventsInv, Newest
    <3>2. CASE d = e
      BY <1>9, <3>2
    <3> QED
      BY <1>6, <2>1, <3>1, <3>2
  <2> QED
    BY <2>3, <2>4, <2>5, <2>6 DEF EventsInv
<1> QED
  BY <1>5, <1>10, <1>11

LEMMA FlushAllStep ==
  ASSUME EventsAssumption, EventsInv, NEW t \in Thread, FlushAll(t)
  PROVE  EventsInv'
<1> DEFINE ws == {w \in World : buffer[w] # << >>}
<1>1. PICK order \in SetToSeqs(ws) :
        hands' = [hands EXCEPT ![t] =
          [i \in DOMAIN order |-> [world |-> order[i], events |-> buffer[order[i]]]]]
  BY DEF FlushAll
<1> DEFINE bs == [i \in DOMAIN order |-> [world |-> order[i], events |-> buffer[order[i]]]]
<1>2. PICK n \in Nat : DOMAIN order = 1..n /\ \A i \in 1..n : order[i] \in ws
  <2>1. IsFiniteSet(ws)
    <3>1. ws \subseteq World
      OBVIOUS
    <3> QED
      BY <3>1, FS_Subset DEF EventsAssumption
  <2>2. Cardinality(ws) \in Nat
    BY <2>1, FS_CardinalityType
  <2>3. order \in [1..Cardinality(ws) -> ws]
    BY DEF SetToSeqs
  <2> QED
    BY <2>2, <2>3
<1>3. buffer' = Taken(ws) /\ UNCHANGED <<published, failed, accepted>>
  BY DEF FlushAll
<1>4. /\ buffer \in [World -> Seq(1..MaxEvents)] /\ ws \subseteq World
      /\ \A w \in World : w \notin ws => buffer[w] = << >>
  BY DEF EventsInv, EventsTyped
<1> HIDE DEF ws
<1>5. \A i \in 1..n : bs[i] \in Batch /\ bs[i].world = order[i] /\ bs[i].events = buffer[order[i]]
  BY <1>2, <1>4 DEF Batch
<1>6. bs = [i \in 1..n |-> bs[i]]
  BY <1>2
<1>7. hands' = [hands EXCEPT ![t] = bs]
  BY <1>1
<1> HIDE DEF bs
<1>8. bs \in Seq(Batch)
  <2>1. bs \in [1..n -> Batch]
    BY <1>5, <1>6
  <2> QED
    BY <2>1
<1>9. \A w \in World : buffer'[w] = << >>
  BY <1>3, <1>4 DEF Taken
<1>10. EventsTyped'
  <2>1. << >> \in Seq(1..MaxEvents)
    OBVIOUS
  <2>2. buffer' = [w \in World |-> buffer'[w]]
    BY <1>3 DEF Taken
  <2>3. buffer' \in [World -> Seq(1..MaxEvents)]
    BY <1>9, <2>1, <2>2
  <2> QED
    BY <1>3, <1>7, <1>8, <2>3 DEF EventsInv, EventsTyped
<1>11. BufferedOwn' /\ Newest'
  BY <1>9, RangeOfEmpty DEF BufferedOwn, Newest
<1>12. OutAccepted'
  <2> SUFFICES ASSUME NEW e \in Out' PROVE e \in 1..Len(accepted)
    BY <1>3 DEF OutAccepted
  <2>1. CASE e \in Out
    BY <2>1 DEF EventsInv, OutAccepted
  <2>2. ASSUME NEW b \in Range(bs), e \in Range(b.events) PROVE e \in 1..Len(accepted)
    <3>1. PICK i \in 1..n : b.events = buffer[order[i]] /\ order[i] \in World
      BY <1>2, <1>4, <1>5, <1>6 DEF Range
    <3> QED
      BY <2>2, <3>1 DEF EventsInv, BufferedOwn
  <2>3. e \in Out \/ \E b \in Range(bs) : e \in Range(b.events)
    <3>1. EventsTyped
      BY DEF EventsInv
    <3> QED
      BY <1>3, <1>7, <3>1, OutGrows
  <2> QED
    BY <2>1, <2>2, <2>3
<1> QED
  BY <1>10, <1>11, <1>12 DEF EventsInv

LEMMA EventsPublishStep ==
  ASSUME EventsInv, NEW t \in Thread, Publish(t)
  PROVE  EventsInv'
<1>1. /\ hands[t] \in Seq(Batch) /\ hands[t] # << >> /\ published \in Seq(Batch)
      /\ hands' = [hands EXCEPT ![t] = Tail(hands[t])]
      /\ published' = Append(published, Head(hands[t]))
      /\ UNCHANGED <<buffer, accepted, failed>>
  BY DEF Publish, EventsInv, EventsTyped
<1>2. /\ Head(hands[t]) \in Batch /\ Head(hands[t]) \in Range(hands[t])
      /\ Tail(hands[t]) \in Seq(Batch) /\ Range(Tail(hands[t])) \subseteq Range(hands[t])
  BY <1>1, RangeOfTail
<1>3. Range(published') = Range(published) \cup {Head(hands[t])}
  BY <1>1, RangeOfAppend
<1>4. \A u \in Thread : hands'[u] = IF u = t THEN Tail(hands[t]) ELSE hands[u]
  BY <1>1 DEF EventsInv, EventsTyped
<1>5. EventsTyped'
  BY <1>1, <1>2 DEF EventsInv, EventsTyped
<1>6. Out' \subseteq Out
  <2> SUFFICES ASSUME NEW e \in Out' PROVE e \in Out
    OBVIOUS
  <2>1. CASE e \in Held'
    BY <1>2, <1>4, <2>1, HeldIs, HeldIsNext DEF Out
  <2>2. CASE e \in Carried'
    BY <1>2, <1>3, <2>2, HeldIs, CarriedIs DEF Out
  <2>3. CASE e \in failed'
    BY <1>1, <2>3 DEF Out
  <2> QED
    BY <2>1, <2>2, <2>3 DEF Out
<1> QED
  BY <1>1, <1>5, <1>6, EventsQuietStep

LEMMA PublishFailsStep ==
  ASSUME EventsInv, NEW t \in Thread, PublishFails(t)
  PROVE  EventsInv'
<1>1. /\ hands' = [hands EXCEPT ![t] = << >>]
      /\ failed' = failed \cup UNION {Range(b.events) : b \in Range(hands[t])}
      /\ UNCHANGED <<buffer, accepted, published>>
  BY DEF PublishFails, AfterFailure
<1>2. \A u \in Thread : hands'[u] = IF u = t THEN << >> ELSE hands[u]
  BY <1>1 DEF EventsInv, EventsTyped
<1>3. EventsTyped'
  BY <1>1 DEF EventsInv, EventsTyped
<1>4. Out' \subseteq Out
  <2> SUFFICES ASSUME NEW e \in Out' PROVE e \in Out
    OBVIOUS
  <2>1. CASE e \in Held'
    BY <1>2, <2>1, HeldIs, HeldIsNext, RangeOfEmpty DEF Out
  <2>2. CASE e \in Carried'
    BY <1>1, <2>2 DEF Out, Carried
  <2>3. CASE e \in failed'
    <3>1. e \in failed \/ \E b \in Range(hands[t]) : e \in Range(b.events)
      BY <1>1, <2>3
    <3> QED
      BY <3>1, HeldIs DEF Out
  <2> QED
    BY <2>1, <2>2, <2>3 DEF Out
<1> QED
  BY <1>1, <1>3, <1>4, EventsQuietStep

LEMMA EventsInvInit == ASSUME EventsInit PROVE EventsInv
<1>1. EventsTyped
  BY DEF EventsInit, EventsTyped
<1>2. \A w \in World : Range(buffer[w]) = {}
  BY RangeOfEmpty DEF EventsInit
<1>3. Out = {}
  BY RangeOfEmpty, HeldIs, CarriedIs DEF EventsInit, Out
<1> QED
  BY <1>1, <1>2, <1>3 DEF EventsInv, BufferedOwn, OutAccepted, Newest

LEMMA EventsInvStep == ASSUME EventsAssumption, EventsInv, [EventsNext]_events PROVE EventsInv'
<1>1. CASE UNCHANGED <<buffer, hands, published, failed, accepted>>
  <2>1. EventsTyped' /\ Out' = Out
    BY <1>1 DEF EventsInv, EventsTyped, Out, Held, Carried
  <2> QED
    BY <1>1, <2>1, EventsQuietStep
<1>2. ASSUME NEW t \in Thread, NEW w \in World, PublishAtom(t, w) PROVE EventsInv'
  BY <1>2, PublishAtomStep
<1>3. ASSUME NEW t \in Thread, FlushAll(t) PROVE EventsInv'
  BY <1>3, FlushAllStep
<1>4. ASSUME NEW t \in Thread, Publish(t) PROVE EventsInv'
  BY <1>4, EventsPublishStep
<1>5. ASSUME NEW t \in Thread, PublishFails(t) PROVE EventsInv'
  BY <1>5, PublishFailsStep
<1>6. Tick \/ UNCHANGED events => UNCHANGED <<buffer, hands, published, failed, accepted>>
  BY DEF Tick, events
<1> QED
  BY <1>1, <1>2, <1>3, <1>4, <1>5, <1>6 DEF EventsNext

(* However publish_atom and flush_all interleave, an event that is still   *)
(* in its buffer is newer than all of its world that were taken out: both  *)
(* take a buffer whole, under the lock, and nothing is put back.           *)
THEOREM BufferNewestCorrect ==
  ASSUME EventsAssumption PROVE EventsSpec => []BufferNewest
<1>1. EventsInit => EventsInv
  BY EventsInvInit
<1>2. EventsInv /\ [EventsNext]_events => EventsInv'
  BY EventsInvStep
<1>3. EventsInv => BufferNewest
  BY DEF EventsInv, Newest, Out, BufferNewest
<1> QED
  BY <1>1, <1>2, <1>3, PTL DEF EventsSpec

\* What EventsTyped leaves of the type: the counts, and that no buffer is full.
EventsCounted ==
  /\ \A w \in World : Len(buffer[w]) < MaxBatch
  /\ opened \in [World -> 0..FlushEvery]
  /\ tokens \in 0..Rate /\ failed \subseteq 1..MaxEvents /\ failures \in 0..MaxFailures

LEMMA EventsCountedStep ==
  ASSUME EventsAssumption, EventsInv, EventsCounted, [EventsNext]_events
  PROVE  EventsCounted'
<1> USE DEF EventsCounted
<1>1. /\ MaxBatch \in Nat \ {0} /\ Rate \in Nat \ {0} /\ FlushEvery \in Nat
      /\ MaxFailures \in Nat
      /\ \A w \in World : buffer[w] \in Seq(1..MaxEvents)
      /\ DOMAIN buffer = World /\ hands \in [Thread -> Seq(Batch)]
  BY DEF EventsAssumption, EventsInv, EventsTyped
<1>2. ASSUME NEW ws \in SUBSET World, buffer' = Taken(ws)
      PROVE  \A w \in World : Len(buffer'[w]) < MaxBatch
  BY <1>1, <1>2 DEF Taken
<1>3. ASSUME NEW t \in Thread, NEW w \in World, PublishAtom(t, w) PROVE EventsCounted'
  <2>1. opened' \in [World -> 0..FlushEvery]
    BY <1>1, <1>3 DEF PublishAtom
  <2>2. tokens' \in 0..Rate /\ UNCHANGED <<failed, failures>>
    BY <1>1, <1>3 DEF PublishAtom
  <2>3. \/ buffer' = Taken({w})
        \/ /\ buffer' = [buffer EXCEPT ![w] = Append(buffer[w], Len(accepted) + 1)]
           /\ ~Full(Append(buffer[w], Len(accepted) + 1))
    BY <1>3 DEF PublishAtom
  <2>4. \A v \in World : Len(buffer'[v]) < MaxBatch
    <3>1. CASE buffer' = Taken({w})
      BY <1>2, <3>1
    <3>2. CASE ~(buffer' = Taken({w}))
      <4> DEFINE b == Append(buffer[w], Len(accepted) + 1)
      <4>1. ~Full(b) /\ buffer' = [buffer EXCEPT ![w] = b]
        BY <2>3, <3>2
      <4>2. Len(b) \in Nat
        <5>1. buffer[w] \in Seq(1..MaxEvents)
          BY <1>1
        <5> QED
          BY <5>1
      <4> HIDE DEF b
      <4>3. Len(b) < MaxBatch
        BY <1>1, <4>1, <4>2 DEF Full
      <4> QED
        BY <1>1, <4>1, <4>3
    <3> QED
      BY <3>1, <3>2
  <2> QED
    BY <2>1, <2>2, <2>4
<1>4. ASSUME NEW t \in Thread, FlushAll(t) PROVE EventsCounted'
  <2>1. buffer' = Taken({w \in World : buffer[w] # << >>})
    BY <1>4 DEF FlushAll
  <2>2. UNCHANGED <<opened, tokens, failed, failures>>
    BY <1>4 DEF FlushAll
  <2>3. {w \in World : buffer[w] # << >>} \in SUBSET World
    OBVIOUS
  <2> QED
    BY <1>2, <2>1, <2>2, <2>3
<1>5. ASSUME NEW t \in Thread, Publish(t) PROVE EventsCounted'
  BY <1>5 DEF Publish
<1>6. ASSUME NEW t \in Thread, PublishFails(t) PROVE EventsCounted'
  <2>1. failures' \in 0..MaxFailures /\ UNCHANGED <<buffer, opened, tokens>>
    BY <1>1, <1>6 DEF PublishFails, AfterFailure
  <2>2. ASSUME NEW b \in Range(hands[t]) PROVE Range(b.events) \subseteq 1..MaxEvents
    <3>1. hands[t] \in Seq(Batch)
      BY <1>1
    <3>2. b \in Batch
      BY <3>1 DEF Range
    <3>3. b.events \in Seq(1..MaxEvents)
      BY <3>2 DEF Batch
    <3> QED
      BY <3>3, RangeIn
  <2>3. failed' = failed \cup UNION {Range(b.events) : b \in Range(hands[t])}
    BY <1>6 DEF PublishFails
  <2> QED
    BY <2>1, <2>2, <2>3
<1>7. CASE Tick
  <2>1. opened' \in [World -> 0..FlushEvery]
    BY <1>1, <1>7 DEF Tick
  <2> QED
    BY <1>1, <1>7, <2>1 DEF Tick
<1>8. CASE UNCHANGED events
  BY <1>8 DEF events
<1> QED
  BY <1>3, <1>4, <1>5, <1>6, <1>7, <1>8 DEF EventsNext

(* However the threads interleave, no buffer is left full, no age passes   *)
(* the interval at which buffers are flushed, and the limiter holds no     *)
(* more than its rate.                                                     *)
THEOREM EventsTypeCorrect ==
  ASSUME EventsAssumption PROVE EventsSpec => []EventsTypeOK
<1>1. EventsInit => EventsInv /\ EventsCounted
  BY EventsInvInit DEF EventsInit, EventsCounted, EventsAssumption
<1>2. EventsInv /\ EventsCounted /\ [EventsNext]_events => (EventsInv /\ EventsCounted)'
  BY EventsInvStep, EventsCountedStep
<1>3. EventsInv /\ EventsCounted => EventsTypeOK
  BY DEF EventsInv, EventsTyped, EventsCounted, EventsTypeOK
<1> QED
  BY <1>1, <1>2, <1>3, PTL DEF EventsSpec
-----------------------------------------------------------------------------
(* Every event in one place. That no buffered event has left a buffer      *)
(* follows from Newest; what is missing is that those that left are in one *)
(* place each, and that none gets lost.                                    *)

Buffered == UNION {Range(buffer[w]) : w \in World}
InBatch(e, s, i) == i \in DOMAIN s /\ e \in Range(s[i].events)

Somewhere == \A e \in 1..Len(accepted) : e \in Buffered \cup Out
HeldOnce ==
  \A e, i, j : \A t, u \in Thread :
    InBatch(e, hands[t], i) /\ InBatch(e, hands[u], j) => t = u /\ i = j
CarriedOnce ==
  \A e, i, j : InBatch(e, published, i) /\ InBatch(e, published, j) => i = j
OutApart == Held \cap Carried = {} /\ Held \cap failed = {} /\ Carried \cap failed = {}

PlacesInv == EventsInv /\ Somewhere /\ HeldOnce /\ CarriedOnce /\ OutApart

LEMMA HeldIn == \A e : e \in Held <=> \E t \in Thread : \E i : InBatch(e, hands[t], i)
  BY HeldIs DEF InBatch, Range

LEMMA HeldInNext == \A e : e \in Held' <=> \E t \in Thread : \E i : InBatch(e, hands'[t], i)
  BY HeldIsNext DEF InBatch, Range

LEMMA CarriedIn ==
  /\ \A e : e \in Carried <=> \E i : InBatch(e, published, i)
  /\ \A e : e \in Carried' <=> \E i : InBatch(e, published', i)
  BY CarriedIs DEF InBatch, Range

LEMMA BufferedIs ==
  /\ \A e : e \in Buffered <=> \E w \in World : e \in Range(buffer[w])
  /\ \A e : e \in Buffered' <=> \E w \in World : e \in Range(buffer'[w])
  BY DEF Buffered

\* An event that is still buffered is nowhere else.
LEMMA BufferedApart ==
  ASSUME EventsInv
  PROVE  Buffered \cap Out = {}
<1> SUFFICES ASSUME NEW e \in Buffered, e \in Out PROVE FALSE
  OBVIOUS
<1>1. PICK w \in World : e \in Range(buffer[w])
  BY BufferedIs
<1>2. e \in 1..Len(accepted) /\ accepted[e] = w
  BY <1>1 DEF EventsInv, BufferedOwn
<1>3. e < e
  BY <1>1, <1>2 DEF EventsInv, Newest
<1> QED
  BY <1>2, <1>3

LEMMA PlacesIs ==
  ASSUME NEW e, NEW x
  PROVE  x \in Places(e) <=>
           \/ \E w \in World : x = <<"buffer", w>> /\ e \in Range(buffer[w])
           \/ \E t \in Thread : \E i : x = <<"hands", t, i>> /\ InBatch(e, hands[t], i)
           \/ \E i : x = <<"published", i>> /\ InBatch(e, published, i)
           \/ x = <<"failed", e>> /\ e \in failed
<1> DEFINE inBuffer == {<<"buffer", w>> : w \in {v \in World : e \in Range(buffer[v])}}
           inHands == UNION {{<<"hands", t, i>> :
             i \in {j \in DOMAIN hands[t] : e \in Range(hands[t][j].events)}} : t \in Thread}
           inPublished == {<<"published", i>> :
             i \in {j \in DOMAIN published : e \in Range(published[j].events)}}
           inFailed == {<<"failed", f>> : f \in failed \cap {e}}
<1>1. x \in inBuffer <=> \E w \in World : x = <<"buffer", w>> /\ e \in Range(buffer[w])
  OBVIOUS
<1>2. x \in inHands <=> \E t \in Thread : \E i : x = <<"hands", t, i>> /\ InBatch(e, hands[t], i)
  BY DEF InBatch
<1>3. x \in inPublished <=> \E i : x = <<"published", i>> /\ InBatch(e, published, i)
  BY DEF InBatch
<1>4. x \in inFailed <=> x = <<"failed", e>> /\ e \in failed
  OBVIOUS
<1>5. Places(e) = inBuffer \cup inHands \cup inPublished \cup inFailed
  BY DEF Places
<1> HIDE DEF inBuffer, inHands, inPublished, inFailed
<1>6. x \in Places(e) <=> x \in inBuffer \/ x \in inHands \/ x \in inPublished \/ x \in inFailed
  BY <1>5
<1> QED
  BY ONLY <1>1, <1>2, <1>3, <1>4, <1>6, Zenon

LEMMA SolePlace ==
  ASSUME NEW e, NEW y, y \in Places(e),
         \A w \in World : e \in Range(buffer[w]) => y = <<"buffer", w>>,
         \A t \in Thread : \A i : InBatch(e, hands[t], i) => y = <<"hands", t, i>>,
         \A i : InBatch(e, published, i) => y = <<"published", i>>,
         e \in failed => y = <<"failed", e>>
  PROVE  Places(e) = {y}
<1>1. ASSUME NEW x \in Places(e) PROVE x = y
  <2>1. CASE \E w \in World : x = <<"buffer", w>> /\ e \in Range(buffer[w])
    BY <2>1
  <2>2. CASE \E t \in Thread : \E i : x = <<"hands", t, i>> /\ InBatch(e, hands[t], i)
    BY <2>2
  <2>3. CASE \E i : x = <<"published", i>> /\ InBatch(e, published, i)
    BY <2>3
  <2>4. CASE x = <<"failed", e>> /\ e \in failed
    BY <2>4
  <2> QED
    BY <2>1, <2>2, <2>3, <2>4, PlacesIs
<1> QED
  BY <1>1

LEMMA OnePlace == PlacesInv => EachEventOnce
<1> SUFFICES ASSUME PlacesInv, NEW e \in DOMAIN accepted
             PROVE  Cardinality(Places(e)) = 1
  BY DEF EachEventOnce
<1>1. e \in 1..Len(accepted)
  BY DEF PlacesInv, EventsInv, EventsTyped
<1>2. Buffered \cap Out = {} /\ OutApart
  BY BufferedApart DEF PlacesInv
<1>3. SUFFICES \E x : Places(e) = {x}
  BY FS_Singleton
<1>4. /\ e \notin Buffered => \A w \in World : e \notin Range(buffer[w])
      /\ e \notin Held => \A t \in Thread : \A i : ~InBatch(e, hands[t], i)
      /\ e \notin Carried => \A i : ~InBatch(e, published, i)
  BY BufferedIs, HeldIn, CarriedIn
<1>5. CASE e \in Buffered
  <2>1. PICK w \in World : e \in Range(buffer[w])
    BY <1>5, BufferedIs
  <2>2. \A v \in World : e \in Range(buffer[v]) => v = w
    BY <2>1 DEF PlacesInv, EventsInv, BufferedOwn
  <2>3. e \notin Held /\ e \notin Carried /\ e \notin failed
    BY <1>2, <1>5 DEF Out
  <2>4. <<"buffer", w>> \in Places(e)
    BY <2>1, PlacesIs
  <2> QED
    BY <1>4, <2>2, <2>3, <2>4, SolePlace
<1>6. CASE e \in Held
  <2>1. PICK t \in Thread : \E i : InBatch(e, hands[t], i)
    BY <1>6, HeldIn
  <2>2. PICK i : InBatch(e, hands[t], i)
    BY <2>1
  <2>3. \A u \in Thread : \A j : InBatch(e, hands[u], j) => u = t /\ j = i
    BY <2>2 DEF PlacesInv, HeldOnce
  <2>4. e \notin Buffered /\ e \notin Carried /\ e \notin failed
    BY <1>2, <1>6 DEF Out, OutApart
  <2>5. <<"hands", t, i>> \in Places(e)
    BY <2>2, PlacesIs
  <2>6. \A u \in Thread : \A j : InBatch(e, hands[u], j) => <<"hands", t, i>> = <<"hands", u, j>>
    BY <2>3
  <2> DEFINE y == <<"hands", t, i>>
  <2> HIDE DEF y
  <2>7. Places(e) = {y}
    BY <1>4, <2>4, <2>5, <2>6, SolePlace DEF y
  <2> QED
    BY <2>7
<1>7. CASE e \in Carried
  <2>1. PICK i : InBatch(e, published, i)
    BY <1>7, CarriedIn
  <2>2. \A j : InBatch(e, published, j) => j = i
    BY <2>1 DEF PlacesInv, CarriedOnce
  <2>3. e \notin Buffered /\ e \notin Held /\ e \notin failed
    BY <1>2, <1>7 DEF Out, OutApart
  <2>4. <<"published", i>> \in Places(e)
    BY <2>1, PlacesIs
  <2> QED
    BY <1>4, <2>2, <2>3, <2>4, SolePlace
<1>8. CASE e \in failed
  <2>1. e \notin Buffered /\ e \notin Held /\ e \notin Carried
    BY <1>2, <1>8 DEF Out, OutApart
  <2>2. <<"failed", e>> \in Places(e)
    BY <1>8, PlacesIs
  <2> QED
    BY <1>4, <2>1, <2>2, SolePlace
<1> QED
  BY <1>1, <1>5, <1>6, <1>7, <1>8 DEF PlacesInv, Somewhere, Out
\* What a thread takes in hand, each event in one batch and none that another holds.
LEMMA HandsOnce ==
  ASSUME PlacesInv, NEW t \in Thread, NEW bs, hands' = [hands EXCEPT ![t] = bs],
         \A e, i, j : InBatch(e, bs, i) /\ InBatch(e, bs, j) => i = j,
         \A e, i, j : \A u \in Thread \ {t} : ~(InBatch(e, bs, i) /\ InBatch(e, hands[u], j))
  PROVE  HeldOnce'
<1>1. \A u \in Thread : hands'[u] = IF u = t THEN bs ELSE hands[u]
  BY DEF PlacesInv, EventsInv, EventsTyped
<1> SUFFICES ASSUME NEW e, NEW i, NEW j, NEW u \in Thread, NEW v \in Thread,
                    InBatch(e, hands'[u], i), InBatch(e, hands'[v], j)
             PROVE  u = v /\ i = j
  BY DEF HeldOnce
<1>2. CASE u = t /\ v = t
  BY <1>1, <1>2
<1>3. CASE u = t /\ v # t
  BY <1>1, <1>3
<1>4. CASE u # t /\ v = t
  BY <1>1, <1>4
<1>5. CASE u # t /\ v # t
  BY <1>1, <1>5 DEF PlacesInv, HeldOnce
<1> QED
  BY <1>2, <1>3, <1>4, <1>5

\* The events of a buffer that is taken out enter the hands and are nowhere else.
LEMMA TakeOut ==
  ASSUME PlacesInv, NEW t \in Thread, NEW bs, hands[t] = << >>,
         hands' = [hands EXCEPT ![t] = bs], UNCHANGED <<published, failed>>,
         \A e, i, j : InBatch(e, bs, i) /\ InBatch(e, bs, j) => i = j,
         \A e, i : InBatch(e, bs, i) => e \notin Out
  PROVE  /\ HeldOnce' /\ CarriedOnce' /\ OutApart'
         /\ \A e : e \in Held' <=> e \in Held \/ \E i : InBatch(e, bs, i)
<1>1. \A u \in Thread : hands'[u] = IF u = t THEN bs ELSE hands[u]
  BY DEF PlacesInv, EventsInv, EventsTyped
<1>2. HeldOnce'
  <2>1. \A e, i, j : \A u \in Thread \ {t} : ~(InBatch(e, bs, i) /\ InBatch(e, hands[u], j))
    BY HeldIn DEF Out
  <2> QED
    BY <2>1, HandsOnce
<1>3. CarriedOnce' /\ Carried' = Carried /\ failed' = failed
  BY DEF PlacesInv, CarriedOnce, Carried
<1>4. ASSUME NEW e PROVE e \in Held' <=> e \in Held \/ \E i : InBatch(e, bs, i)
  <2>1. \A i : ~InBatch(e, hands[t], i)
    BY DEF InBatch
  <2> QED
    BY <1>1, <2>1, HeldIn, HeldInNext
<1>5. OutApart'
  BY <1>3, <1>4 DEF PlacesInv, OutApart, Out
<1> QED
  BY <1>2, <1>3, <1>4, <1>5

LEMMA PublishAtomPlaces ==
  ASSUME EventsAssumption, PlacesInv, NEW t \in Thread, NEW w \in World, PublishAtom(t, w)
  PROVE  Somewhere' /\ HeldOnce' /\ CarriedOnce' /\ OutApart'
<1> DEFINE n == Len(accepted) + 1
           b == Append(buffer[w], n)
<1>1. /\ accepted \in Seq(World) /\ buffer[w] \in Seq(1..MaxEvents) /\ Len(accepted) \in Nat
      /\ buffer \in [World -> Seq(1..MaxEvents)] /\ MaxEvents \in Nat
  BY DEF PlacesInv, EventsInv, EventsTyped, EventsAssumption
<1>2. /\ n <= MaxEvents /\ accepted' = Append(accepted, w) /\ hands[t] = << >>
      /\ UNCHANGED <<published, failed>>
  BY DEF PublishAtom
<1>3. 1..Len(accepted') = 1..Len(accepted) \cup {n}
  BY <1>1, <1>2
<1>4. \/ buffer' = Taken({w}) /\ hands' = [hands EXCEPT ![t] = <<[world |-> w, events |-> b]>>]
      \/ buffer' = [buffer EXCEPT ![w] = b] /\ UNCHANGED hands
  BY DEF PublishAtom
<1>5. n \notin Out
  BY <1>1 DEF PlacesInv, EventsInv, OutAccepted
<1>6. Range(b) = Range(buffer[w]) \cup {n}
  <2>1. n \in 1..MaxEvents
    BY <1>1, <1>2
  <2> HIDE DEF n
  <2> QED
    BY <1>1, <2>1, RangeOfAppend
<1>7. \A e \in 1..Len(accepted) : e \in Out \/ \E v \in World : e \in Range(buffer[v])
  BY BufferedIs DEF PlacesInv, Somewhere
<1> HIDE DEF n, b
<1>8. CASE buffer' = Taken({w}) /\ hands' = [hands EXCEPT ![t] = <<[world |-> w, events |-> b]>>]
  <2> DEFINE bs == <<[world |-> w, events |-> b]>>
  <2>1. \A e, i : InBatch(e, bs, i) <=> i = 1 /\ e \in Range(b)
    BY DEF InBatch
  <2>2. \A e, i, j : InBatch(e, bs, i) /\ InBatch(e, bs, j) => i = j
    BY <2>1
  <2> HIDE DEF bs
  <2>3. \A e, i : InBatch(e, bs, i) => e \notin Out
    <3>1. Range(buffer[w]) \cap Out = {}
      BY BufferedApart, BufferedIs DEF PlacesInv
    <3> QED
      BY <1>5, <1>6, <2>1, <3>1
  <2>4. hands' = [hands EXCEPT ![t] = bs]
    BY <1>8 DEF bs
  <2>5. /\ HeldOnce' /\ CarriedOnce' /\ OutApart'
        /\ \A e : e \in Held' <=> e \in Held \/ \E i : InBatch(e, bs, i)
    BY <1>2, <2>2, <2>3, <2>4, TakeOut
  <2>6. \A e : e \in Held' <=> e \in Held \/ e \in Range(b)
    BY <2>1, <2>5
  <2>7. Carried' = Carried /\ failed' = failed
    BY <1>2 DEF Carried
  <2>8. \A v \in World : v # w => buffer'[v] = buffer[v]
    BY <1>8 DEF Taken
  <2>9. ASSUME NEW e \in 1..Len(accepted') PROVE e \in (Buffered \cup Out)'
    <3>1. CASE e = n
      BY <1>6, <2>6, <3>1 DEF Out
    <3>2. CASE e \in 1..Len(accepted)
      <4>1. CASE e \in Out
        BY <2>6, <2>7, <4>1 DEF Out
      <4>2. ASSUME NEW v \in World, e \in Range(buffer[v]) PROVE e \in (Buffered \cup Out)'
        <5>1. CASE v = w
          BY <1>6, <2>6, <4>2, <5>1 DEF Out
        <5>2. CASE v # w
          BY <2>8, <4>2, <5>2, BufferedIs
        <5> QED
          BY <5>1, <5>2
      <4> QED
        BY <1>7, <3>2, <4>1, <4>2
    <3> QED
      BY <1>3, <3>1, <3>2
  <2>10. Somewhere'
    BY <2>9 DEF Somewhere
  <2> QED
    BY <2>5, <2>10
<1>9. CASE buffer' = [buffer EXCEPT ![w] = b] /\ UNCHANGED hands
  <2>1. Held' = Held /\ Carried' = Carried /\ failed' = failed /\ Out' = Out
    BY <1>2, <1>9 DEF Held, Carried, Out
  <2>2. HeldOnce' /\ CarriedOnce' /\ OutApart'
    BY <1>2, <1>9, <2>1 DEF PlacesInv, HeldOnce, CarriedOnce, OutApart
  <2>3. \A v \in World : Range(buffer[v]) \subseteq Range(buffer'[v])
    BY <1>1, <1>6, <1>9
  <2>4. n \in Range(buffer'[w])
    BY <1>1, <1>6, <1>9
  <2>5. Somewhere'
    BY <1>3, <1>7, <2>1, <2>3, <2>4, BufferedIs DEF Somewhere
  <2> QED
    BY <2>2, <2>5
<1> QED
  BY <1>4, <1>8, <1>9

\* flush_all visits every world it drained once.
LEMMA OrderVisits ==
  ASSUME NEW S, IsFiniteSet(S), NEW order \in SetToSeqs(S)
  PROVE  /\ \A i \in DOMAIN order : order[i] \in S
         /\ \A i, j \in DOMAIN order : order[i] = order[j] => i = j
         /\ \A x \in S : \E i \in DOMAIN order : order[i] = x
<1> DEFINE n == Cardinality(S)
<1>1. n \in Nat
  BY FS_CardinalityType
<1>2. /\ order \in [1..n -> S]
      /\ \A i, j \in 1..n : i # j => order[i] # order[j]
  BY DEF SetToSeqs
<1>3. order \in Injection(1..n, S)
  BY <1>2 DEF Injection, IsInjective
<1>4. Cardinality(1..n) = n
  BY <1>1, FS_Interval
<1>5. order \in Surjection(1..n, S)
  BY <1>3, <1>4, FS_Injection
<1> HIDE DEF n
<1> QED
  BY <1>2, <1>5 DEF Surjection

LEMMA FlushAllPlaces ==
  ASSUME EventsAssumption, PlacesInv, NEW t \in Thread, FlushAll(t)
  PROVE  Somewhere' /\ HeldOnce' /\ CarriedOnce' /\ OutApart'
<1> DEFINE ws == {w \in World : buffer[w] # << >>}
<1>1. PICK order \in SetToSeqs(ws) :
        hands' = [hands EXCEPT ![t] =
          [i \in DOMAIN order |-> [world |-> order[i], events |-> buffer[order[i]]]]]
  BY DEF FlushAll
<1> DEFINE bs == [i \in DOMAIN order |-> [world |-> order[i], events |-> buffer[order[i]]]]
<1>2. IsFiniteSet(ws)
  <2>1. ws \subseteq World
    OBVIOUS
  <2> QED
    BY <2>1, FS_Subset DEF EventsAssumption
<1>3. /\ hands[t] = << >> /\ hands' = [hands EXCEPT ![t] = bs]
      /\ UNCHANGED <<published, failed, accepted>>
  BY <1>1 DEF FlushAll
<1>4. ws \subseteq World /\ \A w \in World : w \notin ws => Range(buffer[w]) = {}
  BY RangeOfEmpty
<1>5. \A w, v \in World : \A e : e \in Range(buffer[w]) /\ e \in Range(buffer[v]) => w = v
  BY DEF PlacesInv, EventsInv, BufferedOwn
<1> HIDE DEF ws
<1>6. /\ \A i \in DOMAIN order : order[i] \in ws
      /\ \A i, j \in DOMAIN order : order[i] = order[j] => i = j
      /\ \A w \in ws : \E i \in DOMAIN order : order[i] = w
  BY <1>2, OrderVisits
<1>7. \A e, i : InBatch(e, bs, i) <=> i \in DOMAIN order /\ e \in Range(buffer[order[i]])
  BY DEF InBatch
<1> HIDE DEF bs
<1>8. \A e, i, j : InBatch(e, bs, i) /\ InBatch(e, bs, j) => i = j
  BY <1>4, <1>5, <1>6, <1>7
<1>9. \A e, i : InBatch(e, bs, i) => e \in Buffered
  BY <1>4, <1>6, <1>7, BufferedIs
<1>10. \A e, i : InBatch(e, bs, i) => e \notin Out
  BY <1>9, BufferedApart DEF PlacesInv
<1>11. /\ HeldOnce' /\ CarriedOnce' /\ OutApart'
       /\ \A e : e \in Held' <=> e \in Held \/ \E i : InBatch(e, bs, i)
  BY <1>3, <1>8, <1>10, TakeOut
<1>12. ASSUME NEW e \in Buffered PROVE e \in Held'
  <2>1. PICK w \in World : e \in Range(buffer[w])
    BY BufferedIs
  <2>2. w \in ws
    BY <1>4, <2>1
  <2>3. PICK i \in DOMAIN order : order[i] = w
    BY <1>6, <2>2
  <2> QED
    BY <1>7, <1>11, <2>1, <2>3
<1>13. Somewhere'
  <2>1. Carried' = Carried /\ failed' = failed /\ accepted' = accepted
    BY <1>3 DEF Carried
  <2>2. Held \subseteq Held'
    BY <1>11
  <2> QED
    BY <1>12, <2>1, <2>2 DEF PlacesInv, Somewhere, Out
<1> QED
  BY <1>11, <1>13

LEMMA PublishPlaces ==
  ASSUME PlacesInv, NEW t \in Thread, Publish(t)
  PROVE  Somewhere' /\ HeldOnce' /\ CarriedOnce' /\ OutApart'
<1> DEFINE h == Head(hands[t])
           rest == Tail(hands[t])
<1>1. /\ hands[t] \in Seq(Batch) /\ hands[t] # << >> /\ published \in Seq(Batch)
      /\ hands' = [hands EXCEPT ![t] = rest] /\ published' = Append(published, h)
      /\ UNCHANGED <<buffer, accepted, failed>>
  BY DEF Publish, PlacesInv, EventsInv, EventsTyped
<1>2. \A e : InBatch(e, hands[t], 1) <=> e \in Range(h.events)
  <2>1. 1 \in DOMAIN hands[t] /\ h = hands[t][1]
    BY <1>1
  <2> QED
    BY <2>1 DEF InBatch
<1>3. \A e, i : InBatch(e, rest, i) => InBatch(e, hands[t], i + 1) /\ i \in Nat \ {0}
  <2>1. \A i \in DOMAIN rest : i \in Nat \ {0} /\ i + 1 \in DOMAIN hands[t] /\ rest[i] = hands[t][i + 1]
    BY <1>1
  <2> HIDE DEF rest
  <2> QED
    BY <2>1 DEF InBatch
<1>4. \A e, i : InBatch(e, hands[t], i) =>
        i = 1 \/ (InBatch(e, rest, i - 1) /\ i \in Nat)
  <2>1. \A i \in DOMAIN hands[t] : i = 1 \/ (i - 1 \in DOMAIN rest /\ rest[i - 1] = hands[t][i] /\ i \in Nat)
    BY <1>1
  <2> HIDE DEF rest
  <2> QED
    BY <2>1 DEF InBatch
<1>5. \A e, i : InBatch(e, published', i) <=>
        InBatch(e, published, i) \/ (i = Len(published) + 1 /\ e \in Range(h.events))
  <2>1. /\ DOMAIN published' = DOMAIN published \cup {Len(published) + 1}
        /\ published'[Len(published) + 1] = h
        /\ Len(published) + 1 \notin DOMAIN published
        /\ \A i \in DOMAIN published : published'[i] = published[i]
    BY <1>1
  <2> HIDE DEF h
  <2> QED
    BY <2>1 DEF InBatch
<1> HIDE DEF h, rest
<1>6. \A u \in Thread : hands'[u] = IF u = t THEN rest ELSE hands[u]
  BY <1>1 DEF PlacesInv, EventsInv, EventsTyped
<1>7. \A e \in Range(h.events) : e \in Held /\ e \notin Carried /\ e \notin failed
  BY <1>2, HeldIn DEF PlacesInv, OutApart
<1>8. \A e : e \in Carried' <=> e \in Carried \/ e \in Range(h.events)
  BY <1>5, CarriedIn
<1>9. \A e : e \in Held' => e \in Held /\ e \notin Range(h.events)
  <2> SUFFICES ASSUME NEW e, NEW u \in Thread, NEW i, InBatch(e, hands'[u], i)
               PROVE  e \in Held /\ e \notin Range(h.events)
    BY HeldInNext
  <2>1. CASE u = t
    <3>1. InBatch(e, hands[t], i + 1) /\ i \in Nat \ {0}
      BY <1>3, <1>6, <2>1
    <3>2. ~InBatch(e, hands[t], 1)
      <4>1. i + 1 # 1
        BY <3>1
      <4> QED
        BY <3>1, <4>1 DEF PlacesInv, HeldOnce
    <3> QED
      BY <1>2, <3>1, <3>2, HeldIn
  <2>2. CASE u # t
    <3>1. InBatch(e, hands[u], i)
      BY <1>6, <2>2
    <3>2. ~InBatch(e, hands[t], 1)
      BY <2>2, <3>1 DEF PlacesInv, HeldOnce
    <3> QED
      BY <1>2, <3>1, <3>2, HeldIn
  <2> QED
    BY <2>1, <2>2
<1>10. \A e \in Held : e \in Held' \/ e \in Range(h.events)
  <2> SUFFICES ASSUME NEW e, NEW u \in Thread, NEW i, InBatch(e, hands[u], i)
               PROVE  e \in Held' \/ e \in Range(h.events)
    BY HeldIn
  <2> QED
    BY <1>2, <1>4, <1>6, HeldInNext
<1>11. HeldOnce'
  <2>1. ASSUME NEW e, NEW i, NEW j, InBatch(e, rest, i), InBatch(e, rest, j) PROVE i = j
    <3>1. i \in Nat /\ j \in Nat /\ InBatch(e, hands[t], i + 1) /\ InBatch(e, hands[t], j + 1)
      BY <1>3, <2>1
    <3>2. i + 1 = j + 1
      BY <3>1 DEF PlacesInv, HeldOnce
    <3> QED
      BY <3>1, <3>2
  <2>2. ASSUME NEW e, NEW i, NEW j, NEW u \in Thread \ {t}, InBatch(e, rest, i), InBatch(e, hands[u], j)
        PROVE  FALSE
    <3>1. InBatch(e, hands[t], i + 1)
      BY <1>3, <2>2
    <3>2. u = t
      BY <2>2, <3>1 DEF PlacesInv, HeldOnce
    <3> QED
      BY <3>2
  <2> QED
    BY <1>1, <2>1, <2>2, HandsOnce
<1>12. CarriedOnce'
  <2>1. \A e \in Range(h.events) : \A i : ~InBatch(e, published, i)
    BY <1>7, CarriedIn
  <2> QED
    BY <1>5, <2>1 DEF PlacesInv, CarriedOnce
<1>13. OutApart'
  BY <1>1, <1>7, <1>8, <1>9 DEF PlacesInv, OutApart
<1>14. Somewhere'
  <2>1. Out \subseteq Out'
    BY <1>1, <1>8, <1>10 DEF Out
  <2>2. Buffered' = Buffered /\ accepted' = accepted
    BY <1>1 DEF Buffered
  <2> QED
    BY <2>1, <2>2 DEF PlacesInv, Somewhere
<1> QED
  BY <1>11, <1>12, <1>13, <1>14

LEMMA PublishFailsPlaces ==
  ASSUME PlacesInv, NEW t \in Thread, PublishFails(t)
  PROVE  Somewhere' /\ HeldOnce' /\ CarriedOnce' /\ OutApart'
<1>1. /\ hands' = [hands EXCEPT ![t] = << >>]
      /\ failed' = failed \cup UNION {Range(b.events) : b \in Range(hands[t])}
      /\ UNCHANGED <<buffer, accepted, published>>
  BY DEF PublishFails, AfterFailure
<1>2. \A u \in Thread : hands'[u] = IF u = t THEN << >> ELSE hands[u]
  BY <1>1 DEF PlacesInv, EventsInv, EventsTyped
<1>3. \A e, i : ~InBatch(e, << >>, i)
  BY DEF InBatch
<1>4. \A e : e \in failed' <=> e \in failed \/ \E i : InBatch(e, hands[t], i)
  <2>1. \A e : e \in failed' <=> e \in failed \/ \E b \in Range(hands[t]) : e \in Range(b.events)
    BY <1>1
  <2> QED
    BY <2>1 DEF InBatch, Range
<1>5. HeldOnce'
  BY <1>1, <1>3, HandsOnce
<1>6. \A e : e \in Held' => e \in Held /\ \A i : ~InBatch(e, hands[t], i)
  <2> SUFFICES ASSUME NEW e, NEW u \in Thread, NEW i, InBatch(e, hands'[u], i)
               PROVE  e \in Held /\ \A j : ~InBatch(e, hands[t], j)
    BY HeldInNext
  <2>1. u # t /\ InBatch(e, hands[u], i)
    BY <1>2, <1>3
  <2> QED
    BY <2>1, HeldIn DEF PlacesInv, HeldOnce
<1>7. \A e \in Held : e \in Held' \/ e \in failed'
  <2> SUFFICES ASSUME NEW e, NEW u \in Thread, NEW i, InBatch(e, hands[u], i)
               PROVE  e \in Held' \/ e \in failed'
    BY HeldIn
  <2> QED
    BY <1>2, <1>4, HeldInNext
<1>8. Carried' = Carried /\ CarriedOnce' /\ Buffered' = Buffered
  BY <1>1 DEF PlacesInv, CarriedOnce, Carried, Buffered
<1>9. OutApart'
  <2>1. \A e : \A i : InBatch(e, hands[t], i) => e \in Held /\ e \notin Carried
    BY HeldIn DEF PlacesInv, OutApart
  <2>2. /\ \A e \in Held' : e \notin Carried /\ e \notin failed'
        /\ \A e \in Carried : e \notin failed'
    BY <1>4, <1>6, <2>1 DEF PlacesInv, OutApart
  <2> QED
    BY <1>8, <2>2 DEF OutApart
<1>10. Somewhere'
  <2>1. Out \subseteq Out'
    BY <1>4, <1>7, <1>8 DEF Out
  <2> QED
    BY <1>1, <1>8, <2>1 DEF PlacesInv, Somewhere
<1> QED
  BY <1>5, <1>8, <1>9, <1>10

LEMMA PlacesInvInit == ASSUME EventsInit PROVE PlacesInv
<1>1. EventsInv /\ accepted = << >> /\ published = << >> /\ failed = {} /\ \A t \in Thread : hands[t] = << >>
  BY EventsInvInit DEF EventsInit
<1>2. \A e, i : ~InBatch(e, << >>, i)
  BY DEF InBatch
<1>3. Held = {} /\ Carried = {}
  BY <1>1, <1>2, HeldIn, CarriedIn
<1> QED
  BY <1>1, <1>2, <1>3 DEF PlacesInv, Somewhere, HeldOnce, CarriedOnce, OutApart

LEMMA PlacesInvStep == ASSUME EventsAssumption, PlacesInv, [EventsNext]_events PROVE PlacesInv'
<1>1. EventsInv'
  BY EventsInvStep DEF PlacesInv
<1>2. CASE UNCHANGED <<buffer, hands, published, failed, accepted>>
  BY <1>1, <1>2 DEF PlacesInv, Somewhere, HeldOnce, CarriedOnce, OutApart, Out, Held, Carried, Buffered
<1>3. ASSUME NEW t \in Thread, NEW w \in World, PublishAtom(t, w) PROVE PlacesInv'
  BY <1>1, <1>3, PublishAtomPlaces DEF PlacesInv
<1>4. ASSUME NEW t \in Thread, FlushAll(t) PROVE PlacesInv'
  BY <1>1, <1>4, FlushAllPlaces DEF PlacesInv
<1>5. ASSUME NEW t \in Thread, Publish(t) PROVE PlacesInv'
  BY <1>1, <1>5, PublishPlaces DEF PlacesInv
<1>6. ASSUME NEW t \in Thread, PublishFails(t) PROVE PlacesInv'
  BY <1>1, <1>6, PublishFailsPlaces DEF PlacesInv
<1>7. Tick \/ UNCHANGED events => UNCHANGED <<buffer, hands, published, failed, accepted>>
  BY DEF Tick, events
<1> QED
  BY <1>2, <1>3, <1>4, <1>5, <1>6, <1>7 DEF EventsNext

(* For any worlds, threads, batch size, rate and failures, an event the    *)
(* limiter let in is in one buffer, in one batch of one thread, in one     *)
(* published batch or among the failed, and in no two of these.            *)
THEOREM EachEventOnceCorrect ==
  ASSUME EventsAssumption PROVE EventsSpec => []EachEventOnce
<1>1. EventsInit => PlacesInv
  BY PlacesInvInit
<1>2. PlacesInv /\ [EventsNext]_events => PlacesInv'
  BY PlacesInvStep
<1>3. PlacesInv => EachEventOnce
  BY OnePlace
<1> QED
  BY <1>1, <1>2, <1>3, PTL DEF EventsSpec
=============================================================================
