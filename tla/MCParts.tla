------------------------------ MODULE MCParts -------------------------------
(* Components that share no state with each other, in one run: a behaviour *)
(* picks one of them at the start and exercises that one alone.            *)
EXTENDS Integers, Sequences, TLC,
  Backup, Devnet, ComponentConfig, Membership, DeltaSync, WorldEvents, Gatekeeper,
  Node, Presence, Recall, Suspicion, StoreKeys

CONSTANTS p1, p2, v1, na, nb, w1, w2, t1, t2

VARIABLE part

TtlOf == (na :> 4) @@ (nb :> 6)

\* The gatekeeper lets a worker remember 3 times in 2 seconds, and all ask once in 2.
Caps == [write_worlds |-> {w1}, read_worlds |-> {}, kinds_write |-> {}, labels_write |-> {},
         importance_cap |-> 1]

\* Each key is left out of the answers or has one of a few values.
Settings == [data_dir : {"absent", "blank", "other"},
             default_tenant : {"absent", "other", "junk"},
             public_base_url : {"absent", "blank", "http", "https"},
             public_path_prefix : {"absent", "slash", "path"},
             nats_url : {"absent", "blank", "nats"},
             confirm_remove : {"absent", "true"}]
SomeAnswers ==
  {[k \in {j \in DOMAIN a : a[j] # "absent"} |-> a[k]] : a \in Settings}

\* A world with a plain name, "p", that holds policies, and one whose name has
\* a "/", "b"; "qp" and "qb" are their quarantine worlds.
Said(l) == [kind |-> "observation", labels |-> l, flags |-> {}, ts |-> 1]
Filter(ks, ls) == [kinds |-> ks, labels |-> ls, flags |-> {}, since |-> 0, until |-> 2]
NameUpToSlash == [m |-> "m", p |-> "p", b |-> "t", qp |-> "qp", qb |-> "q"]
PolicyWorlds == [m |-> "p", b |-> "b"]
QuarantineOf == [p |-> "qp", b |-> "qb"]
SaidByCallers == {Said({"l"})}
SaidByManage == [Said({"world_meta"}) EXCEPT !.kind = "reflection"]
SomeFilters == {Filter({"observation"}, {"l"})}

\* World "w" has a quarantine world, "qw"; "v" has vectors of another length
\* than the embedder's.
Supersede == [kind |-> "supersedes", target |-> 1]
Request(w, imp, links, vec) ==
  [world |-> w, kind |-> "observation", labels |-> {}, flags |-> {}, ts |-> 1,
   importance |-> imp, links |-> links, worker |-> p1, vector |-> vec]
Question(w, within, kinds, limit) ==
  [world |-> w, within |-> within, kinds |-> kinds, labels |-> {}, flags |-> {},
   since |-> 0, until |-> 2, limit |-> limit]
ToRemember == {Request("w", 9, << >>, 0), Request("w", 4, <<Supersede>>, 0),
             Request("v", 4, <<Supersede>>, 3), Request("v", 9, << >>, 0)}
Asked == {Question("w", "any", {}, 9), Question("w", "v", {"observation"}, 9),
          Question("v", "v", {"observation"}, 0)}
Quarantined == "w" :> "qw"
Trust == p1 :> 1

\* Atoms to be sealed, of two worlds.
SealedAtoms == {[world |-> w1, ts |-> 1, vector |-> TRUE], [world |-> w2, ts |-> 2, vector |-> FALSE]}

\* The bits of id 4 are all set by ids 1 and 2.
BitsOf == <<{1, 2}, {2, 3}, {3, 4}, {1, 3}>>
HeldFirst == <<{1}, {1, 2}>>

ASSUME BackupAssumption /\ DevnetAssumption /\ ConfigAssumption
ASSUME DeltaAssumption /\ EventsAssumption /\ MemberAssumption /\ GateAssumption
ASSUME RecallAssumption /\ SuspicionAssumption
ASSUME KeysAssumption /\ NodeAssumption
ASSUME PresenceAssumption /\ TtlAssumption

Init ==
  /\ part \in {"membership", "presence", "events", "gate", "backup", "devnet", "config",
              "node", "recall", "suspicion", "keys", "delta"}
  /\ MemberInit /\ GateInit /\ PresenceInit /\ NodeInit
  /\ RecallInit /\ SuspicionInit /\ KeysInit
  /\ BackupInit /\ DevnetInit /\ ConfigInit /\ DeltaInit /\ EventsInit
  /\ part # "backup" => data_dir = Nothing /\ out = NoArchive

Next ==
  \/ /\ part = "membership" /\ MemberNext
     /\ UNCHANGED <<part, presence, events, gate, backups, devnets,
                    configs, served, recalls, suspects, sealed, deltas>>
  \/ /\ part = "presence" /\ PresenceNext
     /\ UNCHANGED <<part, membership, events, gate, backups, devnets,
                    configs, served, recalls, suspects, sealed, deltas>>
  \/ /\ part = "events" /\ EventsNext
     /\ UNCHANGED <<part, membership, presence, gate, backups, devnets,
                    configs, served, recalls, suspects, sealed, deltas>>
  \/ /\ part = "gate" /\ GateNext
     /\ UNCHANGED <<part, membership, presence, events, backups, devnets,
                    configs, served, recalls, suspects, sealed, deltas>>
  \/ /\ part = "backup" /\ BackupNext
     /\ UNCHANGED <<part, membership, presence, events, gate, devnets,
                    configs, served, recalls, suspects, sealed, deltas>>
  \/ /\ part = "devnet" /\ DevnetNext
     /\ UNCHANGED <<part, membership, presence, events, gate, backups,
                    configs, served, recalls, suspects, sealed, deltas>>
  \/ /\ part = "config" /\ ConfigNext
     /\ UNCHANGED <<part, membership, presence, events, gate, backups,
                    devnets, served, recalls, suspects, sealed, deltas>>
  \/ /\ part = "node" /\ NodeNext
     /\ UNCHANGED <<part, membership, presence, events, gate, backups,
                    devnets, configs, recalls, suspects, sealed, deltas>>
  \/ /\ part = "recall" /\ RecallNext
     /\ UNCHANGED <<part, membership, presence, events, gate, backups,
                    devnets, configs, served, suspects, sealed, deltas>>
  \/ /\ part = "suspicion" /\ SuspicionNext
     /\ UNCHANGED <<part, membership, presence, events, gate, backups,
                    devnets, configs, served, recalls, sealed, deltas>>
  \/ /\ part = "keys" /\ KeysNext
     /\ UNCHANGED <<part, membership, presence, events, gate, backups,
                    devnets, configs, served, recalls, suspects, deltas>>
  \/ /\ part = "delta" /\ DeltaNext
     /\ UNCHANGED <<part, membership, presence, events, gate, backups,
                    devnets, configs, served, recalls, suspects, sealed>>

together == <<part, membership, presence, events, gate, backups, devnets, configs, served,
              recalls, suspects, sealed, deltas>>

Spec == Init /\ [][Next]_together

(* Every part has its type, whatever its processes do and however they are *)
(* interrupted; the other properties are those of the components.          *)
PartsTypeOK ==
  /\ part = "membership" => MemberTypeOK
  /\ part = "presence" => PresenceTypeOK
  /\ part = "events" => EventsTypeOK
  /\ part = "gate" => GateTypeOK
  /\ part = "node" => NodeTypeOK
  /\ part = "recall" => RecallTypeOK
  /\ part = "suspicion" => SuspicionTypeOK
  /\ part = "keys" => KeysTypeOK
  /\ part = "delta" => DeltaTypeOK
=============================================================================
