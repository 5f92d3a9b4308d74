--------------------------- MODULE Commands_proofs ---------------------------
(***************************************************************************)
(* Theorems about the commands that work on directories and processes:     *)
(* Backup, for any contents and any number of commands that die and of     *)
(* changes in between, and Devnet, for any number of commands, nodes and   *)
(* faults; about the configuration that configure keeps, ComponentConfig,  *)
(* for any answers and modes; and about StoreKeys, for any ids, keys and   *)
(* openings.                                                               *)
(***************************************************************************)
EXTENDS Backup, Devnet, ComponentConfig, StoreKeys, FiniteSetTheorems,
  WellFoundedInduction, TLAPS

(* Where the data owed are, apart from staging, which any later restore    *)
(* clears: in place, or in the archive; once a restore may remove them, in *)
(* the archive, and while a snapshot writes over the archive, in place.    *)
BackupInv ==
  /\ owed \in Content => data_dir = owed \/ out.data = owed
  /\ pc = "create" /\ owed \in Content => data_dir = owed
  /\ pc = "look" => staging = out.data
  /\ pc \in {"remove", "rename"} => staging = out.data /\ owed = out.data
  /\ out.meta = "cut" => out.data = Nothing

LEMMA BackupInvInit == ASSUME BackupAssumption, BackupInit PROVE BackupInv
<1>1. out.meta = "cut" => out.data = Nothing
  BY DEF BackupInit, Archives, NoArchive, Cut
<1> QED
  BY <1>1 DEF BackupInit, BackupInv

LEMMA BackupInvStep ==
  ASSUME BackupAssumption, BackupInv, [BackupNext]_backups
  PROVE  BackupInv'
<1> USE DEF BackupInv, BackupAssumption, Goes
<1>1. CASE UNCHANGED backups
  BY <1>1 DEF backups
<1>2. ASSUME NEW d \in Content, NodeWrites(d) PROVE BackupInv'
  BY <1>2 DEF NodeWrites
<1>3. CASE Create
  <2>1. out'.data = Nothing
    BY <1>3 DEF Create, Cut
  <2> QED
    BY <1>3, <2>1 DEF Create, NoArchive
<1>4. CASE Archived
  BY <1>4 DEF Archived
<1>5. ASSUME NEW o \in Archives, Replace(o) PROVE BackupInv'
  <2>1. o.meta = "cut" => o.data = Nothing
    BY DEF Archives, NoArchive, Cut
  <2> QED
    BY <1>5, <2>1 DEF Replace
<1>6. ASSUME NEW f \in BOOLEAN, Restore(f) PROVE BackupInv'
  BY <1>6 DEF Restore
<1>7. CASE Unpack
  BY <1>7 DEF Unpack, Unreadable
<1>8. CASE LookAt
  BY <1>8 DEF LookAt
<1>9. CASE RemoveData
  BY <1>9 DEF RemoveData
<1>10. CASE Rename
  BY <1>10 DEF Rename
<1>11. CASE Die
  BY <1>11 DEF Die
<1> QED
  BY <1>1, <1>2, <1>3, <1>4, <1>5, <1>6, <1>7, <1>8, <1>9, <1>10, <1>11 DEF BackupNext

(* Data are never lost to a restore, wherever restore_snapshot fails or    *)
(* dies and however often it is tried again: they are in place or in the   *)
(* archive, as the refusal of a directory in use and the order of removing *)
(* and renaming see to.                                                    *)
THEOREM NothingLostCorrect ==
  ASSUME BackupAssumption PROVE BackupSpec => []NothingLost
<1>1. BackupInit => BackupInv
  BY BackupInvInit
<1>2. BackupInv /\ [BackupNext]_backups => BackupInv'
  BY BackupInvStep
<1>3. BackupInv => NothingLost
  BY DEF BackupInv, NothingLost
<1> QED
  BY <1>1, <1>2, <1>3, PTL DEF BackupSpec

-----------------------------------------------------------------------------
(* Devnet.                                                                 *)
DevnetTyped ==
  /\ fresh \in [Command -> SUBSET Pid] /\ tracked \in [Command -> SUBSET Pid]
  /\ DOMAIN cmd = Command

\* Only a deploy that spawns has nodes to lose.
NothingElse == \A c \in Command : cmd[c] # "spawn" => tracked[c] = {} /\ fresh[c] = {}

\* A deploy that has all its nodes has tracked them all: it may save them.
TrackedBeforeSave ==
  \A c \in Command : fresh[c] # {} => Cardinality(tracked[c]) < Nodes

\* NoOrphans, node by node.
Known(p) == p \in listed \/ p \in loose \/ \E c \in Command : p \in tracked[c] \cup fresh[c]
AllKnown == \A p \in alive : Known(p)

DevnetInv == DevnetTyped /\ NothingElse /\ TrackedBeforeSave /\ AllKnown

LEMMA KnownMeansNoOrphans == AllKnown => NoOrphans
  BY DEF AllKnown, Known, NoOrphans

LEMMA DevnetInvInit == ASSUME DevnetInit PROVE DevnetInv
  BY DEF DevnetInit, DevnetInv, DevnetTyped, NothingElse, TrackedBeforeSave, AllKnown

\* A command that ends with no pid untracked and unknown leaves the rest.
LEMMA QuitStep ==
  ASSUME NEW c \in Command, DevnetInv, Quit(c)
  PROVE  /\ DevnetTyped' /\ NothingElse' /\ TrackedBeforeSave'
         /\ \A d \in Command \ {c} : tracked'[d] = tracked[d] /\ fresh'[d] = fresh[d]
<1>1. DevnetTyped'
  BY DEF DevnetInv, DevnetTyped, Quit, Go
<1>2. \A d \in Command \ {c} :
        tracked'[d] = tracked[d] /\ fresh'[d] = fresh[d] /\ cmd'[d] = cmd[d]
  BY DEF DevnetInv, DevnetTyped, Quit, Go
<1>3. fresh'[c] = {} /\ tracked'[c] = {}
  BY DEF DevnetInv, DevnetTyped, Quit
<1> QED
  BY <1>1, <1>2, <1>3 DEF DevnetInv, TrackedBeforeSave, NothingElse

\* So does one that has nothing to track, and goes on.
LEMMA GoStep ==
  ASSUME NEW c \in Command, NEW doing, DevnetInv, Go(c, doing), At(c, "spawn") => doing = "spawn",
         UNCHANGED <<fresh, tracked>>
  PROVE  DevnetTyped' /\ NothingElse' /\ TrackedBeforeSave'
<1>1. DevnetTyped'
  BY DEF DevnetInv, DevnetTyped, Go
<1>2. \A d \in Command : cmd'[d] = IF d = c THEN doing ELSE cmd[d]
  BY DEF DevnetInv, DevnetTyped, Go
<1> QED
  BY <1>1, <1>2 DEF DevnetInv, NothingElse, TrackedBeforeSave, At

LEMMA DevnetInvStep ==
  ASSUME DevnetAssumption, DevnetInv, [DevnetNext]_devnets
  PROVE  DevnetInv'
<1>1. CASE UNCHANGED devnets
  BY <1>1 DEF devnets, DevnetInv, DevnetTyped, NothingElse, TrackedBeforeSave, AllKnown, Known
<1>2. ASSUME NEW c \in Command, Deploy(c) PROVE DevnetInv'
  <2>1. DevnetTyped' /\ NothingElse' /\ TrackedBeforeSave'
    <3>1. PICK doing : Go(c, doing)
      BY <1>2 DEF Deploy
    <3> QED
      BY <1>2, <3>1, GoStep DEF Deploy, At
  <2>2. AllKnown'
    BY <1>2 DEF Deploy, DevnetInv, AllKnown, Known
  <2> QED
    BY <2>1, <2>2 DEF DevnetInv
<1>3. ASSUME NEW c \in Command, PruneState(c) PROVE DevnetInv'
  <2>1. tracked[c] = {} /\ fresh[c] = {}
    BY <1>3 DEF PruneState, At, DevnetInv, NothingElse
  <2>2. \A p \in (listed \cap alive) \ listed' : p \in loose'
    BY <1>3 DEF PruneState, File
  <2>3. alive' = alive /\ loose \subseteq loose'
    BY <1>3 DEF PruneState
  <2>4. CASE Quit(c)
    <3>1. AllKnown'
      BY <2>1, <2>2, <2>3, <2>4, QuitStep DEF DevnetInv, AllKnown, Known
    <3> QED
      BY <2>4, <3>1, QuitStep DEF DevnetInv
  <2>5. CASE Go(c, "spawn") /\ UNCHANGED <<kept, fresh, tracked>>
    <3>1. DevnetTyped' /\ NothingElse' /\ TrackedBeforeSave'
      BY <2>5, GoStep DEF DevnetInv, DevnetTyped
    <3>2. AllKnown'
      BY <2>2, <2>3, <2>5 DEF DevnetInv, AllKnown, Known
    <3> QED
      BY <3>1, <3>2 DEF DevnetInv
  <2> QED
    BY <1>3, <2>4, <2>5 DEF PruneState
<1>4. ASSUME NEW c \in Command, Spawn(c) PROVE DevnetInv'
  <2>1. PICK p \in Pid \ used : /\ alive' = alive \cup {p}
                                /\ fresh' = [fresh EXCEPT ![c] = {p}]
    BY <1>4 DEF Spawn
  <2>2. DevnetTyped' /\ NothingElse' /\ TrackedBeforeSave'
    BY <1>4, <2>1 DEF Spawn, At, DevnetInv, DevnetTyped, NothingElse, TrackedBeforeSave
  <2>3. p \in fresh'[c] /\ fresh[c] = {}
        /\ \A d \in Command \ {c} : fresh'[d] = fresh[d]
    BY <1>4, <2>1 DEF Spawn, DevnetInv, DevnetTyped
  <2>4. AllKnown'
    BY <1>4, <2>1, <2>3 DEF Spawn, DevnetInv, AllKnown, Known
  <2> QED
    BY <2>2, <2>4 DEF DevnetInv
<1>5. ASSUME NEW c \in Command, Push(c) PROVE DevnetInv'
  <2>1. DevnetTyped'
    BY <1>5 DEF Push, DevnetInv, DevnetTyped
  <2>2. /\ tracked'[c] = tracked[c] \cup fresh[c] /\ fresh'[c] = {} /\ cmd[c] = "spawn"
        /\ \A d \in Command \ {c} : tracked'[d] = tracked[d] /\ fresh'[d] = fresh[d]
    BY <1>5 DEF Push, DevnetInv, DevnetTyped, NothingElse
  <2>3. TrackedBeforeSave' /\ NothingElse'
    BY <1>5, <2>2 DEF Push, DevnetInv, TrackedBeforeSave, NothingElse
  <2>4. AllKnown'
    BY <1>5, <2>2 DEF Push, DevnetInv, AllKnown, Known
  <2> QED
    BY <2>1, <2>3, <2>4 DEF DevnetInv
<1>6. ASSUME NEW c \in Command, Save(c) PROVE DevnetInv'
  <2>1. fresh[c] = {}
    BY <1>6 DEF Save, DevnetInv, TrackedBeforeSave, DevnetAssumption
  <2>2. AllKnown'
    BY <1>6, <2>1, QuitStep DEF Save, File, DevnetInv, AllKnown, Known
  <2> QED
    BY <1>6, <2>2, QuitStep DEF Save, DevnetInv
<1>7. ASSUME NEW c \in Command, Fail(c) PROVE DevnetInv'
  <2>1. fresh[c] = {}
    BY <1>7 DEF Fail, At, DevnetInv, NothingElse
  <2>2. /\ alive' = alive \ tracked[c] /\ loose \subseteq loose'
        /\ \A p \in (listed \cap alive) \ listed' : p \in loose'
    BY <1>7 DEF Fail, KillsTracked
  <2>3. Quit(c)
    BY <1>7 DEF Fail
  <2>4. AllKnown'
    BY <2>1, <2>2, <2>3, QuitStep DEF DevnetInv, AllKnown, Known
  <2> QED
    BY <2>3, <2>4, QuitStep DEF DevnetInv
<1>8. ASSUME NEW c \in Command, Interrupt(c) \/ Kill(c) PROVE DevnetInv'
  <2>1. /\ alive' \subseteq alive /\ loose \subseteq loose' /\ Quit(c) /\ fresh[c] \subseteq loose'
        /\ \A p \in tracked[c] \cap alive' : p \in loose'
        /\ \A p \in (listed \cap alive) \ listed' : p \in loose'
    BY <1>8 DEF Interrupt, Kill
  <2>2. AllKnown'
    BY <2>1, QuitStep DEF DevnetInv, AllKnown, Known
  <2> QED
    BY <2>1, <2>2, QuitStep DEF DevnetInv
<1>9. ASSUME NEW c \in Command, NEW to, KillListed(c, to) PROVE DevnetInv'
  <2>1. DevnetTyped' /\ NothingElse' /\ TrackedBeforeSave'
    BY <1>9, GoStep DEF KillListed, At, DevnetInv, DevnetTyped
  <2>2. AllKnown'
    BY <1>9 DEF KillListed, DevnetInv, AllKnown, Known
  <2> QED
    BY <2>1, <2>2 DEF DevnetInv
<1>10. ASSUME NEW c \in Command, Clean(c) PROVE DevnetInv'
  <2>1. CASE KillListed(c, "clear and clean")
    BY <1>9, <2>1
  <2>2. CASE /\ UNCHANGED <<file, listed, alive, used, kept, fresh, tracked, loose>>
             /\ At(c, "idle") /\ Go(c, "clean")
    <3>1. DevnetTyped' /\ NothingElse' /\ TrackedBeforeSave'
      BY <2>2, GoStep DEF At, DevnetInv, DevnetTyped
    <3>2. AllKnown'
      BY <2>2 DEF DevnetInv, AllKnown, Known
    <3> QED
      BY <3>1, <3>2 DEF DevnetInv
  <2> QED
    BY <1>10, <2>1, <2>2 DEF Clean
<1>11. ASSUME NEW c \in Command, Clear(c) PROVE DevnetInv'
  <2>1. PICK doing : Go(c, doing)
    BY <1>11 DEF Clear
  <2>2. DevnetTyped' /\ NothingElse' /\ TrackedBeforeSave'
    BY <1>11, <2>1, GoStep DEF Clear, At, DevnetInv, DevnetTyped
  <2>3. /\ alive' = alive /\ loose \subseteq loose' /\ UNCHANGED <<fresh, tracked>>
        /\ \A p \in (listed \cap alive) \ listed' : p \in loose'
    BY <1>11 DEF Clear
  <2>4. AllKnown'
    BY <2>3 DEF DevnetInv, AllKnown, Known
  <2> QED
    BY <2>2, <2>4 DEF DevnetInv
<1>12. ASSUME NEW p \in Pid, NodeDies(p) PROVE DevnetInv'
  BY <1>12 DEF NodeDies, DevnetInv, DevnetTyped, NothingElse, TrackedBeforeSave, AllKnown, Known
<1> QED
  BY <1>1, <1>2, <1>3, <1>4, <1>5, <1>6, <1>7, <1>8, <1>9, <1>10, <1>11, <1>12 DEF DevnetNext, Stop

(* Of every node that runs the state file or the deploy that spawned it    *)
(* knows, but for those that killed deploys, failed kills, and a file cut  *)
(* short or replaced under a command have let loose: a deploy tracks a pid *)
(* before it spawns the next one, saves when it has tracked them all, and  *)
(* its PidTracker kills what a failure leaves behind.                      *)
THEOREM NoOrphansCorrect ==
  ASSUME DevnetAssumption PROVE DevnetSpec => []NoOrphans
<1>1. DevnetInit => DevnetInv
  BY DevnetInvInit
<1>2. DevnetInv /\ [DevnetNext]_devnets => DevnetInv'
  BY DevnetInvStep
<1>3. DevnetInv => NoOrphans
  BY KnownMeansNoOrphans DEF DevnetInv
<1> QED
  BY <1>1, <1>2, <1>3, PTL DEF DevnetSpec

-----------------------------------------------------------------------------
\* What a setup leaves, and every later answer keeps.
Complete(map) ==
  /\ \A k \in Required : Text(map, k) /\ map[k] # Blank
  /\ map["public_base_url"] \in Urls

LEMMA OverKeeps ==
  ASSUME NEW map, NEW rest
  PROVE  /\ DOMAIN map \subseteq DOMAIN Over(map, rest)
         /\ \A k \in DOMAIN map : Over(map, rest)[k] = map[k]
         /\ \A k \in DOMAIN rest \ DOMAIN map :
              k \in DOMAIN Over(map, rest) /\ Over(map, rest)[k] = rest[k]
  BY DEF Over

(* A key other than nats_url has the value answered, if it is a text, and  *)
(* else the value it had.                                                  *)
LEMMA MergedText ==
  ASSUME NEW current, NEW answers, NEW k \in Required
  PROVE  /\ Text(answers, k) => /\ Text(Merged(current, answers), k)
                                /\ Merged(current, answers)[k] = answers[k]
         /\ ~Text(answers, k) /\ k \in DOMAIN current =>
              /\ k \in DOMAIN Merged(current, answers)
              /\ Merged(current, answers)[k] = current[k]
<1> DEFINE taken == {j \in DOMAIN answers :
                       answers[j] \in IF j \in Switches THEN {True, False} ELSE Texts}
           map == Over([j \in taken |-> answers[j]], current)
           blank == {j \in taken \cap {"nats_url"} : answers[j] = Blank}
<1>1. Merged(current, answers) = [j \in DOMAIN map \ blank |-> map[j]]
  BY DEF Merged
<1>2. k \notin Switches /\ k # "nats_url"
  BY DEF Required, Switches
<1>3. k \in taken <=> Text(answers, k)
  BY <1>2 DEF Text
<1>4. Text(answers, k) => k \in DOMAIN map /\ map[k] = answers[k]
  BY <1>3 DEF Over
<1>5. ~Text(answers, k) /\ k \in DOMAIN current => k \in DOMAIN map /\ map[k] = current[k]
  BY <1>3 DEF Over
<1>6. k \in DOMAIN map =>
        k \in DOMAIN Merged(current, answers) /\ Merged(current, answers)[k] = map[k]
  <2> HIDE DEF map
  <2> QED
    BY <1>1, <1>2
<1> QED
  BY <1>4, <1>5, <1>6 DEF Text

\* What an answer that is not refused makes of a configuration.
LEMMA MergedComplete ==
  ASSUME ConfigAssumption, NEW mode, NEW current, NEW answers, ~Refused(mode, answers),
         mode = "setup" \/ Complete(current)
  PROVE  Complete(Merged(current, answers))
<1>1. ASSUME NEW k \in Required
      PROVE  /\ Text(Merged(current, answers), k) /\ Merged(current, answers)[k] # Blank
             /\ k = "public_base_url" => Merged(current, answers)[k] \in Urls
  <2>1. CASE Text(answers, k)
    <3>1. answers[k] # Blank /\ (k = "public_base_url" => answers[k] \in Urls)
      BY <2>1 DEF Refused, Required, ConfigAssumption
    <3> QED
      BY <2>1, <3>1, MergedText
  <2>2. CASE ~Text(answers, k)
    <3>1. Complete(current)
      BY <2>2 DEF Refused
    <3> QED
      BY <2>2, <3>1, MergedText DEF Complete, Text
  <2> QED
    BY <2>1, <2>2
<1>2. "public_base_url" \in Required
  BY DEF Required
<1> QED
  BY <1>1, <1>2 DEF Complete

LEMMA CompleteOver ==
  ASSUME NEW map, NEW rest, Complete(map) PROVE Complete(Over(map, rest))
<1>1. \A j \in Required : j \in DOMAIN Over(map, rest) /\ Over(map, rest)[j] = map[j]
  BY OverKeeps DEF Complete, Text
<1>2. "public_base_url" \in Required
  BY DEF Required
<1> QED
  BY <1>1, <1>2 DEF Complete, Text

LEMMA CompleteSet ==
  ASSUME NEW map, NEW k, NEW v, Complete(map), k \notin Required PROVE Complete(Set(map, k, v))
<1>1. \A j \in Required : j \in DOMAIN Set(map, k, v) /\ Set(map, k, v)[j] = map[j]
  BY DEF Set, Complete, Text
<1>2. "public_base_url" \in Required
  BY DEF Required
<1> QED
  BY <1>1, <1>2 DEF Complete, Text

LEMMA CompleteApplied ==
  ASSUME NEW mode, NEW current, NEW answers, Complete(Merged(current, answers))
  PROVE  Complete(Applied(mode, current, answers))
<1>1. "enabled" \notin Required /\ "ingress" \notin Required /\ "ingress_enabled" \notin Required
  BY DEF Required
<1>2. CASE mode = "remove"
  BY <1>1, <1>2, CompleteSet DEF Applied
<1>3. CASE mode # "remove"
  BY <1>1, <1>3, CompleteSet, CompleteOver DEF Applied
<1> QED
  BY <1>2, <1>3

(* Once a setup has succeeded, the keys a setup requires stay there with   *)
(* values it would take, whatever is answered later: apply_answers refuses *)
(* blanks in every mode, and merge_answers passes over other values.       *)
THEOREM CompleteOnceSetUpCorrect ==
  ASSUME ConfigAssumption PROVE ConfigSpec => []CompleteOnceSetUp
<1>1. ConfigInit => CompleteOnceSetUp
  BY DEF ConfigInit, CompleteOnceSetUp
<1>2. CompleteOnceSetUp /\ [ConfigNext]_configs => CompleteOnceSetUp'
  <2> SUFFICES ASSUME CompleteOnceSetUp, [ConfigNext]_configs, begun' PROVE Complete(config')
    BY DEF CompleteOnceSetUp, Complete
  <2>1. CASE UNCHANGED configs
    BY <2>1 DEF configs, CompleteOnceSetUp, Complete
  <2>2. ASSUME NEW raw \in RawModes, NEW answers \in Answers, configure(raw, answers)
        PROVE  Complete(config')
    <3> DEFINE mode == normalize_mode(raw)
    <3>1. ~Refused(mode, answers) /\ config' = Applied(mode, config, answers)
          /\ (begun \/ mode = "setup")
      BY <2>2 DEF configure
    <3>2. mode = "setup" \/ Complete(config)
      BY <3>1 DEF CompleteOnceSetUp, Complete
    <3> HIDE DEF mode
    <3> QED
      BY <3>1, <3>2, MergedComplete, CompleteApplied
  <2> QED
    BY <2>1, <2>2 DEF ConfigNext
<1> QED
  BY <1>1, <1>2, PTL DEF ConfigSpec

-----------------------------------------------------------------------------
\* The ingress reads the URL and the path, and neither key is one it sets.
LEMMA IngressOfSet ==
  ASSUME NEW map, NEW k \in {"ingress", "enabled"}, NEW v, "public_path_prefix" \in DOMAIN map
  PROVE  /\ Ingress(Set(map, k, v)) = Ingress(map)
         /\ "public_path_prefix" \in DOMAIN Set(map, k, v)
<1>1. /\ "public_base_url" \in DOMAIN Set(map, k, v) <=> "public_base_url" \in DOMAIN map
      /\ "public_base_url" \in DOMAIN map =>
           Set(map, k, v)["public_base_url"] = map["public_base_url"]
      /\ Set(map, k, v)["public_path_prefix"] = map["public_path_prefix"]
      /\ "public_path_prefix" \in DOMAIN Set(map, k, v)
  BY DEF Set
<1> QED
  BY <1>1 DEF Ingress

(* As long as the component is enabled, its ingress is that of the URL and *)
(* the path it holds: build_ingress_config follows the merge, and whatever *)
(* came before.                                                            *)
THEOREM IngressFreshCorrect ==
  ASSUME ConfigAssumption PROVE ConfigSpec => []IngressFresh
<1>1. ConfigInit => IngressFresh
  BY DEF ConfigInit, IngressFresh
<1>2. IngressFresh /\ [ConfigNext]_configs => IngressFresh'
  <2> SUFFICES ASSUME IngressFresh, [ConfigNext]_configs PROVE IngressFresh'
    OBVIOUS
  <2>1. CASE UNCHANGED configs
    BY <2>1 DEF configs, IngressFresh
  <2>2. ASSUME NEW raw \in RawModes, NEW answers \in Answers, configure(raw, answers)
        PROVE  IngressFresh'
    <3> DEFINE mode == normalize_mode(raw)
               map == Merged(config, answers)
               full == Over(map, Defaults)
    <3>1. config' = Applied(mode, config, answers)
      BY <2>2 DEF configure
    <3> HIDE DEF mode, map
    <3>2. CASE mode = "remove"
      <4>1. config' = Set(Set(map, "enabled", False), "ingress_enabled", False)
        BY <3>1, <3>2 DEF Applied, map
      <4>2. config'["enabled"] = False
        BY <4>1 DEF Set
      <4> QED
        BY <4>2 DEF IngressFresh, True, False
    <3>3. CASE mode # "remove"
      <4>1. config' = Set(Set(full, "ingress", Ingress(full)), "enabled", True)
        BY <3>1, <3>3 DEF Applied, map
      <4>2. "public_path_prefix" \in DOMAIN full
        BY DEF Over, Defaults
      <4> HIDE DEF full
      <4>3. Ingress(config') = Ingress(full)
        BY <4>1, <4>2, IngressOfSet
      <4>4. config'["ingress"] = Ingress(full)
        BY <4>1 DEF Set
      <4> QED
        BY <4>3, <4>4 DEF IngressFresh
    <3> QED
      BY <3>2, <3>3
  <2> QED
    BY <2>1, <2>2 DEF ConfigNext
<1> QED
  BY <1>1, <1>2, PTL DEF ConfigSpec

-----------------------------------------------------------------------------
(* Keys of the store                                                       *)

SealedBody == [atom : Atoms, seal : {Plain} \cup (KeyId \X FitKey)]

KeysInv ==
  /\ provider \in Provider /\ is_open \in BOOLEAN /\ opens \in 0..MaxOpens
  /\ key_id \in {Plain} \cup {<<k>> : k \in KeyId}
  /\ bodies \in Seq(SealedBody) /\ confirmed \subseteq DOMAIN bodies

LEMMA SomeLargest ==
  ASSUME NEW n \in Nat, NEW S, S \subseteq 0..n, S # {}
  PROVE  \E most \in S : \A m \in S : m <= most
<1> DEFINE T == {k \in Nat : n - k \in S}
<1>1. T # {}
  <2>1. PICK m \in S : TRUE
    OBVIOUS
  <2>2. n - m \in Nat /\ n - (n - m) = m
    BY <2>1
  <2> QED
    BY <2>1, <2>2
<1>2. PICK least \in T : \A k \in T : ~(<<k, least>> \in OpToRel(<, Nat))
  <2>1. IsWellFoundedOn(OpToRel(<, Nat), Nat)
    BY NatLessThanWellFounded
  <2>2. T \subseteq Nat
    OBVIOUS
  <2> HIDE DEF T
  <2> QED
    BY <1>1, <2>1, <2>2, WFMin, Zenon
<1>3. \A k \in T : least <= k
  <2>1. \A k \in T : ~(k < least)
    BY <1>2 DEF OpToRel
  <2> QED
    BY <2>1
<1>4. \A m \in S : n - m \in T
  OBVIOUS
<1>5. ASSUME NEW m \in S
      PROVE  m <= n - least
  <2>1. least <= n - m
    BY <1>3, <1>4
  <2> QED
    BY <2>1
<1> QED
  BY <1>2, <1>5

LEMMA KeysInitInv == ASSUME KeysAssumption, KeysInit PROVE KeysInv
<1>1. << >> \in Seq(SealedBody)
  OBVIOUS
<1>2. [k \in KeyId |-> Absent] \in Provider
  BY DEF Provider
<1>3. 0 \in 0..MaxOpens
  BY DEF KeysAssumption
<1> QED
  BY <1>1, <1>2, <1>3 DEF KeysInit, KeysInv

(* What is sealed is a body whose key fits; the rest of a batch is not     *)
(* written.                                                                *)
LEMMA AppendStep ==
  ASSUME KeysAssumption, KeysInv, NEW w \in AtomWorld, append_atoms(w)
  PROVE  KeysInv'
<1> USE DEF KeysInv
<1>1. PICK batch \in SeqOf(Atoms, MaxLog - Len(bodies)) :
        LET good == {n \in 0..Len(batch) : \A i \in 1..n : batch[i].world = w /\ Encodes}
            done == CHOOSE n \in good : \A m \in good : m <= n
        IN  /\ bodies' = bodies \o [i \in 1..done |-> encode_atom(batch[i])]
            /\ confirmed' = confirmed \cup
                 (IF done = Len(batch) THEN Len(bodies) + 1 .. Len(bodies) + done ELSE {})
  BY DEF append_atoms
<1> DEFINE good == {n \in 0..Len(batch) : \A i \in 1..n : batch[i].world = w /\ Encodes}
           done == CHOOSE n \in good : \A m \in good : m <= n
           added == [i \in 1..done |-> encode_atom(batch[i])]
<1>2. PICK m \in Nat : batch \in [1..m -> Atoms]
  BY <1>1 DEF SeqOf
<1>3. batch \in Seq(Atoms) /\ Len(batch) = m
  BY <1>2
<1>4. done \in 0..Len(batch) /\ \A i \in 1..done : Encodes
  <2>1. good \subseteq 0..Len(batch) /\ 0 \in good
    BY <1>3
  <2>2. \E n \in good : \A k \in good : k <= n
    <3>1. Len(batch) \in Nat
      BY <1>3
    <3> HIDE DEF good
    <3> QED
      BY <2>1, <3>1, SomeLargest, Zenon
  <2>3. done \in good
    <3> HIDE DEF good
    <3> QED
      BY <2>2
  <2> HIDE DEF done
  <2> QED
    BY <2>3
<1>5. /\ bodies' = bodies \o added
      /\ confirmed' = confirmed \cup
           (IF done = Len(batch) THEN Len(bodies) + 1 .. Len(bodies) + done ELSE {})
  BY <1>1
<1> HIDE DEF done
<1>6. \A i \in 1..done : encode_atom(batch[i]) \in SealedBody
  <2>1. SUFFICES ASSUME NEW i \in 1..done
                 PROVE  encode_atom(batch[i]) \in SealedBody
    OBVIOUS
  <2>2. batch[i] \in Atoms /\ Encodes
    BY <1>2, <1>3, <1>4
  <2>3. CASE key_id = Plain
    BY <2>2, <2>3 DEF encode_atom, SealedBody
  <2>4. CASE key_id # Plain
    <3>1. PICK k \in KeyId : key_id = <<k>>
      BY <2>4
    <3>2. provider[k] \in FitKey
      BY <2>2, <2>4, <3>1 DEF Encodes, key_from_bytes
    <3> QED
      BY <2>2, <2>4, <3>1, <3>2 DEF encode_atom, SealedBody
  <2> QED
    BY <2>3, <2>4
<1>7. added \in Seq(SealedBody) /\ Len(added) = done
  <2>1. added \in [1..done -> SealedBody] /\ done \in Nat
    BY <1>3, <1>4, <1>6
  <2> HIDE DEF added
  <2> QED
    BY <2>1
<1> HIDE DEF added
<1>8. bodies' \in Seq(SealedBody) /\ Len(bodies') = Len(bodies) + done
  <2>1. bodies \in Seq(SealedBody)
    OBVIOUS
  <2>2. \A S : \A a, b \in Seq(S) : a \o b \in Seq(S) /\ Len(a \o b) = Len(a) + Len(b)
    OBVIOUS
  <2> HIDE DEF KeysInv
  <2>3. bodies \o added \in Seq(SealedBody) /\ Len(bodies \o added) = Len(bodies) + Len(added)
    BY <1>7, <2>1, <2>2, Zenon
  <2> QED
    BY <1>5, <1>7, <2>3
<1>9. confirmed' \subseteq DOMAIN bodies'
  <2>1. /\ DOMAIN bodies' = 1..(Len(bodies) + done)
        /\ DOMAIN bodies = 1..Len(bodies) /\ Len(bodies) \in Nat
    BY <1>8
  <2> QED
    BY <1>4, <1>5, <2>1
<1> QED
  BY <1>8, <1>9 DEF append_atoms

LEMMA KeysStep ==
  ASSUME KeysAssumption, KeysInv, [KeysNext]_sealed
  PROVE  KeysInv'
<1>1. CASE open_store
  <2>1. bodies' = bodies /\ confirmed' = confirmed
    BY <1>1 DEF open_store, Repaired
  <2>2. opens' \in 0..MaxOpens
    BY <1>1 DEF open_store, KeysInv, KeysAssumption
  <2> QED
    BY <1>1, <2>1, <2>2 DEF open_store, KeysInv
<1>2. CASE CloseStore
  BY <1>2 DEF CloseStore, KeysInv
<1>3. CASE \E w \in AtomWorld : append_atoms(w)
  BY <1>3, AppendStep
<1>4. CASE UNCHANGED sealed
  BY <1>4 DEF sealed, KeysInv
<1> QED
  BY <1>1, <1>2, <1>3, <1>4 DEF KeysNext

LEMMA KeysInvariant == ASSUME KeysAssumption PROVE KeysSpec => []KeysInv
<1>1. KeysInit => KeysInv
  BY KeysInitInv
<1>2. KeysInv /\ [KeysNext]_sealed => KeysInv'
  BY KeysStep
<1> QED
  BY <1>1, <1>2, PTL DEF KeysSpec

(* A scan or a list of ids without a limit goes through every body of the  *)
(* world, and answers all that match or an error.                          *)
LEMMA WalkAll ==
  ASSUME NEW w, NEW hits, hits \subseteq BodiesOf(w)
  PROVE  /\ (\A i \in BodiesOf(w) : decode_atom(bodies[i])) => Walk(w, hits, 0) = Ok(hits)
         /\ Walk(w, hits, 0).ok => Walk(w, hits, 0).places = hits
<1>1. {i \in BodiesOf(w) : \A j \in BodiesOf(w) :
         j < i => ~(0 > 0 /\ Cardinality({k \in hits : k <= j}) >= 0)} = BodiesOf(w)
  OBVIOUS
<1>2. Walk(w, hits, 0) =
        IF \E i \in BodiesOf(w) : ~decode_atom(bodies[i]) THEN Error ELSE Ok(BodiesOf(w) \cap hits)
  BY <1>1 DEF Walk
<1>3. BodiesOf(w) \cap hits = hits
  OBVIOUS
<1> QED
  BY <1>2, <1>3 DEF Error, Ok

(* Whatever the provider holds and the store was opened with, the type of  *)
(* every body stays: no atom is sealed with a key that does not fit.       *)
THEOREM KeysTypeCorrect ==
  ASSUME KeysAssumption PROVE KeysSpec => []KeysTypeOK
<1>1. KeysInv => KeysTypeOK
  <2>1. ASSUME KeysInv, NEW i \in DOMAIN bodies
        PROVE  bodies[i] \in SealedBody
    BY <2>1 DEF KeysInv
  <2> QED
    BY <2>1 DEF KeysInv, KeysTypeOK, SealedBody
<1> QED
  BY <1>1, KeysInvariant, PTL

(* For any key ids, keys, atoms and number of openings: once the provider  *)
(* has the keys of a world's bodies under their ids, every atom of it is   *)
(* read again, whatever key id the store is open with (decrypt_bytes).     *)
THEOREM RotationReadsCorrect ==
  ASSUME KeysAssumption PROVE KeysSpec => []RotationReads
<1>1. KeysInv => RotationReads
  <2>1. SUFFICES ASSUME KeysInv, NEW w \in AtomWorld,
                        \A i \in BodiesOf(w) : bodies[i].seal # Plain =>
                          provider[bodies[i].seal[1]] = bodies[i].seal[2]
                 PROVE  /\ \A since \in Instants :
                             scan(w, since, 0)
                               = Ok({i \in BodiesOf(w) : bodies[i].atom.ts >= since})
                        /\ get_by_ids(BodiesOf(w)) = Ok(BodiesOf(w))
                        /\ stats(w).vector_count
                             = Cardinality({i \in BodiesOf(w) : bodies[i].atom.vector})
    BY DEF RotationReads
  <2>2. ASSUME NEW i \in BodiesOf(w)
        PROVE  decode_atom(bodies[i])
    <3>1. bodies[i] \in SealedBody
      BY <2>1 DEF KeysInv, BodiesOf
    <3>2. CASE bodies[i].seal = Plain
      BY <3>2 DEF decode_atom
    <3>3. CASE bodies[i].seal \in KeyId \X FitKey
      <4>1. bodies[i].seal # Plain
        BY <3>3 DEF Plain
      <4> QED
        BY <2>1, <3>3, <4>1 DEF decode_atom, key_from_bytes
    <3> QED
      BY <3>1, <3>2, <3>3 DEF SealedBody
  <2>3. ASSUME NEW since \in Instants
        PROVE  scan(w, since, 0) = Ok({i \in BodiesOf(w) : bodies[i].atom.ts >= since})
    BY <2>2, WalkAll DEF scan
  <2>4. get_by_ids(BodiesOf(w)) = Ok(BodiesOf(w))
    <3>1. BodiesOf(w) \cap DOMAIN bodies = BodiesOf(w)
      BY DEF BodiesOf
    <3> QED
      BY <2>2, <3>1 DEF get_by_ids
  <2>5. stats(w).vector_count = Cardinality({i \in BodiesOf(w) : bodies[i].atom.vector})
    <3>1. {i \in BodiesOf(w) : decode_atom(bodies[i]) /\ bodies[i].atom.vector}
            = {i \in BodiesOf(w) : bodies[i].atom.vector}
      BY <2>2
    <3> QED
      BY <3>1 DEF stats
  <2> QED
    BY <2>3, <2>4, <2>5
<1> QED
  BY <1>1, KeysInvariant, PTL

(* Whatever keys are lost or changed between openings, and in whatever     *)
(* order, an atom that was acknowledged is counted, its world is listed,   *)
(* and a read that leaves it out is an error (repair_logs, scan, stats).   *)
THEOREM KeysLoseNothingCorrect ==
  ASSUME KeysAssumption PROVE KeysSpec => []KeysLoseNothing
<1>1. KeysInv => KeysLoseNothing
  <2>1. SUFFICES ASSUME KeysInv
                 PROVE  KeysLoseNothing
    OBVIOUS
  <2>2. confirmed \subseteq DOMAIN bodies /\ DOMAIN bodies = 1..Len(bodies) /\ Len(bodies) \in Nat
    BY <2>1 DEF KeysInv
  <2>3. \A i \in confirmed : bodies[i].atom.world \in stored_worlds
    BY <2>2 DEF stored_worlds
  <2>4. ASSUME NEW w \in AtomWorld
        PROVE  stats(w).atom_count >= Cardinality(confirmed \cap BodiesOf(w))
    <3>1. IsFiniteSet(1..Len(bodies))
      BY <2>2, FS_Interval
    <3>2. BodiesOf(w) \subseteq 1..Len(bodies)
      BY <2>2 DEF BodiesOf
    <3>3. IsFiniteSet(BodiesOf(w))
      BY <3>1, <3>2, FS_Subset
    <3>4. /\ IsFiniteSet(confirmed \cap BodiesOf(w))
          /\ Cardinality(confirmed \cap BodiesOf(w)) <= Cardinality(BodiesOf(w))
      <4>1. confirmed \cap BodiesOf(w) \in SUBSET BodiesOf(w)
        OBVIOUS
      <4> QED
        BY <3>3, <4>1, FS_Subset
    <3>5. /\ Cardinality(BodiesOf(w)) \in Nat
          /\ Cardinality(confirmed \cap BodiesOf(w)) \in Nat
      BY <3>3, <3>4, FS_CardinalityType
    <3> QED
      BY <3>4, <3>5 DEF stats
  <2>5. ASSUME NEW w \in AtomWorld, NEW since \in Instants, scan(w, since, 0).ok
        PROVE  {i \in confirmed \cap BodiesOf(w) : bodies[i].atom.ts >= since}
                 \subseteq scan(w, since, 0).places
    <3> DEFINE hits == {i \in BodiesOf(w) : bodies[i].atom.ts >= since}
    <3>1. scan(w, since, 0).places = hits
      BY <2>5, WalkAll DEF scan
    <3> QED
      BY <3>1
  <2>6. ASSUME NEW w \in AtomWorld, NEW start \in Instants, NEW end \in Instants,
               list_ids_in_window(w, start, end).ok,
               NEW i \in confirmed \cap BodiesOf(w),
               bodies[i].atom.ts >= start, bodies[i].atom.ts <= end
        PROVE  i \in list_ids_in_window(w, start, end).places
    <3> DEFINE hits == {j \in BodiesOf(w) : bodies[j].atom.ts \in start..end}
    <3>1. list_ids_in_window(w, start, end).places = hits
      BY <2>6, WalkAll DEF list_ids_in_window
    <3>2. bodies[i].atom.ts \in Nat /\ start \in Nat /\ end \in Nat
      <4>1. bodies[i] \in SealedBody
        BY <2>1, <2>2 DEF KeysInv
      <4>2. bodies[i].atom \in Atoms
        BY <4>1 DEF SealedBody
      <4> QED
        BY <4>2 DEF KeysAssumption, Instants
    <3>3. bodies[i].atom.ts \in start..end
      BY <2>6, <3>2
    <3>4. i \in hits
      BY <2>6, <3>3
    <3> QED
      BY <3>1, <3>4
  <2> QED
    BY <2>2, <2>3, <2>4, <2>5, <2>6 DEF KeysLoseNothing
<1> QED
  BY <1>1, KeysInvariant, PTL
=============================================================================
