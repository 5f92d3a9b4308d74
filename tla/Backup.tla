------------------------------- MODULE Backup -------------------------------
(***************************************************************************)
(* create_snapshot and restore_snapshot, crates/dwbase-cli/src/main.rs:    *)
(* one archive, one data directory, and the staging directory beside it. A *)
(* command is a sequence of file operations; it may die, or fail with an   *)
(* I/O error, between any two, and leave what it was at half done.         *)
(*                                                                         *)
(* Abstractions: the content of the directory is one value; an archive is  *)
(* cut short, or whole with or without its data and with metadata that     *)
(* parse, are absent or do not parse; no node runs meanwhile, and index    *)
(* metadata are left out.                                                  *)
(***************************************************************************)
EXTENDS Naturals

CONSTANTS
  Content,
  MaxDeaths, MaxWrites \* bounds: commands that die, changes by a node

Nothing == "nothing"  \* no file or directory of that name
Empty   == "empty"
Part    == "part"     \* unpacked or removed in part

BackupAssumption ==
  /\ Content \cap {Nothing, Empty, Part} = {}
  /\ MaxDeaths \in Nat /\ MaxWrites \in Nat

NoArchive == [data |-> Nothing, meta |-> "none"]
Cut       == [data |-> Nothing, meta |-> "cut"]  \* an archive written in part
Archives  == {NoArchive, Cut} \cup
  [data : Content \cup {Nothing, Empty}, meta : {"ok", "absent", "bad"}]

VARIABLES
  data_dir, staging, \* what is in the directories
  out,               \* the archive
  pc, force,         \* the command that runs
  owed,              \* history: what the directory should come to hold
  deaths, writes

backups == <<data_dir, staging, out, pc, force, owed, deaths, writes>>

Unreadable == out.meta \in {"cut", "bad"}

Goes(step) == pc' = step /\ UNCHANGED <<force, deaths, writes>>

-----------------------------------------------------------------------------
BackupInit ==
  /\ data_dir \in {Nothing, Empty} \cup Content
  /\ staging = Nothing /\ out \in Archives
  /\ pc = "idle" /\ force = FALSE
  /\ owed = data_dir
  /\ deaths = 0 /\ writes = 0

(* A node opens the directory, making it if need be, and changes it. No    *)
(* operator starts one, or takes the archive away, after a restore failed. *)
NodeWrites(d) ==
  /\ pc = "idle" /\ writes < MaxWrites /\ data_dir = owed
  /\ data_dir' = d /\ owed' = d
  /\ writes' = writes + 1
  /\ UNCHANGED <<staging, out, pc, force, deaths>>

(* create_snapshot, which refuses a name that exists; what it has written  *)
(* of the archive stays when it fails.                                     *)
Create ==
  /\ pc = "idle" /\ data_dir \notin {Nothing, Part} /\ out = NoArchive
  /\ out' = Cut
  /\ Goes("create")
  /\ UNCHANGED <<data_dir, staging, owed>>

Archived ==
  /\ pc = "create"
  /\ out' = [data |-> data_dir, meta |-> "ok"]
  /\ Goes("idle")
  /\ UNCHANGED <<data_dir, staging, owed>>

(* The operator takes the archive away, or brings one from elsewhere.      *)
Replace(o) ==
  /\ pc = "idle" /\ writes < MaxWrites /\ data_dir = owed
  /\ out' = o /\ writes' = writes + 1
  /\ UNCHANGED <<data_dir, staging, pc, force, owed, deaths>>

(* restore_snapshot: an older staging directory is cleared, a new one made *)
Restore(f) ==
  /\ pc = "idle" /\ out # NoArchive
  /\ pc' = "unpack" /\ force' = f
  /\ staging' = Part
  /\ UNCHANGED <<data_dir, out, owed, deaths, writes>>

\* A faulty variant: the directory is cleared while the archive is unpacked.
UnpackClears ==
  /\ pc = "unpack"
  /\ staging' = IF out.meta = "cut" THEN staging ELSE out.data
  /\ data_dir' = IF force THEN Nothing ELSE data_dir
  /\ Goes(IF Unreadable THEN "idle" ELSE "look")
  /\ UNCHANGED <<out, owed>>

(* ... the archive unpacked: one cut short ends the command in an error,   *)
(* and so do metadata that do not parse ...                                *)
Unpack ==
  /\ pc = "unpack"
  /\ staging' = IF out.meta = "cut" THEN staging ELSE out.data
  /\ Goes(IF Unreadable THEN "idle" ELSE "look")
  /\ UNCHANGED <<data_dir, out, owed>>

(* ... a directory that is not empty refused, unless forced: past this the *)
(* payload is what the directory should come to hold ...                   *)
LookAt ==
  /\ pc = "look"
  /\ IF force \/ data_dir \in {Nothing, Empty}
     THEN owed' = staging /\ Goes("remove")
     ELSE UNCHANGED owed /\ Goes("idle")
  /\ UNCHANGED <<data_dir, staging, out>>

(* ... the directory removed, and only then the payload looked for ...     *)
RemoveData ==
  /\ pc = "remove"
  /\ data_dir' = Nothing
  /\ Goes(IF staging = Nothing THEN "idle" ELSE "rename")
  /\ UNCHANGED <<staging, out, owed>>

(* ... the payload moved into its place, and the staging directory removed.*)
Rename ==
  /\ pc = "rename"
  /\ data_dir' = staging /\ staging' = Nothing
  /\ Goes("idle")
  /\ UNCHANGED <<out, owed>>

(* The command dies or fails; a removal may have got half way.             *)
Die ==
  /\ pc # "idle" /\ deaths < MaxDeaths /\ deaths' = deaths + 1
  /\ pc' = "idle"
  /\ data_dir' \in IF pc = "remove" /\ data_dir \in Content
                   THEN {data_dir, Part} ELSE {data_dir}
  /\ UNCHANGED <<staging, out, force, owed, writes>>

BackupNext ==
  \/ \E d \in Content : NodeWrites(d)
  \/ Create \/ Archived
  \/ \E o \in Archives : Replace(o)
  \/ \E f \in BOOLEAN : Restore(f)
  \/ Unpack \/ LookAt \/ RemoveData \/ Rename \/ Die

BackupSpec == BackupInit /\ [][BackupNext]_backups

-----------------------------------------------------------------------------
(* Data are never lost to a restore, wherever it fails or dies and however *)
(* often it is tried again: those of the directory stay in place until the *)
(* archive is unpacked whole and the operator has forced the change, and   *)
(* from then on those of the archive are in place, in staging, or in the   *)
(* archive. An archive without data does cost the directory its own: the   *)
(* code looks for them only once it has removed it (restore_snapshot).     *)
NothingLost ==
  owed \in Content =>
    data_dir = owed \/ staging = owed \/ out.data = owed
=============================================================================
