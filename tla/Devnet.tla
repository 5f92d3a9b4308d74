------------------------------- MODULE Devnet -------------------------------
(***************************************************************************)
(* deploy_devnet, stop_devnet and clean_devnet, crates/dwbase-cli/src/     *)
(* main.rs: commands, each a process of its own, that share a state file   *)
(* with the pids of the nodes. A deploy remembers what it has spawned in a *)
(* PidTracker, which kills it when the deploy fails or on Ctrl-C; nothing  *)
(* does when the deploy itself is killed.                                  *)
(*                                                                         *)
(* Abstractions: of a NodeState the pid is kept; a pid that was a node's   *)
(* is not given out again; reading the file and looking at its pids is one *)
(* step, with the killing of a stop; Ctrl-C reaches the command alone;     *)
(* configs, logs and the files of the nodes are left out.                  *)
(***************************************************************************)
EXTENDS Naturals, FiniteSets

CONSTANTS
  Command,  \* processes of the CLI
  Pid,
  Nodes,    \* --nodes
  MaxKills, \* bound: commands killed
  MaxFails  \* bound: spawns, writes, kills and removals that fail

DevnetAssumption ==
  /\ Nodes \in Nat \ {0} /\ MaxKills \in Nat /\ MaxFails \in Nat

VARIABLES
  file,    \* the state file: "none", "torn" when it does not parse, "whole"
  listed,  \* the pids in it
  alive,   \* the nodes that run
  used,    \* pids given out
  cmd,     \* what each command is doing
  kept,    \* what a deploy has read of the file and found running
  fresh,   \* what each has spawned and not tracked yet
  tracked, \* the PidTracker of each
  loose,   \* history: nodes nothing can be expected to know of, see NoOrphans
  kills, fails

devnets == <<file, listed, alive, used, cmd, kept, fresh, tracked, loose, kills, fails>>

At(c, pc) == cmd[c] = pc
Go(c, pc) == cmd' = [cmd EXCEPT ![c] = pc]
File(kind, pids) == file' = kind /\ listed' = pids
Quit(c) ==
  /\ Go(c, "idle") /\ kept' = [kept EXCEPT ![c] = {}]
  /\ fresh' = [fresh EXCEPT ![c] = {}] /\ tracked' = [tracked EXCEPT ![c] = {}]

-----------------------------------------------------------------------------
DevnetInit ==
  /\ file = "none" /\ listed = {} /\ alive = {} /\ used = {}
  /\ cmd = [c \in Command |-> "idle"]
  /\ kept = [c \in Command |-> {}] /\ fresh = kept /\ tracked = kept
  /\ loose = {} /\ kills = 0 /\ fails = 0

(* A deploy goes on when there is no file, and gives up on one that does   *)
(* not parse, or whose nodes all run. Else load_state_pruned ...           *)
Deploy(c) ==
  /\ At(c, "idle")
  /\ \/ file = "none" /\ Go(c, "spawn") /\ UNCHANGED kept
     \/ /\ file = "whole" /\ listed \cap alive # listed
        /\ kept' = [kept EXCEPT ![c] = listed \cap alive] /\ Go(c, "prune")
  /\ UNCHANGED <<file, listed, alive, used, fresh, tracked, loose, kills, fails>>

(* ... drops those that died from the file, whatever it holds by now: no   *)
(* file is left when all did, and the deploy goes on, even if it could not *)
(* remove the file; and it gives up when some run.                         *)
PruneState(c) ==
  /\ At(c, "prune")
  /\ \/ /\ kept[c] # {} /\ Quit(c)
        /\ File("whole", kept[c]) /\ loose' = loose \cup ((listed \cap alive) \ kept[c])
        /\ UNCHANGED fails
     \/ /\ kept[c] = {} /\ Go(c, "spawn")
        /\ \/ File("none", {}) /\ loose' = loose \cup (listed \cap alive) /\ UNCHANGED fails
           \/ fails < MaxFails /\ fails' = fails + 1 /\ UNCHANGED <<file, listed, loose>>
        /\ UNCHANGED <<kept, fresh, tracked>>
  /\ UNCHANGED <<alive, used, kills>>

(* A node runs before its pid is tracked.                                  *)
Spawn(c) ==
  /\ At(c, "spawn") /\ fresh[c] = {} /\ Cardinality(tracked[c]) < Nodes
  /\ \E p \in Pid \ used :
       /\ used' = used \cup {p} /\ alive' = alive \cup {p}
       /\ fresh' = [fresh EXCEPT ![c] = {p}]
  /\ UNCHANGED <<file, listed, cmd, kept, tracked, loose, kills, fails>>

Push(c) ==
  /\ fresh[c] # {}
  /\ tracked' = [tracked EXCEPT ![c] = @ \cup fresh[c]]
  /\ fresh' = [fresh EXCEPT ![c] = {}]
  /\ UNCHANGED <<file, listed, alive, used, cmd, kept, loose, kills, fails>>

(* save_state replaces the file, whatever another deploy has saved.        *)
Save(c) ==
  /\ At(c, "spawn") /\ Cardinality(tracked[c]) = Nodes
  /\ File("whole", tracked[c])
  /\ loose' = loose \cup (listed \cap alive)
  /\ Quit(c)
  /\ UNCHANGED <<alive, used, kills, fails>>

\* A faulty variant of the definition below: the tracker is disarmed too early.
KillsNone(c) == alive' = alive

\* The command ends in an error, and the tracker is dropped, still armed.
KillsTracked(c) == alive' = alive \ tracked[c]

\* save_state may be cut short where it is called: the write truncates first.
Writing(c) ==
  \/ At(c, "prune") /\ kept[c] # {}
  \/ At(c, "spawn") /\ Cardinality(tracked[c]) = Nodes
CutShort(c) == Writing(c) /\ File("torn", {})

(* Something fails, and the command with it.                               *)
Fail(c) ==
  /\ \/ At(c, "spawn") /\ fresh[c] = {}
     \/ At(c, "prune") /\ kept[c] # {}
  /\ fails < MaxFails /\ fails' = fails + 1
  /\ KillsTracked(c)
  /\ \/ UNCHANGED <<file, listed, loose>>
     \/ CutShort(c) /\ loose' = loose \cup (listed \cap alive)
  /\ Quit(c)
  /\ UNCHANGED <<used, kills>>

(* Ctrl-C: the handler's copy of the tracker kills, and the command exits. *)
Interrupt(c) ==
  /\ cmd[c] # "idle" /\ kills < MaxKills /\ kills' = kills + 1
  /\ alive' = alive \ tracked[c]
  /\ \/ loose' = loose \cup fresh[c] /\ UNCHANGED <<file, listed>>
     \/ CutShort(c) /\ loose' = loose \cup fresh[c] \cup (listed \cap alive)
  /\ Quit(c)
  /\ UNCHANGED <<used, fails>>

Kill(c) ==
  /\ cmd[c] # "idle" /\ kills < MaxKills /\ kills' = kills + 1
  /\ \/ loose' = loose \cup tracked[c] \cup fresh[c] /\ UNCHANGED <<file, listed>>
     \/ CutShort(c) /\ loose' = loose \cup tracked[c] \cup fresh[c] \cup (listed \cap alive)
  /\ Quit(c)
  /\ UNCHANGED <<alive, used, fails>>

(* The nodes of the file that run are killed; a kill may fail.             *)
KillListed(c, pc) ==
  /\ At(c, "idle") /\ file = "whole"
  /\ \E failed \in SUBSET (listed \cap alive) :
       /\ fails' = fails + Cardinality(failed) /\ fails' <= MaxFails
       /\ alive' = (alive \ listed) \cup failed
       /\ loose' = loose \cup failed
  /\ Go(c, pc)
  /\ UNCHANGED <<file, listed, used, kept, fresh, tracked, kills>>

(* stop_devnet: what runs is killed, and then the file is removed, also    *)
(* when a kill failed or another deploy has saved it in between.           *)
Stop(c) == KillListed(c, "clear")

(* clean_devnet: a stop, whose error is only reported, then the files go.  *)
Clean(c) ==
  \/ KillListed(c, "clear and clean")
  \/ /\ At(c, "idle") /\ file # "whole" /\ Go(c, "clean")
     /\ UNCHANGED <<file, listed, alive, used, kept, fresh, tracked, loose, kills, fails>>

Clear(c) ==
  /\ cmd[c] \in {"clear", "clear and clean", "clean"}
  /\ \/ File("none", {}) /\ loose' = loose \cup (listed \cap alive) /\ UNCHANGED fails
     \/ fails < MaxFails /\ fails' = fails + 1 /\ UNCHANGED <<file, listed, loose>>
  /\ Go(c, IF At(c, "clear and clean") THEN "clean" ELSE "idle")
  /\ UNCHANGED <<alive, used, kept, fresh, tracked, kills>>

NodeDies(p) ==
  /\ p \in alive /\ alive' = alive \ {p}
  /\ UNCHANGED <<file, listed, used, cmd, kept, fresh, tracked, loose, kills, fails>>

DevnetNext ==
  \/ \E c \in Command :
       \/ Deploy(c) \/ PruneState(c) \/ Spawn(c) \/ Push(c) \/ Save(c) \/ Fail(c)
       \/ Interrupt(c) \/ Kill(c) \/ Stop(c) \/ Clean(c) \/ Clear(c)
  \/ \E p \in Pid : NodeDies(p)

DevnetSpec == DevnetInit /\ [][DevnetNext]_devnets

-----------------------------------------------------------------------------
(* Every node that runs is in the state file, so that a stop reaches it,   *)
(* or in the tracker of the deploy that spawned it, so that its failure    *)
(* does: but for those of a deploy that was killed, or interrupted before  *)
(* it had tracked the pid; of a file that a command cut short, by failing  *)
(* or dying as it wrote, also when it only pruned the file, or replaced or *)
(* removed having read an older one; and of a failed kill (deploy_devnet,  *)
(* PidTracker, load_state_pruned, stop_devnet).                            *)
NoOrphans ==
  alive \subseteq listed \cup loose \cup UNION {tracked[c] \cup fresh[c] : c \in Command}
=============================================================================
