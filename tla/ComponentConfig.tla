-------------------------- MODULE ComponentConfig ---------------------------
(***************************************************************************)
(* The configuration of the Greentic component, crates/component-dwbase/   *)
(* src/qa.rs: a host calls configure or apply_answers with a mode, the     *)
(* answers and the configuration it holds, and keeps what it gets back.    *)
(*                                                                         *)
(* Abstractions: a JSON map is a partial function from keys to values, and *)
(* a value is one of the kinds that the code tells apart. Strings are      *)
(* trimmed; keys the code does not know, warnings and wording are left     *)
(* out. An answer that is refused leaves the host with what it holds, and  *)
(* is no step.                                                             *)
(***************************************************************************)
CONSTANTS
  Urls, NatsUrls, \* texts with the scheme of a base URL, of a NATS URL
  Paths,   \* paths that are neither blank nor "/"
  RawModes, Answers \* what callers pass

Blank == "blank"
Slash == "slash"
Other == "other"   \* some text that is no URL; any further value is no string
True  == "true"    \* a Boolean, or a string that spells it
False == "false"

Texts    == {Blank, Slash, Other} \cup Urls \cup NatsUrls \cup Paths
Required == {"data_dir", "default_tenant", "public_base_url"}
Strings  == Required \cup {"public_path_prefix", "nats_url"}
Switches == {"swarm_enable", "confirm_remove"}

ConfigAssumption ==
  /\ \A a \in Answers : DOMAIN a \subseteq Strings \cup Switches
  /\ Blank \notin Urls

VARIABLES
  config, \* the configuration the host holds
  begun   \* history: a setup has succeeded

configs == <<config, begun>>

Text(map, k) == k \in DOMAIN map /\ map[k] \in Texts
Set(map, k, v) == [j \in DOMAIN map \cup {k} |-> IF j = k THEN v ELSE map[j]]

\* The entries of one map, and those of another for the keys it lacks.
Over(map, rest) ==
  [k \in DOMAIN map \cup DOMAIN rest |-> IF k \in DOMAIN map THEN map[k] ELSE rest[k]]

normalize_mode(raw) ==
  CASE raw \in {"update", "upgrade"} -> "update"
    [] raw = "remove" -> "remove"
    [] OTHER -> "setup"

-----------------------------------------------------------------------------
\* A faulty variant of the definition below: only a setup validates.
RefusedAtSetup(mode, answers) ==
  /\ mode = "setup"
  /\ \E k \in Required : ~Text(answers, k) \/ answers[k] = Blank

(* Something is missing, or what is there is blank or no URL. A nats_url   *)
(* may be blank, which takes it out of the configuration.                  *)
Refused(mode, answers) ==
  \/ mode = "setup" /\ \E k \in Required : ~Text(answers, k)
  \/ mode = "remove" /\ ~("confirm_remove" \in DOMAIN answers /\ answers["confirm_remove"] = True)
  \/ \E k \in {"data_dir", "default_tenant"} : Text(answers, k) /\ answers[k] = Blank
  \/ Text(answers, "public_base_url") /\ answers["public_base_url"] \notin Urls
  \/ Text(answers, "nats_url") /\ answers["nats_url"] \notin {Blank} \cup NatsUrls

\* merge_answers: a value of the wrong kind is passed over.
Merged(current, answers) ==
  LET taken == {k \in DOMAIN answers :
                  answers[k] \in IF k \in Switches THEN {True, False} ELSE Texts}
      map == Over([k \in taken |-> answers[k]], current)
      out == {k \in taken \cap {"nats_url"} : answers[k] = Blank}
  IN  [k \in DOMAIN map \ out |-> map[k]]

normalize_path_prefix(value) == IF value \in {Blank, Slash} THEN "/dwbase" ELSE value

\* build_ingress_config
Ingress(map) ==
  LET base == IF "public_base_url" \in DOMAIN map THEN map["public_base_url"] ELSE "null"
      path == normalize_path_prefix(map["public_path_prefix"])
  IN  [public_base_url |-> base, public_path_prefix |-> path,
       public_api_base_url |-> IF base \in {"null", Blank} THEN << >> ELSE <<base, path>>,
       ingress_enabled |-> True]

Defaults == [public_path_prefix |-> "/dwbase", swarm_enable |-> False]

\* A faulty variant of the definition below: ingress from before the answers.
AppliedEarly(mode, current, answers) ==
  LET map == Merged(current, answers) IN
  IF mode = "remove"
  THEN Set(Set(map, "enabled", False), "ingress_enabled", False)
  ELSE Set(Set(Over(map, Defaults), "ingress", Ingress(Over(current, Defaults))),
           "enabled", True)

(* What the host gets back. A remove leaves "ingress" as it was, and what  *)
(* it sets beside it, "ingress_enabled", no later setup sets again.        *)
Applied(mode, current, answers) ==
  LET map == Merged(current, answers) IN
  IF mode = "remove"
  THEN Set(Set(map, "enabled", False), "ingress_enabled", False)
  ELSE Set(Set(Over(map, Defaults), "ingress", Ingress(Over(map, Defaults))),
           "enabled", True)

-----------------------------------------------------------------------------
ConfigInit == config = << >> /\ begun = FALSE

configure(raw, answers) ==
  LET mode == normalize_mode(raw)
  IN  /\ ~Refused(mode, answers)
      /\ config' = Applied(mode, config, answers)
      /\ begun' = (begun \/ mode = "setup")

ConfigNext == \E raw \in RawModes, answers \in Answers : configure(raw, answers)

ConfigSpec == ConfigInit /\ [][ConfigNext]_configs

-----------------------------------------------------------------------------
(* Once a setup has succeeded, the configuration has every key that the    *)
(* requirements call for, with a value a setup would take, whatever later  *)
(* updates and removes answer. Before that an update enables a component   *)
(* that has none of them (apply_answers, merge_answers).                   *)
CompleteOnceSetUp ==
  begun => /\ \A k \in Required : Text(config, k) /\ config[k] # Blank
           /\ config["public_base_url"] \in Urls

(* The ingress that the host is told of is that of the URL and the path in *)
(* the same configuration as long as the component is enabled, however     *)
(* setups, updates and removes followed each other (build_ingress_config). *)
IngressFresh ==
  "enabled" \in DOMAIN config /\ config["enabled"] = True =>
    config["ingress"] = Ingress(config)
=============================================================================
