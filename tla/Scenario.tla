------------------------------ MODULE Scenario -----------------------------
(***************************************************************************)
(* Scenarios: what is refused when one is loaded (scenario.rs), and how a  *)
(* run places a command's arguments under its own prefix (run.rs,          *)
(* command.rs).                                                            *)
(*                                                                         *)
(* A scenario has roles, a binding of roles to drivers for each run, the   *)
(* two runs to compare, and steps.  Every step is a command to a role;     *)
(* sleeps have no observation and are left out, and so are asserts (see    *)
(* ParityRun) and what is refused for its spelling: names, base64, fields. *)
(*                                                                         *)
(* An argument is a text with the token {P} at its front ("token") or      *)
(* elsewhere ("inside"), a text without it ("plain"), or binary; name is   *)
(* the rest of it, NoName if it is nothing but the token.                  *)
(***************************************************************************)
EXTENDS Naturals, Sequences, FiniteSets

\* A text in a command, a command, and a scenario, as they are deserialized.
Texts == [how : {"token", "inside", "plain", "binary"}, name : STRING]
Commands ==
  [op : {"open_client", "close_client", "begin", "put", "get", "commit", "rollback", "snapshot_get", "scan_locks",
         "prewrite_only", "abandon", "open_raw_client", "raw_put", "raw_checksum"},
   role : STRING, client : STRING, session : STRING, mode : {"optimistic", "pessimistic"},
   key : Texts, primary : Texts, keys : SUBSET Texts, value : Texts, start : Texts, end : Texts, batch_size : Nat]

IsScenario(s) ==
  /\ s.steps \in Seq(Commands)
  /\ \A i \in DOMAIN s.steps : IsFiniteSet(s.steps[i].keys)
  /\ \A run \in DOMAIN s.bind : \A r \in DOMAIN s.bind[run] : s.bind[run][r] \in {"go", "rust"}

\* The texts that end up in keys.
KeyTexts(c) == {c.key, c.primary, c.start, c.end} \union c.keys

NoName == ""
Following(name) == IF name = NoName THEN <<>> ELSE <<name>>

\* KeyArg::as_key.
AsKey(a, prefix) ==
  IF a.how = "inside" THEN Following(a.name) \o <<prefix>> ELSE <<prefix>> \o Following(a.name)

\* KeyArg::as_value.
AsValue(a, prefix) ==
  CASE a.how = "token"  -> <<prefix>> \o Following(a.name)
    [] a.how = "inside" -> Following(a.name) \o <<prefix>>
    [] OTHER -> Following(a.name)

\* Mutant of Substitute: the bounds of a range are no keys.
SubstituteKeysOnly(c, prefix) ==
  [c EXCEPT !.key = AsKey(@, prefix), !.primary = AsKey(@, prefix), !.keys = {AsKey(k, prefix) : k \in @},
            !.value = AsValue(@, prefix), !.start = Following(@.name), !.end = Following(@.name)]

\* Every argument of a command; one that a command does not have is not looked at.
Substitute(c, prefix) ==
  [c EXCEPT !.key = AsKey(@, prefix), !.primary = AsKey(@, prefix), !.keys = {AsKey(k, prefix) : k \in @},
            !.value = AsValue(@, prefix), !.start = AsKey(@, prefix), !.end = AsKey(@, prefix)]

Active(s) == {s.steps[i].role : i \in DOMAIN s.steps}

\* Mutant of Contrasts: the bindings differ, whatever executes.
ContrastsSomewhere(s) == s.bind[s.compare[1]] # s.bind[s.compare[2]]

Contrasts(s) ==
  \E r \in Active(s) : s.bind[s.compare[1]][r] # s.bind[s.compare[2]][r]

FromGoToRust(s) ==
  \A r \in Active(s) :
    LET a == s.bind[s.compare[1]][r]
        b == s.bind[s.compare[2]][r]
    IN a # b => a = "go" /\ b = "rust"

\* Mutant of Accepted: a page of no locks is left to the drivers.
AcceptedUnpaged(s) ==
  /\ s.steps # <<>> /\ s.compare[1] # s.compare[2]
  /\ \A run \in DOMAIN s.bind : DOMAIN s.bind[run] = s.roles
  /\ \A r \in Active(s) : r \in s.roles
  /\ Contrasts(s) /\ FromGoToRust(s)

\* Scenario::validate.
Accepted(s) ==
  /\ s.steps # <<>> /\ s.compare[1] # s.compare[2]
  /\ \A run \in DOMAIN s.bind : DOMAIN s.bind[run] = s.roles
  /\ \A r \in Active(s) : r \in s.roles
  /\ \A i \in DOMAIN s.steps : s.steps[i].op = "scan_locks" => s.steps[i].batch_size > 0
  /\ Contrasts(s) /\ FromGoToRust(s)
=============================================================================
