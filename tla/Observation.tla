---------------------------- MODULE Observation ----------------------------
(***************************************************************************)
(* What a driver answers to a command, and what a comparison looks at: the *)
(* observation, its admissibility, its projection and the diff             *)
(* (crates/parity-proto: observation.rs, class.rs, project.rs).            *)
(*                                                                         *)
(* A byte string is a sequence of tokens, of which a run's prefix is one,  *)
(* so that redaction on bytes is redaction of a token.  A lock has a key,  *)
(* a primary, a kind and a TTL in milliseconds; a proto is its message     *)
(* type, or None; a detail is that of the class unsupported, or None.      *)
(* Left out: what is recorded and not compared (timestamps, the details of *)
(* other classes, checksums, the client's own error), and the paths that   *)
(* a claim opts in to.                                                     *)
(***************************************************************************)
EXTENDS Naturals, Sequences, FiniteSets

None == "<absent>"
PREFIX_TOKEN == "{P}"

New(class) ==
  [class |-> class, detail |-> None, parts |-> <<>>, value |-> <<None>>, locks |-> {}, commit_ts |-> FALSE,
   proto |-> None]

Classes ==
  {"ok", "not_found", "write_conflict", "key_exists", "txn_not_found", "unresolved_lock", "deadlock",
   "assertion_failed", "retryable", "aborted", "commit_ts_too_large", "lock_wait_timeout", "undetermined",
   "region_error", "pd_error", "rpc_error", "mixed", "unsupported", "driver_error", "internal"}

InadmissibleClasses == {"internal", "driver_error", "region_error"}

Admissible(o) ==
  /\ o.class \notin InadmissibleClasses
  /\ \A i \in DOMAIN o.parts : o.parts[i] \notin InadmissibleClasses

Trusted(trace) == \A i \in DOMAIN trace : Admissible(trace[i])

\* redact_prefix_bytes: every occurrence of the run's prefix.
Redact(bytes, prefix) ==
  [i \in DOMAIN bytes |-> IF bytes[i] = prefix THEN PREFIX_TOKEN ELSE bytes[i]]

\* The tags of a mixed error's parts, whatever their order.
Unordered(parts) ==
  [tag \in {parts[i] : i \in DOMAIN parts} |-> Cardinality({i \in DOMAIN parts : parts[i] = tag})]

\* Whether a lock has a TTL at all; the clients' numbers differ by construction.
bucket_ttl(ttl) == IF ttl = 0 THEN "zero" ELSE "positive"

\* Locks as they are compared.
Shown(locks, prefix) ==
  {[key |-> Redact(l.key, prefix), primary |-> Redact(l.primary, prefix), kind |-> l.kind,
    ttl |-> bucket_ttl(l.ttl)] : l \in locks}

\* project_obs: pairs of a path and its value.
Project(o, prefix) ==
  {<<"class", o.class>>,
   <<"value", Redact(o.value, prefix)>>,
   <<"locks.count", Cardinality(o.locks)>>,
   <<"locks", Shown(o.locks, prefix)>>,
   <<"commit_ts", o.commit_ts>>,
   <<"proto.present", o.proto # None>>}
  \union (IF o.class = "unsupported" THEN {<<"unsupported.detail", o.detail>>} ELSE {})
  \union (IF o.class = "mixed" THEN {<<"class.parts", Unordered(o.parts)>>} ELSE {})
  \union (IF o.proto # None THEN {<<"proto.type", o.proto>>} ELSE {})

\* The paths at which two observations of one step differ.
Differ(a, pa, b, pb) ==
  LET A == Project(a, pa)
      B == Project(b, pb)
  IN {x[1] : x \in (A \ B) \union (B \ A)}

Paths ==
  {"class", "unsupported.detail", "class.parts", "value", "locks.count", "locks", "commit_ts", "proto.present",
   "proto.type"}

\* diff, of two traces of one scenario, which have the same steps: pairs of a step
\* and a path.
Diff(oracle, po, subject, ps) ==
  {x \in (DOMAIN oracle) \X Paths : x[2] \in Differ(oracle[x[1]], po, subject[x[1]], ps)}
=============================================================================
