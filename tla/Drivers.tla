------------------------------ MODULE Drivers ------------------------------
(***************************************************************************)
(* The two drivers, crates/rust-driver and go/driver: how each answers a   *)
(* command, given what its client met when it carried the command out.     *)
(*                                                                         *)
(* A driver keeps its open clients, its raw clients and its transactions   *)
(* by name; pessimistic are those that were begun so, and buffer is what   *)
(* the transactions of the table hold, which client-go lets its driver     *)
(* see.  The tables are kept alike by both.                                *)
(*                                                                         *)
(* What a client met is external.  It is a sequence of facts, one unless   *)
(* client-rust surfaces a set of errors.  Facts are answers ("ok",         *)
(* "readonly" for a commit without a timestamp, "absent", "value",         *)
(* "pointer" for a value that holds a key), the fields of                  *)
(* kvrpcpb.KeyError, what may come instead of an answer, "lacks" for a     *)
(* capability the client does not have, "timeout" for a reply the driver   *)
(* stops waiting for, "no_ts" for a timestamp PD did not give.             *)
(* PessimisticLockError is transparent to the table and left out, and so   *)
(* are the capability errors of client-rust's own (Unimplemented,          *)
(* UnsupportedMode), which no command of a driver runs into: "lacks" is a  *)
(* switched command whose real call is not compiled in (probe.rs).         *)
(* prewrite_only names at least one key.                                   *)
(***************************************************************************)
EXTENDS Observation

Answers == {"ok", "readonly", "absent", "value", "pointer"}
KeyErrors == {"conflict", "already_exist", "txn_not_found", "locked", "deadlock",
              "assertion_failed", "commit_ts_too_large", "retryable", "abort"}
NotAsked == <<"not_asked">>
Succeeded(m) == m[1] \in Answers

-----------------------------------------------------------------------------
(* The tables                                                                *)

Fresh == [clients |-> {}, raw |-> {}, txns |-> {}, pessimistic |-> {}, buffer |-> {}]

UnknownName(d, c) ==
  \/ c.op \in {"put", "get", "commit", "rollback", "prewrite_only"} /\ c.session \notin d.txns
  \/ c.op \in {"begin", "snapshot_get", "scan_locks"} /\ c.client \notin d.clients
  \/ c.op \in {"raw_put", "raw_checksum"} /\ c.client \notin d.raw

\* A transaction leaves the table when it is told to end, however that goes.
Tables(d, c, ok) ==
  LET Without(s) == {b \in d.buffer : b[1] # s} IN
  CASE c.op = "open_client" /\ ok     -> [d EXCEPT !.clients = @ \union {c.client}]
    [] c.op = "open_raw_client" /\ ok -> [d EXCEPT !.raw = @ \union {c.client}]
    [] c.op = "close_client"          -> [d EXCEPT !.clients = @ \ {c.client}]
    [] c.op = "begin" /\ ok           ->
         [d EXCEPT !.txns = @ \union {c.session}, !.buffer = Without(c.session),
                   !.pessimistic = IF c.mode = "pessimistic" THEN @ \union {c.session} ELSE @ \ {c.session}]
    [] c.op = "put" /\ ok             -> [d EXCEPT !.buffer = @ \union {<<c.session, c.key>>}]
    [] c.op \in {"commit", "rollback", "abandon"} ->
         [d EXCEPT !.txns = @ \ {c.session}, !.buffer = Without(c.session), !.pessimistic = @ \ {c.session}]
    [] OTHER -> d

\* The TTL that both drivers give the locks of prewrite_only.
ORPHAN_LOCK_TTL_MS == 1000

\* Locks of the cluster as a driver reports them: each by the name that its table
\* has for the lock's kvrpcpb.Op.
LockObs(lock_kind, locks) == {[l EXCEPT !.kind = lock_kind[@]] : l \in locks}

\* What a command that succeeded is answered with; seen is what scan_locks found.
Answer(c, m, seen, prefix) ==
  CASE m[1] = "absent"  -> New("not_found")
    [] m[1] = "value"   -> [New("ok") EXCEPT !.value = <<"v">>]
    [] m[1] = "pointer" -> [New("ok") EXCEPT !.value = <<prefix, "v">>]
    [] c.op = "scan_locks" -> [New("ok") EXCEPT !.locks = seen]
    [] c.op = "commit"     -> [New("ok") EXCEPT !.commit_ts = (m[1] = "ok")]
    [] OTHER               -> New("ok")

-----------------------------------------------------------------------------
(* The Rust driver                                                           *)

RustClass ==
  [conflict |-> "write_conflict", already_exist |-> "key_exists", txn_not_found |-> "txn_not_found",
   locked |-> "unresolved_lock", deadlock |-> "deadlock", assertion_failed |-> "assertion_failed",
   commit_ts_too_large |-> "commit_ts_too_large", retryable |-> "retryable", abort |-> "aborted",
   undetermined |-> "undetermined", region |-> "region_error", rpc |-> "rpc_error",
   lacks |-> "unsupported", other |-> "internal"]

RustProto(fact) == IF fact \in KeyErrors THEN fact ELSE None

\* A stand-in answers with one text, which names its command.
RustDetail(c, fact) == IF fact = "lacks" THEN c.op ELSE None

\* Mutant of RustClassify: a set of errors is told as its first.
RustClassifyPrimary(c, m) ==
  [New(RustClass[m[1]]) EXCEPT !.proto = RustProto(m[1]), !.detail = RustDetail(c, m[1])]

\* classify, and classify_multi: members that agree collapse to what they say.
RustClassify(c, m) ==
  LET classes == [i \in DOMAIN m |-> RustClass[m[i]]]
  IN IF \A i \in DOMAIN classes : classes[i] = classes[1]
     THEN [New(classes[1]) EXCEPT !.proto = RustProto(m[1]), !.detail = RustDetail(c, m[1])]
     ELSE [New("mixed") EXCEPT !.parts = classes]

\* The driver's own refusals, before its client is asked.
RustRefuses(d, c) ==
  \/ UnknownName(d, c)
  \/ c.op = "scan_locks" /\ c.batch_size = 0

\* Failures of the client that are failures of the set-up.
RustBlamesSetup(c, m) ==
  \/ m[1] \in {"no_ts", "timeout"}
  \/ c.op \in {"open_client", "open_raw_client"}
  \/ c.op = "prewrite_only" /\ m[1] # "lacks"

RustLockKind ==
  [Put |-> "put", Del |-> "del", Lock |-> "lock", Rollback |-> "rollback", Insert |-> "insert",
   PessimisticLock |-> "pessimistic_lock", CheckNotExists |-> "check_not_exists"]

RustObserve(d, c, m, seen, prefix) ==
  IF RustRefuses(d, c) THEN New("driver_error")
  ELSE IF Succeeded(m) THEN Answer(c, m, LockObs(RustLockKind, seen), prefix)
  ELSE IF RustBlamesSetup(c, m) THEN New("driver_error")
  ELSE RustClassify(c, m)

-----------------------------------------------------------------------------
(* The Go driver                                                             *)

\* Mutant of GoClass: an error nobody mapped is told by its own name.
GoClassOpen(fact) ==
  CASE fact = "conflict"      -> "write_conflict"
    [] fact = "already_exist" -> "key_exists"
    [] fact = "locked"        -> "unresolved_lock"
    [] fact = "region"        -> "region_error"
    [] OTHER -> fact

GoClass(fact) ==
  CASE fact = "conflict"      -> "write_conflict"
    [] fact = "already_exist" -> "key_exists"
    [] fact = "locked"        -> "unresolved_lock"
    [] fact = "region"        -> "region_error"
    [] fact \in {"deadlock", "assertion_failed", "retryable", "undetermined", "txn_not_found"} -> fact
    [] OTHER -> "internal"

\* No proto comes with a retryable error, nor with what is no key error.
GoProto(fact) ==
  IF fact \in {"conflict", "already_exist", "locked", "deadlock", "assertion_failed", "txn_not_found"}
  THEN fact ELSE None

\* Mutant of GoClassify: the proto of a lock that was met is forgotten.
GoClassifyBare(m) ==
  [New(GoClass(m[1])) EXCEPT !.proto = IF m[1] = "locked" THEN None ELSE GoProto(m[1])]

GoClassify(m) == [New(GoClass(m[1])) EXCEPT !.proto = GoProto(m[1])]

\* A key that was not put has no mutation to prewrite.
GoRefuses(d, c) ==
  \/ UnknownName(d, c)
  \/ c.op = "prewrite_only" /\ \E k \in c.keys : <<c.session, k>> \notin d.buffer

GoBlamesSetup(c, m) ==
  \/ m[1] = "no_ts"
  \/ c.op \in {"open_client", "open_raw_client", "begin", "prewrite_only"}

\* Arm for arm the Rust driver's.
GoLockKind ==
  [Put |-> "put", Del |-> "del", Lock |-> "lock", Rollback |-> "rollback", Insert |-> "insert",
   PessimisticLock |-> "pessimistic_lock", CheckNotExists |-> "check_not_exists"]

GoObserve(d, c, m, seen, prefix) ==
  IF GoRefuses(d, c) THEN New("driver_error")
  ELSE IF Succeeded(m) THEN Answer(c, m, LockObs(GoLockKind, seen), prefix)
  ELSE IF GoBlamesSetup(c, m) THEN New("driver_error")
  ELSE GoClassify(m)
=============================================================================
