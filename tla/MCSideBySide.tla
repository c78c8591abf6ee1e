---- MODULE MCSideBySide ----
EXTENDS SideBySide, TLC

Text(how, name) == [how |-> how, name |-> name]
Cmd(op, role) ==
  [op |-> op, role |-> role, client |-> "c", session |-> "t", mode |-> "optimistic",
   key |-> Text("token", "z"),
   primary |-> Text("plain", "a"), keys |-> {Text("token", "z")}, value |-> Text("binary", "v"),
   start |-> Text("token", ""), end |-> Text("plain", "~"), batch_size |-> 16]

\* The shapes of scenarios/*.json.
Orphan(scan) ==
  <<Cmd("open_client", "w"), Cmd("begin", "w"), Cmd("put", "w"), Cmd("prewrite_only", "w"), Cmd("abandon", "w"),
    Cmd("open_client", "r"), scan, Cmd("snapshot_get", "r"), scan>>
Checksum == <<Cmd("open_raw_client", "w"), Cmd("raw_put", "w"), Cmd("raw_checksum", "w")>>

\* Everything else a scenario may do with one transaction and one key.
Operations ==
  {Cmd(op, "w") : op \in {"begin", "put", "get", "commit", "rollback", "abandon", "prewrite_only",
                          "snapshot_get", "scan_locks", "close_client", "raw_put"}}
Short == {<<Cmd("open_client", "w"), Cmd("begin", "w")>> \o t : t \in [1 .. 2 -> Operations]}

\* What a scan shows of a put, and of what the transaction does next.
Modes == {"optimistic", "pessimistic"}
Put(mode, op) ==
  <<Cmd("open_client", "w"), [Cmd("begin", "w") EXCEPT !.mode = mode], Cmd("put", "w"), Cmd(op, "w"),
    Cmd("scan_locks", "w")>>
Puts == {Put(mode, op) : mode \in Modes, op \in {"get", "commit", "rollback", "abandon", "prewrite_only"}}

Bind(w, r) == [w |-> w, r |-> r]
OracleBind == Bind("go", "go")
S(oracle, subject, steps) ==
  [roles |-> DOMAIN oracle, compare |-> <<"oracle", "subject">>, steps |-> steps,
   bind |-> [oracle |-> oracle, subject |-> subject]]

Ghost(w, r, g) == [w |-> w, r |-> r, ghost |-> g]
Scan(batch) == [Cmd("scan_locks", "r") EXCEPT !.batch_size = batch]
Binds == {Bind("rust", "rust"), Bind("go", "rust"), Bind("go", "go")}

Shipped ==
  {S(OracleBind, b, Orphan(Scan(batch))) : b \in Binds, batch \in {0, 16}}
  \union {S(b, OracleBind, Orphan(Scan(16))) : b \in Binds}
  \union {S(Ghost("go", "go", "go"), Ghost(b, b, "rust"), Orphan(Scan(16))) : b \in {"go", "rust"}}
  \union {S(OracleBind, Bind("rust", "rust"), Checksum)}
Written == Shipped \union {S(OracleBind, Bind("rust", "rust"), t) : t \in Short \union Puts}

\* The token may be anywhere in a bound: here the scan starts at "a{P}".
Inside ==
  {S(OracleBind, Bind("rust", "rust"), Orphan([Scan(16) EXCEPT !.start = Text("inside", "a")]))}
Nothing == {}

Order == [a |-> 1, earlier |-> 2, oracle |-> 3, subject |-> 4, z |-> 5, v |-> 6] @@ ("~" :> 7)
Orphans ==
  {[key |-> <<"earlier", "z">>, primary |-> <<"earlier", "a">>, kind |-> "Put", ttl |-> ORPHAN_LOCK_TTL_MS]}
AllFacts == DOMAIN RustClass \union {"no_ts", "timeout"}
ErrorSets == {<<"conflict", "conflict">>, <<"conflict", "txn_not_found">>, <<"txn_not_found", "conflict">>,
              <<"conflict", "other">>, <<"region", "region">>, <<"retryable", "retryable">>}
\* Facts that each driver maps as it maps "conflict", to names of their own, and
\* one that client-go maps as it maps "abort".
Twins == {"already_exist", "deadlock", "assertion_failed", "commit_ts_too_large"}
KnownFacts == AllFacts \ Twins
====
