----------------------------- MODULE SideBySide ----------------------------
(***************************************************************************)
(* One comparison, run.rs and main.rs of crates/parity-runner: the same    *)
(* scenario is carried out by the oracle run and then by the subject run,  *)
(* each with a driver process per role and a key prefix of its own, on one *)
(* cluster; the two traces are then diffed.                                *)
(*                                                                         *)
(* The cluster is external: it keeps locks, as kvrpcpb.LockInfo has them.  *)
(* A command that reads or writes through a transaction may settle locks   *)
(* of its run and leave locks at the keys it writes, as the client and the *)
(* cluster have it; what a client does after its answer is taken as done.  *)
(* What else a client meets is any fact of Facts, at most MaxFaults of     *)
(* them failures.  The subject's clients may do and meet what the oracle's *)
(* did, or something else: apart is the set of steps where they met other  *)
(* facts, strayed that of steps where they left other locks.               *)
(*                                                                         *)
(* A run that is inadmissible ends the comparison; that it may be tried    *)
(* again is in ParityRun, and what such an attempt left behind in the      *)
(* cluster is here, as Leftover.                                           *)
(***************************************************************************)
EXTENDS Integers, Scenario, Drivers

CONSTANTS
  Scenarios,   \* the scenarios somebody may write
  Facts,       \* the failures clients may meet
  Several,     \* the sequences of failures that client-rust may surface at a commit
  MaxFaults,   \* how many of them in a run (a bound of the model)
  MaxApart,    \* at how many steps the clients differ (a bound of the model)
  Leftover,    \* locks of earlier attempts
  Rank         \* the order of the tokens of keys

Runs == {"oracle", "subject"}
Prefix(run) == run   \* unique_prefix: no two runs have the same
Of(bytes, prefixes) == {n \in DOMAIN bytes : bytes[n] \in prefixes}

\* The runs to compare, which a scenario may name as it likes, are named by their
\* place.  A prefix is new with its run: no text has it, and no earlier lock.
ASSUME ScenariosAssumption ==
  \A s \in Scenarios :
    /\ IsScenario(s) /\ DOMAIN s.bind = Runs /\ s.compare = <<"oracle", "subject">>
    /\ \A i \in DOMAIN s.steps : \A a \in KeyTexts(s.steps[i]) : a.name \notin Runs
ASSUME LeftoverAssumption ==
  /\ IsFiniteSet(Leftover)
  /\ Leftover \subseteq [key : Seq(STRING), primary : Seq(STRING), kind : DOMAIN RustLockKind, ttl : Nat]
  /\ \A l \in Leftover : Of(l.key, Runs) = {} /\ Of(l.primary, Runs) = {}
ASSUME RankAssumption == Runs \subseteq DOMAIN Rank /\ \A token \in DOMAIN Rank : Rank[token] \in Int
ASSUME SeveralAssumption == \A m \in Several : m \in Seq(DOMAIN RustClass) /\ m # <<>>
ASSUME FactsAssumption == Facts \subseteq DOMAIN RustClass \union {"no_ts", "timeout"}
ASSUME BoundsAssumption == MaxFaults \in Nat /\ MaxApart \in Nat

VARIABLES
  scenario,
  turn,     \* the run under way; or "compared", "refused"
  tables,   \* per role, its driver's tables
  obs,      \* per run, the observations so far
  met,      \* what the oracle's clients met at each step
  kept,     \* what the oracle's clients did to the locks at each step
  apart,
  strayed,
  locks     \* the cluster's, as [key, primary, kind, ttl]

vars == <<scenario, turn, tables, obs, met, kept, apart, strayed, locks>>

NoTables == [r \in scenario.roles |-> Fresh]

Init ==
  /\ scenario \in {s \in Scenarios : Accepted(s)}
  /\ turn = "oracle"
  /\ tables = NoTables
  /\ obs = [run \in Runs |-> <<>>]
  /\ met = <<>> /\ kept = <<>>
  /\ apart = {} /\ strayed = {}
  /\ locks = Leftover

-----------------------------------------------------------------------------
(* The cluster and the clients                                               *)

Before(s, t) ==
  \E n \in 1 .. Len(t) :
    /\ n <= Len(s) + 1
    /\ \A j \in 1 .. n - 1 : s[j] = t[j]
    /\ n <= Len(s) => Rank[s[n]] < Rank[t[n]]

Seen(c) == {l \in locks : ~Before(l.key, c.start) /\ Before(l.key, c.end)}

\* How a command may succeed.
Successes(c) ==
  CASE c.op = "commit" -> {"ok", "readonly"}
    [] c.op \in {"get", "snapshot_get"} -> {"absent", "value", "pointer"}
    [] OTHER -> {"ok"}

\* Capabilities and timestamps are missing only where they are needed.
Failures(lang, c) ==
  Facts \ ((IF c.op \in {"snapshot_get", "scan_locks"} THEN {} ELSE {"no_ts"})
           \union (IF lang = "rust" /\ c.op \in {"prewrite_only", "raw_checksum"} THEN {} ELSE {"lacks", "timeout"}))

\* client-rust may tell several errors where client-go tells one.
Meets(lang, c) ==
  {<<f>> : f \in Successes(c) \union Failures(lang, c)}
  \union (IF lang = "rust" /\ c.op = "commit" THEN Several ELSE {})

\* The same facts: one fact, however often, or the same ones equally often.
Same(m, g) ==
  \/ \A i \in DOMAIN m, j \in DOMAIN g : m[i] = g[j]
  \/ Unordered(m) = Unordered(g)

Faults(run) == Cardinality({i \in DOMAIN obs[run] : obs[run][i].class \notin {"ok", "not_found", "driver_error"}})

\* The TTLs that the clients give their own locks.
CLIENT_TTL_MS == [go |-> 3001, rust |-> 3000]

\* A put of a pessimistic transaction: client-rust locks the key there and then,
\* client-go's Set only buffers.
LocksAtPut(lang, d, c) == lang = "rust" /\ c.op = "put" /\ c.session \in d.pessimistic

Settles(lang, d, c) ==
  c.op \in {"get", "snapshot_get", "commit", "rollback", "prewrite_only"} \/ LocksAtPut(lang, d, c)

\* The locks a command may leave.  A transaction's primary is one of its keys.
MayLeave(lang, d, c) ==
  LET own == {b[2] : b \in {b \in d.buffer : b[1] = c.session}}
      Made(keys, primaries, kind, ttl) ==
        {[key |-> k, primary |-> p, kind |-> kind, ttl |-> ttl] : k \in keys, p \in primaries}
  IN CASE c.op = "commit"          -> Made(own, own, "Put", CLIENT_TTL_MS[lang])
       [] c.op = "prewrite_only"   -> Made(c.keys, {c.primary}, "Put", ORPHAN_LOCK_TTL_MS)
       [] LocksAtPut(lang, d, c)   -> Made({c.key}, own \union {c.key}, "PessimisticLock", CLIENT_TTL_MS[lang])
       [] OTHER -> {}

\* What the clients and the cluster may do to the run's locks in a command that
\* met m: locks that go, and locks that are new at keys without one.  A command
\* that succeeds has locked what it is to lock.
Effects(lang, d, c, m) ==
  LET own    == {l \in locks : Of(l.key, {Prefix(turn)}) # {}}
      idle   == m \in {NotAsked, <<"lacks">>} \/ ~Settles(lang, d, c)
      Vacant(gone) == {l \in MayLeave(lang, d, c) : \A h \in locks \ gone : h.key # l.key}
  IN IF idle THEN {[gone |-> {}, new |-> {}]}
     ELSE {e \in [gone : SUBSET own, new : SUBSET MayLeave(lang, d, c)] :
             /\ e.new \subseteq Vacant(e.gone)
             /\ \A l, h \in e.new : l.key = h.key => l = h
             /\ Succeeded(m) /\ c.op = "prewrite_only" => e.new = Vacant(e.gone)
             /\ Succeeded(m) /\ LocksAtPut(lang, d, c) =>
                  \E l \in (locks \ e.gone) \union e.new : l.key = c.key}

\* An effect as it is noted, for the other run to be compared with: the locks of
\* prewrite_only are the drivers' doing and no client's.
Noted(c, e) ==
  [gone |-> Shown(e.gone, Prefix(turn)),
   new |-> IF c.op = "prewrite_only" THEN {} ELSE Shown(e.new, Prefix(turn))]

-----------------------------------------------------------------------------
(* A step, and the end of a run                                              *)

Refuses(lang, d, c) == IF lang = "rust" THEN RustRefuses(d, c) ELSE GoRefuses(d, c)
Observe(lang, d, c, m) ==
  IF lang = "rust" THEN RustObserve(d, c, m, Seen(c), Prefix(turn)) ELSE GoObserve(d, c, m, Seen(c), Prefix(turn))

Step ==
  /\ turn \in Runs /\ Len(obs[turn]) < Len(scenario.steps)
  /\ LET i    == Len(obs[turn]) + 1
         c    == Substitute(scenario.steps[i], Prefix(turn))
         lang == scenario.bind[turn][c.role]
         d    == tables[c.role]
     IN \E m \in IF Refuses(lang, d, c) THEN {NotAsked} ELSE Meets(lang, c) :
        \E e \in Effects(lang, d, c, m) :
          /\ Succeeded(m) \/ m = NotAsked \/ Faults(turn) < MaxFaults \/ turn = "subject"
          /\ LET o == Observe(lang, d, c, m) IN
               /\ obs' = [obs EXCEPT ![turn] = Append(@, o)]
               /\ tables' = [tables EXCEPT ![c.role] = Tables(d, c, o.class = "ok")]
          /\ locks' = (locks \ e.gone) \union e.new
          /\ IF turn = "oracle"
             THEN /\ met' = Append(met, m) /\ kept' = Append(kept, Noted(c, e))
                  /\ UNCHANGED <<apart, strayed>>
             ELSE /\ apart' = IF m = NotAsked \/ Same(m, met[i]) THEN apart ELSE apart \union {i}
                  /\ strayed' = IF Noted(c, e) = kept[i] THEN strayed ELSE strayed \union {i}
                  /\ UNCHANGED <<met, kept>>
          /\ Cardinality(apart' \union strayed') <= MaxApart
  /\ UNCHANGED <<scenario, turn>>

\* The oracle's trace is kept and the subject's drivers are started.
NextRun ==
  /\ turn = "oracle" /\ Len(obs[turn]) = Len(scenario.steps)
  /\ Trusted(obs[turn])
  /\ turn' = "subject"
  /\ tables' = NoTables
  /\ UNCHANGED <<scenario, obs, met, kept, apart, strayed, locks>>

Compare ==
  /\ turn = "subject" /\ Len(obs[turn]) = Len(scenario.steps)
  /\ Trusted(obs[turn])
  /\ turn' = "compared"
  /\ UNCHANGED <<scenario, tables, obs, met, kept, apart, strayed, locks>>

Refuse ==
  /\ turn \in Runs /\ Len(obs[turn]) = Len(scenario.steps)
  /\ ~Trusted(obs[turn])
  /\ turn' = "refused"
  /\ UNCHANGED <<scenario, tables, obs, met, kept, apart, strayed, locks>>

Next == Step \/ NextRun \/ Compare \/ Refuse

Spec == Init /\ [][Next]_vars

-----------------------------------------------------------------------------
(* Properties                                                                *)

TypeOK ==
  /\ turn \in Runs \union {"compared", "refused"}
  /\ DOMAIN tables = scenario.roles
  /\ \A run \in Runs :
       /\ Len(obs[run]) <= Len(scenario.steps)
       /\ \A i \in DOMAIN obs[run] : obs[run][i].class \in Classes
  /\ Len(met) = Len(obs["oracle"]) /\ Len(kept) = Len(met)
  /\ apart \union strayed \subseteq DOMAIN obs["subject"]

Divergences == Diff(obs["oracle"], Prefix("oracle"), obs["subject"], Prefix("subject"))

\* The one divergence that the harness makes itself: of a retryable KeyError the Rust
\* table gives the proto, the Go table does not.
ProtoLost(x) ==
  LET role == scenario.steps[x[1]].role
  IN /\ x[2] \in {"proto.present", "proto.type"}
     /\ scenario.bind["oracle"][role] # scenario.bind["subject"][role]
     /\ \A n \in DOMAIN met[x[1]] : met[x[1]][n] = "retryable"

\* Every divergence but that one is the clients': at its step or before it they met
\* different facts or left different locks, as at the put of a pessimistic
\* transaction.  Any other would be one "manufactured by us" (scenario.rs).
DivergencesAreTheClients ==
  turn = "compared" =>
    \A x \in Divergences : ProtoLost(x) \/ \E i \in apart \union strayed : i <= x[1]

\* A failure, an answer or a set of errors that one client met and the other did
\* not is in the report, at its step: no driver and no projection smooths it over
\* (class.rs: never normalize fact).
NoFactSmoothedOver ==
  turn = "compared" => \A i \in apart : \E x \in Divergences : x[1] = i

\* While the clients have met the same facts, the harness does not fail in the
\* subject's run alone: the two drivers' own refusals are alike, for a scenario
\* that was accepted.
HarnessFailsAlike ==
  turn \in {"subject", "compared", "refused"} /\ apart = {}
    => \A i \in DOMAIN obs["subject"] : obs["subject"][i].class # "driver_error"

\* No scan reports a lock of another run or of an earlier attempt: what client-go
\* leaves behind never reads as residue of client-rust (run.rs, substitute).
OwnResidueOnly ==
  \A run \in Runs : \A i \in DOMAIN obs[run] : \A l \in obs[run][i].locks :
    \E n \in DOMAIN l.key : l.key[n] = Prefix(run)

\* A comparison compares: at some step the oracle is client-go and the subject
\* client-rust, and at no step the other way round (scenario.rs, validate).
ContrastIsReal ==
  turn = "compared" =>
    LET Pairs == {<<scenario.bind["oracle"][scenario.steps[i].role],
                    scenario.bind["subject"][scenario.steps[i].role]>> : i \in DOMAIN scenario.steps}
    IN <<"go", "rust">> \in Pairs /\ <<"rust", "go">> \notin Pairs
=============================================================================
