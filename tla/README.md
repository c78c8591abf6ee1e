# A verification project for client-rust-test

TLA+ modules, TLC configurations and TLAPS proofs about the harness in `src/`:
the broker of throwaway clusters, the `MetadataStore` prototype over TiKV, the
drivers, the parity runner, the ledger check and the PD helpers.  `PROJECT.json` lists, by file
and line, what each definition models (`map`), what each run checks (`runs`),
what could go wrong in the code (`hazards`), what is proved (`theorems`), and
where a comment or a doc and the code disagree (`findings`).

    tlc -workers 2 -config BrokerRaces.cfg MCClusterBroker     # a run
    tlapm ClusterBrokerProofs.tla                              # the proofs

All paths below are relative to `src/`.

## 1. The system

client-rust-test compares two TiKV clients, tikv-client (Rust, the *subject*)
and client-go (the *oracle*), and evaluates the first as the backend of a
metadata store.

    scripts/cluster-broker --leases--> PD + TiKV clusters (Docker)
                                           ^          ^
          crates/parity-gate (tests) ------+          |
          TikvMetadataStore, split_wait               |
                                                      |
    scenarios/*.json -> crates/parity-runner --NDJSON--> crates/rust-driver, go/driver
                              |
                              v
         results/traces, results/divergence.* --> scripts/ledger-check.sh --> verdict

| component | state | operations | talks to |
|---|---|---|---|
| **cluster broker** `scripts/cluster-broker` | a directory of `<id>.json` and `<id>.env`, `broker.lock`, the compose projects in Docker | `lease`, `release`, `renew`, `gc` (and `env`, `list`, `logs`, which only read) | other invocations of itself, through the directory; Docker; callers in make, CI and shells |
| **MetadataStore** `crates/parity-gate/src/traits.rs` | key -> value | `get`, `scan`, `commit(WriteBatch)` | - (a contract) |
| **TikvMetadataStore** `crates/parity-gate/src/lib.rs` | none of its own; locks and versions in TiKV | `commit`, `stage`, `rollback_quietly`, `get`, `scan` | tikv-client, TiKV, PD |
| **Rust driver** `crates/rust-driver` | open clients, sessions (transactions, snapshots) by name | one command per line of stdin; `scan_locks` pages | tikv-client; the runner |
| **Go driver** `go/driver` | the same over client-go | the same | client-go; the runner |
| **protocol** `crates/parity-proto/src/{command,observation,class}.rs` | - | the command and observation types | - |
| **runner** `crates/parity-runner` | the attempt's observations, driver processes | run scenario, retry, write traces, project, diff, report | drivers; `results/` |
| **projection and diff** `crates/parity-proto/src/project.rs` | - | `project`, `diff` | the runner |
| **trace** `crates/parity-proto/src/trace.rs` | - | `inadmissible`, `is_transient` | the runner |
| **ledger check** `scripts/ledger-check.sh` | `results/candidate-verdict.json`; reads `ledger.toml`, `results/`, git | strict: refuse, or settle the ledger; candidate: refuse, or judge one gap for a change that is not merged | the runner's artifacts, the stamp in the report |
| **provenance, pins** `scripts/provenance.sh`, `check-pins.sh` | `results/provenance.json` | gather what is under test; refuse it if it is off pin, by the mode | git, cargo, PD |
| **split wait** `crates/harness/src/split_wait.rs` | deadlines, counters of one call | `wait_for_split`, `limited_commit` | PD, a commit the caller passes |
| **PD helpers** `crates/harness/src/cluster.rs` | - | `ensure_cross_region`, `region_pair`, `encode_key`, `pd_get`, ... | PD over HTTP |
| **gate tests** `crates/parity-gate/tests`, **gate verdict** `scripts/gate-verdict.sh` | - | exercise the store; sort failures into expected and unexpected | cargo test |
| **spec check, build, CI, cluster definitions** | - | lints and glue | - |

### What makes each part hard, and what makes it correct

*Cluster broker.*  Several shells, CI jobs and make targets run it at once.  The
flock covers the choice of a slot and the writing of records, but not `compose
up`, the readiness wait, `compose down` or the removal of files; any process may
be killed at any point; Docker may fail half-way; deadlines pass.  It is correct
if two leases never share a block of ports, if a claim by `gc` and a renewal
cannot both win, if no cluster is left running without a record to release it
by, if what `lease` hands out is the lease's own cluster, and if an overdue
lease goes away.

*TikvMetadataStore.*  Batches run concurrently, each as one TiKV transaction in
one of three lock modes; requests fail, the answer to the commit of the primary
gets lost, locks expire, rollbacks fail.  It is correct if every batch takes
effect at one moment, whole, with its preconditions true at that moment, and if
`Conflict` means that it never takes effect.  A scan is paged while others commit;
it is correct if its pages add up to the prefix at one moment.

*Rust driver.*  Client-rust truncates `scan_locks` per region while regions
split and merge.  The paging is correct if no lock that stays is skipped and
none is reported twice, and if it ends.

*Runner, trace, ledger check.*  A run may be disturbed by the cluster (retry), by
the harness (refuse) or by its setup (fail); `results/` outlives every run; the
tree, the pins and the cluster change between runs.  They are correct if a trace
on disk is evidence and a report the diff of one invocation; if a ledger is
settled only by the pinned clients and the harness at HEAD, a candidate is judged as
it is on disk and by the claims of its base, and no verdict outlives what it was
about.

*Split wait.*  It has no timeout around it: every await must be bounded by the
deadline or by a limit of its own.  It is correct if the overrun has the bound
its comments state, if writes do not bunch up, and if it ends.

*Drivers, protocol, projection, scenario loader.*  Two mapping tables in two
languages, a projection, and rules for prefixes and scenarios, each a function of
its input; what is hard is their composition.  The oracle leaves locks in the
cluster the subject reads, a client may fail at any command, and what it meets
passes a driver's tables, the classification, the redaction and the diff before
anybody sees it.  They are correct if the report says exactly where the *clients*
differ: nothing the harness made up, nothing it smoothed over, no residue of
another run.

*PD helpers.*  PD is asked over HTTP at several endpoints, each of which may
accept and never answer; the cluster splits and merges all the time, and PD
reports keys in an encoding.  They are correct if "two regions" is true at one
moment, if a good endpoint is found, and if the call ends soon after its deadline.

*Gate verdict, spec check.*  Functions of text: no unexpected failure may pass as
an expected one.

## 2. The plan

Done, in this order, the most important behaviour first:

1. `ClusterBroker`, with its proofs: the only part in which several processes of
   this repository share state.
2. `MetadataStore` (abstract) and `TikvStore` (detailed), the second proved to
   implement the first.
3. `LockScan`, with proofs: the paging every claim about residual locks uses.
4. `ParityRun`, with proofs: the runner, from scenario to report.
5. `SplitWait`, with proofs.
6. `Observation`, `Drivers` and `Scenario`, pure modules, and `SideBySide`, with
   proofs, which composes them: two runs on one cluster, command by command.
7. `ByteStrings`, a pure module with proofs; `StoreRead` (abstract) and
   `SnapshotScan` (detailed), with the proof that the second implements the first.
8. `CrossRegion`, with proofs: `ensure_cross_region` against a cluster that moves.
9. `Results` (abstract), which `ParityRun` is proved to implement, and `Ledger`,
   which builds on it: from two trees that people edit to a verdict, with proofs.

To come:

10. The opt-in paths of the projection (`native.type`, `proto`, `errors.count`), in
    `Observation` and `Drivers`.  The divergences that the code itself has there are
    in section 4.
11. The request-reply pairing of the transport, and `hello`.
12. The gate verdict, as soon as its table of expected failures has an entry.

Twelve runs are what the project can afford to check on every change.  A new
pure module joins an existing run of a module it composes with, or takes the
place of a run with a weaker question.

Every safety property and every refinement that a run checks is proved (section 5).
Theorems to come go with the models to come.

## 3. The modules

Each module's head comment says what it models and what it abstracts; each
definition's lines in the code are in `PROJECT.json`.  An operator whose comment
begins "Mutant of" is a plausible bug of the definition that follows it; it is
used by nothing, and each shows that a property can fail.

### 3.1 ClusterBroker

| in the model | in `scripts/cluster-broker` |
|---|---|
| `leases`, `envs` | the files `<id>.json`, `<id>.env` |
| `docker` | the compose project `crt-<id>`, by the slot whose ports it has bound |
| `cut` | nothing: a history of which running clusters lost their record to a write that was cut short |
| `lock`, `snap` | the flock, and the table its holder got from `load_all` |
| `pc`, `run` | the invocations, each between two effects on what is shared |
| `StartX` then the rest | a command taking the lock; each `return` under the lock drops it |
| `LeaseAgain`, `LeaseEnv`, `LeaseRecord`, `LeaseRefused`, `Up`, `UpFails`, `Ready`, `NotReady` | `cmd_lease` |
| `StartRelease`, `Down`, `DownFails`, `UnlinkRecord`, `UnlinkEnv` | `cmd_release`, `_release` |
| `Renew`, `RenewRefused` | `cmd_renew` |
| `GcClaim`, `GcNext`, `GcDone` | `cmd_gc` |
| `Expire`, `Crash`, `TornWrite` | the clock; `kill`; a kill inside `write_text` |

A step is one effect on the directory or on Docker; everything a process does
alone between two of them belongs to the step.  So:

- `load_all` is one step.  Records are written only under the lock, so what may
  come between its reads is an unlink by `_release`; a file that vanishes after
  the listing makes the command fail with nothing written, like a refusal.
- `write_text` truncates and writes.  A kill in between is `TornWrite`: the record
  that `renew`, a repeated lease or gc was writing again is unreadable, and the env
  file of a new lease has no `PD_IMAGE`, without which compose refuses to start.  For
  a new record it is a crash before `LeaseRecord`.
- A compose child may outlive the process that started it: `Crash` at `up` or `down`
  may still have the child's effect.  It is assumed to have ended before the next
  command for that lease; two compose commands at once on one project are not
  modelled.
- `_release` unlinks two files in two steps, after `compose down`.
- A profile and a TiKV version are one value, a *shape*; ports are the slot.  A
  deadline is `never`, `live` or `past`, and passes with `Expire`.
- An id that is not passed with `--id` is random: `used` keeps it from coming
  twice.

The comment on gc's orphans (`scripts/cluster-broker:339`) explains them by "a crash
between `up` and the lease write".  The code has no such moment: the record is
written at line 227, before `up` at line 230, and the model follows the code.  What
a kill does make an orphan of is a cluster whose record was being written *again*, by
`renew` (line 282) or by a repeated lease (line 200); `NothingLost` says that nothing
else does.

`Faults` and `Collectors` choose what an instance may do, so that a run can ask
what a property needs.  `PortCheck` is `PARITY_BROKER_PORT_CHECK`.

### 3.2 MetadataStore and TikvStore

`MetadataStore` is what `traits.rs` promises of `commit`: three outcomes, one
moment at which a batch is applied.  It leaves open what a backend fault leaves
behind, as the trait does: the batch may have been applied, or be applied later.

`TikvStore` is `commit`, `stage`, `rollback_quietly` and `is_lost_race` step by
step: `Call`, `Begin`, then for each precondition `ForUpdate` and `Acquire`
(pessimistic) or `Read` (the two optimistic modes), then `Prewrite` of every
mutation in any order, `CommitTs`, `CommitPrimary`, and the return.  Any step may
fail instead (`BeginFails`, `StageFails`, `PrewriteFails`, `CommitRejected`,
`Undetermined`), and what follows a failure is what the code does: roll back,
except after an undetermined commit.  `IsLostRace` decides what is told as
`Conflict`.

tikv-client, TiKV and PD are not in this repository.  They are the actions marked
external in `map`, modelled as far as the code relies on them: timestamps,
snapshot reads, locks, the primary that decides, lock resolution and expiry.

`Contract` is the refinement mapping.  A key's value is what a reader finds who
resolves the lock it meets; a call is applied when its primary says so.  The mode
`"unlocked"` (plain optimistic) is modelled and left out of the run: the code
offers it to demonstrate write skew, and the refinement fails there, as the
gate's test expects.  That failure is the mutant `MutationsUnlocked`.

### 3.3 LockScan

`exec.rs`'s loop over pages.  Keys are integers, `next_cursor` is + 1, because no
key lies between a key and its successor.  The regions are chosen anew for every
request; a page is what such regions may answer: each yields all the locks it
sees, or its `batch_size` lowest.  `steady` is the set of locks that are there
during the whole scan; all others may be seen or not at every request.

### 3.4 Results and ParityRun

`Results` is what everything after the runner may rely on, for one scenario: an
invocation starts in a world (`Start`), takes the oracle's trace and then the
subject's (`Take`), writes the report (`Finish`), or leaves (`Leave`), and what is in
`results/` then is what was there before.

`ParityRun` is the runner in detail.  `Observe` and `SetupFails` are a step of the
scenario; `Retry`, `RunInadmissible` and `RunDone` are what `main.rs` does at the
end of an attempt, in the order of its conditions; `Report` is the diff and the
report.  `Edit` changes the world (provenance) at any time, `Interrupt` kills make
at any time, and `trace` and `report` outlive both, as `results/` does.

An observation is one of five: an admissible answer that meets the step's assert
(`met`) or another one (`other`), a region error, an error of the harness's own
(`internal`: unmapped, or a driver's), and a multi-key error with a region error
inside (`mixed`).  The projection is the identity here; what it does is in
`Observation`, and what a run does inside in `SideBySide`.

### 3.5 SplitWait

The await at which `wait_for_split` is, the clock, and the two numbers that guide
it.  Time passes only in awaits.  Each await takes at most its own limit (the
deadline for a commit, `PD_TIMEOUT` for each PD endpoint, the poll interval for
a sleep), and a timer may be noticed `Lag` late.

### 3.6 Observation, Drivers, Scenario and SideBySide

| module | in the code |
|---|---|
| `Observation` | the observation, `is_admissible`, `project_obs`, `redact_prefix_bytes`, `diff` (`crates/parity-proto`) |
| `Drivers` | the tables of the two drivers, their refusals, and both halves of the mapping table (`exec.rs`, `mapping.rs`, `probe.rs`; `exec.go`, `observation.go`, `probe.go`) |
| `Scenario` | `Scenario::validate`, `substitute`, `as_key`, `as_value` |
| `SideBySide` | `run_scenario` and `execute`: the oracle's run, then the subject's, on one cluster, then the diff |

A key is a sequence of tokens, one of which may be a run's prefix; `Rank` orders
them, with tokens below, between and above the prefixes.  What a client meets when
it carries out a command is a *fact*: an answer, a field of `kvrpcpb.KeyError`, or
something else that came instead.  The drivers turn facts into observations; the
facts themselves are the cluster's and the clients', and external.  They are
chosen freely for the oracle.  The subject's client may meet the same or another;
`apart` remembers at which steps it met another, and that is what the properties
compare the report with.  Client-rust may meet several facts at a commit, client-go
one; `Same` says when they are the same: one fact, however often it is told, or the
same ones equally often.  A client that its driver did not ask has met `NotAsked`.

`Project` has every path of `DEFAULT_PATHS`: the class, the detail of `unsupported`,
the parts of `mixed`, the value, the number of locks and the locks themselves (key,
primary, kind, TTL bucket), whether there is a timestamp, and whether there is a proto
and its type.  The drivers name a lock's kind by tables of their own (`RustLockKind`,
`GoLockKind`), over the seven operations that `kvrpcpb.Op` has.

What happens to locks is the clients' and the cluster's, and external: a command that
reads or writes through a transaction may settle locks of its run (`Settles`) and
leave locks at the keys it writes (`MayLeave`), in any way that `Effects` allows.
`prewrite_only` that succeeded has locked each of its keys that had no lock.  The
`mode` of a `begin` decides about `put`: client-rust locks the key of a pessimistic
transaction there and then, while `KVTxn.Set` only buffers (`LocksAtPut`).  `kept` has
what the oracle's commands did, as it would be shown (`Noted`), and `strayed`
the steps at which the subject's did something else.  The locks of `prewrite_only` are
the drivers' doing, so they are not noted: in them the two runs may not differ.  A
scan sees the locks in its range, and `Leftover` is what earlier attempts left in the
cluster.

The oracle's run comes first, as in every shipped scenario; asserts and the retry of
transient runs are in `ParityRun`.  A step by a sleeping runner changes nothing.

### 3.7 ByteStrings, StoreRead and SnapshotScan

`ByteStrings` has the order of `Vec<u8>`, `prefix_upper_bound` and `encode_key`, for
byte strings of any length.  `StoreRead` is what `traits.rs` and the comments of
`lib.rs` promise of `get` and `scan`: an answer is what the store held at one
moment between the call and the return, or a fault.  `SnapshotScan` is the code: a
timestamp (`TakeSnapshot`), then `Get`, or `Page` after `Page`, each the first
`SCAN_PAGE` pairs from the cursor to the upper bound at that timestamp; `FullPage`
and `NextCursor` decide what comes next.  `OtherCommit` is everybody else, `Fails`
a request that does.  `history` has the contents after every commit, so that a
timestamp is a position in it.  The scan's answer is a set of pairs: the order of
the pages is the order of the keys, and `twice` tells of a repeated pair.

### 3.8 CrossRegion

| in the model | in `crates/harness/src/cluster.rs` |
|---|---|
| `Serve`, `GetFails` | `regions`, `pd_get`: an endpoint serves its view, or the next one is tried |
| `View`, `Locate`, `Separate` | the regions in PD's encoding; `locate`, `region_pair` |
| `Judge` | the body of the loop of `ensure_cross_region` up to the split |
| `Post` | `split_region_at`: the operator is posted to the first endpoint that accepts it |
| `Sleep` | the pause between two rounds |
| `SplitsItself`, `Merges`, `Operator` | external: the cluster |

A request takes up to `PD_TIMEOUT`, whatever comes of it.  A view is what the
cluster was when the endpoint served it, and reaches the caller later, when the
cluster may have moved on.  An operator that PD has accepted may be carried out
later or never, and one whose request failed may have been accepted.

### 3.9 Ledger

| in the model | in the code |
|---|---|
| `tree`, `head`, `base` | the harness on disk, at HEAD, and at the merge-base with origin/main |
| `client`, `gomod`, `rest` | client-rust on disk; whether go.mod, and the cluster and toolchains, are on pin |
| `built`, `stamp` | the driver binaries; `results/provenance.json` |
| `trace`, `report`, `job` | `results/`, and the runner, as `Results` has them |
| `verdict`, `candidate` | how the last check ended; `results/candidate-verdict.json` |
| `Make`, `Stamp`, `RunnerStarts` to `RunnerEnds`, `MakeJudges`, `Fails` | the targets `parity`, `ledger` and `clear-candidate-verdict` of the Makefile, `provenance.sh`, the runner |
| `Enforced` | what `provenance.sh` refuses, in each of its three modes |
| `ClaimsOfTheBase`, `Committed`, `Pinned`, `Unmoved`, `Admissible`, `Attested` | sections 1a, 1 and 2 of `ledger-check.sh` |
| `Outcome`, `Holds`, `CandidateVerdict` | section 3, the table of verdicts, and the file it writes |
| `CheckAlone` | `ledger-check.sh` started by hand, in either mode |
| `Edit` | an edit, commit, merge or checkout of the harness; the same of client-rust; pins that move |

There is one gap; `"another"` stands for all others, whose entries a candidate must
not touch.  A commit is its contents, and so is a digest.  A script's reads are
one step: `provenance.sh` and `ledger-check.sh` each read the tree once and take
no lock on it.  For the same reason nobody edits while make builds, stamps or
runs: an edit that is made after the build and taken back before the verdict is
seen by nobody.  Between the run and the verdict, and whenever make is not running,
anything may change.

## 4. The runs

| run | question | bounds | distinct states |
|---|---|---|---|
| `BrokerRaces` | may two leases share a slot; may a claim be undone; does gc tear down only what it has claimed - with repeated ids, failing `down` and torn writes | 2 processes, 1 repeated and 1 generated id, slots 0-1 | 1,238,000 |
| `BrokerIsolated` | do failures or kills, inside `write_text` too, lose a cluster, or hand out another's, when each caller keeps to its own id and nobody runs gc | 2 processes, 2 ids, 2 shapes, slots 0-2 | 3,994,000 |
| `BrokerAlone` | is an overdue lease released, when one process at a time runs every command, gc included | 1 process, 2 ids, slots 0-1 | 9,000 |
| `BrokerPortBlock` | *finding*: two clusters on one block of ports | 3 processes, repeated ids | violation |
| `TikvContract` | does the store implement the trait, and is a batch never torn | 2 calls, 2 keys, 3 batches, 2 modes, all faults | 358,000 |
| `SnapshotScan` | do the pages of a scan add up to one read at one moment; does it end | bytes 0-2, 7 keys, 4 prefixes, pages of 2, 2 commits of 2 kinds | 106,000 |
| `LockScan` | is a lock skipped or reported twice; does the scan end | 5 keys, batch sizes 0-3 | 1,265 |
| `ParityRun` | is everything in `results/` what `Results` says; does make end | 2 steps, 1 asserted, 3 attempts, 2 worlds, 2 edits | 70,000 |
| `Ledger` | is a verdict about the clients, the harness, the claims and the run it names | 4 harnesses, 3 clients, 2 traces, 2 invocations, 2 edits | 925,000 |
| `SideBySide` | is every divergence the clients', and every difference of the clients in the report; do the drivers refuse alike; does a scan see only its own run's locks; does a comparison compare | the shipped scenarios in every binding, and every script of 2 of 11 commands after open and begin, and a put in either mode, one of 5 commands and a scan; 1 failure in the oracle's run, 1 step at which the clients differ | 383,000 |
| `SplitWait` | the overrun, the spacing of re-writes, the end | limit 9, re-write 3, poll 2, PD 2, lag 1 | 625 |
| `CrossRegion` | is "two regions" told of one moment; is a good endpoint found; the overrun; the end | keys of 8 and 9 bytes, 3 region ids, 2 endpoints, the second of which is good | 36,000 |

Why the bounds suffice.  The broker's races need one process in the locked block
and one outside it; a third only adds a second process outside, and the run that
needs it (`BrokerPortBlock`) has it.  Two ids are what two leases take; slot 0 and
one numbered slot are the two kinds of slot.  For batches, the hard cases are
between two calls: a lost race, a write skew, a lock met by somebody else; two
keys make a primary and a secondary, and the batches are those of the gate's own
tests.  A lock scan goes wrong at the boundary of two regions within a page, or
of two pages; five keys give pages of at most three locks over up to five
regions.  Two steps are one precondition and one that is compared; three
attempts is the code's own number.  In `SplitWait` the limit leaves room for two
re-writes and several polls, and is not a multiple of either interval's sum, so
that the deadline falls into each kind of await.

A snapshot scan goes wrong at the end of a page or of the prefix: the keys are
those beside the bounds of the four prefixes (one empty, one that ends in the
greatest byte, one that is only the greatest byte), successors of keys, and a
key that is another's prefix; seven keys make up to four pages.  Two commits are one
before and one after the first page.  In `Ledger` the four harnesses are main and
one change of each part; two edits are what it takes to make a change and to
commit, merge or take it back, and two invocations are one that leaves something behind
and one that finds it.  In `CrossRegion` the keys fill a group of the encoding, and a
cut is one byte longer, which is where the encoding is easy to get wrong; three
ids let the cluster split twice, and the keys are reunited by a merge.

In `SideBySide` a second failure
or a second differing step only adds a divergence to a step of its own; the
failures include those that end in a refusal.  The scripts are long enough for a
lock to be made, met and resolved within a run, and for the next run to come
after it.

`SideBySide` leaves out four facts that are mapped like another one (`Twins` in
`MCSideBySide`).  A retryable `KeyError` is among the rest.  For it the Rust table
gives the proto (`mapping.rs:262-266`) and the Go table does not
(`observation.go:286-290`), so that `proto.present` and `proto.type` differ although the
clients met one fact.  That divergence is the harness's own, and
`DivergencesAreTheClients` excepts it by name (`ProtoLost`): these two paths, two
different drivers, and nothing but retryable failures at the step.  Without the
exception the property fails.

A `put` in a pessimistic transaction is a step at which the clients differ: a scan
after it finds a lock in the run of client-rust and none in that of client-go.  The
report then has a divergence at the scan, with no fact apart, and the property asks
for a step in `strayed` at or before it.

What narrows `BrokerIsolated` is the result, not a convenience: `NothingLost` fails as
soon as an id is used by two processes at once, since `_release` deletes files it
did not look at under the lock.  `BrokerPortBlock` shows what comes of it.  A kill
inside the rewriting of a record does lose a running cluster; the property excepts
those clusters, by name (`cut`), and no others, until they are brought up again or
torn down.

Deadlock is checked of the broker, of `ParityRun` and of `Ledger`, where somebody can
always start something.  The other models stop: when the calls, the scan or the
wait have returned, when a comparison is reported or refused.

### Fairness

- *Broker* (`BrokerAlone`): a process that has work goes on (the kernel schedules
  it and Docker answers), and gc is called again and again, as its usage text asks
  (`scripts/cluster-broker:32`: "run `cluster-broker gc` at boot (or before a
  batch)").  Strong fairness of `Down` says that Docker does not fail for ever.  Nothing is assumed of any
  caller renewing or releasing.
- *LockScan*: the driver asks for the next page when it has one.
- *ParityRun*: a driver answers or dies.  The code has no timeout of its own in
  `Driver::send`; a driver that does neither stops the runner, and the hazard
  list says so.  Nothing is assumed of the cluster or of who edits the tree.
- *SplitWait*, *CrossRegion*: every await ends, since each has its own limit.
  Nothing is assumed of the cluster, nor that it ever splits.
- *SnapshotScan*: a request to TiKV fails or is answered.  Nobody is made to commit.

### Findings

One run ends in a violation, of a sentence that `PROJECT.json` quotes.
`BrokerPortBlock`: an unlocked release can delete the record of a lease whose `up`
is still to come; its slot is given away and two clusters start on the same ports.

Noted without a run of their own; the first two can be seen with TLC:

- gc claims under the lock, drops it, and releases by id.  An id given with `--id`
  can be released and leased again in between; gc then tears down the new,
  unclaimed lease (`INVARIANT GcOwnsAll` in `BrokerRaces.cfg`).
- A key argument with `{P}` elsewhere than at its front is accepted and is not under
  the run's prefix (`command.rs:268`, `290`); a scan with such a bound reports locks of
  the other run (`Scenarios <- Inside` in `SideBySide.cfg`: `OwnResidueOnly` fails).
- The report may be older than the traces beside it: a later invocation that writes
  a trace and then gives up leaves it (`main.rs:149-179`), and `ledger-check.sh`
  judges the report (409-410) and attests the traces (468-480).  It is still the diff of
  one invocation, which is what `Results` promises.
- Strict mode asks whether the harness was clean when it was stamped, and at
  today's HEAD (`ledger-check.sh:262-266`), not whether it is clean now: an
  uncommitted edit of `ledger.toml` restates a claim.  `SettledByThePinnedWorld`
  therefore speaks of the run, not of the claim.
- `MISSING` (`ledger-check.sh:576`) cannot come out: 473-476 refuse first.
- `cluster.rs:47-48` says that a key that fills its last group needs another one or it
  would sort before its own extensions.  It would, and does; the group is needed
  because PD's bounds have it, and without it a bound equal to the key lies above it.
- `traits.rs:57` says that `Conflict` means a failed precondition; `lib.rs:78-79`
  and the code also return it for a lost write race of a batch without any.
- `trace.rs:86-88` says that an unmapped error or a driver failure must stay
  fatal; `is_transient` retries a run that has one *and* a region error.
- The retryable `KeyError`, above, whose proto only one of the two tables gives.
- Both drivers act on the `mode` of a `begin` (`exec.rs:117-121`, `exec.go:182-184`) and on
  `put` alike, but only client-rust's `put` takes a lock.  No driver has a command
  that locks keys, so the scenarios cannot make the two runs the same; the shipped
  ones are optimistic.
- For a lone `KeyError` `mapping.rs` counts no errors and `observation.go` counts
  one, though the comment at `observation.go:55-63` wants the two to agree under
  `errors.count`.  Under the opt-in `proto`, timestamps are compared.
- A `begin` that fails is a driver error in Go and a classified observation in
  Rust; where the oracle is Go its run is then refused before the subject's.

## 5. The proofs

Proved by TLAPS for all values of the constants that satisfy the named
assumptions of the modules.

**ClusterBrokerProofs** (assumptions: `SlotAssumption`, `IdAssumption`,
`NoneAssumption`, `FlagAssumption`).

- `TypeCorrect`: `TypeOK`, which includes that the processes inside the locked
  block are exactly the holder of the lock.
- `SlotsAreUnique`: `UniqueSlots`.  It is not inductive: a process writes back
  records it read earlier, or a new one on a slot that was free when it looked.
  `Inv` adds `SnapCovers` (while the lock is held, records may have disappeared
  from the directory since the holder read it, but none has appeared, moved or
  been claimed), `SnapUnique` (what the holder read has unique slots), `RunOK`
  (what a process has in hand at each step) and `NewIsNew` (the id and the slot of
  a lease about to be recorded are not in the snapshot).
- `ClaimsAreFinal`: `ClaimIsFinal`, from the same invariant: only the holder
  writes a record, and `SnapCovers` says that what it writes back is not older than
  the claim.
- `IsolatedLoseNothing` and `IsolatedGetTheirOwn`: `NothingLost` and `HandsOutOwnCluster`,
  assuming `Isolated`: no two callers share an id and nobody runs gc,
  which is the instance of `BrokerIsolated` with any number of everything, every fault
  included.  `IsoInv` adds `Tidy` (a record has its env file, and a cluster its record
  unless that was cut short, all with one slot) and
  `Knows` (what a process found of its lease under the lock is still there at each
  later step, because nobody else touches it).
- `GcOwnsWhatItTearsDown`: `GcOwnsGenerated`.  `GcInv` adds `SnapKnowsClaims` (a
  generated id that a gc is about to release is claimed in every snapshot that
  has it), `UsedFirst` (a generated id that is recorded or claimed has been used) and `FreshIsUnknown`
  (a generated id about to be recorded is in nobody else's hands).

**LockScanProofs** (`KeysAssumption`, `BatchAssumption`): `ScanTypeCorrect`,
`EveryLockReported` and `NoLockReportedTwice`.  The invariant adds `SteadyInRange`,
`BehindIsReported` (every steady lock behind the cursor is reported) and
`AheadIsFresh` (nothing at or after the cursor is).  The lemma that carries it: a
steady lock at or below the cut is in the page, because a region that truncates
yields `batch_size` keys below anything it drops, and then the cut, the
`batch_size`-th smallest key of the page, lies below what was dropped.
Cardinalities come from `FiniteSetTheorems`.  `PagesAdvance`: every page but the last
moves the cursor up, inside the range, and brings exactly `batch_size` locks no page
brought before; so the loop of `exec.rs` cannot turn on one spot.

**SplitWaitProofs** (`DurationAssumption`): `WaitTypeCorrect`, `OverrunIsBounded`
and `RewritesSpaced`, for all durations.  The invariant adds `Progress`, which
bounds the clock at each await, and `Spacing`, which relates the time of the last
re-write to that of the next one.  `AwaitsAreBounded` gives a measure, `Left`, that every
await lowers and that starts at no more than `3 * limit + 4`: the sleep at the end of
a round uses up some of the limit even where commits and probes take no time.

**KeyOrderProofs** is about three modules that rest on the order of keys.

- *ByteStrings* (`MaxByteAssumption`, `NoneIsNoString`; for the encoding also that a
  byte can count the bytes of a group).  `PrefixRange`: the keys with a prefix are
  exactly those from the prefix up to `PrefixUpperBound`, or all from the prefix on
  where there is none.  `EncodingPreservesOrder`: `encode_key` preserves and reflects
  the order, so that a key can be located among encoded bounds.  Both by the first
  place at which two strings differ.
- *SnapshotScan* (its assumptions and those of `StoreRead`, for every page size, set
  of keys and number of commits): `TypeCorrect`, `PagesAreDisjoint` and
  `ScanImplementsRead`, the refinement.  The invariant `IInv` adds `Collected`: what
  has been collected is exactly what the snapshot holds below the cursor.  A full page
  keeps it, because nothing lies between a key and its successor (`SuccessorIsNext`);
  a short page ends the range, and `PrefixRange` says that the range is the prefix.
  `FullPagesAdvance`: a page that does not end the read moves the cursor strictly up
  and brings `SCAN_PAGE` pairs that were not there before.
- *CrossRegion* (`SplitAtAssumption`, which is the code's own assertion,
  `ByteAssumption`, `CutsAssumption`, `EndpointsAssumption`, `TimeAssumption`):
  `CrossTypeCorrect`, `VerdictSound`, `FallbackReaches` and `OverrunBounded`.  The
  invariant adds `Partition` (whatever splits and merges, every key is in exactly one
  region, and ids are unique), `ViewTells` (a view separates the encoded keys just if
  the layout it was taken from separated the keys, by `EncodingPreservesOrder`),
  `Tried` (no good endpoint is behind the one that is tried) and `Clock` (the time of
  each part of a round).  `CallIsBounded`: a round is at most `3 * Endpoints + 1`
  steps, a sleep that the clock shows included, so the measure `StepsLeft` (the time to
  the latest moment, then the place in the round) falls with every step of the caller,
  and nothing that regions or endpoints do raises it.

**TikvStoreProofs** (`NoneIsNothing`, `BatchesAssumption`: a batch is finitely many
preconditions, puts and deletes; `FirstAssumption`), for any calls, keys and batches,
and with every fault: `TypeCorrect`, `NeverTorn`, and `CommitKeepsContract`, the
refinement of `MetadataStore`.

- The argument is about one interval: from the moment a transaction has its commit
  timestamp until its primary has decided, it holds a prewritten lock on each of its
  keys (`Kept`).  Under such a lock nothing is published but by its holder, so a
  precondition that was found true when the lock was taken is still true (`Met`), and
  what will be published is the newest version (`Latest`).
- How a precondition gets there is the difference between the modes.  `MetSoFar`: a
  pessimistic lock keeps the value that was read under it.  `ReadSoFar`: an optimistic
  read is a read of the snapshot, whose value may be overtaken; prewrite refuses if it
  was, and `Settled` says that a prewritten lock that is not published yet will not be
  published below the snapshot.
- `Protocol` says how far a call has come and what its primary may say by then;
  `Owned`, that a lock left in the cluster is on a key of its transaction.
- `NeverTorn` holds in every mode.  The refinement assumes `"unlocked" \notin Modes`:
  in that mode a key that is only checked gets no lock, and `Met` is lost.  A call's
  step maps to a step of `MetadataStore` when its primary decides or it returns, and
  every other step to a stutter: a lock's resolution changes no key's value (lemmas
  on `Value`, the reader's view through a lock).
- `BatchesLandWhole` says what is left of the contract when `"unlocked"` is among the
  modes.  The store still changes by whole batches, and the preconditions on the keys
  a batch writes hold as it lands, because prewrite locks those keys in every mode:
  no update is lost.  A call in a mode that locks keeps all of its preconditions,
  whichever modes the other callers use.  `OutcomesAreTrue`: in every mode, what
  `commit` returned stays true.

**SideBySideProofs** (`ScenariosAssumption`: what serde accepts, with the runs named by
their place and no text that holds a new run's prefix; `LeftoverAssumption`,
`RankAssumption`, `SeveralAssumption`, `FactsAssumption`, `BoundsAssumption`), for any
scenarios that `validate()` accepts, any failures, any sets of errors, any leftover
locks and any order of tokens with the prefixes in it.

- `TypeCorrect` and `ComparesTheClients` (`ContrastIsReal`), from `Shaped`.
- `FactsAreTold`: `NoFactSmoothedOver`.  `Heard` says of each observation what the
  client met there: classes are one to one with facts (`ClassPerFact`), both tables agree wherever
  the class is evidence (`TablesAgree`), and a `mixed` error shows its parts as a bag;
  so different facts have different projections.
- `ResidueIsOwn`: `OwnResidueOnly`, assuming `AtFront`: no key and no bound has its
  token elsewhere than at its front.  Then a scan's two bounds begin with the run's
  prefix, and so does all that lies between.  The shipped scenarios satisfy it;
  without it the property fails (section 4, findings).
- `HarnessIsAlike`: `HarnessFailsAlike`, for all scenarios.  When the subject's run
  is at step *i* the oracle's tables of that moment are gone.  So the invariant
  `Followed` remembers them: there is a sequence `T` of tables, and one `L` of the
  cluster's locks, of which every two neighbours are a step of the oracle's run
  (`Stride`, `Travelled`), and as long as the clients have met the same facts the
  subject's tables are like `T[i]` (`AlikeTables`).  Drivers with like tables refuse
  alike, and `StepAlike` carries it over a step.
- `DivergencesAreReal`: `DivergencesAreTheClients`, assuming `AtFront`, for any facts,
  a retryable failure included.  `SoFarAlike` adds the locks to `Followed`: as long as
  the clients have met the same facts and done the same to the locks, those of the
  oracle's run after step *i* are shown as those of the subject's (`AlikeLocks`),
  whatever other runs left.  That takes `OwnTidy`: a run's locks and what its
  transactions hold are at keys with the run's prefix, one lock at each, so that a
  redacted key tells which lock it is (`SealsApart`).  What a command does to the locks
  keeps it (`EffectsAreApt`, `TidyAfter`), and like effects on like locks leave like
  locks (`LocksAlike`; `PrewriteShown` for the drivers' own).  A scan then sees the
  same locks up to the prefix (`ScansAlike`, by `BeforeByName`: keys of one run are
  ordered as their names are), answers are observed alike (`AnsweredSame`), and so are
  failures, but for what is `Excused` (`FailedSame`).

**ParityRunProofs** (`StepsAssumption`, `AttemptsAssumption`, `NoneAssumption`,
`EditsAssumption`): `TypeCorrect`, in which `Evidence` says what a trace on disk may
be, and `RunnerImplementsResults`, the refinement.  `InvocationsAreBounded`: the steps
left of an invocation (`Left`, at most two runs of `MAX_ATTEMPTS` attempts) fall with
each of its steps, and neither a retry nor a move of the cluster gives any back.  The invariant adds `Met` (no
observation of the attempt fails its precondition) and `Taken` (from the second run
on, the traces of this invocation are there, with its stamp).

**LedgerProofs** (`HarnessesAssumption`, `ClientsAssumption`, `StepsAssumption`):
`SettlingIsPinned`, `CandidateIsJudged`, `VerdictsAreCleared` and `MakeJudgesItsOwn`,
for any harnesses, clients and relation `Contains`.  The invariant adds `Truthful` of every
report (what was run is what its stamp says, and a stamp that is not dirty names
what is at its revision) and `Making` (what make has built and stamped so far is
what is on disk, and the report it is about to judge is its own).  A check then has
only to compare the stamp with the world, which is what `CheckIsSound` shows that
its refusals do.

Only model-checked: the liveness properties (`OverdueIsReleased`, `ScanEnds`,
`ReadEnds`, `MakeEnds`, `WaitEnds`, `CallEnds`), which need fairness and `ENABLED`, out
of TLAPS's reach; and `BrokerPortBlock`, which is a counterexample.  Of five of the six
the part that is about the code is proved for all values of the constants: the
measure that each step lowers (`AwaitsAreBounded`, `CallIsBounded`,
`InvocationsAreBounded`) or the progress that each page makes (`PagesAdvance`,
`FullPagesAdvance`).  What is left to TLC is that a step which can be taken is taken,
and that one can be taken until the end.  `OverdueIsReleased` has no such measure: gc
comes round again for ever.

## 6. What is not modelled

- The opt-in paths of the projection, the gate verdict and the transport: see the
  plan.  At this commit the gate verdict's table of expected failures is empty, so
  that it says no more than that every test passes.
- What a driver records and a comparison does not look at by default: the values of
  timestamps and TTLs, the details of classes other than `unsupported`, checksums, the
  client's own error.
- The protocol's types, the cluster definitions, the spec check, the lint of the
  pins and CI: data, text or glue, without a state of their own.  Where another part
  depends on them they are an input of its model.
- Unique key prefixes, store and region statistics, and the addresses from the
  environment (`cluster.rs`): input and output.
- Messages, exit codes beyond success and failure, and gc's report of orphans,
  which is only printed.
- TiKV, PD, git, tikv-client and client-go themselves, beyond what section 3 says.
