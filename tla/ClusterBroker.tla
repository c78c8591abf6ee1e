--------------------------- MODULE ClusterBroker ---------------------------
(***************************************************************************)
(* scripts/cluster-broker: throwaway PD + TiKV clusters leased to several  *)
(* callers on one host.  Every invocation of the script is a process; all  *)
(* they share is one directory (<id>.json and <id>.env per lease, guarded  *)
(* by an flock that covers only a part of each command) and the Docker     *)
(* daemon, which no lock covers.                                           *)
(*                                                                         *)
(* Abstractions.  A profile together with a TiKV version is a "shape".  A  *)
(* block of ports is its slot number.  The deadline expires_at is one of   *)
(* "never", "live" and "past", and the clock is the action Expire.  A      *)
(* lease without --id (secrets.token_hex) is one whose id was never used;  *)
(* the ids of Named are those a caller passes with --id, again and again.  *)
(***************************************************************************)
EXTENDS Integers, FiniteSets

CONSTANTS
  Procs,       \* concurrent invocations of the script
  Ids,         \* lease ids
  Named,       \* the ids passed with --id, which may be leased repeatedly
  Mine,        \* process -> the ids its caller leases, renews and releases
  Collectors,  \* the processes that may run gc
  Shapes,      \* <<profile, TiKV version>> pairs
  MaxLeases,   \* PARITY_BROKER_MAX_LEASES
  MaxSlot,     \* the largest --slot a caller asks for
  PortCheck,   \* PARITY_BROKER_PORT_CHECK # 0
  Faults,      \* those of "crash", "torn", "up", "ready", "down" that may happen
  None         \* no lease, no file, no slot, nobody

Slots == 0 .. MaxSlot
Lease == [slot: Slots, shape: Shapes, exp: {"never", "live", "past"},
          releasing: BOOLEAN]

\* The locals of one invocation: its arguments (op, id, want = --slot, shape,
\* ttl), then rec["slot"] and the flag `fresh` of a lease, and the leases a gc
\* has still to release.
Run == [op: {"idle", "lease", "release", "renew", "gc"}, id: Ids \union {None},
        want: Slots \union {None}, shape: Shapes \union {None},
        ttl: {"never", "live"}, slot: Slots \union {None}, fresh: BOOLEAN,
        todo: SUBSET Ids]

Idle == [op |-> "idle", id |-> None, want |-> None, shape |-> None,
         ttl |-> "never", slot |-> None, fresh |-> FALSE, todo |-> {}]

ASSUME SlotAssumption == MaxLeases \in Nat /\ MaxSlot \in Nat /\ MaxLeases <= MaxSlot
ASSUME IdAssumption == /\ Named \subseteq Ids
                       /\ Mine \in [Procs -> SUBSET Ids]
                       /\ Collectors \subseteq Procs
ASSUME NoneAssumption == /\ None \notin Procs /\ None \notin Ids
                         /\ None \notin Nat /\ None \notin Shapes /\ None \notin Lease
ASSUME FlagAssumption == PortCheck \in BOOLEAN

VARIABLES
  leases,   \* id -> the contents of <id>.json, or None
  envs,     \* id -> the slot whose ports <id>.env names, or None
  docker,   \* id -> the slot the compose project crt-<id> occupies, or None
  cut,      \* history: the running clusters whose record a killed writer cut short
  lock,     \* the process that holds broker.lock, or None
  snap,     \* what the holder of the lock read with load_all
  used,     \* the generated ids
  pc,       \* process -> where it is
  run       \* process -> its locals

vars == <<leases, envs, docker, cut, lock, snap, used, pc, run>>

NoLeases == [i \in Ids |-> None]

Init ==
  /\ leases = NoLeases
  /\ envs = [i \in Ids |-> None]
  /\ docker = [i \in Ids |-> None]
  /\ cut = {}
  /\ lock = None
  /\ snap = NoLeases
  /\ used = {}
  /\ pc = [p \in Procs |-> "idle"]
  /\ run = [p \in Procs |-> Idle]

-----------------------------------------------------------------------------
(* Helpers *)

Held(table) == {i \in Ids : table[i] # None}
\* Mutant of Taken: a lease that is overdue no longer keeps its slot.
TakenByCurrent(table) ==
  {table[i].slot : i \in {j \in Held(table) : table[j].exp # "past"}}
Taken(table) == {table[i].slot : i \in Held(table)}
Expired(rec) == rec.exp = "past"
\* Mutant of Claimable: a lease whose `down` failed once is not retried.
ClaimableOnce(table) == {i \in Held(table) : Expired(table[i]) /\ ~table[i].releasing}
Claimable(table) == {i \in Held(table) : Expired(table[i]) \/ table[i].releasing}
Running == {i \in Ids : docker[i] # None}

\* port_free for the whole block: a cluster that runs there holds the ports.
\* (Listeners outside the broker's sight make any of the blocks busy: LeaseEnv
\* takes any free candidate, and LeaseRefused may find none.)
PortsFree(s) == PortCheck => \A i \in Ids : docker[i] # s

\* `taken`, the cap and `candidates` of cmd_lease.
Candidates(want) ==
  IF want # None THEN {want} \ Taken(snap)
  ELSE IF Cardinality({i \in Held(snap) : snap[i].slot # 0}) >= MaxLeases THEN {}
  ELSE (1 .. MaxLeases) \ Taken(snap)

\* What a compose child does to the project of lease i.
BringUp(i) == docker' = [docker EXCEPT ![i] = envs[i]] /\ cut' = cut \ {i}
TearDown(i) == docker' = [docker EXCEPT ![i] = None] /\ cut' = cut \ {i}

Goto(p, label) == pc' = [pc EXCEPT ![p] = label]
Exit(p) == Goto(p, "idle") /\ run' = [run EXCEPT ![p] = Idle]
\* Mutant of Unlock: the lock outlives the block.
UnlockLate(p) == UNCHANGED lock /\ snap' = NoLeases
Unlock(p) == lock' = None /\ snap' = NoLeases

\* A lease command that found the record and may hand it out again.
Matches(rec, r) == /\ rec.shape = r.shape
                   /\ r.want # None => rec.slot = r.want
                   /\ ~Expired(rec) /\ ~rec.releasing

-----------------------------------------------------------------------------
(* A command starts by taking the lock and reading every record.  What it   *)
(* does before (parsing, the pins) is not shared with anyone.               *)

TakeLock(p) == lock = None /\ lock' = p /\ snap' = leases /\ Goto(p, "held")

StartLease(p) ==
  /\ pc[p] = "idle" /\ TakeLock(p)
  /\ \E i \in Mine[p] \ used, w \in Slots \union {None}, s \in Shapes, t \in {"never", "live"} :
       /\ run' = [run EXCEPT ![p] = [Idle EXCEPT !.op = "lease", !.id = i, !.want = w,
                                                 !.shape = s, !.ttl = t]]
       /\ used' = used \union ({i} \ Named)
  /\ UNCHANGED <<leases, envs, docker, cut>>

StartRenew(p) ==
  /\ pc[p] = "idle" /\ TakeLock(p)
  /\ \E i \in Mine[p], t \in {"never", "live"} :
       run' = [run EXCEPT ![p] = [Idle EXCEPT !.op = "renew", !.id = i, !.ttl = t]]
  /\ UNCHANGED <<leases, envs, docker, cut, used>>

StartGc(p) ==
  /\ p \in Collectors
  /\ pc[p] = "idle" /\ TakeLock(p)
  /\ run' = [run EXCEPT ![p] = [Idle EXCEPT !.op = "gc"]]
  /\ UNCHANGED <<leases, envs, docker, cut, used>>

\* Every early return under the lock: `with locked()` drops it on the way out.
Refuse(p) ==
  /\ Unlock(p)
  /\ Exit(p)
  /\ UNCHANGED <<leases, envs, docker, cut, used>>

-----------------------------------------------------------------------------
(* lease *)

\* The id is known and this is the same request: rewrite the deadline only.
LeaseAgain(p) ==
  LET r == run[p] IN
  /\ pc[p] = "held" /\ r.op = "lease"
  /\ snap[r.id] # None /\ Matches(snap[r.id], r)
  /\ leases' = [leases EXCEPT ![r.id] = [snap[r.id] EXCEPT !.exp = r.ttl]]
  /\ run' = [run EXCEPT ![p] = [@ EXCEPT !.slot = snap[r.id].slot]]
  /\ Unlock(p)
  /\ Goto(p, "up")
  /\ UNCHANGED <<envs, docker, cut, used>>

\* A new lease: choose the slot and write the env file, then the record.
LeaseEnv(p) ==
  LET r == run[p] IN
  /\ pc[p] = "held" /\ r.op = "lease"
  /\ snap[r.id] = None
  /\ \E s \in Candidates(r.want) :
       /\ PortsFree(s)
       /\ PortCheck \/ \A t \in Candidates(r.want) : s <= t   \* the first free one
       /\ envs' = [envs EXCEPT ![r.id] = s]
       /\ run' = [run EXCEPT ![p] = [@ EXCEPT !.slot = s, !.fresh = TRUE]]
  /\ Goto(p, "record")
  /\ UNCHANGED <<leases, docker, cut, lock, snap, used>>

LeaseRecord(p) ==
  LET r == run[p] IN
  /\ pc[p] = "record"
  /\ leases' = [leases EXCEPT ![r.id] = [slot |-> r.slot, shape |-> r.shape,
                                         exp |-> r.ttl, releasing |-> FALSE]]
  /\ Unlock(p)
  /\ Goto(p, "up")
  /\ UNCHANGED <<envs, docker, cut, used, run>>

\* Another request under that id, a claimed or expired lease, a held slot, the
\* cap, or no free block (other listeners may hold any of them).
LeaseRefused(p) ==
  LET r == run[p] IN
  /\ pc[p] = "held" /\ r.op = "lease"
  /\ IF snap[r.id] # None THEN ~Matches(snap[r.id], r)
     ELSE PortCheck \/ Candidates(r.want) = {}
  /\ Refuse(p)

\* compose() needs the env file: without it neither `up` nor `down` runs.
AfterFailedLease(p) ==
  IF run[p].fresh THEN Goto(p, "down") /\ UNCHANGED run ELSE Exit(p)

Up(p) ==
  LET i == run[p].id IN
  /\ pc[p] = "up" /\ envs[i] # None
  /\ BringUp(i)
  /\ Goto(p, "wait")
  /\ UNCHANGED <<leases, envs, lock, snap, used, run>>

\* A failed `up` may leave containers behind.
UpFails(p) ==
  LET i == run[p].id IN
  /\ pc[p] = "up"
  /\ \/ envs[i] = None /\ UNCHANGED <<docker, cut>>
     \/ /\ envs[i] # None /\ "up" \in Faults
        /\ UNCHANGED <<docker, cut>> \/ BringUp(i)
  /\ AfterFailedLease(p)
  /\ UNCHANGED <<leases, envs, lock, snap, used>>

\* wait-ready.sh polls pd_addrs, which any cluster on that slot answers.  Here
\* the command succeeds and prints the lease.
Ready(p) ==
  /\ pc[p] = "wait"
  /\ \E i \in Ids : docker[i] = run[p].slot
  /\ Exit(p)
  /\ UNCHANGED <<leases, envs, docker, cut, lock, snap, used>>

NotReady(p) ==
  /\ pc[p] = "wait"
  /\ "ready" \in Faults \/ \A i \in Ids : docker[i] # run[p].slot
  /\ AfterFailedLease(p)
  /\ UNCHANGED <<leases, envs, docker, cut, lock, snap, used>>

-----------------------------------------------------------------------------
(* release, and _release, which runs without the lock                        *)

\* The record is read under the lock, and the lock dropped, before anything is
\* done: a release leaves no mark on the record.
StartRelease(p) ==
  /\ pc[p] = "idle" /\ lock = None
  /\ \E i \in Mine[p] \intersect Held(leases) :
       run' = [run EXCEPT ![p] = [Idle EXCEPT !.op = "release", !.id = i]]
  /\ Goto(p, "down")
  /\ UNCHANGED <<leases, envs, docker, cut, lock, snap, used>>

AfterRelease(p) ==
  IF run[p].op = "gc" THEN Goto(p, "gc") /\ UNCHANGED run ELSE Exit(p)

Down(p) ==
  LET i == run[p].id IN
  /\ pc[p] = "down" /\ envs[i] # None
  /\ TearDown(i)
  /\ Goto(p, "unlink_record")
  /\ UNCHANGED <<leases, envs, lock, snap, used, run>>

\* Mutant of DownFails: the lease is forgotten although its cluster still runs.
DownFailsForgets(p) ==
  /\ pc[p] = "down"
  /\ envs[run[p].id] = None \/ "down" \in Faults
  /\ Goto(p, "unlink_record")
  /\ UNCHANGED <<leases, envs, docker, cut, lock, snap, used, run>>

DownFails(p) ==
  /\ pc[p] = "down"
  /\ envs[run[p].id] = None \/ "down" \in Faults
  /\ AfterRelease(p)
  /\ UNCHANGED <<leases, envs, docker, cut, lock, snap, used>>

UnlinkRecord(p) ==
  /\ pc[p] = "unlink_record"
  /\ leases' = [leases EXCEPT ![run[p].id] = None]
  /\ Goto(p, "unlink_env")
  /\ UNCHANGED <<envs, docker, cut, lock, snap, used, run>>

UnlinkEnv(p) ==
  /\ pc[p] = "unlink_env"
  /\ envs' = [envs EXCEPT ![run[p].id] = None]
  /\ AfterRelease(p)
  /\ UNCHANGED <<leases, docker, cut, lock, snap, used>>

-----------------------------------------------------------------------------
(* renew *)

\* Mutant of Renew: it does not look for a claim.
RenewClaimed(p) ==
  LET i == run[p].id IN
  /\ pc[p] = "held" /\ run[p].op = "renew" /\ snap[i] # None
  /\ leases' = [leases EXCEPT ![i] = [snap[i] EXCEPT !.exp = run[p].ttl,
                                                     !.releasing = FALSE]]
  /\ Unlock(p)
  /\ Exit(p)
  /\ UNCHANGED <<envs, docker, cut, used>>

Renew(p) ==
  LET i == run[p].id IN
  /\ pc[p] = "held" /\ run[p].op = "renew"
  /\ snap[i] # None /\ ~snap[i].releasing
  /\ leases' = [leases EXCEPT ![i] = [snap[i] EXCEPT !.exp = run[p].ttl]]
  /\ Unlock(p)
  /\ Exit(p)
  /\ UNCHANGED <<envs, docker, cut, used>>

RenewRefused(p) ==
  LET i == run[p].id IN
  /\ pc[p] = "held" /\ run[p].op = "renew"
  /\ snap[i] # None => snap[i].releasing
  /\ Refuse(p)

-----------------------------------------------------------------------------
(* gc *)

\* Mutant of GcClaim: it decides under the lock, and claims nothing.
GcDecides(p) ==
  LET claim == Claimable(snap) IN
  /\ pc[p] = "held" /\ run[p].op = "gc"
  /\ run' = [run EXCEPT ![p] = [@ EXCEPT !.todo = claim]]
  /\ Unlock(p)
  /\ Goto(p, "gc")
  /\ UNCHANGED <<leases, envs, docker, cut, used>>

GcClaim(p) ==
  LET claim == Claimable(snap) IN
  /\ pc[p] = "held" /\ run[p].op = "gc"
  /\ leases' = [i \in Ids |-> IF i \in claim THEN [snap[i] EXCEPT !.releasing = TRUE]
                              ELSE leases[i]]
  /\ run' = [run EXCEPT ![p] = [@ EXCEPT !.todo = claim]]
  /\ Unlock(p)
  /\ Goto(p, "gc")
  /\ UNCHANGED <<envs, docker, cut, used>>

GcNext(p, i) ==
  /\ pc[p] = "gc"
  /\ i \in run[p].todo
  /\ run' = [run EXCEPT ![p] = [@ EXCEPT !.id = i, !.todo = run[p].todo \ {i}]]
  /\ Goto(p, "down")
  /\ UNCHANGED <<leases, envs, docker, cut, lock, snap, used>>

\* Then gc lists orphans, and only prints.
GcDone(p) ==
  /\ pc[p] = "gc" /\ run[p].todo = {}
  /\ Exit(p)
  /\ UNCHANGED <<leases, envs, docker, cut, lock, snap, used>>

-----------------------------------------------------------------------------
(* The environment: time, and invocations that are killed                    *)

Expire(i) ==
  /\ leases[i] # None /\ leases[i].exp = "live"
  /\ leases' = [leases EXCEPT ![i].exp = "past"]
  /\ UNCHANGED <<envs, docker, cut, lock, snap, used, pc, run>>

\* The kernel drops the flock of a process that dies.  A compose child may die
\* with its parent, or finish without it: it is assumed to have ended before the
\* next command for that lease.  A new record that is cut short is one that was
\* never written.
Crash(p) ==
  LET i == run[p].id IN
  /\ "crash" \in Faults /\ pc[p] # "idle"
  /\ \/ UNCHANGED <<docker, cut>>
     \/ pc[p] = "up" /\ envs[i] # None /\ BringUp(i)
     \/ pc[p] = "down" /\ envs[i] # None /\ TearDown(i)
  /\ Exit(p)
  /\ IF lock = p THEN Unlock(p) ELSE UNCHANGED <<lock, snap>>
  /\ UNCHANGED <<leases, envs, used>>

\* The records the holder of the lock is about to write again.
Rewritten(p) ==
  LET r == run[p] IN
  CASE r.op = "gc" -> Claimable(snap)
    [] r.op = "renew" -> {i \in Held(snap) : i = r.id /\ ~snap[i].releasing}
    [] r.op = "lease" -> {i \in Held(snap) : i = r.id /\ Matches(snap[i], r)}

\* write_text truncates and then writes.  Cut short, a record is a file that
\* load_all skips and `renew` cannot parse, which is as if it were gone...
TornRecord(p) ==
  \E i \in Rewritten(p) : \E done \in SUBSET (Rewritten(p) \ {i}) :
    /\ leases' = [j \in Ids |-> IF j = i THEN None
                                ELSE IF j \in done THEN [snap[j] EXCEPT !.releasing = TRUE]
                                ELSE leases[j]]
    /\ cut' = cut \union ({i} \intersect Running)
    /\ UNCHANGED envs

\* ... and an env file has no PD_IMAGE, without which compose refuses to start.
TornEnv(p) ==
  LET r == run[p] IN
  /\ r.op = "lease" /\ snap[r.id] = None /\ Candidates(r.want) # {}
  /\ envs' = [envs EXCEPT ![r.id] = None]
  /\ UNCHANGED <<leases, cut>>

TornWrite(p) ==
  /\ "torn" \in Faults /\ pc[p] = "held"
  /\ TornRecord(p) \/ TornEnv(p)
  /\ Unlock(p)
  /\ Exit(p)
  /\ UNCHANGED <<docker, used>>

-----------------------------------------------------------------------------
Start(p) == StartLease(p) \/ StartRelease(p) \/ StartRenew(p) \/ StartGc(p)

Locked(p) ==
  \/ LeaseAgain(p) \/ LeaseEnv(p) \/ LeaseRecord(p) \/ LeaseRefused(p)
  \/ Renew(p) \/ RenewRefused(p) \/ GcClaim(p)

Unlocked(p) ==
  \/ Up(p) \/ UpFails(p) \/ Ready(p) \/ NotReady(p)
  \/ Down(p) \/ DownFails(p) \/ UnlinkRecord(p) \/ UnlinkEnv(p)
  \/ (\E i \in Ids : GcNext(p, i)) \/ GcDone(p)

Next ==
  \/ \E p \in Procs : \/ Start(p) \/ Locked(p) \/ Unlocked(p)
                      \/ Crash(p) \/ TornWrite(p)
  \/ \E i \in Ids : Expire(i)

Spec == Init /\ [][Next]_vars

\* The script asks for gc at boot or before each batch, so it is called again and
\* again, and Docker does not fail for ever: a lease gc can reach is not passed
\* over for ever.
Fairness ==
  \A p \in Procs :
    /\ WF_vars(Locked(p) \/ Unlocked(p))
    /\ SF_vars(StartGc(p)) /\ SF_vars(GcClaim(p))
    /\ \A i \in Ids : /\ SF_vars(GcNext(p, i))
                      /\ SF_vars(Down(p) /\ run[p].id = i)
                      /\ SF_vars(UnlinkRecord(p) /\ run[p].id = i)
FairSpec == Spec /\ Fairness

-----------------------------------------------------------------------------
(* Properties                                                                *)

\* The values of the variables have the shapes declared above; a process holds
\* the lock exactly at the labels inside the `with locked()` block.
TypeOK ==
  /\ leases \in [Ids -> Lease \union {None}]
  /\ envs \in [Ids -> Slots \union {None}]
  /\ docker \in [Ids -> Slots \union {None}]
  /\ cut \subseteq Ids
  /\ lock \in Procs \union {None}
  /\ snap \in [Ids -> Lease \union {None}]
  /\ used \subseteq Ids \ Named
  /\ pc \in [Procs -> {"idle", "held", "record", "up", "wait", "down",
                       "unlink_record", "unlink_env", "gc"}]
  /\ run \in [Procs -> Run]
  /\ \A p \in Procs : lock = p <=> pc[p] \in {"held", "record"}

\* No two records hold the same block of ports, although _release deletes
\* records, and `renew` and a repeated `lease` may bring a deleted one back,
\* while another process is choosing a slot.
UniqueSlots ==
  \A i, j \in Held(leases) : leases[i].slot = leases[j].slot => i = j

\* The leases a gc has claimed and not yet dealt with.
ClaimOf(p) ==
  IF run[p].op # "gc" THEN {}
  ELSE run[p].todo \union
       (IF pc[p] \in {"down", "unlink_record", "unlink_env"} THEN {run[p].id} ELSE {})

\* "a renewal that wins the race is never torn down and one that loses it is
\* told so" (cmd_gc): what a gc is tearing down is a claimed lease or no lease
\* at all, for the ids in a set.
GcOwns(ids) ==
  \A p \in Procs : \A i \in ClaimOf(p) \intersect ids :
    leases[i] # None => leases[i].releasing

\* It holds of generated ids, which no later lease uses again...
GcOwnsGenerated == GcOwns(Ids \ Named)

\* ... and it is claimed of every id.
GcOwnsAll == GcOwns(Ids)

\* A claim is final: no renew, repeated lease or gc that read the record before
\* the claim writes it back unclaimed.
ClaimIsFinal ==
  [][\A i \in Ids : leases[i] # None /\ leases[i].releasing /\ leases'[i] # None
                      => leases'[i].releasing]_vars

\* A cluster that runs has a record and an env file, both with its slot: a failed
\* `up`, a failed `down` and a kill at any point leave nothing that `release` or
\* gc could not find and tear down, except a kill inside write_text of the
\* cluster's own record, by `renew` or a repeated `lease`.
NothingLost ==
  \A i \in Running \ cut : /\ leases[i] # None /\ leases[i].slot = docker[i]
                           /\ envs[i] = docker[i]

\* "A lease is a whole cluster on its own block of ports": no two clusters run
\* on the same ports.
OwnPortBlock == \A i, j \in Running : docker[i] = docker[j] => i = j

\* When `lease` prints pd_addrs, the cluster that answers there is the lease's
\* own and no other, unless that other one has lost its record to a kill.
HandsOutOwnCluster ==
  [][\A p \in Procs :
       Ready(p) => {i \in Ids \ cut : docker[i] = run[p].slot} = {run[p].id}]_vars

\* A lease that has expired, or was claimed by a gc whose `down` failed, is
\* released or renewed, as long as somebody keeps calling gc.
Overdue(i) == leases[i] # None /\ (leases[i].exp = "past" \/ leases[i].releasing)
OverdueIsReleased == \A i \in Ids : Overdue(i) ~> ~Overdue(i)
=============================================================================
