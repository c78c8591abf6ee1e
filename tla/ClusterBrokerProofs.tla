------------------------ MODULE ClusterBrokerProofs ------------------------
(***************************************************************************)
(* Theorems about ClusterBroker, for every number of processes, ids, slots *)
(* and shapes and every set of faults.                                     *)
(***************************************************************************)
EXTENDS ClusterBroker, TLAPS


\* The constants fit the types: the empty table of leases and an idle run.
LEMMA SlotFacts == /\ 1 .. MaxLeases \subseteq Slots /\ None \notin Slots
                   /\ NoLeases \in [Ids -> Lease \union {None}]
                   /\ Idle \in Run
BY SlotAssumption, NoneAssumption, SMT DEF Slots, NoLeases, Idle, Run

\* A run stays a run when its slot, its list of claims or its id is set.
LEMMA RunFields == 
  ASSUME NEW r \in Run 
  PROVE  /\ \A s \in Slots :
              LET n == [r EXCEPT !.slot = s, !.fresh = TRUE] IN
              /\ n \in Run
              /\ n.slot = s /\ n.op = r.op /\ n.id = r.id /\ n.shape = r.shape
         /\ \A s \in Slots : [r EXCEPT !.slot = s] \in Run /\ [r EXCEPT !.slot = s].op = r.op
         /\ \A c \in SUBSET Ids : [r EXCEPT !.todo = c] \in Run
         /\ \A i \in Ids : [r EXCEPT !.id = i, !.todo = r.todo \ {i}] \in Run
BY DEF Run

\* The runs that the commands start with.
LEMMA Starts == 
  ASSUME NEW i \in Ids, NEW w \in Slots \union {None}, NEW s \in Shapes, NEW t \in {"never", "live"}
  PROVE  /\ [Idle EXCEPT !.op = "gc"] \in Run
         /\ [Idle EXCEPT !.op = "release", !.id = i] \in Run
         /\ [Idle EXCEPT !.op = "renew", !.id = i, !.ttl = t] \in Run
         /\ [Idle EXCEPT !.op = "lease", !.id = i, !.want = w, !.shape = s, !.ttl = t] \in Run
BY DEF Run, Idle

\* A record stays one when its expiry or its claim is set, which touch nothing else.
LEMMA LeaseFields ==
  ASSUME NEW l \in Lease
  PROVE  /\ \A t \in {"never", "live", "past"} :
              /\ [l EXCEPT !.exp = t] \in Lease 
              /\ [l EXCEPT !.exp = t].slot = l.slot
              /\ [l EXCEPT !.exp = t].releasing = l.releasing
         /\ [l EXCEPT !.releasing = TRUE] \in Lease 
         /\ [l EXCEPT !.releasing = TRUE].slot = l.slot
         /\ [l EXCEPT !.releasing = TRUE].releasing
BY DEF Lease

-----------------------------------------------------------------------------
(* The inductive invariant                                                   *)

\* A process that holds the lock has the arguments it is going to write.
RunOK ==
  \A p \in Procs :
    /\ pc[p] = "held" =>
         /\ run[p].op \in {"lease", "renew", "gc"}
         /\ run[p].op # "gc" => run[p].id \in Ids
         /\ run[p].op = "lease" => run[p].shape \in Shapes
    /\ pc[p] = "record" =>
         /\ run[p].op = "lease"
         /\ run[p].id \in Ids /\ run[p].shape \in Shapes /\ run[p].slot \in Slots
    /\ pc[p] \in {"up", "wait"} => run[p].op = "lease"

\* While somebody holds the lock, its snapshot covers the directory: records may
\* have disappeared since load_all, none has appeared, moved or been claimed.
SnapCovers ==
  lock # None =>
    \A i \in Held(leases) : /\ snap[i] # None
                            /\ snap[i].slot = leases[i].slot
                            /\ snap[i].releasing = leases[i].releasing

SnapUnique == \A i, j \in Held(snap) : snap[i].slot = snap[j].slot => i = j

\* The id and the slot of a lease that is being written are not in the snapshot.
NewIsNew ==
  \A p \in Procs : pc[p] = "record" =>
    /\ run[p].id \notin Held(snap)
    /\ \A i \in Held(snap) : snap[i].slot # run[p].slot

Inv == TypeOK /\ RunOK /\ SnapCovers /\ SnapUnique /\ NewIsNew /\ UniqueSlots

\* What a lease may take is a slot that nobody in the snapshot holds.
LEMMA CandidatesAreFree ==
  ASSUME TypeOK, NEW w \in Slots \union {None}, NEW s \in Candidates(w)
  PROVE  s \in Slots /\ \A i \in Held(snap) : snap[i].slot # s
BY SlotFacts DEF Candidates, Taken, Held, TypeOK

\* The invariant holds before the first command.
LEMMA InitInv == Init => Inv
BY SlotFacts, NoneAssumption
   DEF Init, Inv, TypeOK, RunOK, SnapCovers, SnapUnique, NewIsNew, UniqueSlots, Held, NoLeases

-----------------------------------------------------------------------------
(* Steps without the lock only ever delete records.                          *)

Labels == {"idle", "up", "wait", "down", "unlink_record", "unlink_env", "gc"}

\* Where p goes, with which locals, outside the lock.
Moves(p) ==
  \E label \in Labels, r \in Run :
    /\ Goto(p, label) /\ run' = [run EXCEPT ![p] = r]
    /\ label \in {"up", "wait"} => r.op = "lease"

Quiet(p) ==
  /\ pc[p] \notin {"held", "record"}
  /\ Moves(p)
  /\ leases' = leases \/ leases' = [leases EXCEPT ![run[p].id] = None]
  /\ envs' \in [Ids -> Slots \union {None}]
  /\ docker' \in [Ids -> Slots \union {None}]
  /\ cut' \subseteq Ids
  /\ UNCHANGED <<lock, snap, used>>

\* A step that leaves the lock alone, and of the records deletes at most its own,
\* keeps the invariant.
LEMMA QuietInv == ASSUME Inv, NEW p \in Procs, Quiet(p) PROVE Inv'
<1> USE DEF Inv
<1>1. TypeOK'
  BY DEF TypeOK, Quiet, Moves, Labels, Goto
<1>2. RunOK'
  BY DEF TypeOK, RunOK, Quiet, Moves, Labels, Goto
<1>3. SnapCovers'
  BY DEF TypeOK, SnapCovers, Held, Quiet
<1>4. SnapUnique'
  BY DEF SnapUnique, Held, Quiet
<1>5. NewIsNew'
  BY DEF TypeOK, NewIsNew, Held, Quiet, Moves, Labels, Goto
<1>6. UniqueSlots'
  BY DEF TypeOK, UniqueSlots, Held, Quiet
<1> QED BY <1>1, <1>2, <1>3, <1>4, <1>5, <1>6

\* The steps outside of the locked block are of that kind ...
LEMMA UnlockedIsQuiet ==
  ASSUME TypeOK, RunOK, NEW p \in Procs, Unlocked(p) \/ StartRelease(p)
  PROVE  Quiet(p)
<1> USE SlotFacts DEF Labels, Quiet, Moves, Goto
<1>0. /\ run[p] \in Run /\ run = [run EXCEPT ![p] = run[p]]
      /\ pc[p] \in {"up", "wait"} => run[p].op = "lease"
      /\ Idle.op = "idle"
  BY DEF TypeOK, RunOK, Idle
<1>1. CASE Up(p)
  BY <1>0, <1>1 DEF TypeOK, Up, BringUp
<1>2. CASE UpFails(p)
  BY <1>0, <1>2 DEF TypeOK, UpFails, BringUp, AfterFailedLease, Exit
<1>3. CASE Ready(p)
  BY <1>0, <1>3 DEF TypeOK, Ready, Exit
<1>4. CASE NotReady(p)
  BY <1>0, <1>4 DEF TypeOK, NotReady, AfterFailedLease, Exit
<1>5. CASE Down(p)
  BY <1>0, <1>5 DEF TypeOK, Down, TearDown
<1>6. CASE DownFails(p)
  BY <1>0, <1>6 DEF TypeOK, DownFails, AfterRelease, Exit
<1>7. CASE UnlinkRecord(p)
  BY <1>0, <1>7 DEF TypeOK, UnlinkRecord
<1>8. CASE UnlinkEnv(p)
  BY <1>0, <1>8 DEF TypeOK, UnlinkEnv, AfterRelease, Exit
<1>9. ASSUME NEW i \in Ids, GcNext(p, i) PROVE Quiet(p)
  <2>1. [run[p] EXCEPT !.id = i, !.todo = run[p].todo \ {i}] \in Run
    BY <1>0, RunFields
  <2>2. PICK r \in Run : run' = [run EXCEPT ![p] = r]
    BY <1>9, <2>1 DEF GcNext
  <2>3. pc[p] = "gc" /\ Goto(p, "down") /\ UNCHANGED <<leases, envs, docker, cut, lock, snap, used>>
    BY <1>9 DEF GcNext
  <2> QED BY <2>2, <2>3 DEF TypeOK
<1>10. CASE GcDone(p)
  BY <1>0, <1>10 DEF TypeOK, GcDone, Exit
<1>11. CASE StartRelease(p)
  <2>1. PICK i \in Ids : run' = [run EXCEPT ![p] = [Idle EXCEPT !.op = "release", !.id = i]]
    BY <1>11 DEF StartRelease, Held
  <2>2. [Idle EXCEPT !.op = "release", !.id = i] \in Run
    BY DEF Run, Idle
  <2> QED BY <1>11, <2>1, <2>2 DEF TypeOK, StartRelease
<1> QED BY <1>1, <1>2, <1>3, <1>4, <1>5, <1>6, <1>7, <1>8, <1>9, <1>10, <1>11 DEF Unlocked

-----------------------------------------------------------------------------
(* Taking the lock, and the steps that drop it.                              *)

Takes(p) ==
  /\ TakeLock(p)
  /\ \E r \in Run : /\ run' = [run EXCEPT ![p] = r]
                    /\ r.op \in {"lease", "renew", "gc"}
                    /\ r.op # "gc" => r.id \in Ids
                    /\ r.op = "lease" => r.shape \in Shapes
  /\ used' \subseteq Ids \ Named
  /\ UNCHANGED <<leases, envs, docker, cut>>

\* Taking the lock keeps the invariant.
LEMMA TakesInv == ASSUME Inv, NEW p \in Procs, Takes(p) PROVE Inv'
<1> USE NoneAssumption DEF Inv
<1>1. TypeOK'
  BY DEF TypeOK, Takes, TakeLock, Goto
<1>2. RunOK'
  BY DEF TypeOK, RunOK, Takes, TakeLock, Goto
<1>3. SnapCovers'
  BY DEF TypeOK, SnapCovers, Held, Takes, TakeLock
<1>4. SnapUnique'
  BY DEF TypeOK, SnapUnique, UniqueSlots, Held, Takes, TakeLock
<1>5. NewIsNew'
  BY DEF TypeOK, NewIsNew, Takes, TakeLock, Goto
<1>6. UniqueSlots'
  BY DEF UniqueSlots, Held, Takes
<1> QED BY <1>1, <1>2, <1>3, <1>4, <1>5, <1>6

\* lease, renew and gc start by taking the lock.
LEMMA StartTakes ==
  ASSUME TypeOK, NEW p \in Procs, StartLease(p) \/ StartRenew(p) \/ StartGc(p)
  PROVE  Takes(p)
<1> USE IdAssumption DEF Takes
<1>1. CASE StartLease(p)
  <2>1. PICK i \in Mine[p] \ used, w \in Slots \union {None}, s \in Shapes, t \in {"never", "live"} :
          /\ run' = [run EXCEPT ![p] = [Idle EXCEPT !.op = "lease", !.id = i, !.want = w,
                                                     !.shape = s, !.ttl = t]]
          /\ used' = used \union ({i} \ Named)
    BY <1>1 DEF StartLease
  <2> DEFINE r == [Idle EXCEPT !.op = "lease", !.id = i, !.want = w, !.shape = s, !.ttl = t]
  <2>2. i \in Ids
    OBVIOUS
  <2>3. r \in Run /\ r.op = "lease" /\ r.id = i /\ r.shape = s
    BY <2>2 DEF Run, Idle
  <2>4. used' \subseteq Ids \ Named
    BY <2>1, <2>2 DEF TypeOK
  <2> HIDE DEF r
  <2>5. run' = [run EXCEPT ![p] = r]
    BY <2>1 DEF r
  <2> QED BY <1>1, <2>2, <2>3, <2>4, <2>5 DEF StartLease
<1>2. CASE StartRenew(p)
  <2>1. PICK i \in Mine[p], t \in {"never", "live"} :
          run' = [run EXCEPT ![p] = [Idle EXCEPT !.op = "renew", !.id = i, !.ttl = t]]
    BY <1>2 DEF StartRenew
  <2> DEFINE r == [Idle EXCEPT !.op = "renew", !.id = i, !.ttl = t]
  <2>2. r \in Run /\ r.op = "renew" /\ r.id = i /\ i \in Ids
    BY DEF Run, Idle
  <2> HIDE DEF r
  <2>3. run' = [run EXCEPT ![p] = r]
    BY <2>1 DEF r
  <2> QED BY <1>2, <2>2, <2>3 DEF StartRenew, TypeOK
<1>3. CASE StartGc(p)
  <2> DEFINE r == [Idle EXCEPT !.op = "gc"]
  <2>1. r \in Run /\ r.op = "gc"
    BY DEF Run, Idle
  <2>2. run' = [run EXCEPT ![p] = r]
    BY <1>3 DEF StartGc
  <2> HIDE DEF r
  <2> QED BY <1>3, <2>1, <2>2 DEF StartGc, TypeOK
<1> QED BY <1>1, <1>2, <1>3

\* Every record that is there after such a step was in the snapshot, or is new.
Drops(p) ==
  /\ lock = p /\ Unlock(p)
  /\ Moves(p)
  /\ leases' \in [Ids -> Lease \union {None}]
  /\ \A i \in Held(leases') :
       \/ i \in Held(snap) /\ leases'[i].slot = snap[i].slot
       \/ pc[p] = "record" /\ i = run[p].id /\ leases'[i].slot = run[p].slot
  /\ envs' \in [Ids -> Slots \union {None}]
  /\ docker' \in [Ids -> Slots \union {None}]
  /\ cut' \subseteq Ids
  /\ UNCHANGED used

\* The last step of a locked block, which writes back what it read, with a slot of
\* its own, and drops the lock, keeps the invariant.
LEMMA DropsInv == ASSUME Inv, NEW p \in Procs, Drops(p) PROVE Inv'
<1> USE NoneAssumption, SlotFacts DEF Inv
<1>1. TypeOK'
  BY DEF TypeOK, Drops, Moves, Labels, Unlock, Goto
<1>2. RunOK'
  BY DEF TypeOK, RunOK, Drops, Moves, Labels, Unlock, Goto
<1>3. SnapCovers'
  BY DEF SnapCovers, Drops, Unlock
<1>4. SnapUnique'
  BY DEF SnapUnique, Held, Drops, Unlock, NoLeases
<1>5. NewIsNew'
  BY DEF TypeOK, NewIsNew, Drops, Moves, Labels, Unlock, Goto
<1>6. UniqueSlots'
  BY DEF UniqueSlots, SnapUnique, NewIsNew, Drops, Held
<1> QED BY <1>1, <1>2, <1>3, <1>4, <1>5, <1>6

\* The steps that end a locked block, by a return, a refusal or a crash.
LEMMA LockedDrops ==
  ASSUME Inv, NEW p \in Procs,
         \/ LeaseAgain(p) \/ LeaseRecord(p) \/ LeaseRefused(p)
         \/ Renew(p) \/ RenewRefused(p) \/ GcClaim(p)
         \/ TornWrite(p) \/ (Crash(p) /\ lock = p)
  PROVE  Drops(p)
<1> USE NoneAssumption, SlotFacts DEF Drops, Moves, Labels, Goto, Exit
<1>0. /\ run[p] \in Run /\ run = [run EXCEPT ![p] = run[p]]
      /\ pc[p] \in {"held", "record"} => lock = p
      /\ leases \in [Ids -> Lease \union {None}] /\ snap \in [Ids -> Lease \union {None}]
      /\ \A i \in Held(snap) : snap[i] \in Lease
      /\ envs \in [Ids -> Slots \union {None}] /\ docker \in [Ids -> Slots \union {None}]
      /\ cut \subseteq Ids
  BY DEF Inv, TypeOK, Held
<1>1. \A i \in Held(leases) : lock = p => i \in Held(snap) /\ leases[i].slot = snap[i].slot
  BY DEF Inv, SnapCovers, Held
<1>2. CASE LeaseAgain(p)
  <2>1. run[p].id \in Held(snap) /\ run[p].ttl \in {"never", "live"}
    BY <1>0, <1>2 DEF LeaseAgain, Inv, RunOK, Held, Run
  <2> DEFINE l == [snap[run[p].id] EXCEPT !.exp = run[p].ttl]
  <2>2. l \in Lease /\ l.slot = snap[run[p].id].slot /\ snap[run[p].id].slot \in Slots
    BY <1>0, <2>1, LeaseFields DEF Lease
  <2>3. \E r \in Run : run' = [run EXCEPT ![p] = r] /\ r.op = "lease"
    <3> DEFINE r == [run[p] EXCEPT !.slot = snap[run[p].id].slot]
    <3>1. r \in Run /\ r.op = "lease"
      BY <1>0, <1>2, <2>2, RunFields DEF LeaseAgain
    <3>2. run' = [run EXCEPT ![p] = r]
      BY <1>2 DEF LeaseAgain
    <3> HIDE DEF r
    <3> QED BY <3>1, <3>2
  <2>4. leases' = [leases EXCEPT ![run[p].id] = l]
    BY <1>2 DEF LeaseAgain
  <2>5. lock = p /\ Unlock(p) /\ Goto(p, "up") /\ UNCHANGED <<envs, docker, cut, used>>
    BY <1>0, <1>2 DEF LeaseAgain
  <2> HIDE DEF l
  <2> QED BY <1>0, <1>1, <2>1, <2>2, <2>3, <2>4, <2>5 DEF Held
<1>3. CASE LeaseRecord(p)
  <2> DEFINE l == [slot |-> run[p].slot, shape |-> run[p].shape, exp |-> run[p].ttl, releasing |-> FALSE]
  <2>1. l \in Lease /\ l.slot = run[p].slot
    BY <1>0, <1>3 DEF LeaseRecord, Inv, RunOK, Lease, Run
  <2>2. leases' = [leases EXCEPT ![run[p].id] = l]
    BY <1>3 DEF LeaseRecord
  <2>3. pc[p] = "record" /\ Unlock(p) /\ Goto(p, "up") /\ UNCHANGED <<envs, docker, cut, used, run>>
    BY <1>3 DEF LeaseRecord
  <2>4. run[p].op = "lease"
    BY <2>3 DEF Inv, RunOK
  <2> HIDE DEF l
  <2> QED BY <1>0, <1>1, <2>1, <2>2, <2>3, <2>4 DEF Held
<1>4. CASE LeaseRefused(p)
  BY <1>0, <1>1, <1>4 DEF LeaseRefused, Refuse
<1>5. CASE Renew(p)
  <2>1. run[p].id \in Held(snap) /\ run[p].ttl \in {"never", "live"}
    BY <1>0, <1>5 DEF Renew, Inv, RunOK, Held, Run
  <2> DEFINE l == [snap[run[p].id] EXCEPT !.exp = run[p].ttl]
  <2>2. l \in Lease /\ l.slot = snap[run[p].id].slot
    BY <1>0, <2>1, LeaseFields
  <2>3. leases' = [leases EXCEPT ![run[p].id] = l]
    BY <1>5 DEF Renew
  <2>4. /\ lock = p /\ Unlock(p) /\ Goto(p, "idle") /\ UNCHANGED <<envs, docker, cut, used>>
        /\ run' = [run EXCEPT ![p] = Idle]
    BY <1>0, <1>5 DEF Renew
  <2> HIDE DEF l
  <2>5. leases' \in [Ids -> Lease \union {None}]
    BY <1>0, <2>2, <2>3
  <2>6. \A i \in Held(leases') : i \in Held(snap) /\ leases'[i].slot = snap[i].slot
    BY <1>0, <1>1, <2>1, <2>2, <2>3, <2>4 DEF Held
  <2> QED BY <1>0, <2>4, <2>5, <2>6
<1>6. CASE RenewRefused(p)
  BY <1>0, <1>1, <1>6 DEF RenewRefused, Refuse
<1>7. CASE GcClaim(p)
  <2> DEFINE l(i) == [snap[i] EXCEPT !.releasing = TRUE]
             claim == Claimable(snap)
  <2>1. claim \subseteq Held(snap)
    BY DEF Claimable, Held
  <2>2. \A i \in Held(snap) : l(i) \in Lease /\ l(i).slot = snap[i].slot
    BY <1>0, LeaseFields
  <2>3. leases' = [i \in Ids |-> IF i \in claim THEN l(i) ELSE leases[i]]
    BY <1>7 DEF GcClaim
  <2>4. [run[p] EXCEPT !.todo = claim] \in Run
    BY <1>0, <2>1, RunFields DEF Held
  <2>5. Unlock(p) /\ Goto(p, "gc") /\ lock = p /\ UNCHANGED <<envs, docker, cut, used>>
        /\ run' = [run EXCEPT ![p] = [run[p] EXCEPT !.todo = claim]]
    BY <1>0, <1>7 DEF GcClaim
  <2> HIDE DEF l, claim
  <2>6. leases' \in [Ids -> Lease \union {None}]
    BY <1>0, <2>1, <2>2, <2>3 DEF Held
  <2>7. \A i \in Held(leases') : i \in Held(snap) /\ leases'[i].slot = snap[i].slot
    BY <1>1, <2>1, <2>2, <2>3, <2>5 DEF Held
  <2> QED BY <1>0, <2>4, <2>5, <2>6, <2>7
<1>8. CASE TornWrite(p)
  <2> DEFINE l(i) == [snap[i] EXCEPT !.releasing = TRUE]
  <2>1. Rewritten(p) \subseteq Held(snap)
    BY <1>0, <1>8 DEF Rewritten, Claimable, Held, TornWrite, Inv, RunOK
  <2>2. \A i \in Held(snap) : l(i) \in Lease /\ l(i).slot = snap[i].slot
    BY <1>0, LeaseFields
  <2>3. /\ Unlock(p) /\ Goto(p, "idle") /\ lock = p /\ UNCHANGED <<docker, used>>
        /\ run' = [run EXCEPT ![p] = Idle] /\ Idle \in Run
        /\ docker' \in [Ids -> Slots \union {None}]
    BY <1>0, <1>8 DEF TornWrite
  <2>4. CASE TornRecord(p)
    <3>1. PICK i \in Rewritten(p) : \E done \in SUBSET (Rewritten(p) \ {i}) :
            leases' = [j \in Ids |-> IF j = i THEN None
                                     ELSE IF j \in done THEN l(j) ELSE leases[j]]
      BY <2>4 DEF TornRecord
    <3>2. PICK done \in SUBSET (Rewritten(p) \ {i}) :
            leases' = [j \in Ids |-> IF j = i THEN None
                                     ELSE IF j \in done THEN l(j) ELSE leases[j]]
      BY <3>1
    <3>3. /\ envs' \in [Ids -> Slots \union {None}] /\ cut' \subseteq Ids
      BY <1>0, <2>4 DEF TornRecord, Running
    <3> HIDE DEF l
    <3>4. leases' \in [Ids -> Lease \union {None}]
      BY <1>0, <2>1, <2>2, <3>2 DEF Held
    <3>5. \A j \in Held(leases') : j \in Held(snap) /\ leases'[j].slot = snap[j].slot
      BY <1>1, <2>1, <2>2, <2>3, <3>2 DEF Held
    <3> QED BY <2>3, <3>3, <3>4, <3>5
  <2>5. CASE TornEnv(p)
    <3>1. UNCHANGED <<leases, cut>> /\ envs' \in [Ids -> Slots \union {None}]
      BY <1>0, <2>5 DEF TornEnv
    <3> QED BY <1>0, <1>1, <2>3, <3>1
  <2> QED BY <1>8, <2>4, <2>5 DEF TornWrite
<1>9. CASE Crash(p) /\ lock = p
  <2>1. pc[p] \notin {"up", "down"}
    BY <1>9 DEF Inv, TypeOK
  <2> QED BY <1>0, <1>1, <1>9, <2>1 DEF Crash
<1> QED BY <1>2, <1>3, <1>4, <1>5, <1>6, <1>7, <1>8, <1>9

-----------------------------------------------------------------------------
(* The steps that are neither                                                *)

\* The write of the env file keeps the invariant.
LEMMA LeaseEnvInv == ASSUME Inv, NEW p \in Procs, LeaseEnv(p) PROVE Inv'
<1> USE NoneAssumption DEF Inv
<1>1. PICK s \in Candidates(run[p].want) :
         /\ envs' = [envs EXCEPT ![run[p].id] = s]
         /\ run' = [run EXCEPT ![p] = [run[p] EXCEPT !.slot = s, !.fresh = TRUE]]
  BY DEF LeaseEnv
<1>2. s \in Slots /\ \A i \in Held(snap) : snap[i].slot # s
  BY CandidatesAreFree DEF TypeOK, Run, Held
<1> DEFINE r == [run[p] EXCEPT !.slot = s, !.fresh = TRUE]
<1>3. /\ r \in Run /\ r.slot = s /\ r.op = "lease"
      /\ r.id = run[p].id /\ r.id \in Ids /\ r.shape = run[p].shape /\ r.shape \in Shapes
  <2>1. run[p] \in Run
    BY DEF TypeOK
  <2>2. run[p].op = "lease" /\ run[p].id \in Ids /\ run[p].shape \in Shapes
    BY DEF LeaseEnv, RunOK
  <2> QED BY <1>2, <2>1, <2>2, RunFields
<1>4. /\ run' = [run EXCEPT ![p] = r] /\ pc' = [pc EXCEPT ![p] = "record"]
      /\ pc[p] = "held" /\ snap[r.id] = None
      /\ UNCHANGED <<leases, docker, cut, lock, snap, used>>
  BY <1>1, <1>3 DEF LeaseEnv, Goto
<1> HIDE DEF r
<1>5. TypeOK'
  BY <1>1, <1>2, <1>3, <1>4 DEF TypeOK
<1>6. RunOK'
  BY <1>2, <1>3, <1>4 DEF TypeOK, RunOK
<1>7. SnapCovers' /\ SnapUnique' /\ UniqueSlots'
  BY <1>4 DEF SnapCovers, SnapUnique, UniqueSlots, Held
<1>8. NewIsNew'
  BY <1>2, <1>3, <1>4 DEF TypeOK, NewIsNew, Held
<1> QED BY <1>5, <1>6, <1>7, <1>8

\* The passing of a lease's time keeps the invariant.
LEMMA ExpireInv == ASSUME Inv, NEW i \in Ids, Expire(i) PROVE Inv'
<1> USE NoneAssumption DEF Inv
<1> DEFINE l == [leases[i] EXCEPT !.exp = "past"]
<1>1. l \in Lease /\ l.slot = leases[i].slot /\ l.releasing = leases[i].releasing
  <2>1. leases[i] \in Lease
    BY DEF Expire, TypeOK
  <2> QED BY <2>1, LeaseFields
<1>2. /\ leases' = [leases EXCEPT ![i] = l] /\ leases[i] # None
      /\ UNCHANGED <<envs, docker, cut, lock, snap, used, pc, run>>
  BY DEF Expire
<1> HIDE DEF l
<1>3. TypeOK' /\ RunOK' /\ SnapUnique' /\ NewIsNew'
  BY <1>1, <1>2 DEF TypeOK, RunOK, SnapUnique, NewIsNew, Held
<1>4. SnapCovers' /\ UniqueSlots'
  BY <1>1, <1>2 DEF TypeOK, SnapCovers, UniqueSlots, Held
<1> QED BY <1>3, <1>4

\* ... and so is a crash there.
LEMMA CrashIsQuiet ==
  ASSUME TypeOK, NEW p \in Procs, Crash(p), lock # p
  PROVE  Quiet(p)
<1>1. /\ docker' \in [Ids -> Slots \union {None}] /\ cut' \subseteq Ids
  BY DEF TypeOK, Crash, BringUp, TearDown
<1> QED BY <1>1, SlotFacts DEF TypeOK, Crash, Quiet, Moves, Exit, Goto, Labels

-----------------------------------------------------------------------------

\* Every step of every process keeps the invariant.
LEMMA NextInv == Inv /\ [Next]_vars => Inv'
<1> SUFFICES ASSUME Inv, [Next]_vars PROVE Inv'
  OBVIOUS
<1>0. TypeOK /\ RunOK
  BY DEF Inv
<1>1. ASSUME NEW p \in Procs, Start(p) PROVE Inv'
  BY <1>0, <1>1, StartTakes, TakesInv, UnlockedIsQuiet, QuietInv DEF Start
<1>2. ASSUME NEW p \in Procs, Locked(p) PROVE Inv'
  BY <1>2, LockedDrops, DropsInv, LeaseEnvInv DEF Locked
<1>3. ASSUME NEW p \in Procs, Unlocked(p) PROVE Inv'
  BY <1>0, <1>3, UnlockedIsQuiet, QuietInv
<1>4. ASSUME NEW p \in Procs, Crash(p) PROVE Inv'
  BY <1>0, <1>4, CrashIsQuiet, QuietInv, LockedDrops, DropsInv
<1>5. ASSUME NEW p \in Procs, TornWrite(p) PROVE Inv'
  BY <1>5, LockedDrops, DropsInv
<1>6. ASSUME NEW i \in Ids, Expire(i) PROVE Inv'
  BY <1>6, ExpireInv
<1>7. CASE UNCHANGED vars
  BY <1>7 DEF vars, Inv, TypeOK, RunOK, SnapCovers, SnapUnique, NewIsNew, UniqueSlots, Held
<1> QED BY <1>1, <1>2, <1>3, <1>4, <1>5, <1>6, <1>7 DEF Next

\* The values of the variables keep their shapes, and a process holds broker.lock
\* exactly inside its `with locked()` block.
THEOREM TypeCorrect == Spec => []TypeOK
<1>1. Inv => TypeOK
  BY DEF Inv
<1> QED BY <1>1, InitInv, NextInv, PTL DEF Spec

\* Whatever the commands of any number of processes do to any ids, with crashes,
\* torn writes and failures of Docker, two records never hold the same slot.
THEOREM SlotsAreUnique == Spec => []UniqueSlots
<1>1. Inv => UniqueSlots
  BY DEF Inv
<1> QED BY <1>1, InitInv, NextInv, PTL DEF Spec

-----------------------------------------------------------------------------
(* Claims.  A record that is written back comes from the snapshot, and the   *)
(* snapshot knows of every claim.                                            *)

\* What is written under the lock is claimed if the snapshot says so.
WritesKeepClaims(p) ==
  \A i \in Held(leases') :
    \/ i \in Held(leases) /\ leases'[i].releasing = leases[i].releasing
    \/ leases'[i].releasing
    \/ i \in Held(snap) /\ ~snap[i].releasing
    \/ pc[p] = "record" /\ i = run[p].id

\* No step of a process takes a claim off a record, and only the holder of the lock writes records.
LEMMA StepKeepsClaims ==
  ASSUME Inv, NEW p \in Procs,
         Start(p) \/ Locked(p) \/ Unlocked(p) \/ Crash(p) \/ TornWrite(p)
  PROVE  WritesKeepClaims(p) /\ (leases' # leases => lock = p \/ pc[p] = "unlink_record")
<1> USE NoneAssumption DEF Inv
<1>0. /\ pc[p] \in {"held", "record"} => lock = p
      /\ leases \in [Ids -> Lease \union {None}] /\ snap \in [Ids -> Lease \union {None}]
      /\ \A i \in Held(snap) : snap[i] \in Lease
  BY DEF TypeOK, Held
<1>1. CASE leases' = leases
  BY <1>1 DEF WritesKeepClaims, Held
<1>2. CASE UnlinkRecord(p)
  BY <1>0, <1>2 DEF UnlinkRecord, WritesKeepClaims, Held
<1>3. CASE LeaseAgain(p) \/ Renew(p)
  <2> DEFINE l == [snap[run[p].id] EXCEPT !.exp = run[p].ttl]
  <2>1. run[p].id \in Held(snap) /\ run[p].ttl \in {"never", "live"} /\ pc[p] = "held"
    BY <1>3 DEF LeaseAgain, Renew, RunOK, TypeOK, Held, Run
  <2>2. l.releasing = snap[run[p].id].releasing /\ l \in Lease
    BY <1>0, <2>1, LeaseFields
  <2>3. ~snap[run[p].id].releasing
    BY <1>3 DEF LeaseAgain, Matches, Renew
  <2>4. leases' = [leases EXCEPT ![run[p].id] = l]
    BY <1>3 DEF LeaseAgain, Renew
  <2> HIDE DEF l
  <2> QED BY <1>0, <2>1, <2>2, <2>3, <2>4 DEF WritesKeepClaims, Held
<1>4. CASE LeaseRecord(p)
  <2>1. \A i \in Ids : i # run[p].id => leases'[i] = leases[i]
    BY <1>0, <1>4 DEF LeaseRecord
  <2>2. pc[p] = "record"
    BY <1>4 DEF LeaseRecord
  <2> QED BY <1>0, <2>1, <2>2 DEF WritesKeepClaims, Held
<1>5. CASE GcClaim(p)
  <2> DEFINE l(i) == [snap[i] EXCEPT !.releasing = TRUE]
  <2>1. \A i \in Held(snap) : l(i).releasing
    BY <1>0, LeaseFields
  <2>2. /\ leases' = [i \in Ids |-> IF i \in Claimable(snap) THEN l(i) ELSE leases[i]]
        /\ pc[p] = "held"
    BY <1>5 DEF GcClaim
  <2>3. Claimable(snap) \subseteq Held(snap)
    BY DEF Claimable
  <2> HIDE DEF l
  <2> QED BY <1>0, <2>1, <2>2, <2>3 DEF WritesKeepClaims, Held
<1>6. CASE TornWrite(p) /\ TornRecord(p)
  <2> DEFINE l(i) == [snap[i] EXCEPT !.releasing = TRUE]
  <2>1. \A i \in Held(snap) : l(i).releasing
    BY <1>0, LeaseFields
  <2>2. pc[p] = "held"
    BY <1>6 DEF TornWrite
  <2>3. Rewritten(p) \subseteq Held(snap)
    BY <2>2 DEF Rewritten, Claimable, RunOK
  <2>4. PICK i \in Rewritten(p) : \E done \in SUBSET (Rewritten(p) \ {i}) :
          leases' = [j \in Ids |-> IF j = i THEN None
                                   ELSE IF j \in done THEN l(j) ELSE leases[j]]
    BY <1>6 DEF TornRecord
  <2>5. PICK done \in SUBSET (Rewritten(p) \ {i}) :
          leases' = [j \in Ids |-> IF j = i THEN None
                                   ELSE IF j \in done THEN l(j) ELSE leases[j]]
    BY <2>4
  <2> HIDE DEF l
  <2> QED BY <1>0, <2>1, <2>2, <2>3, <2>5 DEF WritesKeepClaims, Held
<1>7. ASSUME NEW i \in Ids, GcNext(p, i) PROVE leases' = leases
  BY <1>7 DEF GcNext
<1> QED
  BY <1>1, <1>2, <1>3, <1>4, <1>5, <1>6, <1>7
  DEF Start, StartLease, StartRelease, StartRenew, StartGc, Locked, LeaseEnv, LeaseRefused,
      RenewRefused, Refuse, Unlocked, Up, UpFails, Ready, NotReady, Down, DownFails, UnlinkEnv,
      GcDone, Crash, TornWrite, TornEnv

\* The passing of time touches no claim.
LEMMA ExpireKeepsClaims ==
  ASSUME TypeOK, NEW i \in Ids, Expire(i)
  PROVE  \A j \in Held(leases') : j \in Held(leases) /\ leases'[j].releasing = leases[j].releasing
<1> USE NoneAssumption
<1> DEFINE l == [leases[i] EXCEPT !.exp = "past"]
<1>1. l.releasing = leases[i].releasing
  BY LeaseFields DEF Expire, TypeOK
<1>2. leases' = [leases EXCEPT ![i] = l] /\ leases[i] # None
  BY DEF Expire
<1> HIDE DEF l
<1> QED BY <1>1, <1>2 DEF TypeOK, Held

\* A claim can be dropped with the record and not otherwise: no command that read
\* the record before the claim can write it back unclaimed.
THEOREM ClaimsAreFinal == Spec => ClaimIsFinal
<1>1. Inv /\ [Next]_vars =>
        [\A i \in Ids : leases[i] # None /\ leases[i].releasing /\ leases'[i] # None
                          => leases'[i].releasing]_vars
  <2> SUFFICES ASSUME Inv, Next, NEW i \in Ids,
                      leases[i] # None, leases[i].releasing, leases'[i] # None
               PROVE  leases'[i].releasing
    OBVIOUS
  <2>1. ASSUME NEW p \in Procs,
               Start(p) \/ Locked(p) \/ Unlocked(p) \/ Crash(p) \/ TornWrite(p)
        PROVE  leases'[i].releasing
    <3>1. i \in Held(leases) /\ i \in Held(leases')
      BY DEF Held
    <3>2. WritesKeepClaims(p) /\ (leases' # leases => lock = p \/ pc[p] = "unlink_record")
      BY <2>1, StepKeepsClaims
    <3>3. CASE leases' = leases
      BY <3>3
    <3>4. CASE lock = p
      <4>0. snap[i] # None /\ snap[i].releasing = leases[i].releasing
        BY <3>1, <3>4, NoneAssumption DEF Inv, SnapCovers
      <4>1. i \in Held(snap) /\ snap[i].releasing
        BY <4>0 DEF Held
      <4>2. pc[p] = "record" => run[p].id # i
        BY <4>1 DEF Inv, NewIsNew
      <4> QED BY <3>1, <3>2, <4>1, <4>2 DEF WritesKeepClaims
    <3>5. CASE pc[p] = "unlink_record"
      <4>1. leases' = leases \/ leases' = [leases EXCEPT ![run[p].id] = None]
        BY <2>1, <3>5, NoneAssumption DEF Start, StartLease, StartRelease, StartRenew, StartGc, 
           Locked, LeaseAgain, LeaseEnv, LeaseRecord, LeaseRefused, Renew, RenewRefused, GcClaim,
           Unlocked, Up, UpFails, Ready, NotReady, Down, DownFails, UnlinkRecord, UnlinkEnv,
           GcNext, GcDone, Crash, TornWrite
      <4> QED BY <4>1 DEF Inv, TypeOK
    <3> QED BY <3>2, <3>3, <3>4, <3>5
  <2>2. ASSUME NEW j \in Ids, Expire(j) PROVE leases'[i].releasing
    BY <2>2, ExpireKeepsClaims DEF Inv, Held
  <2> QED BY <2>1, <2>2 DEF Next
<1> QED BY <1>1, InitInv, NextInv, PTL DEF Spec, ClaimIsFinal

-----------------------------------------------------------------------------
(* What a gc tears down.  Inv does not suffice: a record that a new lease    *)
(* writes must not fall into the hands of a gc that claimed an earlier lease *)
(* of that id.  A generated id is marked used before its record is written,  *)
(* and only records of used ids are ever claimed.                            *)

\* The snapshot knows of every claim on a generated id.
SnapKnowsClaims ==
  \A q \in Procs : \A i \in ClaimOf(q) \ Named : i \in Held(snap) => snap[i].releasing

\* Records and claims of generated ids are of ids that were generated.
UsedFirst ==
  \A i \in Ids \ Named :
    (i \in Held(leases) \/ i \in Held(snap) \/ \E q \in Procs : i \in ClaimOf(q)) => i \in used

\* Nobody knows the generated id of a lease whose record is not written yet.
FreshIsUnknown ==
  \A p \in Procs :
    pc[p] \in {"held", "record"} /\ run[p].op = "lease" /\ run[p].id \notin Named =>
      /\ run[p].id \in used
      /\ run[p].id \notin Held(leases)
      /\ run[p].id \notin Held(snap)
      /\ \A q \in Procs : run[p].id \notin ClaimOf(q)

GcInv == Inv /\ GcOwnsGenerated /\ SnapKnowsClaims /\ UsedFirst /\ FreshIsUnknown

\* No gc is under way at first.
LEMMA GcInit == Init => GcInv
<1> SUFFICES ASSUME Init PROVE GcInv
  OBVIOUS
<1>1. \A q \in Procs : ClaimOf(q) = {}
  BY DEF Init, ClaimOf, Idle
<1>2. Held(leases) = {} /\ Held(snap) = {}
  BY DEF Init, NoLeases, Held
<1>3. \A q \in Procs : pc[q] = "idle"
  BY DEF Init
<1> QED BY <1>1, <1>2, <1>3, InitInv
        DEF GcInv, GcOwnsGenerated, GcOwns, SnapKnowsClaims, UsedFirst, FreshIsUnknown

\* Only GcClaim adds to what a gc has claimed.
LEMMA ClaimsShrink ==
  ASSUME Inv, NEW p \in Procs,
         Start(p) \/ Locked(p) \/ Unlocked(p) \/ Crash(p) \/ TornWrite(p),
         ~GcClaim(p),
         NEW q \in Procs
  PROVE  ClaimOf(q)' \subseteq ClaimOf(q)
<1> USE DEF Goto, Inv
<1>0. /\ run[p] \in Run /\ run \in [Procs -> Run]
      /\ pc \in [Procs -> {"idle", "held", "record", "up", "wait", "down",
                           "unlink_record", "unlink_env", "gc"}]
      /\ pc[p] \in {"up", "wait", "record"} => run[p].op = "lease"
  BY DEF TypeOK, RunOK
<1>1. ASSUME NEW r \in Run, NEW label, q # p,
             run' = [run EXCEPT ![p] = r], pc' = [pc EXCEPT ![p] = label]
      PROVE  ClaimOf(q)' = ClaimOf(q)
  BY <1>0, <1>1 DEF ClaimOf
<1>2. ASSUME NEW r \in Run, r.op # "gc", run' = [run EXCEPT ![p] = r]
      PROVE  ClaimOf(p)' = {}
  BY <1>0, <1>2 DEF ClaimOf
<1>3. CASE q # p
  <2>1. \E label \in Labels \union {"held", "record"}, r \in Run : Goto(p, label) /\ run' = [run EXCEPT ![p] = r]
    <3>1. CASE StartLease(p) \/ StartRenew(p) \/ StartGc(p)
      <4>1. Takes(p)
        BY <3>1, StartTakes
      <4> QED BY <4>1 DEF Takes, TakeLock
    <3>2. CASE Unlocked(p) \/ StartRelease(p)
      <4>1. Quiet(p)
        BY <3>2, UnlockedIsQuiet
      <4> QED BY <4>1 DEF Quiet, Moves
    <3>3. CASE LeaseEnv(p)
      <4>1. PICK s \in Candidates(run[p].want) :
               run' = [run EXCEPT ![p] = [run[p] EXCEPT !.slot = s, !.fresh = TRUE]]
        BY <3>3 DEF LeaseEnv
      <4>2. s \in Slots
        BY <1>0, CandidatesAreFree DEF Run
      <4>3. [run[p] EXCEPT !.slot = s, !.fresh = TRUE] \in Run
        BY <1>0, <4>2, RunFields
      <4> QED BY <3>3, <4>1, <4>3 DEF LeaseEnv
    <3>4. CASE Crash(p) /\ lock # p
      <4>1. Quiet(p)
        BY <3>4, CrashIsQuiet
      <4> QED BY <4>1 DEF Quiet, Moves
    <3>5. CASE Drops(p)
      BY <3>5 DEF Drops, Moves
    <3> QED BY <3>1, <3>2, <3>3, <3>4, <3>5, LockedDrops DEF Start, Locked
  <2> QED BY <1>1, <1>3, <2>1
<1>4. CASE q = p
  <2>1. CASE StartGc(p)
    <3>1. run'[p] = [Idle EXCEPT !.op = "gc"] /\ pc'[p] = "held"
      BY <1>0, <2>1 DEF StartGc, TakeLock
    <3>2. run'[p].todo = {}
      BY <3>1 DEF Idle
    <3> QED BY <1>4, <3>1, <3>2 DEF ClaimOf
  <2>2. CASE \/ StartLease(p) \/ StartRenew(p) \/ StartRelease(p)
    <3>0. ASSUME NEW i, NEW w, NEW s, NEW t
          PROVE  /\ [Idle EXCEPT !.op = "release", !.id = i].op = "release"
                 /\ [Idle EXCEPT !.op = "renew", !.id = i, !.ttl = t].op = "renew"
                 /\ [Idle EXCEPT !.op = "lease", !.id = i, !.want = w, !.shape = s,
                                 !.ttl = t].op = "lease"
      BY DEF Idle
    <3>a. ASSUME StartLease(p) PROVE run'[p].op = "lease"
      <4>1. PICK i \in Mine[p] \ used, w \in Slots \union {None}, s \in Shapes, t \in {"never", "live"} :
              run' = [run EXCEPT ![p] = [Idle EXCEPT !.op = "lease", !.id = i, !.want = w,
                                                     !.shape = s, !.ttl = t]]
        BY <3>a DEF StartLease
      <4> QED BY <1>0, <3>0, <4>1
    <3>b. ASSUME StartRenew(p) PROVE run'[p].op = "renew"
      <4>1. PICK i \in Mine[p], t \in {"never", "live"} :
              run' = [run EXCEPT ![p] = [Idle EXCEPT !.op = "renew", !.id = i, !.ttl = t]]
        BY <3>b DEF StartRenew
      <4> QED BY <1>0, <3>0, <4>1
    <3>c. ASSUME StartRelease(p) PROVE run'[p].op = "release"
      <4>1. PICK i \in Mine[p] \intersect Held(leases) :
              run' = [run EXCEPT ![p] = [Idle EXCEPT !.op = "release", !.id = i]]
        BY <3>c DEF StartRelease
      <4> QED BY <1>0, <3>0, <4>1
    <3>1. run'[p].op \in {"lease", "renew", "release"}
      BY <2>2, <3>a, <3>b, <3>c
    <3> QED BY <1>4, <3>1 DEF ClaimOf
  <2>3. CASE run' = [run EXCEPT ![p] = Idle]
    BY <1>2, <1>4, <2>3, SlotFacts DEF Idle
  <2>4. CASE LeaseAgain(p) \/ LeaseEnv(p)
    <3>1. \E s : \/ run'[p] = [run[p] EXCEPT !.slot = s]
                 \/ run'[p] = [run[p] EXCEPT !.slot = s, !.fresh = TRUE]
      BY <1>0, <2>4 DEF LeaseAgain, LeaseEnv
    <3>2. run'[p].op = run[p].op /\ run[p].op = "lease"
      BY <1>0, <2>4, <3>1 DEF LeaseAgain, LeaseEnv, Run
    <3> QED BY <1>4, <3>2 DEF ClaimOf
  <2>5. CASE UNCHANGED run /\ run[p].op = "lease"
    BY <1>4, <2>5 DEF ClaimOf
  <2>6. CASE Down(p) \/ UnlinkRecord(p)
    BY <1>0, <1>4, <2>6 DEF ClaimOf, Down, UnlinkRecord
  <2>7. CASE UNCHANGED run /\ Goto(p, "gc")
    BY <1>0, <1>4, <2>7 DEF ClaimOf
  <2>8. ASSUME NEW i \in Ids, GcNext(p, i) PROVE ClaimOf(p)' \subseteq ClaimOf(p)
    <3> DEFINE r == [run[p] EXCEPT !.id = i, !.todo = run[p].todo \ {i}]
    <3>1. r.id = i /\ r.todo = run[p].todo \ {i} /\ r.op = run[p].op
      BY <1>0 DEF Run
    <3>2. run'[p] = r /\ i \in run[p].todo
      BY <1>0, <2>8 DEF GcNext
    <3> HIDE DEF r
    <3> QED BY <3>1, <3>2 DEF ClaimOf
  <2> QED
    BY <1>0, <1>4, <2>1, <2>2, <2>3, <2>4, <2>5, <2>6, <2>7, <2>8
    DEF Start, Locked, LeaseRecord, LeaseRefused, Renew, RenewRefused, Refuse, Exit, Unlocked,
        Up, UpFails, AfterFailedLease, Ready, NotReady, DownFails, AfterRelease, UnlinkEnv, GcDone,
        Crash, TornWrite
<1> QED BY <1>3, <1>4

\* What a gc claims is marked when it lets go of the lock.
LEMMA ClaimsMark ==
  ASSUME Inv, NEW p \in Procs, GcClaim(p)
  PROVE  /\ lock = p /\ Held(snap') = {}
         /\ \A q \in Procs \ {p} : ClaimOf(q)' = ClaimOf(q)
         /\ ClaimOf(p)' \subseteq Held(snap)
         /\ \A i \in ClaimOf(p)' : leases'[i].releasing
         /\ Held(leases') \subseteq Held(leases) \union Held(snap)
         /\ \A i \in Held(leases') : leases'[i].releasing \/ leases'[i] = leases[i]
<1> USE NoneAssumption DEF Inv
<1> DEFINE l(i) == [snap[i] EXCEPT !.releasing = TRUE]
           claim == Claimable(snap)
<1>1. /\ claim \subseteq Held(snap) /\ snap \in [Ids -> Lease \union {None}]
      /\ \A i \in Held(snap) : snap[i] \in Lease
      /\ run[p] \in Run /\ run \in [Procs -> Run]
      /\ pc \in [Procs -> {"idle", "held", "record", "up", "wait", "down",
                           "unlink_record", "unlink_env", "gc"}]
  BY DEF Claimable, Held, TypeOK
<1>2. \A i \in Held(snap) : l(i) \in Lease /\ l(i).releasing
  BY <1>1, LeaseFields
<1>3. leases' = [i \in Ids |-> IF i \in claim THEN l(i) ELSE leases[i]]
  BY DEF GcClaim
<1>4. [run[p] EXCEPT !.todo = claim].todo = claim
  BY <1>1 DEF Run
<1>5. /\ run' = [run EXCEPT ![p] = [run[p] EXCEPT !.todo = claim]]
      /\ pc' = [pc EXCEPT ![p] = "gc"] /\ snap' = NoLeases /\ lock = p
  BY DEF GcClaim, Goto, Unlock, TypeOK
<1> HIDE DEF l, claim
<1>6. ClaimOf(p)' \subseteq claim
  BY <1>1, <1>4, <1>5 DEF ClaimOf
<1>7. \A q \in Procs \ {p} : ClaimOf(q)' = ClaimOf(q)
  BY <1>1, <1>5 DEF ClaimOf
<1>8. \A i \in claim : leases'[i].releasing
  BY <1>1, <1>2, <1>3 DEF Held
<1>9. Held(leases') \subseteq Held(leases) \union Held(snap)
  BY <1>1, <1>3 DEF Held
<1>10. \A i \in Held(leases') : leases'[i].releasing \/ leases'[i] = leases[i]
  BY <1>3, <1>8 DEF Held
<1> QED BY <1>1, <1>5, <1>6, <1>7, <1>8, <1>9, <1>10 DEF Held, NoLeases

\* A command that starts has claimed nothing yet, and a new id is unused.
LEMMA GcStart ==
  ASSUME GcInv, Inv', NEW p \in Procs, StartLease(p) \/ StartRenew(p) \/ StartGc(p)
  PROVE  GcInv'
<1> USE DEF GcInv
<1>1. \A q \in Procs : ClaimOf(q)' \subseteq ClaimOf(q)
  BY ClaimsShrink DEF Start, StartLease, StartRenew, StartGc, GcClaim
<1>2. lock = None /\ snap' = leases /\ leases' = leases /\ pc' = [pc EXCEPT ![p] = "held"]
  BY DEF StartLease, StartRenew, StartGc, TakeLock, Goto
<1>3. \A q \in Procs : pc[q] \notin {"held", "record"}
  BY <1>2, NoneAssumption DEF Inv, TypeOK
<1>4. used \subseteq used'
  BY DEF StartLease, StartRenew, StartGc
<1>5. GcOwnsGenerated' /\ SnapKnowsClaims'
  BY <1>1, <1>2 DEF GcOwnsGenerated, GcOwns, SnapKnowsClaims, Held
<1>6. UsedFirst'
  BY <1>1, <1>2, <1>4 DEF UsedFirst, Held
<1>7. FreshIsUnknown'
  <2> SUFFICES ASSUME NEW q \in Procs, pc'[q] \in {"held", "record"},
                      run'[q].op = "lease", run'[q].id \notin Named
               PROVE  /\ run'[q].id \in used'
                      /\ run'[q].id \notin Held(leases) /\ run'[q].id \notin Held(snap')
                      /\ \A z \in Procs : run'[q].id \notin ClaimOf(z)'
    BY <1>2 DEF FreshIsUnknown, Held
  <2>1. q = p
    BY <1>2, <1>3 DEF Inv, TypeOK
  <2>2. StartLease(p)
    <3>1. ASSUME NEW i, NEW t
          PROVE  /\ [Idle EXCEPT !.op = "renew", !.id = i, !.ttl = t].op = "renew"
                 /\ [Idle EXCEPT !.op = "gc"].op = "gc"
      BY DEF Idle
    <3>2. run \in [Procs -> Run]
      BY DEF Inv, TypeOK
    <3>3. StartGc(p) => run'[p].op = "gc"
      BY <3>1, <3>2 DEF StartGc
    <3>4. ASSUME StartRenew(p) PROVE run'[p].op = "renew"
      <4>1. PICK i \in Mine[p], t \in {"never", "live"} :
              run' = [run EXCEPT ![p] = [Idle EXCEPT !.op = "renew", !.id = i, !.ttl = t]]
        BY <3>4 DEF StartRenew
      <4> QED BY <3>1, <3>2, <4>1
    <3> QED BY <2>1, <3>3, <3>4
  <2>3. PICK i \in Mine[p] \ used, w \in Slots \union {None}, s \in Shapes, t \in {"never", "live"} :
          /\ run' = [run EXCEPT ![p] = [Idle EXCEPT !.op = "lease", !.id = i, !.want = w,
                                                     !.shape = s, !.ttl = t]]
          /\ used' = used \union ({i} \ Named)
    BY <2>2 DEF StartLease
  <2>4. [Idle EXCEPT !.op = "lease", !.id = i, !.want = w, !.shape = s, !.ttl = t].id = i
    BY DEF Idle
  <2>5. run'[p].id = i /\ i \in Ids \ Named
    BY <2>1, <2>3, <2>4, IdAssumption DEF Inv, TypeOK
  <2>6. i \notin Held(leases) /\ \A z \in Procs : i \notin ClaimOf(z)
    BY <2>3, <2>5 DEF UsedFirst
  <2> QED BY <1>1, <1>2, <2>1, <2>3, <2>5, <2>6 DEF Held
<1> QED BY <1>5, <1>6, <1>7

\* What a gc claims is an expired record, and claimed from then on.
LEMMA GcClaims == ASSUME GcInv, Inv', NEW p \in Procs, GcClaim(p) PROVE GcInv'
<1> USE DEF GcInv
<1>1. /\ lock = p /\ Held(snap') = {}
      /\ \A q \in Procs \ {p} : ClaimOf(q)' = ClaimOf(q)
      /\ ClaimOf(p)' \subseteq Held(snap)
      /\ \A i \in ClaimOf(p)' : leases'[i].releasing
      /\ Held(leases') \subseteq Held(leases) \union Held(snap)
      /\ \A i \in Held(leases') : leases'[i].releasing \/ leases'[i] = leases[i]
  BY ClaimsMark
<1>2. lock' = None /\ used' = used
  BY DEF GcClaim, Unlock
<1>3. GcOwnsGenerated'
  <2> SUFFICES ASSUME NEW q \in Procs, NEW i \in ClaimOf(q)' \intersect (Ids \ Named),
                      leases'[i] # None
               PROVE  leases'[i].releasing
    BY DEF GcOwnsGenerated, GcOwns
  <2>1. i \in Held(leases')
    BY DEF Held
  <2>2. CASE q = p
    BY <1>1, <2>2
  <2>3. CASE q # p
    BY <1>1, <2>1, <2>3 DEF GcOwnsGenerated, GcOwns
  <2> QED BY <2>2, <2>3
<1>4. SnapKnowsClaims'
  BY <1>1 DEF SnapKnowsClaims
<1>5. UsedFirst'
  BY <1>1, <1>2 DEF UsedFirst
<1>6. FreshIsUnknown'
  BY <1>2, NoneAssumption DEF FreshIsUnknown, Inv, TypeOK
<1> QED BY <1>3, <1>4, <1>5, <1>6

\* A step that drops the lock and claims nothing.
LEMMA GcDrops ==
  ASSUME GcInv, Inv', NEW p \in Procs, Drops(p), WritesKeepClaims(p),
         \A q \in Procs : ClaimOf(q)' \subseteq ClaimOf(q),
         pc[p] = "record" => LeaseRecord(p) \/ leases' = leases
  PROVE  GcInv'
<1> USE DEF GcInv
<1>1. lock' = None /\ Held(snap') = {} /\ used' = used
  BY DEF Drops, Unlock, Held, NoLeases
<1>2. pc[p] = "record" /\ run[p].id \notin Named =>
        run[p].id \in used /\ \A q \in Procs : run[p].id \notin ClaimOf(q)
  BY DEF FreshIsUnknown, Inv, RunOK
<1>3. GcOwnsGenerated'
  <2> SUFFICES ASSUME NEW q \in Procs, NEW i \in ClaimOf(q)' \intersect (Ids \ Named),
                      leases'[i] # None
               PROVE  leases'[i].releasing
    BY DEF GcOwnsGenerated, GcOwns
  <2>1. i \in Held(leases') /\ i \in ClaimOf(q) /\ i \notin Named
    BY DEF Held
  <2>2. CASE i \in Held(leases) /\ leases'[i].releasing = leases[i].releasing
    <3>1. leases[i].releasing
      BY <2>1, <2>2 DEF GcOwnsGenerated, GcOwns, Held
    <3> QED BY <2>2, <3>1
  <2>3. CASE i \in Held(snap) /\ ~snap[i].releasing
    BY <2>1, <2>3 DEF SnapKnowsClaims
  <2>4. CASE pc[p] = "record" /\ i = run[p].id
    BY <1>2, <2>1, <2>4
  <2> QED BY <2>1, <2>2, <2>3, <2>4 DEF WritesKeepClaims
<1>4. SnapKnowsClaims'
  BY <1>1 DEF SnapKnowsClaims
<1>5. UsedFirst'
  <2>1. \A i \in Held(leases') : i \in Held(snap) \/ (pc[p] = "record" /\ i = run[p].id)
    BY DEF Drops
  <2> QED BY <1>1, <1>2, <2>1 DEF UsedFirst
<1>6. FreshIsUnknown'
  BY <1>1, NoneAssumption DEF FreshIsUnknown, Inv, TypeOK
<1> QED BY <1>3, <1>4, <1>5, <1>6

\* A step that claims nothing leaves every gc with what it has claimed.
LEMMA GcQuiet ==
  ASSUME GcInv, Inv', NEW p \in Procs, Quiet(p),
         \A q \in Procs : ClaimOf(q)' \subseteq ClaimOf(q)
  PROVE  GcInv'
<1> USE DEF GcInv
<1>1. /\ snap' = snap /\ used' = used
      /\ \A i \in Held(leases') : i \in Held(leases) /\ leases'[i] = leases[i]
  BY DEF Quiet, Held, Inv, TypeOK
<1>2. GcOwnsGenerated'
  BY <1>1 DEF GcOwnsGenerated, GcOwns, Held
<1>3. SnapKnowsClaims'
  BY <1>1 DEF SnapKnowsClaims, Held
<1>4. UsedFirst'
  BY <1>1 DEF UsedFirst, Held
<1>5. FreshIsUnknown'
  <2> SUFFICES ASSUME NEW q \in Procs, pc'[q] \in {"held", "record"},
                      run'[q].op = "lease", run'[q].id \notin Named
               PROVE  /\ run'[q].id \in used'
                      /\ run'[q].id \notin Held(leases') /\ run'[q].id \notin Held(snap)
                      /\ \A z \in Procs : run'[q].id \notin ClaimOf(z)'
    BY <1>1 DEF FreshIsUnknown, Held
  <2>1. pc'[q] = pc[q] /\ run'[q] = run[q]
    BY DEF Quiet, Moves, Goto, Labels, Inv, TypeOK
  <2> QED BY <1>1, <2>1 DEF FreshIsUnknown
<1> QED BY <1>2, <1>3, <1>4, <1>5

\* The write of an env file claims nothing.
LEMMA GcLeaseEnv == ASSUME GcInv, Inv', NEW p \in Procs, LeaseEnv(p) PROVE GcInv'
<1> USE DEF GcInv
<1>1. \A q \in Procs : ClaimOf(q)' \subseteq ClaimOf(q)
  BY ClaimsShrink DEF Locked, LeaseEnv, GcClaim
<1>2. /\ UNCHANGED <<leases, snap, used>> /\ pc' = [pc EXCEPT ![p] = "record"]
      /\ pc[p] = "held" /\ run[p].op = "lease"
  BY DEF LeaseEnv, Goto
<1>3. \A q \in Procs : run'[q].op = run[q].op /\ run'[q].id = run[q].id
  <2>1. PICK s \in Candidates(run[p].want) :
           run' = [run EXCEPT ![p] = [run[p] EXCEPT !.slot = s, !.fresh = TRUE]]
    BY DEF LeaseEnv
  <2>2. run \in [Procs -> Run] /\ run[p] \in Run /\ run[p].want \in Slots \union {None}
    BY DEF Inv, TypeOK, Run
  <2>3. s \in Slots
    BY <2>2, CandidatesAreFree DEF Inv
  <2> DEFINE r == [run[p] EXCEPT !.slot = s, !.fresh = TRUE]
  <2>4. r.op = run[p].op /\ r.id = run[p].id
    BY <2>2, <2>3, RunFields
  <2>5. run' = [run EXCEPT ![p] = r]
    BY <2>1
  <2> HIDE DEF r
  <2> QED BY <2>2, <2>4, <2>5
<1>4. GcOwnsGenerated' /\ SnapKnowsClaims'
  BY <1>1, <1>2 DEF GcOwnsGenerated, GcOwns, SnapKnowsClaims, Held
<1>5. UsedFirst'
  BY <1>1, <1>2 DEF UsedFirst, Held
<1>6. FreshIsUnknown'
  BY <1>1, <1>2, <1>3 DEF FreshIsUnknown, Held, Inv, TypeOK
<1> QED BY <1>4, <1>5, <1>6

\* The passing of time takes no claim.
LEMMA GcExpire == ASSUME GcInv, Inv', NEW i \in Ids, Expire(i) PROVE GcInv'
<1> USE DEF GcInv
<1>1. \A j \in Held(leases') : j \in Held(leases) /\ leases'[j].releasing = leases[j].releasing
  BY ExpireKeepsClaims DEF Inv
<1>2. UNCHANGED <<snap, used, pc, run>>
  BY DEF Expire
<1>3. \A q \in Procs : ClaimOf(q)' = ClaimOf(q)
  BY <1>2 DEF ClaimOf
<1>4. GcOwnsGenerated'
  <2> SUFFICES ASSUME NEW q \in Procs, NEW j \in ClaimOf(q) \intersect (Ids \ Named),
                      leases'[j] # None
               PROVE  leases'[j].releasing
    BY <1>3 DEF GcOwnsGenerated, GcOwns
  <2>1. j \in Held(leases) /\ leases'[j].releasing = leases[j].releasing
    BY <1>1 DEF Held
  <2>2. leases[j].releasing
    BY <2>1 DEF GcOwnsGenerated, GcOwns, Held
  <2> QED BY <2>1, <2>2
<1>5. SnapKnowsClaims' /\ UsedFirst' /\ FreshIsUnknown'
  BY <1>1, <1>2, <1>3 DEF SnapKnowsClaims, UsedFirst, FreshIsUnknown, Held
<1> QED BY <1>4, <1>5

\* Every step keeps what the running gcs own.
LEMMA GcStep == GcInv /\ [Next]_vars => GcInv'
<1> SUFFICES ASSUME GcInv, [Next]_vars PROVE GcInv'
  OBVIOUS
<1>1. Inv /\ Inv' /\ TypeOK /\ RunOK
  BY NextInv DEF GcInv, Inv
<1>2. ASSUME NEW p \in Procs, Start(p) PROVE GcInv'
  <2>1. CASE StartRelease(p)
    <3>1. \A q \in Procs : ClaimOf(q)' \subseteq ClaimOf(q)
      BY <1>1, <1>2, <2>1, ClaimsShrink DEF StartRelease, GcClaim
    <3> QED BY <1>1, <2>1, <3>1, UnlockedIsQuiet, GcQuiet
  <2> QED BY <1>1, <1>2, <2>1, GcStart DEF Start
<1>3. ASSUME NEW p \in Procs, Unlocked(p) PROVE GcInv'
  <2>1. Quiet(p)
    BY <1>1, <1>3, UnlockedIsQuiet
  <2>2. ~GcClaim(p)
    BY <2>1 DEF Quiet, GcClaim
  <2>3. \A q \in Procs : ClaimOf(q)' \subseteq ClaimOf(q)
    BY <1>1, <1>3, <2>2, ClaimsShrink
  <2> QED BY <1>1, <2>1, <2>3, GcQuiet
<1>4. ASSUME NEW p \in Procs,
             \/ LeaseAgain(p) \/ LeaseRecord(p) \/ LeaseRefused(p)
             \/ Renew(p) \/ RenewRefused(p)
             \/ TornWrite(p) \/ (Crash(p) /\ lock = p)
      PROVE  GcInv'
  <2>0. Locked(p) \/ TornWrite(p) \/ Crash(p)
    BY <1>4 DEF Locked
  <2>1. CASE GcClaim(p)
    BY <1>1, <2>1, GcClaims
  <2>2. CASE ~GcClaim(p)
    <3>1. \A q \in Procs : ClaimOf(q)' \subseteq ClaimOf(q)
      BY <1>1, <2>0, <2>2, ClaimsShrink
    <3>2. Drops(p)
      BY <1>1, <1>4, LockedDrops
    <3>3. WritesKeepClaims(p)
      BY <1>1, <2>0, StepKeepsClaims
    <3>4. pc[p] = "record" => LeaseRecord(p) \/ leases' = leases
      BY <1>4 DEF LeaseAgain, LeaseRefused, Renew, RenewRefused, TornWrite, Crash
    <3> QED BY <1>1, <3>1, <3>2, <3>3, <3>4, GcDrops
  <2> QED BY <2>1, <2>2
<1>5. ASSUME NEW p \in Procs, Crash(p), lock # p PROVE GcInv'
  <2>1. Quiet(p)
    BY <1>1, <1>5, CrashIsQuiet
  <2>2. ~GcClaim(p)
    BY <2>1 DEF Quiet, GcClaim
  <2>3. \A q \in Procs : ClaimOf(q)' \subseteq ClaimOf(q)
    BY <1>1, <1>5, <2>2, ClaimsShrink
  <2> QED BY <1>1, <2>1, <2>3, GcQuiet
<1>6. CASE UNCHANGED vars
  <2>1. \A q \in Procs : ClaimOf(q)' = ClaimOf(q)
    BY <1>6 DEF vars, ClaimOf
  <2> QED BY <1>1, <1>6, <2>1
          DEF vars, GcInv, GcOwnsGenerated, GcOwns, SnapKnowsClaims, UsedFirst, FreshIsUnknown, Held
<1> QED BY <1>1, <1>2, <1>3, <1>4, <1>5, <1>6, GcLeaseEnv, GcClaims, GcExpire DEF Next, Locked

\* A gc never holds a claim on a lease that is in use: whatever it is about to
\* tear down is marked `releasing` or gone, if the id was generated.
THEOREM GcOwnsWhatItTearsDown == Spec => []GcOwnsGenerated
<1>1. GcInv => GcOwnsGenerated
  BY DEF GcInv
<1> QED BY <1>1, GcInit, GcStep, PTL DEF Spec

-----------------------------------------------------------------------------
(* Callers who keep to their own ids.  Nobody else then touches the files    *)
(* and the cluster of a lease, and what one process finds of it under the    *)
(* lock is still there when it acts on it.                                   *)

\* No two callers share an id, and nobody runs gc.
Isolated ==
  /\ \A p, q \in Procs : p # q => Mine[p] \intersect Mine[q] = {}
  /\ Collectors = {}

Owner == \A p \in Procs : pc[p] # "idle" => run[p].op # "gc" /\ run[p].id \in Mine[p]

\* A record has its env file, and a cluster its record unless that was cut short.
HasFiles(i) == /\ leases[i] # None => envs[i] = leases[i].slot
               /\ docker[i] # None => \/ i \in cut
                                      \/ leases[i] # None /\ docker[i] = leases[i].slot
Tidy == \A i \in Ids : HasFiles(i)

\* No cluster runs under id i, or only one that was lost before.
Gone(i) == docker[i] = None \/ i \in cut

\* What p knows of its own lease, wherever it is.
Knows(p, i) ==
  /\ pc[p] = "held" => (snap[i] # None => leases[i] # None)
  /\ pc[p] = "record" => leases[i] = None /\ Gone(i) /\ envs[i] = run[p].slot
  /\ pc[p] \in {"up", "wait"} => leases[i] # None /\ leases[i].slot = run[p].slot
  /\ pc[p] = "wait" => docker[i] = run[p].slot /\ i \notin cut
  /\ pc[p] = "unlink_record" => docker[i] = None
  /\ pc[p] = "unlink_env" => docker[i] = None /\ leases[i] = None
  /\ pc[p] # "gc"

IsoInv == Inv /\ Owner /\ Tidy /\ \A p \in Procs : Knows(p, run[p].id)

\* The isolated invariant holds before the first command.
LEMMA IsoInit == Init => IsoInv
BY InitInv DEF Init, IsoInv, Owner, Tidy, HasFiles, Knows, NoLeases

\* A step of p that leaves everything alone but its own lease.
Alone(p) ==
  /\ \A q \in Procs \ {p} : pc'[q] = pc[q] /\ run'[q] = run[q]
  /\ lock \notin {None, p} => snap' = snap
  /\ \A i \in Ids : pc[p] = "idle" \/ i # run[p].id =>
       /\ leases'[i] = leases[i] /\ envs'[i] = envs[i] /\ docker'[i] = docker[i]
       /\ i \in cut' <=> i \in cut

\* What a step of p has to establish, besides Inv.
LEMMA IsoStep ==
  ASSUME Isolated, IsoInv, Inv', NEW p \in Procs, Alone(p),
         pc'[p] # "idle" => run'[p].op # "gc" /\ run'[p].id \in Mine[p],
         pc[p] # "idle" => \A i \in Ids : i = run[p].id => HasFiles(i)',
         Knows(p, run[p].id)'
  PROVE  IsoInv'
<1>1. Owner'
  BY DEF IsoInv, Owner, Alone
<1>2. Tidy'
  BY DEF IsoInv, Tidy, HasFiles, Alone
<1>3. ASSUME NEW q \in Procs, q # p PROVE Knows(q, run[q].id)'
  <2>1. CASE pc[q] = "idle"
    BY <1>3, <2>1 DEF Alone, Knows
  <2>2. CASE pc[q] # "idle"
    <3>1. run[q].id \in Mine[q] /\ run[q].id \in Ids
      BY <2>2, IdAssumption DEF IsoInv, Owner
    <3>2. pc[p] = "idle" \/ run[q].id # run[p].id
      BY <1>3, <3>1 DEF IsoInv, Owner, Isolated
    <3>3. /\ pc'[q] = pc[q] /\ run'[q] = run[q]
          /\ leases'[run[q].id] = leases[run[q].id]
          /\ envs'[run[q].id] = envs[run[q].id] /\ docker'[run[q].id] = docker[run[q].id]
          /\ run[q].id \in cut' <=> run[q].id \in cut
      BY <1>3, <3>1, <3>2 DEF Alone
    <3>4. pc[q] = "held" => snap' = snap
      BY <1>3, NoneAssumption DEF Alone, IsoInv, Inv, TypeOK
    <3> QED BY <3>3, <3>4 DEF IsoInv, Knows, Gone
  <2> QED BY <2>1, <2>2
<1> QED BY <1>1, <1>2, <1>3 DEF IsoInv

\* What the proofs about single steps start from.
LEMMA IsoFacts ==
  ASSUME IsoInv, NEW p \in Procs
  PROVE  /\ pc \in [Procs -> {"idle", "held", "record", "up", "wait", "down",
                              "unlink_record", "unlink_env", "gc"}]
         /\ run \in [Procs -> Run]
         /\ leases \in [Ids -> Lease \union {None}] /\ snap \in [Ids -> Lease \union {None}]
         /\ envs \in [Ids -> Slots \union {None}] /\ docker \in [Ids -> Slots \union {None}]
         /\ pc[p] \in {"held", "record"} <=> lock = p
         /\ pc[p] # "idle" => run[p].op # "gc" /\ run[p].id \in Mine[p] /\ run[p].id \in Ids
         /\ Knows(p, run[p].id)
         /\ \A i \in Ids : HasFiles(i)
BY IdAssumption DEF IsoInv, Inv, TypeOK, Owner, Tidy

\* A command that starts has its id to itself.
LEMMA IsoStart ==
  ASSUME Isolated, IsoInv, Inv', NEW p \in Procs, Start(p)
  PROVE  IsoInv'
<1>0. ~StartGc(p)
  BY DEF StartGc, Isolated
<1>1. /\ pc[p] = "idle" /\ UNCHANGED <<leases, envs, docker, cut>>
      /\ lock = None
      /\ \E label \in {"held", "down"} : pc' = [pc EXCEPT ![p] = label]
      /\ pc'[p] = "held" => snap' = leases
  BY <1>0, IsoFacts DEF Start, StartLease, StartRelease, StartRenew, TakeLock, Goto
<1>2. \E r \in Run : run' = [run EXCEPT ![p] = r] /\ r.op # "gc" /\ r.id \in Mine[p]
  <2>1. CASE StartLease(p)
    <3>1. PICK i \in Mine[p] \ used, w \in Slots \union {None}, s \in Shapes, t \in {"never", "live"} :
            run' = [run EXCEPT ![p] = [Idle EXCEPT !.op = "lease", !.id = i, !.want = w,
                                                   !.shape = s, !.ttl = t]]
      BY <2>1 DEF StartLease
    <3> DEFINE r == [Idle EXCEPT !.op = "lease", !.id = i, !.want = w, !.shape = s, !.ttl = t]
    <3>2. r \in Run /\ r.op = "lease" /\ r.id = i
      BY IdAssumption DEF Run, Idle
    <3> HIDE DEF r
    <3>3. run' = [run EXCEPT ![p] = r]
      BY <3>1 DEF r
    <3> QED BY <3>2, <3>3
  <2>2. CASE StartRelease(p)
    <3>1. PICK i \in Mine[p] : run' = [run EXCEPT ![p] = [Idle EXCEPT !.op = "release", !.id = i]]
      BY <2>2 DEF StartRelease
    <3> DEFINE r == [Idle EXCEPT !.op = "release", !.id = i]
    <3>2. r \in Run /\ r.op = "release" /\ r.id = i
      BY IdAssumption DEF Run, Idle
    <3> HIDE DEF r
    <3>3. run' = [run EXCEPT ![p] = r]
      BY <3>1 DEF r
    <3> QED BY <3>2, <3>3
  <2>3. CASE StartRenew(p)
    <3>1. PICK i \in Mine[p], t \in {"never", "live"} :
            run' = [run EXCEPT ![p] = [Idle EXCEPT !.op = "renew", !.id = i, !.ttl = t]]
      BY <2>3 DEF StartRenew
    <3> DEFINE r == [Idle EXCEPT !.op = "renew", !.id = i, !.ttl = t]
    <3>2. r \in Run /\ r.op = "renew" /\ r.id = i
      BY IdAssumption DEF Run, Idle
    <3> HIDE DEF r
    <3>3. run' = [run EXCEPT ![p] = r]
      BY <3>1 DEF r
    <3> QED BY <3>2, <3>3
  <2> QED BY <1>0, <2>1, <2>2, <2>3 DEF Start
<1>3. Alone(p)
  BY <1>1, <1>2, IsoFacts DEF Alone
<1>4. pc'[p] \in {"held", "down"} /\ run'[p].op # "gc" /\ run'[p].id \in Mine[p]
  BY <1>1, <1>2, IsoFacts
<1>5. Knows(p, run[p].id)'
  BY <1>1, <1>4, IdAssumption DEF Knows
<1> QED BY <1>1, <1>3, <1>4, <1>5, IsoStep

\* A step of a locked block writes the record of its own id.
LEMMA IsoLocked ==
  ASSUME Isolated, IsoInv, Inv', NEW p \in Procs, Locked(p)
  PROVE  IsoInv'
<1> USE DEF Goto
<1>0. /\ pc[p] \in {"held", "record"} /\ lock = p /\ lock # None
      /\ run[p].op # "gc" /\ run[p].id \in Mine[p] /\ run[p].id \in Ids /\ run[p] \in Run
      /\ run[p].op = "lease" => pc[p] = "held" \/ pc[p] = "record"
  BY IsoFacts, NoneAssumption
     DEF Locked, LeaseAgain, LeaseEnv, LeaseRecord, LeaseRefused, Renew, RenewRefused, GcClaim
<1> SUFFICES ASSUME NEW i \in Ids, i = run[p].id PROVE IsoInv'
  BY <1>0
<1>1. \A j \in Held(leases) : snap[j] # None /\ snap[j].slot = leases[j].slot
  BY <1>0 DEF IsoInv, Inv, SnapCovers
<1>2. CASE LeaseAgain(p)
  <2>1. i \in Held(leases) /\ snap[i] \in Lease
    <3>1. pc[p] = "held" /\ snap[i] # None
      BY <1>2 DEF LeaseAgain
    <3>2. leases[i] # None /\ snap \in [Ids -> Lease \union {None}]
      BY <3>1, IsoFacts DEF Knows
    <3> QED BY <3>1, <3>2 DEF Held
  <2> DEFINE l == [snap[i] EXCEPT !.exp = run[p].ttl]
             r == [run[p] EXCEPT !.slot = snap[i].slot]
  <2>2. l \in Lease /\ l.slot = leases[i].slot
    <3>1. run[p].ttl \in {"never", "live"}
      BY <1>0 DEF Run
    <3>2. snap[i].slot = leases[i].slot
      BY <1>1, <2>1
    <3> QED BY <2>1, <3>1, <3>2, LeaseFields
  <2>3. r \in Run /\ r.op = run[p].op /\ r.id = i /\ r.slot = leases[i].slot
    BY <1>0, <1>1, <2>1 DEF Run, Lease
  <2>4. /\ leases' = [leases EXCEPT ![i] = l] /\ run' = [run EXCEPT ![p] = r]
        /\ pc' = [pc EXCEPT ![p] = "up"] /\ UNCHANGED <<envs, docker, cut>>
    BY <1>2 DEF LeaseAgain
  <2> HIDE DEF l, r
  <2>5. Alone(p)
    BY <1>0, <2>4, IsoFacts DEF Alone
  <2>6. leases'[i] = l /\ l # None /\ run'[p] = r /\ pc'[p] = "up"
    BY <1>0, <2>2, <2>4, IsoFacts, NoneAssumption
  <2>7. HasFiles(i)'
    BY <1>0, <2>1, <2>2, <2>4, <2>6, IsoFacts DEF HasFiles, Held
  <2> QED BY <1>0, <2>1, <2>2, <2>3, <2>5, <2>6, <2>7, IsoStep DEF Knows, Held
<1>3. CASE LeaseEnv(p)
  <2>1. PICK s \in Candidates(run[p].want) :
          /\ envs' = [envs EXCEPT ![i] = s]
          /\ run' = [run EXCEPT ![p] = [run[p] EXCEPT !.slot = s, !.fresh = TRUE]]
    BY <1>3 DEF LeaseEnv
  <2>2. s \in Slots
    BY <1>0, CandidatesAreFree DEF IsoInv, Inv, Run
  <2> DEFINE r == [run[p] EXCEPT !.slot = s, !.fresh = TRUE]
  <2>3. r \in Run /\ r.op = run[p].op /\ r.id = i /\ r.slot = s
    BY <1>0, <2>2, RunFields
  <2>4. /\ run' = [run EXCEPT ![p] = r] /\ pc' = [pc EXCEPT ![p] = "record"]
        /\ UNCHANGED <<leases, docker, cut, snap>> /\ snap[i] = None
    BY <1>3, <2>1 DEF LeaseEnv
  <2> HIDE DEF r
  <2>5. Alone(p)
    BY <1>0, <2>1, <2>4, IsoFacts DEF Alone
  <2>6. leases'[i] = None /\ Gone(i)' /\ envs'[i] = s /\ run'[p] = r /\ pc'[p] = "record"
    BY <1>0, <1>1, <2>1, <2>4, IsoFacts DEF Held, HasFiles, Gone
  <2>7. HasFiles(i)'
    BY <2>6 DEF HasFiles, Gone
  <2> QED BY <1>0, <2>3, <2>5, <2>6, <2>7, IsoStep DEF Knows
<1>4. CASE LeaseRecord(p)
  <2> DEFINE l == [slot |-> run[p].slot, shape |-> run[p].shape, exp |-> run[p].ttl, releasing |-> FALSE]
  <2>1. l \in Lease /\ l.slot = run[p].slot
    BY <1>0, <1>4 DEF LeaseRecord, IsoInv, Inv, RunOK, Lease, Run
  <2>2. /\ leases' = [leases EXCEPT ![i] = l] /\ pc[p] = "record"
        /\ pc' = [pc EXCEPT ![p] = "up"] /\ UNCHANGED <<envs, docker, cut, run>>
    BY <1>4 DEF LeaseRecord
  <2> HIDE DEF l
  <2>3. Alone(p)
    BY <1>0, <2>2, IsoFacts DEF Alone
  <2>4. leases'[i] = l /\ l # None /\ pc'[p] = "up" /\ run'[p] = run[p]
    BY <1>0, <2>1, <2>2, IsoFacts, NoneAssumption
  <2>5. HasFiles(i)'
    BY <1>0, <2>1, <2>2, <2>4, IsoFacts DEF Knows, HasFiles, Gone
  <2> QED BY <1>0, <2>1, <2>3, <2>4, <2>5, IsoStep DEF Knows
<1>5. CASE LeaseRefused(p) \/ RenewRefused(p)
  <2>1. /\ UNCHANGED <<leases, envs, docker, cut>> /\ pc' = [pc EXCEPT ![p] = "idle"]
        /\ run' = [run EXCEPT ![p] = Idle]
    BY <1>5 DEF LeaseRefused, RenewRefused, Refuse, Exit
  <2>2. Alone(p) /\ pc'[p] = "idle"
    BY <1>0, <2>1, IsoFacts DEF Alone
  <2>3. HasFiles(i)'
    BY <2>1, IsoFacts DEF HasFiles
  <2> QED BY <1>0, <2>2, <2>3, IsoStep DEF Knows
<1>6. CASE Renew(p)
  <2>1. i \in Held(leases) /\ snap[i] \in Lease
    <3>1. pc[p] = "held" /\ snap[i] # None
      BY <1>6 DEF Renew
    <3>2. leases[i] # None /\ snap \in [Ids -> Lease \union {None}]
      BY <3>1, IsoFacts DEF Knows
    <3> QED BY <3>1, <3>2 DEF Held
  <2> DEFINE l == [snap[i] EXCEPT !.exp = run[p].ttl]
  <2>2. l \in Lease /\ l.slot = leases[i].slot
    <3>1. run[p].ttl \in {"never", "live"}
      BY <1>0 DEF Run
    <3>2. snap[i].slot = leases[i].slot
      BY <1>1, <2>1
    <3> QED BY <2>1, <3>1, <3>2, LeaseFields
  <2>3. /\ leases' = [leases EXCEPT ![i] = l] /\ run' = [run EXCEPT ![p] = Idle]
        /\ pc' = [pc EXCEPT ![p] = "idle"] /\ UNCHANGED <<envs, docker, cut>>
    BY <1>6 DEF Renew, Exit
  <2> HIDE DEF l
  <2>4. Alone(p)
    BY <1>0, <2>3, IsoFacts DEF Alone
  <2>5. leases'[i] = l /\ l # None /\ pc'[p] = "idle"
    BY <1>0, <2>2, <2>3, IsoFacts, NoneAssumption
  <2>6. HasFiles(i)'
    BY <1>0, <2>1, <2>2, <2>3, <2>5, IsoFacts DEF HasFiles, Held
  <2> QED BY <2>4, <2>5, <2>6, IsoStep DEF Knows
<1> QED BY <1>0, <1>2, <1>3, <1>4, <1>5, <1>6 DEF Locked, GcClaim

\* A step outside the lock: where p goes, and what it then knows of its lease.
Lands(p) ==
  LET i == run[p].id IN
  /\ pc[p] \notin {"idle", "held", "record"} /\ UNCHANGED snap
  /\ \A j \in Ids \ {i} : /\ leases'[j] = leases[j] /\ envs'[j] = envs[j] /\ docker'[j] = docker[j]
                          /\ j \in cut' <=> j \in cut
  /\ leases'[i] # None => envs'[i] = leases'[i].slot
  /\ docker'[i] # None => i \in cut' \/ (leases'[i] # None /\ docker'[i] = leases'[i].slot)
  /\ \E label \in {"idle", "wait", "down", "unlink_record", "unlink_env"} :
       /\ pc' = [pc EXCEPT ![p] = label]
       /\ \/ run' = run
          \/ label = "idle" /\ run' = [run EXCEPT ![p] = Idle]
       /\ label = "wait" => /\ leases'[i] # None /\ leases'[i].slot = run[p].slot
                            /\ docker'[i] = run[p].slot /\ i \notin cut'
       /\ label \in {"unlink_record", "unlink_env"} => docker'[i] = None
       /\ label = "unlink_env" => leases'[i] = None

\* A lease that lands has its record, its env file and its cluster.
LEMMA IsoLands ==
  ASSUME Isolated, IsoInv, Inv', NEW p \in Procs, Lands(p)
  PROVE  IsoInv'
<1>1. Alone(p)
  BY IsoFacts DEF Alone, Lands
<1>2. pc'[p] # "idle" => run'[p] = run[p]
  BY IsoFacts DEF Lands
<1>3. Knows(p, run[p].id)'
  <2>1. CASE pc'[p] = "idle"
    BY <2>1 DEF Knows
  <2>2. CASE pc'[p] # "idle"
    BY <1>2, <2>2, IsoFacts DEF Knows, Lands
  <2> QED BY <2>1, <2>2
<1>4. pc'[p] # "idle" => run'[p].op # "gc" /\ run'[p].id \in Mine[p]
  BY <1>2, IsoFacts DEF Lands
<1>5. \A i \in Ids : i = run[p].id => HasFiles(i)'
  BY DEF HasFiles, Lands
<1> QED BY <1>1, <1>3, <1>4, <1>5, IsoStep

\* A step outside of the locked block touches what belongs to its own id.
LEMMA IsoUnlocked ==
  ASSUME Isolated, IsoInv, Inv', NEW p \in Procs, Unlocked(p)
  PROVE  IsoInv'
<1> USE DEF Goto, Lands
<1>0. /\ pc[p] \notin {"idle", "held", "record"} /\ UNCHANGED snap
      /\ pc[p] # "gc" /\ run[p].op # "gc" /\ run[p].id \in Ids
      /\ pc \in [Procs -> {"idle", "held", "record", "up", "wait", "down",
                           "unlink_record", "unlink_env", "gc"}]
      /\ leases \in [Ids -> Lease \union {None}] /\ envs \in [Ids -> Slots \union {None}]
      /\ docker \in [Ids -> Slots \union {None}]
  BY IsoFacts
     DEF Knows, Unlocked, Up, UpFails, Ready, NotReady, Down, DownFails, UnlinkRecord, UnlinkEnv, GcNext, GcDone
<1>a. /\ leases[run[p].id] # None => envs[run[p].id] = leases[run[p].id].slot
      /\ docker[run[p].id] # None =>
           run[p].id \in cut \/ (leases[run[p].id] # None /\ docker[run[p].id] = leases[run[p].id].slot)
  BY <1>0, IsoFacts DEF HasFiles
<1>b. pc[p] \in {"up", "wait"} => leases[run[p].id] # None /\ leases[run[p].id].slot = run[p].slot
  BY IsoFacts DEF Knows
<1>1. CASE Up(p)
  <2>1. /\ docker' = [docker EXCEPT ![run[p].id] = envs[run[p].id]] /\ cut' = cut \ {run[p].id}
        /\ pc[p] = "up" /\ pc' = [pc EXCEPT ![p] = "wait"] /\ UNCHANGED <<leases, envs, run, snap>>
    BY <1>1 DEF Up, BringUp
  <2>2. Lands(p)
    BY <1>0, <1>a, <1>b, <2>1
  <2> QED BY <2>2, IsoLands
<1>2. CASE UpFails(p)
  <2>1. \E label \in {"idle", "down"} :
          /\ pc' = [pc EXCEPT ![p] = label]
          /\ \/ run' = run
             \/ label = "idle" /\ run' = [run EXCEPT ![p] = Idle]
    BY <1>2 DEF UpFails, AfterFailedLease, Exit
  <2>2. CASE UNCHANGED <<docker, cut>>
    <3> Lands(p)
      BY <1>0, <1>2, <1>a, <2>1, <2>2 DEF UpFails
    <3> QED BY IsoLands
  <2>3. CASE BringUp(run[p].id)
    <3> Lands(p)
      BY <1>0, <1>2, <1>a, <1>b, <2>1, <2>3 DEF UpFails, BringUp
    <3> QED BY IsoLands
  <2> QED BY <1>2, <2>2, <2>3 DEF UpFails
<1>3. CASE Ready(p)
  <2>1. /\ pc' = [pc EXCEPT ![p] = "idle"] /\ run' = [run EXCEPT ![p] = Idle]
        /\ UNCHANGED <<leases, envs, docker, cut, snap>>
    BY <1>3 DEF Ready, Exit
  <2>2. Lands(p)
    BY <1>0, <1>a, <2>1
  <2> QED BY <2>2, IsoLands
<1>4. CASE NotReady(p)
  <2> Lands(p)
    BY <1>0, <1>4, <1>a DEF NotReady, AfterFailedLease, Exit
  <2> QED BY IsoLands
<1>5. CASE Down(p)
  <2>1. /\ docker' = [docker EXCEPT ![run[p].id] = None] /\ cut' = cut \ {run[p].id}
        /\ pc' = [pc EXCEPT ![p] = "unlink_record"] /\ UNCHANGED <<leases, envs, run, snap>>
    BY <1>5 DEF Down, TearDown
  <2>2. Lands(p)
    BY <1>0, <1>a, <2>1
  <2> QED BY <2>2, IsoLands
<1>6. CASE DownFails(p)
  <2> Lands(p)
    BY <1>0, <1>6, <1>a DEF DownFails, AfterRelease, Exit
  <2> QED BY IsoLands
<1>7. CASE UnlinkRecord(p)
  <2> Lands(p)
    BY <1>0, <1>7, IsoFacts DEF UnlinkRecord, Knows
  <2> QED BY IsoLands
<1>8. CASE UnlinkEnv(p)
  <2> Lands(p)
    BY <1>0, <1>8, IsoFacts DEF UnlinkEnv, AfterRelease, Exit, Knows
  <2> QED BY IsoLands
<1> QED BY <1>0, <1>1, <1>2, <1>3, <1>4, <1>5, <1>6, <1>7, <1>8 DEF Unlocked, GcNext, GcDone

\* A crash leaves the record of what the command has made, and of what a compose
\* child makes after it.
LEMMA IsoCrash ==
  ASSUME Isolated, IsoInv, Inv', NEW p \in Procs, Crash(p)
  PROVE  IsoInv'
<1>0. pc[p] # "idle" /\ run[p].id \in Ids
  BY IsoFacts DEF Crash
<1> SUFFICES ASSUME NEW i \in Ids, i = run[p].id PROVE IsoInv'
  BY <1>0
<1>1. /\ UNCHANGED <<leases, envs>>
      /\ lock # p => UNCHANGED snap
      /\ pc' = [pc EXCEPT ![p] = "idle"] /\ run' = [run EXCEPT ![p] = Idle]
  BY DEF Crash, Exit, Goto
<1>2. \/ UNCHANGED <<docker, cut>>
      \/ /\ pc[p] = "up" /\ docker' = [docker EXCEPT ![i] = envs[i]]
         /\ cut' = cut \ {i}
      \/ docker' = [docker EXCEPT ![i] = None] /\ cut' = cut \ {i}
  BY DEF Crash, BringUp, TearDown
<1>3. Alone(p) /\ pc'[p] = "idle"
  BY <1>0, <1>1, <1>2, IsoFacts DEF Alone
<1>4. Knows(p, run[p].id)'
  BY <1>3 DEF Knows
<1>5. HasFiles(i)'
  BY <1>1, <1>2, IsoFacts DEF HasFiles, Knows
<1> QED BY <1>3, <1>4, <1>5, IsoStep

\* A write that is cut short loses its own record, and its cluster is noted down.
LEMMA IsoTorn ==
  ASSUME Isolated, IsoInv, Inv', NEW p \in Procs, TornWrite(p)
  PROVE  IsoInv'
<1>0. /\ pc[p] = "held" /\ lock = p /\ lock # None
      /\ run[p].op # "gc" /\ run[p].id \in Ids /\ run[p] \in Run
      /\ snap[run[p].id] # None \/ leases[run[p].id] = None
  BY IsoFacts, NoneAssumption DEF TornWrite, IsoInv, Inv, SnapCovers, Held
<1> SUFFICES ASSUME NEW i \in Ids, i = run[p].id PROVE IsoInv'
  BY <1>0
<1>1. /\ UNCHANGED docker
      /\ pc' = [pc EXCEPT ![p] = "idle"] /\ run' = [run EXCEPT ![p] = Idle]
  BY DEF TornWrite, Exit, Goto
<1>2. /\ \A j \in Ids : j # i => /\ leases'[j] = leases[j] /\ envs'[j] = envs[j]
                                 /\ j \in cut' <=> j \in cut
      /\ leases'[i] = None
      /\ docker[i] # None => i \in cut'
  <2>1. CASE TornRecord(p)
    <3>1. Rewritten(p) \subseteq {i}
      BY <1>0 DEF Rewritten, IsoInv, Inv, RunOK
    <3>2. PICK j \in Rewritten(p) : \E done \in SUBSET (Rewritten(p) \ {j}) :
            /\ leases' = [k \in Ids |-> IF k = j THEN None
                                        ELSE IF k \in done THEN [snap[k] EXCEPT !.releasing = TRUE]
                                        ELSE leases[k]]
            /\ cut' = cut \union ({j} \intersect Running)
            /\ UNCHANGED envs
      BY <2>1 DEF TornRecord
    <3>3. j = i /\ Rewritten(p) \ {j} = {}
      BY <3>1, <3>2
    <3> QED BY <3>2, <3>3 DEF Running
  <2>2. CASE TornEnv(p)
    <3>1. leases[i] = None /\ UNCHANGED <<leases, cut>> /\ envs' = [envs EXCEPT ![i] = None]
      BY <1>0, <2>2 DEF TornEnv
    <3> QED BY <3>1, IsoFacts DEF HasFiles
  <2> QED BY <2>1, <2>2 DEF TornWrite
<1>3. Alone(p) /\ pc'[p] = "idle"
  BY <1>0, <1>1, <1>2, IsoFacts DEF Alone
<1>4. Knows(p, run[p].id)'
  BY <1>3 DEF Knows
<1>5. HasFiles(i)'
  BY <1>1, <1>2 DEF HasFiles
<1> QED BY <1>3, <1>4, <1>5, IsoStep

\* The passing of time deletes nothing: nobody runs gc.
LEMMA IsoExpire ==
  ASSUME IsoInv, Inv', NEW i \in Ids, Expire(i)
  PROVE  IsoInv'
<1> DEFINE l == [leases[i] EXCEPT !.exp = "past"]
<1>1. leases \in [Ids -> Lease \union {None}]
  BY DEF IsoInv, Inv, TypeOK
<1>2. l \in Lease /\ l.slot = leases[i].slot
  BY <1>1, LeaseFields DEF Expire
<1>3. /\ leases' = [leases EXCEPT ![i] = l] /\ leases[i] # None /\ l # None
      /\ UNCHANGED <<envs, docker, cut, lock, snap, used, pc, run>>
  BY <1>2, NoneAssumption DEF Expire
<1> HIDE DEF l
<1>4. \A j \in Ids : /\ leases'[j] = None <=> leases[j] = None
                     /\ leases[j] # None => leases'[j].slot = leases[j].slot
  BY <1>1, <1>2, <1>3
<1>5. Owner' /\ Tidy'
  BY <1>3, <1>4 DEF IsoInv, Owner, Tidy, HasFiles
<1>6. ASSUME NEW p \in Procs PROVE Knows(p, run[p].id)'
  BY <1>3, <1>4, IsoFacts DEF Knows, Gone
<1> QED BY <1>5, <1>6 DEF IsoInv

\* Every step keeps the isolated invariant.
LEMMA IsoNext == ASSUME Isolated PROVE IsoInv /\ [Next]_vars => IsoInv'
<1> SUFFICES ASSUME IsoInv, [Next]_vars PROVE IsoInv'
  OBVIOUS
<1>0. Inv'
  BY NextInv DEF IsoInv
<1>1. ASSUME NEW p \in Procs, Start(p) \/ Locked(p) \/ Unlocked(p) \/ Crash(p) \/ TornWrite(p)
      PROVE  IsoInv'
  BY <1>0, <1>1, IsoStart, IsoLocked, IsoUnlocked, IsoCrash, IsoTorn
<1>2. ASSUME NEW i \in Ids, Expire(i) PROVE IsoInv'
  BY <1>0, <1>2, IsoExpire
<1>3. CASE UNCHANGED vars
  BY <1>0, <1>3 DEF vars, IsoInv, Owner, Tidy, HasFiles, Knows, Gone
<1> QED BY <1>1, <1>2, <1>3 DEF Next

\* As long as every caller keeps to its own ids and nobody runs gc, no failure of
\* Docker and no kill, but one inside write_text of the cluster's own record, leaves
\* a cluster that its record and env file do not lead to.
THEOREM IsolatedLoseNothing == ASSUME Isolated PROVE Spec => []NothingLost
<1>1. IsoInv => NothingLost
  BY DEF IsoInv, Tidy, HasFiles, NothingLost, Running
<1> QED BY <1>1, IsoInit, IsoNext, PTL DEF Spec

\* And what answers on the ports that lease prints is the lease's own cluster, and
\* no other that still has its record.
THEOREM IsolatedGetTheirOwn == ASSUME Isolated PROVE Spec => HandsOutOwnCluster
<1> DEFINE Own == \A p \in Procs :
                    Ready(p) => {i \in Ids \ cut : docker[i] = run[p].slot} = {run[p].id}
<1>1. IsoInv => Own
  <2> SUFFICES ASSUME IsoInv, NEW p \in Procs, Ready(p)
               PROVE  {i \in Ids \ cut : docker[i] = run[p].slot} = {run[p].id}
    OBVIOUS
  <2>1. pc[p] = "wait"
    BY DEF Ready
  <2>2. /\ run[p].id \in Ids \ cut /\ docker[run[p].id] = run[p].slot
        /\ leases[run[p].id] \in Lease /\ leases[run[p].id].slot = run[p].slot
    BY <2>1, IsoFacts DEF Knows
  <2>3. run[p].slot # None
    BY <2>2, SlotFacts DEF Lease
  <2>4. ASSUME NEW j \in Ids \ cut, docker[j] = run[p].slot PROVE j = run[p].id
    <3>1. leases[j] # None /\ leases[j].slot = leases[run[p].id].slot
      BY <2>2, <2>3, <2>4 DEF IsoInv, Tidy, HasFiles
    <3>2. j \in Held(leases) /\ run[p].id \in Held(leases)
      BY <2>2, <3>1, NoneAssumption DEF Held
    <3> QED BY <3>1, <3>2 DEF IsoInv, Inv, UniqueSlots
  <2> QED BY <2>2, <2>4
<1>2. IsoInv /\ [Next]_vars => [Own]_vars
  BY <1>1
<1> QED BY <1>2, IsoInit, IsoNext, PTL DEF Spec, HandsOutOwnCluster
=============================================================================
