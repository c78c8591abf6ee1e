----------------------------- MODULE TikvStore -----------------------------
(***************************************************************************)
(* TikvMetadataStore::commit (crates/parity-gate/src/lib.rs): one          *)
(* WriteBatch is one TiKV transaction, under one of three lock modes.      *)
(*                                                                         *)
(* The transaction protocol is tikv-client's and TiKV's, and external: it  *)
(* is modelled from how commit() and stage() use it and from what their    *)
(* comments and the gate tests say of it.  Timestamps come from PD.  A key *)
(* has versions and at most one lock, pessimistic or prewritten; a         *)
(* transaction is decided at its primary key, and its other locks follow   *)
(* that decision.  `put` and `delete` lock their key in the pessimistic    *)
(* mode.  An error is its kind; a MultipleKeyErrors is a set of kinds.     *)
(***************************************************************************)
EXTENDS Integers, SequencesExt

CONSTANTS Calls, Keys, Values, Batches, First, None,
  Modes,   \* the LockModes in use: "pessimistic", "locked", "unlocked"
  Faults   \* "net": a request fails; "lost": the reply of the primary's commit
           \* is lost; "expire": a lock outlives its TTL; "rollback": a
           \* rollback fails

Locks == [call : Calls, kind : {"pessimistic", "prewritten"}]
Outcomes == {"committed", "conflict", "error"}

ASSUME NoneIsNothing ==
  /\ None \notin Batches /\ None \notin Calls /\ None \notin Values
  /\ None \notin Locks /\ None \notin Outcomes
\* A WriteBatch: finitely many preconditions, puts and deletes.
ASSUME BatchesAssumption ==
  \A b \in Batches :
    /\ b.pre \in Seq([key : Keys, expected : Values \union {None}])
    /\ IsFiniteSet(DOMAIN b.writes) /\ DOMAIN b.writes \subseteq Keys
    /\ b.writes \in [DOMAIN b.writes -> Values \union {None}]
ASSUME FirstAssumption == First \in [Keys -> Values \union {None}]

VARIABLES
  ts,        \* the last timestamp PD gave out
  versions,  \* key -> the committed [ts, val]
  locks,     \* key -> [call, kind], or None
  status,    \* call -> what its primary key says of it
  txn        \* call -> the locals of commit() and stage()

vars == <<ts, versions, locks, status, txn>>

\* next: the precondition (or, pessimistic, the key) stage() is at.
\* done: the keys prewritten.  out: what commit() is going to return.
NotCalled == [pc |-> "idle", batch |-> None, mode |-> None, start |-> 0, next |-> 1,
              fu |-> 0, done |-> {}, commit |-> 0, out |-> None]

Init ==
  /\ ts = 0
  /\ versions = [k \in Keys |-> {[ts |-> 0, val |-> First[k]]}]
  /\ locks = [k \in Keys |-> None]
  /\ status = [c \in Calls |-> "open"]
  /\ txn = [c \in Calls |-> NotCalled]

-----------------------------------------------------------------------------
(* Helpers *)

Newest(vs) == CHOOSE v \in vs : \A w \in vs : w.ts <= v.ts
\* The value of k in the snapshot at timestamp t.
At(k, t) == Newest({v \in versions[k] : v.ts <= t}).val
NewerThan(k, t) == \E v \in versions[k] : v.ts > t

Holds(c, k, kind) == locks[k] = [call |-> c, kind |-> kind]
Own(c, k) == locks[k] # None /\ locks[k].call = c
Foreign(c, k) == locks[k] # None /\ locks[k].call # c
Pre(c) == txn[c].batch.pre
Writes(c) == DOMAIN txn[c].batch.writes
PreKeys(c) == {Pre(c)[i].key : i \in DOMAIN Pre(c)}
Pessimistic(c) == txn[c].mode = "pessimistic"

\* Mutant of Mutations: lock_keys is forgotten.
MutationsUnlocked(c) == IF Pessimistic(c) THEN Writes(c) \union PreKeys(c) ELSE Writes(c)
\* The keys the transaction prewrites: those it writes and those it locked.
Mutations(c) ==
  IF txn[c].mode = "unlocked" THEN Writes(c) ELSE Writes(c) \union PreKeys(c)
\* The first of them decides.
Primary(c) == IF Pre(c) # <<>> /\ Pre(c)[1].key \in Mutations(c) THEN Pre(c)[1].key
              ELSE CHOOSE k \in Writes(c) : TRUE

\* What stage() goes through: the preconditions and then, in the pessimistic
\* mode, the other keys it locks, those of the puts and deletes.
Steps(c) ==
  [i \in DOMAIN Pre(c) |-> Pre(c)[i].key]
    \o IF Pessimistic(c) THEN SetToSeq(Writes(c) \ PreKeys(c)) ELSE <<>>
Staging(c) == txn[c].pc = "stage" /\ txn[c].next <= Len(Steps(c))
\* Every precondition held and every mutation is buffered.
Staged(c) == txn[c].pc = "stage" /\ txn[c].next > Len(Steps(c))
Key(c) == Steps(c)[txn[c].next]

\* is_lost_race, of the errors a request came back with, and what commit()
\* makes of them.
IsLostRace(errs) == "conflict" \in errs
Outcome(errs) == IF IsLostRace(errs) THEN "conflict" ELSE "error"

\* Mutant of Fail: what stage() or commit() found is not kept for the return.
FailForgets(c, out) == txn' = [txn EXCEPT ![c].pc = "rollback"]
\* rollback_quietly follows.
Fail(c, out) == txn' = [txn EXCEPT ![c].pc = "rollback", ![c].out = out]
Return(c, out) == txn' = [txn EXCEPT ![c].pc = "done", ![c].out = out]

-----------------------------------------------------------------------------
(* commit(): begin, then stage()                                             *)

Call(c) ==
  /\ txn[c].pc = "idle"
  /\ \E b \in Batches, m \in Modes :
       txn' = [txn EXCEPT ![c] = [NotCalled EXCEPT !.pc = "begin", !.batch = b, !.mode = m]]
  /\ UNCHANGED <<ts, versions, locks, status>>

Begin(c) ==
  /\ txn[c].pc = "begin"
  /\ ts' = ts + 1
  /\ txn' = [txn EXCEPT ![c].pc = "stage", ![c].start = ts']
  /\ UNCHANGED <<versions, locks, status>>

BeginFails(c) ==
  /\ txn[c].pc = "begin" /\ "net" \in Faults
  /\ Return(c, "error")
  /\ UNCHANGED <<ts, versions, locks, status>>

\* The key of a precondition has been read: compare it with what is expected.
\* (A key that is only written is locked, and its value of no interest.)
Check(c, actual) ==
  IF txn[c].next <= Len(Pre(c)) => actual = Pre(c)[txn[c].next].expected
  THEN txn' = [txn EXCEPT ![c].next = @ + 1, ![c].pc = "stage"]
  ELSE Fail(c, "conflict")

\* get_for_update (and put and delete, in that mode): a fresh timestamp, then
\* the lock, if nobody holds the key and nothing newer was committed to it.
ForUpdate(c) ==
  /\ Pessimistic(c) /\ Staging(c)
  /\ ts' = ts + 1
  /\ txn' = [txn EXCEPT ![c].pc = "acquire", ![c].fu = ts']
  /\ UNCHANGED <<versions, locks, status>>

Acquire(c) ==
  LET k == Key(c) IN
  /\ txn[c].pc = "acquire"
  /\ ~Foreign(c, k) /\ ~NewerThan(k, txn[c].fu)
  /\ locks' = [locks EXCEPT ![k] = [call |-> c, kind |-> "pessimistic"]]
  /\ Check(c, Newest(versions[k]).val)
  /\ UNCHANGED <<ts, versions, status>>

\* The plain read of the other two modes, at the start timestamp.  The lock of
\* another transaction that may commit before that timestamp holds it up.
Read(c) ==
  LET k == Key(c) IN
  /\ ~Pessimistic(c) /\ Staging(c)
  /\ Foreign(c, k) => \/ locks[k].kind = "pessimistic"
                      \/ k \notin Writes(locks[k].call)
                      \/ txn[locks[k].call].start > txn[c].start
  /\ Check(c, At(k, txn[c].start))
  /\ UNCHANGED <<ts, versions, locks, status>>

\* stage() returns Err: a lock request that lost to a newer version, one that
\* waited too long or met a deadlock, or any failed request.
StageFails(c) ==
  /\ Staging(c) \/ txn[c].pc = "acquire"
  /\ \/ /\ txn[c].pc = "acquire" /\ NewerThan(Key(c), txn[c].fu)
        /\ Fail(c, Outcome({"conflict"}))
     \/ Foreign(c, Key(c)) /\ Fail(c, Outcome({"locked"}))
     \/ "net" \in Faults /\ Fail(c, Outcome({"net"}))
  /\ UNCHANGED <<ts, versions, locks, status>>

-----------------------------------------------------------------------------
(* commit(): the two phases                                                  *)

\* Why TiKV refuses to prewrite k.
Refused(c, k) ==
  (IF Foreign(c, k) THEN {"locked"} ELSE {})
    \union (IF Pessimistic(c) /\ ~Own(c, k) THEN {"not_found"} ELSE {})
    \union (IF ~Pessimistic(c) /\ (NewerThan(k, txn[c].start)
                                   \/ (k = Primary(c) /\ status[c] = "rolled_back"))
            THEN {"conflict"} ELSE {})

\* Prewrite goes to the keys in parallel.
Prewrite(c, k) ==
  /\ Staged(c) /\ k \in Mutations(c) \ txn[c].done
  /\ Refused(c, k) = {}
  /\ locks' = [locks EXCEPT ![k] = [call |-> c, kind |-> "prewritten"]]
  /\ txn' = [txn EXCEPT ![c].done = @ \union {k}]
  /\ UNCHANGED <<ts, versions, status>>

\* Some keys' errors come back.
PrewriteFails(c) ==
  /\ Staged(c)
  /\ \E errs \in SUBSET (UNION {Refused(c, k) : k \in Mutations(c) \ txn[c].done}
                            \union (Faults \intersect {"net"})) :
       errs # {} /\ Fail(c, Outcome(errs))
  /\ UNCHANGED <<ts, versions, locks, status>>

\* Everything is prewritten: the commit timestamp, and the request that commits
\* the primary.
CommitTs(c) ==
  /\ Staged(c) /\ txn[c].done = Mutations(c)
  /\ ts' = ts + 1
  /\ txn' = [txn EXCEPT ![c].pc = "commit", ![c].commit = ts']
  /\ UNCHANGED <<versions, locks, status>>

\* What c wrote to k becomes visible.
Publish(c, k) ==
  /\ versions' = IF k \notin Writes(c) THEN versions
                 ELSE [versions EXCEPT ![k] = @ \union
                         {[ts |-> txn[c].commit, val |-> txn[c].batch.writes[k]]}]
  /\ locks' = [locks EXCEPT ![k] = None]

\* TiKV, whenever the request arrives: the transaction is now committed.
CommitPrimary(c) ==
  /\ txn[c].commit # 0 /\ status[c] = "open"
  /\ Holds(c, Primary(c), "prewritten")
  /\ Publish(c, Primary(c))
  /\ status' = [status EXCEPT ![c] = "committed"]
  /\ UNCHANGED <<ts, txn>>

Committed(c) ==
  /\ txn[c].pc = "commit" /\ status[c] = "committed"
  /\ Return(c, "committed")
  /\ UNCHANGED <<ts, versions, locks, status>>

CommitRejected(c) ==
  /\ txn[c].pc = "commit" /\ status[c] = "rolled_back"
  /\ Fail(c, Outcome({"not_found"}))
  /\ UNCHANGED <<ts, versions, locks, status>>

\* Mutant of Undetermined: it rolls back as after any other error.
UndeterminedRollsBack(c) ==
  /\ txn[c].pc = "commit" /\ "lost" \in Faults
  /\ Fail(c, Outcome({"undetermined"}))
  /\ UNCHANGED <<ts, versions, locks, status>>

\* UndeterminedError: no rollback.
Undetermined(c) ==
  /\ txn[c].pc = "commit" /\ "lost" \in Faults
  /\ Return(c, "error")
  /\ UNCHANGED <<ts, versions, locks, status>>

-----------------------------------------------------------------------------
(* rollback_quietly                                                          *)

\* One key's lock goes; at the primary, the transaction is decided.
RollbackKey(c, k) ==
  /\ txn[c].pc = "rollback" /\ Own(c, k)
  /\ locks' = [locks EXCEPT ![k] = None]
  /\ status' = IF k = Primary(c) THEN [status EXCEPT ![c] = "rolled_back"] ELSE status
  /\ UNCHANGED <<ts, versions, txn>>

RolledBack(c) ==
  /\ txn[c].pc = "rollback"
  /\ "rollback" \in Faults \/ \A k \in Keys : ~Own(c, k)
  /\ Return(c, txn[c].out)
  /\ UNCHANGED <<ts, versions, locks, status>>

-----------------------------------------------------------------------------
(* Lock resolution, by the committer in the background or by whoever meets a *)
(* lock                                                                      *)

Resolve(k) ==
  /\ locks[k] # None
  /\ LET c == locks[k].call IN
     \/ status[c] = "committed" /\ Publish(c, k)
     \/ /\ status[c] = "rolled_back"
        /\ locks' = [locks EXCEPT ![k] = None] /\ UNCHANGED versions
  /\ UNCHANGED <<ts, status, txn>>

\* A lock has outlived its TTL: its transaction is rolled back at its primary,
\* whether or not the caller is still alive.
Expire(c) ==
  /\ "expire" \in Faults /\ status[c] = "open"
  /\ \E k \in Keys : Own(c, k)
  /\ status' = [status EXCEPT ![c] = "rolled_back"]
  /\ locks' = [k \in Keys |-> IF Own(c, k) /\ k = Primary(c) THEN None ELSE locks[k]]
  /\ UNCHANGED <<ts, versions, txn>>

-----------------------------------------------------------------------------
Next ==
  \/ \E c \in Calls :
       \/ Call(c) \/ Begin(c) \/ BeginFails(c)
       \/ ForUpdate(c) \/ Acquire(c) \/ Read(c) \/ StageFails(c)
       \/ (\E k \in Keys : Prewrite(c, k)) \/ PrewriteFails(c) \/ CommitTs(c)
       \/ CommitPrimary(c) \/ Committed(c) \/ CommitRejected(c) \/ Undetermined(c)
       \/ (\E k \in Keys : RollbackKey(c, k)) \/ RolledBack(c) \/ Expire(c)
  \/ \E k \in Keys : Resolve(k)

Spec == Init /\ [][Next]_vars

-----------------------------------------------------------------------------
(* Properties                                                                *)

TypeOK ==
  /\ ts \in Nat
  /\ \A k \in Keys : \A v \in versions[k] :
       v.ts \in 0 .. ts /\ v.val \in Values \union {None}
  /\ locks \in [Keys -> Locks \union {None}]
  /\ status \in [Calls -> {"open", "committed", "rolled_back"}]
  /\ \A c \in Calls :
       /\ txn[c].pc \in {"idle", "begin", "stage", "acquire", "commit", "rollback", "done"}
       /\ txn[c].pc # "idle" => txn[c].batch \in Batches /\ txn[c].mode \in Modes
       /\ txn[c].out \in Outcomes \union {None}
       /\ txn[c].pc = "done" => txn[c].out # None

\* "Either every put and delete lands, or nothing changes": once the primary is
\* committed, each key of the batch has its new value or still the lock that
\* will give it one.
NoTornBatch ==
  \A c \in Calls : status[c] = "committed" =>
    \A k \in Writes(c) : \/ Holds(c, k, "prewritten")
                         \/ \E v \in versions[k] : v.ts = txn[c].commit

\* What a reader who resolves every lock it meets finds under k.
Value(k) ==
  IF locks[k] # None /\ status[locks[k].call] = "committed" /\ k \in Writes(locks[k].call)
  THEN txn[locks[k].call].batch.writes[k]
  ELSE Newest(versions[k]).val

\* commit() keeps the promise of the trait: the batch lands at one moment, at
\* which all its preconditions hold, and `Conflict` means that it never lands.
Contract == INSTANCE MetadataStore WITH
  store <- [k \in Keys |-> Value(k)],
  call <- [c \in Calls |-> [batch |-> txn[c].batch,
                            applied |-> status[c] = "committed",
                            out |-> IF txn[c].pc = "done" THEN txn[c].out ELSE None]]
KeepsContract == Contract!Spec
=============================================================================
