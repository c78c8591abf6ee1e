--------------------------- MODULE TikvStoreProofs -------------------------
(***************************************************************************)
(* A batch is never torn, and commit() keeps the promise of the trait: for *)
(* any calls, keys and batches, and any of the faults.                     *)
(*                                                                         *)
(* The argument: from the moment a transaction has its commit timestamp    *)
(* until it is decided, it holds a prewritten lock on each of its keys;    *)
(* under such a lock the key has no new version, so each precondition that *)
(* was found to hold still holds, and what is published is the newest.     *)
(***************************************************************************)
EXTENDS TikvStore, FiniteSetTheorems, SequenceTheorems, TLAPS

Version == [ts : Nat, val : Values \union {None}]
Txn == [pc : {"idle", "begin", "stage", "acquire", "commit", "rollback", "done"},
        batch : Batches \union {None}, mode : Modes \union {None}, start : Nat, next : Nat \ {0},
        fu : Nat, done : SUBSET Keys, commit : Nat, out : Outcomes \union {None}]

Shape ==
  /\ ts \in Nat
  /\ versions \in [Keys -> SUBSET Version]
  /\ locks \in [Keys -> Locks \union {None}]
  /\ status \in [Calls -> {"open", "committed", "rolled_back"}]
  /\ txn \in [Calls -> Txn]
  /\ \A k \in Keys : \A v \in versions[k] : v.ts <= ts

\* How far a call has come, and what its primary may say by then.
Called(c) ==
  /\ txn[c].pc = "idle" => txn[c].batch = None
  /\ txn[c].pc # "idle" => txn[c].batch \in Batches /\ txn[c].mode \in Modes
  /\ txn[c].pc \in {"idle", "begin"} =>
       status[c] = "open" /\ txn[c].done = {} /\ txn[c].next = 1
Stage(c) ==
  /\ txn[c].pc = "acquire" => Pessimistic(c) /\ txn[c].next <= Len(Steps(c))
  /\ txn[c].done # {} => txn[c].next > Len(Steps(c))
  /\ txn[c].start <= ts /\ txn[c].commit <= ts
Outcomed(c) ==
  /\ txn[c].pc = "rollback" => txn[c].out \in {"conflict", "error"}
  /\ txn[c].pc = "done" => txn[c].out # None
  /\ txn[c].pc = "done" /\ txn[c].out = "committed" => status[c] = "committed"
Deciding(c) ==
  /\ txn[c].pc \in {"idle", "begin", "stage", "acquire"} => txn[c].commit = 0
  /\ txn[c].pc = "commit" => txn[c].commit # 0
  /\ txn[c].commit # 0 => txn[c].start < txn[c].commit /\ txn[c].done = Mutations(c)
  /\ txn[c].commit # 0 /\ status[c] = "open" =>
       \/ txn[c].pc = "commit"
       \/ txn[c].pc = "done" /\ txn[c].out = "error"
  /\ status[c] = "committed" =>
       /\ txn[c].commit # 0
       /\ \/ txn[c].pc = "commit"
          \/ txn[c].pc = "done" /\ txn[c].out \in {"committed", "error"}
Protocol(c) == Called(c) /\ Stage(c) /\ Outcomed(c) /\ Deciding(c)

\* A lock is on one of its transaction's keys; once the transaction is
\* committed, it is a prewritten one.
Owned(c, k) ==
  Own(c, k) => /\ txn[c].pc \notin {"idle", "begin"}
               /\ k \in Mutations(c)
               /\ status[c] = "committed" => Holds(c, k, "prewritten")

\* Until it is decided, a transaction keeps what it has prewritten.
Kept(c, k) ==
  k \in txn[c].done /\ status[c] = "open" /\ (txn[c].pc = "stage" \/ txn[c].commit # 0)
    => Holds(c, k, "prewritten")

\* What a transaction will publish is newer than what there is.
Latest(c, k) ==
  Holds(c, k, "prewritten") /\ txn[c].commit # 0 => \A v \in versions[k] : v.ts < txn[c].commit

\* Under a prewritten lock the preconditions on the key hold.
Met(c, k) ==
  Holds(c, k, "prewritten") /\ status[c] = "open" =>
    \A i \in DOMAIN Pre(c) : Pre(c)[i].key = k => Newest(versions[k]).val = Pre(c)[i].expected

\* The preconditions that stage() has gone through: a pessimistic lock keeps
\* the value that was found;
MetSoFar(c) ==
  Pessimistic(c) /\ txn[c].pc \in {"stage", "acquire"} /\ status[c] = "open" =>
    \A i \in DOMAIN Pre(c) : i < txn[c].next =>
      /\ Own(c, Pre(c)[i].key)
      /\ Newest(versions[Pre(c)[i].key]).val = Pre(c)[i].expected

\* and without one the value is that of the snapshot, to which nothing is added.
Settled(c, k) ==
  \A d \in Calls : Holds(d, k, "prewritten") /\ k \in Writes(d) /\ txn[d].commit # 0
                     => txn[d].commit > txn[c].start
ReadSoFar(c) ==
  ~Pessimistic(c) /\ txn[c].pc = "stage" =>
    \A i \in DOMAIN Pre(c) : i < txn[c].next =>
      /\ At(Pre(c)[i].key, txn[c].start) = Pre(c)[i].expected
      /\ Settled(c, Pre(c)[i].key)

Checked(c) == MetSoFar(c) /\ ReadSoFar(c)
Guarded(c, k) == Owned(c, k) /\ Kept(c, k) /\ Latest(c, k) /\ Met(c, k)

IInv ==
  /\ Shape
  /\ \A c \in Calls : Protocol(c) /\ Checked(c) /\ \A k \in Keys : Guarded(c, k)
  /\ NoTornBatch

-----------------------------------------------------------------------------
(* Batches                                                                   *)

\* The keys that are only written, in some order.
LEMMA SetToSeqType ==
  ASSUME NEW S, IsFiniteSet(S)
  PROVE  /\ SetToSeq(S) \in Seq(S)
         /\ \A i \in DOMAIN SetToSeq(S) : SetToSeq(S)[i] \in S
<1>1. Cardinality(S) \in Nat /\ ExistsBijection(1 .. Cardinality(S), S)
  BY FS_CardinalityType
<1>2. PICK f \in [1 .. Cardinality(S) -> S] : IsInjective(f)
  BY <1>1 DEF ExistsBijection, Bijection, Injection, IsInjective
<1>3. SetToSeq(S) \in [1 .. Cardinality(S) -> S]
  BY <1>2 DEF SetToSeq
<1> QED BY <1>1, <1>3

\* What a batch is made of, and the keys that stage() goes through.
LEMMA BatchShape ==
  ASSUME NEW c \in Calls, txn[c].batch \in Batches
  PROVE  /\ Len(Pre(c)) \in Nat /\ DOMAIN Pre(c) = 1 .. Len(Pre(c))
         /\ \A i \in DOMAIN Pre(c) : Pre(c)[i].key \in Keys /\ Pre(c)[i].key \in PreKeys(c)
         /\ PreKeys(c) \subseteq Keys /\ Writes(c) \subseteq Keys /\ Mutations(c) \subseteq Keys
         /\ \A k \in Writes(c) : txn[c].batch.writes[k] \in Values \union {None}
         /\ Writes(c) \subseteq Mutations(c)
         /\ txn[c].mode # "unlocked" => PreKeys(c) \subseteq Mutations(c)
<1>1. /\ Pre(c) \in Seq([key : Keys, expected : Values \union {None}])
      /\ Writes(c) \subseteq Keys
      /\ txn[c].batch.writes \in [Writes(c) -> Values \union {None}]
  BY BatchesAssumption DEF Pre, Writes
<1>2. Len(Pre(c)) \in Nat /\ DOMAIN Pre(c) = 1 .. Len(Pre(c))
  BY <1>1
<1>3. \A i \in DOMAIN Pre(c) : Pre(c)[i] \in [key : Keys, expected : Values \union {None}]
  BY <1>1, <1>2, ElementOfSeq
<1>4. \A i \in DOMAIN Pre(c) : Pre(c)[i].key \in Keys
  BY <1>3
<1> QED BY <1>1, <1>2, <1>4 DEF PreKeys, Mutations

\* The statements of a transaction: its preconditions in order, then its other writes.
LEMMA StepsShape ==
  ASSUME NEW c \in Calls, txn[c].batch \in Batches
  PROVE  /\ Len(Steps(c)) \in Nat /\ Len(Pre(c)) <= Len(Steps(c))
         /\ \A i \in DOMAIN Pre(c) : Steps(c)[i] = Pre(c)[i].key
         /\ \A i \in 1 .. Len(Steps(c)) : i > Len(Pre(c)) => Steps(c)[i] \in Writes(c) \ PreKeys(c)
         /\ Pessimistic(c) => \A i \in 1 .. Len(Steps(c)) : Steps(c)[i] \in Mutations(c)
<1> DEFINE f == [i \in DOMAIN Pre(c) |-> Pre(c)[i].key]
           g == IF Pessimistic(c) THEN SetToSeq(Writes(c) \ PreKeys(c)) ELSE <<>>
<1>1. f \in Seq(Keys) /\ Len(f) = Len(Pre(c)) /\ DOMAIN Pre(c) = 1 .. Len(Pre(c)) /\ Len(Pre(c)) \in Nat
  <2>1. DOMAIN Pre(c) = 1 .. Len(Pre(c)) /\ Len(Pre(c)) \in Nat /\ \A i \in DOMAIN Pre(c) : Pre(c)[i].key \in Keys
    BY BatchShape
  <2> QED BY <2>1
<1>2. g \in Seq(Writes(c) \ PreKeys(c)) /\ \A i \in 1 .. Len(g) : g[i] \in Writes(c) \ PreKeys(c)
  <2>1. IsFiniteSet(Writes(c) \ PreKeys(c))
    BY BatchesAssumption, FS_Subset DEF Writes
  <2> DEFINE S == Writes(c) \ PreKeys(c)
  <2>2. CASE Pessimistic(c)
    <3>1. SetToSeq(S) \in Seq(S) /\ \A i \in DOMAIN SetToSeq(S) : SetToSeq(S)[i] \in S
      BY <2>1, SetToSeqType
    <3>2. g = SetToSeq(S)
      BY <2>2
    <3> HIDE DEF g
    <3>3. g \in Seq(S) /\ \A i \in 1 .. Len(g) : g[i] \in S
      BY <3>1, <3>2, ElementOfSeq
    <3> QED BY <3>3
  <2>3. CASE ~Pessimistic(c)
    BY <2>3
  <2> QED BY <2>2, <2>3
<1>3. Steps(c) = f \o g
  BY DEF Steps
<1> HIDE DEF f, g
<1>4. /\ Len(Steps(c)) = Len(f) + Len(g) /\ Len(g) \in Nat
      /\ \A i \in 1 .. Len(f) : Steps(c)[i] = f[i]
      /\ \A i \in 1 .. Len(f) + Len(g) : i > Len(f) => Steps(c)[i] = g[i - Len(f)]
  <2>1. f \in Seq(Keys) /\ g \in Seq(Writes(c) \ PreKeys(c))
    BY <1>1, <1>2
  <2>2. /\ Len(f) \in Nat /\ Len(g) \in Nat
        /\ Len(f \o g) = Len(f) + Len(g)
        /\ \A i \in 1 .. Len(f) + Len(g) : (f \o g)[i] = IF i <= Len(f) THEN f[i] ELSE g[i - Len(f)]
    BY <2>1
  <2> QED BY <1>3, <2>2
<1>5. \A i \in DOMAIN Pre(c) : Steps(c)[i] = Pre(c)[i].key
  BY <1>1, <1>4 DEF f
<1>6. ASSUME NEW i \in 1 .. Len(Steps(c)), i > Len(Pre(c)) PROVE Steps(c)[i] \in Writes(c) \ PreKeys(c)
  <2>1. i - Len(f) \in 1 .. Len(g)
    BY <1>1, <1>4, <1>6
  <2> QED BY <1>1, <1>2, <1>4, <1>6, <2>1
<1>7. ASSUME Pessimistic(c), NEW i \in 1 .. Len(Steps(c)) PROVE Steps(c)[i] \in Mutations(c)
  <2>1. txn[c].mode # "unlocked"
    BY <1>7 DEF Pessimistic
  <2>2. CASE i > Len(Pre(c))
    BY <1>6, <2>2, BatchShape
  <2>3. CASE i <= Len(Pre(c))
    <3>1. i \in DOMAIN Pre(c)
      BY <1>1, <1>4, <2>3
    <3> QED BY <1>5, <2>1, <3>1, BatchShape
  <2> QED BY <1>1, <1>4, <2>2, <2>3
<1> QED BY <1>1, <1>4, <1>5, <1>6, <1>7

\* A step that leaves a call's batch and mode leaves what is derived from them.
LEMMA SameBatch ==
  ASSUME NEW c \in Calls, txn'[c].batch = txn[c].batch, txn'[c].mode = txn[c].mode
  PROVE  /\ Pre(c)' = Pre(c) /\ Writes(c)' = Writes(c) /\ PreKeys(c)' = PreKeys(c)
         /\ (Pessimistic(c)' <=> Pessimistic(c)) /\ Mutations(c)' = Mutations(c)
         /\ Primary(c)' = Primary(c) /\ Steps(c)' = Steps(c)
<1>1. /\ Pre(c)' = Pre(c) /\ Writes(c)' = Writes(c)
      /\ (Pessimistic(c)' <=> Pessimistic(c))
  BY DEF Pre, Writes, Pessimistic
<1>2. PreKeys(c)' = PreKeys(c)
  BY <1>1 DEF PreKeys
<1>3. Mutations(c)' = Mutations(c)
  BY <1>1, <1>2 DEF Mutations
<1>4. Primary(c)' = Primary(c)
  BY <1>1, <1>3 DEF Primary
<1>5. Steps(c)' = Steps(c)
  BY <1>1, <1>2 DEF Steps
<1> QED BY <1>1, <1>2, <1>3, <1>4, <1>5

-----------------------------------------------------------------------------
(* Steps of a call that leave the store alone                                *)

\* What a version is made of.
LEMMA VersionType ==
  ASSUME Shape, NEW k \in Keys, NEW v \in versions[k]
  PROVE  v.ts \in Nat /\ ts \in Nat /\ v.ts <= ts /\ v.val \in Values \union {None}
<1>1. v \in Version
  BY DEF Shape
<1> QED BY <1>1 DEF Shape, Version

\* What another call's step leaves alone of a call.
LEMMA OtherCall ==
  ASSUME IInv, NEW d \in Calls, txn'[d] = txn[d], status'[d] = status[d], ts' \in Nat, ts <= ts'
  PROVE  Protocol(d)'
<1>1. Protocol(d) /\ txn[d] \in Txn /\ ts \in Nat
  BY DEF IInv, Shape
<1>2. (Pessimistic(d)' <=> Pessimistic(d)) /\ Steps(d)' = Steps(d) /\ Mutations(d)' = Mutations(d)
  BY SameBatch
<1>3. Called(d)'
  BY <1>1 DEF Protocol, Called
<1>4. Stage(d)'
  BY <1>1, <1>2 DEF Protocol, Stage, Txn
<1>5. Outcomed(d)'
  BY <1>1 DEF Protocol, Outcomed
<1>6. Deciding(d)'
  BY <1>1, <1>2 DEF Protocol, Deciding
<1> QED BY <1>3, <1>4, <1>5, <1>6 DEF Protocol

\* A step of call c that neither locks, unlocks, publishes nor decides keeps the
\* invariant if it keeps c's own parts of it; a timestamp to commit at is new.
LEMMA LocalStep ==
  ASSUME IInv, NEW c \in Calls,
         UNCHANGED <<versions, locks, status>>, ts' \in Nat, ts <= ts',
         txn' \in [Calls -> Txn], \A d \in Calls : d # c => txn'[d] = txn[d],
         txn'[c].batch = txn[c].batch, txn'[c].mode = txn[c].mode, txn'[c].done = txn[c].done,
         \/ txn'[c].commit = txn[c].commit
         \/ txn[c].commit = 0 /\ txn'[c].commit > ts,
         txn'[c].pc \notin {"idle", "begin"},
         \/ txn'[c].pc # "stage" /\ txn'[c].commit = 0
         \/ txn[c].pc = "stage" \/ txn[c].commit # 0
         \/ txn[c].done = {},
         Protocol(c)', Checked(c)'
  PROVE  IInv'
<1>1. Shape'
  <2>1. \A k \in Keys : \A v \in versions'[k] : v.ts <= ts'
    <3>1. Shape
      BY DEF IInv
    <3>2. ASSUME NEW k \in Keys, NEW v \in versions[k] PROVE v.ts <= ts'
      BY <3>1, VersionType
    <3> QED BY <3>2
  <2> QED BY <2>1 DEF IInv, Shape
<1>2. ASSUME NEW d \in Calls PROVE Protocol(d)'
  BY <1>2, OtherCall
<1>3. \A d \in Calls : /\ Pre(d)' = Pre(d) /\ Writes(d)' = Writes(d) /\ Mutations(d)' = Mutations(d)
                       /\ (Pessimistic(d)' <=> Pessimistic(d))
  BY SameBatch
<1>7. /\ ts \in Nat
      /\ \A e \in Calls : /\ txn[e].commit \in Nat /\ txn'[e].commit \in Nat
                          /\ txn'[e].commit = txn[e].commit \/ txn'[e].commit > ts
  BY DEF IInv, Shape, Txn
<1>4. ASSUME NEW d \in Calls, NEW k \in Keys PROVE Guarded(d, k)'
  <2>1. Guarded(d, k)
    BY DEF IInv
  <2>2. /\ Holds(d, k, "prewritten")' <=> Holds(d, k, "prewritten")
        /\ Own(d, k)' <=> Own(d, k)
    BY DEF Holds, Own
  <2>3. Owned(d, k)'
    <3>1. Own(d, k) => /\ txn[d].pc \notin {"idle", "begin"} /\ k \in Mutations(d)
                       /\ status[d] = "committed" => Holds(d, k, "prewritten")
      BY <2>1 DEF Guarded, Owned
    <3>2. txn[d].pc \notin {"idle", "begin"} => txn'[d].pc \notin {"idle", "begin"}
      OBVIOUS
    <3> QED BY <1>3, <2>2, <3>1, <3>2 DEF Owned
  <2>4. Kept(d, k)'
    BY <2>1, <2>2 DEF Guarded, Kept
  <2>5. Latest(d, k)'
    <3>1. SUFFICES ASSUME Holds(d, k, "prewritten"), txn'[d].commit # 0, NEW v \in versions[k]
                   PROVE  v.ts < txn'[d].commit
      BY <2>2 DEF Latest
    <3>2. v.ts \in Nat /\ v.ts <= ts
      BY VersionType DEF IInv
    <3>3. txn[d].commit # 0 => v.ts < txn[d].commit
      BY <2>1, <3>1 DEF Guarded, Latest
    <3> QED BY <1>7, <3>1, <3>2, <3>3
  <2>6. Met(d, k)'
    BY <1>3, <2>1, <2>2 DEF Guarded, Met
  <2> QED BY <2>3, <2>4, <2>5, <2>6 DEF Guarded
<1>5. ASSUME NEW d \in Calls PROVE Checked(d)'
  <2>1. CASE d = c
    BY <2>1
  <2>2. CASE d # c
    <3>1. Checked(d) /\ txn'[d] = txn[d] /\ txn[d].start <= ts /\ txn[d].start \in Nat /\ ts \in Nat
      BY <2>2 DEF IInv, Protocol, Stage, Shape, Txn
    <3>2. MetSoFar(d)'
      <4>1. \A k : Own(d, k)' <=> Own(d, k)
        BY DEF Own
      <4> QED BY <1>3, <3>1, <4>1 DEF Checked, MetSoFar
    <3>3. ASSUME NEW k, Settled(d, k) PROVE Settled(d, k)'
      <4>1. SUFFICES ASSUME NEW e \in Calls, Holds(e, k, "prewritten"), k \in Writes(e), txn'[e].commit # 0
                     PROVE  txn'[e].commit > txn[d].start
        BY <1>3, <3>1 DEF Settled, Holds
      <4>2. txn[e].commit # 0 => txn[e].commit > txn[d].start
        BY <3>3, <4>1 DEF Settled
      <4> QED BY <1>7, <3>1, <4>1, <4>2
    <3>4. ReadSoFar(d)'
      BY <1>3, <3>1, <3>3 DEF Checked, ReadSoFar, At
    <3> QED BY <3>2, <3>4 DEF Checked
  <2> QED BY <2>1, <2>2
<1>6. NoTornBatch'
  <2>1. ASSUME NEW d \in Calls, status[d] = "committed" PROVE txn'[d].commit = txn[d].commit
    BY <2>1 DEF IInv, Protocol, Deciding
  <2> QED BY <1>3, <2>1 DEF IInv, NoTornBatch, Holds
<1> QED BY <1>1, <1>2, <1>4, <1>5, <1>6 DEF IInv

\* What the invariant says of one call.
LEMMA CallType ==
  ASSUME IInv, NEW c \in Calls
  PROVE  /\ txn[c] \in Txn /\ ts \in Nat /\ Protocol(c) /\ Checked(c)
         /\ txn[c].start \in Nat /\ txn[c].commit \in Nat /\ txn[c].next \in Nat
         /\ txn[c].done \subseteq Keys
         /\ status[c] \in {"open", "committed", "rolled_back"}
BY DEF IInv, Shape, Txn

\* Call c gives up (pc "rollback") or returns.
Ends(c, p, o) == txn' = [txn EXCEPT ![c].pc = p, ![c].out = o]

\* A transaction that leaves for its end keeps the protocol ...
LEMMA EndProtocol ==
  ASSUME IInv, NEW c \in Calls, NEW p \in {"rollback", "done"}, NEW o \in Outcomes,
         Ends(c, p, o), ts' = ts, status'[c] = status[c],
         txn[c].pc \in {"begin", "stage", "acquire", "commit", "rollback"},
         p = "rollback" => o # "committed",
         o = "committed" => status[c] = "committed",
         status[c] = "committed" => p = "done" /\ o # "conflict",
         status[c] = "open" /\ txn[c].commit # 0 => p = "done" /\ o = "error"
  PROVE  /\ \A d \in Calls : d # c => txn'[d] = txn[d]
         /\ txn' \in [Calls -> Txn]
         /\ txn'[c].pc = p /\ txn'[c].out = o /\ txn'[c].batch = txn[c].batch /\ txn'[c].mode = txn[c].mode
         /\ txn'[c].start = txn[c].start /\ txn'[c].next = txn[c].next /\ txn'[c].done = txn[c].done
         /\ txn'[c].commit = txn[c].commit
         /\ Protocol(c)' /\ Checked(c)'
<1>1. /\ txn[c] \in Txn /\ ts \in Nat /\ Protocol(c) /\ txn \in [Calls -> Txn]
      /\ txn[c].start \in Nat /\ txn[c].commit \in Nat
  BY CallType DEF IInv, Shape
<1>2. /\ \A d \in Calls : d # c => txn'[d] = txn[d]
      /\ txn'[c] = [txn[c] EXCEPT !.pc = p, !.out = o]
      /\ txn' \in [Calls -> Txn]
  BY <1>1 DEF Txn, Outcomes, Ends
<1>3. /\ txn'[c].pc = p /\ txn'[c].out = o /\ txn'[c].batch = txn[c].batch /\ txn'[c].mode = txn[c].mode
      /\ txn'[c].start = txn[c].start /\ txn'[c].next = txn[c].next /\ txn'[c].done = txn[c].done
      /\ txn'[c].commit = txn[c].commit
  BY <1>1, <1>2 DEF Txn
<1> HIDE DEF Outcomes
<1>4. (Pessimistic(c)' <=> Pessimistic(c)) /\ Steps(c)' = Steps(c) /\ Mutations(c)' = Mutations(c)
  BY <1>3, SameBatch
<1>5. Protocol(c)'
  <2>1. Called(c)' /\ Stage(c)'
    BY <1>1, <1>3, <1>4 DEF Protocol, Called, Stage
  <2>2. Outcomed(c)'
    BY <1>3, NoneIsNothing DEF Outcomed, Outcomes
  <2>3. Deciding(c)'
    BY <1>1, <1>3, <1>4 DEF Protocol, Deciding, Outcomes
  <2> QED BY <2>1, <2>2, <2>3 DEF Protocol
<1>6. Checked(c)'
  BY <1>3 DEF Checked, MetSoFar, ReadSoFar
<1> QED BY <1>2, <1>3, <1>5, <1>6

\* ... and the whole invariant, if it leaves the store alone.
LEMMA EndStep ==
  ASSUME IInv, NEW c \in Calls, NEW p \in {"rollback", "done"}, NEW o \in Outcomes,
         Ends(c, p, o), UNCHANGED <<ts, versions, locks, status>>,
         txn[c].pc \in {"begin", "stage", "acquire", "commit", "rollback"},
         p = "rollback" => o # "committed",
         o = "committed" => status[c] = "committed",
         status[c] = "committed" => p = "done" /\ o # "conflict",
         status[c] = "open" /\ txn[c].commit # 0 => p = "done" /\ o = "error"
  PROVE  IInv'
<1>1. /\ \A d \in Calls : d # c => txn'[d] = txn[d]
      /\ txn' \in [Calls -> Txn]
      /\ txn'[c].pc = p /\ txn'[c].batch = txn[c].batch /\ txn'[c].mode = txn[c].mode
      /\ txn'[c].done = txn[c].done /\ txn'[c].commit = txn[c].commit
      /\ Protocol(c)' /\ Checked(c)'
  <2>1. ts' = ts /\ status'[c] = status[c]
    OBVIOUS
  <2> QED BY <2>1, EndProtocol, Zenon
<1>2. \/ txn'[c].pc # "stage" /\ txn'[c].commit = 0
      \/ txn[c].pc = "stage" \/ txn[c].commit # 0
      \/ txn[c].done = {}
  BY <1>1
<1>3. ts' \in Nat /\ ts <= ts'
  <2>1. ts \in Nat /\ ts' = ts
    BY DEF IInv, Shape
  <2> QED BY <2>1
<1>4. txn'[c].pc \notin {"idle", "begin"}
  BY <1>1
<1> QED BY <1>1, <1>2, <1>3, <1>4, LocalStep

\* Every error is told as a conflict or as an error.
LEMMA OutcomeType ==
  ASSUME NEW errs
  PROVE  Outcome(errs) \in {"conflict", "error"}
BY DEF Outcome

\* Each way in which a call gives up or returns.
LEMMA EndSteps ==
  ASSUME IInv, NEW c \in Calls,
         \/ BeginFails(c) \/ StageFails(c) \/ PrewriteFails(c)
         \/ Committed(c) \/ CommitRejected(c) \/ Undetermined(c) \/ RolledBack(c)
  PROVE  IInv'
<1>1. Protocol(c) /\ status[c] \in {"open", "committed", "rolled_back"} /\ txn[c] \in Txn
  BY CallType
<1>2. CASE BeginFails(c)
  BY <1>1, <1>2, EndStep DEF BeginFails, Return, Ends, Protocol, Called, Deciding, Outcomes
<1>3. CASE StageFails(c)
  <2>1. PICK o \in {"conflict", "error"} : Fail(c, o)
    BY <1>3, OutcomeType DEF StageFails
  <2> QED BY <1>1, <1>3, <2>1, EndStep DEF StageFails, Staging, Fail, Ends, Protocol, Deciding, Outcomes
<1>4. CASE PrewriteFails(c)
  <2>1. PICK o \in {"conflict", "error"} : Fail(c, o)
    BY <1>4, OutcomeType DEF PrewriteFails
  <2> QED BY <1>1, <1>4, <2>1, EndStep DEF PrewriteFails, Staged, Fail, Ends, Protocol, Deciding, Outcomes
<1>5. CASE Committed(c)
  BY <1>1, <1>5, EndStep DEF Committed, Return, Ends, Outcomes
<1>6. CASE CommitRejected(c)
  <2>1. PICK o \in {"conflict", "error"} : Fail(c, o)
    BY <1>6, OutcomeType DEF CommitRejected
  <2> QED BY <1>6, <2>1, EndStep DEF CommitRejected, Fail, Ends, Outcomes
<1>7. CASE Undetermined(c)
  BY <1>1, <1>7, EndStep DEF Undetermined, Return, Ends, Outcomes
<1>8. CASE RolledBack(c)
  BY <1>1, <1>8, EndStep DEF RolledBack, Return, Ends, Protocol, Outcomed, Deciding, Outcomes
<1> QED BY <1>2, <1>3, <1>4, <1>5, <1>6, <1>7, <1>8

\* A transaction stays one when it moves on.
LEMMA Fields ==
  ASSUME NEW r \in Txn, NEW n \in Nat, NEW m \in Nat \ {0}
  PROVE  /\ [r EXCEPT !.pc = "acquire", !.fu = n] \in Txn
         /\ [r EXCEPT !.next = m, !.pc = "stage"] \in Txn
BY DEF Txn

\* An update of one transaction leaves the others alone.
LEMMA Updated ==
  ASSUME txn \in [Calls -> Txn], NEW c \in Calls, NEW r \in Txn, txn' = [txn EXCEPT ![c] = r]
  PROVE  txn' \in [Calls -> Txn] /\ txn'[c] = r /\ \A d \in Calls : d # c => txn'[d] = txn[d]
OBVIOUS

\* A transaction that begins has staged nothing.
LEMMA BeginStep ==
  ASSUME IInv, NEW c \in Calls, Begin(c)
  PROVE  IInv'
<1>1. /\ txn[c] \in Txn /\ ts \in Nat /\ Protocol(c) /\ txn \in [Calls -> Txn]
      /\ txn[c].start \in Nat /\ txn[c].commit = 0 /\ txn[c].next = 1 /\ txn[c].done = {}
      /\ status[c] = "open" /\ txn[c].batch \in Batches /\ txn[c].mode \in Modes
  BY CallType DEF IInv, Shape, Begin, Protocol, Called, Deciding
<1>2. /\ \A d \in Calls : d # c => txn'[d] = txn[d]
      /\ txn'[c] = [txn[c] EXCEPT !.pc = "stage", !.start = ts + 1]
      /\ ts' = ts + 1 /\ UNCHANGED <<versions, locks, status>>
      /\ txn' \in [Calls -> Txn]
  <2>1. ts' = ts + 1 /\ txn' = [txn EXCEPT ![c] = [txn[c] EXCEPT !.pc = "stage", !.start = ts + 1]]
    BY <1>1 DEF Begin
  <2> QED BY <1>1, <2>1 DEF Begin, Txn
<1>3. /\ txn'[c].pc = "stage" /\ txn'[c].start = ts + 1 /\ txn'[c].next = 1 /\ txn'[c].done = {}
      /\ txn'[c].batch = txn[c].batch /\ txn'[c].mode = txn[c].mode /\ txn'[c].commit = 0
  BY <1>1, <1>2 DEF Txn
<1>4. Protocol(c)'
  BY <1>1, <1>2, <1>3 DEF Protocol, Called, Stage, Outcomed, Deciding
<1>5. DOMAIN Pre(c)' = 1 .. Len(Pre(c)')
  BY <1>1, <1>3, BatchShape, SameBatch
<1>6. Checked(c)'
  BY <1>3, <1>5 DEF Checked, MetSoFar, ReadSoFar
<1>7. ts' \in Nat /\ ts <= ts'
  BY <1>1, <1>2
<1> QED BY <1>1, <1>2, <1>3, <1>4, <1>6, <1>7, LocalStep

\* A for-update timestamp is one that has been given out.
LEMMA ForUpdateStep ==
  ASSUME IInv, NEW c \in Calls, ForUpdate(c)
  PROVE  IInv'
<1>1. /\ txn[c] \in Txn /\ ts \in Nat /\ Protocol(c) /\ Checked(c) /\ txn \in [Calls -> Txn]
      /\ txn[c].start \in Nat /\ txn[c].pc = "stage" /\ txn[c].commit = 0
      /\ Pessimistic(c) /\ txn[c].next <= Len(Steps(c))
  BY CallType DEF IInv, Shape, ForUpdate, Staging, Protocol, Deciding
<1>2. /\ \A d \in Calls : d # c => txn'[d] = txn[d]
      /\ txn'[c] = [txn[c] EXCEPT !.pc = "acquire", !.fu = ts + 1]
      /\ ts' = ts + 1 /\ UNCHANGED <<versions, locks, status>>
      /\ txn' \in [Calls -> Txn]
  <2>1. ts' = ts + 1 /\ txn' = [txn EXCEPT ![c] = [txn[c] EXCEPT !.pc = "acquire", !.fu = ts + 1]]
    BY <1>1 DEF ForUpdate
  <2>2. [txn[c] EXCEPT !.pc = "acquire", !.fu = ts + 1] \in Txn
    <3>1. txn[c] \in Txn /\ ts + 1 \in Nat
      BY <1>1
    <3>2. 1 \in Nat \ {0}
      OBVIOUS
    <3> QED BY <3>1, <3>2, Fields, Zenon
  <2> QED BY <1>1, <2>1, <2>2, Updated DEF ForUpdate
<1>3. /\ txn'[c].pc = "acquire" /\ txn'[c].start = txn[c].start /\ txn'[c].next = txn[c].next
      /\ txn'[c].batch = txn[c].batch /\ txn'[c].mode = txn[c].mode /\ txn'[c].commit = 0
      /\ txn'[c].done = txn[c].done
  BY <1>1, <1>2 DEF Txn
<1>4. /\ Pessimistic(c)' <=> Pessimistic(c)
      /\ Steps(c)' = Steps(c) /\ Mutations(c)' = Mutations(c) /\ Pre(c)' = Pre(c)
  BY <1>3, SameBatch
<1>5. Protocol(c)'
  <2>1. Called(c)'
    BY <1>1, <1>3 DEF Protocol, Called
  <2>2. Stage(c)'
    BY <1>1, <1>2, <1>3, <1>4 DEF Protocol, Stage
  <2>3. Outcomed(c)' /\ Deciding(c)'
    BY <1>1, <1>2, <1>3 DEF Protocol, Outcomed, Deciding
  <2> QED BY <2>1, <2>2, <2>3 DEF Protocol
<1>6. Checked(c)'
  <2>1. \A k : Own(c, k)' <=> Own(c, k)
    BY <1>2 DEF Own
  <2>2. MetSoFar(c)'
    BY <1>1, <1>2, <1>3, <1>4, <2>1 DEF Checked, MetSoFar
  <2> QED BY <1>1, <1>4, <2>2 DEF Checked, ReadSoFar
<1>7. ts' \in Nat /\ ts <= ts' /\ (txn'[c].commit = txn[c].commit \/ txn'[c].commit > ts)
  BY <1>1, <1>2, <1>3
<1> QED BY <1>1, <1>2, <1>3, <1>5, <1>6, <1>7, LocalStep

\* A commit timestamp is above every earlier one, and all keys are locked.
LEMMA CommitTsStep ==
  ASSUME IInv, NEW c \in Calls, CommitTs(c)
  PROVE  IInv'
<1>1. /\ txn[c] \in Txn /\ ts \in Nat /\ Protocol(c) /\ txn \in [Calls -> Txn]
      /\ txn[c].start \in Nat /\ txn[c].start <= ts /\ txn[c].pc = "stage" /\ txn[c].commit = 0
      /\ txn[c].done = Mutations(c) /\ status[c] # "committed"
  BY CallType DEF IInv, Shape, CommitTs, Staged, Protocol, Deciding, Stage
<1>2. /\ \A d \in Calls : d # c => txn'[d] = txn[d]
      /\ txn'[c] = [txn[c] EXCEPT !.pc = "commit", !.commit = ts + 1]
      /\ ts' = ts + 1 /\ UNCHANGED <<versions, locks, status>>
      /\ txn' \in [Calls -> Txn]
  BY <1>1 DEF CommitTs, Txn
<1>3. /\ txn'[c].pc = "commit" /\ txn'[c].start = txn[c].start /\ txn'[c].next = txn[c].next
      /\ txn'[c].batch = txn[c].batch /\ txn'[c].mode = txn[c].mode /\ txn'[c].commit = ts + 1
      /\ txn'[c].done = txn[c].done
  BY <1>1, <1>2 DEF Txn
<1>4. (Pessimistic(c)' <=> Pessimistic(c)) /\ Steps(c)' = Steps(c) /\ Mutations(c)' = Mutations(c)
  BY <1>3, SameBatch
<1>5. Protocol(c)'
  <2>1. Called(c)'
    BY <1>1, <1>3 DEF Protocol, Called
  <2>2. Stage(c)'
    BY <1>1, <1>2, <1>3, <1>4 DEF Protocol, Stage
  <2>3. Outcomed(c)' /\ Deciding(c)'
    BY <1>1, <1>2, <1>3, <1>4 DEF Protocol, Outcomed, Deciding
  <2> QED BY <2>1, <2>2, <2>3 DEF Protocol
<1>6. Checked(c)'
  BY <1>3 DEF Checked, MetSoFar, ReadSoFar
<1>7. ts' \in Nat /\ ts <= ts' /\ (txn'[c].commit = txn[c].commit \/ txn'[c].commit > ts)
  BY <1>1, <1>2, <1>3
<1> QED BY <1>1, <1>2, <1>3, <1>5, <1>6, <1>7, LocalStep

\* stage() goes on to the next key; or a precondition does not hold.
LEMMA CheckStep ==
  ASSUME txn \in [Calls -> Txn], NEW c \in Calls, NEW actual, Check(c, actual)
  PROVE  /\ \A d \in Calls : d # c => txn'[d] = txn[d]
         /\ txn' \in [Calls -> Txn]
         /\ txn'[c].batch = txn[c].batch /\ txn'[c].mode = txn[c].mode /\ txn'[c].done = txn[c].done
         /\ txn'[c].start = txn[c].start /\ txn'[c].commit = txn[c].commit
         /\ \/ /\ txn[c].next <= Len(Pre(c)) => actual = Pre(c)[txn[c].next].expected
               /\ txn'[c].pc = "stage" /\ txn'[c].next = txn[c].next + 1
            \/ Fail(c, "conflict") /\ txn'[c].pc = "rollback" /\ txn'[c].next = txn[c].next
<1>1. txn[c] \in Txn
  OBVIOUS
<1>2. CASE txn' = [txn EXCEPT ![c].next = @ + 1, ![c].pc = "stage"]
           /\ (txn[c].next <= Len(Pre(c)) => actual = Pre(c)[txn[c].next].expected)
  <2>1. txn' = [txn EXCEPT ![c] = [txn[c] EXCEPT !.next = txn[c].next + 1, !.pc = "stage"]]
    BY <1>2
  <2>2. txn[c].next + 1 \in Nat \ {0} /\ 0 \in Nat
    BY <1>1 DEF Txn
  <2>5. [txn[c] EXCEPT !.next = txn[c].next + 1, !.pc = "stage"] \in Txn
    BY <1>1, <2>2, Fields, Zenon
  <2>3. \A d \in Calls : d # c => txn'[d] = txn[d]
    BY <2>1
  <2>4. txn'[c] = [txn[c] EXCEPT !.next = txn[c].next + 1, !.pc = "stage"] /\ txn' \in [Calls -> Txn]
    BY <2>1, <2>5, Updated
  <2> QED BY <1>1, <1>2, <2>3, <2>4 DEF Txn
<1>3. CASE Fail(c, "conflict")
  <2>1. txn' = [txn EXCEPT ![c] = [txn[c] EXCEPT !.pc = "rollback", !.out = "conflict"]]
    BY <1>3 DEF Fail
  <2> QED BY <1>1, <1>3, <2>1 DEF Txn, Outcomes
<1> QED BY <1>2, <1>3 DEF Check

\* A precondition that is read false ends the transaction.
LEMMA ReadStep ==
  ASSUME IInv, NEW c \in Calls, Read(c)
  PROVE  IInv'
<1> DEFINE k == Key(c)
<1>1. /\ txn[c] \in Txn /\ ts \in Nat /\ Protocol(c) /\ Checked(c) /\ txn \in [Calls -> Txn]
      /\ txn[c].start \in Nat /\ txn[c].pc = "stage" /\ txn[c].commit = 0 /\ txn[c].next \in Nat
      /\ ~Pessimistic(c) /\ txn[c].next <= Len(Steps(c)) /\ txn[c].batch \in Batches
      /\ status[c] # "committed"
  BY CallType DEF IInv, Shape, Read, Staging, Protocol, Deciding, Called
<1>2. /\ Check(c, At(k, txn[c].start)) /\ UNCHANGED <<ts, versions, locks, status>>
      /\ Foreign(c, k) => \/ locks[k].kind = "pessimistic"
                          \/ k \notin Writes(locks[k].call)
                          \/ txn[locks[k].call].start > txn[c].start
  BY DEF Read
<1>3. CASE Fail(c, "conflict")
  BY <1>1, <1>2, <1>3, EndStep DEF Fail, Ends, Outcomes
<1>4. CASE txn'[c].pc = "stage"
  <2>1. /\ \A d \in Calls : d # c => txn'[d] = txn[d]
        /\ txn' \in [Calls -> Txn]
        /\ txn'[c].batch = txn[c].batch /\ txn'[c].mode = txn[c].mode /\ txn'[c].done = txn[c].done
        /\ txn'[c].start = txn[c].start /\ txn'[c].commit = txn[c].commit
        /\ txn'[c].next = txn[c].next + 1
        /\ txn[c].next <= Len(Pre(c)) => At(k, txn[c].start) = Pre(c)[txn[c].next].expected
    BY <1>1, <1>2, <1>4, CheckStep
  <2>2. /\ (Pessimistic(c)' <=> Pessimistic(c)) /\ Steps(c)' = Steps(c) /\ Mutations(c)' = Mutations(c)
        /\ Pre(c)' = Pre(c)
    BY <2>1, SameBatch
  <2>3. Protocol(c)'
    <3>1. Len(Steps(c)) \in Nat
      BY <1>1, StepsShape
    <3>2. Called(c)' /\ Outcomed(c)' /\ Deciding(c)'
      BY <1>1, <1>2, <1>4, <2>1 DEF Protocol, Called, Outcomed, Deciding
    <3>3. Stage(c)'
      BY <1>1, <1>2, <1>4, <2>1, <2>2, <3>1 DEF Protocol, Stage
    <3> QED BY <3>2, <3>3 DEF Protocol
  <2>4. Settled(c, k)
    <3>1. SUFFICES ASSUME NEW d \in Calls, Holds(d, k, "prewritten"), k \in Writes(d), txn[d].commit # 0
                   PROVE  txn[d].commit > txn[c].start
      BY DEF Settled
    <3>2. locks[k].call = d /\ locks[k].kind = "prewritten" /\ locks[k] \in Locks /\ d # c
      BY <1>1, <3>1 DEF Holds, Locks
    <3>3. txn[d].start > txn[c].start
      BY <1>2, <3>1, <3>2, NoneIsNothing DEF Foreign
    <3>4. txn[d].commit > txn[d].start /\ txn[d].commit \in Nat /\ txn[d].start \in Nat
      BY <3>1, CallType DEF Protocol, Deciding
    <3> QED BY <1>1, <3>3, <3>4
  <2>5. ReadSoFar(c)'
    <3>1. SUFFICES ASSUME NEW i \in DOMAIN Pre(c), i < txn[c].next + 1
                   PROVE  /\ At(Pre(c)[i].key, txn[c].start) = Pre(c)[i].expected
                          /\ Settled(c, Pre(c)[i].key)
      <4>1. \A d \in Calls : Writes(d)' = Writes(d) /\ txn'[d].commit = txn[d].commit
        BY <2>1, SameBatch
      <4>2. ASSUME NEW q, Settled(c, q) PROVE Settled(c, q)'
        BY <1>2, <2>1, <4>1, <4>2 DEF Settled, Holds
      <4>3. \A q, t : At(q, t)' = At(q, t)
        BY <1>2 DEF At
      <4> QED BY <2>1, <2>2, <4>2, <4>3 DEF ReadSoFar
    <3>2. i \in Nat /\ DOMAIN Pre(c) = 1 .. Len(Pre(c)) /\ Len(Pre(c)) \in Nat
      BY <1>1, BatchShape
    <3>3. CASE i < txn[c].next
      BY <1>1, <3>3 DEF Checked, ReadSoFar
    <3>4. CASE i = txn[c].next
      <4>1. k = Pre(c)[i].key
        BY <1>1, <3>4, StepsShape DEF Key
      <4> QED BY <2>1, <2>4, <3>2, <3>4, <4>1
    <3> QED BY <1>1, <3>1, <3>2, <3>3, <3>4
  <2>6. Checked(c)'
    BY <1>1, <2>2, <2>5 DEF Checked, MetSoFar
  <2>7. ts' \in Nat /\ ts <= ts'
    BY <1>1, <1>2
  <2> QED BY <1>1, <1>2, <1>4, <2>1, <2>3, <2>6, <2>7, LocalStep
<1> QED BY <1>1, <1>2, <1>3, <1>4, CheckStep

\* A call starts with a batch of Batches.
LEMMA CallStep ==
  ASSUME IInv, NEW c \in Calls, Call(c)
  PROVE  IInv'
<1>1. /\ txn[c] \in Txn /\ ts \in Nat /\ Protocol(c) /\ Checked(c) /\ txn \in [Calls -> Txn]
      /\ txn[c].pc = "idle" /\ status[c] = "open"
      /\ UNCHANGED <<ts, versions, locks, status>>
  BY CallType DEF IInv, Shape, Call, Protocol, Called
<1>2. PICK b \in Batches : \E m \in Modes :
        txn' = [txn EXCEPT ![c] = [NotCalled EXCEPT !.pc = "begin", !.batch = b, !.mode = m]]
  BY DEF Call
<1>3. PICK m \in Modes :
        txn' = [txn EXCEPT ![c] = [NotCalled EXCEPT !.pc = "begin", !.batch = b, !.mode = m]]
  BY <1>2
<1>4. [NotCalled EXCEPT !.pc = "begin", !.batch = b, !.mode = m] \in Txn
  <2>1. 0 \in Nat /\ 1 \in Nat \ {0}
    OBVIOUS
  <2> QED BY <2>1 DEF NotCalled, Txn
<1>5. /\ \A d \in Calls : d # c => txn'[d] = txn[d]
      /\ txn'[c] = [NotCalled EXCEPT !.pc = "begin", !.batch = b, !.mode = m]
      /\ txn' \in [Calls -> Txn]
  BY <1>1, <1>3, <1>4, Updated, Zenon
<1>6. /\ txn'[c].pc = "begin" /\ txn'[c].batch = b /\ txn'[c].mode = m /\ txn'[c].start = 0
      /\ txn'[c].next = 1 /\ txn'[c].done = {} /\ txn'[c].commit = 0
  BY <1>5 DEF NotCalled
<1>7. Shape'
  BY <1>1, <1>5 DEF IInv, Shape
<1>8. \A k \in Keys : ~Own(c, k) /\ ~Holds(c, k, "prewritten")
  BY <1>1, NoneIsNothing DEF IInv, Guarded, Owned, Own, Holds, Locks
<1>9. ASSUME NEW d \in Calls PROVE Protocol(d)'
  <2>1. CASE d = c
    BY <1>1, <1>6, <2>1 DEF Protocol, Called, Stage, Outcomed, Deciding
  <2>2. CASE d # c
    BY <1>1, <1>5, <2>2, OtherCall
  <2> QED BY <2>1, <2>2
<1>10. ASSUME NEW d \in Calls, NEW k \in Keys PROVE Guarded(d, k)'
  <2>1. CASE d = c
    BY <1>1, <1>6, <1>8, <2>1 DEF Guarded, Owned, Kept, Latest, Met, Own, Holds
  <2>2. CASE d # c
    <3>1. Guarded(d, k) /\ txn'[d] = txn[d] /\ Mutations(d)' = Mutations(d) /\ Pre(d)' = Pre(d)
      BY <1>5, <2>2, SameBatch DEF IInv
    <3> QED BY <1>1, <3>1 DEF Guarded, Owned, Kept, Latest, Met, Own, Holds
  <2> QED BY <2>1, <2>2
<1>11. ASSUME NEW d \in Calls PROVE Checked(d)'
  <2>1. CASE d = c
    BY <1>6, <2>1 DEF Checked, MetSoFar, ReadSoFar
  <2>2. CASE d # c
    <3>1. /\ Checked(d) /\ txn'[d] = txn[d] /\ Pre(d)' = Pre(d)
          /\ Pessimistic(d)' <=> Pessimistic(d)
      BY <1>5, <2>2, SameBatch DEF IInv
    <3>2. MetSoFar(d)'
      <4>1. \A k : Own(d, k)' <=> Own(d, k)
        BY <1>1 DEF Own
      <4> QED BY <1>1, <3>1, <4>1 DEF Checked, MetSoFar
    <3>3. ASSUME NEW k, Settled(d, k) PROVE Settled(d, k)'
      <4>1. \A e \in Calls : e # c => Writes(e)' = Writes(e)
        BY <1>5, SameBatch
      <4> QED BY <1>1, <1>5, <1>6, <3>1, <3>3, <4>1 DEF Settled, Holds
    <3>4. ReadSoFar(d)'
      BY <1>1, <3>1, <3>3 DEF Checked, ReadSoFar, At
    <3> QED BY <3>2, <3>4 DEF Checked
  <2> QED BY <2>1, <2>2
<1>12. NoTornBatch'
  <2>1. \A d \in Calls : d # c => Writes(d)' = Writes(d)
    BY <1>5, SameBatch
  <2> QED BY <1>1, <1>5, <2>1 DEF IInv, NoTornBatch, Holds
<1> QED BY <1>7, <1>9, <1>10, <1>11, <1>12 DEF IInv

-----------------------------------------------------------------------------
(* Locks                                                                     *)

\* A lock is a record that names its transaction, and nothing else.
LEMMA LockType ==
  ASSUME Shape, NEW c \in Calls, NEW k \in Keys
  PROVE  /\ Own(c, k) <=> Holds(c, k, "pessimistic") \/ Holds(c, k, "prewritten")
         /\ Own(c, k) => locks[k].call = c
         /\ \A d \in Calls : Own(c, k) /\ Own(d, k) => d = c
         /\ ~Foreign(c, k) => \A d \in Calls : Own(d, k) => d = c
<1>1. locks[k] \in Locks \union {None}
  BY DEF Shape
<1>2. \A d \in Calls : /\ [call |-> d, kind |-> "pessimistic"] # None
                       /\ [call |-> d, kind |-> "prewritten"] # None
  BY NoneIsNothing DEF Locks
<1> QED BY <1>1, <1>2 DEF Own, Holds, Foreign, Locks

\* What call c takes a lock of is no concern of the other calls.
LEMMA LockTaken ==
  ASSUME IInv, NEW c \in Calls, NEW q \in Keys, NEW kind \in {"pessimistic", "prewritten"},
         ~Foreign(c, q), locks' = [locks EXCEPT ![q] = [call |-> c, kind |-> kind]],
         UNCHANGED <<ts, versions, status>>,
         txn' \in [Calls -> Txn], \A d \in Calls : d # c => txn'[d] = txn[d],
         txn'[c].batch = txn[c].batch, txn'[c].mode = txn[c].mode,
         txn[c].commit = 0, txn'[c].commit = 0,
         Protocol(c)', Checked(c)', \A k \in Keys : Guarded(c, k)'
  PROVE  IInv'
<1>1. Shape'
  <2>1. locks' \in [Keys -> Locks \union {None}]
    BY DEF IInv, Shape, Locks
  <2> QED BY <2>1 DEF IInv, Shape
<1>2. ASSUME NEW d \in Calls PROVE Protocol(d)'
  <2>1. ts' \in Nat /\ ts <= ts' /\ status'[d] = status[d]
    <3>1. ts \in Nat /\ ts' = ts
      BY DEF IInv, Shape
    <3> QED BY <3>1
  <2>2. CASE d # c
    BY <2>1, <2>2, OtherCall
  <2> QED BY <2>2
<1>3. ASSUME NEW d \in Calls, d # c, NEW k \in Keys
      PROVE  /\ Own(d, k)' <=> Own(d, k)
             /\ Holds(d, k, "prewritten")' <=> Holds(d, k, "prewritten")
  <2>1. CASE k # q
    BY <2>1 DEF IInv, Shape, Own, Holds
  <2>2. CASE k = q
    <3>1. ~Own(d, q) /\ ~Holds(d, q, "prewritten")
      BY <1>3, LockType DEF IInv
    <3>2. ~Own(d, q)' /\ ~Holds(d, q, "prewritten")'
      BY <1>3 DEF IInv, Shape, Own, Holds
    <3> QED BY <2>2, <3>1, <3>2
  <2> QED BY <2>1, <2>2
<1>4. \A d \in Calls : /\ Pre(d)' = Pre(d) /\ Writes(d)' = Writes(d) /\ Mutations(d)' = Mutations(d)
                       /\ Pessimistic(d)' <=> Pessimistic(d)
  BY SameBatch
<1>5. ASSUME NEW d \in Calls, d # c, NEW k \in Keys PROVE Guarded(d, k)'
  <2>1. Guarded(d, k) /\ txn'[d] = txn[d]
    BY <1>5 DEF IInv
  <2> QED BY <1>3, <1>4, <1>5, <2>1 DEF Guarded, Owned, Kept, Latest, Met
<1>6. ASSUME NEW d \in Calls, d # c PROVE Checked(d)'
  <2>1. Checked(d) /\ txn'[d] = txn[d] /\ Protocol(d)
    BY <1>6 DEF IInv
  <2>2. txn[d].pc # "idle" => \A i \in DOMAIN Pre(d) : Pre(d)[i].key \in Keys
    BY <2>1, BatchShape DEF Protocol, Called
  <2>3. MetSoFar(d)'
    BY <1>3, <1>4, <1>6, <2>1, <2>2 DEF Checked, MetSoFar
  <2>4. ASSUME NEW k \in Keys, Settled(d, k) PROVE Settled(d, k)'
    <3>1. \A e \in Calls : e # c => txn'[e].commit = txn[e].commit
      OBVIOUS
    <3> QED BY <1>3, <1>4, <1>6, <2>1, <2>4, <3>1 DEF Settled
  <2>5. ReadSoFar(d)'
    BY <1>4, <2>1, <2>2, <2>4 DEF Checked, ReadSoFar, At
  <2> QED BY <2>3, <2>5 DEF Checked
<1>7. NoTornBatch'
  <2>1. SUFFICES ASSUME NEW d \in Calls, status[d] = "committed", NEW k \in Writes(d)
                 PROVE  \/ Holds(d, k, "prewritten")'
                        \/ \E v \in versions[k] : v.ts = txn'[d].commit
    BY <1>4 DEF NoTornBatch
  <2>2. d # c /\ k \in Keys
    BY <2>1, BatchShape DEF IInv, Protocol, Deciding, Called
  <2> QED BY <1>3, <2>1, <2>2 DEF IInv, NoTornBatch
<1> QED BY <1>1, <1>2, <1>5, <1>6, <1>7 DEF IInv

\* The newest of the versions is the newest of those that are not too new, if
\* none is.
LEMMA NewestIsAt ==
  ASSUME Shape, NEW k \in Keys, NEW t \in Nat, ~NewerThan(k, t)
  PROVE  At(k, t) = Newest(versions[k]).val
<1>1. \A v \in versions[k] : v.ts <= t
  <2>1. ASSUME NEW v \in versions[k] PROVE v.ts <= t
    <3>1. v.ts \in Nat
      BY VersionType
    <3>2. ~ (v.ts > t)
      BY DEF NewerThan
    <3> QED BY <3>1, <3>2
  <2> QED BY <2>1
<1>2. {v \in versions[k] : v.ts <= t} = versions[k]
  BY <1>1
<1> QED BY <1>2 DEF At

\* A pessimistic lock keeps others from committing to the key.
LEMMA AcquireStep ==
  ASSUME IInv, NEW c \in Calls, Acquire(c)
  PROVE  IInv'
<1> DEFINE q == Key(c)
<1>1. /\ txn[c] \in Txn /\ ts \in Nat /\ Protocol(c) /\ Checked(c) /\ txn \in [Calls -> Txn] /\ Shape
      /\ txn[c].pc = "acquire" /\ txn[c].commit = 0 /\ txn[c].next \in Nat \ {0}
      /\ Pessimistic(c) /\ txn[c].next <= Len(Steps(c)) /\ txn[c].batch \in Batches
      /\ status[c] # "committed"
  BY CallType DEF IInv, Shape, Acquire, Protocol, Deciding, Called, Stage, Txn
<1>2. /\ ~Foreign(c, q) /\ locks' = [locks EXCEPT ![q] = [call |-> c, kind |-> "pessimistic"]]
      /\ Check(c, Newest(versions[q]).val) /\ UNCHANGED <<ts, versions, status>>
  BY DEF Acquire
<1>3. q \in Mutations(c) /\ q \in Keys /\ Len(Steps(c)) \in Nat /\ txn[c].done = {}
  <2>1. Len(Steps(c)) \in Nat /\ txn[c].next \in 1 .. Len(Steps(c))
    BY <1>1, StepsShape
  <2>2. q \in Mutations(c)
    BY <1>1, <2>1, StepsShape DEF Key
  <2> QED BY <1>1, <2>1, <2>2, BatchShape DEF Protocol, Stage
<1>4. /\ \A d \in Calls : d # c => txn'[d] = txn[d]
      /\ txn' \in [Calls -> Txn]
      /\ txn'[c].batch = txn[c].batch /\ txn'[c].mode = txn[c].mode /\ txn'[c].done = txn[c].done
      /\ txn'[c].start = txn[c].start /\ txn'[c].commit = txn[c].commit
      /\ \/ /\ txn[c].next <= Len(Pre(c)) => Newest(versions[q]).val = Pre(c)[txn[c].next].expected
            /\ txn'[c].pc = "stage" /\ txn'[c].next = txn[c].next + 1
         \/ Fail(c, "conflict") /\ txn'[c].pc = "rollback" /\ txn'[c].next = txn[c].next
  BY <1>1, <1>2, CheckStep
<1> HIDE DEF q
<1>5. /\ (Pessimistic(c)' <=> Pessimistic(c)) /\ Steps(c)' = Steps(c) /\ Mutations(c)' = Mutations(c)
      /\ Pre(c)' = Pre(c)
  BY <1>4, SameBatch
<1>6. ASSUME NEW k \in Keys
      PROVE  /\ k = q => Own(c, k)' /\ ~Holds(c, k, "prewritten")'
             /\ k # q => /\ Own(c, k)' <=> Own(c, k)
                         /\ Holds(c, k, "prewritten")' <=> Holds(c, k, "prewritten")
  <2>1. [call |-> c, kind |-> "pessimistic"] # None
    BY NoneIsNothing DEF Locks
  <2> QED BY <1>1, <1>2, <2>1 DEF Shape, Own, Holds
<1>7. Protocol(c)' /\ Checked(c)'
  <2>1. CASE Fail(c, "conflict")
    BY <1>1, <1>2, <2>1, EndProtocol DEF Fail, Ends, Outcomes
  <2>2. CASE /\ txn[c].next <= Len(Pre(c)) => Newest(versions[q]).val = Pre(c)[txn[c].next].expected
             /\ txn'[c].pc = "stage" /\ txn'[c].next = txn[c].next + 1
    <3>1. Called(c)' /\ Outcomed(c)' /\ Deciding(c)'
      BY <1>1, <1>2, <1>4, <2>2 DEF Protocol, Called, Outcomed, Deciding
    <3>2. Stage(c)'
      BY <1>1, <1>2, <1>3, <1>4, <1>5, <2>2 DEF Protocol, Stage
    <3>3. MetSoFar(c)'
      <4>1. SUFFICES ASSUME status[c] = "open", NEW i \in DOMAIN Pre(c), i < txn[c].next + 1,
                            NEW k, k = Pre(c)[i].key
                     PROVE  Own(c, k)' /\ Newest(versions[k]).val = Pre(c)[i].expected
        BY <1>2, <1>5, <2>2 DEF MetSoFar
      <4>2. i \in Nat /\ DOMAIN Pre(c) = 1 .. Len(Pre(c)) /\ Len(Pre(c)) \in Nat /\ k \in Keys
        BY <1>1, <4>1, BatchShape
      <4>3. CASE i < txn[c].next
        <5>1. Own(c, k) /\ Newest(versions[k]).val = Pre(c)[i].expected
          BY <1>1, <4>1, <4>3 DEF Checked, MetSoFar
        <5> QED BY <1>6, <4>2, <5>1
      <4>4. CASE i = txn[c].next
        <5>1. q = k
          BY <1>1, <4>1, <4>4, StepsShape DEF q, Key
        <5> QED BY <1>6, <2>2, <4>2, <4>4, <5>1
      <4> QED BY <1>1, <4>1, <4>2, <4>3, <4>4
    <3>4. ReadSoFar(c)'
      BY <1>1, <1>5 DEF ReadSoFar
    <3> QED BY <3>1, <3>2, <3>3, <3>4 DEF Protocol, Checked
  <2> QED BY <1>4, <2>1, <2>2
<1>8. ASSUME NEW k \in Keys PROVE Guarded(c, k)'
  <2>1. Guarded(c, k)
    BY DEF IInv
  <2>2. txn'[c].pc \notin {"idle", "begin"}
    BY <1>4
  <2>3. Owned(c, k)'
    BY <1>1, <1>2, <1>3, <1>5, <1>6, <2>1, <2>2 DEF Guarded, Owned
  <2>4. Kept(c, k)' /\ Latest(c, k)'
    BY <1>1, <1>3, <1>4 DEF Kept, Latest
  <2>5. Met(c, k)'
    BY <1>2, <1>5, <1>6, <2>1 DEF Guarded, Met
  <2> QED BY <2>3, <2>4, <2>5 DEF Guarded
<1> QED BY <1>1, <1>2, <1>3, <1>4, <1>7, <1>8, LockTaken

\* A prewrite checks for newer versions and for other locks.
LEMMA PrewriteStep ==
  ASSUME IInv, NEW c \in Calls, NEW q \in Keys, Prewrite(c, q)
  PROVE  IInv'
<1>1. /\ txn[c] \in Txn /\ ts \in Nat /\ Protocol(c) /\ Checked(c) /\ txn \in [Calls -> Txn] /\ Shape
      /\ txn[c].pc = "stage" /\ txn[c].commit = 0 /\ txn[c].next \in Nat /\ txn[c].start \in Nat
      /\ txn[c].next > Len(Steps(c)) /\ txn[c].batch \in Batches
      /\ status[c] # "committed" /\ q \in Mutations(c)
  BY CallType DEF IInv, Shape, Prewrite, Staged, Protocol, Deciding, Called
<1>2. /\ ~Foreign(c, q) /\ locks' = [locks EXCEPT ![q] = [call |-> c, kind |-> "prewritten"]]
      /\ Pessimistic(c) => Own(c, q)
      /\ ~Pessimistic(c) => ~NewerThan(q, txn[c].start)
      /\ txn' = [txn EXCEPT ![c].done = @ \union {q}] /\ UNCHANGED <<ts, versions, status>>
  BY DEF Prewrite, Refused
<1>3. /\ \A d \in Calls : d # c => txn'[d] = txn[d]
      /\ txn'[c] = [txn[c] EXCEPT !.done = txn[c].done \union {q}]
      /\ txn' \in [Calls -> Txn]
  BY <1>1, <1>2 DEF Txn
<1>4. /\ txn'[c].batch = txn[c].batch /\ txn'[c].mode = txn[c].mode /\ txn'[c].pc = "stage"
      /\ txn'[c].start = txn[c].start /\ txn'[c].commit = 0 /\ txn'[c].next = txn[c].next
      /\ txn'[c].done = txn[c].done \union {q} /\ txn'[c].out = txn[c].out
  BY <1>1, <1>3 DEF Txn
<1>5. /\ (Pessimistic(c)' <=> Pessimistic(c)) /\ Steps(c)' = Steps(c) /\ Mutations(c)' = Mutations(c)
      /\ Pre(c)' = Pre(c)
  BY <1>4, SameBatch
<1>6. ASSUME NEW k \in Keys
      PROVE  /\ k = q => Own(c, k)' /\ Holds(c, k, "prewritten")'
             /\ k # q => /\ Own(c, k)' <=> Own(c, k)
                         /\ Holds(c, k, "prewritten")' <=> Holds(c, k, "prewritten")
  <2>1. [call |-> c, kind |-> "prewritten"] # None
    BY NoneIsNothing DEF Locks
  <2> QED BY <1>1, <1>2, <2>1 DEF Shape, Own, Holds
<1>7. Protocol(c)'
  BY <1>1, <1>2, <1>4, <1>5 DEF Protocol, Called, Stage, Outcomed, Deciding
<1>8. /\ Len(Pre(c)) \in Nat /\ Len(Steps(c)) \in Nat /\ Len(Pre(c)) <= Len(Steps(c))
      /\ \A i \in DOMAIN Pre(c) : Pre(c)[i].key \in Keys /\ i < txn[c].next
  <2>1. /\ Len(Pre(c)) \in Nat /\ Len(Steps(c)) \in Nat /\ Len(Pre(c)) <= Len(Steps(c))
        /\ DOMAIN Pre(c) = 1 .. Len(Pre(c)) /\ \A i \in DOMAIN Pre(c) : Pre(c)[i].key \in Keys
    BY <1>1, BatchShape, StepsShape
  <2> QED BY <1>1, <2>1
<1>9. Checked(c)'
  <2>1. MetSoFar(c)'
    BY <1>1, <1>2, <1>4, <1>5, <1>6, <1>8 DEF Checked, MetSoFar
  <2>2. ASSUME NEW k \in Keys, Settled(c, k) PROVE Settled(c, k)'
    <3>1. ASSUME NEW d \in Calls, d # c PROVE Writes(d)' = Writes(d) /\ (Holds(d, k, "prewritten")' => Holds(d, k, "prewritten"))
      <4>1. Writes(d)' = Writes(d)
        BY <1>3, <3>1, SameBatch
      <4>2. Holds(d, k, "prewritten")' => Holds(d, k, "prewritten")
        BY <1>1, <1>2, <3>1 DEF Shape, Holds
      <4> QED BY <4>1, <4>2
    <3> QED BY <1>3, <1>4, <2>2, <3>1 DEF Settled
  <2>3. ReadSoFar(c)'
    BY <1>1, <1>2, <1>4, <1>5, <1>8, <2>2 DEF Checked, ReadSoFar, At
  <2> QED BY <2>1, <2>3 DEF Checked
<1>10. ASSUME status[c] = "open", NEW i \in DOMAIN Pre(c), Pre(c)[i].key = q
       PROVE  Newest(versions[q]).val = Pre(c)[i].expected
  <2>1. CASE Pessimistic(c)
    BY <1>1, <1>8, <1>10, <2>1 DEF Checked, MetSoFar
  <2>2. CASE ~Pessimistic(c)
    <3>1. At(q, txn[c].start) = Pre(c)[i].expected
      BY <1>1, <1>8, <1>10, <2>2 DEF Checked, ReadSoFar
    <3> QED BY <1>1, <1>2, <2>2, <3>1, NewestIsAt
  <2> QED BY <2>1, <2>2
<1>11. ASSUME NEW k \in Keys PROVE Guarded(c, k)'
  <2>1. Guarded(c, k)
    BY DEF IInv
  <2>2. Owned(c, k)'
    BY <1>1, <1>2, <1>4, <1>5, <1>6, <2>1 DEF Guarded, Owned
  <2>3. Kept(c, k)'
    BY <1>1, <1>2, <1>4, <1>6, <2>1 DEF Guarded, Kept
  <2>4. Latest(c, k)'
    BY <1>4 DEF Latest
  <2>5. Met(c, k)'
    BY <1>2, <1>5, <1>6, <1>10, <2>1 DEF Guarded, Met
  <2> QED BY <2>2, <2>3, <2>4, <2>5 DEF Guarded
<1> QED BY <1>1, <1>2, <1>3, <1>4, <1>7, <1>9, <1>11, LockTaken

-----------------------------------------------------------------------------
(* Publishing and unlocking                                                  *)

\* The version that a call's commit adds to a key it writes.
Written(c, k) == [ts |-> txn[c].commit, val |-> txn[c].batch.writes[k]]

\* A lock that is gone is nobody's.
LEMMA NotLocked ==
  ASSUME NEW d \in Calls, NEW k \in Keys, locks'[k] = None
  PROVE  ~Own(d, k)' /\ ~Holds(d, k, "prewritten")'
<1>1. [call |-> d, kind |-> "prewritten"] # None
  BY NoneIsNothing DEF Locks
<1> QED BY <1>1 DEF Own, Holds

\* What publishing does to each key.
LEMMA Published ==
  ASSUME Shape, NEW c \in Calls, txn[c].batch \in Batches, NEW q, Publish(c, q), NEW k \in Keys
  PROVE  /\ k # q => versions'[k] = versions[k] /\ locks'[k] = locks[k]
         /\ k = q => locks'[k] = None
         /\ k = q /\ k \in Writes(c) =>
              versions'[k] = versions[k] \union {Written(c, k)}
         /\ k = q /\ k \notin Writes(c) => versions'[k] = versions[k]
         /\ versions[k] \subseteq versions'[k]
         /\ versions' \in [Keys -> SUBSET Version]
         /\ locks' \in [Keys -> Locks \union {None}]
<1>1. versions \in [Keys -> SUBSET Version] /\ locks \in [Keys -> Locks \union {None}] /\ txn[c] \in Txn
  BY DEF Shape
<1>2. ASSUME q \in Writes(c)
      PROVE  Written(c, q) \in Version /\ q \in Keys
  BY <1>1, <1>2, BatchShape DEF Written, Version, Txn
<1>3. CASE q \in Writes(c)
  <2> DEFINE v == Written(c, q)
  <2>1. v \in Version /\ q \in Keys
    BY <1>2, <1>3
  <2>2. versions' = [versions EXCEPT ![q] = versions[q] \union {v}] /\ locks' = [locks EXCEPT ![q] = None]
    BY <1>3 DEF Publish, Written
  <2> HIDE DEF v
  <2>3. /\ k # q => versions'[k] = versions[k]
        /\ k = q => versions'[k] = versions[k] \union {v}
        /\ versions' \in [Keys -> SUBSET Version]
    BY <1>1, <2>1, <2>2
  <2>4. /\ k # q => locks'[k] = locks[k]
        /\ k = q => locks'[k] = None
        /\ locks' \in [Keys -> Locks \union {None}]
    BY <1>1, <2>2
  <2> QED BY <1>3, <2>3, <2>4 DEF v
<1>4. CASE q \notin Writes(c)
  BY <1>1, <1>4 DEF Publish
<1> QED BY <1>3, <1>4

\* The primary of c says s, and no other primary anything new.
Decided(c, s) ==
  /\ status' \in [Calls -> {"open", "committed", "rolled_back"}]
  /\ status'[c] = s
  /\ \A d \in Calls : d # c => status'[d] = status[d]

\* A committed, or committing, transaction publishes a key and lets go of it.
LEMMA PublishStep ==
  ASSUME IInv, NEW c \in Calls, NEW q, Publish(c, q),
         q \in Keys => Holds(c, q, "prewritten"), q \notin Keys => Writes(c) = {},
         txn[c].commit # 0, status[c] # "rolled_back",
         Decided(c, "committed"), UNCHANGED <<ts, txn>>
  PROVE  IInv'
<1>1. /\ Shape /\ Protocol(c) /\ ts \in Nat /\ txn[c] \in Txn /\ txn[c].commit <= ts
      /\ txn[c].pc \in {"commit", "done"} /\ txn[c].done = Mutations(c) /\ txn[c].batch \in Batches
      /\ txn[c].commit \in Nat
      /\ status[c] \in {"open", "committed"}
  BY CallType DEF IInv, Protocol, Called, Stage, Deciding
<1>2. status'[c] = "committed" /\ \A d \in Calls : d # c => status'[d] = status[d]
  BY DEF Decided
<1>3. \A d \in Calls : /\ Pre(d)' = Pre(d) /\ Writes(d)' = Writes(d) /\ Mutations(d)' = Mutations(d)
                       /\ Pessimistic(d)' <=> Pessimistic(d)
  BY SameBatch
<1>4. ASSUME NEW k \in Keys
      PROVE  /\ k # q => versions'[k] = versions[k] /\ locks'[k] = locks[k]
             /\ k = q => locks'[k] = None
             /\ k = q /\ k \in Writes(c) => versions'[k] = versions[k] \union {Written(c, k)}
             /\ k = q /\ k \notin Writes(c) => versions'[k] = versions[k]
             /\ versions[k] \subseteq versions'[k]
  BY <1>1, Published
<1>5. Shape'
  <2>1. ASSUME NEW k \in Keys, NEW w \in versions'[k] PROVE w.ts <= ts
    <3>1. CASE w \in versions[k]
      BY <1>1, <3>1 DEF Shape
    <3>2. CASE w = Written(c, k)
      BY <1>1, <3>2 DEF Written
    <3> QED BY <1>4, <2>1, <3>1, <3>2
  <2>2. status' \in [Calls -> {"open", "committed", "rolled_back"}]
    BY DEF Decided
  <2>3. versions' \in [Keys -> SUBSET Version] /\ locks' \in [Keys -> Locks \union {None}]
    <3>1. CASE Keys = {}
      <4>1. q \notin Writes(c)
        BY <1>1, <3>1, BatchShape
      <4> QED BY <1>1, <3>1, <4>1 DEF Publish, Shape
    <3>2. CASE Keys # {}
      BY <1>1, <3>2, Published
    <3> QED BY <3>1, <3>2
  <2> QED BY <1>1, <2>1, <2>2, <2>3 DEF Shape
<1>6. ASSUME NEW d \in Calls, NEW k \in Keys
      PROVE  /\ k # q => /\ Own(d, k)' <=> Own(d, k)
                         /\ Holds(d, k, "prewritten")' <=> Holds(d, k, "prewritten")
             /\ k = q => /\ ~Own(d, k)' /\ ~Holds(d, k, "prewritten")'
                         /\ d # c => ~Own(d, k) /\ ~Holds(d, k, "prewritten")
  <2>1. CASE k # q
    BY <1>4, <2>1 DEF Own, Holds
  <2>2. CASE k = q
    <3>1. ~Own(d, k)' /\ ~Holds(d, k, "prewritten")'
      BY <1>4, <2>2, NotLocked
    <3>2. d # c => ~Own(d, k) /\ ~Holds(d, k, "prewritten")
      BY <1>1, <2>2, LockType
    <3> QED BY <2>2, <3>1, <3>2
  <2> QED BY <2>1, <2>2
<1>7. ASSUME NEW d \in Calls PROVE Protocol(d)'
  <2>1. CASE d # c
    <3>1. ts' \in Nat /\ ts <= ts' /\ txn'[d] = txn[d] /\ status'[d] = status[d]
      BY <1>1, <1>2, <2>1
    <3> QED BY <3>1, OtherCall
  <2>2. CASE d = c
    <3>1. Steps(c)' = Steps(c)
      BY SameBatch
    <3>2. Called(c)' /\ Outcomed(c)' /\ Stage(c)'
      BY <1>1, <1>2, <1>3, <3>1 DEF Protocol, Called, Outcomed, Stage
    <3>3. Deciding(c)'
      BY <1>1, <1>2, <1>3 DEF Protocol, Deciding
    <3> QED BY <2>2, <3>2, <3>3 DEF Protocol
  <2> QED BY <2>1, <2>2
<1>8. ASSUME NEW d \in Calls PROVE Checked(d)'
  <2>1. CASE d = c
    BY <1>1, <2>1 DEF Checked, MetSoFar, ReadSoFar
  <2>2. CASE d # c
    <3>1. Checked(d) /\ Protocol(d) /\ txn[d].start \in Nat
      BY CallType
    <3>2. txn[d].pc # "idle" => \A i \in DOMAIN Pre(d) : Pre(d)[i].key \in Keys
      BY <3>1, BatchShape DEF Protocol, Called
    <3>3. MetSoFar(d)'
      <4>1. SUFFICES ASSUME Pessimistic(d), txn[d].pc \in {"stage", "acquire"}, status[d] = "open",
                            NEW i \in DOMAIN Pre(d), i < txn[d].next, NEW k, k = Pre(d)[i].key
                     PROVE  Own(d, k)' /\ Newest(versions'[k]).val = Pre(d)[i].expected
        BY <1>2, <1>3, <2>2 DEF MetSoFar
      <4>2. k \in Keys /\ Own(d, k) /\ Newest(versions[k]).val = Pre(d)[i].expected
        BY <3>1, <3>2, <4>1 DEF Checked, MetSoFar
      <4> QED BY <1>4, <1>6, <2>2, <4>2
    <3>4. ASSUME NEW k \in Keys, Settled(d, k)
          PROVE  Settled(d, k)' /\ At(k, txn[d].start)' = At(k, txn[d].start)
      <4>1. Settled(d, k)'
        BY <1>3, <1>6, <3>4 DEF Settled
      <4>2. CASE k = q /\ k \in Writes(c)
        <5>1. txn[c].commit > txn[d].start
          BY <1>1, <3>4, <4>2 DEF Settled
        <5>2. ~ (Written(c, k).ts <= txn[d].start)
          BY <1>1, <3>1, <5>1 DEF Written
        <5>3. {w \in versions'[k] : w.ts <= txn[d].start} = {w \in versions[k] : w.ts <= txn[d].start}
          BY <1>4, <4>2, <5>2
        <5> QED BY <4>1, <5>3 DEF At
      <4>3. CASE ~ (k = q /\ k \in Writes(c))
        <5>1. versions'[k] = versions[k]
          BY <1>4, <4>3
        <5> QED BY <4>1, <5>1 DEF At
      <4> QED BY <4>2, <4>3
    <3>5. ReadSoFar(d)'
      <4>1. SUFFICES ASSUME ~Pessimistic(d), txn[d].pc = "stage", NEW i \in DOMAIN Pre(d), i < txn[d].next,
                            NEW k, k = Pre(d)[i].key
                     PROVE  At(k, txn[d].start)' = Pre(d)[i].expected /\ Settled(d, k)'
        BY <1>3 DEF ReadSoFar, At, Settled
      <4>2. k \in Keys /\ At(k, txn[d].start) = Pre(d)[i].expected /\ Settled(d, k)
        BY <3>1, <3>2, <4>1 DEF Checked, ReadSoFar
      <4> QED BY <3>4, <4>2
    <3> QED BY <3>3, <3>5 DEF Checked
  <2> QED BY <2>1, <2>2
<1>9. ASSUME NEW d \in Calls, NEW k \in Keys PROVE Guarded(d, k)'
  <2>1. Guarded(d, k)
    BY DEF IInv
  <2>2. CASE k = q
    <3>1. ~Own(d, k)' /\ ~Holds(d, k, "prewritten")'
      BY <1>6, <2>2
    <3>2. Kept(d, k)'
      <4>1. CASE d = c
        BY <1>2, <4>1 DEF Kept
      <4>2. CASE d # c
        BY <1>2, <1>6, <2>1, <2>2, <4>2 DEF Guarded, Kept
      <4> QED BY <4>1, <4>2
    <3> QED BY <3>1, <3>2 DEF Guarded, Owned, Latest, Met
  <2>3. CASE k # q /\ d # c
    BY <1>2, <1>3, <1>4, <1>6, <2>1, <2>3 DEF Guarded, Owned, Kept, Latest, Met
  <2>4. CASE k # q /\ d = c
    BY <1>1, <1>2, <1>3, <1>4, <1>6, <2>1, <2>4 DEF Guarded, Owned, Kept, Latest, Met
  <2> QED BY <2>2, <2>3, <2>4
<1>10. NoTornBatch'
  <2>1. SUFFICES ASSUME NEW d \in Calls, status'[d] = "committed", NEW k \in Writes(d)
                 PROVE  Holds(d, k, "prewritten")' \/ \E w \in versions'[k] : w.ts = txn[d].commit
    BY <1>3 DEF NoTornBatch
  <2>2. k \in Keys
    BY <1>1, <1>2, <2>1, CallType, BatchShape DEF Protocol, Called
  <2>3. CASE d = c /\ k = q
    <3>1. Written(c, k) \in versions'[k]
      BY <1>4, <2>1, <2>2, <2>3
    <3>2. Written(c, k).ts = txn[d].commit
      BY <2>3 DEF Written
    <3> QED BY <3>1, <3>2
  <2>4. CASE d = c /\ k # q /\ status[c] = "open"
    <3>1. k \in txn[c].done
      BY <1>1, <2>1, <2>4, BatchShape
    <3> QED BY <1>6, <2>2, <2>4, <3>1 DEF IInv, Guarded, Kept
  <2>5. CASE status[d] = "committed" /\ (d = c => k # q)
    <3>1. Holds(d, k, "prewritten") \/ \E w \in versions[k] : w.ts = txn[d].commit
      BY <2>1, <2>5 DEF IInv, NoTornBatch
    <3> QED BY <1>4, <1>6, <2>2, <2>5, <3>1
  <2> QED BY <1>1, <1>2, <2>1, <2>3, <2>4, <2>5
<1> QED BY <1>5, <1>7, <1>8, <1>9, <1>10 DEF IInv

\* The locks on the keys in S go.
Unlocked(S) == locks' = [k \in Keys |-> IF k \in S THEN None ELSE locks[k]]

\* A transaction that is not committed loses locks: at its own rollback, or
\* because it is decided against it.
LEMMA UnlockStep ==
  ASSUME IInv, NEW c \in Calls, NEW S \in SUBSET Keys, \A k \in S : Own(c, k),
         \E k \in Keys : Own(c, k),
         Unlocked(S), status[c] # "committed",
         \/ Decided(c, "rolled_back")
         \/ Decided(c, status[c]) /\ txn[c].pc = "rollback",
         UNCHANGED <<ts, versions, txn>>
  PROVE  IInv'
<1>1. Shape /\ Protocol(c) /\ Checked(c) /\ ts \in Nat /\ txn[c].pc \notin {"idle", "begin"}
  BY CallType DEF IInv, Guarded, Owned
<1>2. \A d \in Calls : /\ Pre(d)' = Pre(d) /\ Writes(d)' = Writes(d) /\ Mutations(d)' = Mutations(d)
                       /\ Pessimistic(d)' <=> Pessimistic(d)
  BY SameBatch
<1>3. /\ locks' \in [Keys -> Locks \union {None}]
      /\ \A k \in Keys : locks'[k] = IF k \in S THEN None ELSE locks[k]
  BY <1>1 DEF Shape, Unlocked
<1>10. /\ status' \in [Calls -> {"open", "committed", "rolled_back"}]
       /\ \A d \in Calls : d # c => status'[d] = status[d]
       /\ status'[c] = "rolled_back" \/ (status'[c] = status[c] /\ txn[c].pc = "rollback")
  BY DEF Decided
<1>4. Shape'
  BY <1>1, <1>3, <1>10 DEF Shape
<1>5. ASSUME NEW d \in Calls, NEW k \in Keys
      PROVE  /\ Own(d, k)' => Own(d, k)
             /\ Holds(d, k, "prewritten")' => Holds(d, k, "prewritten")
             /\ Own(d, k)' /\ Holds(d, k, "prewritten") => Holds(d, k, "prewritten")'
             /\ d # c => /\ Own(d, k)' <=> Own(d, k)
                         /\ Holds(d, k, "prewritten")' <=> Holds(d, k, "prewritten")
  <2>1. CASE k \in S
    <3>1. locks'[k] = None /\ Own(c, k)
      BY <1>3, <2>1
    <3>2. ~Own(d, k)' /\ ~Holds(d, k, "prewritten")'
      BY <3>1, NotLocked
    <3>3. d # c => ~Own(d, k) /\ ~Holds(d, k, "prewritten")
      BY <1>1, <3>1, LockType
    <3> QED BY <3>2, <3>3
  <2>2. CASE k \notin S
    BY <1>3, <2>2 DEF Own, Holds
  <2> QED BY <2>1, <2>2
<1>6. ASSUME NEW d \in Calls PROVE Protocol(d)'
  <2>1. CASE d # c
    <3>1. ts' \in Nat /\ ts <= ts' /\ txn'[d] = txn[d] /\ status'[d] = status[d]
      BY <1>1, <1>10, <2>1
    <3> QED BY <3>1, OtherCall
  <2>2. CASE d = c
    <3>1. Steps(c)' = Steps(c)
      BY SameBatch
    <3>2. Called(c)' /\ Outcomed(c)' /\ Stage(c)'
      BY <1>1, <1>2, <1>10, <3>1 DEF Protocol, Called, Outcomed, Stage
    <3>3. Deciding(c)'
      BY <1>1, <1>2, <1>10 DEF Protocol, Deciding
    <3> QED BY <2>2, <3>2, <3>3 DEF Protocol
  <2> QED BY <2>1, <2>2
<1>7. ASSUME NEW d \in Calls PROVE Checked(d)'
  <2>1. Checked(d) /\ Protocol(d)
    BY CallType
  <2>2. txn[d].pc # "idle" => \A i \in DOMAIN Pre(d) : Pre(d)[i].key \in Keys
    BY <2>1, BatchShape DEF Protocol, Called
  <2>3. MetSoFar(d)'
    <3>1. CASE d = c
      BY <1>2, <1>10, <3>1 DEF MetSoFar
    <3>2. CASE d # c
      BY <1>2, <1>5, <1>10, <2>1, <2>2, <3>2 DEF Checked, MetSoFar
    <3> QED BY <3>1, <3>2
  <2>4. ASSUME NEW k \in Keys, Settled(d, k) PROVE Settled(d, k)'
    BY <1>2, <1>5, <2>4 DEF Settled
  <2>5. ReadSoFar(d)'
    BY <1>2, <2>1, <2>2, <2>4 DEF Checked, ReadSoFar, At
  <2> QED BY <2>3, <2>5 DEF Checked
<1>8. ASSUME NEW d \in Calls, NEW k \in Keys PROVE Guarded(d, k)'
  <2>1. Guarded(d, k) /\ Protocol(d)
    BY DEF IInv
  <2>2. CASE d # c
    BY <1>2, <1>5, <1>10, <2>1, <2>2 DEF Guarded, Owned, Kept, Latest, Met
  <2>3. CASE d = c
    <3>1. Owned(c, k)' /\ Latest(c, k)'
      BY <1>2, <1>5, <1>10, <2>1, <2>3 DEF Guarded, Owned, Latest
    <3>2. Kept(c, k)'
      BY <1>1, <1>10 DEF Kept, Protocol, Deciding
    <3>3. Met(c, k)'
      BY <1>2, <1>5, <1>10, <2>1, <2>3 DEF Guarded, Met
    <3> QED BY <2>3, <3>1, <3>2, <3>3 DEF Guarded
  <2> QED BY <2>2, <2>3
<1>9. NoTornBatch'
  <2>1. SUFFICES ASSUME NEW d \in Calls, status'[d] = "committed", NEW k \in Writes(d)
                 PROVE  Holds(d, k, "prewritten")' \/ \E w \in versions[k] : w.ts = txn[d].commit
    BY <1>2 DEF NoTornBatch
  <2>2. d # c /\ status[d] = "committed"
    BY <1>10, <2>1
  <2>3. k \in Keys
    BY <2>1, <2>2, CallType, BatchShape DEF Protocol, Called, Deciding
  <2> QED BY <1>5, <2>1, <2>2, <2>3 DEF IInv, NoTornBatch
<1> QED BY <1>4, <1>6, <1>7, <1>8, <1>9 DEF IInv

-----------------------------------------------------------------------------
(* The invariant                                                             *)

\* Before the first call.
LEMMA InitInv == Init => IInv
<1> SUFFICES ASSUME Init PROVE IInv
  OBVIOUS
<1>1. ASSUME NEW c \in Calls
      PROVE  /\ txn[c] = NotCalled /\ NotCalled \in Txn /\ status[c] = "open"
             /\ \A k \in Keys : ~Own(c, k) /\ ~Holds(c, k, "prewritten")
  <2>1. NotCalled \in Txn
    BY DEF NotCalled, Txn
  <2>2. [call |-> c, kind |-> "prewritten"] # None
    BY NoneIsNothing DEF Locks
  <2> QED BY <2>1, <2>2 DEF Init, Own, Holds
<1>2. Shape
  <2>1. \A k \in Keys : [ts |-> 0, val |-> First[k]] \in Version
    BY FirstAssumption DEF Version
  <2>2. versions \in [Keys -> SUBSET Version]
    BY <2>1 DEF Init
  <2>3. \A k \in Keys : \A v \in versions[k] : v.ts <= ts
    BY DEF Init
  <2>4. txn \in [Calls -> Txn]
    BY <1>1 DEF Init
  <2> QED BY <2>2, <2>3, <2>4 DEF Init, Shape
<1>3. ASSUME NEW c \in Calls PROVE Protocol(c)
  BY <1>1, <1>2 DEF Shape, NotCalled, Protocol, Called, Stage, Outcomed, Deciding
<1>4. ASSUME NEW c \in Calls PROVE Checked(c)
  BY <1>1 DEF NotCalled, Checked, MetSoFar, ReadSoFar
<1>5. ASSUME NEW c \in Calls, NEW k \in Keys PROVE Guarded(c, k)
  BY <1>1 DEF NotCalled, Guarded, Owned, Kept, Latest, Met
<1>6. NoTornBatch
  BY <1>1 DEF NoTornBatch
<1> QED BY <1>2, <1>3, <1>4, <1>5, <1>6 DEF IInv

\* The primary is one of the keys, if there is any to write.
LEMMA PrimaryType ==
  ASSUME NEW c \in Calls, txn[c].batch \in Batches
  PROVE  Primary(c) \notin Keys => Writes(c) = {}
<1>1. /\ Writes(c) \subseteq Keys /\ Mutations(c) \subseteq Keys
      /\ (CHOOSE k \in Writes(c) : TRUE) \notin Writes(c) => Writes(c) = {}
  BY BatchShape
<1> QED BY <1>1 DEF Primary

\* The commit of the primary decides the transaction, and publishes its key.
LEMMA CommitPrimaryStep ==
  ASSUME IInv, NEW c \in Calls, CommitPrimary(c)
  PROVE  IInv'
<1>1. /\ Publish(c, Primary(c)) /\ Holds(c, Primary(c), "prewritten") /\ txn[c].commit # 0
      /\ status[c] = "open" /\ UNCHANGED <<ts, txn>>
      /\ status' = [status EXCEPT ![c] = "committed"]
  BY DEF CommitPrimary
<1>2. Decided(c, "committed")
  BY <1>1 DEF IInv, Shape, Decided
<1>3. Primary(c) \notin Keys => Writes(c) = {}
  BY <1>1, CallType, PrimaryType DEF Protocol, Called, Deciding
<1> QED BY <1>1, <1>2, <1>3, PublishStep

\* Whose lock it is, and of what the owner's primary says, whoever meets a lock
\* resolves it.
LEMMA ResolveStep ==
  ASSUME IInv, NEW k \in Keys, Resolve(k)
  PROVE  IInv'
<1> DEFINE c == locks[k].call
<1>1. /\ c \in Calls /\ Own(c, k) /\ Shape /\ status \in [Calls -> {"open", "committed", "rolled_back"}]
      /\ status' = status /\ UNCHANGED <<ts, txn>>
  BY DEF IInv, Shape, Resolve, Locks, Own
<1>2. Decided(c, status[c])
  BY <1>1 DEF Decided
<1>3. CASE status[c] = "committed" /\ Publish(c, k)
  <2>1. Holds(c, k, "prewritten") /\ txn[c].commit # 0
    BY <1>1, <1>3 DEF IInv, Guarded, Owned, Protocol, Deciding
  <2> HIDE DEF c
  <2>2. Decided(c, "committed") /\ status[c] # "rolled_back"
    BY <1>2, <1>3
  <2> QED BY <1>1, <1>3, <2>1, <2>2, PublishStep
<1>4. CASE /\ status[c] = "rolled_back"
           /\ locks' = [locks EXCEPT ![k] = None] /\ UNCHANGED versions
  <2>1. Unlocked({k})
    BY <1>1, <1>4 DEF Unlocked, Shape
  <2> HIDE DEF c
  <2>2. Decided(c, "rolled_back")
    BY <1>2, <1>4
  <2>3. {k} \in SUBSET Keys /\ \A j \in {k} : Own(c, j)
    BY <1>1
  <2>4. UNCHANGED <<ts, versions, txn>> /\ status[c] # "committed"
    BY <1>1, <1>4
  <2> QED BY <1>1, <2>1, <2>2, <2>3, <2>4, UnlockStep
<1> QED BY <1>3, <1>4 DEF Resolve

\* rollback_quietly releases the lock on one key.
LEMMA RollbackStep ==
  ASSUME IInv, NEW c \in Calls, NEW k \in Keys, RollbackKey(c, k)
  PROVE  IInv'
<1>1. /\ Shape /\ txn[c].pc = "rollback" /\ Own(c, k) /\ status[c] # "committed"
      /\ status \in [Calls -> {"open", "committed", "rolled_back"}]
      /\ UNCHANGED <<ts, versions, txn>>
  BY DEF IInv, Shape, RollbackKey, Protocol, Deciding
<1>2. Unlocked({k})
  BY <1>1 DEF RollbackKey, Unlocked, Shape
<1>3. Decided(c, "rolled_back") \/ Decided(c, status[c])
  BY <1>1 DEF RollbackKey, Decided
<1>4. {k} \in SUBSET Keys /\ \A j \in {k} : Own(c, j)
  BY <1>1
<1> QED BY <1>1, <1>2, <1>3, <1>4, UnlockStep

\* A lock that outlives its TTL costs its transaction the commit.
LEMMA ExpireStep ==
  ASSUME IInv, NEW c \in Calls, Expire(c)
  PROVE  IInv'
<1> DEFINE S == {k \in Keys : Own(c, k) /\ k = Primary(c)}
<1>1. /\ status[c] # "committed" /\ \E k \in Keys : Own(c, k)
      /\ UNCHANGED <<ts, versions, txn>>
  BY DEF Expire
<1>2. Unlocked(S)
  BY DEF Expire, Unlocked
<1>3. Decided(c, "rolled_back")
  BY DEF IInv, Shape, Expire, Decided
<1>4. S \in SUBSET Keys /\ \A k \in S : Own(c, k)
  OBVIOUS
<1> HIDE DEF S
<1> QED BY <1>1, <1>2, <1>3, <1>4, UnlockStep

\* The invariant speaks of the variables only.
LEMMA Stuttering ==
  ASSUME IInv, UNCHANGED vars
  PROVE  IInv'
<1>1. ts' = ts /\ versions' = versions /\ locks' = locks /\ status' = status /\ txn' = txn
  BY DEF vars
<1>2. \A d \in Calls : /\ Pre(d)' = Pre(d) /\ Writes(d)' = Writes(d) /\ Mutations(d)' = Mutations(d)
                       /\ Steps(d)' = Steps(d)
                       /\ Pessimistic(d)' <=> Pessimistic(d)
  BY <1>1, SameBatch
<1>3. \A d \in Calls : \A k, kind : /\ Own(d, k)' <=> Own(d, k)
                                    /\ Holds(d, k, kind)' <=> Holds(d, k, kind)
  BY <1>1 DEF Own, Holds
<1>4. Shape'
  BY <1>1 DEF IInv, Shape
<1>5. ASSUME NEW d \in Calls PROVE Protocol(d)'
  <2>1. ts \in Nat /\ ts' = ts
    BY <1>1 DEF IInv, Shape
  <2>2. ts' \in Nat /\ ts <= ts'
    BY <2>1
  <2> QED BY <1>1, <2>2, OtherCall
<1>6. ASSUME NEW d \in Calls, NEW k \in Keys PROVE Guarded(d, k)'
  BY <1>1, <1>2, <1>3 DEF IInv, Guarded, Owned, Kept, Latest, Met
<1>7. ASSUME NEW d \in Calls PROVE Checked(d)'
  <2>1. \A k : Settled(d, k)' <=> Settled(d, k)
    BY <1>1, <1>2, <1>3 DEF Settled
  <2>2. MetSoFar(d)'
    BY <1>1, <1>2, <1>3 DEF IInv, Checked, MetSoFar
  <2>3. ReadSoFar(d)'
    BY <1>1, <1>2, <2>1 DEF IInv, Checked, ReadSoFar, At
  <2> QED BY <2>2, <2>3 DEF Checked
<1>8. NoTornBatch'
  BY <1>1, <1>2, <1>3 DEF IInv, NoTornBatch
<1> QED BY <1>4, <1>5, <1>6, <1>7, <1>8 DEF IInv

\* Every step keeps the invariant.
LEMMA StepInv == IInv /\ [Next]_vars => IInv'
<1> SUFFICES ASSUME IInv, [Next]_vars PROVE IInv'
  OBVIOUS
<1>1. ASSUME NEW c \in Calls, Call(c) PROVE IInv'
  BY <1>1, CallStep
<1>2. ASSUME NEW c \in Calls, Begin(c) PROVE IInv'
  BY <1>2, BeginStep
<1>3. ASSUME NEW c \in Calls, ForUpdate(c) PROVE IInv'
  BY <1>3, ForUpdateStep
<1>4. ASSUME NEW c \in Calls, Acquire(c) PROVE IInv'
  BY <1>4, AcquireStep
<1>5. ASSUME NEW c \in Calls, Read(c) PROVE IInv'
  BY <1>5, ReadStep
<1>6. ASSUME NEW c \in Calls, NEW k \in Keys, Prewrite(c, k) PROVE IInv'
  BY <1>6, PrewriteStep
<1>7. ASSUME NEW c \in Calls, CommitTs(c) PROVE IInv'
  BY <1>7, CommitTsStep
<1>8. ASSUME NEW c \in Calls, CommitPrimary(c) PROVE IInv'
  BY <1>8, CommitPrimaryStep
<1>9. ASSUME NEW c \in Calls,
             \/ BeginFails(c) \/ StageFails(c) \/ PrewriteFails(c)
             \/ Committed(c) \/ CommitRejected(c) \/ Undetermined(c) \/ RolledBack(c)
      PROVE  IInv'
  BY <1>9, EndSteps
<1>10. ASSUME NEW c \in Calls, NEW k \in Keys, RollbackKey(c, k) PROVE IInv'
  BY <1>10, RollbackStep
<1>11. ASSUME NEW c \in Calls, Expire(c) PROVE IInv'
  BY <1>11, ExpireStep
<1>12. ASSUME NEW k \in Keys, Resolve(k) PROVE IInv'
  BY <1>12, ResolveStep
<1>13. CASE UNCHANGED vars
  BY <1>13, Stuttering
<1> QED BY <1>1, <1>2, <1>3, <1>4, <1>5, <1>6, <1>7, <1>8, <1>9, <1>10, <1>11, <1>12, <1>13 DEF Next

\* What a transaction holds, has checked and is going to publish, at any moment
\* of any calls of commit.
THEOREM Invariance == Spec => []IInv
<1> QED BY InitInv, StepInv, PTL DEF Spec

\* The types.
THEOREM TypeCorrect == Spec => []TypeOK
<1>1. IInv => TypeOK
  <2> SUFFICES ASSUME IInv PROVE TypeOK
    OBVIOUS
  <2>1. ASSUME NEW k \in Keys, NEW v \in versions[k]
        PROVE  v.ts \in 0 .. ts /\ v.val \in Values \union {None}
    BY <2>1, VersionType DEF IInv
  <2>2. ASSUME NEW c \in Calls
        PROVE  /\ txn[c].pc \in {"idle", "begin", "stage", "acquire", "commit", "rollback", "done"}
               /\ txn[c].pc # "idle" => txn[c].batch \in Batches /\ txn[c].mode \in Modes
               /\ txn[c].out \in Outcomes \union {None}
               /\ txn[c].pc = "done" => txn[c].out # None
    BY CallType DEF Txn, Protocol, Called, Outcomed
  <2> QED BY <2>1, <2>2 DEF IInv, Shape, TypeOK
<1> QED BY <1>1, Invariance, PTL

\* "Either every put and delete lands, or nothing changes": in every lock mode
\* and whatever fails.
THEOREM NeverTorn == Spec => []NoTornBatch
<1>1. IInv => NoTornBatch
  BY DEF IInv
<1> QED BY <1>1, Invariance, PTL

-----------------------------------------------------------------------------
(* What a reader finds                                                       *)

\* A version newer than all of them is the newest.
LEMMA NewestOf ==
  ASSUME NEW S, NEW v, v.ts \in Nat, \A w \in S : w.ts \in Nat /\ w.ts < v.ts
  PROVE  Newest(S \union {v}) = v
<1>1. \A w \in S \union {v} : w.ts <= v.ts
  OBVIOUS
<1>2. \A u \in S \union {v} : (\A w \in S \union {v} : w.ts <= u.ts) => u = v
  OBVIOUS
<1> QED BY <1>1, <1>2 DEF Newest

\* Under no lock of a committed transaction, a reader finds the newest version.
LEMMA Plain ==
  ASSUME Shape, NEW k \in Keys, \A d \in Calls : Own(d, k) => status[d] # "committed"
  PROVE  Value(k) = Newest(versions[k]).val
<1>1. locks[k] # None => locks[k].call \in Calls /\ Own(locks[k].call, k)
  BY DEF Shape, Locks, Own
<1> QED BY <1>1 DEF Value

\* Under one, what that transaction wrote.
LEMMA Ahead ==
  ASSUME Shape, NEW k \in Keys, NEW c \in Calls, Own(c, k), status[c] = "committed"
  PROVE  Value(k) = IF k \in Writes(c) THEN txn[c].batch.writes[k] ELSE Newest(versions[k]).val
BY DEF Value, Own

\* The same of the next state.
LEMMA PlainNext ==
  ASSUME Shape', NEW k \in Keys, \A d \in Calls : Own(d, k)' => status'[d] # "committed"
  PROVE  Value(k)' = Newest(versions'[k]).val
<1>1. locks'[k] \in Locks \union {None}
  BY DEF Shape
<1>2. ~ (locks'[k] # None /\ status'[locks'[k].call] = "committed")
  BY <1>1 DEF Locks, Own
<1> QED BY <1>2 DEF Value

\* After the step, too, a key of a decided transaction has the value its batch gives it.
LEMMA AheadNext ==
  ASSUME Shape', NEW k \in Keys, NEW c \in Calls, Own(c, k)', status'[c] = "committed"
  PROVE  Value(k)' = IF k \in Writes(c)' THEN txn'[c].batch.writes[k] ELSE Newest(versions'[k]).val
BY DEF Value, Own

\* Whatever happens elsewhere.
LEMMA Unmoved ==
  ASSUME IInv, Shape', NEW k \in Keys, versions'[k] = versions[k],
         \A d \in Calls : status[d] = "committed" =>
           /\ Own(d, k)' <=> Own(d, k)
           /\ status'[d] = "committed" /\ txn'[d].batch = txn[d].batch,
         \A d \in Calls : status[d] # "committed" /\ Own(d, k)' => status'[d] # "committed"
  PROVE  Value(k)' = Value(k)
<1>1. CASE \E d \in Calls : Own(d, k) /\ status[d] = "committed"
  <2>1. PICK d \in Calls : Own(d, k) /\ status[d] = "committed"
    BY <1>1
  <2>2. Own(d, k)' /\ status'[d] = "committed" /\ txn'[d].batch = txn[d].batch
    BY <2>1
  <2>3. Writes(d)' = Writes(d)
    BY <2>2 DEF Writes
  <2> QED BY <2>1, <2>2, <2>3, Ahead, AheadNext DEF IInv
<1>2. CASE \A d \in Calls : Own(d, k) => status[d] # "committed"
  <2>1. \A d \in Calls : Own(d, k)' => status'[d] # "committed"
    BY <1>2
  <2> QED BY <1>2, <2>1, Plain, PlainNext DEF IInv
<1> QED BY <1>1, <1>2

\* Publishing a key changes nothing for a reader; deciding to commit gives each
\* key that is written its new value at once.
LEMMA PublishedValue ==
  ASSUME IInv, NEW c \in Calls, NEW q, Publish(c, q),
         q \in Keys => Holds(c, q, "prewritten"), q \notin Keys => Writes(c) = {},
         txn[c].commit # 0, status[c] # "rolled_back",
         Decided(c, "committed"), UNCHANGED <<ts, txn>>, NEW k \in Keys
  PROVE  Value(k)' = IF k \in Writes(c) /\ Own(c, k) THEN txn[c].batch.writes[k] ELSE Value(k)
<1>1. /\ Shape /\ Protocol(c) /\ txn[c].batch \in Batches /\ txn[c].commit \in Nat
      /\ status[c] \in {"open", "committed"}
  BY CallType DEF IInv, Protocol, Called, Deciding
<1>2. Shape'
  BY PublishStep DEF IInv
<1>3. /\ k # q => versions'[k] = versions[k] /\ locks'[k] = locks[k]
      /\ k = q => locks'[k] = None
      /\ k = q /\ k \in Writes(c) => versions'[k] = versions[k] \union {Written(c, k)}
      /\ k = q /\ k \notin Writes(c) => versions'[k] = versions[k]
  BY <1>1, Published
<1>4. \A d \in Calls : Writes(d)' = Writes(d) /\ txn'[d].batch = txn[d].batch
  BY SameBatch
<1>5. status'[c] = "committed" /\ \A d \in Calls : d # c => status'[d] = status[d]
  BY DEF Decided
<1>6. CASE k = q
  <2>1. Own(c, k) /\ Holds(c, k, "prewritten") /\ \A d \in Calls : Own(d, k) => d = c
    BY <1>1, <1>6, LockType
  <2>2. \A d \in Calls : ~Own(d, k)'
    BY <1>3, <1>6, NotLocked
  <2>3. Value(k)' = Newest(versions'[k]).val
    BY <1>2, <2>2, PlainNext
  <2>4. CASE k \in Writes(c)
    <3>1. \A w \in versions[k] : w.ts \in Nat /\ w.ts < Written(c, k).ts
      BY <1>1, <2>1, VersionType DEF IInv, Guarded, Latest, Written
    <3>2. Written(c, k).ts \in Nat
      BY <1>1 DEF Written
    <3>3. Newest(versions[k] \union {Written(c, k)}) = Written(c, k)
      BY <3>1, <3>2, NewestOf
    <3>4. Written(c, k).val = txn[c].batch.writes[k]
      BY DEF Written
    <3> QED BY <1>3, <1>6, <2>1, <2>3, <2>4, <3>3, <3>4
  <2>5. CASE k \notin Writes(c)
    <3>1. Value(k) = Newest(versions[k]).val
      BY <1>1, <2>1, <2>5, Plain, Ahead
    <3> QED BY <1>3, <1>6, <2>3, <2>5, <3>1
  <2> QED BY <2>4, <2>5
<1>7. CASE k # q /\ Own(c, k)
  <2>1. Own(c, k)' /\ \A d \in Calls : Own(d, k) => d = c
    BY <1>1, <1>3, <1>7, LockType DEF Own
  <2>2. Value(k)' = IF k \in Writes(c) THEN txn[c].batch.writes[k] ELSE Newest(versions[k]).val
    BY <1>2, <1>3, <1>4, <1>5, <1>7, <2>1, AheadNext
  <2>3. k \notin Writes(c) => Value(k) = Newest(versions[k]).val
    BY <1>1, <1>7, <2>1, Plain, Ahead
  <2> QED BY <1>7, <2>2, <2>3
<1>8. CASE k # q /\ ~Own(c, k)
  <2>1. \A d \in Calls : Own(d, k)' <=> Own(d, k)
    BY <1>3, <1>8 DEF Own
  <2>2. Value(k)' = Value(k)
    BY <1>2, <1>3, <1>4, <1>5, <1>8, <2>1, Unmoved
  <2> QED BY <1>8, <2>2
<1> QED BY <1>6, <1>7, <1>8

-----------------------------------------------------------------------------
(* The refinement                                                            *)

\* A call of commit as the trait sees it.
Seen(c) == [batch |-> txn[c].batch, applied |-> status[c] = "committed",
            out |-> IF txn[c].pc = "done" THEN txn[c].out ELSE None]

\* A call whose batch lands.
LEMMA Landed ==
  ASSUME NEW c \in Calls
  PROVE  [Seen(c) EXCEPT !.applied = TRUE]
           = [batch |-> txn[c].batch, applied |-> TRUE,
              out |-> IF txn[c].pc = "done" THEN txn[c].out ELSE None]
<1> DEFINE t == TRUE
           a == status[c] = "committed"
<1>1. Seen(c) = [batch |-> txn[c].batch, applied |-> a,
                 out |-> IF txn[c].pc = "done" THEN txn[c].out ELSE None]
  BY DEF Seen
<1>2. t = TRUE
  OBVIOUS
<1> HIDE DEF t, a
<1>3. [Seen(c) EXCEPT !.applied = t]
        = [batch |-> txn[c].batch, applied |-> t,
           out |-> IF txn[c].pc = "done" THEN txn[c].out ELSE None]
  BY <1>1
<1> QED BY <1>2, <1>3

\* All the calls.
AllSeen == [c \in Calls |-> Seen(c)]

\* What one call's step changes of it is all that changes.
LEMMA SeenChanges ==
  ASSUME NEW c \in Calls, NEW r, Seen(c)' = r, \A d \in Calls : d # c => Seen(d)' = Seen(d)
  PROVE  AllSeen' = [AllSeen EXCEPT ![c] = r] /\ AllSeen[c] = Seen(c)
BY DEF AllSeen

\* The contents are the first ones, and nothing has been called.
LEMMA InitMaps == Init => Contract!Init
<1> SUFFICES ASSUME Init PROVE Contract!Init
  OBVIOUS
<1>1. ASSUME NEW k \in Keys PROVE Value(k) = First[k]
  <2>1. Value(k) = Newest(versions[k]).val
    BY DEF Init, Value
  <2>2. Newest(versions[k]) = [ts |-> 0, val |-> First[k]]
    BY DEF Init, Newest
  <2> QED BY <2>1, <2>2
<1>2. First = [k \in Keys |-> First[k]]
  BY FirstAssumption
<1>3. [k \in Keys |-> Value(k)] = First
  BY <1>1, <1>2
<1>4. ASSUME NEW c \in Calls PROVE Seen(c) = [batch |-> None, applied |-> FALSE, out |-> None]
  BY DEF Init, NotCalled, Seen
<1> QED BY <1>3, <1>4 DEF Contract!Init, Seen

\* A step that the trait does not see.
LEMMA Unseen ==
  ASSUME \A k \in Keys : Value(k)' = Value(k), \A d \in Calls : Seen(d)' = Seen(d)
  PROVE  UNCHANGED Contract!avars
BY DEF Contract!avars, Seen

\* The trait sees commit() called,
LEMMA CallMaps ==
  ASSUME NEW c \in Calls, NEW b \in Batches, txn[c].batch = None,
         \A k \in Keys : Value(k)' = Value(k),
         \A d \in Calls : d # c => Seen(d)' = Seen(d),
         Seen(c)' = [Seen(c) EXCEPT !.batch = b]
  PROVE  Contract!Next
<1>1. AllSeen' = [AllSeen EXCEPT ![c].batch = b] /\ AllSeen[c] = Seen(c)
  BY SeenChanges
<1>2. UNCHANGED [k \in Keys |-> Value(k)]
  OBVIOUS
<1>3. Contract!Commit(c, b)
  BY <1>1, <1>2, Zenon DEF Contract!Commit, AllSeen, Seen
<1> QED BY <1>3 DEF Contract!Next

\* the batch land,
LEMMA ApplyMaps ==
  ASSUME NEW c \in Calls, txn[c].batch # None, status[c] # "committed",
         txn[c].pc = "done" => txn[c].out = "error",
         \A i \in DOMAIN Pre(c) : Pre(c)[i].key \in Keys /\ Value(Pre(c)[i].key) = Pre(c)[i].expected,
         \A k \in Keys : Value(k)' = IF k \in Writes(c) THEN txn[c].batch.writes[k] ELSE Value(k),
         \A d \in Calls : d # c => Seen(d)' = Seen(d),
         Seen(c)' = [Seen(c) EXCEPT !.applied = TRUE]
  PROVE  Contract!Next
<1>1. Contract!Holds(txn[c].batch, [k \in Keys |-> Value(k)])
  BY DEF Contract!Holds, Pre
<1>2. [k \in Keys |-> Value(k)]' = Contract!Applied(txn[c].batch, [k \in Keys |-> Value(k)])
  BY DEF Contract!Applied, Writes
<1>3. AllSeen' = [AllSeen EXCEPT ![c].applied = TRUE] /\ AllSeen[c] = Seen(c)
  BY SeenChanges
<1>4. Contract!Apply(c)
  BY <1>1, <1>2, <1>3 DEF Contract!Apply, AllSeen, Seen
<1> QED BY <1>4 DEF Contract!Next

\* and commit() return.
LEMMA ReturnMaps ==
  ASSUME NEW c \in Calls, NEW o \in Outcomes, txn[c].batch # None, txn[c].pc # "done",
         o = "committed" => status[c] = "committed",
         o = "conflict" => status[c] # "committed",
         \A k \in Keys : Value(k)' = Value(k),
         \A d \in Calls : d # c => Seen(d)' = Seen(d),
         Seen(c)' = [Seen(c) EXCEPT !.out = o]
  PROVE  Contract!Next
<1>1. AllSeen' = [AllSeen EXCEPT ![c].out = o] /\ AllSeen[c] = Seen(c)
  BY SeenChanges
<1>2. UNCHANGED [k \in Keys |-> Value(k)]
  OBVIOUS
<1>3. Contract!Return(c, o)
  BY <1>1, <1>2, Zenon DEF Contract!Return, AllSeen, Seen
<1> QED BY <1>3 DEF Contract!Next, Outcomes

\* Steps that decide nothing: what a reader finds, and what the trait has seen of
\* the other calls, stays as it is.
LEMMA Quiet ==
  ASSUME IInv, IInv', NEW c \in Calls, UNCHANGED <<versions, status>>,
         \A d \in Calls : d # c => txn'[d] = txn[d],
         status[c] = "committed" => txn'[c].batch = txn[c].batch,
         \A d \in Calls : \A k \in Keys : status[d] = "committed" => (Own(d, k)' <=> Own(d, k))
  PROVE  /\ \A k \in Keys : Value(k)' = Value(k)
         /\ \A d \in Calls : d # c => Seen(d)' = Seen(d)
<1>1. ASSUME NEW k \in Keys PROVE Value(k)' = Value(k)
  <2>1. Shape'
    BY DEF IInv
  <2>2. \A d \in Calls : status[d] = "committed" =>
           /\ Own(d, k)' <=> Own(d, k)
           /\ status'[d] = "committed" /\ txn'[d].batch = txn[d].batch
    OBVIOUS
  <2>3. \A d \in Calls : status[d] # "committed" /\ Own(d, k)' => status'[d] # "committed"
    OBVIOUS
  <2> QED BY <2>1, <2>2, <2>3, Unmoved
<1>2. ASSUME NEW d \in Calls, d # c PROVE Seen(d)' = Seen(d)
  BY <1>2 DEF Seen
<1> QED BY <1>1, <1>2

\* A step of call c that leaves the store alone.
LEMMA QuietLocal ==
  ASSUME IInv, IInv', NEW c \in Calls, UNCHANGED <<versions, locks, status>>,
         \A d \in Calls : d # c => txn'[d] = txn[d],
         status[c] = "committed" => txn'[c].batch = txn[c].batch
  PROVE  /\ \A k \in Keys : Value(k)' = Value(k)
         /\ \A d \in Calls : d # c => Seen(d)' = Seen(d)
<1>1. \A d \in Calls : \A k \in Keys : Own(d, k)' <=> Own(d, k)
  BY DEF Own
<1> QED BY <1>1, Quiet

\* What the steps of commit() between its call and its return leave alone.
LEMMA Running ==
  ASSUME IInv, NEW c \in Calls,
         \/ Begin(c) \/ ForUpdate(c) \/ Acquire(c) \/ Read(c) \/ StageFails(c)
         \/ (\E k \in Keys : Prewrite(c, k)) \/ PrewriteFails(c) \/ CommitTs(c) \/ CommitRejected(c)
  PROVE  /\ UNCHANGED <<versions, status>>
         /\ \A d \in Calls : d # c => txn'[d] = txn[d]
         /\ txn'[c].batch = txn[c].batch /\ txn[c].pc # "done" /\ txn'[c].pc # "done"
         /\ Acquire(c) \/ (\E k \in Keys : Prewrite(c, k)) \/ UNCHANGED locks
<1>1. txn \in [Calls -> Txn] /\ txn[c] \in Txn
  BY DEF IInv, Shape
<1>2. CASE Begin(c)
  BY <1>1, <1>2 DEF Begin, Txn
<1>3. CASE ForUpdate(c)
  BY <1>1, <1>3 DEF ForUpdate, Staging, Txn
<1>4. CASE Acquire(c)
  BY <1>1, <1>4, CheckStep DEF Acquire
<1>5. CASE Read(c)
  BY <1>1, <1>5, CheckStep DEF Read, Staging
<1>6. CASE StageFails(c) \/ PrewriteFails(c) \/ CommitRejected(c)
  <2>1. PICK o : Fail(c, o)
    BY <1>6 DEF StageFails, PrewriteFails, CommitRejected
  <2>2. txn[c].pc # "done" /\ UNCHANGED <<versions, locks, status>>
    BY <1>6 DEF StageFails, Staging, PrewriteFails, Staged, CommitRejected
  <2> QED BY <1>1, <2>1, <2>2 DEF Fail, Txn
<1>7. CASE \E k \in Keys : Prewrite(c, k)
  <2>1. PICK k \in Keys : Prewrite(c, k)
    BY <1>7
  <2>2. /\ txn[c].pc = "stage" /\ UNCHANGED <<versions, status>>
        /\ txn' = [txn EXCEPT ![c].done = @ \union {k}]
    BY <2>1 DEF Prewrite, Staged
  <2> QED BY <1>1, <1>7, <2>2 DEF Txn
<1>8. CASE CommitTs(c)
  BY <1>1, <1>8 DEF CommitTs, Staged, Txn
<1> QED BY <1>2, <1>3, <1>4, <1>5, <1>6, <1>7, <1>8

\* None of them is seen.
LEMMA RunningMaps ==
  ASSUME IInv, IInv', NEW c \in Calls,
         \/ Begin(c) \/ ForUpdate(c) \/ Acquire(c) \/ Read(c) \/ StageFails(c)
         \/ (\E k \in Keys : Prewrite(c, k)) \/ PrewriteFails(c) \/ CommitTs(c) \/ CommitRejected(c)
  PROVE  UNCHANGED Contract!avars
<1>1. /\ UNCHANGED <<versions, status>>
      /\ \A d \in Calls : d # c => txn'[d] = txn[d]
      /\ txn'[c].batch = txn[c].batch /\ txn[c].pc # "done" /\ txn'[c].pc # "done"
      /\ Acquire(c) \/ (\E k \in Keys : Prewrite(c, k)) \/ UNCHANGED locks
  BY Running
<1>2. ASSUME NEW d \in Calls, NEW k \in Keys, status[d] = "committed" PROVE Own(d, k)' <=> Own(d, k)
  <2>1. CASE UNCHANGED locks
    BY <2>1 DEF Own
  <2>2. ASSUME NEW q \in Keys, NEW kind \in {"pessimistic", "prewritten"}, ~Foreign(c, q),
               locks' = [locks EXCEPT ![q] = [call |-> c, kind |-> kind]], status[c] # "committed"
        PROVE  Own(d, k)' <=> Own(d, k)
    <3>1. d # c /\ Shape
      BY <1>2, <2>2 DEF IInv
    <3>2. CASE k # q
      BY <2>2, <3>1, <3>2 DEF Shape, Own
    <3>3. CASE k = q
      BY <2>2, <3>1, <3>3, LockType DEF Shape, Own
    <3> QED BY <3>2, <3>3
  <2>3. CASE Acquire(c)
    <3>1. /\ txn[c].batch \in Batches /\ status[c] # "committed" /\ Pessimistic(c)
          /\ txn[c].next \in 1 .. Len(Steps(c))
      <4>1. /\ txn[c].pc = "acquire" /\ Protocol(c) /\ txn[c] \in Txn
            /\ txn[c].next \in Nat \ {0}
        BY <2>3, CallType DEF Acquire, Txn
      <4>2. txn[c].batch \in Batches
        BY <4>1 DEF Protocol, Called
      <4> QED BY <4>1, <4>2, StepsShape DEF Protocol, Stage, Deciding
    <3>2. Key(c) \in Keys
      BY <3>1, StepsShape, BatchShape DEF Key
    <3> QED BY <2>2, <2>3, <3>1, <3>2 DEF Acquire
  <2>4. CASE \E q \in Keys : Prewrite(c, q)
    <3>1. PICK q \in Keys : Prewrite(c, q)
      BY <2>4
    <3>2. ~Foreign(c, q) /\ locks' = [locks EXCEPT ![q] = [call |-> c, kind |-> "prewritten"]]
      BY <3>1 DEF Prewrite, Refused
    <3>3. status[c] # "committed"
      BY <3>1, CallType DEF Prewrite, Staged, Protocol, Deciding
    <3> QED BY <2>2, <3>2, <3>3
  <2> QED BY <1>1, <2>1, <2>3, <2>4
<1>3. /\ \A k \in Keys : Value(k)' = Value(k)
      /\ \A d \in Calls : d # c => Seen(d)' = Seen(d)
  BY <1>1, <1>2, Quiet
<1>4. Seen(c)' = Seen(c)
  BY <1>1 DEF Seen
<1> QED BY <1>3, <1>4, Unseen

\* The ways in which commit() returns.
LEMMA ReturnsMap ==
  ASSUME IInv, IInv', NEW c \in Calls, BeginFails(c) \/ Committed(c) \/ Undetermined(c) \/ RolledBack(c)
  PROVE  Contract!Next
<1>1. /\ txn \in [Calls -> Txn] /\ txn[c] \in Txn /\ Protocol(c)
      /\ txn[c].pc \notin {"idle", "done"} /\ UNCHANGED <<versions, locks, status>>
  BY CallType DEF IInv, Shape, BeginFails, Committed, Undetermined, RolledBack
<1>2. PICK o \in Outcomes : /\ Ends(c, "done", o)
                            /\ o = "committed" => status[c] = "committed"
                            /\ o = "conflict" => status[c] # "committed"
  <2>1. CASE BeginFails(c)
    BY <2>1 DEF BeginFails, Return, Ends, Outcomes
  <2>2. CASE Committed(c)
    BY <2>2 DEF Committed, Return, Ends, Outcomes
  <2>3. CASE Undetermined(c)
    BY <2>3 DEF Undetermined, Return, Ends, Outcomes
  <2>4. CASE RolledBack(c)
    <3>1. txn[c].out \in {"conflict", "error"} /\ status[c] # "committed"
      BY <1>1, <2>4 DEF RolledBack, Protocol, Outcomed, Deciding
    <3> QED BY <2>4, <3>1 DEF RolledBack, Return, Ends, Outcomes
  <2> QED BY <2>1, <2>2, <2>3, <2>4
<1>3. /\ \A d \in Calls : d # c => txn'[d] = txn[d]
      /\ txn'[c].batch = txn[c].batch /\ txn'[c].pc = "done" /\ txn'[c].out = o
  BY <1>1, <1>2 DEF Ends, Txn
<1>4. txn[c].batch # None
  BY <1>1, NoneIsNothing DEF Protocol, Called
<1>5. /\ \A k \in Keys : Value(k)' = Value(k)
      /\ \A d \in Calls : d # c => Seen(d)' = Seen(d)
  BY <1>1, <1>3, QuietLocal
<1>6. Seen(c)' = [Seen(c) EXCEPT !.out = o]
  BY <1>1, <1>3 DEF Seen
<1> QED BY <1>1, <1>2, <1>4, <1>5, <1>6, ReturnMaps

\* commit() is called.
LEMMA CalledMaps ==
  ASSUME IInv, IInv', NEW c \in Calls, Call(c)
  PROVE  Contract!Next
<1>1. /\ txn \in [Calls -> Txn] /\ txn[c].pc = "idle" /\ txn[c].batch = None /\ status[c] = "open"
      /\ UNCHANGED <<versions, locks, status>>
  BY CallType DEF IInv, Shape, Call, Protocol, Called
<1>2. PICK b \in Batches : \E m \in Modes :
        txn' = [txn EXCEPT ![c] = [NotCalled EXCEPT !.pc = "begin", !.batch = b, !.mode = m]]
  BY DEF Call
<1>3. /\ \A d \in Calls : d # c => txn'[d] = txn[d]
      /\ txn'[c].pc = "begin" /\ txn'[c].batch = b
  BY <1>1, <1>2 DEF NotCalled
<1>4. /\ \A k \in Keys : Value(k)' = Value(k)
      /\ \A d \in Calls : d # c => Seen(d)' = Seen(d)
  BY <1>1, <1>3, QuietLocal
<1>5. Seen(c)' = [Seen(c) EXCEPT !.batch = b]
  BY <1>1, <1>3 DEF Seen
<1> QED BY <1>1, <1>4, <1>5, CallMaps

\* The commit point.  The preconditions on keys that the transaction prewrites hold
\* there, and each key of the batch gets its value; in every mode, and whichever modes
\* the other calls are in.
LEMMA Lands ==
  ASSUME IInv, NEW c \in Calls, CommitPrimary(c)
  PROVE  /\ status[c] = "open" /\ status'[c] = "committed" /\ \A d \in Calls : d # c => status'[d] = status[d]
         /\ txn' = txn /\ txn[c].batch \in Batches /\ txn[c].mode \in Modes
         /\ txn[c].pc = "done" => txn[c].out = "error"
         /\ \A i \in DOMAIN Pre(c) : Pre(c)[i].key \in Mutations(c) =>
              Pre(c)[i].key \in Keys /\ Value(Pre(c)[i].key) = Pre(c)[i].expected
         /\ \A k \in Keys : Value(k)' = IF k \in Writes(c) THEN txn[c].batch.writes[k] ELSE Value(k)
<1>1. /\ Shape /\ Protocol(c) /\ txn[c].batch \in Batches /\ txn[c].mode \in Modes
      /\ txn[c].commit # 0 /\ status[c] = "open" /\ txn[c].done = Mutations(c)
      /\ txn[c].pc = "done" => txn[c].out = "error"
      /\ Publish(c, Primary(c)) /\ Holds(c, Primary(c), "prewritten") /\ UNCHANGED <<ts, txn>>
  BY CallType DEF IInv, CommitPrimary, Protocol, Called, Deciding
<1>2. Decided(c, "committed")
  BY DEF IInv, Shape, CommitPrimary, Decided
<1>3. Primary(c) \notin Keys => Writes(c) = {}
  BY <1>1, PrimaryType
<1>4. Writes(c) \subseteq Mutations(c) /\ Mutations(c) \subseteq Keys
  BY <1>1, BatchShape
<1>5. ASSUME NEW k \in Mutations(c) PROVE k \in Keys /\ Holds(c, k, "prewritten") /\ Own(c, k)
  <2>1. k \in Keys /\ Holds(c, k, "prewritten")
    BY <1>1, <1>4, <1>5 DEF IInv, Guarded, Kept
  <2> QED BY <1>1, <2>1, LockType
<1>6. ASSUME NEW i \in DOMAIN Pre(c), NEW k, k = Pre(c)[i].key, k \in Mutations(c)
      PROVE  k \in Keys /\ Value(k) = Pre(c)[i].expected
  <2>1. k \in Keys /\ Holds(c, k, "prewritten") /\ Own(c, k)
    BY <1>5, <1>6
  <2>2. Newest(versions[k]).val = Pre(c)[i].expected
    BY <1>1, <1>6, <2>1 DEF IInv, Guarded, Met
  <2>3. Value(k) = Newest(versions[k]).val
    BY <1>1, <2>1, LockType, Plain
  <2> QED BY <2>1, <2>2, <2>3
<1>7. ASSUME NEW k \in Keys
      PROVE  Value(k)' = IF k \in Writes(c) THEN txn[c].batch.writes[k] ELSE Value(k)
  BY <1>1, <1>2, <1>3, <1>4, <1>5, PublishedValue
<1>8. status'[c] = "committed" /\ \A d \in Calls : d # c => status'[d] = status[d]
  BY <1>2 DEF Decided
<1>9. txn' = txn
  BY <1>1
<1> QED BY <1>1, <1>6, <1>7, <1>8, <1>9

\* In the two modes that lock what they read, that is every precondition.
LEMMA CommitPrimaryMaps ==
  ASSUME IInv, "unlocked" \notin Modes, NEW c \in Calls, CommitPrimary(c)
  PROVE  Contract!Next
<1>1. /\ status[c] = "open" /\ status'[c] = "committed" /\ \A d \in Calls : d # c => status'[d] = status[d]
      /\ txn' = txn /\ txn[c].batch \in Batches /\ txn[c].mode \in Modes
      /\ txn[c].pc = "done" => txn[c].out = "error"
      /\ \A i \in DOMAIN Pre(c) : Pre(c)[i].key \in Mutations(c) =>
           Pre(c)[i].key \in Keys /\ Value(Pre(c)[i].key) = Pre(c)[i].expected
      /\ \A k \in Keys : Value(k)' = IF k \in Writes(c) THEN txn[c].batch.writes[k] ELSE Value(k)
  BY Lands
<1>2. \A i \in DOMAIN Pre(c) : Pre(c)[i].key \in Mutations(c)
  BY <1>1, BatchShape
<1>3. /\ \A d \in Calls : d # c => Seen(d)' = Seen(d)
      /\ Seen(c)' = [Seen(c) EXCEPT !.applied = TRUE]
  <2>1. \A d \in Calls : d # c => Seen(d)' = Seen(d)
    BY <1>1 DEF Seen
  <2>2. Seen(c)' = [batch |-> txn[c].batch, applied |-> TRUE,
                    out |-> IF txn[c].pc = "done" THEN txn[c].out ELSE None]
    BY <1>1 DEF Seen
  <2> QED BY <2>1, <2>2, Landed
<1>4. txn[c].batch # None
  BY <1>1, NoneIsNothing
<1> QED BY <1>1, <1>2, <1>3, <1>4, ApplyMaps

\* Unlocking, and resolving a lock, show a reader nothing new.
LEMMA UnlockMaps ==
  ASSUME IInv, IInv', NEW c \in Calls, NEW S \in SUBSET Keys, \A k \in S : Own(c, k),
         Unlocked(S), status[c] # "committed",
         Decided(c, "rolled_back") \/ Decided(c, status[c]),
         UNCHANGED <<ts, versions, txn>>
  PROVE  UNCHANGED Contract!avars
<1>1. Shape /\ Shape'
  BY DEF IInv
<1>2. status'[c] # "committed" /\ \A d \in Calls : d # c => status'[d] = status[d]
  BY DEF Decided
<1>3. ASSUME NEW d \in Calls, NEW k \in Keys, d # c PROVE Own(d, k)' <=> Own(d, k)
  <2>1. CASE k \in S
    <3>1. locks'[k] = None /\ Own(c, k)
      BY <2>1 DEF Unlocked
    <3> QED BY <1>1, <1>3, <3>1, NotLocked, LockType
  <2>2. CASE k \notin S
    <3>1. locks'[k] = locks[k]
      BY <2>2 DEF Unlocked
    <3> QED BY <3>1 DEF Own
  <2> QED BY <2>1, <2>2
<1>4. ASSUME NEW k \in Keys PROVE Value(k)' = Value(k)
  <2>1. \A d \in Calls : status[d] = "committed" =>
           /\ Own(d, k)' <=> Own(d, k)
           /\ status'[d] = "committed" /\ txn'[d].batch = txn[d].batch
    BY <1>2, <1>3
  <2>2. \A d \in Calls : status[d] # "committed" /\ Own(d, k)' => status'[d] # "committed"
    BY <1>2
  <2> QED BY <1>1, <2>1, <2>2, Unmoved
<1>5. ASSUME NEW d \in Calls PROVE Seen(d)' = Seen(d)
  BY <1>2 DEF Seen
<1> QED BY <1>4, <1>5, Unseen

\* The resolution of a lock changes no contents: the decision has fallen before.
LEMMA ResolveMaps ==
  ASSUME IInv, IInv', NEW k \in Keys, Resolve(k)
  PROVE  UNCHANGED Contract!avars
<1> DEFINE c == locks[k].call
<1>1. /\ c \in Calls /\ Own(c, k) /\ Shape /\ status \in [Calls -> {"open", "committed", "rolled_back"}]
      /\ status' = status /\ UNCHANGED <<ts, txn>>
  BY DEF IInv, Shape, Resolve, Locks, Own
<1>2. Decided(c, status[c])
  BY <1>1 DEF Decided
<1>3. CASE status[c] = "committed" /\ Publish(c, k)
  <2>1. Holds(c, k, "prewritten") /\ txn[c].commit # 0
    BY <1>1, <1>3 DEF IInv, Guarded, Owned, Protocol, Deciding
  <2> HIDE DEF c
  <2>2. Decided(c, "committed") /\ status[c] # "rolled_back"
    BY <1>2, <1>3
  <2>3. ASSUME NEW j \in Keys PROVE Value(j)' = Value(j)
    <3>1. Value(j)' = IF j \in Writes(c) /\ Own(c, j) THEN txn[c].batch.writes[j] ELSE Value(j)
      BY <1>1, <1>3, <2>1, <2>2, PublishedValue
    <3> QED BY <1>1, <1>3, <3>1, Ahead
  <2>4. \A d \in Calls : Seen(d)' = Seen(d)
    BY <1>1 DEF Seen
  <2> QED BY <2>3, <2>4, Unseen
<1>4. CASE /\ status[c] = "rolled_back"
           /\ locks' = [locks EXCEPT ![k] = None] /\ UNCHANGED versions
  <2>1. Unlocked({k})
    BY <1>1, <1>4 DEF Unlocked, Shape
  <2> HIDE DEF c
  <2>2. {k} \in SUBSET Keys /\ \A j \in {k} : Own(c, j)
    BY <1>1
  <2>3. UNCHANGED <<ts, versions, txn>> /\ status[c] # "committed"
    BY <1>1, <1>4
  <2> QED BY <1>1, <1>2, <2>1, <2>2, <2>3, UnlockMaps
<1> QED BY <1>3, <1>4 DEF Resolve

\* The two sides of a rollback.
LEMMA RollbackMaps ==
  ASSUME IInv, IInv', NEW c \in Calls, Expire(c) \/ \E k \in Keys : RollbackKey(c, k)
  PROVE  UNCHANGED Contract!avars
<1>1. Shape /\ UNCHANGED <<ts, versions, txn>>
  BY DEF IInv, Expire, RollbackKey
<1>2. CASE Expire(c)
  <2> DEFINE S == {k \in Keys : Own(c, k) /\ k = Primary(c)}
  <2>1. Unlocked(S) /\ status[c] # "committed"
    BY <1>2 DEF Expire, Unlocked
  <2>2. Decided(c, "rolled_back")
    BY <1>1, <1>2 DEF Shape, Expire, Decided
  <2>3. S \in SUBSET Keys /\ \A k \in S : Own(c, k)
    OBVIOUS
  <2> HIDE DEF S
  <2> QED BY <1>1, <2>1, <2>2, <2>3, UnlockMaps
<1>3. CASE \E k \in Keys : RollbackKey(c, k)
  <2>1. PICK k \in Keys : RollbackKey(c, k)
    BY <1>3
  <2>2. Own(c, k) /\ status[c] # "committed"
    BY <2>1, CallType DEF RollbackKey, Protocol, Deciding
  <2>3. Unlocked({k})
    BY <1>1, <2>1 DEF RollbackKey, Unlocked, Shape
  <2>4. Decided(c, "rolled_back") \/ Decided(c, status[c])
    BY <1>1, <2>1 DEF RollbackKey, Shape, Decided
  <2>5. {k} \in SUBSET Keys /\ \A j \in {k} : Own(c, j)
    BY <2>2
  <2> QED BY <1>1, <2>2, <2>3, <2>4, <2>5, UnlockMaps
<1> QED BY <1>2, <1>3

\* Every step is one of the contract, or none.
LEMMA StepMaps ==
  "unlocked" \notin Modes /\ IInv /\ IInv' /\ [Next]_vars => [Contract!Next]_(Contract!avars)
<1> SUFFICES ASSUME "unlocked" \notin Modes, IInv, IInv', [Next]_vars
             PROVE  Contract!Next \/ UNCHANGED Contract!avars
  OBVIOUS
<1>1. ASSUME NEW c \in Calls, Call(c) PROVE Contract!Next
  BY <1>1, CalledMaps
<1>2. ASSUME NEW c \in Calls,
             \/ Begin(c) \/ ForUpdate(c) \/ Acquire(c) \/ Read(c) \/ StageFails(c)
             \/ (\E k \in Keys : Prewrite(c, k)) \/ PrewriteFails(c) \/ CommitTs(c) \/ CommitRejected(c)
      PROVE  UNCHANGED Contract!avars
  BY <1>2, RunningMaps
<1>3. ASSUME NEW c \in Calls, BeginFails(c) \/ Committed(c) \/ Undetermined(c) \/ RolledBack(c)
      PROVE  Contract!Next
  BY <1>3, ReturnsMap
<1>4. ASSUME NEW c \in Calls, CommitPrimary(c) PROVE Contract!Next
  BY <1>4, CommitPrimaryMaps
<1>5. ASSUME NEW c \in Calls, Expire(c) \/ \E k \in Keys : RollbackKey(c, k)
      PROVE  UNCHANGED Contract!avars
  BY <1>5, RollbackMaps
<1>6. ASSUME NEW k \in Keys, Resolve(k) PROVE UNCHANGED Contract!avars
  BY <1>6, ResolveMaps
<1>7. CASE UNCHANGED vars
  <2>1. /\ \A k \in Keys : Value(k)' = Value(k)
        /\ \A d \in Calls : Seen(d)' = Seen(d)
    BY <1>7 DEF vars, Value, Writes, Newest, Seen
  <2> QED BY <2>1, Unseen
<1> QED BY <1>1, <1>2, <1>3, <1>4, <1>5, <1>6, <1>7 DEF Next

\* commit() implements the promise of the trait, in the two modes that lock the
\* keys they only check: for any calls, keys and batches, whatever fails, and
\* whoever resolves the locks.
THEOREM CommitKeepsContract == ASSUME "unlocked" \notin Modes PROVE Spec => KeepsContract
<1>1. IInv /\ IInv' /\ [Next]_vars => [Contract!Next]_(Contract!avars)
  BY StepMaps
<1> QED BY <1>1, InitMaps, Invariance, PTL DEF Spec, KeepsContract, Contract!Spec

-----------------------------------------------------------------------------
(* What holds in the third mode, too                                         *)

\* To call commit(), or to return from it, shows a reader nothing new.
LEMMA EndsQuietly ==
  ASSUME IInv, IInv', NEW c \in Calls,
         Call(c) \/ BeginFails(c) \/ Committed(c) \/ Undetermined(c) \/ RolledBack(c),
         NEW k \in Keys
  PROVE  Value(k)' = Value(k)
<1>1. /\ txn \in [Calls -> Txn] /\ txn[c] \in Txn /\ Protocol(c)
      /\ UNCHANGED <<versions, locks, status>>
  BY CallType DEF IInv, Shape, Call, BeginFails, Committed, Undetermined, RolledBack
<1>2. /\ \A d \in Calls : d # c => txn'[d] = txn[d]
      /\ status[c] = "committed" => txn'[c].batch = txn[c].batch
  <2>1. CASE Call(c)
    <3>1. status[c] # "committed"
      BY <1>1, <2>1 DEF Call, Protocol, Called
    <3> QED BY <1>1, <2>1, <3>1 DEF Call
  <2>2. CASE ~ Call(c)
    <3>1. PICK o : Return(c, o)
      BY <2>2 DEF BeginFails, Committed, Undetermined, RolledBack
    <3> QED BY <1>1, <3>1 DEF Return, Txn
  <2> QED BY <2>1, <2>2
<1> QED BY <1>1, <1>2, QuietLocal

\* Only the commit point does.
LEMMA OthersAreQuiet ==
  ASSUME IInv, IInv', Next, \A c \in Calls : ~ CommitPrimary(c), NEW k \in Keys
  PROVE  Value(k)' = Value(k)
<1>1. UNCHANGED Contract!avars => Value(k)' = Value(k)
  BY DEF Contract!avars
<1>2. ASSUME NEW c \in Calls, Call(c) \/ BeginFails(c) \/ Committed(c) \/ Undetermined(c) \/ RolledBack(c)
      PROVE  Value(k)' = Value(k)
  BY <1>2, EndsQuietly
<1>3. ASSUME NEW c \in Calls,
             \/ Begin(c) \/ ForUpdate(c) \/ Acquire(c) \/ Read(c) \/ StageFails(c)
             \/ (\E q \in Keys : Prewrite(c, q)) \/ PrewriteFails(c) \/ CommitTs(c) \/ CommitRejected(c)
      PROVE  UNCHANGED Contract!avars
  BY <1>3, RunningMaps
<1>4. ASSUME NEW c \in Calls, Expire(c) \/ \E q \in Keys : RollbackKey(c, q)
      PROVE  UNCHANGED Contract!avars
  BY <1>4, RollbackMaps
<1>5. ASSUME NEW q \in Keys, Resolve(q) PROVE UNCHANGED Contract!avars
  BY <1>5, ResolveMaps
<1> QED BY <1>1, <1>2, <1>3, <1>4, <1>5 DEF Next

\* In every mode, OptimisticUnlocked included, the store changes only when one
\* transaction commits, and then by the whole of its batch, while the preconditions
\* on the keys it writes hold: no update is lost.  In the two modes that lock, those on
\* the other keys hold as well, whichever modes the other callers are in: what the
\* third mode gives up, it gives up for its own batches alone.
THEOREM BatchesLandWhole ==
  Spec => [][\/ \A k \in Keys : Value(k)' = Value(k)
             \/ \E c \in Calls :
                  /\ status[c] = "open" /\ status'[c] = "committed"
                  /\ \A k \in Keys : Value(k)' = IF k \in Writes(c) THEN txn[c].batch.writes[k] ELSE Value(k)
                  /\ \A i \in DOMAIN Pre(c) : Pre(c)[i].key \in Writes(c) \/ txn[c].mode # "unlocked" =>
                       Value(Pre(c)[i].key) = Pre(c)[i].expected]_vars
<1> DEFINE Landing(c) ==
             /\ status[c] = "open" /\ status'[c] = "committed"
             /\ \A k \in Keys : Value(k)' = IF k \in Writes(c) THEN txn[c].batch.writes[k] ELSE Value(k)
             /\ \A i \in DOMAIN Pre(c) : Pre(c)[i].key \in Writes(c) \/ txn[c].mode # "unlocked" =>
                  Value(Pre(c)[i].key) = Pre(c)[i].expected
           Whole == (\A k \in Keys : Value(k)' = Value(k)) \/ \E c \in Calls : Landing(c)
<1>1. ASSUME IInv, NEW c \in Calls, CommitPrimary(c) PROVE Landing(c)
  <2>1. /\ txn[c].batch \in Batches
        /\ status[c] = "open" /\ status'[c] = "committed"
        /\ \A i \in DOMAIN Pre(c) : Pre(c)[i].key \in Mutations(c) =>
             Pre(c)[i].key \in Keys /\ Value(Pre(c)[i].key) = Pre(c)[i].expected
        /\ \A k \in Keys : Value(k)' = IF k \in Writes(c) THEN txn[c].batch.writes[k] ELSE Value(k)
    BY <1>1, Lands
  <2>2. ASSUME NEW i \in DOMAIN Pre(c), Pre(c)[i].key \in Writes(c) \/ txn[c].mode # "unlocked"
        PROVE  Pre(c)[i].key \in Mutations(c)
    BY <2>2 DEF Mutations, PreKeys
  <2> QED BY <2>1, <2>2
<1>2. IInv /\ IInv' /\ [Next]_vars => [Whole]_vars
  <2> SUFFICES ASSUME IInv, IInv', Next PROVE Whole
    OBVIOUS
  <2>1. CASE \E c \in Calls : CommitPrimary(c)
    BY <1>1, <2>1
  <2>2. CASE \A c \in Calls : ~ CommitPrimary(c)
    BY <2>2, OthersAreQuiet
  <2> QED BY <2>1, <2>2
<1> QED BY <1>2, Invariance, PTL DEF Spec

\* What commit() returns stays true, in every mode: after Ok the batch is in, and a
\* batch that met a Conflict never lands, whatever is still on its way.
THEOREM OutcomesAreTrue ==
  Spec => [](\A c \in Calls : txn[c].pc = "done" =>
               /\ txn[c].out = "committed" => status[c] = "committed"
               /\ txn[c].out = "conflict" => status[c] # "committed")
<1> DEFINE True == \A c \in Calls : txn[c].pc = "done" =>
                     /\ txn[c].out = "committed" => status[c] = "committed"
                     /\ txn[c].out = "conflict" => status[c] # "committed"
<1>1. IInv => True
  BY DEF IInv, Protocol, Outcomed, Deciding
<1> QED BY <1>1, Invariance, PTL
=============================================================================
