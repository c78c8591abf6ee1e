----------------------------- MODULE LockScan ------------------------------
(***************************************************************************)
(* The scan_locks command of the Rust driver (crates/rust-driver/src/      *)
(* exec.rs): client-rust's scan_locks returns at most batch_size locks PER *)
(* REGION, merged, so the driver pages through the range and keeps of each *)
(* page only what must be complete.  The answer says which residue a       *)
(* client left, so a lock it skips would turn an orphan into a success.    *)
(*                                                                         *)
(* Keys are integers in key order, and a lock is its key.  next_cursor     *)
(* appends a zero byte: the successor, no key lies between.  Meanwhile the *)
(* regions split and merge, and all locks but the steady ones come and go, *)
(* also while the regions answer one request at different moments.         *)
(***************************************************************************)
EXTENDS Integers, FiniteSets

CONSTANTS
  Keys,      \* the keys in the cluster
  Batches,   \* the batch sizes of the scenarios
  None       \* no batch size yet

ASSUME KeysAssumption == Keys \subseteq Int /\ IsFiniteSet(Keys)
ASSUME BatchAssumption == Batches \subseteq Nat

VARIABLES
  pc,        \* "idle", "scanning", "done", "refused" or "failed"
  batch,     \* batch_size
  end,       \* the first key after the range
  cursor,    \* where the next page starts
  reported,  \* key -> how often it is in the result (2: more than once)
  steady     \* the locks in the range that stay in place until the scan is over

vars == <<pc, batch, end, cursor, reported, steady>>

Within(from, to) == {k \in Keys : from <= k /\ k < to}

Init ==
  /\ pc = "idle"
  /\ batch = None
  /\ end = 0
  /\ cursor = 0
  /\ reported = [k \in Keys |-> 0]
  /\ steady = {}

\* Mutant of Start: any batch_size will do.
StartUnchecked ==
  /\ pc = "idle"
  /\ batch' \in Batches
  /\ cursor' \in Keys /\ end' \in Keys
  /\ steady' \in SUBSET Within(cursor', end')
  /\ pc' = "scanning"
  /\ UNCHANGED reported

\* batch_size 0 could make no progress, and is refused.
Start ==
  /\ pc = "idle"
  /\ batch' \in Batches
  /\ cursor' \in Keys /\ end' \in Keys
  /\ steady' \in SUBSET Within(cursor', end')
  /\ pc' = IF batch' = 0 THEN "refused" ELSE "scanning"
  /\ UNCHANGED reported

\* Regions are intervals of keys: first[k] is the lowest key of k's region.
Splits ==
  {first \in [Keys -> Keys] :
     /\ \A k \in Keys : first[k] <= k /\ first[first[k]] = first[k]
     /\ \A j, k \in Keys : j <= k => first[j] <= first[k]}
Region(first, k) == {j \in Keys : first[j] = first[k]}

\* The locks the regions see ahead of the cursor.
Seen == {locks \in SUBSET Within(cursor, end) : steady \intersect Within(cursor, end) \subseteq locks}

\* A page of them: every region yields all it sees, or its batch_size lowest.
Truncated(part, all) ==
  Cardinality(part) = batch /\ \A k \in part, u \in all \ part : k < u
IsPage(page, locks, first) ==
  /\ page \subseteq locks
  /\ \A k \in Keys : LET r == Region(first, k) IN
       locks \intersect r \subseteq page \/ Truncated(page \intersect r, locks \intersect r)

\* Mutant of IsCut: the last key of the page is taken for safe.
IsLast(page, cut) ==
  /\ Cardinality(page) >= batch
  /\ cut \in page /\ \A k \in page : k <= cut
\* page_cut: the batch_size-th smallest key.
IsCut(page, cut) ==
  /\ Cardinality(page) >= batch
  /\ cut \in page /\ Cardinality({k \in page : k < cut}) = batch - 1

\* Mutant of NextCursor: the cut itself is read again.
SameCursor(cut) == cut
NextCursor(cut) == cut + 1

Report(found) ==
  reported' = [k \in Keys |-> IF k \notin found THEN reported[k]
                             ELSE IF reported[k] = 0 THEN 1 ELSE 2]

\* A full page: keep what is at or below the cut, and go on above it.
Page ==
  /\ pc = "scanning"
  /\ \E locks \in Seen, first \in Splits : \E page \in SUBSET locks :
       /\ IsPage(page, locks, first)
       /\ \E cut \in page :
            /\ IsCut(page, cut)
            /\ Report({k \in page : k <= cut})
            /\ cursor' = NextCursor(cut)
            /\ pc' = IF NextCursor(cut) >= end THEN "done" ELSE "scanning"
  /\ UNCHANGED <<batch, end, steady>>

\* A page that is not full, or empty, is the last one.
LastPage ==
  /\ pc = "scanning"
  /\ \E locks \in Seen, first \in Splits : \E page \in SUBSET locks :
       /\ IsPage(page, locks, first)
       /\ Cardinality(page) < batch
       /\ Report(page)
  /\ pc' = "done"
  /\ UNCHANGED <<batch, end, cursor, steady>>

\* The request fails: the command answers with that error, and no locks.
Fail ==
  /\ pc = "scanning"
  /\ pc' = "failed"
  /\ UNCHANGED <<batch, end, cursor, reported, steady>>

Next == Start \/ Page \/ LastPage \/ Fail

Spec == Init /\ [][Next]_vars

\* The driver asks for the next page as soon as it has one.
FairSpec == Spec /\ WF_vars(Page \/ LastPage)

-----------------------------------------------------------------------------
(* Properties                                                                *)

\* The variables have the values declared above; a batch_size of 0 never gets
\* as far as the first request.
TypeOK ==
  /\ pc \in {"idle", "scanning", "done", "refused", "failed"}
  /\ batch \in Batches \union {None}
  /\ pc = "scanning" => batch \in Batches /\ batch # 0
  /\ end \in Int /\ cursor \in Int
  /\ reported \in [Keys -> 0 .. 2]
  /\ steady \subseteq Keys

\* Every lock that was there from the first request to the last is in the answer
\* of exec.rs's loop, however the regions moved and whatever they truncated.
NoLockSkipped == pc = "done" => \A k \in steady : reported[k] > 0

\* No lock is reported twice, although a page is read again above its cut.
NoLockTwice == \A k \in Keys : reported[k] <= 1

\* The loop ends: every page makes progress.
ScanEnds == (pc = "scanning") ~> (pc # "scanning")
=============================================================================
