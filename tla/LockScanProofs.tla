-------------------------- MODULE LockScanProofs ---------------------------
(***************************************************************************)
(* What the driver's paging guarantees for every set of keys, every batch  *)
(* size and every way the regions split and the other locks come and go.   *)
(*                                                                         *)
(* The argument is the one in the comment of page_cut: a lock that was     *)
(* there and not returned lies in a truncated region, which returned       *)
(* batch_size locks below it; so it is above the batch_size-th smallest    *)
(* key of the page, and is met again on a later page.                      *)
(***************************************************************************)
EXTENDS LockScan, FiniteSetTheorems, TLAPS

\* While the scan runs, what is behind the cursor has been reported, once, if
\* it is steady; nothing ahead of the cursor has been reported at all.
BehindIsReported ==
  pc = "scanning" => \A k \in steady : k < cursor => reported[k] > 0
AheadIsFresh ==
  /\ pc = "idle" => \A k \in Keys : reported[k] = 0
  /\ pc = "scanning" => \A k \in Keys : k >= cursor => reported[k] = 0
SteadyInRange == \A k \in steady : k < end

Inv ==
  /\ TypeOK
  /\ SteadyInRange
  /\ BehindIsReported
  /\ AheadIsFresh
  /\ NoLockSkipped
  /\ NoLockTwice

\* A page and its parts are finite sets.
LEMMA PartsAreFinite ==
  ASSUME NEW S \in SUBSET Keys
  PROVE  IsFiniteSet(S) /\ Cardinality(S) \in Nat
  BY KeysAssumption, FS_Subset, FS_CardinalityType

\* The region of an unreturned lock was truncated.
LEMMA UnreturnedIsTruncated ==
  ASSUME NEW locks \in SUBSET Keys, NEW page \in SUBSET locks,
         NEW first \in Splits, IsPage(page, locks, first), NEW u \in locks \ page
  PROVE  /\ Cardinality(page \intersect Region(first, u)) = batch
         /\ \A k \in page \intersect Region(first, u) : k < u
<1> DEFINE r == Region(first, u)
<1>1. u \in locks \intersect r /\ u \notin page
  BY DEF Region
<1>2. Truncated(page \intersect r, locks \intersect r)
  <2>1. u \in Keys
    OBVIOUS
  <2> QED BY <1>1, <2>1 DEF IsPage
<1> QED BY <1>1, <1>2 DEF Truncated

\* page_cut: whatever was not returned is above the cut.
LEMMA CutIsSafe ==
  ASSUME TypeOK, pc = "scanning",
         NEW locks \in SUBSET Keys, NEW page \in SUBSET locks,
         NEW first \in Splits, IsPage(page, locks, first),
         NEW cut \in page, IsCut(page, cut), NEW u \in locks \ page
  PROVE  cut < u
<1> DEFINE part == page \intersect Region(first, u)
           below == {k \in page : k < cut}
<1>1. cut \in Int /\ u \in Int /\ Keys \subseteq Int
  BY KeysAssumption
<1>2. Cardinality(part) = batch /\ \A k \in part : k < u
  BY UnreturnedIsTruncated
<1>3. Cardinality(below) = batch - 1 /\ batch \in Nat
  BY BatchAssumption DEF IsCut, TypeOK
<1>4. IsFiniteSet(below)
  BY PartsAreFinite
<1>5. ASSUME u <= cut PROVE FALSE
  <2>1. part \subseteq below
    <3> SUFFICES ASSUME NEW k \in part PROVE k \in page /\ k < cut
      OBVIOUS
    <3>1. k \in page /\ k \in Int /\ k < u
      BY <1>1, <1>2
    <3> QED BY <1>1, <1>5, <3>1
  <2>2. Cardinality(part) <= Cardinality(below)
    BY <2>1, <1>4, FS_Subset
  <2> QED BY <2>2, <1>2, <1>3
<1> QED BY <1>1, <1>5

\* A page that is not full has everything.
LEMMA ShortPageIsComplete ==
  ASSUME TypeOK, pc = "scanning",
         NEW locks \in SUBSET Keys, NEW page \in SUBSET locks,
         NEW first \in Splits, IsPage(page, locks, first), Cardinality(page) < batch
  PROVE  page = locks
<1> SUFFICES ASSUME NEW u \in locks \ page PROVE FALSE
  OBVIOUS
<1>1. Cardinality(page \intersect Region(first, u)) = batch
  BY UnreturnedIsTruncated
<1>2. IsFiniteSet(page) /\ Cardinality(page) \in Nat /\ batch \in Nat
  BY PartsAreFinite, BatchAssumption DEF TypeOK
<1>3. Cardinality(page \intersect Region(first, u)) <= Cardinality(page)
  BY <1>2, FS_Subset
<1> QED BY <1>1, <1>2, <1>3

\* Nothing is reported at first.
LEMMA InitEstablishes == Init => Inv
  BY DEF Init, Inv, TypeOK, SteadyInRange, BehindIsReported, AheadIsFresh,
         NoLockSkipped, NoLockTwice

\* A scan starts at the first key of its range.
LEMMA StartPreserves == Inv /\ Start => Inv'
<1> SUFFICES ASSUME Inv, Start PROVE Inv'
  OBVIOUS
<1>1. Keys \subseteq Int /\ Batches \subseteq Nat
  BY KeysAssumption, BatchAssumption
<1>2. steady' \subseteq Keys /\ \A k \in steady' : cursor' <= k /\ k < end'
  BY DEF Start, Within
<1>3. TypeOK'
  BY <1>1, <1>2 DEF Inv, Start, TypeOK
<1>4. BehindIsReported'
  BY <1>1, <1>2 DEF Start, BehindIsReported
<1>5. AheadIsFresh'
  BY DEF Inv, Start, AheadIsFresh
<1> QED BY <1>2, <1>3, <1>4, <1>5 DEF Inv, Start, SteadyInRange, NoLockSkipped, NoLockTwice

\* What a page reports was fresh, and is then reported once.
LEMMA ReportOnce ==
  ASSUME TypeOK, AheadIsFresh, NoLockTwice, pc = "scanning",
         NEW found \in SUBSET Within(cursor, end), Report(found)
  PROVE  /\ reported' \in [Keys -> 0 .. 2]
         /\ NoLockTwice'
         /\ \A k \in Keys : k \in found => reported'[k] = 1
         /\ \A k \in Keys : k \notin found => reported'[k] = reported[k]
<1>1. \A k \in found : k \in Keys /\ k >= cursor
  BY KeysAssumption DEF Within, TypeOK
<1>2. \A k \in found : reported[k] = 0
  BY <1>1 DEF AheadIsFresh
<1> QED BY <1>1, <1>2 DEF Report, TypeOK, NoLockTwice

\* A full page is kept up to its cut, and the scan goes on above it.
LEMMA PagePreserves == Inv /\ Page => Inv'
<1> SUFFICES ASSUME Inv, Page PROVE Inv'
  OBVIOUS
<1> USE DEF Inv
<1>1. PICK locks \in Seen, first \in Splits : \E page \in SUBSET locks :
        /\ IsPage(page, locks, first)
        /\ \E cut \in page :
             /\ IsCut(page, cut)
             /\ Report({k \in page : k <= cut})
             /\ cursor' = NextCursor(cut)
             /\ pc' = IF NextCursor(cut) >= end THEN "done" ELSE "scanning"
  BY DEF Page
<1>2. PICK page \in SUBSET locks :
        /\ IsPage(page, locks, first)
        /\ \E cut \in page :
             /\ IsCut(page, cut)
             /\ Report({k \in page : k <= cut})
             /\ cursor' = NextCursor(cut)
             /\ pc' = IF NextCursor(cut) >= end THEN "done" ELSE "scanning"
  BY <1>1
<1>3. PICK cut \in page :
        /\ IsCut(page, cut)
        /\ Report({k \in page : k <= cut})
        /\ cursor' = NextCursor(cut)
        /\ pc' = IF NextCursor(cut) >= end THEN "done" ELSE "scanning"
  BY <1>2
<1>4. pc = "scanning" /\ UNCHANGED <<batch, end, steady>>
  BY DEF Page
<1> DEFINE found == {k \in page : k <= cut}
<1>5. /\ locks \subseteq Within(cursor, end) /\ locks \in SUBSET Keys
      /\ \A k \in steady : k >= cursor => k \in locks
  BY KeysAssumption DEF Seen, Within, SteadyInRange, TypeOK
<1>6. Keys \subseteq Int /\ cut \in Int /\ cursor' = cut + 1 /\ cursor <= cut
  BY <1>3, <1>5, KeysAssumption DEF NextCursor, Within
<1>7. found \in SUBSET Within(cursor, end)
  BY <1>5
<1>8. /\ reported' \in [Keys -> 0 .. 2]
      /\ NoLockTwice'
      /\ \A k \in Keys : k \in found => reported'[k] = 1
      /\ \A k \in Keys : k \notin found => reported'[k] = reported[k]
  BY <1>3, <1>4, <1>7, ReportOnce
<1>9. TypeOK'
  BY <1>3, <1>4, <1>6, <1>8 DEF TypeOK
<1>10. \A k \in steady : k < cursor' => reported'[k] > 0
  <2> SUFFICES ASSUME NEW k \in steady, k < cursor' PROVE reported'[k] > 0
    OBVIOUS
  <2>1. k \in Keys /\ k \in Int /\ cursor \in Int
    BY KeysAssumption DEF TypeOK
  <2>2. CASE k < cursor
    <3>1. reported[k] > 0
      BY <1>4, <2>2 DEF BehindIsReported
    <3>2. reported[k] \in 0 .. 2
      BY <2>1 DEF TypeOK
    <3> QED BY <1>8, <2>1, <3>1, <3>2
  <2>3. CASE k >= cursor
    <3>1. k \in locks /\ k <= cut
      BY <1>5, <1>6, <2>1, <2>3
    <3>2. k \in page
      BY <1>2, <1>3, <1>4, <1>5, <1>6, <2>1, <3>1, CutIsSafe
    <3> QED BY <1>8, <2>1, <3>1, <3>2
  <2> QED BY <2>1, <2>2, <2>3
<1>11. AheadIsFresh'
  <2> SUFFICES ASSUME NEW k \in Keys, k >= cursor' PROVE reported'[k] = 0
    BY <1>3 DEF AheadIsFresh
  <2>1. k \in Int /\ k > cut /\ k >= cursor
    BY <1>6 DEF TypeOK
  <2>2. k \notin found /\ reported[k] = 0
    BY <1>4, <1>6, <2>1 DEF AheadIsFresh
  <2> QED BY <1>8, <2>2
<1>12. SteadyInRange'
  BY <1>4 DEF SteadyInRange
<1>13. BehindIsReported'
  BY <1>4, <1>10 DEF BehindIsReported
<1>14. NoLockSkipped'
  <2> SUFFICES ASSUME pc' = "done", NEW k \in steady PROVE reported'[k] > 0
    BY <1>4 DEF NoLockSkipped
  <2>1. cursor' >= end /\ k < end /\ k \in Int /\ end \in Int
    BY <1>3, <1>6 DEF SteadyInRange, TypeOK
  <2> QED BY <1>6, <1>10, <2>1
<1> QED BY <1>8, <1>9, <1>11, <1>12, <1>13, <1>14

\* A page that is not full holds all that is left.
LEMMA LastPagePreserves == Inv /\ LastPage => Inv'
<1> SUFFICES ASSUME Inv, LastPage PROVE Inv'
  OBVIOUS
<1> USE DEF Inv
<1>1. PICK locks \in Seen, first \in Splits : \E page \in SUBSET locks :
        /\ IsPage(page, locks, first)
        /\ Cardinality(page) < batch
        /\ Report(page)
  BY DEF LastPage
<1>2. PICK page \in SUBSET locks :
        IsPage(page, locks, first) /\ Cardinality(page) < batch /\ Report(page)
  BY <1>1
<1>3. pc = "scanning" /\ pc' = "done" /\ UNCHANGED <<batch, end, cursor, steady>>
  BY DEF LastPage
<1>4. /\ locks \subseteq Within(cursor, end) /\ locks \in SUBSET Keys
      /\ \A k \in steady : k >= cursor => k \in locks
  BY KeysAssumption DEF Seen, Within, SteadyInRange, TypeOK
<1>5. page = locks
  BY <1>2, <1>3, <1>4, ShortPageIsComplete
<1>6. /\ reported' \in [Keys -> 0 .. 2]
      /\ NoLockTwice'
      /\ \A k \in Keys : k \in page => reported'[k] = 1
      /\ \A k \in Keys : k \notin page => reported'[k] = reported[k]
  BY <1>2, <1>3, <1>4, ReportOnce
<1>7. TypeOK'
  BY <1>3, <1>6 DEF TypeOK
<1>8. NoLockSkipped'
  <2> SUFFICES ASSUME NEW k \in steady PROVE reported'[k] > 0
    BY <1>3 DEF NoLockSkipped
  <2>1. k \in Keys /\ k \in Int /\ cursor \in Int /\ reported[k] \in 0 .. 2
    BY KeysAssumption DEF TypeOK
  <2>2. k < cursor => reported[k] > 0
    BY <1>3 DEF BehindIsReported
  <2> QED BY <1>4, <1>5, <1>6, <2>1, <2>2
<1> QED BY <1>3, <1>6, <1>7, <1>8 DEF SteadyInRange, BehindIsReported, AheadIsFresh

\* A scan that fails reports nothing more.
LEMMA FailPreserves == Inv /\ Fail => Inv'
  BY DEF Inv, Fail, TypeOK, SteadyInRange, BehindIsReported, AheadIsFresh,
         NoLockSkipped, NoLockTwice

\* Nothing changes in a step that changes nothing.
LEMMA StutterPreserves == Inv /\ UNCHANGED vars => Inv'
  BY DEF Inv, vars, TypeOK, SteadyInRange, BehindIsReported, AheadIsFresh,
         NoLockSkipped, NoLockTwice

\* The invariant holds throughout.
LEMMA Invariance == Spec => []Inv
<1>1. Inv /\ [Next]_vars => Inv'
  BY StartPreserves, PagePreserves, LastPagePreserves, FailPreserves,
     StutterPreserves DEF Next
<1> QED BY <1>1, InitEstablishes, PTL DEF Spec

\* The variables keep their types, and a batch_size of 0 never reaches the loop.
THEOREM ScanTypeCorrect == Spec => []TypeOK
<1>1. Inv => TypeOK
  BY DEF Inv
<1> QED BY <1>1, Invariance, PTL

\* The loop of exec.rs reports every lock that is there throughout the scan.
THEOREM EveryLockReported == Spec => []NoLockSkipped
<1>1. Inv => NoLockSkipped
  BY DEF Inv
<1> QED BY <1>1, Invariance, PTL

\* And it reports none twice.
THEOREM NoLockReportedTwice == Spec => []NoLockTwice
<1>1. Inv => NoLockTwice
  BY DEF Inv
<1> QED BY <1>1, Invariance, PTL

-----------------------------------------------------------------------------
(* The way to the end                                                        *)

\* The locks that are in the result so far.
Reported == {k \in Keys : reported[k] > 0}

\* What page_cut keeps of a full page is batch_size locks.
LEMMA KeptOfPage ==
  ASSUME batch \in Nat, NEW page \in SUBSET Keys, NEW cut \in page, IsCut(page, cut)
  PROVE  /\ IsFiniteSet({k \in page : k <= cut})
         /\ Cardinality({k \in page : k <= cut}) = batch
<1> DEFINE below == {k \in page : k < cut}
<1>1. Keys \subseteq Int
  BY KeysAssumption
<1>2. {k \in page : k <= cut} = below \union {cut}
  <2>1. \A k \in page : k \in Int
    BY <1>1
  <2>2. \A k \in page : k <= cut <=> k < cut \/ k = cut
    BY <2>1
  <2> QED BY <2>2
<1>3. IsFiniteSet(below) /\ cut \notin below
  BY <1>1, PartsAreFinite
<1>4. Cardinality(below) = batch - 1
  BY DEF IsCut
<1>5. IsFiniteSet(below \union {cut}) /\ Cardinality(below \union {cut}) = Cardinality(below) + 1
  BY <1>3, FS_AddElement
<1> QED BY <1>2, <1>4, <1>5

\* Sets that do not meet have as many members as the one and the other.
LEMMA DisjointCardinality ==
  ASSUME NEW S, IsFiniteSet(S), NEW T, IsFiniteSet(T), S \intersect T = {}
  PROVE  Cardinality(S \union T) = Cardinality(S) + Cardinality(T)
<1>1. Cardinality(S) \in Nat /\ Cardinality(T) \in Nat
  BY FS_CardinalityType
<1>2. Cardinality(S \union T) = Cardinality(S) + Cardinality(T) - Cardinality(S \intersect T)
  BY FS_Union
<1>3. Cardinality({}) = 0
  BY FS_EmptySet
<1>4. Cardinality(S \intersect T) = 0
  BY <1>3
<1> QED BY <1>1, <1>2, <1>4

\* A full page moves the cursor up, and adds batch_size locks to the result.
LEMMA PageAdvances ==
  ASSUME Inv, Page
  PROVE  /\ cursor < cursor' /\ (pc' = "scanning" => cursor' < end)
         /\ Cardinality(Reported') = Cardinality(Reported) + batch
<1>1. PICK locks \in Seen : \E first \in Splits, page \in SUBSET locks :
        \E cut \in page :
          /\ IsCut(page, cut)
          /\ Report({k \in page : k <= cut})
          /\ cursor' = NextCursor(cut)
          /\ pc' = IF NextCursor(cut) >= end THEN "done" ELSE "scanning"
  BY DEF Page
<1>2. PICK page \in SUBSET locks : \E cut \in page :
          /\ IsCut(page, cut)
          /\ Report({k \in page : k <= cut})
          /\ cursor' = NextCursor(cut)
          /\ pc' = IF NextCursor(cut) >= end THEN "done" ELSE "scanning"
  BY <1>1
<1>3. PICK cut \in page :
          /\ IsCut(page, cut)
          /\ Report({k \in page : k <= cut})
          /\ cursor' = NextCursor(cut)
          /\ pc' = IF NextCursor(cut) >= end THEN "done" ELSE "scanning"
  BY <1>2
<1>4. pc = "scanning"
  BY DEF Page
<1>5. TypeOK /\ AheadIsFresh /\ NoLockTwice
  BY DEF Inv
<1>6. Keys \subseteq Int /\ cursor \in Int /\ end \in Int /\ batch \in Nat
  BY <1>4, <1>5, KeysAssumption, BatchAssumption DEF TypeOK
<1>7. page \subseteq Within(cursor, end) /\ page \in SUBSET Keys
  BY DEF Seen, Within
<1>8. cut \in Int /\ cursor <= cut /\ cursor' = cut + 1
  BY <1>3, <1>6, <1>7 DEF NextCursor, Within
<1>9. cursor < cursor' /\ (pc' = "scanning" => cursor' < end)
  BY <1>3, <1>6, <1>8
<1> DEFINE found == {k \in page : k <= cut}
<1>10. found \in SUBSET Within(cursor, end) /\ found \subseteq Keys
  BY <1>7
<1>11. IsFiniteSet(found) /\ Cardinality(found) = batch
  BY <1>3, <1>6, <1>7, KeptOfPage
<1>12. Report(found)
  BY <1>3
<1> HIDE DEF found
<1>13. /\ \A k \in Keys : k \in found => reported'[k] = 1
       /\ \A k \in Keys : k \notin found => reported'[k] = reported[k]
  BY <1>4, <1>5, <1>10, <1>12, ReportOnce
<1>14. \A k \in found : reported[k] = 0
  <2> SUFFICES ASSUME NEW k \in found PROVE reported[k] = 0
    OBVIOUS
  <2>1. k \in Keys /\ k >= cursor
    BY <1>6, <1>10 DEF Within
  <2> QED BY <1>4, <1>5, <2>1 DEF AheadIsFresh
<1>15. Reported' = Reported \union found
  BY <1>10, <1>13 DEF Reported
<1>16. Reported \intersect found = {}
  BY <1>14 DEF Reported
<1>17. IsFiniteSet(Reported)
  BY PartsAreFinite DEF Reported
<1>18. Cardinality(Reported \union found) = Cardinality(Reported) + Cardinality(found)
  BY <1>11, <1>16, <1>17, DisjointCardinality
<1> QED BY <1>9, <1>11, <1>15, <1>18

\* Every page but the last makes progress: it moves the cursor up, which stays within
\* the range, and brings batch_size locks that no page brought before.  So the loop of
\* exec.rs asks for a page at most once more than batch_size goes into the locks.
THEOREM PagesAdvance ==
  Spec => [][pc = "scanning" /\ pc' = "scanning" =>
               /\ cursor < cursor' /\ cursor' < end
               /\ Cardinality(Reported') = Cardinality(Reported) + batch]_vars
<1> DEFINE Advance == pc = "scanning" /\ pc' = "scanning" =>
                        /\ cursor < cursor' /\ cursor' < end
                        /\ Cardinality(Reported') = Cardinality(Reported) + batch
<1>1. Inv /\ [Next]_vars => [Advance]_vars
  <2> SUFFICES ASSUME Inv, Next, pc = "scanning", pc' = "scanning" PROVE Advance
    OBVIOUS
  <2>1. Page
    <3>1. pc' # "scanning" \/ Page \/ pc # "scanning"
      BY DEF Next, Start, LastPage, Fail
    <3> QED BY <3>1
  <2> QED BY <2>1, PageAdvances
<1> QED BY <1>1, Invariance, PTL DEF Spec
=============================================================================
