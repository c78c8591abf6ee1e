---------------------------- MODULE SnapshotScan ---------------------------
(***************************************************************************)
(* get and scan of TikvMetadataStore (crates/parity-gate/src/lib.rs): a    *)
(* fresh timestamp, then reads of the snapshot at that timestamp; a scan   *)
(* is paged, and decides by a full page whether another one follows.       *)
(*                                                                         *)
(* TiKV is external: a range read of a snapshot gives the first pairs of   *)
(* the range, in key order, as of the snapshot's timestamp, or fails.      *)
(* Meanwhile other callers commit.  Timestamps count the commits.          *)
(***************************************************************************)
EXTENDS StoreRead, FiniteSets

CONSTANTS
  SCAN_PAGE,
  MaxCommits   \* how many commits there are (a bound of the model)

ASSUME PageAssumption == SCAN_PAGE \in Nat \ {0}
ASSUME CommitsAssumption == MaxCommits \in Nat
ASSUME KeysAreFinite == IsFiniteSet(Keys)

VARIABLES
  pc,       \* "idle", "begin", "read" or "done"
  ts,       \* the snapshot's timestamp
  cursor,   \* where the next page starts
  out,      \* the pairs collected
  twice     \* whether one of them was collected again

vars == <<history, call, pc, ts, cursor, out, twice>>

Init ==
  /\ ReadInit
  /\ pc = "idle"
  /\ ts = 0
  /\ cursor = <<>>
  /\ out = {}
  /\ twice = FALSE

-----------------------------------------------------------------------------
OtherCommit ==
  /\ Len(history) <= MaxCommits
  /\ Commit
  /\ UNCHANGED <<pc, ts, cursor, out, twice>>

Call ==
  /\ pc = "idle"
  /\ Ask
  /\ pc' = "begin"
  /\ UNCHANGED <<ts, cursor, out, twice>>

\* snapshot(): a timestamp from PD.
TakeSnapshot ==
  /\ pc = "begin"
  /\ ts' = Len(history)
  /\ cursor' = call.request.arg
  /\ pc' = "read"
  /\ UNCHANGED <<history, call, out, twice>>

\* A request fails, and what was collected goes with it.
Fails ==
  /\ pc \in {"begin", "read"}
  /\ Answer(Err)
  /\ pc' = "done"
  /\ UNCHANGED <<ts, cursor, out, twice>>

\* The range [cursor, upper) of contents s, and its first SCAN_PAGE keys.
Upper == PrefixUpperBound(call.request.arg)
InRange(s) ==
  {k \in Keys : s[k] # None /\ ~Less(k, cursor) /\ (Upper # None => Less(k, Upper))}
FirstOf(S) ==
  {page \in SUBSET S :
     /\ \A k \in page, j \in S : Less(j, k) => j \in page
     /\ Cardinality(page) <= SCAN_PAGE
     /\ Cardinality(page) < SCAN_PAGE => page = S}
Pushed(page, s) == {<<k, s[k]>> : k \in page}

Get ==
  /\ pc = "read" /\ call.request.op = "get"
  /\ Answer(Ok(Pushed({k \in Keys : k = call.request.arg /\ history[ts][k] # None}, history[ts])))
  /\ pc' = "done"
  /\ UNCHANGED <<ts, cursor, out, twice>>

\* Mutants of NextCursor: the last key itself; the last key with its last byte
\* incremented.
NextCursorAtLast(last) == last
NextCursorIncremented(last) == [j \in DOMAIN last |-> IF j = Len(last) THEN last[j] + 1 ELSE last[j]]
\* The smallest key above the last one returned.
NextCursor(last) == Append(last, 0)

\* Mutant of FullPage: a page is taken to be followed by another.
FullPageAlways(page) == TRUE
FullPage(page) == Cardinality(page) = SCAN_PAGE

\* What scan does with a page: collect it, and resume above it or return.
Collect(page, s) ==
  /\ out' = out \union Pushed(page, s)
  /\ twice' = (twice \/ Pushed(page, s) \intersect out # {})
  /\ IF FullPage(page)
     THEN /\ \E last \in page : (\A k \in page : ~Less(last, k)) /\ cursor' = NextCursor(last)
          /\ UNCHANGED <<history, call, pc>>
     ELSE Answer(Ok(out')) /\ pc' = "done" /\ cursor' = cursor

\* Mutant of Page: each page is a read of its own, at a timestamp of its own.
PageAfresh ==
  /\ pc = "read" /\ call.request.op = "scan"
  /\ ts' = Len(history)
  /\ \E page \in FirstOf(InRange(history[ts'])) : Collect(page, history[ts'])

Page ==
  /\ pc = "read" /\ call.request.op = "scan"
  /\ \E page \in FirstOf(InRange(history[ts])) : Collect(page, history[ts])
  /\ UNCHANGED ts

Progress == TakeSnapshot \/ Get \/ Page

Next == OtherCommit \/ Call \/ Progress \/ Fails

Spec == Init /\ [][Next]_vars
\* The caller polls the future until it is ready, and a request that does not
\* fail is answered.
FairSpec == Spec /\ WF_vars(Progress)

-----------------------------------------------------------------------------
(* Properties                                                                *)

TypeOK ==
  /\ history \in Seq(Contents) /\ history # <<>>
  /\ call \in [request: Requests \union {None}, since: Nat,
                answer: {None} \union [fault: BOOLEAN, pairs: SUBSET (Keys \X Values)]]
  /\ pc \in {"idle", "begin", "read", "done"}
  /\ ts \in 0 .. Len(history)
  /\ cursor \in ByteString
  /\ out \in SUBSET (Keys \X Values)
  /\ twice \in BOOLEAN

\* The pages do not overlap: the Vec holds no pair twice.
NothingTwice == ~twice

\* The pages of a scan add up to one read of the whole prefix at one moment
\* between the call and the return, whatever is committed meanwhile: nothing
\* beyond a full page is lost, and nothing outside of the prefix is taken in.
ReadsOneMoment == ReadSpec

\* A read returns.
ReadEnds == pc = "begin" ~> pc = "done"
=============================================================================
