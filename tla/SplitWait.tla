----------------------------- MODULE SplitWait -----------------------------
(***************************************************************************)
(* wait_for_split (crates/harness/src/split_wait.rs): write a range, and   *)
(* probe until TiKV has split it or the limit has passed, writing it again *)
(* now and then.  Every await moves the clock by as much as its own limit  *)
(* allows; between awaits no time passes.  The clock starts at 0, so the   *)
(* deadline is `limit`.                                                    *)
(***************************************************************************)
EXTENDS Integers

CONSTANTS
  limit, rewrite_every, poll,   \* the fields of struct SplitWait
  PdMax,   \* the longest a PD call takes (PD_TIMEOUT, over the endpoints)
  Lag      \* how late a timer may be noticed

ASSUME DurationAssumption ==
  /\ limit \in Nat \ {0} /\ rewrite_every \in Nat \ {0} /\ poll \in Nat \ {0}
  /\ PdMax \in Nat /\ Lag \in Nat

VARIABLES
  now,
  pc,           \* the await the wait is at, or "done"
  next_rewrite,
  rewrites,
  out           \* what the wait returned, or "nothing" yet

vars == <<now, pc, next_rewrite, rewrites, out>>

Init ==
  /\ now = 0
  /\ pc = "seed"
  /\ next_rewrite = 0
  /\ rewrites = 0
  /\ out = "nothing"

Return(result) == pc' = "done" /\ out' = result /\ UNCHANGED <<next_rewrite, rewrites>>

\* Mutant of NextRewrite: the time of the next re-write stays as it was.
NextRewriteKept == IF pc = "seed" THEN now' + rewrite_every ELSE next_rewrite
\* The re-write after a commit that has just returned.
NextRewrite == now' + rewrite_every

\* limited_commit: the commit returns, and the clock, read again, is short of the
\* deadline ...
CommitReturns ==
  /\ pc \in {"seed", "rewrite"}
  /\ now' \in now .. limit - 1
  /\ next_rewrite' = NextRewrite
  /\ IF pc = "seed" THEN pc' = "probe" /\ UNCHANGED rewrites
     ELSE pc' = "sleep" /\ rewrites' = rewrites + 1
  /\ UNCHANGED out

\* Mutant of CommitLimit: each commit has the whole limit to itself.
CommitLimitOfItsOwn ==
  /\ pc \in {"seed", "rewrite"}
  /\ now' \in now + limit .. now + limit + Lag
  /\ Return("commit limit")

\* ... or the deadline cancels it, or it was ready only after that.
CommitLimit ==
  /\ pc \in {"seed", "rewrite"}
  /\ now' \in limit .. limit + Lag
  /\ Return("commit limit")

\* The commit did not commit: the caller's future panics.
CommitPanics ==
  /\ pc \in {"seed", "rewrite"}
  /\ now' \in now .. limit + Lag
  /\ Return("panic")

ProbeSplit ==
  /\ pc = "probe"
  /\ now' \in now .. now + PdMax
  /\ Return("split")

\* Mutant of ProbeNoSplit: the re-write is looked at before the deadline.
ProbeRewriteFirst ==
  /\ pc = "probe"
  /\ now' \in now .. now + PdMax
  /\ pc' = IF now' >= next_rewrite THEN "rewrite"
           ELSE IF now' >= limit THEN "count" ELSE "sleep"
  /\ UNCHANGED <<next_rewrite, rewrites, out>>

ProbeNoSplit ==
  /\ pc = "probe"
  /\ now' \in now .. now + PdMax
  /\ pc' = IF now' >= limit THEN "count"
           ELSE IF now' >= next_rewrite THEN "rewrite" ELSE "sleep"
  /\ UNCHANGED <<next_rewrite, rewrites, out>>

RegionCount ==
  /\ pc = "count"
  /\ now' \in now .. now + PdMax
  /\ Return("no split")

\* No PD endpoint gives a usable answer: pd_get panics.
PdFails ==
  /\ pc \in {"probe", "count"}
  /\ now' \in now .. now + PdMax
  /\ Return("no PD")

\* Mutant of Sleep: its future is not awaited.
SleepNotAwaited ==
  /\ pc = "sleep"
  /\ pc' = "probe"
  /\ UNCHANGED <<now, next_rewrite, rewrites, out>>

Sleep ==
  /\ pc = "sleep"
  /\ now' \in now + poll .. now + poll + Lag
  /\ pc' = "probe"
  /\ UNCHANGED <<next_rewrite, rewrites, out>>

Next ==
  \/ CommitReturns \/ CommitLimit \/ CommitPanics
  \/ ProbeSplit \/ ProbeNoSplit \/ RegionCount \/ PdFails \/ Sleep

Spec == Init /\ [][Next]_vars

\* Every await has a limit of its own, so each of them ends.
FairSpec == Spec /\ WF_vars(Next)

-----------------------------------------------------------------------------
(* Properties                                                                *)

\* The variables have their types, and a commit starts short of the deadline:
\* what is left of it, its time limit, is never zero.
TypeOK ==
  /\ now \in Nat /\ next_rewrite \in Nat /\ rewrites \in Nat
  /\ pc \in {"seed", "rewrite", "probe", "sleep", "count", "done"}
  /\ out \in {"split", "no split", "commit limit", "panic", "no PD", "nothing"}
  /\ pc = "done" <=> out # "nothing"
  /\ pc \in {"seed", "rewrite"} => now < limit

\* "That bounds the overrun": a split is accepted at most one sleep and one probe
\* past the limit, a no-split failure comes at most one region count after that,
\* and not before the limit, and so does the failure of a PD call; a commit ends
\* at the limit.
BoundedOverrun ==
  /\ out = "split" => now < limit + poll + Lag + PdMax
  /\ out = "no split" => limit <= now /\ now < limit + poll + Lag + PdMax + PdMax
  /\ out = "no PD" => now < limit + poll + Lag + PdMax + PdMax
  /\ out = "commit limit" => limit <= now /\ now <= limit + Lag
  /\ out = "panic" => now <= limit + Lag

\* The range is written again at most once per rewrite_every, however long the
\* commits, the probes and the sleeps take.
RewritesAreSpaced == rewrites * rewrite_every <= now

\* The wait ends, also if no commit ever returns and no split ever comes.
WaitEnds == <>(pc = "done")
=============================================================================
