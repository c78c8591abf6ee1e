------------------------------- MODULE Ledger -------------------------------
(***************************************************************************)
(* From two trees to a verdict: `make parity` builds the drivers, stamps   *)
(* the world (scripts/provenance.sh) and runs the runner, `make ledger`    *)
(* then judges what is in results/ (scripts/ledger-check.sh), and either   *)
(* mode of ledger-check may be started by itself - while somebody edits,   *)
(* commits, merges and checks out both trees, and results/ outlives it all.*)
(*                                                                         *)
(* Abstractions.  One gap, with its entry in ledger.toml and its scenario, *)
(* and "another" for all the others.  The harness is a record of the parts *)
(* that somebody may want to change: [claim, scenario, code, pin]; a       *)
(* commit is its contents, and so is a digest.  client-rust is a revision  *)
(* and what is uncommitted on top of it.  The cluster and the toolchains   *)
(* are on pin or not, and so is the client-go that go.mod resolves to.  A  *)
(* read of several files by one script is one step.                        *)
(***************************************************************************)
EXTENDS Results

CONSTANTS
  Harnesses,   \* the contents of the harness
  Clients,     \* those of client-rust, [rev, work]
  Evidence,    \* what a trace may hold
  Clean,       \* the work on top of a revision when there is none
  Contains(_, _), \* whether a revision of client-rust contains another
  MaxMakes, MaxEdits  \* bounds of the model

ASSUME HarnessesAssumption ==
  \A h \in Harnesses :
    h = [claim |-> h.claim, scenario |-> h.scenario, code |-> h.code, pin |-> h.pin]
ASSUME ClientsAssumption == \A c \in Clients : c = [rev |-> c.rev, work |-> c.work]

Modes == {"strict", "candidate", "advisory"}

VARIABLES
  tree, head, base,  \* the harness on disk; its HEAD; the merge-base with origin/main
  client,            \* client-rust on disk
  gomod, rest,       \* whether client-go, and the cluster and the toolchains, are on pin
  pc,                \* of make: "idle", "built", "stamped", "running", "judging"
  goal,              \* what it was asked for: the mode, the gap to judge or None for make parity
  built,             \* the binaries: the world they were built from
  stamp,             \* results/provenance.json
  verdict,           \* [mode, says] of the last ledger-check, the world being as it was then
  candidate,         \* results/candidate-verdict.json
  makes, edits

world == <<tree, head, base, client, gomod, rest>>
vars == <<results, world, pc, goal, built, stamp, verdict, candidate, makes, edits>>

Init ==
  /\ ResultsInit
  /\ tree \in Harnesses /\ head = tree /\ base = tree
  /\ client \in {c \in Clients : c.rev = tree.pin /\ c.work = Clean}
  /\ gomod = TRUE /\ rest = TRUE
  /\ pc = "idle" /\ goal = None /\ built = None /\ stamp = None
  /\ verdict = None /\ candidate = None
  /\ makes = 0 /\ edits = 0

-----------------------------------------------------------------------------
(* make                                                                      *)

\* Mutant of Make: an earlier candidate verdict is left to ledger-check.
MakeUncleared(mode, gap) ==
  /\ pc = "idle" /\ makes < MaxMakes
  /\ pc' = "built"
  /\ goal' = [mode |-> mode, gap |-> gap]
  /\ built' = [tree |-> tree, client |-> client, gomod |-> gomod]
  /\ makes' = makes + 1
  /\ verdict' = None
  /\ UNCHANGED <<results, world, stamp, candidate, edits>>

\* clear-candidate-verdict, then the drivers are built.
Make(mode, gap) ==
  /\ pc = "idle" /\ makes < MaxMakes
  /\ pc' = "built"
  /\ goal' = [mode |-> mode, gap |-> gap]
  /\ candidate' = None
  /\ built' = [tree |-> tree, client |-> client, gomod |-> gomod]
  /\ makes' = makes + 1
  /\ verdict' = None
  /\ UNCHANGED <<results, world, stamp, edits>>

\* make is over, and nobody reads what it had built and stamped again.
Ends == pc' = "idle" /\ goal' = None /\ built' = None /\ stamp' = None

OnPin == client.rev = tree.pin /\ client.work = Clean

\* provenance.sh: outside advisory mode an off-pin world stops make.
Stamped(mode) ==
  [mode |-> mode, rev |-> head, dirty |-> tree # head, digest |-> tree, base |-> base,
   client |-> client, pinned |-> tree.pin, gomod |-> gomod, rest |-> rest]

Enforced(mode) ==
  /\ mode # "advisory" => gomod /\ rest
  /\ mode = "candidate" => Contains(client.rev, tree.pin)
  /\ mode = "strict" => OnPin

Stamp ==
  /\ pc = "built"
  /\ IF Enforced(goal.mode) THEN stamp' = Stamped(goal.mode) /\ pc' = "stamped" /\ UNCHANGED <<goal, built>>
     ELSE Ends
  /\ UNCHANGED <<results, world, verdict, candidate, makes, edits>>

\* What the runner runs: the binaries that were built, the scenario on disk.
Made == [tree |-> [built.tree EXCEPT !.scenario = tree.scenario], client |-> built.client,
         gomod |-> built.gomod, make |-> makes]

RunnerStarts ==
  /\ pc = "stamped"
  /\ Start([stamp |-> stamp, made |-> Made])
  /\ pc' = "running"
  /\ UNCHANGED <<world, goal, built, stamp, verdict, candidate, makes, edits>>

RunnerTakes ==
  /\ pc = "running"
  /\ \E r \in Runs, t \in Evidence : Take(r, t)
  /\ UNCHANGED <<world, pc, goal, built, stamp, verdict, candidate, makes, edits>>

GoesOn == pc' = "judging" /\ goal.gap # None /\ UNCHANGED <<goal, built, stamp>>

\* The report is written; make ledger goes on, unless another scenario has failed.
RunnerEnds ==
  /\ pc = "running"
  /\ Finish
  /\ GoesOn \/ Ends
  /\ UNCHANGED <<world, verdict, candidate, makes, edits>>

\* Mutant of Fails: the runner exits with 0 all the same, and make goes on.
FailsOn ==
  /\ pc = "running"
  /\ Leave
  /\ GoesOn \/ Ends
  /\ UNCHANGED <<world, verdict, candidate, makes, edits>>

\* An inadmissible run, a driver that died, a build that failed; or make is killed.
Fails ==
  /\ pc # "idle"
  /\ IF pc = "running" THEN Leave ELSE UNCHANGED results
  /\ Ends
  /\ UNCHANGED <<world, verdict, candidate, makes, edits>>

-----------------------------------------------------------------------------
(* ledger-check.sh                                                           *)

\* Section 3, the verdict on a gap that is declared so.
Outcome(claim, found) ==
  IF claim = {} THEN IF found = {} THEN "HOLDS" ELSE "NEW GAP"
  ELSE IF found = {} THEN "XCONVERGE"
  ELSE IF found = claim THEN "XDIVERGE" ELSE "WRONG DIVERGENCE"
Holds(claim, found) == Outcome(claim, found) \in {"HOLDS", "XDIVERGE"}

\* Mutant of ClaimsOfTheBase: a change may restate what it is judged by.
ClaimsOfTheBaseOrNew(gap) == tree.pin = base.pin
\* Section 1a: the change is judged by the claims of its base.
ClaimsOfTheBase(gap) ==
  /\ tree.pin = base.pin
  /\ gap = "another" => tree.claim = base.claim /\ tree.scenario = base.scenario

\* Mutant of Committed: a clean harness, whichever it was.
CommittedOnce(s) == ~s.dirty
\* strict_subject_and_harness.
Committed(s) == ~s.dirty /\ s.rev = head
Pinned(s) == s.client.rev = s.pinned /\ s.client.work = Clean /\ s.client.rev = tree.pin

\* The candidate's stamp: the base and both trees are still those.
Unmoved(s) ==
  /\ s.base = base /\ s.digest = tree
  /\ s.pinned = tree.pin /\ Contains(s.client.rev, s.pinned)
  /\ s.client = client

\* Section 1, on the stamp that the report carries.
Admissible(mode, s) ==
  /\ s.mode = mode
  /\ IF mode = "candidate" THEN Unmoved(s) ELSE Committed(s) /\ Pinned(s)
  /\ s.gomod /\ s.rest

\* Section 2: every trace is there, and the oracle's names the pinned client-go.
Attested == /\ \A r \in Runs : trace[r] # None
            /\ trace["oracle"].world.made.gomod

Judges(mode, gap) ==
  /\ mode = "candidate" => ClaimsOfTheBase(gap)
  /\ report # None /\ Admissible(mode, report.world.stamp)
  /\ Attested

CandidateVerdict(gap) ==
  [gap |-> gap, outcome |-> Outcome(tree.claim, report.found), make |-> makes,
   others_hold |-> gap = "another" => Holds(tree.claim, report.found)]

Says(mode, gap) ==
  IF ~Judges(mode, gap) THEN "refused"
  ELSE IF mode = "candidate" THEN "judged"
  ELSE IF Holds(tree.claim, report.found) THEN "settled" ELSE "broken"

\* Mutant of LedgerCheck: the old verdict goes when the new one comes.
LedgerCheckLate(mode, gap) ==
  /\ verdict' = [mode |-> mode, says |-> Says(mode, gap)]
  /\ candidate' = IF Says(mode, gap) = "judged" THEN CandidateVerdict(gap) ELSE candidate
  /\ UNCHANGED <<results, world, makes, edits>>

LedgerCheck(mode, gap) ==
  /\ verdict' = [mode |-> mode, says |-> Says(mode, gap)]
  /\ candidate' = IF mode # "candidate" THEN candidate
                  ELSE IF Says(mode, gap) = "judged" THEN CandidateVerdict(gap) ELSE None
  /\ UNCHANGED <<results, world, makes, edits>>

\* At the end of make ledger, whose default is strict where provenance's is advisory;
MakeJudges ==
  /\ pc = "judging"
  /\ LedgerCheck(IF goal.mode = "candidate" THEN "candidate" ELSE "strict", goal.gap)
  /\ Ends
\* or by itself.
CheckAlone(mode, gap) ==
  /\ pc = "idle"
  /\ LedgerCheck(mode, gap)
  /\ UNCHANGED <<pc, goal, built, stamp>>

-----------------------------------------------------------------------------
(* The environment                                                           *)

\* Nobody touches a tree while it is built, stamped or run.
Edit ==
  /\ pc \in {"idle", "judging"} /\ edits < MaxEdits
  /\ edits' = edits + 1
  /\ verdict' = None
  /\ \/ tree' \in Harnesses /\ UNCHANGED <<head, base, client, gomod, rest>>
     \/ head' = tree /\ UNCHANGED <<tree, base, client, gomod, rest>>
     \/ base' = head /\ UNCHANGED <<tree, head, client, gomod, rest>>
     \/ head' = base /\ tree' = base /\ UNCHANGED <<base, client, gomod, rest>>
     \/ client' \in Clients /\ UNCHANGED <<tree, head, base, gomod, rest>>
     \/ gomod' = ~gomod /\ UNCHANGED <<tree, head, base, client, rest>>
     \/ rest' = ~rest /\ UNCHANGED <<tree, head, base, client, gomod>>
  /\ UNCHANGED <<results, pc, goal, built, stamp, candidate, makes>>

Gaps == {"this", "another"}

Next ==
  \/ \E mode \in Modes, gap \in Gaps \union {None} : Make(mode, gap)
  \/ Stamp \/ RunnerStarts \/ RunnerTakes \/ RunnerEnds \/ Fails
  \/ MakeJudges
  \/ \E mode \in {"strict", "candidate"}, gap \in Gaps : CheckAlone(mode, gap)
  \/ Edit

Spec == Init /\ [][Next]_vars

-----------------------------------------------------------------------------
(* Properties                                                                *)

Said(says) == verdict # None /\ verdict.says = says

\* A ledger is settled by clients and a harness that were what the pins and HEAD now
\* say - whatever was built, stamped or judged before, in whichever mode, and
\* whatever has been edited since.
SettledByThePinnedWorld ==
  Said("settled") =>
    LET made == report.world.made IN
    /\ made.tree = head
    /\ made.client = [rev |-> tree.pin, work |-> Clean]
    /\ made.gomod
    /\ trace["oracle"].world.made.gomod

\* A candidate is judged as it stands on disk; and when another gap is reported to
\* hold it holds as its base declared it, under its base's scenario: a change
\* cannot break a gap and restate its claim in the same stroke.
CandidateJudgedByItsBase ==
  Said("judged") =>
    LET made == report.world.made IN
    /\ made.tree = tree /\ made.client = client /\ made.gomod
    /\ Contains(client.rev, base.pin)
    /\ candidate.gap = "another" /\ candidate.others_hold =>
         Holds(base.claim, report.found) /\ made.tree.scenario = base.scenario

\* What make ledger says of a ledger or of a candidate it says of the run it has
\* just made, never of what an earlier invocation left in results/.
JudgesItsOwnRun ==
  [][pc = "judging" /\ pc' = "idle" /\ verdict' # verdict /\ verdict'.says # "refused"
       => report.world.made.make = makes]_vars

\* A caller that reads candidate-verdict.json reads no verdict that a later make, or
\* a candidate check that refused, has outlived.
NoVerdictSurvives ==
  candidate # None =>
    /\ candidate.make = makes
    /\ verdict # None /\ verdict.mode = "candidate" => verdict.says = "judged"
=============================================================================
