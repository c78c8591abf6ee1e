---------------------------- MODULE LedgerProofs ----------------------------
(***************************************************************************)
(* Proofs about Ledger.  What ledger-check needs of a report is that it    *)
(* tells the truth of what was run (Truthful); the trees hold still from   *)
(* the build to the end of the run, so the stamp and the binaries agree    *)
(* (Making), the invocation carries both (job), and the report keeps them. *)
(***************************************************************************)
EXTENDS Ledger, TLAPS

Truthful(w) ==
  /\ w.made.tree = w.stamp.digest
  /\ ~w.stamp.dirty => w.stamp.digest = w.stamp.rev
  /\ w.made.client = w.stamp.client /\ w.made.client \in Clients
  /\ w.made.gomod = w.stamp.gomod

Trees == tree \in Harnesses /\ head \in Harnesses /\ base \in Harnesses /\ client \in Clients

Making ==
  /\ pc \in {"idle", "built", "stamped", "running", "judging"}
  /\ pc # "idle" => verdict = None
  /\ pc \in {"built", "stamped"} => built = [tree |-> tree, client |-> client, gomod |-> gomod]
  /\ pc = "stamped" => stamp = Stamped(goal.mode)
  /\ pc = "running" => /\ job = [world |-> job.world, taken |-> job.taken]
                       /\ Truthful(job.world) /\ job.world.made.make = makes
  /\ pc = "judging" => report.world.made.make = makes

Reported == report # None => Truthful(report.world)

IInv ==
  /\ Trees /\ Making /\ Reported
  /\ SettledByThePinnedWorld /\ CandidateJudgedByItsBase /\ NoVerdictSurvives

-----------------------------------------------------------------------------
(* ledger-check.sh                                                           *)

\* Whatever a check says, it says of the world as it is.
LEMMA CheckIsSound ==
  ASSUME IInv, NEW mode \in {"strict", "candidate"}, NEW gap, LedgerCheck(mode, gap)
  PROVE  SettledByThePinnedWorld' /\ CandidateJudgedByItsBase'
<1> DEFINE s == report.world.stamp
           made == report.world.made
<1>1. verdict' = [mode |-> mode, says |-> Says(mode, gap)] /\ UNCHANGED <<results, world, makes>>
  BY DEF LedgerCheck
<1>2. UNCHANGED <<report, trace, tree, head, base, client, gomod>>
  BY <1>1 DEF results, world
<1>3. ASSUME Judges(mode, gap)
      PROVE  /\ Truthful(report.world) /\ s.gomod
             /\ Admissible(mode, s) /\ Attested
  BY <1>3 DEF Judges, Admissible, IInv, Reported
<1>4. SettledByThePinnedWorld'
  <2> SUFFICES ASSUME Said("settled")'
               PROVE  /\ made.tree = head
                      /\ made.client = [rev |-> tree.pin, work |-> Clean]
                      /\ made.gomod
                      /\ trace["oracle"].world.made.gomod
    BY <1>2 DEF SettledByThePinnedWorld
  <2>1. Says(mode, gap) = "settled"
    BY <1>1 DEF Said
  <2>2. mode = "strict" /\ Judges(mode, gap)
    BY <2>1 DEF Says
  <2>3. Committed(s) /\ Pinned(s)
    BY <1>3, <2>2 DEF Admissible
  <2>4. made.tree = head
    BY <1>3, <2>2, <2>3 DEF Truthful, Committed
  <2>5. made.client = s.client /\ s.client.rev = tree.pin /\ s.client.work = Clean
    BY <1>3, <2>2, <2>3 DEF Truthful, Pinned
  <2>6. made.client = [rev |-> made.client.rev, work |-> made.client.work]
    BY <1>3, <2>2, ClientsAssumption DEF Truthful
  <2> QED
    BY <1>3, <2>2, <2>4, <2>5, <2>6 DEF Truthful, Attested
<1>5. CandidateJudgedByItsBase'
  <2> SUFFICES ASSUME Said("judged")'
               PROVE  /\ made.tree = tree /\ made.client = client /\ made.gomod
                      /\ Contains(client.rev, base.pin)
                      /\ candidate'.gap = "another" /\ candidate'.others_hold =>
                           Holds(base.claim, report.found) /\ made.tree.scenario = base.scenario
    BY <1>2 DEF CandidateJudgedByItsBase
  <2>1. Says(mode, gap) = "judged"
    BY <1>1 DEF Said
  <2>2. mode = "candidate" /\ Judges(mode, gap)
    BY <2>1 DEF Says
  <2>3. Unmoved(s) /\ ClaimsOfTheBase(gap)
    BY <1>3, <2>2 DEF Admissible, Judges
  <2>4. candidate' = CandidateVerdict(gap)
    BY <2>1, <2>2 DEF LedgerCheck
  <2>5. made.tree = tree /\ made.client = client /\ made.gomod
    BY <1>3, <2>2, <2>3 DEF Truthful, Unmoved
  <2>6. Contains(client.rev, base.pin)
    BY <2>3 DEF Unmoved, ClaimsOfTheBase
  <2>7. candidate'.gap = gap /\ (gap = "another" /\ candidate'.others_hold => Holds(tree.claim, report.found))
    BY <2>4 DEF CandidateVerdict
  <2> QED
    BY <2>3, <2>5, <2>6, <2>7 DEF ClaimsOfTheBase
<1> QED
  BY <1>4, <1>5

\* A candidate check leaves the verdict it reaches, or none.
LEMMA CheckLeavesItsVerdict ==
  ASSUME IInv, NEW mode \in {"strict", "candidate"}, NEW gap, LedgerCheck(mode, gap)
  PROVE  NoVerdictSurvives'
<1> verdict' = [mode |-> mode, says |-> Says(mode, gap)] /\ makes' = makes
  BY DEF LedgerCheck
<1>1. CASE mode = "strict"
  BY <1>1 DEF LedgerCheck, IInv, NoVerdictSurvives
<1>2. CASE mode = "candidate" /\ Says(mode, gap) = "judged"
  BY <1>2 DEF LedgerCheck, CandidateVerdict, NoVerdictSurvives
<1>3. CASE mode = "candidate" /\ Says(mode, gap) # "judged"
  BY <1>3 DEF LedgerCheck, NoVerdictSurvives
<1> QED
  BY <1>1, <1>2, <1>3

-----------------------------------------------------------------------------
(* make                                                                      *)

\* What makes no difference to the verdicts.
LEMMA Undisturbed ==
  ASSUME SettledByThePinnedWorld, CandidateJudgedByItsBase, NoVerdictSurvives,
         UNCHANGED <<world, verdict, candidate, makes>>,
         verdict = None \/ UNCHANGED <<report, trace>>
  PROVE  SettledByThePinnedWorld' /\ CandidateJudgedByItsBase' /\ NoVerdictSurvives'
<1>1. UNCHANGED <<tree, head, base, client>>
  BY DEF world
<1>2. NoVerdictSurvives'
  BY DEF NoVerdictSurvives
<1>3. CASE verdict = None
  BY <1>2, <1>3 DEF SettledByThePinnedWorld, CandidateJudgedByItsBase, Said
<1>4. CASE UNCHANGED <<report, trace>>
  BY <1>1, <1>2, <1>4 DEF SettledByThePinnedWorld, CandidateJudgedByItsBase, Said
<1> QED
  BY <1>3, <1>4

\* A make deletes the verdict of an earlier one.
LEMMA MakeKeeps ==
  ASSUME IInv, NEW mode \in Modes, NEW gap, Make(mode, gap)
  PROVE  IInv'
<1>1. UNCHANGED <<trace, report, job, status, tree, head, base, client, gomod, rest>>
  BY DEF Make, results, world
<1>2. verdict' = None /\ candidate' = None
  BY DEF Make
<1>3. SettledByThePinnedWorld' /\ CandidateJudgedByItsBase' /\ NoVerdictSurvives'
  BY <1>2 DEF SettledByThePinnedWorld, CandidateJudgedByItsBase, NoVerdictSurvives, Said
<1>4. Making'
  BY <1>1, <1>2 DEF Make, Making
<1> QED
  BY <1>1, <1>3, <1>4 DEF IInv, Trees, Reported

\* make is over, and results/ may have got a report before it ended.
LEMMA EndsKeeps ==
  ASSUME IInv, pc # "idle", Ends, UNCHANGED <<world, verdict, candidate, makes>>,
         Reported'
  PROVE  IInv'
<1>1. verdict = None
  BY DEF IInv, Making
<1>2. Trees' /\ Making'
  BY <1>1 DEF IInv, Trees, Making, Ends, world
<1> QED
  BY <1>1, <1>2, Undisturbed DEF IInv

\* The stamp is of the trees as they are.
LEMMA StampKeeps ==
  ASSUME IInv, Stamp
  PROVE  IInv'
<1>1. UNCHANGED <<trace, report, job, status, tree, head, base, client, gomod, rest>>
  BY DEF Stamp, results, world
<1>2. Reported'
  BY <1>1 DEF IInv, Reported
<1>3. CASE Enforced(goal.mode)
  <2>1. /\ stamp' = Stamped(goal.mode) /\ pc' = "stamped" /\ pc = "built"
        /\ UNCHANGED <<goal, built, world, verdict, candidate, makes>>
    BY <1>3 DEF Stamp
  <2>2. Stamped(goal.mode)' = Stamped(goal.mode)
    BY <1>1, <2>1 DEF Stamped
  <2>3. Making'
    BY <1>1, <2>1, <2>2 DEF IInv, Making
  <2> QED
    BY <1>1, <1>2, <2>1, <2>3, Undisturbed DEF IInv, Trees
<1>4. CASE ~Enforced(goal.mode)
  BY <1>2, <1>4, EndsKeeps DEF Stamp
<1> QED
  BY <1>3, <1>4

\* The scenario on disk is still the one of the stamp, so what is run is all of it.
LEMMA RunnerStartsKeeps ==
  ASSUME IInv, RunnerStarts
  PROVE  IInv'
<1> DEFINE w == [stamp |-> stamp, made |-> Made]
<1>1. /\ pc = "stamped" /\ pc' = "running" /\ job' = [world |-> w, taken |-> {}]
      /\ UNCHANGED <<report, trace, tree, head, base, client, gomod, rest>>
      /\ UNCHANGED <<world, goal, built, stamp, verdict, candidate, makes>>
  BY DEF RunnerStarts, Start, world
<1>2. stamp = Stamped(goal.mode) /\ built = [tree |-> tree, client |-> client, gomod |-> gomod]
  BY <1>1 DEF IInv, Making
<1>3. [tree EXCEPT !.scenario = tree.scenario] = tree
  <2>1. tree = [claim |-> tree.claim, scenario |-> tree.scenario, code |-> tree.code, pin |-> tree.pin]
    BY HarnessesAssumption DEF IInv, Trees
  <2> QED
    BY <2>1
<1>4. Made = [tree |-> tree, client |-> client, gomod |-> gomod, make |-> makes]
  BY <1>2, <1>3 DEF Made
<1>5. Truthful(w)
  <2>1. w.stamp = stamp /\ w.made = Made
    OBVIOUS
  <2>2. /\ stamp.digest = tree /\ stamp.client = client /\ stamp.gomod = gomod
        /\ stamp.rev = head /\ stamp.dirty = (tree # head)
    BY <1>2 DEF Stamped
  <2> QED
    BY <1>4, <2>1, <2>2 DEF Truthful, IInv, Trees
<1>6. w.made.make = makes
  BY <1>4
<1>7. Making'
  <2> HIDE DEF w
  <2>1. job' = [world |-> job'.world, taken |-> job'.taken] /\ job'.world = w
    BY <1>1
  <2> QED
    BY <1>1, <1>5, <1>6, <2>1 DEF IInv, Making, Truthful
<1> QED
  BY <1>1, <1>7, Undisturbed DEF IInv, Trees, Reported

\* The runner makes traces of the world that was stamped.
LEMMA RunnerTakesKeeps ==
  ASSUME IInv, RunnerTakes
  PROVE  IInv'
<1>1. PICK r \in Runs, t \in Evidence : Take(r, t)
  BY DEF RunnerTakes
<1>2. /\ pc = "running" /\ job' = [job EXCEPT !.taken = @ \union {r}]
      /\ UNCHANGED <<report, tree, head, base, client, gomod, rest>>
      /\ UNCHANGED <<world, pc, verdict, candidate, makes>>
  BY <1>1 DEF RunnerTakes, Take, world
<1>3. job = [world |-> job.world, taken |-> job.taken] /\ verdict = None
  BY <1>2 DEF IInv, Making
<1>4. job' = [world |-> job'.world, taken |-> job'.taken] /\ job'.world = job.world
  BY <1>2, <1>3
<1>5. Making'
  BY <1>2, <1>4 DEF IInv, Making, Truthful
<1> QED
  BY <1>2, <1>3, <1>5, Undisturbed DEF IInv, Trees, Reported

\* The report comes with the stamp of its run.
LEMMA RunnerEndsKeeps ==
  ASSUME IInv, RunnerEnds
  PROVE  IInv'
<1>1. /\ pc = "running" /\ report'.world = job.world
      /\ UNCHANGED <<tree, head, base, client, gomod, rest>>
      /\ UNCHANGED <<world, verdict, candidate, makes>>
  BY DEF RunnerEnds, Finish, world
<1>2. Truthful(job.world) /\ job.world.made.make = makes /\ verdict = None
  BY <1>1 DEF IInv, Making
<1>3. Reported'
  BY <1>1, <1>2 DEF Reported, Truthful
<1>4. CASE GoesOn
  <2>1. Making'
    BY <1>1, <1>2, <1>4 DEF Making, GoesOn
  <2> QED
    BY <1>1, <1>2, <1>3, <2>1, Undisturbed DEF IInv, Trees
<1>5. CASE Ends
  BY <1>1, <1>3, <1>5, EndsKeeps
<1> QED
  BY <1>4, <1>5 DEF RunnerEnds

\* A step that fails ends the make without a verdict.
LEMMA FailsKeeps ==
  ASSUME IInv, Fails
  PROVE  IInv'
<1>1. UNCHANGED report
  BY DEF Fails, Leave, results
<1>2. Reported'
  BY <1>1 DEF IInv, Reported
<1> QED
  BY <1>2, EndsKeeps DEF Fails

\* A check judges what is on disk by the claims it has to use.
LEMMA ChecksKeep ==
  ASSUME IInv, MakeJudges \/ \E mode \in {"strict", "candidate"}, gap \in Gaps : CheckAlone(mode, gap)
  PROVE  IInv'
<1>0. PICK mode \in {"strict", "candidate"} : \E gap : LedgerCheck(mode, gap)
  BY DEF MakeJudges, CheckAlone
<1>1. PICK gap : LedgerCheck(mode, gap)
  BY <1>0
<1>2. UNCHANGED <<trace, report, job, status, tree, head, base, client, gomod, rest>>
  BY <1>1 DEF LedgerCheck, results, world
<1>3. pc' = "idle"
  BY DEF MakeJudges, CheckAlone, Ends
<1>4. Making'
  BY <1>3 DEF Making
<1> QED
  BY <1>1, <1>2, <1>4, CheckIsSound, CheckLeavesItsVerdict DEF IInv, Trees, Reported

\* An edit leaves the results as they were.
LEMMA EditKeeps ==
  ASSUME IInv, Edit
  PROVE  IInv'
<1>1. UNCHANGED <<trace, report, job, status, pc, candidate, makes>> /\ verdict' = None
  BY DEF Edit, results
<1>2. Trees'
  BY DEF Edit, IInv, Trees
<1>3. pc \in {"idle", "judging"}
  BY DEF Edit
<1>4. Making'
  BY <1>1, <1>3 DEF IInv, Making
<1>5. SettledByThePinnedWorld' /\ CandidateJudgedByItsBase' /\ NoVerdictSurvives'
  BY <1>1 DEF IInv, SettledByThePinnedWorld, CandidateJudgedByItsBase, NoVerdictSurvives, Said
<1> QED
  BY <1>1, <1>2, <1>4, <1>5 DEF IInv, Reported

-----------------------------------------------------------------------------
\* There are no results at first.
LEMMA InitIInv == Init => IInv
<1> SUFFICES ASSUME Init PROVE IInv
  OBVIOUS
<1>1. Trees
  BY DEF Init, Trees
<1>2. Making /\ Reported
  BY DEF Init, ResultsInit, Making, Reported
<1>3. SettledByThePinnedWorld /\ CandidateJudgedByItsBase /\ NoVerdictSurvives
  BY DEF Init, SettledByThePinnedWorld, CandidateJudgedByItsBase, NoVerdictSurvives, Said
<1> QED
  BY <1>1, <1>2, <1>3 DEF IInv

\* Every step keeps the invariant.
LEMMA NextIInv == IInv /\ [Next]_vars => IInv'
<1> SUFFICES ASSUME IInv, [Next]_vars PROVE IInv'
  OBVIOUS
<1>1. CASE \E mode \in Modes, gap \in Gaps \union {None} : Make(mode, gap)
  BY <1>1, MakeKeeps
<1>2. CASE Stamp
  BY <1>2, StampKeeps
<1>3. CASE RunnerStarts
  BY <1>3, RunnerStartsKeeps
<1>4. CASE RunnerTakes
  BY <1>4, RunnerTakesKeeps
<1>5. CASE RunnerEnds
  BY <1>5, RunnerEndsKeeps
<1>6. CASE Fails
  BY <1>6, FailsKeeps
<1>7. CASE MakeJudges \/ \E mode \in {"strict", "candidate"}, gap \in Gaps : CheckAlone(mode, gap)
  BY <1>7, ChecksKeep
<1>8. CASE Edit
  BY <1>8, EditKeeps
<1>9. CASE UNCHANGED vars
  BY <1>9 DEF vars, results, world, IInv, Trees, Making, Reported, Truthful, Stamped, Said,
              SettledByThePinnedWorld, CandidateJudgedByItsBase, NoVerdictSurvives
<1> QED
  BY <1>1, <1>2, <1>3, <1>4, <1>5, <1>6, <1>7, <1>8, <1>9 DEF Next

\* A report tells the truth of what was run, whatever is edited, failed or killed.
THEOREM Invariance == Spec => []IInv
<1> QED
  BY InitIInv, NextIInv, PTL DEF Spec

\* A ledger is settled only by the pinned clients and the harness at HEAD.
THEOREM SettlingIsPinned == Spec => []SettledByThePinnedWorld
<1>1. IInv => SettledByThePinnedWorld
  BY DEF IInv
<1> QED
  BY <1>1, Invariance, PTL

\* A candidate is judged as it is on disk, and by the claims of its base.
THEOREM CandidateIsJudged == Spec => []CandidateJudgedByItsBase
<1>1. IInv => CandidateJudgedByItsBase
  BY DEF IInv
<1> QED
  BY <1>1, Invariance, PTL

\* No candidate verdict outlives a later make or a refusal.
THEOREM VerdictsAreCleared == Spec => []NoVerdictSurvives
<1>1. IInv => NoVerdictSurvives
  BY DEF IInv
<1> QED
  BY <1>1, Invariance, PTL

\* What make ledger says it says of its own run.
THEOREM MakeJudgesItsOwn == Spec => JudgesItsOwnRun
<1> DEFINE OwnRun == pc = "judging" /\ pc' = "idle" /\ verdict' # verdict /\ verdict'.says # "refused"
                     => report.world.made.make = makes
<1>1. IInv => (pc = "judging" => report.world.made.make = makes)
  BY DEF IInv, Making
<1>2. IInv /\ [Next]_vars => [OwnRun]_vars
  BY <1>1
<1> QED
  BY <1>2, Invariance, PTL DEF Spec, JudgesItsOwnRun
=============================================================================
