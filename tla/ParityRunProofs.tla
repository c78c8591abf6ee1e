-------------------------- MODULE ParityRunProofs --------------------------
(***************************************************************************)
(* Proofs about ParityRun: its types, and that it implements Results.  The *)
(* induction needs what no variable's type says: a half-taken attempt has  *)
(* met its preconditions so far (Met), and an invocation that has come to  *)
(* the subject, or to the diff, has taken the traces before it (Taken).    *)
(***************************************************************************)
EXTENDS ParityRun, TLAPS

Met == \A i \in DOMAIN obs : ~PreconditionFails(i, obs[i])

Taken ==
  /\ pc # "idle" => stamp \in Worlds
  /\ pc = "running" => turn \in Runs
  /\ pc = "running" /\ turn = "subject" => trace["oracle"] # None
  /\ pc = "diff" => trace["oracle"] # None /\ trace["subject"] # None

IInv == TypeOK /\ Met /\ Taken

TraceRecords == [steps : Evidence, world : Worlds]

-----------------------------------------------------------------------------
(* Traces                                                                    *)

\* The empty trace is one.
LEMMA EmptyTrace == <<>> \in Traces /\ Len(<<>>) = 0
<1>1. <<>> \in [1 .. 0 -> Observations]
  OBVIOUS
<1>2. 0 \in 0 .. Steps
  BY StepsAssumption
<1> QED
  BY <1>1, <1>2 DEF Traces

\* A sequence is a function on its places.
LEMMA SequenceShape ==
  ASSUME NEW S, NEW n, NEW u \in Seq(S), Len(u) = n
  PROVE  u \in [1 .. n -> S]
OBVIOUS

\* What a trace is made of.
LEMMA TraceShape ==
  ASSUME NEW t \in Traces
  PROVE  /\ Len(t) \in 0 .. Steps /\ t \in [1 .. Len(t) -> Observations]
         /\ t \in Seq(Observations)
<1>1. PICK n \in 0 .. Steps : t \in [1 .. n -> Observations]
  BY DEF Traces
<1>2. n \in Nat
  BY StepsAssumption
<1>3. t \in Seq(Observations) /\ Len(t) = n
  BY <1>1, <1>2
<1> QED
  BY <1>1, <1>3

\* A trace that has room for it takes one more observation.
LEMMA LongerTrace ==
  ASSUME NEW t \in Traces, Len(t) + 1 <= Steps, NEW o \in Observations
  PROVE  Append(t, o) \in Traces
<1>1. Len(t) \in 0 .. Steps /\ t \in Seq(Observations)
  BY TraceShape
<1>2. Len(t) + 1 \in 0 .. Steps
  BY <1>1, StepsAssumption
<1>3. Append(t, o) \in Seq(Observations) /\ Len(Append(t, o)) = Len(t) + 1
  BY <1>1
<1>4. Append(t, o) \in [1 .. (Len(t) + 1) -> Observations]
  BY <1>3, SequenceShape, Zenon
<1> QED
  BY <1>2, <1>4 DEF Traces

\* An attempt that ran to its end without an inadmissible answer is evidence.
LEMMA AttemptIsEvidence ==
  ASSUME obs \in Traces, Len(obs) = Steps, ~Inadmissible(obs), Met
  PROVE  obs \in Evidence
<1>1. obs \in [1 .. Steps -> Observations]
  BY TraceShape
<1>2. \A i \in 1 .. Steps : Admissible(obs[i]) /\ obs[i] \in {"met", "other"}
  BY <1>1 DEF Inadmissible, Admissible, Observations
<1>3. \A i \in Asserted : obs[i] = "met"
  BY <1>1, <1>2, StepsAssumption DEF Met, PreconditionFails
<1>4. obs \in [1 .. Steps -> {"met", "other"}]
  BY <1>1, <1>2
<1> QED
  BY <1>3, <1>4 DEF Evidence

\* What a report is made of.
LEMMA DiffType ==
  ASSUME NEW a \in Evidence, NEW b \in Evidence
  PROVE  Diff(a, b) \subseteq (1 .. Steps) \X {"met", "other"} \X {"met", "other"}
<1>1. a \in [1 .. Steps -> {"met", "other"}] /\ b \in [1 .. Steps -> {"met", "other"}]
  BY DEF Evidence
<1> QED
  BY <1>1 DEF Diff

-----------------------------------------------------------------------------
(* The invariant                                                             *)

\* Nothing is on disk at first.
LEMMA InitIInv == Init => IInv
<1> SUFFICES ASSUME Init PROVE IInv
  OBVIOUS
<1>1. TypeOK
  BY EmptyTrace, EditsAssumption, AttemptsAssumption DEF Init, TypeOK, Runs
<1>2. Met /\ Taken
  BY DEF Init, Met, Taken
<1> QED
  BY <1>1, <1>2 DEF IInv

\* The runner is done with the scenario, one way or the other.
LEMMA ExitKeeps ==
  ASSUME IInv, NEW how \in {"done", "failed"}, Exit(how),
         UNCHANGED <<stamp, world, edits, trace>>,
         report' # None => /\ report'.found \subseteq (1 .. Steps) \X {"met", "other"} \X {"met", "other"}
                           /\ report'.world \in Worlds
  PROVE  IInv'
<1>1. obs' \in Traces /\ attempt' \in 0 .. MAX_ATTEMPTS
  BY EmptyTrace, AttemptsAssumption DEF Exit
<1>2. trace' \in [Runs -> [steps : Evidence, world : Worlds] \union {None}]
  BY DEF IInv, TypeOK
<1>3. TypeOK'
  BY <1>1, <1>2 DEF IInv, TypeOK, Exit, Traces, Evidence
<1>4. Met' /\ Taken'
  BY DEF Exit, Met, Taken
<1> QED
  BY <1>3, <1>4 DEF IInv

\* A runner that gives up leaves the results as they are.
LEMMA GiveUpKeeps ==
  ASSUME IInv, GiveUp
  PROVE  IInv'
BY ExitKeeps DEF GiveUp, IInv, TypeOK

\* A make starts with the stamp of the world, and with no results.
LEMMA MakeKeeps ==
  ASSUME IInv, Make
  PROVE  IInv'
<1>1. TypeOK'
  BY EmptyTrace, AttemptsAssumption DEF IInv, TypeOK, Make, Runs, Traces, Evidence
<1>2. Met' /\ Taken'
  BY DEF IInv, TypeOK, Make, Met, Taken, Runs
<1> QED
  BY <1>1, <1>2 DEF IInv

\* One more observation.
LEMMA ObserveKeeps ==
  ASSUME IInv, NEW o \in Observations, Observe(o)
  PROVE  IInv'
<1>1. /\ pc = "running" /\ obs' = Append(obs, o) /\ Len(obs) + 1 <= Steps
      /\ ~PreconditionFails(Len(obs) + 1, o)
      /\ UNCHANGED <<pc, turn, attempt, stamp, world, edits, trace, report, status>>
  BY DEF Observe
<1>2. obs' \in Traces
  BY <1>1, LongerTrace DEF IInv, TypeOK
<1>3. TypeOK'
  BY <1>1, <1>2 DEF IInv, TypeOK, Traces, Evidence
<1>4. Met'
  <2>1. obs \in Seq(Observations)
    BY TraceShape DEF IInv, TypeOK
  <2>2. /\ DOMAIN obs' = 1 .. Len(obs) + 1
        /\ \A i \in 1 .. Len(obs) : obs'[i] = obs[i]
        /\ obs'[Len(obs) + 1] = o
        /\ DOMAIN obs = 1 .. Len(obs)
        /\ Len(obs) \in Nat
    BY <1>1, <2>1
  <2>3. SUFFICES ASSUME NEW i \in 1 .. Len(obs) + 1
                 PROVE  ~PreconditionFails(i, obs'[i])
    BY <2>2 DEF Met, PreconditionFails, Admissible
  <2>4. CASE i \in 1 .. Len(obs)
    BY <2>2, <2>4 DEF IInv, Met
  <2>5. CASE i = Len(obs) + 1
    BY <1>1, <2>2, <2>5
  <2> QED
    BY <2>2, <2>4, <2>5
<1>5. Taken'
  BY <1>1 DEF IInv, Taken
<1> QED
  BY <1>3, <1>4, <1>5 DEF IInv

\* An attempt follows the one before, within MAX_ATTEMPTS.
LEMMA RetryKeeps ==
  ASSUME IInv, Retry
  PROVE  IInv'
<1>1. TypeOK'
  BY EmptyTrace, AttemptsAssumption DEF IInv, TypeOK, Retry, Traces, Evidence
<1>2. Met' /\ Taken'
  BY DEF IInv, Retry, Met, Taken
<1> QED
  BY <1>1, <1>2 DEF IInv

\* Only an admissible trace is written.
LEMMA RunDoneKeeps ==
  ASSUME IInv, RunDone
  PROVE  IInv'
<1>1. obs \in Evidence /\ stamp \in Worlds /\ turn \in Runs
  BY AttemptIsEvidence DEF IInv, TypeOK, Taken, RunDone
<1>2. [steps |-> obs, world |-> stamp] \in TraceRecords
  BY <1>1 DEF TraceRecords
<1>3. [steps |-> obs, world |-> stamp] # None
  BY <1>1, NoneAssumption DEF Evidence
<1>4. trace' \in [Runs -> TraceRecords \union {None}]
  BY <1>2 DEF IInv, TypeOK, RunDone, TraceRecords
<1>5. TypeOK'
  BY <1>1, <1>4, EmptyTrace, AttemptsAssumption
     DEF IInv, TypeOK, RunDone, Runs, Traces, Evidence, TraceRecords
<1>6. Met'
  BY DEF RunDone, Met
<1>7. trace'[turn] # None /\ \A r \in Runs \ {turn} : trace'[r] = trace[r]
  BY <1>1, <1>3 DEF IInv, TypeOK, RunDone
<1>8. Taken'
  BY <1>1, <1>7 DEF IInv, Taken, RunDone, Runs
<1> QED
  BY <1>5, <1>6, <1>8 DEF IInv

\* The report is of the two traces on disk.
LEMMA ReportKeeps ==
  ASSUME IInv, Report
  PROVE  IInv'
<1>1. pc = "diff" /\ trace["oracle"] \in TraceRecords /\ trace["subject"] \in TraceRecords /\ stamp \in Worlds
  BY DEF IInv, TypeOK, Taken, Report, Runs, TraceRecords
<1>2. Diff(trace["oracle"].steps, trace["subject"].steps)
        \subseteq (1 .. Steps) \X {"met", "other"} \X {"met", "other"}
  BY <1>1, DiffType DEF TraceRecords
<1>3. report'.found = Diff(trace["oracle"].steps, trace["subject"].steps) /\ report'.world = stamp
  BY DEF Report
<1> QED
  BY <1>1, <1>2, <1>3, ExitKeeps DEF Report

\* An edit of the trees touches no result.
LEMMA EditKeeps ==
  ASSUME IInv, Edit
  PROVE  IInv'
<1>1. edits' \in 0 .. MaxEdits
  BY EditsAssumption DEF IInv, TypeOK, Edit
<1>2. TypeOK'
  BY <1>1 DEF IInv, TypeOK, Edit, Traces, Evidence
<1>3. Met' /\ Taken'
  BY DEF IInv, Edit, Met, Taken
<1> QED
  BY <1>2, <1>3 DEF IInv

\* Every step keeps the invariant.
LEMMA NextIInv == IInv /\ [Next]_vars => IInv'
<1> SUFFICES ASSUME IInv, [Next]_vars PROVE IInv'
  OBVIOUS
<1>1. CASE Make
  BY <1>1, MakeKeeps
<1>2. CASE \E o \in Observations : Observe(o)
  BY <1>2, ObserveKeeps
<1>3. CASE (\E o \in Observations \union {None} : SetupFails(o)) \/ RunInadmissible \/ Interrupt
  BY <1>3, GiveUpKeeps DEF SetupFails, RunInadmissible, Interrupt
<1>4. CASE Retry
  BY <1>4, RetryKeeps
<1>5. CASE RunDone
  BY <1>5, RunDoneKeeps
<1>6. CASE Report
  BY <1>6, ReportKeeps
<1>7. CASE Edit
  BY <1>7, EditKeeps
<1>8. CASE UNCHANGED vars
  BY <1>8 DEF vars, IInv, TypeOK, Met, Taken, Traces, Evidence
<1> QED
  BY <1>1, <1>2, <1>3, <1>4, <1>5, <1>6, <1>7, <1>8 DEF Next, Work

\* Every trace on disk is evidence, every report of the shape the ledger check reads.
THEOREM Invariance == Spec => []IInv
<1> QED
  BY InitIInv, NextIInv, PTL DEF Spec

\* Whatever is retried, fails or is killed, a trace on disk is evidence and an attempt
\* is one of MAX_ATTEMPTS.
THEOREM TypeCorrect == Spec => []TypeOK
<1>1. IInv => TypeOK
  BY DEF IInv
<1> QED
  BY <1>1, Invariance, PTL

-----------------------------------------------------------------------------
(* The refinement                                                            *)

\* The results are empty at first.
LEMMA InitMaps == Init => Promise!ResultsInit
BY DEF Init, Promise!ResultsInit, Promise!Runs, Job, Runs

\* While a runner is under way there is a job, of the world that was stamped.
LEMMA JobIsSome ==
  ASSUME IInv, pc # "idle"
  PROVE  Job # None /\ Job.world = stamp
<1>1. stamp \in Worlds
  BY DEF IInv, Taken
<1>2. Job \in [world : Worlds, taken : SUBSET {"oracle", "subject"}]
  BY <1>1 DEF Job, Runs
<1> QED
  BY <1>2, NoneAssumption DEF Job

\* Nothing the ledger check may read has changed.
LEMMA StutterMaps ==
  ASSUME UNCHANGED <<pc, turn, stamp, trace, report, status>>
  PROVE  UNCHANGED Promise!results
BY DEF Promise!results, Job

\* A runner that gives up leaves its job.
LEMMA GiveUpMaps ==
  ASSUME IInv, pc # "idle", GiveUp
  PROVE  Promise!Leave
BY JobIsSome DEF GiveUp, Exit, Promise!Leave, Job

\* A run that is done hands in its trace.
LEMMA RunDoneMaps ==
  ASSUME IInv, RunDone
  PROVE  \E r \in Promise!Runs, t \in Evidence : Promise!Take(r, t)
<1>1. /\ pc = "running" /\ turn \in Runs /\ obs \in Evidence
      /\ Job # None /\ Job.world = stamp
  BY AttemptIsEvidence, JobIsSome DEF IInv, TypeOK, Taken, RunDone
<1>2. Job = [world |-> stamp, taken |-> IF turn = "subject" THEN {"oracle"} ELSE {}]
  BY <1>1 DEF Job
<1>3. Job' = [world |-> stamp, taken |-> IF turn = "subject" THEN {"oracle", "subject"} ELSE {"oracle"}]
  BY <1>1 DEF Job, RunDone, Runs
<1>4. Job' = [Job EXCEPT !.taken = @ \union {turn}]
  BY <1>1, <1>2, <1>3 DEF Runs
<1>5. Promise!Take(turn, obs)
  BY <1>1, <1>2, <1>4 DEF Promise!Take, RunDone, Runs
<1> QED
  BY <1>1, <1>5 DEF Runs, Promise!Runs

\* The report finishes the job.
LEMMA ReportMaps ==
  ASSUME IInv, Report
  PROVE  Promise!Finish
<1>1. pc = "diff" /\ Job # None /\ Job.world = stamp /\ Job.taken = Runs
  BY JobIsSome DEF Report, Job
<1> QED
  BY <1>1 DEF Report, Exit, Job, Promise!Finish, Promise!Diff, Diff, Runs, Promise!Runs

\* Every step of the runner is one of Results, or none.
LEMMA StepMaps ==
  IInv /\ [Next]_vars => [Promise!ResultsNext(Worlds, Evidence)]_(Promise!results)
<1> SUFFICES ASSUME IInv, [Next]_vars
             PROVE  Promise!ResultsNext(Worlds, Evidence) \/ UNCHANGED Promise!results
  OBVIOUS
<1>1. CASE Make
  <2>1. Promise!Start(world)
    BY <1>1 DEF Make, Promise!Start, Job
  <2> QED
    BY <2>1 DEF Promise!ResultsNext, IInv, TypeOK
<1>2. CASE (\E o \in Observations : Observe(o)) \/ Retry \/ Edit
  BY <1>2, StutterMaps DEF Observe, Retry, Edit
<1>3. CASE (\E o \in Observations \union {None} : SetupFails(o)) \/ RunInadmissible \/ Interrupt
  <2>1. GiveUp /\ pc # "idle"
    BY <1>3 DEF SetupFails, RunInadmissible, Interrupt
  <2> QED
    BY <2>1, GiveUpMaps DEF Promise!ResultsNext
<1>4. CASE RunDone
  BY <1>4, RunDoneMaps DEF Promise!ResultsNext
<1>5. CASE Report
  BY <1>5, ReportMaps DEF Promise!ResultsNext
<1>6. CASE UNCHANGED vars
  BY <1>6, StutterMaps DEF vars
<1> QED
  BY <1>1, <1>2, <1>3, <1>4, <1>5, <1>6 DEF Next, Work

\* The runner implements what Results promises of results/, for every scenario,
\* every bound on attempts, and whatever fails, is retried or is killed.
THEOREM RunnerImplementsResults == Spec => ImplementsResults
<1> QED
  BY Invariance, InitMaps, StepMaps, PTL DEF Spec, ImplementsResults

-----------------------------------------------------------------------------
(* The way to the end                                                        *)

\* The steps of an invocation that are still to come at most: those of the attempts
\* that are left, one to end each of them, and the report; before the subject's run
\* all of that run, too.
ToCome(n) == (MAX_ATTEMPTS - n) * (Steps + 1)
OfRun(n, done) == ToCome(n) + (Steps + 1 - done)
Left ==
  IF pc = "idle" THEN 0 ELSE IF pc = "diff" THEN 1
  ELSE IF turn = "oracle" THEN OfRun(attempt, Len(obs)) + ToCome(0) + 1
  ELSE OfRun(attempt, Len(obs)) + 1

\* The attempts that are left, and one of them.
LEMMA ToComeType ==
  /\ ToCome(0) \in Nat /\ ToCome(0) = ToCome(1) + Steps + 1 /\ Steps \in Nat /\ MAX_ATTEMPTS \in Nat
  /\ \A n \in 0 .. MAX_ATTEMPTS :
       /\ ToCome(n) \in Nat
       /\ n < MAX_ATTEMPTS => ToCome(n) = ToCome(n + 1) + Steps + 1
       /\ 0 < n => ToCome(n) + Steps + 1 <= ToCome(0)
<1>1. Steps \in Nat /\ MAX_ATTEMPTS \in Nat /\ MAX_ATTEMPTS > 0 /\ Steps + 1 \in Nat
  BY StepsAssumption, AttemptsAssumption
<1>2. \A k, l, p \in Nat : /\ k * p \in Nat /\ (k + 1) * p = k * p + p
                          /\ k <= l => k * p <= l * p
  OBVIOUS
<1>3. ASSUME NEW n \in 0 .. MAX_ATTEMPTS
      PROVE  /\ ToCome(n) \in Nat
             /\ n < MAX_ATTEMPTS => ToCome(n) = ToCome(n + 1) + Steps + 1
             /\ 0 < n => ToCome(n) + Steps + 1 <= ToCome(0)
  <2>1. MAX_ATTEMPTS - n \in Nat
    BY <1>1
  <2>2. ToCome(n) \in Nat
    BY <1>1, <1>2, <2>1 DEF ToCome
  <2>3. ASSUME n < MAX_ATTEMPTS PROVE ToCome(n) = ToCome(n + 1) + Steps + 1
    <3>1. MAX_ATTEMPTS - (n + 1) \in Nat /\ MAX_ATTEMPTS - n = MAX_ATTEMPTS - (n + 1) + 1
      BY <1>1, <2>3
    <3> DEFINE k == MAX_ATTEMPTS - (n + 1)
    <3>2. (k + 1) * (Steps + 1) = k * (Steps + 1) + (Steps + 1) /\ k * (Steps + 1) \in Nat
      BY <1>1, <1>2, <3>1
    <3> QED BY <1>1, <3>1, <3>2 DEF ToCome
  <2>4. ASSUME 0 < n PROVE ToCome(n) + Steps + 1 <= ToCome(0)
    <3> DEFINE k == MAX_ATTEMPTS - n
    <3>1. k \in Nat /\ MAX_ATTEMPTS - 0 \in Nat /\ k + 1 \in Nat /\ k + 1 <= MAX_ATTEMPTS - 0
      BY <1>1, <2>4
    <3>2. (k + 1) * (Steps + 1) = k * (Steps + 1) + (Steps + 1) /\ k * (Steps + 1) \in Nat
      BY <1>1, <1>2, <3>1
    <3>3. (k + 1) * (Steps + 1) <= (MAX_ATTEMPTS - 0) * (Steps + 1)
      BY <1>1, <1>2, <3>1
    <3>4. (MAX_ATTEMPTS - 0) * (Steps + 1) \in Nat
      BY <1>1, <1>2, <3>1
    <3> QED BY <1>1, <3>2, <3>3, <3>4 DEF ToCome
  <2> QED BY <2>2, <2>3, <2>4
<1>4. 0 \in 0 .. MAX_ATTEMPTS /\ 0 < MAX_ATTEMPTS /\ 0 + 1 = 1
  BY <1>1
<1>5. ToCome(0) \in Nat /\ ToCome(0) = ToCome(0 + 1) + Steps + 1
  BY <1>3, <1>4
<1> QED BY <1>1, <1>3, <1>4, <1>5

\* What is left of an attempt under way.
LEMMA OfRunType ==
  ASSUME NEW n \in 1 .. MAX_ATTEMPTS, NEW done \in 0 .. Steps
  PROVE  OfRun(n, done) \in 1 .. ToCome(0)
<1>1. /\ ToCome(n) \in Nat /\ ToCome(0) \in Nat /\ Steps \in Nat
      /\ ToCome(n) + Steps + 1 <= ToCome(0)
  BY ToComeType
<1> QED BY <1>1 DEF OfRun

\* An attempt is under way at one of its steps.
LEMMA UnderWay ==
  ASSUME TypeOK
  PROVE  /\ pc \in {"idle", "running", "diff"} /\ Len(obs) \in 0 .. Steps
         /\ pc = "running" => attempt \in 1 .. MAX_ATTEMPTS /\ turn \in Runs
<1>1. Len(obs) \in 0 .. Steps
  BY TraceShape DEF TypeOK
<1>2. attempt \in 0 .. MAX_ATTEMPTS /\ MAX_ATTEMPTS \in Nat /\ (pc = "running" => attempt > 0)
  BY AttemptsAssumption DEF TypeOK
<1>3. pc \in {"idle", "running", "diff"} /\ (pc # "idle" => turn \in Runs)
  BY DEF TypeOK
<1> QED BY <1>1, <1>2, <1>3

\* A number, and zero only between invocations.
LEMMA LeftType ==
  ASSUME TypeOK
  PROVE  Left \in 0 .. 2 * MAX_ATTEMPTS * (Steps + 1) + 1 /\ (pc # "idle" => Left > 0)
<1>1. ToCome(0) \in Nat /\ 2 * MAX_ATTEMPTS * (Steps + 1) = ToCome(0) + ToCome(0)
  <2>1. Steps + 1 \in Nat /\ MAX_ATTEMPTS \in Nat
    BY ToComeType
  <2>2. \A k, p \in Nat : 2 * k * p = (k - 0) * p + (k - 0) * p
    OBVIOUS
  <2> QED BY <2>1, <2>2, ToComeType DEF ToCome
<1>2. CASE pc = "running"
  <2>1. OfRun(attempt, Len(obs)) \in 1 .. ToCome(0)
    BY <1>2, UnderWay, OfRunType
  <2>2. Left \in {OfRun(attempt, Len(obs)) + ToCome(0) + 1, OfRun(attempt, Len(obs)) + 1}
    BY <1>2 DEF Left
  <2> QED BY <1>1, <2>1, <2>2
<1>3. CASE pc = "idle"
  BY <1>1, <1>3 DEF Left
<1>4. CASE pc = "diff"
  BY <1>1, <1>4 DEF Left
<1> QED BY <1>2, <1>3, <1>4, UnderWay

\* An answer is one step fewer to come.
LEMMA ObserveRunsDown ==
  ASSUME IInv, NEW o, Observe(o)
  PROVE  Left' < Left
<1>1. pc = "running" /\ UNCHANGED <<pc, turn, attempt>> /\ obs' = Append(obs, o)
  BY DEF Observe
<1>2. attempt \in 1 .. MAX_ATTEMPTS /\ Len(obs) \in 0 .. Steps /\ Len(obs) + 1 <= Steps
  BY <1>1, UnderWay DEF IInv, Observe
<1>3. Len(obs') = Len(obs) + 1
  <2>1. obs \in Seq(Observations)
    BY TraceShape DEF IInv, TypeOK
  <2> QED BY <1>1, <2>1
<1>4. OfRun(attempt, Len(obs) + 1) \in 1 .. ToCome(0) /\ OfRun(attempt, Len(obs)) \in 1 .. ToCome(0)
  BY <1>2, OfRunType
<1>5. ToCome(0) \in Nat /\ ToCome(attempt) \in Nat /\ Steps \in Nat
  BY <1>2, ToComeType
<1>6. OfRun(attempt, Len(obs) + 1) < OfRun(attempt, Len(obs))
  BY <1>2, <1>5 DEF OfRun
<1>7. pc' = pc /\ turn' = turn /\ attempt' = attempt
  BY <1>1
<1>8. Left' = IF turn = "oracle" THEN OfRun(attempt, Len(obs) + 1) + ToCome(0) + 1
              ELSE OfRun(attempt, Len(obs) + 1) + 1
  BY <1>1, <1>3, <1>7 DEF Left, OfRun, ToCome
<1>9. Left = IF turn = "oracle" THEN OfRun(attempt, Len(obs)) + ToCome(0) + 1
             ELSE OfRun(attempt, Len(obs)) + 1
  BY <1>1 DEF Left
<1> QED BY <1>4, <1>5, <1>6, <1>8, <1>9

\* Another attempt is one attempt fewer.
LEMMA RetryRunsDown ==
  ASSUME IInv, Retry
  PROVE  Left' < Left
<1>1. /\ pc = "running" /\ pc' = pc /\ turn' = turn
      /\ attempt' = attempt + 1 /\ obs' = <<>> /\ Len(obs) = Steps /\ attempt < MAX_ATTEMPTS
  BY DEF Retry
<1>2. attempt \in 1 .. MAX_ATTEMPTS /\ attempt + 1 \in 1 .. MAX_ATTEMPTS /\ Steps \in Nat /\ Len(obs') = 0
  <2>1. attempt \in 1 .. MAX_ATTEMPTS
    BY <1>1, UnderWay DEF IInv
  <2>2. MAX_ATTEMPTS \in Nat /\ Steps \in Nat
    BY ToComeType
  <2>3. attempt + 1 \in 1 .. MAX_ATTEMPTS
    BY <1>1, <2>1, <2>2
  <2> QED BY <1>1, <2>1, <2>2, <2>3, EmptyTrace
<1>3. /\ ToCome(0) \in Nat /\ ToCome(attempt) \in Nat /\ ToCome(attempt + 1) \in Nat
      /\ ToCome(attempt) = ToCome(attempt + 1) + Steps + 1
  BY <1>1, <1>2, ToComeType
<1>4. /\ OfRun(attempt, Steps) = ToCome(attempt) + 1 /\ OfRun(attempt + 1, 0) = ToCome(attempt)
  BY <1>2, <1>3 DEF OfRun
<1>5. Left' = IF turn = "oracle" THEN OfRun(attempt + 1, 0) + ToCome(0) + 1
              ELSE OfRun(attempt + 1, 0) + 1
  BY <1>1, <1>2 DEF Left, OfRun, ToCome
<1>6. Left = IF turn = "oracle" THEN OfRun(attempt, Steps) + ToCome(0) + 1
             ELSE OfRun(attempt, Steps) + 1
  BY <1>1 DEF Left
<1> QED BY <1>3, <1>4, <1>5, <1>6

\* The oracle's run makes way for the subject's, and that one for the report.
LEMMA RunDoneRunsDown ==
  ASSUME IInv, RunDone
  PROVE  Left' < Left
<1>1. pc = "running" /\ attempt' = 1 /\ obs' = <<>> /\ Len(obs') = 0
  BY EmptyTrace DEF RunDone
<1>2. attempt \in 1 .. MAX_ATTEMPTS /\ Len(obs) \in 0 .. Steps /\ turn \in Runs
  BY <1>1, UnderWay DEF IInv
<1>3. OfRun(attempt, Len(obs)) \in 1 .. ToCome(0)
  BY <1>2, OfRunType
<1>4. /\ ToCome(0) \in Nat /\ ToCome(1) \in Nat /\ Steps \in Nat /\ ToCome(0) = ToCome(1) + Steps + 1
  BY <1>2, ToComeType, AttemptsAssumption
<1>5. CASE turn = "oracle"
  <2>1. pc' = "running" /\ turn' = "subject"
    BY <1>1, <1>5 DEF RunDone
  <2>2. Left' = OfRun(1, 0) + 1
    BY <1>1, <2>1 DEF Left, OfRun, ToCome
  <2>3. OfRun(1, 0) = ToCome(0)
    BY <1>4 DEF OfRun
  <2>4. Left = OfRun(attempt, Len(obs)) + ToCome(0) + 1
    BY <1>1, <1>5 DEF Left
  <2> QED BY <1>3, <1>4, <2>2, <2>3, <2>4
<1>6. CASE turn # "oracle"
  <2>1. pc' = "diff"
    BY <1>6 DEF RunDone
  <2>2. Left' = 1
    BY <2>1 DEF Left
  <2>3. Left = OfRun(attempt, Len(obs)) + 1
    BY <1>1, <1>6 DEF Left
  <2> QED BY <1>3, <1>4, <2>2, <2>3
<1> QED BY <1>5, <1>6

\* Every step of an invocation is one step fewer to come.
LEMMA LeftRunsDown ==
  IInv /\ Next /\ pc # "idle" => Left' < Left \/ UNCHANGED <<pc, turn, attempt, obs>>
<1> SUFFICES ASSUME IInv, Next, pc # "idle"
             PROVE  Left' < Left \/ UNCHANGED <<pc, turn, attempt, obs>>
  OBVIOUS
<1>1. CASE \E o \in Observations : Observe(o)
  BY <1>1, ObserveRunsDown
<1>2. CASE Retry \/ RunDone
  BY <1>2, RetryRunsDown, RunDoneRunsDown
<1>3. CASE (\E o \in Observations \union {None} : SetupFails(o)) \/ RunInadmissible \/ Report \/ Interrupt
  <2>1. pc' = "idle"
    BY <1>3 DEF SetupFails, RunInadmissible, Report, Interrupt, GiveUp, Exit
  <2>2. Left' = 0
    BY <2>1 DEF Left
  <2>3. Left > 0
    BY LeftType DEF IInv
  <2> QED BY <2>2, <2>3
<1>4. CASE Edit
  BY <1>4 DEF Edit
<1>5. ~ Make
  BY DEF Make
<1> QED BY <1>1, <1>2, <1>3, <1>4, <1>5 DEF Next, Work

\* make parity comes to at most so many steps as two runs of MAX_ATTEMPTS attempts
\* have, however often the cluster moves: no retry gives back what it took.
THEOREM InvocationsAreBounded ==
  Spec => /\ [](Left \in 0 .. 2 * MAX_ATTEMPTS * (Steps + 1) + 1)
          /\ [][pc # "idle" => Left' < Left \/ UNCHANGED <<pc, turn, attempt, obs>>]_vars
<1> DEFINE Bounded == Left \in 0 .. 2 * MAX_ATTEMPTS * (Steps + 1) + 1
           RunsDown == pc # "idle" => Left' < Left \/ UNCHANGED <<pc, turn, attempt, obs>>
<1>1. IInv => Bounded
  BY LeftType DEF IInv
<1>2. IInv /\ [Next]_vars => [RunsDown]_vars
  BY LeftRunsDown
<1> QED BY <1>1, <1>2, Invariance, PTL DEF Spec
=============================================================================
