----------------------------- MODULE ParityRun -----------------------------
(***************************************************************************)
(* `make parity` for one scenario: the runner (crates/parity-runner) runs  *)
(* it against the oracle and then the subject, attempt by attempt and step *)
(* by step, and writes the trace of each run and the report of their       *)
(* divergence into results/, which outlives it.                            *)
(*                                                                         *)
(* Abstractions.  An observation is one of a few: "met" and "other" are    *)
(* admissible answers, of which "met" is the one a step's assert wants;    *)
(* "region" and "internal" are inadmissible, the first for a reason of the *)
(* cluster's; "mixed" is a multi-key error one part of which is a region   *)
(* error.  The projection is the observation itself.  The world that       *)
(* provenance.sh records is a value.                                       *)
(***************************************************************************)
EXTENDS Integers, Sequences

CONSTANTS
  Steps,        \* the number of steps of the scenario
  Asserted,     \* those with an assert, the scenario's preconditions
  Worlds,
  MAX_ATTEMPTS,
  MaxEdits,     \* how often the world may change (a bound of the model)
  None

ASSUME StepsAssumption == Steps \in Nat /\ Asserted \subseteq 1 .. Steps
ASSUME AttemptsAssumption == MAX_ATTEMPTS \in Nat \ {0}
ASSUME NoneAssumption ==
  /\ None \notin [world : Worlds, taken : SUBSET {"oracle", "subject"}]
  /\ None \notin [steps : [1 .. Steps -> {"met", "other"}], world : Worlds]
ASSUME EditsAssumption == MaxEdits \in Nat

VARIABLES
  pc,       \* "idle", "running" or "diff"
  turn,     \* the run under way, "oracle" or "subject"
  attempt,  \* of that run
  obs,      \* the observations of this attempt, in order
  stamp,    \* the provenance read when the runner started
  world,    \* the world as it is now
  edits,
  trace,    \* results/traces/<scenario>.<run>.json, per run
  report,   \* results/divergence.<scenario>.json: the divergences, provenance
  status    \* how the last invocation ended

vars == <<pc, turn, attempt, obs, stamp, world, edits, trace, report, status>>

Runs == {"oracle", "subject"}
Observations == {"met", "other", "region", "internal", "mixed"}

Init ==
  /\ pc = "idle" /\ turn = None
  /\ attempt = 0 /\ obs = <<>> /\ stamp = None
  /\ world \in Worlds /\ edits = 0
  /\ trace = [r \in Runs |-> None]
  /\ report = None
  /\ status = None

-----------------------------------------------------------------------------
(* Helpers *)

\* Mutant of Admissible: a multi-key error is admissible whatever its parts.
AdmissibleFlat(o) == o \notin {"region", "internal"}
Admissible(o) == o \notin {"region", "internal", "mixed"}

\* precondition_failure: an inadmissible observation neither meets nor fails it.
PreconditionFails(i, o) == i \in Asserted /\ Admissible(o) /\ o # "met"

Inadmissible(t) == \E i \in DOMAIN t : ~Admissible(t[i])
IsTransient(t) == \E i \in DOMAIN t : t[i] = "region"

\* The divergences of two traces: the step, and what each client gave.
Diff(a, b) == {<<i, a[i], b[i]>> : i \in {j \in 1 .. Steps : a[j] # b[j]}}

Exit(how) == pc' = "idle" /\ turn' = None /\ attempt' = 0 /\ obs' = <<>> /\ status' = how

-----------------------------------------------------------------------------
(* make parity                                                               *)

Make ==
  /\ pc = "idle"
  /\ pc' = "running"
  /\ turn' = "oracle" /\ attempt' = 1 /\ obs' = <<>>
  /\ stamp' = world
  /\ status' = None
  /\ UNCHANGED <<world, edits, trace, report>>

\* The runner gives up on the scenario and exits with 1; make stops.  What an
\* earlier run left in results/ stays there.
GiveUp ==
  /\ Exit("failed")
  /\ UNCHANGED <<stamp, world, edits, trace, report>>

\* A driver answers the next step.
Observe(o) ==
  LET i == Len(obs) + 1 IN
  /\ pc = "running" /\ i <= Steps
  /\ ~PreconditionFails(i, o)
  /\ obs' = Append(obs, o)
  /\ UNCHANGED <<pc, turn, attempt, stamp, world, edits, trace, report, status>>

\* A precondition did not hold, or a driver went away.
SetupFails(o) ==
  LET i == Len(obs) + 1 IN
  /\ pc = "running" /\ i <= Steps
  /\ PreconditionFails(i, o) \/ o = None
  /\ GiveUp

\* Mutant of Retry: one attempt too many.
RetryOnceMore ==
  /\ pc = "running" /\ Len(obs) = Steps
  /\ Inadmissible(obs) /\ IsTransient(obs) /\ attempt <= MAX_ATTEMPTS
  /\ attempt' = attempt + 1
  /\ obs' = <<>>
  /\ UNCHANGED <<pc, turn, stamp, world, edits, trace, report, status>>

\* Mutant of Retry: the attempts are not counted.
RetryForEver ==
  /\ pc = "running" /\ Len(obs) = Steps
  /\ Inadmissible(obs) /\ IsTransient(obs)
  /\ obs' = <<>>
  /\ UNCHANGED <<pc, turn, attempt, stamp, world, edits, trace, report, status>>

\* The cluster moved: run it again, from the first step, under a new key prefix.
Retry ==
  /\ pc = "running" /\ Len(obs) = Steps
  /\ Inadmissible(obs) /\ IsTransient(obs) /\ attempt < MAX_ATTEMPTS
  /\ attempt' = attempt + 1
  /\ obs' = <<>>
  /\ UNCHANGED <<pc, turn, stamp, world, edits, trace, report, status>>

\* Evidence of nothing.
RunInadmissible ==
  /\ pc = "running" /\ Len(obs) = Steps
  /\ Inadmissible(obs) /\ ~(IsTransient(obs) /\ attempt < MAX_ATTEMPTS)
  /\ GiveUp

\* The run counts: its trace is written, and the next run starts.
RunDone ==
  /\ pc = "running" /\ Len(obs) = Steps
  /\ ~Inadmissible(obs)
  /\ trace' = [trace EXCEPT ![turn] = [steps |-> obs, world |-> stamp]]
  /\ IF turn = "oracle" THEN turn' = "subject" /\ UNCHANGED pc
     ELSE pc' = "diff" /\ UNCHANGED turn
  /\ attempt' = 1 /\ obs' = <<>>
  /\ UNCHANGED <<stamp, world, edits, report, status>>

\* Mutant of Report: it is written only where the clients differ.
ReportGapsOnly ==
  LET found == Diff(trace["oracle"].steps, trace["subject"].steps) IN
  /\ pc = "diff"
  /\ report' = IF found = {} THEN report ELSE [found |-> found, world |-> stamp]
  /\ Exit("done")
  /\ UNCHANGED <<stamp, world, edits, trace>>

\* The divergence report.
Report ==
  /\ pc = "diff"
  /\ report' = [found |-> Diff(trace["oracle"].steps, trace["subject"].steps), world |-> stamp]
  /\ Exit("done")
  /\ UNCHANGED <<stamp, world, edits, trace>>

-----------------------------------------------------------------------------
(* The environment *)

\* Somebody edits, commits, checks out or re-pins; or kills make.
Edit ==
  /\ edits < MaxEdits
  /\ edits' = edits + 1
  /\ world' \in Worlds \ {world}
  /\ UNCHANGED <<pc, turn, attempt, obs, stamp, trace, report, status>>

Interrupt == pc # "idle" /\ GiveUp

-----------------------------------------------------------------------------
Work ==
  \/ \E o \in Observations : Observe(o)
  \/ \E o \in Observations \union {None} : SetupFails(o)
  \/ Retry \/ RunInadmissible \/ RunDone \/ Report

Next == Make \/ Work \/ Edit \/ Interrupt

Spec == Init /\ [][Next]_vars

\* Every driver answers or dies, and the runner goes on.
FairSpec == Spec /\ WF_vars(Work)

-----------------------------------------------------------------------------
(* Properties                                                                *)

Traces == UNION {[1 .. n -> Observations] : n \in 0 .. Steps}

\* What a trace on disk may hold: the setup was met at every asserted step, and
\* no step was answered by the cluster or by the harness itself.
Evidence == {t \in [1 .. Steps -> {"met", "other"}] : \A i \in Asserted : t[i] = "met"}

\* The variables have their types, and an attempt is one of MAX_ATTEMPTS.
TypeOK ==
  /\ pc \in {"idle", "running", "diff"}
  /\ turn \in Runs \union {None} /\ (pc # "idle" => turn \in Runs)
  /\ attempt \in 0 .. MAX_ATTEMPTS /\ (pc = "running" => attempt > 0)
  /\ obs \in Traces
  /\ stamp \in Worlds \union {None} /\ world \in Worlds
  /\ edits \in 0 .. MaxEdits
  /\ trace \in [Runs -> [steps : Evidence, world : Worlds] \union {None}]
  /\ report # None => report.found \subseteq (1 .. Steps) \X {"met", "other"} \X {"met", "other"}
                      /\ report.world \in Worlds
  /\ status \in {"done", "failed", None}

\* To the ledger check, an invocation is the runs it has taken so far.
Job ==
  IF pc = "idle" THEN None
  ELSE [world |-> stamp,
        taken |-> IF pc = "diff" THEN Runs ELSE IF turn = "subject" THEN {"oracle"} ELSE {}]

Promise == INSTANCE Results WITH job <- Job

\* What is in results/ is evidence, and each report the diff of two traces that one
\* invocation took, in the world it read at its start - whatever attempts were
\* retried, whatever earlier invocations failed or were killed, left behind.
ImplementsResults == Promise!ResultsInit /\ [][Promise!ResultsNext(Worlds, Evidence)]_(Promise!results)

\* An invocation of make ends, whatever the cluster does.
MakeEnds == (pc # "idle") ~> (pc = "idle")
=============================================================================
