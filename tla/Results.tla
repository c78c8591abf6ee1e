------------------------------- MODULE Results ------------------------------
(***************************************************************************)
(* What the parity runner promises of results/, for one scenario: traces   *)
(* are evidence, and a report is the diff of two traces that one and the   *)
(* same invocation took, stamped with the world that it read at its start. *)
(* An invocation that gives up leaves everything else as it was.           *)
(* ParityRun implements this; Ledger builds on it.                         *)
(***************************************************************************)
EXTENDS Integers, Sequences

CONSTANTS
  Steps,     \* the number of steps of the scenario
  None

ASSUME StepsAssumption == Steps \in Nat

VARIABLES
  trace,    \* results/traces/<scenario>.<run>.json, per run
  report,   \* results/divergence.<scenario>.json: the divergences, the world
  job,      \* the invocation under way: its world, the runs it has taken
  status    \* how the last one ended

results == <<trace, report, job, status>>

Runs == {"oracle", "subject"}

\* The divergences of two traces: the step, and what each client gave.
Diff(a, b) == {<<i, a[i], b[i]>> : i \in {j \in 1 .. Steps : a[j] # b[j]}}

ResultsInit ==
  /\ trace = [r \in Runs |-> None]
  /\ report = None
  /\ job = None
  /\ status = None

Start(w) ==
  /\ job = None
  /\ job' = [world |-> w, taken |-> {}]
  /\ status' = None
  /\ UNCHANGED <<trace, report>>

Take(r, t) ==
  /\ job # None
  /\ job.taken = IF r = "oracle" THEN {} ELSE {"oracle"}
  /\ trace' = [trace EXCEPT ![r] = [steps |-> t, world |-> job.world]]
  /\ job' = [job EXCEPT !.taken = @ \union {r}]
  /\ UNCHANGED <<report, status>>

Finish ==
  /\ job # None /\ job.taken = Runs
  /\ report' = [found |-> Diff(trace["oracle"].steps, trace["subject"].steps), world |-> job.world]
  /\ job' = None
  /\ status' = "done"
  /\ UNCHANGED trace

Leave ==
  /\ job # None
  /\ job' = None
  /\ status' = "failed"
  /\ UNCHANGED <<trace, report>>

ResultsNext(Worlds, Evidence) ==
  \/ \E w \in Worlds : Start(w)
  \/ \E r \in Runs, t \in Evidence : Take(r, t)
  \/ Finish \/ Leave
=============================================================================
