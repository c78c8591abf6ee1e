-------------------------- MODULE SplitWaitProofs --------------------------
(***************************************************************************)
(* The bounds of wait_for_split, for every limit, rewrite interval, poll,  *)
(* PD time limit and timer lag.                                            *)
(***************************************************************************)
EXTENDS SplitWait, TLAPS

\* How far the clock can have come at each await.
Progress ==
  /\ pc = "sleep" => now < limit
  /\ pc = "probe" => now < limit + poll + Lag
  /\ pc = "count" => limit <= now /\ now < limit + poll + Lag + PdMax

\* A re-write starts no sooner than next_rewrite, which is rewrite_every after the
\* last commit that returned.
Spacing ==
  /\ pc = "seed" => rewrites = 0
  /\ pc \in {"rewrite", "probe", "sleep"} => (rewrites + 1) * rewrite_every <= next_rewrite
  /\ pc = "rewrite" => next_rewrite <= now

Inv == TypeOK /\ BoundedOverrun /\ RewritesAreSpaced /\ Progress /\ Spacing

\* The durations are natural numbers.
LEMMA Durations ==
  /\ limit \in Nat /\ rewrite_every \in Nat /\ poll \in Nat /\ PdMax \in Nat /\ Lag \in Nat
  BY DurationAssumption

\* One re-write takes one rewrite_every.
LEMMA OneMore == \A r \in Nat : (r + 2) * rewrite_every = (r + 1) * rewrite_every + rewrite_every
  BY Durations

\* The time that re-writes take is a natural number.
LEMMA Product == \A r \in Nat : r * rewrite_every \in Nat
  BY Durations

\* The next re-write is one rewrite_every ahead.
LEMMA Later ==
  \A t \in Nat : t + rewrite_every \in Nat /\ rewrite_every <= t + rewrite_every /\ 0 <= t
  BY Durations

\* The clock starts at zero.
LEMMA InitEstablishes == Init => Inv
  BY DurationAssumption
  DEF Init, Inv, TypeOK, BoundedOverrun,
      RewritesAreSpaced, Progress, Spacing

\* A commit that returns is short of the deadline, and puts the next one off.
LEMMA CommitReturnsPreserves == Inv /\ CommitReturns => Inv'
<1> SUFFICES ASSUME Inv, CommitReturns PROVE Inv'
  OBVIOUS
<1> USE Durations
<1>1. now \in Nat
  BY DEF Inv, TypeOK
<1>2. now' \in Nat /\ now <= now' /\ now' < limit
  BY <1>1 DEF CommitReturns
<1>3. next_rewrite' = now' + rewrite_every
  BY DEF CommitReturns, NextRewrite
<1>4. next_rewrite' \in Nat
  BY <1>2, <1>3, Later, Zenon
<1>5. out = "nothing" /\ out' = "nothing"
  BY DEF CommitReturns, Inv, TypeOK
<1>6. CASE pc = "seed"
  <2>1. pc' = "probe" /\ rewrites' = 0 /\ rewrites = 0
    BY <1>6 DEF CommitReturns, Inv, Spacing
  <2>2. TypeOK' /\ BoundedOverrun' /\ Progress'
    BY <1>2, <1>5, <1>4, <2>1 DEF TypeOK, BoundedOverrun, Progress
  <2>3. RewritesAreSpaced'
    <3>1. 0 * rewrite_every = 0 /\ 0 <= now'
      BY <1>2
    <3> QED BY <2>1, <3>1, Zenon DEF RewritesAreSpaced
  <2>4. Spacing'
    <3>1. rewrite_every <= next_rewrite'
      BY <1>2, <1>3, Later, Zenon
    <3>2. (0 + 1) * rewrite_every = rewrite_every
      OBVIOUS
    <3> QED BY <2>1, <3>1, <3>2 DEF Spacing
  <2> QED BY <2>2, <2>3, <2>4 DEF Inv
<1>7. CASE pc = "rewrite"
  <2>1. pc' = "sleep" /\ rewrites' = rewrites + 1 /\ rewrites \in Nat
    BY <1>7 DEF CommitReturns, Inv, TypeOK
  <2>2. TypeOK' /\ BoundedOverrun' /\ Progress'
    BY <1>2, <1>5, <1>4, <2>1 DEF TypeOK, BoundedOverrun, Progress
  <2>3. (rewrites + 1) * rewrite_every <= now /\ now \in Nat
    <3>1. (rewrites + 1) * rewrite_every \in Nat
      BY <2>1, Product
    <3> QED BY <1>7, <3>1 DEF Inv, Spacing, TypeOK
  <2>4. (rewrites + 1) * rewrite_every <= now'
    <3>1. (rewrites + 1) * rewrite_every \in Nat
      BY <2>1, Product
    <3> QED BY <1>2, <2>3, <3>1
  <2>5. (rewrites + 2) * rewrite_every <= next_rewrite'
    <3>1. (rewrites + 2) * rewrite_every = (rewrites + 1) * rewrite_every + rewrite_every
      BY <2>1, OneMore
    <3>2. (rewrites + 1) * rewrite_every \in Nat
      BY <2>1, Product
    <3> QED BY <1>2, <1>3, <2>4, <3>1, <3>2
  <2>6. rewrites' + 1 = rewrites + 2
    BY <2>1
  <2>7. RewritesAreSpaced'
    BY <2>1, <2>4 DEF RewritesAreSpaced
  <2>8. Spacing'
    BY <2>1, <2>5, <2>6 DEF Spacing
  <2> QED BY <2>2, <2>7, <2>8 DEF Inv
<1> QED BY <1>6, <1>7 DEF CommitReturns

\* The steps that end the wait, and those that only let time pass.
LEMMA TimePasses ==
  ASSUME RewritesAreSpaced, TypeOK, now' \in Nat, now <= now', rewrites' = rewrites
  PROVE  RewritesAreSpaced'
<1>1. rewrites * rewrite_every \in Nat /\ now \in Nat
  BY Product DEF TypeOK
<1>2. rewrites * rewrite_every <= now'
  <2> DEFINE p == rewrites * rewrite_every
  <2>1. p \in Nat /\ p <= now /\ now \in Nat
    BY <1>1 DEF RewritesAreSpaced
  <2> HIDE DEF p
  <2>2. p <= now'
    BY <2>1
  <2> QED BY <2>2 DEF p
<1> QED BY <1>2, Zenon DEF RewritesAreSpaced

\* What each of the steps that end the wait says of the clock.
LEMMA Endings ==
  ASSUME Inv
  PROVE  /\ CommitLimit => now' \in Nat /\ now <= now' /\ limit <= now' /\ now' <= limit + Lag
         /\ CommitPanics => now' \in Nat /\ now <= now' /\ now' <= limit + Lag
         /\ ProbeSplit => now' \in Nat /\ now <= now' /\ now' < limit + poll + Lag + PdMax
         /\ RegionCount => now' \in Nat /\ now <= now' /\ limit <= now'
                           /\ now' < limit + poll + Lag + PdMax + PdMax
         /\ PdFails => now' \in Nat /\ now <= now' /\ now' < limit + poll + Lag + PdMax + PdMax
<1> USE Durations
<1>1. now \in Nat
  BY DEF Inv, TypeOK
<1>2. CommitLimit => now' \in Nat /\ now <= now' /\ limit <= now' /\ now' <= limit + Lag
  <2> SUFFICES ASSUME CommitLimit PROVE now' \in Nat /\ now <= now' /\ limit <= now' /\ now' <= limit + Lag
    OBVIOUS
  <2>1. now' \in limit .. limit + Lag /\ now < limit
    BY Zenon DEF CommitLimit, Inv, TypeOK
  <2> QED BY <1>1, <2>1
<1>3. CommitPanics => now' \in Nat /\ now <= now' /\ now' <= limit + Lag
  <2> SUFFICES ASSUME CommitPanics PROVE now' \in Nat /\ now <= now' /\ now' <= limit + Lag
    OBVIOUS
  <2>1. now' \in now .. limit + Lag
    BY Zenon DEF CommitPanics
  <2> QED BY <1>1, <2>1
<1>4. ProbeSplit => now' \in Nat /\ now <= now' /\ now' < limit + poll + Lag + PdMax
  <2> SUFFICES ASSUME ProbeSplit PROVE now' \in Nat /\ now <= now' /\ now' < limit + poll + Lag + PdMax
    OBVIOUS
  <2>1. now' \in now .. now + PdMax /\ now < limit + poll + Lag
    BY Zenon DEF ProbeSplit, Inv, Progress
  <2> QED BY <1>1, <2>1
<1>5. RegionCount => /\ now' \in Nat /\ now <= now' /\ limit <= now'
                     /\ now' < limit + poll + Lag + PdMax + PdMax
  <2> SUFFICES ASSUME RegionCount
               PROVE  /\ now' \in Nat /\ now <= now' /\ limit <= now'
                      /\ now' < limit + poll + Lag + PdMax + PdMax
    OBVIOUS
  <2>1. now' \in now .. now + PdMax /\ limit <= now /\ now < limit + poll + Lag + PdMax
    BY Zenon DEF RegionCount, Inv, Progress
  <2> QED BY <1>1, <2>1
<1>6. PdFails => now' \in Nat /\ now <= now' /\ now' < limit + poll + Lag + PdMax + PdMax
  <2> SUFFICES ASSUME PdFails
               PROVE  /\ now' \in Nat /\ now <= now'
                      /\ now' < limit + poll + Lag + PdMax + PdMax
    OBVIOUS
  <2>1. now' \in now .. now + PdMax
    BY Zenon DEF PdFails
  <2>2. now < limit + poll + Lag + PdMax
    <3>1. CASE pc = "probe"
      <4>1. now < limit + poll + Lag
        BY <3>1 DEF Inv, Progress
      <4> QED BY <1>1, <4>1
    <3>2. CASE pc = "count"
      BY <3>2 DEF Inv, Progress
    <3> QED BY <3>1, <3>2 DEF PdFails
  <2> QED BY <1>1, <2>1, <2>2
<1> QED BY <1>2, <1>3, <1>4, <1>5, <1>6

\* The returns of the wait are within its bounds.
LEMMA ReturnPreserves ==
  Inv /\ (CommitLimit \/ CommitPanics \/ ProbeSplit \/ RegionCount \/ PdFails) => Inv'
<1> SUFFICES ASSUME Inv, CommitLimit \/ CommitPanics \/ ProbeSplit \/ RegionCount \/ PdFails
             PROVE  Inv'
  OBVIOUS
<1>1. now' \in Nat /\ now <= now'
  BY Endings
<1>2. /\ pc' = "done" /\ out' \in {"split", "no split", "commit limit", "panic", "no PD"}
      /\ rewrites' = rewrites /\ next_rewrite' = next_rewrite
  BY DEF CommitLimit, CommitPanics, ProbeSplit, RegionCount, PdFails, Return
<1>3. TypeOK'
  BY <1>1, <1>2 DEF Inv, TypeOK
<1>4. BoundedOverrun'
  <2>1. CASE CommitLimit
    <3>1. out' = "commit limit" BY <2>1 DEF CommitLimit, Return
    <3> QED BY <2>1, <3>1, Endings DEF BoundedOverrun
  <2>2. CASE CommitPanics
    <3>1. out' = "panic" BY <2>2 DEF CommitPanics, Return
    <3> QED BY <2>2, <3>1, Endings DEF BoundedOverrun
  <2>3. CASE ProbeSplit
    <3>1. out' = "split" BY <2>3 DEF ProbeSplit, Return
    <3> QED BY <2>3, <3>1, Endings DEF BoundedOverrun
  <2>4. CASE RegionCount
    <3>1. out' = "no split" BY <2>4 DEF RegionCount, Return
    <3> QED BY <2>4, <3>1, Endings DEF BoundedOverrun
  <2>5. CASE PdFails
    <3>1. out' = "no PD" BY <2>5 DEF PdFails, Return
    <3> QED BY <2>5, <3>1, Endings DEF BoundedOverrun
  <2> QED BY <2>1, <2>2, <2>3, <2>4, <2>5
<1>5. RewritesAreSpaced'
  BY <1>1, <1>2, TimePasses DEF Inv
<1>6. Progress' /\ Spacing'
  BY <1>2 DEF Progress, Spacing
<1> QED BY <1>3, <1>4, <1>5, <1>6 DEF Inv

\* A probe looks at the deadline before a re-write.
LEMMA ProbeNoSplitPreserves == Inv /\ ProbeNoSplit => Inv'
<1> SUFFICES ASSUME Inv, ProbeNoSplit PROVE Inv'
  OBVIOUS
<1> USE Durations
<1>1. /\ now' \in Nat /\ now <= now' /\ now' <= now + PdMax
      /\ UNCHANGED <<rewrites, next_rewrite, out>> /\ pc = "probe"
  BY DEF Inv, TypeOK, ProbeNoSplit
<1>2. /\ pc' \in {"count", "rewrite", "sleep"}
      /\ pc' = "count" => now' >= limit
      /\ pc' \in {"rewrite", "sleep"} => now' < limit
      /\ pc' = "rewrite" => now' >= next_rewrite
  BY <1>1 DEF ProbeNoSplit
<1>3. TypeOK' /\ BoundedOverrun' /\ Progress'
  BY <1>1, <1>2 DEF Inv, TypeOK, BoundedOverrun, Progress
<1>4. RewritesAreSpaced'
  BY <1>1, TimePasses DEF Inv
<1>5. Spacing'
  BY <1>1, <1>2 DEF Inv, Spacing
<1> QED BY <1>3, <1>4, <1>5 DEF Inv

\* A sleep begins only before the deadline.
LEMMA SleepPreserves == Inv /\ Sleep => Inv'
<1> SUFFICES ASSUME Inv, Sleep PROVE Inv'
  OBVIOUS
<1> USE Durations
<1>1. /\ now' \in Nat /\ now <= now' /\ now' <= now + poll + Lag
      /\ UNCHANGED <<rewrites, next_rewrite, out>> /\ pc = "sleep" /\ pc' = "probe"
  BY DEF Inv, TypeOK, Sleep
<1>2. TypeOK' /\ BoundedOverrun' /\ Progress'
  BY <1>1 DEF Inv, TypeOK, BoundedOverrun, Progress
<1>3. RewritesAreSpaced'
  BY <1>1, TimePasses DEF Inv
<1>4. Spacing'
  BY <1>1 DEF Inv, Spacing
<1> QED BY <1>2, <1>3, <1>4 DEF Inv

\* Nothing changes in a step that changes nothing.
LEMMA StutterPreserves == Inv /\ UNCHANGED vars => Inv'
  BY DEF vars, Inv, TypeOK, BoundedOverrun, RewritesAreSpaced, Progress, Spacing

\* The invariant holds throughout.
LEMMA Invariance == Spec => []Inv
<1>1. Inv /\ [Next]_vars => Inv'
  BY CommitReturnsPreserves, ReturnPreserves, ProbeNoSplitPreserves, SleepPreserves,
     StutterPreserves DEF Next
<1> QED BY <1>1, InitEstablishes, PTL DEF Spec

\* A commit is given a limit only while some of it is left.
THEOREM WaitTypeCorrect == Spec => []TypeOK
<1>1. Inv => TypeOK
  BY DEF Inv
<1> QED BY <1>1, Invariance, PTL

\* The overrun that the comment of split_wait.rs bounds, with its exact bound.
THEOREM OverrunIsBounded == Spec => []BoundedOverrun
<1>1. Inv => BoundedOverrun
  BY DEF Inv
<1> QED BY <1>1, Invariance, PTL

\* The load that waiting puts on the cluster.
THEOREM RewritesSpaced == Spec => []RewritesAreSpaced
<1>1. Inv => RewritesAreSpaced
  BY DEF Inv
<1> QED BY <1>1, Invariance, PTL

-----------------------------------------------------------------------------
(* The way to the end                                                        *)

\* How many awaits are left at most: three in each round before the deadline, of
\* which a sleep is one, and those of the last one.
Rest(time) == IF time < limit THEN limit - time ELSE 0
Remaining == Rest(now)
Stage ==
  IF pc = "seed" THEN 4 ELSE IF pc = "probe" THEN 3 ELSE IF pc = "rewrite" THEN 2
  ELSE IF pc \in {"sleep", "count"} THEN 1 ELSE 0
Left == 3 * Remaining + Stage

\* What remains of the limit is a part of it.
LEMMA RemainingIsBounded == ASSUME now \in Nat PROVE Remaining \in 0 .. limit
BY Durations DEF Remaining, Rest

\* A number, as long as the types are right.
LEMMA LeftIsBounded == ASSUME TypeOK PROVE Left \in 0 .. 3 * limit + 4
<1>1. Remaining \in 0 .. limit
  BY RemainingIsBounded DEF TypeOK
<1>2. Stage \in 0 .. 4
  <2>1. pc \in {"seed", "rewrite", "probe", "sleep", "count", "done"}
    BY DEF TypeOK
  <2> QED BY <2>1 DEF Stage
<1>3. \A l, r, s \in Nat : r <= l /\ s <= 4 => 3 * r + s \in 0 .. 3 * l + 4
  OBVIOUS
<1>4. limit \in Nat /\ Remaining \in Nat /\ Remaining <= limit /\ Stage \in Nat /\ Stage <= 4
  BY <1>1, <1>2, Durations
<1> QED BY <1>3, <1>4 DEF Left

\* The clock does not run back, and a sleep takes some of what remains.
LEMMA TimeRunsDown ==
  ASSUME NEW t \in Nat, NEW u \in Nat, t <= u
  PROVE  /\ Rest(u) \in Nat /\ Rest(t) \in Nat /\ Rest(u) <= Rest(t)
         /\ t < limit /\ t < u => Rest(u) < Rest(t)
BY Durations DEF Rest

\* No await turns the clock back.
LEMMA ClockGoesOn == Inv /\ Next => now \in Nat /\ now' \in Nat /\ now <= now'
<1> SUFFICES ASSUME Inv, Next PROVE now \in Nat /\ now' \in Nat /\ now <= now'
  OBVIOUS
<1>1. now \in Nat /\ (pc \in {"seed", "rewrite"} => now < limit)
  BY DEF Inv, TypeOK
<1> USE Durations
<1>2. CASE CommitReturns
  BY <1>1, <1>2 DEF CommitReturns
<1>3. CASE CommitLimit
  <2>1. now < limit /\ now' \in limit .. limit + Lag
    BY <1>1, <1>3 DEF CommitLimit
  <2> QED BY <1>1, <2>1
<1>4. CASE CommitPanics
  BY <1>1, <1>4 DEF CommitPanics
<1>5. CASE ProbeSplit \/ ProbeNoSplit \/ RegionCount \/ PdFails
  <2>1. now' \in now .. now + PdMax
    BY <1>5 DEF ProbeSplit, ProbeNoSplit, RegionCount, PdFails
  <2> QED BY <1>1, <2>1
<1>6. CASE Sleep
  BY <1>1, <1>6 DEF Sleep
<1> QED BY <1>2, <1>3, <1>4, <1>5, <1>6 DEF Next

\* An await that is no sleep is one less in its round.
LEMMA RoundGoesOn == Next /\ ~Sleep => Stage \in Nat /\ Stage' \in Nat /\ Stage' < Stage
<1> SUFFICES ASSUME Next, ~Sleep PROVE Stage \in Nat /\ Stage' \in Nat /\ Stage' < Stage
  OBVIOUS
<1>1. CASE CommitReturns
  <2>1. pc \in {"seed", "rewrite"}
    BY <1>1 DEF CommitReturns
  <2>2. CASE pc = "seed"
    <3>1. pc' = "probe"
      BY <1>1, <2>2 DEF CommitReturns
    <3> QED BY <2>2, <3>1 DEF Stage
  <2>3. CASE pc = "rewrite"
    <3>1. pc' = "sleep"
      BY <1>1, <2>3, Zenon DEF CommitReturns
    <3> QED BY <2>3, <3>1 DEF Stage
  <2> QED BY <2>1, <2>2, <2>3
<1>2. CASE CommitLimit \/ CommitPanics \/ ProbeSplit \/ RegionCount \/ PdFails
  <2>1. pc \in {"seed", "rewrite", "probe", "count"}
    BY <1>2 DEF CommitLimit, CommitPanics, ProbeSplit, RegionCount, PdFails
  <2>2. pc' = "done"
    BY <1>2 DEF CommitLimit, CommitPanics, ProbeSplit, RegionCount, PdFails, Return
  <2> QED BY <2>1, <2>2 DEF Stage
<1>3. CASE ProbeNoSplit
  <2>1. pc = "probe" /\ pc' \in {"count", "rewrite", "sleep"}
    BY <1>3 DEF ProbeNoSplit
  <2> QED BY <2>1 DEF Stage
<1> QED BY <1>1, <1>2, <1>3 DEF Next

\* Each step of the wait is one await fewer to come.
LEMMA LeftDecreases == Inv /\ Next => Left' < Left
<1> SUFFICES ASSUME Inv, Next PROVE Left' < Left
  OBVIOUS
<1>1. now \in Nat /\ now' \in Nat /\ now <= now'
  BY ClockGoesOn
<1>2. /\ Remaining' \in Nat /\ Remaining \in Nat /\ Remaining' <= Remaining
      /\ now < limit /\ now < now' => Remaining' < Remaining
  BY <1>1, TimeRunsDown DEF Remaining
<1>3. \A a, b, s, t \in Nat : b < a /\ s = 1 /\ t = 3 => 3 * b + t < 3 * a + s
  OBVIOUS
<1>4. \A a, b, s, t \in Nat : b <= a /\ t < s => 3 * b + t < 3 * a + s
  OBVIOUS
<1>5. CASE Sleep
  <2>1. pc = "sleep" /\ pc' = "probe"
    BY <1>5 DEF Sleep
  <2>2. now < limit
    BY <2>1 DEF Inv, Progress
  <2>3. now < now'
    BY <1>1, <1>5, DurationAssumption DEF Sleep
  <2>4. Stage = 1 /\ Stage' = 3
    BY <2>1 DEF Stage
  <2> QED BY <1>2, <1>3, <2>2, <2>3, <2>4 DEF Left
<1>6. CASE ~Sleep
  BY <1>2, <1>4, <1>6, RoundGoesOn DEF Left
<1> QED BY <1>5, <1>6

\* The wait cannot go on for ever: it comes to at most 3 * limit + 4 awaits, however
\* short a commit, a probe or a re-write turns out to be.
THEOREM AwaitsAreBounded == Spec => [](Left \in 0 .. 3 * limit + 4) /\ [][Left' < Left]_vars
<1>1. Inv => Left \in 0 .. 3 * limit + 4
  BY LeftIsBounded DEF Inv
<1>2. Inv /\ [Next]_vars => [Left' < Left]_vars
  BY LeftDecreases
<1> QED BY <1>1, <1>2, Invariance, PTL DEF Spec
=============================================================================
