-------------------------- MODULE SideBySideProofs --------------------------
(***************************************************************************)
(* What the report of a comparison tells, for any scenarios, any failures  *)
(* of the clients and any locks in the cluster: where the clients met      *)
(* something else, and nothing besides.                                    *)
(***************************************************************************)
EXTENDS SideBySide, FunctionTheorems, FiniteSetTheorems, TLAPS

-----------------------------------------------------------------------------
(* Facts and classes                                                         *)

RustFacts ==
  {"conflict", "already_exist", "txn_not_found", "locked", "deadlock", "assertion_failed",
   "commit_ts_too_large", "retryable", "abort", "undetermined", "region", "rpc", "lacks", "other"}

\* The facts that the Rust table has an entry for.
LEMMA FactsOfTheTable == DOMAIN RustClass = RustFacts
BY DEF RustClass, RustFacts

\* Each fact has a class of its own, which is a class of failures.
LEMMA ClassPerFact ==
  ASSUME NEW f \in RustFacts
  PROVE  /\ RustClass[f] \in Classes \ {"ok", "not_found", "mixed", "driver_error"}
         /\ \A g \in RustFacts : RustClass[f] = RustClass[g] => f = g
<1>1. RustClass[f] \in Classes \ {"ok", "not_found", "mixed", "driver_error"}
  BY DEF RustClass, RustFacts, Classes
<1>2. ASSUME NEW g \in RustFacts, RustClass[f] = RustClass[g] PROVE f = g
  BY <1>2 DEF RustClass, RustFacts
<1> QED BY <1>1, <1>2

\* The fields of a new observation.
LEMMA NewFields ==
  ASSUME NEW class
  PROVE  /\ New(class).class = class /\ New(class).parts = <<>> /\ New(class).value = <<None>>
         /\ New(class).locks = {} /\ New(class).commit_ts = FALSE /\ New(class).proto = None
         /\ New(class).detail = None
BY DEF New

\* Where the Go table has a class that counts as evidence, the Rust table has the same.
LEMMA TablesAgree ==
  ASSUME NEW f \in RustFacts, GoClass(f) \notin InadmissibleClasses
  PROVE  /\ GoClass(f) = RustClass[f] /\ f # "lacks"
         /\ f # "retryable" => GoProto(f) = RustProto(f)
BY DEF GoClass, RustClass, RustFacts, InadmissibleClasses, GoProto, RustProto, KeyErrors

-----------------------------------------------------------------------------
(* What an observation tells of what the client met                          *)

\* What a command that succeeds is answered is an answer.
LEMMA SuccessesAnswer ==
  ASSUME NEW c
  PROVE  Successes(c) \subseteq Answers
BY DEF Successes, Answers

\* A client meets one fact, or client-rust several failures.
LEMMA MeetsShape ==
  ASSUME NEW lang \in {"go", "rust"}, NEW c, NEW m \in Meets(lang, c)
  PROVE  \/ \E f : m = <<f>> /\ f \in Successes(c) \union Failures(lang, c)
         \/ lang = "rust" /\ c.op = "commit" /\ m \in Several
BY DEF Meets

\* No failure is an answer.
LEMMA FailuresAreNone ==
  /\ Answers \intersect (RustFacts \union {"no_ts", "timeout"}) = {}
  /\ \A c, lang : Failures(lang, c) \intersect Answers = {}
<1>1. Answers \intersect (RustFacts \union {"no_ts", "timeout"}) = {}
  BY DEF Answers, RustFacts
<1>2. Facts \intersect Answers = {}
  BY <1>1, FactsAssumption, FactsOfTheTable
<1> QED BY <1>1, <1>2 DEF Failures

\* Whether failures are all one fact, and their classes.
AllOne(m) == \A i, j \in DOMAIN m : m[i] = m[j]
ClassesOf(m) == [i \in DOMAIN m |-> RustClass[m[i]]]

\* What the clients met, as an observation tells it: an answer, or the failures by
\* the table of the driver, of whose classes client-go's are evidence.
FailureOf(lang, c, m, o) ==
  \/ lang = "rust" /\ o = RustClassify(c, m)
  \/ lang = "go" /\ Len(m) = 1 /\ o = GoClassify(m) /\ GoClass(m[1]) \notin InadmissibleClasses

Told(lang, c, m, seen, prefix, o) ==
  \/ /\ \E f \in Successes(c) : m = <<f>>
     /\ o = Answer(c, m, seen, prefix)
  \/ /\ m \in Seq(RustFacts) /\ m # <<>>
     /\ FailureOf(lang, c, m, o)

\* What the first fact is decides whether the client succeeded.
LEMMA MetEither ==
  ASSUME NEW lang \in {"go", "rust"}, NEW c, NEW m \in Meets(lang, c)
  PROVE  \/ Succeeded(m) /\ \E f \in Successes(c) : m = <<f>>
         \/ /\ ~Succeeded(m) /\ m # <<>>
            /\ \/ \E f \in RustFacts \union {"no_ts", "timeout"} : m = <<f>>
               \/ lang = "rust" /\ c.op = "commit" /\ m \in Seq(RustFacts)
<1>1. CASE \E f : m = <<f>> /\ f \in Successes(c)
  BY <1>1, SuccessesAnswer DEF Succeeded
<1>2. CASE \E f : m = <<f>> /\ f \in Failures(lang, c)
  <2>1. PICK f : m = <<f>> /\ f \in Failures(lang, c)
    BY <1>2
  <2>2. f \in RustFacts \union {"no_ts", "timeout"} /\ f \notin Answers
    BY <2>1, FactsAssumption, FactsOfTheTable, FailuresAreNone DEF Failures
  <2>3. m # <<>> /\ m[1] = f
    BY <2>1
  <2> QED BY <2>1, <2>2, <2>3 DEF Succeeded
<1>3. CASE lang = "rust" /\ c.op = "commit" /\ m \in Several
  <2>1. m \in Seq(RustFacts) /\ m # <<>>
    BY <1>3, SeveralAssumption, FactsOfTheTable
  <2>2. m[1] \in RustFacts
    BY <2>1
  <2>3. m[1] \notin Answers
    BY <2>2, FailuresAreNone
  <2> QED BY <1>3, <2>1, <2>3 DEF Succeeded
<1> QED BY <1>1, <1>2, <1>3, MeetsShape

\* The Rust table, where all failures are one fact, and where they are not.
LEMMA OneFailure ==
  ASSUME NEW c, NEW m \in Seq(RustFacts), m # <<>>, \A i, j \in DOMAIN m : m[i] = m[j]
  PROVE  RustClassify(c, m) =
           [New(RustClass[m[1]]) EXCEPT !.proto = RustProto(m[1]), !.detail = RustDetail(c, m[1])]
<1> DEFINE classes == [i \in DOMAIN m |-> RustClass[m[i]]]
<1>1. 1 \in DOMAIN m /\ DOMAIN classes = DOMAIN m
  OBVIOUS
<1>2. \A i \in DOMAIN classes : classes[i] = classes[1]
  BY <1>1
<1>3. classes[1] = RustClass[m[1]]
  BY <1>1
<1> QED BY <1>2, <1>3 DEF RustClassify

\* Failures that are not all one fact are told as mixed, part by part.
LEMMA SeveralFailures ==
  ASSUME NEW c, NEW m \in Seq(RustFacts), m # <<>>, ~ \A i, j \in DOMAIN m : m[i] = m[j]
  PROVE  RustClassify(c, m) = [New("mixed") EXCEPT !.parts = [i \in DOMAIN m |-> RustClass[m[i]]]]
<1> DEFINE classes == [i \in DOMAIN m |-> RustClass[m[i]]]
<1>1. 1 \in DOMAIN m /\ DOMAIN classes = DOMAIN m /\ \A i \in DOMAIN m : m[i] \in RustFacts
  OBVIOUS
<1>2. ~ \A i \in DOMAIN classes : classes[i] = classes[1]
  BY <1>1, ClassPerFact
<1> QED BY <1>2 DEF RustClassify

\* The fields of a failure by the Rust table.
LEMMA FailureFields ==
  ASSUME NEW c, NEW m \in Seq(RustFacts), m # <<>>
  PROVE  LET o == RustClassify(c, m) IN
         /\ o.value = <<None>> /\ o.locks = {} /\ o.commit_ts = New("ok").commit_ts
         /\ AllOne(m) => o.class = RustClass[m[1]] /\ o.proto = RustProto(m[1]) /\ o.detail = RustDetail(c, m[1])
         /\ ~AllOne(m) => o.class = "mixed" /\ o.parts = ClassesOf(m) /\ o.proto = None /\ o.detail = None
<1> DEFINE o == RustClassify(c, m)
           class == RustClass[m[1]]
           proto == RustProto(m[1])
           detail == RustDetail(c, m[1])
           v == ClassesOf(m)
<1>1. AllOne(m) => o = [New(class) EXCEPT !.proto = proto, !.detail = detail]
  BY OneFailure DEF AllOne
<1>2. ~AllOne(m) => o = [New("mixed") EXCEPT !.parts = v]
  BY SeveralFailures DEF AllOne, ClassesOf
<1> HIDE DEF o, class, proto, detail, v
<1>3. CASE AllOne(m)
  BY <1>1, <1>3 DEF New, o, class, proto, detail
<1>4. CASE ~AllOne(m)
  BY <1>2, <1>4 DEF New, o, v
<1> QED BY <1>3, <1>4

\* A failure that is classified is no success and no failure of the driver.
LEMMA ClassifiedAsFailure ==
  ASSUME NEW c, NEW m \in Seq(RustFacts), m # <<>>
  PROVE  RustClassify(c, m).class \in Classes \ {"ok", "not_found", "driver_error"}
<1>1. CASE AllOne(m)
  <2>1. m[1] \in RustFacts
    OBVIOUS
  <2>2. RustClassify(c, m).class = RustClass[m[1]]
    BY <1>1, FailureFields
  <2> QED BY <2>1, <2>2, ClassPerFact
<1>2. CASE ~AllOne(m)
  <2>1. RustClassify(c, m).class = "mixed"
    BY <1>2, FailureFields
  <2> QED BY <2>1 DEF Classes
<1> QED BY <1>1, <1>2

\* A driver's observation that is no refusal tells of its facts.
LEMMA RustTells ==
  ASSUME NEW d, NEW c, NEW m \in Meets("rust", c), NEW seen, NEW prefix,
         RustObserve(d, c, m, seen, prefix).class # "driver_error"
  PROVE  /\ ~RustRefuses(d, c)
         /\ Told("rust", c, m, LockObs(RustLockKind, seen), prefix, RustObserve(d, c, m, seen, prefix))
<1> DEFINE o == RustObserve(d, c, m, seen, prefix)
<1>1. ~RustRefuses(d, c)
  BY NewFields DEF RustObserve
<1>2. CASE Succeeded(m)
  <2>1. o = Answer(c, m, LockObs(RustLockKind, seen), prefix)
    BY <1>1, <1>2 DEF RustObserve
  <2> QED BY <1>1, <1>2, <2>1, MetEither DEF Told
<1>3. CASE ~Succeeded(m)
  <2>1. ~RustBlamesSetup(c, m) /\ o = RustClassify(c, m)
    BY <1>1, <1>3, NewFields DEF RustObserve
  <2>2. m[1] \notin {"no_ts", "timeout"}
    BY <2>1 DEF RustBlamesSetup
  <2>3. m \in Seq(RustFacts) /\ m # <<>>
    <3>1. CASE \E f \in RustFacts \union {"no_ts", "timeout"} : m = <<f>>
      BY <2>2, <3>1
    <3>2. CASE m \in Seq(RustFacts)
      BY <1>3, <3>2, MetEither
    <3> QED BY <1>3, <3>1, <3>2, MetEither
  <2> QED BY <1>1, <2>1, <2>3 DEF Told, FailureOf
<1> QED BY <1>2, <1>3

\* Of the Go driver the same, if the observation is evidence.
LEMMA GoTells ==
  ASSUME NEW d, NEW c, NEW m \in Meets("go", c), NEW seen, NEW prefix,
         Admissible(GoObserve(d, c, m, seen, prefix))
  PROVE  /\ ~GoRefuses(d, c)
         /\ Told("go", c, m, LockObs(GoLockKind, seen), prefix, GoObserve(d, c, m, seen, prefix))
<1> DEFINE o == GoObserve(d, c, m, seen, prefix)
<1>1. o.class \notin InadmissibleClasses
  BY DEF Admissible
<1>2. ~GoRefuses(d, c)
  BY <1>1, NewFields DEF GoObserve, InadmissibleClasses
<1>3. CASE Succeeded(m)
  <2>1. o = Answer(c, m, LockObs(GoLockKind, seen), prefix)
    BY <1>2, <1>3 DEF GoObserve
  <2> QED BY <1>2, <1>3, <2>1, MetEither DEF Told
<1>4. CASE ~Succeeded(m)
  <2>1. ~GoBlamesSetup(c, m) /\ o = GoClassify(m)
    BY <1>1, <1>2, <1>4, NewFields DEF GoObserve, InadmissibleClasses
  <2>2. PICK f \in RustFacts \union {"no_ts", "timeout"} : m = <<f>>
    BY <1>4, MetEither
  <2>3. m[1] = f /\ Len(m) = 1
    BY <2>2
  <2>4. o.class = GoClass(f)
    BY <2>1, <2>3 DEF GoClassify, New
  <2>5. f \in RustFacts
    <3>1. f \notin {"no_ts", "timeout"}
      BY <1>1, <2>4 DEF GoClass, InadmissibleClasses
    <3> QED BY <2>2, <3>1
  <2>6. m \in Seq(RustFacts) /\ m # <<>>
    BY <2>2, <2>5
  <2>7. FailureOf("go", c, m, o)
    BY <1>1, <2>1, <2>3, <2>4 DEF FailureOf
  <2> QED BY <1>2, <2>6, <2>7 DEF Told
<1> QED BY <1>3, <1>4

\* The fields of the observations that differ from a new one.
LEMMA WithProto ==
  ASSUME NEW class, NEW p
  PROVE  LET o == [New(class) EXCEPT !.proto = p] IN
         /\ o.class = class /\ o.parts = <<>> /\ o.value = <<None>> /\ o.locks = {}
         /\ o.commit_ts = FALSE /\ o.detail = None /\ o.proto = p
BY DEF New

\* The same, with parts.
LEMMA WithParts ==
  ASSUME NEW class, NEW p
  PROVE  LET o == [New(class) EXCEPT !.parts = p] IN
         /\ o.class = class /\ o.parts = p /\ o.value = <<None>> /\ o.locks = {}
         /\ o.commit_ts = FALSE /\ o.detail = None /\ o.proto = None
BY DEF New

\* The same, with a value.
LEMMA WithValue ==
  ASSUME NEW class, NEW v
  PROVE  LET o == [New(class) EXCEPT !.value = v] IN
         /\ o.class = class /\ o.parts = <<>> /\ o.value = v /\ o.locks = {}
         /\ o.commit_ts = FALSE /\ o.detail = None /\ o.proto = None
BY DEF New

\* The same, with locks.
LEMMA WithLocks ==
  ASSUME NEW class, NEW l
  PROVE  LET o == [New(class) EXCEPT !.locks = l] IN
         /\ o.class = class /\ o.parts = <<>> /\ o.value = <<None>> /\ o.locks = l
         /\ o.commit_ts = FALSE /\ o.detail = None /\ o.proto = None
BY DEF New

\* The same, with what it says of a commit timestamp.
LEMMA WithCommitTs ==
  ASSUME NEW class, NEW b \in BOOLEAN
  PROVE  LET o == [New(class) EXCEPT !.commit_ts = b] IN
         /\ o.class = class /\ o.parts = <<>> /\ o.value = <<None>> /\ o.locks = {}
         /\ o.commit_ts = b /\ o.detail = None /\ o.proto = None
BY DEF New

-----------------------------------------------------------------------------
(* What the report tells                                                     *)

\* A path whose values differ is in the report.
LEMMA DifferAt ==
  ASSUME NEW a, NEW pa, NEW b, NEW pb, NEW path, NEW v, NEW w,
         <<path, v>> \in Project(a, pa), v # w,
         \A x \in Project(b, pb) : x[1] = path => x = <<path, w>>
  PROVE  path \in Differ(a, pa, b, pb)
<1> DEFINE A == Project(a, pa)
           B == Project(b, pb)
           y == <<path, v>>
<1>1. y \in A /\ y[1] = path
  OBVIOUS
<1>2. y \notin B
  <2> SUFFICES ASSUME y \in B PROVE FALSE
    OBVIOUS
  <2>1. y = <<path, w>>
    BY <1>1
  <2> QED BY <2>1
<1>3. y \in (A \ B) \union (B \ A)
  BY <1>1, <1>2
<1> HIDE DEF A, B, y
<1>4. y[1] \in {x[1] : x \in (A \ B) \union (B \ A)}
  BY <1>3
<1> QED BY <1>1, <1>4 DEF Differ, A, B

\* The paths of a projection, one by one.
LEMMA Projected ==
  ASSUME NEW o, NEW p
  PROVE  /\ <<"class", o.class>> \in Project(o, p)
         /\ <<"value", Redact(o.value, p)>> \in Project(o, p)
         /\ <<"commit_ts", o.commit_ts>> \in Project(o, p)
         /\ o.class = "mixed" => <<"class.parts", Unordered(o.parts)>> \in Project(o, p)
         /\ \A x \in Project(o, p) :
              /\ x[1] = "class" => x = <<"class", o.class>>
              /\ x[1] = "value" => x = <<"value", Redact(o.value, p)>>
              /\ x[1] = "commit_ts" => x = <<"commit_ts", o.commit_ts>>
              /\ x[1] = "class.parts" => x = <<"class.parts", Unordered(o.parts)>>
<1>1. /\ <<"class", o.class>> \in Project(o, p)
      /\ <<"value", Redact(o.value, p)>> \in Project(o, p)
      /\ <<"commit_ts", o.commit_ts>> \in Project(o, p)
  BY DEF Project
<1>2. o.class = "mixed" => <<"class.parts", Unordered(o.parts)>> \in Project(o, p)
  BY DEF Project
<1>3. ASSUME NEW x \in Project(o, p)
      PROVE  /\ x[1] = "class" => x = <<"class", o.class>>
             /\ x[1] = "value" => x = <<"value", Redact(o.value, p)>>
             /\ x[1] = "commit_ts" => x = <<"commit_ts", o.commit_ts>>
             /\ x[1] = "class.parts" => x = <<"class.parts", Unordered(o.parts)>>
  BY <1>3 DEF Project
<1> QED BY <1>1, <1>2, <1>3

-----------------------------------------------------------------------------
(* The shape of the state                                                    *)

\* The tokens of byte strings: those of texts, and the runs' prefixes.
Tokens == STRING \union Runs

LockRecords == [key : Seq(Tokens), primary : Seq(Tokens), kind : DOMAIN RustLockKind, ttl : Nat]

Observed(o) == o.class \in Classes /\ \A l \in o.locks : l.key \in Seq(Tokens)

\* A driver's tables.
Held ==
  [clients : SUBSET STRING, raw : SUBSET STRING, txns : SUBSET STRING, pessimistic : SUBSET STRING,
   buffer : SUBSET (STRING \X Seq(Tokens))]

\* A command as a driver gets it, with bytes for texts.
Placed(c) ==
  /\ c.role \in STRING /\ c.client \in STRING /\ c.session \in STRING
  /\ c.key \in Seq(Tokens) /\ c.primary \in Seq(Tokens) /\ c.keys \subseteq Seq(Tokens)
  /\ c.value \in Seq(Tokens) /\ c.start \in Seq(Tokens) /\ c.end \in Seq(Tokens)
  /\ c.batch_size \in Nat

\* Byte strings of one token and of none.
LEMMA OneToken ==
  ASSUME NEW S, NEW x \in S
  PROVE  <<x>> \in Seq(S) /\ <<>> \in Seq(S)
OBVIOUS

\* A text is placed under the prefix of its run.
LEMMA FollowingIsBytes ==
  ASSUME NEW x \in STRING
  PROVE  Following(x) \in Seq(Tokens)
<1>0. x \in Tokens
  BY DEF Tokens
<1>1. <<x>> \in Seq(Tokens) /\ <<>> \in Seq(Tokens)
  BY <1>0, OneToken
<1>2. Following(x) = <<>> \/ Following(x) = <<x>>
  BY DEF Following
<1> QED BY <1>1, <1>2

\* Byte strings one after the other.
LEMMA Concatenated ==
  ASSUME NEW S, NEW s \in Seq(S), NEW t \in Seq(S)
  PROVE  s \o t \in Seq(S)
OBVIOUS

\* A text that was placed is a byte string, as a key and as a value.
LEMMA KeysAreBytes ==
  ASSUME NEW a, a.name \in STRING, NEW p \in Tokens
  PROVE  AsKey(a, p) \in Seq(Tokens) /\ AsValue(a, p) \in Seq(Tokens)
<1>1. Following(a.name) \in Seq(Tokens)
  BY FollowingIsBytes
<1>2. <<p>> \in Seq(Tokens)
  BY OneToken
<1>3. Following(a.name) \o <<p>> \in Seq(Tokens) /\ <<p>> \o Following(a.name) \in Seq(Tokens)
  BY <1>1, <1>2, Concatenated
<1> QED BY <1>1, <1>3 DEF AsKey, AsValue

\* The fields of a command that was placed.
LEMMA SubstituteFields ==
  ASSUME NEW c \in Commands, NEW p \in Tokens
  PROVE  LET q == Substitute(c, p) IN
         /\ q.op = c.op /\ q.role = c.role /\ q.client = c.client /\ q.session = c.session
         /\ q.batch_size = c.batch_size /\ q.mode = c.mode
         /\ q.key = AsKey(c.key, p) /\ q.primary = AsKey(c.primary, p)
         /\ q.keys = {AsKey(k, p) : k \in c.keys}
         /\ q.value = AsValue(c.value, p) /\ q.start = AsKey(c.start, p) /\ q.end = AsKey(c.end, p)
BY DEF Substitute, Commands

\* A text has a name; a command is made of texts and names.
LEMMA CommandFields ==
  ASSUME NEW c \in Commands
  PROVE  /\ c.role \in STRING /\ c.client \in STRING /\ c.session \in STRING
         /\ c.batch_size \in Nat
         /\ c.key.name \in STRING /\ c.primary.name \in STRING /\ c.value.name \in STRING
         /\ c.start.name \in STRING /\ c.end.name \in STRING
         /\ \A k \in c.keys : k.name \in STRING
<1>1. /\ c.key \in Texts /\ c.primary \in Texts /\ c.keys \subseteq Texts
      /\ c.value \in Texts /\ c.start \in Texts /\ c.end \in Texts
  BY DEF Commands
<1>2. \A a \in Texts : a.name \in STRING
  BY DEF Texts
<1>3. c.role \in STRING /\ c.client \in STRING /\ c.session \in STRING /\ c.batch_size \in Nat
  BY DEF Commands
<1> QED BY <1>1, <1>2, <1>3

\* A command that was placed has byte strings for texts.
LEMMA SubstitutePlaces ==
  ASSUME NEW c \in Commands, NEW p \in Tokens
  PROVE  Placed(Substitute(c, p))
<1> DEFINE q == Substitute(c, p)
<1>0. /\ q.op = c.op /\ q.role = c.role /\ q.client = c.client /\ q.session = c.session
      /\ q.batch_size = c.batch_size
      /\ q.key = AsKey(c.key, p) /\ q.primary = AsKey(c.primary, p)
      /\ q.keys = {AsKey(k, p) : k \in c.keys}
      /\ q.value = AsValue(c.value, p) /\ q.start = AsKey(c.start, p) /\ q.end = AsKey(c.end, p)
  BY SubstituteFields
<1> HIDE DEF q
<1>1. AsKey(c.key, p) \in Seq(Tokens) /\ AsKey(c.primary, p) \in Seq(Tokens)
  BY CommandFields, KeysAreBytes
<1>2. /\ AsValue(c.value, p) \in Seq(Tokens) /\ AsKey(c.start, p) \in Seq(Tokens)
      /\ AsKey(c.end, p) \in Seq(Tokens)
  BY CommandFields, KeysAreBytes
<1>3. \A k \in c.keys : AsKey(k, p) \in Seq(Tokens)
  BY CommandFields, KeysAreBytes
<1>4. q.keys \subseteq Seq(Tokens)
  BY <1>0, <1>3
<1>5. /\ q.role \in STRING /\ q.client \in STRING /\ q.session \in STRING
      /\ q.batch_size \in Nat
  BY <1>0, CommandFields
<1> QED BY <1>0, <1>1, <1>2, <1>4, <1>5 DEF Placed, q

\* The tables keep their shape.
LEMMA TablesTyped ==
  ASSUME NEW d \in Held, NEW c, Placed(c), NEW ok \in BOOLEAN
  PROVE  Tables(d, c, ok) \in Held
<1> DEFINE Without(s) == {b \in d.buffer : b[1] # s}
           begun == IF c.mode = "pessimistic" THEN d.pessimistic \union {c.session} ELSE d.pessimistic \ {c.session}
<1>1. /\ d.clients \in SUBSET STRING /\ d.raw \in SUBSET STRING /\ d.txns \in SUBSET STRING
      /\ d.pessimistic \in SUBSET STRING /\ d.buffer \in SUBSET (STRING \X Seq(Tokens))
  BY DEF Held
<1>2. ASSUME NEW x \in SUBSET STRING
      PROVE  /\ [d EXCEPT !.clients = x] \in Held /\ [d EXCEPT !.raw = x] \in Held
             /\ \A b \in SUBSET (STRING \X Seq(Tokens)), y \in SUBSET STRING :
                  /\ [d EXCEPT !.txns = x, !.buffer = b, !.pessimistic = y] \in Held
                  /\ [d EXCEPT !.buffer = b] \in Held
  BY <1>2 DEF Held
<1>3. /\ c.client \in STRING /\ c.session \in STRING /\ <<c.session, c.key>> \in STRING \X Seq(Tokens)
  BY DEF Placed
<1>4. Without(c.session) \in SUBSET (STRING \X Seq(Tokens)) /\ begun \in SUBSET STRING
  BY <1>1, <1>3
<1>5. /\ d.clients \union {c.client} \in SUBSET STRING /\ d.clients \ {c.client} \in SUBSET STRING
      /\ d.raw \union {c.client} \in SUBSET STRING
      /\ d.txns \union {c.session} \in SUBSET STRING /\ d.txns \ {c.session} \in SUBSET STRING
      /\ d.pessimistic \ {c.session} \in SUBSET STRING
      /\ d.buffer \union {<<c.session, c.key>>} \in SUBSET (STRING \X Seq(Tokens))
  BY <1>1, <1>3
<1>6. \/ Tables(d, c, ok) = [d EXCEPT !.clients = d.clients \union {c.client}]
      \/ Tables(d, c, ok) = [d EXCEPT !.clients = d.clients \ {c.client}]
      \/ Tables(d, c, ok) = [d EXCEPT !.raw = d.raw \union {c.client}]
      \/ Tables(d, c, ok) = [d EXCEPT !.txns = d.txns \union {c.session}, !.buffer = Without(c.session),
                                     !.pessimistic = begun]
      \/ Tables(d, c, ok) = [d EXCEPT !.txns = d.txns \ {c.session}, !.buffer = Without(c.session),
                                     !.pessimistic = d.pessimistic \ {c.session}]
      \/ Tables(d, c, ok) = [d EXCEPT !.buffer = d.buffer \union {<<c.session, c.key>>}]
      \/ Tables(d, c, ok) = d
  BY DEF Tables
<1> HIDE DEF Without, begun
<1>7. /\ [d EXCEPT !.clients = d.clients \union {c.client}] \in Held
      /\ [d EXCEPT !.clients = d.clients \ {c.client}] \in Held
      /\ [d EXCEPT !.raw = d.raw \union {c.client}] \in Held
  BY <1>2, <1>5
<1>8. /\ [d EXCEPT !.txns = d.txns \union {c.session}, !.buffer = Without(c.session), !.pessimistic = begun] \in Held
      /\ [d EXCEPT !.txns = d.txns \ {c.session}, !.buffer = Without(c.session),
                   !.pessimistic = d.pessimistic \ {c.session}] \in Held
  BY <1>2, <1>4, <1>5
<1>9. [d EXCEPT !.buffer = d.buffer \union {<<c.session, c.key>>}] \in Held
  BY <1>2, <1>5
<1> QED BY <1>6, <1>7, <1>8, <1>9

\* The answers, command by command.
LEMMA Answers1 ==
  ASSUME NEW c, NEW m, NEW seen, NEW prefix, NEW f \in Successes(c), m = <<f>>
  PROVE  LET o == Answer(c, m, seen, prefix) IN
         /\ c.op = "commit" => /\ f \in {"ok", "readonly"}
                               /\ o = [New("ok") EXCEPT !.commit_ts = (f = "ok")]
         /\ c.op \in {"get", "snapshot_get"} =>
              \/ f = "absent" /\ o = New("not_found")
              \/ f = "value" /\ o = [New("ok") EXCEPT !.value = <<"v">>]
              \/ f = "pointer" /\ o = [New("ok") EXCEPT !.value = <<prefix, "v">>]
         /\ c.op = "scan_locks" => f = "ok" /\ o = [New("ok") EXCEPT !.locks = seen]
         /\ c.op \notin {"commit", "get", "snapshot_get", "scan_locks"} => f = "ok" /\ o = New("ok")
<1>0. m[1] = f
  OBVIOUS
<1>1. CASE c.op = "commit"
  BY <1>0, <1>1 DEF Answer, Successes
<1>2. CASE c.op \in {"get", "snapshot_get"}
  BY <1>0, <1>2 DEF Answer, Successes
<1>3. CASE c.op = "scan_locks"
  BY <1>0, <1>3 DEF Answer, Successes
<1>4. CASE c.op \notin {"commit", "get", "snapshot_get", "scan_locks"}
  BY <1>0, <1>4 DEF Answer, Successes
<1> QED BY <1>1, <1>2, <1>3, <1>4

\* An observation has a class, and its locks are ones that were seen.
LEMMA AnswerTyped ==
  ASSUME NEW c, NEW m, NEW seen, NEW prefix, NEW f \in Successes(c), m = <<f>>
  PROVE  LET o == Answer(c, m, seen, prefix) IN
         /\ o.class \in Classes /\ o.locks \subseteq seen
         /\ o.class = IF f = "absent" THEN "not_found" ELSE "ok"
<1> DEFINE o == Answer(c, m, seen, prefix)
<1> HIDE DEF o
<1>1. CASE c.op = "commit"
  <2>1. f \in {"ok", "readonly"} /\ o = [New("ok") EXCEPT !.commit_ts = (f = "ok")]
    BY <1>1, Answers1 DEF o
  <2>2. o.class = "ok" /\ o.locks = {}
    BY <2>1, WithCommitTs
  <2> QED BY <2>1, <2>2 DEF Classes, o
<1>2. CASE c.op \in {"get", "snapshot_get"}
  <2>1. \/ f = "absent" /\ o = New("not_found")
        \/ f = "value" /\ o = [New("ok") EXCEPT !.value = <<"v">>]
        \/ f = "pointer" /\ o = [New("ok") EXCEPT !.value = <<prefix, "v">>]
    BY <1>2, Answers1 DEF o
  <2>2. CASE f = "absent" /\ o = New("not_found")
    <3>1. o.class = "not_found" /\ o.locks = {}
      BY <2>2, NewFields
    <3> QED BY <2>2, <3>1 DEF Classes, o
  <2>3. ASSUME NEW v, f # "absent", o = [New("ok") EXCEPT !.value = v] PROVE o.class = "ok" /\ o.locks = {}
    BY <2>3, WithValue
  <2>4. CASE f # "absent"
    <3>1. o.class = "ok" /\ o.locks = {}
      BY <2>1, <2>3, <2>4
    <3> QED BY <2>4, <3>1 DEF Classes, o
  <2> QED BY <2>1, <2>2, <2>4
<1>3. CASE c.op = "scan_locks"
  <2>1. f = "ok" /\ o = [New("ok") EXCEPT !.locks = seen]
    BY <1>3, Answers1 DEF o
  <2>2. o.class = "ok" /\ o.locks = seen
    BY <2>1, WithLocks
  <2> QED BY <2>1, <2>2 DEF Classes, o
<1>4. CASE c.op \notin {"commit", "get", "snapshot_get", "scan_locks"}
  <2>1. f = "ok" /\ o = New("ok")
    BY <1>4, Answers1 DEF o
  <2>2. o.class = "ok" /\ o.locks = {}
    BY <2>1, NewFields
  <2> QED BY <2>1, <2>2 DEF Classes, o
<1> QED BY <1>1, <1>2, <1>3, <1>4

\* What is observed of the driver's own failures.
LEMMA DriverErrorFields ==
  New("driver_error").class \in Classes /\ New("driver_error").locks = {}
BY NewFields DEF Classes

\* A lock is reported with the key, the primary and the TTL it has.
LEMMA Reported ==
  ASSUME NEW S \in SUBSET LockRecords, NEW table, NEW l \in LockObs(table, S)
  PROVE  \E h \in S : /\ l.key = h.key /\ l.primary = h.primary /\ l.ttl = h.ttl
                      /\ l.kind = table[h.kind]
<1>1. PICK h \in S : l = [h EXCEPT !.kind = table[@]]
  BY DEF LockObs
<1>2. h \in [key : Seq(Tokens), primary : Seq(Tokens), kind : DOMAIN RustLockKind, ttl : Nat]
  BY DEF LockRecords
<1> DEFINE kind == table[h.kind]
<1>3. l = [h EXCEPT !.kind = kind]
  BY <1>1
<1> HIDE DEF kind
<1>4. l.key = h.key /\ l.primary = h.primary /\ l.ttl = h.ttl /\ l.kind = kind
  BY <1>2, <1>3
<1> QED BY <1>4 DEF kind

\* The locks of an observation are ones that were seen.
Reports(o, seen) == o.class \in Classes /\ \A l \in o.locks : \E h \in seen : l.key = h.key

\* An answer reports what was seen.
LEMMA AnswerReports ==
  ASSUME NEW c, NEW m, NEW seen \in SUBSET LockRecords, NEW table, NEW prefix,
         NEW f \in Successes(c), m = <<f>>
  PROVE  Reports(Answer(c, m, LockObs(table, seen), prefix), seen)
<1> DEFINE o == Answer(c, m, LockObs(table, seen), prefix)
<1>1. o.class \in Classes /\ o.locks \subseteq LockObs(table, seen)
  BY AnswerTyped
<1> HIDE DEF o
<1>2. \A l \in o.locks : \E h \in seen : l.key = h.key
  BY <1>1, Reported
<1> QED BY <1>1, <1>2 DEF Reports, o

\* What the Rust driver observes has a class, and locks it was shown.
LEMMA RustTyped ==
  ASSUME NEW d, NEW c, NEW m, RustRefuses(d, c) \/ m \in Meets("rust", c),
         NEW seen \in SUBSET LockRecords, NEW prefix
  PROVE  Reports(RustObserve(d, c, m, seen, prefix), seen)
<1> DEFINE o == RustObserve(d, c, m, seen, prefix)
<1>1. CASE RustRefuses(d, c)
  BY <1>1, DriverErrorFields DEF RustObserve, Reports
<1>2. CASE ~RustRefuses(d, c) /\ Succeeded(m)
  <2>1. o = Answer(c, m, LockObs(RustLockKind, seen), prefix)
    BY <1>2 DEF RustObserve
  <2>2. PICK f \in Successes(c) : m = <<f>>
    BY <1>2, MetEither
  <2> QED BY <2>1, <2>2, AnswerReports
<1>3. CASE ~RustRefuses(d, c) /\ ~Succeeded(m) /\ RustBlamesSetup(c, m)
  BY <1>3, DriverErrorFields DEF RustObserve, Reports
<1>4. CASE ~RustRefuses(d, c) /\ ~Succeeded(m) /\ ~RustBlamesSetup(c, m)
  <2>1. m[1] \notin {"no_ts", "timeout"}
    BY <1>4 DEF RustBlamesSetup
  <2>2. m \in Seq(RustFacts) /\ m # <<>>
    <3>1. CASE \E f \in RustFacts \union {"no_ts", "timeout"} : m = <<f>>
      BY <2>1, <3>1
    <3>2. CASE m \in Seq(RustFacts)
      BY <1>4, <3>2, MetEither
    <3> QED BY <1>4, <3>1, <3>2, MetEither
  <2>3. o = RustClassify(c, m)
    BY <1>4 DEF RustObserve
  <2> HIDE DEF o
  <2>4. o.class \in Classes /\ o.locks = {}
    BY <2>2, <2>3, ClassifiedAsFailure, FailureFields
  <2> QED BY <2>4 DEF Reports, o
<1> QED BY <1>1, <1>2, <1>3, <1>4

\* What the Go driver observes has a class, and locks it was shown.
LEMMA GoTyped ==
  ASSUME NEW d, NEW c, NEW m, GoRefuses(d, c) \/ m \in Meets("go", c),
         NEW seen \in SUBSET LockRecords, NEW prefix
  PROVE  Reports(GoObserve(d, c, m, seen, prefix), seen)
<1> DEFINE o == GoObserve(d, c, m, seen, prefix)
<1>1. CASE GoRefuses(d, c)
  BY <1>1, DriverErrorFields DEF GoObserve, Reports
<1>2. CASE ~GoRefuses(d, c) /\ Succeeded(m)
  <2>1. o = Answer(c, m, LockObs(GoLockKind, seen), prefix)
    BY <1>2 DEF GoObserve
  <2>2. PICK f \in Successes(c) : m = <<f>>
    BY <1>2, MetEither
  <2> QED BY <2>1, <2>2, AnswerReports
<1>3. CASE ~GoRefuses(d, c) /\ ~Succeeded(m) /\ GoBlamesSetup(c, m)
  BY <1>3, DriverErrorFields DEF GoObserve, Reports
<1>4. CASE ~GoRefuses(d, c) /\ ~Succeeded(m) /\ ~GoBlamesSetup(c, m)
  <2>1. PICK f \in RustFacts \union {"no_ts", "timeout"} : m = <<f>>
    BY <1>4, MetEither
  <2>2. GoClass(f) \in Classes
    BY DEF GoClass, Classes, RustFacts
  <2>3. o = [New(GoClass(f)) EXCEPT !.proto = GoProto(f)]
    BY <1>4, <2>1 DEF GoObserve, GoClassify
  <2> HIDE DEF o
  <2>4. o.class = GoClass(f) /\ o.locks = {}
    BY <2>3, WithProto
  <2> QED BY <2>2, <2>4 DEF Reports, o
<1> QED BY <1>1, <1>2, <1>3, <1>4

-----------------------------------------------------------------------------
(* The shape of the state                                                    *)

\* Neither the run under way nor the cluster's locks as they are: what a step does
\* with the locks and the tables it is given.
SeenIn(L, c) == {l \in L : ~Before(l.key, c.start) /\ Before(l.key, c.end)}

ObserveAs(lang, d, c, m, L, run) ==
  IF lang = "rust" THEN RustObserve(d, c, m, SeenIn(L, c), run) ELSE GoObserve(d, c, m, SeenIn(L, c), run)

OwnOf(L, run) == {l \in L : Of(l.key, {run}) # {}}

Vacant(L, gone, lang, d, c) == {l \in MayLeave(lang, d, c) : \A h \in L \ gone : h.key # l.key}

EffectsOn(L, run, lang, d, c, m) ==
  IF m \in {NotAsked, <<"lacks">>} \/ ~Settles(lang, d, c) THEN {[gone |-> {}, new |-> {}]}
  ELSE {e \in [gone : SUBSET OwnOf(L, run), new : SUBSET MayLeave(lang, d, c)] :
          /\ e.new \subseteq Vacant(L, e.gone, lang, d, c)
          /\ \A l, h \in e.new : l.key = h.key => l = h
          /\ Succeeded(m) /\ c.op = "prewrite_only" => e.new = Vacant(L, e.gone, lang, d, c)
          /\ Succeeded(m) /\ LocksAtPut(lang, d, c) => \E l \in (L \ e.gone) \union e.new : l.key = c.key}

NotedAs(c, e, run) ==
  [gone |-> Shown(e.gone, run), new |-> IF c.op = "prewrite_only" THEN {} ELSE Shown(e.new, run)]

IsSeq(s) == \E S : s \in Seq(S)

\* A sequence grows by one element.
LEMMA Growing ==
  ASSUME NEW s, IsSeq(s), NEW e
  PROVE  /\ IsSeq(Append(s, e))
         /\ Len(s) \in Nat /\ DOMAIN s = 1 .. Len(s)
         /\ Len(Append(s, e)) = Len(s) + 1
         /\ DOMAIN Append(s, e) = 1 .. Len(s) + 1
         /\ \A i \in 1 .. Len(s) : Append(s, e)[i] = s[i]
         /\ Append(s, e)[Len(s) + 1] = e
<1>1. PICK S : s \in Seq(S)
  BY DEF IsSeq
<1>2. s \in Seq(S \union {e}) /\ e \in S \union {e}
  BY <1>1
<1>3. Append(s, e) \in Seq(S \union {e})
  BY <1>2
<1> QED BY <1>2, <1>3 DEF IsSeq

\* The command of a step, as the run's driver gets it, and that driver.
CommandAt(run, i) == Substitute(scenario.steps[i], Prefix(run))
Lang(run, i) == scenario.bind[run][scenario.steps[i].role]

Shaped ==
  /\ scenario \in Scenarios /\ Accepted(scenario)
  /\ turn \in Runs \union {"compared", "refused"}
  /\ tables \in [scenario.roles -> Held]
  /\ obs \in [Runs -> {obs["oracle"], obs["subject"]}]
  /\ \A run \in Runs :
       /\ IsSeq(obs[run]) /\ Len(obs[run]) <= Len(scenario.steps)
       /\ \A i \in DOMAIN obs[run] : Observed(obs[run][i])
  /\ IsSeq(met) /\ Len(met) = Len(obs["oracle"])
  /\ IsSeq(kept) /\ Len(kept) = Len(obs["oracle"])
  /\ apart \subseteq DOMAIN obs["subject"] /\ strayed \subseteq DOMAIN obs["subject"]
  /\ locks \subseteq LockRecords
  /\ turn = "oracle" => obs["subject"] = <<>> /\ apart = {} /\ strayed = {}
  /\ turn \in {"subject", "compared"} => Trusted(obs["oracle"]) /\ Len(obs["oracle"]) = Len(scenario.steps)
  /\ turn = "compared" => Trusted(obs["subject"]) /\ Len(obs["subject"]) = Len(scenario.steps)

\* What a scenario that was accepted and is under way is.
LEMMA Underway ==
  ASSUME scenario \in Scenarios, Accepted(scenario), NEW run \in Runs,
         NEW i \in Nat, i < Len(scenario.steps)
  PROVE  /\ i + 1 \in DOMAIN scenario.steps
         /\ scenario.steps[i + 1] \in Commands /\ IsFiniteSet(scenario.steps[i + 1].keys)
         /\ CommandAt(run, i + 1).role = scenario.steps[i + 1].role
         /\ Placed(CommandAt(run, i + 1))
         /\ scenario.steps[i + 1].role \in scenario.roles
         /\ Lang(run, i + 1) \in {"go", "rust"}
<1> DEFINE k == i + 1
<1>1. /\ IsScenario(scenario) /\ DOMAIN scenario.bind = Runs
  BY ScenariosAssumption
<1>2. /\ scenario.steps \in Seq(Commands)
      /\ \A j \in DOMAIN scenario.steps : IsFiniteSet(scenario.steps[j].keys)
      /\ \A r \in DOMAIN scenario.bind[run] : scenario.bind[run][r] \in {"go", "rust"}
  BY <1>1 DEF IsScenario
<1>3. k \in DOMAIN scenario.steps /\ scenario.steps[k] \in Commands
  BY <1>2
<1> HIDE DEF k
<1>4. scenario.steps[k].role \in scenario.roles /\ DOMAIN scenario.bind[run] = scenario.roles
  BY <1>1, <1>3 DEF Accepted, Active
<1>5. Prefix(run) \in Tokens
  BY DEF Prefix, Tokens
<1>6. CommandAt(run, k).role = scenario.steps[k].role /\ Placed(CommandAt(run, k))
  BY <1>3, <1>5, SubstituteFields, SubstitutePlaces DEF CommandAt
<1> QED BY <1>2, <1>3, <1>4, <1>6 DEF Lang, k

\* A step, its observation, its number and its effect on the locks, with what they
\* depend on made explicit.
Moves(m, o, i, e) ==
  LET c == CommandAt(turn, i)
      d == tables[scenario.steps[i].role]
      lang == Lang(turn, i)
  IN /\ i = Len(obs[turn]) + 1
     /\ IF Refuses(lang, d, c) THEN m = NotAsked ELSE m \in Meets(lang, c)
     /\ o = ObserveAs(lang, d, c, m, locks, turn)
     /\ obs' = [obs EXCEPT ![turn] = Append(obs[turn], o)]
     /\ tables' = [tables EXCEPT ![scenario.steps[i].role] = Tables(d, c, o.class = "ok")]
     /\ e \in EffectsOn(locks, turn, lang, d, c, m)
     /\ locks' = (locks \ e.gone) \union e.new
     /\ turn = "oracle" =>
          /\ met' = Append(met, m) /\ kept' = Append(kept, NotedAs(c, e, turn))
          /\ apart' = apart /\ strayed' = strayed
     /\ turn = "subject" =>
          /\ met' = met /\ kept' = kept
          /\ apart' = IF m = NotAsked \/ Same(m, met[i]) THEN apart ELSE apart \union {i}
          /\ strayed' = IF NotedAs(c, e, turn) = kept[i] THEN strayed ELSE strayed \union {i}

\* Every step is one of these.
LEMMA StepShape ==
  ASSUME Shaped, Step
  PROVE  /\ turn \in Runs /\ Len(obs[turn]) < Len(scenario.steps)
         /\ UNCHANGED <<scenario, turn>>
         /\ \E m, o, i, e : Moves(m, o, i, e)
<1> DEFINE i == Len(obs[turn]) + 1
           c == CommandAt(turn, i)
           d == tables[scenario.steps[i].role]
           lang == Lang(turn, i)
<1>1. turn \in Runs /\ Len(obs[turn]) < Len(scenario.steps) /\ UNCHANGED <<scenario, turn>>
  BY DEF Step
<1>2. c.role = scenario.steps[i].role
  <2>1. Len(obs[turn]) \in Nat
    BY <1>1, Growing DEF Shaped
  <2> QED BY <1>1, <2>1, Underway DEF Shaped
<1> DEFINE Moved(m, e) ==
             /\ LET o == Observe(lang, d, c, m) IN
                  /\ obs' = [obs EXCEPT ![turn] = Append(@, o)]
                  /\ tables' = [tables EXCEPT ![c.role] = Tables(d, c, o.class = "ok")]
             /\ locks' = (locks \ e.gone) \union e.new
             /\ IF turn = "oracle"
                THEN /\ met' = Append(met, m) /\ kept' = Append(kept, Noted(c, e))
                     /\ UNCHANGED <<apart, strayed>>
                ELSE /\ apart' = IF m = NotAsked \/ Same(m, met[i]) THEN apart ELSE apart \union {i}
                     /\ strayed' = IF Noted(c, e) = kept[i] THEN strayed ELSE strayed \union {i}
                     /\ UNCHANGED <<met, kept>>
<1>3. \E m \in IF Refuses(lang, d, c) THEN {NotAsked} ELSE Meets(lang, c) :
        \E e \in Effects(lang, d, c, m) : Moved(m, e)
  BY <1>2 DEF Step, CommandAt, Lang
<1> HIDE DEF c, d, lang
<1>4. PICK m, e : /\ m \in IF Refuses(lang, d, c) THEN {NotAsked} ELSE Meets(lang, c)
                  /\ e \in Effects(lang, d, c, m) /\ Moved(m, e)
  BY <1>3
<1> DEFINE o == ObserveAs(lang, d, c, m, locks, turn)
<1>5. Observe(lang, d, c, m) = o
  BY DEF Observe, ObserveAs, Seen, SeenIn, Prefix
<1>6. e \in EffectsOn(locks, turn, lang, d, c, m)
  BY <1>4 DEF Effects, EffectsOn, OwnOf, Vacant, Prefix
<1>7. Noted(c, e) = NotedAs(c, e, turn)
  BY DEF Noted, NotedAs, Prefix
<1> HIDE DEF o
<1>8. /\ obs' = [obs EXCEPT ![turn] = Append(obs[turn], o)]
      /\ tables' = [tables EXCEPT ![scenario.steps[i].role] = Tables(d, c, o.class = "ok")]
      /\ locks' = (locks \ e.gone) \union e.new
  BY <1>2, <1>4, <1>5
<1>9. IF Refuses(lang, d, c) THEN m = NotAsked ELSE m \in Meets(lang, c)
  BY <1>4
<1>10. /\ turn = "oracle" =>
            /\ met' = Append(met, m) /\ kept' = Append(kept, NotedAs(c, e, turn))
            /\ apart' = apart /\ strayed' = strayed
       /\ turn = "subject" =>
            /\ met' = met /\ kept' = kept
            /\ apart' = IF m = NotAsked \/ Same(m, met[i]) THEN apart ELSE apart \union {i}
            /\ strayed' = IF NotedAs(c, e, turn) = kept[i] THEN strayed ELSE strayed \union {i}
  BY <1>4, <1>7
<1>11. Moves(m, o, i, e)
  BY <1>6, <1>8, <1>9, <1>10 DEF Moves, c, d, lang, o
<1> QED BY <1>1, <1>11

\* What a step leaves has its shape.
LEMMA ObserveTyped ==
  ASSUME NEW lang \in {"go", "rust"}, NEW d, NEW c, NEW m, NEW L \in SUBSET LockRecords, NEW run,
         IF Refuses(lang, d, c) THEN m = NotAsked ELSE m \in Meets(lang, c)
  PROVE  LET o == ObserveAs(lang, d, c, m, L, run) IN Observed(o) /\ Reports(o, SeenIn(L, c))
<1> DEFINE o == ObserveAs(lang, d, c, m, L, run)
<1>1. SeenIn(L, c) \in SUBSET LockRecords
  BY DEF SeenIn
<1>2. ASSUME lang = "rust" PROVE Reports(o, SeenIn(L, c))
  BY <1>1, <1>2, RustTyped DEF Refuses, ObserveAs
<1>3. ASSUME lang = "go" PROVE Reports(o, SeenIn(L, c))
  BY <1>1, <1>3, GoTyped DEF Refuses, ObserveAs
<1>4. Reports(o, SeenIn(L, c))
  BY <1>2, <1>3
<1> HIDE DEF o
<1>5. Observed(o)
  <2>1. \A h \in SeenIn(L, c) : h.key \in Seq(Tokens)
    BY <1>1 DEF LockRecords
  <2> QED BY <1>4, <2>1 DEF Observed, Reports
<1> QED BY <1>4, <1>5 DEF o

\* The locks that a command may leave are locks.
LEMMA LeavesLocks ==
  ASSUME NEW lang \in {"go", "rust"}, NEW d \in Held, NEW c, Placed(c)
  PROVE  MayLeave(lang, d, c) \subseteq LockRecords
<1> DEFINE own == {b[2] : b \in {b \in d.buffer : b[1] = c.session}}
<1>1. own \subseteq Seq(Tokens)
  BY DEF Held
<1>2. c.key \in Seq(Tokens) /\ c.primary \in Seq(Tokens) /\ c.keys \subseteq Seq(Tokens)
  BY DEF Placed
<1>3. CLIENT_TTL_MS[lang] \in Nat /\ ORPHAN_LOCK_TTL_MS \in Nat
  BY DEF CLIENT_TTL_MS, ORPHAN_LOCK_TTL_MS
<1>4. "Put" \in DOMAIN RustLockKind /\ "PessimisticLock" \in DOMAIN RustLockKind
  BY DEF RustLockKind
<1>5. ASSUME NEW k \in Seq(Tokens), NEW p \in Seq(Tokens), NEW kind \in DOMAIN RustLockKind, NEW ttl \in Nat
      PROVE  [key |-> k, primary |-> p, kind |-> kind, ttl |-> ttl] \in LockRecords
  BY DEF LockRecords
<1> HIDE DEF own
<1> DEFINE ttl == CLIENT_TTL_MS[lang]
<1> HIDE DEF ttl
<1>6. /\ {[key |-> k, primary |-> p, kind |-> "Put", ttl |-> ttl] : k \in own, p \in own} \subseteq LockRecords
      /\ {[key |-> k, primary |-> p, kind |-> "Put", ttl |-> ORPHAN_LOCK_TTL_MS] : k \in c.keys, p \in {c.primary}}
           \subseteq LockRecords
      /\ {[key |-> k, primary |-> p, kind |-> "PessimisticLock", ttl |-> ttl] : k \in {c.key}, p \in own \union {c.key}}
           \subseteq LockRecords
  BY <1>1, <1>2, <1>3, <1>4, <1>5 DEF ttl
<1> QED BY <1>6 DEF MayLeave, own, ttl

\* What is in an effect: locks of the run that go, and new ones that may be left.
LEMMA EffectParts ==
  ASSUME NEW L, NEW run, NEW lang, NEW d, NEW c, NEW m, NEW e \in EffectsOn(L, run, lang, d, c, m)
  PROVE  e.gone \subseteq OwnOf(L, run) /\ e.new \subseteq MayLeave(lang, d, c)
BY DEF EffectsOn

\* The locks after a step are locks.
LEMMA LocksTyped ==
  ASSUME NEW lang \in {"go", "rust"}, NEW d \in Held, NEW c, Placed(c), NEW L \in SUBSET LockRecords,
         NEW run, NEW m, NEW e \in EffectsOn(L, run, lang, d, c, m)
  PROVE  (L \ e.gone) \union e.new \in SUBSET LockRecords
BY EffectParts, LeavesLocks

\* A sequence over a set is one over a larger set.
LEMMA WiderSequences ==
  ASSUME NEW S, NEW T, S \subseteq T, NEW s \in Seq(S)
  PROVE  s \in Seq(T)
OBVIOUS

\* The state has its shape at first,
LEMMA ShapedInitially == Init => Shaped
<1> SUFFICES ASSUME Init PROVE Shaped
  OBVIOUS
<1>1. scenario \in Scenarios /\ Accepted(scenario) /\ turn = "oracle"
  BY DEF Init
<1>2. Fresh \in Held
  BY DEF Fresh, Held
<1>3. tables \in [scenario.roles -> Held]
  BY <1>2 DEF Init, NoTables
<1>4. obs = [run \in Runs |-> <<>>]
  BY DEF Init
<1>5. obs["oracle"] = <<>> /\ obs["subject"] = <<>>
  BY <1>4 DEF Runs
<1>6. obs \in [Runs -> {obs["oracle"], obs["subject"]}]
  BY <1>4, <1>5
<1>7. scenario.steps \in Seq(Commands)
  BY <1>1, ScenariosAssumption DEF IsScenario
<1>8. \A run \in Runs : /\ IsSeq(obs[run]) /\ Len(obs[run]) <= Len(scenario.steps)
                        /\ \A i \in DOMAIN obs[run] : Observed(obs[run][i])
  <2>1. IsSeq(<<>>) /\ Len(<<>>) = 0 /\ DOMAIN <<>> = {}
    BY OneToken DEF IsSeq
  <2>2. Len(scenario.steps) \in Nat
    BY <1>7
  <2> QED BY <1>5, <2>1, <2>2 DEF Runs
<1>9. IsSeq(met) /\ Len(met) = Len(obs["oracle"]) /\ IsSeq(kept) /\ Len(kept) = Len(obs["oracle"])
  BY <1>5, OneToken DEF Init, IsSeq
<1>10. locks \subseteq LockRecords
  <2>1. STRING \subseteq Tokens
    BY DEF Tokens
  <2>2. \A s \in Seq(STRING) : s \in Seq(Tokens)
    BY <2>1, WiderSequences
  <2>3. \A l \in Leftover : l \in LockRecords
    BY <2>2, LeftoverAssumption DEF LockRecords
  <2> QED BY <2>3 DEF Init
<1>11. apart = {} /\ strayed = {}
  BY DEF Init
<1> QED BY <1>1, <1>3, <1>5, <1>6, <1>8, <1>9, <1>10, <1>11 DEF Shaped, Runs

\* after a step of a run,
LEMMA ShapedAtStep == Shaped /\ Step => Shaped'
<1> SUFFICES ASSUME Shaped, Step PROVE Shaped'
  OBVIOUS
<1>1. /\ turn \in Runs /\ Len(obs[turn]) < Len(scenario.steps)
      /\ scenario' = scenario /\ turn' = turn
  BY StepShape
<1>2. PICK m, o, i, e : Moves(m, o, i, e)
  BY StepShape
<1> DEFINE c == CommandAt(turn, i)
           d == tables[scenario.steps[i].role]
           lang == Lang(turn, i)
<1>3. /\ IsSeq(obs[turn]) /\ Len(obs[turn]) \in Nat /\ i = Len(obs[turn]) + 1
  BY <1>1, <1>2, Growing DEF Shaped, Moves
<1>4. /\ i \in DOMAIN scenario.steps /\ Placed(c) /\ lang \in {"go", "rust"}
      /\ scenario.steps[i].role \in scenario.roles /\ d \in Held
  BY <1>1, <1>3, Underway DEF Shaped
<1>5. /\ IF Refuses(lang, d, c) THEN m = NotAsked ELSE m \in Meets(lang, c)
      /\ o = ObserveAs(lang, d, c, m, locks, turn)
      /\ tables' = [tables EXCEPT ![scenario.steps[i].role] = Tables(d, c, o.class = "ok")]
      /\ e \in EffectsOn(locks, turn, lang, d, c, m) /\ locks' = (locks \ e.gone) \union e.new
      /\ obs' = [obs EXCEPT ![turn] = Append(obs[turn], o)]
      /\ turn = "oracle" =>
           /\ met' = Append(met, m) /\ \E n : kept' = Append(kept, n)
           /\ apart' = apart /\ strayed' = strayed
      /\ turn = "subject" =>
           /\ met' = met /\ kept' = kept /\ apart' \subseteq apart \union {i} /\ strayed' \subseteq strayed \union {i}
  BY <1>2 DEF Moves
<1> HIDE DEF c, d, lang
<1>6. Observed(o)
  BY <1>4, <1>5, ObserveTyped DEF Shaped
<1>7. tables' \in [scenario.roles -> Held]
  <2>1. Tables(d, c, o.class = "ok") \in Held
    BY <1>4, TablesTyped
  <2> QED BY <1>4, <1>5, <2>1 DEF Shaped
<1>8. locks' \subseteq LockRecords
  BY <1>4, <1>5, LocksTyped DEF Shaped
<1>9. /\ obs' \in [Runs -> {obs'["oracle"], obs'["subject"]}]
      /\ obs'[turn] = Append(obs[turn], o)
      /\ \A run \in Runs \ {turn} : obs'[run] = obs[run]
  BY <1>1, <1>5 DEF Shaped, Runs
<1>10. \A run \in Runs : /\ IsSeq(obs'[run]) /\ Len(obs'[run]) <= Len(scenario.steps)
                         /\ \A j \in DOMAIN obs'[run] : Observed(obs'[run][j])
  <2>1. ASSUME NEW run \in Runs \ {turn}
        PROVE  /\ IsSeq(obs'[run]) /\ Len(obs'[run]) <= Len(scenario.steps)
               /\ \A j \in DOMAIN obs'[run] : Observed(obs'[run][j])
    BY <1>9 DEF Shaped
  <2>2. /\ IsSeq(Append(obs[turn], o)) /\ Len(Append(obs[turn], o)) = i
        /\ DOMAIN Append(obs[turn], o) = 1 .. i
        /\ \A j \in 1 .. Len(obs[turn]) : Append(obs[turn], o)[j] = obs[turn][j]
        /\ Append(obs[turn], o)[i] = o
        /\ DOMAIN obs[turn] = 1 .. Len(obs[turn])
    BY <1>3, Growing
  <2>3. \A j \in 1 .. i : Observed(Append(obs[turn], o)[j])
    BY <1>1, <1>3, <1>6, <2>2 DEF Shaped
  <2>4. scenario.steps \in Seq(Commands)
    BY ScenariosAssumption DEF IsScenario, Shaped
  <2>5. i <= Len(scenario.steps)
    BY <1>4, <2>4
  <2> QED BY <1>9, <2>1, <2>2, <2>3, <2>5
<1>11. IsSeq(met') /\ Len(met') = Len(obs'["oracle"]) /\ IsSeq(kept') /\ Len(kept') = Len(obs'["oracle"])
  <2>1. CASE turn = "oracle"
    <3>1. PICK n : met' = Append(met, m) /\ kept' = Append(kept, n)
      BY <1>5, <2>1
    <3>2. /\ Len(Append(met, m)) = Len(met) + 1 /\ IsSeq(Append(met, m))
          /\ Len(Append(kept, n)) = Len(kept) + 1 /\ IsSeq(Append(kept, n))
      BY Growing DEF Shaped
    <3>3. Len(Append(obs[turn], o)) = Len(obs[turn]) + 1
      BY <1>3, Growing
    <3> QED BY <1>9, <2>1, <3>1, <3>2, <3>3 DEF Shaped
  <2>2. CASE turn = "subject"
    <3>1. met' = met /\ kept' = kept
      BY <1>5, <2>2
    <3> QED BY <1>9, <2>2, <3>1 DEF Shaped, Runs
  <2> QED BY <1>1, <2>1, <2>2 DEF Runs
<1>12. apart' \subseteq DOMAIN obs'["subject"] /\ strayed' \subseteq DOMAIN obs'["subject"]
  <2>1. CASE turn = "oracle"
    <3>1. apart' = apart /\ strayed' = strayed
      BY <1>5, <2>1
    <3> QED BY <1>9, <2>1, <3>1 DEF Shaped, Runs
  <2>2. CASE turn = "subject"
    <3>1. apart' \subseteq apart \union {i} /\ strayed' \subseteq strayed \union {i}
      BY <1>5, <2>2
    <3>2. DOMAIN Append(obs[turn], o) = 1 .. i /\ DOMAIN obs[turn] = 1 .. Len(obs[turn])
      BY <1>3, Growing
    <3> QED BY <1>3, <1>9, <2>2, <3>1, <3>2 DEF Shaped
  <2> QED BY <1>1, <2>1, <2>2 DEF Runs
<1>13. turn = "oracle" => obs'["subject"] = <<>> /\ apart' = {} /\ strayed' = {}
  <2> SUFFICES ASSUME turn = "oracle" PROVE obs'["subject"] = <<>> /\ apart' = {} /\ strayed' = {}
    OBVIOUS
  <2>1. apart' = apart /\ strayed' = strayed
    BY <1>5
  <2> QED BY <1>9, <2>1 DEF Shaped, Runs
<1>14. turn = "subject" => obs'["oracle"] = obs["oracle"]
  BY <1>9 DEF Runs
<1>15. /\ turn' = "subject" => Trusted(obs'["oracle"]) /\ Len(obs'["oracle"]) = Len(scenario'.steps)
       /\ turn' # "compared"
  BY <1>1, <1>14 DEF Shaped, Runs
<1> QED BY <1>1, <1>7, <1>8, <1>9, <1>10, <1>11, <1>12, <1>13, <1>15 DEF Shaped

\* and after everything else that happens.
LEMMA ShapedInvariant == Shaped /\ [Next]_vars => Shaped'
<1> SUFFICES ASSUME Shaped, [Next]_vars PROVE Shaped'
  OBVIOUS
<1>1. CASE Step
  BY <1>1, ShapedAtStep
<1>2. CASE NextRun
  <2>1. Fresh \in Held
    BY DEF Fresh, Held
  <2>2. tables' \in [scenario.roles -> Held]
    BY <1>2, <2>1 DEF NextRun, NoTables
  <2> QED BY <1>2, <2>2 DEF NextRun, Shaped, Runs
<1>3. CASE Compare
  BY <1>3 DEF Compare, Shaped, Runs
<1>4. CASE Refuse
  BY <1>4 DEF Refuse, Shaped, Runs
<1>5. CASE UNCHANGED vars
  BY <1>5 DEF vars, Shaped
<1> QED BY <1>1, <1>2, <1>3, <1>4, <1>5 DEF Next

\* The shapes of the state, among them that the oracle's clients are known for
\* each step of its trace, and that differences are of steps that both runs took,
\* for any scenarios, failures and locks.
THEOREM TypeCorrect == Spec => []TypeOK
<1>1. Shaped => TypeOK
  BY DEF Shaped, TypeOK, Observed
<1> QED BY <1>1, ShapedInitially, ShapedInvariant, PTL DEF Spec

\* A comparison that was made is between client-go and client-rust: at some step
\* the oracle is client-go and the subject client-rust, and never the reverse.
THEOREM ComparesTheClients == Spec => []ContrastIsReal
<1>1. Shaped => ContrastIsReal
  <2> SUFFICES ASSUME Shaped,
                      NEW P, P = {<<scenario.bind["oracle"][scenario.steps[i].role],
                                    scenario.bind["subject"][scenario.steps[i].role]>> : i \in DOMAIN scenario.steps}
               PROVE  <<"go", "rust">> \in P /\ <<"rust", "go">> \notin P
    BY DEF ContrastIsReal
  <2>1. scenario.compare[1] = "oracle" /\ scenario.compare[2] = "subject"
    BY ScenariosAssumption DEF Shaped
  <2>2. /\ \E r \in Active(scenario) : scenario.bind["oracle"][r] # scenario.bind["subject"][r]
        /\ \A r \in Active(scenario) :
             scenario.bind["oracle"][r] # scenario.bind["subject"][r]
               => scenario.bind["oracle"][r] = "go" /\ scenario.bind["subject"][r] = "rust"
    BY <2>1 DEF Shaped, Accepted, Contrasts, FromGoToRust
  <2>3. PICK i \in DOMAIN scenario.steps :
          scenario.bind["oracle"][scenario.steps[i].role] # scenario.bind["subject"][scenario.steps[i].role]
    BY <2>2 DEF Active
  <2>4. <<scenario.bind["oracle"][scenario.steps[i].role],
          scenario.bind["subject"][scenario.steps[i].role]>> = <<"go", "rust">>
    BY <2>2, <2>3 DEF Active
  <2>5. <<"rust", "go">> \notin P
    <3> SUFFICES ASSUME NEW j \in DOMAIN scenario.steps,
                        scenario.bind["oracle"][scenario.steps[j].role] = "rust",
                        scenario.bind["subject"][scenario.steps[j].role] = "go"
                 PROVE  FALSE
      OBVIOUS
    <3> QED BY <2>2 DEF Active
  <2> QED BY <2>4, <2>5
<1> QED BY <1>1, ShapedInitially, ShapedInvariant, PTL DEF Spec

-----------------------------------------------------------------------------
(* Different facts are told apart                                            *)

\* The fields of failures, whichever driver told them.
FailsAs(lang, c, m, o) ==
  /\ o.value = <<None>> /\ o.locks = {} /\ o.commit_ts = New("ok").commit_ts
  /\ AllOne(m) => /\ o.class = RustClass[m[1]] /\ o.detail = RustDetail(c, m[1])
                  /\ o.proto = IF lang = "go" THEN GoProto(m[1]) ELSE RustProto(m[1])
  /\ ~AllOne(m) => o.class = "mixed" /\ o.parts = ClassesOf(m) /\ o.proto = None /\ o.detail = None

\* Failures have these.
LEMMA FailureShown ==
  ASSUME NEW lang, NEW c, NEW m \in Seq(RustFacts), m # <<>>, NEW o, FailureOf(lang, c, m, o)
  PROVE  FailsAs(lang, c, m, o)
<1>1. CASE lang = "rust" /\ o = RustClassify(c, m)
  <2> HIDE DEF RustClassify
  <2> QED BY <1>1, FailureFields DEF FailsAs
<1>2. CASE lang = "go" /\ Len(m) = 1 /\ o = GoClassify(m) /\ GoClass(m[1]) \notin InadmissibleClasses
  <2>1. m[1] \in RustFacts /\ AllOne(m)
    BY <1>2 DEF AllOne
  <2>2. GoClass(m[1]) = RustClass[m[1]] /\ RustDetail(c, m[1]) = None
    BY <1>2, <2>1, TablesAgree DEF RustDetail
  <2> DEFINE class == GoClass(m[1])
             proto == GoProto(m[1])
  <2>3. o = [New(class) EXCEPT !.proto = proto]
    BY <1>2 DEF GoClassify
  <2> HIDE DEF class, proto
  <2>4. o.class = class /\ o.value = <<None>> /\ o.locks = {} /\ o.commit_ts = New("ok").commit_ts
    BY <2>3 DEF New
  <2>5. o.detail = None /\ o.proto = proto
    BY <2>3 DEF New
  <2> QED BY <1>2, <2>1, <2>2, <2>4, <2>5 DEF class, proto, FailsAs
<1> QED BY <1>1, <1>2 DEF FailureOf

\* Of these, the class and the parts.
LEMMA FailureTold ==
  ASSUME NEW lang, NEW c, NEW m \in Seq(RustFacts), m # <<>>, NEW o, FailureOf(lang, c, m, o)
  PROVE  /\ AllOne(m) => o.class = RustClass[m[1]]
         /\ ~AllOne(m) => o.class = "mixed" /\ o.parts = ClassesOf(m)
<1>1. FailsAs(lang, c, m, o)
  BY FailureShown
<1> QED BY <1>1 DEF FailsAs

\* Two sets of failures whose classes agree, each as often, are the same failures.
LEMMA PartsTellFacts ==
  ASSUME NEW m \in Seq(RustFacts), NEW g \in Seq(RustFacts),
         Unordered(ClassesOf(m)) = Unordered(ClassesOf(g))
  PROVE  Unordered(m) = Unordered(g)
<1> DEFINE Places(s, f) == {i \in DOMAIN s : s[i] = f}
           Tags(s) == {s[i] : i \in DOMAIN s}
<1>0. \A s \in {m, g, ClassesOf(m), ClassesOf(g)} : Unordered(s) = [f \in Tags(s) |-> Cardinality(Places(s, f))]
  BY DEF Unordered
<1>1. \A f \in RustFacts, h \in RustFacts : RustClass[f] = RustClass[h] => f = h
  BY ClassPerFact
<1>2. \A s \in {m, g} : \A i \in DOMAIN s : s[i] \in RustFacts
  OBVIOUS
<1>3. ASSUME NEW s \in {m, g}, NEW f \in RustFacts
      PROVE  /\ Places(ClassesOf(s), RustClass[f]) = Places(s, f)
             /\ f \in Tags(s) <=> RustClass[f] \in Tags(ClassesOf(s))
  <2>1. DOMAIN ClassesOf(s) = DOMAIN s /\ \A i \in DOMAIN s : ClassesOf(s)[i] = RustClass[s[i]]
    BY DEF ClassesOf
  <2> QED BY <1>1, <1>2, <2>1
<1>4. Tags(m) = Tags(g)
  <2>1. Tags(ClassesOf(m)) = Tags(ClassesOf(g))
    BY <1>0
  <2>2. Tags(m) \subseteq RustFacts /\ Tags(g) \subseteq RustFacts
    BY <1>2
  <2>3. \A f \in RustFacts : f \in Tags(m) <=> f \in Tags(g)
    BY <1>3, <2>1
  <2> QED BY <2>2, <2>3
<1>5. ASSUME NEW f \in Tags(m) PROVE Cardinality(Places(m, f)) = Cardinality(Places(g, f))
  <2>1. f \in RustFacts /\ RustClass[f] \in Tags(ClassesOf(m)) /\ RustClass[f] \in Tags(ClassesOf(g))
    <3>1. f \in RustFacts
      BY <1>2
    <3> QED BY <1>3, <1>4, <3>1
  <2>2. Cardinality(Places(ClassesOf(m), RustClass[f])) = Cardinality(Places(ClassesOf(g), RustClass[f]))
    <3> HIDE DEF Tags, Places
    <3>1. /\ Unordered(ClassesOf(m))[RustClass[f]] = Cardinality(Places(ClassesOf(m), RustClass[f]))
          /\ Unordered(ClassesOf(g))[RustClass[f]] = Cardinality(Places(ClassesOf(g), RustClass[f]))
      BY <1>0, <2>1
    <3> QED BY <3>1
  <2> QED BY <1>3, <2>1, <2>2
<1> HIDE DEF Tags, Places
<1> QED BY <1>0, <1>4, <1>5

\* Two projections that differ at a path.
LEMMA ApartAt ==
  ASSUME NEW a, NEW p, NEW b, NEW q
  PROVE  /\ a.class # b.class => "class" \in Differ(a, p, b, q)
         /\ Redact(a.value, p) # Redact(b.value, q) => "value" \in Differ(a, p, b, q)
         /\ a.commit_ts # b.commit_ts => "commit_ts" \in Differ(a, p, b, q)
         /\ a.class = "mixed" /\ b.class = "mixed" /\ Unordered(a.parts) # Unordered(b.parts)
              => "class.parts" \in Differ(a, p, b, q)
<1>1. ASSUME a.class # b.class PROVE "class" \in Differ(a, p, b, q)
  <2> DEFINE v == a.class
             w == b.class
  <2>1. <<"class", v>> \in Project(a, p) /\ \A x \in Project(b, q) : x[1] = "class" => x = <<"class", w>>
    BY Projected
  <2>2. v # w
    BY <1>1
  <2> HIDE DEF v, w
  <2> QED BY <2>1, <2>2, DifferAt
<1>2. ASSUME Redact(a.value, p) # Redact(b.value, q) PROVE "value" \in Differ(a, p, b, q)
  <2> DEFINE v == Redact(a.value, p)
             w == Redact(b.value, q)
  <2>1. <<"value", v>> \in Project(a, p) /\ \A x \in Project(b, q) : x[1] = "value" => x = <<"value", w>>
    BY Projected
  <2>2. v # w
    BY <1>2
  <2> HIDE DEF v, w
  <2> QED BY <2>1, <2>2, DifferAt
<1>3. ASSUME a.commit_ts # b.commit_ts PROVE "commit_ts" \in Differ(a, p, b, q)
  <2> DEFINE v == a.commit_ts
             w == b.commit_ts
  <2>1. <<"commit_ts", v>> \in Project(a, p) /\ \A x \in Project(b, q) : x[1] = "commit_ts" => x = <<"commit_ts", w>>
    BY Projected
  <2>2. v # w
    BY <1>3
  <2> HIDE DEF v, w
  <2> QED BY <2>1, <2>2, DifferAt
<1>4. ASSUME a.class = "mixed", b.class = "mixed", Unordered(a.parts) # Unordered(b.parts)
      PROVE  "class.parts" \in Differ(a, p, b, q)
  <2> DEFINE v == Unordered(a.parts)
             w == Unordered(b.parts)
  <2>1. /\ <<"class.parts", v>> \in Project(a, p)
        /\ \A x \in Project(b, q) : x[1] = "class.parts" => x = <<"class.parts", w>>
    BY <1>4, Projected
  <2>2. v # w
    BY <1>4
  <2> HIDE DEF v, w
  <2> QED BY <2>1, <2>2, DifferAt
<1> QED BY <1>1, <1>2, <1>3, <1>4

\* Facts that are not the same are told apart by some path of the report.
LEMMA FailuresApart ==
  ASSUME NEW lang, NEW c, NEW m \in Seq(RustFacts), m # <<>>, NEW a, FailureOf(lang, c, m, a),
         NEW tongue, NEW f, NEW g \in Seq(RustFacts), g # <<>>, NEW b, FailureOf(tongue, f, g, b),
         ~Same(g, m), NEW p, NEW q
  PROVE  "class" \in Differ(a, p, b, q) \/ "class.parts" \in Differ(a, p, b, q)
<1>0. /\ AllOne(m) => a.class = RustClass[m[1]]
      /\ ~AllOne(m) => a.class = "mixed" /\ a.parts = ClassesOf(m)
      /\ AllOne(g) => b.class = RustClass[g[1]]
      /\ ~AllOne(g) => b.class = "mixed" /\ b.parts = ClassesOf(g)
  <2>1. /\ AllOne(m) => a.class = RustClass[m[1]]
        /\ ~AllOne(m) => a.class = "mixed" /\ a.parts = ClassesOf(m)
    BY FailureTold
  <2>2. /\ AllOne(g) => b.class = RustClass[g[1]]
        /\ ~AllOne(g) => b.class = "mixed" /\ b.parts = ClassesOf(g)
    BY FailureTold
  <2> QED BY <2>1, <2>2
<1>1. 1 \in DOMAIN m /\ 1 \in DOMAIN g /\ m[1] \in RustFacts /\ g[1] \in RustFacts
  OBVIOUS
<1>2. ASSUME a.class # b.class PROVE "class" \in Differ(a, p, b, q)
  BY <1>2, ApartAt
<1>3. CASE AllOne(m) /\ AllOne(g)
  <2>1. m[1] # g[1]
    BY <1>1, <1>3 DEF AllOne, Same
  <2> QED BY <1>0, <1>1, <1>2, <1>3, <2>1, ClassPerFact
<1>4. CASE ~(AllOne(m) <=> AllOne(g))
  BY <1>0, <1>1, <1>2, <1>4, ClassPerFact
<1>5. CASE ~AllOne(m) /\ ~AllOne(g)
  <2>1. Unordered(a.parts) # Unordered(b.parts)
    BY <1>0, <1>5, PartsTellFacts DEF Same
  <2>2. a.class = "mixed" /\ b.class = "mixed"
    BY <1>0, <1>5
  <2> QED BY <2>1, <2>2, ApartAt
<1> QED BY <1>3, <1>4, <1>5

\* What a get is answered.
LEMMA AnswersOfAGet ==
  ASSUME NEW o, NEW v, NEW f,
         \/ f = "absent" /\ o = New("not_found")
         \/ f = "value" /\ o = [New("ok") EXCEPT !.value = <<"v">>]
         \/ f = "pointer" /\ o = [New("ok") EXCEPT !.value = <<v, "v">>]
  PROVE  /\ f = "absent" => o.class = "not_found"
         /\ f = "value" => o.class = "ok" /\ o.value = <<"v">>
         /\ f = "pointer" => o.class = "ok" /\ o.value = <<v, "v">>
<1>1. CASE f = "absent" /\ o = New("not_found")
  BY <1>1, NewFields
<1>2. CASE f = "value" /\ o = [New("ok") EXCEPT !.value = <<"v">>]
  <2> DEFINE w == <<"v">>
  <2>1. o = [New("ok") EXCEPT !.value = w]
    BY <1>2
  <2> HIDE DEF w
  <2>2. o.class = "ok" /\ o.value = w
    BY <2>1, WithValue
  <2> QED BY <1>2, <2>2 DEF w
<1>3. CASE f = "pointer" /\ o = [New("ok") EXCEPT !.value = <<v, "v">>]
  <2> DEFINE w == <<v, "v">>
  <2>1. o = [New("ok") EXCEPT !.value = w]
    BY <1>3
  <2> HIDE DEF w
  <2>2. o.class = "ok" /\ o.value = w
    BY <2>1, WithValue
  <2> QED BY <1>3, <2>2 DEF w
<1> QED BY <1>1, <1>2, <1>3

\* Different answers to one command are told apart.
LEMMA AnswersApart ==
  ASSUME NEW c, NEW e, c.op = e.op, NEW f \in Successes(c), NEW g \in Successes(c), f # g,
         NEW seen, NEW found, NEW p, NEW q, NEW a, NEW b,
         a = Answer(c, <<f>>, seen, p), b = Answer(e, <<g>>, found, q)
  PROVE  \E path \in {"class", "value", "commit_ts"} : path \in Differ(a, p, b, q)
<1>0. Successes(c) = Successes(e)
  BY DEF Successes
<1>1. CASE c.op = "commit"
  <2>1. /\ f \in {"ok", "readonly"} /\ a = [New("ok") EXCEPT !.commit_ts = (f = "ok")]
        /\ g \in {"ok", "readonly"} /\ b = [New("ok") EXCEPT !.commit_ts = (g = "ok")]
    BY <1>0, <1>1, Answers1
  <2>2. a.commit_ts = (f = "ok") /\ b.commit_ts = (g = "ok")
    <3>1. (f = "ok") \in BOOLEAN /\ (g = "ok") \in BOOLEAN
      OBVIOUS
    <3> DEFINE x == (f = "ok")
               y == (g = "ok")
    <3>2. x \in BOOLEAN /\ y \in BOOLEAN /\ a = [New("ok") EXCEPT !.commit_ts = x] /\ b = [New("ok") EXCEPT !.commit_ts = y]
      BY <2>1, <3>1
    <3> HIDE DEF x, y
    <3>3. a.commit_ts = x /\ b.commit_ts = y
      <4>1. \A z \in BOOLEAN : [New("ok") EXCEPT !.commit_ts = z].commit_ts = z
        BY WithCommitTs
      <4> QED BY <3>2, <4>1
    <3> QED BY <3>3 DEF x, y
  <2>3. a.commit_ts # b.commit_ts
    BY <2>1, <2>2
  <2> QED BY <2>3, ApartAt
<1>2. CASE c.op \in {"get", "snapshot_get"}
  <2>1. /\ \/ f = "absent" /\ a = New("not_found")
           \/ f = "value" /\ a = [New("ok") EXCEPT !.value = <<"v">>]
           \/ f = "pointer" /\ a = [New("ok") EXCEPT !.value = <<p, "v">>]
        /\ \/ g = "absent" /\ b = New("not_found")
           \/ g = "value" /\ b = [New("ok") EXCEPT !.value = <<"v">>]
           \/ g = "pointer" /\ b = [New("ok") EXCEPT !.value = <<q, "v">>]
    BY <1>0, <1>2, Answers1
  <2>2. /\ f = "absent" => a.class = "not_found"
        /\ f = "value" => a.class = "ok" /\ a.value = <<"v">>
        /\ f = "pointer" => a.class = "ok" /\ a.value = <<p, "v">>
    BY <2>1, AnswersOfAGet
  <2>3. /\ g = "absent" => b.class = "not_found"
        /\ g = "value" => b.class = "ok" /\ b.value = <<"v">>
        /\ g = "pointer" => b.class = "ok" /\ b.value = <<q, "v">>
    BY <2>1, AnswersOfAGet
  <2>4. CASE a.class # b.class
    BY <2>4, ApartAt
  <2>5. CASE a.class = b.class
    <3>1. \/ a.value = <<"v">> /\ b.value = <<q, "v">>
          \/ a.value = <<p, "v">> /\ b.value = <<"v">>
      BY <2>1, <2>2, <2>3, <2>5
    <3>2. \A r, t : DOMAIN Redact(<<"v">>, r) # DOMAIN Redact(<<t, "v">>, t)
      BY DEF Redact
    <3>3. Redact(a.value, p) # Redact(b.value, q)
      BY <3>1, <3>2
    <3> QED BY <3>3, ApartAt
  <2> QED BY <2>4, <2>5
<1>3. CASE c.op \notin {"commit", "get", "snapshot_get"}
  BY <1>0, <1>3 DEF Successes
<1> QED BY <1>1, <1>2, <1>3

\* An answer and a failure have different classes.
LEMMA AnswersAreNoFailures ==
  ASSUME NEW c, NEW seen, NEW p, NEW a, NEW f \in Successes(c), a = Answer(c, <<f>>, seen, p),
         NEW tongue, NEW e, NEW g \in Seq(RustFacts), g # <<>>, NEW b, FailureOf(tongue, e, g, b)
  PROVE  a.class # b.class
<1>1. a.class \in {"ok", "not_found"}
  BY AnswerTyped
<1>2. b.class \notin {"ok", "not_found"}
  <2>1. g[1] \in RustFacts
    OBVIOUS
  <2> QED BY <2>1, FailureTold, ClassPerFact
<1> QED BY <1>1, <1>2

\* Whatever two clients met at one step, if it was not the same then the report has
\* it, provided that both observations are evidence.
LEMMA ToldApart ==
  ASSUME NEW c, NEW e, c.op = e.op, NEW lang, NEW tongue, NEW m, NEW g, ~Same(g, m), NEW seen, NEW found, NEW p, NEW q,
         NEW a, Told(lang, c, m, seen, p, a), NEW b, Told(tongue, e, g, found, q, b)
  PROVE  \E path \in Paths : path \in Differ(a, p, b, q)
<1>0. Successes(c) = Successes(e)
  BY DEF Successes
<1>1. CASE /\ \E f \in Successes(c) : m = <<f>>
           /\ a = Answer(c, m, seen, p)
           /\ \E f \in Successes(e) : g = <<f>>
           /\ b = Answer(e, g, found, q)
  <2>1. PICK f \in Successes(c) : m = <<f>>
    BY <1>1
  <2>2. PICK h \in Successes(c) : g = <<h>>
    BY <1>0, <1>1
  <2>3. f # h
    BY <2>1, <2>2 DEF Same
  <2>4. \E path \in {"class", "value", "commit_ts"} : path \in Differ(a, p, b, q)
    <3>1. a = Answer(c, <<f>>, seen, p) /\ b = Answer(e, <<h>>, found, q)
      BY <1>1, <2>1, <2>2
    <3> QED BY <2>3, <3>1, AnswersApart
  <2> QED BY <2>4 DEF Paths
<1>2. CASE /\ \E f \in Successes(c) : m = <<f>>
           /\ a = Answer(c, m, seen, p)
           /\ g \in Seq(RustFacts) /\ g # <<>> /\ FailureOf(tongue, e, g, b)
  <2>1. a.class # b.class
    BY <1>2, AnswersAreNoFailures
  <2> QED BY <2>1, ApartAt DEF Paths
<1>3. CASE /\ m \in Seq(RustFacts) /\ m # <<>> /\ FailureOf(lang, c, m, a)
           /\ \E f \in Successes(e) : g = <<f>>
           /\ b = Answer(e, g, found, q)
  <2>1. a.class # b.class
    BY <1>3, AnswersAreNoFailures
  <2> QED BY <2>1, ApartAt DEF Paths
<1>4. CASE /\ m \in Seq(RustFacts) /\ m # <<>> /\ FailureOf(lang, c, m, a)
           /\ g \in Seq(RustFacts) /\ g # <<>> /\ FailureOf(tongue, e, g, b)
  BY <1>4, FailuresApart DEF Paths
<1> QED BY <1>1, <1>2, <1>3, <1>4 DEF Told

\* A driver's observation that is evidence tells of what its client met.
LEMMA ObservationTells ==
  ASSUME NEW lang \in {"go", "rust"}, NEW d, NEW c, NEW m, NEW L, NEW run,
         IF Refuses(lang, d, c) THEN m = NotAsked ELSE m \in Meets(lang, c),
         Admissible(ObserveAs(lang, d, c, m, L, run))
  PROVE  /\ ~Refuses(lang, d, c)
         /\ \E table : /\ table = IF lang = "rust" THEN RustLockKind ELSE GoLockKind
                       /\ Told(lang, c, m, LockObs(table, SeenIn(L, c)), run, ObserveAs(lang, d, c, m, L, run))
<1> DEFINE o == ObserveAs(lang, d, c, m, L, run)
<1>1. o.class # "driver_error"
  BY DEF Admissible, InadmissibleClasses
<1>2. ~Refuses(lang, d, c)
  BY <1>1, NewFields DEF ObserveAs, Refuses, RustObserve, GoObserve
<1>3. m \in Meets(lang, c)
  BY <1>2
<1>4. CASE lang = "rust"
  <2>1. o = RustObserve(d, c, m, SeenIn(L, c), run)
    BY <1>4 DEF ObserveAs
  <2> QED BY <1>1, <1>2, <1>3, <1>4, <2>1, RustTells
<1>5. CASE lang = "go"
  <2>1. o = GoObserve(d, c, m, SeenIn(L, c), run)
    BY <1>5 DEF ObserveAs
  <2> QED BY <1>2, <1>3, <1>5, <2>1, GoTells
<1> QED BY <1>4, <1>5

\* What the runs' observations tell of, so far.
Heard ==
  /\ \A i \in DOMAIN obs["oracle"] : Admissible(obs["oracle"][i]) =>
       \E lang, seen : Told(lang, CommandAt("oracle", i), met[i], seen, "oracle", obs["oracle"][i])
  /\ \A i \in apart : Admissible(obs["subject"][i]) =>
       \E m, lang, seen : ~Same(m, met[i]) /\ Told(lang, CommandAt("subject", i), m, seen, "subject", obs["subject"][i])

\* That the observations tell of what was met is kept: a step adds an observation that does.
LEMMA HeardInvariant == Shaped /\ Heard /\ [Next]_vars => Heard'
<1> SUFFICES ASSUME Shaped, Heard, [Next]_vars PROVE Heard'
  OBVIOUS
<1>1. CASE Step
  <2>1. /\ turn \in Runs /\ Len(obs[turn]) < Len(scenario.steps)
        /\ scenario' = scenario /\ turn' = turn
    BY <1>1, StepShape
  <2>2. PICK m, o, i, e : Moves(m, o, i, e)
    BY <1>1, StepShape
  <2> DEFINE c == CommandAt(turn, i)
             d == tables[scenario.steps[i].role]
             lang == Lang(turn, i)
  <2>3. /\ IsSeq(obs[turn]) /\ Len(obs[turn]) \in Nat /\ i = Len(obs[turn]) + 1
    BY <2>1, <2>2, Growing DEF Shaped, Moves
  <2>4. lang \in {"go", "rust"}
    BY <2>1, <2>3, Underway DEF Shaped
  <2>5. /\ IF Refuses(lang, d, c) THEN m = NotAsked ELSE m \in Meets(lang, c)
        /\ o = ObserveAs(lang, d, c, m, locks, turn)
        /\ obs' = [obs EXCEPT ![turn] = Append(obs[turn], o)]
        /\ turn = "oracle" => met' = Append(met, m) /\ apart' = apart
        /\ turn = "subject" =>
             /\ met' = met
             /\ apart' = IF m = NotAsked \/ Same(m, met[i]) THEN apart ELSE apart \union {i}
    BY <2>2 DEF Moves
  <2>6. Admissible(o) => \E tongue, seen : Told(tongue, c, m, seen, turn, o)
    <3> HIDE DEF c, d, lang
    <3> QED BY <2>4, <2>5, ObservationTells
  <2>7. /\ obs'[turn] = Append(obs[turn], o)
        /\ \A run \in Runs \ {turn} : obs'[run] = obs[run]
        /\ DOMAIN obs[turn] = 1 .. i - 1 /\ DOMAIN obs'[turn] = 1 .. i
        /\ \A j \in 1 .. i - 1 : obs'[turn][j] = obs[turn][j]
        /\ obs'[turn][i] = o
    <3>1. obs'[turn] = Append(obs[turn], o) /\ \A run \in Runs \ {turn} : obs'[run] = obs[run]
      BY <2>1, <2>5 DEF Shaped, Runs
    <3> QED BY <2>3, <3>1, Growing
  <2>8. \A run, j : CommandAt(run, j)' = CommandAt(run, j)
    BY <2>1 DEF CommandAt, Prefix
  <2> HIDE DEF c, d, lang
  <2>9. CASE turn = "oracle"
    <3>1. /\ met' = Append(met, m) /\ apart' = {} /\ Len(met) = i - 1
      <4>1. met' = Append(met, m) /\ apart' = apart
        BY <2>5, <2>9
      <4>2. apart = {} /\ Len(met) = Len(obs["oracle"])
        BY <2>9 DEF Shaped
      <4> QED BY <2>3, <2>9, <4>1, <4>2
    <3>2. /\ \A j \in 1 .. i - 1 : met'[j] = met[j]
          /\ met'[i] = m
      BY <2>3, <3>1, Growing DEF Shaped
    <3>3. ASSUME NEW j \in 1 .. i, Admissible(obs'["oracle"][j])
          PROVE  \E tongue, seen : Told(tongue, CommandAt("oracle", j), met'[j], seen, "oracle", obs'["oracle"][j])
      <4>1. CASE j = i
        BY <2>6, <2>7, <2>9, <3>2, <3>3, <4>1 DEF c
      <4>2. CASE j \in 1 .. i - 1
        BY <2>7, <2>9, <3>2, <3>3, <4>2 DEF Heard
      <4> QED BY <2>3, <4>1, <4>2
    <3> QED BY <2>7, <2>8, <2>9, <3>1, <3>3 DEF Heard
  <2>10. CASE turn = "subject"
    <3>1. /\ met' = met /\ obs'["oracle"] = obs["oracle"]
          /\ apart' \subseteq apart \union {i}
          /\ i \in apart' => i \in apart \/ ~Same(m, met[i])
      BY <2>5, <2>7, <2>10 DEF Runs
    <3>2. apart \subseteq 1 .. i - 1
      BY <2>7, <2>10 DEF Shaped
    <3>3. ASSUME NEW j \in apart', Admissible(obs'["subject"][j])
          PROVE  \E n, tongue, seen : /\ ~Same(n, met[j])
                                      /\ Told(tongue, CommandAt("subject", j), n, seen, "subject", obs'["subject"][j])
      <4>1. CASE j = i
        <5>1. ~Same(m, met[i])
          BY <2>3, <3>1, <3>2, <3>3, <4>1
        <5> QED BY <2>6, <2>7, <2>10, <3>3, <4>1, <5>1 DEF c
      <4>2. CASE j \in apart
        BY <2>7, <2>10, <3>2, <3>3, <4>2 DEF Heard
      <4> QED BY <3>1, <3>3, <4>1, <4>2
    <3> QED BY <2>8, <3>1, <3>3 DEF Heard
  <2> QED BY <2>1, <2>9, <2>10 DEF Runs
<1>2. CASE NextRun \/ Compare \/ Refuse \/ UNCHANGED vars
  BY <1>2 DEF NextRun, Compare, Refuse, vars, Heard, CommandAt, Prefix
<1> QED BY <1>1, <1>2 DEF Next

\* Whatever one client met and the other did not, a failure, an answer or a set of
\* errors, is in the report, at its step: no driver and no projection smooths it
\* over, for any scenarios, any failures and any sets of errors.
THEOREM FactsAreTold == Spec => []NoFactSmoothedOver
<1>1. Init => Heard
  BY DEF Init, Heard, Runs
<1>2. Shaped /\ Heard => NoFactSmoothedOver
  <2> SUFFICES ASSUME Shaped, Heard, turn = "compared", NEW i \in apart
               PROVE  \E x \in Divergences : x[1] = i
    BY DEF NoFactSmoothedOver
  <2>1. i \in DOMAIN obs["subject"] /\ DOMAIN obs["subject"] = DOMAIN obs["oracle"]
    <3>1. /\ DOMAIN obs["subject"] = 1 .. Len(obs["subject"])
          /\ DOMAIN obs["oracle"] = 1 .. Len(obs["oracle"])
      BY Growing DEF Shaped, Runs
    <3> QED BY <3>1 DEF Shaped
  <2>2. Admissible(obs["oracle"][i]) /\ Admissible(obs["subject"][i])
    BY <2>1 DEF Shaped, Trusted
  <2>3. PICK lang, seen : Told(lang, CommandAt("oracle", i), met[i], seen, "oracle", obs["oracle"][i])
    BY <2>1, <2>2 DEF Heard
  <2>4. PICK m, tongue, found : ~Same(m, met[i]) /\ Told(tongue, CommandAt("subject", i), m, found, "subject", obs["subject"][i])
    BY <2>2 DEF Heard
  <2>5. CommandAt("oracle", i).op = CommandAt("subject", i).op
    <3>1. scenario.steps \in Seq(Commands) /\ Len(scenario.steps) = Len(obs["oracle"])
      BY ScenariosAssumption DEF Shaped, IsScenario
    <3>2. DOMAIN obs["oracle"] = 1 .. Len(obs["oracle"])
      BY Growing DEF Shaped, Runs
    <3>3. scenario.steps[i] \in Commands
      BY <2>1, <3>1, <3>2
    <3>4. Prefix("oracle") \in Tokens /\ Prefix("subject") \in Tokens
      BY DEF Prefix, Tokens, Runs
    <3> QED BY <3>3, <3>4, SubstituteFields DEF CommandAt
  <2>6. PICK path \in Paths : path \in Differ(obs["oracle"][i], "oracle", obs["subject"][i], "subject")
    BY <2>3, <2>4, <2>5, ToldApart
  <2> DEFINE x == <<i, path>>
  <2>7. x \in (DOMAIN obs["oracle"]) \X Paths /\ x[1] = i /\ x[2] = path
    BY <2>1
  <2>8. x \in Divergences
    BY <2>6, <2>7 DEF Divergences, Diff, Prefix
  <2> QED BY <2>7, <2>8
<1> QED BY <1>1, <1>2, ShapedInitially, ShapedInvariant, HeardInvariant, PTL DEF Spec

-----------------------------------------------------------------------------
(* A run sees its own locks                                                  *)

\* No key and no bound of a scenario has its token elsewhere than at its front.
AtFront ==
  \A s \in Scenarios : \A i \in DOMAIN s.steps : \A a \in KeyTexts(s.steps[i]) : a.how # "inside"

\* The keys of a step, and its bounds, then begin with the run's prefix.
LEMMA KeysAtFront ==
  ASSUME AtFront, scenario \in Scenarios, NEW run \in Runs, NEW i \in DOMAIN scenario.steps
  PROVE  /\ \A a \in KeyTexts(scenario.steps[i]) :
              AsKey(a, run) = <<run>> \o Following(a.name) /\ Following(a.name) \in Seq(Tokens)
         /\ LET c == CommandAt(run, i)
                w == scenario.steps[i]
            IN /\ c.key = <<run>> \o Following(w.key.name)
               /\ c.primary = <<run>> \o Following(w.primary.name)
               /\ c.keys = {<<run>> \o Following(k.name) : k \in w.keys}
               /\ c.start = <<run>> \o Following(w.start.name)
               /\ c.end = <<run>> \o Following(w.end.name)
<1> DEFINE w == scenario.steps[i]
           c == CommandAt(run, i)
<1>1. w \in Commands
  BY ScenariosAssumption DEF IsScenario
<1>2. run \in Tokens /\ Prefix(run) = run
  BY DEF Tokens, Prefix
<1>3. /\ c.key = AsKey(w.key, run) /\ c.primary = AsKey(w.primary, run)
      /\ c.keys = {AsKey(k, run) : k \in w.keys}
      /\ c.start = AsKey(w.start, run) /\ c.end = AsKey(w.end, run)
  BY <1>1, <1>2, SubstituteFields DEF CommandAt
<1>4. ASSUME NEW a \in KeyTexts(w)
      PROVE  AsKey(a, run) = <<run>> \o Following(a.name) /\ Following(a.name) \in Seq(Tokens)
  <2>1. a.how # "inside"
    BY DEF AtFront
  <2>2. a.name \in STRING
    BY <1>1, <1>4, CommandFields DEF KeyTexts
  <2> QED BY <2>1, <2>2, FollowingIsBytes DEF AsKey
<1>5. /\ w.key \in KeyTexts(w) /\ w.primary \in KeyTexts(w) /\ w.start \in KeyTexts(w) /\ w.end \in KeyTexts(w)
      /\ \A k \in w.keys : k \in KeyTexts(w)
  BY DEF KeyTexts
<1> HIDE DEF c, w
<1>6. {AsKey(k, run) : k \in w.keys} = {<<run>> \o Following(k.name) : k \in w.keys}
  BY <1>4, <1>5
<1> QED BY <1>3, <1>4, <1>5, <1>6 DEF c, w

\* Between two bounds under one prefix there are only keys under that prefix.
LEMMA BetweenIsOwn ==
  ASSUME NEW run \in Runs, NEW s \in Seq(Tokens), NEW t \in Seq(Tokens), NEW key \in Seq(Tokens),
         ~Before(key, <<run>> \o s), Before(key, <<run>> \o t)
  PROVE  key # <<>> /\ key[1] = run
<1> DEFINE from == <<run>> \o s
           to == <<run>> \o t
<1>0. run \in Tokens
  BY DEF Tokens
<1>1. /\ from \in Seq(Tokens) /\ to \in Seq(Tokens) /\ from[1] = run /\ to[1] = run
      /\ Len(from) >= 1 /\ Len(to) >= 1
  BY <1>0
<1> HIDE DEF from, to
<1>2. Len(key) >= 1 /\ ~(Rank[key[1]] < Rank[run])
  <2>1. 1 \in 1 .. Len(from) /\ 1 <= Len(key) + 1 /\ \A j \in 1 .. 1 - 1 : key[j] = from[j]
    BY <1>1
  <2>2. ~(1 <= Len(key) => Rank[key[1]] < Rank[from[1]])
    BY <2>1 DEF Before, from
  <2> QED BY <1>1, <2>2
<1>3. PICK n \in 1 .. Len(to) :
        /\ n <= Len(key) + 1
        /\ \A j \in 1 .. n - 1 : key[j] = to[j]
        /\ n <= Len(key) => Rank[key[n]] < Rank[to[n]]
  BY DEF Before, to
<1>4. n # 1
  BY <1>1, <1>2, <1>3
<1>5. key[1] = to[1]
  BY <1>1, <1>3, <1>4
<1> QED BY <1>1, <1>2, <1>5

\* Each lock that was seen is the run's own.
OwnSeen ==
  \A run \in Runs : \A i \in DOMAIN obs[run] : \A l \in obs[run][i].locks : l.key # <<>> /\ l.key[1] = run

\* A scan sees only locks of its own run.
LEMMA SeenIsOwn ==
  ASSUME AtFront, scenario \in Scenarios, NEW run \in Runs, NEW i \in DOMAIN scenario.steps,
         NEW L \in SUBSET LockRecords, NEW l \in SeenIn(L, CommandAt(run, i))
  PROVE  l.key # <<>> /\ l.key[1] = run
<1> DEFINE w == scenario.steps[i]
           s == Following(w.start.name)
           t == Following(w.end.name)
<1>1. /\ CommandAt(run, i).start = <<run>> \o s /\ s \in Seq(Tokens)
      /\ CommandAt(run, i).end = <<run>> \o t /\ t \in Seq(Tokens)
  BY KeysAtFront DEF KeyTexts
<1>2. /\ l.key \in Seq(Tokens)
      /\ ~Before(l.key, CommandAt(run, i).start) /\ Before(l.key, CommandAt(run, i).end)
  BY DEF SeenIn, LockRecords
<1> HIDE DEF s, t
<1> QED BY <1>1, <1>2, BetweenIsOwn

\* That every scan reported only those is kept.
LEMMA OwnSeenInvariant ==
  ASSUME AtFront
  PROVE  Shaped /\ OwnSeen /\ [Next]_vars => OwnSeen'
<1> SUFFICES ASSUME Shaped, OwnSeen, [Next]_vars PROVE OwnSeen'
  OBVIOUS
<1>1. CASE Step
  <2>1. /\ turn \in Runs /\ Len(obs[turn]) < Len(scenario.steps)
        /\ scenario' = scenario /\ turn' = turn
    BY <1>1, StepShape
  <2>2. PICK m, o, i, e : Moves(m, o, i, e)
    BY <1>1, StepShape
  <2> DEFINE c == CommandAt(turn, i)
             d == tables[scenario.steps[i].role]
             lang == Lang(turn, i)
  <2>3. /\ IsSeq(obs[turn]) /\ Len(obs[turn]) \in Nat /\ i = Len(obs[turn]) + 1
    BY <2>1, <2>2, Growing DEF Shaped, Moves
  <2>4. lang \in {"go", "rust"} /\ i \in DOMAIN scenario.steps
    BY <2>1, <2>3, Underway DEF Shaped
  <2>5. /\ IF Refuses(lang, d, c) THEN m = NotAsked ELSE m \in Meets(lang, c)
        /\ o = ObserveAs(lang, d, c, m, locks, turn)
        /\ obs' = [obs EXCEPT ![turn] = Append(obs[turn], o)]
    BY <2>2 DEF Moves
  <2> HIDE DEF c, d, lang
  <2>6. \A l \in o.locks : \E h \in SeenIn(locks, c) : l.key = h.key
    <3>1. Reports(o, SeenIn(locks, c))
      BY <2>4, <2>5, ObserveTyped DEF Shaped
    <3> QED BY <3>1 DEF Reports
  <2>7. \A l \in o.locks : l.key # <<>> /\ l.key[1] = turn
    BY <2>1, <2>4, <2>6, SeenIsOwn DEF Shaped, c
  <2>8. /\ obs'[turn] = Append(obs[turn], o)
        /\ \A run \in Runs \ {turn} : obs'[run] = obs[run]
    BY <2>1, <2>5 DEF Shaped, Runs
  <2>9. /\ DOMAIN obs[turn] = 1 .. i - 1 /\ DOMAIN obs'[turn] = 1 .. i
        /\ \A j \in 1 .. i - 1 : obs'[turn][j] = obs[turn][j]
        /\ obs'[turn][i] = o
    BY <2>3, <2>8, Growing
  <2>10. \A j \in 1 .. i : \A l \in obs'[turn][j].locks : l.key # <<>> /\ l.key[1] = turn
    BY <2>1, <2>3, <2>7, <2>9 DEF OwnSeen
  <2>11. \A run \in Runs \ {turn} : \A j \in DOMAIN obs'[run] : \A l \in obs'[run][j].locks :
           l.key # <<>> /\ l.key[1] = run
    BY <2>8 DEF OwnSeen
  <2>12. \A j \in DOMAIN obs'[turn] : \A l \in obs'[turn][j].locks : l.key # <<>> /\ l.key[1] = turn
    BY <2>9, <2>10
  <2> QED BY <2>11, <2>12 DEF OwnSeen
<1>2. CASE NextRun \/ Compare \/ Refuse \/ UNCHANGED vars
  BY <1>2 DEF NextRun, Compare, Refuse, vars, OwnSeen
<1> QED BY <1>1, <1>2 DEF Next

\* No scan reports a lock of another run or of an earlier attempt, wherever those
\* are in the cluster and however its keys are ordered, for scenarios whose keys
\* and bounds have the run's prefix at their front.
THEOREM ResidueIsOwn ==
  ASSUME AtFront
  PROVE  Spec => []OwnResidueOnly
<1>1. Init => OwnSeen
  BY DEF Init, OwnSeen
<1>2. Shaped /\ OwnSeen => OwnResidueOnly
  <2> SUFFICES ASSUME Shaped, OwnSeen, NEW run \in Runs, NEW i \in DOMAIN obs[run], NEW l \in obs[run][i].locks
               PROVE  \E n \in DOMAIN l.key : l.key[n] = Prefix(run)
    BY DEF OwnResidueOnly
  <2>1. l.key \in Seq(Tokens) /\ l.key # <<>> /\ l.key[1] = run
    BY DEF Shaped, Observed, OwnSeen
  <2>2. 1 \in DOMAIN l.key
    BY <2>1
  <2> QED BY <2>1, <2>2 DEF Prefix
<1> QED BY <1>1, <1>2, ShapedInitially, ShapedInvariant, OwnSeenInvariant, PTL DEF Spec

-----------------------------------------------------------------------------
(* Two drivers whose clients met the same facts                              *)

\* The texts of keys, and a key's place under a prefix.
Keys == {a \in Texts : a.name \notin Runs}

\* A key is its prefix alone, or its prefix and its name in the order the text has them.
LEMMA KeyShape ==
  ASSUME NEW a, NEW p
  PROVE  LET k == AsKey(a, p) IN
         /\ a.name = NoName => k = <<p>> /\ Len(k) = 1
         /\ a.name # NoName /\ a.how = "inside" => Len(k) = 2 /\ k[1] = a.name /\ k[2] = p
         /\ a.name # NoName /\ a.how # "inside" => Len(k) = 2 /\ k[1] = p /\ k[2] = a.name
<1>1. ASSUME NEW x, NEW y
      PROVE  Len(<<x>> \o <<y>>) = 2 /\ (<<x>> \o <<y>>)[1] = x /\ (<<x>> \o <<y>>)[2] = y
  <2>1. <<x>> \in Seq({x, y}) /\ <<y>> \in Seq({x, y})
    OBVIOUS
  <2> QED BY <2>1
<1>2. <<>> \o <<p>> = <<p>> /\ <<p>> \o <<>> = <<p>> /\ Len(<<p>>) = 1
  OBVIOUS
<1>3. CASE a.name = NoName
  <2>1. Following(a.name) = <<>>
    BY <1>3 DEF Following
  <2> QED BY <1>2, <1>3, <2>1 DEF AsKey
<1>4. CASE a.name # NoName /\ a.how = "inside"
  <2>1. AsKey(a, p) = <<a.name>> \o <<p>>
    BY <1>4 DEF Following, AsKey
  <2> QED BY <1>1, <1>4, <2>1
<1>5. CASE a.name # NoName /\ a.how # "inside"
  <2>1. AsKey(a, p) = <<p>> \o <<a.name>>
    BY <1>5 DEF Following, AsKey
  <2> QED BY <1>1, <1>5, <2>1
<1> QED BY <1>3, <1>4, <1>5

\* Texts that one prefix makes one key, another prefix makes one key.
LEMMA KeysAlike ==
  ASSUME NEW a \in Keys, NEW b \in Keys, NEW p \in Runs, NEW q \in Runs, AsKey(a, p) = AsKey(b, p)
  PROVE  AsKey(a, q) = AsKey(b, q)
<1> DEFINE k == AsKey(a, p)
<1>1. a.name # p /\ b.name # p
  BY DEF Keys
<1>2. /\ a.name = NoName => Len(k) = 1
      /\ a.name # NoName /\ a.how = "inside" => Len(k) = 2 /\ k[1] = a.name /\ k[2] = p
      /\ a.name # NoName /\ a.how # "inside" => Len(k) = 2 /\ k[1] = p /\ k[2] = a.name
  BY KeyShape
<1>3. /\ b.name = NoName => Len(k) = 1
      /\ b.name # NoName /\ b.how = "inside" => Len(k) = 2 /\ k[1] = b.name /\ k[2] = p
      /\ b.name # NoName /\ b.how # "inside" => Len(k) = 2 /\ k[1] = p /\ k[2] = b.name
  <2> DEFINE h == AsKey(b, p)
  <2>1. /\ b.name = NoName => Len(h) = 1
        /\ b.name # NoName /\ b.how = "inside" => Len(h) = 2 /\ h[1] = b.name /\ h[2] = p
        /\ b.name # NoName /\ b.how # "inside" => Len(h) = 2 /\ h[1] = p /\ h[2] = b.name
    BY KeyShape
  <2>2. h = k
    OBVIOUS
  <2> HIDE DEF h, k
  <2> QED BY <2>1, <2>2
<1> HIDE DEF k
<1>4. /\ a.name = NoName <=> b.name = NoName
      /\ a.name # NoName => a.name = b.name /\ (a.how = "inside" <=> b.how = "inside")
  <2>1. CASE a.name = NoName \/ b.name = NoName
    BY <1>2, <1>3, <2>1
  <2>2. CASE a.name # NoName /\ b.name # NoName /\ a.how = "inside"
    BY <1>1, <1>2, <1>3, <2>2
  <2>3. CASE a.name # NoName /\ b.name # NoName /\ a.how # "inside"
    BY <1>1, <1>2, <1>3, <2>3
  <2> QED BY <2>1, <2>2, <2>3
<1>5. CASE a.name = NoName
  BY <1>4, <1>5, KeyShape
<1>6. CASE a.name # NoName
  BY <1>4, <1>6 DEF AsKey
<1> QED BY <1>5, <1>6

\* The tables after a command, one by one.
LEMMA TablesFields ==
  ASSUME NEW d \in Held, NEW c, NEW ok \in BOOLEAN
  PROVE  LET t == Tables(d, c, ok)
             Rest == {b \in d.buffer : b[1] # c.session}
         IN /\ t.clients = IF c.op = "open_client" /\ ok THEN d.clients \union {c.client}
                           ELSE IF c.op = "close_client" THEN d.clients \ {c.client} ELSE d.clients
            /\ t.raw = IF c.op = "open_raw_client" /\ ok THEN d.raw \union {c.client} ELSE d.raw
            /\ t.txns = IF c.op = "begin" /\ ok THEN d.txns \union {c.session}
                        ELSE IF c.op \in {"commit", "rollback", "abandon"} THEN d.txns \ {c.session} ELSE d.txns
            /\ t.pessimistic = IF c.op = "begin" /\ ok /\ c.mode = "pessimistic" THEN d.pessimistic \union {c.session}
                              ELSE IF c.op \in {"commit", "rollback", "abandon"} \/ (c.op = "begin" /\ ok)
                              THEN d.pessimistic \ {c.session} ELSE d.pessimistic
            /\ t.buffer = IF c.op \in {"commit", "rollback", "abandon"} \/ (c.op = "begin" /\ ok) THEN Rest
                          ELSE IF c.op = "put" /\ ok THEN d.buffer \union {<<c.session, c.key>>} ELSE d.buffer
<1>1. CASE c.op = "open_client" /\ ok
  BY <1>1 DEF Tables, Held
<1>2. CASE c.op = "open_raw_client" /\ ok
  BY <1>2 DEF Tables, Held
<1>3. CASE c.op = "close_client"
  BY <1>3 DEF Tables, Held
<1>4. CASE c.op = "begin" /\ ok
  BY <1>4 DEF Tables, Held
<1>5. CASE c.op = "put" /\ ok
  BY <1>5 DEF Tables, Held
<1>6. CASE c.op \in {"commit", "rollback", "abandon"}
  BY <1>6 DEF Tables, Held
<1>7. CASE /\ c.op \notin {"close_client", "commit", "rollback", "abandon"}
           /\ ok => c.op \notin {"open_client", "open_raw_client", "begin", "put"}
  BY <1>7 DEF Tables, Held
<1> QED BY <1>1, <1>2, <1>3, <1>4, <1>5, <1>6, <1>7

\* The tables of two drivers that have answered the same commands alike.
AlikeHeld(d, e) ==
  /\ d.clients = e.clients /\ d.raw = e.raw /\ d.txns = e.txns
  /\ d.pessimistic = e.pessimistic
  /\ \A s \in STRING, a \in Keys : <<s, AsKey(a, "oracle")>> \in d.buffer <=> <<s, AsKey(a, "subject")>> \in e.buffer

\* Tables that are alike are alike after one command of the scenario that ended alike.
LEMMA TablesAlike ==
  ASSUME NEW d \in Held, NEW e \in Held, AlikeHeld(d, e), NEW w \in Commands, w.key \in Keys,
         NEW ok \in BOOLEAN
  PROVE  AlikeHeld(Tables(d, Substitute(w, "oracle"), ok), Tables(e, Substitute(w, "subject"), ok))
<1> DEFINE c == Substitute(w, "oracle")
           b == Substitute(w, "subject")
           t == Tables(d, c, ok)
           u == Tables(e, b, ok)
<1>1. /\ c.op = w.op /\ c.client = w.client /\ c.session = w.session /\ c.mode = w.mode /\ c.key = AsKey(w.key, "oracle")
      /\ b.op = w.op /\ b.client = w.client /\ b.session = w.session /\ b.mode = w.mode /\ b.key = AsKey(w.key, "subject")
  BY SubstituteFields DEF Tokens, Runs
<1>2. /\ "oracle" \in Runs /\ "subject" \in Runs
      /\ \A a \in Keys : AsKey(a, "oracle") = AsKey(w.key, "oracle") <=> AsKey(a, "subject") = AsKey(w.key, "subject")
  BY KeysAlike DEF Runs
<1> HIDE DEF c, b
<1>3. t.clients = u.clients /\ t.raw = u.raw /\ t.txns = u.txns /\ t.pessimistic = u.pessimistic
  <2>0. d.clients = e.clients /\ d.raw = e.raw /\ d.txns = e.txns /\ d.pessimistic = e.pessimistic
    BY DEF AlikeHeld
  <2>1. /\ t.clients = IF c.op = "open_client" /\ ok THEN d.clients \union {c.client}
                       ELSE IF c.op = "close_client" THEN d.clients \ {c.client} ELSE d.clients
        /\ t.raw = IF c.op = "open_raw_client" /\ ok THEN d.raw \union {c.client} ELSE d.raw
        /\ t.txns = IF c.op = "begin" /\ ok THEN d.txns \union {c.session}
                    ELSE IF c.op \in {"commit", "rollback", "abandon"} THEN d.txns \ {c.session} ELSE d.txns
        /\ t.pessimistic = IF c.op = "begin" /\ ok /\ c.mode = "pessimistic" THEN d.pessimistic \union {c.session}
                           ELSE IF c.op \in {"commit", "rollback", "abandon"} \/ (c.op = "begin" /\ ok)
                           THEN d.pessimistic \ {c.session} ELSE d.pessimistic
    BY TablesFields
  <2>2. /\ u.clients = IF b.op = "open_client" /\ ok THEN e.clients \union {b.client}
                       ELSE IF b.op = "close_client" THEN e.clients \ {b.client} ELSE e.clients
        /\ u.raw = IF b.op = "open_raw_client" /\ ok THEN e.raw \union {b.client} ELSE e.raw
        /\ u.txns = IF b.op = "begin" /\ ok THEN e.txns \union {b.session}
                    ELSE IF b.op \in {"commit", "rollback", "abandon"} THEN e.txns \ {b.session} ELSE e.txns
        /\ u.pessimistic = IF b.op = "begin" /\ ok /\ b.mode = "pessimistic" THEN e.pessimistic \union {b.session}
                           ELSE IF b.op \in {"commit", "rollback", "abandon"} \/ (b.op = "begin" /\ ok)
                           THEN e.pessimistic \ {b.session} ELSE e.pessimistic
    BY TablesFields
  <2> HIDE DEF t, u
  <2> QED BY <1>1, <2>0, <2>1, <2>2
<1>4. ASSUME NEW s \in STRING, NEW a \in Keys
      PROVE  <<s, AsKey(a, "oracle")>> \in t.buffer <=> <<s, AsKey(a, "subject")>> \in u.buffer
  <2>1. <<s, AsKey(a, "oracle")>> \in d.buffer <=> <<s, AsKey(a, "subject")>> \in e.buffer
    BY DEF AlikeHeld
  <2>0. /\ t.buffer = IF c.op \in {"commit", "rollback", "abandon"} \/ (c.op = "begin" /\ ok)
                      THEN {x \in d.buffer : x[1] # c.session}
                      ELSE IF c.op = "put" /\ ok THEN d.buffer \union {<<c.session, c.key>>} ELSE d.buffer
        /\ u.buffer = IF b.op \in {"commit", "rollback", "abandon"} \/ (b.op = "begin" /\ ok)
                      THEN {x \in e.buffer : x[1] # b.session}
                      ELSE IF b.op = "put" /\ ok THEN e.buffer \union {<<b.session, b.key>>} ELSE e.buffer
    BY TablesFields
  <2> HIDE DEF t, u
  <2>2. CASE c.op \in {"commit", "rollback", "abandon"} \/ (c.op = "begin" /\ ok)
    <3>1. /\ t.buffer = {x \in d.buffer : x[1] # c.session}
          /\ u.buffer = {x \in e.buffer : x[1] # b.session}
      BY <1>1, <2>0, <2>2
    <3> QED BY <1>1, <2>1, <3>1
  <2>3. CASE c.op = "put" /\ ok
    <3>1. /\ t.buffer = d.buffer \union {<<c.session, c.key>>}
          /\ u.buffer = e.buffer \union {<<b.session, b.key>>}
      BY <1>1, <2>0, <2>3
    <3>2. /\ <<s, AsKey(a, "oracle")>> \in t.buffer
                <=> \/ <<s, AsKey(a, "oracle")>> \in d.buffer
                    \/ s = w.session /\ AsKey(a, "oracle") = AsKey(w.key, "oracle")
          /\ <<s, AsKey(a, "subject")>> \in u.buffer
                <=> \/ <<s, AsKey(a, "subject")>> \in e.buffer
                    \/ s = w.session /\ AsKey(a, "subject") = AsKey(w.key, "subject")
      BY <1>1, <3>1
    <3> QED BY <1>2, <2>1, <3>2
  <2>4. CASE c.op \notin {"commit", "rollback", "abandon"} /\ (ok => c.op \notin {"begin", "put"})
    <3>1. t.buffer = d.buffer /\ u.buffer = e.buffer
      BY <1>1, <2>0, <2>4
    <3> QED BY <2>1, <3>1
  <2> QED BY <2>2, <2>3, <2>4
<1> QED BY <1>3, <1>4 DEF AlikeHeld, c, b

\* The clients meet what the drivers ask them for.
Asked(lang, d, c, m) == IF Refuses(lang, d, c) THEN m = NotAsked ELSE m \in Meets(lang, c)

Tags(m) == {m[i] : i \in DOMAIN m}

\* The oracle's and the subject's driver of a role.
Paired(lang, tongue) ==
  /\ lang \in {"go", "rust"} /\ tongue \in {"go", "rust"}
  /\ lang # tongue => lang = "go" /\ tongue = "rust"

\* What the oracle's run observed, and the subject's.
OracleSaw(lang, d, c, m, L, a) == a = ObserveAs(lang, d, c, m, L, "oracle")
SubjectSaw(tongue, e, f, g, K, b) == b = ObserveAs(tongue, e, f, g, K, "subject")

\* What a client met is a sequence, and not the mark of a client that was not asked.
LEMMA MetSequences ==
  ASSUME NEW lang \in {"go", "rust"}, NEW c, NEW m \in Meets(lang, c)
  PROVE  IsSeq(m) /\ m # <<>> /\ m # NotAsked
<1>1. CASE \E f \in Answers \union RustFacts \union {"no_ts", "timeout"} : m = <<f>>
  <2>1. PICK f \in Answers \union RustFacts \union {"no_ts", "timeout"} : m = <<f>>
    BY <1>1
  <2>2. f # "not_asked"
    BY DEF Answers, RustFacts
  <2>3. m \in Seq({f}) /\ m # <<>>
    BY <2>1
  <2>4. m # NotAsked
    BY <2>1, <2>2 DEF NotAsked
  <2> QED BY <2>3, <2>4 DEF IsSeq
<1>2. CASE m \in Seq(RustFacts) /\ m # <<>>
  <2>1. m[1] \in RustFacts
    BY <1>2
  <2>2. m[1] # "not_asked"
    BY <2>1 DEF RustFacts
  <2>3. m # NotAsked
    BY <2>2 DEF NotAsked
  <2> QED BY <1>2, <2>3 DEF IsSeq
<1> QED BY <1>1, <1>2, MetEither, SuccessesAnswer

\* The same facts, as sets and as firsts.
LEMMA SameTags ==
  ASSUME NEW g, IsSeq(g), g # <<>>, NEW m, IsSeq(m), m # <<>>, Same(g, m)
  PROVE  /\ Tags(g) = Tags(m) /\ g[1] \in Tags(m) /\ m[1] \in Tags(g)
         /\ AllOne(m) => AllOne(g) /\ g[1] = m[1]
         /\ AllOne(g) => AllOne(m)
         /\ ~AllOne(m) => Unordered(g) = Unordered(m)
<1>1. 1 \in DOMAIN g /\ 1 \in DOMAIN m
  BY DEF IsSeq
<1>2. Tags(g) = Tags(m)
  <2>1. CASE \A i \in DOMAIN g, j \in DOMAIN m : g[i] = m[j]
    BY <1>1, <2>1 DEF Tags
  <2>2. CASE Unordered(g) = Unordered(m)
    <3>1. DOMAIN Unordered(g) = Tags(g) /\ DOMAIN Unordered(m) = Tags(m)
      BY DEF Unordered, Tags
    <3> QED BY <2>2, <3>1
  <2> QED BY <2>1, <2>2 DEF Same
<1>3. g[1] \in Tags(g) /\ m[1] \in Tags(m)
  BY <1>1 DEF Tags
<1>4. AllOne(m) => AllOne(g) /\ g[1] = m[1]
  <2>1. \A i \in DOMAIN g : \E j \in DOMAIN m : g[i] = m[j]
    BY <1>2 DEF Tags
  <2>2. AllOne(m) => \A i \in DOMAIN g : g[i] = m[1]
    BY <1>1, <2>1 DEF AllOne
  <2> QED BY <1>1, <2>2 DEF AllOne
<1>5. AllOne(g) => AllOne(m)
  <2>1. \A i \in DOMAIN m : \E j \in DOMAIN g : m[i] = g[j]
    BY <1>2 DEF Tags
  <2> QED BY <1>1, <2>1 DEF AllOne
<1>6. ~AllOne(m) => Unordered(g) = Unordered(m)
  BY <1>1 DEF AllOne, Same
<1> QED BY <1>2, <1>3, <1>4, <1>5, <1>6

\* What one driver does not refuse, the other does not refuse either.
LEMMA RefusesAlike ==
  ASSUME NEW w \in Commands, KeyTexts(w) \subseteq Keys, w.op = "scan_locks" => w.batch_size > 0,
         NEW d, NEW e, AlikeHeld(d, e), NEW lang, NEW tongue, Paired(lang, tongue),
         ~Refuses(lang, d, Substitute(w, "oracle"))
  PROVE  ~Refuses(tongue, e, Substitute(w, "subject"))
<1> DEFINE c == Substitute(w, "oracle")
           f == Substitute(w, "subject")
<1>1. /\ c.op = w.op /\ c.client = w.client /\ c.session = w.session /\ c.batch_size = w.batch_size
      /\ f.op = w.op /\ f.client = w.client /\ f.session = w.session /\ f.batch_size = w.batch_size
      /\ c.keys = {AsKey(k, "oracle") : k \in w.keys} /\ f.keys = {AsKey(k, "subject") : k \in w.keys}
  BY SubstituteFields DEF Tokens, Runs
<1>2. w.session \in STRING /\ w.batch_size \in Nat
  BY CommandFields
<1> HIDE DEF c, f
<1>3. ~UnknownName(d, c)
  BY DEF Refuses, RustRefuses, GoRefuses, c
<1>4. ~UnknownName(e, f)
  BY <1>1, <1>3 DEF UnknownName, AlikeHeld
<1>5. CASE tongue = "rust"
  BY <1>1, <1>2, <1>4, <1>5 DEF Refuses, RustRefuses, f
<1>6. CASE tongue = "go"
  <2>1. lang = "go"
    BY <1>6 DEF Paired
  <2>2. c.op = "prewrite_only" => \A k \in c.keys : <<c.session, k>> \in d.buffer
    BY <2>1 DEF Refuses, GoRefuses, c
  <2>3. ASSUME f.op = "prewrite_only", NEW k \in f.keys PROVE <<f.session, k>> \in e.buffer
    <3>1. PICK a \in w.keys : k = AsKey(a, "subject")
      BY <1>1, <2>3
    <3>2. a \in Keys
      BY DEF KeyTexts
    <3>3. <<w.session, AsKey(a, "oracle")>> \in d.buffer
      BY <1>1, <2>2, <2>3
    <3>4. <<w.session, AsKey(a, "subject")>> \in e.buffer
      BY <1>2, <3>2, <3>3 DEF AlikeHeld
    <3> QED BY <1>1, <3>1, <3>4
  <2> QED BY <1>4, <1>6, <2>3 DEF Refuses, GoRefuses, f
<1> QED BY <1>5, <1>6 DEF Paired

\* The class that the Go table gives, of a client's first and only fact.
LEMMA GoClassified ==
  ASSUME NEW g
  PROVE  GoClassify(g).class = GoClass(g[1])
BY DEF GoClassify, New

\* A driver that does not refuse its command has failures of its client classified,
\* when the other driver had the same failures of its client classified.
LEMMA FailsAlike ==
  ASSUME NEW c, NEW f, c.op = f.op, NEW d, NEW e, NEW lang, NEW tongue, Paired(lang, tongue),
         ~Refuses(lang, d, c), ~Refuses(tongue, e, f),
         NEW m \in Meets(lang, c), m \in Seq(RustFacts), NEW g \in Meets(tongue, f), Same(g, m),
         NEW L, NEW a, OracleSaw(lang, d, c, m, L, a), Admissible(a),
         NEW K, NEW b, SubjectSaw(tongue, e, f, g, K, b)
  PROVE  /\ g \in Seq(RustFacts) /\ g # <<>>
         /\ b.class \notin {"ok", "not_found", "driver_error"}
         /\ Admissible(b) => FailureOf(tongue, f, g, b)
         /\ c.op = "prewrite_only" => m = <<"lacks">> /\ g = <<"lacks">>
<1>0. /\ a = ObserveAs(lang, d, c, m, L, "oracle") /\ b = ObserveAs(tongue, e, f, g, K, "subject")
      /\ lang \in {"go", "rust"} /\ tongue \in {"go", "rust"}
  BY DEF OracleSaw, SubjectSaw, Paired
<1>1. /\ IsSeq(m) /\ m # <<>> /\ IsSeq(g) /\ g # <<>>
      /\ Tags(g) = Tags(m) /\ g[1] \in Tags(m)
  BY <1>0, MetSequences, SameTags
<1>2. Tags(m) \subseteq RustFacts /\ m[1] \in RustFacts
  BY <1>1 DEF Tags
<1>3. g \in Seq(RustFacts) /\ g[1] \in RustFacts
  <2>1. \A i \in DOMAIN g : g[i] \in RustFacts
    BY <1>1, <1>2 DEF Tags
  <2>2. PICK S : g \in Seq(S)
    BY <1>1 DEF IsSeq
  <2> QED BY <1>1, <1>2, <2>1, <2>2
<1>4. ~Succeeded(m) /\ ~Succeeded(g)
  BY <1>2, <1>3, FailuresAreNone DEF Succeeded
<1>5. a.class # "driver_error"
  BY DEF Admissible, InadmissibleClasses
<1>6. /\ c.op \notin {"open_client", "open_raw_client"}
      /\ lang = "go" => c.op \notin {"begin", "prewrite_only"}
      /\ c.op = "prewrite_only" => m[1] = "lacks"
  <2>1. CASE lang = "go"
    BY <1>0, <1>4, <1>5, <2>1, NewFields DEF ObserveAs, GoObserve, GoBlamesSetup, Refuses
  <2>2. CASE lang = "rust"
    BY <1>0, <1>4, <1>5, <2>2, NewFields DEF ObserveAs, RustObserve, RustBlamesSetup, Refuses
  <2> QED BY <1>0, <2>1, <2>2
<1>9. ASSUME c.op = "prewrite_only" PROVE m = <<"lacks">> /\ g = <<"lacks">>
  <2>1. c.op # "commit" /\ f.op # "commit"
    BY <1>9
  <2>2. PICK x : m = <<x>>
    BY <1>0, <2>1, MeetsShape
  <2>3. PICK y : g = <<y>>
    BY <1>0, <2>1, MeetsShape
  <2>4. x = "lacks" /\ m[1] = x /\ g[1] = y /\ Tags(m) = {x}
    BY <1>6, <1>9, <2>2, <2>3 DEF Tags
  <2> QED BY <1>1, <2>2, <2>3, <2>4
<1>7. CASE tongue = "rust"
  <2>1. ~RustBlamesSetup(f, g)
    <3>1. g[1] \notin {"no_ts", "timeout"}
      BY <1>3 DEF RustFacts
    <3>2. f.op = "prewrite_only" => g[1] = "lacks"
      BY <1>9
    <3> QED BY <1>6, <3>1, <3>2 DEF RustBlamesSetup
  <2>2. b = RustClassify(f, g)
    BY <1>0, <1>4, <1>7, <2>1 DEF ObserveAs, RustObserve, Refuses
  <2>3. b.class \notin {"ok", "not_found", "driver_error"}
    BY <1>1, <1>3, <2>2, ClassifiedAsFailure
  <2> QED BY <1>1, <1>3, <1>7, <1>9, <2>2, <2>3 DEF FailureOf
<1>8. CASE tongue = "go"
  <2>1. lang = "go"
    BY <1>8 DEF Paired
  <2>2. ~GoBlamesSetup(f, g)
    <3>1. g[1] # "no_ts"
      BY <1>3 DEF RustFacts
    <3> QED BY <1>6, <2>1, <3>1 DEF GoBlamesSetup
  <2>3. b = GoClassify(g)
    BY <1>0, <1>4, <1>8, <2>2 DEF ObserveAs, GoObserve, Refuses
  <2>4. b.class = GoClass(g[1])
    BY <2>3, GoClassified
  <2>5. GoClass(g[1]) \notin {"ok", "not_found", "driver_error"}
    BY <1>3 DEF GoClass, RustFacts
  <2>6. ASSUME Admissible(b) PROVE FailureOf(tongue, f, g, b)
    <3>1. b = GoObserve(e, f, g, SeenIn(K, f), "subject")
      BY <1>0, <1>8 DEF ObserveAs
    <3>2. Told("go", f, g, LockObs(GoLockKind, SeenIn(K, f)), "subject", b)
      BY <1>8, <2>6, <3>1, GoTells
    <3>3. ~ \E h \in Successes(f) : g = <<h>>
      <4> SUFFICES ASSUME NEW h \in Successes(f), g = <<h>> PROVE FALSE
        OBVIOUS
      <4>1. g[1] = h /\ h \in Answers
        BY SuccessesAnswer
      <4> QED BY <1>3, <4>1, FailuresAreNone
    <3> QED BY <1>8, <3>2, <3>3 DEF Told
  <2> QED BY <1>1, <1>3, <1>9, <2>4, <2>5, <2>6
<1> QED BY <1>0, <1>7, <1>8

\* A step that the oracle's driver answered with evidence, taken by the subject's
\* driver whose client met the same facts: the same answer, or the same failures.
KindTable(lang) == IF lang = "rust" THEN RustLockKind ELSE GoLockKind

AnsweredAlike(lang, tongue, c, f, m, g, a, b, L, K) ==
  \E h \in Successes(c) : /\ m = <<h>> /\ g = <<h>>
                         /\ a = Answer(c, m, LockObs(KindTable(lang), SeenIn(L, c)), "oracle")
                         /\ b = Answer(f, g, LockObs(KindTable(tongue), SeenIn(K, f)), "subject")

FailedAlike(lang, tongue, c, f, m, g, a, b) ==
  /\ m \in Seq(RustFacts) /\ m # <<>> /\ g \in Seq(RustFacts) /\ g # <<>> /\ Same(g, m)
  /\ FailureOf(lang, c, m, a)
  /\ Admissible(b) => FailureOf(tongue, f, g, b)
  /\ c.op = "prewrite_only" => m = <<"lacks">> /\ g = <<"lacks">>

\* A step that the oracle got through and whose subject's client, if it was asked,
\* met the same facts is answered alike or fails alike, and is no failure of a driver.
LEMMA StepAlike ==
  ASSUME NEW w \in Commands, KeyTexts(w) \subseteq Keys, w.op = "scan_locks" => w.batch_size > 0,
         NEW d, NEW e, AlikeHeld(d, e), NEW lang, NEW tongue, Paired(lang, tongue),
         NEW c, c = Substitute(w, "oracle"), NEW f, f = Substitute(w, "subject"),
         NEW m, Asked(lang, d, c, m), NEW L, NEW a, OracleSaw(lang, d, c, m, L, a), Admissible(a),
         NEW g, Asked(tongue, e, f, g), NEW K, NEW b, SubjectSaw(tongue, e, f, g, K, b),
         g = NotAsked \/ Same(g, m)
  PROVE  /\ b.class # "driver_error"
         /\ a.class = "ok" <=> b.class = "ok"
         /\ a.class = "not_found" <=> b.class = "not_found"
         /\ AnsweredAlike(lang, tongue, c, f, m, g, a, b, L, K) \/ FailedAlike(lang, tongue, c, f, m, g, a, b)
<1>0. /\ a = ObserveAs(lang, d, c, m, L, "oracle") /\ b = ObserveAs(tongue, e, f, g, K, "subject")
      /\ lang \in {"go", "rust"} /\ tongue \in {"go", "rust"}
  BY DEF OracleSaw, SubjectSaw, Paired
<1>1. c.op = f.op /\ Successes(c) = Successes(f)
  BY SubstituteFields DEF Tokens, Runs, Successes
<1>2. ~Refuses(lang, d, c) /\ Told(lang, c, m, LockObs(KindTable(lang), SeenIn(L, c)), "oracle", a)
  BY <1>0, ObservationTells DEF Asked, KindTable
<1>3. ~Refuses(tongue, e, f)
  BY <1>2, RefusesAlike
<1>4. m \in Meets(lang, c) /\ g \in Meets(tongue, f)
  BY <1>2, <1>3 DEF Asked
<1>5. /\ IsSeq(m) /\ m # <<>> /\ IsSeq(g) /\ g # <<>> /\ Same(g, m)
      /\ Tags(g) = Tags(m) /\ g[1] \in Tags(m)
  BY <1>0, <1>4, MetSequences, SameTags
<1>6. CASE /\ \E h \in Successes(c) : m = <<h>>
           /\ a = Answer(c, m, LockObs(KindTable(lang), SeenIn(L, c)), "oracle")
  <2>1. PICK h \in Successes(c) : m = <<h>>
    BY <1>6
  <2>2. g[1] = h
    <3>1. Tags(m) = {h}
      BY <2>1 DEF Tags
    <3> QED BY <1>5, <3>1
  <2>3. Succeeded(g)
    BY <2>2, SuccessesAnswer DEF Succeeded
  <2>4. g = <<h>>
    <3>1. PICK k : g = <<k>>
      BY <1>0, <1>4, <2>3, MetEither
    <3> QED BY <2>2, <3>1
  <2>5. b = Answer(f, g, LockObs(KindTable(tongue), SeenIn(K, f)), "subject")
    BY <1>0, <1>3, <2>3 DEF ObserveAs, RustObserve, GoObserve, Refuses, KindTable
  <2>6. /\ a.class = IF h = "absent" THEN "not_found" ELSE "ok"
        /\ b.class = IF h = "absent" THEN "not_found" ELSE "ok"
    <3>1. a.class = IF h = "absent" THEN "not_found" ELSE "ok"
      BY <1>6, <2>1, AnswerTyped
    <3>2. b.class = IF h = "absent" THEN "not_found" ELSE "ok"
      BY <1>1, <2>4, <2>5, AnswerTyped
    <3> QED BY <3>1, <3>2
  <2>7. AnsweredAlike(lang, tongue, c, f, m, g, a, b, L, K)
    BY <1>6, <2>1, <2>4, <2>5 DEF AnsweredAlike
  <2> QED BY <2>6, <2>7
<1>7. CASE m \in Seq(RustFacts) /\ m # <<>> /\ FailureOf(lang, c, m, a)
  <2>1. /\ g \in Seq(RustFacts) /\ g # <<>>
        /\ b.class \notin {"ok", "not_found", "driver_error"}
        /\ Admissible(b) => FailureOf(tongue, f, g, b)
        /\ c.op = "prewrite_only" => m = <<"lacks">> /\ g = <<"lacks">>
    BY <1>1, <1>2, <1>3, <1>4, <1>5, <1>7, FailsAlike
  <2>2. a.class \notin {"ok", "not_found"}
    <3>1. m[1] \in RustFacts
      BY <1>7
    <3> QED BY <1>7, <3>1, FailureTold, ClassPerFact
  <2> QED BY <1>5, <1>7, <2>1, <2>2 DEF FailedAlike
<1> QED BY <1>2, <1>6, <1>7 DEF Told

-----------------------------------------------------------------------------
(* The oracle's run, remembered                                              *)

\* A step of the oracle's run: its driver's tables before it and after it are in D
\* and E, the cluster's locks before it and after it are K and J, and k is noted.
Stride(w, lang, D, E, K, J, m, o, k) ==
  LET c == Substitute(w, "oracle")
      d == D[w.role]
  IN /\ Asked(lang, d, c, m)
     /\ OracleSaw(lang, d, c, m, K, o)
     /\ E = [D EXCEPT ![w.role] = Tables(d, c, o.class = "ok")]
     /\ \E e \in EffectsOn(K, "oracle", lang, d, c, m) :
          J = (K \ e.gone) \union e.new /\ k = NotedAs(c, e, "oracle")

\* The oracle's tables and the cluster's locks before its first step and after
\* each: T[i] and L[i] are what they were after step i.
Passed(T, L, i) ==
  Stride(scenario.steps[i], Lang("oracle", i), T[i - 1], T[i], L[i - 1], L[i], met[i],
         obs["oracle"][i], kept[i])

\* They tell of the whole of the run so far.
Travelled(T, L) ==
  LET n == Len(obs["oracle"]) IN
  /\ T \in [0 .. n -> [scenario.roles -> Held]]
  /\ L \in [0 .. n -> SUBSET LockRecords]
  /\ T[0] = NoTables /\ L[0] = Leftover
  /\ \A i \in 1 .. n : Passed(T, L, i)
  /\ turn = "oracle" => tables = T[n] /\ locks = L[n]

\* A step of the oracle's run adds to what is remembered.
LEMMA TravelledFurther ==
  ASSUME Shaped, Step, turn = "oracle", NEW T, NEW L, Travelled(T, L)
  PROVE  LET n == Len(obs["oracle"]) IN
         \E U, M : /\ Travelled(U, M)'
                   /\ n \in Nat /\ n + 1 \in DOMAIN scenario.steps /\ Len(obs'["oracle"]) = n + 1
                   /\ \A i \in 0 .. n : U[i] = T[i] /\ M[i] = L[i]
<1>1. /\ Len(obs["oracle"]) < Len(scenario.steps)
      /\ scenario' = scenario /\ turn' = turn /\ "oracle" \in Runs
  BY StepShape
<1>2. PICK m, o, i, e : Moves(m, o, i, e)
  BY StepShape
<1> DEFINE k == NotedAs(CommandAt("oracle", i), e, "oracle")
<1>3. Shaped'
  BY ShapedAtStep
<1>4. PICK n \in Nat : n = Len(obs["oracle"])
  BY <1>1, Growing DEF Shaped
<1>5. /\ i = n + 1 /\ IsSeq(obs["oracle"]) /\ IsSeq(met) /\ Len(met) = n
      /\ IsSeq(kept) /\ Len(kept) = n
  BY <1>1, <1>2, <1>4 DEF Shaped, Moves
<1>6. i \in DOMAIN scenario.steps
  BY <1>1, <1>4, <1>5, Underway DEF Shaped
<1>7. obs'["oracle"] = Append(obs["oracle"], o) /\ met' = Append(met, m) /\ kept' = Append(kept, k)
  BY <1>1, <1>2 DEF Shaped, Moves
<1> HIDE DEF k
<1>8. /\ Len(obs'["oracle"]) = n + 1
      /\ \A j \in 1 .. n : obs'["oracle"][j] = obs["oracle"][j] /\ met'[j] = met[j] /\ kept'[j] = kept[j]
      /\ obs'["oracle"][n + 1] = o /\ met'[n + 1] = m /\ kept'[n + 1] = k
  BY <1>4, <1>5, <1>7, Growing
<1>9. tables' \in [scenario.roles -> Held] /\ locks' \in SUBSET LockRecords
  BY <1>1, <1>3 DEF Shaped
<1>10. /\ T \in [0 .. n -> [scenario.roles -> Held]] /\ L \in [0 .. n -> SUBSET LockRecords]
       /\ T[0] = NoTables /\ L[0] = Leftover
       /\ tables = T[n] /\ locks = L[n]
       /\ \A j \in 1 .. n : Passed(T, L, j)
  BY <1>4 DEF Travelled
<1>11. PICK U \in [0 .. n + 1 -> [scenario.roles -> Held]] : U[n + 1] = tables' /\ \A j \in 0 .. n : U[j] = T[j]
  <2> DEFINE G == [j \in 0 .. n + 1 |-> IF j = n + 1 THEN tables' ELSE T[j]]
  <2>1. G[n + 1] = tables' /\ \A j \in 0 .. n : G[j] = T[j]
    OBVIOUS
  <2>2. G \in [0 .. n + 1 -> [scenario.roles -> Held]]
    BY <1>9, <1>10
  <2> QED BY <2>1, <2>2
<1>12. PICK M \in [0 .. n + 1 -> SUBSET LockRecords] : M[n + 1] = locks' /\ \A j \in 0 .. n : M[j] = L[j]
  <2> DEFINE G == [j \in 0 .. n + 1 |-> IF j = n + 1 THEN locks' ELSE L[j]]
  <2>1. G[n + 1] = locks' /\ \A j \in 0 .. n : G[j] = L[j]
    OBVIOUS
  <2>2. G \in [0 .. n + 1 -> SUBSET LockRecords]
    BY <1>9, <1>10
  <2> QED BY <2>1, <2>2
<1>13. \A j : Lang("oracle", j)' = Lang("oracle", j)
  BY <1>1 DEF Lang
<1>14. ASSUME NEW j \in 1 .. n PROVE Passed(U, M, j)'
  <2>1. Passed(T, L, j)
    BY <1>10
  <2>2. U[j] = T[j] /\ U[j - 1] = T[j - 1] /\ M[j] = L[j] /\ M[j - 1] = L[j - 1]
    BY <1>11, <1>12
  <2>3. obs'["oracle"][j] = obs["oracle"][j] /\ met'[j] = met[j] /\ kept'[j] = kept[j]
    BY <1>8
  <2> QED BY <1>1, <1>13, <2>1, <2>2, <2>3 DEF Passed
<1>15. Stride(scenario.steps[n + 1], Lang("oracle", n + 1), U[n], U[n + 1], M[n], M[n + 1], m, o, k)
  <2>1. U[n] = tables /\ M[n] = locks
    BY <1>10, <1>11, <1>12
  <2>2. CommandAt("oracle", n + 1) = Substitute(scenario.steps[n + 1], "oracle")
    BY DEF CommandAt, Prefix
  <2> DEFINE w == scenario.steps[n + 1]
             c == Substitute(w, "oracle")
             lang == Lang("oracle", n + 1)
             d == tables[w.role]
  <2>3. /\ IF Refuses(lang, d, c) THEN m = NotAsked ELSE m \in Meets(lang, c)
        /\ o = ObserveAs(lang, d, c, m, locks, "oracle")
        /\ tables' = [tables EXCEPT ![w.role] = Tables(d, c, o.class = "ok")]
        /\ e \in EffectsOn(locks, "oracle", lang, d, c, m)
        /\ locks' = (locks \ e.gone) \union e.new /\ k = NotedAs(c, e, "oracle")
    BY <1>2, <1>5, <2>2 DEF Moves, k
  <2> HIDE DEF c, lang
  <2>4. Asked(lang, d, c, m) /\ OracleSaw(lang, d, c, m, locks, o)
    BY <2>3 DEF Asked, OracleSaw
  <2>5. Stride(w, lang, tables, tables', locks, locks', m, o, k)
    BY <2>3, <2>4 DEF Stride, c
  <2> QED BY <1>11, <1>12, <2>1, <2>5 DEF lang
<1>16. Passed(U, M, n + 1)'
  <2>1. n + 1 - 1 = n
    OBVIOUS
  <2> QED BY <1>1, <1>8, <1>13, <1>15, <2>1 DEF Passed
<1>17. \A j \in 1 .. n + 1 : Passed(U, M, j)'
  BY <1>14, <1>16
<1>18. Travelled(U, M)'
  <2>1. NoTables' = NoTables
    BY <1>1 DEF NoTables
  <2>2. U[0] = NoTables /\ M[0] = Leftover
    <3>1. 0 \in 0 .. n /\ T[0] = NoTables /\ L[0] = Leftover
      BY <1>10
    <3>2. U[0] = T[0]
      BY <1>11, <3>1
    <3>3. M[0] = L[0]
      BY <1>12, <3>1
    <3> QED BY <3>1, <3>2, <3>3
  <2>3. turn' = "oracle" /\ Len(obs'["oracle"]) = n + 1 /\ tables' = U[n + 1] /\ locks' = M[n + 1]
    BY <1>1, <1>8, <1>11, <1>12
  <2>4. /\ U \in [0 .. Len(obs'["oracle"]) -> [scenario'.roles -> Held]]
        /\ M \in [0 .. Len(obs'["oracle"]) -> SUBSET LockRecords]
        /\ \A j \in 1 .. Len(obs'["oracle"]) : Passed(U, M, j)'
    BY <1>1, <1>11, <1>12, <1>17, <2>3
  <2>5. tables' = U[Len(obs'["oracle"])] /\ locks' = M[Len(obs'["oracle"])]
    BY <2>3
  <2> QED BY <2>1, <2>2, <2>4, <2>5 DEF Travelled
<1>19. /\ Len(obs["oracle"]) \in Nat /\ Len(obs["oracle"]) + 1 \in DOMAIN scenario.steps
       /\ Len(obs'["oracle"]) = Len(obs["oracle"]) + 1
       /\ \A j \in 0 .. Len(obs["oracle"]) : U[j] = T[j] /\ M[j] = L[j]
  BY <1>4, <1>5, <1>6, <1>8, <1>11, <1>12
<1> QED BY <1>18, <1>19

\* Every other step leaves it as it is.
LEMMA TravelledKept ==
  ASSUME Shaped, [Next]_vars, ~(Step /\ turn = "oracle"), NEW T, NEW L, Travelled(T, L)
  PROVE  Travelled(T, L)' /\ obs'["oracle"] = obs["oracle"] /\ met' = met /\ scenario' = scenario
<1>1. /\ scenario' = scenario /\ obs'["oracle"] = obs["oracle"] /\ met' = met /\ kept' = kept
      /\ turn' = "oracle" => tables' = tables /\ locks' = locks /\ turn = "oracle"
  <2>1. CASE Step
    <3>1. turn = "subject" /\ scenario' = scenario /\ turn' = turn
      BY <2>1, StepShape DEF Runs
    <3>2. PICK m, o, i, e : Moves(m, o, i, e)
      BY <2>1, StepShape
    <3>3. obs' = [obs EXCEPT ![turn] = Append(obs[turn], o)] /\ met' = met /\ kept' = kept
      BY <3>1, <3>2 DEF Moves
    <3> QED BY <3>1, <3>3 DEF Shaped, Runs
  <2>2. CASE NextRun
    BY <2>2 DEF NextRun
  <2>3. CASE Compare
    BY <2>3 DEF Compare
  <2>4. CASE Refuse
    BY <2>4 DEF Refuse
  <2>5. CASE UNCHANGED vars
    BY <2>5 DEF vars
  <2> QED BY <2>1, <2>2, <2>3, <2>4, <2>5 DEF Next
<1>2. \A j : Lang("oracle", j)' = Lang("oracle", j)
  BY <1>1 DEF Lang
<1>3. ASSUME NEW j \in 1 .. Len(obs["oracle"]) PROVE Passed(T, L, j)'
  <2>1. Passed(T, L, j)
    BY DEF Travelled
  <2> QED BY <1>1, <1>2, <2>1 DEF Passed
<1>4. NoTables' = NoTables
  BY <1>1 DEF NoTables
<1> QED BY <1>1, <1>3, <1>4 DEF Travelled

\* The tables of every role's driver, alike in both runs.
AlikeTables(D, E) == \A r \in scenario.roles : AlikeHeld(D[r], E[r])

\* A step of the subject's run, beside the oracle's of the same place, while the
\* clients have met the same facts.
Beside(w, lang, tongue, T, L, i, K, m, g, a, b, k) ==
  /\ i \in Nat \ {0} /\ w \in Commands /\ IsFiniteSet(w.keys) /\ KeyTexts(w) \subseteq Keys
  /\ Stride(w, lang, T[i - 1], T[i], L[i - 1], L[i], m, a, k)
  /\ Paired(lang, tongue)
  /\ b.class # "driver_error"
  /\ LET c == Substitute(w, "oracle")
         f == Substitute(w, "subject")
     IN \/ AnsweredAlike(lang, tongue, c, f, m, g, a, b, L[i - 1], K)
        \/ FailedAlike(lang, tongue, c, f, m, g, a, b)

\* The tables after a step that was answered alike are alike.
LEMMA AlikeAfter ==
  ASSUME NEW D \in [scenario.roles -> Held], NEW E \in [scenario.roles -> Held], AlikeTables(D, E),
         NEW w \in Commands, w.key \in Keys, w.role \in scenario.roles, NEW ok \in BOOLEAN
  PROVE  AlikeTables([D EXCEPT ![w.role] = Tables(D[w.role], Substitute(w, "oracle"), ok)],
                     [E EXCEPT ![w.role] = Tables(E[w.role], Substitute(w, "subject"), ok)])
<1> DEFINE G == [D EXCEPT ![w.role] = Tables(D[w.role], Substitute(w, "oracle"), ok)]
           H == [E EXCEPT ![w.role] = Tables(E[w.role], Substitute(w, "subject"), ok)]
<1> SUFFICES ASSUME NEW r \in scenario.roles PROVE AlikeHeld(G[r], H[r])
  BY DEF AlikeTables
<1>1. CASE r = w.role
  <2>1. D[r] \in Held /\ E[r] \in Held /\ AlikeHeld(D[r], E[r])
    BY DEF AlikeTables
  <2>2. AlikeHeld(Tables(D[r], Substitute(w, "oracle"), ok), Tables(E[r], Substitute(w, "subject"), ok))
    BY <2>1, TablesAlike
  <2>3. G[r] = Tables(D[r], Substitute(w, "oracle"), ok) /\ H[r] = Tables(E[r], Substitute(w, "subject"), ok)
    BY <1>1
  <2> QED BY <2>2, <2>3
<1>2. CASE r # w.role
  BY <1>2 DEF AlikeTables
<1> QED BY <1>1, <1>2

\* What an accepted scenario says of a step's command, and of the drivers of its role.
LEMMA AcceptedStep ==
  ASSUME scenario \in Scenarios, Accepted(scenario), NEW i \in DOMAIN scenario.steps
  PROVE  /\ scenario.steps[i] \in Commands /\ IsFiniteSet(scenario.steps[i].keys)
         /\ KeyTexts(scenario.steps[i]) \subseteq Keys
         /\ scenario.steps[i].op = "scan_locks" => scenario.steps[i].batch_size > 0
         /\ scenario.steps[i].role \in scenario.roles
         /\ Paired(Lang("oracle", i), Lang("subject", i))
<1> DEFINE w == scenario.steps[i]
<1>1. /\ IsScenario(scenario) /\ DOMAIN scenario.bind = Runs /\ scenario.compare = <<"oracle", "subject">>
      /\ \A a \in KeyTexts(w) : a.name \notin Runs
  BY ScenariosAssumption
<1>2. /\ w \in Commands /\ IsFiniteSet(w.keys)
      /\ \A run \in Runs : \A r \in DOMAIN scenario.bind[run] : scenario.bind[run][r] \in {"go", "rust"}
  BY <1>1 DEF IsScenario
<1>3. KeyTexts(w) \subseteq Texts
  BY <1>2 DEF KeyTexts, Commands
<1>4. /\ w.op = "scan_locks" => w.batch_size > 0
      /\ w.role \in scenario.roles /\ w.role \in Active(scenario)
      /\ \A run \in Runs : DOMAIN scenario.bind[run] = scenario.roles
      /\ FromGoToRust(scenario)
  BY <1>1 DEF Accepted, Active
<1>5. Paired(Lang("oracle", i), Lang("subject", i))
  <2>1. scenario.compare[1] = "oracle" /\ scenario.compare[2] = "subject"
    BY <1>1
  <2>2. "oracle" \in Runs /\ "subject" \in Runs
    BY DEF Runs
  <2>3. Lang("oracle", i) \in {"go", "rust"} /\ Lang("subject", i) \in {"go", "rust"}
    BY <1>2, <1>4, <2>2 DEF Lang
  <2>4. Lang("oracle", i) # Lang("subject", i) => Lang("oracle", i) = "go" /\ Lang("subject", i) = "rust"
    BY <1>4, <2>1 DEF FromGoToRust, Lang
  <2> QED BY <2>3, <2>4 DEF Paired
<1> QED BY <1>1, <1>2, <1>3, <1>4, <1>5 DEF Keys

\* A step of the subject's run whose clients, so far, have met the oracle's facts.
LEMMA SubjectStep ==
  ASSUME Shaped, Step, turn = "subject", apart' = {}, NEW T, NEW L, Travelled(T, L),
         AlikeTables(T[Len(obs["subject"])], tables)
  PROVE  \E i, g, b, e :
           /\ i = Len(obs["subject"]) + 1 /\ i \in DOMAIN scenario.steps /\ i \in DOMAIN obs["oracle"]
           /\ obs'["subject"] = Append(obs["subject"], b)
           /\ AlikeTables(T[i], tables')
           /\ Beside(scenario.steps[i], Lang("oracle", i), Lang("subject", i), T, L, i, locks, met[i], g,
                     obs["oracle"][i], b, kept[i])
           /\ Moves(g, b, i, e)
<1>1. /\ Len(obs["subject"]) < Len(scenario.steps)
      /\ scenario' = scenario /\ turn' = turn /\ "subject" \in Runs /\ "oracle" \in Runs
  BY StepShape DEF Runs
<1>2. PICK g, b, i, e : Moves(g, b, i, e)
  BY StepShape
<1> DEFINE w == scenario.steps[i]
           f == CommandAt("subject", i)
           t == tables[w.role]
           lang == Lang("oracle", i)
           tongue == Lang("subject", i)
           d == T[i - 1][w.role]
           c == CommandAt("oracle", i)
           m == met[i]
           a == obs["oracle"][i]
           k == kept[i]
<1>3. PICK n \in Nat : n = Len(obs["subject"]) /\ i = n + 1 /\ i - 1 = n
  <2>1. IsSeq(obs["subject"])
    BY <1>1 DEF Shaped
  <2>2. Len(obs["subject"]) \in Nat
    BY <2>1, Growing
  <2>3. i = Len(obs["subject"]) + 1
    BY <1>2 DEF Moves
  <2> QED BY <2>2, <2>3
<1>4. i \in DOMAIN scenario.steps
  BY <1>1, <1>3, Underway DEF Shaped
<1>5. i \in 1 .. Len(obs["oracle"]) /\ DOMAIN obs["oracle"] = 1 .. Len(obs["oracle"]) /\ Admissible(a)
  <2>1. Len(obs["oracle"]) = Len(scenario.steps) /\ Trusted(obs["oracle"])
    BY DEF Shaped
  <2>2. Len(obs["oracle"]) \in Nat /\ DOMAIN obs["oracle"] = 1 .. Len(obs["oracle"])
    BY <1>1, Growing DEF Shaped
  <2> QED BY <1>1, <1>3, <2>1, <2>2 DEF Trusted
<1>6. /\ w \in Commands /\ IsFiniteSet(w.keys) /\ KeyTexts(w) \subseteq Keys
      /\ w.op = "scan_locks" => w.batch_size > 0
      /\ w.role \in scenario.roles /\ Paired(lang, tongue)
  BY <1>4, AcceptedStep DEF Shaped
<1>7. Stride(w, lang, T[i - 1], T[i], L[i - 1], L[i], m, a, k)
  BY <1>5 DEF Travelled, Passed
<1>8. /\ c = Substitute(w, "oracle") /\ f = Substitute(w, "subject")
  BY DEF CommandAt, Prefix
<1>9. /\ Asked(lang, d, c, m) /\ OracleSaw(lang, d, c, m, L[i - 1], a)
      /\ T[i] = [T[i - 1] EXCEPT ![w.role] = Tables(d, c, a.class = "ok")]
  BY <1>7, <1>8 DEF Stride
<1>10. /\ Asked(tongue, t, f, g) /\ SubjectSaw(tongue, t, f, g, locks, b)
       /\ tables' = [tables EXCEPT ![w.role] = Tables(t, f, b.class = "ok")]
       /\ g = NotAsked \/ Same(g, m)
  <2>1. /\ IF Refuses(tongue, t, f) THEN g = NotAsked ELSE g \in Meets(tongue, f)
        /\ b = ObserveAs(tongue, t, f, g, locks, "subject")
        /\ tables' = [tables EXCEPT ![w.role] = Tables(t, f, b.class = "ok")]
        /\ apart' = IF g = NotAsked \/ Same(g, m) THEN apart ELSE apart \union {i}
    BY <1>2 DEF Moves
  <2> HIDE DEF f, t, tongue, m
  <2> QED BY <2>1 DEF Asked, SubjectSaw
<1>11. AlikeTables(T[i - 1], tables) /\ AlikeHeld(d, t)
  BY <1>3, <1>6 DEF AlikeTables
<1>12. obs'["subject"] = Append(obs["subject"], b)
  BY <1>1, <1>2 DEF Shaped, Moves
<1> HIDE DEF w, f, t, lang, tongue, d, c, m, a, k
<1>13. /\ b.class # "driver_error"
       /\ a.class = "ok" <=> b.class = "ok"
       /\ a.class = "not_found" <=> b.class = "not_found"
       /\ AnsweredAlike(lang, tongue, c, f, m, g, a, b, L[i - 1], locks) \/ FailedAlike(lang, tongue, c, f, m, g, a, b)
  BY <1>5, <1>6, <1>8, <1>9, <1>10, <1>11, StepAlike
<1>14. AlikeTables(T[i], tables')
  <2>1. T[i - 1] \in [scenario.roles -> Held] /\ tables \in [scenario.roles -> Held]
    BY <1>3, <1>5 DEF Travelled, Shaped
  <2>2. w.key \in Keys
    BY <1>6 DEF KeyTexts
  <2> DEFINE ok == a.class = "ok"
  <2>3. /\ T[i] = [T[i - 1] EXCEPT ![w.role] = Tables(T[i - 1][w.role], Substitute(w, "oracle"), ok)]
        /\ tables' = [tables EXCEPT ![w.role] = Tables(tables[w.role], Substitute(w, "subject"), ok)]
    BY <1>8, <1>9, <1>10, <1>13 DEF d, t
  <2>4. ok \in BOOLEAN
    OBVIOUS
  <2> HIDE DEF ok
  <2>5. AlikeTables([T[i - 1] EXCEPT ![w.role] = Tables(T[i - 1][w.role], Substitute(w, "oracle"), ok)],
                    [tables EXCEPT ![w.role] = Tables(tables[w.role], Substitute(w, "subject"), ok)])
    BY <1>6, <1>11, <2>1, <2>2, <2>4, AlikeAfter
  <2> QED BY <2>3, <2>5
<1>15. Beside(w, lang, tongue, T, L, i, locks, m, g, a, b, k)
  BY <1>3, <1>6, <1>7, <1>8, <1>13 DEF Beside
<1> QED BY <1>2, <1>3, <1>4, <1>5, <1>12, <1>14, <1>15 DEF w, lang, tongue, m, a, k

\* Drivers that were just started are alike.
LEMMA FreshAlike == AlikeTables(NoTables, NoTables)
BY DEF AlikeTables, AlikeHeld, NoTables, Fresh

\* Clients that met different facts, or left different locks, stay so.
LEMMA ApartGrows ==
  ASSUME Shaped, [Next]_vars
  PROVE  apart \subseteq apart' /\ strayed \subseteq strayed' /\ scenario' = scenario
<1>1. CASE Step
  <2>1. turn \in Runs /\ scenario' = scenario
    BY <1>1, StepShape
  <2>2. PICK m, o, i, e : Moves(m, o, i, e)
    BY <1>1, StepShape
  <2>3. apart \subseteq apart' /\ strayed \subseteq strayed'
    BY <2>1, <2>2 DEF Moves, Runs
  <2> QED BY <2>1, <2>3
<1>2. CASE NextRun \/ Compare \/ Refuse \/ UNCHANGED vars
  BY <1>2 DEF NextRun, Compare, Refuse, vars
<1> QED BY <1>1, <1>2 DEF Next

\* As long as the clients have met the same facts, the subject's drivers have the
\* tables that the oracle's had at the same step, and have not failed.
Followed ==
  /\ apart = {} => \A i \in DOMAIN obs["subject"] : obs["subject"][i].class # "driver_error"
  /\ \E T, L : /\ Travelled(T, L)
               /\ turn = "subject" /\ apart = {} => AlikeTables(T[Len(obs["subject"])], tables)

\* So it is before the first step,
LEMMA FollowedInitially == Init => Followed
<1> SUFFICES ASSUME Init PROVE Followed
  OBVIOUS
<1>1. Shaped
  BY ShapedInitially
<1>2. turn = "oracle" /\ tables = NoTables /\ locks = Leftover /\ apart = {}
      /\ obs["oracle"] = <<>> /\ obs["subject"] = <<>>
  BY DEF Init, Runs
<1> DEFINE T == [j \in 0 .. 0 |-> tables]
           L == [j \in 0 .. 0 |-> locks]
<1>3. Len(obs["oracle"]) = 0 /\ DOMAIN obs["subject"] = {}
  BY <1>2
<1>4. T[0] = tables /\ L[0] = locks
  OBVIOUS
<1>5. T \in [0 .. 0 -> [scenario.roles -> Held]] /\ L \in [0 .. 0 -> SUBSET LockRecords]
  BY <1>1 DEF Shaped
<1> HIDE DEF T, L
<1>6. Travelled(T, L)
  BY <1>2, <1>3, <1>4, <1>5 DEF Travelled
<1> QED BY <1>2, <1>3, <1>6 DEF Followed

\* and after each one: tables that are alike refuse the same commands, and commands
\* that end alike leave tables that are alike.
LEMMA FollowedInvariant == Shaped /\ Followed /\ [Next]_vars => Followed'
<1> SUFFICES ASSUME Shaped, Followed, [Next]_vars PROVE Followed'
  OBVIOUS
<1>1. PICK T, L : /\ Travelled(T, L)
                  /\ turn = "subject" /\ apart = {} => AlikeTables(T[Len(obs["subject"])], tables)
  BY DEF Followed
<1>2. apart \subseteq apart' /\ scenario' = scenario
  BY ApartGrows
<1>3. CASE Step /\ turn = "oracle"
  <2>1. \E U, M : Travelled(U, M)'
    BY <1>1, <1>3, TravelledFurther
  <2>2. turn' = "oracle"
    BY <1>3, StepShape
  <2>3. obs'["subject"] = <<>>
    BY <1>3, <2>2, ShapedInvariant DEF Shaped
  <2> QED BY <2>1, <2>2, <2>3 DEF Followed
<1>4. ASSUME ~(Step /\ turn = "oracle") PROVE Travelled(T, L)'
  BY <1>1, <1>4, TravelledKept
<1>5. CASE Step /\ turn = "subject"
  <2>1. turn' = turn
    BY <1>5, StepShape
  <2>2. CASE apart' = {}
    <3>1. PICK i, g, b :
            /\ i = Len(obs["subject"]) + 1
            /\ obs'["subject"] = Append(obs["subject"], b)
            /\ AlikeTables(T[i], tables')
            /\ b.class # "driver_error"
      BY <1>1, <1>2, <1>5, <2>2, SubjectStep DEF Beside
    <3>2. IsSeq(obs["subject"])
      BY DEF Shaped, Runs
    <3>3. Len(obs'["subject"]) = i
      BY <3>1, <3>2, Growing
    <3>4. AlikeTables(T[Len(obs["subject"])], tables)'
      BY <1>2, <3>1, <3>3 DEF AlikeTables
    <3>5. \A j \in DOMAIN obs'["subject"] : obs'["subject"][j].class # "driver_error"
      <4>1. \A j \in DOMAIN obs["subject"] : obs["subject"][j].class # "driver_error"
        BY <1>2, <2>2 DEF Followed
      <4> QED BY <3>1, <3>2, <4>1, Growing
    <3> QED BY <1>4, <1>5, <3>4, <3>5 DEF Followed
  <2>3. CASE apart' # {}
    BY <1>4, <1>5, <2>3 DEF Followed
  <2> QED BY <2>2, <2>3
<1>6. CASE NextRun
  <2>1. obs' = obs /\ apart' = {} /\ tables' = NoTables /\ obs["subject"] = <<>>
    BY <1>6 DEF NextRun, Shaped
  <2>2. T[0] = NoTables
    BY <1>1 DEF Travelled
  <2>3. Len(obs'["subject"]) = 0 /\ DOMAIN obs'["subject"] = {}
    BY <2>1
  <2>4. AlikeTables(T[Len(obs["subject"])], tables)'
    <3>1. AlikeTables(T[0], tables')
      BY <2>1, <2>2, FreshAlike
    <3> QED BY <1>2, <2>3, <3>1 DEF AlikeTables
  <2>5. ~Step
    BY <1>6 DEF NextRun, Step
  <2> QED BY <1>4, <2>3, <2>4, <2>5 DEF Followed
<1>7. CASE Compare \/ Refuse
  <2>1. obs' = obs /\ apart' = apart /\ turn' # "subject" /\ ~Step
    <3>1. CASE Compare
      <4>1. turn = "subject" /\ turn' = "compared" /\ scenario' = scenario /\ apart' = apart /\ obs' = obs
        BY <3>1 DEF Compare
      <4>2. ~Step
        BY <4>1 DEF Step
      <4> QED BY <4>1, <4>2
    <3>2. CASE Refuse
      <4>1. turn \in Runs /\ turn' = "refused" /\ obs' = obs /\ apart' = apart
        BY <3>2 DEF Refuse
      <4>2. ~Step
        BY <4>1 DEF Step, Runs
      <4> QED BY <4>1, <4>2
    <3> QED BY <1>7, <3>1, <3>2
  <2> QED BY <1>4, <2>1 DEF Followed
<1>8. CASE UNCHANGED vars
  <2>1. obs' = obs /\ apart' = apart /\ turn' = turn /\ tables' = tables
    BY <1>8 DEF vars
  <2>2. CASE Step /\ turn = "oracle"
    BY <1>3, <2>2
  <2>3. CASE ~(Step /\ turn = "oracle")
    BY <1>1, <1>2, <1>4, <2>1, <2>3 DEF Followed, AlikeTables
  <2> QED BY <2>2, <2>3
<1>9. CASE Step
  <2>1. turn \in Runs
    BY <1>9, StepShape
  <2> QED BY <1>3, <1>5, <1>9, <2>1 DEF Runs
<1> QED BY <1>6, <1>7, <1>8, <1>9 DEF Next

\* While the clients have met the same facts, no driver of the subject's run fails
\* in a scenario that was accepted and that the oracle's run got through: the two
\* drivers refuse, and blame the set-up for, the same.
THEOREM HarnessIsAlike == Spec => []HarnessFailsAlike
<1>1. Followed => HarnessFailsAlike
  BY DEF Followed, HarnessFailsAlike
<1> QED BY <1>1, ShapedInitially, ShapedInvariant, FollowedInitially, FollowedInvariant, PTL DEF Spec

-----------------------------------------------------------------------------
(* The locks of two runs                                                     *)

\* A run's own keys, by their names.
Names == STRING \ Runs
OwnKey(x, run) == <<run>> \o Following(x)

\* A command whose keys and bounds have the token at their front.
Front(w) == w \in Commands /\ KeyTexts(w) \subseteq Keys /\ \A a \in KeyTexts(w) : a.how # "inside"

\* An own key begins with the run's prefix, and its name may follow.
LEMMA OwnKeyShape ==
  ASSUME NEW x \in Names, NEW run \in Runs
  PROVE  LET k == OwnKey(x, run) IN
         /\ k \in Seq(Tokens) /\ k # <<>> /\ k[1] = run
         /\ x = NoName => k = <<run>> /\ Len(k) = 1
         /\ x # NoName => Len(k) = 2 /\ k[2] = x
<1>1. x \in Tokens /\ run \in Tokens
  BY DEF Names, Tokens
<1>2. CASE x = NoName
  <2>1. OwnKey(x, run) = <<run>> \o <<>>
    BY <1>2 DEF OwnKey, Following
  <2> QED BY <1>1, <1>2, <2>1
<1>3. CASE x # NoName
  <2>1. OwnKey(x, run) = <<run>> \o <<x>>
    BY <1>3 DEF OwnKey, Following
  <2>2. /\ <<run>> \in Seq(Tokens) /\ <<x>> \in Seq(Tokens)
        /\ Len(<<run>>) = 1 /\ <<run>>[1] = run /\ Len(<<x>>) = 1 /\ <<x>>[1] = x
    BY <1>1
  <2>3. <<run>> \o <<x>> \in Seq(Tokens)
    BY <2>2, Concatenated
  <2> DEFINE h == <<run>> \o <<x>>
  <2>4. Len(h) = 2 /\ h[1] = run /\ h[2] = x
    BY <2>2
  <2>5. h # <<>>
    BY <2>4
  <2> HIDE DEF h
  <2> QED BY <1>3, <2>1, <2>3, <2>4, <2>5 DEF h
<1> QED BY <1>2, <1>3

\* Names tell a run's keys apart.
LEMMA OwnKeysApart ==
  ASSUME NEW x \in Names, NEW y \in Names, NEW run \in Runs, OwnKey(x, run) = OwnKey(y, run)
  PROVE  x = y
<1>1. LET k == OwnKey(x, run) IN
      /\ x = NoName => Len(k) = 1
      /\ x # NoName => Len(k) = 2 /\ k[2] = x
  BY OwnKeyShape
<1>2. LET k == OwnKey(y, run) IN
      /\ y = NoName => Len(k) = 1
      /\ y # NoName => Len(k) = 2 /\ k[2] = y
  BY OwnKeyShape
<1> QED BY <1>1, <1>2

\* The order of a run's keys is that of their names, whichever the run.
LEMMA BeforeByName ==
  ASSUME NEW x \in Names, NEW y \in Names, NEW run \in Runs
  PROVE  Before(OwnKey(x, run), OwnKey(y, run)) <=> y # NoName /\ (x = NoName \/ Rank[x] < Rank[y])
<1> DEFINE s == OwnKey(x, run)
           t == OwnKey(y, run)
<1>1. /\ s[1] = run /\ (x = NoName => Len(s) = 1) /\ (x # NoName => Len(s) = 2 /\ s[2] = x)
      /\ t[1] = run /\ (y = NoName => Len(t) = 1) /\ (y # NoName => Len(t) = 2 /\ t[2] = y)
  BY OwnKeyShape
<1>2. ~(Rank[run] < Rank[run])
  BY RankAssumption
<1> HIDE DEF s, t
<1>3. ASSUME Before(s, t) PROVE y # NoName /\ (x = NoName \/ Rank[x] < Rank[y])
  <2>1. PICK n \in 1 .. Len(t) : n <= Len(s) + 1 /\ (n <= Len(s) => Rank[s[n]] < Rank[t[n]])
    BY <1>3 DEF Before
  <2>2. n # 1
    BY <1>1, <1>2, <2>1
  <2> QED BY <1>1, <2>1, <2>2
<1>4. ASSUME y # NoName, x = NoName \/ Rank[x] < Rank[y] PROVE Before(s, t)
  <2>1. Len(t) = 2 /\ t[2] = y /\ s[1] = t[1]
    BY <1>1, <1>4
  <2>2. 2 \in 1 .. Len(t) /\ \A j \in 1 .. 2 - 1 : s[j] = t[j]
    BY <2>1
  <2>3. CASE x = NoName
    <3>0. Len(s) = 1
      BY <1>1, <2>3
    <3>1. 2 <= Len(s) + 1 /\ ~(2 <= Len(s))
      BY <3>0
    <3> QED BY <2>2, <3>1 DEF Before
  <2>4. CASE x # NoName
    <3>1. 2 <= Len(s) + 1 /\ Rank[s[2]] < Rank[t[2]]
      BY <1>1, <1>4, <2>1, <2>4
    <3> QED BY <2>2, <3>1 DEF Before
  <2> QED BY <2>3, <2>4
<1> QED BY <1>3, <1>4 DEF s, t

\* So is what the prefix is redacted to.
LEMMA RedactedByName ==
  ASSUME NEW x \in Names, NEW p \in Runs, NEW q \in Runs
  PROVE  Redact(OwnKey(x, p), p) = Redact(OwnKey(x, q), q)
<1> DEFINE s == OwnKey(x, p)
           t == OwnKey(x, q)
<1>0. x # p /\ x # q
  BY DEF Names
<1>1. /\ s[1] = p /\ (x = NoName => Len(s) = 1) /\ (x # NoName => Len(s) = 2 /\ s[2] = x)
      /\ t[1] = q /\ (x = NoName => Len(t) = 1) /\ (x # NoName => Len(t) = 2 /\ t[2] = x)
      /\ s \in Seq(Tokens) /\ t \in Seq(Tokens)
  BY OwnKeyShape
<1> HIDE DEF s, t
<1>2. /\ DOMAIN s = DOMAIN t
      /\ \A i \in DOMAIN s : i = 1 \/ (x # NoName /\ i = 2)
  BY <1>1
<1>3. \A i \in DOMAIN s : (IF s[i] = p THEN PREFIX_TOKEN ELSE s[i]) = (IF t[i] = q THEN PREFIX_TOKEN ELSE t[i])
  BY <1>0, <1>1, <1>2
<1> QED BY <1>2, <1>3 DEF Redact, s, t

\* The keys and bounds of a command with the token at their front, by their names.
LEMMA FrontByName ==
  ASSUME NEW w, Front(w), NEW run \in Runs
  PROVE  LET c == Substitute(w, run) IN
         /\ c.op = w.op /\ c.session = w.session
         /\ w.key.name \in Names /\ c.key = OwnKey(w.key.name, run)
         /\ w.primary.name \in Names /\ c.primary = OwnKey(w.primary.name, run)
         /\ w.start.name \in Names /\ c.start = OwnKey(w.start.name, run)
         /\ w.end.name \in Names /\ c.end = OwnKey(w.end.name, run)
         /\ \A k \in w.keys : k.name \in Names /\ AsKey(k, run) = OwnKey(k.name, run)
         /\ c.keys = {AsKey(k, run) : k \in w.keys}
<1> DEFINE c == Substitute(w, run)
<1>1. w \in Commands /\ run \in Tokens
  BY DEF Front, Tokens
<1>2. /\ c.op = w.op /\ c.session = w.session /\ c.key = AsKey(w.key, run) /\ c.primary = AsKey(w.primary, run)
      /\ c.start = AsKey(w.start, run) /\ c.end = AsKey(w.end, run)
      /\ c.keys = {AsKey(k, run) : k \in w.keys}
  BY <1>1, SubstituteFields
<1>3. ASSUME NEW a \in KeyTexts(w) PROVE a.name \in Names /\ AsKey(a, run) = OwnKey(a.name, run)
  <2>1. a \in Keys /\ a.how # "inside"
    BY DEF Front
  <2>2. a.name \in Names
    BY <2>1 DEF Keys, Texts, Names
  <2> QED BY <2>1, <2>2 DEF AsKey, OwnKey
<1>4. /\ w.key \in KeyTexts(w) /\ w.primary \in KeyTexts(w) /\ w.start \in KeyTexts(w) /\ w.end \in KeyTexts(w)
      /\ \A k \in w.keys : k \in KeyTexts(w)
  BY DEF KeyTexts
<1> HIDE DEF c
<1> QED BY <1>2, <1>3, <1>4 DEF c

\* Names are told apart by redacted keys too, and by those of the other run.
LEMMA RedactedApart ==
  ASSUME NEW x \in Names, NEW y \in Names, NEW p \in Runs, NEW q \in Runs,
         Redact(OwnKey(x, p), p) = Redact(OwnKey(y, q), q)
  PROVE  x = y
<1> DEFINE s == OwnKey(x, p)
           t == OwnKey(y, p)
<1>1. Redact(s, p) = Redact(t, p)
  BY RedactedByName
<1>2. /\ s \in Seq(Tokens) /\ (x = NoName => Len(s) = 1) /\ (x # NoName => Len(s) = 2 /\ s[2] = x)
      /\ t \in Seq(Tokens) /\ (y = NoName => Len(t) = 1) /\ (y # NoName => Len(t) = 2 /\ t[2] = y)
  BY OwnKeyShape
<1>3. x # p /\ y # p
  BY DEF Names
<1> HIDE DEF s, t
<1>4. DOMAIN s = DOMAIN t
  <2>1. DOMAIN Redact(s, p) = DOMAIN s /\ DOMAIN Redact(t, p) = DOMAIN t
    BY DEF Redact
  <2> QED BY <1>1, <2>1
<1>5. Len(s) = Len(t)
  BY <1>2, <1>4
<1>6. CASE x = NoName \/ y = NoName
  BY <1>2, <1>5, <1>6
<1>7. CASE x # NoName /\ y # NoName
  <2>1. 2 \in DOMAIN s /\ 2 \in DOMAIN t
    BY <1>2, <1>7
  <2>2. Redact(s, p)[2] = x /\ Redact(t, p)[2] = y
    BY <1>2, <1>3, <1>7, <2>1 DEF Redact
  <2> QED BY <1>1, <2>2
<1> QED BY <1>6, <1>7

\* Locks at own keys, at most one at each: names tell them apart.
ByName(S, run) ==
  /\ \A l \in S : \E x \in Names : l.key = OwnKey(x, run)
  /\ \A l, h \in S : l.key = h.key => l = h

\* Of all locks, a run's own are such, and there are finitely many of them.
Tidy(L, run) == ByName(OwnOf(L, run), run) /\ IsFiniteSet(L)

\* A lock as the report shows it.
Seal(l, run) ==
  [key |-> Redact(l.key, run), primary |-> Redact(l.primary, run), kind |-> l.kind, ttl |-> bucket_ttl(l.ttl)]

\* Locks are shown one by one.
LEMMA ShownSeals ==
  ASSUME NEW S, NEW run
  PROVE  Shown(S, run) = {Seal(l, run) : l \in S}
BY DEF Shown, Seal

\* What is shown of a lock has the lock's key, redacted.
LEMMA SealFields ==
  ASSUME NEW l, NEW run
  PROVE  /\ Seal(l, run).key = Redact(l.key, run) /\ Seal(l, run).primary = Redact(l.primary, run)
         /\ Seal(l, run).kind = l.kind /\ Seal(l, run).ttl = bucket_ttl(l.ttl)
BY DEF Seal

\* Locks at own keys are told apart by what is shown of their keys.
LEMMA SealsApart ==
  ASSUME NEW run \in Runs, NEW S, ByName(S, run), NEW l \in S, NEW h \in S,
         Seal(l, run).key = Seal(h, run).key
  PROVE  l = h
<1>1. PICK x \in Names, y \in Names : l.key = OwnKey(x, run) /\ h.key = OwnKey(y, run)
  BY DEF ByName
<1>2. Redact(OwnKey(x, run), run) = Redact(OwnKey(y, run), run)
  BY <1>1, SealFields
<1>3. x = y
  BY <1>2, RedactedApart
<1> QED BY <1>1, <1>3 DEF ByName

\* An own lock is at an own key, and no other run's.
LEMMA OwnOfByName ==
  ASSUME NEW run \in Runs, NEW other \in Runs, NEW L, NEW l \in L, NEW x \in Names, l.key = OwnKey(x, run)
  PROVE  l \in OwnOf(L, other) <=> run = other
<1>1. /\ OwnKey(x, run) \in Seq(Tokens) /\ OwnKey(x, run)[1] = run
      /\ x = NoName => Len(OwnKey(x, run)) = 1
      /\ x # NoName => Len(OwnKey(x, run)) = 2 /\ OwnKey(x, run)[2] = x
  BY OwnKeyShape
<1>2. x # other
  BY DEF Names
<1>3. l \in OwnOf(L, other) <=> \E n \in DOMAIN l.key : l.key[n] = other
  BY DEF OwnOf, Of
<1>4. 1 \in DOMAIN l.key /\ \A n \in DOMAIN l.key : n = 1 \/ (x # NoName /\ n = 2)
  BY <1>1
<1> QED BY <1>1, <1>2, <1>3, <1>4

\* Where some locks of a run go and others come to keys without one, its locks are
\* those that it had but for those that went, and those that came.
LEMMA TidyAfter ==
  ASSUME NEW run \in Runs, NEW L, Tidy(L, run), NEW G, NEW N, ByName(N, run), IsFiniteSet(N),
         G \subseteq OwnOf(L, run), \A l \in N : \A h \in L \ G : h.key # l.key
  PROVE  /\ OwnOf((L \ G) \union N, run) = (OwnOf(L, run) \ G) \union N
         /\ Tidy((L \ G) \union N, run)
         /\ \A other \in Runs \ {run} : OwnOf((L \ G) \union N, other) \subseteq OwnOf(L, other)
<1> DEFINE M == (L \ G) \union N
<1>1. ASSUME NEW l \in N PROVE l \in OwnOf(M, run) /\ \A other \in Runs \ {run} : l \notin OwnOf(M, other)
  <2>1. PICK x \in Names : l.key = OwnKey(x, run)
    BY DEF ByName
  <2>2. l \in M
    OBVIOUS
  <2> HIDE DEF M
  <2> QED BY <2>1, <2>2, OwnOfByName
<1>2. \A l, other : l \in OwnOf(M, other) /\ l \notin N => l \in OwnOf(L, other) \ G
  BY DEF OwnOf
<1>3. \A l : l \in OwnOf(L, run) \ G => l \in OwnOf(M, run)
  BY DEF OwnOf
<1>4. OwnOf(M, run) = (OwnOf(L, run) \ G) \union N
  <2> HIDE DEF M
  <2>1. OwnOf(M, run) \subseteq (OwnOf(L, run) \ G) \union N
    BY <1>2
  <2>2. (OwnOf(L, run) \ G) \union N \subseteq OwnOf(M, run)
    BY <1>1, <1>3
  <2> QED BY <2>1, <2>2
<1>5. \A other \in Runs \ {run} : OwnOf(M, other) \subseteq OwnOf(L, other)
  <2> HIDE DEF M
  <2> QED BY <1>1, <1>2
<1>6. IsFiniteSet(M)
  <2>1. IsFiniteSet(L \ G)
    <3>1. L \ G \in SUBSET L
      OBVIOUS
    <3> QED BY <3>1, FS_Subset DEF Tidy
  <2> QED BY <2>1, FS_Union
<1>7. ByName((OwnOf(L, run) \ G) \union N, run)
  <2>1. OwnOf(L, run) \subseteq L
    BY DEF OwnOf
  <2> QED BY <2>1 DEF ByName, Tidy
<1> QED BY <1>4, <1>5, <1>6, <1>7 DEF Tidy

\* The oracle has, of L, the locks that the subject has of K, as they are shown.
AlikeLocks(L, K) == Shown(OwnOf(L, "oracle"), "oracle") = Shown(OwnOf(K, "subject"), "subject")

\* Locks that are shown alike are so when those go that are shown alike,
LEMMA RestShown ==
  ASSUME NEW run \in Runs, NEW S, ByName(S, run), NEW G, G \subseteq S
  PROVE  Shown(S \ G, run) = Shown(S, run) \ Shown(G, run)
<1>1. ASSUME NEW l \in S \ G PROVE Seal(l, run) \notin {Seal(h, run) : h \in G}
  <2> SUFFICES ASSUME NEW h \in G, Seal(l, run) = Seal(h, run) PROVE FALSE
    OBVIOUS
  <2>1. l = h
    BY SealsApart
  <2> QED BY <2>1
<1>2. {Seal(l, run) : l \in S \ G} = {Seal(l, run) : l \in S} \ {Seal(h, run) : h \in G}
  BY <1>1
<1> QED BY <1>2, ShownSeals

\* and with others, together with them.
LEMMA BothShown ==
  ASSUME NEW run, NEW S, NEW N
  PROVE  Shown(S \union N, run) = Shown(S, run) \union Shown(N, run)
BY DEF Shown

\* The keys that a driver's transactions hold, finitely many, and all of its run.
BufferKeys(d) == {b[2] : b \in d.buffer}
Prefixed(d, run) ==
  /\ IsFiniteSet(BufferKeys(d))
  /\ \A k \in BufferKeys(d) : \E x \in Names : k = OwnKey(x, run)

\* They are so after each command.
LEMMA PrefixedAfter ==
  ASSUME NEW w, Front(w), NEW run \in Runs, NEW d \in Held, Prefixed(d, run), NEW ok \in BOOLEAN
  PROVE  Prefixed(Tables(d, Substitute(w, run), ok), run)
<1> DEFINE c == Substitute(w, run)
           t == Tables(d, c, ok)
<1>1. w.key.name \in Names /\ c.key = OwnKey(w.key.name, run)
  BY FrontByName
<1> HIDE DEF c
<1>2. t.buffer \subseteq d.buffer \union {<<c.session, c.key>>}
  <2>1. t.buffer = IF c.op \in {"commit", "rollback", "abandon"} \/ (c.op = "begin" /\ ok)
                   THEN {b \in d.buffer : b[1] # c.session}
                   ELSE IF c.op = "put" /\ ok THEN d.buffer \union {<<c.session, c.key>>} ELSE d.buffer
    BY TablesFields
  <2> HIDE DEF t
  <2> QED BY <2>1
<1> HIDE DEF t
<1>3. BufferKeys(t) \subseteq BufferKeys(d) \union {c.key}
  BY <1>2 DEF BufferKeys
<1>4. IsFiniteSet(BufferKeys(t))
  <2>1. IsFiniteSet(BufferKeys(d) \union {c.key})
    BY FS_AddElement DEF Prefixed
  <2> QED BY <1>3, <2>1, FS_Subset
<1> QED BY <1>1, <1>3, <1>4 DEF Prefixed, t, c

\* The locks a command may leave are at finitely many keys, all of its run.
LEMMA LeavesByName ==
  ASSUME NEW w, Front(w), IsFiniteSet(w.keys), NEW run \in Runs, NEW d, Prefixed(d, run), NEW lang
  PROVE  \E B : /\ IsFiniteSet(B)
                /\ \A l \in MayLeave(lang, d, Substitute(w, run)) :
                     l.key \in B /\ \E x \in Names : l.key = OwnKey(x, run)
<1> DEFINE c == Substitute(w, run)
           B == (BufferKeys(d) \union c.keys) \union {c.key}
<1>1. /\ w.key.name \in Names /\ c.key = OwnKey(w.key.name, run)
      /\ \A k \in w.keys : k.name \in Names /\ AsKey(k, run) = OwnKey(k.name, run)
      /\ c.keys = {AsKey(k, run) : k \in w.keys}
  BY FrontByName
<1> HIDE DEF c
<1>2. IsFiniteSet(B)
  <2> DEFINE F == [k \in w.keys |-> AsKey(k, run)]
  <2>1. F \in Surjection(w.keys, c.keys)
    BY <1>1, Fun_IsSurj
  <2>2. IsFiniteSet(c.keys)
    BY <2>1, FS_Surjection
  <2>3. IsFiniteSet(BufferKeys(d) \union c.keys)
    BY <2>2, FS_Union DEF Prefixed
  <2> QED BY <2>3, FS_AddElement
<1>3. \A k \in B : \E x \in Names : k = OwnKey(x, run)
  BY <1>1 DEF Prefixed
<1>4. ASSUME NEW l \in MayLeave(lang, d, c) PROVE l.key \in B
  <2>1. {b[2] : b \in {b \in d.buffer : b[1] = c.session}} \subseteq BufferKeys(d)
    BY DEF BufferKeys
  <2> QED BY <1>4, <2>1 DEF MayLeave
<1> QED BY <1>2, <1>3, <1>4 DEF c

\* An effect that is apt: own locks go, and finitely many come, one at each of some
\* own keys that have none.
Apt(e, L, run) ==
  /\ ByName(e.new, run) /\ IsFiniteSet(e.new)
  /\ e.gone \subseteq OwnOf(L, run)
  /\ \A l \in e.new : \A h \in L \ e.gone : h.key # l.key

\* A command has such.
LEMMA EffectsAreApt ==
  ASSUME NEW w, Front(w), IsFiniteSet(w.keys), NEW run \in Runs, NEW d, Prefixed(d, run), NEW lang,
         NEW L, NEW m, NEW e \in EffectsOn(L, run, lang, d, Substitute(w, run), m)
  PROVE  Apt(e, L, run)
<1> DEFINE c == Substitute(w, run)
<1> HIDE DEF c
<1>1. /\ e.gone \subseteq OwnOf(L, run) /\ e.new \subseteq MayLeave(lang, d, c)
      /\ e.new \subseteq Vacant(L, e.gone, lang, d, c)
      /\ \A l, h \in e.new : l.key = h.key => l = h
  BY DEF EffectsOn, c
<1>2. PICK B : /\ IsFiniteSet(B)
               /\ \A l \in MayLeave(lang, d, c) : l.key \in B /\ \E x \in Names : l.key = OwnKey(x, run)
  BY LeavesByName DEF c
<1>3. ByName(e.new, run)
  BY <1>1, <1>2 DEF ByName
<1>4. IsFiniteSet(e.new)
  <2> DEFINE F == [l \in e.new |-> l.key]
  <2>1. F \in [e.new -> B] /\ \A l, h \in e.new : F[l] = F[h] => l = h
    BY <1>1, <1>2
  <2>2. F \in Injection(e.new, B)
    BY <2>1, Fun_IsInj
  <2> QED BY <1>2, <2>2, FS_Injection
<1>5. \A l \in e.new : \A h \in L \ e.gone : h.key # l.key
  BY <1>1 DEF Vacant
<1> QED BY <1>1, <1>3, <1>4, <1>5 DEF Apt

\* What is shown of one run's locks is shown of a lock of the other's, by the same name.
LEMMA Counterpart ==
  ASSUME NEW p \in Runs, NEW q \in Runs, NEW S, NEW T, ByName(T, q), Shown(S, p) \subseteq Shown(T, q),
         NEW l \in S, NEW x \in Names, l.key = OwnKey(x, p)
  PROVE  \E h \in T : h.key = OwnKey(x, q) /\ Seal(h, q) = Seal(l, p)
<1>1. PICK h \in T : Seal(h, q) = Seal(l, p)
  BY ShownSeals
<1>2. PICK y \in Names : h.key = OwnKey(y, q)
  BY DEF ByName
<1>3. Redact(OwnKey(y, q), q) = Redact(OwnKey(x, p), p)
  BY <1>1, <1>2, SealFields
<1>4. y = x
  BY <1>3, RedactedApart
<1> QED BY <1>1, <1>2, <1>4

\* The locks that a prewrite may leave.
LEMMA PrewriteLeaves ==
  ASSUME NEW lang, NEW d, NEW c, c.op = "prewrite_only"
  PROVE  MayLeave(lang, d, c) =
           {[key |-> k, primary |-> c.primary, kind |-> "Put", ttl |-> ORPHAN_LOCK_TTL_MS] : k \in c.keys}
<1>1. ~LocksAtPut(lang, d, c) /\ c.op # "commit"
  BY DEF LocksAtPut
<1>2. MayLeave(lang, d, c) =
        {[key |-> k, primary |-> h, kind |-> "Put", ttl |-> ORPHAN_LOCK_TTL_MS] : k \in c.keys, h \in {c.primary}}
  BY <1>1 DEF MayLeave
<1> QED BY <1>2

\* A prewrite that succeeds leaves in both runs what is shown alike.
LEMMA PrewriteShown ==
  ASSUME NEW w, Front(w), w.op = "prewrite_only", NEW p \in Runs, NEW q \in Runs,
         NEW L, NEW G, ByName(OwnOf(L, p), p), NEW K, NEW H,
         Shown(OwnOf(K, q) \ H, q) \subseteq Shown(OwnOf(L, p) \ G, p),
         NEW lang, NEW tongue, NEW d, NEW t
  PROVE  Shown(Vacant(L, G, lang, d, Substitute(w, p)), p) \subseteq Shown(Vacant(K, H, tongue, t, Substitute(w, q)), q)
<1> DEFINE c == Substitute(w, p)
           f == Substitute(w, q)
           Left(k, r) == [key |-> OwnKey(k.name, r), primary |-> OwnKey(w.primary.name, r), kind |-> "Put",
                          ttl |-> ORPHAN_LOCK_TTL_MS]
<1>1. /\ c.op = w.op /\ w.primary.name \in Names /\ c.primary = OwnKey(w.primary.name, p)
      /\ \A k \in w.keys : k.name \in Names /\ AsKey(k, p) = OwnKey(k.name, p)
      /\ c.keys = {AsKey(k, p) : k \in w.keys}
  BY FrontByName
<1>2. /\ f.op = w.op /\ f.primary = OwnKey(w.primary.name, q)
      /\ \A k \in w.keys : AsKey(k, q) = OwnKey(k.name, q)
      /\ f.keys = {AsKey(k, q) : k \in w.keys}
  BY FrontByName
<1> HIDE DEF c, f
<1>3. ASSUME NEW l \in MayLeave(lang, d, c) PROVE \E k \in w.keys : l = Left(k, p)
  <2>1. PICK h \in c.keys : l = [key |-> h, primary |-> c.primary, kind |-> "Put", ttl |-> ORPHAN_LOCK_TTL_MS]
    BY <1>1, <1>3, PrewriteLeaves
  <2>2. PICK k \in w.keys : h = OwnKey(k.name, p)
    BY <1>1
  <2> QED BY <1>1, <2>1, <2>2
<1>4. ASSUME NEW k \in w.keys PROVE Left(k, q) \in MayLeave(tongue, t, f)
  <2>1. OwnKey(k.name, q) \in f.keys
    BY <1>2
  <2> QED BY <1>2, <2>1, PrewriteLeaves
<1>5. ASSUME NEW l \in Vacant(L, G, lang, d, c) PROVE \E h \in Vacant(K, H, tongue, t, f) : Seal(l, p) = Seal(h, q)
  <2>1. PICK k \in w.keys : l = Left(k, p)
    BY <1>3 DEF Vacant
  <2> DEFINE g == Left(k, q)
  <2>2. k.name \in Names /\ l.key = OwnKey(k.name, p) /\ g.key = OwnKey(k.name, q)
    BY <1>1, <2>1
  <2>3. Seal(l, p) = Seal(g, q)
    BY <1>1, <2>1, <2>2, RedactedByName DEF Seal
  <2>4. g \in MayLeave(tongue, t, f)
    BY <1>4
  <2> HIDE DEF g
  <2>5. ASSUME NEW h \in K \ H, h.key = g.key PROVE FALSE
    <3>1. h \in OwnOf(K, q) \ H
      BY <2>2, <2>5, OwnOfByName
    <3>2. ByName(OwnOf(L, p) \ G, p)
      BY DEF ByName
    <3> DEFINE S == OwnOf(K, q) \ H
               T == OwnOf(L, p) \ G
    <3>3. h \in S /\ ByName(T, p) /\ Shown(S, q) \subseteq Shown(T, p) /\ h.key = OwnKey(k.name, q)
      BY <2>2, <2>5, <3>1, <3>2
    <3> HIDE DEF S, T
    <3>4. PICK j \in T : j.key = OwnKey(k.name, p)
      BY <2>2, <3>3, Counterpart
    <3>5. j \in L \ G
      BY DEF T, OwnOf
    <3> QED BY <2>2, <3>4, <3>5 DEF Vacant
  <2>6. g \in Vacant(K, H, tongue, t, f)
    BY <2>4, <2>5 DEF Vacant
  <2> QED BY <2>3, <2>6
<1> QED BY <1>5, ShownSeals DEF c, f

\* Where both runs' clients did the same to locks that are alike, they stay alike.
LEMMA LocksAlike ==
  ASSUME NEW w, Front(w), NEW p \in Runs, NEW q \in Runs, NEW L, NEW K, Tidy(L, p), Tidy(K, q),
         Shown(OwnOf(L, p), p) = Shown(OwnOf(K, q), q),
         NEW lang, NEW d, NEW m, NEW e \in EffectsOn(L, p, lang, d, Substitute(w, p), m), Apt(e, L, p),
         NEW tongue, NEW t, NEW g, NEW h \in EffectsOn(K, q, tongue, t, Substitute(w, q), g), Apt(h, K, q),
         NotedAs(Substitute(w, p), e, p) = NotedAs(Substitute(w, q), h, q),
         w.op = "prewrite_only" => \/ m = <<"lacks">> /\ g = <<"lacks">>
                                   \/ Succeeded(m) /\ Succeeded(g)
  PROVE  Shown(OwnOf((L \ e.gone) \union e.new, p), p) = Shown(OwnOf((K \ h.gone) \union h.new, q), q)
<1> DEFINE S == OwnOf(L, p)
           T == OwnOf(K, q)
           c == Substitute(w, p)
           f == Substitute(w, q)
<1>1. c.op = w.op /\ f.op = w.op
  BY FrontByName
<1>2. e \in EffectsOn(L, p, lang, d, c, m) /\ h \in EffectsOn(K, q, tongue, t, f, g)
  OBVIOUS
<1>3. /\ ByName(S, p) /\ e.gone \subseteq S
      /\ ByName(T, q) /\ h.gone \subseteq T
  BY DEF Apt, Tidy
<1>4. Shown(S, p) = Shown(T, q)
  OBVIOUS
<1>5. NotedAs(c, e, p) = NotedAs(f, h, q)
  OBVIOUS
<1> HIDE DEF S, T, c, f
<1>6. /\ Shown(e.gone, p) = Shown(h.gone, q)
      /\ w.op # "prewrite_only" => Shown(e.new, p) = Shown(h.new, q)
  BY <1>1, <1>5 DEF NotedAs
<1>7. Shown(S \ e.gone, p) = Shown(T \ h.gone, q)
  <2>1. Shown(S \ e.gone, p) = Shown(S, p) \ Shown(e.gone, p)
    BY <1>3, RestShown
  <2>2. Shown(T \ h.gone, q) = Shown(T, q) \ Shown(h.gone, q)
    BY <1>3, RestShown
  <2> QED BY <1>4, <1>6, <2>1, <2>2
<1>8. Shown(e.new, p) = Shown(h.new, q)
  <2>1. CASE w.op = "prewrite_only" /\ m = <<"lacks">> /\ g = <<"lacks">>
    <3>1. e = [gone |-> {}, new |-> {}] /\ h = [gone |-> {}, new |-> {}]
      BY <1>2, <2>1 DEF EffectsOn
    <3> QED BY <3>1 DEF Shown
  <2>2. CASE w.op = "prewrite_only" /\ Succeeded(m) /\ Succeeded(g)
    <3>1. m \notin {NotAsked, <<"lacks">>} /\ g \notin {NotAsked, <<"lacks">>}
      BY <2>2 DEF Succeeded, NotAsked, Answers
    <3>2. Settles(lang, d, c) /\ Settles(tongue, t, f)
      BY <1>1, <2>2 DEF Settles
    <3>3. e.new = Vacant(L, e.gone, lang, d, c) /\ h.new = Vacant(K, h.gone, tongue, t, f)
      BY <1>1, <1>2, <2>2, <3>1, <3>2 DEF EffectsOn
    <3>4. Shown(Vacant(L, e.gone, lang, d, c), p) \subseteq Shown(Vacant(K, h.gone, tongue, t, f), q)
      BY <1>3, <1>7, <2>2, PrewriteShown DEF S, T, c, f
    <3>5. Shown(Vacant(K, h.gone, tongue, t, f), q) \subseteq Shown(Vacant(L, e.gone, lang, d, c), p)
      BY <1>3, <1>7, <2>2, PrewriteShown DEF S, T, c, f
    <3> QED BY <3>3, <3>4, <3>5
  <2> QED BY <1>6, <2>1, <2>2
<1>9. OwnOf((L \ e.gone) \union e.new, p) = (S \ e.gone) \union e.new
  <2>1. /\ ByName(e.new, p) /\ IsFiniteSet(e.new) /\ e.gone \subseteq OwnOf(L, p)
        /\ \A l \in e.new : \A x \in L \ e.gone : x.key # l.key
    BY DEF Apt
  <2> QED BY <2>1, TidyAfter DEF S
<1>10. OwnOf((K \ h.gone) \union h.new, q) = (T \ h.gone) \union h.new
  <2>1. /\ ByName(h.new, q) /\ IsFiniteSet(h.new) /\ h.gone \subseteq OwnOf(K, q)
        /\ \A l \in h.new : \A x \in K \ h.gone : x.key # l.key
    BY DEF Apt
  <2> QED BY <2>1, TidyAfter DEF T
<1>11. /\ Shown((S \ e.gone) \union e.new, p) = Shown(S \ e.gone, p) \union Shown(e.new, p)
       /\ Shown((T \ h.gone) \union h.new, q) = Shown(T \ h.gone, q) \union Shown(h.new, q)
  BY BothShown
<1> QED BY <1>7, <1>8, <1>9, <1>10, <1>11

\* A scan of a run's own range sees its own locks.
LEMMA SeenOwn ==
  ASSUME NEW w, Front(w), NEW run \in Runs, NEW L \in SUBSET LockRecords
  PROVE  SeenIn(L, Substitute(w, run)) \subseteq OwnOf(L, run)
<1> DEFINE c == Substitute(w, run)
<1> SUFFICES ASSUME NEW l \in SeenIn(L, c) PROVE l \in OwnOf(L, run)
  OBVIOUS
<1>1. /\ w.start.name \in Names /\ c.start = OwnKey(w.start.name, run)
      /\ w.end.name \in Names /\ c.end = OwnKey(w.end.name, run)
  BY FrontByName
<1>2. l \in L /\ l.key \in Seq(Tokens) /\ ~Before(l.key, c.start) /\ Before(l.key, c.end)
  BY DEF SeenIn, LockRecords
<1>3. Following(w.start.name) \in Seq(Tokens) /\ Following(w.end.name) \in Seq(Tokens)
  BY <1>1, FollowingIsBytes DEF Names
<1> HIDE DEF c
<1>4. l.key # <<>> /\ l.key[1] = run
  BY <1>1, <1>2, <1>3, BetweenIsOwn DEF OwnKey
<1>5. 1 \in DOMAIN l.key
  BY <1>2, <1>4
<1> QED BY <1>2, <1>4, <1>5 DEF OwnOf, Of

\* Of locks that are shown alike, the two runs' scans see the same.
LEMMA SeenShown ==
  ASSUME NEW w, Front(w), NEW p \in Runs, NEW q \in Runs,
         NEW L \in SUBSET LockRecords, ByName(OwnOf(L, p), p), NEW K \in SUBSET LockRecords, ByName(OwnOf(K, q), q),
         Shown(OwnOf(L, p), p) \subseteq Shown(OwnOf(K, q), q)
  PROVE  Shown(SeenIn(L, Substitute(w, p)), p) \subseteq Shown(SeenIn(K, Substitute(w, q)), q)
<1> DEFINE c == Substitute(w, p)
           f == Substitute(w, q)
           s == w.start.name
           t == w.end.name
<1>1. s \in Names /\ t \in Names /\ c.start = OwnKey(s, p) /\ c.end = OwnKey(t, p)
  BY FrontByName
<1>2. f.start = OwnKey(s, q) /\ f.end = OwnKey(t, q)
  BY FrontByName
<1>3. SeenIn(L, c) \subseteq OwnOf(L, p)
  BY SeenOwn
<1> HIDE DEF c, f, s, t
<1>4. ASSUME NEW l \in SeenIn(L, c) PROVE \E h \in SeenIn(K, f) : Seal(h, q) = Seal(l, p)
  <2>1. l \in OwnOf(L, p) /\ ~Before(l.key, c.start) /\ Before(l.key, c.end)
    BY <1>3 DEF SeenIn
  <2>2. PICK x \in Names : l.key = OwnKey(x, p)
    BY <2>1 DEF ByName
  <2> DEFINE S == OwnOf(L, p)
             T == OwnOf(K, q)
  <2>3. l \in S /\ ByName(T, q) /\ Shown(S, p) \subseteq Shown(T, q)
    BY <2>1
  <2> HIDE DEF S, T
  <2>4. PICK h \in T : h.key = OwnKey(x, q) /\ Seal(h, q) = Seal(l, p)
    BY <2>2, <2>3, Counterpart
  <2>5. /\ Before(OwnKey(x, p), OwnKey(s, p)) <=> Before(OwnKey(x, q), OwnKey(s, q))
        /\ Before(OwnKey(x, p), OwnKey(t, p)) <=> Before(OwnKey(x, q), OwnKey(t, q))
    BY <1>1, BeforeByName
  <2>6. h \in K
    BY DEF T, OwnOf
  <2>7. h \in SeenIn(K, f)
    BY <1>1, <1>2, <2>1, <2>2, <2>4, <2>5, <2>6 DEF SeenIn
  <2> QED BY <2>4, <2>7
<1> QED BY <1>4, ShownSeals DEF c, f

\* As many locks are shown as there are.
LEMMA Counted ==
  ASSUME NEW run \in Runs, NEW S, ByName(S, run), IsFiniteSet(S)
  PROVE  Cardinality(S) = Cardinality(Shown(S, run))
<1> DEFINE X == Shown(S, run)
           F == [l \in S |-> Seal(l, run)]
<1>1. X = {Seal(l, run) : l \in S}
  BY ShownSeals
<1> HIDE DEF X
<1>2. F \in [S -> X] /\ \A x \in X : \E l \in S : F[l] = x
  BY <1>1
<1>3. ASSUME NEW l \in S, NEW h \in S, F[l] = F[h] PROVE l = h
  <2>1. Seal(l, run).key = Seal(h, run).key
    BY <1>3
  <2> QED BY <2>1, SealsApart
<1>4. F \in Bijection(S, X)
  BY <1>2, <1>3, Fun_IsBij
<1>5. ExistsBijection(S, X)
  BY <1>4 DEF ExistsBijection
<1> QED BY <1>5, FS_Bijection DEF X

\* A lock as a driver reports it.
Entry(table, h) == [h EXCEPT !.kind = table[@]]

\* It has the key, the primary and the TTL of the lock, and the kind's name.
LEMMA EntryFields ==
  ASSUME NEW h \in LockRecords, NEW table
  PROVE  /\ Entry(table, h).key = h.key /\ Entry(table, h).primary = h.primary /\ Entry(table, h).ttl = h.ttl
         /\ Entry(table, h).kind = table[h.kind]
<1> DEFINE kind == table[h.kind]
<1>1. Entry(table, h) = [h EXCEPT !.kind = kind]
  BY DEF Entry
<1> HIDE DEF kind
<1> QED BY <1>1 DEF LockRecords, kind

\* The locks of a driver's report are at own keys when the cluster's are.
LEMMA ReportedByName ==
  ASSUME NEW S \in SUBSET LockRecords, NEW run, ByName(S, run), IsFiniteSet(S), NEW table
  PROVE  ByName(LockObs(table, S), run) /\ IsFiniteSet(LockObs(table, S))
<1>1. LockObs(table, S) = {Entry(table, h) : h \in S}
  BY DEF LockObs, Entry
<1>2. ByName(LockObs(table, S), run)
  <2>1. \A h \in S : Entry(table, h).key = h.key
    BY EntryFields
  <2> QED BY <1>1, <2>1 DEF ByName
<1>3. IsFiniteSet(LockObs(table, S))
  <2> DEFINE F == [h \in S |-> Entry(table, h)]
  <2>1. F \in Surjection(S, LockObs(table, S))
    BY <1>1, Fun_IsSurj
  <2> QED BY <2>1, FS_Surjection
<1> QED BY <1>2, <1>3

\* What is shown of a report depends on what would be shown of the locks.
LEMMA ReportedShown ==
  ASSUME NEW S \in SUBSET LockRecords, NEW T \in SUBSET LockRecords, NEW p, NEW q,
         Shown(S, p) \subseteq Shown(T, q), NEW table
  PROVE  Shown(LockObs(table, S), p) \subseteq Shown(LockObs(table, T), q)
<1>1. /\ LockObs(table, S) = {Entry(table, h) : h \in S}
      /\ LockObs(table, T) = {Entry(table, h) : h \in T}
  BY DEF LockObs, Entry
<1>2. ASSUME NEW l \in S PROVE \E h \in T : Seal(Entry(table, h), q) = Seal(Entry(table, l), p)
  <2>1. PICK h \in T : Seal(h, q) = Seal(l, p)
    BY ShownSeals
  <2>2. /\ Redact(h.key, q) = Redact(l.key, p) /\ Redact(h.primary, q) = Redact(l.primary, p)
        /\ h.kind = l.kind /\ bucket_ttl(h.ttl) = bucket_ttl(l.ttl)
    BY <2>1, SealFields
  <2>3. Seal(Entry(table, h), q) = Seal(Entry(table, l), p)
    BY <2>2, EntryFields DEF Seal
  <2> QED BY <2>3
<1> QED BY <1>1, <1>2, ShownSeals

\* The scans of both runs report as many locks, and the same ones.
LEMMA ScansAlike ==
  ASSUME NEW w, Front(w), NEW p \in Runs, NEW q \in Runs,
         NEW L \in SUBSET LockRecords, Tidy(L, p), NEW K \in SUBSET LockRecords, Tidy(K, q),
         Shown(OwnOf(L, p), p) = Shown(OwnOf(K, q), q), NEW table
  PROVE  LET S == LockObs(table, SeenIn(L, Substitute(w, p)))
             T == LockObs(table, SeenIn(K, Substitute(w, q)))
         IN Cardinality(S) = Cardinality(T) /\ Shown(S, p) = Shown(T, q)
<1> DEFINE X == SeenIn(L, Substitute(w, p))
           Y == SeenIn(K, Substitute(w, q))
           S == LockObs(table, X)
           T == LockObs(table, Y)
<1>1. X \subseteq OwnOf(L, p) /\ Y \subseteq OwnOf(K, q) /\ X \subseteq L /\ Y \subseteq K
  BY SeenOwn DEF SeenIn
<1>2. ByName(OwnOf(L, p), p) /\ ByName(OwnOf(K, q), q)
  BY DEF Tidy
<1>3. Shown(X, p) \subseteq Shown(Y, q) /\ Shown(Y, q) \subseteq Shown(X, p)
  BY <1>2, SeenShown
<1> HIDE DEF X, Y
<1>4. ByName(X, p) /\ ByName(Y, q)
  BY <1>1, <1>2 DEF ByName
<1>5. IsFiniteSet(X) /\ IsFiniteSet(Y)
  BY <1>1, FS_Subset DEF Tidy
<1>6. X \in SUBSET LockRecords /\ Y \in SUBSET LockRecords
  BY <1>1
<1>7. ByName(S, p) /\ IsFiniteSet(S) /\ ByName(T, q) /\ IsFiniteSet(T)
  BY <1>4, <1>5, <1>6, ReportedByName
<1>8. Shown(S, p) = Shown(T, q)
  <2>1. Shown(S, p) \subseteq Shown(T, q)
    BY <1>3, <1>6, ReportedShown
  <2>2. Shown(T, q) \subseteq Shown(S, p)
    BY <1>3, <1>6, ReportedShown
  <2> QED BY <2>1, <2>2
<1> HIDE DEF S, T
<1>9. Cardinality(S) = Cardinality(Shown(S, p)) /\ Cardinality(T) = Cardinality(Shown(T, q))
  BY <1>7, Counted
<1> QED BY <1>8, <1>9 DEF S, T, X, Y

-----------------------------------------------------------------------------
(* Equal projections                                                         *)

\* Observations whose fields are alike do not differ, but for a proto that one has
\* and the other has not.
AlikeFields(a, p, b, q) ==
  /\ a.class = b.class /\ Redact(a.value, p) = Redact(b.value, q)
  /\ Cardinality(a.locks) = Cardinality(b.locks) /\ Shown(a.locks, p) = Shown(b.locks, q)
  /\ a.commit_ts = b.commit_ts
  /\ a.class = "unsupported" => a.detail = b.detail
  /\ a.class = "mixed" => Unordered(a.parts) = Unordered(b.parts)

\* What is projected of an observation besides its proto.
Bare(o, p) ==
  {<<"class", o.class>>,
   <<"value", Redact(o.value, p)>>,
   <<"locks.count", Cardinality(o.locks)>>,
   <<"locks", Shown(o.locks, p)>>,
   <<"commit_ts", o.commit_ts>>}
  \union (IF o.class = "unsupported" THEN {<<"unsupported.detail", o.detail>>} ELSE {})
  \union (IF o.class = "mixed" THEN {<<"class.parts", Unordered(o.parts)>>} ELSE {})

\* It is the same of fields that are alike.
LEMMA SameBare ==
  ASSUME NEW a, NEW p, NEW b, NEW q, AlikeFields(a, p, b, q)
  PROVE  Bare(a, p) = Bare(b, q)
<1>1. CASE a.class = "mixed"
  BY <1>1 DEF Bare, AlikeFields
<1>2. CASE a.class = "unsupported"
  BY <1>2 DEF Bare, AlikeFields
<1>3. CASE a.class \notin {"mixed", "unsupported"}
  BY <1>3 DEF Bare, AlikeFields
<1> QED BY <1>1, <1>2, <1>3

\* A projection, and what of it is the proto's.
OfProto(o) ==
  {<<"proto.present", o.proto # None>>} \union (IF o.proto # None THEN {<<"proto.type", o.proto>>} ELSE {})

\* Observations with the same fields differ nowhere but in their protos.
LEMMA SameProjection ==
  ASSUME NEW a, NEW p, NEW b, NEW q, AlikeFields(a, p, b, q)
  PROVE  /\ Differ(a, p, b, q) \subseteq {"proto.present", "proto.type"}
         /\ a.proto = b.proto => Differ(a, p, b, q) = {}
<1> DEFINE A == Project(a, p)
           B == Project(b, q)
<1>1. A = Bare(a, p) \union OfProto(a) /\ B = Bare(b, q) \union OfProto(b)
  BY DEF Project, Bare, OfProto
<1>2. Bare(a, p) = Bare(b, q)
  BY SameBare
<1>3. \A x \in OfProto(a) \union OfProto(b) : x[1] \in {"proto.present", "proto.type"}
  BY DEF OfProto
<1> HIDE DEF A, B
<1>4. \A x \in (A \ B) \union (B \ A) : x[1] \in {"proto.present", "proto.type"}
  BY <1>1, <1>2, <1>3
<1>5. ASSUME a.proto = b.proto PROVE A = B
  <2>1. OfProto(a) = OfProto(b)
    BY <1>5 DEF OfProto
  <2> QED BY <1>1, <1>2, <2>1
<1>6. Differ(a, p, b, q) = {x[1] : x \in (A \ B) \union (B \ A)}
  BY DEF Differ, A, B
<1>7. Differ(a, p, b, q) \subseteq {"proto.present", "proto.type"}
  BY <1>4, <1>6
<1>8. a.proto = b.proto => Differ(a, p, b, q) = {}
  BY <1>5, <1>6
<1> QED BY <1>7, <1>8

\* A value that holds no prefix is the same after redaction, and so is one that
\* holds the run's own.
LEMMA RedactedAlike ==
  ASSUME NEW p \in Runs, NEW q \in Runs
  PROVE  /\ Redact(<<None>>, p) = Redact(<<None>>, q)
         /\ Redact(<<"v">>, p) = Redact(<<"v">>, q)
         /\ Redact(<<p, "v">>, p) = Redact(<<q, "v">>, q)
<1>1. ASSUME NEW v, v \notin Runs PROVE Redact(<<v>>, p) = Redact(<<v>>, q)
  <2>1. DOMAIN <<v>> = {1} /\ <<v>>[1] = v /\ v # p /\ v # q
    BY <1>1
  <2> QED BY <2>1 DEF Redact
<1>2. ASSUME NEW v, v \notin Runs PROVE Redact(<<p, v>>, p) = Redact(<<q, v>>, q)
  <2>1. /\ DOMAIN <<p, v>> = {1, 2} /\ <<p, v>>[1] = p /\ <<p, v>>[2] = v
        /\ DOMAIN <<q, v>> = {1, 2} /\ <<q, v>>[1] = q /\ <<q, v>>[2] = v
        /\ v # p /\ v # q
    BY <1>2
  <2> QED BY <2>1 DEF Redact
<1>3. None \notin Runs /\ "v" \notin Runs
  BY DEF None, Runs
<1> QED BY <1>1, <1>2, <1>3

\* The same failures, as often, have the same classes, as often.
LEMMA FactsTellParts ==
  ASSUME NEW m \in Seq(RustFacts), NEW g \in Seq(RustFacts), Unordered(m) = Unordered(g)
  PROVE  Unordered(ClassesOf(m)) = Unordered(ClassesOf(g))
<1> DEFINE Places(s, f) == {i \in DOMAIN s : s[i] = f}
           Elements(s) == {s[i] : i \in DOMAIN s}
<1>0. \A s \in {m, g, ClassesOf(m), ClassesOf(g)} : Unordered(s) = [f \in Elements(s) |-> Cardinality(Places(s, f))]
  BY DEF Unordered
<1>1. \A f \in RustFacts, h \in RustFacts : RustClass[f] = RustClass[h] => f = h
  BY ClassPerFact
<1>2. \A s \in {m, g} : \A i \in DOMAIN s : s[i] \in RustFacts
  OBVIOUS
<1>3. ASSUME NEW s \in {m, g}
      PROVE  /\ Elements(ClassesOf(s)) = {RustClass[f] : f \in Elements(s)}
             /\ \A f \in RustFacts : Places(ClassesOf(s), RustClass[f]) = Places(s, f)
  <2>1. DOMAIN ClassesOf(s) = DOMAIN s /\ \A i \in DOMAIN s : ClassesOf(s)[i] = RustClass[s[i]]
    BY DEF ClassesOf
  <2>2. \A f \in RustFacts : Places(ClassesOf(s), RustClass[f]) = Places(s, f)
    BY <1>1, <1>2, <2>1
  <2>3. Elements(ClassesOf(s)) = {RustClass[f] : f \in Elements(s)}
    BY <2>1
  <2> QED BY <2>2, <2>3
<1>4. Elements(m) = Elements(g) /\ Elements(m) \subseteq RustFacts
  <2>1. DOMAIN Unordered(m) = Elements(m) /\ DOMAIN Unordered(g) = Elements(g)
    BY <1>0
  <2> QED BY <1>2, <2>1
<1>5. \A f \in Elements(m) : Cardinality(Places(m, f)) = Cardinality(Places(g, f))
  <2> HIDE DEF Elements, Places
  <2> SUFFICES ASSUME NEW f \in Elements(m) PROVE Cardinality(Places(m, f)) = Cardinality(Places(g, f))
    OBVIOUS
  <2>1. Unordered(m)[f] = Cardinality(Places(m, f)) /\ Unordered(g)[f] = Cardinality(Places(g, f))
    BY <1>0, <1>4
  <2> QED BY <2>1
<1> HIDE DEF Elements, Places
<1>6. Elements(ClassesOf(m)) = Elements(ClassesOf(g))
  BY <1>3, <1>4
<1>7. ASSUME NEW x \in Elements(ClassesOf(m))
      PROVE  Cardinality(Places(ClassesOf(m), x)) = Cardinality(Places(ClassesOf(g), x))
  <2>1. PICK f \in Elements(m) : x = RustClass[f]
    BY <1>3
  <2> QED BY <1>3, <1>4, <1>5, <2>1
<1> QED BY <1>0, <1>6, <1>7

\* The protos of the two tables are the same, but for that of a retryable failure.
LEMMA ProtosAgree ==
  ASSUME NEW f \in RustFacts, GoClass(f) \notin InadmissibleClasses, f # "retryable"
  PROVE  GoProto(f) = RustProto(f)
BY DEF RustFacts, GoClass, GoProto, RustProto, InadmissibleClasses, KeyErrors

\* At these paths two steps may differ though the clients met the same facts: of a
\* retryable failure one of two different drivers gives no proto.
Excused(lang, tongue, m, paths) ==
  \/ paths = {}
  \/ /\ paths \subseteq {"proto.present", "proto.type"} /\ lang # tongue
     /\ \A n \in DOMAIN m : m[n] = "retryable"

\* Two clients that failed alike are projected alike, but for that.
LEMMA FailedSame ==
  ASSUME NEW lang, NEW tongue, Paired(lang, tongue), NEW c, NEW f, c.op = f.op, NEW m, NEW g, NEW a, NEW b,
         FailedAlike(lang, tongue, c, f, m, g, a, b), Admissible(b), NEW p \in Runs, NEW q \in Runs
  PROVE  Excused(lang, tongue, m, Differ(a, p, b, q))
<1>1. /\ m \in Seq(RustFacts) /\ m # <<>> /\ g \in Seq(RustFacts) /\ g # <<>> /\ Same(g, m)
      /\ FailureOf(lang, c, m, a) /\ FailureOf(tongue, f, g, b)
  BY DEF FailedAlike
<1>2. /\ AllOne(m) => AllOne(g) /\ g[1] = m[1]
      /\ AllOne(g) => AllOne(m)
      /\ ~AllOne(m) => Unordered(g) = Unordered(m)
  BY <1>1, SameTags DEF IsSeq
<1>3. FailsAs(lang, c, m, a) /\ FailsAs(tongue, f, g, b)
  BY <1>1, FailureShown
<1>4. m[1] \in RustFacts
  BY <1>1
<1>5. AlikeFields(a, p, b, q)
  <2>1. Redact(a.value, p) = Redact(b.value, q)
    <3>1. a.value = <<None>> /\ b.value = <<None>>
      BY <1>3 DEF FailsAs
    <3> QED BY <3>1, RedactedAlike
  <2>2. Cardinality(a.locks) = Cardinality(b.locks) /\ Shown(a.locks, p) = Shown(b.locks, q)
    <3>1. a.locks = {} /\ b.locks = {}
      BY <1>3 DEF FailsAs
    <3>2. Shown({}, p) = {} /\ Shown({}, q) = {}
      BY DEF Shown
    <3> QED BY <3>1, <3>2
  <2>3. a.commit_ts = b.commit_ts
    BY <1>3 DEF FailsAs
  <2>4. a.class = b.class /\ a.detail = b.detail /\ (a.class = "mixed" => Unordered(a.parts) = Unordered(b.parts))
    <3>1. CASE AllOne(m)
      <4>1. /\ a.class = RustClass[m[1]] /\ a.detail = RustDetail(c, m[1])
            /\ b.class = RustClass[m[1]] /\ b.detail = RustDetail(f, m[1])
        BY <1>2, <1>3, <3>1 DEF FailsAs
      <4>2. RustDetail(c, m[1]) = RustDetail(f, m[1])
        BY DEF RustDetail
      <4>3. RustClass[m[1]] # "mixed"
        BY <1>4, ClassPerFact
      <4> QED BY <4>1, <4>2, <4>3
    <3>2. CASE ~AllOne(m)
      <4>1. a.class = "mixed" /\ a.parts = ClassesOf(m) /\ a.detail = None
        BY <1>3, <3>2 DEF FailsAs
      <4>2. b.class = "mixed" /\ b.parts = ClassesOf(g) /\ b.detail = None
        BY <1>2, <1>3, <3>2 DEF FailsAs
      <4>3. Unordered(ClassesOf(m)) = Unordered(ClassesOf(g))
        BY <1>1, <1>2, <3>2, FactsTellParts
      <4> QED BY <4>1, <4>2, <4>3
    <3> QED BY <3>1, <3>2
  <2> QED BY <2>1, <2>2, <2>3, <2>4 DEF AlikeFields
<1>6. ASSUME a.proto # b.proto PROVE lang # tongue /\ \A n \in DOMAIN m : m[n] = "retryable"
  <2>1. AllOne(m) /\ AllOne(g)
    <3>1. ASSUME ~AllOne(m) PROVE a.proto = None /\ b.proto = None
      BY <1>2, <1>3, <3>1 DEF FailsAs
    <3> QED BY <1>2, <1>6, <3>1
  <2>2. /\ a.proto = IF lang = "go" THEN GoProto(m[1]) ELSE RustProto(m[1])
        /\ b.proto = IF tongue = "go" THEN GoProto(m[1]) ELSE RustProto(m[1])
    BY <1>2, <1>3, <2>1 DEF FailsAs
  <2>3. lang # tongue
    BY <1>6, <2>2
  <2>4. lang = "go" /\ tongue = "rust"
    BY <2>3 DEF Paired
  <2>5. GoClass(m[1]) \notin InadmissibleClasses
    BY <1>1, <2>4 DEF FailureOf
  <2>6. m[1] = "retryable"
    BY <1>4, <1>6, <2>2, <2>4, <2>5, ProtosAgree
  <2>7. 1 \in DOMAIN m
    BY <1>1
  <2> QED BY <2>1, <2>3, <2>6, <2>7 DEF AllOne
<1>7. /\ Differ(a, p, b, q) \subseteq {"proto.present", "proto.type"}
      /\ a.proto = b.proto => Differ(a, p, b, q) = {}
  BY <1>5, SameProjection
<1> QED BY <1>6, <1>7 DEF Excused

\* Two clients that gave the same answer are projected alike, if their scans are.
LEMMA AnsweredSame ==
  ASSUME NEW c, NEW f, c.op = f.op, NEW h \in Successes(c), NEW p \in Runs, NEW q \in Runs, NEW S, NEW T,
         Cardinality(S) = Cardinality(T), Shown(S, p) = Shown(T, q),
         NEW a, a = Answer(c, <<h>>, S, p), NEW b, b = Answer(f, <<h>>, T, q)
  PROVE  Differ(a, p, b, q) = {}
<1>0. Shown({}, p) = {} /\ Shown({}, q) = {} /\ h \in Successes(f)
  BY DEF Shown, Successes
<1>1. ASSUME a.class = b.class, a.class \notin {"mixed", "unsupported"}, Redact(a.value, p) = Redact(b.value, q),
             Cardinality(a.locks) = Cardinality(b.locks), Shown(a.locks, p) = Shown(b.locks, q),
             a.commit_ts = b.commit_ts, a.proto = b.proto
      PROVE  Differ(a, p, b, q) = {}
  <2>1. AlikeFields(a, p, b, q)
    BY <1>1 DEF AlikeFields
  <2> QED BY <1>1, <2>1, SameProjection
<1>2. CASE c.op = "commit"
  <2>0. PICK t \in BOOLEAN : t = (h = "ok")
    OBVIOUS
  <2>1. a = [New("ok") EXCEPT !.commit_ts = (h = "ok")]
    BY <1>2, Answers1
  <2>3. b = [New("ok") EXCEPT !.commit_ts = (h = "ok")]
    <3>1. f.op = "commit"
      BY <1>2
    <3> QED BY <1>0, <3>1, Answers1
  <2>4. a = [New("ok") EXCEPT !.commit_ts = t]
    BY <2>0, <2>1
  <2>5. a.class = "ok" /\ a.value = <<None>> /\ a.locks = {}
    BY <2>4 DEF New
  <2>2. a = b /\ a.class = "ok" /\ a.value = <<None>> /\ a.locks = {}
    BY <2>1, <2>3, <2>5
  <2> QED BY <1>0, <1>1, <2>2, RedactedAlike
<1>3. CASE c.op \in {"get", "snapshot_get"}
  <2>1. ASSUME NEW u, NEW v, Redact(u, p) = Redact(v, q),
               a = [New("ok") EXCEPT !.value = u], b = [New("ok") EXCEPT !.value = v]
        PROVE  Differ(a, p, b, q) = {}
    <3>1. a.class = "ok" /\ a.value = u /\ a.locks = {} /\ a.commit_ts = New("ok").commit_ts /\ a.proto = New("ok").proto
      BY <2>1 DEF New
    <3>2. b.class = "ok" /\ b.value = v /\ b.locks = {} /\ b.commit_ts = New("ok").commit_ts /\ b.proto = New("ok").proto
      BY <2>1 DEF New
    <3> QED BY <1>0, <1>1, <2>1, <3>1, <3>2
  <2>2. \/ h = "absent" /\ a = New("not_found")
        \/ h = "value" /\ a = [New("ok") EXCEPT !.value = <<"v">>]
        \/ h = "pointer" /\ a = [New("ok") EXCEPT !.value = <<p, "v">>]
    BY <1>3, Answers1
  <2>3. \/ h = "absent" /\ b = New("not_found")
        \/ h = "value" /\ b = [New("ok") EXCEPT !.value = <<"v">>]
        \/ h = "pointer" /\ b = [New("ok") EXCEPT !.value = <<q, "v">>]
    BY <1>0, <1>3, Answers1
  <2>4. CASE h = "absent"
    <3>1. a = New("not_found") /\ b = New("not_found")
      BY <2>2, <2>3, <2>4
    <3>2. a.class = "not_found" /\ a.value = <<None>> /\ a.locks = {}
      BY <3>1 DEF New
    <3> QED BY <1>0, <1>1, <3>1, <3>2, RedactedAlike
  <2>5. CASE h = "value"
    <3>1. a = [New("ok") EXCEPT !.value = <<"v">>] /\ b = [New("ok") EXCEPT !.value = <<"v">>]
      BY <2>2, <2>3, <2>5
    <3> QED BY <2>1, <3>1, RedactedAlike
  <2>6. CASE h = "pointer"
    <3>1. a = [New("ok") EXCEPT !.value = <<p, "v">>] /\ b = [New("ok") EXCEPT !.value = <<q, "v">>]
      BY <2>2, <2>3, <2>6
    <3> QED BY <2>1, <3>1, RedactedAlike
  <2> QED BY <2>2, <2>4, <2>5, <2>6
<1>4. CASE c.op = "scan_locks"
  <2>1. a = [New("ok") EXCEPT !.locks = S]
    BY <1>4, Answers1
  <2>2. b = [New("ok") EXCEPT !.locks = T]
    <3>1. f.op = "scan_locks"
      BY <1>4
    <3> QED BY <1>0, <3>1, Answers1
  <2>3. a.class = "ok" /\ a.value = <<None>> /\ a.locks = S /\ a.commit_ts = New("ok").commit_ts /\ a.proto = New("ok").proto
    BY <2>1, NewFields DEF New
  <2>4. b.class = "ok" /\ b.value = <<None>> /\ b.locks = T /\ b.commit_ts = New("ok").commit_ts /\ b.proto = New("ok").proto
    BY <2>2, NewFields DEF New
  <2> QED BY <1>1, <2>3, <2>4, RedactedAlike
<1>5. CASE c.op \notin {"commit", "get", "snapshot_get", "scan_locks"}
  <2>3. a = New("ok")
    BY <1>5, Answers1
  <2>4. b = New("ok")
    BY <1>0, <1>5, Answers1
  <2>1. a = New("ok") /\ b = New("ok")
    BY <2>3, <2>4
  <2>2. a.class = "ok" /\ a.value = <<None>> /\ a.locks = {}
    BY <2>1 DEF New
  <2> QED BY <1>0, <1>1, <2>1, <2>2, RedactedAlike
<1> QED BY <1>2, <1>3, <1>4, <1>5

\* A step of the subject's run beside the oracle's, from locks that are alike, is
\* projected as the oracle's is but for what is excused, if it is evidence.
LEMMA BesideSame ==
  ASSUME NEW w, Front(w), NEW lang, NEW tongue, NEW T, NEW L, NEW i, NEW K \in SUBSET LockRecords,
         NEW m, NEW g, NEW a, NEW b, NEW k, Beside(w, lang, tongue, T, L, i, K, m, g, a, b, k), Admissible(b),
         L[i - 1] \in SUBSET LockRecords, AlikeLocks(L[i - 1], K),
         Tidy(L[i - 1], "oracle"), Tidy(K, "subject")
  PROVE  Excused(lang, tongue, m, Differ(a, "oracle", b, "subject"))
<1> DEFINE c == Substitute(w, "oracle")
           f == Substitute(w, "subject")
<1>1. PICK p \in Runs, q \in Runs : p = "oracle" /\ q = "subject"
  BY DEF Runs
<1>2. c.op = f.op
  BY <1>1, FrontByName
<1>3. Paired(lang, tongue)
  BY DEF Beside
<1>4. CASE FailedAlike(lang, tongue, c, f, m, g, a, b)
  <2> HIDE DEF c, f
  <2>1. Excused(lang, tongue, m, Differ(a, p, b, q))
    BY <1>2, <1>3, <1>4, FailedSame
  <2> QED BY <1>1, <2>1
<1>5. CASE AnsweredAlike(lang, tongue, c, f, m, g, a, b, L[i - 1], K)
  <2> DEFINE S == LockObs(RustLockKind, SeenIn(L[i - 1], c))
             U == LockObs(RustLockKind, SeenIn(K, f))
  <2>1. Cardinality(S) = Cardinality(U) /\ Shown(S, p) = Shown(U, q)
    <3>1. Tidy(L[i - 1], p) /\ Tidy(K, q) /\ Shown(OwnOf(L[i - 1], p), p) = Shown(OwnOf(K, q), q)
      BY <1>1 DEF AlikeLocks
    <3>2. c = Substitute(w, p) /\ f = Substitute(w, q)
      BY <1>1
    <3> HIDE DEF c, f
    <3> QED BY <3>1, <3>2, ScansAlike
  <2>2. KindTable(lang) = RustLockKind /\ KindTable(tongue) = RustLockKind
    BY DEF KindTable, RustLockKind, GoLockKind
  <2>3. PICK h \in Successes(c) : a = Answer(c, <<h>>, S, p) /\ b = Answer(f, <<h>>, U, q)
    BY <1>1, <1>5, <2>2 DEF AnsweredAlike
  <2> HIDE DEF c, f, S, U
  <2>4. Differ(a, p, b, q) = {}
    BY <1>2, <2>1, <2>3, AnsweredSame
  <2> QED BY <1>1, <2>3, <2>4 DEF Excused
<1> QED BY <1>4, <1>5 DEF Beside

-----------------------------------------------------------------------------
(* Divergences                                                               *)

\* No lock of an earlier attempt is a run's own.
LEMMA LeftoverIsForeign ==
  ASSUME NEW run \in Runs
  PROVE  OwnOf(Leftover, run) = {} /\ Tidy(Leftover, run)
<1>1. \A l \in Leftover : Of(l.key, {run}) = {}
  <2> SUFFICES ASSUME NEW l \in Leftover PROVE Of(l.key, {run}) = {}
    OBVIOUS
  <2>1. Of(l.key, Runs) = {}
    BY LeftoverAssumption
  <2> QED BY <2>1 DEF Of
<1>2. OwnOf(Leftover, run) = {}
  BY <1>1 DEF OwnOf
<1>3. ByName({}, run)
  BY DEF ByName
<1> QED BY <1>2, <1>3, LeftoverAssumption DEF Tidy

\* The locks of a run and what its transactions hold are at keys of its own.
OwnTidy(D, L, run) == Tidy(L, run) /\ \A r \in scenario.roles : Prefixed(D[r], run)

\* So it is before a run's first step, when it has no locks,
LEMMA OwnTidyAtFirst ==
  ASSUME NEW run \in Runs, NEW L, IsFiniteSet(L), OwnOf(L, run) = {}
  PROVE  OwnTidy(NoTables, L, run)
<1>1. ByName({}, run)
  BY DEF ByName
<1>2. Prefixed(Fresh, run)
  <2>1. BufferKeys(Fresh) = {}
    BY DEF BufferKeys, Fresh
  <2>2. IsFiniteSet({})
    BY FS_EmptySet
  <2> QED BY <2>1, <2>2 DEF Prefixed
<1> QED BY <1>1, <1>2 DEF OwnTidy, Tidy, NoTables

\* and after each; and of the other run's locks no step makes any.
LEMMA OwnTidyAfter ==
  ASSUME AtFront, Shaped, Step, OwnTidy(tables, locks, turn)
  PROVE  /\ Tidy(locks', turn) /\ \A r \in scenario.roles : Prefixed(tables'[r], turn)
         /\ \A other \in Runs \ {turn} : OwnOf(locks', other) \subseteq OwnOf(locks, other)
<1>1. turn \in Runs /\ Len(obs[turn]) < Len(scenario.steps)
  BY StepShape
<1>2. PICK m, o, i, e : Moves(m, o, i, e)
  BY StepShape
<1>3. i \in DOMAIN scenario.steps
  <2>1. Len(obs[turn]) \in Nat /\ i = Len(obs[turn]) + 1
    BY <1>1, <1>2, Growing DEF Shaped, Moves
  <2> QED BY <1>1, <2>1, Underway DEF Shaped
<1> DEFINE w == scenario.steps[i]
           c == CommandAt(turn, i)
           d == tables[w.role]
           lang == Lang(turn, i)
<1>4. Front(w) /\ IsFiniteSet(w.keys) /\ w.role \in scenario.roles
  BY <1>3, AcceptedStep DEF Shaped, Front, AtFront
<1>5. c = Substitute(w, turn)
  BY DEF CommandAt, Prefix
<1>6. d \in Held /\ Prefixed(d, turn)
  BY <1>4 DEF Shaped, OwnTidy
<1>7. /\ tables' = [tables EXCEPT ![w.role] = Tables(d, c, o.class = "ok")]
      /\ e \in EffectsOn(locks, turn, lang, d, c, m)
      /\ locks' = (locks \ e.gone) \union e.new
  BY <1>2 DEF Moves
<1> HIDE DEF w, c, d, lang
<1>8. Apt(e, locks, turn)
  BY <1>1, <1>4, <1>5, <1>6, <1>7, EffectsAreApt
<1>9. Tidy(locks', turn) /\ \A other \in Runs \ {turn} : OwnOf(locks', other) \subseteq OwnOf(locks, other)
  <2>1. Tidy(locks, turn)
    BY DEF OwnTidy
  <2> QED BY <1>1, <1>7, <1>8, <2>1, TidyAfter DEF Apt
<1>10. Prefixed(Tables(d, c, o.class = "ok"), turn)
  <2>1. PICK ok \in BOOLEAN : ok = (o.class = "ok")
    OBVIOUS
  <2>2. Prefixed(Tables(d, c, ok), turn)
    BY <1>1, <1>4, <1>5, <1>6, PrefixedAfter
  <2> QED BY <2>1, <2>2
<1>11. ASSUME NEW r \in scenario.roles PROVE Prefixed(tables'[r], turn)
  <2>1. tables \in [scenario.roles -> Held] /\ Prefixed(tables[r], turn)
    BY DEF Shaped, OwnTidy
  <2>2. CASE r = w.role
    BY <1>4, <1>7, <1>10, <2>1, <2>2
  <2>3. CASE r # w.role
    BY <1>4, <1>7, <2>1, <2>3
  <2> QED BY <2>2, <2>3
<1> QED BY <1>9, <1>11

\* From tables and locks that are alike, clients that meet the same facts and do the
\* same to the locks leave tables and locks that are alike, and no divergence but
\* one that is excused.
LEMMA SubjectAlike ==
  ASSUME AtFront, Shaped, Step, turn = "subject", apart' = {}, strayed' = {}, NEW T, NEW L, Travelled(T, L),
         \A j \in 0 .. Len(obs["oracle"]) : OwnTidy(T[j], L[j], "oracle"), OwnTidy(tables, locks, "subject"),
         AlikeTables(T[Len(obs["subject"])], tables), AlikeLocks(L[Len(obs["subject"])], locks)
  PROVE  \E i, b :
           /\ i = Len(obs["subject"]) + 1 /\ i \in DOMAIN obs["oracle"]
           /\ obs'["subject"] = Append(obs["subject"], b)
           /\ AlikeTables(T[i], tables') /\ AlikeLocks(L[i], locks')
           /\ Admissible(b) => Excused(Lang("oracle", i), Lang("subject", i), met[i],
                                       Differ(obs["oracle"][i], "oracle", b, "subject"))
<1>1. PICK i, g, b, e :
        /\ i = Len(obs["subject"]) + 1 /\ i \in DOMAIN scenario.steps /\ i \in DOMAIN obs["oracle"]
        /\ obs'["subject"] = Append(obs["subject"], b)
        /\ AlikeTables(T[i], tables')
        /\ Beside(scenario.steps[i], Lang("oracle", i), Lang("subject", i), T, L, i, locks, met[i], g,
                  obs["oracle"][i], b, kept[i])
        /\ Moves(g, b, i, e)
  BY SubjectStep
<1> DEFINE w == scenario.steps[i]
           c == Substitute(w, "oracle")
           f == Substitute(w, "subject")
           lang == Lang("oracle", i)
           tongue == Lang("subject", i)
           m == met[i]
           a == obs["oracle"][i]
           k == kept[i]
           t == tables[w.role]
<1>2. PICK n \in Nat : n = Len(obs["subject"]) /\ i = n + 1 /\ n = i - 1 /\ n \in 0 .. Len(obs["oracle"])
  <2>1. Len(obs["subject"]) \in Nat /\ Len(obs["oracle"]) \in Nat /\ i \in 1 .. Len(obs["oracle"])
    BY <1>1, Growing DEF Shaped, Runs
  <2> QED BY <1>1, <2>1
<1>3. Front(w) /\ IsFiniteSet(w.keys) /\ w.role \in scenario.roles
  BY <1>1, AcceptedStep DEF Shaped, Front, AtFront
<1> DEFINE d == T[n][w.role]
<1>4. /\ Tidy(L[n], "oracle") /\ Tidy(locks, "subject") /\ AlikeLocks(L[n], locks)
      /\ L[n] \in SUBSET LockRecords /\ locks \in SUBSET LockRecords
      /\ Prefixed(d, "oracle") /\ Prefixed(t, "subject")
  BY <1>2, <1>3 DEF OwnTidy, Travelled, Shaped
<1>5. Beside(w, lang, tongue, T, L, i, locks, m, g, a, b, k)
  BY <1>1
<1>6. Admissible(b) => Excused(lang, tongue, m, Differ(a, "oracle", b, "subject"))
  <2> HIDE DEF w, lang, tongue, m, a, k
  <2> QED BY <1>2, <1>3, <1>4, <1>5, BesideSame
<1>7. PICK h \in EffectsOn(L[n], "oracle", lang, d, c, m) :
        L[i] = (L[n] \ h.gone) \union h.new /\ k = NotedAs(c, h, "oracle")
  <2>1. Stride(w, lang, T[n], T[i], L[n], L[i], m, a, k)
    BY <1>2, <1>5 DEF Beside
  <2> HIDE DEF w, lang, m, a, k
  <2> QED BY <2>1 DEF Stride
<1>8. /\ e \in EffectsOn(locks, "subject", tongue, t, f, g)
      /\ locks' = (locks \ e.gone) \union e.new
      /\ NotedAs(f, e, "subject") = k
  <2>1. f = CommandAt("subject", i)
    BY DEF CommandAt, Prefix
  <2>2. /\ e \in EffectsOn(locks, turn, Lang(turn, i), tables[scenario.steps[i].role], CommandAt(turn, i), g)
        /\ locks' = (locks \ e.gone) \union e.new
        /\ strayed' = IF NotedAs(CommandAt(turn, i), e, turn) = kept[i] THEN strayed ELSE strayed \union {i}
    BY <1>1 DEF Moves
  <2> QED BY <2>1, <2>2
<1>9. w.op = "prewrite_only" => \/ m = <<"lacks">> /\ g = <<"lacks">>
                                \/ Succeeded(m) /\ Succeeded(g)
  <2>1. c.op = w.op
    BY <1>3, FrontByName DEF Runs
  <2>2. CASE FailedAlike(lang, tongue, c, f, m, g, a, b)
    <3> HIDE DEF w, c, f, lang, tongue, m, a
    <3> QED BY <2>1, <2>2 DEF FailedAlike
  <2>3. CASE AnsweredAlike(lang, tongue, c, f, m, g, a, b, L[i - 1], locks)
    <3> HIDE DEF w, c, f, lang, tongue, m, a
    <3>1. PICK x \in Successes(c) : m = <<x>> /\ g = <<x>>
      BY <2>3 DEF AnsweredAlike
    <3>2. x \in Answers /\ m[1] = x /\ g[1] = x
      BY <3>1, SuccessesAnswer
    <3> QED BY <3>2 DEF Succeeded
  <2> QED BY <1>5, <2>2, <2>3 DEF Beside
<1>10. AlikeLocks(L[i], locks')
  <2>1. PICK p \in Runs, q \in Runs : p = "oracle" /\ q = "subject"
    BY DEF Runs
  <2> HIDE DEF w, lang, tongue, m, a, k, t, d
  <2>2. Apt(h, L[n], p)
    BY <1>3, <1>4, <1>7, <2>1, EffectsAreApt DEF c
  <2>3. Apt(e, locks, q)
    BY <1>3, <1>4, <1>8, <2>1, EffectsAreApt DEF f
  <2>4. Tidy(L[n], p) /\ Tidy(locks, q) /\ Shown(OwnOf(L[n], p), p) = Shown(OwnOf(locks, q), q)
    BY <1>4, <2>1 DEF AlikeLocks
  <2>5. /\ h \in EffectsOn(L[n], p, lang, d, Substitute(w, p), m)
        /\ e \in EffectsOn(locks, q, tongue, t, Substitute(w, q), g)
        /\ NotedAs(Substitute(w, p), h, p) = NotedAs(Substitute(w, q), e, q)
    BY <1>7, <1>8, <2>1 DEF c, f
  <2>6. Shown(OwnOf((L[n] \ h.gone) \union h.new, p), p) = Shown(OwnOf((locks \ e.gone) \union e.new, q), q)
    BY <1>3, <1>9, <2>2, <2>3, <2>4, <2>5, LocksAlike
  <2> QED BY <1>7, <1>8, <2>1, <2>6 DEF AlikeLocks
<1> QED BY <1>1, <1>6, <1>10

\* As long as the clients have met the same facts and done the same to the locks,
\* the cluster has the locks of the subject's run that it had of the oracle's after
\* the same step, the tables are alike, and no step that is evidence is projected
\* otherwise, but for what is excused.
SoFarAlike ==
  /\ \A i \in DOMAIN obs["subject"] :
       (\A j \in apart \union strayed : ~(j <= i)) /\ Admissible(obs["subject"][i])
         => Excused(Lang("oracle", i), Lang("subject", i), met[i],
                    Differ(obs["oracle"][i], "oracle", obs["subject"][i], "subject"))
  /\ turn = "oracle" => OwnOf(locks, "subject") = {}
  /\ turn = "subject" => OwnTidy(tables, locks, "subject")
  /\ \E T, L : /\ Travelled(T, L)
               /\ \A j \in 0 .. Len(obs["oracle"]) : OwnTidy(T[j], L[j], "oracle")
               /\ turn = "subject" /\ apart = {} /\ strayed = {} =>
                    /\ AlikeTables(T[Len(obs["subject"])], tables)
                    /\ AlikeLocks(L[Len(obs["subject"])], locks)

\* So it is before the first step,
LEMMA SoFarAlikeInitially == Init => SoFarAlike
<1> SUFFICES ASSUME Init PROVE SoFarAlike
  OBVIOUS
<1>1. Shaped
  BY ShapedInitially
<1>2. turn = "oracle" /\ tables = NoTables /\ locks = Leftover
      /\ obs["oracle"] = <<>> /\ obs["subject"] = <<>>
  BY DEF Init, Runs
<1> DEFINE T == [j \in 0 .. 0 |-> tables]
           L == [j \in 0 .. 0 |-> locks]
<1>3. Len(obs["oracle"]) = 0 /\ DOMAIN obs["subject"] = {}
  BY <1>2
<1>4. T[0] = tables /\ L[0] = locks
  OBVIOUS
<1>5. T \in [0 .. 0 -> [scenario.roles -> Held]] /\ L \in [0 .. 0 -> SUBSET LockRecords]
  BY <1>1 DEF Shaped
<1> HIDE DEF T, L
<1>6. Travelled(T, L)
  BY <1>2, <1>3, <1>4, <1>5 DEF Travelled
<1>7. OwnOf(locks, "oracle") = {} /\ OwnOf(locks, "subject") = {} /\ IsFiniteSet(locks)
  BY <1>2, LeftoverAssumption, LeftoverIsForeign DEF Runs
<1>8. OwnTidy(tables, locks, "oracle")
  <2>1. "oracle" \in Runs
    BY DEF Runs
  <2> QED BY <1>2, <1>7, <2>1, OwnTidyAtFirst
<1>9. \A j \in 0 .. Len(obs["oracle"]) : OwnTidy(T[j], L[j], "oracle")
  BY <1>3, <1>4, <1>8
<1> QED BY <1>2, <1>3, <1>6, <1>7, <1>9 DEF SoFarAlike

\* after each step of the oracle's run,
LEMMA SoFarAlikeForOracle ==
  ASSUME AtFront, Shaped, SoFarAlike, Step, turn = "oracle"
  PROVE  SoFarAlike'
<1>1. PICK T, L : Travelled(T, L) /\ \A j \in 0 .. Len(obs["oracle"]) : OwnTidy(T[j], L[j], "oracle")
  BY DEF SoFarAlike
<1>2. PICK n \in Nat : n = Len(obs["oracle"])
  BY Growing DEF Shaped, Runs
<1>3. PICK U, M : /\ Travelled(U, M)' /\ Len(obs'["oracle"]) = n + 1
                  /\ \A j \in 0 .. n : U[j] = T[j] /\ M[j] = L[j]
  BY <1>1, <1>2, TravelledFurther
<1>4. scenario' = scenario /\ turn' = "oracle" /\ obs'["subject"] = <<>>
  BY StepShape, ShapedAtStep DEF Shaped
<1>5. tables = T[n] /\ locks = L[n] /\ tables' = U[n + 1] /\ locks' = M[n + 1]
  BY <1>1, <1>2, <1>3, <1>4 DEF Travelled
<1>6. OwnTidy(tables, locks, "oracle") /\ OwnOf(locks, "subject") = {}
  BY <1>1, <1>2, <1>5 DEF SoFarAlike
<1>7. /\ Tidy(locks', "oracle") /\ \A r \in scenario.roles : Prefixed(tables'[r], "oracle")
      /\ OwnOf(locks', "subject") = {}
  BY <1>6, OwnTidyAfter DEF Runs
<1>8. ASSUME NEW j \in 0 .. n + 1
      PROVE  Tidy(M[j], "oracle") /\ \A r \in scenario.roles : Prefixed(U[j][r], "oracle")
  <2>1. CASE j = n + 1
    BY <1>5, <1>7, <2>1
  <2>2. CASE j \in 0 .. n
    BY <1>1, <1>2, <1>3, <2>2 DEF OwnTidy
  <2> QED BY <2>1, <2>2
<1>9. \A j \in 0 .. Len(obs'["oracle"]) : OwnTidy(U[j], M[j], "oracle")'
  BY <1>3, <1>4, <1>8 DEF OwnTidy
<1>10. OwnOf(locks, "subject")' = {}
  BY <1>7 DEF OwnOf
<1> QED BY <1>3, <1>4, <1>9, <1>10 DEF SoFarAlike

\* after each step of the subject's,
LEMMA SoFarAlikeForSubject ==
  ASSUME AtFront, Shaped, SoFarAlike, Step, turn = "subject"
  PROVE  SoFarAlike'
<1>1. PICK T, L : /\ Travelled(T, L)
                  /\ \A j \in 0 .. Len(obs["oracle"]) : OwnTidy(T[j], L[j], "oracle")
                  /\ apart = {} /\ strayed = {} =>
                       /\ AlikeTables(T[Len(obs["subject"])], tables)
                       /\ AlikeLocks(L[Len(obs["subject"])], locks)
  BY DEF SoFarAlike
<1>0. [Next]_vars
  BY DEF Next
<1>2. /\ apart \subseteq apart' /\ strayed \subseteq strayed' /\ scenario' = scenario /\ turn' = "subject"
      /\ "oracle" \in Runs /\ "subject" \in Runs
  BY <1>0, ApartGrows, StepShape DEF Runs
<1>3. /\ Travelled(T, L)' /\ obs'["oracle"] = obs["oracle"] /\ met' = met
      /\ \A run, j : Lang(run, j)' = Lang(run, j)
  <2>1. Travelled(T, L)' /\ obs'["oracle"] = obs["oracle"] /\ met' = met
    BY <1>0, <1>1, TravelledKept
  <2> QED BY <1>2, <2>1 DEF Lang
<1>4. \A j \in 0 .. Len(obs'["oracle"]) : OwnTidy(T[j], L[j], "oracle")'
  BY <1>1, <1>2, <1>3 DEF OwnTidy
<1>5. OwnTidy(tables, locks, "subject")'
  <2>1. OwnTidy(tables, locks, "subject")
    BY DEF SoFarAlike
  <2>2. Tidy(locks', "subject") /\ \A r \in scenario.roles : Prefixed(tables'[r], "subject")
    BY <2>1, OwnTidyAfter
  <2>3. Tidy(locks, "subject")'
    BY <2>2 DEF Tidy, ByName, OwnOf
  <2>4. \A r \in scenario.roles : Prefixed(tables[r], "subject")'
    BY <2>2 DEF Prefixed, BufferKeys
  <2> QED BY <1>2, <2>3, <2>4 DEF OwnTidy
<1>6. PICK i \in Nat : i = Len(obs["subject"]) + 1 /\ i - 1 = Len(obs["subject"])
  <2>1. Len(obs["subject"]) \in Nat
    BY <1>2, Growing DEF Shaped
  <2> QED BY <2>1
<1>7. PICK b : obs'["subject"] = Append(obs["subject"], b)
  <2>1. PICK m, o, k, e : Moves(m, o, k, e)
    BY StepShape
  <2>2. obs' = [obs EXCEPT !["subject"] = Append(obs["subject"], o)] /\ "subject" \in DOMAIN obs
    BY <1>2, <2>1 DEF Shaped, Moves
  <2> QED BY <2>2
<1>8. /\ DOMAIN obs'["subject"] = 1 .. i /\ Len(obs'["subject"]) = i /\ obs'["subject"][i] = b
      /\ \A j \in 1 .. i - 1 : obs'["subject"][j] = obs["subject"][j]
      /\ DOMAIN obs["subject"] = 1 .. i - 1
  <2>1. IsSeq(obs["subject"])
    BY <1>2 DEF Shaped
  <2> QED BY <1>6, <1>7, <2>1, Growing
<1>9. ASSUME apart' = {}, strayed' = {}
      PROVE  /\ AlikeTables(T[i], tables') /\ AlikeLocks(L[i], locks')
             /\ Admissible(b) => Excused(Lang("oracle", i), Lang("subject", i), met[i],
                                         Differ(obs["oracle"][i], "oracle", b, "subject"))
  <2>1. AlikeTables(T[Len(obs["subject"])], tables) /\ AlikeLocks(L[Len(obs["subject"])], locks)
    BY <1>1, <1>2, <1>9
  <2>2. OwnTidy(tables, locks, "subject")
    BY DEF SoFarAlike
  <2>3. PICK z, h :
          /\ z = Len(obs["subject"]) + 1 /\ obs'["subject"] = Append(obs["subject"], h)
          /\ AlikeTables(T[z], tables') /\ AlikeLocks(L[z], locks')
          /\ Admissible(h) => Excused(Lang("oracle", z), Lang("subject", z), met[z],
                                      Differ(obs["oracle"][z], "oracle", h, "subject"))
    BY <1>1, <1>9, <2>1, <2>2, SubjectAlike
  <2>4. h = b
    <3>1. IsSeq(obs["subject"])
      BY <1>2 DEF Shaped
    <3>2. Append(obs["subject"], h)[i] = h /\ Append(obs["subject"], b)[i] = b
      BY <1>6, <3>1, Growing
    <3> QED BY <1>7, <2>3, <3>2
  <2> QED BY <1>6, <2>3, <2>4
<1>10. ASSUME NEW j \in DOMAIN obs'["subject"], \A k \in apart' \union strayed' : ~(k <= j),
              Admissible(obs'["subject"][j])
       PROVE  Excused(Lang("oracle", j), Lang("subject", j), met[j],
                      Differ(obs'["oracle"][j], "oracle", obs'["subject"][j], "subject"))
  <2>1. CASE j = i
    <3>1. \A k \in apart' \union strayed' : k <= i
      <4>1. apart' \subseteq 1 .. i /\ strayed' \subseteq 1 .. i
        BY <1>8, ShapedAtStep DEF Shaped
      <4> QED BY <1>6, <4>1
    <3>2. apart' = {} /\ strayed' = {}
      BY <1>10, <2>1, <3>1
    <3> QED BY <1>3, <1>8, <1>9, <1>10, <2>1, <3>2
  <2>2. CASE j # i
    <3>1. j \in DOMAIN obs["subject"] /\ obs'["subject"][j] = obs["subject"][j]
      BY <1>6, <1>8, <2>2
    <3>2. \A k \in apart \union strayed : ~(k <= j)
      BY <1>2, <1>10
    <3> QED BY <1>3, <1>10, <3>1, <3>2 DEF SoFarAlike
  <2> QED BY <2>1, <2>2
<1>11. apart' = {} /\ strayed' = {} => /\ AlikeTables(T[Len(obs["subject"])], tables)'
                                       /\ AlikeLocks(L[Len(obs["subject"])], locks)'
  BY <1>2, <1>8, <1>9 DEF AlikeTables, AlikeLocks
<1> QED BY <1>2, <1>3, <1>4, <1>5, <1>10, <1>11 DEF SoFarAlike

\* and at the end of a run.
LEMMA SoFarAlikeInvariant ==
  ASSUME AtFront
  PROVE  Shaped /\ SoFarAlike /\ [Next]_vars => SoFarAlike'
<1> SUFFICES ASSUME Shaped, SoFarAlike, [Next]_vars PROVE SoFarAlike'
  OBVIOUS
<1>1. PICK T, L : /\ Travelled(T, L)
                  /\ \A j \in 0 .. Len(obs["oracle"]) : OwnTidy(T[j], L[j], "oracle")
                  /\ turn = "subject" /\ apart = {} /\ strayed = {} =>
                       /\ AlikeTables(T[Len(obs["subject"])], tables)
                       /\ AlikeLocks(L[Len(obs["subject"])], locks)
  BY DEF SoFarAlike
<1>2. scenario' = scenario /\ "oracle" \in Runs /\ "subject" \in Runs
  BY ApartGrows DEF Runs
<1>3. ASSUME ~Step
      PROVE  /\ Travelled(T, L)' /\ obs'["oracle"] = obs["oracle"] /\ met' = met
             /\ \A j \in 0 .. Len(obs'["oracle"]) : OwnTidy(T[j], L[j], "oracle")'
             /\ \A run, j : Lang(run, j)' = Lang(run, j)
  <2>1. Travelled(T, L)' /\ obs'["oracle"] = obs["oracle"] /\ met' = met
    BY <1>1, <1>3, TravelledKept
  <2> QED BY <1>1, <1>2, <2>1 DEF OwnTidy, Lang
<1>4. CASE NextRun
  <2>1. /\ turn = "oracle" /\ obs' = obs /\ apart' = {} /\ strayed' = {} /\ locks' = locks /\ tables' = NoTables
        /\ obs["subject"] = <<>> /\ turn' = "subject"
    BY <1>4 DEF NextRun, Shaped
  <2>2. ~Step
    BY <1>4 DEF NextRun, Step
  <2>3. T[0] = NoTables /\ L[0] = Leftover
    BY <1>1 DEF Travelled
  <2>4. OwnOf(locks, "subject") = {} /\ IsFiniteSet(locks)
    <3>1. Len(obs["oracle"]) \in Nat
      BY <1>2, Growing DEF Shaped
    <3>2. locks = L[Len(obs["oracle"])]
      BY <1>1, <2>1 DEF Travelled
    <3>3. Tidy(locks, "oracle")
      BY <1>1, <3>1, <3>2 DEF OwnTidy
    <3> QED BY <2>1, <3>3 DEF SoFarAlike, Tidy
  <2>5. AlikeLocks(L[0], locks)
    BY <1>2, <2>3, <2>4, LeftoverIsForeign DEF AlikeLocks, Shown
  <2>6. OwnTidy(NoTables, locks, "subject")
    BY <1>2, <2>4, OwnTidyAtFirst
  <2>7. AlikeTables(T[0], tables')
    BY <2>1, <2>3, FreshAlike
  <2>8. Len(obs'["subject"]) = 0 /\ DOMAIN obs'["subject"] = {}
    BY <2>1
  <2>9. AlikeTables(T[Len(obs["subject"])], tables)' /\ AlikeLocks(L[Len(obs["subject"])], locks)'
    BY <1>2, <2>1, <2>5, <2>7, <2>8 DEF AlikeTables, AlikeLocks
  <2>10. OwnTidy(tables, locks, "subject")'
    BY <1>2, <2>1, <2>6 DEF OwnTidy
  <2> QED BY <1>3, <2>1, <2>2, <2>8, <2>9, <2>10 DEF SoFarAlike
<1>5. CASE Compare \/ Refuse
  <2>1. /\ obs' = obs /\ apart' = apart /\ strayed' = strayed /\ turn' \notin {"oracle", "subject"} /\ ~Step
    <3>1. CASE Compare
      <4>1. obs' = obs /\ apart' = apart /\ strayed' = strayed /\ turn = "subject" /\ turn' = "compared"
        BY <3>1 DEF Compare
      <4> QED BY <4>1 DEF Step
    <3>2. CASE Refuse
      <4>1. obs' = obs /\ apart' = apart /\ strayed' = strayed /\ turn \in Runs /\ turn' = "refused"
        BY <3>2 DEF Refuse
      <4> QED BY <4>1 DEF Step, Runs
    <3> QED BY <1>5, <3>1, <3>2
  <2> QED BY <1>3, <2>1 DEF SoFarAlike
<1>6. CASE Step
  <2>1. turn \in Runs
    BY <1>6, StepShape
  <2> QED BY <1>6, <2>1, SoFarAlikeForOracle, SoFarAlikeForSubject DEF Runs
<1>7. CASE UNCHANGED vars /\ ~Step
  <2>1. /\ obs' = obs /\ apart' = apart /\ strayed' = strayed /\ turn' = turn /\ tables' = tables
        /\ locks' = locks
    BY <1>7 DEF vars
  <2> QED BY <1>1, <1>2, <1>3, <1>7, <2>1 DEF SoFarAlike, AlikeTables, AlikeLocks, OwnTidy
<1> QED BY <1>4, <1>5, <1>6, <1>7 DEF Next

\* Every divergence in a report is the clients': at its step or before it they met
\* different facts or left different locks.  The one exception is the proto of a
\* retryable failure, which only one of the two tables gives.  Assumed is that a
\* scenario's tokens stand at the front of its keys.
THEOREM DivergencesAreReal ==
  ASSUME AtFront
  PROVE  Spec => []DivergencesAreTheClients
<1>1. Shaped /\ SoFarAlike => DivergencesAreTheClients
  <2> SUFFICES ASSUME Shaped, SoFarAlike, turn = "compared", NEW x \in Divergences,
                      \A i \in apart \union strayed : ~(i <= x[1])
               PROVE  ProtoLost(x)
    BY DEF DivergencesAreTheClients
  <2>1. /\ x[1] \in DOMAIN obs["oracle"]
        /\ x[2] \in Differ(obs["oracle"][x[1]], "oracle", obs["subject"][x[1]], "subject")
    BY DEF Divergences, Diff, Prefix
  <2>2. DOMAIN obs["oracle"] = DOMAIN obs["subject"] /\ Trusted(obs["subject"])
    <3>1. /\ Len(obs["oracle"]) = Len(obs["subject"]) /\ Trusted(obs["subject"])
          /\ IsSeq(obs["oracle"]) /\ IsSeq(obs["subject"])
      BY DEF Shaped, Runs
    <3> QED BY <3>1, Growing
  <2>3. Admissible(obs["subject"][x[1]])
    BY <2>1, <2>2 DEF Trusted
  <2>4. Excused(Lang("oracle", x[1]), Lang("subject", x[1]), met[x[1]],
                Differ(obs["oracle"][x[1]], "oracle", obs["subject"][x[1]], "subject"))
    BY <2>1, <2>2, <2>3 DEF SoFarAlike
  <2> QED BY <2>1, <2>4 DEF Excused, ProtoLost, Lang
<1>2. Shaped /\ SoFarAlike /\ [Next]_vars => SoFarAlike'
  BY SoFarAlikeInvariant
<1> QED BY <1>1, <1>2, ShapedInitially, ShapedInvariant, SoFarAlikeInitially, PTL DEF Spec

=============================================================================
