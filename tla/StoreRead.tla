----------------------------- MODULE StoreRead -----------------------------
(***************************************************************************)
(* What a reader of the metadata store is promised: get answers with what  *)
(* is under the key, scan with every pair whose key begins with the prefix *)
(* (crates/parity-gate/src/traits.rs), all as it was at one moment between *)
(* the call and the return (TikvMetadataStore: a point-in-time snapshot);  *)
(* or the caller learns of a fault.                                        *)
(***************************************************************************)
EXTENDS ByteStrings

CONSTANTS
  Keys,      \* the keys somebody may write
  Values,
  Batches,   \* what a commit may write: key -> value, None to delete
  Requests   \* [op: {"get", "scan"}, arg: the key or prefix]

ASSUME KeysAssumption == Keys \subseteq ByteString
ASSUME BatchesAssumption == \A b \in Batches : \A k \in Keys \intersect DOMAIN b : b[k] \in Values \union {None}
ASSUME RequestsAssumption == \A r \in Requests : r.op \in {"get", "scan"} /\ r.arg \in ByteString

ASSUME NoneIsNoRequest == None \notin Requests
ASSUME NoneIsNoAnswer == None \notin [fault: BOOLEAN, pairs: SUBSET (Keys \X Values)]

VARIABLES
  history,   \* the contents after each commit, key -> value or None
  call       \* the request, since which commit, and the answer

avars == <<history, call>>

Contents == [Keys -> Values \union {None}]
Ok(pairs) == [fault |-> FALSE, pairs |-> pairs]
Err == [fault |-> TRUE, pairs |-> {}]
NotAsked == [request |-> None, since |-> 0, answer |-> None]

After(b, s) == [k \in Keys |-> IF k \in DOMAIN b THEN b[k] ELSE s[k]]

Asks(r, k) == IF r.op = "get" THEN k = r.arg ELSE HasPrefix(r.arg, k)
Pairs(r, s) == {<<k, s[k]>> : k \in {j \in Keys : Asks(r, j) /\ s[j] # None}}

ReadInit ==
  /\ \E s \in Contents : history = <<s>>
  /\ call = NotAsked

Commit ==
  /\ \E b \in Batches : history' = Append(history, After(b, history[Len(history)]))
  /\ UNCHANGED call

Ask ==
  /\ call.request = None
  /\ \E r \in Requests : call' = [request |-> r, since |-> Len(history), answer |-> None]
  /\ UNCHANGED history

Answer(a) ==
  /\ call.request # None /\ call.answer = None
  /\ call' = [call EXCEPT !.answer = a]
  /\ UNCHANGED history

Return ==
  \/ Answer(Err)
  \/ \E t \in call.since .. Len(history) : Answer(Ok(Pairs(call.request, history[t])))

ReadNext == Commit \/ Ask \/ Return

ReadSpec == ReadInit /\ [][ReadNext]_avars
=============================================================================
