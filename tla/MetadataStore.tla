--------------------------- MODULE MetadataStore ---------------------------
(***************************************************************************)
(* What the trait MetadataStore promises of commit                         *)
(* (crates/parity-gate/src/traits.rs): a batch of preconditions, puts and  *)
(* deletes is one atomic mutation, guarded by its preconditions.           *)
(*                                                                         *)
(* A caller learns "committed", "conflict", or a backend fault, "error".   *)
(* The trait says nothing of what a fault leaves: the batch may have been  *)
(* applied, and a batch still on its way may be applied later - but only   *)
(* once, whole, and while its preconditions hold.                          *)
(***************************************************************************)
EXTENDS Sequences

CONSTANTS
  Calls,    \* calls of commit
  Keys,
  Values,
  Batches,  \* [pre: Seq([key, expected]), writes: key -> value, None to delete]
  First,    \* the contents before the first call
  None      \* an absent key; no batch; no outcome yet

VARIABLES
  store,    \* key -> its value, or None
  call      \* call -> its batch, whether it has been applied, what it returned

avars == <<store, call>>

\* Every precondition of batch b holds in s, and s with b's mutations.
Holds(b, s) == \A i \in DOMAIN b.pre : s[b.pre[i].key] = b.pre[i].expected
Applied(b, s) == [k \in Keys |-> IF k \in DOMAIN b.writes THEN b.writes[k] ELSE s[k]]

Init ==
  /\ store = First
  /\ call = [c \in Calls |-> [batch |-> None, applied |-> FALSE, out |-> None]]

Commit(c, b) ==
  /\ call[c].batch = None
  /\ call' = [call EXCEPT ![c].batch = b]
  /\ UNCHANGED store

\* The commit point.  After a fault it may still be to come.
Apply(c) ==
  /\ call[c].batch # None /\ ~call[c].applied
  /\ call[c].out \in {None, "error"}
  /\ Holds(call[c].batch, store)
  /\ store' = Applied(call[c].batch, store)
  /\ call' = [call EXCEPT ![c].applied = TRUE]

Return(c, out) ==
  /\ call[c].batch # None /\ call[c].out = None
  /\ out = "committed" => call[c].applied
  /\ out = "conflict" => ~call[c].applied
  /\ call' = [call EXCEPT ![c].out = out]
  /\ UNCHANGED store

Next ==
  \E c \in Calls : \/ \E b \in Batches : Commit(c, b)
                   \/ Apply(c)
                   \/ \E out \in {"committed", "conflict", "error"} : Return(c, out)

Spec == Init /\ [][Next]_avars
=============================================================================
