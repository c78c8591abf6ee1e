-------------------------- MODULE MCClusterBroker --------------------------
(* Small instances of ClusterBroker for TLC.                               *)
EXTENDS ClusterBroker, TLC

CONSTANTS p1, p2, p3, a, b

\* Every caller may address every lease ...
Anyone == [x \in Procs |-> Ids]

\* ... or each one only the lease it took itself.
OwnOnly == [x \in Procs |-> IF x = p1 THEN {a} ELSE {b}]

ProcSymmetry == Permutations(Procs)
=============================================================================
