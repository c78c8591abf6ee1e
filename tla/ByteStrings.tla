---------------------------- MODULE ByteStrings ----------------------------
(***************************************************************************)
(* Keys: byte strings, their order, the bound of a prefix                  *)
(* (prefix_upper_bound, crates/parity-gate/src/lib.rs), and the encoding   *)
(* in which PD reports keys (encode_key, crates/harness/src/cluster.rs).   *)
(* A byte is a number up to MaxByte, 0xFF in the code.                     *)
(***************************************************************************)
EXTENDS Integers, Sequences

CONSTANTS MaxByte, None

ASSUME MaxByteAssumption == MaxByte \in Nat

Byte == 0 .. MaxByte
ByteString == Seq(Byte)

ASSUME NoneIsNoString == None \notin ByteString

\* The order of Vec<u8>: at the first place where they differ, t is greater or
\* s has ended.
Less(s, t) ==
  \E n \in 1 .. Len(t) :
    /\ n <= Len(s) + 1
    /\ \A j \in 1 .. n - 1 : s[j] = t[j]
    /\ n <= Len(s) => s[n] < t[n]

HasPrefix(p, k) == Len(p) <= Len(k) /\ \A j \in 1 .. Len(p) : k[j] = p[j]

\* Mutant of PrefixUpperBound: a trailing MaxByte is not carried over.
PrefixUpperBoundUncarried(p) ==
  IF p = <<>> \/ p[Len(p)] = MaxByte THEN None
  ELSE [j \in 1 .. Len(p) |-> IF j = Len(p) THEN p[j] + 1 ELSE p[j]]

\* prefix_upper_bound: up to its last byte below MaxByte, which is incremented.
PrefixUpperBound(p) ==
  IF \A j \in 1 .. Len(p) : p[j] = MaxByte THEN None
  ELSE LET n == CHOOSE n \in 1 .. Len(p) : p[n] # MaxByte /\ \A j \in n + 1 .. Len(p) : p[j] = MaxByte
       IN [j \in 1 .. n |-> IF j = n THEN p[j] + 1 ELSE p[j]]

GROUP == 8

\* The first n groups of k: GROUP bytes, zeros where k has ended, and a marker
\* that counts those.
Grouped(k, n) ==
  [i \in 1 .. 9 * n |->
     LET g    == (i - 1) \div 9
         o    == (i - 1) % 9
         rest == Len(k) - GROUP * g
     IN CASE o = GROUP -> IF rest >= GROUP THEN MaxByte ELSE MaxByte - (GROUP - rest)
          [] o < GROUP -> IF o < rest THEN k[GROUP * g + o + 1] ELSE 0]

\* Mutant of EncodeKey: a key that fills its last group gets no other one.
EncodeKeyUnpadded(k) == Grouped(k, (Len(k) + GROUP - 1) \div GROUP)
\* encode_key.
EncodeKey(k) == Grouped(k, Len(k) \div GROUP + 1)
=============================================================================
