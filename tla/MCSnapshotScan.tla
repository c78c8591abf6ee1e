--------------------------- MODULE MCSnapshotScan --------------------------
(* A small instance of SnapshotScan for TLC: bytes up to 2.                *)
EXTENDS SnapshotScan, TLC

\* Keys beside the bounds of the prefixes <<>>, <<1>>, <<1, 2>> and <<2>>, the
\* successors of keys, and a key that is another one's prefix.
SomeKeys == {<<0>>, <<1>>, <<1, 0>>, <<1, 2>>, <<1, 2, 1>>, <<2>>, <<2, 2>>}
SomeRequests ==
  {[op |-> "scan", arg |-> p] : p \in {<<>>, <<1>>, <<1, 2>>, <<2>>}} \union {[op |-> "get", arg |-> <<1, 2>>]}

\* A key moves; one goes and two come.
SomeBatches ==
  {(<<1>> :> None) @@ (<<1, 2>> :> "v"), (<<1, 2>> :> None) @@ (<<1, 0>> :> "v") @@ (<<2>> :> "v")}
=============================================================================
