---------------------------- MODULE MCTikvStore ----------------------------
(* Small instances of TikvStore for TLC.                                   *)
EXTENDS TikvStore, TLC

CONSTANTS c1, c2, x, y, old, new

Req(k, v) == [key |-> k, expected |-> v]
Batch(pre, writes) == [pre |-> pre, writes |-> writes]

\* x exists, y does not.
Initially == (x :> old) @@ (y :> None)

\* The shapes of the gate's tests: a rename (one key it requires present and
\* deletes, one it requires absent and creates) and the two halves of a write skew.
Rename == Batch(<<Req(x, old), Req(y, None)>>, (x :> None) @@ (y :> old))
SkewX == Batch(<<Req(x, old)>>, y :> new)
SkewY == Batch(<<Req(y, None)>>, x :> new)

GateBatches == {Rename, SkewX, SkewY}

CallSymmetry == Permutations(Calls)
=============================================================================
