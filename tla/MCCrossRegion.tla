--------------------------- MODULE MCCrossRegion ---------------------------
(* A small instance of CrossRegion for TLC.  The keys fill a group of the   *)
(* encoding, or are one byte longer.                                        *)
EXTENDS CrossRegion, TLC

Full(b) == [i \in 1 .. 8 |-> b]
Lo == Full(1)
SplitAt == Full(2)
Hi == Full(2)
SomeCuts == {Full(1) \o <<0>>, Full(3)}
=============================================================================
