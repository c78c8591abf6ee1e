------------------------------ MODULE MCLedger ------------------------------
(* A small instance of Ledger for TLC: one gap, declared to diverge at its *)
(* only step, and one thing at a time that a change may edit.              *)
EXTENDS Ledger

CONSTANTS p0, p1, clean, dirty, old, new

Main == [claim |-> {<<1, "x", "y">>}, scenario |-> old, code |-> old, pin |-> p0]

\* main; the claim, the scenario changed; the next pin, with the code it calls for.
MCHarnesses ==
  {Main, [Main EXCEPT !.claim = {}], [Main EXCEPT !.scenario = new],
   [Main EXCEPT !.pin = p1, !.code = new]}

\* The pin, an edit of it, the next pin.
MCClients ==
  {[rev |-> p0, work |-> clean], [rev |-> p0, work |-> dirty], [rev |-> p1, work |-> clean]}

MCContains(a, b) == a = b \/ (a = p1 /\ b = p0)

MCEvidence == {<<"x">>, <<"y">>}
=============================================================================
