---------------------------- MODULE MCParityRun ----------------------------
(* A small instance of ParityRun for TLC.                                  *)
EXTENDS ParityRun

CONSTANTS w1, w2
=============================================================================
