---------------------------- MODULE MCSplitWait ----------------------------
(* A small instance of SplitWait for TLC.                                  *)
EXTENDS SplitWait
=============================================================================
