---------------------------- MODULE MCLockScan -----------------------------
(* A small instance of LockScan for TLC.                                   *)
EXTENDS LockScan

FiveKeys == 1 .. 5
=============================================================================
