----------------------------- MODULE MCStoreLock -----------------------------
(***************************************************************************)
(* Instances of StoreLock for TLC.                                         *)
(***************************************************************************)
EXTENDS StoreLock

CONSTANTS p1, p2, p3
===============================================================================
