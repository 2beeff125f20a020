---------------------------- MODULE MCRelationships ----------------------------
(***************************************************************************)
(* Instances of Relationships for TLC.                                     *)
(***************************************************************************)
EXTENDS Relationships, TLC

CONSTANTS a, b, c

IdSymmetry == Permutations(Ids)
===============================================================================
