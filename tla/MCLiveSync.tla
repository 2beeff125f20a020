------------------------------ MODULE MCLiveSync ------------------------------
(***************************************************************************)
(* Instances of LiveSync for TLC.                                          *)
(***************************************************************************)
EXTENDS LiveSync

CONSTANTS p1, p2,   \* processes
          a, b      \* records: b supersedes a

SupersedesA == [id \in Ids |-> IF id = b THEN {a} ELSE {}]
===============================================================================
