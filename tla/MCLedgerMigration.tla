--------------------------- MODULE MCLedgerMigration ---------------------------
(***************************************************************************)
(* Instances of LedgerMigration for TLC.                                   *)
(***************************************************************************)
EXTENDS LedgerMigration, TLC

CONSTANTS p1, p2,   \* processes
          a, b      \* records

ProcSymmetry == Permutations(Procs)

Line(id, status, form) ==
    [id |-> id, status |-> status, updated_at |-> 1, form |-> form]

\* Nothing, one record, a record twice, and a line that only readRecords takes.
OldLedgers == {<<>>,
               <<Line(a, "pending", "plain")>>,
               <<Line(a, "accepted", "plain"), Line(a, "pending", "plain")>>,
               <<Line(a, "accepted", "refused")>>}

OneRecord == {<<Line(a, "accepted", "plain")>>}
===============================================================================
