----------------------------- MODULE MCMemprStore -----------------------------
(***************************************************************************)
(* Instances of MemprStore for TLC: the records and links, and the         *)
(* commands of each scenario.                                              *)
(***************************************************************************)
EXTENDS MemprStore, TLC

CONSTANTS p1, p2,          \* processes
          old, new, rival,  \* records: new supersedes old, rival conflicts with old
          memory, notes     \* destinations

\* Processes are interchangeable.
ProcSymmetry == Permutations(Procs)

ThreeIds == {old, new, rival}
TwoIds == {old, new}

\* Either one destination, or new in another than the records around it.
OneDest == [id \in Ids |-> memory]
NewElsewhere == [id \in Ids |-> IF id = new THEN notes ELSE memory]

NewSupersedesOld == [id \in Ids |-> IF id = new THEN {old} ELSE {}]
RivalConflictsWithOld == [id \in Ids |-> IF id = rival THEN {old} ELSE {}]

Propositions ==
    {[kind |-> "propose", id |-> id, decision |-> d] :
        id \in Ids, d \in {"auto_accept", "review", "reject_audited"}}
Reviews ==
    {[kind |-> "review", id |-> id, status |-> s] :
        id \in Ids, s \in {"accepted", "rejected", "retired"}}
Acceptances ==
    {[kind |-> "accept", id |-> id, retire |-> r, override |-> o] :
        id \in Ids, r \in BOOLEAN, o \in BOOLEAN}
Exports == {[kind |-> "export", dest |-> d] : d \in Dests}
Repairs == {[kind |-> "repair"]}

\* Two processes: everything that mutates, and export.
Mutations == Propositions \cup Reviews \cup Acceptances \cup Exports

\* Proposals that need review or are accepted at once, with all that follows.
WithRepair ==
    {o \in Mutations : o.kind = "propose" => o.decision # "reject_audited"}
    \cup Repairs

\* The acceptance that retires what it supersedes, and what leads up to it.
Replacement ==
    {[kind |-> "propose", id |-> old, decision |-> "auto_accept"],
     [kind |-> "propose", id |-> new, decision |-> "review"],
     [kind |-> "review", id |-> new, status |-> "rejected"],
     [kind |-> "accept", id |-> new, retire |-> TRUE, override |-> FALSE],
     [kind |-> "export", dest |-> memory]}

ReplacementAndRepair == Replacement \cup Repairs

=============================================================================
