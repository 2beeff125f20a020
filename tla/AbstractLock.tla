----------------------------- MODULE AbstractLock -----------------------------
(***************************************************************************)
(* What the advisory lock promises the commands that run under it: at most *)
(* one is inside at a time, and none while a lock file lies around whose   *)
(* owner is gone.  StoreLock implements this at the grain of file          *)
(* operations; MemprStore uses the lock as if it were this.                *)
(***************************************************************************)
CONSTANT Procs

VARIABLES
    inside,    \* the processes inside withStoreLock's operation
    orphaned   \* a lock file is there that nobody will remove

Init == inside = {} /\ orphaned = FALSE

Enter(p) ==
    /\ inside = {} /\ ~orphaned
    /\ inside' = {p}
    /\ UNCHANGED orphaned

Leave(p) ==
    /\ inside = {p}
    /\ inside' = {}
    /\ UNCHANGED orphaned

\* The owner goes, inside or about it, and leaves its file.
Abandon ==
    /\ ~orphaned
    /\ inside' = {} /\ orphaned' = TRUE

Clear ==
    /\ orphaned
    /\ orphaned' = FALSE
    /\ UNCHANGED inside

Next ==
    \/ \E p \in Procs : Enter(p) \/ Leave(p)
    \/ Abandon \/ Clear

Spec == Init /\ [][Next]_<<inside, orphaned>>
===============================================================================
