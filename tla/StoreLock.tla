------------------------------ MODULE StoreLock ------------------------------
(***************************************************************************)
(* withStoreLock, one file operation at a time (storage.ts, store-paths.ts) *)
(*                                                                         *)
(*   look -> create exclusively -> check the open file -> write the owner  *)
(*        -> operation -> read the owner back -> remove                    *)
(*                                                                         *)
(* Processes die and file operations fail between any two of these steps;  *)
(* a person who follows the time-out's advice removes what they leave.     *)
(***************************************************************************)
EXTENDS Naturals, FiniteSets

CONSTANTS
    Procs,          \* processes, each with an owner token of its own
    NoFile,         \* store.lock does not exist
    Orphan,         \* store.lock is of a process that no longer runs
    MaxTries,       \* bound: retries until the deadline
    MaxForced       \* bound: removals by hand

ASSUME LockAssumption ==
    /\ NoFile \notin Procs /\ Orphan \notin Procs /\ NoFile # Orphan
    /\ MaxTries \in Nat /\ MaxForced \in Nat

VARIABLES
    file,       \* whose file the path store.lock names, or NoFile, or Orphan
    pc,         \* what each process is about to do
    tries,      \* its retries so far
    forced      \* removals by hand so far

vars == <<file, pc, tries, forced>>

Steps == {"idle", "looking", "creating", "checking", "naming", "undoing",
          "inside", "releasing", "removing"}

\* From its creation of the file to its removal.
Holding == {"checking", "naming", "undoing", "inside", "releasing", "removing"}

TypeOK ==
    /\ file \in Procs \cup {NoFile, Orphan}
    /\ pc \in [Procs -> Steps]
    /\ tries \in [Procs -> 0..MaxTries]
    /\ forced \in 0..MaxForced

Init ==
    /\ file = NoFile
    /\ pc = [p \in Procs |-> "idle"]
    /\ tries = [p \in Procs |-> 0]
    /\ forced = 0

Goto(p, step) == pc' = [pc EXCEPT ![p] = step]

\* The command is over.
End(p) ==
    /\ Goto(p, "idle")
    /\ tries' = [tries EXCEPT ![p] = 0]
    /\ UNCHANGED forced

Begin(p) ==
    /\ pc[p] = "idle"
    /\ Goto(p, "looking")
    /\ UNCHANGED <<file, tries, forced>>

-----------------------------------------------------------------------------
(* acquireStoreLock *)

\* Faulty: has no deadline.
RetryForever(p) ==
    /\ Goto(p, "looking")
    /\ UNCHANGED <<file, tries, forced>>

\* The file exists: try again, or give up at the deadline.
Retry(p) ==
    /\ UNCHANGED file
    /\ IF tries[p] < MaxTries
       THEN /\ Goto(p, "looking")
            /\ tries' = [tries EXCEPT ![p] = @ + 1]
            /\ UNCHANGED forced
       ELSE End(p)

Look(p) ==
    /\ pc[p] = "looking"
    /\ IF file # NoFile
       THEN Retry(p)
       ELSE /\ Goto(p, "creating")
            /\ UNCHANGED <<file, tries, forced>>

\* Faulty: trusts its look and creates over a file made since.
CreateOverwrites(p) ==
    /\ pc[p] = "creating"
    /\ file' = p
    /\ Goto(p, "checking")
    /\ UNCHANGED <<tries, forced>>

\* Faulty: removes the path on every error, its own file or not.
CreateUndoesAlways(p) ==
    /\ pc[p] = "creating"
    /\ IF file # NoFile
       THEN Goto(p, "undoing") /\ UNCHANGED <<file, tries, forced>>
       ELSE /\ file' = p
            /\ Goto(p, "checking")
            /\ UNCHANGED <<tries, forced>>

\* open with O_CREAT and O_EXCL.
Create(p) ==
    /\ pc[p] = "creating"
    /\ IF file # NoFile
       THEN Retry(p)
       ELSE /\ file' = p
            /\ Goto(p, "checking")
            /\ UNCHANGED <<tries, forced>>

\* assertRegularStoreFile on the open file: one without a link is refused.
Check(p) ==
    /\ pc[p] = "checking"
    /\ Goto(p, IF file = p THEN "naming" ELSE "undoing")
    /\ UNCHANGED <<file, tries, forced>>

\* The owner goes into the open file, linked or not.
NameOwner(p) ==
    /\ pc[p] = "naming"
    /\ Goto(p, "inside")
    /\ UNCHANGED <<file, tries, forced>>

\* A failure after the creation: the path is removed, the error thrown.
Undo(p) ==
    /\ pc[p] = "undoing"
    /\ file' = NoFile
    /\ End(p)

-----------------------------------------------------------------------------
(* The operation, and releaseStoreLock *)

\* The operation returns or throws.
Leave(p) ==
    /\ pc[p] = "inside"
    /\ Goto(p, "releasing")
    /\ UNCHANGED <<file, tries, forced>>

\* No file: nothing to do.  Another owner's: an error, and the file stays.
ReadOwner(p) ==
    /\ pc[p] = "releasing"
    /\ UNCHANGED file
    /\ IF file = p
       THEN Goto(p, "removing") /\ UNCHANGED <<tries, forced>>
       ELSE End(p)

Remove(p) ==
    /\ pc[p] = "removing"
    /\ file' = NoFile
    /\ End(p)

-----------------------------------------------------------------------------
(* Faults and the operator *)

\* Its lock file, if it has one, stays.
Crash(p) ==
    /\ pc[p] # "idle"
    /\ file' = IF file = p THEN Orphan ELSE file
    /\ End(p)

\* The check or the write of the new file fails.
CreateFails(p) ==
    /\ pc[p] \in {"checking", "naming"}
    /\ Goto(p, "undoing")
    /\ UNCHANGED <<file, tries, forced>>

\* The file cannot be read back or removed: it stays.
ReleaseFails(p) ==
    /\ pc[p] \in {"undoing", "releasing", "removing"}
    /\ file' = IF file = p THEN Orphan ELSE file
    /\ End(p)

\* "If no MemPR process is running, remove .mempr/store.lock and retry."
RemoveByHand ==
    /\ file # NoFile
    /\ \A p \in Procs : pc[p] = "idle"
    /\ forced < MaxForced
    /\ forced' = forced + 1
    /\ file' = NoFile
    /\ UNCHANGED <<pc, tries>>

-----------------------------------------------------------------------------
ProcessStep(p) ==
    \/ Look(p) \/ Create(p) \/ Check(p) \/ NameOwner(p) \/ Undo(p)
    \/ Leave(p) \/ ReadOwner(p) \/ Remove(p)

Next ==
    \/ \E p \in Procs :
        \/ Begin(p) \/ ProcessStep(p)
        \/ Crash(p) \/ CreateFails(p) \/ ReleaseFails(p)
    \/ RemoveByHand

Spec == Init /\ [][Next]_vars

\* The operating system runs every process that can take a step; the operation
\* inside the lock ends.
FairSpec == Spec /\ \A p \in Procs : WF_vars(ProcessStep(p))

-----------------------------------------------------------------------------
(* Properties *)

Inside == {p \in Procs : pc[p] = "inside"}

\* Operated step by step, and removed by hand as the time-out advises, this is the
\* abstract lock: one process inside at a time, none beside an orphaned file
\* (withStoreLock, safeCreateStoreLockFile).
Abstract == INSTANCE AbstractLock WITH inside <- Inside, orphaned <- (file = Orphan)
ImplementsAbstractLock == Abstract!Spec

\* No process removes another's lock file, by any of its error paths either
\* (the `created` flag of safeCreateStoreLockFile, the owner of releaseStoreLock).
RemovesOwnFileOnly ==
    [][\A p \in Procs : pc[p] # pc'[p] /\ file' = NoFile => file \in {p, NoFile}]_vars

\* Every attempt to take the lock ends inside or with an error, whoever else
\* takes it in between and whatever file was left there (acquireStoreLock).
AttemptsEnd ==
    \A p \in Procs : pc[p] = "looking" ~> pc[p] \in {"inside", "idle"}

===============================================================================
