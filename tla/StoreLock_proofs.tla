--------------------------- MODULE StoreLock_proofs ---------------------------
(***************************************************************************)
(* Theorems about StoreLock, for any number of processes: it implements    *)
(* the abstract lock, and no process removes another's file.               *)
(***************************************************************************)
EXTENDS StoreLock, TLAPS

\* A process holds the lock exactly while the path names its file.
OwnerHolds == \A p \in Procs : pc[p] \in Holding <=> file = p

IInv == TypeOK /\ OwnerHolds

-----------------------------------------------------------------------------
(* Every action keeps the types and the correspondence of owner and file *)

LEMMA InvInit == Init => IInv
  BY LockAssumption DEF Init, IInv, TypeOK, OwnerHolds, Steps, Holding

LEMMA InvNext == IInv /\ [Next]_vars => IInv'
<1> SUFFICES ASSUME IInv, [Next]_vars PROVE IInv'
  OBVIOUS
<1> USE LockAssumption DEF IInv, TypeOK, Steps
<1>1. ASSUME NEW p \in Procs, Begin(p) PROVE IInv'
  BY <1>1 DEF Begin, Goto, OwnerHolds, Holding
<1>2. ASSUME NEW p \in Procs, Look(p) PROVE IInv'
  <2>1. CASE file = NoFile
    BY <1>2, <2>1 DEF Look, Goto, OwnerHolds, Holding
  <2>2. CASE file # NoFile /\ tries[p] < MaxTries
    BY <1>2, <2>2 DEF Look, Retry, Goto, OwnerHolds, Holding
  <2>3. CASE file # NoFile /\ ~(tries[p] < MaxTries)
    BY <1>2, <2>3 DEF Look, Retry, End, Goto, OwnerHolds, Holding
  <2> QED BY <2>1, <2>2, <2>3
<1>3. ASSUME NEW p \in Procs, Create(p) PROVE IInv'
  <2>1. CASE file = NoFile
    BY <1>3, <2>1 DEF Create, Goto, OwnerHolds, Holding
  <2>2. CASE file # NoFile /\ tries[p] < MaxTries
    BY <1>3, <2>2 DEF Create, Retry, Goto, OwnerHolds, Holding
  <2>3. CASE file # NoFile /\ ~(tries[p] < MaxTries)
    BY <1>3, <2>3 DEF Create, Retry, End, Goto, OwnerHolds, Holding
  <2> QED BY <2>1, <2>2, <2>3
<1>4. ASSUME NEW p \in Procs, Check(p) PROVE IInv'
  BY <1>4 DEF Check, Goto, OwnerHolds, Holding
<1>5. ASSUME NEW p \in Procs, NameOwner(p) PROVE IInv'
  BY <1>5 DEF NameOwner, Goto, OwnerHolds, Holding
<1>6. ASSUME NEW p \in Procs, Undo(p) PROVE IInv'
  BY <1>6 DEF Undo, End, Goto, OwnerHolds, Holding
<1>7. ASSUME NEW p \in Procs, Leave(p) PROVE IInv'
  BY <1>7 DEF Leave, Goto, OwnerHolds, Holding
<1>8. ASSUME NEW p \in Procs, ReadOwner(p) PROVE IInv'
  <2>1. file = p
    BY <1>8 DEF ReadOwner, OwnerHolds, Holding
  <2> QED BY <1>8, <2>1 DEF ReadOwner, Goto, OwnerHolds, Holding
<1>9. ASSUME NEW p \in Procs, Remove(p) PROVE IInv'
  BY <1>9 DEF Remove, End, Goto, OwnerHolds, Holding
<1>10. ASSUME NEW p \in Procs, Crash(p) PROVE IInv'
  BY <1>10 DEF Crash, End, Goto, OwnerHolds, Holding
<1>11. ASSUME NEW p \in Procs, CreateFails(p) PROVE IInv'
  BY <1>11 DEF CreateFails, Goto, OwnerHolds, Holding
<1>12. ASSUME NEW p \in Procs, ReleaseFails(p) PROVE IInv'
  BY <1>12 DEF ReleaseFails, End, Goto, OwnerHolds, Holding
<1>13. ASSUME RemoveByHand PROVE IInv'
  BY <1>13 DEF RemoveByHand, OwnerHolds, Holding
<1>14. CASE UNCHANGED vars
  BY <1>14 DEF vars, OwnerHolds, Holding
<1> QED
  BY <1>1, <1>2, <1>3, <1>4, <1>5, <1>6, <1>7, <1>8, <1>9, <1>10, <1>11,
     <1>12, <1>13, <1>14 DEF Next, ProcessStep

\* store.lock names a process exactly from its creation of the file to its removal,
\* for any number of processes (acquireStoreLock, releaseStoreLock).
THEOREM LockInvariant == Spec => []IInv
  BY InvInit, InvNext, PTL DEF Spec

-----------------------------------------------------------------------------
(* Exclusion and refinement *)

\* Only the process whose file store.lock is can be inside.
LEMMA InsideOwns == IInv => Inside \subseteq {file}
  BY DEF IInv, OwnerHolds, Inside, Holding

\* A step that leaves one process's step unchanged leaves it inside or outside.
LEMMA InsideStep ==
  ASSUME TypeOK, NEW p \in Procs, NEW step \in Steps, Goto(p, step)
  PROVE  Inside' = IF step = "inside" THEN Inside \cup {p} ELSE Inside \ {p}
  BY DEF TypeOK, Goto, Inside

\* No process removes another's lock file: neither its release nor the undoing of
\* a creation that failed (safeCreateStoreLockFile, releaseStoreLock).
THEOREM OwnFileOnly == Spec => RemovesOwnFileOnly
<1>1. ASSUME IInv, [Next]_vars, NEW p \in Procs, pc[p] # pc'[p], file' = NoFile
      PROVE  file \in {p, NoFile}
  <2> USE <1>1, LockAssumption DEF IInv, TypeOK
  <2>1. ASSUME NEW q \in Procs, q # p, Goto(q, pc'[q]) PROVE FALSE
    BY <1>1, <2>1 DEF Goto
  <2>2. ASSUME NEW q \in Procs, Begin(q) \/ ProcessStep(q) \/ Crash(q)
                                \/ CreateFails(q) \/ ReleaseFails(q)
        PROVE  q = p
    BY <1>1, <2>2 DEF Begin, ProcessStep, Crash, CreateFails, ReleaseFails,
       Look, Create, Retry, Check, NameOwner, Undo, Leave, ReadOwner, Remove, End, Goto
  <2>3. pc[p] \in {"undoing", "removing"} => file = p
    BY DEF OwnerHolds, Holding
  <2>4. CASE Undo(p) \/ Remove(p)
    BY <2>3, <2>4 DEF Undo, Remove
  <2>5. CASE Begin(p) \/ Look(p) \/ Create(p) \/ Check(p) \/ NameOwner(p)
             \/ Leave(p) \/ ReadOwner(p) \/ CreateFails(p)
    BY <1>1, <2>5 DEF Begin, Look, Create, Retry, Check, NameOwner, Leave,
       ReadOwner, CreateFails, End
  <2>6. CASE Crash(p) \/ ReleaseFails(p)
    BY <1>1, <2>6 DEF Crash, ReleaseFails
  <2>7. CASE RemoveByHand \/ UNCHANGED vars
    BY <1>1, <2>7 DEF RemoveByHand, vars
  <2> QED
    BY <1>1, <2>2, <2>4, <2>5, <2>6, <2>7 DEF Next, ProcessStep
<1>2. IInv /\ [Next]_vars =>
        [\A p \in Procs : pc[p] # pc'[p] /\ file' = NoFile => file \in {p, NoFile}]_vars
  BY <1>1
<1> QED BY <1>2, LockInvariant, PTL DEF Spec, RemovesOwnFileOnly

\* withStoreLock is the abstract lock: a step of the files is a step of it, or none.
THEOREM Implements == Spec => ImplementsAbstractLock
<1>1. Init => Abstract!Init
  BY LockAssumption DEF Init, Abstract!Init, Inside
<1>2. ASSUME IInv, [Next]_vars
      PROVE  [Abstract!Next]_<<Inside, (file = Orphan)>>
  <2> USE <1>2, LockAssumption DEF IInv
  <2>1. ASSUME NEW p \in Procs, NameOwner(p) PROVE Abstract!Enter(p)
    <3>1. file = p /\ file' = p
      BY <2>1 DEF NameOwner, OwnerHolds, Holding
    <3>2. Inside = {}
      BY <2>1, <3>1, InsideOwns DEF NameOwner, Inside
    <3>3. Inside' = {p}
      BY <2>1, <3>2, InsideStep DEF NameOwner, Steps
    <3> QED BY <3>1, <3>2, <3>3 DEF Abstract!Enter
  <2>2. ASSUME NEW p \in Procs, Leave(p) PROVE Abstract!Leave(p)
    <3>1. file = p /\ file' = p
      BY <2>2 DEF Leave, OwnerHolds, Holding
    <3>2. Inside = {p}
      BY <2>2, <3>1, InsideOwns DEF Leave, Inside
    <3>3. Inside' = {}
      BY <2>2, <3>2, InsideStep DEF Leave, Steps
    <3> QED BY <3>1, <3>2, <3>3 DEF Abstract!Leave
  <2>3. ASSUME NEW p \in Procs, Crash(p) \/ ReleaseFails(p)
        PROVE  Abstract!Abandon \/ UNCHANGED <<Inside, (file = Orphan)>>
    <3>1. Inside' = Inside \ {p}
      BY <2>3, InsideStep DEF Crash, ReleaseFails, End, Steps
    <3>2. CASE file = p
      BY <2>3, <3>1, <3>2, InsideOwns DEF Crash, ReleaseFails, Abstract!Abandon
    <3>3. CASE file # p
      BY <2>3, <3>1, <3>3, InsideOwns DEF Crash, ReleaseFails
    <3> QED BY <3>2, <3>3
  <2>4. ASSUME NEW p \in Procs, Undo(p) \/ Remove(p)
        PROVE  UNCHANGED <<Inside, (file = Orphan)>>
    <3>1. file = p /\ file' = NoFile
      BY <2>4 DEF Undo, Remove, OwnerHolds, Holding
    <3>2. Inside' = Inside \ {p} /\ p \notin Inside
      BY <2>4, InsideStep DEF Undo, Remove, End, Steps, Inside
    <3> QED BY <3>1, <3>2
  <2>5. ASSUME NEW p \in Procs,
               Begin(p) \/ Look(p) \/ Create(p) \/ Check(p) \/ ReadOwner(p) \/ CreateFails(p)
        PROVE  UNCHANGED <<Inside, (file = Orphan)>>
    <3>1. PICK step \in Steps \ {"inside"} : Goto(p, step)
      BY <2>5 DEF Begin, Look, Create, Retry, Check, ReadOwner, CreateFails, End, Steps
    <3>2. p \notin Inside
      BY <2>5 DEF Begin, Look, Create, Check, ReadOwner, CreateFails, Inside
    <3>3. UNCHANGED Inside
      BY <3>1, <3>2, InsideStep
    <3>4. UNCHANGED (file = Orphan)
      BY <2>5 DEF Begin, Look, Create, Retry, Check, ReadOwner, CreateFails
    <3> QED BY <3>3, <3>4
  <2>6. CASE RemoveByHand
    <3>1. file = Orphan /\ file' = NoFile
      BY <2>6 DEF RemoveByHand, OwnerHolds, Holding, TypeOK
    <3>2. UNCHANGED Inside
      BY <2>6 DEF RemoveByHand, Inside
    <3> QED BY <3>1, <3>2 DEF Abstract!Next, Abstract!Clear
  <2>7. CASE UNCHANGED vars
    BY <2>7 DEF vars, Inside
  <2> QED
    BY <1>2, <2>1, <2>2, <2>3, <2>4, <2>5, <2>6, <2>7 DEF Next, ProcessStep, Abstract!Next
<1> QED BY <1>1, <1>2, LockInvariant, PTL DEF Spec, ImplementsAbstractLock, Abstract!Spec
===============================================================================
