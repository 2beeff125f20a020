------------------------ MODULE LedgerMigration_proofs ------------------------
(***************************************************************************)
(* Proofs about LedgerMigration, for every set of processes and records,   *)
(* every legacy ledger and every bound.                                    *)
(***************************************************************************)
EXTENDS LedgerMigration, SequenceTheorems, WellFoundedInduction, TLAPS

-----------------------------------------------------------------------------
(* Sequences whose elements have no type worth stating *)

IsSeq(s) == s \in Seq(ToSet(s))

LEMMA SeqIsSeq ==
    ASSUME NEW S, NEW s \in Seq(S)
    PROVE  IsSeq(s)
<1>1. s \in [1..Len(s) -> ToSet(s)] /\ Len(s) \in Nat
  BY DEF ToSet
<1> QED BY <1>1, SeqDef DEF IsSeq

LEMMA Appended ==
    ASSUME NEW s, IsSeq(s), NEW e
    PROVE  /\ IsSeq(Append(s, e))
           /\ Append(s, e) # <<>>
           /\ DOMAIN Append(s, e) = 1..(Len(s) + 1)
           /\ Append(s, e)[Len(s) + 1] = e
           /\ \A i \in DOMAIN s : i \in Nat /\ i <= Len(s) /\ Append(s, e)[i] = s[i]
           /\ Len(s) \in Nat /\ DOMAIN s = 1..Len(s)
           /\ (s = <<>> <=> Len(s) = 0)
<1> DEFINE S == ToSet(s) \cup {e}
<1>1. s \in Seq(S)
  BY SeqMonotonic DEF IsSeq
<1>2. Append(s, e) \in Seq(S)
  BY <1>1
<1> HIDE DEF S
<1>3. IsSeq(Append(s, e))
  BY <1>2, SeqIsSeq
<1>4. /\ Len(s) \in Nat /\ DOMAIN s = 1..Len(s)
      /\ DOMAIN Append(s, e) = 1..(Len(s) + 1)
      /\ Append(s, e)[Len(s) + 1] = e
      /\ \A i \in DOMAIN s : i \in Nat /\ i <= Len(s) /\ Append(s, e)[i] = s[i]
  BY <1>1, e \in S DEF S
<1>5. Append(s, e) # <<>> /\ (s = <<>> <=> Len(s) = 0)
  BY <1>1, <1>2, <1>4, EmptySeq
<1> QED BY <1>3, <1>4, <1>5

LEMMA Tailed ==
    ASSUME NEW s, IsSeq(s), s # <<>>
    PROVE  /\ IsSeq(Tail(s))
           /\ 1 \in DOMAIN s /\ Head(s) = s[1]
           /\ Len(s) \in Nat /\ Len(s) > 0
           /\ (Tail(s) # <<>> <=> Len(s) > 1)
           /\ \A i \in DOMAIN Tail(s) :
                i \in Nat /\ i > 0 /\ i + 1 \in DOMAIN s /\ Tail(s)[i] = s[i + 1]
<1> DEFINE S == ToSet(s)
<1>1. s \in Seq(S)
  BY DEF IsSeq
<1> HIDE DEF S
<1>2. Tail(s) \in Seq(S) /\ Head(s) = s[1]
  BY <1>1
<1>3. IsSeq(Tail(s))
  BY <1>2, SeqIsSeq
<1>4. /\ Len(s) \in Nat \ {0} /\ DOMAIN s = 1..Len(s) /\ Len(Tail(s)) = Len(s) - 1
      /\ DOMAIN Tail(s) = 1..(Len(s) - 1)
      /\ \A i \in 1..(Len(s) - 1) : Tail(s)[i] = s[i + 1]
  BY <1>1, EmptySeq
<1>5. Tail(s) # <<>> <=> Len(s) > 1
  <2>1. Len(<<>>) = 0
    OBVIOUS
  <2>2. Tail(s) # <<>> => Len(Tail(s)) \in Nat \ {0}
    BY <1>2, EmptySeq
  <2>3. Tail(s) = <<>> => Len(s) = 1
    BY <1>4, <2>1
  <2>4. Tail(s) # <<>> => Len(s) > 1
    BY <1>4, <2>2
  <2> QED BY <1>4, <2>3, <2>4
<1>6. 1 \in DOMAIN s
  BY <1>4
<1>7. \A i \in DOMAIN Tail(s) :
         i \in Nat /\ i > 0 /\ i + 1 \in DOMAIN s /\ Tail(s)[i] = s[i + 1]
  BY <1>4
<1> QED BY <1>2, <1>3, <1>4, <1>5, <1>6, <1>7

-----------------------------------------------------------------------------
(* The inductive invariant: who is inside owns the lock, and a backfill that is  *)
(* still to be appended is the first of its command's events, and the history is *)
(* empty.                                                                        *)

Shape ==
    /\ pc \in [Procs -> Steps]
    /\ DOMAIN todo = Procs
    /\ IsSeq(log)
    /\ \A p \in Procs : pc[p] = "appending" => IsSeq(todo[p]) /\ todo[p] # <<>>

Ownership == \A p \in Procs : Inside(p) => lock = p

FirstOrNever ==
    \A p \in Procs : pc[p] = "appending" =>
        \A i \in DOMAIN todo[p] :
            todo[p][i].type = "ledger_migrated" => i = 1 /\ log = <<>>

Backfill == Shape /\ Ownership /\ FirstOrNever /\ MigratedOnce

LEMMA BackfillInit == Init => Backfill
<1> SUFFICES ASSUME Init PROVE Backfill
  OBVIOUS
<1>1. log = <<>> /\ DOMAIN log = {} /\ IsSeq(log)
  BY SeqIsSeq, EmptySeq DEF Init, IsSeq
<1>2. \A p \in Procs : pc[p] = "idle"
  BY DEF Init
<1> QED
  BY <1>1, <1>2 DEF Init, Backfill, Shape, Ownership, FirstOrNever, MigratedOnce, Inside, Steps

\* The events a command enters with.
Entering(events) ==
    /\ IsSeq(events)
    /\ \A i \in DOMAIN events : events[i].type = "ledger_migrated" => i = 1 /\ log = <<>>

LEMMA SingleEvent ==
    ASSUME NEW e, e.type = "ledger_migrated" => log = <<>>
    PROVE  Entering(<<e>>)
<1>1. <<e>> \in Seq({e}) /\ DOMAIN <<e>> = {1} /\ <<e>>[1] = e
  OBVIOUS
<1> QED BY <1>1, SeqIsSeq DEF Entering

LEMMA TwoEvents ==
    ASSUME NEW e, NEW f, e.type # "ledger_migrated", f.type # "ledger_migrated"
    PROVE  Entering(<<e>> \o <<f>>)
<1>1. /\ <<e>> \o <<f>> \in Seq({e, f}) /\ DOMAIN (<<e>> \o <<f>>) = {1, 2}
      /\ (<<e>> \o <<f>>)[1] = e /\ (<<e>> \o <<f>>)[2] = f
  OBVIOUS
<1> QED BY <1>1, SeqIsSeq DEF Entering

LEMMA NoEvent == Entering(<<>>) /\ \A e : <<e>> \o <<>> = <<e>>
<1>1. <<>> \in Seq({}) /\ DOMAIN <<>> = {}
  OBVIOUS
<1>2. ASSUME NEW e PROVE <<e>> \o <<>> = <<e>>
  <2>1. <<e>> \in Seq({e})
    OBVIOUS
  <2> QED BY <2>1, ConcatEmptySeq
<1> QED BY <1>1, <1>2, SeqIsSeq DEF Entering

LEMMA EnterBackfill ==
    ASSUME Backfill, MigrationAssumption, NEW p \in Procs, NEW events, NEW records,
           Enter(p, events, records), Entering(events)
    PROVE  Backfill'
<1>1. /\ lock = Free /\ lock' = p /\ Free \notin Procs
      /\ log' = log
      /\ pc' = [pc EXCEPT ![p] = IF events # <<>> THEN "appending" ELSE "writing"]
      /\ todo' = [todo EXCEPT ![p] = events]
  BY DEF Enter, Goto, files, MigrationAssumption
<1>2. \A q \in Procs : ~Inside(q)
  BY <1>1 DEF Backfill, Ownership
<1>3. pc' \in [Procs -> Steps]
  BY <1>1 DEF Backfill, Shape, Steps
<1>4. DOMAIN todo' = Procs
  BY <1>1 DEF Backfill, Shape
<1>5. \A q \in Procs : Inside(q)' => q = p
  BY <1>1, <1>2 DEF Backfill, Shape, Inside
<1>6. pc'[p] = "appending" => todo'[p] = events /\ events # <<>>
  BY <1>1 DEF Backfill, Shape
<1>7. Shape'
  BY <1>1, <1>3, <1>4, <1>5, <1>6 DEF Backfill, Shape, Entering, Inside
<1>8. Ownership'
  BY <1>1, <1>5 DEF Ownership
<1>9. FirstOrNever'
  BY <1>1, <1>5, <1>6 DEF Entering, FirstOrNever, Inside
<1>10. MigratedOnce'
  BY <1>1 DEF Backfill, MigratedOnce
<1> QED BY <1>7, <1>8, <1>9, <1>10 DEF Backfill

\* Steps that leave the history alone, and after which nobody is inside or appends
\* who was not before.
LEMMA QuietBackfill ==
    ASSUME Backfill, log' = log, DOMAIN todo' = Procs, pc' \in [Procs -> Steps],
           \A q \in Procs : Inside(q)' => Inside(q) /\ lock' = q,
           \A q \in Procs : pc'[q] = "appending" => pc[q] = "appending" /\ todo'[q] = todo[q]
    PROVE  Backfill'
<1>1. Shape'
  BY DEF Backfill, Shape
<1>2. Ownership'
  BY DEF Ownership
<1>3. FirstOrNever'
  BY DEF Backfill, FirstOrNever
<1>4. MigratedOnce'
  BY DEF Backfill, MigratedOnce
<1> QED BY <1>1, <1>2, <1>3, <1>4 DEF Backfill

LEMMA AppendBackfill ==
    ASSUME Backfill, NEW p \in Procs, AppendEvent(p)
    PROVE  Backfill'
<1> DEFINE e == Head(todo[p])
           n == Len(log)
<1>1. /\ pc[p] = "appending" /\ log' = Append(log, e) /\ lock' = lock
      /\ todo' = [todo EXCEPT ![p] = Tail(@)]
      /\ pc' = [pc EXCEPT ![p] = IF Len(todo[p]) > 1 THEN "appending"
                                 ELSE IF next[p] # {} THEN "writing" ELSE "releasing"]
  BY DEF AppendEvent, Goto
<1>2. IsSeq(log) /\ IsSeq(todo[p]) /\ todo[p] # <<>> /\ lock = p
  BY <1>1 DEF Backfill, Shape, Ownership, Inside
<1>3. \A q \in Procs \ {p} : ~Inside(q)
  BY <1>2 DEF Backfill, Ownership
<1>4. pc' \in [Procs -> Steps] /\ DOMAIN todo' = Procs
  BY <1>1 DEF Backfill, Shape, Steps
<1>5. \A q \in Procs \ {p} : pc'[q] = pc[q] /\ ~Inside(q)'
  BY <1>1, <1>3 DEF Backfill, Shape, Inside
<1>6. todo'[p] = Tail(todo[p]) /\ (pc'[p] = "appending" => Len(todo[p]) > 1)
  BY <1>1 DEF Backfill, Shape
<1>7. IsSeq(log') /\ log' # <<>>
  BY <1>1, <1>2, Appended
<1>8. Shape'
  BY <1>2, <1>4, <1>5, <1>6, <1>7, Tailed DEF Shape, Inside
<1>9. Ownership'
  BY <1>1, <1>2, <1>5 DEF Ownership
<1>10. ASSUME pc'[p] = "appending", NEW i \in DOMAIN Tail(todo[p])
       PROVE  Tail(todo[p])[i].type # "ledger_migrated"
  <2>1. i \in Nat /\ i > 0 /\ i + 1 \in DOMAIN todo[p] /\ Tail(todo[p])[i] = todo[p][i + 1]
    BY <1>2, Tailed
  <2>2. todo[p][i + 1].type = "ledger_migrated" => i + 1 = 1
    BY <1>1, <2>1 DEF Backfill, FirstOrNever
  <2>3. i + 1 # 1
    BY <2>1
  <2> QED BY <2>1, <2>2, <2>3
<1>11. FirstOrNever'
  BY <1>5, <1>6, <1>10 DEF FirstOrNever, Inside
<1>12. MigratedOnce'
  <2>1. e.type = "ledger_migrated" => log = <<>>
    BY <1>1, <1>2, Tailed DEF Backfill, FirstOrNever
  <2>2. /\ n \in Nat /\ DOMAIN log' = 1..(n + 1) /\ log'[n + 1] = e
        /\ DOMAIN log = 1..n
        /\ \A i \in DOMAIN log : log'[i] = log[i]
        /\ (log = <<>> <=> n = 0)
    BY <1>1, <1>2, Appended
  <2>3. ASSUME NEW i \in DOMAIN log', log'[i].type = "ledger_migrated"
        PROVE  i = 1
    <3>1. CASE i = n + 1
      BY <2>1, <2>2, <2>3, <3>1
    <3>2. CASE i # n + 1
      <4>1. i \in DOMAIN log
        BY <2>2, <2>3, <3>2
      <4> QED BY <2>2, <2>3, <4>1 DEF Backfill, MigratedOnce
    <3> QED BY <3>1, <3>2
  <2> QED BY <2>3 DEF MigratedOnce
<1> QED BY <1>8, <1>9, <1>11, <1>12 DEF Backfill

LEMMA ReviewEntering ==
    ASSUME NEW previous, NEW record, NEW id, NEW retires \in BOOLEAN
    PROVE  Entering(<<StatusChanged(previous, record)>>
                      \o (IF retires THEN <<Resolved(id)>> ELSE <<>>))
<1>1. StatusChanged(previous, record).type # "ledger_migrated"
  BY DEF StatusChanged
<1>2. Resolved(id).type # "ledger_migrated"
  BY DEF Resolved
<1>3. CASE retires
  BY <1>1, <1>2, <1>3, TwoEvents
<1>4. CASE ~retires
  <2>1. Entering(<<StatusChanged(previous, record)>>)
    BY <1>1, SingleEvent
  <2> QED BY <1>4, <2>1, NoEvent
<1> QED BY <1>3, <1>4

LEMMA BackfillStep ==
    ASSUME MigrationAssumption, Backfill, [Next]_vars
    PROVE  Backfill'
<1> USE DEF files, private, bounds
<1>1. ASSUME NEW p \in Procs, NEW kind \in Commands, Start(p, kind) PROVE Backfill'
  <2>1. /\ log' = log /\ todo' = todo /\ lock' = lock /\ pc[p] = "idle"
        /\ \E step \in {"looking", "checking", "reading", "waiting"} :
              pc' = [pc EXCEPT ![p] = step]
    BY <1>1 DEF Start, Goto
  <2> QED BY <2>1, QuietBackfill DEF Backfill, Shape, Ownership, Inside, Steps
<1>2. ASSUME NEW p \in Procs,
             \/ TimeOut(p) \/ Refuse(p) \/ CheckReadsEvents(p) \/ RepairReports(p)
             \/ MigrateDryRun(p) \/ Crash(p) \/ Release(p)
      PROVE  Backfill'
  <2>1. /\ log' = log /\ todo' = [todo EXCEPT ![p] = <<>>]
        /\ pc' = [pc EXCEPT ![p] = "idle"]
        /\ lock = p \/ lock' = lock
    BY <1>2 DEF TimeOut, Refuse, CheckReadsEvents, RepairReports, MigrateDryRun, Crash,
       Release, End, Goto
  <2>2. \A q \in Procs \ {p} : pc'[q] = pc[q] /\ todo'[q] = todo[q]
    BY <2>1 DEF Backfill, Shape
  <2>3. pc'[p] = "idle" /\ ~Inside(p)'
    BY <2>1 DEF Backfill, Shape, Inside
  <2>4. pc' \in [Procs -> Steps] /\ DOMAIN todo' = Procs
    BY <2>1 DEF Backfill, Shape, Steps
  <2> QED BY <2>1, <2>2, <2>3, <2>4, QuietBackfill DEF Backfill, Ownership, Inside
<1>3. ASSUME NEW p \in Procs,
             \/ CheckReadsLedger(p) \/ RepairReadsEvents(p) \/ RepairConfirmed(p)
             \/ MigrateLooks(p) \/ MigrateChecks(p)
      PROVE  Backfill'
  <2>1. /\ log' = log /\ todo' = todo /\ lock' = lock
        /\ \E step \in {"verifying", "comparing", "waiting", "checking"} :
              pc' = [pc EXCEPT ![p] = step]
    BY <1>3 DEF CheckReadsLedger, RepairReadsEvents, RepairConfirmed, MigrateLooks,
       MigrateChecks, Goto
  <2> QED BY <2>1, QuietBackfill DEF Backfill, Shape, Ownership, Inside, Steps
<1>4. ASSUME NEW p \in Procs, WriteLedger(p) \/ WriteFails(p) PROVE Backfill'
  <2>1. /\ log' = log /\ todo' = todo /\ lock' = lock /\ Inside(p)
        /\ pc' = [pc EXCEPT ![p] = "releasing"]
    BY <1>4 DEF WriteLedger, WriteFails, Goto, Inside
  <2> QED BY <2>1, QuietBackfill DEF Backfill, Shape, Ownership, Inside, Steps
<1>5. ASSUME NEW p \in Procs, AppendEvent(p) PROVE Backfill'
  BY <1>5, AppendBackfill
<1>6. ASSUME NEW p \in Procs, Propose(p) PROVE Backfill'
  <2>1. PICK record, records : Enter(p, <<Proposed(record)>>, records)
    BY <1>6 DEF Propose
  <2>2. Entering(<<Proposed(record)>>)
    BY SingleEvent DEF Proposed
  <2> QED BY <2>1, <2>2, EnterBackfill
<1>7. ASSUME NEW p \in Procs, Review(p) PROVE Backfill'
  <2>1. PICK previous, record, id, status, records :
            Enter(p, <<StatusChanged(previous, record)>>
                       \o (IF status = "retired" THEN <<Resolved(id)>> ELSE <<>>), records)
    BY <1>7 DEF Review
  <2>2. Entering(<<StatusChanged(previous, record)>>
                   \o (IF status = "retired" THEN <<Resolved(id)>> ELSE <<>>))
    BY ReviewEntering
  <2> QED BY <2>1, <2>2, EnterBackfill
<1>8. ASSUME NEW p \in Procs, Export(p) PROVE Backfill'
  <2>1. PICK ids : Enter(p, <<Exported(ids)>>, {})
    BY <1>8 DEF Export
  <2>2. Entering(<<Exported(ids)>>)
    BY SingleEvent DEF Exported
  <2> QED BY <2>1, <2>2, EnterBackfill
<1>9. ASSUME NEW p \in Procs, RepairWrites(p) PROVE Backfill'
  BY <1>9, NoEvent, EnterBackfill DEF RepairWrites
<1>10. ASSUME NEW p \in Procs, Migrate(p) PROVE Backfill'
  <2>1. log = <<>> /\ Enter(p, <<Migrated(ledger)>>, {})
    BY <1>10 DEF Migrate
  <2>2. Entering(<<Migrated(ledger)>>)
    BY <2>1, SingleEvent
  <2> QED BY <2>1, <2>2, EnterBackfill
<1>11. CASE RemoveStaleLock
  <2>1. \A p \in Procs : ~Inside(p)
    BY <1>11 DEF RemoveStaleLock, MigrationAssumption, Backfill, Ownership
  <2> QED BY <1>11, <2>1, QuietBackfill DEF RemoveStaleLock, Backfill, Shape, Inside
<1>12. CASE UNCHANGED vars
  BY <1>12, QuietBackfill DEF vars, Backfill, Shape, Ownership, Inside
<1> QED
  BY <1>1, <1>2, <1>3, <1>4, <1>5, <1>6, <1>7, <1>8, <1>9, <1>10, <1>11, <1>12
     DEF Next, ProcessStep, AllDone

\* However many migrations and other commands run, crash or fail beside each other,
\* the history is backfilled at most once, by its first event (migrateLedgerEvents).
THEOREM BackfilledOnce == Spec => []MigratedOnce
<1>1. Backfill => MigratedOnce
  BY DEF Backfill
<1> QED
  BY <1>1, MigrationAssumption, BackfillInit, BackfillStep, PTL DEF Spec

-----------------------------------------------------------------------------
(* Replay, event by event *)

LEMMA Least ==
    ASSUME NEW T \in SUBSET Nat, T # {}
    PROVE  \E m \in T : \A n \in T : m <= n
<1> DEFINE R == OpToRel(<, Nat)
<1>1. IsWellFoundedOn(R, Nat)
  BY NatLessThanWellFounded
<1>2. \A n, m \in Nat : <<n, m>> \in R <=> n < m
  BY DEF OpToRel
<1> HIDE DEF R
<1>3. \E m \in T : \A n \in T : <<n, m>> \notin R
  BY <1>1, WFMin, Zenon
<1>4. PICK m \in T : \A n \in T : <<n, m>> \notin R
  BY <1>3
<1>5. ASSUME NEW n \in T PROVE m <= n
  <2>1. n \in Nat /\ m \in Nat /\ <<n, m>> \notin R
    BY <1>4
  <2> QED BY <2>1, <1>2
<1> QED BY <1>5

\* f gives the states of the replay of the first n events.
Course(events, n, f) ==
    f = [m \in 0..n |-> IF m = 0 THEN [ok |-> TRUE, records |-> <<>>]
                        ELSE ReplayEvent(f[m - 1], events[m])]

LEMMA CourseAt ==
    ASSUME NEW events, NEW n \in Nat, NEW f, Course(events, n, f), NEW m \in 0..n
    PROVE  /\ m = 0 => f[m] = [ok |-> TRUE, records |-> <<>>]
           /\ m # 0 => f[m] = ReplayEvent(f[m - 1], events[m])
<1> DEFINE After(i) == IF i = 0 THEN [ok |-> TRUE, records |-> <<>>]
                       ELSE ReplayEvent(f[i - 1], events[i])
<1>1. f = [i \in 0..n |-> After(i)]
  BY DEF Course
<1> HIDE DEF After
<1>2. f[m] = After(m)
  BY <1>1
<1> QED BY <1>2 DEF After

LEMMA CourseOne ==
    ASSUME NEW events, NEW more, NEW n \in Nat, NEW k \in Nat, n <= k,
           \A i \in 1..n : events[i] = more[i],
           NEW f, NEW g, Course(events, n, f), Course(more, k, g)
    PROVE  f[n] = g[n]
<1> DEFINE T == {m \in Nat : m <= n /\ f[m] # g[m]}
<1> SUFFICES ASSUME T # {} PROVE FALSE
  OBVIOUS
<1>1. PICK m \in T : \A i \in T : m <= i
  <2> HIDE DEF T
  <2>1. T \in SUBSET Nat
    BY DEF T
  <2> QED BY <2>1, Least
<1>2. m \in 0..n /\ m \in 0..k /\ f[m] # g[m]
  BY <1>1
<1>3. m # 0
  BY <1>2, CourseAt
<1>4. f[m - 1] = g[m - 1]
  <2>1. m \in Nat /\ m - 1 \in Nat /\ m - 1 <= n /\ ~(m <= m - 1)
    BY <1>1, <1>3
  <2>2. m - 1 \notin T
    BY <1>1, <2>1
  <2> QED BY <2>1, <2>2
<1>5. f[m] = ReplayEvent(f[m - 1], events[m]) /\ g[m] = ReplayEvent(g[m - 1], more[m])
  BY <1>2, <1>3, CourseAt
<1>6. events[m] = more[m]
  BY <1>2, <1>3
<1> QED BY <1>2, <1>4, <1>5, <1>6

LEMMA CourseExists ==
    ASSUME NEW events, NEW n \in Nat
    PROVE  \E f : Course(events, n, f)
<1> DEFINE T == {m \in Nat : ~ \E f : Course(events, m, f)}
<1> SUFFICES ASSUME T # {} PROVE FALSE
  OBVIOUS
<1>1. PICK m \in T : \A i \in T : m <= i
  <2> HIDE DEF T
  <2>1. T \in SUBSET Nat
    BY DEF T
  <2> QED BY <2>1, Least
<1>2. m # 0
  <2> DEFINE g == [k \in 0..0 |-> [ok |-> TRUE, records |-> <<>>]]
  <2>1. Course(events, 0, g)
    BY DEF Course
  <2> QED BY <1>1, <2>1
<1>3. PICK f : Course(events, m - 1, f)
  <2>1. m \in Nat /\ m - 1 \in Nat /\ ~(m <= m - 1)
    BY <1>1, <1>2
  <2>2. m - 1 \notin T
    BY <1>1, <2>1
  <2> QED BY <2>1, <2>2
<1> DEFINE After(k) == IF k = 0 THEN [ok |-> TRUE, records |-> <<>>]
                       ELSE ReplayEvent(f[k - 1], events[k])
           g == [k \in 0..m |-> After(k)]
<1>4. ASSUME NEW k \in 0..m, k # 0
      PROVE  f[k - 1] = g[k - 1]
  <2>1. k - 1 \in 0..(m - 1) /\ m - 1 \in Nat /\ k - 1 \in 0..m
    BY <1>1, <1>2, <1>4
  <2>2. \A i \in 0..(m - 1) : /\ i = 0 => f[i] = [ok |-> TRUE, records |-> <<>>]
                              /\ i # 0 => f[i] = ReplayEvent(f[i - 1], events[i])
    BY <1>3, <2>1, CourseAt
  <2>3. f[k - 1] = After(k - 1)
    BY <2>1, <2>2
  <2> HIDE DEF After
  <2> QED BY <2>1, <2>3
<1> DEFINE Later(k) == IF k = 0 THEN [ok |-> TRUE, records |-> <<>>]
                       ELSE ReplayEvent(g[k - 1], events[k])
<1>5. \A k \in 0..m : After(k) = Later(k)
  <2> HIDE DEF g
  <2> QED BY <1>4
<1>6. g = [k \in 0..m |-> Later(k)]
  <2> HIDE DEF After, Later
  <2> QED BY <1>5
<1>7. Course(events, m, g)
  <2> HIDE DEF g
  <2> QED BY <1>6 DEF Course
<1> QED BY <1>1, <1>7

LEMMA ReplayIs ==
    ASSUME NEW events, Len(events) \in Nat
    PROVE  \E f : Course(events, Len(events), f) /\ Replay(events) = f[Len(events)]
<1>1. Replay(events) = (CHOOSE f : Course(events, Len(events), f))[Len(events)]
  BY DEF Replay, Course
<1> QED BY <1>1, CourseExists

LEMMA ReplayNothing == Replay(<<>>) = [ok |-> TRUE, records |-> <<>>]
<1>1. Len(<<>>) = 0
  OBVIOUS
<1>2. PICK f : Course(<<>>, 0, f) /\ Replay(<<>>) = f[0]
  BY <1>1, ReplayIs
<1> QED BY <1>2 DEF Course

LEMMA ReplayAppend ==
    ASSUME NEW S, NEW events \in Seq(S), NEW e \in S
    PROVE  Replay(Append(events, e)) = ReplayEvent(Replay(events), e)
<1> DEFINE n == Len(events)
           more == Append(events, e)
<1>1. n \in Nat /\ Len(more) = n + 1 /\ more[n + 1] = e /\ \A i \in 1..n : events[i] = more[i]
  OBVIOUS
<1> HIDE DEF more
<1>2. PICK f : Course(events, n, f) /\ Replay(events) = f[n]
  BY <1>1, ReplayIs
<1>3. PICK g : Course(more, n + 1, g) /\ Replay(more) = g[n + 1]
  BY <1>1, ReplayIs
<1> HIDE DEF n
<1>4. f[n] = g[n]
  BY <1>1, <1>2, <1>3, CourseOne
<1>5. g[n + 1] = ReplayEvent(g[n], e)
  <2>1. n + 1 \in 0..(n + 1) /\ n + 1 \in Nat /\ n + 1 # 0 /\ (n + 1) - 1 = n
    BY <1>1
  <2>2. g[n + 1] = ReplayEvent(g[(n + 1) - 1], more[n + 1])
    BY <1>3, <2>1, CourseAt
  <2> QED BY <1>1, <2>1, <2>2
<1> QED BY <1>1, <1>2, <1>3, <1>4, <1>5 DEF more

Event ==
    [type: {"ledger_migrated"}, records: Seq(Record)]
    \cup [type: {"memory_proposed"}, record: Record]
    \cup [type: {"memory_status_changed"}, previous_status: Statuses, record: Record]
    \cup [type: {"memory_exported", "memory_relationship_resolved"}, ids: SUBSET Ids]

\* Events that carry a version of a record.
Carries(e) == e.type \in {"memory_proposed", "memory_status_changed"}

Exactly(records) == [ok |-> TRUE, records |-> records]

LEMMA EventTypes ==
    ASSUME NEW e \in Event
    PROVE  /\ e.type = "ledger_migrated" => e.records \in Seq(Record)
           /\ Carries(e) => e.record \in Record
           /\ e.type \in {"ledger_migrated", "memory_proposed", "memory_status_changed",
                          "memory_exported", "memory_relationship_resolved"}
BY DEF Event, Carries

LEMMA RecordTypes ==
    ASSUME NEW r \in Record
    PROVE  r.id \in Ids /\ r.status \in Statuses /\ r.updated_at \in Nat
BY DEF Record

LEMMA HasId ==
    ASSUME NEW records, NEW id
    PROVE  id \in IdsOf(records) <=> \E i \in DOMAIN records : records[i].id = id
BY DEF IdsOf, ToSet

LEMMA PutHolds ==
    ASSUME NEW records \in Seq(Record), NEW record \in Record, NoDuplicates(records)
    PROVE  LET more == Put(records, record)
           IN /\ more \in Seq(Record) /\ NoDuplicates(more)
              /\ \E j \in DOMAIN more : more[j] = record
              /\ \A j \in DOMAIN more :
                    more[j] = record \/ \E i \in DOMAIN records : more[j] = records[i]
              /\ \A i \in DOMAIN records :
                    records[i].id # record.id => \E j \in DOMAIN more : more[j] = records[i]
<1> DEFINE more == Put(records, record)
           n == Len(records)
<1>0. n \in Nat /\ DOMAIN records = 1..n /\ \A i \in 1..n : records[i] \in Record
  OBVIOUS
<1>1. CASE record.id \in IdsOf(records)
  <2>1. more = [i \in 1..n |-> IF records[i].id = record.id THEN record ELSE records[i]]
    BY <1>0, <1>1 DEF Put
  <2>2. more \in Seq(Record) /\ DOMAIN more = 1..n
    BY <1>0, <2>1
  <2>3. \A i \in 1..n : more[i] = IF records[i].id = record.id THEN record ELSE records[i]
    BY <2>1
  <2> HIDE DEF more
  <2>4. \A i \in 1..n : more[i].id = records[i].id
    BY <2>3
  <2>5. NoDuplicates(more)
    BY <1>0, <2>2, <2>4 DEF NoDuplicates
  <2>6. \E j \in 1..n : more[j] = record
    BY <1>0, <1>1, <2>3, HasId
  <2> QED BY <1>0, <2>2, <2>3, <2>5, <2>6 DEF more
<1>2. CASE record.id \notin IdsOf(records)
  <2>1. more = Append(records, record)
    BY <1>2 DEF Put
  <2>2. /\ more \in Seq(Record) /\ DOMAIN more = 1..(n + 1) /\ more[n + 1] = record
        /\ \A i \in 1..n : more[i] = records[i]
    BY <1>0, <2>1
  <2> HIDE DEF more
  <2>3. \A i \in 1..n : records[i].id # record.id
    BY <1>0, <1>2, HasId
  <2>4. NoDuplicates(more)
    BY <1>0, <2>2, <2>3 DEF NoDuplicates
  <2> QED BY <1>0, <2>2, <2>4 DEF more
<1> QED BY <1>1, <1>2

\* What an event admitted by the records gives.
LEMMA Replayed ==
    ASSUME NEW state, NEW e \in Event,
           state.ok => state.records \in Seq(Record) /\ NoDuplicates(state.records)
    PROVE  LET after == ReplayEvent(state, e)
           IN /\ after.ok \in BOOLEAN /\ after.records \in Seq(Record) /\ NoDuplicates(after.records)
              /\ after = [ok |-> after.ok, records |-> after.records]
              /\ after.ok => state.ok /\ Admits(state.records, e)
<1> DEFINE after == ReplayEvent(state, e)
<1>1. CASE ~state.ok \/ ~Admits(state.records, e)
  <2>1. after = [ok |-> FALSE, records |-> <<>>]
    BY <1>1 DEF ReplayEvent
  <2>2. <<>> \in Seq(Record) /\ NoDuplicates(<<>>)
    BY DEF NoDuplicates
  <2> QED BY <2>1, <2>2
<1>2. CASE state.ok /\ Admits(state.records, e)
  <2> DEFINE more == CASE e.type = "ledger_migrated" -> e.records
                       [] e.type \in {"memory_proposed", "memory_status_changed"} ->
                              Put(state.records, e.record)
                       [] OTHER -> state.records
  <2>1. after = [ok |-> TRUE, records |-> more]
    BY <1>2 DEF ReplayEvent
  <2>2. more \in Seq(Record) /\ NoDuplicates(more)
    <3>1. CASE e.type = "ledger_migrated"
      <4>1. NoDuplicates(e.records)
        BY <1>2, <3>1 DEF Admits
      <4> QED BY <3>1, <4>1, EventTypes
    <3>2. CASE Carries(e)
      <4>1. more = Put(state.records, e.record)
        BY <3>2 DEF Carries
      <4> HIDE DEF more
      <4> QED BY <1>2, <3>2, <4>1, EventTypes, PutHolds
    <3>3. CASE e.type # "ledger_migrated" /\ ~Carries(e)
      BY <1>2, <3>3 DEF Carries
    <3> QED BY <3>1, <3>2, <3>3
  <2> HIDE DEF more
  <2> QED BY <1>2, <2>1, <2>2
<1> QED BY <1>1, <1>2

LEMMA ReplayHolds ==
    ASSUME NEW events \in Seq(Event)
    PROVE  /\ Replay(events).ok \in BOOLEAN /\ Replay(events).records \in Seq(Record)
           /\ NoDuplicates(Replay(events).records)
           /\ Replay(events) = [ok |-> Replay(events).ok, records |-> Replay(events).records]
<1> DEFINE Holds(s) == /\ Replay(s).ok \in BOOLEAN /\ Replay(s).records \in Seq(Record)
                       /\ NoDuplicates(Replay(s).records)
                       /\ Replay(s) = [ok |-> Replay(s).ok, records |-> Replay(s).records]
           T == {Len(s) : s \in {x \in Seq(Event) : ~Holds(x)}}
<1> SUFFICES ASSUME T # {} PROVE FALSE
  OBVIOUS
<1>1. T \in SUBSET Nat
  OBVIOUS
<1>2. PICK s \in Seq(Event) : ~Holds(s) /\ \A t \in Seq(Event) : Holds(t) \/ Len(s) <= Len(t)
  <2>1. PICK m \in T : \A n \in T : m <= n
    <3> HIDE DEF T
    <3> QED BY <1>1, Least
  <2>2. PICK s \in Seq(Event) : ~Holds(s) /\ Len(s) = m
    BY <2>1
  <2> QED BY <2>1, <2>2
<1>3. s # <<>>
  <2>1. <<>> \in Seq(Record) /\ NoDuplicates(<<>>)
    BY DEF NoDuplicates
  <2>2. Replay(<<>>).ok = TRUE /\ Replay(<<>>).records = <<>>
    BY ReplayNothing
  <2>3. Replay(<<>>) = [ok |-> Replay(<<>>).ok, records |-> Replay(<<>>).records]
    BY <2>2, ReplayNothing
  <2>4. Holds(<<>>)
    BY <2>1, <2>2, <2>3
  <2> QED BY <1>2, <2>4
<1>4. PICK t \in Seq(Event), e \in Event : s = Append(t, e)
  BY <1>3, SequenceEmptyOrAppend
<1>5. Holds(t)
  BY <1>2, <1>4
<1>6. Replay(s) = ReplayEvent(Replay(t), e)
  BY <1>4, ReplayAppend
<1>7. Holds(s)
  <2> DEFINE after == ReplayEvent(Replay(t), e)
  <2>1. /\ after.ok \in BOOLEAN /\ after.records \in Seq(Record) /\ NoDuplicates(after.records)
        /\ after = [ok |-> after.ok, records |-> after.records]
    BY <1>5, Replayed
  <2> HIDE DEF after
  <2>2. Replay(s) = after
    BY <1>6 DEF after
  <2> QED BY <2>1, <2>2
<1> QED BY <1>2, <1>7

-----------------------------------------------------------------------------
(* Types, and what a process that is at a step is there for *)

Typed ==
    /\ ledger \in Seq(Record)
    /\ log \in Seq(Event)
    /\ pc \in [Procs -> Steps]
    /\ cmd \in [Procs -> Kinds \cup {"none"}]
    /\ todo \in [Procs -> Seq(Event)]
    /\ next \in [Procs -> SUBSET Seq(Record)]
    /\ saw \in [Procs -> Seq(Record)]
    /\ verdict \in [Procs -> {"none", "clean", "drift"}]
    /\ witnessed \in [Procs -> BOOLEAN]
    /\ interrupted \in BOOLEAN
    /\ \A p \in Procs : pc[p] = "appending" => todo[p] # <<>>

Role(p) ==
    /\ pc[p] = "idle" <=> cmd[p] = "none"
    /\ pc[p] \in {"reading", "comparing"} => cmd[p] = "repair"
    /\ pc[p] \in {"looking", "checking", "verifying"} =>
          cmd[p] \in {"check", "migrate"} /\ verdict[p] = "none"
    /\ pc[p] = "appending" => cmd[p] # "repair"

Roles == \A p \in Procs : Role(p)

\* p alone acts.
OthersKeep(p) ==
    \A q \in Procs : q # p =>
        /\ pc'[q] = pc[q] /\ cmd'[q] = cmd[q] /\ todo'[q] = todo[q] /\ next'[q] = next[q]
        /\ saw'[q] = saw[q] /\ verdict'[q] = verdict[q] /\ witnessed'[q] = witnessed[q]

\* The plans a command may enter with.
Typical(p, events, records) ==
    /\ events \in Seq(Event)
    /\ records \in SUBSET Seq(Record)
    /\ cmd[p] # "repair" <=> events # <<>>

LEMMA SingleTyped ==
    ASSUME NEW e \in Event
    PROVE  /\ <<e>> \in Seq(Event) /\ <<e>> # <<>> /\ DOMAIN <<e>> = {1} /\ <<e>>[1] = e
           /\ <<e>> \o <<>> = <<e>>
<1>1. <<e>> \in Seq(Event) /\ <<e>> # <<>> /\ DOMAIN <<e>> = {1} /\ <<e>>[1] = e
  OBVIOUS
<1> QED BY <1>1, ConcatEmptySeq

LEMMA NowIsNat == Typed => Now \in Nat /\ Now = Len(log) + 3 /\ Len(log) \in Nat
BY DEF Typed, Now

\* updateRecordStatus: the lines it changes, and the last of them.
LEMMA ReviewLines ==
    ASSUME NEW records \in Seq(Record), NEW id \in IdsOf(records)
    PROVE  LET lines == {i \in DOMAIN records : records[i].id = id}
           IN Max(lines) \in lines
<1> DEFINE n == Len(records)
           lines == {i \in DOMAIN records : records[i].id = id}
           T == {n - i : i \in lines}
<1>1. n \in Nat /\ DOMAIN records = 1..n /\ lines \subseteq 1..n
  OBVIOUS
<1>2. lines # {}
  BY HasId
<1> HIDE DEF lines
<1>3. T \in SUBSET Nat /\ T # {}
  <2>1. \A i \in lines : n - i \in Nat
    BY <1>1
  <2> HIDE DEF n
  <2> QED BY <1>2, <2>1
<1>4. PICK m \in T : \A k \in T : m <= k
  <2> HIDE DEF T
  <2> QED BY <1>3, Least
<1>5. PICK i \in lines : m = n - i
  BY <1>4
<1>6. ASSUME NEW j \in lines PROVE i >= j
  <2>1. n - i <= n - j
    BY <1>4, <1>5
  <2>2. i \in Nat /\ j \in Nat /\ n \in Nat
    BY <1>1
  <2> HIDE DEF n
  <2> QED BY <2>1, <2>2
<1>7. \E x \in lines : \A y \in lines : x >= y
  BY <1>6
<1>8. Max(lines) \in lines
  BY <1>7 DEF Max
<1> QED BY <1>8 DEF lines

\* What review makes of the ledger.
Restamped(records, id, status, time) ==
    [i \in DOMAIN records |-> IF i \in {j \in DOMAIN records : records[j].id = id}
                              THEN [records[i] EXCEPT !.status = status, !.updated_at = time]
                              ELSE records[i]]

LEMMA RestampedTyped ==
    ASSUME NEW records \in Seq(Record), NEW id, NEW status \in Statuses, NEW time \in Nat,
           NEW more, more = Restamped(records, id, status, time)
    PROVE  /\ more \in Seq(Record) /\ DOMAIN more = DOMAIN records
           /\ \A i \in DOMAIN records :
                 /\ records[i].id # id => more[i] = records[i]
                 /\ records[i].id = id =>
                      /\ more[i].id = id /\ more[i].status = status
                      /\ more[i].updated_at = time
<1> DEFINE n == Len(records)
<1>1. n \in Nat /\ DOMAIN records = 1..n /\ \A i \in 1..n : records[i] \in Record
  OBVIOUS
<1>2. more = [i \in 1..n |-> IF records[i].id = id
                             THEN [records[i] EXCEPT !.status = status, !.updated_at = time]
                             ELSE records[i]]
  BY <1>1 DEF Restamped
<1>3. \A i \in 1..n :
         LET r == [records[i] EXCEPT !.status = status, !.updated_at = time]
         IN r \in Record /\ r.id = records[i].id /\ r.status = status /\ r.updated_at = time
  BY <1>1 DEF Record
<1>4. /\ DOMAIN more = 1..n
      /\ \A i \in 1..n : more[i] = IF records[i].id = id
                             THEN [records[i] EXCEPT !.status = status, !.updated_at = time]
                             ELSE records[i]
  BY <1>2
<1>5. more \in Seq(Record)
  <2>1. more \in [1..n -> Record]
    BY <1>1, <1>2, <1>3
  <2> HIDE DEF n
  <2> QED BY <1>1, <2>1, SeqDef
<1> QED BY <1>1, <1>3, <1>4, <1>5

\* A review, taken apart.
Reviews(p, id, status, last) ==
    /\ cmd[p] = "review" /\ id \in IdsOf(ledger) /\ status \in Statuses
    /\ last \in DOMAIN ledger /\ ledger[last].id = id
    /\ \A i \in DOMAIN ledger :
          ledger[i].id = id => TransitionAllowed(ledger[i].status, status)
    /\ Enter(p, <<StatusChanged(ledger[last].status, Restamped(ledger, id, status, Now)[last])>>
                  \o (IF status = "retired" THEN <<Resolved(id)>> ELSE <<>>),
             {Restamped(ledger, id, status, Now)})

LEMMA ReviewParts ==
    ASSUME Typed, NEW p \in Procs, Review(p)
    PROVE  \E id \in IdsOf(ledger), status \in Statuses, last \in DOMAIN ledger :
                Reviews(p, id, status, last)
<1>1. PICK id \in IdsOf(ledger), status \in Statuses :
        LET lines == {i \in DOMAIN ledger : ledger[i].id = id}
            last == Max(lines)
            changed == [i \in DOMAIN ledger |->
                          IF i \in lines
                          THEN [ledger[i] EXCEPT !.status = status, !.updated_at = Now]
                          ELSE ledger[i]]
        IN /\ \A i \in lines : TransitionAllowed(ledger[i].status, status)
           /\ Enter(p, <<StatusChanged(ledger[last].status, changed[last])>>
                       \o (IF status = "retired" THEN <<Resolved(id)>> ELSE <<>>),
                    {changed})
  BY DEF Review
<1> DEFINE lines == {i \in DOMAIN ledger : ledger[i].id = id}
           last == Max(lines)
<1>2. last \in lines
  BY ReviewLines DEF Typed
<1>3. /\ cmd[p] = "review"
      /\ \A i \in lines : TransitionAllowed(ledger[i].status, status)
      /\ Enter(p, <<StatusChanged(ledger[last].status, Restamped(ledger, id, status, Now)[last])>>
                  \o (IF status = "retired" THEN <<Resolved(id)>> ELSE <<>>),
               {Restamped(ledger, id, status, Now)})
  BY <1>1 DEF Restamped, Review
<1> HIDE DEF last
<1>4. Reviews(p, id, status, last)
  BY <1>2, <1>3 DEF Reviews
<1> QED BY <1>2, <1>4

LEMMA ReviewTyped ==
    ASSUME Typed, NEW p \in Procs, NEW id \in IdsOf(ledger), NEW status \in Statuses,
           NEW last \in DOMAIN ledger, Reviews(p, id, status, last)
    PROVE  /\ id \in Ids
           /\ StatusChanged(ledger[last].status, Restamped(ledger, id, status, Now)[last]) \in Event
           /\ Restamped(ledger, id, status, Now)[last] \in Record
           /\ Resolved(id) \in Event
<1>1. ledger[last] \in Record /\ ledger[last].id = id
  BY DEF Typed, Reviews
<1>2. ledger[last].status \in Statuses /\ id \in Ids
  BY <1>1, RecordTypes
<1>3. Restamped(ledger, id, status, Now)[last] \in Record
  <2> DEFINE more == Restamped(ledger, id, status, Now)
  <2>1. Now \in Nat /\ ledger \in Seq(Record)
    BY NowIsNat DEF Typed
  <2>2. more = Restamped(ledger, id, status, Now)
    OBVIOUS
  <2> HIDE DEF more
  <2>3. more \in Seq(Record) /\ DOMAIN more = DOMAIN ledger
    BY <2>1, <2>2, RestampedTyped
  <2> QED BY <2>3 DEF more
<1> QED BY <1>2, <1>3 DEF StatusChanged, Resolved, Event

LEMMA ProposeParts ==
    ASSUME Typed, NEW p \in Procs, Propose(p)
    PROVE  \E record \in Record :
              /\ cmd[p] = "propose" /\ record.id \notin IdsOf(ledger) /\ record.updated_at = Now
              /\ Proposed(record) \in Event
              /\ Enter(p, <<Proposed(record)>>, {Append(ledger, record)})
<1>1. PICK id \in Ids, status \in Statuses :
        /\ cmd[p] = "propose" /\ id \notin IdsOf(ledger)
        /\ LET record == [id |-> id, status |-> status, updated_at |-> Now, form |-> "plain"]
           IN Enter(p, <<Proposed(record)>>, {Append(ledger, record)})
  BY DEF Propose, Statuses
<1> DEFINE record == [id |-> id, status |-> status, updated_at |-> Now, form |-> "plain"]
<1>2. record \in Record /\ record.id = id /\ record.updated_at = Now
  BY NowIsNat DEF Record
<1>3. Enter(p, <<Proposed(record)>>, {Append(ledger, record)})
  BY <1>1
<1> HIDE DEF record
<1>4. Proposed(record) \in Event
  BY <1>2 DEF Event, Proposed
<1> QED BY <1>1, <1>2, <1>3, <1>4

LEMMA ExportParts ==
    ASSUME Typed, NEW p \in Procs, Export(p)
    PROVE  \E ids \in SUBSET IdsOf(ledger) :
              cmd[p] = "export" /\ Exported(ids) \in Event /\ Enter(p, <<Exported(ids)>>, {})
<1> DEFINE ids == {r.id : r \in {x \in ToSet(ledger) : x.status = "accepted" /\ x.form = "plain"}}
<1>1. ids \subseteq IdsOf(ledger)
  BY DEF IdsOf
<1>2. IdsOf(ledger) \subseteq Ids
  <2>1. ToSet(ledger) \subseteq Record
    BY DEF Typed, ToSet
  <2> QED BY <2>1, RecordTypes DEF IdsOf
<1>3. cmd[p] = "export" /\ Enter(p, <<Exported(ids)>>, {})
  BY DEF Export
<1> HIDE DEF ids
<1>4. Exported(ids) \in Event
  BY <1>1, <1>2 DEF Exported, Event
<1> QED BY <1>1, <1>3, <1>4

LEMMA MigrateParts ==
    ASSUME Typed, NEW p \in Procs, Migrate(p)
    PROVE  /\ cmd[p] = "migrate" /\ log = <<>> /\ NoDuplicates(ledger)
           /\ Migrated(ledger) \in Event /\ Enter(p, <<Migrated(ledger)>>, {})
BY DEF Migrate, Migratable, Migrated, Event, Typed

\* Entering: the command has the lock and its plan, nothing else happens.
LEMMA EnterTyped ==
    ASSUME Typed, Roles, NEW p \in Procs, NEW events, NEW records,
           Typical(p, events, records), Enter(p, events, records)
    PROVE  Typed' /\ Roles' /\ OthersKeep(p)
<1>1. /\ pc[p] = "waiting" /\ log' = log /\ ledger' = ledger
      /\ todo' = [todo EXCEPT ![p] = events] /\ next' = [next EXCEPT ![p] = records]
      /\ pc' = [pc EXCEPT ![p] = IF events # <<>> THEN "appending" ELSE "writing"]
      /\ UNCHANGED <<cmd, saw, verdict, witnessed, interrupted>>
  BY DEF Enter, Goto, files, bounds
<1>2. events \in Seq(Event) /\ records \in SUBSET Seq(Record)
  BY DEF Typical
<1>3. Typed'
  BY <1>1, <1>2 DEF Typed, Steps
<1>4. OthersKeep(p)
  BY <1>1 DEF Typed, OthersKeep
<1>5. Roles'
  BY <1>1, <1>4 DEF Roles, Role, OthersKeep, Typed, Typical
<1> QED BY <1>3, <1>4, <1>5

\* Every way into the lock, with the plan.
Enters(p) == \E events, records : Typical(p, events, records) /\ Enter(p, events, records)

LEMMA CommandsEnter ==
    ASSUME Typed, NEW p \in Procs,
           Propose(p) \/ Review(p) \/ Export(p) \/ RepairWrites(p) \/ Migrate(p)
    PROVE  Enters(p)
<1>1. CASE Propose(p)
  <2>1. PICK record \in Record :
           /\ cmd[p] = "propose" /\ Proposed(record) \in Event
           /\ Enter(p, <<Proposed(record)>>, {Append(ledger, record)})
    BY <1>1, ProposeParts
  <2>2. {Append(ledger, record)} \in SUBSET Seq(Record)
    BY DEF Typed
  <2> QED BY <2>1, <2>2, SingleTyped DEF Enters, Typical
<1>2. CASE Review(p)
  <2>1. PICK id \in IdsOf(ledger), status \in Statuses, last \in DOMAIN ledger :
            Reviews(p, id, status, last)
    BY <1>2, ReviewParts
  <2> DEFINE e == StatusChanged(ledger[last].status, Restamped(ledger, id, status, Now)[last])
             more == Restamped(ledger, id, status, Now)
             f == IF status = "retired" THEN <<Resolved(id)>> ELSE <<>>
  <2>2. e \in Event /\ Resolved(id) \in Event
    BY <2>1, ReviewTyped
  <2>3. more \in Seq(Record)
    BY NowIsNat, RestampedTyped DEF Typed
  <2>4. cmd[p] = "review" /\ Enter(p, <<e>> \o f, {more})
    BY <2>1 DEF Reviews
  <2> HIDE DEF e, more
  <2>5. f \in Seq(Event) /\ <<e>> \in Seq(Event)
    BY <2>2
  <2> HIDE DEF f
  <2>6. <<e>> \o f \in Seq(Event) /\ <<e>> \o f # <<>>
    BY <2>2, <2>5
  <2> QED BY <2>3, <2>4, <2>6 DEF Enters, Typical
<1>3. CASE Export(p)
  <2>1. PICK ids \in SUBSET IdsOf(ledger) :
            cmd[p] = "export" /\ Exported(ids) \in Event /\ Enter(p, <<Exported(ids)>>, {})
    BY <1>3, ExportParts
  <2> QED BY <2>1, SingleTyped DEF Enters, Typical
<1>4. CASE RepairWrites(p)
  <2>1. <<>> \in Seq(Event) /\ {saw[p]} \in SUBSET Seq(Record)
    BY DEF Typed
  <2> QED BY <1>4, <2>1 DEF RepairWrites, Enters, Typical
<1>5. CASE Migrate(p)
  BY <1>5, MigrateParts, SingleTyped DEF Enters, Typical
<1> QED BY <1>1, <1>2, <1>3, <1>4, <1>5

Ends(p) ==
    /\ pc' = [pc EXCEPT ![p] = "idle"] /\ cmd' = [cmd EXCEPT ![p] = "none"]
    /\ todo' = [todo EXCEPT ![p] = <<>>] /\ next' = [next EXCEPT ![p] = {}]
    /\ saw' = [saw EXCEPT ![p] = <<>>]

\* A step that goes on, with the same plan, to a place outside the lock or out of it.
Moves(p, step) ==
    /\ pc' = [pc EXCEPT ![p] = step] /\ step \in Steps \ {"idle", "appending", "writing"}
    /\ UNCHANGED <<files, todo, next>>

LEMMA StepTyped ==
    ASSUME Typed, Roles, NEW p \in Procs,
           (\E kind \in Commands : Start(p, kind)) \/ ProcessStep(p) \/ Crash(p) \/ WriteFails(p)
    PROVE  Typed' /\ Roles' /\ OthersKeep(p)
<1> USE DEF files, private, bounds
<1>1. ASSUME NEW kind \in Commands, Start(p, kind) PROVE Typed' /\ Roles' /\ OthersKeep(p)
  <2>1. PICK step \in {"looking", "checking", "reading", "waiting"} :
           /\ pc' = [pc EXCEPT ![p] = step] /\ cmd' = [cmd EXCEPT ![p] = kind]
           /\ verdict' = [verdict EXCEPT ![p] = "none"]
           /\ witnessed' = [witnessed EXCEPT ![p] = FALSE]
           /\ UNCHANGED <<files, todo, next, saw, interrupted>>
           /\ step = "reading" => kind = "repair"
           /\ step \in {"looking", "checking"} => kind \in {"check", "migrate"}
    BY <1>1 DEF Start, Goto
  <2>2. kind \in Kinds /\ kind # "none"
    BY MigrationAssumption DEF MigrationAssumption, Kinds
  <2>3. Typed'
    BY <2>1, <2>2 DEF Typed, Steps
  <2>4. OthersKeep(p)
    BY <2>1 DEF OthersKeep, Typed
  <2>5. Roles'
    BY <2>1, <2>2, <2>4 DEF Roles, Role, OthersKeep, Typed
  <2> QED BY <2>3, <2>4, <2>5
<1>2. CASE TimeOut(p) \/ Refuse(p) \/ RepairReports(p) \/ MigrateDryRun(p) \/ Crash(p) \/ Release(p)
  <2>1. Ends(p) /\ UNCHANGED <<files, verdict, witnessed>> /\ interrupted' \in BOOLEAN
    BY <1>2 DEF TimeOut, Refuse, RepairReports, MigrateDryRun, Crash, Release, End, Goto, Ends, Typed
  <2>2. Typed' /\ OthersKeep(p)
    BY <2>1 DEF Ends, Typed, OthersKeep, Steps
  <2>3. Roles'
    BY <2>1, <2>2 DEF Ends, Typed, OthersKeep, Roles, Role
  <2> QED BY <2>2, <2>3
<1>3. CASE CheckReadsEvents(p)
  <2>1. /\ Ends(p) /\ UNCHANGED <<files, interrupted>>
        /\ \E v \in {"clean", "drift"} : verdict' = [verdict EXCEPT ![p] = v]
        /\ \E w \in BOOLEAN : witnessed' = [witnessed EXCEPT ![p] = w]
    BY <1>3 DEF CheckReadsEvents, End, Goto, Ends, Typed
  <2>2. Typed' /\ OthersKeep(p)
    BY <2>1 DEF Ends, Typed, OthersKeep, Steps
  <2>3. Roles'
    BY <2>1, <2>2 DEF Ends, Typed, OthersKeep, Roles, Role
  <2> QED BY <2>2, <2>3
<1>4. CASE CheckReadsLedger(p)
  <2>1. /\ Moves(p, "verifying") /\ pc[p] = "checking"
        /\ saw' = [saw EXCEPT ![p] = ledger]
        /\ \E w \in BOOLEAN : witnessed' = [witnessed EXCEPT ![p] = w]
        /\ UNCHANGED <<cmd, verdict, interrupted>>
    BY <1>4 DEF CheckReadsLedger, Goto, Moves, Steps
  <2>2. Typed' /\ OthersKeep(p)
    BY <2>1 DEF Moves, Typed, OthersKeep
  <2>3. Roles'
    BY <2>1, <2>2 DEF Moves, Typed, OthersKeep, Roles, Role
  <2> QED BY <2>2, <2>3
<1>5. CASE RepairReadsEvents(p)
  <2>1. /\ Moves(p, "comparing") /\ pc[p] = "reading"
        /\ saw' = [saw EXCEPT ![p] = Replay(log).records]
        /\ UNCHANGED <<cmd, verdict, witnessed, interrupted>>
    BY <1>5 DEF RepairReadsEvents, Goto, Moves, Steps
  <2>2. Replay(log).records \in Seq(Record)
    BY ReplayHolds DEF Typed
  <2>3. Typed' /\ OthersKeep(p)
    BY <2>1, <2>2 DEF Moves, Typed, OthersKeep
  <2>4. Roles'
    BY <2>1, <2>3 DEF Moves, Typed, OthersKeep, Roles, Role
  <2> QED BY <2>3, <2>4
<1>6. CASE RepairConfirmed(p) \/ MigrateLooks(p) \/ MigrateChecks(p) \/ WriteFails(p)
  <2>1. /\ Moves(p, "waiting") \/ (Moves(p, "checking") /\ pc[p] = "looking") \/ Moves(p, "releasing")
        /\ pc[p] # "idle"
        /\ UNCHANGED <<cmd, saw, verdict, witnessed>> /\ interrupted' \in BOOLEAN
    BY <1>6 DEF RepairConfirmed, MigrateLooks, MigrateChecks, WriteFails, Goto, Moves, Steps, Typed
  <2>2. Typed' /\ OthersKeep(p)
    BY <2>1 DEF Moves, Typed, OthersKeep
  <2>3. Roles'
    BY <2>1, <2>2 DEF Moves, Typed, OthersKeep, Roles, Role
  <2> QED BY <2>2, <2>3
<1>7. CASE AppendEvent(p)
  <2> DEFINE step == IF Len(todo[p]) > 1 THEN "appending"
                     ELSE IF next[p] # {} THEN "writing" ELSE "releasing"
  <2>1. /\ pc[p] = "appending" /\ log' = Append(log, Head(todo[p]))
        /\ todo' = [todo EXCEPT ![p] = Tail(@)]
        /\ pc' = [pc EXCEPT ![p] = step]
        /\ UNCHANGED <<ledger, cmd, next, saw, verdict, witnessed, interrupted>>
    BY <1>7 DEF AppendEvent, Goto
  <2>2. todo[p] \in Seq(Event) /\ todo[p] # <<>>
    BY <2>1 DEF Typed
  <2>3. /\ Head(todo[p]) \in Event /\ Tail(todo[p]) \in Seq(Event)
        /\ Len(todo[p]) > 1 => Tail(todo[p]) # <<>>
    BY <2>2, SeqIsSeq, Tailed, HeadTailProperties
  <2>4. step \in {"appending", "writing", "releasing"} /\ (step = "appending" => Len(todo[p]) > 1)
    OBVIOUS
  <2> HIDE DEF step
  <2>5. log' \in Seq(Event)
    BY <2>1, <2>3 DEF Typed
  <2>6. Typed' /\ OthersKeep(p)
    BY <2>1, <2>3, <2>4, <2>5 DEF Typed, OthersKeep, Steps
  <2>7. Roles'
    BY <2>1, <2>4, <2>6 DEF Typed, OthersKeep, Roles, Role
  <2> QED BY <2>6, <2>7
<1>8. CASE WriteLedger(p)
  <2>1. /\ pc[p] = "writing" /\ ledger' \in next[p] /\ log' = log
        /\ pc' = [pc EXCEPT ![p] = "releasing"]
        /\ UNCHANGED <<todo, next, cmd, saw, verdict, witnessed, interrupted>>
    BY <1>8 DEF WriteLedger, Goto
  <2>2. Typed' /\ OthersKeep(p)
    BY <2>1 DEF Typed, OthersKeep, Steps
  <2>3. Roles'
    BY <2>1, <2>2 DEF Typed, OthersKeep, Roles, Role
  <2> QED BY <2>2, <2>3
<1>9. CASE Propose(p) \/ Review(p) \/ Export(p) \/ RepairWrites(p) \/ Migrate(p)
  BY <1>9, CommandsEnter, EnterTyped DEF Enters
<1> QED
  BY <1>1, <1>2, <1>3, <1>4, <1>5, <1>6, <1>7, <1>8, <1>9 DEF ProcessStep

LEMMA TypedInit == Init => Typed /\ Roles
<1> SUFFICES ASSUME Init PROVE Typed /\ Roles
  OBVIOUS
<1>1. <<>> \in Seq(Event) /\ <<>> \in Seq(Record) /\ ledger \in Seq(Record)
  BY MigrationAssumption DEF Init, MigrationAssumption
<1> QED BY <1>1 DEF Init, Typed, Roles, Role, Steps

LEMMA StepsTyped ==
    ASSUME Typed, Roles, [Next]_vars
    PROVE  Typed' /\ Roles'
<1>1. CASE \E p \in Procs : (\E kind \in Commands : Start(p, kind)) \/ ProcessStep(p)
                              \/ Crash(p) \/ WriteFails(p)
  BY <1>1, StepTyped
<1>2. CASE RemoveStaleLock \/ UNCHANGED vars
  <2>1. UNCHANGED <<ledger, log, pc, cmd, todo, next, saw, verdict, witnessed, interrupted>>
    BY <1>2 DEF RemoveStaleLock, vars, files, private, bounds
  <2> QED BY <2>1 DEF Typed, Roles, Role
<1> QED BY <1>1, <1>2 DEF Next, AllDone


\* Every variable has its type, and a process that appends has an event to append.
THEOREM TypeCorrect == Spec => []Typed
<1>1. Typed /\ Roles => Typed
  OBVIOUS
<1> QED BY <1>1, TypedInit, StepsTyped, PTL DEF Spec
-----------------------------------------------------------------------------
(* Repairs *)

\* The operator runs repair as the guide says, where there is a history and by
\* itself, or does not run it.
RepairAsGuided == Guided \/ "repair" \notin Commands

OnlyRepair ==
    \A p \in Procs : cmd[p] = "repair" =>
        Guided /\ \A q \in Procs : q # p => pc[q] = "idle"

\* Nothing is appended between repair's reading of the history and its write.
RepairHolds ==
    \A p \in Procs : cmd[p] = "repair" =>
        /\ pc[p] \in {"comparing", "waiting", "writing"} => Replay(log) = Exactly(saw[p])
        /\ pc[p] = "writing" => next[p] = {saw[p]}

Unmoved == UNCHANGED <<ledger, log, pc, cmd, todo, next, saw, verdict, witnessed, interrupted>>

Acts(p) == (\E kind \in Commands : Start(p, kind)) \/ ProcessStep(p) \/ Crash(p) \/ WriteFails(p)

LEMMA StepsAct ==
    ASSUME [Next]_vars
    PROVE  Unmoved \/ \E p \in Procs : Acts(p)
BY DEF Next, AllDone, RemoveStaleLock, vars, files, private, bounds, Unmoved, Acts

\* A process that acts without starting was at work, on the same command or its end.
LEMMA Working ==
    ASSUME Typed, Roles, NEW p \in Procs, Acts(p), ~ \E kind \in Commands : Start(p, kind)
    PROVE  /\ pc[p] # "idle"
           /\ cmd'[p] = cmd[p] \/ (cmd'[p] = "none" /\ pc'[p] = "idle")
<1>1. CASE Propose(p) \/ Review(p) \/ Export(p) \/ RepairWrites(p) \/ Migrate(p)
  <2>1. PICK events, records : Enter(p, events, records)
    BY <1>1, CommandsEnter DEF Enters
  <2> QED BY <2>1 DEF Enter
<1>2. CASE CheckReadsLedger(p) \/ RepairReadsEvents(p) \/ RepairConfirmed(p) \/ MigrateLooks(p)
            \/ MigrateChecks(p) \/ WriteFails(p) \/ AppendEvent(p) \/ WriteLedger(p)
  BY <1>2 DEF CheckReadsLedger, RepairReadsEvents, RepairConfirmed, MigrateLooks,
     MigrateChecks, WriteFails, AppendEvent, WriteLedger, private
<1>3. CASE TimeOut(p) \/ Refuse(p) \/ RepairReports(p) \/ MigrateDryRun(p) \/ Crash(p) \/ Release(p)
            \/ CheckReadsEvents(p)
  BY <1>3 DEF TimeOut, Refuse, RepairReports, MigrateDryRun, Crash, Release, CheckReadsEvents,
     End, Goto, Typed
<1> QED BY <1>1, <1>2, <1>3 DEF Acts, ProcessStep

LEMMA OnlyRepairStep ==
    ASSUME RepairAsGuided, Typed, Roles, OnlyRepair, [Next]_vars
    PROVE  OnlyRepair'
<1>1. CASE Unmoved
  BY <1>1 DEF Unmoved, OnlyRepair
<1>2. ASSUME NEW p \in Procs, Acts(p) PROVE OnlyRepair'
  <2>1. OthersKeep(p)
    BY <1>2, StepTyped DEF Acts
  <2>2. SUFFICES ASSUME NEW r \in Procs, cmd'[r] = "repair"
                 PROVE  Guided /\ \A q \in Procs : q # r => pc'[q] = "idle"
    BY DEF OnlyRepair
  <2>3. CASE \E kind \in Commands : Start(p, kind)
    <3>1. PICK kind \in Commands : Start(p, kind)
      BY <2>3
    <3>2. cmd'[p] = kind /\ (Guided => AsGuided(kind))
      BY <3>1 DEF Start, Typed
    <3>3. CASE r = p
      <4>1. Guided /\ \A q \in Procs : pc[q] = "idle"
        BY <2>2, <3>2, <3>3 DEF RepairAsGuided, AsGuided
      <4> QED BY <2>1, <3>3, <4>1 DEF OthersKeep
    <3>4. CASE r # p
      <4>1. cmd[r] = "repair"
        BY <2>1, <2>2, <3>4 DEF OthersKeep
      <4> QED BY <3>2, <4>1 DEF AsGuided, OnlyRepair
    <3> QED BY <3>3, <3>4
  <2>4. CASE ~ \E kind \in Commands : Start(p, kind)
    <3>1. pc[p] # "idle" /\ (cmd'[p] = cmd[p] \/ cmd'[p] = "none")
      BY <1>2, <2>4, Working
    <3>2. cmd[r] = "repair"
      BY <2>1, <2>2, <3>1 DEF OthersKeep
    <3>3. r = p
      BY <3>1, <3>2 DEF OnlyRepair
    <3> QED BY <2>1, <3>2, <3>3 DEF OnlyRepair, OthersKeep
  <2> QED BY <2>3, <2>4
<1> QED BY <1>1, <1>2, StepsAct

LEMMA RepairHoldsStep ==
    ASSUME Typed, Roles, OnlyRepair, RepairHolds, [Next]_vars
    PROVE  RepairHolds'
<1>1. CASE Unmoved
  BY <1>1 DEF Unmoved, RepairHolds
<1>2. ASSUME NEW p \in Procs, Acts(p) PROVE RepairHolds'
  <2>1. OthersKeep(p) /\ Typed'
    BY <1>2, StepTyped DEF Acts
  <2>2. SUFFICES ASSUME NEW r \in Procs, cmd'[r] = "repair",
                        pc'[r] \in {"comparing", "waiting", "writing"}
                 PROVE  /\ Replay(log') = Exactly(saw'[r])
                        /\ pc'[r] = "writing" => next'[r] = {saw'[r]}
    BY DEF RepairHolds
  <2>3. CASE \E kind \in Commands : Start(p, kind)
    <3>1. PICK kind \in Commands : Start(p, kind)
      BY <2>3
    <3>2. /\ cmd'[p] = kind /\ (Guided => AsGuided(kind)) /\ UNCHANGED <<log, next, saw>>
          /\ kind = "repair" => pc'[p] = "reading"
      BY <3>1 DEF Start, Goto, Typed, files
    <3>3. r # p
      BY <2>2, <3>2
    <3>4. cmd[r] = "repair"
      BY <2>1, <2>2, <3>3 DEF OthersKeep
    <3> QED BY <3>2, <3>4 DEF AsGuided, OnlyRepair
  <2>4. CASE ~ \E kind \in Commands : Start(p, kind)
    <3>1. pc[p] # "idle" /\ (cmd'[p] = cmd[p] \/ cmd'[p] = "none")
      BY <1>2, <2>4, Working
    <3>2. cmd[r] = "repair"
      BY <2>1, <2>2, <3>1 DEF OthersKeep
    <3>3. r = p
      BY <3>1, <3>2 DEF OnlyRepair
    <3>4. CASE RepairReadsEvents(p)
      <4>1. /\ Replay(log).ok /\ saw'[p] = Replay(log).records /\ pc'[p] = "comparing" /\ log' = log
        BY <3>4 DEF RepairReadsEvents, Goto, Typed, files
      <4>2. /\ Replay(log).ok \in BOOLEAN
            /\ Replay(log) = [ok |-> Replay(log).ok, records |-> Replay(log).records]
        BY ReplayHolds DEF Typed
      <4> QED BY <3>3, <4>1, <4>2 DEF Exactly
    <3>5. CASE RepairConfirmed(p)
      BY <3>2, <3>3, <3>5 DEF RepairConfirmed, Goto, RepairHolds, Typed, files, private
    <3>6. CASE RepairWrites(p)
      <4>1. Enter(p, <<>>, {saw[p]})
        BY <3>6 DEF RepairWrites
      <4> QED BY <3>2, <3>3, <4>1 DEF Enter, RepairHolds, Typed, files
    <3>7. CASE Propose(p) \/ Review(p) \/ Export(p) \/ Migrate(p)
      BY <3>2, <3>3, <3>7 DEF Propose, Review, Export, Migrate
    <3>8. CASE AppendEvent(p) \/ CheckReadsLedger(p) \/ MigrateLooks(p) \/ MigrateChecks(p)
                \/ MigrateDryRun(p) \/ CheckReadsEvents(p)
      BY <3>2, <3>3, <3>8 DEF AppendEvent, CheckReadsLedger, MigrateLooks, MigrateChecks,
         MigrateDryRun, CheckReadsEvents, Roles, Role
    <3>9. CASE TimeOut(p) \/ Refuse(p) \/ RepairReports(p) \/ Crash(p) \/ Release(p)
                \/ WriteLedger(p) \/ WriteFails(p)
      <4>1. pc'[p] \in {"idle", "releasing"}
        BY <3>9 DEF TimeOut, Refuse, RepairReports, Crash, Release, WriteLedger, WriteFails,
           End, Goto, Typed
      <4> QED BY <2>2, <3>3, <4>1
    <3> QED
      BY <1>2, <2>4, <3>4, <3>5, <3>6, <3>7, <3>8, <3>9 DEF Acts, ProcessStep
  <2> QED BY <2>3, <2>4
<1> QED BY <1>1, <1>2, StepsAct

-----------------------------------------------------------------------------
(* Times: a version is newer than all that was there before it *)

\* Nothing in the store as it was before the upgrade is of the future.
PastLegacies == \A records \in Legacies : \A i \in DOMAIN records : records[i].updated_at < 3

Before(records, time) == \A i \in DOMAIN records : records[i].updated_at < time

\* The history has a version of a record that is newer than what these records have.
Overtaken(events, records) ==
    \E i \in DOMAIN events :
        /\ Carries(events[i])
        /\ \A j \in DOMAIN records : records[j].id = events[i].record.id =>
                records[j].updated_at < events[i].record.updated_at

\* No record that is replayed is older than a version of it in the history.
Fresh(events) ==
    Replay(events).ok =>
        \A i \in DOMAIN events : Carries(events[i]) =>
            \E j \in DOMAIN Replay(events).records :
                /\ Replay(events).records[j].id = events[i].record.id
                /\ Replay(events).records[j].updated_at >= events[i].record.updated_at

Stamped(events, time) ==
    /\ \A i \in DOMAIN events : Carries(events[i]) => events[i].record.updated_at < time
    /\ Replay(events).ok => Before(Replay(events).records, time)

\* Events to append now: at most the first carries a version, and that is of now.
Scheduled(events) ==
    \A i \in DOMAIN events :
        /\ Carries(events[i]) => i = 1 /\ events[i].record.updated_at = Now
        /\ events[i].type = "ledger_migrated" => log = <<>> /\ Before(events[i].records, 3)

Plans(p) ==
    /\ pc[p] = "appending" =>
        /\ Scheduled(todo[p])
        /\ \A records \in next[p] :
              /\ Before(records, Now + 1)
              /\ Carries(todo[p][1]) \/ (Before(records, Now) /\ Overtaken(log, ledger))
    /\ pc[p] = "writing" =>
        /\ \A records \in next[p] : Before(records, Now)
        /\ cmd[p] # "repair" => Overtaken(log, ledger)

\* What a check has read of the ledger is still there, or the history is beyond it.
Watches(p) == pc[p] = "verifying" => saw[p] = ledger \/ Overtaken(log, saw[p])

InTime ==
    /\ Stamped(log, Now) /\ Fresh(log) /\ Before(ledger, Now)
    /\ \A p \in Procs : Plans(p) /\ Watches(p)

LEMMA ReplayGrows ==
    ASSUME NEW events \in Seq(Event), NEW e \in Event, NEW more, more = Append(events, e),
           Replay(more).ok
    PROVE  /\ Replay(events).ok /\ Admits(Replay(events).records, e)
           /\ e.type = "ledger_migrated" => Replay(more).records = e.records
           /\ Carries(e) => Replay(more).records = Put(Replay(events).records, e.record)
           /\ e.type # "ledger_migrated" /\ ~Carries(e) =>
                Replay(more).records = Replay(events).records
<1> DEFINE after == ReplayEvent(Replay(events), e)
<1>1. Replay(more) = after
  BY ReplayAppend
<1>2. Replay(events).ok /\ Admits(Replay(events).records, e)
  <2>1. Replay(events).records \in Seq(Record) /\ NoDuplicates(Replay(events).records)
    BY ReplayHolds
  <2>2. after.ok => Replay(events).ok /\ Admits(Replay(events).records, e)
    BY <2>1, Replayed
  <2> HIDE DEF after
  <2> QED BY <1>1, <2>2
<1>3. after = [ok |-> TRUE,
               records |-> CASE e.type = "ledger_migrated" -> e.records
                             [] e.type \in {"memory_proposed", "memory_status_changed"} ->
                                    Put(Replay(events).records, e.record)
                             [] OTHER -> Replay(events).records]
  BY <1>2 DEF ReplayEvent
<1>4. /\ e.type = "ledger_migrated" => after.records = e.records
      /\ Carries(e) => after.records = Put(Replay(events).records, e.record)
      /\ e.type # "ledger_migrated" /\ ~Carries(e) => after.records = Replay(events).records
  BY <1>3 DEF Carries
<1> HIDE DEF after
<1> QED BY <1>1, <1>2, <1>4

LEMMA Grown ==
    ASSUME NEW S, NEW s \in Seq(S), NEW e \in S, NEW more, more = Append(s, e)
    PROVE  /\ Len(s) \in Nat /\ more \in Seq(S) /\ Len(more) = Len(s) + 1 /\ more # <<>>
           /\ DOMAIN s = 1..Len(s) /\ DOMAIN more = 1..(Len(s) + 1)
           /\ more[Len(s) + 1] = e /\ \A i \in 1..Len(s) : more[i] = s[i]
OBVIOUS

LEMMA StampedGrows ==
    ASSUME NEW events \in Seq(Event), NEW e \in Event, NEW more, more = Append(events, e),
           NEW now \in Nat, 3 <= now, Stamped(events, now),
           Carries(e) => e.record.updated_at < now + 1,
           e.type = "ledger_migrated" => Before(e.records, 3)
    PROVE  Stamped(more, now + 1)
<1>1. \A i \in DOMAIN events : Carries(events[i]) => events[i].record.updated_at \in Nat
  BY EventTypes, RecordTypes
<1>2. ASSUME NEW i \in DOMAIN more, Carries(more[i]) PROVE more[i].record.updated_at < now + 1
  BY <1>1, <1>2, Grown DEF Stamped
<1>3. ASSUME Replay(more).ok PROVE Before(Replay(more).records, now + 1)
  <2> DEFINE records == Replay(events).records
  <2>1. Replay(events).ok /\ records \in Seq(Record) /\ NoDuplicates(records)
    BY <1>3, ReplayGrows, ReplayHolds
  <2>2. \A i \in DOMAIN records : records[i].updated_at \in Nat /\ records[i].updated_at < now
    BY <2>1, RecordTypes DEF Stamped, Before
  <2> HIDE DEF records
  <2>3. CASE e.type = "ledger_migrated"
    <3>1. e.records \in Seq(Record) /\ Replay(more).records = e.records
      BY <1>3, <2>3, EventTypes, ReplayGrows
    <3>2. \A i \in DOMAIN e.records : e.records[i].updated_at \in Nat /\ e.records[i].updated_at < 3
      BY <2>3, <3>1, RecordTypes DEF Before
    <3> QED BY <3>1, <3>2 DEF Before
  <2>4. CASE Carries(e)
    <3>1. Replay(more).records = Put(records, e.record) /\ e.record \in Record
      BY <1>3, <2>4, EventTypes, ReplayGrows DEF records
    <3>2. \A j \in DOMAIN Put(records, e.record) :
            Put(records, e.record)[j] = e.record
              \/ \E i \in DOMAIN records : Put(records, e.record)[j] = records[i]
      BY <2>1, <3>1, PutHolds
    <3> QED BY <2>2, <2>4, <3>1, <3>2 DEF Before
  <2>5. CASE e.type # "ledger_migrated" /\ ~Carries(e)
    <3>1. Replay(more).records = records
      BY <1>3, <2>5, ReplayGrows DEF records
    <3> QED BY <2>2, <3>1 DEF Before
  <2> QED BY <2>3, <2>4, <2>5
<1> QED BY <1>2, <1>3 DEF Stamped

LEMMA FreshGrows ==
    ASSUME NEW events \in Seq(Event), NEW e \in Event, NEW more, more = Append(events, e),
           NEW now \in Nat, Stamped(events, now), Fresh(events),
           Carries(e) => e.record.updated_at = now,
           e.type = "ledger_migrated" => events = <<>>
    PROVE  Fresh(more)
<1> SUFFICES ASSUME Replay(more).ok, NEW i \in DOMAIN more, Carries(more[i])
             PROVE  \E j \in DOMAIN Replay(more).records :
                        /\ Replay(more).records[j].id = more[i].record.id
                        /\ Replay(more).records[j].updated_at >= more[i].record.updated_at
  BY DEF Fresh
<1> DEFINE n == Len(events)
           records == Replay(events).records
           after == Replay(more).records
<1>1. /\ n \in Nat /\ DOMAIN events = 1..n /\ DOMAIN more = 1..(n + 1) /\ more[n + 1] = e
      /\ \A k \in 1..n : more[k] = events[k]
  BY Grown
<1>2. /\ Replay(events).ok /\ records \in Seq(Record) /\ NoDuplicates(records)
  BY ReplayGrows, ReplayHolds
<1>3. CASE Carries(e)
  <2>1. after = Put(records, e.record) /\ e.record \in Record /\ e.record.updated_at = now
    BY <1>3, EventTypes, ReplayGrows
  <2>2. /\ \E j \in DOMAIN after : after[j] = e.record
        /\ \A k \in DOMAIN records :
              records[k].id # e.record.id => \E j \in DOMAIN after : after[j] = records[k]
    <3> HIDE DEF records
    <3>1. LET put == Put(records, e.record)
          IN /\ \E j \in DOMAIN put : put[j] = e.record
             /\ \A k \in DOMAIN records :
                   records[k].id # e.record.id => \E j \in DOMAIN put : put[j] = records[k]
      BY <1>2, <2>1, PutHolds
    <3> HIDE DEF after
    <3> QED BY <2>1, <3>1
  <2> HIDE DEF after
  <2>3. CASE i = n + 1
    BY <1>1, <2>1, <2>2, <2>3 DEF after
  <2>4. CASE i # n + 1
    <3>1. /\ i \in DOMAIN events /\ more[i] = events[i]
          /\ events[i].record.updated_at < now /\ events[i].record.updated_at \in Nat
      BY <1>1, <2>4, EventTypes, RecordTypes DEF Stamped
    <3>2. PICK k \in DOMAIN records : /\ records[k].id = events[i].record.id
                                      /\ records[k].updated_at >= events[i].record.updated_at
      BY <1>2, <3>1 DEF Fresh
    <3>3. CASE records[k].id = e.record.id
      BY <2>1, <2>2, <3>1, <3>2, <3>3 DEF after
    <3>4. CASE records[k].id # e.record.id
      BY <2>2, <3>1, <3>2, <3>4 DEF after
    <3> QED BY <3>3, <3>4
  <2> QED BY <2>3, <2>4
<1>4. CASE ~Carries(e)
  <2>1. i \in DOMAIN events /\ more[i] = events[i]
    BY <1>1, <1>4
  <2>2. after = records
    <3>1. e.type # "ledger_migrated"
      BY <1>1, <2>1
    <3> QED BY <1>4, <3>1, ReplayGrows
  <2>3. \E j \in DOMAIN records : /\ records[j].id = events[i].record.id
                                  /\ records[j].updated_at >= events[i].record.updated_at
    BY <1>2, <2>1 DEF Fresh
  <2> HIDE DEF after, records
  <2>4. \E j \in DOMAIN after : /\ after[j].id = more[i].record.id
                                /\ after[j].updated_at >= more[i].record.updated_at
    BY <2>1, <2>2, <2>3
  <2> QED BY <2>4 DEF after
<1> QED BY <1>3, <1>4

LEMMA OvertakenGrows ==
    ASSUME NEW events \in Seq(Event), NEW e \in Event, NEW more, more = Append(events, e),
           NEW records, NEW now
    PROVE  /\ Overtaken(events, records) => Overtaken(more, records)
           /\ Carries(e) /\ e.record.updated_at = now /\ Before(records, now)
                => Overtaken(more, records)
<1>1. /\ Len(events) \in Nat /\ DOMAIN events = 1..Len(events)
      /\ DOMAIN more = 1..(Len(events) + 1) /\ more[Len(events) + 1] = e
      /\ \A k \in 1..Len(events) : more[k] = events[k]
  BY Grown
<1>2. ASSUME Overtaken(events, records) PROVE Overtaken(more, records)
  BY <1>1, <1>2 DEF Overtaken
<1>3. ASSUME Carries(e), e.record.updated_at = now, Before(records, now)
      PROVE  Overtaken(more, records)
  BY <1>1, <1>3 DEF Overtaken, Before
<1> QED BY <1>2, <1>3

\* A replay is never overtaken by the history it replays.
LEMMA ReplayNotOvertaken ==
    ASSUME NEW events \in Seq(Event), Fresh(events), Replay(events).ok
    PROVE  ~Overtaken(events, Replay(events).records)
<1> SUFFICES ASSUME NEW i \in DOMAIN events, Carries(events[i]),
                    \A j \in DOMAIN Replay(events).records :
                        Replay(events).records[j].id = events[i].record.id =>
                            Replay(events).records[j].updated_at < events[i].record.updated_at
             PROVE  FALSE
  BY DEF Overtaken
<1>1. PICK j \in DOMAIN Replay(events).records :
            /\ Replay(events).records[j].id = events[i].record.id
            /\ Replay(events).records[j].updated_at >= events[i].record.updated_at
  BY DEF Fresh
<1>2. /\ Replay(events).records[j] \in Record /\ events[i].record \in Record
  BY <1>1, ReplayHolds, EventTypes
<1>3. Replay(events).records[j].updated_at \in Nat /\ events[i].record.updated_at \in Nat
  BY <1>2, RecordTypes
<1> QED BY <1>1, <1>3

\* The plans, with their times.
Timed(p, events, records) ==
    /\ Typical(p, events, records)
    /\ Scheduled(events)
    /\ \A r \in records :
          /\ Before(r, Now + 1)
          /\ IF events = <<>> THEN Before(r, Now) ELSE Carries(events[1])

LEMMA CommandsTimed ==
    ASSUME Typed, Roles, RepairHolds, InTime, NEW p \in Procs,
           Propose(p) \/ Review(p) \/ Export(p) \/ RepairWrites(p) \/ Migrate(p)
    PROVE  \E events, records : Timed(p, events, records) /\ Enter(p, events, records)
<1>0. /\ Now \in Nat /\ Len(log) \in Nat /\ Now = Len(log) + 3 /\ ledger \in Seq(Record)
      /\ Before(ledger, Now)
      /\ \A i \in DOMAIN ledger : ledger[i].updated_at \in Nat
  BY NowIsNat, RecordTypes DEF Typed, InTime
<1>1. CASE Propose(p)
  <2>1. PICK record \in Record :
           /\ cmd[p] = "propose" /\ record.updated_at = Now /\ Proposed(record) \in Event
           /\ Enter(p, <<Proposed(record)>>, {Append(ledger, record)})
    BY <1>1, ProposeParts
  <2> DEFINE more == Append(ledger, record)
             events == <<Proposed(record)>>
  <2>2. more \in Seq(Record) /\ Before(more, Now + 1)
    <3>1. /\ DOMAIN ledger = 1..Len(ledger) /\ DOMAIN more = 1..(Len(ledger) + 1)
          /\ more[Len(ledger) + 1] = record /\ \A i \in 1..Len(ledger) : more[i] = ledger[i]
          /\ Len(ledger) \in Nat /\ more \in Seq(Record)
      BY <1>0, Grown
    <3> HIDE DEF more
    <3> QED BY <1>0, <2>1, <3>1 DEF Before
  <2> HIDE DEF more
  <2>3. events \in Seq(Event) /\ events # <<>> /\ DOMAIN events = {1} /\ events[1] = Proposed(record)
    BY <2>1, SingleTyped
  <2> HIDE DEF events
  <2>4. Scheduled(events) /\ Carries(events[1])
    BY <2>1, <2>3 DEF Scheduled, Carries, Proposed
  <2>5. Timed(p, events, {more})
    BY <2>1, <2>2, <2>3, <2>4 DEF Timed, Typical
  <2> QED BY <2>1, <2>5 DEF events, more
<1>2. CASE Review(p)
  <2>1. PICK id \in IdsOf(ledger), status \in Statuses, last \in DOMAIN ledger :
            Reviews(p, id, status, last)
    BY <1>2, ReviewParts
  <2> DEFINE more == Restamped(ledger, id, status, Now)
             e == StatusChanged(ledger[last].status, more[last])
             f == IF status = "retired" THEN <<Resolved(id)>> ELSE <<>>
             events == <<e>> \o f
  <2>2. e \in Event /\ Resolved(id) \in Event
    BY <2>1, ReviewTyped
  <2>3. more = Restamped(ledger, id, status, Now)
    OBVIOUS
  <2>4. /\ cmd[p] = "review" /\ Enter(p, events, {more})
        /\ ledger[last].id = id
    BY <2>1 DEF Reviews
  <2>5. /\ Carries(e) /\ e.record = more[last] /\ e.type = "memory_status_changed"
        /\ Resolved(id).type = "memory_relationship_resolved"
    BY DEF Carries, StatusChanged, Resolved
  <2> HIDE DEF e, more
  <2>6. /\ more \in Seq(Record) /\ DOMAIN more = DOMAIN ledger
        /\ \A i \in DOMAIN ledger : /\ ledger[i].id # id => more[i] = ledger[i]
                                    /\ ledger[i].id = id => more[i].updated_at = Now
    BY <1>0, <2>3, RestampedTyped
  <2>7. Before(more, Now + 1)
    BY <1>0, <2>6 DEF Before
  <2>8. e.record.updated_at = Now
    BY <2>4, <2>5, <2>6
  <2>9. /\ events \in Seq(Event) /\ events # <<>> /\ 1 \in DOMAIN events /\ events[1] = e
        /\ \A i \in DOMAIN events : i = 1 \/ events[i] = Resolved(id)
    <3>1. CASE status = "retired"
      <4> DEFINE two == <<e>> \o <<Resolved(id)>>
      <4>1. two \in Seq(Event) /\ DOMAIN two = {1, 2} /\ two[1] = e /\ two[2] = Resolved(id) /\ two # <<>>
        BY <2>2
      <4>2. events = two
        BY <3>1
      <4> HIDE DEF two, events
      <4> QED BY <4>1, <4>2
    <3>2. CASE status # "retired"
      <4>1. events = <<e>>
        BY <2>2, <3>2, SingleTyped
      <4> HIDE DEF events
      <4> QED BY <2>2, <4>1, SingleTyped
    <3> QED BY <3>1, <3>2
  <2> HIDE DEF events, f
  <2>10. Scheduled(events)
    BY <2>5, <2>8, <2>9 DEF Scheduled, Carries
  <2>11. Timed(p, events, {more})
    BY <2>4, <2>5, <2>6, <2>7, <2>9, <2>10 DEF Timed, Typical
  <2> QED BY <2>4, <2>11
<1>3. CASE Export(p)
  <2>1. PICK ids \in SUBSET IdsOf(ledger) :
            cmd[p] = "export" /\ Exported(ids) \in Event /\ Enter(p, <<Exported(ids)>>, {})
    BY <1>3, ExportParts
  <2> DEFINE events == <<Exported(ids)>>
  <2>2. events \in Seq(Event) /\ events # <<>> /\ DOMAIN events = {1} /\ events[1] = Exported(ids)
    BY <2>1, SingleTyped
  <2> HIDE DEF events
  <2>3. Timed(p, events, {})
    BY <2>1, <2>2 DEF Timed, Typical, Scheduled, Carries, Exported
  <2> QED BY <2>1, <2>3 DEF events
<1>4. CASE RepairWrites(p)
  <2>1. cmd[p] = "repair" /\ pc[p] = "waiting" /\ Enter(p, <<>>, {saw[p]})
    BY <1>4 DEF RepairWrites, Enter
  <2>2. Replay(log) = Exactly(saw[p])
    BY <2>1 DEF RepairHolds
  <2>3. Replay(log).ok /\ Replay(log).records = saw[p]
    BY <2>2 DEF Exactly
  <2>4. Before(saw[p], Now) /\ saw[p] \in Seq(Record)
    BY <2>3 DEF InTime, Stamped, Typed
  <2>5. Before(saw[p], Now + 1)
    BY <1>0, <2>4, RecordTypes DEF Before
  <2>6. Scheduled(<<>>) /\ <<>> \in Seq(Event)
    BY DEF Scheduled
  <2>7. Timed(p, <<>>, {saw[p]})
    BY <2>1, <2>4, <2>5, <2>6 DEF Timed, Typical
  <2> QED BY <2>1, <2>7
<1>5. CASE Migrate(p)
  <2>1. /\ cmd[p] = "migrate" /\ log = <<>>
        /\ Migrated(ledger) \in Event /\ Enter(p, <<Migrated(ledger)>>, {})
    BY <1>5, MigrateParts
  <2> DEFINE events == <<Migrated(ledger)>>
  <2>2. events \in Seq(Event) /\ events # <<>> /\ DOMAIN events = {1} /\ events[1] = Migrated(ledger)
    BY <2>1, SingleTyped
  <2>3. Before(ledger, 3)
    BY <1>0, <2>1
  <2> HIDE DEF events
  <2>4. Timed(p, events, {})
    BY <2>1, <2>2, <2>3 DEF Timed, Typical, Scheduled, Carries, Migrated
  <2> QED BY <2>1, <2>4 DEF events
<1> QED BY <1>1, <1>2, <1>3, <1>4, <1>5

\* Steps that leave the files alone, and the plans of those who append or write.
Quiet ==
    /\ log' = log /\ ledger' = ledger
    /\ interrupted => interrupted'
    /\ \A q \in Procs :
          /\ pc'[q] \in {"appending", "writing"} =>
                pc'[q] = pc[q] /\ todo'[q] = todo[q] /\ next'[q] = next[q] /\ cmd'[q] = cmd[q]
          /\ pc[q] \in {"appending", "writing"} => pc'[q] = pc[q] \/ interrupted'
          /\ pc'[q] = "verifying" => (pc[q] = "verifying" /\ saw'[q] = saw[q]) \/ saw'[q] = ledger

LEMMA Shapes ==
    ASSUME Typed, Roles, [Next]_vars
    PROVE  \/ Quiet
           \/ \E p \in Procs : AppendEvent(p) \/ WriteLedger(p)
           \/ \E p \in Procs : Propose(p) \/ Review(p) \/ Export(p) \/ RepairWrites(p) \/ Migrate(p)
<1>1. CASE Unmoved
  BY <1>1 DEF Unmoved, Quiet
<1>2. ASSUME NEW p \in Procs, Acts(p)
      PROVE  \/ Quiet
             \/ AppendEvent(p) \/ WriteLedger(p)
             \/ Propose(p) \/ Review(p) \/ Export(p) \/ RepairWrites(p) \/ Migrate(p)
  <2>1. OthersKeep(p)
    BY <1>2, StepTyped DEF Acts
  <2>2. SUFFICES ASSUME
             \/ \E kind \in Commands : Start(p, kind)
             \/ TimeOut(p) \/ Refuse(p) \/ RepairReports(p) \/ MigrateDryRun(p) \/ Crash(p)
             \/ Release(p) \/ CheckReadsEvents(p)
             \/ CheckReadsLedger(p) \/ RepairReadsEvents(p) \/ RepairConfirmed(p)
             \/ MigrateLooks(p) \/ MigrateChecks(p) \/ WriteFails(p)
                 PROVE  Quiet
    BY <1>2 DEF Acts, ProcessStep
  <2>3. log' = log /\ ledger' = ledger /\ (interrupted => interrupted')
    <3>1. CASE \E kind \in Commands : Start(p, kind)
      BY <3>1 DEF Start, files
    <3>2. CASE TimeOut(p) \/ Refuse(p) \/ RepairReports(p) \/ MigrateDryRun(p)
      BY <3>2 DEF TimeOut, Refuse, RepairReports, MigrateDryRun, files, bounds
    <3>3. CASE Crash(p) \/ WriteFails(p)
      BY <3>3 DEF Crash, WriteFails, files
    <3>4. CASE Release(p) \/ CheckReadsEvents(p) \/ CheckReadsLedger(p)
      BY <3>4 DEF Release, CheckReadsEvents, CheckReadsLedger, files, bounds
    <3>5. CASE RepairReadsEvents(p) \/ RepairConfirmed(p) \/ MigrateLooks(p) \/ MigrateChecks(p)
      BY <3>5 DEF RepairReadsEvents, RepairConfirmed, MigrateLooks, MigrateChecks, files, bounds
    <3> QED BY <2>2, <3>1, <3>2, <3>3, <3>4, <3>5
  <2>4. CASE TimeOut(p) \/ Refuse(p) \/ RepairReports(p) \/ MigrateDryRun(p) \/ Crash(p)
              \/ Release(p) \/ CheckReadsEvents(p)
    <3>1. /\ pc'[p] = "idle"
          /\ pc[p] \in {"appending", "writing"} => interrupted'
      BY <2>4 DEF TimeOut, Refuse, RepairReports, MigrateDryRun, Crash, Release,
         CheckReadsEvents, End, Goto, Typed
    <3> QED BY <2>1, <2>3, <3>1 DEF Quiet, OthersKeep
  <2>5. CASE CheckReadsLedger(p)
    <3>1. pc'[p] = "verifying" /\ saw'[p] = ledger /\ pc[p] = "checking"
      BY <2>5 DEF CheckReadsLedger, Goto, Typed
    <3> QED BY <2>1, <2>3, <3>1 DEF Quiet, OthersKeep
  <2>6. CASE \/ \E kind \in Commands : Start(p, kind)
             \/ RepairReadsEvents(p) \/ RepairConfirmed(p)
             \/ MigrateLooks(p) \/ MigrateChecks(p) \/ WriteFails(p)
    <3>1. /\ pc'[p] \in {"looking", "checking", "reading", "comparing", "waiting", "releasing"}
          /\ pc[p] \in {"appending", "writing"} => interrupted'
      BY <2>6 DEF Start, RepairReadsEvents, RepairConfirmed, MigrateLooks, MigrateChecks,
         WriteFails, Goto, Typed
    <3> QED BY <2>1, <2>3, <3>1 DEF Quiet, OthersKeep
  <2> QED BY <2>2, <2>4, <2>5, <2>6
<1> QED BY <1>1, <1>2, StepsAct


LEMMA InTimeInit == PastLegacies /\ Init => InTime
<1> SUFFICES ASSUME PastLegacies, Init PROVE InTime
  OBVIOUS
<1>1. ledger \in Seq(Record) /\ log = <<>> /\ \A p \in Procs : pc[p] = "idle"
  BY MigrationAssumption DEF Init, MigrationAssumption
<1>2. Now = 3 /\ Before(ledger, Now)
  BY <1>1 DEF Now, Init, PastLegacies, Before
<1>3. Replay(log).records = <<>> /\ DOMAIN log = {}
  BY <1>1, ReplayNothing
<1>4. Stamped(log, Now) /\ Fresh(log)
  BY <1>3 DEF Stamped, Fresh, Before
<1> QED BY <1>1, <1>2, <1>4 DEF InTime, Plans, Watches

\* The lock: who appends or writes is alone in it.
LEMMA Alone ==
    ASSUME Ownership, NEW p \in Procs, pc[p] \in {"appending", "writing"}
    PROVE  \A q \in Procs : q # p => pc[q] \notin {"appending", "writing"}
BY DEF Ownership, Inside

LEMMA EnterAlone ==
    ASSUME Ownership, NEW p \in Procs, NEW events, NEW records, Enter(p, events, records)
    PROVE  \A q \in Procs : pc[q] \notin {"appending", "writing"}
BY MigrationAssumption DEF Ownership, Inside, Enter, MigrationAssumption

LEMMA EnterInTime ==
    ASSUME Typed, Ownership, InTime, NEW p \in Procs, NEW events, NEW records,
           Timed(p, events, records), Enter(p, events, records), OthersKeep(p)
    PROVE  InTime'
<1>1. /\ log' = log /\ ledger' = ledger /\ saw' = saw /\ cmd' = cmd /\ Now' = Now
      /\ todo'[p] = events /\ next'[p] = records
      /\ pc'[p] = IF events # <<>> THEN "appending" ELSE "writing"
  BY DEF Enter, Goto, files, Typed, Now
<1>2. \A q \in Procs : pc[q] \notin {"appending", "writing"}
  BY EnterAlone
<1>3. \A q \in Procs \ {p} : Plans(q)' /\ Watches(q)'
  BY <1>1, <1>2 DEF OthersKeep, Plans, Watches, InTime
<1>4. Watches(p)'
  BY <1>1 DEF Watches
<1>5. Plans(p)'
  <2>1. Scheduled(events)'
    BY <1>1 DEF Timed, Scheduled
  <2>2. CASE events # <<>>
    BY <1>1, <2>1, <2>2 DEF Plans, Timed
  <2>3. CASE events = <<>>
    BY <1>1, <2>3 DEF Plans, Timed, Typical
  <2> QED BY <2>2, <2>3
<1>6. (Stamped(log, Now) /\ Fresh(log) /\ Before(ledger, Now))'
  BY <1>1 DEF InTime
<1> QED BY <1>3, <1>4, <1>5, <1>6 DEF InTime

LEMMA AppendInTime ==
    ASSUME Typed, Backfill, InTime, NEW p \in Procs, AppendEvent(p), OthersKeep(p)
    PROVE  InTime'
<1> DEFINE e == Head(todo[p])
<1>1. /\ pc[p] = "appending" /\ log' = Append(log, e) /\ ledger' = ledger
      /\ todo'[p] = Tail(todo[p]) /\ next'[p] = next[p] /\ saw' = saw /\ cmd' = cmd
      /\ pc'[p] = "appending" => Len(todo[p]) > 1
      /\ pc'[p] = "writing" => next[p] # {}
  BY DEF AppendEvent, Goto, Typed
<1>2. /\ todo[p] \in Seq(Event) /\ todo[p] # <<>> /\ log \in Seq(Event)
      /\ ledger \in Seq(Record)
  BY <1>1 DEF Typed
<1>3. /\ e \in Event /\ 1 \in DOMAIN todo[p] /\ e = todo[p][1]
      /\ \A i \in DOMAIN Tail(todo[p]) :
            i \in Nat /\ i > 0 /\ i + 1 \in DOMAIN todo[p] /\ Tail(todo[p])[i] = todo[p][i + 1]
  BY <1>2, SeqIsSeq, Tailed, HeadTailProperties
<1>4. /\ Carries(e) => e.record.updated_at = Now
      /\ e.type = "ledger_migrated" => log = <<>> /\ Before(e.records, 3)
      /\ \A records \in next[p] :
            /\ Before(records, Now + 1)
            /\ Carries(e) \/ (Before(records, Now) /\ Overtaken(log, ledger))
  BY <1>1, <1>3 DEF InTime, Plans, Scheduled
<1> HIDE DEF e
<1>5. Now \in Nat /\ 3 <= Now /\ Now' = Now + 1
  BY <1>1, <1>2, <1>3 DEF Now
<1>6. Stamped(log, Now) /\ Fresh(log) /\ Before(ledger, Now)
  BY DEF InTime
<1>7. Stamped(log', Now')
  <2>1. Carries(e) => e.record.updated_at < Now + 1
    BY <1>4, <1>5
  <2>2. Stamped(log', Now + 1)
    BY <1>1, <1>2, <1>3, <1>4, <1>5, <1>6, <2>1, StampedGrows
  <2> QED BY <1>5, <2>2
<1>8. Fresh(log')
  BY <1>1, <1>2, <1>3, <1>4, <1>5, <1>6, FreshGrows
<1>9. /\ \A records : Overtaken(log, records) => Overtaken(log', records)
      /\ Carries(e) => Overtaken(log', ledger)
  BY <1>1, <1>2, <1>3, <1>4, <1>5, <1>6, OvertakenGrows
<1>10. \A records : records \in Seq(Record) /\ Before(records, Now) => Before(records, Now')
  BY <1>5, RecordTypes DEF Before
<1>11. Before(ledger', Now')
  BY <1>1, <1>2, <1>6, <1>10
<1>12. \A q \in Procs : q # p => pc'[q] \notin {"appending", "writing"}
  BY <1>1, Alone DEF Backfill, OthersKeep
<1>13. ASSUME NEW q \in Procs PROVE Watches(q)'
  <2>1. pc'[q] = "verifying" => pc[q] = "verifying"
    BY <1>1 DEF OthersKeep, AppendEvent, Goto, Typed
  <2>2. saw[q] = ledger \/ Overtaken(log, saw[q]) => saw'[q] = ledger' \/ Overtaken(log', saw'[q])
    BY <1>1, <1>9
  <2> QED BY <2>1, <2>2 DEF InTime, Watches
<1>14. ASSUME pc'[p] = "appending"
       PROVE  Scheduled(todo[p])' /\ \A i \in DOMAIN todo'[p] : ~Carries(todo'[p][i])
  <2>1. ASSUME NEW i \in DOMAIN todo'[p]
        PROVE  ~Carries(todo'[p][i]) /\ todo'[p][i].type # "ledger_migrated"
    <3>1. i \in Nat /\ i > 0 /\ i + 1 \in DOMAIN todo[p] /\ todo'[p][i] = todo[p][i + 1]
      BY <1>1, <1>3, <2>1
    <3>2. i + 1 # 1
      BY <3>1
    <3>3. todo[p][i + 1].type # "ledger_migrated"
      BY <1>1, <3>1, <3>2 DEF Backfill, FirstOrNever
    <3>4. ~Carries(todo[p][i + 1])
      BY <1>1, <3>1, <3>2 DEF InTime, Plans, Scheduled
    <3> QED BY <3>1, <3>3, <3>4
  <2> QED BY <2>1 DEF Scheduled
<1>15. ASSUME NEW records \in next[p]
       PROVE  Before(records, Now') /\ Before(records, Now' + 1) /\ Overtaken(log', ledger)
  <2>1. records \in Seq(Record)
    BY <1>15 DEF Typed
  <2>2. Before(records, Now')
    BY <1>4, <1>5, <1>15
  <2>3. Before(records, Now' + 1)
    BY <1>5, <2>1, <2>2, RecordTypes DEF Before
  <2> QED BY <1>4, <1>9, <1>15, <2>2, <2>3
<1>16. Plans(p)'
  BY <1>1, <1>14, <1>15 DEF Plans
<1>17. \A q \in Procs : Plans(q)'
  BY <1>12, <1>16 DEF Plans
<1> QED BY <1>7, <1>8, <1>11, <1>13, <1>17 DEF InTime

LEMMA WriteInTime ==
    ASSUME Typed, Ownership, OnlyRepair, InTime, NEW p \in Procs, WriteLedger(p), OthersKeep(p)
    PROVE  InTime'
<1>1. /\ pc[p] = "writing" /\ ledger' \in next[p] /\ log' = log /\ saw' = saw /\ Now' = Now
      /\ pc'[p] = "releasing"
  BY DEF WriteLedger, Goto, Typed, private, Now
<1>2. Before(ledger', Now) /\ (cmd[p] # "repair" => Overtaken(log, ledger))
  BY <1>1 DEF InTime, Plans
<1>3. \A q \in Procs : pc'[q] \notin {"appending", "writing"}
  BY <1>1, Alone DEF OthersKeep
<1>4. ASSUME NEW q \in Procs, pc'[q] = "verifying"
      PROVE  Overtaken(log', saw'[q])
  <2>1. q # p /\ pc[q] = "verifying"
    BY <1>1, <1>4 DEF OthersKeep
  <2>2. cmd[p] # "repair"
    BY <2>1 DEF OnlyRepair
  <2> QED BY <1>1, <1>2, <2>1, <2>2 DEF InTime, Watches
<1> QED BY <1>1, <1>2, <1>3, <1>4 DEF InTime, Plans, Watches

LEMMA QuietInTime ==
    ASSUME InTime, Quiet
    PROVE  InTime'
<1>1. log' = log /\ ledger' = ledger /\ Now' = Now
  BY DEF Quiet, Now
<1>2. \A q \in Procs : Watches(q)'
  BY <1>1 DEF Quiet, Watches, InTime
<1>3. ASSUME NEW q \in Procs PROVE Plans(q)'
  <2>1. pc'[q] \in {"appending", "writing"} =>
            pc'[q] = pc[q] /\ todo'[q] = todo[q] /\ next'[q] = next[q] /\ cmd'[q] = cmd[q]
    BY DEF Quiet
  <2>2. Plans(q)
    BY DEF InTime
  <2> QED BY <1>1, <2>1, <2>2 DEF Plans, Scheduled
<1> QED BY <1>1, <1>2, <1>3 DEF InTime

LEMMA InTimeStep ==
    ASSUME Typed, Roles, Backfill, OnlyRepair, RepairHolds, InTime, [Next]_vars
    PROVE  InTime'
<1>1. CASE Quiet
  BY <1>1, QuietInTime
<1>2. ASSUME NEW p \in Procs, AppendEvent(p) \/ WriteLedger(p) PROVE InTime'
  <2>1. OthersKeep(p)
    BY <1>2, StepTyped DEF ProcessStep
  <2> QED BY <1>2, <2>1, AppendInTime, WriteInTime DEF Backfill
<1>3. ASSUME NEW p \in Procs,
             Propose(p) \/ Review(p) \/ Export(p) \/ RepairWrites(p) \/ Migrate(p)
      PROVE  InTime'
  <2>1. OthersKeep(p)
    BY <1>3, StepTyped DEF ProcessStep
  <2>2. PICK events, records : Timed(p, events, records) /\ Enter(p, events, records)
    BY <1>3, CommandsTimed
  <2> QED BY <2>1, <2>2, EnterInTime DEF Backfill
<1> QED BY <1>1, <1>2, <1>3, Shapes

LEMMA VerdictStep ==
    ASSUME Typed, Roles, InTime, CleanVerdictWasTrue, [Next]_vars
    PROVE  CleanVerdictWasTrue'
<1>1. CASE Unmoved
  BY <1>1 DEF Unmoved, CleanVerdictWasTrue
<1>2. ASSUME NEW p \in Procs, Acts(p) PROVE CleanVerdictWasTrue'
  <2>1. OthersKeep(p)
    BY <1>2, StepTyped DEF Acts
  <2>2. SUFFICES ASSUME verdict'[p] = "clean" PROVE witnessed'[p]
    BY <2>1 DEF OthersKeep, CleanVerdictWasTrue
  <2>3. CASE CheckReadsEvents(p)
    <3>1. /\ Clean(saw[p], log) /\ pc[p] = "verifying"
          /\ witnessed'[p] = (witnessed[p] \/ Replay(log) = Exactly(ledger))
      BY <2>2, <2>3 DEF CheckReadsEvents, Typed, Exactly
    <3>2. /\ log \in Seq(Event) /\ Replay(log).ok /\ saw[p] = Replay(log).records
          /\ Replay(log).ok \in BOOLEAN
          /\ Replay(log) = [ok |-> Replay(log).ok, records |-> Replay(log).records]
      BY <3>1, ReplayHolds DEF Clean, Compare, Typed
    <3>3. ~Overtaken(log, saw[p])
      BY <3>2, ReplayNotOvertaken DEF InTime
    <3>4. saw[p] = ledger
      BY <3>1, <3>3 DEF InTime, Watches
    <3>5. Replay(log) = Exactly(ledger)
      BY <3>2, <3>4 DEF Exactly
    <3> QED BY <3>1, <3>5
  <2>4. CASE CheckReadsLedger(p)
    <3>1. verdict'[p] = "none"
      BY <2>4 DEF CheckReadsLedger, Roles, Role
    <3> QED BY <2>2, <3>1
  <2>5. CASE \E kind \in Commands : Start(p, kind)
    <3>1. verdict'[p] = "none"
      BY <2>5 DEF Start, Typed
    <3> QED BY <2>2, <3>1
  <2>6. CASE Propose(p) \/ Review(p) \/ Export(p) \/ RepairWrites(p) \/ Migrate(p)
    <3>1. PICK events, records : Enter(p, events, records)
      BY <2>6, CommandsEnter DEF Enters
    <3> QED BY <2>2, <3>1 DEF Enter, CleanVerdictWasTrue
  <2>7. CASE \/ TimeOut(p) \/ Refuse(p) \/ AppendEvent(p) \/ WriteLedger(p) \/ Release(p)
             \/ RepairReadsEvents(p) \/ RepairConfirmed(p) \/ RepairReports(p)
             \/ MigrateLooks(p) \/ MigrateChecks(p) \/ MigrateDryRun(p)
             \/ Crash(p) \/ WriteFails(p)
    <3>1. UNCHANGED <<verdict, witnessed>>
      BY <2>7 DEF TimeOut, Refuse, AppendEvent, WriteLedger, Release, RepairReadsEvents,
         RepairConfirmed, RepairReports, MigrateLooks, MigrateChecks, MigrateDryRun, Crash,
         WriteFails, private
    <3> QED BY <2>2, <3>1 DEF CleanVerdictWasTrue
  <2> QED BY <1>2, <2>3, <2>4, <2>5, <2>6, <2>7 DEF Acts, ProcessStep
<1> QED BY <1>1, <1>2, StepsAct

\* The inductive invariant of a store that is repaired as the guide says.
Orderly == Typed /\ Roles /\ Backfill /\ OnlyRepair /\ RepairHolds

LEMMA OrderlyInit == Init => Orderly
<1>1. Init => \A p \in Procs : cmd[p] = "none"
  BY DEF Init
<1>2. Init => OnlyRepair /\ RepairHolds
  BY <1>1 DEF OnlyRepair, RepairHolds
<1> QED BY <1>2, TypedInit, BackfillInit DEF Orderly

LEMMA OrderlyStep ==
    ASSUME RepairAsGuided, Orderly, [Next]_vars
    PROVE  Orderly'
<1>1. Typed' /\ Roles'
  BY StepsTyped DEF Orderly
<1>2. Backfill'
  BY MigrationAssumption, BackfillStep DEF Orderly
<1>3. OnlyRepair'
  BY OnlyRepairStep DEF Orderly
<1>4. RepairHolds'
  BY RepairHoldsStep DEF Orderly
<1> QED BY <1>1, <1>2, <1>3, <1>4 DEF Orderly

\* A check calls ledger and history consistent only if they were, when it read the one
\* or the other, whatever is appended and written between its two reads
\* (checkLedgerConsistency, assessExistingHistory): what it read of the ledger is
\* still there, or the history has a version that is newer than all it read.
THEOREM CleanWasTrue ==
    ASSUME RepairAsGuided, PastLegacies
    PROVE  Spec => []CleanVerdictWasTrue
<1> DEFINE Watched == Orderly /\ InTime /\ CleanVerdictWasTrue
<1>1. Init => Watched
  BY OrderlyInit, InTimeInit DEF Init, CleanVerdictWasTrue
<1>2. Watched /\ [Next]_vars => Watched'
  BY OrderlyStep, InTimeStep, VerdictStep DEF Orderly
<1>3. Watched => CleanVerdictWasTrue
  OBVIOUS
<1> HIDE DEF Watched
<1> QED BY <1>1, <1>2, <1>3, PTL DEF Spec

-----------------------------------------------------------------------------
(* Parity of a migrated store *)

Rebuilds(events, records) ==
    events # <<>> /\ events[1].type = "ledger_migrated" => Replay(events) = Exactly(records)

\* The ledgers there will be when these events are appended.
Aimed(records) == IF records = {} THEN {ledger} ELSE records

\* Unless a command was interrupted, what is to be appended leads to what is to be written.
InParity ==
    ~interrupted =>
        /\ \A p \in Procs : pc[p] = "appending" =>
              \A records \in Aimed(next[p]) : Rebuilds(log \o todo[p], records)
        /\ \A p \in Procs : pc[p] = "writing" =>
              \A records \in next[p] : Rebuilds(log, records)
        /\ (\A p \in Procs : pc[p] \notin {"appending", "writing"}) => Rebuilds(log, ledger)

LEMMA InParityInit == Init => InParity
<1> SUFFICES ASSUME Init PROVE InParity
  OBVIOUS
<1>1. log = <<>> /\ \A p \in Procs : pc[p] = "idle"
  BY DEF Init
<1> QED BY <1>1 DEF InParity, Rebuilds

\* An event the records admit, appended to the history they are the replay of.
LEMMA RebuildsGrows ==
    ASSUME NEW events \in Seq(Event), NEW e \in Event, NEW records, NEW after,
           Rebuilds(events, records),
           e.type = "ledger_migrated" => events = <<>>,
           events = <<>> /\ e.type = "ledger_migrated" =>
                ReplayEvent(Exactly(<<>>), e) = Exactly(after),
           events # <<>> /\ Replay(events) = Exactly(records) =>
                ReplayEvent(Exactly(records), e) = Exactly(after)
    PROVE  Rebuilds(Append(events, e), after)
<1> DEFINE more == Append(events, e)
<1>1. /\ Len(events) \in Nat /\ more[Len(events) + 1] = e /\ \A i \in 1..Len(events) : more[i] = events[i]
      /\ Len(events) = 0 <=> events = <<>>
  BY EmptySeq
<1>2. Replay(more) = ReplayEvent(Replay(events), e)
  BY ReplayAppend
<1> HIDE DEF more
<1> SUFFICES ASSUME more # <<>>, more[1].type = "ledger_migrated"
             PROVE  Replay(more) = Exactly(after)
  BY DEF Rebuilds, more
<1>3. CASE events = <<>>
  <2>1. e.type = "ledger_migrated"
    BY <1>1, <1>3
  <2> QED BY <1>2, <1>3, <2>1, ReplayNothing DEF Exactly
<1>4. CASE events # <<>>
  <2>1. events[1].type = "ledger_migrated"
    BY <1>1, <1>4
  <2> QED BY <1>2, <1>4, <2>1 DEF Rebuilds
<1> QED BY <1>3, <1>4

LEMMA MigratedReplays ==
    ASSUME NEW records \in Seq(Record), NoDuplicates(records)
    PROVE  ReplayEvent(Exactly(<<>>), Migrated(records)) = Exactly(records)
<1> DEFINE e == Migrated(records)
<1>1. e.type = "ledger_migrated" /\ e.records = records
  BY DEF Migrated
<1> HIDE DEF e
<1>2. Exactly(<<>>).ok = TRUE /\ Exactly(<<>>).records = <<>>
  BY DEF Exactly
<1>3. Admits(<<>>, e)
  BY <1>1 DEF Admits
<1>4. ReplayEvent(Exactly(<<>>), e) = Exactly(records)
  BY <1>1, <1>2, <1>3 DEF ReplayEvent, Exactly
<1> QED BY <1>4 DEF e

LEMMA ProposedReplays ==
    ASSUME NEW records, NEW record, record.id \notin IdsOf(records)
    PROVE  ReplayEvent(Exactly(records), Proposed(record)) = Exactly(Append(records, record))
<1> DEFINE e == Proposed(record)
<1>1. e.type = "memory_proposed" /\ e.record = record
  BY DEF Proposed
<1> HIDE DEF e
<1>2. Exactly(records).ok = TRUE /\ Exactly(records).records = records
  BY DEF Exactly
<1>3. Admits(records, e)
  BY <1>1 DEF Admits
<1>4. Put(records, record) = Append(records, record)
  BY DEF Put
<1>5. ReplayEvent(Exactly(records), e) = Exactly(Append(records, record))
  BY <1>1, <1>2, <1>3, <1>4 DEF ReplayEvent, Exactly
<1> QED BY <1>5 DEF e

LEMMA ReviewedReplays ==
    ASSUME NEW records \in Seq(Record), NoDuplicates(records), NEW id, NEW status \in Statuses,
           NEW time \in Nat, NEW last \in DOMAIN records, records[last].id = id,
           NEW more, more = Restamped(records, id, status, time)
    PROVE  ReplayEvent(Exactly(records), StatusChanged(records[last].status, more[last]))
             = Exactly(more)
<1> DEFINE e == StatusChanged(records[last].status, more[last])
<1>1. /\ e.type = "memory_status_changed" /\ e.record = more[last]
      /\ e.previous_status = records[last].status
  BY DEF StatusChanged
<1> HIDE DEF e
<1>2. Exactly(records).ok = TRUE /\ Exactly(records).records = records
  BY DEF Exactly
<1>3. /\ DOMAIN more = DOMAIN records /\ more[last].id = id
      /\ \A i \in DOMAIN records : records[i].id # id => more[i] = records[i]
  BY RestampedTyped
<1>4. Admits(records, e)
  <2>1. records[last] \in ToSet(records)
    BY DEF ToSet
  <2> QED BY <1>1, <1>3, <2>1 DEF Admits
<1>5. Put(records, more[last]) = more
  <2>1. id \in IdsOf(records)
    BY HasId
  <2>2. Put(records, more[last])
          = [i \in DOMAIN records |-> IF records[i].id = id THEN more[last] ELSE records[i]]
    BY <1>3, <2>1 DEF Put
  <2>3. \A i \in DOMAIN records : records[i].id = id => i = last
    BY DEF NoDuplicates
  <2>4. \A i \in DOMAIN records :
          (IF records[i].id = id THEN more[last] ELSE records[i]) = more[i]
    BY <1>3, <2>3
  <2>5. more = [i \in DOMAIN records |-> more[i]]
    BY DEF Restamped
  <2> QED BY <2>2, <2>4, <2>5
<1>6. ReplayEvent(Exactly(records), e) = Exactly(more)
  BY <1>1, <1>2, <1>4, <1>5 DEF ReplayEvent, Exactly
<1> QED BY <1>6 DEF e

\* Exports and relationship decisions name records that there are, and change none.
LEMMA NamingReplays ==
    ASSUME NEW records, NEW e,
           e.type \in {"memory_exported", "memory_relationship_resolved"},
           e.ids \subseteq IdsOf(records)
    PROVE  ReplayEvent(Exactly(records), e) = Exactly(records)
<1>1. Exactly(records).ok = TRUE /\ Exactly(records).records = records
  BY DEF Exactly
<1>2. Admits(records, e)
  BY DEF Admits
<1> QED BY <1>1, <1>2 DEF ReplayEvent, Exactly

LEMMA OneMore ==
    ASSUME NEW S, NEW s \in Seq(S), NEW e \in S
    PROVE  s \o <<e>> = Append(s, e)
OBVIOUS

LEMMA TwoMore ==
    ASSUME NEW S, NEW s \in Seq(S), NEW e \in S, NEW f \in S
    PROVE  s \o (<<e>> \o <<f>>) = Append(Append(s, e), f)
OBVIOUS

LEMMA Joined ==
    ASSUME NEW S, NEW s \in Seq(S), NEW t \in Seq(S), NEW both, both = s \o t
    PROVE  /\ both \in Seq(S) /\ Len(both) = Len(s) + Len(t)
           /\ \A i \in 1..Len(s) : both[i] = s[i]
           /\ \A i \in 1..Len(t) : both[Len(s) + i] = t[i]
OBVIOUS

\* The first event to append, moved to the end of the history.
LEMMA MovedOver ==
    ASSUME NEW S, NEW s \in Seq(S), NEW t \in Seq(S), t # <<>>
    PROVE  Append(s, Head(t)) \in Seq(S) /\ Append(s, Head(t)) \o Tail(t) = s \o t
<1> DEFINE e == Head(t)
           rest == Tail(t)
           one == Append(s, e)
           left == one \o rest
           right == s \o t
<1>1. /\ e \in S /\ rest \in Seq(S) /\ Len(rest) = Len(t) - 1 /\ Len(t) \in Nat \ {0}
      /\ e = t[1] /\ \A i \in 1..(Len(t) - 1) : rest[i] = t[i + 1]
      /\ Len(s) \in Nat
  BY HeadTailProperties, EmptySeq
<1> HIDE DEF e, rest
<1>6. /\ one \in Seq(S) /\ Len(one) = Len(s) + 1 /\ one[Len(s) + 1] = e
      /\ \A i \in 1..Len(s) : one[i] = s[i]
  BY <1>1
<1> HIDE DEF one
<1>2. /\ left \in Seq(S) /\ Len(left) = Len(s) + Len(t)
      /\ \A i \in 1..Len(s) : left[i] = s[i]
      /\ left[Len(s) + 1] = e
      /\ \A i \in 1..Len(rest) : left[Len(s) + 1 + i] = rest[i]
  <2>1. /\ left \in Seq(S) /\ Len(left) = Len(one) + Len(rest)
        /\ \A i \in 1..Len(one) : left[i] = one[i]
        /\ \A i \in 1..Len(rest) : left[Len(one) + i] = rest[i]
    <3>1. left = one \o rest
      OBVIOUS
    <3>2. one \in Seq(S) /\ rest \in Seq(S)
      BY <1>1, <1>6
    <3> HIDE DEF left, right
    <3> QED BY <3>1, <3>2, Joined
  <2> HIDE DEF left
  <2> QED BY <1>1, <1>6, <2>1
<1>3. /\ right \in Seq(S) /\ Len(right) = Len(s) + Len(t)
      /\ \A i \in 1..Len(s) : right[i] = s[i]
      /\ \A i \in 1..Len(t) : right[Len(s) + i] = t[i]
  BY Joined
<1> HIDE DEF left, right
<1>4. ASSUME NEW i \in 1..Len(left) PROVE left[i] = right[i]
  <2>1. CASE i <= Len(s)
    BY <1>1, <1>2, <1>3, <2>1
  <2>2. CASE i = Len(s) + 1
    <3>1. right[Len(s) + 1] = t[1]
      BY <1>1, <1>3
    <3> QED BY <1>1, <1>2, <2>2, <3>1
  <2>3. CASE i > Len(s) + 1
    <3> DEFINE k == i - Len(s) - 1
    <3>1. /\ k \in 1..Len(rest) /\ k \in 1..(Len(t) - 1) /\ k + 1 \in 1..Len(t)
          /\ i = Len(s) + 1 + k /\ i = Len(s) + (k + 1)
      BY <1>1, <1>2, <2>3
    <3> HIDE DEF k
    <3>2. left[i] = rest[k] /\ right[i] = t[k + 1] /\ rest[k] = t[k + 1]
      BY <1>1, <1>2, <1>3, <3>1
    <3> QED BY <3>2
  <2> QED BY <1>1, <1>2, <2>1, <2>2, <2>3
<1>5. left = right
  BY <1>2, <1>3, <1>4, SeqEqual
<1> QED BY <1>5, <1>6 DEF left, right, e, rest, one

\* A plan that keeps the parity there is.
Keeps(events, records) ==
    /\ events # <<>> => \A r \in Aimed(records) : Rebuilds(log \o events, r)
    /\ events = <<>> => \A r \in records : Rebuilds(log, r)

LEMMA CommandsKeep ==
    ASSUME Typed, RepairHolds, Rebuilds(log, ledger), NEW p \in Procs,
           Propose(p) \/ Review(p) \/ Export(p) \/ RepairWrites(p) \/ Migrate(p)
    PROVE  \E events, records :
              Typical(p, events, records) /\ Keeps(events, records) /\ Enter(p, events, records)
<1>0. /\ log \in Seq(Event) /\ ledger \in Seq(Record) /\ Now \in Nat
      /\ Replay(log) = Exactly(ledger) => NoDuplicates(ledger)
  <2>1. NoDuplicates(Replay(log).records) /\ Exactly(ledger).records = ledger
    BY ReplayHolds DEF Typed, Exactly
  <2> QED BY <2>1, NowIsNat DEF Typed
<1>1. CASE Propose(p)
  <2>1. PICK record \in Record :
           /\ cmd[p] = "propose" /\ record.id \notin IdsOf(ledger) /\ Proposed(record) \in Event
           /\ Enter(p, <<Proposed(record)>>, {Append(ledger, record)})
    BY <1>1, ProposeParts
  <2> DEFINE e == Proposed(record)
             more == Append(ledger, record)
             events == <<e>>
  <2>2. ReplayEvent(Exactly(ledger), e) = Exactly(more) /\ e.type = "memory_proposed"
    BY <2>1, ProposedReplays DEF Proposed
  <2>3. events \in Seq(Event) /\ events # <<>> /\ more \in Seq(Record) /\ log \o events = Append(log, e)
    BY <1>0, <2>1, SingleTyped, OneMore
  <2>4. e \in Event /\ cmd[p] = "propose" /\ Enter(p, events, {more})
    BY <2>1
  <2> HIDE DEF e, more, events
  <2>5. Rebuilds(log \o events, more)
    BY <1>0, <2>2, <2>3, <2>4, RebuildsGrows
  <2>6. Typical(p, events, {more}) /\ Keeps(events, {more})
    BY <2>3, <2>4, <2>5 DEF Typical, Keeps, Aimed
  <2> QED BY <2>4, <2>6
<1>2. CASE Review(p)
  <2>1. PICK id \in IdsOf(ledger), status \in Statuses, last \in DOMAIN ledger :
            Reviews(p, id, status, last)
    BY <1>2, ReviewParts
  <2> DEFINE more == Restamped(ledger, id, status, Now)
             e == StatusChanged(ledger[last].status, more[last])
             g == Resolved(id)
             f == IF status = "retired" THEN <<g>> ELSE <<>>
             events == <<e>> \o f
  <2>2. e \in Event /\ g \in Event
    BY <2>1, ReviewTyped
  <2>3. cmd[p] = "review" /\ Enter(p, events, {more}) /\ ledger[last].id = id
    BY <2>1 DEF Reviews
  <2>4. more = Restamped(ledger, id, status, Now)
    OBVIOUS
  <2>5. e = StatusChanged(ledger[last].status, more[last])
    OBVIOUS
  <2>6. /\ e.type = "memory_status_changed"
        /\ g.type = "memory_relationship_resolved" /\ g.ids = {id}
    BY DEF StatusChanged, Resolved
  <2> HIDE DEF more, e, g
  <2>7. more \in Seq(Record) /\ id \in IdsOf(more)
    <3>1. /\ more \in Seq(Record) /\ DOMAIN more = DOMAIN ledger
          /\ \A i \in DOMAIN ledger : more[i].id = ledger[i].id
      BY <1>0, <2>4, RestampedTyped
    <3> QED BY <2>3, <3>1, HasId
  <2>8. Rebuilds(Append(log, e), more)
    <3>1. Replay(log) = Exactly(ledger) => ReplayEvent(Exactly(ledger), e) = Exactly(more)
      BY <1>0, <2>3, <2>4, <2>5, ReviewedReplays
    <3> QED BY <1>0, <2>2, <2>6, <3>1, RebuildsGrows
  <2>9. Rebuilds(Append(Append(log, e), g), more)
    <3> DEFINE later == Append(log, e)
    <3>1. later \in Seq(Event) /\ later # <<>>
      <4>1. later = Append(log, e)
        OBVIOUS
      <4> HIDE DEF later
      <4> QED BY <1>0, <2>2, <4>1, Grown
    <3>2. ReplayEvent(Exactly(more), g) = Exactly(more)
      BY <2>6, <2>7, NamingReplays
    <3>3. Rebuilds(later, more)
      BY <2>8
    <3> HIDE DEF later
    <3>4. Rebuilds(Append(later, g), more)
      BY <2>2, <2>6, <3>1, <3>2, <3>3, RebuildsGrows
    <3> QED BY <3>4 DEF later
  <2>10. events \in Seq(Event) /\ events # <<>> /\ Rebuilds(log \o events, more)
    <3>1. CASE status = "retired"
      <4>1. events = <<e>> \o <<g>>
        BY <3>1
      <4>2. <<e>> \o <<g>> \in Seq(Event) /\ <<e>> \o <<g>> # <<>>
        BY <2>2
      <4>3. log \o (<<e>> \o <<g>>) = Append(Append(log, e), g)
        BY <1>0, <2>2, TwoMore
      <4> HIDE DEF events
      <4> QED BY <2>9, <4>1, <4>2, <4>3
    <3>2. CASE status # "retired"
      <4>1. events = <<e>>
        BY <2>2, <3>2, SingleTyped
      <4> HIDE DEF events
      <4>2. log \o events = Append(log, e)
        BY <1>0, <2>2, <4>1, OneMore
      <4> QED BY <2>2, <2>8, <4>1, <4>2, SingleTyped
    <3> QED BY <3>1, <3>2
  <2> HIDE DEF events, f
  <2>11. Typical(p, events, {more}) /\ Keeps(events, {more})
    BY <2>3, <2>7, <2>10 DEF Typical, Keeps, Aimed
  <2> QED BY <2>3, <2>11
<1>3. CASE Export(p)
  <2>1. PICK ids \in SUBSET IdsOf(ledger) :
            cmd[p] = "export" /\ Exported(ids) \in Event /\ Enter(p, <<Exported(ids)>>, {})
    BY <1>3, ExportParts
  <2> DEFINE e == Exported(ids)
             events == <<e>>
  <2>2. e.type = "memory_exported" /\ e.ids \subseteq IdsOf(ledger)
    BY DEF Exported
  <2>3. events \in Seq(Event) /\ events # <<>> /\ log \o events = Append(log, e)
    BY <1>0, <2>1, SingleTyped, OneMore
  <2>4. e \in Event /\ cmd[p] = "export" /\ Enter(p, events, {})
    BY <2>1
  <2> HIDE DEF e, events
  <2>5. Rebuilds(log \o events, ledger)
    BY <1>0, <2>2, <2>3, <2>4, NamingReplays, RebuildsGrows
  <2>6. Typical(p, events, {}) /\ Keeps(events, {})
    BY <2>3, <2>4, <2>5 DEF Typical, Keeps, Aimed
  <2> QED BY <2>4, <2>6
<1>4. CASE RepairWrites(p)
  <2>1. cmd[p] = "repair" /\ pc[p] = "waiting" /\ Enter(p, <<>>, {saw[p]})
    BY <1>4 DEF RepairWrites, Enter
  <2>2. Replay(log) = Exactly(saw[p])
    BY <2>1 DEF RepairHolds
  <2>3. <<>> \in Seq(Event) /\ {saw[p]} \in SUBSET Seq(Record)
    BY DEF Typed
  <2>4. Typical(p, <<>>, {saw[p]}) /\ Keeps(<<>>, {saw[p]})
    BY <2>1, <2>2, <2>3 DEF Typical, Keeps, Rebuilds
  <2> QED BY <2>1, <2>4
<1>5. CASE Migrate(p)
  <2>1. /\ cmd[p] = "migrate" /\ log = <<>> /\ NoDuplicates(ledger)
        /\ Migrated(ledger) \in Event /\ Enter(p, <<Migrated(ledger)>>, {})
    BY <1>5, MigrateParts
  <2> DEFINE e == Migrated(ledger)
             events == <<e>>
  <2>2. ReplayEvent(Exactly(<<>>), e) = Exactly(ledger)
    BY <1>0, <2>1, MigratedReplays
  <2>3. events \in Seq(Event) /\ events # <<>> /\ log \o events = Append(log, e)
    BY <1>0, <2>1, SingleTyped, OneMore
  <2>4. e \in Event /\ Enter(p, events, {})
    BY <2>1
  <2> HIDE DEF e, events
  <2>5. Rebuilds(log \o events, ledger)
    BY <1>0, <2>1, <2>2, <2>3, <2>4, RebuildsGrows
  <2>6. Typical(p, events, {}) /\ Keeps(events, {})
    BY <2>1, <2>3, <2>5 DEF Typical, Keeps, Aimed
  <2> QED BY <2>4, <2>6
<1> QED BY <1>1, <1>2, <1>3, <1>4, <1>5

LEMMA InParityStep ==
    ASSUME Typed, Roles, Ownership, RepairHolds, InParity, [Next]_vars
    PROVE  InParity'
<1>1. CASE Quiet
  BY <1>1 DEF Quiet, InParity, Aimed
<1>2. ASSUME NEW p \in Procs, AppendEvent(p) PROVE InParity'
  <2>1. OthersKeep(p)
    BY <1>2, StepTyped DEF ProcessStep
  <2>2. /\ pc[p] = "appending" /\ log' = Append(log, Head(todo[p])) /\ todo'[p] = Tail(todo[p])
        /\ ledger' = ledger /\ next'[p] = next[p] /\ interrupted' = interrupted
        /\ pc'[p] = IF Len(todo[p]) > 1 THEN "appending"
                    ELSE IF next[p] # {} THEN "writing" ELSE "releasing"
    BY <1>2 DEF AppendEvent, Goto, Typed, bounds
  <2>3. log \in Seq(Event) /\ todo[p] \in Seq(Event) /\ todo[p] # <<>>
    BY <2>2 DEF Typed
  <2>4. log' \o todo'[p] = log \o todo[p] /\ log' \in Seq(Event)
    BY <2>2, <2>3, MovedOver
  <2>5. ~(Len(todo[p]) > 1) => log' = log \o todo[p]
    <3>1. ~(Len(todo[p]) > 1) => todo'[p] = <<>>
      BY <2>2, <2>3, SeqIsSeq, Tailed
    <3> QED BY <2>4, <3>1, ConcatEmptySeq
  <2>6. \A q \in Procs : q # p => pc'[q] \notin {"appending", "writing"}
    BY <2>1, <2>2, Alone DEF OthersKeep
  <2>7. ~interrupted => \A records \in Aimed(next[p]) : Rebuilds(log \o todo[p], records)
    BY <2>2 DEF InParity
  <2>8. Aimed(next[p])' = Aimed(next[p])
    BY <2>2 DEF Aimed
  <2>9. CASE Len(todo[p]) > 1
    <3>1. pc'[p] = "appending"
      BY <2>2, <2>9
    <3>2. ~interrupted => \A records \in Aimed(next[p])' : Rebuilds(log' \o todo'[p], records)
      BY <2>4, <2>7, <2>8
    <3> QED BY <2>2, <2>6, <3>1, <3>2 DEF InParity
  <2>10. CASE ~(Len(todo[p]) > 1) /\ next[p] # {}
    BY <2>2, <2>5, <2>6, <2>7, <2>10 DEF InParity, Aimed
  <2>11. CASE ~(Len(todo[p]) > 1) /\ next[p] = {}
    BY <2>2, <2>5, <2>6, <2>7, <2>11 DEF InParity, Aimed
  <2> QED BY <2>9, <2>10, <2>11
<1>3. ASSUME NEW p \in Procs, WriteLedger(p) PROVE InParity'
  <2>1. OthersKeep(p)
    BY <1>3, StepTyped DEF ProcessStep
  <2>2. /\ pc[p] = "writing" /\ ledger' \in next[p] /\ log' = log /\ pc'[p] = "releasing"
        /\ interrupted' = interrupted
    BY <1>3 DEF WriteLedger, Goto, Typed, bounds
  <2>3. \A q \in Procs : pc'[q] \notin {"appending", "writing"}
    BY <2>1, <2>2, Alone DEF OthersKeep
  <2> QED BY <2>2, <2>3 DEF InParity
<1>4. ASSUME NEW p \in Procs,
             Propose(p) \/ Review(p) \/ Export(p) \/ RepairWrites(p) \/ Migrate(p)
      PROVE  InParity'
  <2>1. OthersKeep(p)
    BY <1>4, StepTyped DEF ProcessStep
  <2>2. PICK events, records : Enter(p, events, records)
    BY <1>4, CommandsEnter DEF Enters
  <2>3. \A q \in Procs : pc[q] \notin {"appending", "writing"}
    BY <2>2, EnterAlone
  <2>4. interrupted' = interrupted
    BY <2>2 DEF Enter, bounds
  <2> SUFFICES ASSUME ~interrupted PROVE InParity'
    BY <2>4 DEF InParity
  <2>5. Rebuilds(log, ledger)
    BY <2>3 DEF InParity
  <2>6. PICK plan, aim : Typical(p, plan, aim) /\ Keeps(plan, aim) /\ Enter(p, plan, aim)
    BY <1>4, <2>5, CommandsKeep
  <2>7. /\ log' = log /\ ledger' = ledger /\ todo'[p] = plan /\ next'[p] = aim
        /\ pc'[p] = IF plan # <<>> THEN "appending" ELSE "writing"
    BY <2>6 DEF Enter, Goto, files, Typed
  <2>8. \A q \in Procs : q # p => pc'[q] \notin {"appending", "writing"}
    BY <2>1, <2>3 DEF OthersKeep
  <2> QED BY <2>6, <2>7, <2>8 DEF InParity, Keeps, Aimed
<1> QED BY <1>1, <1>2, <1>3, <1>4, Shapes

\* A migrated store stays in parity with its history, whatever ran beside the migration
\* or after it (ADR 0009): what a command that holds the lock is still to append leads
\* from the history to the ledger it is to write, line for line.
THEOREM MigratedStaysInParity ==
    ASSUME RepairAsGuided
    PROVE  Spec => []ParityAfterMigration
<1>1. Init => Orderly /\ InParity
  BY OrderlyInit, InParityInit
<1>2. Orderly /\ InParity /\ [Next]_vars => (Orderly /\ InParity)'
  BY OrderlyStep, InParityStep DEF Orderly, Backfill
<1>3. Orderly /\ InParity => ParityAfterMigration
  BY DEF InParity, ParityAfterMigration, Inside, Rebuilds, Exactly
<1> QED BY <1>1, <1>2, <1>3, PTL DEF Spec
===============================================================================
