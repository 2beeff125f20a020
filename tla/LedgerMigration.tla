---------------------------- MODULE LedgerMigration ----------------------------
(***************************************************************************)
(* A store whose ledger.jsonl was written before there were events, and    *)
(* `mempr migrate`, which backfills the history (migration.ts).  The other *)
(* commands do not know whether the store was migrated, and run before,    *)
(* beside and after it.                                                    *)
(*                                                                         *)
(* Here the ledger is a sequence of lines: its order counts when it is     *)
(* compared with the replay, and a legacy ledger may hold an id twice.     *)
(* What happens inside the lock is told at the grain of file changes: an   *)
(* event appended, the ledger replaced.                                    *)
(***************************************************************************)
EXTENDS Naturals, Sequences, SequencesExt

CONSTANTS
    Procs,        \* the running `mempr` processes
    Free, Stale,  \* values of the lock: no lock file, one whose owner is gone
    Ids,          \* record ids
    Legacies,     \* the ledgers the store may start from
    Commands,     \* the commands the processes are given
    Guided,       \* TRUE: repair is run as the migration guide says, where there
                  \* is a history, and by itself
    MaxOps,       \* bound: commands started
    MaxFaults     \* bound: crashes and failed writes

Statuses == {"pending", "accepted", "rejected", "retired"}

\* A line of the ledger.  readRecords and readLegacyLedger read a "plain" line; only
\* readRecords takes a "refused" one (its destination is none that may be written).
Record == [id: Ids, status: Statuses, updated_at: Nat, form: {"plain", "refused"}]

Kinds == {"propose", "review", "export", "check", "repair", "migrate"}

ASSUME MigrationAssumption ==
    /\ Free \notin Procs /\ Stale \notin Procs /\ Free # Stale
    /\ Legacies \subseteq Seq(Record)
    /\ Commands \subseteq Kinds
    /\ Guided \in BOOLEAN
    /\ MaxOps \in Nat /\ MaxFaults \in Nat

VARIABLES
    ledger,       \* ledger.jsonl
    log,          \* events.jsonl
    lock,         \* store.lock
    pc,           \* what each process is about to do
    cmd,          \* the command it runs
    todo,         \* the events it has still to append
    next,         \* the ledger it will write after them, if it writes one: {} or {ledger}
    saw,          \* the records it has read outside the lock
    verdict,      \* what its check said
    witnessed,    \* history: ledger and replay did agree while it checked
    legacy,       \* history: the ids the store started with
    interrupted,  \* history: a command may have stopped between an event and the ledger
    ops, faults

files == <<ledger, log>>
private == <<cmd, todo, next, saw, verdict, witnessed>>
bounds == <<legacy, ops, faults, interrupted>>
vars == <<files, lock, pc, private, bounds>>

-----------------------------------------------------------------------------
(* The history *)

Migrated(records) == [type |-> "ledger_migrated", records |-> records]
Proposed(record) == [type |-> "memory_proposed", record |-> record]
StatusChanged(previous, record) ==
    [type |-> "memory_status_changed", previous_status |-> previous, record |-> record]
Exported(ids) == [type |-> "memory_exported", ids |-> ids]
Resolved(id) == [type |-> "memory_relationship_resolved", ids |-> {id}]

IdsOf(records) == {r.id : r \in ToSet(records)}

NoDuplicates(records) ==
    \A i, j \in DOMAIN records : records[i].id = records[j].id => i = j

\* Map.set: in place, or at the end.
Put(records, record) ==
    IF record.id \in IdsOf(records)
    THEN [i \in DOMAIN records |-> IF records[i].id = record.id THEN record ELSE records[i]]
    ELSE Append(records, record)

\* replayEvents accepts the event after those that gave these records.
Admits(records, e) ==
    CASE e.type = "ledger_migrated" -> records = <<>> /\ NoDuplicates(e.records)
      [] e.type = "memory_proposed" -> e.record.id \notin IdsOf(records)
      [] e.type = "memory_status_changed" ->
            \E r \in ToSet(records) : r.id = e.record.id /\ r.status = e.previous_status
      [] OTHER -> e.ids \subseteq IdsOf(records)

ReplayEvent(state, e) ==
    IF ~state.ok \/ ~Admits(state.records, e)
    THEN [ok |-> FALSE, records |-> <<>>]
    ELSE [ok |-> TRUE,
          records |-> CASE e.type = "ledger_migrated" -> e.records
                        [] e.type \in {"memory_proposed", "memory_status_changed"} ->
                              Put(state.records, e.record)
                        [] OTHER -> state.records]

\* The state after each event, up to the last.
Replay(events) ==
    LET after[n \in 0..Len(events)] ==
            IF n = 0 THEN [ok |-> TRUE, records |-> <<>>]
            ELSE ReplayEvent(after[n - 1], events[n])
    IN after[Len(events)]

-----------------------------------------------------------------------------
Steps == {"idle", "looking", "checking", "verifying", "reading", "comparing",
          "waiting", "appending", "writing", "releasing"}

Inside(p) == pc[p] \in {"appending", "writing", "releasing"}

Init ==
    /\ ledger \in Legacies
    /\ legacy = IdsOf(ledger)
    /\ log = <<>>
    /\ lock = Free
    /\ pc = [p \in Procs |-> "idle"]
    /\ cmd = [p \in Procs |-> "none"]
    /\ todo = [p \in Procs |-> <<>>]
    /\ next = [p \in Procs |-> {}]
    /\ saw = [p \in Procs |-> <<>>]
    /\ verdict = [p \in Procs |-> "none"]
    /\ witnessed = [p \in Procs |-> FALSE]
    /\ interrupted = FALSE /\ ops = 0 /\ faults = 0

Goto(p, step) == pc' = [pc EXCEPT ![p] = step]

\* The command is over: what it kept in memory is gone, its verdict is known.
End(p) ==
    /\ Goto(p, "idle")
    /\ cmd' = [cmd EXCEPT ![p] = "none"]
    /\ todo' = [todo EXCEPT ![p] = <<>>]
    /\ next' = [next EXCEPT ![p] = {}]
    /\ saw' = [saw EXCEPT ![p] = <<>>]

\* Repair is for a store with a history, and nothing runs beside it.
AsGuided(kind) ==
    /\ kind = "repair" => log # <<>> /\ \A q \in Procs : pc[q] = "idle"
    /\ \A q \in Procs : cmd[q] # "repair"

Start(p, kind) ==
    /\ pc[p] = "idle"
    /\ ops < MaxOps
    /\ Guided => AsGuided(kind)
    /\ ops' = ops + 1
    /\ cmd' = [cmd EXCEPT ![p] = kind]
    /\ verdict' = [verdict EXCEPT ![p] = "none"]
    /\ witnessed' = [witnessed EXCEPT ![p] = FALSE]
    /\ Goto(p, CASE kind = "migrate" -> "looking"
                 [] kind = "check" -> "checking"
                 [] kind = "repair" -> "reading"
                 [] OTHER -> "waiting")
    /\ UNCHANGED <<files, lock, todo, next, saw, legacy, faults, interrupted>>

-----------------------------------------------------------------------------
(* The lock *)

TimeOut(p) ==
    /\ pc[p] = "waiting"
    /\ lock # Free
    /\ End(p)
    /\ UNCHANGED <<files, lock, verdict, witnessed, bounds>>

\* The command has the lock, has read what it needs, and goes on with these events
\* and this ledger, or none.
Enter(p, events, records) ==
    /\ pc[p] = "waiting"
    /\ lock = Free
    /\ lock' = p
    /\ todo' = [todo EXCEPT ![p] = events]
    /\ next' = [next EXCEPT ![p] = records]
    /\ Goto(p, IF events # <<>> THEN "appending" ELSE "writing")
    /\ UNCHANGED <<files, cmd, saw, verdict, witnessed, bounds>>

\* It finds a reason not to: the lock is taken and given back, nothing is changed.
Refuse(p) ==
    /\ pc[p] = "waiting"
    /\ lock = Free
    /\ End(p)
    /\ UNCHANGED <<files, lock, verdict, witnessed, bounds>>

AppendEvent(p) ==
    /\ pc[p] = "appending"
    /\ log' = Append(log, Head(todo[p]))
    /\ todo' = [todo EXCEPT ![p] = Tail(@)]
    /\ Goto(p, IF Len(todo[p]) > 1 THEN "appending"
               ELSE IF next[p] # {} THEN "writing" ELSE "releasing")
    /\ UNCHANGED <<ledger, lock, cmd, next, saw, verdict, witnessed, bounds>>

WriteLedger(p) ==
    /\ pc[p] = "writing"
    /\ \E records \in next[p] : ledger' = records
    /\ Goto(p, "releasing")
    /\ UNCHANGED <<log, lock, private, bounds>>

Release(p) ==
    /\ pc[p] = "releasing"
    /\ lock' = IF lock = p THEN Free ELSE lock
    /\ End(p)
    /\ UNCHANGED <<files, verdict, witnessed, bounds>>

-----------------------------------------------------------------------------
(* The commands that change the store without asking whether it was migrated *)

\* Logical time: later than any updated_at.
Now == Len(log) + 3

Propose(p) ==
    /\ cmd[p] = "propose"
    /\ \E id \in Ids \ (IdsOf(ledger) \cup legacy \cup
                        {e.record.id : e \in {x \in ToSet(log) : x.type = "memory_proposed"}}),
          status \in {"pending", "accepted", "rejected"} :
        LET record == [id |-> id, status |-> status, updated_at |-> Now, form |-> "plain"]
        IN Enter(p, <<Proposed(record)>>, {Append(ledger, record)})

TransitionAllowed(from, to) ==
    \/ from = to /\ to # "pending"
    \/ <<from, to>> \in {<<"pending", "accepted">>, <<"pending", "rejected">>,
                         <<"accepted", "rejected">>, <<"rejected", "accepted">>,
                         <<"accepted", "retired">>}

\* updateRecordStatus changes every line with the id, and logs the last.
Review(p) ==
    /\ cmd[p] = "review"
    /\ \E id \in IdsOf(ledger), status \in Statuses :
        LET lines == {i \in DOMAIN ledger : ledger[i].id = id}
            last == Max(lines)
            changed == [i \in DOMAIN ledger |->
                          IF i \in lines
                          THEN [ledger[i] EXCEPT !.status = status, !.updated_at = Now]
                          ELSE ledger[i]]
        IN /\ \A i \in lines : TransitionAllowed(ledger[i].status, status)
           /\ Enter(p, <<StatusChanged(ledger[last].status, changed[last])>>
                       \o (IF status = "retired" THEN <<Resolved(id)>> ELSE <<>>),
                    {changed})

Export(p) ==
    /\ cmd[p] = "export"
    /\ Enter(p, <<Exported({r.id : r \in {x \in ToSet(ledger) :
                                x.status = "accepted" /\ x.form = "plain"}})>>, {})

-----------------------------------------------------------------------------
(* checkLedgerConsistency and repairLedgerFromEvents *)

\* Faulty: looks at the ids only.
CompareIds(current, replayed) ==
    [i \in DOMAIN current |-> current[i].id] = [i \in DOMAIN replayed |-> replayed[i].id]

\* compareCurrentToReplay finds no difference.
Compare(current, replayed) == current = replayed

CheckReadsLedger(p) ==
    /\ pc[p] = "checking"
    /\ saw' = [saw EXCEPT ![p] = ledger]
    /\ witnessed' = [witnessed EXCEPT ![p] = Replay(log) = [ok |-> TRUE, records |-> ledger]]
    /\ Goto(p, "verifying")
    /\ UNCHANGED <<files, lock, cmd, todo, next, verdict, bounds>>

Clean(current, events) ==
    /\ \A i \in DOMAIN current : current[i].form = "plain"
    /\ Replay(events).ok
    /\ Compare(current, Replay(events).records)

CheckReadsEvents(p) ==
    /\ pc[p] = "verifying"
    /\ verdict' = [verdict EXCEPT ![p] = IF Clean(saw[p], log) THEN "clean" ELSE "drift"]
    /\ witnessed' = [witnessed EXCEPT ![p] =
                        @ \/ Replay(log) = [ok |-> TRUE, records |-> ledger]]
    /\ End(p)
    /\ UNCHANGED <<files, lock, bounds>>

RepairReadsEvents(p) ==
    /\ pc[p] = "reading"
    /\ Replay(log).ok
    /\ saw' = [saw EXCEPT ![p] = Replay(log).records]
    /\ Goto(p, "comparing")
    /\ UNCHANGED <<files, lock, cmd, todo, next, verdict, witnessed, bounds>>

RepairConfirmed(p) ==
    /\ pc[p] = "comparing"
    /\ ~Compare(ledger, saw[p])
    /\ Goto(p, "waiting")
    /\ UNCHANGED <<files, lock, private, bounds>>

\* The history does not replay, there is no difference, or no confirmation.
RepairReports(p) ==
    /\ \/ pc[p] = "reading" /\ ~Replay(log).ok
       \/ pc[p] = "comparing"
    /\ End(p)
    /\ UNCHANGED <<files, lock, verdict, witnessed, bounds>>

RepairWrites(p) ==
    /\ cmd[p] = "repair"
    /\ Enter(p, <<>>, {saw[p]})

-----------------------------------------------------------------------------
(* migrateLedgerEvents *)

\* assessExistingHistory before the lock: no history yet.
MigrateLooks(p) ==
    /\ pc[p] = "looking"
    /\ log = <<>>
    /\ Goto(p, "waiting")
    /\ UNCHANGED <<files, lock, private, bounds>>

\* There is a history: migrate checks it, and reports what the check says.
MigrateChecks(p) ==
    /\ pc[p] = "looking"
    /\ log # <<>>
    /\ Goto(p, "checking")
    /\ UNCHANGED <<files, lock, private, bounds>>

\* A dry run reports what it would do.
MigrateDryRun(p) ==
    /\ pc[p] = "looking"
    /\ log = <<>>
    /\ End(p)
    /\ UNCHANGED <<files, lock, verdict, witnessed, bounds>>

\* Faulty: takes duplicates.
MigratableTwice(records) ==
    /\ records # <<>>
    /\ \A i \in DOMAIN records : records[i].form = "plain"

\* readLegacyLedger reads every line, and no id comes twice.
Migratable(records) ==
    /\ records # <<>>
    /\ \A i \in DOMAIN records : records[i].form = "plain"
    /\ NoDuplicates(records)

\* Faulty: trusts the look it took before it had the lock.
MigrateUnchecked(p) ==
    /\ cmd[p] = "migrate"
    /\ Migratable(ledger)
    /\ Enter(p, <<Migrated(ledger)>>, {})

\* The second look, inside the lock.
Migrate(p) ==
    /\ cmd[p] = "migrate"
    /\ log = <<>>
    /\ Migratable(ledger)
    /\ Enter(p, <<Migrated(ledger)>>, {})

-----------------------------------------------------------------------------
(* Crashes, and the person who removes the lock file of a dead process *)

Crash(p) ==
    /\ faults < MaxFaults
    /\ pc[p] # "idle"
    /\ faults' = faults + 1
    /\ lock' = IF lock = p THEN Stale ELSE lock
    /\ interrupted' = (interrupted \/ pc[p] \in {"appending", "writing"})
    /\ End(p)
    /\ UNCHANGED <<files, verdict, witnessed, legacy, ops>>

\* A write fails: the error leaves the operation, and the lock is given back.
WriteFails(p) ==
    /\ faults < MaxFaults
    /\ pc[p] \in {"appending", "writing"}
    /\ faults' = faults + 1
    /\ interrupted' = TRUE
    /\ Goto(p, "releasing")
    /\ UNCHANGED <<files, lock, private, legacy, ops>>

RemoveStaleLock ==
    /\ lock = Stale
    /\ lock' = Free
    /\ UNCHANGED <<files, pc, private, bounds>>

ProcessStep(p) ==
    \/ TimeOut(p) \/ Refuse(p) \/ AppendEvent(p) \/ WriteLedger(p) \/ Release(p)
    \/ Propose(p) \/ Review(p) \/ Export(p)
    \/ CheckReadsLedger(p) \/ CheckReadsEvents(p)
    \/ RepairReadsEvents(p) \/ RepairConfirmed(p) \/ RepairReports(p) \/ RepairWrites(p)
    \/ MigrateLooks(p) \/ MigrateChecks(p) \/ MigrateDryRun(p) \/ Migrate(p)

\* Every command the bound allows has run: the system rests.
AllDone ==
    /\ ops = MaxOps
    /\ \A p \in Procs : pc[p] = "idle"
    /\ UNCHANGED vars

Next ==
    \/ \E p \in Procs :
        \/ \E kind \in Commands : Start(p, kind)
        \/ ProcessStep(p)
        \/ Crash(p) \/ WriteFails(p)
    \/ RemoveStaleLock
    \/ AllDone

Spec == Init /\ [][Next]_vars

-----------------------------------------------------------------------------
(* Properties *)

\* However many migrations race each other and every other command, the history is
\* backfilled at most once, and only as its first event (the second look of
\* migrateLedgerEvents, inside the lock).
MigratedOnce ==
    \A i \in DOMAIN log : log[i].type = "ledger_migrated" => i = 1

\* A migrated store stays in parity with its history: whatever ran beside the
\* migration or after it, the history replays, and to the ledger line for line (ADR
\* 0009: "produce event replay parity with the current ledger after backfill").
ParityAfterMigration ==
    /\ log # <<>> /\ log[1].type = "ledger_migrated"
    /\ ~interrupted
    /\ \A p \in Procs : ~Inside(p)
    => Replay(log) = [ok |-> TRUE, records |-> ledger]

\* A check that reads ledger and history one after the other, with no lock, while
\* others write, calls them consistent only if they were, when it read the one or
\* the other (checkLedgerConsistency, assessExistingHistory).
CleanVerdictWasTrue ==
    \A p \in Procs : verdict[p] = "clean" => witnessed[p]

\* No record of the store as it was before the upgrade is lost: it is in the ledger
\* or in the history (docs/migration-guide.md: "Existing stores can remain in place").
LegacyRecordKept ==
    legacy \subseteq IdsOf(ledger) \cup
        UNION {IdsOf(e.records) : e \in {x \in ToSet(log) : x.type = "ledger_migrated"}}

===============================================================================
