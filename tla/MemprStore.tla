------------------------------ MODULE MemprStore ------------------------------
(***************************************************************************)
(* The MemPR store: what several `mempr` processes do to the files of one  *)
(* `.mempr` directory.                                                     *)
(*                                                                         *)
(*   ledger.jsonl   the current view, rewritten whole (temp file + rename) *)
(*   events.jsonl   the append-only, hash-chained history                  *)
(*   store.lock     the advisory lock every mutation takes                 *)
(*   <destination>  the Markdown file an export manages                    *)
(*                                                                         *)
(* Every mutation is: take the lock, read the ledger, append one or more   *)
(* events, replace the ledger, remove the lock.  There is no transaction   *)
(* over the two files, so the steps are separate actions, and a process    *)
(* may crash, or fail to write, between any two of them.                   *)
(***************************************************************************)
EXTENDS MemoryRecords

CONSTANTS
    Procs,        \* the running `mempr` processes (CLI or MCP server)
    Free, Stale,  \* values of the lock: no lock file, one that nobody will remove
    Commands,     \* the commands the processes are given
    LogCapacity,  \* the size of events.jsonl, in events, still readable
    FaultKinds,   \* which of "crash", "io", "torn" may happen
    LoneRepair,   \* TRUE: the operator runs repair while nothing else runs
    MaxOps,       \* bound: commands started in a behaviour
    MaxFaults     \* bound: faults in a behaviour

\* What the command line or an MCP tool asks for.
Proposal == [kind: {"propose"}, id: Ids,
             decision: {"auto_accept", "review", "reject_audited"}]
Review == [kind: {"review"}, id: Ids, status: Statuses]
Acceptance == [kind: {"accept"}, id: Ids, retire: BOOLEAN, override: BOOLEAN]
Export == [kind: {"export"}, dest: Dests]
Repair == [kind: {"repair"}]
NoOp == [kind |-> "none"]

Command == Proposal \cup Review \cup Acceptance \cup Export \cup Repair

ASSUME StoreAssumption ==
    /\ Free \notin Procs /\ Stale \notin Procs /\ Free # Stale
    /\ Dest \in [Ids -> Dests]
    /\ Supersedes \in [Ids -> SUBSET Ids]
    /\ Conflicts \in [Ids -> SUBSET Ids]
    /\ \A id \in Ids : Supersedes[id] \cap Conflicts[id] = {}
    /\ IsFiniteSet(Ids)
    /\ Commands \subseteq Command
    /\ LogCapacity \in Nat
    /\ FaultKinds \subseteq {"crash", "io", "torn"}
    /\ LoneRepair \in BOOLEAN
    /\ MaxOps \in Nat /\ MaxFaults \in Nat

-----------------------------------------------------------------------------
(* State *)

VARIABLES
    ledger,       \* the records of ledger.jsonl, by id
    log,          \* the events of events.jsonl
    tail,         \* how events.jsonl ends: see TailStates
    published,    \* the records in the managed block of each destination
    lock,         \* the process named in store.lock, or Free, or Stale
    pc,           \* what each process is about to do
    op,           \* its command
    todo,         \* the events it has still to append
    planned,      \* the ledger it will write
    begun,        \* it has made a durable change it has not completed
    started,      \* commands started so far
    faults,       \* faults so far
    interrupted,  \* history: some command stopped while it had begun
    unlogged      \* history: the destinations whose last export stopped before its event

files == <<ledger, log, tail, published>>
work == <<op, todo, planned, begun>>
history == <<started, faults, interrupted, unlogged>>
vars == <<files, lock, pc, work, history>>

\* "unterminated": the last line is whole but its newline was never written, so
\* the next event lands on the same line.  "malformed": the last line is no
\* longer JSON, and stays so, because nothing appends after a malformed line.
TailStates == {"whole", "unterminated", "malformed"}

Steps == {"idle", "waiting", "locked", "appending", "writing", "releasing",
          "reading", "comparing"}

Critical == {"locked", "appending", "writing", "releasing"}

TypeOK ==
    /\ ledger \in Ledger
    /\ log \in Seq(Event)
    /\ tail \in TailStates
    /\ published \in [Dests -> SUBSET Ids]
    /\ lock \in Procs \cup {Free, Stale}
    /\ pc \in [Procs -> Steps]
    /\ op \in [Procs -> Command \cup {NoOp}]
    /\ todo \in [Procs -> Seq(Event)]
    /\ planned \in [Procs -> Ledger]
    /\ begun \in [Procs -> BOOLEAN]
    /\ started \in 0..MaxOps
    /\ faults \in 0..MaxFaults
    /\ interrupted \in BOOLEAN
    /\ unlogged \in SUBSET Dests

Init ==
    /\ ledger = EmptyLedger
    /\ log = <<>>
    /\ tail = "whole"
    /\ published = [d \in Dests |-> {}]
    /\ lock = Free
    /\ pc = [p \in Procs |-> "idle"]
    /\ op = [p \in Procs |-> NoOp]
    /\ todo = [p \in Procs |-> <<>>]
    /\ planned = [p \in Procs |-> EmptyLedger]
    /\ begun = [p \in Procs |-> FALSE]
    /\ started = 0
    /\ faults = 0
    /\ interrupted = FALSE
    /\ unlogged = {}

-----------------------------------------------------------------------------
(* Starting a command, and the lock *)

\* No event holds id, and no process is proposing it: createId draws a fresh one.
FreshId(id) ==
    /\ Carriers(log, id) = {}
    /\ \A q \in Procs : op[q].kind = "propose" => op[q].id # id

\* With LoneRepair, repair runs with no other command beside it.
MayRunBeside(o) ==
    LoneRepair =>
        \A q \in Procs :
            pc[q] = "idle" \/ (o.kind # "repair" /\ op[q].kind # "repair")

Start(p, o) ==
    /\ pc[p] = "idle"
    /\ started < MaxOps
    /\ o.kind = "propose" => FreshId(o.id)
    /\ MayRunBeside(o)
    /\ op' = [op EXCEPT ![p] = o]
    /\ pc' = [pc EXCEPT ![p] = IF o.kind = "repair" THEN "reading" ELSE "waiting"]
    /\ started' = started + 1
    /\ UNCHANGED <<files, lock, todo, planned, begun, faults, interrupted, unlogged>>

\* Back to idle, with nothing kept of the command.
Forget(p) ==
    /\ pc' = [pc EXCEPT ![p] = "idle"]
    /\ op' = [op EXCEPT ![p] = NoOp]
    /\ todo' = [todo EXCEPT ![p] = <<>>]
    /\ planned' = [planned EXCEPT ![p] = EmptyLedger]
    /\ begun' = [begun EXCEPT ![p] = FALSE]

\* Faulty: ends the command and leaves its lock file behind.
FinishUnreleased(p) ==
    Forget(p)

\* To the release of the lock, with nothing left to write.
Finish(p) ==
    /\ pc' = [pc EXCEPT ![p] = "releasing"]
    /\ todo' = [todo EXCEPT ![p] = <<>>]
    /\ planned' = [planned EXCEPT ![p] = EmptyLedger]
    /\ begun' = [begun EXCEPT ![p] = FALSE]
    /\ UNCHANGED op

\* Faulty: takes the lock over after the deadline.
AcquireByForce(p) ==
    /\ pc[p] = "waiting"
    /\ lock' = p
    /\ pc' = [pc EXCEPT ![p] = IF op[p].kind = "repair" THEN "writing" ELSE "locked"]
    /\ UNCHANGED <<files, work, history>>

\* The exclusive create of store.lock succeeds.  A repair has its records already.
Acquire(p) ==
    /\ pc[p] = "waiting"
    /\ lock = Free
    /\ lock' = p
    /\ pc' = [pc EXCEPT ![p] = IF op[p].kind = "repair" THEN "writing" ELSE "locked"]
    /\ UNCHANGED <<files, work, history>>

\* Faulty: removes the lock file it could not take.
TimeOutUnlocks(p) ==
    /\ pc[p] = "waiting"
    /\ lock # Free
    /\ lock' = Free
    /\ Forget(p)
    /\ UNCHANGED <<files, history>>

\* Faulty: has no deadline.
TimeOutNever(p) ==
    FALSE /\ p = p /\ UNCHANGED vars

\* The lock file was there at every try until the deadline.
TimeOut(p) ==
    /\ pc[p] = "waiting"
    /\ lock # Free
    /\ Forget(p)
    /\ UNCHANGED <<files, lock, history>>

Release(p) ==
    /\ pc[p] = "releasing"
    /\ lock' = Free
    /\ Forget(p)
    /\ UNCHANGED <<files, history>>

-----------------------------------------------------------------------------
(* Reading the ledger under the lock and deciding what to write *)

\* Faulty: replaces the ledger before the events are appended.
PlanLedgerFirst(p, events, records) ==
    /\ todo' = [todo EXCEPT ![p] = events]
    /\ planned' = [planned EXCEPT ![p] = records]
    /\ pc' = [pc EXCEPT ![p] = "appending"]
    /\ ledger' = IF op[p].kind = "export" THEN ledger ELSE records
    /\ UNCHANGED <<log, tail, lock, op, history>>

Plan(p, events, records) ==
    /\ todo' = [todo EXCEPT ![p] = events]
    /\ planned' = [planned EXCEPT ![p] = records]
    /\ pc' = [pc EXCEPT ![p] = "appending"]
    /\ UNCHANGED <<ledger, log, tail, lock, op, history>>

Now == Len(log) + 1

WithStatus(id, status) == [status |-> status, updated_at |-> Now]

StatusChange(id, status) ==
    [type |-> "memory_status_changed", id |-> id,
     previous |-> ledger[id].status, record |-> WithStatus(id, status)]

Resolution(id, retired, overridden) ==
    [type |-> "memory_relationship_resolved", id |-> id,
     retired |-> retired, overridden |-> overridden]

\* Faulty: does not look the named records up.
ProposeUnchecked(p) ==
    /\ pc[p] = "locked"
    /\ op[p].kind = "propose"
    /\ LET id == op[p].id
           record == WithStatus(id, InitialStatus(id, op[p].decision))
       IN Plan(p, << [type |-> "memory_proposed", id |-> id, record |-> record] >>,
               [ledger EXCEPT ![id] = record])
    /\ UNCHANGED <<published, begun>>

\* proposeMemory, from its read of the ledger.
Propose(p) ==
    /\ pc[p] = "locked"
    /\ op[p].kind = "propose"
    /\ LET id == op[p].id
           record == WithStatus(id, InitialStatus(id, op[p].decision))
       IN /\ Supersedes[id] \cup Conflicts[id] \subseteq Known(ledger)
          /\ Plan(p, << [type |-> "memory_proposed", id |-> id, record |-> record] >>,
                  [ledger EXCEPT ![id] = record])
    /\ UNCHANGED <<published, begun>>

\* updateRecordStatus: accept, reject and retire.
UpdateStatus(p) ==
    /\ pc[p] = "locked"
    /\ op[p].kind = "review"
    /\ LET id == op[p].id
           status == op[p].status
       IN /\ id \in Known(ledger)
          /\ TransitionAllowed(ledger[id].status, status)
          /\ Plan(p, << StatusChange(id, status) >>
                       \o IF status = "retired"
                          THEN << Resolution(id, {id}, {}) >>
                          ELSE <<>>,
                  [ledger EXCEPT ![id] = WithStatus(id, status)])
    /\ UNCHANGED <<published, begun>>

\* The orders in which the events of the retired records may be appended (the
\* code uses the order of the ledger's lines, which is not kept here).
Orders(ids) ==
    {f \in [1..Cardinality(ids) -> ids] : \A x \in ids : \E i \in DOMAIN f : f[i] = x}

\* Faulty: leaves the overridden records out of the resolution.
AcceptanceEventsUnaccounted(id, order, overridden) ==
    [i \in 1..(Len(order) + 2) |->
        IF i = 1 THEN StatusChange(id, "accepted")
        ELSE IF i <= Len(order) + 1 THEN StatusChange(order[i - 1], "retired")
        ELSE Resolution(id, {order[j] : j \in DOMAIN order}, {})]

\* The candidate's status event, those of the records retired with it, and the
\* resolution that accounts for them.
AcceptanceEvents(id, order, overridden) ==
    [i \in 1..(Len(order) + 2) |->
        IF i = 1 THEN StatusChange(id, "accepted")
        ELSE IF i <= Len(order) + 1 THEN StatusChange(order[i - 1], "retired")
        ELSE Resolution(id, {order[j] : j \in DOMAIN order}, overridden)]

\* acceptMemoryWithRelationships.  The supersession links of proposed records
\* form no cycle (LinksPointBack), so the acceptance leaves no accepted cycle.
AcceptWithRelationships(p) ==
    /\ pc[p] = "locked"
    /\ op[p].kind = "accept"
    /\ LET id == op[p].id
           superseded == AcceptedPeers(ledger, id, Supersedes[id])
           retired == IF op[p].retire THEN superseded ELSE {}
           overridden == (superseded \ retired)
                         \cup AcceptedPeers(ledger, id, Conflicts[id])
       IN /\ id \in Known(ledger)
          /\ TransitionAllowed(ledger[id].status, "accepted")
          /\ AcceptancePermitted(ledger, id, op[p].retire, op[p].override)
          /\ \E order \in Orders(retired) :
                Plan(p, AcceptanceEvents(id, order, overridden),
                     [x \in Ids |->
                        IF x = id THEN WithStatus(id, "accepted")
                        ELSE IF x \in retired THEN WithStatus(x, "retired")
                        ELSE ledger[x]])
    /\ UNCHANGED <<published, begun>>

\* Faulty: logs no event when it empties the block.
PublishEmptyUnlogged(p) ==
    /\ pc[p] = "locked"
    /\ op[p].kind = "export"
    /\ LET d == op[p].dest
           accepted == AcceptedFor(ledger, d)
       IN /\ FreeOfLinks(accepted)
          /\ published' = [published EXCEPT ![d] = accepted]
          /\ IF accepted = {}
             THEN Finish(p) /\ UNCHANGED <<ledger, log, tail, lock, history>>
             ELSE /\ Plan(p, << [type |-> "memory_exported", dest |-> d, ids |-> accepted] >>,
                          EmptyLedger)
                  /\ begun' = [begun EXCEPT ![p] = TRUE]

\* exportMarkdown: the destination is replaced before the event is appended.
\* The lock keeps the ledger still between the read and the replacement.
Publish(p) ==
    /\ pc[p] = "locked"
    /\ op[p].kind = "export"
    /\ LET d == op[p].dest
           accepted == AcceptedFor(ledger, d)
       IN /\ FreeOfLinks(accepted)
          /\ published' = [published EXCEPT ![d] = accepted]
          /\ Plan(p, << [type |-> "memory_exported", dest |-> d, ids |-> accepted] >>,
                  EmptyLedger)
    /\ begun' = [begun EXCEPT ![p] = TRUE]

\* The command throws before its first change: an unknown id, a transition or
\* an acceptance that is not allowed, links among the records to export, or one
\* of the checks on data (missing reason, unsafe text, expiry, markers).
Refuse(p) ==
    /\ pc[p] = "locked"
    /\ Finish(p)
    /\ UNCHANGED <<files, lock, history>>

-----------------------------------------------------------------------------
(* Writing *)

\* latestEventHash reads the whole file first and needs its last line as JSON.
LogAppendable == Len(log) <= LogCapacity /\ tail # "malformed"

\* p stops here: an export that has replaced its block leaves it without an event.
LeftUnlogged(p) ==
    unlogged \cup IF begun[p] /\ op[p].kind = "export" THEN {op[p].dest} ELSE {}

\* p's event is in the file: an export's block is told of.
NowLogged(p) ==
    unlogged \ IF op[p].kind = "export" THEN {op[p].dest} ELSE {}

AppendEvent(p) ==
    /\ pc[p] = "appending"
    /\ LogAppendable
    /\ log' = Append(log, Head(todo[p]))
    /\ tail' = IF tail = "unterminated" THEN "malformed" ELSE tail
    /\ IF Len(todo[p]) = 1 /\ op[p].kind = "export"
       THEN Finish(p)
       ELSE /\ todo' = [todo EXCEPT ![p] = Tail(@)]
            /\ begun' = [begun EXCEPT ![p] = TRUE]
            /\ pc' = [pc EXCEPT ![p] =
                        IF Len(todo[p]) = 1 THEN "writing" ELSE "appending"]
            /\ UNCHANGED <<op, planned>>
    /\ unlogged' = NowLogged(p)
    /\ UNCHANGED <<ledger, published, lock, started, faults, interrupted>>

AppendRefused(p) ==
    /\ pc[p] = "appending"
    /\ ~LogAppendable
    /\ interrupted' = (interrupted \/ begun[p])
    /\ unlogged' = LeftUnlogged(p)
    /\ Finish(p)
    /\ UNCHANGED <<files, lock, started, faults>>

WriteLedger(p) ==
    /\ pc[p] = "writing"
    /\ ledger' = planned[p]
    /\ Finish(p)
    /\ UNCHANGED <<log, tail, published, lock, history>>

-----------------------------------------------------------------------------
(* mempr repair --from-events: read, verify and replay outside the lock, *)
(* compare, and with --confirm take the lock and write what was replayed *)

LogReadable ==
    Len(log) <= LogCapacity /\ tail # "malformed" /\ Replayable(log)

RepairReadsEvents(p) ==
    /\ pc[p] = "reading"
    /\ LogReadable
    /\ planned' = [planned EXCEPT ![p] = Replay(log)]
    /\ pc' = [pc EXCEPT ![p] = "comparing"]
    /\ UNCHANGED <<files, lock, op, todo, begun, history>>

RepairFails(p) ==
    /\ pc[p] = "reading"
    /\ ~LogReadable
    /\ Forget(p)
    /\ UNCHANGED <<files, lock, history>>

RepairConfirmed(p) ==
    /\ pc[p] = "comparing"
    /\ ledger # planned[p]
    /\ pc' = [pc EXCEPT ![p] = "waiting"]
    /\ UNCHANGED <<files, lock, work, history>>

\* Nothing to repair, or a dry run.
RepairReports(p) ==
    /\ pc[p] = "comparing"
    /\ Forget(p)
    /\ UNCHANGED <<files, lock, history>>

-----------------------------------------------------------------------------
(* Faults, each within the bound MaxFaults *)

\* The process dies.  Its lock file stays.
Crash(p) ==
    /\ "crash" \in FaultKinds /\ faults < MaxFaults
    /\ pc[p] # "idle"
    /\ faults' = faults + 1
    /\ interrupted' = (interrupted \/ begun[p])
    /\ unlogged' = LeftUnlogged(p)
    /\ lock' = IF lock = p THEN Stale ELSE lock
    /\ Forget(p)
    /\ UNCHANGED <<files, started>>

\* The operator follows the time-out's advice: no process holds the lock.
RemoveStaleLock ==
    /\ lock = Stale
    /\ lock' = Free
    /\ UNCHANGED <<files, pc, work, history>>

\* A write fails and leaves its file as it was: an append that wrote nothing, or
\* a temporary file that never replaced the ledger.
WriteFails(p) ==
    /\ "io" \in FaultKinds /\ faults < MaxFaults
    /\ pc[p] \in {"appending", "writing"}
    /\ faults' = faults + 1
    /\ interrupted' = (interrupted \/ begun[p])
    /\ unlogged' = LeftUnlogged(p)
    /\ Finish(p)
    /\ UNCHANGED <<files, lock, started>>

\* The lock file cannot be read or removed: the command is over, the file stays.
ReleaseFails(p) ==
    /\ "io" \in FaultKinds /\ faults < MaxFaults
    /\ pc[p] = "releasing"
    /\ faults' = faults + 1
    /\ lock' = Stale
    /\ Forget(p)
    /\ UNCHANGED <<files, started, interrupted, unlogged>>

\* An append is cut short, and nothing takes the part that was written back:
\* within the event's JSON, or just before its newline.
AppendTorn(p) ==
    /\ "torn" \in FaultKinds /\ faults < MaxFaults
    /\ pc[p] = "appending"
    /\ LogAppendable
    /\ \/ /\ tail' = "malformed"
          /\ UNCHANGED log
          /\ interrupted' = (interrupted \/ begun[p])
          /\ unlogged' = LeftUnlogged(p)
       \/ /\ log' = Append(log, Head(todo[p]))
          /\ tail' = IF tail = "unterminated" THEN "malformed" ELSE "unterminated"
          /\ interrupted' = TRUE
          /\ unlogged' = NowLogged(p)
    /\ faults' = faults + 1
    /\ Finish(p)
    /\ UNCHANGED <<ledger, published, lock, started>>

-----------------------------------------------------------------------------
(* Specification *)

\* The steps a running process takes by itself.
ProcessStep(p) ==
    \/ Acquire(p) \/ TimeOut(p) \/ Release(p)
    \/ Propose(p) \/ UpdateStatus(p) \/ AcceptWithRelationships(p) \/ Publish(p)
    \/ Refuse(p)
    \/ AppendEvent(p) \/ AppendRefused(p) \/ WriteLedger(p)
    \/ RepairReadsEvents(p) \/ RepairFails(p)
    \/ RepairConfirmed(p) \/ RepairReports(p)

\* Every command allowed by the bound has run: the system rests.
AllDone ==
    /\ started = MaxOps
    /\ \A p \in Procs : pc[p] = "idle"
    /\ UNCHANGED vars

Next ==
    \/ \E p \in Procs :
        \/ \E o \in Commands : Start(p, o)
        \/ ProcessStep(p)
        \/ Crash(p) \/ WriteFails(p) \/ ReleaseFails(p) \/ AppendTorn(p)
    \/ RemoveStaleLock
    \/ AllDone

Spec == Init /\ [][Next]_vars

\* The operating system runs every process that can take a step.  Commands,
\* faults and the operator's removal of a stale lock are not assumed to happen.
FairSpec == Spec /\ \A p \in Procs : WF_vars(ProcessStep(p))

-----------------------------------------------------------------------------
(* Properties *)

\* No command is between its first and its last change of the store.
Quiet == \A p \in Procs : pc[p] \notin Critical

\* Only the process named in store.lock is inside withStoreLock, whatever dies,
\* times out or is cleaned up (storage.ts: acquireStoreLock, releaseStoreLock).
MutualExclusion ==
    \A p \in Procs : pc[p] \in Critical => lock = p

\* The processes from their creation of store.lock to its removal.
Holders == {p \in Procs : pc[p] \in Critical}

\* The commands use the lock as the abstract lock that withStoreLock implements: with
\* every error path, crash and failed release one of its steps, or none.
TheLock == INSTANCE AbstractLock WITH inside <- Holders, orphaned <- (lock = Stale)
UsesAbstractLock == TheLock!Spec

\* The command that has made a durable change and has more to make, if there is one.
Begun == {p \in Procs : begun[p]}
Current == CHOOSE p \in Begun : TRUE

\* The records and the history with all of that command's change.
View ==
    IF Begun = {} \/ op[Current].kind = "export" THEN ledger ELSE planned[Current]
Told == IF Begun = {} THEN log ELSE log \o todo[Current]

\* The two files and the managed blocks change as an abstract ledger does: each command
\* takes effect as a whole with its first durable change, by the rules of review and
\* as its events tell, and whatever fails loses the rest of one command only
\* (appendEvent before writeRecords in every mutation, all under withStoreLock).
TheStore == INSTANCE AbstractLedger WITH
    records <- View, history <- Told, shown <- published,
    durable <- [records |-> ledger, history |-> log]
ImplementsLedger == TheStore!Spec

\* The ledger is never ahead of the history: each record in ledger.jsonl is, as
\* it stands there, in some event, even after crashes, failed writes and a full
\* log (events are appended before writeRecords in every mutation).
LedgerIsLogged ==
    \A id \in Known(ledger) :
        \E i \in Carriers(log, id) : log[i].record = ledger[id]

\* A record is proposed after every record it names.  So supersession links form
\* no cycle, whatever the interleaving (validateProposalReferences, in proposeMemory).
LinksPointBack ==
    \A i \in DOMAIN log :
        log[i].type = "memory_proposed" =>
            \A x \in Supersedes[log[i].id] \cup Conflicts[log[i].id] :
                \E j \in 1..(i - 1) : log[j].type = "memory_proposed" /\ log[j].id = x

\* Unless a command was stopped between two of its changes, the history replays
\* and gives the ledger: concurrent mutations alone never make `mempr check` fail.
NoSilentDrift ==
    Quiet /\ ~interrupted => Replayable(log) /\ ledger = Replay(log)

ExportsTo(events, d) ==
    {i \in DOMAIN events : events[i].type = "memory_exported" /\ events[i].dest = d}

\* The records a destination holds according to the history.
Audited(events, d) ==
    UNION {events[i].ids : i \in {i \in ExportsTo(events, d) :
                                    \A j \in ExportsTo(events, d) : j <= i}}

Exporting(d) ==
    \E p \in Procs : pc[p] = "appending" /\ op[p].kind = "export" /\ op[p].dest = d

\* Each managed block holds exactly the records of the last export event for its
\* destination, while no export of it is under way and whatever else is under way or
\* was stopped; but if an export of that destination was stopped after it replaced the
\* block and before its event, then not until the event of a later one is appended
\* (exportMarkdown replaces first and logs second).
PublishedIsAudited ==
    \A d \in Dests \ unlogged : Exporting(d) \/ published[d] = Audited(log, d)

\* Every drift of the ledger is repairable: when no command runs, a ledger that
\* differs from the history can be rebuilt from it.  The migration guide and the
\* release checklist say so of `mempr repair --from-events`.
DriftIsRepairable ==
    Quiet /\ ledger # Replay(log) => LogReadable

\* No step takes a record away or back to an older version: no update is lost
\* between processes that read the ledger and later replace it (withStoreLock).
NoRecordRollsBack ==
    [][\A id \in Known(ledger) :
        /\ id \in Known(ledger')
        /\ ledger[id].updated_at <= ledger'[id].updated_at]_vars

\* Retirement is for good, nothing returns to pending, and only accepted records
\* are retired: also when a write comes late and when repair rewrites everything.
LifecycleIsOneWay ==
    [][\A id \in Ids :
        LET from == ledger[id].status
            to == ledger'[id].status
        IN  /\ from = "retired" => to = "retired"
            /\ to = "pending" => from \in {"none", "pending"}
            /\ to = "retired" => from \in {"accepted", "retired"}]_vars

\* A repair that writes leaves the ledger equal to the replay of the history as
\* it is at the write (repairLedgerFromEvents; README: "Recover the current view
\* from verified events").
RepairRestoresReplay ==
    [][\A p \in Procs :
        pc[p] = "writing" /\ op[p].kind = "repair" /\ pc'[p] = "releasing"
        /\ faults' = faults
            => ledger' = Replay(log)]_vars

\* Every command ends, if only by its lock time-out: nothing waits for ever on a
\* lock left by a dead process, or retries a full or damaged log (acquireStoreLock).
CommandsTerminate ==
    \A p \in Procs : pc[p] # "idle" ~> pc[p] = "idle"

\* A process that took the lock gives it back or dies, on every path through a
\* command, its errors included (the finally block of withStoreLock).
LockIsReleased ==
    \A p \in Procs : lock = p ~> lock # p

=============================================================================
