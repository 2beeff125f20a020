------------------------------- MODULE LiveSync -------------------------------
(***************************************************************************)
(* `mempr sync-live`: the accepted records of one destination are pushed    *)
(* to one remote memory service (live-adapter-sync.ts, live-adapter-       *)
(* network.ts).                                                            *)
(*                                                                         *)
(*   gate -> read the ledger -> read the history -> push each record       *)
(*        -> append one memory_live_synced event                           *)
(*                                                                         *)
(* Only the last step takes the store lock.  Records are reviewed, other   *)
(* syncs run, and the network loses, delays and repeats requests between   *)
(* any two steps.                                                          *)
(***************************************************************************)
EXTENDS Naturals, FiniteSets

CONSTANTS
    Procs,        \* processes that may sync
    Ids,          \* the records of the destination
    Links,        \* the records each record supersedes or conflicts with
    Retries,      \* maxRetries
    MaxSyncs,     \* bound: syncs started
    MaxReviews    \* bound: reviews of records

Statuses == {"pending", "accepted", "rejected", "retired"}

\* A version of a record, told by updated_at.  With the adapter and the
\* destination, which are fixed here, it is the idempotency key.
Version == [id: Ids, updated_at: Nat]

\* createLiveIdempotencyKey
Key(id, record) == [id |-> id, updated_at |-> record.updated_at]

Outcome == [key: Version, status: {"succeeded", "skipped", "failed"}]

\* The n-th attempt of a process to push one version.
Request == [from: Procs, key: Version, n: Nat]

NoRequest == [from |-> "none"]

ASSUME SyncAssumption ==
    /\ Links \in [Ids -> SUBSET Ids]
    /\ Retries \in 0..10
    /\ MaxSyncs \in Nat /\ MaxReviews \in Nat

VARIABLES
    ledger,     \* status and updated_at of each record
    logged,     \* the outcomes in the memory_live_synced events of the history
    net,        \* requests under way
    applied,    \* the versions the service has stored at some time
    remote,     \* the updated_at of the version the service shows, or 0
    pc,         \* what each process is about to do
    dryRun,     \* it only plans
    ready,      \* its credentials are there
    planned,    \* the versions it has read as accepted
    known,      \* the versions the history shows as synced
    outcomes,   \* what became of those it is done with
    waitsFor,   \* the request it waits for
    started,    \* syncs started so far
    reviews,    \* reviews so far
    settled,    \* history: the versions logged as synced when it started
    undisturbed \* history: no other sync has run since it started; no request of an
                \* earlier one was under way then, or had come after a newer version

service == <<net, applied, remote>>
plan == <<dryRun, ready, planned, known, outcomes, waitsFor, settled, undisturbed>>
vars == <<ledger, logged, service, pc, plan, started, reviews>>

Steps == {"idle", "gating", "reading", "recalling", "pushing", "awaiting", "logging"}

TypeOK ==
    /\ ledger \in [Ids -> [status: Statuses, updated_at: Nat]]
    /\ logged \subseteq Outcome
    /\ net \subseteq Request
    /\ applied \subseteq Version
    /\ remote \in [Ids -> Nat]
    /\ pc \in [Procs -> Steps]
    /\ dryRun \in [Procs -> BOOLEAN]
    /\ ready \in [Procs -> BOOLEAN]
    /\ planned \in [Procs -> SUBSET Version]
    /\ known \in [Procs -> SUBSET Version]
    /\ outcomes \in [Procs -> SUBSET Outcome]
    /\ waitsFor \in [Procs -> {r \in Request : r.n <= Retries + 1} \cup {NoRequest}]
    /\ started \in 0..MaxSyncs
    /\ reviews \in 0..MaxReviews
    /\ settled \in [Procs -> SUBSET Version]
    /\ undisturbed \in [Procs -> BOOLEAN]

Init ==
    /\ ledger = [id \in Ids |-> [status |-> "pending", updated_at |-> 1]]
    /\ logged = {} /\ net = {} /\ applied = {}
    /\ remote = [id \in Ids |-> 0]
    /\ pc = [p \in Procs |-> "idle"]
    /\ dryRun = [p \in Procs |-> FALSE]
    /\ ready = [p \in Procs |-> FALSE]
    /\ planned = [p \in Procs |-> {}]
    /\ known = [p \in Procs |-> {}]
    /\ outcomes = [p \in Procs |-> {}]
    /\ waitsFor = [p \in Procs |-> NoRequest]
    /\ started = 0 /\ reviews = 0
    /\ settled = [p \in Procs |-> {}]
    /\ undisturbed = [p \in Procs |-> FALSE]

-----------------------------------------------------------------------------
(* What is read of the ledger and of the history *)

\* The accepted records of the destination.
AcceptedVersions(records) ==
    {Key(id, records[id]) : id \in {x \in DOMAIN records : records[x].status = "accepted"}}

\* readContextRelationshipIssues finds none among the accepted records.
FreeOfLinks(records) ==
    \A id \in DOMAIN records : records[id].status = "accepted" =>
        \A x \in Links[id] : records[x].status # "accepted"

\* Faulty: takes every outcome for a success.
ReconciledAny(events) == {o.key : o \in events}

\* Faulty: looks for the record, whatever its version.
ReconciledById(events) ==
    {[id |-> o.key.id, updated_at |-> t] :
        o \in {x \in events : x.status \in {"succeeded", "skipped"}}, t \in 1..MaxReviews + 1}

\* readSuccessfulSyncs
Reconciled(events) ==
    {o.key : o \in {x \in events : x.status \in {"succeeded", "skipped"}}}

\* What is still to push or skip.
Remaining(p) == {k \in planned[p] : \A o \in outcomes[p] : o.key # k}

\* No request came late: the service shows the newest version it has stored.
NewestShown == \A k \in applied : k.updated_at <= remote[k.id]

-----------------------------------------------------------------------------
(* syncLiveAdapter, up to the push *)

Start(p, dry, credentials) ==
    /\ pc[p] = "idle"
    /\ started < MaxSyncs
    /\ started' = started + 1
    /\ pc' = [pc EXCEPT ![p] = "gating"]
    /\ dryRun' = [dryRun EXCEPT ![p] = dry]
    /\ ready' = [ready EXCEPT ![p] = credentials]
    /\ settled' = [settled EXCEPT ![p] =
                     {o.key : o \in {x \in logged : x.status \in {"succeeded", "skipped"}}}]
    /\ undisturbed' = [q \in Procs |-> /\ q = p /\ NewestShown /\ net = {}
                                      /\ \A x \in Procs : pc[x] = "idle"]
    /\ UNCHANGED <<ledger, logged, service, planned, known, outcomes, waitsFor, reviews>>

End(p) ==
    /\ pc' = [pc EXCEPT ![p] = "idle"]
    /\ dryRun' = [dryRun EXCEPT ![p] = FALSE]
    /\ ready' = [ready EXCEPT ![p] = FALSE]
    /\ planned' = [planned EXCEPT ![p] = {}]
    /\ known' = [known EXCEPT ![p] = {}]
    /\ outcomes' = [outcomes EXCEPT ![p] = {}]
    /\ waitsFor' = [waitsFor EXCEPT ![p] = NoRequest]
    /\ settled' = [settled EXCEPT ![p] = {}]
    /\ undisturbed' = [undisturbed EXCEPT ![p] = FALSE]

\* assembleReadContext finds nothing that blocks.
Gate(p) ==
    /\ pc[p] = "gating"
    /\ FreeOfLinks(ledger)
    /\ pc' = [pc EXCEPT ![p] = "reading"]
    /\ UNCHANGED <<ledger, logged, service, plan, started, reviews>>

\* It finds links, or one of its checks on data, or the read is denied; or a
\* later read of a file fails.
Blocked(p) ==
    /\ pc[p] \in {"gating", "reading", "recalling"}
    /\ End(p)
    /\ UNCHANGED <<ledger, logged, service, started, reviews>>

ReadRecords(p) ==
    /\ pc[p] = "reading"
    /\ planned' = [planned EXCEPT ![p] = AcceptedVersions(ledger)]
    /\ pc' = [pc EXCEPT ![p] = "recalling"]
    /\ UNCHANGED <<ledger, logged, service, dryRun, ready, known, outcomes,
                   waitsFor, settled, undisturbed, started, reviews>>

\* Faulty: forgets what earlier syncs did.
RecallNothing(p) ==
    /\ pc[p] = "recalling"
    /\ ~dryRun[p]
    /\ pc' = [pc EXCEPT ![p] = "pushing"]
    /\ UNCHANGED <<ledger, logged, service, dryRun, ready, planned, known, outcomes,
                   waitsFor, settled, undisturbed, started, reviews>>

Recall(p) ==
    /\ pc[p] = "recalling"
    /\ ~dryRun[p]
    /\ known' = [known EXCEPT ![p] = Reconciled(logged)]
    /\ pc' = [pc EXCEPT ![p] = "pushing"]
    /\ UNCHANGED <<ledger, logged, service, dryRun, ready, planned, outcomes,
                   waitsFor, settled, undisturbed, started, reviews>>

\* A dry run returns its plan.
ReportPlan(p) ==
    /\ pc[p] = "recalling"
    /\ dryRun[p]
    /\ End(p)
    /\ UNCHANGED <<ledger, logged, service, started, reviews>>

-----------------------------------------------------------------------------
(* One operation after the other (in any order: the code's is the ledger's) *)

Settle(p, k, status) ==
    outcomes' = [outcomes EXCEPT ![p] = @ \cup {[key |-> k, status |-> status]}]

Skip(p) ==
    /\ pc[p] = "pushing"
    /\ \E k \in Remaining(p) \cap known[p] : Settle(p, k, "skipped")
    /\ UNCHANGED <<ledger, logged, service, pc, dryRun, ready, planned, known,
                   waitsFor, settled, undisturbed, started, reviews>>

MissCredentials(p) ==
    /\ pc[p] = "pushing"
    /\ ~ready[p]
    /\ \E k \in Remaining(p) \ known[p] : Settle(p, k, "failed")
    /\ UNCHANGED <<ledger, logged, service, pc, dryRun, ready, planned, known,
                   waitsFor, settled, undisturbed, started, reviews>>

Send(p, k, n) ==
    LET r == [from |-> p, key |-> k, n |-> n]
    IN /\ net' = net \cup {r}
       /\ waitsFor' = [waitsFor EXCEPT ![p] = r]

Push(p) ==
    /\ pc[p] = "pushing"
    /\ ready[p]
    /\ \E k \in Remaining(p) \ known[p] : Send(p, k, 1)
    /\ pc' = [pc EXCEPT ![p] = "awaiting"]
    /\ UNCHANGED <<ledger, logged, applied, remote, dryRun, ready, planned, known,
                   outcomes, settled, undisturbed, started, reviews>>

\* The operation at hand is over.
Conclude(p, status) ==
    /\ Settle(p, waitsFor[p].key, status)
    /\ waitsFor' = [waitsFor EXCEPT ![p] = NoRequest]
    /\ pc' = [pc EXCEPT ![p] = "pushing"]

\* Faulty: retries for ever.
RetryAlways(p) ==
    /\ Send(p, waitsFor[p].key, waitsFor[p].n)
    /\ UNCHANGED <<pc, outcomes>>

\* Faulty: one attempt too many.
RetryOnceMore(p) ==
    IF waitsFor[p].n <= Retries + 1
    THEN /\ Send(p, waitsFor[p].key, waitsFor[p].n + 1)
         /\ UNCHANGED <<pc, outcomes>>
    ELSE Conclude(p, "failed") /\ UNCHANGED net

\* applyWithRetries after an error that says it may be tried again.
Retry(p) ==
    IF waitsFor[p].n <= Retries
    THEN /\ Send(p, waitsFor[p].key, waitsFor[p].n + 1)
         /\ UNCHANGED <<pc, outcomes>>
    ELSE Conclude(p, "failed") /\ UNCHANGED net

\* An answer of the 500s: the service has stored the version, or not.
Unavailable(p) ==
    /\ pc[p] = "awaiting"
    /\ waitsFor[p] \notin net
    /\ Retry(p)
    /\ UNCHANGED <<ledger, logged, applied, remote, dryRun, ready, planned, known,
                   settled, undisturbed, started, reviews>>

\* A downstream id that can be used comes back: the service has stored the version.
Succeed(p) ==
    /\ pc[p] = "awaiting"
    /\ waitsFor[p] \notin net
    /\ waitsFor[p].key \in applied
    /\ Conclude(p, "succeeded")
    /\ UNCHANGED <<ledger, logged, service, dryRun, ready, planned, known,
                   settled, undisturbed, started, reviews>>

\* Any other error: a refusal, an unusable downstream id, a time-out or a broken
\* connection.  The request may still be under way.
GiveUp(p) ==
    /\ pc[p] = "awaiting"
    /\ Conclude(p, "failed")
    /\ UNCHANGED <<ledger, logged, service, dryRun, ready, planned, known,
                   settled, undisturbed, started, reviews>>

\* Everything has its outcome.
FinishPushing(p) ==
    /\ pc[p] = "pushing"
    /\ Remaining(p) = {}
    /\ pc' = [pc EXCEPT ![p] = "logging"]
    /\ UNCHANGED <<ledger, logged, service, plan, started, reviews>>

\* appendLiveSyncEvent, under the store lock.
AppendLiveSyncEvent(p) ==
    /\ pc[p] = "logging"
    /\ logged' = logged \cup outcomes[p]
    /\ End(p)
    /\ UNCHANGED <<ledger, service, started, reviews>>

\* The lock times out, or the event cannot be written.
AppendFails(p) ==
    /\ pc[p] = "logging"
    /\ End(p)
    /\ UNCHANGED <<ledger, logged, service, started, reviews>>

-----------------------------------------------------------------------------
(* The service, the reviewers, and crashes *)

\* A request arrives.  A key the service knows changes nothing.
Store(r) ==
    /\ r \in net
    /\ net' = net \ {r}
    /\ applied' = applied \cup {r.key}
    /\ remote' = IF r.key \in applied THEN remote
                 ELSE [remote EXCEPT ![r.key.id] = r.key.updated_at]
    /\ UNCHANGED <<ledger, logged, pc, plan, started, reviews>>

\* It is lost, or refused.
Lose(r) ==
    /\ r \in net
    /\ net' = net \ {r}
    /\ UNCHANGED <<ledger, logged, applied, remote, pc, plan, started, reviews>>

\* updateRecordStatus: any change that validateStatusTransition allows.
ReviewRecord(id, status) ==
    /\ reviews < MaxReviews
    /\ status # "pending"
    /\ \/ ledger[id].status = status
       \/ <<ledger[id].status, status>> \in
            {<<"pending", "accepted">>, <<"pending", "rejected">>,
             <<"accepted", "rejected">>, <<"rejected", "accepted">>,
             <<"accepted", "retired">>}
    /\ ledger' = [ledger EXCEPT ![id] =
                    [status |-> status, updated_at |-> reviews + 2]]
    /\ reviews' = reviews + 1
    /\ UNCHANGED <<logged, service, pc, plan, started>>

Crash(p) ==
    /\ pc[p] # "idle"
    /\ End(p)
    /\ UNCHANGED <<ledger, logged, service, started, reviews>>

-----------------------------------------------------------------------------
ProcessStep(p) ==
    \/ Gate(p) \/ Blocked(p) \/ ReadRecords(p) \/ Recall(p) \/ ReportPlan(p)
    \/ Skip(p) \/ MissCredentials(p) \/ Push(p)
    \/ Unavailable(p) \/ Succeed(p) \/ GiveUp(p)
    \/ FinishPushing(p) \/ AppendLiveSyncEvent(p) \/ AppendFails(p)

\* Every sync the bound allows has run: the system rests.
AllDone ==
    /\ started = MaxSyncs /\ reviews = MaxReviews
    /\ \A p \in Procs : pc[p] = "idle"
    /\ UNCHANGED vars

Next ==
    \/ \E p \in Procs :
        \/ \E dry, credentials \in BOOLEAN : Start(p, dry, credentials)
        \/ ProcessStep(p)
        \/ Crash(p)
    \/ \E r \in net : Store(r) \/ Lose(r)
    \/ \E id \in Ids, status \in Statuses : ReviewRecord(id, status)
    \/ AllDone

Spec == Init /\ [][Next]_vars

\* A process that runs takes its steps, and fetch ends: the request is answered
\* or its time-out of fifteen seconds passes.  Nothing is assumed of the service.
FairSpec == Spec /\ \A p \in Procs : WF_vars(ProcessStep(p))

-----------------------------------------------------------------------------
(* Properties *)

\* What the history says is synced has reached the service, whatever was lost,
\* retried or repeated, and whoever else was syncing: a skipped record was pushed
\* once (readSuccessfulSyncs, applyWithRetries).
SyncedIsDelivered ==
    \A o \in logged : o.status \in {"succeeded", "skipped"} => o.key \in applied

\* A version that was logged as synced before a sync started is not pushed again by
\* it (test: "confirmed fake sync records downstream ids and reconciles repeat
\* idempotency keys").
RepeatPushesNothing ==
    [][\A p \in Procs : \A r \in net' \ net : r.from = p => r.key \notin settled[p]]_vars

\* A sync without a failure, which no other sync and no late request disturbed, leaves
\* the service with exactly the versions that were planned: nothing is skipped that
\* the service no longer shows (createLiveIdempotencyKey, readSuccessfulSyncs).  Where
\* a request has come late before, the code promises nothing: it never learns of it.
CleanSyncIsCurrent ==
    \A p \in Procs :
        pc[p] = "logging" /\ undisturbed[p] /\ (\A o \in outcomes[p] : o.status # "failed")
            => \A k \in planned[p] : remote[k.id] = k.updated_at

\* Every sync ends, whether the service answers, fails for ever or is silent
\* (applyWithRetries, the time-out of postLiveAdapterPayload).
SyncsEnd ==
    \A p \in Procs : pc[p] # "idle" ~> pc[p] = "idle"

===============================================================================
