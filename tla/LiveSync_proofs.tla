---------------------------- MODULE LiveSync_proofs ----------------------------
(***************************************************************************)
(* Theorems about LiveSync, for any number of processes and records, and   *)
(* whatever the network does: types, that what the history calls synced    *)
(* was delivered and is not pushed again, and that a sync nothing disturbs *)
(* leaves the service current.                                             *)
(***************************************************************************)
EXTENDS LiveSync, TLAPS

\* TypeOK is not inductive by itself: a process waits for a request exactly
\* while it awaits an answer.
Waiting == \A p \in Procs : pc[p] = "awaiting" => waitsFor[p] \in Request

Typing == TypeOK /\ Waiting

LEMMA AcceptedVersionsType ==
  ASSUME TypeOK PROVE AcceptedVersions(ledger) \subseteq Version
  BY DEF TypeOK, AcceptedVersions, Key, Version

LEMMA KeysType ==
  ASSUME NEW events \in SUBSET Outcome
  PROVE  {o.key : o \in events} \subseteq Version
  BY DEF Outcome

LEMMA RequestType ==
  ASSUME NEW p \in Procs, NEW k \in Version, NEW n \in Nat
  PROVE  [from |-> p, key |-> k, n |-> n] \in Request
  BY DEF Request

LEMMA NoRequestOther == NoRequest \notin Request
  BY DEF NoRequest, Request

-----------------------------------------------------------------------------
LEMMA TypingInit == Init => Typing
  BY SyncAssumption DEF Init, Typing, TypeOK, Waiting, Steps, Statuses

\* Ending a sync keeps the types of what a process remembers.
LEMMA EndTyping ==
  ASSUME Typing, NEW p \in Procs, End(p)
  PROVE  /\ pc' \in [Procs -> Steps]
         /\ dryRun' \in [Procs -> BOOLEAN] /\ ready' \in [Procs -> BOOLEAN]
         /\ planned' \in [Procs -> SUBSET Version]
         /\ known' \in [Procs -> SUBSET Version]
         /\ outcomes' \in [Procs -> SUBSET Outcome]
         /\ waitsFor' \in [Procs -> {r \in Request : r.n <= Retries + 1} \cup {NoRequest}]
         /\ settled' \in [Procs -> SUBSET Version]
         /\ undisturbed' \in [Procs -> BOOLEAN]
         /\ Waiting'
  <1>1. undisturbed' \in [Procs -> BOOLEAN]
    BY DEF Typing, TypeOK, End
  <1> QED BY <1>1 DEF Typing, TypeOK, Waiting, End, Steps

\* So does recording what became of a version.
LEMMA SettleTyping ==
  ASSUME Typing, NEW p \in Procs, NEW k \in Version,
         NEW status \in {"succeeded", "skipped", "failed"}, Settle(p, k, status)
  PROVE  outcomes' \in [Procs -> SUBSET Outcome]
  <1>1. [key |-> k, status |-> status] \in Outcome
    BY DEF Outcome
  <1> QED BY <1>1 DEF Typing, TypeOK, Settle

LEMMA ConcludeTyping ==
  ASSUME Typing, NEW p \in Procs, pc[p] = "awaiting",
         NEW status \in {"succeeded", "failed"}, Conclude(p, status)
  PROVE  /\ outcomes' \in [Procs -> SUBSET Outcome]
         /\ waitsFor' \in [Procs -> {r \in Request : r.n <= Retries + 1} \cup {NoRequest}]
         /\ pc' \in [Procs -> Steps]
         /\ Waiting'
  <1>1. waitsFor[p].key \in Version
    BY DEF Typing, Waiting, Request
  <1>2. outcomes' \in [Procs -> SUBSET Outcome]
    BY <1>1, SettleTyping DEF Conclude
  <1> QED BY <1>2 DEF Conclude, Typing, TypeOK, Waiting, Steps

LEMMA SendTyping ==
  ASSUME Typing, NEW p \in Procs, NEW k \in Version, NEW n \in 1..(Retries + 1),
         Send(p, k, n)
  PROVE  /\ net' \subseteq Request
         /\ waitsFor' \in [Procs -> {r \in Request : r.n <= Retries + 1} \cup {NoRequest}]
         /\ \A q \in Procs : waitsFor[q] \in Request => waitsFor'[q] \in Request
         /\ waitsFor'[p] \in Request
  <1>1. [from |-> p, key |-> k, n |-> n] \in {r \in Request : r.n <= Retries + 1}
    BY SyncAssumption, RequestType DEF Request
  <1> QED BY <1>1 DEF Send, Typing, TypeOK

LEMMA TypingNext == Typing /\ [Next]_vars => Typing'
<1> SUFFICES ASSUME Typing, [Next]_vars PROVE Typing'
  OBVIOUS
<1> USE SyncAssumption
<1>1. ASSUME NEW p \in Procs, NEW dry \in BOOLEAN, NEW credentials \in BOOLEAN,
             Start(p, dry, credentials)
      PROVE  Typing'
  <2>1. {o.key : o \in {x \in logged : x.status \in {"succeeded", "skipped"}}} \subseteq Version
    BY DEF Typing, TypeOK, Outcome
  <2>2. dryRun' \in [Procs -> BOOLEAN] /\ ready' \in [Procs -> BOOLEAN]
    BY <1>1 DEF Start, Typing, TypeOK
  <2>3. settled' \in [Procs -> SUBSET Version]
    BY <1>1, <2>1 DEF Start, Typing, TypeOK
  <2>4. started' \in 0..MaxSyncs /\ pc' \in [Procs -> Steps] /\ Waiting'
    BY <1>1 DEF Start, Typing, TypeOK, Waiting, Steps
  <2>5. undisturbed' \in [Procs -> BOOLEAN]
    BY <1>1 DEF Start
  <2> QED BY <1>1, <2>2, <2>3, <2>4, <2>5 DEF Start, Typing, TypeOK, service
<1>2. ASSUME NEW p \in Procs, Gate(p) PROVE Typing'
  BY <1>2 DEF Gate, Typing, TypeOK, Waiting, Steps, service, plan
<1>3. ASSUME NEW p \in Procs, Blocked(p) \/ ReportPlan(p) \/ AppendFails(p) PROVE Typing'
  BY <1>3, EndTyping DEF Blocked, ReportPlan, AppendFails, Typing, TypeOK, service
<1>4. ASSUME NEW p \in Procs, ReadRecords(p) PROVE Typing'
  BY <1>4, AcceptedVersionsType DEF ReadRecords, Typing, TypeOK, Waiting, Steps, service
<1>5. ASSUME NEW p \in Procs, Recall(p) PROVE Typing'
  <2>1. Reconciled(logged) \subseteq Version
    BY DEF Typing, TypeOK, Outcome, Reconciled
  <2> QED BY <1>5, <2>1 DEF Recall, Typing, TypeOK, Waiting, Steps, service
<1>6. ASSUME NEW p \in Procs, Skip(p) \/ MissCredentials(p) PROVE Typing'
  <2>1. PICK k \in Version, status \in {"succeeded", "skipped", "failed"} : Settle(p, k, status)
    BY <1>6 DEF Skip, MissCredentials, Remaining, Typing, TypeOK
  <2>2. outcomes' \in [Procs -> SUBSET Outcome]
    BY <2>1, SettleTyping
  <2> QED BY <1>6, <2>2 DEF Skip, MissCredentials, Typing, TypeOK, Waiting, service
<1>7. ASSUME NEW p \in Procs, Push(p) PROVE Typing'
  <2>1. PICK k \in Version : Send(p, k, 1)
    BY <1>7 DEF Push, Remaining, Typing, TypeOK
  <2>2. 1 \in 1..(Retries + 1)
    OBVIOUS
  <2> QED BY <1>7, <2>1, <2>2, SendTyping DEF Push, Typing, TypeOK, Waiting, Steps
<1>8. ASSUME NEW p \in Procs, Unavailable(p) PROVE Typing'
  <2>1. waitsFor[p] \in Request /\ waitsFor[p].n <= Retries + 1
    BY <1>8, NoRequestOther DEF Unavailable, Typing, TypeOK, Waiting
  <2>2. CASE waitsFor[p].n <= Retries
    <3>1. waitsFor[p].n + 1 \in 1..(Retries + 1) /\ waitsFor[p].key \in Version
      BY <2>1, <2>2 DEF Request
    <3>2. Send(p, waitsFor[p].key, waitsFor[p].n + 1)
      BY <1>8, <2>2 DEF Unavailable, Retry
    <3> QED BY <1>8, <2>2, <3>1, <3>2, SendTyping
         DEF Unavailable, Retry, Typing, TypeOK, Waiting
  <2>3. CASE ~(waitsFor[p].n <= Retries)
    BY <1>8, <2>3, ConcludeTyping DEF Unavailable, Retry, Typing, TypeOK
  <2> QED BY <2>2, <2>3
<1>9. ASSUME NEW p \in Procs, Succeed(p) PROVE Typing'
  BY <1>9, ConcludeTyping DEF Succeed, Typing, TypeOK, service
<1>10. ASSUME NEW p \in Procs, GiveUp(p) PROVE Typing'
  BY <1>10, ConcludeTyping DEF GiveUp, Typing, TypeOK, service
<1>11. ASSUME NEW p \in Procs, FinishPushing(p) PROVE Typing'
  BY <1>11 DEF FinishPushing, Typing, TypeOK, Waiting, Steps, service, plan
<1>12. ASSUME NEW p \in Procs, AppendLiveSyncEvent(p) PROVE Typing'
  <2>1. logged' \subseteq Outcome
    BY <1>12 DEF AppendLiveSyncEvent, Typing, TypeOK
  <2> QED BY <1>12, <2>1, EndTyping DEF AppendLiveSyncEvent, Typing, TypeOK, service
<1>13. ASSUME NEW p \in Procs, Crash(p) PROVE Typing'
  BY <1>13, EndTyping DEF Crash, Typing, TypeOK, service
<1>14. ASSUME NEW r \in net, Store(r) \/ Lose(r) PROVE Typing'
  <2>1. r \in Request
    BY DEF Typing, TypeOK
  <2>2. r.key \in Version /\ r.key.id \in Ids /\ r.key.updated_at \in Nat
    BY <2>1 DEF Request, Version
  <2> QED BY <1>14, <2>2 DEF Store, Lose, Typing, TypeOK, Waiting, plan
<1>15. ASSUME NEW id \in Ids, NEW status \in Statuses, ReviewRecord(id, status)
       PROVE  Typing'
  BY <1>15 DEF ReviewRecord, Typing, TypeOK, Waiting, service, plan
<1>16. CASE UNCHANGED vars
  BY <1>16 DEF vars, service, plan, Typing, TypeOK, Waiting
<1> QED
  BY <1>1, <1>2, <1>3, <1>4, <1>5, <1>6, <1>7, <1>8, <1>9, <1>10, <1>11,
     <1>12, <1>13, <1>14, <1>15, <1>16 DEF Next, ProcessStep, AllDone

\* A sync, its requests and the service keep their types for all constants.
THEOREM TypeCorrect == Spec => []TypeOK
<1>1. Typing => TypeOK
  BY DEF Typing
<1> QED BY <1>1, TypingInit, TypingNext, PTL DEF Spec

-----------------------------------------------------------------------------
(* What is called synced was delivered *)

Synced(set) == {o.key : o \in {x \in set : x.status \in {"succeeded", "skipped"}}}

\* What the history, a process's reading of it, or a process's outcomes call synced
\* has been applied.
Delivered ==
    /\ Synced(logged) \subseteq applied
    /\ \A p \in Procs : known[p] \subseteq applied
    /\ \A p \in Procs : Synced(outcomes[p]) \subseteq applied

\* Recording an outcome adds at most its own version, and only as a success.
LEMMA SettleSynced ==
  ASSUME Typing, NEW p \in Procs, NEW k, NEW status, Settle(p, k, status)
  PROVE  \A q \in Procs :
            Synced(outcomes'[q]) \subseteq
              Synced(outcomes[q]) \cup (IF status = "failed" THEN {} ELSE {k})
<1>1. \A q \in Procs : outcomes'[q] \subseteq outcomes[q] \cup {[key |-> k, status |-> status]}
  BY DEF Settle, Typing, TypeOK
<1> QED BY <1>1 DEF Synced

LEMMA EndDelivered ==
  ASSUME Typing, Delivered, NEW p \in Procs, End(p)
  PROVE  \A q \in Procs : known'[q] \subseteq applied /\ Synced(outcomes'[q]) \subseteq applied
  BY DEF End, Delivered, Typing, TypeOK, Synced

LEMMA DeliveredInit == Init => Delivered
  BY DEF Init, Delivered, Synced

LEMMA DeliveredNext == Typing /\ Delivered /\ [Next]_vars => Delivered'
<1> SUFFICES ASSUME Typing, Delivered, [Next]_vars PROVE Delivered'
  OBVIOUS
<1>1. ASSUME NEW p \in Procs, NEW dry \in BOOLEAN, NEW credentials \in BOOLEAN,
             Start(p, dry, credentials)
      PROVE  Delivered'
  BY <1>1 DEF Start, Delivered, Synced, service
<1>2. ASSUME NEW p \in Procs, Gate(p) \/ FinishPushing(p) PROVE Delivered'
  BY <1>2 DEF Gate, FinishPushing, Delivered, Synced, service, plan
<1>3. ASSUME NEW p \in Procs,
             Blocked(p) \/ ReportPlan(p) \/ AppendFails(p) \/ Crash(p)
      PROVE  Delivered'
  BY <1>3, EndDelivered DEF Blocked, ReportPlan, AppendFails, Crash, Delivered, Synced, service
<1>4. ASSUME NEW p \in Procs, ReadRecords(p) PROVE Delivered'
  BY <1>4 DEF ReadRecords, Delivered, Synced, service
<1>5. ASSUME NEW p \in Procs, Recall(p) PROVE Delivered'
  <2>1. \A q \in Procs : known'[q] \subseteq known[q] \cup Synced(logged)
    BY <1>5 DEF Recall, Reconciled, Synced, Typing, TypeOK
  <2> QED BY <1>5, <2>1 DEF Recall, Delivered, Synced, service
<1>6. ASSUME NEW p \in Procs, Skip(p) PROVE Delivered'
  <2>1. PICK k \in known[p] : Settle(p, k, "skipped")
    BY <1>6 DEF Skip
  <2>2. \A q \in Procs : Synced(outcomes'[q]) \subseteq applied
    BY <2>1, SettleSynced DEF Delivered
  <2> QED BY <1>6, <2>2 DEF Skip, Delivered, Synced, service
<1>7. ASSUME NEW p \in Procs, MissCredentials(p) PROVE Delivered'
  <2>1. PICK k : Settle(p, k, "failed")
    BY <1>7 DEF MissCredentials
  <2>2. \A q \in Procs : Synced(outcomes'[q]) \subseteq applied
    BY <2>1, SettleSynced DEF Delivered
  <2> QED BY <1>7, <2>2 DEF MissCredentials, Delivered, Synced, service
<1>8. ASSUME NEW p \in Procs, Push(p) PROVE Delivered'
  BY <1>8 DEF Push, Send, Delivered, Synced
<1>9. ASSUME NEW p \in Procs, Unavailable(p) \/ GiveUp(p) PROVE Delivered'
  <2>1. CASE Conclude(p, "failed")
    <3>1. \A q \in Procs : Synced(outcomes'[q]) \subseteq applied
      BY <2>1, SettleSynced DEF Conclude, Delivered
    <3> QED BY <1>9, <3>1 DEF Unavailable, GiveUp, Delivered, Synced, service
  <2>2. CASE ~Conclude(p, "failed")
    BY <1>9, <2>2 DEF Unavailable, GiveUp, Retry, Send, Delivered, Synced, service
  <2> QED BY <2>1, <2>2
<1>10. ASSUME NEW p \in Procs, Succeed(p) PROVE Delivered'
  <2>1. Settle(p, waitsFor[p].key, "succeeded") /\ waitsFor[p].key \in applied
    BY <1>10 DEF Succeed, Conclude
  <2>2. \A q \in Procs : Synced(outcomes'[q]) \subseteq applied
    BY <2>1, SettleSynced DEF Delivered
  <2> QED BY <1>10, <2>2 DEF Succeed, Delivered, Synced, service
<1>11. ASSUME NEW p \in Procs, AppendLiveSyncEvent(p) PROVE Delivered'
  <2>1. Synced(logged') \subseteq Synced(logged) \cup Synced(outcomes[p])
    BY <1>11 DEF AppendLiveSyncEvent, Synced
  <2>2. UNCHANGED applied /\ End(p)
    BY <1>11 DEF AppendLiveSyncEvent, service
  <2> QED BY <2>1, <2>2, EndDelivered DEF Delivered
<1>12. ASSUME NEW r \in net, Store(r) \/ Lose(r) PROVE Delivered'
  BY <1>12 DEF Store, Lose, Delivered, Synced, plan
<1>13. ASSUME NEW id \in Ids, NEW status \in Statuses, ReviewRecord(id, status)
       PROVE  Delivered'
  BY <1>13 DEF ReviewRecord, Delivered, Synced, service, plan
<1>14. CASE UNCHANGED vars
  BY <1>14 DEF vars, service, plan, Delivered, Synced
<1> QED
  BY <1>1, <1>2, <1>3, <1>4, <1>5, <1>6, <1>7, <1>8, <1>9, <1>10, <1>11,
     <1>12, <1>13, <1>14 DEF Next, ProcessStep, AllDone

\* Whatever is lost, retried or repeated, and whoever else syncs, the history calls
\* a version synced only if the service has had it (readSuccessfulSyncs).
THEOREM OnlyDeliveredIsSynced == Spec => []SyncedIsDelivered
<1>1. Delivered => SyncedIsDelivered
  BY DEF Delivered, Synced, SyncedIsDelivered
<1> QED BY <1>1, TypingInit, TypingNext, DeliveredInit, DeliveredNext, PTL DEF Spec

-----------------------------------------------------------------------------
(* What was synced before is not pushed again *)

\* A sync that pushes knows what was settled when it started, and pushes only what
\* it does not know as synced.
Remembers ==
    /\ \A p \in Procs : settled[p] \subseteq Synced(logged)
    /\ \A p \in Procs : pc[p] \in {"pushing", "awaiting"} => settled[p] \subseteq known[p]
    /\ \A p \in Procs : pc[p] = "awaiting" => waitsFor[p].key \notin known[p]

LEMMA RemembersInit == Init => Remembers
  BY DEF Init, Remembers, Synced

LEMMA EndRemembers ==
  ASSUME Typing, Remembers, NEW p \in Procs, End(p), logged \subseteq logged'
  PROVE  Remembers'
<1>1. Synced(logged) \subseteq Synced(logged')
  BY DEF Synced
<1>2. \A q \in Procs \ {p} : /\ pc'[q] = pc[q] /\ settled'[q] = settled[q]
                            /\ known'[q] = known[q] /\ waitsFor'[q] = waitsFor[q]
  BY DEF End, Typing, TypeOK
<1>3. pc'[p] = "idle" /\ settled'[p] = {}
  BY DEF End, Typing, TypeOK
<1> QED BY <1>1, <1>2, <1>3 DEF Remembers

LEMMA RemembersNext == Typing /\ Remembers /\ [Next]_vars => Remembers'
<1> SUFFICES ASSUME Typing, Remembers, [Next]_vars PROVE Remembers'
  OBVIOUS
<1>1. ASSUME NEW p \in Procs, NEW dry \in BOOLEAN, NEW credentials \in BOOLEAN,
             Start(p, dry, credentials)
      PROVE  Remembers'
  BY <1>1 DEF Start, Remembers, Synced, Typing, TypeOK
<1>2. ASSUME NEW p \in Procs,
             Blocked(p) \/ ReportPlan(p) \/ AppendFails(p) \/ Crash(p) \/ AppendLiveSyncEvent(p)
      PROVE  Remembers'
  BY <1>2, EndRemembers DEF Blocked, ReportPlan, AppendFails, Crash, AppendLiveSyncEvent
<1>3. ASSUME NEW p \in Procs, Gate(p) \/ ReadRecords(p) \/ FinishPushing(p) PROVE Remembers'
  BY <1>3 DEF Gate, ReadRecords, FinishPushing, Remembers, Synced, Typing, TypeOK, plan
<1>4. ASSUME NEW p \in Procs, Recall(p) PROVE Remembers'
  <2>1. Reconciled(logged) = Synced(logged)
    BY DEF Reconciled, Synced
  <2> QED BY <1>4, <2>1 DEF Recall, Remembers, Typing, TypeOK
<1>5. ASSUME NEW p \in Procs, Skip(p) \/ MissCredentials(p) PROVE Remembers'
  BY <1>5 DEF Skip, MissCredentials, Remembers
<1>6. ASSUME NEW p \in Procs, Push(p) PROVE Remembers'
  <2>1. PICK k \in Version \ known[p] : Send(p, k, 1)
    BY <1>6 DEF Push, Remaining, Typing, TypeOK
  <2>2. waitsFor'[p].key = k
    BY <2>1 DEF Send, Typing, TypeOK
  <2>3. \A q \in Procs \ {p} : waitsFor'[q] = waitsFor[q] /\ pc'[q] = pc[q]
    BY <1>6, <2>1 DEF Push, Send, Typing, TypeOK
  <2> QED BY <1>6, <2>1, <2>2, <2>3 DEF Push, Remembers, Typing, TypeOK
<1>7. ASSUME NEW p \in Procs, Unavailable(p) PROVE Remembers'
  <2>1. CASE Send(p, waitsFor[p].key, waitsFor[p].n + 1) /\ UNCHANGED <<pc, outcomes>>
    <3>1. waitsFor'[p].key = waitsFor[p].key
      BY <2>1 DEF Send, Typing, TypeOK
    <3>2. \A q \in Procs \ {p} : waitsFor'[q] = waitsFor[q]
      BY <2>1 DEF Send, Typing, TypeOK
    <3> QED BY <1>7, <2>1, <3>1, <3>2 DEF Unavailable, Remembers
  <2>2. CASE Conclude(p, "failed")
    BY <1>7, <2>2 DEF Unavailable, Conclude, Remembers, Typing, TypeOK
  <2> QED BY <1>7, <2>1, <2>2 DEF Unavailable, Retry
<1>8. ASSUME NEW p \in Procs, Succeed(p) \/ GiveUp(p) PROVE Remembers'
  BY <1>8 DEF Succeed, GiveUp, Conclude, Remembers, Typing, TypeOK
<1>9. ASSUME NEW r \in net, Store(r) \/ Lose(r) PROVE Remembers'
  BY <1>9 DEF Store, Lose, Remembers, plan
<1>10. ASSUME NEW id \in Ids, NEW status \in Statuses, ReviewRecord(id, status)
       PROVE  Remembers'
  BY <1>10 DEF ReviewRecord, Remembers, service, plan
<1>11. CASE UNCHANGED vars
  BY <1>11 DEF vars, service, plan, Remembers, Synced
<1> QED
  BY <1>1, <1>2, <1>3, <1>4, <1>5, <1>6, <1>7, <1>8, <1>9, <1>10, <1>11
     DEF Next, ProcessStep, AllDone

\* A version that was logged as synced before a sync started is not sent by it,
\* in any attempt (readSuccessfulSyncs, applyWithRetries).
THEOREM NoRepeatedPush == Spec => RepeatPushesNothing
<1>1. ASSUME Typing, Remembers, [Next]_vars, NEW p \in Procs,
             NEW r \in net' \ net, r.from = p
      PROVE  r.key \notin settled[p]
  <2>1. PICK q \in Procs : Push(q) \/ Unavailable(q)
    <3>1. ~(net' \subseteq net)
      OBVIOUS
    <3> QED
      BY <1>1, <3>1 DEF Next, ProcessStep, AllDone, Start, Gate, Blocked, ReadRecords, Recall,
         ReportPlan, Skip, MissCredentials, Succeed, GiveUp, FinishPushing,
         AppendLiveSyncEvent, AppendFails, Store, Lose, ReviewRecord, Crash, vars, service
  <2>2. CASE Push(q)
    <3>1. PICK k \in Version \ known[q] : Send(q, k, 1)
      BY <1>1, <2>2 DEF Push, Remaining, Typing, TypeOK
    <3>2. r = [from |-> q, key |-> k, n |-> 1]
      BY <3>1 DEF Send
    <3>3. q = p /\ r.key = k
      BY <1>1, <3>2
    <3> QED BY <1>1, <2>2, <3>1, <3>3 DEF Push, Remembers
  <2>3. CASE Unavailable(q)
    <3>1. Send(q, waitsFor[q].key, waitsFor[q].n + 1)
      BY <2>3 DEF Unavailable, Retry
    <3>2. r = [from |-> q, key |-> waitsFor[q].key, n |-> waitsFor[q].n + 1]
      BY <3>1 DEF Send
    <3>3. q = p /\ r.key = waitsFor[p].key
      BY <1>1, <3>2
    <3> QED BY <1>1, <2>3, <3>3 DEF Unavailable, Remembers
  <2> QED BY <2>1, <2>2, <2>3
<1>2. Typing /\ Remembers /\ [Next]_vars =>
        [\A p \in Procs : \A r \in net' \ net : r.from = p => r.key \notin settled[p]]_vars
  BY <1>1
<1> QED
  BY <1>2, TypingInit, TypingNext, RemembersInit, RemembersNext, PTL
     DEF Spec, RepeatPushesNothing

-----------------------------------------------------------------------------
(* An undisturbed sync leaves the service current *)

\* The versions that are read, sent or stored are no newer than the ledger's; a sync
\* plans one version of a record, pushes what it planned, and logs when each version
\* has its outcome; the service shows a version it has stored.
NoNewer(k) == k.updated_at <= ledger[k.id].updated_at

Versions ==
    /\ \A id \in Ids : ledger[id].updated_at <= reviews + 1
    /\ \A p \in Procs : \A k \in planned[p] : NoNewer(k)
    /\ \A r \in net : NoNewer(r.key)
    /\ \A k \in applied : NoNewer(k)
    /\ \A p \in Procs : \A k, l \in planned[p] : k.id = l.id => k = l
    /\ \A p \in Procs : pc[p] \in {"idle", "gating", "reading"} => planned[p] = {}
    /\ \A p \in Procs : pc[p] = "awaiting" => waitsFor[p].key \in planned[p]
    /\ \A p \in Procs : pc[p] = "logging" => Remaining(p) = {}
    /\ \A id \in Ids : remote[id] = 0 \/ [id |-> id, updated_at |-> remote[id]] \in applied

\* What an undisturbed sync can count on.
Alone(p) ==
    /\ \A q \in Procs : q # p => pc[q] = "idle"
    /\ NewestShown
    /\ \A r \in net : r.key \in planned[p]
    /\ pc[p] \in {"gating", "reading", "recalling"} => net = {}
    /\ \A k \in planned[p], l \in applied : l.id = k.id => l.updated_at <= k.updated_at

AloneWhenUndisturbed == \A p \in Procs : undisturbed[p] => Alone(p)

Current == Versions /\ AloneWhenUndisturbed

LEMMA CurrentInit == Init => Current
  BY DEF Init, Current, Versions, AloneWhenUndisturbed, Remaining, NoNewer

\* Ending a sync leaves nothing of it that Current speaks of.
LEMMA EndCurrent ==
  ASSUME Typing, Current, NEW p \in Procs, End(p), UNCHANGED <<ledger, service, reviews>>
  PROVE  Current'
<1>1. \A q \in Procs \ {p} : /\ pc'[q] = pc[q] /\ planned'[q] = planned[q]
                            /\ outcomes'[q] = outcomes[q] /\ waitsFor'[q] = waitsFor[q]
                            /\ undisturbed'[q] = undisturbed[q]
  BY DEF End, Typing, TypeOK
<1>2. pc'[p] = "idle" /\ planned'[p] = {} /\ undisturbed'[p] = FALSE
  BY DEF End, Typing, TypeOK
<1>3. Versions'
  BY <1>1, <1>2 DEF Current, Versions, NoNewer, Remaining, service
<1>4. ASSUME NEW q \in Procs, undisturbed'[q] PROVE Alone(q)'
  <2>1. q # p
    BY <1>2, <1>4
  <2>2. Alone(q)
    BY <1>1, <1>4, <2>1 DEF Current, AloneWhenUndisturbed
  <2>3. net' = net /\ applied' = applied /\ remote' = remote
    BY DEF service
  <2> QED BY <1>1, <1>2, <2>1, <2>2, <2>3 DEF Alone, NewestShown
<1> QED BY <1>3, <1>4 DEF Current, AloneWhenUndisturbed

\* What a sync may have planned while it goes on.
PlannedWell(p) ==
    /\ \A k \in planned'[p] : NoNewer(k)
    /\ \A k, l \in planned'[p] : k.id = l.id => k = l
    /\ \A k \in planned'[p], l \in applied :
           undisturbed[p] /\ l.id = k.id => l.updated_at <= k.updated_at

\* A step of one process that goes on with its sync.
GoesOn(p) ==
    /\ pc[p] # "idle" /\ pc'[p] # "idle"
    /\ \A q \in Procs : q # p => /\ pc'[q] = pc[q] /\ planned'[q] = planned[q]
                                 /\ outcomes'[q] = outcomes[q] /\ waitsFor'[q] = waitsFor[q]
    /\ ledger' = ledger /\ applied' = applied /\ remote' = remote
    /\ undisturbed' = undisturbed /\ reviews' = reviews
    /\ pc'[p] \in {"gating", "reading"} => planned'[p] = {}
    /\ pc'[p] = "awaiting" => waitsFor'[p].key \in planned'[p]
    /\ pc'[p] = "logging" => Remaining(p)' = {}
    /\ \A r \in net' : r \in net \/ r.key \in planned'[p]
    /\ planned'[p] = planned[p] \/ (net' = net /\ pc[p] = "reading")
    /\ pc'[p] \in {"gating", "reading", "recalling"} =>
           pc[p] \in {"gating", "reading", "recalling"} /\ net' = net

LEMMA PlannedKept ==
  ASSUME Current, NEW p \in Procs, planned' = planned
  PROVE  PlannedWell(p)
  BY DEF PlannedWell, Current, Versions, AloneWhenUndisturbed, Alone

LEMMA StepCurrent ==
  ASSUME Typing, Current, NEW p \in Procs, GoesOn(p), PlannedWell(p)
  PROVE  Current'
<1>1. Versions'
  <2>1. \A q \in Procs : q # p => Remaining(q)' = Remaining(q)
    BY DEF GoesOn, PlannedWell, Remaining
  <2> QED BY <2>1 DEF GoesOn, PlannedWell, Current, Versions, NoNewer
<1>2. ASSUME NEW q \in Procs, undisturbed'[q] PROVE Alone(q)'
  <2>1. Alone(q)
    BY <1>2 DEF GoesOn, PlannedWell, Current, AloneWhenUndisturbed
  <2>2. q = p
    BY <2>1 DEF GoesOn, PlannedWell, Alone
  <2>3. NewestShown'
    BY <2>1 DEF GoesOn, PlannedWell, Alone, NewestShown
  <2>4. undisturbed[p]
    BY <1>2, <2>2 DEF GoesOn
  <2>5. \A r \in net' : r.key \in planned'[p]
    BY <2>1, <2>2 DEF GoesOn, PlannedWell, Alone
  <2> QED BY <2>1, <2>2, <2>3, <2>4, <2>5 DEF GoesOn, PlannedWell, Alone
<1> QED BY <1>1, <1>2 DEF Current, AloneWhenUndisturbed

\* The accepted records are read with their versions of the moment, one each.
LEMMA AcceptedVersionsCurrent ==
  ASSUME TypeOK
  PROVE  /\ \A k \in AcceptedVersions(ledger) : k.updated_at = ledger[k.id].updated_at
         /\ \A k, l \in AcceptedVersions(ledger) : k.id = l.id => k = l
  BY DEF AcceptedVersions, Key, TypeOK

LEMMA CurrentNext == Typing /\ Current /\ [Next]_vars => Current'
<1> SUFFICES ASSUME Typing, Current, [Next]_vars PROVE Current'
  OBVIOUS
<1>1. ASSUME NEW p \in Procs, NEW dry \in BOOLEAN, NEW credentials \in BOOLEAN,
             Start(p, dry, credentials)
      PROVE  Current'
  <2>1. UNCHANGED <<ledger, service, planned, outcomes, waitsFor, reviews>>
    BY <1>1 DEF Start
  <2>2. pc'[p] = "gating" /\ \A q \in Procs : q # p => pc'[q] = pc[q]
    BY <1>1 DEF Start, Typing, TypeOK
  <2>3. planned[p] = {}
    BY <1>1 DEF Start, Current, Versions
  <2>4. Versions'
    BY <2>1, <2>2, <2>3 DEF Current, Versions, NoNewer, Remaining, service
  <2>5. ASSUME NEW q \in Procs, undisturbed'[q] PROVE Alone(q)'
    <3>1. q = p /\ NewestShown /\ net = {} /\ \A x \in Procs : pc[x] = "idle"
      BY <1>1, <2>5 DEF Start
    <3>2. NewestShown' /\ net' = {}
      BY <2>1, <3>1 DEF NewestShown, service
    <3> QED BY <2>1, <2>2, <2>3, <3>1, <3>2 DEF Alone
  <2> QED BY <2>4, <2>5 DEF Current, AloneWhenUndisturbed
<1>2. ASSUME NEW p \in Procs,
             Blocked(p) \/ ReportPlan(p) \/ AppendFails(p) \/ Crash(p) \/ AppendLiveSyncEvent(p)
      PROVE  Current'
  BY <1>2, EndCurrent DEF Blocked, ReportPlan, AppendFails, Crash, AppendLiveSyncEvent
<1>3. ASSUME NEW p \in Procs, Gate(p) PROVE Current'
  <2>1. /\ pc[p] = "gating" /\ pc'[p] = "reading"
        /\ \A q \in Procs : q # p => pc'[q] = pc[q]
        /\ UNCHANGED <<ledger, service, planned, outcomes, waitsFor, undisturbed, reviews>>
    BY <1>3 DEF Gate, Typing, TypeOK, plan
  <2>2. GoesOn(p)
    BY <2>1 DEF GoesOn, Current, Versions, service
  <2> QED BY <2>1, <2>2, StepCurrent, PlannedKept
<1>4. ASSUME NEW p \in Procs, ReadRecords(p) PROVE Current'
  <2>1. /\ pc[p] = "reading" /\ pc'[p] = "recalling"
        /\ \A q \in Procs : q # p => pc'[q] = pc[q] /\ planned'[q] = planned[q]
        /\ planned'[p] = AcceptedVersions(ledger)
        /\ UNCHANGED <<ledger, service, outcomes, waitsFor, undisturbed, reviews>>
    BY <1>4 DEF ReadRecords, Typing, TypeOK
  <2>2. /\ \A k \in planned'[p] : k \in Version /\ k.updated_at = ledger[k.id].updated_at
        /\ \A k, l \in planned'[p] : k.id = l.id => k = l
    BY <2>1, AcceptedVersionsCurrent, AcceptedVersionsType DEF Typing
  <2>3. \A k \in planned'[p] : NoNewer(k)
    BY <2>2 DEF NoNewer, Typing, TypeOK, Version
  <2>4. \A k \in planned'[p], l \in applied : l.id = k.id => l.updated_at <= k.updated_at
    BY <2>2 DEF Current, Versions, NoNewer
  <2>5. PlannedWell(p)
    BY <2>2, <2>3, <2>4 DEF PlannedWell
  <2>6. GoesOn(p)
    BY <2>1 DEF GoesOn, service
  <2> QED BY <2>5, <2>6, StepCurrent
<1>5. ASSUME NEW p \in Procs, Recall(p) PROVE Current'
  <2>1. /\ pc[p] = "recalling" /\ pc'[p] = "pushing"
        /\ \A q \in Procs : q # p => pc'[q] = pc[q]
        /\ UNCHANGED <<ledger, service, planned, outcomes, waitsFor, undisturbed, reviews>>
    BY <1>5 DEF Recall, Typing, TypeOK
  <2>2. GoesOn(p)
    BY <2>1 DEF GoesOn, service
  <2> QED BY <2>1, <2>2, StepCurrent, PlannedKept
<1>6. ASSUME NEW p \in Procs, Skip(p) \/ MissCredentials(p) PROVE Current'
  <2>1. /\ pc[p] = "pushing" /\ \A q \in Procs : q # p => outcomes'[q] = outcomes[q]
        /\ UNCHANGED <<ledger, service, pc, planned, waitsFor, undisturbed, reviews>>
    BY <1>6 DEF Skip, MissCredentials, Settle, Typing, TypeOK
  <2>2. GoesOn(p)
    BY <2>1 DEF GoesOn, service
  <2> QED BY <2>1, <2>2, StepCurrent, PlannedKept
<1>7. ASSUME NEW p \in Procs, Push(p) PROVE Current'
  <2>1. PICK k \in planned[p] : Send(p, k, 1)
    BY <1>7 DEF Push, Remaining
  <2>2. /\ pc[p] = "pushing" /\ pc'[p] = "awaiting"
        /\ waitsFor'[p].key = k /\ \A r \in net' : r \in net \/ r.key = k
        /\ \A q \in Procs : q # p => pc'[q] = pc[q] /\ waitsFor'[q] = waitsFor[q]
        /\ UNCHANGED <<ledger, applied, remote, planned, outcomes, undisturbed, reviews>>
    BY <1>7, <2>1 DEF Push, Send, Typing, TypeOK
  <2>3. GoesOn(p)
    BY <2>1, <2>2 DEF GoesOn
  <2> QED BY <2>2, <2>3, StepCurrent, PlannedKept
<1>8. ASSUME NEW p \in Procs, pc[p] = "awaiting", NEW status, Conclude(p, status),
             UNCHANGED <<ledger, service, planned, undisturbed, reviews>>
      PROVE  Current'
  <2>1. /\ pc'[p] = "pushing"
        /\ \A q \in Procs : q # p => /\ pc'[q] = pc[q] /\ waitsFor'[q] = waitsFor[q]
                                     /\ outcomes'[q] = outcomes[q]
    BY <1>8 DEF Conclude, Settle, Typing, TypeOK
  <2>2. GoesOn(p)
    BY <1>8, <2>1 DEF GoesOn, service
  <2> QED BY <1>8, <2>2, StepCurrent, PlannedKept
<1>9. ASSUME NEW p \in Procs, Unavailable(p) PROVE Current'
  <2>1. CASE Send(p, waitsFor[p].key, waitsFor[p].n + 1) /\ UNCHANGED <<pc, outcomes>>
    <3>1. waitsFor[p].key \in planned[p] /\ pc[p] = "awaiting"
      BY <1>9 DEF Unavailable, Current, Versions
    <3>2. /\ waitsFor'[p].key = waitsFor[p].key
          /\ \A r \in net' : r \in net \/ r.key = waitsFor[p].key
          /\ \A q \in Procs : q # p => waitsFor'[q] = waitsFor[q]
          /\ UNCHANGED <<ledger, applied, remote, planned, undisturbed, reviews>>
      BY <1>9, <2>1 DEF Unavailable, Send, Typing, TypeOK
    <3>3. GoesOn(p)
      BY <2>1, <3>1, <3>2 DEF GoesOn
    <3> QED BY <3>2, <3>3, StepCurrent, PlannedKept
  <2>2. CASE Conclude(p, "failed") /\ UNCHANGED net
    BY <1>8, <1>9, <2>2 DEF Unavailable, service
  <2> QED BY <1>9, <2>1, <2>2 DEF Unavailable, Retry
<1>10. ASSUME NEW p \in Procs, Succeed(p) \/ GiveUp(p) PROVE Current'
  BY <1>8, <1>10 DEF Succeed, GiveUp
<1>11. ASSUME NEW p \in Procs, FinishPushing(p) PROVE Current'
  <2>1. /\ pc[p] = "pushing" /\ pc'[p] = "logging" /\ Remaining(p) = {}
        /\ \A q \in Procs : q # p => pc'[q] = pc[q]
        /\ UNCHANGED <<ledger, service, planned, outcomes, waitsFor, undisturbed, reviews>>
    BY <1>11 DEF FinishPushing, Typing, TypeOK, plan
  <2>2. Remaining(p)' = {}
    BY <2>1 DEF Remaining
  <2>3. GoesOn(p)
    BY <2>1, <2>2 DEF GoesOn, service
  <2> QED BY <2>1, <2>3, StepCurrent, PlannedKept
<1>12. ASSUME NEW r \in net, Store(r) PROVE Current'
  <2> DEFINE k == r.key
  <2>1. /\ k \in Version /\ k.id \in Ids /\ k.updated_at \in Nat
        /\ k = [id |-> k.id, updated_at |-> k.updated_at] /\ NoNewer(k)
    BY DEF Typing, TypeOK, Request, Version, Current, Versions
  <2>2. /\ UNCHANGED <<ledger, pc, planned, outcomes, waitsFor, undisturbed, reviews>>
        /\ net' = net \ {r} /\ applied' = applied \cup {k}
        /\ remote' = IF k \in applied THEN remote
                     ELSE [remote EXCEPT ![k.id] = k.updated_at]
    BY <1>12 DEF Store, plan
  <2>3. \A id \in Ids : \/ remote'[id] = remote[id]
                        \/ id = k.id /\ remote'[id] = k.updated_at
    BY <2>1, <2>2 DEF Typing, TypeOK
  <2>4. Versions'
    BY <2>1, <2>2, <2>3 DEF Current, Versions, NoNewer, Remaining
  <2>5. ASSUME NEW q \in Procs, undisturbed'[q] PROVE Alone(q)'
    <3>1. Alone(q)
      BY <2>2, <2>5 DEF Current, AloneWhenUndisturbed
    <3>2. k \in planned[q]
      BY <3>1 DEF Alone
    <3>3. \A l \in applied : l.id = k.id => l.updated_at <= k.updated_at
      BY <3>1, <3>2 DEF Alone
    <3>4. NewestShown'
      BY <2>1, <2>2, <3>1, <3>3 DEF Alone, NewestShown, Typing, TypeOK, Version
    <3>5. \A x \in planned[q] : x.id = k.id => x = k
      BY <3>2 DEF Current, Versions
    <3> QED BY <2>1, <2>2, <3>1, <3>4, <3>5 DEF Alone
  <2> QED BY <2>4, <2>5 DEF Current, AloneWhenUndisturbed
<1>13. ASSUME NEW r \in net, Lose(r) PROVE Current'
  BY <1>13 DEF Lose, Current, Versions, NoNewer, Remaining, AloneWhenUndisturbed, Alone,
               NewestShown, plan
<1>14. ASSUME NEW id \in Ids, NEW status \in Statuses, ReviewRecord(id, status)
       PROVE  Current'
  <2>1. UNCHANGED <<service, pc, planned, outcomes, waitsFor, undisturbed>>
    BY <1>14 DEF ReviewRecord, plan
  <2>2. /\ \A x \in Ids : ledger[x].updated_at <= ledger'[x].updated_at
        /\ \A x \in Ids : ledger[x].updated_at \in Nat /\ ledger'[x].updated_at \in Nat
        /\ \A x \in Ids : ledger'[x].updated_at <= reviews' + 1
    BY <1>14 DEF ReviewRecord, Typing, TypeOK, Current, Versions
  <2>3. \A k \in Version : NoNewer(k) => NoNewer(k)'
    BY <2>2 DEF NoNewer, Version
  <2>4. Versions'
    <3>1. /\ applied \subseteq Version /\ \A r \in net : r.key \in Version
          /\ \A p \in Procs : planned[p] \subseteq Version
      BY DEF Typing, TypeOK, Request
    <3> QED BY <2>1, <2>2, <2>3, <3>1 DEF Current, Versions, Remaining, service
  <2> QED BY <2>1, <2>4
       DEF Current, AloneWhenUndisturbed, Alone, NewestShown, service
<1>15. CASE UNCHANGED vars
  BY <1>15 DEF vars, service, plan, Current, Versions, NoNewer, Remaining,
               AloneWhenUndisturbed, Alone, NewestShown
<1> QED
  BY <1>1, <1>2, <1>3, <1>4, <1>5, <1>6, <1>7, <1>9, <1>10, <1>11, <1>12, <1>13,
     <1>14, <1>15 DEF Next, ProcessStep, AllDone

\* A sync in which nothing fails leaves the service with exactly the versions it
\* planned, for any number of records, syncs and retries, provided that no other sync
\* runs beside it, no earlier request is under way, and none has come so late that the
\* service shows an older version than it was given (createLiveIdempotencyKey).
THEOREM CleanSyncLeavesCurrent == Spec => []CleanSyncIsCurrent
<1>1. ASSUME Typing, Delivered, Current, NEW p \in Procs, pc[p] = "logging", undisturbed[p],
             \A o \in outcomes[p] : o.status # "failed", NEW k \in planned[p]
      PROVE  remote[k.id] = k.updated_at
  <2>1. k \in applied
    <3>1. PICK o \in outcomes[p] : o.key = k
      BY <1>1 DEF Current, Versions, Remaining
    <3>2. o.status \in {"succeeded", "skipped"}
      BY <1>1, <3>1 DEF Typing, TypeOK, Outcome
    <3> QED BY <1>1, <3>1, <3>2 DEF Delivered, Synced
  <2>2. k.id \in Ids /\ k.updated_at \in Nat /\ remote[k.id] \in Nat
    BY <1>1 DEF Typing, TypeOK, Version
  <2>3. k.updated_at <= remote[k.id]
    BY <1>1, <2>1 DEF Current, AloneWhenUndisturbed, Alone, NewestShown
  <2>4. remote[k.id] <= k.updated_at
    <3>1. CASE remote[k.id] = 0
      BY <2>2, <3>1
    <3>2. CASE [id |-> k.id, updated_at |-> remote[k.id]] \in applied
      BY <1>1, <3>2 DEF Current, AloneWhenUndisturbed, Alone
    <3> QED BY <1>1, <2>2, <3>1, <3>2 DEF Current, Versions
  <2> QED BY <2>2, <2>3, <2>4
<1>2. Typing /\ Delivered /\ Current => CleanSyncIsCurrent
  BY <1>1 DEF CleanSyncIsCurrent
<1> QED
  BY <1>2, TypingInit, TypingNext, DeliveredInit, DeliveredNext, CurrentInit, CurrentNext, PTL
     DEF Spec
===============================================================================
