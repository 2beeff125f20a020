------------------------- MODULE ReadSurfaces_proofs -------------------------
(***************************************************************************)
(* Theorems about ReadSurfaces, for any readers, records, requests, files  *)
(* and bounds: types, that content was allowed, that a context is clean    *)
(* and that a timeline covers its record.                                  *)
(***************************************************************************)
EXTENDS ReadSurfaces, SequenceTheorems, TLAPS

Logged == [ids : SUBSET Ids, status : Statuses \cup {Missing}, at : Instants]

-----------------------------------------------------------------------------
(* What a read answers *)

LEMMA AnswerType ==
  ASSUME NEW kind \in {"content", "blocked", "denied", "failed", "none"},
         NEW ids \in SUBSET Ids, NEW warned \in SUBSET Ids
  PROVE  /\ Answer(kind, ids, warned) \in Answers
         /\ Answer(kind, ids, warned).kind = kind
         /\ Answer(kind, ids, warned).ids = ids
         /\ Answer(kind, ids, warned).warned = warned
         /\ Answer(kind, ids, warned).status = Missing
  BY DEF Answer, Answers

LEMMA RecordedType == Recorded \subseteq Ids
  BY DEF Recorded

LEMMA AcceptedType == ASSUME NEW d PROVE Accepted(d) \subseteq Ids
  BY RecordedType DEF Accepted

LEMMA WarnedType == ASSUME NEW ids \in SUBSET Ids PROVE Warned(ids) \subseteq ids
  BY DEF Warned, ScanWarnings

LEMMA LinkedType == ASSUME NEW id \in Ids PROVE Linked(id) \subseteq Ids
  BY ReadSurfacesAssumption DEF ReadSurfacesAssumption, Linked

\* An answer from the ledger is content, a block or a failure, and shows no status.
LEMMA LedgerAnswerType ==
  ASSUME NEW q \in ReadRequest, q.surface # "record_history"
  PROVE  /\ AnswerFromLedger(q) \in Answers
         /\ AnswerFromLedger(q).status = Missing
  <1>1. q.surface \in Surfaces \ {"record_history"}
    BY DEF ReadRequest
  <1>2. AnswerContext(q) \in Answers /\ AnswerContext(q).status = Missing
    <2> DEFINE accepted == Accepted(q.dest)
               shown == {id \in accepted : (q.scopes = {} \/ Scope[id] \in q.scopes)
                                           /\ Kept(q, id)}
               told == IF Constrained(q) THEN {} ELSE Warned(accepted)
               warned == Warned(IF Constrained(q) THEN shown ELSE accepted)
    <2>1. accepted \in SUBSET Ids /\ shown \in SUBSET Ids
      BY AcceptedType
    <2>2. told \in SUBSET Ids /\ warned \in SUBSET Ids
      <3> HIDE DEF accepted, shown
      <3> QED BY <2>1, WarnedType
    <2>3. /\ Answer("blocked", {}, told) \in Answers
          /\ Answer("blocked", {}, told).status = Missing
          /\ Answer("content", shown, warned) \in Answers
          /\ Answer("content", shown, warned).status = Missing
      <3> HIDE DEF told, warned, shown
      <3> QED BY <2>1, <2>2, AnswerType
    <2>4. AnswerContext(q) = IF HasIssues(accepted) THEN Answer("blocked", {}, told)
                             ELSE Answer("content", shown, warned)
      BY DEF AnswerContext
    <2> HIDE DEF told, warned, shown, accepted
    <2> QED BY <2>3, <2>4
  <1>3. AnswerPreview(q) \in Answers /\ AnswerPreview(q).status = Missing
    BY AcceptedType, WarnedType, AnswerType DEF AnswerPreview
  <1>4. AnswerStatus(q) \in Answers /\ AnswerStatus(q).status = Missing
    <2> DEFINE accepted == UNION {Accepted(d) : d \in Destinations(q)}
    <2>1. accepted \in SUBSET Ids
      BY AcceptedType
    <2>2. AnswerStatus(q) = Answer("content", accepted, Warned(accepted))
      BY DEF AnswerStatus
    <2> HIDE DEF accepted
    <2> QED BY <2>1, <2>2, WarnedType, AnswerType
  <1>5. AnswerList(q) \in Answers /\ AnswerList(q).status = Missing
    BY RecordedType, AnswerType DEF AnswerList
  <1>6. AnswerRecord(q) \in Answers /\ AnswerRecord(q).status = Missing
    BY AnswerType DEF AnswerRecord, ReadRequest
  <1>7. AnswerReview(q) \in Answers /\ AnswerReview(q).status = Missing
    <2> DEFINE linking(id) == {o \in Recorded : id \in Linked(o)}
               around(id) == {id} \cup Linked(id) \cup linking(id)
               all == UNION {around(id) : id \in q.ids}
               known == \A id \in q.ids : {id} \cup Linked(id) \subseteq Recorded
    <2>1. known => all \in SUBSET Ids
      BY RecordedType
    <2>2. AnswerReview(q) = IF known THEN Answer("content", all, {})
                            ELSE Answer("failed", {}, {})
      BY DEF AnswerReview
    <2> HIDE DEF all, known
    <2> QED BY <2>1, <2>2, AnswerType
  <1>8. /\ Answer("content", Recorded, {}) \in Answers
        /\ Answer("content", Recorded, {}).status = Missing
    BY RecordedType, AnswerType
  <1> QED BY <1>1, <1>2, <1>3, <1>4, <1>5, <1>6, <1>7, <1>8
          DEF AnswerFromLedger, Surfaces, Governed

-----------------------------------------------------------------------------
(* Types *)

ReadState ==
    [pc : {"idle", "authorizing", "verifying", "reading", "recalling"},
     q : ReadRequest \cup {Missing}, held : ReadPolicies \cup {Absent}, answer : Answers]

InForce == [policies : SUBSET ReadPolicies, stores : SUBSET PrincipalStores]

LEMMA IdleType == Idle \in ReadState /\ Idle.pc = "idle" /\ Idle.answer.kind = "none"
  BY AnswerType DEF Idle, ReadState, NoAnswer

LEMMA NoneInForceType == NoneInForce \in InForce
  BY DEF NoneInForce, InForce

LEMMA Bounds ==
  /\ MaxTime \in Nat /\ MaxChanges \in Nat /\ 0 \in Instants /\ 0 \in 0 .. MaxChanges
  /\ Len(Order) \in Nat /\ \A i \in 1 .. Len(Order) : Order[i] \in Ids
  <1>1. MaxTime \in Nat /\ MaxChanges \in Nat /\ Order \in Seq(Ids)
    BY ReadSurfacesAssumption DEF ReadSurfacesAssumption
  <1>2. Len(Order) \in Nat /\ \A i \in 1 .. Len(Order) : Order[i] \in Ids
    BY <1>1
  <1> QED BY <1>1, <1>2 DEF Instants

LEMMA InitTyping == Init => TypeOK
  <1> SUFFICES ASSUME Init PROVE TypeOK
    OBVIOUS
  <1> USE DEF Init
  <1>1. PICK n \in 0 .. Len(Order) :
           \E first \in [1 .. n -> {"pending", "accepted"}] :
              /\ log = [i \in 1 .. n |-> [ids |-> {Order[i]}, status |-> first[i], at |-> 0]]
              /\ ledger = [id \in Ids |->
                     IF \E i \in 1 .. n : Order[i] = id
                     THEN [status |-> first[CHOOSE i \in 1 .. n : Order[i] = id], at |-> 0]
                     ELSE Missing]
    OBVIOUS
  <1>2. PICK first \in [1 .. n -> {"pending", "accepted"}] :
              /\ log = [i \in 1 .. n |-> [ids |-> {Order[i]}, status |-> first[i], at |-> 0]]
              /\ ledger = [id \in Ids |->
                     IF \E i \in 1 .. n : Order[i] = id
                     THEN [status |-> first[CHOOSE i \in 1 .. n : Order[i] = id], at |-> 0]
                     ELSE Missing]
    BY <1>1
  <1>3. n \in Nat /\ 0 \in Instants /\ \A i \in 1 .. n : Order[i] \in Ids
    <2> HIDE DEF Init
    <2> QED BY Bounds
  <1>4. \A i \in 1 .. n : [ids |-> {Order[i]}, status |-> first[i], at |-> 0] \in Logged
    BY <1>2, <1>3 DEF Logged, Statuses
  <1>5. log \in Seq(Logged)
    BY <1>2, <1>3, <1>4, IsASeq
  <1>6. ledger \in [Ids -> Entry \cup {Missing}]
    <2>1. \A i \in 1 .. n : [status |-> first[i], at |-> 0] \in Entry
      BY <1>2, <1>3 DEF Entry, Statuses
    <2>2. \A id \in Ids : (\E i \in 1 .. n : Order[i] = id)
             => (CHOOSE i \in 1 .. n : Order[i] = id) \in 1 .. n
      OBVIOUS
    <2> QED BY <1>2, <2>1, <2>2
  <1>7. reads \in [Readers -> ReadState] /\ \A r \in Readers : reads[r].pc = "idle"
    BY IdleType
  <1>8. inForce \in [Readers -> InForce]
    BY NoneInForceType
  <1>9. changes \in 0 .. MaxChanges
    BY Bounds
  <1> QED BY <1>5, <1>6, <1>7, <1>8, <1>9 DEF TypeOK, ReadState, InForce, Logged

\* A read that returns leaves a read at rest, with its answer.
LEMMA ReturnType ==
  ASSUME TypeOK, NEW r \in Readers, NEW answer \in Answers, Return(r, answer)
  PROVE  /\ reads' \in [Readers -> ReadState] /\ inForce' \in [Readers -> InForce]
         /\ reads'[r].pc = "idle" /\ reads'[r].answer = answer
         /\ \A o \in Readers : o # r => reads'[o] = reads[o]
         /\ \A o \in Readers : reads'[o].pc # "idle" =>
               o # r /\ reads'[o] = reads[o] /\ inForce'[o] = inForce[o]
  <1> DEFINE rest == [Idle EXCEPT !.answer = answer]
  <1>1. rest \in ReadState /\ rest.pc = "idle" /\ rest.answer = answer
    BY IdleType DEF Idle, ReadState
  <1>2. reads \in [Readers -> ReadState] /\ inForce \in [Readers -> InForce]
    BY DEF TypeOK, ReadState, InForce
  <1>3. reads' = [reads EXCEPT ![r] = rest] /\ inForce' = [inForce EXCEPT ![r] = NoneInForce]
    BY DEF Return
  <1> HIDE DEF rest
  <1> QED BY <1>1, <1>2, <1>3, NoneInForceType

\* A read that takes a step keeps all but its place.
LEMMA StepType ==
  ASSUME TypeOK, NEW r \in Readers, NEW pc \in {"reading", "verifying"},
         NEW held \in ReadPolicies \cup {Absent}, reads[r].pc # "idle",
         \/ reads' = [reads EXCEPT ![r].pc = pc, ![r].held = held]
         \/ reads' = [reads EXCEPT ![r].pc = pc] /\ held = reads[r].held
  PROVE  /\ reads' \in [Readers -> ReadState]
         /\ reads'[r].pc = pc /\ reads'[r].q = reads[r].q /\ reads'[r].held = held
         /\ reads'[r].answer = reads[r].answer /\ reads[r].q \in ReadRequest
         /\ \A o \in Readers : o # r => reads'[o] = reads[o]
  BY DEF TypeOK, ReadState

LEMMA AskType ==
  ASSUME TypeOK, NEW r \in Readers, NEW q \in ReadRequest
  PROVE  /\ Effective(q) \in ReadRequest
         /\ Effective(q).surface = q.surface /\ Effective(q).dest = q.dest
         /\ Effective(q).ids = q.ids /\ Effective(q).auth = q.auth
         /\ Effective(q).constraint = q.constraint
         /\ Effective(q).scopes = IF Constrained(q) /\ q.scopes = {}
                                  THEN q.constraint.allowed ELSE q.scopes
  <1>1. CASE Constrained(q) /\ q.scopes = {}
    <2>1. q.constraint \in Constraints
      BY <1>1 DEF Constrained, ReadRequest
    <2>2. q.constraint.allowed \in SUBSET Scopes
      BY <2>1 DEF Constraints
    <2>3. Effective(q) = [q EXCEPT !.scopes = q.constraint.allowed]
      BY <1>1 DEF Effective
    <2> HIDE DEF Constrained
    <2> QED BY <1>1, <2>2, <2>3 DEF ReadRequest
  <1>2. CASE ~(Constrained(q) /\ q.scopes = {})
    BY <1>2 DEF Effective, ReadRequest
  <1> QED BY <1>1, <1>2

\* The log keeps its events.
Grows ==
    /\ log' \in Seq(Logged)
    /\ \A i \in DOMAIN log : i \in DOMAIN log' /\ log'[i] = log[i]

\* And those that a step adds are of the instant t.
GrowsAt(t) == Grows /\ \A i \in DOMAIN log' \ DOMAIN log : log'[i].at = t

LEMMA AppendGrows ==
  ASSUME NEW s \in Seq(Logged), NEW e \in Logged
  PROVE  /\ Append(s, e) \in Seq(Logged)
         /\ DOMAIN Append(s, e) = DOMAIN s \cup {Len(s) + 1}
         /\ \A i \in DOMAIN s : Append(s, e)[i] = s[i]
         /\ Append(s, e)[Len(s) + 1] = e
         /\ Len(s) + 1 \notin DOMAIN s
  <1>1. /\ Append(s, e) \in Seq(Logged) /\ Len(Append(s, e)) = Len(s) + 1
        /\ \A i \in 1 .. Len(s) : Append(s, e)[i] = s[i]
        /\ Append(s, e)[Len(s) + 1] = e
    BY AppendProperties
  <1>2. Len(s) \in Nat /\ DOMAIN s = 1 .. Len(s)
    BY LenProperties
  <1>3. DOMAIN Append(s, e) = 1 .. Len(s) + 1
    BY <1>1, LenProperties
  <1>4. 1 .. Len(s) + 1 = 1 .. Len(s) \cup {Len(s) + 1} /\ Len(s) + 1 \notin 1 .. Len(s)
    BY <1>2
  <1> QED BY <1>1, <1>2, <1>3, <1>4

LEMMA EventGrows ==
  ASSUME TypeOK, NEW id \in Ids, NEW status \in Statuses, AppendEvent(id, status)
  PROVE  /\ GrowsAt(now)
         /\ \E i \in DOMAIN log' :
               log'[i] = [ids |-> {id}, status |-> status, at |-> now]
  <1> DEFINE event == [ids |-> {id}, status |-> status, at |-> now]
  <1>1. event \in Logged /\ event.at = now
    BY DEF TypeOK, Logged
  <1>2. log \in Seq(Logged)
    BY DEF TypeOK, Logged
  <1>3. log' = Append(log, event)
    BY DEF AppendEvent
  <1> HIDE DEF event
  <1>4. GrowsAt(now) /\ \E i \in DOMAIN log' : log'[i] = event
    BY <1>1, <1>2, <1>3, AppendGrows DEF Grows, GrowsAt
  <1> QED BY <1>4 DEF event

LEMMA ReportGrows ==
  ASSUME TypeOK, NEW ids \in SUBSET Ids, AppendReport(ids)
  PROVE  GrowsAt(now)
  <1> DEFINE event == [ids |-> ids, status |-> Missing, at |-> now]
  <1>1. event \in Logged /\ event.at = now
    BY DEF TypeOK, Logged
  <1>2. log \in Seq(Logged)
    BY DEF TypeOK, Logged
  <1>3. log' = Append(log, event)
    BY DEF AppendReport
  <1> HIDE DEF event
  <1> QED BY <1>1, <1>2, <1>3, AppendGrows DEF Grows, GrowsAt

LEMMA ResolutionGrows ==
  ASSUME TypeOK, AppendResolution
  PROVE  GrowsAt(unwritten.record.at)
  <1>1. unwritten.id \in Ids /\ unwritten.record.at \in Instants
    BY DEF TypeOK, Entry, AppendResolution
  <1>2. Resolution \in Logged /\ Resolution.at = unwritten.record.at
    BY <1>1 DEF Resolution, Logged
  <1>3. log \in Seq(Logged) /\ log' = Append(log, Resolution)
    BY DEF TypeOK, Logged, AppendResolution
  <1> QED BY <1>2, <1>3, AppendGrows DEF Grows, GrowsAt

\* Whatever else happens leaves the log as it is.
Quiet ==
    \/ \E r \in Readers : ReadStep(r) \/ \E q \in Requests : Ask(r, q)
    \/ WriteLedger \/ WriterDies
    \/ \E p \in ReadPolicies : EditReadPolicy(p)
    \/ \E s \in PrincipalStores : EditPrincipals(s)
    \/ Tick \/ SetClockBack \/ UNCHANGED vars

LEMMA QuietKeepsLog == Quiet => log' = log
  BY DEF Quiet, ReadStep, Ask, LoadReadPolicy, Authorize, ReadLedger, ReadHistoryRecord,
         ReadTimeline, ReadFails, StoreUnchanged, WriteLedger, WriterDies, EditReadPolicy,
         EditPrincipals, Tick, SetClockBack, vars

LEMMA StepCases ==
  [Next]_vars => \/ Quiet
                 \/ \E id \in Ids, status \in Statuses : AppendEvent(id, status)
                 \/ \E ids \in SUBSET Ids : AppendReport(ids)
                 \/ AppendResolution
  BY AcceptedType DEF Next, Quiet

LEMMA LogGrows ==
  ASSUME TypeOK, [Next]_vars
  PROVE  /\ Grows
         /\ GrowsAt(now) \/ (AppendResolution /\ GrowsAt(unwritten.record.at))
  <1>1. ASSUME log' = log PROVE GrowsAt(now)
    BY <1>1 DEF TypeOK, Grows, GrowsAt, Logged
  <1>2. GrowsAt(now) \/ (AppendResolution /\ GrowsAt(unwritten.record.at))
    BY <1>1, StepCases, QuietKeepsLog, EventGrows, ReportGrows, ResolutionGrows
  <1> QED BY <1>2 DEF GrowsAt

\* TypeOK by its parts.
StoreTyped ==
    /\ now \in Instants /\ setBack \in BOOLEAN
    /\ ledger \in [Ids -> Entry \cup {Missing}]
    /\ unwritten \in [id : Ids, record : Entry, resolving : BOOLEAN] \cup {Missing}
    /\ policy \in ReadPolicies /\ principals \in PrincipalStores
    /\ changes \in 0 .. MaxChanges

ReadsTyped ==
    /\ reads \in [Readers -> ReadState] /\ inForce \in [Readers -> InForce]
    /\ \A r \in Readers : reads[r].pc # "idle" => reads[r].q \in ReadRequest

LEMMA TypeParts == TypeOK <=> StoreTyped /\ ReadsTyped /\ log \in Seq(Logged)
  BY DEF TypeOK, StoreTyped, ReadsTyped, ReadState, InForce, Logged

LEMMA ChangeType == ASSUME TypeOK, Change PROVE changes' \in 0 .. MaxChanges
  <1>1. changes \in 0 .. MaxChanges /\ MaxChanges \in Nat
    BY Bounds DEF TypeOK
  <1> QED BY <1>1 DEF Change

LEMMA StoreTyping == ASSUME TypeOK, [Next]_vars PROVE StoreTyped'
  <1> USE DEF StoreTyped
  <1>1. StoreTyped
    BY TypeParts
  <1>2. ASSUME StoreUnchanged PROVE StoreTyped'
    BY <1>1, <1>2 DEF StoreUnchanged
  <1>3. ASSUME NEW r \in Readers, ReadStep(r) \/ \E q \in Requests : Ask(r, q) PROVE StoreTyped'
    BY <1>2, <1>3 DEF ReadStep, LoadReadPolicy, Authorize, ReadLedger, ReadHistoryRecord,
                      ReadTimeline, ReadFails, Ask
  <1>4. ASSUME NEW id \in Ids, NEW status \in Statuses, AppendEvent(id, status)
        PROVE  StoreTyped'
    <2>1. Unwritten(id, status) \in [id : Ids, record : Entry, resolving : BOOLEAN]
      BY <1>1 DEF Entry, Unwritten
    <2> QED BY <1>1, <1>4, <2>1, ChangeType DEF AppendEvent
  <1>5. ASSUME NEW ids \in SUBSET Ids, AppendReport(ids) PROVE StoreTyped'
    BY <1>1, <1>5, ChangeType DEF AppendReport
  <1>6. CASE WriteLedger
    BY <1>1, <1>6 DEF WriteLedger
  <1>7. CASE WriterDies
    BY <1>1, <1>7 DEF WriterDies
  <1>8. ASSUME NEW p \in ReadPolicies, EditReadPolicy(p) PROVE StoreTyped'
    BY <1>1, <1>8, ChangeType DEF EditReadPolicy
  <1>9. ASSUME NEW s \in PrincipalStores, EditPrincipals(s) PROVE StoreTyped'
    BY <1>1, <1>9, ChangeType DEF EditPrincipals
  <1>10. CASE Tick
    <2>1. now' \in Instants
      <3>1. now \in Instants /\ MaxTime \in Nat /\ now < MaxTime /\ now' = now + 1
        BY <1>1, <1>10, Bounds DEF Tick
      <3> HIDE DEF StoreTyped
      <3> QED BY <3>1 DEF Instants
    <2> QED BY <1>1, <1>10, <2>1, ChangeType DEF Tick
  <1>11. CASE SetClockBack
    <2>1. now' \in Instants
      <3>1. now \in Instants /\ MaxTime \in Nat /\ now > 0 /\ now' = now - 1
        BY <1>1, <1>11, Bounds DEF SetClockBack
      <3> HIDE DEF StoreTyped
      <3> QED BY <3>1 DEF Instants
    <2> QED BY <1>1, <1>11, <2>1, ChangeType DEF SetClockBack
  <1>12. CASE UNCHANGED vars
    BY <1>1, <1>12 DEF vars
  <1>13. CASE AppendResolution
    BY <1>1, <1>13 DEF AppendResolution
  <1> QED BY <1>3, <1>4, <1>5, <1>6, <1>7, <1>8, <1>9, <1>10, <1>11, <1>12, <1>13,
             StepCases
          DEF Quiet

ShownEvents == [at : Instants, place : Nat, status : Statuses \cup {Missing}]

LEMMA TimelineType ==
  ASSUME TypeOK, NEW ids
  PROVE  {[at |-> log[i].at, place |-> i, status |-> log[i].status] :
             i \in {i \in DOMAIN log : ids \subseteq log[i].ids}} \in SUBSET ShownEvents
  <1>1. log \in Seq(Logged)
    BY TypeParts
  <1>2. \A i \in DOMAIN log : i \in Nat /\ log[i] \in Logged
    BY <1>1, LenProperties
  <1> QED BY <1>2 DEF Logged, ShownEvents

\* TypeOK is not inductive by itself: a timeline is of one record.
OneRecord ==
    \A r \in Readers :
        reads[r].pc # "idle" /\ reads[r].q.surface = "record_history"
        => \E id \in Ids : reads[r].q.ids = {id}

LEMMA ReadTyping ==
  ASSUME TypeOK, OneRecord, NEW r \in Readers, ReadStep(r) \/ \E q \in Requests : Ask(r, q)
  PROVE  ReadsTyped'
  <1>1. ReadsTyped
    BY TypeParts
  <1>2. ASSUME NEW answer \in Answers, Return(r, answer) PROVE ReadsTyped'
    BY <1>1, <1>2, ReturnType DEF ReadsTyped
  <1>3. ASSUME NEW pc \in {"reading", "verifying"}, NEW held \in ReadPolicies \cup {Absent},
               reads[r].pc # "idle", inForce' = inForce,
               \/ reads' = [reads EXCEPT ![r].pc = pc, ![r].held = held]
               \/ reads' = [reads EXCEPT ![r].pc = pc] /\ held = reads[r].held
        PROVE  ReadsTyped'
    BY <1>1, <1>3, StepType DEF ReadsTyped
  <1>4. ASSUME NEW kind \in {"content", "blocked", "denied", "failed"},
               Return(r, Answer(kind, {}, {}))
        PROVE  ReadsTyped'
    BY <1>2, <1>4, AnswerType
  <1>5. reads[r].held \in ReadPolicies \cup {Absent}
    BY <1>1 DEF ReadsTyped, ReadState
  <1>6. CASE LoadReadPolicy(r)
    <2>1. policy \in ReadPolicies /\ ParsedPolicy(policy) \in {policy, Malformed}
      BY DEF TypeOK, ParsedPolicy
    <2> QED BY <1>3, <1>4, <1>5, <1>6, <2>1 DEF LoadReadPolicy, Step
  <1>7. CASE Authorize(r)
    BY <1>3, <1>4, <1>5, <1>7 DEF Authorize, Step
  <1>8. CASE ReadLedger(r)
    BY <1>1, <1>2, <1>8, LedgerAnswerType DEF ReadLedger, ReadsTyped
  <1>9. CASE ReadHistoryRecord(r)
    <2>1. CASE ~(reads[r].q.ids \subseteq Recorded)
      BY <1>4, <1>9, <2>1 DEF ReadHistoryRecord
    <2>2. CASE reads[r].q.ids \subseteq Recorded
      <3> DEFINE id == CHOOSE i \in reads[r].q.ids : TRUE
      <3>1. /\ reads' = [reads EXCEPT ![r].pc = "recalling", ![r].answer.ids = {id},
                                      ![r].answer.status = ledger[id]]
            /\ inForce' = inForce
        BY <1>9, <2>2 DEF ReadHistoryRecord
      <3>2. id \in Ids /\ ledger[id] \in Entry \cup {Missing}
        <4>1. PICK i \in Ids : reads[r].q.ids = {i}
          BY <1>9 DEF ReadHistoryRecord, OneRecord
        <4> QED BY <4>1 DEF TypeOK
      <3> HIDE DEF id
      <3> QED BY <1>1, <1>9, <3>1, <3>2 DEF ReadHistoryRecord, ReadsTyped, ReadState, Answers
    <2> QED BY <2>1, <2>2
  <1>10. CASE ReadTimeline(r)
    <2> DEFINE events == {[at |-> log[i].at, place |-> i, status |-> log[i].status] :
                             i \in {i \in DOMAIN log : reads[r].q.ids \subseteq log[i].ids}}
               answer == [reads[r].answer EXCEPT !.kind = "content", !.events = events]
    <2>1. events \in SUBSET ShownEvents
      BY TimelineType
    <2>2. Return(r, answer)
      BY <1>10 DEF ReadTimeline
    <2>3. answer \in Answers
      <3> HIDE DEF events
      <3>1. reads[r].answer \in Answers
        BY <1>1 DEF ReadsTyped, ReadState
      <3> QED BY <2>1, <3>1 DEF Answers, ShownEvents
    <2> HIDE DEF answer
    <2> QED BY <1>2, <2>2, <2>3
  <1>11. CASE ReadFails(r)
    <2>1. [reads[r].answer EXCEPT !.kind = "incomplete"] \in Answers
      <3>1. reads[r].answer \in Answers
        BY <1>1 DEF ReadsTyped, ReadState
      <3> QED BY <3>1 DEF Answers
    <2> QED BY <1>2, <1>4, <1>11, <2>1 DEF ReadFails
  <1>12. ASSUME NEW q \in Requests, Ask(r, q) PROVE ReadsTyped'
    <2>1. q \in ReadRequest
      BY ReadSurfacesAssumption DEF ReadSurfacesAssumption
    <2>2. CASE ConstraintFails(q)
      BY <1>4, <1>12, <2>2 DEF Ask
    <2>3. CASE ~ConstraintFails(q)
      <3> DEFINE begun == [Idle EXCEPT !.q = Effective(q),
                                       !.pc = IF q.surface \in Governed THEN "authorizing"
                                              ELSE "reading"]
                 files == [policies |-> {policy}, stores |-> {principals}]
      <3>1. Effective(q) \in ReadRequest
        BY <2>1, AskType
      <3>2. begun \in ReadState /\ begun.q \in ReadRequest
        BY <3>1, IdleType DEF ReadState, Idle
      <3>3. files \in InForce
        BY DEF InForce, TypeOK
      <3>4. reads' = [reads EXCEPT ![r] = begun] /\ inForce' = [inForce EXCEPT ![r] = files]
        BY <1>12, <2>3 DEF Ask
      <3> HIDE DEF begun, files
      <3> QED BY <1>1, <3>2, <3>3, <3>4 DEF ReadsTyped
    <2> QED BY <2>2, <2>3
  <1> QED BY <1>6, <1>7, <1>8, <1>9, <1>10, <1>11, <1>12 DEF ReadStep

LEMMA OtherTyping ==
  ASSUME TypeOK, [Next]_vars,
         ~\E r \in Readers : ReadStep(r) \/ \E q \in Requests : Ask(r, q)
  PROVE  ReadsTyped' /\ reads' = reads
  <1>1. ReadsTyped
    BY TypeParts
  <1>2. reads' = reads
    BY StepCases DEF Quiet, AppendEvent, AppendReport, AppendResolution, WriteLedger,
          WriterDies, EditReadPolicy, EditPrincipals, Tick, SetClockBack, vars
  <1>3. CASE inForce' = inForce
    BY <1>1, <1>2, <1>3 DEF ReadsTyped
  <1>4. ASSUME NEW p \in ReadPolicies, EditReadPolicy(p) PROVE ReadsTyped'
    <2>1. inForce' \in [Readers -> InForce]
      BY <1>1, <1>4 DEF EditReadPolicy, ReadsTyped, InForce
    <2> QED BY <1>1, <1>2, <2>1 DEF ReadsTyped
  <1>5. ASSUME NEW s \in PrincipalStores, EditPrincipals(s) PROVE ReadsTyped'
    <2>1. inForce' \in [Readers -> InForce]
      BY <1>1, <1>5 DEF EditPrincipals, ReadsTyped, InForce
    <2> QED BY <1>1, <1>2, <2>1 DEF ReadsTyped
  <1>6. \/ inForce' = inForce \/ \E p \in ReadPolicies : EditReadPolicy(p)
        \/ \E s \in PrincipalStores : EditPrincipals(s)
    BY StepCases DEF Quiet, AppendEvent, AppendReport, AppendResolution, WriteLedger,
          WriterDies, Tick,
          SetClockBack, vars
  <1> QED BY <1>2, <1>3, <1>4, <1>5, <1>6

\* A read is asked for, goes on with the same request or returns.
LEMMA ReadGoesOn ==
  ASSUME TypeOK, NEW r \in Readers, ReadStep(r) \/ \E q \in Requests : Ask(r, q)
  PROVE  /\ \A o \in Readers : o # r => reads'[o] = reads[o] /\ inForce'[o] = inForce[o]
         /\ \/ reads'[r].pc = "idle"
            \/ /\ reads[r].pc # "idle" /\ reads'[r].q = reads[r].q
               /\ inForce' = inForce
            \/ /\ reads[r].pc = "idle"
               /\ \E q \in Requests : Ask(r, q) /\ reads'[r].q = Effective(q) /\ ~ConstraintFails(q)
  <1>1. ReadsTyped
    BY TypeParts
  <1>2. ASSUME NEW answer, Return(r, answer)
        PROVE  /\ reads'[r].pc = "idle"
               /\ \A o \in Readers : o # r => reads'[o] = reads[o] /\ inForce'[o] = inForce[o]
    <2> DEFINE rest == [Idle EXCEPT !.answer = answer]
    <2>1. rest.pc = "idle"
      BY DEF Idle
    <2>2. reads' = [reads EXCEPT ![r] = rest] /\ inForce' = [inForce EXCEPT ![r] = NoneInForce]
      BY <1>2 DEF Return
    <2> HIDE DEF rest
    <2> QED BY <1>1, <2>1, <2>2 DEF ReadsTyped
  <1>3. ASSUME NEW q \in Requests, Ask(r, q), ~ConstraintFails(q)
        PROVE  /\ reads'[r].q = Effective(q)
               /\ \A o \in Readers : o # r => reads'[o] = reads[o] /\ inForce'[o] = inForce[o]
    <2> DEFINE begun == [Idle EXCEPT !.q = Effective(q),
                                     !.pc = IF q.surface \in Governed THEN "authorizing"
                                            ELSE "reading"]
    <2>1. begun.q = Effective(q)
      BY DEF Idle
    <2>2. /\ reads' = [reads EXCEPT ![r] = begun]
          /\ inForce' = [inForce EXCEPT ![r] = [policies |-> {policy}, stores |-> {principals}]]
      BY <1>3 DEF Ask
    <2> HIDE DEF begun
    <2> QED BY <1>1, <2>1, <2>2 DEF ReadsTyped
  <1>4. ASSUME NEW q \in Requests, Ask(r, q)
        PROVE  reads[r].pc = "idle" /\ (ConstraintFails(q) => \E answer : Return(r, answer))
    BY <1>4 DEF Ask
  <1>5. ASSUME ReadStep(r)
        PROVE  \/ \E answer : Return(r, answer)
               \/ /\ reads[r].pc # "idle" /\ reads'[r].q = reads[r].q /\ inForce' = inForce
                  /\ \A o \in Readers : o # r => reads'[o] = reads[o]
    <2>1. ASSUME NEW pc, reads[r].pc # "idle", Step(r, pc)
          PROVE  /\ reads'[r].q = reads[r].q /\ inForce' = inForce
                 /\ \A o \in Readers : o # r => reads'[o] = reads[o]
      BY <1>1, <2>1 DEF Step, ReadsTyped, ReadState
    <2>2. CASE LoadReadPolicy(r)
      <3>1. reads[r].pc # "idle"
        BY <2>2 DEF LoadReadPolicy
      <3>2. \/ Step(r, "reading") \/ Return(r, Answer("denied", {}, {}))
            \/ /\ reads' = [reads EXCEPT ![r].pc = "verifying", ![r].held = ParsedPolicy(policy)]
               /\ inForce' = inForce
        BY <2>2 DEF LoadReadPolicy
      <3> QED BY <1>1, <2>1, <3>1, <3>2 DEF ReadsTyped, ReadState
    <2>3. CASE Authorize(r)
      BY <2>1, <2>3 DEF Authorize
    <2>4. CASE ReadHistoryRecord(r)
      <3>1. reads[r].pc # "idle"
        BY <2>4 DEF ReadHistoryRecord
      <3>2. \/ Return(r, Answer("failed", {}, {}))
            \/ \E id : /\ reads' = [reads EXCEPT ![r].pc = "recalling", ![r].answer.ids = {id},
                                                 ![r].answer.status = ledger[id]]
                       /\ inForce' = inForce
        BY <2>4 DEF ReadHistoryRecord
      <3> QED BY <1>1, <3>1, <3>2 DEF ReadsTyped, ReadState
    <2>5. CASE ReadLedger(r) \/ ReadTimeline(r) \/ ReadFails(r)
      BY <2>5 DEF ReadLedger, ReadTimeline, ReadFails
    <2> QED BY <1>5, <2>2, <2>3, <2>4, <2>5 DEF ReadStep
  <1> QED BY <1>2, <1>3, <1>4, <1>5

LEMMA OneRecordStep == ASSUME TypeOK, OneRecord, [Next]_vars PROVE OneRecord'
  <1>1. ASSUME NEW r \in Readers, ReadStep(r) \/ \E q \in Requests : Ask(r, q)
        PROVE  OneRecord'
    <2>1. ASSUME NEW q \in Requests
          PROVE  /\ Effective(q).surface = q.surface /\ Effective(q).ids = q.ids
                 /\ q.surface = "record_history" => \E id \in Ids : q.ids = {id}
      BY <1>1, AskType, ReadSurfacesAssumption DEF ReadSurfacesAssumption
    <2> QED BY <1>1, <2>1, ReadGoesOn DEF OneRecord
  <1>2. CASE reads' = reads
    BY <1>2 DEF OneRecord
  <1> QED BY <1>1, <1>2, OtherTyping

\* Every step keeps the types (TypeOK).
THEOREM TypeCorrect == Spec => [](TypeOK /\ OneRecord)
  <1>1. Init => TypeOK /\ OneRecord
    <2>1. Init => \A r \in Readers : reads[r].pc = "idle"
      BY DEF Init, Idle
    <2> QED BY <2>1, InitTyping DEF OneRecord
  <1>2. TypeOK /\ OneRecord /\ [Next]_vars => TypeOK' /\ OneRecord'
    <2> SUFFICES ASSUME TypeOK, OneRecord, [Next]_vars PROVE TypeOK' /\ OneRecord'
      OBVIOUS
    <2>1. ReadsTyped'
      BY ReadTyping, OtherTyping
    <2>2. TypeOK' <=> StoreTyped' /\ ReadsTyped' /\ log' \in Seq(Logged)
      BY DEF TypeOK, StoreTyped, ReadsTyped, ReadState, InForce, Logged
    <2> QED BY <2>1, <2>2, StoreTyping, ReadTyping, LogGrows, OneRecordStep DEF Grows
  <1> QED BY <1>1, <1>2, PTL DEF Spec

-----------------------------------------------------------------------------
(* A timeline covers its record *)

(* an event of these records that brought them to this entry *)
CoveredBy(events, ids, entry) ==
    \E i \in DOMAIN events : /\ ids \subseteq events[i].ids
                             /\ events[i].status = entry.status /\ events[i].at = entry.at

\* What is in the ledger, or about to be, is in the log.
LedgerCovered ==
    /\ \A id \in Ids : ledger[id] # Missing => CoveredBy(log, {id}, ledger[id])
    /\ unwritten # Missing => CoveredBy(log, {unwritten.id}, unwritten.record)

\* Until the clock is set back, the log is in the order of time and behind the clock,
\* and ends with the change that is being written.
InOrder ==
    ~setBack => /\ \A i, j \in DOMAIN log : i < j => log[i].at <= log[j].at
                /\ \A i \in DOMAIN log : log[i].at <= now
                /\ unwritten # Missing =>
                      \A i \in DOMAIN log : log[i].at <= unwritten.record.at

\* A read under way has answered nothing, and what it recalls is in the log.
Recalls ==
    \A r \in Readers :
        reads[r].pc # "idle" =>
        /\ reads[r].answer.kind = "none"
        /\ reads[r].pc # "recalling" => reads[r].answer.status = Missing
        /\ reads[r].answer.status # Missing
           => CoveredBy(log, reads[r].q.ids, reads[r].answer.status)

LEMMA CoverStays ==
  ASSUME Grows, NEW ids, NEW entry, CoveredBy(log, ids, entry)
  PROVE  CoveredBy(log', ids, entry)
  BY DEF Grows, CoveredBy

(* the log and the ledger that Init finds *)
Found(n, first) ==
    /\ log = [i \in 1 .. n |-> [ids |-> {Order[i]}, status |-> first[i], at |-> 0]]
    /\ ledger = [id \in Ids |->
           IF \E i \in 1 .. n : Order[i] = id
           THEN [status |-> first[CHOOSE i \in 1 .. n : Order[i] = id], at |-> 0]
           ELSE Missing]

LEMMA LedgerCoveredInit == Init => LedgerCovered
  <1> SUFFICES ASSUME Init PROVE LedgerCovered
    OBVIOUS
  <1>a. \E n \in 0 .. Len(Order) : \E first \in [1 .. n -> {"pending", "accepted"}] :
           Found(n, first)
    BY DEF Init, Found
  <1>b. PICK n \in 0 .. Len(Order) :
           \E first \in [1 .. n -> {"pending", "accepted"}] : Found(n, first)
    BY <1>a
  <1>c. PICK first \in [1 .. n -> {"pending", "accepted"}] : Found(n, first)
    BY <1>b
  <1>1. Found(n, first)
    BY <1>c
  <1> USE DEF Found
  <1>2. ASSUME NEW id \in Ids, ledger[id] # Missing PROVE CoveredBy(log, {id}, ledger[id])
    <2> DEFINE k == CHOOSE i \in 1 .. n : Order[i] = id
    <2>1. k \in 1 .. n /\ Order[k] = id /\ ledger[id] = [status |-> first[k], at |-> 0]
      BY <1>1, <1>2
    <2>2. log[k] = [ids |-> {id}, status |-> first[k], at |-> 0] /\ k \in DOMAIN log
      BY <1>1, <2>1
    <2> HIDE DEF k
    <2> QED BY <2>1, <2>2 DEF CoveredBy
  <1>3. unwritten = Missing
    BY DEF Init
  <1> QED BY <1>2, <1>3 DEF LedgerCovered

LEMMA LedgerCoveredStep ==
  ASSUME TypeOK, LedgerCovered, [Next]_vars
  PROVE  LedgerCovered'
  <1>1. Grows /\ StoreTyped
    BY LogGrows, TypeParts
  <1>2. CASE ledger' = ledger /\ unwritten' \in {unwritten, Missing}
    BY <1>1, <1>2, CoverStays DEF LedgerCovered
  <1>3. ASSUME NEW id \in Ids, NEW status \in Statuses, AppendEvent(id, status)
        PROVE  LedgerCovered'
    <2>1. /\ ledger' = ledger
          /\ unwritten'.id = id /\ unwritten'.record = [status |-> status, at |-> now]
      BY <1>3 DEF AppendEvent, Unwritten
    <2>2. CoveredBy(log', {id}, [status |-> status, at |-> now])
      BY <1>3, EventGrows DEF CoveredBy
    <2> QED BY <1>1, <2>1, <2>2, CoverStays DEF LedgerCovered
  <1>4. CASE WriteLedger
    <2>1. /\ unwritten \in [id : Ids, record : Entry, resolving : BOOLEAN]
          /\ ledger' = [ledger EXCEPT ![unwritten.id] = unwritten.record]
          /\ unwritten' = Missing
      BY <1>1, <1>4 DEF WriteLedger, StoreTyped
    <2>2. CoveredBy(log', {unwritten.id}, unwritten.record)
      BY <1>1, <1>4, CoverStays DEF LedgerCovered, WriteLedger
    <2>3. ASSUME NEW id \in Ids, ledger'[id] # Missing
          PROVE  CoveredBy(log', {id}, ledger'[id])
      BY <1>1, <2>1, <2>2, <2>3, CoverStays DEF LedgerCovered, StoreTyped
    <2> QED BY <2>1, <2>3 DEF LedgerCovered
  <1>5. CASE AppendResolution
    <2>1. /\ ledger' = ledger /\ unwritten # Missing
          /\ unwritten'.id = unwritten.id /\ unwritten'.record = unwritten.record
      BY <1>5, <1>1 DEF AppendResolution, StoreTyped
    <2> QED BY <1>1, <2>1, CoverStays DEF LedgerCovered
  <1>6. \/ ledger' = ledger /\ unwritten' \in {unwritten, Missing}
        \/ WriteLedger \/ AppendResolution
        \/ \E id \in Ids, status \in Statuses : AppendEvent(id, status)
    BY StepCases DEF Quiet, ReadStep, Ask, LoadReadPolicy, Authorize, ReadLedger,
          ReadHistoryRecord, ReadTimeline, ReadFails, StoreUnchanged, WriterDies,
          EditReadPolicy, EditPrincipals, Tick, SetClockBack, AppendReport, vars
  <1> QED BY <1>2, <1>3, <1>4, <1>5, <1>6

\* The clock stands still when events are appended, and only one action sets it back.
LEMMA ClockSteps ==
  ASSUME TypeOK, [Next]_vars
  PROVE  /\ now' = now \/ log' = log
         /\ setBack => setBack'
         /\ ~setBack' => now <= now'
  <1>1. now \in Instants /\ now' \in Instants
    BY StoreTyping, TypeParts DEF StoreTyped
  <1>2. now \in Int /\ now' \in Int
    BY <1>1 DEF Instants
  <1>3. CASE SetClockBack
    BY <1>3 DEF SetClockBack
  <1>4. CASE Tick
    <2>1. now' = now + 1 /\ log' = log /\ setBack' = setBack
      BY <1>4 DEF Tick
    <2>2. now <= now'
      BY <1>2, <2>1
    <2> QED BY <2>1, <2>2
  <1>5. CASE now' = now /\ setBack' = setBack
    <2>1. now <= now'
      BY <1>2, <1>5
    <2> QED BY <1>5, <2>1
  <1>6. SetClockBack \/ Tick \/ (now' = now /\ setBack' = setBack)
    BY StepCases DEF Quiet, ReadStep, Ask, LoadReadPolicy, Authorize, ReadLedger,
          ReadHistoryRecord, ReadTimeline, ReadFails, StoreUnchanged, WriteLedger, WriterDies,
          EditReadPolicy, EditPrincipals, AppendEvent, AppendReport, AppendResolution,
          vars
  <1> QED BY <1>3, <1>4, <1>5, <1>6

LEMMA LogTimes ==
  ASSUME TypeOK
  PROVE  /\ now \in Int /\ \A i \in DOMAIN log : i \in Int /\ log[i].at \in Int
         /\ \A j \in DOMAIN log : \A i \in Nat \ {0} : i < j => i \in DOMAIN log
  <1>1. now \in Instants /\ log \in Seq(Logged)
    BY TypeParts DEF StoreTyped
  <1>2. \A i \in DOMAIN log : log[i] \in Logged
    BY <1>1
  <1>3. Len(log) \in Nat /\ DOMAIN log = 1 .. Len(log)
    BY <1>1, LenProperties
  <1>4. \A i \in DOMAIN log : log[i].at \in Instants
    BY <1>2 DEF Logged
  <1> QED BY <1>1, <1>3, <1>4 DEF Instants

\* A change is written with the time of its event, and nothing else is appended before.
LEMMA WriterSteps ==
  ASSUME TypeOK, [Next]_vars
  PROVE  \/ unwritten' = Missing
         \/ /\ unwritten # Missing /\ unwritten'.record = unwritten.record
            /\ log' = log \/ AppendResolution
         \/ /\ unwritten = Missing /\ unwritten'.record.at = now
  <1>1. CASE AppendResolution
    <2>1. unwritten \in [id : Ids, record : Entry, resolving : BOOLEAN]
      BY <1>1, TypeParts DEF AppendResolution, StoreTyped
    <2> QED BY <1>1, <2>1 DEF AppendResolution
  <1>2. ASSUME NEW id \in Ids, NEW status \in Statuses, AppendEvent(id, status)
        PROVE  unwritten = Missing /\ unwritten'.record.at = now
    BY <1>2 DEF AppendEvent, Unwritten
  <1>3. ASSUME NEW ids \in SUBSET Ids, AppendReport(ids) PROVE unwritten' = Missing
    BY <1>3 DEF AppendReport
  <1>4. ASSUME Quiet PROVE log' = log /\ unwritten' \in {unwritten, Missing}
    BY <1>4, QuietKeepsLog DEF Quiet, ReadStep, Ask, LoadReadPolicy, Authorize, ReadLedger,
          ReadHistoryRecord, ReadTimeline, ReadFails, StoreUnchanged, WriteLedger, WriterDies,
          EditReadPolicy, EditPrincipals, Tick, SetClockBack, vars
  <1> QED BY <1>1, <1>2, <1>3, <1>4, StepCases

LEMMA InOrderStep ==
  ASSUME TypeOK, TypeOK', LedgerCovered, InOrder, [Next]_vars
  PROVE  InOrder'
  <1> SUFFICES ASSUME ~setBack'
               PROVE  /\ \A i, j \in DOMAIN log' : i < j => log'[i].at <= log'[j].at
                      /\ \A i \in DOMAIN log' : log'[i].at <= now'
                      /\ unwritten' # Missing =>
                            \A i \in DOMAIN log' : log'[i].at <= unwritten'.record.at
    BY DEF InOrder
  <1>1. /\ Grows /\ (now' = now \/ log' = log) /\ now <= now' /\ ~setBack
        /\ GrowsAt(now) \/ (AppendResolution /\ GrowsAt(unwritten.record.at))
    BY LogGrows, ClockSteps
  <1>2. /\ \A i, j \in DOMAIN log : i < j => log[i].at <= log[j].at
        /\ \A i \in DOMAIN log : log[i].at <= now
        /\ unwritten # Missing => \A i \in DOMAIN log : log[i].at <= unwritten.record.at
    BY <1>1 DEF InOrder
  <1>3. /\ now \in Int /\ \A i \in DOMAIN log : i \in Int /\ log[i].at \in Int
        /\ \A j \in DOMAIN log : \A i \in Nat \ {0} : i < j => i \in DOMAIN log
    BY LogTimes
  <1>4. /\ now' \in Int
        /\ \A i \in DOMAIN log' : i \in Nat \ {0} /\ log'[i].at \in Int
    <2>1. now' \in Instants /\ log' \in Seq(Logged)
      BY DEF TypeOK, Logged
    <2>2. \A i \in DOMAIN log' : log'[i] \in Logged
      BY <2>1
    <2>3. DOMAIN log' = 1 .. Len(log') /\ Len(log') \in Nat
      BY <2>1, LenProperties
    <2>4. \A i \in DOMAIN log' : log'[i].at \in Instants
      BY <2>2 DEF Logged
    <2> QED BY <2>1, <2>3, <2>4 DEF Instants
  <1>5. PICK t \in Int : /\ \A i \in DOMAIN log' \ DOMAIN log : log'[i].at = t
                         /\ \A i \in DOMAIN log : log[i].at <= t
                         /\ t <= now
                         /\ AppendResolution => t = unwritten.record.at
    <2>1. CASE AppendResolution
      <3>1. unwritten # Missing
        BY <2>1 DEF AppendResolution
      <3>2. \E i \in DOMAIN log : log[i].at = unwritten.record.at
        BY <3>1 DEF LedgerCovered, CoveredBy
      <3>3. unwritten.record.at \in Int /\ unwritten.record.at <= now
        BY <1>2, <1>3, <3>2
      <3>4. GrowsAt(unwritten.record.at)
        BY <2>1, ResolutionGrows
      <3> QED BY <1>2, <3>1, <3>3, <3>4 DEF GrowsAt
    <2>2. CASE ~AppendResolution
      BY <1>1, <1>2, <1>3, <2>2 DEF GrowsAt
    <2> QED BY <2>1, <2>2
  <1>6. \A i \in DOMAIN log : i \in DOMAIN log' /\ log'[i] = log[i]
    BY <1>1 DEF Grows
  <1>7. ASSUME NEW i \in DOMAIN log'
        PROVE  log'[i].at <= t /\ log'[i].at <= now /\ log'[i].at <= now'
    <2>1. log'[i].at <= t
      BY <1>3, <1>4, <1>5, <1>6
    <2> QED BY <1>1, <1>3, <1>4, <1>5, <2>1
  <1>8. ASSUME NEW i \in DOMAIN log', NEW j \in DOMAIN log', i < j
        PROVE  log'[i].at <= log'[j].at
    <2>1. CASE j \in DOMAIN log
      BY <1>2, <1>3, <1>4, <1>6, <1>8, <2>1
    <2>2. CASE j \notin DOMAIN log
      BY <1>5, <1>7, <2>2
    <2> QED BY <2>1, <2>2
  <1>9. ASSUME unwritten' # Missing, NEW i \in DOMAIN log'
        PROVE  log'[i].at <= unwritten'.record.at
    <2>1. CASE unwritten = Missing
      <3>1. unwritten'.record.at = now
        BY <1>9, <2>1, WriterSteps
      <3> QED BY <1>7, <3>1
    <2>2. CASE unwritten # Missing
      <3>1. unwritten'.record = unwritten.record /\ (log' = log \/ AppendResolution)
        BY <1>9, <2>2, WriterSteps
      <3>2. CASE log' = log
        BY <1>2, <2>2, <3>1, <3>2
      <3>3. CASE AppendResolution
        BY <1>5, <1>7, <3>1, <3>3
      <3> QED BY <3>1, <3>2, <3>3
    <2> QED BY <2>1, <2>2
  <1> QED BY <1>7, <1>8, <1>9

(* what a read at rest has answered *)
AnswerCovers(answer, back) ==
    answer.kind = "content" /\ answer.status # Missing
    => /\ \E e \in answer.events : e.status = answer.status.status
                                   /\ e.at = answer.status.at
       /\ ~back => \A e, f \in answer.events : e.place < f.place => e.at <= f.at

LEMMA PlainAnswerCovers ==
  ASSUME NEW answer, NEW back, answer.kind # "content" \/ answer.status = Missing
  PROVE  AnswerCovers(answer, back)
  BY DEF AnswerCovers

LEMMA TimelineCovers ==
  ASSUME TypeOK, OneRecord, Recalls, InOrder, NEW r \in Readers, ReadTimeline(r)
  PROVE  AnswerCovers(reads'[r].answer, setBack)
  <1> DEFINE places == {i \in DOMAIN log : reads[r].q.ids \subseteq log[i].ids}
             events == {[at |-> log[i].at, place |-> i, status |-> log[i].status] :
                           i \in places}
             answer == [reads[r].answer EXCEPT !.kind = "content", !.events = events]
  <1>1. reads[r].answer \in Answers /\ reads \in [Readers -> ReadState]
    BY TypeParts DEF ReadsTyped, ReadState
  <1>2. reads'[r].answer = answer
    <2> DEFINE rest == [Idle EXCEPT !.answer = answer]
    <2>1. reads' = [reads EXCEPT ![r] = rest]
      BY DEF ReadTimeline, Return
    <2>2. rest.answer = answer
      <3> HIDE DEF answer
      <3> QED BY DEF Idle
    <2> HIDE DEF rest
    <2> QED BY <1>1, <2>1, <2>2
  <1>3. answer.status = reads[r].answer.status /\ answer.events = events
    <2> HIDE DEF events
    <2> QED BY <1>1 DEF Answers
  <1>4. ASSUME answer.status # Missing
        PROVE  \E e \in events : e.status = answer.status.status /\ e.at = answer.status.at
    <2>1. CoveredBy(log, reads[r].q.ids, reads[r].answer.status)
      BY <1>3, <1>4 DEF Recalls, ReadTimeline
    <2>2. PICK i \in places : /\ log[i].status = reads[r].answer.status.status
                              /\ log[i].at = reads[r].answer.status.at
      BY <2>1 DEF CoveredBy
    <2>3. [at |-> log[i].at, place |-> i, status |-> log[i].status] \in events
      OBVIOUS
    <2> HIDE DEF events, answer
    <2> QED BY <1>3, <2>2, <2>3
  <1>5. ASSUME ~setBack, NEW e \in events, NEW f \in events, e.place < f.place
        PROVE  e.at <= f.at
    <2>1. PICK i \in DOMAIN log : e.place = i /\ e.at = log[i].at
      OBVIOUS
    <2>2. PICK j \in DOMAIN log : f.place = j /\ f.at = log[j].at
      OBVIOUS
    <2> HIDE DEF events, answer
    <2> QED BY <1>5, <2>1, <2>2 DEF InOrder
  <1> HIDE DEF events, answer
  <1> QED BY <1>2, <1>3, <1>4, <1>5 DEF AnswerCovers

\* How each step leaves the answer of its read.
LEMMA ReadRecalls ==
  ASSUME TypeOK, OneRecord, LedgerCovered, Recalls, InOrder, TimelineCoversRecord,
         NEW r \in Readers, ReadStep(r) \/ \E q \in Requests : Ask(r, q)
  PROVE  /\ reads'[r].pc # "idle" =>
               /\ reads'[r].answer.kind = "none"
               /\ reads'[r].pc # "recalling" => reads'[r].answer.status = Missing
               /\ reads'[r].answer.status # Missing
                  => CoveredBy(log, reads'[r].q.ids, reads'[r].answer.status)
         /\ AnswerCovers(reads'[r].answer, setBack)
  <1>1. ReadsTyped
    BY TypeParts
  <1>2. ASSUME NEW answer \in Answers, Return(r, answer), AnswerCovers(answer, setBack)
        PROVE  reads'[r].pc = "idle" /\ AnswerCovers(reads'[r].answer, setBack)
    BY <1>2, ReturnType
  <1>3. ASSUME NEW kind \in {"content", "blocked", "denied", "failed"},
               Return(r, Answer(kind, {}, {}))
        PROVE  reads'[r].pc = "idle" /\ AnswerCovers(reads'[r].answer, setBack)
    BY <1>2, <1>3, AnswerType, PlainAnswerCovers
  <1>4. ASSUME NEW pc \in {"reading", "verifying"}, NEW held \in ReadPolicies \cup {Absent},
               reads[r].pc \in {"authorizing", "verifying"},
               \/ reads' = [reads EXCEPT ![r].pc = pc, ![r].held = held]
               \/ reads' = [reads EXCEPT ![r].pc = pc] /\ held = reads[r].held
        PROVE  /\ reads'[r].answer.kind = "none" /\ reads'[r].answer.status = Missing
               /\ AnswerCovers(reads'[r].answer, setBack)
    <2>1. reads'[r].answer = reads[r].answer
      BY <1>4, StepType
    <2>2. reads[r].answer.kind = "none" /\ reads[r].answer.status = Missing
      BY <1>4 DEF Recalls
    <2> QED BY <2>1, <2>2, PlainAnswerCovers
  <1>5. reads[r].held \in ReadPolicies \cup {Absent}
    BY <1>1 DEF ReadsTyped, ReadState
  <1>6. CASE LoadReadPolicy(r)
    <2>1. policy \in ReadPolicies /\ ParsedPolicy(policy) \in {policy, Malformed}
      BY DEF TypeOK, ParsedPolicy
    <2>2. \/ Return(r, Answer("denied", {}, {}))
          \/ reads' = [reads EXCEPT ![r].pc = "reading"]
          \/ /\ reads' = [reads EXCEPT ![r].pc = "verifying", ![r].held = ParsedPolicy(policy)]
             /\ ParsedPolicy(policy) # Malformed
      BY <1>6 DEF LoadReadPolicy, Step
    <2>3. reads[r].pc = "authorizing"
      BY <1>6 DEF LoadReadPolicy
    <2> QED BY <1>3, <1>4, <1>5, <2>1, <2>2, <2>3
  <1>7. CASE Authorize(r)
    <2>1. \/ Return(r, Answer("denied", {}, {}))
          \/ reads' = [reads EXCEPT ![r].pc = "reading"]
      BY <1>7 DEF Authorize, Step
    <2>2. reads[r].pc = "verifying"
      BY <1>7 DEF Authorize
    <2> QED BY <1>3, <1>4, <1>5, <2>1, <2>2
  <1>8. CASE ReadLedger(r)
    BY <1>1, <1>2, <1>8, LedgerAnswerType, PlainAnswerCovers DEF ReadLedger, ReadsTyped
  <1>9. CASE ReadHistoryRecord(r)
    <2>1. CASE ~(reads[r].q.ids \subseteq Recorded)
      BY <1>3, <1>9, <2>1 DEF ReadHistoryRecord
    <2>2. CASE reads[r].q.ids \subseteq Recorded
      <3> DEFINE id == CHOOSE i \in reads[r].q.ids : TRUE
      <3>1. reads' = [reads EXCEPT ![r].pc = "recalling", ![r].answer.ids = {id},
                                   ![r].answer.status = ledger[id]]
        BY <1>9, <2>2 DEF ReadHistoryRecord
      <3>2. id \in Ids /\ reads[r].q.ids = {id}
        <4>1. PICK i \in Ids : reads[r].q.ids = {i}
          BY <1>9 DEF ReadHistoryRecord, OneRecord
        <4> QED BY <4>1
      <3>3. reads[r].answer.kind = "none" /\ reads[r].answer \in Answers
        BY <1>1, <1>9 DEF Recalls, ReadHistoryRecord, ReadsTyped, ReadState
      <3> HIDE DEF id
      <3>4. /\ reads'[r].q = reads[r].q /\ reads'[r].answer.kind = "none"
            /\ reads'[r].pc = "recalling" /\ reads'[r].answer.status = ledger[id]
        BY <1>1, <3>1, <3>3 DEF ReadsTyped, ReadState, Answers
      <3>5. ledger[id] # Missing => CoveredBy(log, {id}, ledger[id])
        BY <3>2 DEF LedgerCovered
      <3> QED BY <3>2, <3>4, <3>5, PlainAnswerCovers
    <2> QED BY <2>1, <2>2
  <1>10. CASE ReadTimeline(r)
    <2>1. reads'[r].pc = "idle"
      <3> DEFINE rest(answer) == [Idle EXCEPT !.answer = answer]
      <3>1. \A answer : rest(answer).pc = "idle"
        BY DEF Idle
      <3>2. \E answer : reads' = [reads EXCEPT ![r] = rest(answer)]
        BY <1>10 DEF ReadTimeline, Return
      <3> HIDE DEF rest
      <3> QED BY <1>1, <3>1, <3>2 DEF ReadsTyped
    <2> QED BY <1>10, <2>1, TimelineCovers
  <1>11. CASE ReadFails(r)
    <2> DEFINE answer == [reads[r].answer EXCEPT !.kind = "incomplete"]
    <2>1. answer \in Answers /\ answer.kind = "incomplete"
      <3>1. reads[r].answer \in Answers
        BY <1>1 DEF ReadsTyped, ReadState
      <3> QED BY <3>1 DEF Answers
    <2>2. \/ Return(r, Answer("blocked", {}, {})) \/ Return(r, Answer("failed", {}, {}))
          \/ Return(r, answer)
      BY <1>11 DEF ReadFails
    <2> HIDE DEF answer
    <2> QED BY <1>2, <1>3, <2>1, <2>2, PlainAnswerCovers
  <1>12. ASSUME NEW q \in Requests, Ask(r, q)
         PROVE  \/ reads'[r].pc = "idle" /\ AnswerCovers(reads'[r].answer, setBack)
                \/ /\ reads'[r].answer.kind = "none" /\ reads'[r].answer.status = Missing
                   /\ AnswerCovers(reads'[r].answer, setBack)
    <2>1. CASE ConstraintFails(q)
      BY <1>3, <1>12, <2>1 DEF Ask
    <2>2. CASE ~ConstraintFails(q)
      <3> DEFINE begun == [Idle EXCEPT !.q = Effective(q),
                                       !.pc = IF q.surface \in Governed THEN "authorizing"
                                              ELSE "reading"]
      <3>1. begun.answer = NoAnswer
        BY DEF Idle
      <3>2. NoAnswer.kind = "none" /\ NoAnswer.status = Missing
        BY DEF NoAnswer, Answer
      <3>3. reads' = [reads EXCEPT ![r] = begun]
        BY <1>12, <2>2 DEF Ask
      <3> HIDE DEF begun
      <3>4. reads'[r].answer = NoAnswer
        BY <1>1, <3>1, <3>3 DEF ReadsTyped
      <3> QED BY <3>2, <3>4, PlainAnswerCovers
    <2> QED BY <2>1, <2>2
  <1> QED BY <1>6, <1>7, <1>8, <1>9, <1>10, <1>11, <1>12 DEF ReadStep

TimelineInv == LedgerCovered /\ InOrder /\ Recalls /\ TimelineCoversRecord

LEMMA TimelineInit == Init => TimelineInv
  <1> SUFFICES ASSUME Init PROVE TimelineInv
    OBVIOUS
  <1>1. \A r \in Readers : reads[r] = Idle
    BY DEF Init
  <1>2. Idle.pc = "idle" /\ Idle.answer.kind = "none"
    BY IdleType
  <1>3. Recalls /\ TimelineCoversRecord
    BY <1>1, <1>2 DEF Recalls, TimelineCoversRecord
  <1>4. InOrder
    <2>1. now \in Instants /\ \A i \in DOMAIN log : log[i].at = 0
      BY DEF Init
    <2>2. 0 <= now
      BY <2>1 DEF Instants
    <2>3. unwritten = Missing
      BY DEF Init
    <2> QED BY <2>1, <2>2, <2>3 DEF InOrder
  <1> QED BY <1>3, <1>4, LedgerCoveredInit DEF TimelineInv

LEMMA TimelineStep ==
  ASSUME TypeOK, TypeOK', OneRecord, TimelineInv, [Next]_vars
  PROVE  TimelineInv'
  <1>1. LedgerCovered' /\ InOrder' /\ Grows
    BY LedgerCoveredStep, InOrderStep, LogGrows DEF TimelineInv
  <1>2. ASSUME NEW r \in Readers, ReadStep(r) \/ \E q \in Requests : Ask(r, q)
        PROVE  Recalls' /\ TimelineCoversRecord'
    <2>1. log' = log /\ setBack' = setBack
      BY <1>2 DEF ReadStep, Ask, LoadReadPolicy, Authorize, ReadLedger, ReadHistoryRecord,
             ReadTimeline, ReadFails, StoreUnchanged
    <2>2. \A o \in Readers : o # r => reads'[o] = reads[o]
      BY <1>2, ReadGoesOn
    <2>3. /\ reads'[r].pc # "idle" =>
                 /\ reads'[r].answer.kind = "none"
                 /\ reads'[r].pc # "recalling" => reads'[r].answer.status = Missing
                 /\ reads'[r].answer.status # Missing
                    => CoveredBy(log, reads'[r].q.ids, reads'[r].answer.status)
          /\ AnswerCovers(reads'[r].answer, setBack)
      BY <1>2, ReadRecalls DEF TimelineInv
    <2>4. \A o \in Readers : AnswerCovers(reads'[o].answer, setBack')
      BY <2>1, <2>2, <2>3 DEF TimelineInv, TimelineCoversRecord, AnswerCovers
    <2>5. Recalls'
      BY <2>1, <2>2, <2>3 DEF TimelineInv, Recalls
    <2> QED BY <2>4, <2>5 DEF TimelineCoversRecord, AnswerCovers
  <1>3. CASE reads' = reads
    <2>1. setBack => setBack'
      BY ClockSteps
    <2>2. Recalls'
      BY <1>1, <1>3, CoverStays DEF TimelineInv, Recalls
    <2>3. TimelineCoversRecord'
      BY <1>3, <2>1 DEF TimelineInv, TimelineCoversRecord
    <2> QED BY <1>1, <2>2, <2>3 DEF TimelineInv
  <1> QED BY <1>1, <1>2, <1>3, OtherTyping DEF TimelineInv

\* A timeline holds the event behind the status shown with it, in the order of time
\* (TimelineCoversRecord).
THEOREM TimelineCovered == Spec => []TimelineCoversRecord
  <1>1. Init => TimelineInv
    BY TimelineInit
  <1>2. TypeOK /\ TypeOK' /\ OneRecord /\ TimelineInv /\ [Next]_vars => TimelineInv'
    BY TimelineStep
  <1>3. TimelineInv => TimelineCoversRecord
    BY DEF TimelineInv
  <1> QED BY <1>1, <1>2, <1>3, TypeCorrect, PTL DEF Spec

-----------------------------------------------------------------------------
(* Content was allowed *)

\* The files in force now are among those since a read began, what it holds is one of
\* the policies, and a constraint has given its scopes.
Access ==
    \A r \in Readers :
        reads[r].pc # "idle" =>
        /\ policy \in inForce[r].policies /\ principals \in inForce[r].stores
        /\ reads[r].pc = "verifying" =>
              /\ reads[r].held \in inForce[r].policies
              /\ ParsedPolicy(reads[r].held) \notin {Absent, Malformed}
              /\ reads[r].q.auth # Nobody
        /\ Constrained(reads[r].q) =>
              /\ reads[r].q.scopes # {}
              /\ reads[r].q.scopes \subseteq reads[r].q.constraint.allowed

(* what ContentWasAllowed says of one read *)
Allowed(q, files) ==
    q.surface \in Governed
    => \/ Absent \in files.policies
       \/ /\ q.auth # Nobody
          /\ \E p \in files.policies : /\ ParsedPolicy(p) \notin {Absent, Malformed}
                                       /\ EvaluateReadPolicy(p, q, q.auth.principal)
          /\ \E s \in files.stores : Verified(s, q)

LEMMA AllowedReads ==
  ContentWasAllowed <=>
  \A r \in Readers : reads[r].pc \in {"reading", "recalling"} => Allowed(reads[r].q, inForce[r])
  BY DEF ContentWasAllowed, Allowed

LEMMA ParsedIsFile ==
  ASSUME NEW file, ParsedPolicy(file) # Malformed
  PROVE  ParsedPolicy(file) = file
  BY DEF ParsedPolicy

LEMMA LoadAccess ==
  ASSUME TypeOK, Access, NEW r \in Readers, LoadReadPolicy(r), reads'[r].pc # "idle"
  PROVE  /\ reads'[r].q = reads[r].q /\ inForce' = inForce
         /\ reads'[r].pc \in {"reading", "recalling"} => Absent \in inForce[r].policies
         /\ reads'[r].pc = "verifying" =>
               /\ reads'[r].held \in inForce[r].policies
               /\ ParsedPolicy(reads'[r].held) \notin {Absent, Malformed}
               /\ reads'[r].q.auth # Nobody
  <1>1. ReadsTyped /\ policy \in ReadPolicies
    BY TypeParts DEF StoreTyped
  <1>2. policy \in inForce[r].policies /\ reads[r].pc = "authorizing"
    BY DEF Access, LoadReadPolicy
  <1>3. ~Return(r, Answer("denied", {}, {}))
    BY ReturnType, AnswerType
  <1>4. CASE ParsedPolicy(policy) = Absent /\ Step(r, "reading")
    <2>1. reads'[r].q = reads[r].q /\ inForce' = inForce /\ reads'[r].pc = "reading"
      BY <1>1, <1>4 DEF Step, ReadsTyped, ReadState
    <2>2. policy = Absent
      BY <1>4, ParsedIsFile, ReadSurfacesAssumption DEF ReadSurfacesAssumption
    <2> QED BY <1>2, <2>1, <2>2
  <1>5. CASE /\ ParsedPolicy(policy) \notin {Absent, Malformed} /\ reads[r].q.auth # Nobody
             /\ reads' = [reads EXCEPT ![r].pc = "verifying", ![r].held = ParsedPolicy(policy)]
             /\ inForce' = inForce
    <2>1. ParsedPolicy(policy) = policy
      BY <1>5, ParsedIsFile
    <2>2. /\ reads'[r].q = reads[r].q /\ reads'[r].pc = "verifying"
          /\ reads'[r].held = policy
      BY <1>1, <1>5, <2>1 DEF ReadsTyped, ReadState
    <2> QED BY <1>2, <1>5, <2>1, <2>2
  <1> QED BY <1>3, <1>4, <1>5 DEF LoadReadPolicy

LEMMA AuthorizeAccess ==
  ASSUME TypeOK, Access, NEW r \in Readers, Authorize(r), reads'[r].pc # "idle"
  PROVE  /\ reads'[r].q = reads[r].q /\ inForce' = inForce /\ reads'[r].pc = "reading"
         /\ Allowed(reads[r].q, inForce[r])
  <1>1. ReadsTyped
    BY TypeParts
  <1>2. ~Return(r, Answer("denied", {}, {}))
    BY ReturnType, AnswerType
  <1>3. /\ Verified(principals, reads[r].q)
        /\ EvaluateReadPolicy(reads[r].held, reads[r].q, reads[r].q.auth.principal)
        /\ Step(r, "reading") /\ reads[r].pc = "verifying"
    BY <1>2 DEF Authorize
  <1>4. reads'[r].q = reads[r].q /\ inForce' = inForce /\ reads'[r].pc = "reading"
    BY <1>1, <1>3 DEF Step, ReadsTyped, ReadState
  <1>5. /\ principals \in inForce[r].stores /\ reads[r].held \in inForce[r].policies
        /\ ParsedPolicy(reads[r].held) \notin {Absent, Malformed} /\ reads[r].q.auth # Nobody
    BY <1>3 DEF Access
  <1> QED BY <1>3, <1>4, <1>5 DEF Allowed

LEMMA AskAccess ==
  ASSUME TypeOK, NEW r \in Readers, NEW q \in Requests, Ask(r, q), ~ConstraintFails(q)
  PROVE  /\ reads'[r].q = Effective(q)
         /\ inForce'[r] = [policies |-> {policy}, stores |-> {principals}]
         /\ reads'[r].pc = IF q.surface \in Governed THEN "authorizing" ELSE "reading"
         /\ Effective(q).surface = q.surface
         /\ Constrained(Effective(q)) =>
               /\ Effective(q).scopes # {}
               /\ Effective(q).scopes \subseteq Effective(q).constraint.allowed
  <1> DEFINE begun == [Idle EXCEPT !.q = Effective(q),
                                   !.pc = IF q.surface \in Governed THEN "authorizing"
                                          ELSE "reading"]
             files == [policies |-> {policy}, stores |-> {principals}]
  <1>1. ReadsTyped /\ q \in ReadRequest
    BY TypeParts, ReadSurfacesAssumption DEF ReadSurfacesAssumption
  <1>2. /\ begun.q = Effective(q)
        /\ begun.pc = IF q.surface \in Governed THEN "authorizing" ELSE "reading"
    BY DEF Idle
  <1>3. reads' = [reads EXCEPT ![r] = begun] /\ inForce' = [inForce EXCEPT ![r] = files]
    BY DEF Ask
  <1>4. reads'[r] = begun /\ inForce'[r] = files
    <2> HIDE DEF begun, files
    <2> QED BY <1>1, <1>3 DEF ReadsTyped
  <1>5. /\ Effective(q).surface = q.surface /\ Effective(q).constraint = q.constraint
        /\ Effective(q).scopes = IF Constrained(q) /\ q.scopes = {}
                                 THEN q.constraint.allowed ELSE q.scopes
    BY <1>1, AskType
  <1>6. Constrained(q) => q.constraint.allowed # {} /\ q.scopes \subseteq q.constraint.allowed
    BY DEF ConstraintFails
  <1>7. Constrained(Effective(q)) <=> Constrained(q)
    BY <1>5 DEF Constrained
  <1> HIDE DEF begun
  <1> QED BY <1>2, <1>4, <1>5, <1>6, <1>7

(* Access, of one read *)
Admitted(read, files) ==
    read.pc # "idle" =>
    /\ policy \in files.policies /\ principals \in files.stores
    /\ read.pc = "verifying" =>
          /\ read.held \in files.policies
          /\ ParsedPolicy(read.held) \notin {Absent, Malformed} /\ read.q.auth # Nobody
    /\ Constrained(read.q) =>
          /\ read.q.scopes # {} /\ read.q.scopes \subseteq read.q.constraint.allowed
    /\ read.pc \in {"reading", "recalling"} => Allowed(read.q, files)

LEMMA AccessParts ==
  Access /\ ContentWasAllowed <=> \A r \in Readers : Admitted(reads[r], inForce[r])
  BY AllowedReads DEF Access, Admitted

LEMMA AccessInit == Init => Access /\ ContentWasAllowed
  <1>1. Init => \A r \in Readers : reads[r] = Idle
    BY DEF Init
  <1> QED BY <1>1, IdleType DEF Access, ContentWasAllowed

LEMMA ReadAccess ==
  ASSUME TypeOK, Access, ContentWasAllowed, NEW r \in Readers,
         ReadStep(r) \/ \E q \in Requests : Ask(r, q)
  PROVE  Admitted(reads'[r], inForce'[r])
  <1>1. ReadsTyped /\ Admitted(reads[r], inForce[r])
    BY TypeParts, AccessParts
  <1>2. CASE reads'[r].pc = "idle"
    BY <1>2 DEF Admitted
  <1>3. CASE LoadReadPolicy(r) /\ reads'[r].pc # "idle"
    <2>1. /\ reads'[r].q = reads[r].q /\ inForce' = inForce
          /\ reads'[r].pc \in {"reading", "recalling"} => Absent \in inForce[r].policies
          /\ reads'[r].pc = "verifying" =>
                /\ reads'[r].held \in inForce[r].policies
                /\ ParsedPolicy(reads'[r].held) \notin {Absent, Malformed}
                /\ reads'[r].q.auth # Nobody
      BY <1>3, LoadAccess
    <2>2. reads[r].pc # "idle"
      BY <1>3 DEF LoadReadPolicy
    <2> QED BY <1>1, <2>1, <2>2 DEF Admitted, Allowed
  <1>4. CASE Authorize(r) /\ reads'[r].pc # "idle"
    <2>1. /\ reads'[r].q = reads[r].q /\ inForce' = inForce /\ reads'[r].pc = "reading"
          /\ Allowed(reads[r].q, inForce[r])
      BY <1>4, AuthorizeAccess
    <2>2. reads[r].pc # "idle"
      BY <1>4 DEF Authorize
    <2> QED BY <1>1, <2>1, <2>2 DEF Admitted
  <1>5. CASE ReadHistoryRecord(r) /\ reads'[r].pc # "idle"
    <2>1. ~Return(r, Answer("failed", {}, {}))
      BY <1>5, ReturnType, AnswerType
    <2>2. \E id : /\ reads' = [reads EXCEPT ![r].pc = "recalling", ![r].answer.ids = {id},
                                            ![r].answer.status = ledger[id]]
                  /\ inForce' = inForce
      BY <1>5, <2>1 DEF ReadHistoryRecord
    <2>3. reads'[r].pc = "recalling" /\ reads'[r].q = reads[r].q /\ inForce' = inForce
      BY <1>1, <2>2 DEF ReadsTyped, ReadState
    <2>4. reads[r].pc = "reading"
      BY <1>5 DEF ReadHistoryRecord
    <2> QED BY <1>1, <2>3, <2>4 DEF Admitted
  <1>6. CASE (ReadLedger(r) \/ ReadTimeline(r) \/ ReadFails(r)) /\ reads'[r].pc # "idle"
    <2>1. PICK answer : Return(r, answer)
      BY <1>6 DEF ReadLedger, ReadTimeline, ReadFails
    <2> DEFINE rest == [Idle EXCEPT !.answer = answer]
    <2>2. rest.pc = "idle"
      BY DEF Idle
    <2>3. reads' = [reads EXCEPT ![r] = rest]
      BY <2>1 DEF Return
    <2> HIDE DEF rest
    <2> QED BY <1>1, <1>6, <2>2, <2>3 DEF ReadsTyped
  <1>7. ASSUME NEW q \in Requests, Ask(r, q), reads'[r].pc # "idle"
        PROVE  Admitted(reads'[r], inForce'[r])
    <2>1. ~ConstraintFails(q)
      <3>1. ~Return(r, Answer("blocked", {}, {}))
        BY <1>7, ReturnType, AnswerType
      <3> QED BY <1>7, <3>1 DEF Ask
    <2>2. /\ reads'[r].q = Effective(q)
          /\ inForce'[r] = [policies |-> {policy}, stores |-> {principals}]
          /\ reads'[r].pc = IF q.surface \in Governed THEN "authorizing" ELSE "reading"
          /\ Effective(q).surface = q.surface
          /\ Constrained(Effective(q)) =>
                /\ Effective(q).scopes # {}
                /\ Effective(q).scopes \subseteq Effective(q).constraint.allowed
      BY <1>7, <2>1, AskAccess
    <2>3. policy \in inForce'[r].policies /\ principals \in inForce'[r].stores
      BY <2>2
    <2>4. reads'[r].pc # "verifying"
      BY <2>2
    <2>5. reads'[r].pc \in {"reading", "recalling"} => Allowed(reads'[r].q, inForce'[r])
      BY <2>2 DEF Allowed
    <2> QED BY <2>2, <2>3, <2>4, <2>5 DEF Admitted
  <1> QED BY <1>2, <1>3, <1>4, <1>5, <1>6, <1>7 DEF ReadStep

\* A file that is replaced is one more that was in force.
LEMMA EditAccess ==
  ASSUME TypeOK, Access, ContentWasAllowed, [Next]_vars, reads' = reads, NEW r \in Readers
  PROVE  Admitted(reads[r], inForce[r])'
  <1>1. ReadsTyped /\ Admitted(reads[r], inForce[r])
    BY TypeParts, AccessParts
  <1>2. CASE reads[r].pc = "idle"
    BY <1>2 DEF Admitted
  <1>3. ASSUME reads[r].pc # "idle", inForce[r].policies \subseteq inForce'[r].policies,
               inForce[r].stores \subseteq inForce'[r].stores,
               policy' \in inForce'[r].policies, principals' \in inForce'[r].stores
        PROVE  Admitted(reads[r], inForce[r])'
    <2>1. Allowed(reads[r].q, inForce[r]) => Allowed(reads[r].q, inForce'[r])
      BY <1>3 DEF Allowed
    <2> QED BY <1>1, <1>3, <2>1 DEF Admitted
  <1>4. ASSUME NEW p \in ReadPolicies, EditReadPolicy(p), reads[r].pc # "idle"
        PROVE  Admitted(reads[r], inForce[r])'
    <2>1. /\ inForce'[r] = [inForce[r] EXCEPT !.policies = @ \cup {p}]
          /\ inForce[r] \in InForce
      BY <1>1, <1>4 DEF EditReadPolicy, ReadsTyped
    <2>2. /\ inForce'[r].policies = inForce[r].policies \cup {p}
          /\ inForce'[r].stores = inForce[r].stores
      BY <2>1 DEF InForce
    <2>3. policy' = p /\ principals' = principals
      BY <1>4 DEF EditReadPolicy
    <2> QED BY <1>1, <1>3, <1>4, <2>2, <2>3 DEF Admitted
  <1>5. ASSUME NEW s \in PrincipalStores, EditPrincipals(s), reads[r].pc # "idle"
        PROVE  Admitted(reads[r], inForce[r])'
    <2>1. /\ inForce'[r] = [inForce[r] EXCEPT !.stores = @ \cup {s}]
          /\ inForce[r] \in InForce
      BY <1>1, <1>5 DEF EditPrincipals, ReadsTyped
    <2>2. /\ inForce'[r].stores = inForce[r].stores \cup {s}
          /\ inForce'[r].policies = inForce[r].policies
      BY <2>1 DEF InForce
    <2>3. policy' = policy /\ principals' = s
      BY <1>5 DEF EditPrincipals
    <2> QED BY <1>1, <1>3, <1>5, <2>2, <2>3 DEF Admitted
  <1>6. CASE reads[r].pc # "idle" /\ UNCHANGED <<inForce, policy, principals>>
    BY <1>1, <1>6 DEF Admitted
  <1>7. \/ \E p \in ReadPolicies : EditReadPolicy(p)
        \/ \E s \in PrincipalStores : EditPrincipals(s)
        \/ UNCHANGED <<inForce, policy, principals>>
        \/ \E o \in Readers : ReadStep(o) \/ \E q \in Requests : Ask(o, q)
    BY StepCases DEF Quiet, WriteLedger, WriterDies, Tick, SetClockBack, AppendEvent,
          AppendReport, AppendResolution, vars
  <1>8. ASSUME NEW o \in Readers, ReadStep(o) \/ \E q \in Requests : Ask(o, q),
               reads[r].pc # "idle"
        PROVE  Admitted(reads[r], inForce[r])'
    <2>1. policy' = policy /\ principals' = principals
      BY <1>8 DEF ReadStep, Ask, LoadReadPolicy, Authorize, ReadLedger, ReadHistoryRecord,
             ReadTimeline, ReadFails, StoreUnchanged
    <2>2. CASE o = r
      <3>1. Admitted(reads'[r], inForce'[r])
        BY <1>8, <2>2, ReadAccess
      <3> QED BY <2>1, <3>1 DEF Admitted
    <2>3. CASE o # r
      BY <1>1, <1>8, <2>1, <2>3, ReadGoesOn DEF Admitted
    <2> QED BY <2>2, <2>3
  <1> QED BY <1>2, <1>4, <1>5, <1>6, <1>7, <1>8

LEMMA AccessStep ==
  ASSUME TypeOK, Access, ContentWasAllowed, [Next]_vars
  PROVE  Access' /\ ContentWasAllowed'
  <1>1. ASSUME NEW r \in Readers PROVE Admitted(reads[r], inForce[r])'
    <2>1. CASE reads' = reads
      BY <2>1, EditAccess
    <2>2. ASSUME NEW o \in Readers, ReadStep(o) \/ \E q \in Requests : Ask(o, q)
          PROVE  Admitted(reads[r], inForce[r])'
      <3>1. policy' = policy /\ principals' = principals
        BY <2>2 DEF ReadStep, Ask, LoadReadPolicy, Authorize, ReadLedger, ReadHistoryRecord,
               ReadTimeline, ReadFails, StoreUnchanged
      <3>2. CASE o = r
        <4>1. Admitted(reads'[r], inForce'[r])
          BY <2>2, <3>2, ReadAccess
        <4> QED BY <3>1, <4>1 DEF Admitted
      <3>3. CASE o # r
        <4>1. reads'[r] = reads[r] /\ inForce'[r] = inForce[r]
          BY <2>2, <3>3, ReadGoesOn
        <4>2. Admitted(reads[r], inForce[r])
          BY AccessParts
        <4> QED BY <3>1, <4>1, <4>2 DEF Admitted
      <3> QED BY <3>2, <3>3
    <2> QED BY <2>1, <2>2, OtherTyping
  <1>2. (\A r \in Readers : Admitted(reads[r], inForce[r])') => Access' /\ ContentWasAllowed'
    BY DEF Admitted, Access, ContentWasAllowed, Allowed
  <1> QED BY <1>1, <1>2

\* A governed read only gets to content that a policy in force allowed
\* (ContentWasAllowed).
THEOREM ContentAllowed == Spec => [](Access /\ ContentWasAllowed)
  <1>1. Init => Access /\ ContentWasAllowed
    BY AccessInit
  <1>2. TypeOK /\ Access /\ ContentWasAllowed /\ [Next]_vars => Access' /\ ContentWasAllowed'
    BY AccessStep
  <1> QED BY <1>1, <1>2, TypeCorrect, PTL DEF Spec

-----------------------------------------------------------------------------
(* Contexts are clean *)

LEMMA LastInstant ==
  ASSUME NEW day \in Nat, NEW length \in Nat, NEW t \in Nat
  PROVE  (day + 1) * length <= t + 1 => day * length + (length - 1) <= t
  <1>1. (day + 1) * length = day * length + length /\ day * length \in Nat
    OBVIOUS
  <1> QED BY <1>1

\* What has not expired has not outlived its day or instant.
LEMMA OutlivedExpires ==
  ASSUME TypeOK, NEW id \in Ids, Outlived(id)
  PROVE  Expired(id, now)
  <1>1. now \in Nat /\ DayLength \in Nat
    <2>1. now \in 0 .. MaxTime /\ MaxTime \in Nat
      BY Bounds DEF TypeOK, Instants
    <2>2. DayLength \in Nat
      BY ReadSurfacesAssumption DEF ReadSurfacesAssumption
    <2> QED BY <2>1, <2>2
  <1>2. Ttl[id] \in [date : Nat] \/ Ttl[id] \in [at : Nat]
    BY ReadSurfacesAssumption DEF Outlived, ReadSurfacesAssumption
  <1>3. CASE Ttl[id] \in [date : Nat]
    <2>1. Ttl[id].date \in Nat /\ "date" \in DOMAIN Ttl[id]
      BY <1>3
    <2>2. (Ttl[id].date + 1) * DayLength <= now + 1
      BY <2>1 DEF Outlived
    <2>3. Ttl[id].date * DayLength + (DayLength - 1) <= now
      BY <1>1, <2>1, <2>2, LastInstant
    <2> QED BY <2>1, <2>3 DEF Outlived, Expired, ExpiresAt
  <1>4. CASE Ttl[id] \in [at : Nat]
    <2>1. Ttl[id].at \in Nat /\ "date" \notin DOMAIN Ttl[id]
      BY <1>4
    <2>2. Ttl[id].at <= now
      BY <1>1, <2>1 DEF Outlived
    <2> QED BY <2>1, <2>2 DEF Outlived, Expired, ExpiresAt
  <1> QED BY <1>2, <1>3, <1>4

LEMMA NoIssues ==
  ASSUME TypeOK, NEW ids \in SUBSET Ids, ~HasIssues(ids), NEW id \in ids
  PROVE  /\ ~Outlived(id) /\ Content[id] \in {"clean", "sensitive"}
         /\ \A other \in ids : id \notin Conflicts[other] \cup Supersedes[other]
  <1>1. ~Outlived(id)
    BY OutlivedExpires DEF HasIssues
  <1>2. Content[id] \in {"clean", "sensitive"}
    BY ReadSurfacesAssumption DEF HasIssues, ScanIssues, ReadSurfacesAssumption
  <1>3. \A other \in ids : id \notin Conflicts[other] \cup Supersedes[other]
    BY DEF HasIssues, RelationshipIssues, Linked
  <1> QED BY <1>1, <1>2, <1>3

\* A context shows content only without issues, and then what its scopes let through.
LEMMA ContextContent ==
  ASSUME NEW q, AnswerContext(q).kind = "content"
  PROVE  /\ ~HasIssues(Accepted(q.dest))
         /\ AnswerContext(q).ids \subseteq Accepted(q.dest)
         /\ \A id \in AnswerContext(q).ids : q.scopes = {} \/ Scope[id] \in q.scopes
         /\ Constrained(q) => AnswerContext(q).warned \subseteq AnswerContext(q).ids
  <1> DEFINE accepted == Accepted(q.dest)
             shown == {id \in accepted : (q.scopes = {} \/ Scope[id] \in q.scopes)
                                         /\ Kept(q, id)}
             told == IF Constrained(q) THEN {} ELSE Warned(accepted)
             warned == Warned(IF Constrained(q) THEN shown ELSE accepted)
  <1>1. AnswerContext(q) = IF HasIssues(accepted) THEN Answer("blocked", {}, told)
                           ELSE Answer("content", shown, warned)
    BY DEF AnswerContext
  <1>2. shown \subseteq accepted /\ shown \in SUBSET Ids
        /\ \A id \in shown : q.scopes = {} \/ Scope[id] \in q.scopes
    BY AcceptedType
  <1>3. Constrained(q) => warned \subseteq shown
    BY <1>2, WarnedType
  <1> HIDE DEF accepted, shown, told, warned
  <1>4. ~HasIssues(accepted) /\ AnswerContext(q) = Answer("content", shown, warned)
    BY <1>1 DEF Answer
  <1>5. AnswerContext(q).ids = shown /\ AnswerContext(q).warned = warned
    BY <1>4 DEF Answer
  <1> QED BY <1>2, <1>3, <1>4, <1>5 DEF accepted

LEMMA PreviewContent ==
  ASSUME NEW q, AnswerPreview(q).kind = "content"
  PROVE  ~HasIssues(Accepted(q.dest)) /\ AnswerPreview(q).ids = Accepted(q.dest)
  BY DEF AnswerPreview, Answer

LEMMA LedgerAnswerIsClean ==
  ASSUME TypeOK, NEW q, q.surface \in {"read_context", "export_preview"},
         Constrained(q) => q.scopes # {} /\ q.scopes \subseteq q.constraint.allowed,
         AnswerFromLedger(q).kind = "content"
  PROVE  CleanAnswer(q, AnswerFromLedger(q))
  <1> DEFINE a == AnswerFromLedger(q)
  <1>1. CASE q.surface = "read_context"
    <2>1. a = AnswerContext(q)
      BY <1>1 DEF AnswerFromLedger
    <2>2. /\ ~HasIssues(Accepted(q.dest)) /\ a.ids \subseteq Accepted(q.dest)
          /\ \A id \in a.ids : q.scopes = {} \/ Scope[id] \in q.scopes
          /\ Constrained(q) => a.warned \subseteq a.ids
      BY <2>1, ContextContent
    <2> HIDE DEF a
    <2>3. \A id \in Accepted(q.dest) :
             /\ ~Outlived(id) /\ Content[id] \in {"clean", "sensitive"}
             /\ \A other \in Accepted(q.dest) :
                   id \notin Conflicts[other] \cup Supersedes[other]
      BY <2>2, AcceptedType, NoIssues
    <2>4. Accepted(q.dest) = {id \in Ids : ledger[id] # Missing
                                 /\ ledger[id].status = "accepted" /\ Dest[id] = q.dest}
      BY DEF Accepted, Recorded
    <2> QED BY <2>2, <2>3, <2>4 DEF CleanAnswer, a
  <1>2. CASE q.surface = "export_preview"
    <2>1. a = AnswerPreview(q)
      BY <1>2 DEF AnswerFromLedger
    <2>2. ~HasIssues(Accepted(q.dest)) /\ a.ids = Accepted(q.dest)
      BY <2>1, PreviewContent
    <2> HIDE DEF a
    <2>3. \A id \in Accepted(q.dest) :
             /\ ~Outlived(id) /\ Content[id] \in {"clean", "sensitive"}
             /\ \A other \in Accepted(q.dest) :
                   id \notin Conflicts[other] \cup Supersedes[other]
      BY <2>2, AcceptedType, NoIssues
    <2>4. Accepted(q.dest) = {id \in Ids : ledger[id] # Missing
                                 /\ ledger[id].status = "accepted" /\ Dest[id] = q.dest}
      BY DEF Accepted, Recorded
    <2>5. ~Constrained(q)
      BY <1>2 DEF Constrained
    <2> QED BY <2>2, <2>3, <2>4, <2>5 DEF CleanAnswer, a
  <1> QED BY <1>1, <1>2

\* Whoever else moves leaves a read that is under way without an answer.
LEMMA OnlyLedgerAnswers ==
  ASSUME TypeOK, Recalls, [Next]_vars, NEW r \in Readers, reads[r].pc = "reading",
         reads[r].q.surface \in {"read_context", "export_preview"},
         reads'[r].answer.kind = "content"
  PROVE  reads'[r].answer = AnswerFromLedger(reads[r].q)
  <1>1. ReadsTyped /\ reads[r].answer.kind = "none"
    BY TypeParts DEF Recalls
  <1>2. reads'[r] # reads[r]
    BY <1>1
  <1>3. PICK o \in Readers : ReadStep(o) \/ \E q \in Requests : Ask(o, q)
    BY <1>2, OtherTyping
  <1>4. o = r
    BY <1>2, <1>3, ReadGoesOn
  <1>5. ~LoadReadPolicy(r) /\ ~Authorize(r) /\ ~ReadTimeline(r) /\ ~ReadHistoryRecord(r)
        /\ \A q \in Requests : ~Ask(r, q)
    BY DEF LoadReadPolicy, Authorize, ReadTimeline, ReadHistoryRecord, Ask
  <1>6. CASE ReadFails(r)
    <2>1. Return(r, Answer(IF reads[r].q.surface \in {"read_context", "read_context_status"}
                           THEN "blocked" ELSE "failed", {}, {}))
      BY <1>6 DEF ReadFails
    <2>2. reads'[r].answer.kind \in {"blocked", "failed"}
      BY <2>1, ReturnType, AnswerType
    <2> QED BY <2>2
  <1>7. CASE ReadLedger(r)
    <2>1. Return(r, AnswerFromLedger(reads[r].q)) /\ reads[r].q \in ReadRequest
      BY <1>1, <1>7 DEF ReadLedger, ReadsTyped
    <2> QED BY <2>1, LedgerAnswerType, ReturnType
  <1> QED BY <1>3, <1>4, <1>5, <1>6, <1>7 DEF ReadStep

\* A context or preview answers with content only while nothing accepted for its
\* destination has an issue, and within its constraint (ContextIsClean).
THEOREM ContextClean == Spec => ContextIsClean
  <1>1. ASSUME TypeOK, Recalls, Access, [Next]_vars, NEW r \in Readers,
               reads[r].pc = "reading", reads'[r].answer.kind = "content",
               reads[r].q.surface \in {"read_context", "export_preview"}
        PROVE  CleanAnswer(reads[r].q, reads'[r].answer)
    <2>1. reads'[r].answer = AnswerFromLedger(reads[r].q)
      BY <1>1, OnlyLedgerAnswers
    <2>2. Constrained(reads[r].q) => /\ reads[r].q.scopes # {}
                                     /\ reads[r].q.scopes \subseteq reads[r].q.constraint.allowed
      BY <1>1 DEF Access
    <2> QED BY <1>1, <2>1, <2>2, LedgerAnswerIsClean
  <1>2. TypeOK /\ Recalls /\ Access /\ [Next]_vars
        => [\A r \in Readers :
              reads[r].pc = "reading" /\ reads'[r].answer.kind = "content"
              /\ reads[r].q.surface \in {"read_context", "export_preview"}
              => CleanAnswer(reads[r].q, reads'[r].answer)]_vars
    BY <1>1
  <1>3. Spec => []Recalls
    <2>1. Init => TimelineInv
      BY TimelineInit
    <2>2. TypeOK /\ TypeOK' /\ OneRecord /\ TimelineInv /\ [Next]_vars => TimelineInv'
      BY TimelineStep
    <2>3. TimelineInv => Recalls
      BY DEF TimelineInv
    <2> QED BY <2>1, <2>2, <2>3, TypeCorrect, PTL DEF Spec
  <1> QED BY <1>2, <1>3, TypeCorrect, ContentAllowed, PTL DEF Spec, ContextIsClean

=============================================================================
