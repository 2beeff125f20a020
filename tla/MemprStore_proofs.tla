--------------------------- MODULE MemprStore_proofs ---------------------------
(***************************************************************************)
(* Proofs about MemprStore, for every set of processes and records, every  *)
(* link structure and every bound.                                         *)
(***************************************************************************)
EXTENDS MemprStore, FiniteSetTheorems, SequenceTheorems, WellFoundedInduction, TLAPS

-----------------------------------------------------------------------------
(* The replay of a history that grows by one event *)

VersionEvent == ProposedEvent \cup StatusEvent

LEMMA EventTypes ==
    ASSUME NEW e \in Event
    PROVE  /\ e.type = "memory_proposed" => e \in ProposedEvent
           /\ e.type = "memory_status_changed" => e \in StatusEvent
           /\ e.type = "memory_relationship_resolved" => e \in ResolvedEvent
           /\ e.type = "memory_exported" => e \in ExportedEvent
           /\ e.type \in {"memory_proposed", "memory_status_changed",
                          "memory_relationship_resolved", "memory_exported"}
           /\ (\E id : Carries(e, id)) => e \in VersionEvent
BY DEF Event, ProposedEvent, StatusEvent, ResolvedEvent, ExportedEvent,
    Carries, VersionEvent

LEMMA VersionEvents ==
    ASSUME NEW e \in VersionEvent
    PROVE  /\ e.id \in Ids /\ e.record \in Record
           /\ \A id : Carries(e, id) <=> id = e.id
BY DEF VersionEvent, ProposedEvent, StatusEvent, Carries

LEMMA AppendCarriers ==
    ASSUME NEW events \in Seq(Event), NEW e \in Event, NEW id
    PROVE  /\ Carriers(events, id) \subseteq 1..Len(events)
           /\ Carries(e, id) =>
                /\ Carriers(Append(events, e), id)
                      = Carriers(events, id) \cup {Len(events) + 1}
                /\ Latest(Append(events, e), id) = Len(events) + 1
           /\ ~Carries(e, id) =>
                /\ Carriers(Append(events, e), id) = Carriers(events, id)
                /\ Latest(Append(events, e), id) = Latest(events, id)
<1> DEFINE more == Append(events, e)
           n == Len(events)
<1>1. /\ n \in Nat /\ DOMAIN events = 1..n /\ DOMAIN more = 1..(n + 1)
      /\ more[n + 1] = e /\ \A i \in 1..n : more[i] = events[i]
  OBVIOUS
<1>2. Carriers(events, id) \subseteq 1..n
  BY <1>1 DEF Carriers
<1>3. Carriers(more, id)
        = Carriers(events, id) \cup (IF Carries(e, id) THEN {n + 1} ELSE {})
  BY <1>1 DEF Carriers
<1>4. Carries(e, id) => Latest(more, id) = n + 1
  BY <1>1, <1>2, <1>3 DEF Latest
<1>5. ~Carries(e, id) => Latest(more, id) = Latest(events, id)
  BY <1>3 DEF Latest
<1> QED
  BY <1>2, <1>3, <1>4, <1>5

\* Every record that is carried has a latest version.
Versioned(events) ==
    \A id \in Ids : Carriers(events, id) # {} =>
        Latest(events, id) \in Carriers(events, id)

LEMMA VersionedAppend ==
    ASSUME NEW events \in Seq(Event), NEW e \in Event, Versioned(events)
    PROVE  Versioned(Append(events, e))
<1> SUFFICES ASSUME NEW id \in Ids, Carriers(Append(events, e), id) # {}
             PROVE  Latest(Append(events, e), id) \in Carriers(Append(events, e), id)
  BY DEF Versioned
<1>1. CASE Carries(e, id)
  BY <1>1, AppendCarriers
<1>2. CASE ~Carries(e, id)
  BY <1>2, AppendCarriers DEF Versioned
<1> QED
  BY <1>1, <1>2

LEMMA ReplayType ==
    ASSUME NEW events \in Seq(Event), Versioned(events)
    PROVE  /\ Replay(events) \in Ledger
           /\ \A id \in Ids : id \in Known(Replay(events)) <=> Carriers(events, id) # {}
           /\ \A id \in Known(Replay(events)) :
                \E i \in Carriers(events, id) : events[i].record = Replay(events)[id]
<1>1. ASSUME NEW id \in Ids, Carriers(events, id) # {}
      PROVE  /\ Replay(events)[id] \in Record
             /\ id \in Known(Replay(events))
             /\ \E i \in Carriers(events, id) : events[i].record = Replay(events)[id]
  <2> DEFINE i == Latest(events, id)
  <2>1. i \in Carriers(events, id)
    BY <1>1 DEF Versioned
  <2>2. events[i] \in Event /\ Carries(events[i], id)
    BY <2>1 DEF Carriers
  <2>3. events[i].record \in Record
    BY <2>2, EventTypes, VersionEvents
  <2>4. Replay(events)[id] = events[i].record
    BY <1>1 DEF Replay
  <2> QED
    BY <2>1, <2>3, <2>4 DEF Known, Record, Statuses
<1>2. ASSUME NEW id \in Ids, Carriers(events, id) = {}
      PROVE  Replay(events)[id] = NoRecord /\ id \notin Known(Replay(events))
  BY <1>2 DEF Replay, Known, NoRecord
<1>3. Replay(events) \in Ledger
  <2>1. Replay(events) = [id \in Ids |-> Replay(events)[id]]
    BY DEF Replay
  <2>2. \A id \in Ids : Replay(events)[id] \in Record \cup {NoRecord}
    BY <1>1, <1>2
  <2> QED
    BY <2>1, <2>2 DEF Ledger
<1> QED
  BY <1>1, <1>2, <1>3 DEF Known

\* Replaying one event more changes the record that the event carries, if any.
LEMMA ReplayAppend ==
    ASSUME NEW events \in Seq(Event), NEW e \in Event, Versioned(events)
    PROVE  Replay(Append(events, e)) =
             IF e \in VersionEvent
             THEN [Replay(events) EXCEPT ![e.id] = e.record]
             ELSE Replay(events)
<1> DEFINE more == Append(events, e)
           n == Len(events)
<1>1. /\ n \in Nat /\ more[n + 1] = e
      /\ \A i \in 1..n : more[i] = events[i]
  OBVIOUS
<1>2. ASSUME NEW id \in Ids, Carries(e, id)
      PROVE  Replay(more)[id] = e.record
  BY <1>1, <1>2, AppendCarriers DEF Replay
<1>3. ASSUME NEW id \in Ids, ~Carries(e, id)
      PROVE  Replay(more)[id] = Replay(events)[id]
  <2>1. CASE Carriers(events, id) = {}
    BY <1>3, <2>1, AppendCarriers DEF Replay
  <2>2. CASE Carriers(events, id) # {}
    <3>1. Latest(events, id) \in 1..n
      BY <2>2, AppendCarriers DEF Versioned
    <3> QED
      BY <1>1, <1>3, <2>2, <3>1, AppendCarriers DEF Replay
  <2> QED
    BY <2>1, <2>2
<1>4. e \in VersionEvent => e.id \in Ids /\ \A id : Carries(e, id) <=> id = e.id
  BY VersionEvents
<1>5. e \notin VersionEvent => \A id : ~Carries(e, id)
  BY EventTypes
<1>6. /\ Replay(more) = [id \in Ids |-> Replay(more)[id]]
      /\ Replay(events) = [id \in Ids |-> Replay(events)[id]]
  BY DEF Replay
<1> QED
  BY <1>2, <1>3, <1>4, <1>5, <1>6

-----------------------------------------------------------------------------
(* Type correctness *)

\* What Typing needs besides TypeOK: events are left exactly while appending.
Appending == \A p \in Procs : todo[p] # <<>> <=> pc[p] = "appending"

Typing == TypeOK /\ Appending /\ Versioned(log)

-----------------------------------------------------------------------------
(* The values commands compute have their types *)

LEMMA KnownIsRecord ==
    ASSUME NEW records \in Ledger, NEW id \in Known(records)
    PROVE  id \in Ids /\ records[id] \in Record
BY DEF Known, Ledger, Record, NoRecord, Statuses

LEMMA WithStatusType ==
    ASSUME TypeOK, NEW id \in Ids, NEW status \in Statuses
    PROVE  WithStatus(id, status) \in Record
BY DEF TypeOK, WithStatus, Record, Now

LEMMA StatusChangeType ==
    ASSUME TypeOK, NEW id \in Known(ledger), NEW status \in Statuses
    PROVE  StatusChange(id, status) \in StatusEvent
<1>1. id \in Ids /\ ledger[id] \in Record
  BY KnownIsRecord DEF TypeOK
<1>2. WithStatus(id, status) \in Record
  BY <1>1, WithStatusType
<1> QED
  BY <1>1, <1>2 DEF StatusChange, StatusEvent, Record

LEMMA ResolutionType ==
    ASSUME NEW id \in Ids, NEW retired \in SUBSET Ids, NEW overridden \in SUBSET Ids
    PROVE  Resolution(id, retired, overridden) \in ResolvedEvent
BY DEF Resolution, ResolvedEvent

LEMMA InitialStatusType ==
    ASSUME NEW id \in Ids, NEW decision \in {"auto_accept", "review", "reject_audited"}
    PROVE  InitialStatus(id, decision) \in Statuses
BY DEF InitialStatus, Statuses

LEMMA CommandKinds ==
    ASSUME NEW o \in Command
    PROVE  /\ o.kind = "propose" => o \in Proposal
           /\ o.kind = "review" => o \in Review
           /\ o.kind = "accept" => o \in Acceptance
           /\ o.kind = "export" => o \in Export
           /\ o # NoOp
BY DEF Command, Proposal, Review, Acceptance, Export, Repair, NoOp

LEMMA SeqOfFunction ==
    ASSUME NEW S, NEW n \in Nat, NEW f \in [1..n -> S]
    PROVE  f \in Seq(S)
<1>1. [1..n -> S] \in {[1..m -> S] : m \in Nat}
  OBVIOUS
<1> QED
  BY <1>1, SeqDef

LEMMA AcceptanceEventsType ==
    ASSUME TypeOK,
           NEW id \in Known(ledger),
           NEW retired \in SUBSET Known(ledger),
           NEW order \in Orders(retired),
           NEW overridden \in SUBSET Ids
    PROVE  /\ Len(order) \in Nat
           /\ \A i \in 1..Len(order) : order[i] \in retired
           /\ AcceptanceEvents(id, order, overridden) \in Seq(Event)
           /\ Len(AcceptanceEvents(id, order, overridden)) = Len(order) + 2
<1>1. retired \subseteq Ids /\ Cardinality(retired) \in Nat
  BY StoreAssumption, FS_Subset, FS_CardinalityType DEF Known
<1>2. /\ Len(order) = Cardinality(retired)
      /\ order \in [1..Len(order) -> retired]
  BY <1>1 DEF Orders
<1>3. ASSUME NEW i \in 1..(Len(order) + 2)
      PROVE  AcceptanceEvents(id, order, overridden)[i] \in Event
  <2>1. CASE i = 1
    BY <2>1, <1>1, <1>2, StatusChangeType DEF AcceptanceEvents, Event, Statuses
  <2>2. CASE i # 1 /\ i <= Len(order) + 1
    <3>1. order[i - 1] \in Known(ledger)
      BY <2>2, <1>1, <1>2
    <3> QED
      BY <2>2, <3>1, <1>1, <1>2, StatusChangeType DEF AcceptanceEvents, Event, Statuses
  <2>3. CASE i > Len(order) + 1
    <3>1. {order[j] : j \in DOMAIN order} \in SUBSET Ids /\ id \in Ids
      BY <1>1, <1>2 DEF Known
    <3> QED
      BY <2>3, <3>1, <1>1, <1>2, ResolutionType DEF AcceptanceEvents, Event
  <2> QED
    BY <1>1, <1>2, <2>1, <2>2, <2>3
<1>4. AcceptanceEvents(id, order, overridden) \in [1..(Len(order) + 2) -> Event]
  BY <1>3 DEF AcceptanceEvents
<1>5. AcceptanceEvents(id, order, overridden) \in Seq(Event)
  BY <1>2, <1>4, SeqOfFunction
<1> QED
  BY <1>1, <1>2, <1>5 DEF AcceptanceEvents

-----------------------------------------------------------------------------
(* Every action keeps the types *)

LEMMA TypingInit == Init => Typing
<1> SUFFICES ASSUME Init PROVE Typing
  OBVIOUS
<1>1. EmptyLedger \in Ledger
  BY DEF EmptyLedger, Ledger
<1>2. <<>> \in Seq(Event)
  OBVIOUS
<1>3. /\ todo = [p \in Procs |-> <<>>]
      /\ todo \in [Procs -> Seq(Event)]
  BY <1>2 DEF Init
<1>4. MaxOps \in Nat /\ MaxFaults \in Nat
  BY StoreAssumption
<1>5. log \in Seq(Event)
  BY <1>2 DEF Init
<1>6. /\ started \in 0..MaxOps /\ faults \in 0..MaxFaults
      /\ tail \in TailStates /\ lock \in Procs \cup {Free, Stale}
  BY <1>4 DEF Init, TailStates
<1>7. /\ published \in [Dests -> SUBSET Ids] /\ pc \in [Procs -> Steps]
      /\ op \in [Procs -> Command \cup {NoOp}] /\ planned \in [Procs -> Ledger]
      /\ begun \in [Procs -> BOOLEAN] /\ ledger \in Ledger
      /\ interrupted \in BOOLEAN /\ unlogged \in SUBSET Dests
  BY <1>1 DEF Init, Steps
<1>8. TypeOK
  BY <1>3, <1>5, <1>6, <1>7 DEF TypeOK
<1>9. Versioned(log)
  BY DEF Init, Versioned, Carriers
<1> QED
  BY <1>3, <1>8, <1>9 DEF Typing, Appending, Init

LEMMA UnloggedType ==
    ASSUME Typing, NEW p \in Procs
    PROVE  LeftUnlogged(p) \in SUBSET Dests /\ NowLogged(p) \in SUBSET Dests
<1>1. op[p].kind = "export" => op[p].dest \in Dests
  BY CommandKinds DEF Typing, TypeOK, NoOp, Export
<1> QED
  BY <1>1 DEF Typing, TypeOK, LeftUnlogged, NowLogged

LEMMA ForgetTyping ==
    ASSUME Typing, NEW p \in Procs, Forget(p)
    PROVE  /\ pc' \in [Procs -> Steps] /\ op' \in [Procs -> Command \cup {NoOp}]
           /\ todo' \in [Procs -> Seq(Event)] /\ planned' \in [Procs -> Ledger]
           /\ begun' \in [Procs -> BOOLEAN] /\ Appending'
<1>1. EmptyLedger \in Ledger
  BY DEF EmptyLedger, Ledger
<1> QED
  BY <1>1 DEF Typing, TypeOK, Appending, Forget, Steps

LEMMA FinishTyping ==
    ASSUME Typing, NEW p \in Procs, Finish(p)
    PROVE  /\ pc' \in [Procs -> Steps] /\ op' \in [Procs -> Command \cup {NoOp}]
           /\ todo' \in [Procs -> Seq(Event)] /\ planned' \in [Procs -> Ledger]
           /\ begun' \in [Procs -> BOOLEAN] /\ Appending'
<1>1. EmptyLedger \in Ledger
  BY DEF EmptyLedger, Ledger
<1> QED
  BY <1>1 DEF Typing, TypeOK, Appending, Finish, Steps

LEMMA PlanTyping ==
    ASSUME Typing, NEW p \in Procs,
           NEW events \in Seq(Event), events # <<>>,
           NEW records \in Ledger,
           Plan(p, events, records)
    PROVE  /\ pc' \in [Procs -> Steps] /\ todo' \in [Procs -> Seq(Event)]
           /\ planned' \in [Procs -> Ledger] /\ Appending'
           /\ UNCHANGED <<ledger, log, tail, lock, op, history>>
BY DEF Typing, TypeOK, Appending, Plan, Steps

LEMMA ProposeTyping ==
    ASSUME Typing, NEW p \in Procs, Propose(p)
    PROVE  Typing'
<1> DEFINE id == op[p].id
           record == WithStatus(id, InitialStatus(id, op[p].decision))
           event == [type |-> "memory_proposed", id |-> id, record |-> record]
           records == [ledger EXCEPT ![id] = record]
<1>1. op[p] \in Proposal
  BY CommandKinds DEF Typing, TypeOK, Propose, NoOp
<1>2. id \in Ids /\ record \in Record
  BY <1>1, InitialStatusType, WithStatusType DEF Proposal, Typing
<1>3. << event >> \in Seq(Event) /\ << event >> # <<>>
  BY <1>2 DEF Event, ProposedEvent
<1>4. records \in Ledger
  BY <1>2 DEF Typing, TypeOK, Ledger
<1>5. Plan(p, << event >>, records) /\ UNCHANGED <<published, begun>>
  BY DEF Propose
<1> HIDE DEF id, record, event, records
<1>6. /\ pc' \in [Procs -> Steps] /\ todo' \in [Procs -> Seq(Event)]
      /\ planned' \in [Procs -> Ledger] /\ Appending'
      /\ UNCHANGED <<ledger, log, tail, lock, op, history>>
  BY <1>3, <1>4, <1>5, PlanTyping
<1> QED
  BY <1>5, <1>6 DEF Typing, TypeOK, history

LEMMA UpdateStatusTyping ==
    ASSUME Typing, NEW p \in Procs, UpdateStatus(p)
    PROVE  Typing'
<1> DEFINE id == op[p].id
           status == op[p].status
           rest == IF status = "retired" THEN << Resolution(id, {id}, {}) >> ELSE <<>>
           events == << StatusChange(id, status) >> \o rest
           records == [ledger EXCEPT ![id] = WithStatus(id, status)]
<1>1. op[p] \in Review
  BY CommandKinds DEF Typing, TypeOK, UpdateStatus, NoOp
<1>2. /\ id \in Known(ledger) /\ id \in Ids /\ status \in Statuses
      /\ WithStatus(id, status) \in Record
  BY <1>1, WithStatusType DEF Review, UpdateStatus, Typing
<1>3. StatusChange(id, status) \in Event
  BY <1>2, StatusChangeType DEF Event, Typing
<1>4. rest \in Seq(Event)
  <2>1. Resolution(id, {id}, {}) \in Event
    BY <1>2, ResolutionType DEF Event
  <2> QED
    BY <2>1
<1>5. events \in Seq(Event) /\ events # <<>>
  BY <1>3, <1>4
<1>6. records \in Ledger
  BY <1>2 DEF Typing, TypeOK, Ledger
<1>7. Plan(p, events, records) /\ UNCHANGED <<published, begun>>
  BY DEF UpdateStatus
<1> HIDE DEF id, status, rest, events, records
<1>8. /\ pc' \in [Procs -> Steps] /\ todo' \in [Procs -> Seq(Event)]
      /\ planned' \in [Procs -> Ledger] /\ Appending'
      /\ UNCHANGED <<ledger, log, tail, lock, op, history>>
  BY <1>5, <1>6, <1>7, PlanTyping
<1> QED
  BY <1>7, <1>8 DEF Typing, TypeOK, history

LEMMA AcceptTyping ==
    ASSUME Typing, NEW p \in Procs, AcceptWithRelationships(p)
    PROVE  Typing'
<1> DEFINE id == op[p].id
           superseded == AcceptedPeers(ledger, id, Supersedes[id])
           retired == IF op[p].retire THEN superseded ELSE {}
           overridden == (superseded \ retired)
                         \cup AcceptedPeers(ledger, id, Conflicts[id])
           records == [x \in Ids |->
                        IF x = id THEN WithStatus(id, "accepted")
                        ELSE IF x \in retired THEN WithStatus(x, "retired")
                        ELSE ledger[x]]
<1>1. op[p] \in Acceptance
  BY CommandKinds DEF Typing, TypeOK, AcceptWithRelationships, NoOp
<1>2. id \in Ids /\ id \in Known(ledger)
  BY <1>1 DEF Acceptance, AcceptWithRelationships
<1>3. /\ superseded \in SUBSET Ids /\ superseded \subseteq Known(ledger)
      /\ overridden \in SUBSET Ids
  BY <1>2, StoreAssumption DEF AcceptedPeers, Known
<1>4. retired \in SUBSET Known(ledger)
  BY <1>3
<1>5. records \in Ledger
  BY <1>2, WithStatusType DEF Typing, TypeOK, Ledger, Statuses
<1>6. PICK order \in Orders(retired) :
        Plan(p, AcceptanceEvents(id, order, overridden), records)
  BY DEF AcceptWithRelationships
<1>7. UNCHANGED <<published, begun>>
  BY DEF AcceptWithRelationships
<1> HIDE DEF id, superseded, retired, overridden, records
<1>8. /\ AcceptanceEvents(id, order, overridden) \in Seq(Event)
      /\ Len(AcceptanceEvents(id, order, overridden)) = Len(order) + 2
      /\ Len(order) \in Nat
  BY <1>2, <1>3, <1>4, AcceptanceEventsType DEF Typing
<1>9. AcceptanceEvents(id, order, overridden) # <<>>
  BY <1>8
<1>10. /\ pc' \in [Procs -> Steps] /\ todo' \in [Procs -> Seq(Event)]
       /\ planned' \in [Procs -> Ledger] /\ Appending'
       /\ UNCHANGED <<ledger, log, tail, lock, op, history>>
  BY <1>5, <1>6, <1>8, <1>9, PlanTyping
<1> QED
  BY <1>7, <1>10 DEF Typing, TypeOK, history

LEMMA PublishTyping ==
    ASSUME Typing, NEW p \in Procs, Publish(p)
    PROVE  Typing'
<1> DEFINE d == op[p].dest
           accepted == AcceptedFor(ledger, d)
           event == [type |-> "memory_exported", dest |-> d, ids |-> accepted]
<1>1. op[p] \in Export
  BY CommandKinds DEF Typing, TypeOK, Publish, NoOp
<1>2. d \in Dests /\ accepted \in SUBSET Ids
  BY <1>1 DEF Export, AcceptedFor
<1>3. << event >> \in Seq(Event) /\ << event >> # <<>>
  BY <1>2 DEF Event, ExportedEvent
<1>4. EmptyLedger \in Ledger
  BY DEF EmptyLedger, Ledger
<1>5. /\ Plan(p, << event >>, EmptyLedger)
      /\ published' = [published EXCEPT ![d] = accepted]
      /\ begun' = [begun EXCEPT ![p] = TRUE]
  BY DEF Publish
<1>6. published' \in [Dests -> SUBSET Ids] /\ begun' \in [Procs -> BOOLEAN]
  BY <1>2, <1>5 DEF Typing, TypeOK
<1> HIDE DEF d, accepted, event
<1>7. /\ pc' \in [Procs -> Steps] /\ todo' \in [Procs -> Seq(Event)]
      /\ planned' \in [Procs -> Ledger] /\ Appending'
      /\ UNCHANGED <<ledger, log, tail, lock, op, history>>
  BY <1>3, <1>4, <1>5, PlanTyping
<1> QED
  BY <1>6, <1>7 DEF Typing, TypeOK, history

LEMMA AppendTyping ==
    ASSUME Typing, NEW p \in Procs, AppendEvent(p)
    PROVE  Typing'
<1>1. /\ todo[p] \in Seq(Event) /\ todo[p] # <<>> /\ Head(todo[p]) \in Event
      /\ Tail(todo[p]) \in Seq(Event) /\ Len(Tail(todo[p])) = Len(todo[p]) - 1
      /\ Len(todo[p]) \in Nat /\ Len(todo[p]) > 0
  BY HeadTailProperties, EmptySeq DEF Typing, TypeOK, Appending, AppendEvent
<1>2. log' \in Seq(Event) /\ tail' \in TailStates /\ Versioned(log)'
  BY <1>1, VersionedAppend DEF Typing, TypeOK, AppendEvent, TailStates
<1>3. /\ UNCHANGED <<ledger, published, lock, started, faults, interrupted>>
      /\ unlogged' \in SUBSET Dests
  BY UnloggedType DEF AppendEvent
<1>4. CASE Len(todo[p]) = 1 /\ op[p].kind = "export"
  <2>1. Finish(p)
    BY <1>4 DEF AppendEvent
  <2> QED
    BY <1>2, <1>3, <2>1, FinishTyping DEF Typing, TypeOK
<1>5. CASE ~(Len(todo[p]) = 1 /\ op[p].kind = "export")
  <2>1. /\ todo' = [todo EXCEPT ![p] = Tail(@)]
        /\ begun' = [begun EXCEPT ![p] = TRUE]
        /\ pc' = [pc EXCEPT ![p] = IF Len(todo[p]) = 1 THEN "writing" ELSE "appending"]
        /\ UNCHANGED <<op, planned>>
    BY <1>5 DEF AppendEvent
  <2>2. /\ todo' \in [Procs -> Seq(Event)] /\ pc' \in [Procs -> Steps]
        /\ begun' \in [Procs -> BOOLEAN]
    BY <1>1, <2>1 DEF Typing, TypeOK, Steps
  <2>3. Tail(todo[p]) # <<>> <=> Len(todo[p]) # 1
    <3> DEFINE t == Tail(todo[p])
    <3>1. t \in Seq(Event) /\ Len(t) = Len(todo[p]) - 1
      BY <1>1
    <3> HIDE DEF t
    <3>2. t # <<>> => Len(t) \in Nat \ {0}
      BY <3>1, EmptySeq, Zenon
    <3>3. t = <<>> => Len(t) = 0
      BY EmptySeq, Zenon
    <3> QED
      BY <1>1, <3>1, <3>2, <3>3 DEF t
  <2>4. Appending'
    BY <2>1, <2>3 DEF Typing, TypeOK, Appending, AppendEvent
  <2> QED
    BY <1>2, <1>3, <2>1, <2>2, <2>4 DEF Typing, TypeOK
<1> QED
  BY <1>4, <1>5

LEMMA AppendTornTyping ==
    ASSUME Typing, NEW p \in Procs, AppendTorn(p)
    PROVE  Typing'
<1>1. todo[p] \in Seq(Event) /\ todo[p] # <<>> /\ Head(todo[p]) \in Event
  BY HeadTailProperties DEF Typing, TypeOK, Appending, AppendTorn
<1>2. /\ log' \in Seq(Event) /\ tail' \in TailStates /\ Versioned(log)'
      /\ UNCHANGED <<ledger, published, lock, started>>
  <2>1. UNCHANGED log \/ log' = Append(log, Head(todo[p]))
    BY DEF AppendTorn
  <2>2. tail' \in TailStates /\ UNCHANGED <<ledger, published, lock, started>>
    BY DEF AppendTorn, TailStates
  <2>3. CASE UNCHANGED log
    BY <2>2, <2>3 DEF Typing, TypeOK
  <2>4. CASE log' = Append(log, Head(todo[p]))
    BY <1>1, <2>2, <2>4, VersionedAppend DEF Typing, TypeOK
  <2> QED
    BY <2>1, <2>3, <2>4
<1>3. faults' \in 0..MaxFaults
  BY StoreAssumption DEF Typing, TypeOK, AppendTorn
<1>4. interrupted' \in BOOLEAN /\ unlogged' \in SUBSET Dests
  BY UnloggedType DEF Typing, TypeOK, AppendTorn
<1>5. Finish(p)
  BY DEF AppendTorn
<1> QED
  BY <1>2, <1>3, <1>4, <1>5, FinishTyping DEF Typing, TypeOK

LEMMA TypingStep == Typing /\ [Next]_vars => Typing'
<1> SUFFICES ASSUME Typing, [Next]_vars PROVE Typing'
  OBVIOUS
<1> USE DEF Typing, TypeOK
<1>1. ASSUME NEW p \in Procs, NEW o \in Commands, Start(p, o) PROVE Typing'
  <2>1. o \in Command
    BY StoreAssumption
  <2>2. started' \in 0..MaxOps
    BY <1>1, StoreAssumption DEF Start
  <2>3. /\ op' \in [Procs -> Command \cup {NoOp}] /\ pc' \in [Procs -> Steps]
        /\ Appending'
    BY <1>1, <2>1 DEF Start, Appending, Steps
  <2> QED
    BY <1>1, <2>2, <2>3 DEF Start, files
<1>2. ASSUME NEW p \in Procs, Acquire(p) PROVE Typing'
  <2>1. pc' \in [Procs -> Steps] /\ lock' \in Procs \cup {Free, Stale} /\ Appending'
    BY <1>2 DEF Acquire, Appending, Steps, work
  <2> QED
    BY <1>2, <2>1 DEF Acquire, files, work, history
<1>3. ASSUME NEW p \in Procs, TimeOut(p) PROVE Typing'
  BY <1>3, ForgetTyping DEF TimeOut, files, history
<1>4. ASSUME NEW p \in Procs, Release(p) PROVE Typing'
  BY <1>4, ForgetTyping DEF Release, files, history
<1>5. ASSUME NEW p \in Procs, Refuse(p) PROVE Typing'
  BY <1>5, FinishTyping DEF Refuse, files, history
<1>6. ASSUME NEW p \in Procs, AppendRefused(p) PROVE Typing'
  <2>1. unlogged' \in SUBSET Dests
    BY <1>6, UnloggedType DEF AppendRefused
  <2> QED
    BY <1>6, <2>1, FinishTyping DEF AppendRefused, files
<1>7. ASSUME NEW p \in Procs, WriteLedger(p) PROVE Typing'
  BY <1>7, FinishTyping DEF WriteLedger, history
<1>8. ASSUME NEW p \in Procs, RepairReadsEvents(p) PROVE Typing'
  <2>1. planned' \in [Procs -> Ledger]
    BY <1>8, ReplayType DEF RepairReadsEvents
  <2>2. pc' \in [Procs -> Steps] /\ Appending'
    BY <1>8 DEF RepairReadsEvents, Appending, Steps
  <2> QED
    BY <1>8, <2>1, <2>2 DEF RepairReadsEvents, files, history
<1>9. ASSUME NEW p \in Procs, RepairFails(p) PROVE Typing'
  BY <1>9, ForgetTyping DEF RepairFails, files, history
<1>10. ASSUME NEW p \in Procs, RepairConfirmed(p) PROVE Typing'
  <2>1. pc' \in [Procs -> Steps] /\ Appending'
    BY <1>10 DEF RepairConfirmed, Appending, Steps, work
  <2> QED
    BY <1>10, <2>1 DEF RepairConfirmed, files, work, history
<1>11. ASSUME NEW p \in Procs, RepairReports(p) PROVE Typing'
  BY <1>11, ForgetTyping DEF RepairReports, files, history
<1>12. ASSUME NEW p \in Procs, Crash(p) PROVE Typing'
  <2>1. faults' \in 0..MaxFaults
    BY <1>12, StoreAssumption DEF Crash
  <2>2. /\ interrupted' \in BOOLEAN /\ lock' \in Procs \cup {Free, Stale}
        /\ unlogged' \in SUBSET Dests
    BY <1>12, UnloggedType DEF Crash
  <2>3. Forget(p) /\ UNCHANGED <<files, started>>
    BY <1>12 DEF Crash
  <2> QED
    BY <2>1, <2>2, <2>3, ForgetTyping DEF files
<1>13. ASSUME NEW p \in Procs, WriteFails(p) PROVE Typing'
  <2>1. faults' \in 0..MaxFaults
    BY <1>13, StoreAssumption DEF WriteFails
  <2>2. interrupted' \in BOOLEAN /\ unlogged' \in SUBSET Dests
    BY <1>13, UnloggedType DEF WriteFails
  <2> QED
    BY <1>13, <2>1, <2>2, FinishTyping DEF WriteFails, files
<1>14. ASSUME NEW p \in Procs, ReleaseFails(p) PROVE Typing'
  <2>1. faults' \in 0..MaxFaults
    BY <1>14, StoreAssumption DEF ReleaseFails
  <2> QED
    BY <1>14, <2>1, ForgetTyping DEF ReleaseFails, files
<1>15. CASE RemoveStaleLock
  <2>1. lock' \in Procs \cup {Free, Stale}
    BY <1>15 DEF RemoveStaleLock
  <2>2. UNCHANGED <<files, pc, work, history>>
    BY <1>15 DEF RemoveStaleLock
  <2> QED
    BY <2>1, <2>2 DEF files, work, history, Appending
<1>16. CASE UNCHANGED vars
  BY <1>16 DEF vars, files, work, history, Appending
<1> QED
  BY <1>1, <1>2, <1>3, <1>4, <1>5, <1>6, <1>7, <1>8, <1>9, <1>10, <1>11, <1>12,
     <1>13, <1>14, <1>15, <1>16, ProposeTyping, UpdateStatusTyping, AcceptTyping,
     PublishTyping, AppendTyping, AppendTornTyping
     DEF Next, ProcessStep, AllDone

\* The files, the lock and every process stay within their types, also through
\* crashes, torn writes and repairs.
THEOREM TypeCorrect == Spec => []TypeOK
<1>1. Typing => TypeOK
  BY DEF Typing
<1> QED
  BY TypingInit, TypingStep, <1>1, PTL DEF Spec

-----------------------------------------------------------------------------
(* Mutual exclusion *)

LEMMA ExclusionStep ==
    Typing /\ MutualExclusion /\ [Next]_vars => MutualExclusion'
<1> SUFFICES ASSUME Typing, MutualExclusion, [Next]_vars PROVE MutualExclusion'
  OBVIOUS
<1>1. ASSUME NEW p \in Procs, NEW step \in Steps, pc' = [pc EXCEPT ![p] = step],
             pc[p] \in Critical \/ step \notin Critical, UNCHANGED lock
      PROVE  MutualExclusion'
  BY <1>1 DEF Typing, TypeOK, MutualExclusion
<1>2. ASSUME NEW p \in Procs, pc' = [pc EXCEPT ![p] = "idle"], lock' # p,
             lock = p \/ UNCHANGED lock
      PROVE  MutualExclusion'
  BY <1>2 DEF Typing, TypeOK, MutualExclusion, Critical
<1>3. ASSUME NEW p \in Procs, Acquire(p) PROVE MutualExclusion'
  BY <1>3, StoreAssumption DEF Acquire, Typing, TypeOK, MutualExclusion, Critical
<1>4. ASSUME NEW p \in Procs, Release(p) \/ ReleaseFails(p) PROVE MutualExclusion'
  <2>1. lock = p
    BY <1>4 DEF Release, ReleaseFails, MutualExclusion, Critical
  <2> QED
    BY <1>2, <1>4, <2>1, StoreAssumption DEF Release, ReleaseFails, Forget
<1>5. ASSUME NEW p \in Procs, Crash(p) PROVE MutualExclusion'
  BY <1>2, <1>5, StoreAssumption DEF Crash, Forget
<1>6. ASSUME NEW p \in Procs, NEW o \in Commands, Start(p, o) PROVE MutualExclusion'
  BY <1>1, <1>6 DEF Start, Critical, Steps
<1>7. ASSUME NEW p \in Procs,
             TimeOut(p) \/ RepairFails(p) \/ RepairReports(p)
      PROVE  MutualExclusion'
  BY <1>1, <1>7 DEF TimeOut, RepairFails, RepairReports, Forget, Critical, Steps
<1>8. ASSUME NEW p \in Procs, RepairReadsEvents(p) \/ RepairConfirmed(p)
      PROVE  MutualExclusion'
  BY <1>1, <1>8 DEF RepairReadsEvents, RepairConfirmed, Critical, Steps
<1>9. ASSUME NEW p \in Procs,
             \/ Refuse(p) \/ AppendRefused(p) \/ WriteLedger(p)
             \/ WriteFails(p) \/ AppendTorn(p)
      PROVE  MutualExclusion'
  BY <1>1, <1>9 DEF Refuse, AppendRefused, WriteLedger, WriteFails, AppendTorn,
     Finish, Critical, Steps
<1>10. ASSUME NEW p \in Procs,
              \/ Propose(p) \/ UpdateStatus(p)
              \/ AcceptWithRelationships(p) \/ Publish(p)
       PROVE  MutualExclusion'
  <2>1. /\ pc[p] = "locked" /\ pc' = [pc EXCEPT ![p] = "appending"]
        /\ UNCHANGED lock
    BY <1>10 DEF Propose, UpdateStatus, AcceptWithRelationships, Publish, Plan
  <2> QED
    BY <1>1, <2>1 DEF Critical, Steps
<1>11. ASSUME NEW p \in Procs, AppendEvent(p) PROVE MutualExclusion'
  <2>1. /\ pc[p] = "appending" /\ UNCHANGED lock
        /\ \/ pc' = [pc EXCEPT ![p] = "releasing"]
           \/ pc' = [pc EXCEPT ![p] = "writing"]
           \/ pc' = [pc EXCEPT ![p] = "appending"]
    BY <1>11 DEF AppendEvent, Finish
  <2> QED
    BY <1>1, <2>1 DEF Critical, Steps
<1>12. CASE RemoveStaleLock
  BY <1>12, StoreAssumption DEF RemoveStaleLock, MutualExclusion
<1>13. CASE UNCHANGED vars
  BY <1>13 DEF vars, MutualExclusion
<1> QED
  BY <1>3, <1>4, <1>5, <1>6, <1>7, <1>8, <1>9, <1>10, <1>11, <1>12, <1>13
     DEF Next, ProcessStep, AllDone

\* No two processes are ever inside withStoreLock together, for any number of
\* processes and whatever crashes, times out or fails.
THEOREM Exclusion == Spec => []MutualExclusion
<1>1. Init => MutualExclusion
  BY DEF Init, MutualExclusion, Critical
<1> QED
  BY TypingInit, TypingStep, ExclusionStep, <1>1, PTL DEF Spec

-----------------------------------------------------------------------------
(* The lock as the commands use it is the abstract lock *)

LEMMA HolderOwns == MutualExclusion => Holders \subseteq {lock}
  BY DEF MutualExclusion, Holders

\* A step of one process adds it to the holders, or takes it away.
LEMMA HoldersStep ==
    ASSUME Typing, NEW p \in Procs, NEW step \in Steps, pc' = [pc EXCEPT ![p] = step]
    PROVE  Holders' = IF step \in Critical THEN Holders \cup {p} ELSE Holders \ {p}
  BY DEF Typing, TypeOK, Holders

\* Every command, with its error paths, crashes and failed releases, takes and gives
\* back the lock as the abstract lock allows (withStoreLock).
THEOREM LockIsAbstract == Spec => UsesAbstractLock
<1>1. Init => TheLock!Init
  BY StoreAssumption DEF Init, TheLock!Init, Holders, Critical
<1>2. ASSUME Typing, MutualExclusion, [Next]_vars
      PROVE  [TheLock!Next]_<<Holders, (lock = Stale)>>
  <2> USE <1>2, StoreAssumption
  <2>1. ASSUME NEW p \in Procs, NEW step \in Steps, pc' = [pc EXCEPT ![p] = step],
               pc[p] \in Critical <=> step \in Critical, UNCHANGED lock
        PROVE  UNCHANGED <<Holders, (lock = Stale)>>
    <3>1. p \in Holders <=> step \in Critical
      BY <2>1 DEF Holders
    <3>2. Holders' = IF step \in Critical THEN Holders \cup {p} ELSE Holders \ {p}
      BY <1>2, <2>1, HoldersStep
    <3>3. Holders' = Holders
      BY <3>1, <3>2
    <3> QED BY <2>1, <3>3
  <2>2. ASSUME NEW p \in Procs, Acquire(p) PROVE TheLock!Enter(p)
    <3>1. Holders = {} /\ lock # Stale /\ lock' # Stale
      BY <2>2, HolderOwns DEF Acquire, Holders
    <3>2. PICK step \in {"writing", "locked"} : pc' = [pc EXCEPT ![p] = step]
      BY <2>2 DEF Acquire
    <3>3. Holders' = {p}
      BY <3>1, <3>2, HoldersStep DEF Steps, Critical
    <3> QED BY <3>1, <3>3 DEF TheLock!Enter
  <2>3. ASSUME NEW p \in Procs, Release(p) \/ ReleaseFails(p)
        PROVE  TheLock!Leave(p) \/ TheLock!Abandon
    <3>1. lock = p /\ Holders = {p}
      BY <2>3, HolderOwns DEF Release, ReleaseFails, Holders, MutualExclusion, Critical
    <3>2. Holders' = {}
      BY <2>3, <3>1, HoldersStep DEF Release, ReleaseFails, Forget, Steps, Critical
    <3> QED
      BY <2>3, <3>1, <3>2
         DEF Release, ReleaseFails, TheLock!Leave, TheLock!Abandon
  <2>4. ASSUME NEW p \in Procs, Crash(p)
        PROVE  TheLock!Abandon \/ UNCHANGED <<Holders, (lock = Stale)>>
    <3>1. Holders' = Holders \ {p}
      BY <2>4, HoldersStep DEF Crash, Forget, Steps, Critical
    <3>2. CASE lock = p
      BY <2>4, <3>1, <3>2, HolderOwns DEF Crash, TheLock!Abandon
    <3>3. CASE lock # p
      BY <2>4, <3>1, <3>3, HolderOwns DEF Crash
    <3> QED BY <3>2, <3>3
  <2>5. ASSUME NEW p \in Procs, NEW o \in Commands, Start(p, o)
        PROVE  UNCHANGED <<Holders, (lock = Stale)>>
    BY <2>1, <2>5 DEF Start, Critical, Steps
  <2>6. ASSUME NEW p \in Procs,
               \/ TimeOut(p) \/ RepairFails(p) \/ RepairReports(p)
               \/ RepairReadsEvents(p) \/ RepairConfirmed(p)
        PROVE  UNCHANGED <<Holders, (lock = Stale)>>
    BY <2>1, <2>6 DEF TimeOut, RepairFails, RepairReports, RepairReadsEvents,
       RepairConfirmed, Forget, Critical, Steps
  <2>7. ASSUME NEW p \in Procs,
               \/ Refuse(p) \/ AppendRefused(p) \/ WriteLedger(p)
               \/ WriteFails(p) \/ AppendTorn(p)
        PROVE  UNCHANGED <<Holders, (lock = Stale)>>
    BY <2>1, <2>7 DEF Refuse, AppendRefused, WriteLedger, WriteFails, AppendTorn,
       Finish, Critical, Steps
  <2>8. ASSUME NEW p \in Procs,
               \/ Propose(p) \/ UpdateStatus(p)
               \/ AcceptWithRelationships(p) \/ Publish(p)
        PROVE  UNCHANGED <<Holders, (lock = Stale)>>
    <3>1. /\ pc[p] = "locked" /\ pc' = [pc EXCEPT ![p] = "appending"]
          /\ UNCHANGED lock
      BY <2>8 DEF Propose, UpdateStatus, AcceptWithRelationships, Publish, Plan
    <3> QED BY <2>1, <3>1 DEF Critical, Steps
  <2>9. ASSUME NEW p \in Procs, AppendEvent(p)
        PROVE  UNCHANGED <<Holders, (lock = Stale)>>
    <3>1. /\ pc[p] = "appending" /\ UNCHANGED lock
          /\ \E step \in {"releasing", "writing", "appending"} :
                pc' = [pc EXCEPT ![p] = step]
      BY <2>9 DEF AppendEvent, Finish
    <3> QED BY <2>1, <3>1 DEF Critical, Steps
  <2>10. CASE RemoveStaleLock
    <3>1. UNCHANGED Holders
      BY <2>10 DEF RemoveStaleLock, Holders
    <3> QED BY <2>10, <3>1 DEF RemoveStaleLock, TheLock!Next, TheLock!Clear
  <2>11. CASE UNCHANGED vars
    BY <2>11 DEF vars, Holders
  <2> QED
    BY <2>2, <2>3, <2>4, <2>5, <2>6, <2>7, <2>8, <2>9, <2>10, <2>11
       DEF Next, ProcessStep, AllDone, TheLock!Next
<1>3. Init => MutualExclusion
  BY DEF Init, MutualExclusion, Critical
<1> QED
  BY <1>1, <1>2, <1>3, TypingInit, TypingStep, ExclusionStep, PTL
     DEF Spec, UsesAbstractLock, TheLock!Spec

-----------------------------------------------------------------------------
(* What the history holds: the ledger, the plans and the named records *)

\* Version r of record id is in some event.
Recorded(events, id, r) ==
    \E i \in Carriers(events, id) : events[i].record = r

\* A process only ever writes versions that are, or are about to be, logged.
PlansAreLogged ==
    \A p \in Procs : \A id \in Known(planned[p]) :
        \/ Recorded(log, id, planned[p][id])
        \/ Recorded(todo[p], id, planned[p][id])

\* The records that must have been proposed before event e.
Needs(e) ==
    IF e.type = "memory_proposed" THEN Supersedes[e.id] \cup Conflicts[e.id]
    ELSE IF e.type = "memory_status_changed" THEN {e.id}
    ELSE {}

ProposedIn(events, n) ==
    {x \in Ids : \E j \in 1..n : events[j].type = "memory_proposed" /\ events[j].id = x}

LogIsBacked == \A i \in DOMAIN log : Needs(log[i]) \subseteq ProposedIn(log, i - 1)

TodoIsBacked ==
    \A p \in Procs : \A j \in DOMAIN todo[p] :
        Needs(todo[p][j]) \subseteq ProposedIn(log, Len(log))

History == LedgerIsLogged /\ PlansAreLogged /\ LogIsBacked /\ TodoIsBacked

\* A step that changes neither file, and in which a process keeps its plan or
\* gives it up.
KeepsOrDrops ==
    /\ UNCHANGED <<ledger, log>>
    /\ \A q \in Procs :
        \/ planned'[q] = planned[q] /\ todo'[q] = todo[q]
        \/ planned'[q] = EmptyLedger /\ todo'[q] = <<>>

LEMMA NothingKnown == Known(EmptyLedger) = {}
BY DEF Known, EmptyLedger, NoRecord

LEMMA QuietSteps ==
    ASSUME Typing, [Next]_vars
    PROVE  \/ KeepsOrDrops
           \/ \E p \in Procs :
                \/ Propose(p) \/ UpdateStatus(p)
                \/ AcceptWithRelationships(p) \/ Publish(p)
                \/ WriteLedger(p) \/ RepairReadsEvents(p)
                \/ AppendEvent(p)
                \/ AppendTorn(p) /\ log' = Append(log, Head(todo[p]))
<1>1. ASSUME UNCHANGED <<files, planned, todo>> PROVE KeepsOrDrops
  BY <1>1 DEF KeepsOrDrops, files
<1>2. ASSUME NEW p \in Procs, UNCHANGED <<ledger, log>>, Forget(p) \/ Finish(p)
      PROVE  KeepsOrDrops
  BY <1>2 DEF KeepsOrDrops, Forget, Finish, Typing, TypeOK
<1>3. ASSUME NEW p \in Procs, NEW o \in Commands, Start(p, o) PROVE KeepsOrDrops
  BY <1>1, <1>3 DEF Start
<1>4. ASSUME NEW p \in Procs,
             \/ TimeOut(p) \/ Release(p) \/ Refuse(p) \/ AppendRefused(p)
             \/ RepairFails(p) \/ RepairReports(p)
             \/ Crash(p) \/ WriteFails(p) \/ ReleaseFails(p)
      PROVE  KeepsOrDrops
  BY <1>2, <1>4 DEF TimeOut, Release, Refuse, AppendRefused, RepairFails,
     RepairReports, Crash, WriteFails, ReleaseFails, files
<1>5. ASSUME NEW p \in Procs, Acquire(p) \/ RepairConfirmed(p) PROVE KeepsOrDrops
  BY <1>1, <1>5 DEF Acquire, RepairConfirmed, work
<1>6. ASSUME NEW p \in Procs, AppendTorn(p)
      PROVE  KeepsOrDrops \/ log' = Append(log, Head(todo[p]))
  BY <1>2, <1>6 DEF AppendTorn
<1>7. CASE RemoveStaleLock
  BY <1>1, <1>7 DEF RemoveStaleLock, work
<1>8. CASE UNCHANGED vars
  BY <1>1, <1>8 DEF vars, work
<1> QED
  BY <1>3, <1>4, <1>5, <1>6, <1>7, <1>8 DEF Next, ProcessStep, AllDone

LEMMA AppendKeepsRecorded ==
    ASSUME NEW events \in Seq(Event), NEW e \in Event, NEW id, NEW r
    PROVE  /\ Recorded(events, id, r) => Recorded(Append(events, e), id, r)
           /\ Carries(e, id) /\ e.record = r => Recorded(Append(events, e), id, r)
<1>1. /\ Len(events) \in Nat /\ Append(events, e)[Len(events) + 1] = e
      /\ \A i \in 1..Len(events) : Append(events, e)[i] = events[i]
  OBVIOUS
<1> QED
  BY <1>1, AppendCarriers DEF Recorded

LEMMA AppendKeepsProposed ==
    ASSUME NEW events \in Seq(Event), NEW e \in Event, NEW n \in 0..Len(events)
    PROVE  /\ ProposedIn(Append(events, e), n) = ProposedIn(events, n)
           /\ ProposedIn(events, n) \subseteq ProposedIn(Append(events, e), Len(events) + 1)
<1>1. /\ Len(events) \in Nat
      /\ \A i \in 1..Len(events) : Append(events, e)[i] = events[i]
  OBVIOUS
<1> QED
  BY <1>1 DEF ProposedIn

\* Every record of the ledger was proposed.
LEMMA KnownWasProposed ==
    ASSUME Typing, LedgerIsLogged, LogIsBacked
    PROVE  Known(ledger) \subseteq ProposedIn(log, Len(log))
<1> SUFFICES ASSUME NEW id \in Known(ledger)
             PROVE  id \in ProposedIn(log, Len(log))
  OBVIOUS
<1>1. id \in Ids
  BY DEF Known
<1>2. PICK i \in Carriers(log, id) : TRUE
  BY DEF LedgerIsLogged
<1>3. i \in 1..Len(log) /\ Len(log) \in Nat /\ Carries(log[i], id)
  BY DEF Carriers, Typing, TypeOK
<1>4. CASE log[i].type = "memory_proposed"
  BY <1>1, <1>3, <1>4 DEF Carries, ProposedIn
<1>5. CASE log[i].type = "memory_status_changed"
  <2>1. i \in DOMAIN log /\ Needs(log[i]) = {id}
    BY <1>3, <1>5 DEF Needs, Carries, Carriers
  <2>2. id \in ProposedIn(log, i - 1)
    BY <2>1 DEF LogIsBacked
  <2> QED
    BY <1>3, <2>2 DEF ProposedIn
<1> QED
  BY <1>3, <1>4, <1>5 DEF Carries

LEMMA KeepsOrDropsHistory == Typing /\ History /\ KeepsOrDrops => History'
<1> SUFFICES ASSUME Typing, History, KeepsOrDrops PROVE History'
  OBVIOUS
<1>1. LedgerIsLogged' /\ LogIsBacked'
  BY DEF History, KeepsOrDrops, LedgerIsLogged, LogIsBacked
<1>2. PlansAreLogged'
  BY NothingKnown DEF History, KeepsOrDrops, PlansAreLogged
<1>3. TodoIsBacked'
  BY DEF History, KeepsOrDrops, TodoIsBacked
<1> QED
  BY <1>1, <1>2, <1>3 DEF History

\* A plan that writes what it knows from the ledger or is about to log, and whose
\* events need only records of the ledger.
LEMMA PlanHistory ==
    ASSUME Typing, History, NEW p \in Procs,
           NEW events \in Seq(Event), NEW records \in Ledger,
           Plan(p, events, records),
           \A id \in Known(records) :
                \/ id \in Known(ledger) /\ records[id] = ledger[id]
                \/ Recorded(events, id, records[id]),
           \A j \in DOMAIN events : Needs(events[j]) \subseteq Known(ledger)
    PROVE  History'
<1>1. UNCHANGED <<ledger, log>>
  BY DEF Plan
<1>2. /\ planned' = [planned EXCEPT ![p] = records]
      /\ todo' = [todo EXCEPT ![p] = events]
  BY DEF Plan
<1>3. LedgerIsLogged' /\ LogIsBacked'
  BY <1>1 DEF History, LedgerIsLogged, LogIsBacked
<1>4. \A id \in Known(ledger) : Recorded(log, id, ledger[id])
  BY DEF History, LedgerIsLogged, Recorded
<1>5. PlansAreLogged'
  BY <1>1, <1>2, <1>4 DEF History, PlansAreLogged, Typing, TypeOK
<1>6. Known(ledger) \subseteq ProposedIn(log, Len(log))
  BY KnownWasProposed DEF History
<1>7. TodoIsBacked'
  BY <1>1, <1>2, <1>6 DEF History, TodoIsBacked, Typing, TypeOK
<1> QED
  BY <1>3, <1>5, <1>7 DEF History

LEMMA ProposeHistory ==
    ASSUME Typing, History, NEW p \in Procs, Propose(p)
    PROVE  History'
<1> DEFINE id == op[p].id
           record == WithStatus(id, InitialStatus(id, op[p].decision))
           event == [type |-> "memory_proposed", id |-> id, record |-> record]
           records == [ledger EXCEPT ![id] = record]
<1>1. op[p] \in Proposal
  BY CommandKinds DEF Typing, TypeOK, Propose, NoOp
<1>2. id \in Ids /\ record \in Record
  BY <1>1, InitialStatusType, WithStatusType DEF Proposal, Typing
<1>3. << event >> \in Seq(Event)
  BY <1>2 DEF Event, ProposedEvent
<1>4. records \in Ledger
  BY <1>2 DEF Typing, TypeOK, Ledger
<1>5. /\ Plan(p, << event >>, records)
      /\ Supersedes[id] \cup Conflicts[id] \subseteq Known(ledger)
  BY DEF Propose
<1>6. Recorded(<< event >>, id, record)
  BY DEF Recorded, Carriers, Carries
<1>7. \A x \in Known(records) :
        \/ x \in Known(ledger) /\ records[x] = ledger[x]
        \/ Recorded(<< event >>, x, records[x])
  BY <1>2, <1>6 DEF Known, Typing, TypeOK, Ledger
<1>8. \A j \in DOMAIN << event >> : Needs(<< event >>[j]) \subseteq Known(ledger)
  BY <1>5 DEF Needs
<1> HIDE DEF id, record, event, records
<1> QED
  BY <1>3, <1>4, <1>5, <1>7, <1>8, PlanHistory

LEMMA UpdateStatusHistory ==
    ASSUME Typing, History, NEW p \in Procs, UpdateStatus(p)
    PROVE  History'
<1> DEFINE id == op[p].id
           status == op[p].status
           rest == IF status = "retired" THEN << Resolution(id, {id}, {}) >> ELSE <<>>
           events == << StatusChange(id, status) >> \o rest
           records == [ledger EXCEPT ![id] = WithStatus(id, status)]
<1>1. op[p] \in Review
  BY CommandKinds DEF Typing, TypeOK, UpdateStatus, NoOp
<1>2. /\ id \in Known(ledger) /\ id \in Ids /\ status \in Statuses
      /\ WithStatus(id, status) \in Record
  BY <1>1, WithStatusType DEF Review, UpdateStatus, Typing
<1>3. StatusChange(id, status) \in Event /\ Resolution(id, {id}, {}) \in Event
  BY <1>2, StatusChangeType, ResolutionType DEF Event, Typing
<1>4. rest \in Seq(Event) /\ Len(rest) \in {0, 1}
  BY <1>3
<1>5. /\ events \in Seq(Event) /\ events[1] = StatusChange(id, status)
      /\ DOMAIN events \subseteq {1, 2}
      /\ 1 \in DOMAIN events
      /\ \A j \in DOMAIN events : j = 2 => events[j] = Resolution(id, {id}, {})
  <2> DEFINE first == << StatusChange(id, status) >>
  <2>1. /\ first \in Seq(Event) /\ Len(first) = 1
        /\ first[1] = StatusChange(id, status)
    BY <1>3
  <2>2. Len(rest) = 1 => rest[1] = Resolution(id, {id}, {})
    OBVIOUS
  <2> HIDE DEF first, rest
  <2>3. /\ first \o rest \in Seq(Event) /\ Len(first \o rest) = Len(first) + Len(rest)
        /\ \A i \in 1..(Len(first) + Len(rest)) :
             (first \o rest)[i] = IF i <= Len(first) THEN first[i] ELSE rest[i - Len(first)]
    BY <1>4, <2>1, ConcatProperties
  <2>4. DOMAIN (first \o rest) = 1..(1 + Len(rest))
    BY <2>1, <2>3
  <2> QED
    BY <1>4, <2>1, <2>2, <2>3, <2>4 DEF first
<1>6. records \in Ledger
  BY <1>2 DEF Typing, TypeOK, Ledger
<1>7. Plan(p, events, records)
  BY DEF UpdateStatus
<1> HIDE DEF events
<1>8. Recorded(events, id, WithStatus(id, status))
  BY <1>5 DEF Recorded, Carriers, Carries, StatusChange
<1>9. \A x \in Known(records) :
        \/ x \in Known(ledger) /\ records[x] = ledger[x]
        \/ Recorded(events, x, records[x])
  BY <1>2, <1>8 DEF Known, Typing, TypeOK, Ledger
<1>10. \A j \in DOMAIN events : Needs(events[j]) \subseteq Known(ledger)
  BY <1>2, <1>5 DEF Needs, StatusChange, Resolution
<1> HIDE DEF id, status, rest, records
<1> QED
  BY <1>5, <1>6, <1>7, <1>9, <1>10, PlanHistory

LEMMA AcceptHistory ==
    ASSUME Typing, History, NEW p \in Procs, AcceptWithRelationships(p)
    PROVE  History'
<1> DEFINE id == op[p].id
           superseded == AcceptedPeers(ledger, id, Supersedes[id])
           retired == IF op[p].retire THEN superseded ELSE {}
           overridden == (superseded \ retired)
                         \cup AcceptedPeers(ledger, id, Conflicts[id])
           records == [x \in Ids |->
                        IF x = id THEN WithStatus(id, "accepted")
                        ELSE IF x \in retired THEN WithStatus(x, "retired")
                        ELSE ledger[x]]
<1>1. op[p] \in Acceptance
  BY CommandKinds DEF Typing, TypeOK, AcceptWithRelationships, NoOp
<1>2. id \in Ids /\ id \in Known(ledger)
  BY <1>1 DEF Acceptance, AcceptWithRelationships
<1>3. /\ retired \in SUBSET Known(ledger) /\ overridden \in SUBSET Ids
  BY <1>2, StoreAssumption DEF AcceptedPeers, Known
<1>4. records \in Ledger
  BY <1>2, WithStatusType DEF Typing, TypeOK, Ledger, Statuses
<1>5. PICK order \in Orders(retired) :
        Plan(p, AcceptanceEvents(id, order, overridden), records)
  BY DEF AcceptWithRelationships
<1>13. records = [x \in Ids |->
                  IF x = id THEN WithStatus(id, "accepted")
                  ELSE IF x \in retired THEN WithStatus(x, "retired")
                  ELSE ledger[x]]
  OBVIOUS
<1> HIDE DEF id, superseded, retired, overridden, records
<1> DEFINE events == AcceptanceEvents(id, order, overridden)
           n == Len(order)
<1>6. /\ n \in Nat /\ events \in Seq(Event) /\ Len(events) = n + 2
      /\ \A i \in 1..n : order[i] \in retired
  BY <1>2, <1>3, AcceptanceEventsType DEF Typing
<1>7. /\ DOMAIN events = 1..(n + 2)
      /\ events[1] = StatusChange(id, "accepted")
      /\ \A i \in 1..n : events[i + 1] = StatusChange(order[i], "retired")
      /\ events[n + 2] = Resolution(id, {order[j] : j \in DOMAIN order}, overridden)
  BY <1>6 DEF AcceptanceEvents
<1>8. Cardinality(retired) \in Nat
  BY <1>3, StoreAssumption, FS_Subset, FS_CardinalityType DEF Known
<1>9. \A x \in retired : \E i \in 1..n : order[i] = x
  BY <1>8 DEF Orders
<1> HIDE DEF events, n
<1>10. \A x \in Known(records) :
         \/ x \in Known(ledger) /\ records[x] = ledger[x]
         \/ Recorded(events, x, records[x])
  <2>1. Recorded(events, id, WithStatus(id, "accepted"))
    BY <1>6, <1>7 DEF Recorded, Carriers, Carries, StatusChange
  <2>2. \A x \in retired : Recorded(events, x, WithStatus(x, "retired"))
    <3> SUFFICES ASSUME NEW x \in retired
                 PROVE  Recorded(events, x, WithStatus(x, "retired"))
      OBVIOUS
    <3>1. PICK i \in 1..n : order[i] = x
      BY <1>9
    <3>2. i + 1 \in DOMAIN events /\ events[i + 1] = StatusChange(x, "retired")
      BY <1>6, <1>7, <3>1
    <3> QED
      BY <3>2 DEF Recorded, Carriers, Carries, StatusChange
  <2> QED
    BY <1>13, <2>1, <2>2 DEF Known
<1>11. \A j \in DOMAIN events : Needs(events[j]) \subseteq Known(ledger)
  <2> SUFFICES ASSUME NEW j \in 1..(n + 2)
               PROVE  Needs(events[j]) \subseteq Known(ledger)
    BY <1>7
  <2>1. CASE j = 1
    BY <1>2, <1>7, <2>1 DEF Needs, StatusChange
  <2>2. CASE j # 1 /\ j # n + 2
    <3>1. /\ j - 1 \in 1..n /\ events[(j - 1) + 1] = StatusChange(order[j - 1], "retired")
          /\ (j - 1) + 1 = j
      BY <1>6, <1>7, <2>2
    <3> QED
      BY <1>3, <1>6, <3>1 DEF Needs, StatusChange
  <2>3. CASE j = n + 2
    BY <1>7, <2>3 DEF Needs, Resolution
  <2> QED
    BY <2>1, <2>2, <2>3
<1>12. Plan(p, events, records)
  BY <1>5 DEF events
<1> QED
  BY <1>4, <1>6, <1>10, <1>11, <1>12, PlanHistory

LEMMA PublishHistory ==
    ASSUME Typing, History, NEW p \in Procs, Publish(p)
    PROVE  History'
<1> DEFINE d == op[p].dest
           event == [type |-> "memory_exported", dest |-> d,
                     ids |-> AcceptedFor(ledger, d)]
<1>1. op[p] \in Export
  BY CommandKinds DEF Typing, TypeOK, Publish, NoOp
<1>2. << event >> \in Seq(Event)
  BY <1>1 DEF Event, ExportedEvent, Export, AcceptedFor
<1>3. EmptyLedger \in Ledger
  BY DEF EmptyLedger, Ledger
<1>4. Plan(p, << event >>, EmptyLedger)
  BY DEF Publish
<1>5. \A j \in DOMAIN << event >> : Needs(<< event >>[j]) \subseteq Known(ledger)
  BY DEF Needs
<1> HIDE DEF d, event
<1> QED
  BY <1>2, <1>3, <1>4, <1>5, NothingKnown, PlanHistory

\* The first of a process's events moves to the log: the process either goes on
\* with the rest of its plan or gives it up.
LEMMA AppendHistory ==
    ASSUME Typing, History, NEW p \in Procs, todo[p] # <<>>,
           log' = Append(log, Head(todo[p])), UNCHANGED ledger,
           \/ planned' = planned /\ todo' = [todo EXCEPT ![p] = Tail(@)]
           \/ Finish(p)
    PROVE  History'
<1> DEFINE e == Head(todo[p])
           n == Len(log)
<1>1. /\ todo[p] \in Seq(Event) /\ e \in Event /\ e = todo[p][1]
      /\ Tail(todo[p]) \in Seq(Event)
      /\ 1 \in DOMAIN todo[p]
      /\ \A j \in DOMAIN todo[p] : j # 1 =>
            j - 1 \in DOMAIN Tail(todo[p]) /\ Tail(todo[p])[j - 1] = todo[p][j]
      /\ \A j \in DOMAIN Tail(todo[p]) :
            j + 1 \in DOMAIN todo[p] /\ Tail(todo[p])[j] = todo[p][j + 1]
  BY HeadTailProperties DEF Typing, TypeOK
<1>2. /\ log \in Seq(Event) /\ n \in Nat /\ DOMAIN log = 1..n
      /\ log' \in Seq(Event) /\ DOMAIN log' = 1..(n + 1) /\ Len(log') = n + 1
      /\ log'[n + 1] = e /\ \A i \in 1..n : log'[i] = log[i]
  BY <1>1 DEF Typing, TypeOK
<1>3. \A id : \A r : Recorded(log, id, r) => Recorded(log', id, r)
  BY <1>1, <1>2, AppendKeepsRecorded
<1>4. \A id : \A r : Carries(e, id) /\ e.record = r => Recorded(log', id, r)
  BY <1>1, <1>2, AppendKeepsRecorded
<1>5. /\ ProposedIn(log, n) \subseteq ProposedIn(log', n + 1)
      /\ \A i \in 0..n : ProposedIn(log', i) = ProposedIn(log, i)
  BY <1>1, <1>2, AppendKeepsProposed
<1>6. LedgerIsLogged'
  <2>1. \A id \in Known(ledger) : Recorded(log, id, ledger[id])
    BY DEF History, LedgerIsLogged, Recorded
  <2>2. \A id \in Known(ledger') : Recorded(log', id, ledger'[id])
    BY <1>3, <2>1
  <2> QED
    BY <2>2 DEF LedgerIsLogged, Recorded
<1>7. LogIsBacked'
  <2> SUFFICES ASSUME NEW i \in 1..(n + 1)
               PROVE  Needs(log'[i]) \subseteq ProposedIn(log', i - 1)
    BY <1>2 DEF LogIsBacked
  <2>1. CASE i \in 1..n
    <3>1. Needs(log[i]) \subseteq ProposedIn(log, i - 1)
      BY <1>2, <2>1 DEF History, LogIsBacked
    <3>2. i - 1 \in 0..n
      BY <1>2, <2>1
    <3> QED
      BY <1>2, <1>5, <2>1, <3>1, <3>2
  <2>2. CASE i = n + 1
    BY <1>1, <1>2, <1>5, <2>2 DEF History, TodoIsBacked
  <2> QED
    BY <1>2, <2>1, <2>2
<1> HIDE DEF e, n
<1>8. ASSUME planned' = planned, todo' = [todo EXCEPT ![p] = Tail(@)]
      PROVE  PlansAreLogged' /\ TodoIsBacked'
  <2>1. ASSUME NEW q \in Procs, NEW id \in Known(planned[q])
        PROVE  \/ Recorded(log', id, planned[q][id])
               \/ Recorded(todo'[q], id, planned[q][id])
    <3>1. CASE Recorded(log, id, planned[q][id])
      BY <1>3, <3>1
    <3>2. CASE Recorded(todo[q], id, planned[q][id]) /\ q # p
      BY <1>8, <3>2 DEF Typing, TypeOK
    <3>3. CASE Recorded(todo[q], id, planned[q][id]) /\ q = p
      <4>1. PICK j \in DOMAIN todo[p] :
              Carries(todo[p][j], id) /\ todo[p][j].record = planned[p][id]
        BY <3>3 DEF Recorded, Carriers
      <4>2. CASE j = 1
        BY <1>1, <1>4, <3>3, <4>1, <4>2
      <4>3. CASE j # 1
        <5>1. todo'[p] = Tail(todo[p])
          BY <1>8 DEF Typing, TypeOK
        <5>2. /\ j - 1 \in DOMAIN Tail(todo[p])
              /\ Tail(todo[p])[j - 1] = todo[p][j]
          BY <1>1, <4>1, <4>3
        <5>3. Recorded(Tail(todo[p]), id, planned[p][id])
          BY <4>1, <5>2 DEF Recorded, Carriers
        <5> QED
          BY <3>3, <5>1, <5>3
      <4> QED
        BY <4>2, <4>3
    <3> QED
      BY <3>1, <3>2, <3>3 DEF History, PlansAreLogged
  <2>2. ASSUME NEW q \in Procs, NEW j \in DOMAIN todo'[q]
        PROVE  Needs(todo'[q][j]) \subseteq ProposedIn(log', Len(log'))
    <3>1. \E i \in DOMAIN todo[q] : todo'[q][j] = todo[q][i]
      BY <1>1, <1>8, <2>2 DEF Typing, TypeOK
    <3> QED
      BY <1>2, <1>5, <3>1 DEF History, TodoIsBacked, n
  <2> QED
    BY <1>8, <2>1, <2>2 DEF PlansAreLogged, TodoIsBacked
<1>9. ASSUME Finish(p) PROVE PlansAreLogged' /\ TodoIsBacked'
  <2>1. \A q \in Procs :
          \/ planned'[q] = planned[q] /\ todo'[q] = todo[q]
          \/ planned'[q] = EmptyLedger /\ todo'[q] = <<>>
    BY <1>9 DEF Finish, Typing, TypeOK
  <2>2. PlansAreLogged'
    BY <1>3, <2>1, NothingKnown DEF History, PlansAreLogged
  <2>3. TodoIsBacked'
    BY <1>2, <1>5, <2>1 DEF History, TodoIsBacked, n
  <2> QED
    BY <2>2, <2>3
<1> QED
  BY <1>6, <1>7, <1>8, <1>9 DEF History

LEMMA HistoryStep == Typing /\ History /\ [Next]_vars => History'
<1> SUFFICES ASSUME Typing, History, [Next]_vars PROVE History'
  OBVIOUS
<1>1. CASE KeepsOrDrops
  BY <1>1, KeepsOrDropsHistory
<1>2. ASSUME NEW p \in Procs, WriteLedger(p) PROVE History'
  <2>1. /\ todo[p] = <<>> /\ ledger' = planned[p] /\ UNCHANGED log
        /\ Finish(p)
    BY <1>2 DEF WriteLedger, Typing, Appending
  <2>2. \A id : \A r : ~Recorded(<<>>, id, r)
    BY DEF Recorded, Carriers
  <2>3. LedgerIsLogged'
    BY <2>1, <2>2 DEF History, PlansAreLogged, LedgerIsLogged, Recorded
  <2>4. \A q \in Procs :
          \/ planned'[q] = planned[q] /\ todo'[q] = todo[q]
          \/ planned'[q] = EmptyLedger /\ todo'[q] = <<>>
    BY <2>1 DEF Finish, Typing, TypeOK
  <2>5. PlansAreLogged'
    BY <2>1, <2>4, NothingKnown DEF History, PlansAreLogged
  <2>6. TodoIsBacked' /\ LogIsBacked'
    BY <2>1, <2>4 DEF History, TodoIsBacked, LogIsBacked
  <2> QED
    BY <2>3, <2>5, <2>6 DEF History
<1>3. ASSUME NEW p \in Procs, RepairReadsEvents(p) PROVE History'
  <2>1. /\ planned' = [planned EXCEPT ![p] = Replay(log)]
        /\ UNCHANGED <<ledger, log, todo>>
    BY <1>3 DEF RepairReadsEvents, files
  <2>2. \A id \in Known(Replay(log)) : Recorded(log, id, Replay(log)[id])
    BY ReplayType DEF Typing, TypeOK, Recorded
  <2>3. PlansAreLogged'
    BY <2>1, <2>2 DEF History, PlansAreLogged, Typing, TypeOK
  <2> QED
    BY <2>1, <2>3 DEF History, LedgerIsLogged, LogIsBacked, TodoIsBacked
<1>4. ASSUME NEW p \in Procs, AppendEvent(p) PROVE History'
  <2>1. /\ todo[p] # <<>> /\ log' = Append(log, Head(todo[p])) /\ UNCHANGED ledger
        /\ \/ planned' = planned /\ todo' = [todo EXCEPT ![p] = Tail(@)]
           \/ Finish(p)
    BY <1>4 DEF AppendEvent, Typing, Appending
  <2> QED
    BY <2>1, AppendHistory
<1>5. ASSUME NEW p \in Procs, AppendTorn(p), log' = Append(log, Head(todo[p]))
      PROVE  History'
  <2>1. todo[p] # <<>> /\ UNCHANGED ledger /\ Finish(p)
    BY <1>5 DEF AppendTorn, Typing, Appending
  <2> QED
    BY <1>5, <2>1, AppendHistory
<1> QED
  BY <1>1, <1>2, <1>3, <1>4, <1>5, QuietSteps, ProposeHistory, UpdateStatusHistory,
     AcceptHistory, PublishHistory

LEMMA HistoryInvariant == Spec => [](Typing /\ History)
<1>1. Init => History
  <2> SUFFICES ASSUME Init PROVE History
    OBVIOUS
  <2>1. LedgerIsLogged /\ PlansAreLogged
    BY NothingKnown DEF Init, LedgerIsLogged, PlansAreLogged
  <2>2. LogIsBacked /\ TodoIsBacked
    BY DEF Init, LogIsBacked, TodoIsBacked
  <2> QED
    BY <2>1, <2>2 DEF History
<1> QED
  BY TypingInit, TypingStep, HistoryStep, <1>1, PTL DEF Spec

\* The ledger is never ahead of the history, whatever crashes, fails or is torn,
\* and however repairs interleave: events.jsonl holds every version that any
\* process has written or will write to ledger.jsonl.
THEOREM LedgerLogged == Spec => []LedgerIsLogged
<1>1. History => LedgerIsLogged
  BY DEF History
<1> QED
  BY HistoryInvariant, <1>1, PTL

\* Every link of a proposed record leads to a record proposed before it, so no
\* cycle of links can be built by any number of processes.
THEOREM LinksLeadBack == Spec => []LinksPointBack
<1>1. Typing /\ History => LinksPointBack
  <2> SUFFICES ASSUME Typing, History, NEW i \in DOMAIN log,
                      log[i].type = "memory_proposed",
                      NEW x \in Supersedes[log[i].id] \cup Conflicts[log[i].id]
               PROVE  \E j \in 1..(i - 1) :
                        log[j].type = "memory_proposed" /\ log[j].id = x
    BY DEF LinksPointBack
  <2>1. x \in ProposedIn(log, i - 1)
    BY DEF History, LogIsBacked, Needs
  <2> QED
    BY <2>1 DEF ProposedIn
<1> QED
  BY HistoryInvariant, <1>1, PTL

-----------------------------------------------------------------------------
(* The kinds of steps *)

\* The other processes are as they were.
OthersKeep(p) ==
    \A q \in Procs : q # p =>
        /\ pc'[q] = pc[q] /\ op'[q] = op[q] /\ todo'[q] = todo[q]
        /\ planned'[q] = planned[q] /\ begun'[q] = begun[q]

\* Process p gives up its command, or what is left of it, and changes no file but
\* for the end of events.jsonl.
GivesUp(p) ==
    /\ pc[p] # "idle"
    /\ UNCHANGED <<ledger, log, published>>
    /\ Forget(p) \/ Finish(p)
    /\ interrupted => interrupted'
    /\ pc[p] \in {"appending", "writing"} => interrupted' = (interrupted \/ begun[p])
    /\ unlogged \subseteq unlogged'
    /\ pc[p] = "appending" => unlogged' = LeftUnlogged(p)

\* An append that is cut short after its event.
TornAppend(p) ==
    /\ pc[p] = "appending"
    /\ log' = Append(log, Head(todo[p]))
    /\ interrupted' = TRUE
    /\ unlogged' = NowLogged(p)
    /\ Finish(p)
    /\ UNCHANGED <<ledger, published>>

LEMMA StepKinds ==
    ASSUME Typing, [Next]_vars
    PROVE  \/ UNCHANGED <<files, pc, work, interrupted, unlogged>>
           \/ \E p \in Procs :
                /\ OthersKeep(p)
                /\ \/ \E o \in Commands : Start(p, o)
                   \/ GivesUp(p) \/ Acquire(p) \/ RepairConfirmed(p)
                   \/ RepairReadsEvents(p)
                   \/ Propose(p) \/ UpdateStatus(p) \/ AcceptWithRelationships(p)
                   \/ Publish(p) \/ AppendEvent(p) \/ WriteLedger(p) \/ TornAppend(p)
<1>1. ASSUME NEW p \in Procs, Forget(p) \/ Finish(p) PROVE OthersKeep(p)
  BY <1>1 DEF Forget, Finish, OthersKeep, Typing, TypeOK
<1>2. ASSUME NEW p \in Procs,
             \/ TimeOut(p) \/ Release(p) \/ Refuse(p) \/ RepairFails(p)
             \/ RepairReports(p) \/ ReleaseFails(p)
      PROVE  GivesUp(p) /\ OthersKeep(p)
  BY <1>1, <1>2 DEF TimeOut, Release, Refuse, RepairFails, RepairReports, ReleaseFails,
     GivesUp, files, history
<1>3. ASSUME NEW p \in Procs, AppendRefused(p) \/ Crash(p) \/ WriteFails(p)
      PROVE  GivesUp(p) /\ OthersKeep(p)
  BY <1>1, <1>3 DEF AppendRefused, Crash, WriteFails, GivesUp, LeftUnlogged, files
<1>4. ASSUME NEW p \in Procs, AppendTorn(p)
      PROVE  (GivesUp(p) \/ TornAppend(p)) /\ OthersKeep(p)
  BY <1>1, <1>4 DEF AppendTorn, GivesUp, TornAppend, LeftUnlogged
<1>5. ASSUME NEW p \in Procs, NEW o \in Commands, Start(p, o) PROVE OthersKeep(p)
  BY <1>5 DEF Start, OthersKeep, Typing, TypeOK
<1>6. ASSUME NEW p \in Procs, Acquire(p) \/ RepairConfirmed(p) \/ RepairReadsEvents(p)
      PROVE  OthersKeep(p)
  BY <1>6 DEF Acquire, RepairConfirmed, RepairReadsEvents, OthersKeep, work, Typing, TypeOK
<1>7. ASSUME NEW p \in Procs, NEW events, NEW records, Plan(p, events, records),
             UNCHANGED begun \/ begun' = [begun EXCEPT ![p] = TRUE]
      PROVE  OthersKeep(p)
  BY <1>7 DEF Plan, OthersKeep, Typing, TypeOK
<1>8. ASSUME NEW p \in Procs, Propose(p) \/ UpdateStatus(p) \/ Publish(p)
      PROVE  OthersKeep(p)
  BY <1>7, <1>8 DEF Propose, UpdateStatus, Publish
<1>9. ASSUME NEW p \in Procs, AcceptWithRelationships(p) PROVE OthersKeep(p)
  BY <1>7, <1>9 DEF AcceptWithRelationships
<1>10. ASSUME NEW p \in Procs, AppendEvent(p) PROVE OthersKeep(p)
  <2>1. CASE Finish(p)
    BY <1>1, <2>1
  <2>2. CASE ~Finish(p)
    BY <1>10, <2>2 DEF AppendEvent, OthersKeep, Typing, TypeOK
  <2> QED BY <2>1, <2>2
<1>11. ASSUME NEW p \in Procs, WriteLedger(p) PROVE OthersKeep(p)
  BY <1>1, <1>11 DEF WriteLedger
<1>12. RemoveStaleLock \/ UNCHANGED vars => UNCHANGED <<files, pc, work, interrupted, unlogged>>
  BY DEF RemoveStaleLock, vars, history
<1> QED
  BY <1>2, <1>3, <1>4, <1>5, <1>6, <1>8, <1>9, <1>10, <1>11, <1>12
     DEF Next, ProcessStep, AllDone

-----------------------------------------------------------------------------
(* What the commands have in hand, and what they plan *)

\* What the steps of a process have in hand, step by step.
Role(p) ==
    /\ pc[p] = "idle" => op[p].kind = "none"
    /\ pc[p] \in {"reading", "comparing"} => op[p].kind = "repair"
    /\ pc[p] \in {"locked", "appending"} => op[p].kind # "repair"
    /\ pc[p] = "writing" => op[p].kind # "export"
    /\ pc[p] = "writing" /\ op[p].kind # "repair" => begun[p]
    /\ pc[p] = "appending" /\ op[p].kind = "export" =>
          /\ begun[p]
          /\ todo[p] = << [type |-> "memory_exported", dest |-> op[p].dest,
                           ids |-> published[op[p].dest]] >>

Roles == \A p \in Procs : Role(p)

\* Event e of command o is right for the records of the ledger.
Fits(o, records, e) ==
    \/ /\ e.type = "memory_proposed"
       /\ o.kind = "propose" /\ e.id = o.id
       /\ e.id \notin Known(records) \cup Supersedes[e.id] \cup Conflicts[e.id]
       /\ e.record.status # "retired"
    \/ /\ e.type = "memory_status_changed"
       /\ o.kind # "export"
       /\ e.id \in Known(records) /\ e.previous = records[e.id].status
       /\ TransitionAllowed(e.previous, e.record.status)
    \/ /\ e.type = "memory_relationship_resolved"
       /\ o.kind # "export"
       /\ {e.id} \cup e.retired \cup e.overridden \subseteq Known(records)
    \/ /\ e.type = "memory_exported"
       /\ o.kind = "export"
       /\ e.ids \subseteq Known(records)

\* No record has two versions among the events.
CarryOnce(events) ==
    \A i, j \in DOMAIN events : \A id \in Ids :
        Carries(events[i], id) /\ Carries(events[j], id) => i = j

PlansFit ==
    \A p \in Procs :
        /\ CarryOnce(todo[p])
        /\ \A j \in DOMAIN todo[p] : Fits(op[p], ledger, todo[p][j])

\* A record is proposed under a new id, and never names itself.
FreshIds ==
    \A p \in Procs : op[p].kind = "propose" =>
        /\ pc[p] \in {"waiting", "locked"} => Carriers(log, op[p].id) = {}
        /\ \A q \in Procs : q # p /\ op[q].kind = "propose" => op[q].id # op[p].id

SelfFree ==
    \A i \in DOMAIN log :
        log[i].type = "memory_proposed" =>
            log[i].id \notin Supersedes[log[i].id] \cup Conflicts[log[i].id]

\* A command that changes records plans events that fit the ledger, one version of
\* a record at most, all of the same time, and to write what they carry.
Mutates(p, events, records) ==
    /\ pc[p] = "locked" /\ op[p].kind \notin {"export", "repair"}
    /\ Plan(p, events, records)
    /\ UNCHANGED <<published, begun>>
    /\ events \in Seq(Event) /\ events # <<>> /\ records \in Ledger
    /\ CarryOnce(events)
    /\ \A j \in DOMAIN events :
          /\ Fits(op[p], ledger, events[j])
          /\ \A id \in Ids : Carries(events[j], id) => events[j].record.updated_at = Now
    /\ \A id \in Ids :
          \/ records[id] = ledger[id] /\ Carriers(events, id) = {}
          \/ \E j \in Carriers(events, id) : records[id] = events[j].record

Sound == FreshIds /\ SelfFree

LEMMA ProposeMutates ==
    ASSUME Typing, History, Sound, NEW p \in Procs, Propose(p)
    PROVE  \E events, records : Mutates(p, events, records)
<1> DEFINE id == op[p].id
           record == WithStatus(id, InitialStatus(id, op[p].decision))
           event == [type |-> "memory_proposed", id |-> id, record |-> record]
           records == [ledger EXCEPT ![id] = record]
<1>1. op[p] \in Proposal
  BY CommandKinds DEF Typing, TypeOK, Propose, NoOp
<1>2. /\ id \in Ids /\ record \in Record /\ record.updated_at = Now
      /\ record.status # "retired"
  BY <1>1, InitialStatusType, WithStatusType DEF Proposal, Typing, WithStatus, InitialStatus
<1>3. << event >> \in Seq(Event) /\ << event >> # <<>>
  BY <1>2 DEF Event, ProposedEvent
<1>4. records \in Ledger
  BY <1>2 DEF Typing, TypeOK, Ledger
<1>5. /\ Plan(p, << event >>, records) /\ UNCHANGED <<published, begun>>
      /\ pc[p] = "locked" /\ op[p].kind = "propose"
      /\ Supersedes[id] \cup Conflicts[id] \subseteq Known(ledger)
  BY DEF Propose
<1>6. id \notin Known(ledger) \cup Supersedes[id] \cup Conflicts[id]
  <2>1. Carriers(log, id) = {}
    BY <1>5 DEF Sound, FreshIds
  <2>2. id \notin Known(ledger)
    BY <2>1 DEF History, LedgerIsLogged
  <2> QED BY <1>5, <2>2
<1>7. Fits(op[p], ledger, event) /\ \A x : Carries(event, x) <=> x = id
  BY <1>2, <1>5, <1>6 DEF Fits, Carries
<1>8. \A j \in DOMAIN << event >> : j = 1 /\ << event >>[j] = event
  OBVIOUS
<1>9. 1 \in DOMAIN << event >>
  OBVIOUS
<1>10. \A x \in Ids : x # id => records[x] = ledger[x]
  BY DEF Typing, TypeOK, Ledger
<1>11. records[id] = event.record
  BY <1>2 DEF Typing, TypeOK, Ledger
<1>12. event.record.updated_at = Now
  BY <1>2
<1> DEFINE events == << event >>
<1> HIDE DEF id, record, event, records, events
<1>13. CarryOnce(events)
  BY <1>8 DEF CarryOnce, events
<1>14. \A x \in Ids :
         \/ records[x] = ledger[x] /\ Carriers(events, x) = {}
         \/ \E j \in Carriers(events, x) : records[x] = events[j].record
  BY <1>7, <1>8, <1>9, <1>10, <1>11 DEF Carriers, events
<1>15. Mutates(p, events, records)
  BY <1>3, <1>4, <1>5, <1>7, <1>8, <1>12, <1>13, <1>14 DEF Mutates, events
<1> QED BY <1>15

\* One event, or two.
LEMMA OneOrTwo ==
    ASSUME NEW first \in Event, NEW second \in Event, NEW two \in BOOLEAN
    PROVE  LET events == << first >> \o (IF two THEN << second >> ELSE <<>>)
           IN /\ events \in Seq(Event) /\ events # <<>>
              /\ DOMAIN events = IF two THEN {1, 2} ELSE {1}
              /\ events[1] = first
              /\ two => events[2] = second
<1> DEFINE one == << first >>
           rest == IF two THEN << second >> ELSE <<>>
           events == one \o rest
<1>1. /\ one \in Seq(Event) /\ Len(one) = 1 /\ one[1] = first
      /\ rest \in Seq(Event) /\ Len(rest) = IF two THEN 1 ELSE 0
      /\ two => rest[1] = second
  OBVIOUS
<1> HIDE DEF one, rest
<1>2. /\ events \in Seq(Event) /\ Len(events) = Len(one) + Len(rest)
      /\ \A i \in 1..(Len(one) + Len(rest)) :
            events[i] = IF i <= Len(one) THEN one[i] ELSE rest[i - Len(one)]
  BY <1>1, ConcatProperties
<1>3. DOMAIN events = 1..Len(events) /\ Len(events) = IF two THEN 2 ELSE 1
  BY <1>1, <1>2
<1> HIDE DEF events
<1>4. DOMAIN events = (IF two THEN {1, 2} ELSE {1}) /\ events # <<>>
  <2>1. CASE two
    <3>1. Len(events) = 2 /\ 1..2 = {1, 2}
      BY <1>3, <2>1
    <3>2. events # <<>>
      BY <3>1
    <3> QED BY <1>3, <2>1, <3>1, <3>2
  <2>2. CASE ~two
    <3>1. Len(events) = 1 /\ 1..1 = {1}
      BY <1>3, <2>2
    <3>2. events # <<>>
      BY <3>1
    <3> QED BY <1>3, <2>2, <3>1, <3>2
  <2> QED BY <2>1, <2>2
<1>5. events[1] = first /\ (two => events[2] = second)
  BY <1>1, <1>2, <1>3
<1> QED BY <1>2, <1>4, <1>5 DEF events, one, rest

LEMMA UpdateStatusMutates ==
    ASSUME Typing, NEW p \in Procs, UpdateStatus(p)
    PROVE  \E events, records : Mutates(p, events, records)
<1> DEFINE id == op[p].id
           status == op[p].status
           events == << StatusChange(id, status) >>
                       \o IF status = "retired" THEN << Resolution(id, {id}, {}) >> ELSE <<>>
           records == [ledger EXCEPT ![id] = WithStatus(id, status)]
<1>1. op[p] \in Review
  BY CommandKinds DEF Typing, TypeOK, UpdateStatus, NoOp
<1>2. /\ id \in Known(ledger) /\ id \in Ids /\ status \in Statuses
      /\ WithStatus(id, status) \in Record
      /\ TransitionAllowed(ledger[id].status, status)
  BY <1>1, WithStatusType DEF Review, UpdateStatus, Typing
<1>3. StatusChange(id, status) \in Event /\ Resolution(id, {id}, {}) \in Event
  BY <1>2, StatusChangeType, ResolutionType DEF Event, Typing
<1>4. /\ events \in Seq(Event) /\ events # <<>>
      /\ DOMAIN events = IF status = "retired" THEN {1, 2} ELSE {1}
      /\ events[1] = StatusChange(id, status)
      /\ status = "retired" => events[2] = Resolution(id, {id}, {})
  <2> DEFINE first == StatusChange(id, status)
             second == Resolution(id, {id}, {})
             two == status = "retired"
  <2>1. first \in Event /\ second \in Event /\ two \in BOOLEAN
    BY <1>3
  <2>2. events = << first >> \o (IF two THEN << second >> ELSE <<>>)
    OBVIOUS
  <2> HIDE DEF first, second, two, events
  <2>3. /\ events \in Seq(Event) /\ events # <<>>
        /\ DOMAIN events = IF two THEN {1, 2} ELSE {1}
        /\ events[1] = first
        /\ two => events[2] = second
    BY <2>1, <2>2, OneOrTwo
  <2> QED BY <2>3 DEF first, second, two
<1>5. records \in Ledger
  BY <1>2 DEF Typing, TypeOK, Ledger
<1>6. /\ Plan(p, events, records) /\ UNCHANGED <<published, begun>>
      /\ pc[p] = "locked" /\ op[p].kind = "review"
  BY DEF UpdateStatus
<1> HIDE DEF events
<1>7. /\ Fits(op[p], ledger, events[1]) /\ events[1].record = WithStatus(id, status)
      /\ \A x : Carries(events[1], x) <=> x = id
  BY <1>2, <1>4, <1>6 DEF Fits, StatusChange, WithStatus, Carries
<1>8. status = "retired" => Fits(op[p], ledger, events[2]) /\ \A x : ~Carries(events[2], x)
  BY <1>2, <1>4, <1>6 DEF Fits, Resolution, Carries
<1>9. \A j \in DOMAIN events : Fits(op[p], ledger, events[j])
  BY <1>4, <1>7, <1>8
<1>10. 1 \in DOMAIN events /\ \A j \in DOMAIN events : \A x : Carries(events[j], x) => j = 1
  BY <1>4, <1>8
<1>11. WithStatus(id, status).updated_at = Now
  BY DEF WithStatus
<1>12. CarryOnce(events)
  BY <1>10 DEF CarryOnce
<1>13. \A x \in Ids : IF x = id THEN records[x] = WithStatus(id, status)
                                ELSE records[x] = ledger[x]
  BY DEF Typing, TypeOK, Ledger
<1> HIDE DEF id, status, records
<1>14. \A x \in Ids :
         \/ records[x] = ledger[x] /\ Carriers(events, x) = {}
         \/ \E j \in Carriers(events, x) : records[x] = events[j].record
  BY <1>7, <1>10, <1>13 DEF Carriers
<1>15. \A j \in DOMAIN events : \A x \in Ids :
          Carries(events[j], x) => events[j].record.updated_at = Now
  BY <1>7, <1>10, <1>11
<1>16. Mutates(p, events, records)
  BY <1>4, <1>5, <1>6, <1>9, <1>12, <1>14, <1>15 DEF Mutates
<1> QED BY <1>16

\* A retired record comes once in the order.
LEMMA OrderOnce ==
    ASSUME NEW ids \in SUBSET Ids, NEW order \in Orders(ids),
           NEW i \in DOMAIN order, NEW j \in DOMAIN order, order[i] = order[j]
    PROVE  i = j
<1>1. IsFiniteSet(ids) /\ Cardinality(ids) \in Nat
  BY StoreAssumption, FS_Subset, FS_CardinalityType
<1> DEFINE n == Cardinality(ids)
           indices == 1..n
<1>2. order \in [indices -> ids] /\ \A x \in ids : \E k \in indices : order[k] = x
  BY DEF Orders
<1>3. IsFiniteSet(indices) /\ Cardinality(indices) = n
  BY <1>1, FS_Interval
<1> HIDE DEF n, indices
<1>4. order \in Surjection(indices, ids)
  BY <1>2 DEF Surjection
<1>5. order \in Injection(indices, ids)
  BY <1>3, <1>4, FS_SurjSameCardinalityImpliesInj DEF n
<1> QED
  BY <1>2, <1>5 DEF Injection, IsInjective

\* No record of the ledger names itself.
LEMMA KnownSelfFree ==
    ASSUME Typing, History, SelfFree, NEW id \in Known(ledger)
    PROVE  id \notin Supersedes[id] \cup Conflicts[id]
<1>1. id \in ProposedIn(log, Len(log))
  BY KnownWasProposed DEF History
<1>2. PICK i \in 1..Len(log) : log[i].type = "memory_proposed" /\ log[i].id = id
  BY <1>1 DEF ProposedIn
<1>3. i \in DOMAIN log
  BY DEF Typing, TypeOK
<1> QED
  BY <1>2, <1>3 DEF SelfFree

LEMMA AcceptMutates ==
    ASSUME Typing, History, Sound, NEW p \in Procs, AcceptWithRelationships(p)
    PROVE  \E events, records : Mutates(p, events, records)
<1> DEFINE id == op[p].id
           superseded == AcceptedPeers(ledger, id, Supersedes[id])
           retired == IF op[p].retire THEN superseded ELSE {}
           overridden == (superseded \ retired)
                         \cup AcceptedPeers(ledger, id, Conflicts[id])
           records == [x \in Ids |->
                        IF x = id THEN WithStatus(id, "accepted")
                        ELSE IF x \in retired THEN WithStatus(x, "retired")
                        ELSE ledger[x]]
<1>1. op[p] \in Acceptance
  BY CommandKinds DEF Typing, TypeOK, AcceptWithRelationships, NoOp
<1>2. /\ id \in Ids /\ id \in Known(ledger)
      /\ TransitionAllowed(ledger[id].status, "accepted")
      /\ pc[p] = "locked" /\ op[p].kind = "accept"
      /\ UNCHANGED <<published, begun>>
  BY <1>1 DEF Acceptance, AcceptWithRelationships
<1>3. /\ retired \in SUBSET Known(ledger)
      /\ overridden \in SUBSET Known(ledger)
  BY <1>2, StoreAssumption DEF AcceptedPeers, Known
<1>4. id \notin retired
  BY <1>2, KnownSelfFree DEF AcceptedPeers, Sound
<1>5. \A x \in retired : ledger[x].status = "accepted"
  BY DEF AcceptedPeers
<1>6. records \in Ledger
  BY <1>2, WithStatusType DEF Typing, TypeOK, Ledger, Statuses
<1>7. PICK order \in Orders(retired) :
        Plan(p, AcceptanceEvents(id, order, overridden), records)
  BY DEF AcceptWithRelationships
<1>8. records = [x \in Ids |->
                  IF x = id THEN WithStatus(id, "accepted")
                  ELSE IF x \in retired THEN WithStatus(x, "retired")
                  ELSE ledger[x]]
  OBVIOUS
<1> HIDE DEF id, superseded, retired, overridden, records
<1> DEFINE events == AcceptanceEvents(id, order, overridden)
           n == Len(order)
<1>9. retired \in SUBSET Ids /\ overridden \in SUBSET Ids
  BY <1>3 DEF Known
<1>10. /\ n \in Nat /\ events \in Seq(Event) /\ Len(events) = n + 2
       /\ \A i \in 1..n : order[i] \in retired
  BY <1>2, <1>3, <1>9, AcceptanceEventsType DEF Typing
<1>11. /\ DOMAIN events = 1..(n + 2) /\ DOMAIN order = 1..n
       /\ events[1] = StatusChange(id, "accepted")
       /\ \A i \in 1..n : events[i + 1] = StatusChange(order[i], "retired")
       /\ events[n + 2] = Resolution(id, {order[j] : j \in DOMAIN order}, overridden)
  <2>1. Cardinality(retired) \in Nat
    BY <1>9, StoreAssumption, FS_Subset, FS_CardinalityType
  <2>2. DOMAIN order = 1..n
    BY <2>1 DEF Orders
  <2> QED BY <1>10, <2>2 DEF AcceptanceEvents
<1>12. \A x \in retired : \E i \in 1..n : order[i] = x
  BY <1>9, <1>11, FS_Subset, FS_CardinalityType, StoreAssumption DEF Orders
<1>13. Plan(p, events, records)
  BY <1>7
<1>20. events # <<>>
  BY <1>10
<1> HIDE DEF events, n
<1>14. \A j \in DOMAIN events :
          \/ j = 1
          \/ j - 1 \in 1..n /\ events[j] = StatusChange(order[j - 1], "retired")
          \/ j = n + 2
  <2> SUFFICES ASSUME NEW j \in 1..(n + 2), j # 1, j # n + 2
               PROVE  j - 1 \in 1..n /\ events[j] = StatusChange(order[j - 1], "retired")
    BY <1>11
  <2>1. j - 1 \in 1..n /\ (j - 1) + 1 = j
    BY <1>10
  <2> QED BY <1>11, <2>1
<1>15. \A j \in DOMAIN events : \A x : Carries(events[j], x) =>
          \/ j = 1 /\ x = id
          \/ j - 1 \in 1..n /\ x = order[j - 1] /\ events[j] = StatusChange(x, "retired")
  BY <1>11, <1>14 DEF Carries, StatusChange, Resolution
<1>16. CarryOnce(events)
  <2> SUFFICES ASSUME NEW i \in DOMAIN events, NEW j \in DOMAIN events, NEW x \in Ids,
                      Carries(events[i], x), Carries(events[j], x)
               PROVE  i = j
    BY DEF CarryOnce
  <2>1. CASE x = id
    BY <1>4, <1>10, <1>15, <2>1
  <2>2. CASE x # id
    <3>1. i - 1 \in 1..n /\ j - 1 \in 1..n /\ order[i - 1] = order[j - 1]
      BY <1>15, <2>2
    <3>2. i - 1 = j - 1
      BY <1>9, <1>11, <3>1, OrderOnce
    <3> QED BY <1>10, <1>11, <3>2
  <2> QED BY <2>1, <2>2
<1>17. \A j \in DOMAIN events : Fits(op[p], ledger, events[j])
  <2> SUFFICES ASSUME NEW j \in DOMAIN events PROVE Fits(op[p], ledger, events[j])
    OBVIOUS
  <2>1. CASE j = 1
    BY <1>2, <1>11, <2>1 DEF Fits, StatusChange, WithStatus
  <2>2. CASE j - 1 \in 1..n /\ events[j] = StatusChange(order[j - 1], "retired")
    <3>1. order[j - 1] \in Known(ledger) /\ ledger[order[j - 1]].status = "accepted"
      BY <1>3, <1>5, <1>10, <2>2
    <3> QED
      BY <1>2, <2>2, <3>1 DEF Fits, StatusChange, WithStatus, TransitionAllowed
  <2>3. CASE j = n + 2
    <3>1. {order[k] : k \in DOMAIN order} \subseteq Known(ledger)
      BY <1>3, <1>10, <1>11
    <3> QED
      BY <1>2, <1>3, <1>11, <2>3, <3>1 DEF Fits, Resolution
  <2> QED BY <1>14, <2>1, <2>2, <2>3
<1>18. \A j \in DOMAIN events : \A x \in Ids :
          Carries(events[j], x) => events[j].record.updated_at = Now
  <2> SUFFICES ASSUME NEW j \in DOMAIN events, NEW x \in Ids, Carries(events[j], x)
               PROVE  events[j].record.updated_at = Now
    OBVIOUS
  <2>1. \E status : events[j] = StatusChange(x, status)
    BY <1>11, <1>15
  <2> QED BY <2>1 DEF StatusChange, WithStatus
<1>19. \A x \in Ids :
          \/ records[x] = ledger[x] /\ Carriers(events, x) = {}
          \/ \E j \in Carriers(events, x) : records[x] = events[j].record
  <2> SUFFICES ASSUME NEW x \in Ids
               PROVE  \/ records[x] = ledger[x] /\ Carriers(events, x) = {}
                      \/ \E j \in Carriers(events, x) : records[x] = events[j].record
    OBVIOUS
  <2>1. CASE x = id
    <3>1. 1 \in Carriers(events, x) /\ events[1].record = WithStatus(id, "accepted")
      BY <1>10, <1>11, <2>1 DEF Carriers, Carries, StatusChange
    <3> QED BY <1>8, <2>1, <3>1
  <2>2. CASE x # id /\ x \in retired
    <3>1. PICK i \in 1..n : order[i] = x
      BY <1>12, <2>2
    <3>2. i + 1 \in DOMAIN events /\ events[i + 1] = StatusChange(x, "retired")
      BY <1>10, <1>11, <3>1
    <3>3. i + 1 \in Carriers(events, x) /\ events[i + 1].record = WithStatus(x, "retired")
      BY <3>2 DEF Carriers, Carries, StatusChange
    <3> QED BY <1>8, <2>2, <3>3
  <2>3. CASE x # id /\ x \notin retired
    <3>1. \A j \in DOMAIN events : ~Carries(events[j], x)
      BY <1>10, <1>15, <2>3
    <3> QED BY <1>8, <2>3, <3>1 DEF Carriers
  <2> QED BY <2>1, <2>2, <2>3
<1>21. Mutates(p, events, records)
  BY <1>2, <1>6, <1>10, <1>13, <1>16, <1>17, <1>18, <1>19, <1>20 DEF Mutates
<1> QED BY <1>21

LEMMA OneInside ==
    ASSUME MutualExclusion, NEW p \in Procs, NEW q \in Procs,
           pc[p] \in Critical, pc[q] \in Critical
    PROVE  p = q
  BY DEF MutualExclusion

\* What process p does, where the others keep what they have.
Acts(p) ==
    \/ \E o \in Commands : Start(p, o)
    \/ GivesUp(p) \/ Acquire(p) \/ RepairConfirmed(p) \/ RepairReadsEvents(p)
    \/ \E events, records : Mutates(p, events, records)
    \/ Publish(p) \/ AppendEvent(p) \/ WriteLedger(p) \/ TornAppend(p)

Unchanged == UNCHANGED <<files, pc, work, interrupted, unlogged>>

LEMMA StepsAct ==
    ASSUME Typing, History, Sound, [Next]_vars
    PROVE  Unchanged \/ \E p \in Procs : OthersKeep(p) /\ Acts(p)
  BY StepKinds, ProposeMutates, UpdateStatusMutates, AcceptMutates DEF Acts, Unchanged

LEMMA RolesStep ==
    ASSUME Typing, MutualExclusion, Roles,
           Unchanged \/ \E p \in Procs : OthersKeep(p) /\ Acts(p)
    PROVE  Roles'
<1>1. CASE Unchanged
  BY <1>1 DEF Unchanged, files, work, Roles, Role
<1>2. ASSUME NEW p \in Procs, OthersKeep(p), Acts(p) PROVE Roles'
  <2>1. Role(p)'
    <3> USE DEF Typing, TypeOK
    <3>1. ASSUME NEW o \in Commands, Start(p, o) PROVE Role(p)'
      <4>1. todo[p] = <<>> /\ pc[p] = "idle"
        BY <3>1 DEF Start, Appending
      <4> QED BY <3>1, <4>1 DEF Start, Role
    <3>2. CASE GivesUp(p)
      BY <3>2 DEF GivesUp, Forget, Finish, Role, NoOp
    <3>3. CASE Acquire(p)
      BY <3>3 DEF Acquire, work, Role, Roles
    <3>4. CASE RepairConfirmed(p) \/ RepairReadsEvents(p)
      BY <3>4 DEF RepairConfirmed, RepairReadsEvents, work, Role, Roles
    <3>5. ASSUME NEW events, NEW records, Mutates(p, events, records) PROVE Role(p)'
      BY <3>5 DEF Mutates, Plan, Role
    <3>6. CASE Publish(p)
      <4>1. op[p] \in Export
        BY <3>6, CommandKinds DEF Publish, NoOp
      <4> QED BY <3>6, <4>1 DEF Publish, Plan, Role, Export
    <3>7. CASE AppendEvent(p)
      <4>1. CASE Finish(p)
        BY <4>1 DEF Finish, Role
      <4>2. CASE op[p].kind # "export" /\ ~Finish(p)
        BY <3>7, <4>2 DEF AppendEvent, Role, Roles
      <4>3. CASE op[p].kind = "export"
        <5>1. \E e : todo[p] = << e >>
          BY <3>7, <4>3 DEF AppendEvent, Role, Roles
        <5>2. Len(todo[p]) = 1
          BY <5>1
        <5> QED BY <3>7, <4>1, <4>3, <5>2 DEF AppendEvent
      <4> QED BY <4>1, <4>2, <4>3
    <3>8. CASE WriteLedger(p) \/ TornAppend(p)
      BY <3>8 DEF WriteLedger, TornAppend, Finish, Role
    <3> QED
      BY <1>2, <3>1, <3>2, <3>3, <3>4, <3>5, <3>6, <3>7, <3>8 DEF Acts
  <2>2. ASSUME NEW q \in Procs, q # p PROVE Role(q)'
    <3>1. /\ pc'[q] = pc[q] /\ op'[q] = op[q] /\ todo'[q] = todo[q]
          /\ planned'[q] = planned[q] /\ begun'[q] = begun[q]
      BY <1>2, <2>2 DEF OthersKeep
    <3>2. Publish(p) \/ UNCHANGED published
      BY <1>2 DEF Acts, Start, GivesUp, Acquire, RepairConfirmed, RepairReadsEvents,
         Mutates, AppendEvent, WriteLedger, TornAppend, files
    <3>3. pc[q] = "appending" => UNCHANGED published
      BY <2>2, <3>2, OneInside DEF Publish, Critical
    <3> QED
      BY <3>1, <3>3 DEF Role, Roles
  <2> QED BY <2>1, <2>2 DEF Roles
<1> QED BY <1>1, <1>2

\* What process p has to append is as before, without the first event, or nothing.
LEMMA TodoSteps ==
    ASSUME Typing, NEW p \in Procs, Acts(p)
    PROVE  \/ todo'[p] = <<>>
           \/ \E records : Mutates(p, todo'[p], records)
           \/ Publish(p)
           \/ AppendEvent(p) /\ todo'[p] = Tail(todo[p])
<1>1. pc[p] # "appending" => todo[p] = <<>>
  BY DEF Typing, Appending
<1> QED
  BY <1>1 DEF Acts, Start, GivesUp, Acquire, RepairConfirmed, RepairReadsEvents, Mutates,
     AppendEvent, WriteLedger, TornAppend, Forget, Finish, Plan, work, Typing, TypeOK

LEMMA FileSteps ==
    ASSUME Typing, NEW p \in Procs, Acts(p)
    PROVE  /\ UNCHANGED ledger \/ WriteLedger(p)
           /\ UNCHANGED published \/ Publish(p)
           /\ \/ UNCHANGED log
              \/ /\ pc[p] = "appending"
                 /\ AppendEvent(p) \/ TornAppend(p)
                 /\ log' = Append(log, Head(todo[p]))
  BY DEF Acts, Start, GivesUp, Acquire, RepairConfirmed, RepairReadsEvents, Mutates,
     Publish, AppendEvent, WriteLedger, TornAppend, Plan, files

\* Where a process is inside, no other one changes a file.
LEMMA OthersWait ==
    ASSUME Typing, MutualExclusion, NEW p \in Procs, Acts(p),
           NEW q \in Procs, q # p, pc[q] \in Critical
    PROVE  UNCHANGED <<ledger, log, published>>
<1>1. pc[p] \notin Critical
  BY OneInside
<1>2. pc[p] # "appending" /\ ~WriteLedger(p) /\ ~Publish(p)
  BY <1>1 DEF WriteLedger, Publish, Critical
<1> QED BY <1>2, FileSteps

\* The first event of a plan, and the others.
LEMMA TailOfTodo ==
    ASSUME Typing, NEW p \in Procs, pc[p] = "appending"
    PROVE  /\ todo[p] \in Seq(Event) /\ 1 \in DOMAIN todo[p]
           /\ Head(todo[p]) = todo[p][1] /\ Head(todo[p]) \in Event
           /\ Tail(todo[p]) \in Seq(Event)
           /\ \A j \in DOMAIN Tail(todo[p]) :
                 /\ j + 1 \in DOMAIN todo[p] /\ j + 1 # 1 /\ j \in Nat
                 /\ Tail(todo[p])[j] = todo[p][j + 1]
           /\ \A j \in DOMAIN todo[p] : j # 1 =>
                 /\ j - 1 \in DOMAIN Tail(todo[p]) /\ j \in Nat
                 /\ Tail(todo[p])[j - 1] = todo[p][j]
<1>1. todo[p] \in Seq(Event) /\ todo[p] # <<>>
  BY DEF Typing, TypeOK, Appending
<1> DEFINE t == todo[p]
<1> HIDE DEF t
<1>2. t \in Seq(Event) /\ t # <<>>
  BY <1>1 DEF t
<1>3. Head(t) \in Event /\ Tail(t) \in Seq(Event) /\ 1 \in DOMAIN t /\ Head(t) = t[1]
  BY <1>2, HeadTailProperties
<1>4. Len(Tail(t)) = Len(t) - 1 /\ \A j \in 1..Len(Tail(t)) : Tail(t)[j] = t[j + 1]
  BY <1>2, HeadTailProperties
<1> QED BY <1>2, <1>3, <1>4 DEF t

LEMMA PlansFitStep ==
    ASSUME Typing, MutualExclusion, PlansFit, NEW p \in Procs, OthersKeep(p), Acts(p)
    PROVE  PlansFit'
<1>1. ASSUME NEW q \in Procs, q # p
      PROVE  CarryOnce(todo'[q]) /\ \A j \in DOMAIN todo'[q] : Fits(op'[q], ledger', todo'[q][j])
  <2>1. todo'[q] = todo[q] /\ op'[q] = op[q]
    BY <1>1 DEF OthersKeep
  <2>2. CASE todo[q] = <<>>
    BY <2>1, <2>2 DEF CarryOnce
  <2>3. CASE todo[q] # <<>>
    <3>1. pc[q] \in Critical
      BY <2>3 DEF Typing, Appending, Critical
    <3>2. UNCHANGED ledger
      BY <1>1, <3>1, OthersWait
    <3> QED BY <2>1, <3>2 DEF PlansFit, Fits
  <2> QED BY <2>2, <2>3
<1>2. CarryOnce(todo'[p]) /\ \A j \in DOMAIN todo'[p] : Fits(op'[p], ledger', todo'[p][j])
  <2>1. CASE todo'[p] = <<>>
    BY <2>1 DEF CarryOnce
  <2>2. ASSUME NEW records, Mutates(p, todo'[p], records)
        PROVE  CarryOnce(todo'[p]) /\ \A j \in DOMAIN todo'[p] : Fits(op'[p], ledger', todo'[p][j])
    BY <2>2 DEF Mutates, Plan, Fits
  <2>3. CASE Publish(p)
    <3> DEFINE e == [type |-> "memory_exported", dest |-> op[p].dest,
                     ids |-> AcceptedFor(ledger, op[p].dest)]
    <3>1. todo'[p] = << e >> /\ UNCHANGED <<ledger, op>> /\ op[p].kind = "export"
      BY <2>3 DEF Publish, Plan, Typing, TypeOK
    <3>2. e.ids \subseteq Known(ledger)
      BY DEF AcceptedFor, Known
    <3>3. Fits(op'[p], ledger', e) /\ \A x : ~Carries(e, x)
      BY <3>1, <3>2 DEF Fits, Carries
    <3> HIDE DEF e
    <3> QED BY <3>1, <3>3 DEF CarryOnce
  <2>4. CASE AppendEvent(p) /\ todo'[p] = Tail(todo[p])
    <3>1. pc[p] = "appending" /\ UNCHANGED <<ledger, op>>
      BY <2>4 DEF AppendEvent, Finish
    <3> DEFINE t == Tail(todo[p])
    <3>2. \A j \in DOMAIN t : j \in Nat /\ j + 1 \in DOMAIN todo[p] /\ t[j] = todo[p][j + 1]
      BY <3>1, TailOfTodo
    <3> HIDE DEF t
    <3>3. \A j \in DOMAIN t : Fits(op[p], ledger, t[j])
      BY <3>2 DEF PlansFit
    <3>4. CarryOnce(t)
      <4> SUFFICES ASSUME NEW i \in DOMAIN t, NEW j \in DOMAIN t, NEW x \in Ids,
                          Carries(t[i], x), Carries(t[j], x)
                   PROVE  i = j
        BY DEF CarryOnce
      <4>1. i + 1 = j + 1
        BY <3>2 DEF PlansFit, CarryOnce
      <4> QED BY <3>2, <4>1
    <3> QED BY <2>4, <3>1, <3>3, <3>4 DEF Fits, t
  <2> QED BY <2>1, <2>2, <2>3, <2>4, TodoSteps
<1> QED BY <1>1, <1>2 DEF PlansFit

LEMMA FreshStep ==
    ASSUME Typing, History, Roles, PlansFit, FreshIds,
           NEW p \in Procs, OthersKeep(p), Acts(p)
    PROVE  FreshIds'
<1>1. ASSUME NEW q \in Procs, NEW r \in Procs, q # r,
             op'[q].kind = "propose", op'[r].kind = "propose"
      PROVE  op'[q].id # op'[r].id
  <2>1. \/ \E o \in Commands : Start(p, o)
        \/ op'[p] = op[p] \/ op'[p] = NoOp
    BY DEF Acts, GivesUp, Acquire, RepairConfirmed, RepairReadsEvents, Mutates, Plan,
       Publish, AppendEvent, WriteLedger, TornAppend, Forget, Finish, work, Typing, TypeOK
  <2>2. CASE op'[p] = op[p] \/ op'[p] = NoOp
    BY <1>1, <2>2 DEF OthersKeep, FreshIds, NoOp
  <2>3. ASSUME NEW o \in Commands, Start(p, o) PROVE op'[q].id # op'[r].id
    <3>1. op'[p] = o /\ (o.kind = "propose" => FreshId(o.id))
      BY <2>3 DEF Start, Typing, TypeOK
    <3> QED BY <1>1, <3>1 DEF OthersKeep, FreshIds, FreshId
  <2> QED BY <2>1, <2>2, <2>3
<1>2. ASSUME NEW q \in Procs, op'[q].kind = "propose", pc'[q] \in {"waiting", "locked"}
      PROVE  Carriers(log', op'[q].id) = {}
  <2>1. CASE UNCHANGED log
    <3>1. CASE q # p
      BY <1>2, <2>1, <3>1 DEF OthersKeep, FreshIds
    <3>2. CASE q = p
      <4>1. ASSUME NEW o \in Commands, Start(p, o) PROVE Carriers(log', op'[q].id) = {}
        BY <1>2, <2>1, <3>2, <4>1 DEF Start, FreshId, Typing, TypeOK
      <4>2. CASE Acquire(p)
        BY <1>2, <2>1, <3>2, <4>2 DEF Acquire, work, FreshIds, Typing, TypeOK
      <4>3. CASE RepairConfirmed(p)
        BY <1>2, <3>2, <4>3 DEF RepairConfirmed, work, Roles, Role
      <4>4. pc'[p] \in {"waiting", "locked"} =>
               (\E o \in Commands : Start(p, o)) \/ Acquire(p) \/ RepairConfirmed(p)
        BY DEF Acts, GivesUp, RepairReadsEvents, Mutates, Plan, Publish, AppendEvent,
           WriteLedger, TornAppend, Forget, Finish, Typing, TypeOK
      <4> QED
        BY <1>2, <3>2, <4>1, <4>2, <4>3, <4>4
    <3> QED BY <3>1, <3>2
  <2>2. CASE /\ pc[p] = "appending" /\ log' = Append(log, Head(todo[p]))
             /\ AppendEvent(p) \/ TornAppend(p)
    <3>1. q # p
      BY <1>2, <2>2 DEF AppendEvent, TornAppend, Finish, Typing, TypeOK
    <3>2. /\ op'[q] = op[q] /\ pc'[q] = pc[q]
      BY <3>1 DEF OthersKeep
    <3> DEFINE e == Head(todo[p])
    <3>3. e \in Event /\ Fits(op[p], ledger, e)
      BY <2>2, TailOfTodo DEF PlansFit
    <3>4. ~Carries(e, op[q].id)
      <4>1. \A x \in Known(ledger) : Carriers(log, x) # {}
        BY DEF History, LedgerIsLogged
      <4>2. Carriers(log, op[q].id) = {}
        BY <1>2, <3>2 DEF FreshIds
      <4> QED BY <1>2, <3>1, <3>2, <3>3, <4>1, <4>2 DEF Fits, Carries, FreshIds
    <3> HIDE DEF e
    <3>5. Carriers(Append(log, e), op[q].id) = Carriers(log, op[q].id)
      BY <3>3, <3>4, AppendCarriers DEF Typing, TypeOK
    <3> QED BY <1>2, <2>2, <3>2, <3>5 DEF FreshIds, e
  <2> QED BY <2>1, <2>2, FileSteps
<1> QED BY <1>1, <1>2 DEF FreshIds

LEMMA SelfFreeStep ==
    ASSUME Typing, PlansFit, SelfFree, NEW p \in Procs, OthersKeep(p), Acts(p)
    PROVE  SelfFree'
<1>1. CASE UNCHANGED log
  BY <1>1 DEF SelfFree
<1>2. CASE pc[p] = "appending" /\ log' = Append(log, Head(todo[p]))
  <2> DEFINE e == Head(todo[p])
  <2>1. e \in Event /\ Fits(op[p], ledger, e)
    BY <1>2, TailOfTodo DEF PlansFit
  <2>2. e.type = "memory_proposed" => e.id \notin Supersedes[e.id] \cup Conflicts[e.id]
    BY <2>1 DEF Fits
  <2> HIDE DEF e
  <2>3. \A i \in DOMAIN Append(log, e) :
          \/ Append(log, e)[i] = e
          \/ i \in DOMAIN log /\ Append(log, e)[i] = log[i]
    BY <2>1 DEF Typing, TypeOK
  <2> QED BY <1>2, <2>2, <2>3 DEF SelfFree, e
<1> QED BY <1>1, <1>2, FileSteps

Sane ==
    /\ Typing /\ MutualExclusion /\ History
    /\ Roles /\ PlansFit /\ Sound

LEMMA SaneSteps ==
    ASSUME Sane, [Next]_vars
    PROVE  /\ Unchanged \/ \E p \in Procs : OthersKeep(p) /\ Acts(p)
           /\ Sane'
<1>1. Unchanged \/ \E p \in Procs : OthersKeep(p) /\ Acts(p)
  BY StepsAct DEF Sane
<1>2. Typing' /\ MutualExclusion' /\ History'
  BY TypingStep, ExclusionStep, HistoryStep DEF Sane
<1>3. Roles'
  BY <1>1, RolesStep DEF Sane
<1>4. CASE Unchanged
  <2>1. PlansFit'
    BY <1>4 DEF Unchanged, files, work, Sane, PlansFit
  <2>2. Sound'
    BY <1>4 DEF Unchanged, files, work, Sane, Sound, FreshIds, SelfFree
  <2> QED BY <1>1, <1>2, <1>3, <2>1, <2>2 DEF Sane
<1>5. ASSUME NEW p \in Procs, OthersKeep(p), Acts(p) PROVE PlansFit' /\ Sound'
  BY <1>5, PlansFitStep, FreshStep, SelfFreeStep DEF Sane, Sound
<1> QED BY <1>1, <1>2, <1>3, <1>4, <1>5 DEF Sane

LEMMA SaneInit == Init => Sane
<1> SUFFICES ASSUME Init PROVE Sane
  OBVIOUS
<1>1. Typing
  BY TypingInit
<1>2. MutualExclusion
  BY DEF Init, MutualExclusion, Critical
<1>3. LedgerIsLogged /\ PlansAreLogged
  BY NothingKnown DEF Init, LedgerIsLogged, PlansAreLogged
<1>4. LogIsBacked /\ TodoIsBacked
  BY DEF Init, LogIsBacked, TodoIsBacked
<1>5. Roles
  BY DEF Init, Roles, Role, NoOp
<1>6. PlansFit
  BY DEF Init, PlansFit, CarryOnce
<1>7. Sound
  BY DEF Init, Sound, FreshIds, SelfFree, NoOp
<1> QED
  BY <1>1, <1>2, <1>3, <1>4, <1>5, <1>6, <1>7 DEF Sane, History

LEMMA SaneAlways == Spec => []Sane
  BY SaneInit, SaneSteps, PTL DEF Spec

-----------------------------------------------------------------------------
(* The managed blocks *)

\* The managed block of d is as the history tells, or its event is still to come, or
\* will never come.
Tells ==
    \A d \in Dests : d \in unlogged \/ published[d] = Audited(log, d) \/ Exporting(d)

\* An export event is the last one for its destination; no other event counts.
LEMMA AuditedAppend ==
    ASSUME NEW events \in Seq(Event), NEW e \in Event, NEW d
    PROVE  /\ e.type = "memory_exported" /\ e.dest = d => Audited(Append(events, e), d) = e.ids
           /\ ~(e.type = "memory_exported" /\ e.dest = d) =>
                Audited(Append(events, e), d) = Audited(events, d)
<1> DEFINE more == Append(events, e)
           n == Len(events)
           Last(es) == {i \in ExportsTo(es, d) : \A j \in ExportsTo(es, d) : j <= i}
<1>1. /\ n \in Nat /\ DOMAIN events = 1..n /\ DOMAIN more = 1..(n + 1)
      /\ more[n + 1] = e /\ \A i \in 1..n : more[i] = events[i]
  OBVIOUS
<1>2. ExportsTo(events, d) \subseteq 1..n
  BY <1>1 DEF ExportsTo
<1> HIDE DEF more, n
<1>3. CASE e.type = "memory_exported" /\ e.dest = d
  <2>1. n + 1 \in ExportsTo(more, d) /\ ExportsTo(more, d) \subseteq 1..(n + 1)
    BY <1>1, <1>3 DEF ExportsTo
  <2>2. Last(more) = {n + 1}
    BY <1>1, <2>1
  <2>3. UNION {more[i].ids : i \in Last(more)} = e.ids
    BY <1>1, <2>2
  <2> QED BY <1>3, <2>3 DEF Audited, more
<1>4. CASE ~(e.type = "memory_exported" /\ e.dest = d)
  <2>1. ExportsTo(more, d) = ExportsTo(events, d)
    BY <1>1, <1>4 DEF ExportsTo
  <2>2. Last(more) = Last(events) /\ Last(events) \subseteq 1..n
    BY <1>2, <2>1
  <2>3. UNION {more[i].ids : i \in Last(more)} = UNION {events[i].ids : i \in Last(events)}
    BY <1>1, <2>2
  <2> QED BY <1>4, <2>3 DEF Audited, more
<1> QED BY <1>3, <1>4

\* The event of p is in the file: it tells of the block p has replaced.
LEMMA TellsAppended ==
    ASSUME Sane, Tells, NEW p \in Procs, OthersKeep(p), pc[p] = "appending",
           log' = Append(log, Head(todo[p])), unlogged' = NowLogged(p),
           UNCHANGED published
    PROVE  Tells'
<1> SUFFICES ASSUME NEW d \in Dests
             PROVE  \/ d \in unlogged' \/ published'[d] = Audited(log', d)
                    \/ Exporting(d)'
  BY DEF Tells
<1>1. Head(todo[p]) \in Event /\ Head(todo[p]) = todo[p][1] /\ 1 \in DOMAIN todo[p]
  BY TailOfTodo DEF Sane
<1>2. ASSUME op[p].kind = "export"
      PROVE  /\ Head(todo[p]).type = "memory_exported" /\ Head(todo[p]).dest = op[p].dest
             /\ Head(todo[p]).ids = published[op[p].dest]
  <2>1. todo[p] = << [type |-> "memory_exported", dest |-> op[p].dest,
                      ids |-> published[op[p].dest]] >>
    BY <1>2 DEF Sane, Roles, Role
  <2> QED BY <2>1
<1>3. CASE op[p].kind = "export" /\ op[p].dest = d
  BY <1>1, <1>2, <1>3, AuditedAppend DEF Sane, Typing, TypeOK
<1>4. CASE ~(op[p].kind = "export" /\ op[p].dest = d)
  <2>1. ~(Head(todo[p]).type = "memory_exported" /\ Head(todo[p]).dest = d)
    <3>1. CASE op[p].kind = "export"
      BY <1>2, <1>4, <3>1
    <3>2. CASE op[p].kind # "export"
      BY <1>1, <3>2 DEF Sane, PlansFit, Fits
    <3> QED BY <3>1, <3>2
  <2>2. Audited(log', d) = Audited(log, d)
    BY <1>1, <2>1, AuditedAppend DEF Sane, Typing, TypeOK
  <2>3. d \in unlogged => d \in unlogged'
    BY <1>4 DEF NowLogged
  <2>4. Exporting(d) => Exporting(d)'
    BY <1>4 DEF Exporting, OthersKeep
  <2> QED BY <2>2, <2>3, <2>4 DEF Tells
<1> QED BY <1>3, <1>4

LEMMA TellsStep ==
    ASSUME Sane, Tells, NEW p \in Procs, OthersKeep(p), Acts(p)
    PROVE  Tells'
<1> DEFINE Coming(q, d) == pc[q] = "appending" /\ op[q].kind = "export" /\ op[q].dest = d
<1>1. \A q \in Procs, d \in Dests : q # p /\ Coming(q, d) => Coming(q, d)'
  BY DEF OthersKeep
<1>2. ASSUME UNCHANGED <<published, log>>, unlogged \subseteq unlogged',
             \A d \in Dests : Coming(p, d) => d \in unlogged'
      PROVE  Tells'
  <2>1. ASSUME NEW d \in Dests
        PROVE  d \in unlogged' \/ published'[d] = Audited(log', d) \/ Exporting(d)'
    BY <1>1, <1>2 DEF Tells, Exporting
  <2> QED BY <2>1 DEF Tells
<1>3. CASE Publish(p)
  <2>1. op[p] \in Export
    BY <1>3, CommandKinds DEF Publish, NoOp, Sane, Typing, TypeOK
  <2>2. UNCHANGED <<log, unlogged, op>> /\ pc[p] = "locked"
    BY <1>3 DEF Publish, Plan, history
  <2>3. ASSUME NEW d \in Dests
        PROVE  d \in unlogged' \/ published'[d] = Audited(log', d) \/ Exporting(d)'
    <3>1. CASE op[p].dest = d
      <4>1. Coming(p, d)'
        BY <1>3, <2>1, <3>1 DEF Publish, Plan, Export, Sane, Typing, TypeOK
      <4> QED BY <4>1 DEF Exporting
    <3>2. CASE op[p].dest # d
      <4>1. published'[d] = published[d]
        BY <1>3, <3>2 DEF Publish, Sane, Typing, TypeOK
      <4>2. Exporting(d) => Exporting(d)'
        BY <1>1, <2>2 DEF Exporting
      <4> QED BY <2>2, <4>1, <4>2 DEF Tells
    <3> QED BY <3>1, <3>2
  <2> QED BY <2>3 DEF Tells
<1>4. CASE AppendEvent(p) \/ TornAppend(p)
  BY <1>4, TellsAppended DEF AppendEvent, TornAppend
<1>5. CASE GivesUp(p)
  <2>1. \A d \in Dests : Coming(p, d) => begun[p]
    BY DEF Sane, Roles, Role
  <2>2. \A d \in Dests : Coming(p, d) => d \in unlogged'
    BY <1>5, <2>1 DEF GivesUp, LeftUnlogged
  <2> QED BY <1>2, <1>5, <2>2 DEF GivesUp
<1>6. CASE \/ \E o \in Commands : Start(p, o)
           \/ Acquire(p) \/ RepairConfirmed(p) \/ RepairReadsEvents(p) \/ WriteLedger(p)
           \/ \E events, records : Mutates(p, events, records)
  <2>1. UNCHANGED <<published, log, unlogged>> /\ pc[p] # "appending"
    BY <1>6 DEF Start, Acquire, RepairConfirmed, RepairReadsEvents, WriteLedger,
       Mutates, Plan, files, history
  <2> QED BY <1>2, <2>1
<1> QED BY <1>3, <1>4, <1>5, <1>6 DEF Acts

\* Each block holds exactly what the last export event for it says, with any number of
\* exports and mutations around and through every crash, failed or torn write of
\* another command: only an export that stops between its block and its event leaves a
\* block the history does not tell of, and only until the next one of it is logged.
THEOREM PublishedAudited == Spec => []PublishedIsAudited
<1>1. Init => Tells
  BY DEF Init, Tells, Audited, ExportsTo
<1>2. Sane /\ Tells /\ [Next]_vars => Tells'
  <2> SUFFICES ASSUME Sane, Tells, [Next]_vars PROVE Tells'
    OBVIOUS
  <2>1. CASE Unchanged
    BY <2>1 DEF Unchanged, files, work, Tells, Exporting, Audited, ExportsTo
  <2> QED BY <2>1, SaneSteps, TellsStep
<1>3. Tells => PublishedIsAudited
  BY DEF Tells, PublishedIsAudited
<1> QED BY <1>1, <1>2, <1>3, SaneAlways, PTL DEF Spec

-----------------------------------------------------------------------------
(* The times of the versions *)

\* Versions are logged in the order of their times, those of one record strictly.
Stamped ==
    \A id \in Ids : \A i \in Carriers(log, id) :
        /\ log[i].record.updated_at <= i
        /\ \A j \in Carriers(log, id) :
              i < j => log[i].record.updated_at < log[j].record.updated_at

\* A plan's versions are newer than those of the log, and the last of them.
PlansStamped ==
    \A p \in Procs : \A id \in Ids : \A j \in Carriers(todo[p], id) :
        /\ todo[p][j].record.updated_at <= Len(log) + 1
        /\ \A i \in Carriers(log, id) :
              log[i].record.updated_at < todo[p][j].record.updated_at

\* The version that replay takes is the last one.
Newest == \A id \in Ids : \A i \in Carriers(log, id) : i <= Latest(log, id)

LEMMA StampedStep ==
    ASSUME Typing, PlansStamped, Stamped, Newest, NEW p \in Procs, Acts(p)
    PROVE  Stamped' /\ Newest'
<1>1. CASE UNCHANGED log
  BY <1>1 DEF Stamped, Newest
<1>2. CASE pc[p] = "appending" /\ log' = Append(log, Head(todo[p]))
  <2> DEFINE e == Head(todo[p])
             n == Len(log)
  <2>1. e \in Event /\ e = todo[p][1] /\ 1 \in DOMAIN todo[p]
    BY <1>2, TailOfTodo
  <2>2. /\ n \in Nat /\ log'[n + 1] = e /\ \A i \in 1..n : log'[i] = log[i]
    BY <1>2, <2>1 DEF Typing, TypeOK
  <2>3. ASSUME NEW id \in Ids, NEW i \in Carriers(log', id)
        PROVE  /\ log'[i].record.updated_at <= i
               /\ \A j \in Carriers(log', id) :
                    i < j => log'[i].record.updated_at < log'[j].record.updated_at
               /\ i <= Latest(log', id)
    <3>1. Carriers(log, id) \subseteq 1..n
      BY <2>1, AppendCarriers DEF Typing, TypeOK
    <3>2. CASE Carries(e, id)
      <4>1. Carriers(log', id) = Carriers(log, id) \cup {n + 1} /\ Latest(log', id) = n + 1
        BY <1>2, <2>1, <3>2, AppendCarriers DEF Typing, TypeOK
      <4>2. 1 \in Carriers(todo[p], id)
        BY <2>1, <3>2 DEF Carriers
      <4>3. /\ e.record.updated_at <= n + 1
            /\ \A k \in Carriers(log, id) : log[k].record.updated_at < e.record.updated_at
        BY <2>1, <4>2 DEF PlansStamped
      <4> HIDE DEF e, n
      <4> QED BY <2>2, <2>3, <3>1, <4>1, <4>3 DEF Stamped
    <3>3. CASE ~Carries(e, id)
      <4>1. Carriers(log', id) = Carriers(log, id) /\ Latest(log', id) = Latest(log, id)
        BY <1>2, <2>1, <3>3, AppendCarriers DEF Typing, TypeOK
      <4> HIDE DEF e, n
      <4> QED BY <2>2, <2>3, <3>1, <4>1 DEF Stamped, Newest
    <3> QED BY <3>2, <3>3
  <2> QED BY <2>3 DEF Stamped, Newest
<1> QED BY <1>1, <1>2, FileSteps

LEMMA StampIsNat ==
    ASSUME Typing, NEW id \in Ids, NEW i \in Carriers(log, id)
    PROVE  i \in 1..Len(log) /\ log[i].record \in Record /\ log[i].record.updated_at \in Nat
<1>1. i \in DOMAIN log /\ log[i] \in Event /\ Carries(log[i], id)
  BY DEF Carriers, Typing, TypeOK
<1>2. log[i].record \in Record
  BY <1>1, EventTypes, VersionEvents
<1> QED BY <1>1, <1>2 DEF Record, Typing, TypeOK

LEMMA PlansStampedStep ==
    ASSUME Typing, MutualExclusion, PlansFit, Stamped, PlansStamped,
           NEW p \in Procs, OthersKeep(p), Acts(p)
    PROVE  PlansStamped'
<1> SUFFICES ASSUME NEW q \in Procs, NEW id \in Ids, NEW j \in Carriers(todo'[q], id)
             PROVE  /\ todo'[q][j].record.updated_at <= Len(log') + 1
                    /\ \A i \in Carriers(log', id) :
                          log'[i].record.updated_at < todo'[q][j].record.updated_at
  BY DEF PlansStamped
<1>1. CASE q # p
  <2>1. todo'[q] = todo[q] /\ todo[q] # <<>>
    BY <1>1 DEF OthersKeep, Carriers
  <2>2. UNCHANGED log
    BY <1>1, <2>1, OthersWait DEF Typing, Appending, Critical
  <2> QED BY <2>1, <2>2 DEF PlansStamped
<1>2. CASE q = p
  <2>1. ASSUME NEW records, Mutates(p, todo'[p], records)
        PROVE  /\ todo'[p][j].record.updated_at = Len(log) + 1 /\ UNCHANGED log
               /\ \A i \in Carriers(log, id) : log[i].record.updated_at < Len(log) + 1
    <3>1. todo'[p][j].record.updated_at = Now
      BY <1>2, <2>1 DEF Mutates, Carriers
    <3>2. \A i \in Carriers(log, id) : log[i].record.updated_at < Len(log) + 1
      BY StampIsNat DEF Stamped, Typing, TypeOK
    <3> QED BY <2>1, <3>1, <3>2 DEF Now, Mutates, Plan
  <2>2. CASE Publish(p)
    <3>1. \E e : todo'[p] = << e >> /\ e.type = "memory_exported"
      BY <2>2 DEF Publish, Plan, Typing, TypeOK
    <3> QED BY <1>2, <3>1 DEF Carriers, Carries
  <2>3. CASE AppendEvent(p) /\ todo'[p] = Tail(todo[p])
    <3>1. pc[p] = "appending" /\ log' = Append(log, Head(todo[p]))
      BY <2>3 DEF AppendEvent
    <3>2. /\ Head(todo[p]) = todo[p][1] /\ 1 \in DOMAIN todo[p] /\ Head(todo[p]) \in Event
          /\ j + 1 \in DOMAIN todo[p] /\ j + 1 # 1 /\ todo'[p][j] = todo[p][j + 1]
      BY <1>2, <2>3, <3>1, TailOfTodo DEF Carriers
    <3>3. j + 1 \in Carriers(todo[p], id)
      BY <1>2, <3>2 DEF Carriers
    <3>4. ~Carries(Head(todo[p]), id)
      BY <3>2, <3>3 DEF PlansFit, CarryOnce, Carriers
    <3> DEFINE e == Head(todo[p])
    <3> HIDE DEF e
    <3>5. /\ Carriers(log', id) = Carriers(log, id) /\ Len(log') = Len(log) + 1
          /\ Len(log) \in Nat
          /\ \A i \in 1..Len(log) : log'[i] = log[i]
      <4>1. e \in Event /\ log' = Append(log, e) /\ ~Carries(e, id)
        BY <3>1, <3>2, <3>4 DEF e
      <4> QED BY <4>1, AppendCarriers DEF Typing, TypeOK
    <3>6. /\ todo[p][j + 1].record.updated_at <= Len(log) + 1
          /\ \A i \in Carriers(log, id) :
                log[i].record.updated_at < todo[p][j + 1].record.updated_at
      BY <3>3 DEF PlansStamped
    <3>7. todo[p][j + 1].record.updated_at \in Nat
      <4>1. todo[p][j + 1] \in Event /\ Carries(todo[p][j + 1], id)
        BY <3>2, <3>3 DEF Carriers, Typing, TypeOK
      <4> QED BY <4>1, EventTypes, VersionEvents DEF Record
    <3> QED BY <1>2, <3>2, <3>5, <3>6, <3>7, StampIsNat
  <2>4. CASE todo'[p] = <<>>
    BY <1>2, <2>4 DEF Carriers
  <2>5. Len(log) \in Nat
    BY DEF Typing, TypeOK
  <2> QED BY <1>2, <2>1, <2>2, <2>3, <2>4, <2>5, TodoSteps
<1> QED BY <1>1, <1>2

-----------------------------------------------------------------------------
(* Repairs that run alone *)

\* The operator runs repair while nothing else runs, or does not run it.
RepairAlone == LoneRepair \/ Commands \cap Repair = {}

OnlyRepair ==
    \A p \in Procs : op[p].kind = "repair" =>
        LoneRepair /\ \A q \in Procs : q # p => pc[q] = "idle"

RepairHolds ==
    \A p \in Procs :
        op[p].kind = "repair" /\ pc[p] \in {"comparing", "waiting", "writing"} =>
            Replayable(log) /\ planned[p] = Replay(log)

LEMMA OnlyRepairStep ==
    ASSUME RepairAlone, Typing, Roles, OnlyRepair, NEW p \in Procs, OthersKeep(p), Acts(p)
    PROVE  OnlyRepair'
<1> SUFFICES ASSUME NEW r \in Procs, op'[r].kind = "repair"
             PROVE  LoneRepair /\ \A q \in Procs : q # r => pc'[q] = "idle"
  BY DEF OnlyRepair
<1>0. LoneRepair
  <2>1. CASE op[r].kind = "repair"
    BY <2>1 DEF OnlyRepair
  <2>2. CASE op[r].kind # "repair"
    <3>1. r = p
      BY <2>2 DEF OthersKeep
    <3>2. \/ \E o \in Commands : Start(p, o)
          \/ op'[p] = op[p] \/ op'[p] = NoOp
      BY DEF Acts, GivesUp, Acquire, RepairConfirmed, RepairReadsEvents, Mutates, Plan,
         Publish, AppendEvent, WriteLedger, TornAppend, Forget, Finish, work, Typing, TypeOK
    <3>3. PICK o \in Commands : Start(p, o)
      BY <2>2, <3>1, <3>2 DEF NoOp
    <3>4. op'[p] = o /\ o.kind = "repair" /\ o \in Command
      BY <3>1, <3>3, StoreAssumption DEF Start, Typing, TypeOK
    <3>5. o \in Repair
      BY <3>4 DEF Command, Proposal, Review, Acceptance, Export, Repair
    <3> QED BY <3>3, <3>5 DEF RepairAlone
  <2> QED BY <2>1, <2>2
<1>1. ASSUME NEW q \in Procs, q # r, NEW o \in Commands, Start(p, o)
      PROVE  pc'[q] = "idle"
  <2>1. op'[p] = o /\ MayRunBeside(o) /\ pc[p] = "idle"
    BY <1>1 DEF Start, Typing, TypeOK
  <2>2. CASE r = p
    <3>1. pc[q] = "idle"
      BY <1>0, <1>1, <2>1, <2>2 DEF MayRunBeside, Roles, Role
    <3> QED BY <1>1, <2>2, <3>1 DEF OthersKeep
  <2>3. CASE r # p
    <3>1. op[r].kind = "repair" /\ pc[r] # "idle"
      BY <2>3 DEF OthersKeep, Roles, Role
    <3> QED BY <1>0, <2>1, <3>1 DEF MayRunBeside
  <2> QED BY <2>2, <2>3
<1>2. ASSUME NEW q \in Procs, q # r, ~ \E o \in Commands : Start(p, o)
      PROVE  pc'[q] = "idle"
  <2>1. pc[p] # "idle" /\ (op'[p] = op[p] \/ op'[p] = NoOp)
    BY <1>2 DEF Acts, GivesUp, Acquire, RepairConfirmed, RepairReadsEvents, Mutates, Plan,
       Publish, AppendEvent, WriteLedger, TornAppend, Forget, Finish, work, Typing, TypeOK
  <2>2. op[r].kind = "repair"
    BY <2>1 DEF OthersKeep, NoOp
  <2>3. pc[q] = "idle" /\ q # p
    BY <1>2, <2>1, <2>2 DEF OnlyRepair
  <2> QED BY <2>3 DEF OthersKeep
<1> QED BY <1>0, <1>1, <1>2

LEMMA RepairHoldsStep ==
    ASSUME Typing, Roles, OnlyRepair, RepairHolds, NEW p \in Procs, OthersKeep(p), Acts(p)
    PROVE  RepairHolds'
<1> SUFFICES ASSUME NEW q \in Procs, op'[q].kind = "repair",
                    pc'[q] \in {"comparing", "waiting", "writing"}
             PROVE  Replayable(log') /\ planned'[q] = Replay(log')
  BY DEF RepairHolds
<1>1. CASE q # p
  <2>1. op[q].kind = "repair" /\ pc[q] = pc'[q] /\ planned'[q] = planned[q]
    BY <1>1 DEF OthersKeep
  <2>2. pc[p] = "idle"
    BY <1>1, <2>1 DEF OnlyRepair
  <2>3. UNCHANGED log
    BY <2>2, FileSteps
  <2> QED BY <2>1, <2>3 DEF RepairHolds
<1>2. CASE q = p
  <2> USE DEF Typing, TypeOK
  <2>1. ASSUME NEW o \in Commands, Start(p, o) PROVE FALSE
    BY <1>2, <2>1 DEF Start
  <2>2. CASE GivesUp(p) \/ Publish(p) \/ WriteLedger(p) \/ TornAppend(p)
    BY <1>2, <2>2 DEF GivesUp, Publish, Plan, WriteLedger, TornAppend, Forget, Finish
  <2>3. ASSUME NEW events, NEW records, Mutates(p, events, records) PROVE FALSE
    BY <1>2, <2>3 DEF Mutates, Plan
  <2>4. CASE AppendEvent(p)
    <3>1. op[p].kind # "repair" /\ op'[p] = op[p]
      BY <2>4 DEF AppendEvent, Finish, Roles, Role
    <3> QED BY <1>2, <3>1
  <2>5. CASE Acquire(p) \/ RepairConfirmed(p)
    BY <1>2, <2>5 DEF Acquire, RepairConfirmed, files, work, RepairHolds
  <2>6. CASE RepairReadsEvents(p)
    BY <1>2, <2>6 DEF RepairReadsEvents, files, LogReadable
  <2> QED BY <2>1, <2>2, <2>3, <2>4, <2>5, <2>6 DEF Acts
<1> QED BY <1>1, <1>2

-----------------------------------------------------------------------------
(* What the ledger is going to be follows from what it is *)

\* A version may come after another one: the transition is allowed, and none is
\* older.  A record that was not there starts in any state but retired.
Follows(from, to) ==
    /\ to.status # "none" /\ from.updated_at <= to.updated_at
    /\ IF from.status = "none"
       THEN to.status # "retired"
       ELSE TransitionAllowed(from.status, to.status)

\* What the log has and the ledger has not follows from what the ledger has.
Ahead ==
    \A id \in Ids : \A i \in Carriers(log, id) :
        \/ /\ id \in Known(ledger)
           /\ log[i].record.updated_at <= ledger[id].updated_at
        \/ Follows(ledger[id], log[i].record)

Mutating(p) == pc[p] \in {"appending", "writing"} /\ op[p].kind \notin {"repair", "export"}

\* A command leaves a record as it is, or writes what follows from it: the newest
\* of the versions that are logged.
Settles(p, id) ==
    \/ planned[p][id] = ledger[id]
    \/ /\ Follows(ledger[id], planned[p][id])
       /\ \A i \in Carriers(log, id) :
             log[i].record.updated_at <= planned[p][id].updated_at
       /\ \A j \in Carriers(todo[p], id) :
             todo[p][j].record.updated_at <= planned[p][id].updated_at

Settled == \A p \in Procs : Mutating(p) => \A id \in Ids : Settles(p, id)

LEMMA LedgerType ==
    ASSUME Typing, NEW id \in Ids
    PROVE  /\ id \in Known(ledger) => ledger[id] \in Record
           /\ id \notin Known(ledger) => ledger[id] = NoRecord
<1>1. ledger[id] \in Record \cup {NoRecord}
  BY DEF Typing, TypeOK, Ledger
<1>2. \A r \in Record : r.status # "none"
  BY DEF Record, Statuses
<1> QED BY <1>1, <1>2 DEF Known, NoRecord

\* No version of the ledger is newer than what all of the log is older than.
LEMMA LedgerIsOlder ==
    ASSUME Typing, History, NEW id \in Ids, NEW n \in Nat,
           \A i \in Carriers(log, id) : log[i].record.updated_at <= n
    PROVE  ledger[id].updated_at <= n
<1>1. CASE id \in Known(ledger)
  BY <1>1 DEF History, LedgerIsLogged
<1>2. CASE id \notin Known(ledger)
  BY <1>2, LedgerType DEF NoRecord
<1> QED BY <1>1, <1>2

LEMMA FitsFollows ==
    ASSUME Typing, History, NEW o, NEW e \in Event, NEW id \in Ids,
           Carries(e, id), Fits(o, ledger, e),
           \A i \in Carriers(log, id) : log[i].record.updated_at <= e.record.updated_at
    PROVE  Follows(ledger[id], e.record)
<1>1. e.record \in Record /\ e.id = id
  BY EventTypes, VersionEvents DEF Carries
<1>2. e.record.updated_at \in Nat /\ e.record.status # "none"
  BY <1>1 DEF Record, Statuses
<1>3. ledger[id].updated_at <= e.record.updated_at
  BY <1>2, LedgerIsOlder
<1> QED BY <1>1, <1>2, <1>3 DEF Fits, Carries, Follows, Known

LEMMA WhoMutates ==
    ASSUME Typing, Roles, NEW p \in Procs, Acts(p), Mutating(p)'
    PROVE  \/ \E events, records :
                Mutates(p, events, records) /\ todo'[p] = events /\ planned'[p] = records
           \/ /\ AppendEvent(p) /\ pc[p] = "appending" /\ Mutating(p)
              /\ todo'[p] = Tail(todo[p]) /\ planned'[p] = planned[p]
<1> USE DEF Typing, TypeOK
<1>1. ASSUME NEW o \in Commands, Start(p, o) PROVE FALSE
  BY <1>1 DEF Start, Mutating
<1>2. CASE \/ GivesUp(p) \/ Publish(p) \/ WriteLedger(p) \/ TornAppend(p) \/ Acquire(p)
           \/ RepairConfirmed(p) \/ RepairReadsEvents(p)
  BY <1>2 DEF GivesUp, Publish, Plan, WriteLedger, TornAppend, Forget, Finish, Acquire,
     RepairConfirmed, RepairReadsEvents, work, Mutating
<1>3. ASSUME NEW events, NEW records, Mutates(p, events, records)
      PROVE  todo'[p] = events /\ planned'[p] = records
  BY <1>3 DEF Mutates, Plan
<1>4. CASE AppendEvent(p)
  BY <1>4 DEF AppendEvent, Finish, Mutating
<1> QED BY <1>1, <1>2, <1>3, <1>4 DEF Acts

LEMMA SettledStep ==
    ASSUME Sane, PlansStamped, Stamped, Settled, NEW p \in Procs, OthersKeep(p), Acts(p)
    PROVE  Settled'
<1> USE DEF Sane
<1> SUFFICES ASSUME NEW q \in Procs, Mutating(q)', NEW id \in Ids
             PROVE  Settles(q, id)'
  BY DEF Settled
<1>1. CASE q # p
  <2>1. /\ todo'[q] = todo[q] /\ planned'[q] = planned[q] /\ op'[q] = op[q]
        /\ pc'[q] = pc[q]
    BY <1>1 DEF OthersKeep
  <2>2. UNCHANGED <<ledger, log>>
    BY <1>1, <2>1, OthersWait DEF Mutating, Critical
  <2> QED BY <2>1, <2>2 DEF Mutating, Settled, Settles
<1>2. ASSUME q = p, NEW events, NEW records, Mutates(p, events, records),
             todo'[p] = events, planned'[p] = records
      PROVE  Settles(q, id)'
  <2>1. UNCHANGED <<ledger, log>>
    BY <1>2 DEF Mutates, Plan
  <2>2. CASE records[id] = ledger[id]
    BY <1>2, <2>1, <2>2 DEF Settles
  <2>3. ASSUME NEW j \in Carriers(events, id), records[id] = events[j].record
        PROVE  Settles(q, id)'
    <3>1. events[j] \in Event /\ Carries(events[j], id) /\ Fits(op[p], ledger, events[j])
      BY <1>2, <2>3 DEF Mutates, Carriers
    <3>2. \A k \in Carriers(events, id) : events[k].record.updated_at = Len(log) + 1
      BY <1>2 DEF Mutates, Carriers, Now
    <3>3. \A i \in Carriers(log, id) : log[i].record.updated_at <= Len(log) + 1
      BY StampIsNat DEF Stamped, Typing, TypeOK
    <3>4. Follows(ledger[id], events[j].record)
      BY <3>1, <3>2, <3>3, FitsFollows
    <3>5. Len(log) + 1 <= Len(log) + 1
      BY DEF Typing, TypeOK
    <3> QED BY <1>2, <2>1, <2>3, <3>2, <3>3, <3>4, <3>5 DEF Settles
  <2> QED BY <1>2, <2>2, <2>3 DEF Mutates
<1>3. ASSUME q = p, AppendEvent(p), pc[p] = "appending", Mutating(p),
             todo'[p] = Tail(todo[p]), planned'[p] = planned[p]
      PROVE  Settles(q, id)'
  <2> DEFINE e == Head(todo[p])
  <2>1. log' = Append(log, e) /\ UNCHANGED ledger
    BY <1>3 DEF AppendEvent
  <2>2. Settles(p, id)
    BY <1>3 DEF Settled
  <2>3. CASE planned[p][id] = ledger[id]
    BY <1>3, <2>1, <2>3 DEF Settles
  <2>4. CASE planned[p][id] # ledger[id]
    <3>1. /\ e \in Event /\ e = todo[p][1] /\ 1 \in DOMAIN todo[p]
          /\ \A j \in DOMAIN todo'[p] :
                j + 1 \in DOMAIN todo[p] /\ todo'[p][j] = todo[p][j + 1]
      BY <1>3, TailOfTodo
    <3>2. Carries(e, id) => e.record.updated_at <= planned[p][id].updated_at
      BY <2>2, <2>4, <3>1 DEF Settles, Carriers
    <3>3. \A j \in Carriers(todo'[p], id) :
            todo'[p][j].record.updated_at <= planned[p][id].updated_at
      <4>1. \A j \in Carriers(todo'[p], id) :
              j + 1 \in Carriers(todo[p], id) /\ todo'[p][j] = todo[p][j + 1]
        BY <3>1 DEF Carriers
      <4> QED BY <2>2, <2>4, <4>1 DEF Settles
    <3> HIDE DEF e
    <3>4. /\ Carriers(log, id) \subseteq 1..Len(log) /\ log'[Len(log) + 1] = e
          /\ \A i \in 1..Len(log) : log'[i] = log[i]
      BY <2>1, <3>1, AppendCarriers DEF Typing, TypeOK
    <3>5. \A i \in Carriers(log', id) :
             i \in Carriers(log, id) \/ (i = Len(log) + 1 /\ Carries(e, id))
      BY <2>1, <3>1, AppendCarriers DEF Typing, TypeOK
    <3>6. \A i \in Carriers(log', id) :
             log'[i].record.updated_at <= planned[p][id].updated_at
      BY <2>2, <2>4, <3>2, <3>4, <3>5 DEF Settles
    <3> QED BY <1>3, <2>1, <2>2, <2>4, <3>3, <3>6 DEF Settles
  <2> QED BY <2>3, <2>4
<1> QED BY <1>1, <1>2, <1>3, WhoMutates

\* What a replay gives for a record, where its log has one.
LEMMA ReplayedVersion ==
    ASSUME Typing, Newest, NEW id \in Ids, NEW i \in Carriers(log, id)
    PROVE  /\ Latest(log, id) \in Carriers(log, id) /\ i <= Latest(log, id)
           /\ Replay(log)[id] = log[Latest(log, id)].record
  BY DEF Typing, Versioned, Newest, Replay

LEMMA AheadStep ==
    ASSUME Sane, PlansStamped, Stamped, Newest, Settled, Ahead, RepairHolds,
           NEW p \in Procs, OthersKeep(p), Acts(p)
    PROVE  Ahead'
<1> USE DEF Sane
<1> SUFFICES ASSUME NEW id \in Ids, NEW i \in Carriers(log', id)
             PROVE  \/ /\ id \in Known(ledger')
                       /\ log'[i].record.updated_at <= ledger'[id].updated_at
                    \/ Follows(ledger'[id], log'[i].record)
  BY DEF Ahead
<1>1. CASE UNCHANGED <<log, ledger>>
  BY <1>1 DEF Ahead
<1>2. CASE pc[p] = "appending" /\ log' = Append(log, Head(todo[p])) /\ UNCHANGED ledger
  <2> DEFINE e == Head(todo[p])
  <2>1. e \in Event /\ e = todo[p][1] /\ 1 \in DOMAIN todo[p] /\ Fits(op[p], ledger, e)
    BY <1>2, TailOfTodo DEF PlansFit
  <2>2. Carries(e, id) => 1 \in Carriers(todo[p], id)
    BY <2>1 DEF Carriers
  <2>3. Carries(e, id) =>
          \A k \in Carriers(log, id) : log[k].record.updated_at < e.record.updated_at
    BY <2>1, <2>2 DEF PlansStamped
  <2> HIDE DEF e
  <2>4. /\ Carriers(log, id) \subseteq 1..Len(log) /\ log'[Len(log) + 1] = e
        /\ \A k \in 1..Len(log) : log'[k] = log[k]
    BY <1>2, <2>1, AppendCarriers DEF Typing, TypeOK, e
  <2>5. i \in Carriers(log, id) \/ (i = Len(log) + 1 /\ Carries(e, id))
    BY <1>2, <2>1, AppendCarriers DEF Typing, TypeOK, e
  <2>6. CASE i \in Carriers(log, id)
    BY <1>2, <2>4, <2>6 DEF Ahead
  <2>7. CASE i = Len(log) + 1 /\ Carries(e, id)
    <3>1. e.record.updated_at \in Nat
      BY <2>1, <2>7, EventTypes, VersionEvents DEF Record
    <3>2. \A k \in Carriers(log, id) : log[k].record.updated_at <= e.record.updated_at
      BY <2>3, <2>7, <3>1, StampIsNat
    <3>3. Follows(ledger[id], e.record)
      BY <2>1, <2>7, <3>2, FitsFollows
    <3> QED BY <1>2, <2>4, <2>7, <3>3
  <2> QED BY <2>5, <2>6, <2>7
<1>3. CASE WriteLedger(p)
  <2>1. /\ pc[p] = "writing" /\ ledger' = planned[p] /\ UNCHANGED log
        /\ op[p].kind # "export"
    BY <1>3 DEF WriteLedger, Roles, Role
  <2>2. CASE op[p].kind = "repair"
    <3>1. ledger' = Replay(log)
      BY <2>1, <2>2 DEF RepairHolds
    <3> DEFINE k == Latest(log, id)
    <3>2. k \in Carriers(log, id) /\ i <= k /\ ledger'[id] = log[k].record
      BY <2>1, <3>1, ReplayedVersion
    <3> HIDE DEF k
    <3>3. id \in Known(ledger')
      BY <3>2, StampIsNat DEF Known, Record, Statuses
    <3>4. log[i].record.updated_at <= log[k].record.updated_at
      <4>1. i \in Nat /\ k \in Nat /\ log[i].record.updated_at \in Nat
            /\ log[k].record.updated_at \in Nat
        BY <2>1, <3>2, StampIsNat DEF Typing, TypeOK
      <4> QED BY <2>1, <3>2, <4>1 DEF Stamped
    <3> QED BY <2>1, <3>2, <3>3, <3>4
  <2>3. CASE op[p].kind # "repair"
    <3>1. Settles(p, id)
      BY <2>1, <2>3 DEF Settled, Mutating
    <3>2. CASE planned[p][id] = ledger[id]
      BY <2>1, <3>2 DEF Ahead, Known
    <3>3. CASE planned[p][id] # ledger[id]
      BY <2>1, <3>1, <3>3 DEF Settles, Follows, Known
    <3> QED BY <3>2, <3>3
  <2> QED BY <2>2, <2>3
<1>4. WriteLedger(p) => UNCHANGED log
  BY DEF WriteLedger
<1> QED BY <1>1, <1>2, <1>3, <1>4, FileSteps

\* Every write of the ledger leaves a record, or gives it what follows from it.
LEMMA WritesFollow ==
    ASSUME Sane, Stamped, Newest, Settled, Ahead, RepairHolds,
           NEW p \in Procs, WriteLedger(p), NEW id \in Ids
    PROVE  ledger'[id] = ledger[id] \/ Follows(ledger[id], ledger'[id])
<1> USE DEF Sane
<1>1. pc[p] = "writing" /\ ledger' = planned[p] /\ op[p].kind # "export"
  BY DEF WriteLedger, Roles, Role
<1>2. CASE op[p].kind # "repair"
  BY <1>1, <1>2 DEF Settled, Settles, Mutating
<1>3. CASE op[p].kind = "repair"
  <2>1. ledger' = Replay(log)
    BY <1>1, <1>3 DEF RepairHolds
  <2>2. CASE Carriers(log, id) = {}
    <3>1. id \notin Known(ledger)
      BY <2>2 DEF History, LedgerIsLogged
    <3>2. ledger'[id] = NoRecord
      BY <2>1, <2>2 DEF Replay
    <3> QED BY <3>1, <3>2, LedgerType
  <2>3. CASE Carriers(log, id) # {}
    <3> DEFINE k == Latest(log, id)
    <3>1. k \in Carriers(log, id) /\ ledger'[id] = log[k].record
      BY <2>1, <2>3, ReplayedVersion
    <3>2. \A i \in Carriers(log, id) : i <= k
      BY DEF Newest
    <3> HIDE DEF k
    <3>3. CASE id \in Known(ledger) /\ log[k].record.updated_at <= ledger[id].updated_at
      <4>1. PICK i \in Carriers(log, id) : log[i].record = ledger[id]
        BY <3>3 DEF History, LedgerIsLogged
      <4>2. i \in Nat /\ k \in Nat /\ log[i].record.updated_at \in Nat
            /\ log[k].record.updated_at \in Nat
        BY <3>1, StampIsNat DEF Typing, TypeOK
      <4>3. i < k => log[i].record.updated_at < log[k].record.updated_at
        BY <3>1 DEF Stamped
      <4>4. i = k
        BY <3>2, <3>3, <4>1, <4>2, <4>3
      <4> QED BY <3>1, <4>1, <4>4
    <3> QED BY <3>1, <3>3 DEF Ahead
  <2> QED BY <2>2, <2>3
<1> QED BY <1>2, <1>3

Timely ==
    /\ RepairAlone /\ OnlyRepair /\ RepairHolds
    /\ Stamped /\ PlansStamped /\ Newest /\ Settled /\ Ahead

LEMMA TimelyStep == Sane /\ Timely /\ [Next]_vars => Timely'
<1> SUFFICES ASSUME Sane, Timely, [Next]_vars PROVE Timely'
  OBVIOUS
<1>1. RepairAlone'
  BY DEF Timely, RepairAlone
<1>2. CASE Unchanged
  <2> USE <1>2 DEF Unchanged, files, work, Timely
  <2>1. OnlyRepair' /\ RepairHolds'
    BY DEF OnlyRepair, RepairHolds
  <2>2. Stamped' /\ PlansStamped' /\ Newest' /\ Ahead'
    BY DEF Stamped, PlansStamped, Newest, Ahead
  <2>3. Settled'
    BY DEF Settled, Settles, Mutating
  <2> QED BY <1>1, <2>1, <2>2, <2>3
<1>3. ASSUME NEW p \in Procs, OthersKeep(p), Acts(p) PROVE Timely'
  <2> USE <1>3 DEF Timely, Sane
  <2>1. OnlyRepair' /\ RepairHolds'
    BY OnlyRepairStep, RepairHoldsStep
  <2>2. Stamped' /\ Newest' /\ PlansStamped'
    BY StampedStep, PlansStampedStep
  <2>3. Settled' /\ Ahead'
    BY SettledStep, AheadStep
  <2> QED BY <1>1, <2>1, <2>2, <2>3
<1> QED BY <1>2, <1>3, SaneSteps

LEMMA TimelyInit == RepairAlone /\ Init => Timely
<1> SUFFICES ASSUME RepairAlone, Init PROVE Timely
  OBVIOUS
<1>1. OnlyRepair /\ RepairHolds
  BY DEF Init, OnlyRepair, RepairHolds, NoOp
<1>2. \A id \in Ids : Carriers(log, id) = {} /\ \A p \in Procs : Carriers(todo[p], id) = {}
  BY DEF Init, Carriers
<1>3. Stamped /\ PlansStamped /\ Newest /\ Ahead
  BY <1>2 DEF Stamped, PlansStamped, Newest, Ahead
<1>4. Settled
  BY DEF Init, Settled, Mutating
<1> QED BY <1>1, <1>3, <1>4 DEF Timely

LEMMA TimelyAlways == RepairAlone /\ Spec => [](Sane /\ Timely)
  BY SaneInit, SaneSteps, TimelyInit, TimelyStep, PTL DEF Spec

LEMMA LedgerSteps ==
    ASSUME Sane, Timely, [Next]_vars, NEW id \in Ids
    PROVE  ledger'[id] = ledger[id] \/ Follows(ledger[id], ledger'[id])
<1>1. UNCHANGED ledger \/ \E p \in Procs : WriteLedger(p)
  BY SaneSteps, FileSteps DEF Sane, Unchanged, files
<1> QED BY <1>1, WritesFollow DEF Timely

\* No update is lost: no write of the ledger drops a record or brings back an older
\* version, with any number of processes, crashes and failed writes, and with repairs
\* that run alone.
THEOREM NothingRollsBack == RepairAlone /\ Spec => NoRecordRollsBack
<1>1. ASSUME Sane, Timely, [Next]_vars
      PROVE  \A id \in Known(ledger) :
                /\ id \in Known(ledger')
                /\ ledger[id].updated_at <= ledger'[id].updated_at
  <2> SUFFICES ASSUME NEW id \in Known(ledger)
               PROVE  /\ id \in Known(ledger')
                      /\ ledger[id].updated_at <= ledger'[id].updated_at
    OBVIOUS
  <2>1. id \in Ids /\ ledger[id].updated_at \in Nat /\ ledger[id].status # "none"
    BY <1>1, LedgerType DEF Sane, Known, Record
  <2>2. ledger'[id] = ledger[id] \/ Follows(ledger[id], ledger'[id])
    BY <1>1, <2>1, LedgerSteps
  <2> QED BY <2>1, <2>2 DEF Follows, Known
<1>2. Sane /\ Timely /\ UNCHANGED vars => UNCHANGED ledger
  BY DEF vars, files
<1> QED BY <1>1, TimelyAlways, PTL DEF Spec, NoRecordRollsBack

\* A retired record stays retired, nothing becomes pending again, and only what was
\* accepted is retired, also by a repair that makes up for several lost writes.
THEOREM LifecycleOneWay == RepairAlone /\ Spec => LifecycleIsOneWay
<1>1. ASSUME Sane, Timely, [Next]_vars
      PROVE  \A id \in Ids :
               LET from == ledger[id].status
                   to == ledger'[id].status
               IN  /\ from = "retired" => to = "retired"
                   /\ to = "pending" => from \in {"none", "pending"}
                   /\ to = "retired" => from \in {"accepted", "retired"}
  <2> SUFFICES ASSUME NEW id \in Ids
               PROVE  LET from == ledger[id].status
                          to == ledger'[id].status
                      IN  /\ from = "retired" => to = "retired"
                          /\ to = "pending" => from \in {"none", "pending"}
                          /\ to = "retired" => from \in {"accepted", "retired"}
    OBVIOUS
  <2>1. ledger'[id] = ledger[id] \/ Follows(ledger[id], ledger'[id])
    BY <1>1, LedgerSteps
  <2> QED BY <2>1 DEF Follows, TransitionAllowed
<1> QED BY <1>1, TimelyAlways, PTL DEF Spec, LifecycleIsOneWay

\* Without a fault, a process leaves its write by writing.
LEMMA WhoWrites ==
    ASSUME Typing, [Next]_vars, NEW p \in Procs,
           pc[p] = "writing", pc'[p] = "releasing", faults' = faults
    PROVE  WriteLedger(p)
<1> USE DEF Typing, TypeOK
<1>1. ASSUME NEW q \in Procs, Crash(q) \/ WriteFails(q) \/ ReleaseFails(q) \/ AppendTorn(q)
      PROVE  FALSE
  BY <1>1 DEF Crash, WriteFails, ReleaseFails, AppendTorn
<1>2. ASSUME NEW q \in Procs, NEW o \in Commands, Start(q, o) PROVE FALSE
  BY <1>2 DEF Start
<1>3. ASSUME NEW q \in Procs,
             \/ Acquire(q) \/ TimeOut(q) \/ Release(q) \/ Refuse(q) \/ AppendRefused(q)
             \/ RepairReadsEvents(q) \/ RepairFails(q) \/ RepairConfirmed(q)
             \/ RepairReports(q)
      PROVE  FALSE
  BY <1>3 DEF Acquire, TimeOut, Release, Refuse, AppendRefused, RepairReadsEvents,
     RepairFails, RepairConfirmed, RepairReports, Forget, Finish
<1>4. ASSUME NEW q \in Procs,
             \/ Propose(q) \/ UpdateStatus(q) \/ AcceptWithRelationships(q) \/ Publish(q)
      PROVE  FALSE
  <2>1. pc' = [pc EXCEPT ![q] = "appending"]
    BY <1>4 DEF Propose, UpdateStatus, AcceptWithRelationships, Publish, Plan
  <2> QED BY <2>1
<1>5. ASSUME NEW q \in Procs, AppendEvent(q) PROVE FALSE
  BY <1>5 DEF AppendEvent, Finish
<1>6. ASSUME NEW q \in Procs, WriteLedger(q) PROVE q = p
  BY <1>6 DEF WriteLedger, Finish
<1>7. ~(RemoveStaleLock \/ UNCHANGED vars)
  BY DEF RemoveStaleLock, vars
<1> QED
  BY <1>1, <1>2, <1>3, <1>4, <1>5, <1>6, <1>7 DEF Next, ProcessStep, AllDone

\* A repair that writes leaves what the history gives at that moment: nothing is
\* appended between its reading of events.jsonl and its write, if it runs alone.
THEOREM RepairRestores == RepairAlone /\ Spec => RepairRestoresReplay
<1>1. ASSUME Sane, Timely, [Next]_vars
      PROVE  \A p \in Procs :
                pc[p] = "writing" /\ op[p].kind = "repair" /\ pc'[p] = "releasing"
                /\ faults' = faults
                    => ledger' = Replay(log)
  <2> SUFFICES ASSUME NEW p \in Procs, pc[p] = "writing", op[p].kind = "repair",
                      pc'[p] = "releasing", faults' = faults
               PROVE  ledger' = Replay(log)
    OBVIOUS
  <2>1. WriteLedger(p)
    BY <1>1, WhoWrites DEF Sane
  <2>2. planned[p] = Replay(log)
    BY <1>1 DEF Timely, RepairHolds
  <2> QED BY <2>1, <2>2 DEF WriteLedger
<1> QED BY <1>1, TimelyAlways, PTL DEF Spec, RepairRestoresReplay

-----------------------------------------------------------------------------
(* The ledger and the replay of the history *)

Unwritten(p) == Mutating(p) /\ begun[p]

\* What replay has when the events of process p are in the log is what p will write.
Completes(p) ==
    /\ \A j \in DOMAIN todo[p] : Replays(todo[p][j], Replay(log))
    /\ op[p].kind # "export" => \A id \in Ids :
          \/ /\ planned[p][id] = Replay(log)[id]
             /\ Carriers(todo[p], id) = {}
          \/ \E j \in Carriers(todo[p], id) : planned[p][id] = todo[p][j].record

InStep ==
    ~interrupted =>
        /\ Replayable(log)
        /\ (\A p \in Procs : ~Unwritten(p)) => ledger = Replay(log)
        /\ \A p \in Procs : pc[p] = "appending" => Completes(p)
        /\ \A p \in Procs :
              pc[p] = "writing" /\ op[p].kind # "repair" => planned[p] = Replay(log)

LEMMA ReplayableAppend ==
    ASSUME NEW events \in Seq(Event), NEW e \in Event
    PROVE  Replayable(Append(events, e)) <=> Replayable(events) /\ Replays(e, Replay(events))
<1> DEFINE more == Append(events, e)
           n == Len(events)
<1>1. /\ n \in Nat /\ DOMAIN events = 1..n /\ DOMAIN more = 1..(n + 1)
      /\ more[n + 1] = e /\ \A i \in 1..n : more[i] = events[i]
  OBVIOUS
<1>2. \A i \in 1..(n + 1) : SubSeq(more, 1, i - 1) = SubSeq(events, 1, i - 1)
  <2> SUFFICES ASSUME NEW i \in 1..(n + 1)
               PROVE  SubSeq(more, 1, i - 1) = SubSeq(events, 1, i - 1)
    OBVIOUS
  <2>1. \A k \in 1..(i - 1) : more[k] = events[k]
    BY <1>1
  <2> QED BY <1>1, <2>1 DEF more
<1>3. SubSeq(events, 1, n) = events
  OBVIOUS
<1> HIDE DEF more, n
<1>4. Replayable(more) <=> \A i \in 1..(n + 1) : Replays(more[i], Replay(SubSeq(events, 1, i - 1)))
  BY <1>1, <1>2 DEF Replayable
<1>5. Replayable(events) <=> \A i \in 1..n : Replays(more[i], Replay(SubSeq(events, 1, i - 1)))
  BY <1>1 DEF Replayable
<1>6. 1..(n + 1) = 1..n \cup {n + 1} /\ (n + 1) - 1 = n
  BY <1>1
<1>7. Replays(more[n + 1], Replay(SubSeq(events, 1, (n + 1) - 1))) <=> Replays(e, Replay(events))
  BY <1>1, <1>3, <1>6
<1>8. Replayable(more) <=> Replayable(events) /\ Replays(e, Replay(events))
  BY <1>4, <1>5, <1>6, <1>7
<1> QED BY <1>8 DEF more

LEMMA FitsReplays ==
    ASSUME NEW o, NEW records, NEW e, Fits(o, records, e)
    PROVE  Replays(e, records)
  BY DEF Fits, Replays

\* Replay goes on accepting an event after one about another record.
LEMMA ReplaysStill ==
    ASSUME NEW e \in Event, NEW f \in Event, NEW records \in Ledger,
           Replays(f, records),
           \A id \in Ids : ~(Carries(e, id) /\ Carries(f, id))
    PROVE  Replays(f, IF e \in VersionEvent THEN [records EXCEPT ![e.id] = e.record]
                                            ELSE records)
<1>1. CASE e \notin VersionEvent
  BY <1>1
<1>2. CASE e \in VersionEvent
  <2> DEFINE later == [records EXCEPT ![e.id] = e.record]
  <2>1. e.id \in Ids /\ e.record \in Record /\ Carries(e, e.id)
    BY <1>2, VersionEvents
  <2>2. e.record.status # "none"
    BY <2>1 DEF Record, Statuses
  <2>3. \A id \in Ids : id # e.id => later[id] = records[id]
    BY DEF Ledger
  <2>4. later[e.id] = e.record
    BY <2>1 DEF Ledger
  <2> HIDE DEF later
  <2>5. Known(records) \subseteq Known(later)
    BY <2>2, <2>3, <2>4 DEF Known
  <2>6. CASE f.type \in {"memory_proposed", "memory_status_changed"}
    <3>1. f.id \in Ids /\ Carries(f, f.id)
      BY <2>6, EventTypes, VersionEvents DEF Carries
    <3>2. f.id # e.id
      BY <2>1, <3>1
    <3>3. later[f.id] = records[f.id]
      BY <2>3, <3>1, <3>2
    <3> QED BY <1>2, <2>6, <3>3 DEF Replays, Known, later
  <2>7. CASE f.type \notin {"memory_proposed", "memory_status_changed"}
    BY <1>2, <2>5, <2>7 DEF Replays, later
  <2> QED BY <2>6, <2>7
<1> QED BY <1>1, <1>2

\* Once the first event is in the log, the others still replay, and complete the
\* records that will be written.
LEMMA CompletesMore ==
    ASSUME Sane, NEW p \in Procs, AppendEvent(p), Completes(p)
    PROVE  LET t == Tail(todo[p])
           IN /\ \A j \in DOMAIN t : Replays(t[j], Replay(log'))
              /\ op[p].kind # "export" => \A id \in Ids :
                    \/ planned[p][id] = Replay(log')[id] /\ Carriers(t, id) = {}
                    \/ \E j \in Carriers(t, id) : planned[p][id] = t[j].record
<1> USE DEF Sane
<1> DEFINE e == Head(todo[p])
           t == Tail(todo[p])
           before == Replay(log)
           after == Replay(log')
<1>1. pc[p] = "appending" /\ log' = Append(log, e)
  BY DEF AppendEvent
<1>2. /\ todo[p] \in Seq(Event) /\ e = todo[p][1] /\ e \in Event /\ 1 \in DOMAIN todo[p]
      /\ \A j \in DOMAIN t : /\ j + 1 \in DOMAIN todo[p] /\ j + 1 # 1
                             /\ t[j] = todo[p][j + 1]
      /\ \A j \in DOMAIN todo[p] : j # 1 =>
            j - 1 \in DOMAIN t /\ t[j - 1] = todo[p][j]
  BY <1>1, TailOfTodo
<1>3. log \in Seq(Event) /\ Versioned(log) /\ before \in Ledger
  BY ReplayType DEF Typing, TypeOK
<1>4. after = IF e \in VersionEvent THEN [before EXCEPT ![e.id] = e.record] ELSE before
  BY <1>1, <1>2, <1>3, ReplayAppend
<1> HIDE DEF e, t, before, after
<1>5. \A j \in DOMAIN t : \A id \in Ids : ~(Carries(e, id) /\ Carries(t[j], id))
  BY <1>2 DEF PlansFit, CarryOnce
<1>6. \A j \in DOMAIN t : Replays(t[j], after)
  <2> SUFFICES ASSUME NEW j \in DOMAIN t PROVE Replays(t[j], after)
    OBVIOUS
  <2>1. t[j] \in Event /\ Replays(t[j], before)
    BY <1>2 DEF Completes, before
  <2> QED BY <1>2, <1>3, <1>4, <1>5, <2>1, ReplaysStill
<1>7. ASSUME op[p].kind # "export", NEW id \in Ids
      PROVE  \/ planned[p][id] = after[id] /\ Carriers(t, id) = {}
             \/ \E j \in Carriers(t, id) : planned[p][id] = t[j].record
  <2>1. CASE planned[p][id] = before[id] /\ Carriers(todo[p], id) = {}
    <3>1. ~Carries(e, id) /\ Carriers(t, id) = {}
      BY <1>2, <2>1 DEF Carriers
    <3>2. after[id] = before[id]
      BY <1>3, <1>4, <3>1, VersionEvents DEF Ledger
    <3> QED BY <2>1, <3>1, <3>2
  <2>2. ASSUME NEW j \in Carriers(todo[p], id), planned[p][id] = todo[p][j].record
        PROVE  \/ planned[p][id] = after[id] /\ Carriers(t, id) = {}
               \/ \E k \in Carriers(t, id) : planned[p][id] = t[k].record
    <3>1. CASE j = 1
      <4>1. Carries(e, id) /\ planned[p][id] = e.record
        BY <1>2, <2>2, <3>1 DEF Carriers
      <4>2. e \in VersionEvent /\ e.id = id
        BY <1>2, <4>1, EventTypes DEF Carries
      <4>3. after[id] = e.record
        BY <1>3, <1>4, <4>2 DEF Ledger
      <4>4. Carriers(t, id) = {}
        BY <1>5, <4>1 DEF Carriers
      <4> QED BY <4>1, <4>3, <4>4
    <3>2. CASE j # 1
      <4>1. j - 1 \in Carriers(t, id) /\ t[j - 1] = todo[p][j]
        BY <1>2, <2>2, <3>2 DEF Carriers
      <4> QED BY <2>2, <4>1
    <3> QED BY <3>1, <3>2
  <2> QED BY <1>7, <2>1, <2>2 DEF Completes, before
<1> QED BY <1>6, <1>7 DEF t, after

LEMMA InStepStep ==
    ASSUME Sane, Sane', Timely, InStep, NEW p \in Procs, OthersKeep(p), Acts(p),
           ~interrupted'
    PROVE  /\ Replayable(log')
           /\ (\A q \in Procs : ~Unwritten(q)') => ledger' = Replay(log')
           /\ \A q \in Procs : pc'[q] = "appending" => Completes(q)'
           /\ \A q \in Procs :
                 pc'[q] = "writing" /\ op'[q].kind # "repair" => planned'[q] = Replay(log')
<1> DEFINE Goal == /\ Replayable(log')
                   /\ (\A q \in Procs : ~Unwritten(q)') => ledger' = Replay(log')
                   /\ \A q \in Procs : pc'[q] = "appending" => Completes(q)'
                   /\ \A q \in Procs :
                         pc'[q] = "writing" /\ op'[q].kind # "repair" =>
                            planned'[q] = Replay(log')
<1> USE DEF Sane
<1>1. ~interrupted
  BY DEF Acts, Start, GivesUp, Acquire, RepairConfirmed, RepairReadsEvents, Mutates, Plan,
     Publish, AppendEvent, WriteLedger, TornAppend, history
<1>2. /\ Replayable(log)
      /\ (\A q \in Procs : ~Unwritten(q)) => ledger = Replay(log)
      /\ \A q \in Procs : pc[q] = "appending" => Completes(q)
      /\ \A q \in Procs :
            pc[q] = "writing" /\ op[q].kind # "repair" => planned[q] = Replay(log)
  BY <1>1 DEF InStep
<1>3. \A q \in Procs : q # p => /\ Unwritten(q)' <=> Unwritten(q)
                                /\ pc'[q] = pc[q] /\ op'[q] = op[q]
                                /\ planned'[q] = planned[q] /\ todo'[q] = todo[q]
  BY DEF OthersKeep, Unwritten, Mutating
<1>4. ASSUME pc[p] \in Critical
      PROVE  \A q \in Procs : q # p => ~Unwritten(q)' /\ ~Unwritten(q)
                                        /\ pc'[q] \notin {"appending", "writing"}
  BY <1>3, <1>4, OneInside DEF Unwritten, Mutating, Critical
<1>5. ASSUME UNCHANGED <<ledger, log>>, ~Unwritten(p), pc'[p] # "appending",
             pc'[p] = "writing" => op'[p].kind = "repair"
      PROVE  Goal
  <2>1. \A q \in Procs : q # p /\ pc[q] = "appending" => Completes(q)'
    BY <1>2, <1>3, <1>5 DEF Completes
  <2> QED BY <1>2, <1>3, <1>5, <2>1
<1>6. CASE (\E o \in Commands : Start(p, o)) \/ GivesUp(p) \/ Acquire(p)
           \/ RepairConfirmed(p) \/ RepairReadsEvents(p)
  <2>1. UNCHANGED <<ledger, log>>
    BY <1>6 DEF Start, GivesUp, Acquire, RepairConfirmed, RepairReadsEvents, files
  <2>2. ~Unwritten(p)
    BY <1>1, <1>6 DEF Start, GivesUp, Acquire, RepairConfirmed, RepairReadsEvents,
       Unwritten, Mutating
  <2>3. /\ pc'[p] # "appending"
        /\ pc'[p] = "writing" => op'[p].kind = "repair"
    BY <1>6 DEF Start, GivesUp, Forget, Finish, Acquire, RepairConfirmed,
       RepairReadsEvents, work, Typing, TypeOK
  <2> QED BY <1>5, <2>1, <2>2, <2>3
<1>7. ASSUME UNCHANGED <<ledger, log>>, pc[p] = "locked", pc'[p] = "appending",
             op'[p].kind # "export" => \A id \in Ids :
                \/ planned'[p][id] = ledger[id] /\ Carriers(todo'[p], id) = {}
                \/ \E j \in Carriers(todo'[p], id) : planned'[p][id] = todo'[p][j].record
      PROVE  Goal
  <2>1. ledger = Replay(log)
    BY <1>2, <1>4, <1>7 DEF Unwritten, Mutating, Critical
  <2>2. \A j \in DOMAIN todo'[p] : Replays(todo'[p][j], Replay(log'))
    <3>1. \A j \in DOMAIN todo'[p] : Fits(op'[p], ledger', todo'[p][j])
      BY DEF PlansFit
    <3> QED BY <1>7, <2>1, <3>1, FitsReplays
  <2>3. Completes(p)'
    BY <1>7, <2>1, <2>2 DEF Completes
  <2>4. pc[p] \in Critical
    BY <1>7 DEF Critical
  <2> QED BY <1>2, <1>4, <1>7, <2>1, <2>3, <2>4
<1>8. ASSUME NEW events, NEW records, Mutates(p, events, records) PROVE Goal
  BY <1>7, <1>8 DEF Mutates, Plan, Typing, TypeOK
<1>9. CASE Publish(p)
  BY <1>7, <1>9 DEF Publish, Plan, Typing, TypeOK
<1>10. CASE AppendEvent(p)
  <2> DEFINE e == Head(todo[p])
             t == Tail(todo[p])
  <2>1. /\ pc[p] = "appending" /\ log' = Append(log, e) /\ UNCHANGED ledger
        /\ op'[p] = op[p] /\ planned[p] \in Ledger
    BY <1>10 DEF AppendEvent, Finish, Typing, TypeOK
  <2>2. /\ e \in Event /\ e = todo[p][1] /\ 1 \in DOMAIN todo[p] /\ pc[p] \in Critical
        /\ log \in Seq(Event) /\ Versioned(log) /\ log' \in Seq(Event) /\ Versioned(log')
    BY <2>1, TailOfTodo DEF Critical, Typing, TypeOK
  <2>3. Completes(p)
    BY <1>2, <2>1
  <2>4. Replayable(log')
    BY <1>2, <2>1, <2>2, <2>3, ReplayableAppend DEF Completes
  <2>5. CASE op[p].kind = "export"
    <3>1. \E x : todo[p] = << x >>
      BY <2>1, <2>5 DEF Roles, Role
    <3>2. Len(todo[p]) = 1
      BY <3>1
    <3>3. pc'[p] = "releasing"
      BY <1>10, <2>5, <3>2 DEF AppendEvent, Finish, Typing, TypeOK
    <3>4. e \notin VersionEvent
      <4>1. Fits(op[p], ledger, e)
        BY <2>2 DEF PlansFit
      <4> QED BY <2>5, <4>1 DEF Fits, VersionEvent, ProposedEvent, StatusEvent
    <3>5. Replay(log') = Replay(log)
      BY <2>1, <2>2, <3>4, ReplayAppend
    <3>6. ledger = Replay(log)
      BY <1>2, <1>4, <2>2, <2>5 DEF Unwritten, Mutating
    <3> QED BY <1>4, <2>1, <2>2, <2>4, <3>3, <3>5, <3>6
  <2>6. CASE op[p].kind # "export"
    <3>1. /\ todo'[p] = t /\ planned'[p] = planned[p] /\ begun'[p]
          /\ pc'[p] \in {"appending", "writing"}
      BY <1>10, <2>6 DEF AppendEvent, Typing, TypeOK
    <3>2. Unwritten(p)'
      BY <2>1, <2>6, <3>1 DEF Unwritten, Mutating, Roles, Role
    <3>3. /\ \A j \in DOMAIN t : Replays(t[j], Replay(log'))
          /\ \A id \in Ids :
                \/ planned[p][id] = Replay(log')[id] /\ Carriers(t, id) = {}
                \/ \E j \in Carriers(t, id) : planned[p][id] = t[j].record
      BY <1>10, <2>3, <2>6, CompletesMore
    <3>4. Completes(p)'
      BY <3>1, <3>3 DEF Completes
    <3>5. ASSUME pc'[p] = "writing" PROVE planned'[p] = Replay(log')
      <4>1. todo'[p] = <<>>
        BY <3>5 DEF Typing, Appending
      <4>2. \A id \in Ids : planned[p][id] = Replay(log')[id]
        <5> HIDE DEF t
        <5>1. t = <<>>
          BY <3>1, <4>1, Zenon
        <5>2. \A id : \A j \in Carriers(<<>>, id) : FALSE
          BY DEF Carriers
        <5> QED BY <3>3, <5>1, <5>2
      <4>3. Replay(log') \in Ledger
        BY <2>2, ReplayType
      <4> QED BY <2>1, <3>1, <4>2, <4>3 DEF Ledger
    <3> QED BY <1>4, <2>2, <2>4, <3>2, <3>4, <3>5
  <2> QED BY <2>5, <2>6
<1>11. CASE WriteLedger(p)
  <2>1. /\ pc[p] = "writing" /\ ledger' = planned[p] /\ UNCHANGED log
        /\ pc'[p] = "releasing" /\ pc[p] \in Critical
    BY <1>11 DEF WriteLedger, Finish, Critical, Typing, TypeOK
  <2>2. planned[p] = Replay(log)
    BY <1>2, <2>1 DEF Timely, RepairHolds
  <2> QED BY <1>2, <1>4, <2>1, <2>2
<1>12. ~TornAppend(p)
  BY DEF TornAppend
<1> QED BY <1>6, <1>8, <1>9, <1>10, <1>11, <1>12 DEF Acts

\* The history gives the ledger as long as no command was stopped between two of its
\* changes: concurrent mutations, exports and lone repairs alone never make
\* `mempr check` fail.
THEOREM NothingDrifts == RepairAlone /\ Spec => []NoSilentDrift
<1>1. Init => InStep
  <2> SUFFICES ASSUME Init PROVE InStep
    OBVIOUS
  <2>1. Replayable(log)
    BY DEF Init, Replayable
  <2>2. ledger = Replay(log)
    BY DEF Init, EmptyLedger, Replay, Carriers
  <2>3. \A p \in Procs : pc[p] = "idle"
    BY DEF Init
  <2> QED BY <2>1, <2>2, <2>3 DEF InStep
<1>2. Sane /\ Timely /\ InStep /\ Sane' /\ [Next]_vars => InStep'
  <2> SUFFICES ASSUME Sane, Timely, InStep, Sane', [Next]_vars PROVE InStep'
    OBVIOUS
  <2>1. CASE Unchanged
    BY <2>1 DEF Unchanged, files, work, InStep, Unwritten, Mutating, Completes
  <2>2. ASSUME NEW p \in Procs, OthersKeep(p), Acts(p) PROVE InStep'
    BY <2>2, InStepStep DEF InStep
  <2> QED BY <2>1, <2>2, SaneSteps
<1>3. InStep => NoSilentDrift
  BY DEF InStep, NoSilentDrift, Quiet, Critical, Unwritten, Mutating
<1> QED BY <1>1, <1>2, <1>3, TimelyAlways, PTL DEF Spec


-----------------------------------------------------------------------------
(* The closed form of the replay is the replay event by event *)

LEMMA Least ==
    ASSUME NEW T \in SUBSET Nat, T # {}
    PROVE  \E m \in T : \A n \in T : m <= n
<1> DEFINE R == OpToRel(<, Nat)
<1>1. IsWellFoundedOn(R, Nat)
  BY NatLessThanWellFounded
<1>2. \A n, m \in Nat : <<n, m>> \in R <=> n < m
  BY DEF OpToRel
<1> HIDE DEF R
<1>3. PICK m \in T : \A n \in T : <<n, m>> \notin R
  <2>1. \E m \in T : \A n \in T : <<n, m>> \notin R
    BY <1>1, WFMin, Zenon
  <2> QED BY <2>1
<1>4. ASSUME NEW n \in T PROVE m <= n
  <2>1. n \in Nat /\ m \in Nat /\ <<n, m>> \notin R
    BY <1>3
  <2> QED BY <2>1, <1>2
<1> QED BY <1>4

Blank == [ok |-> TRUE, records |-> EmptyLedger]

\* f gives the views after the first n events.
Course(events, n, f) ==
    f = [m \in 0..n |-> IF m = 0 THEN Blank ELSE ReplayStep(f[m - 1], events[m])]

LEMMA CourseAt ==
    ASSUME NEW events, NEW n \in Nat, NEW f, Course(events, n, f), NEW m \in 0..n
    PROVE  /\ m = 0 => f[m] = Blank
           /\ m # 0 => f[m] = ReplayStep(f[m - 1], events[m])
<1> DEFINE After(i) == IF i = 0 THEN Blank ELSE ReplayStep(f[i - 1], events[i])
<1>1. f = [i \in 0..n |-> After(i)]
  BY DEF Course
<1> HIDE DEF After
<1>2. f[m] = After(m)
  BY <1>1
<1> QED BY <1>2 DEF After

\* The views do not depend on what comes later.
LEMMA CourseOne ==
    ASSUME NEW events, NEW more, NEW n \in Nat, NEW k \in Nat, n <= k,
           \A i \in 1..n : events[i] = more[i],
           NEW f, NEW g, Course(events, n, f), Course(more, k, g)
    PROVE  f[n] = g[n]
<1> DEFINE T == {m \in Nat : m <= n /\ f[m] # g[m]}
<1> SUFFICES ASSUME T # {} PROVE FALSE
  OBVIOUS
<1>1. PICK m \in T : \A i \in T : m <= i
  <2> HIDE DEF T
  <2>1. T \in SUBSET Nat
    BY DEF T
  <2> QED BY <2>1, Least
<1>2. m \in 0..n /\ m \in 0..k /\ f[m] # g[m]
  BY <1>1
<1>3. m # 0
  <2>1. m \in 0..n /\ m \in 0..k
    BY <1>2
  <2> HIDE DEF T
  <2>2. m = 0 => f[m] = Blank
    BY <2>1, CourseAt, Zenon
  <2>3. m = 0 => g[m] = Blank
    BY <2>1, CourseAt, Zenon
  <2> QED BY <1>2, <2>2, <2>3
<1>4. f[m - 1] = g[m - 1]
  <2>1. m \in Nat /\ m - 1 \in Nat /\ m - 1 <= n /\ ~(m <= m - 1)
    BY <1>1, <1>3
  <2>2. m - 1 \notin T
    BY <1>1, <2>1
  <2> QED BY <2>1, <2>2
<1>5. f[m] = ReplayStep(f[m - 1], events[m]) /\ g[m] = ReplayStep(g[m - 1], more[m])
  BY <1>2, <1>3, CourseAt
<1>6. events[m] = more[m]
  BY <1>2, <1>3
<1> QED BY <1>2, <1>4, <1>5, <1>6

LEMMA CourseExists ==
    ASSUME NEW events, NEW n \in Nat
    PROVE  \E f : Course(events, n, f)
<1> DEFINE T == {m \in Nat : ~ \E f : Course(events, m, f)}
<1> SUFFICES ASSUME T # {} PROVE FALSE
  OBVIOUS
<1>1. PICK m \in T : \A i \in T : m <= i
  <2> HIDE DEF T
  <2>1. T \in SUBSET Nat
    BY DEF T
  <2> QED BY <2>1, Least
<1>2. m # 0
  <2> DEFINE g == [k \in 0..0 |-> Blank]
  <2>1. Course(events, 0, g)
    BY DEF Course
  <2> QED BY <1>1, <2>1
<1>3. PICK f : Course(events, m - 1, f)
  <2>1. m \in Nat /\ m - 1 \in Nat /\ ~(m <= m - 1)
    BY <1>1, <1>2
  <2>2. m - 1 \notin T
    BY <1>1, <2>1
  <2> QED BY <2>1, <2>2
<1> DEFINE After(k) == IF k = 0 THEN Blank ELSE ReplayStep(f[k - 1], events[k])
           g == [k \in 0..m |-> After(k)]
           Later(k) == IF k = 0 THEN Blank ELSE ReplayStep(g[k - 1], events[k])
<1>4. ASSUME NEW k \in 0..m, k # 0
      PROVE  f[k - 1] = g[k - 1]
  <2>1. k - 1 \in 0..(m - 1) /\ m - 1 \in Nat /\ k - 1 \in 0..m
    BY <1>1, <1>2, <1>4
  <2>2. \A i \in 0..(m - 1) : /\ i = 0 => f[i] = Blank
                              /\ i # 0 => f[i] = ReplayStep(f[i - 1], events[i])
    BY <1>3, <2>1, CourseAt
  <2>3. f[k - 1] = After(k - 1)
    BY <2>1, <2>2
  <2> HIDE DEF After
  <2> QED BY <2>1, <2>3
<1>5. \A k \in 0..m : After(k) = Later(k)
  <2> HIDE DEF g
  <2> QED BY <1>4
<1>6. g = [k \in 0..m |-> Later(k)]
  <2> HIDE DEF After, Later
  <2> QED BY <1>5
<1>7. Course(events, m, g)
  <2> HIDE DEF g
  <2> QED BY <1>6 DEF Course
<1> QED BY <1>1, <1>7

LEMMA ViewIs ==
    ASSUME NEW events, Len(events) \in Nat
    PROVE  \E f : Course(events, Len(events), f) /\ ReplayOneByOne(events) = f[Len(events)]
<1>1. ReplayOneByOne(events) = (CHOOSE f : Course(events, Len(events), f))[Len(events)]
  BY DEF ReplayOneByOne, Course, Blank
<1> QED BY <1>1, CourseExists

LEMMA ViewOfNothing == ReplayOneByOne(<<>>) = Blank
<1>1. Len(<<>>) = 0
  OBVIOUS
<1>2. PICK f : Course(<<>>, 0, f) /\ ReplayOneByOne(<<>>) = f[0]
  BY <1>1, ViewIs
<1> QED BY <1>2 DEF Course

LEMMA ViewAppend ==
    ASSUME NEW S, NEW events \in Seq(S), NEW e \in S
    PROVE  ReplayOneByOne(Append(events, e)) = ReplayStep(ReplayOneByOne(events), e)
<1> DEFINE n == Len(events)
           more == Append(events, e)
<1>1. n \in Nat /\ Len(more) = n + 1 /\ more[n + 1] = e /\ \A i \in 1..n : events[i] = more[i]
  OBVIOUS
<1> HIDE DEF more
<1>2. PICK f : Course(events, n, f) /\ ReplayOneByOne(events) = f[n]
  BY <1>1, ViewIs
<1>3. PICK g : Course(more, n + 1, g) /\ ReplayOneByOne(more) = g[n + 1]
  BY <1>1, ViewIs
<1> HIDE DEF n
<1>4. f[n] = g[n]
  BY <1>1, <1>2, <1>3, CourseOne
<1>5. g[n + 1] = ReplayStep(g[n], e)
  <2>1. n + 1 \in 0..(n + 1) /\ n + 1 \in Nat /\ n + 1 # 0 /\ (n + 1) - 1 = n
    BY <1>1
  <2>2. g[n + 1] = ReplayStep(g[(n + 1) - 1], more[n + 1])
    BY <1>3, <2>1, CourseAt
  <2> QED BY <1>1, <2>1, <2>2
<1> QED BY <1>1, <1>2, <1>3, <1>4, <1>5 DEF more

\* Induction over histories: what holds of the empty one, and of each one with one
\* event more.
Agrees(events) ==
    /\ Versioned(events)
    /\ \E records : ReplayOneByOne(events) = [ok |-> Replayable(events), records |-> records]
    /\ Replayable(events) => ReplayOneByOne(events) = [ok |-> TRUE, records |-> Replay(events)]

LEMMA AgreesOnNothing == Agrees(<<>>)
<1>1. DOMAIN <<>> = {}
  OBVIOUS
<1>2. Replayable(<<>>) /\ Versioned(<<>>) /\ Replay(<<>>) = EmptyLedger
  BY <1>1 DEF Replayable, Versioned, Carriers, Replay, EmptyLedger
<1>3. Replayable(<<>>) = TRUE
  BY <1>2 DEF Replayable
<1> QED BY <1>2, <1>3, ViewOfNothing DEF Agrees, Blank

LEMMA AgreesAppend ==
    ASSUME NEW events \in Seq(Event), NEW e \in Event, Agrees(events)
    PROVE  Agrees(Append(events, e))
<1> DEFINE more == Append(events, e)
           view == ReplayOneByOne(events)
<1>1. /\ ReplayOneByOne(more) = ReplayStep(view, e)
      /\ Versioned(more) /\ Versioned(events)
      /\ Replayable(more) <=> Replayable(events) /\ Replays(e, Replay(events))
  BY ViewAppend, VersionedAppend, ReplayableAppend DEF Agrees
<1>2. Replayable(events) \in BOOLEAN /\ Replayable(more) \in BOOLEAN
  BY DEF Replayable
<1>3. /\ \E records : view = [ok |-> Replayable(events), records |-> records]
      /\ Replayable(events) => view = [ok |-> TRUE, records |-> Replay(events)]
  BY DEF Agrees
<1>4. Replay(more) = IF e \in VersionEvent
                     THEN [Replay(events) EXCEPT ![e.id] = e.record]
                     ELSE Replay(events)
  BY <1>1, ReplayAppend
<1>5. e \in VersionEvent <=> e.type \in {"memory_proposed", "memory_status_changed"}
  BY EventTypes DEF VersionEvent, ProposedEvent, StatusEvent
<1> HIDE DEF more, view
<1>6. CASE Replayable(more)
  <2>1. view = [ok |-> TRUE, records |-> Replay(events)] /\ Replays(e, view.records)
    BY <1>1, <1>3, <1>6
  <2>2. ReplayStep(view, e) = [ok |-> TRUE, records |-> Replay(more)]
    BY <1>4, <1>5, <2>1 DEF ReplayStep
  <2> QED BY <1>1, <1>2, <1>6, <2>2 DEF Agrees, more
<1>7. CASE ~Replayable(more)
  <2>1. ~view.ok \/ ~Replays(e, view.records)
    BY <1>1, <1>3, <1>7
  <2>2. ReplayStep(view, e) = [view EXCEPT !.ok = FALSE]
    BY <2>1 DEF ReplayStep
  <2>3. \E records : ReplayStep(view, e) = [ok |-> FALSE, records |-> records]
    BY <1>3, <2>2
  <2> QED BY <1>1, <1>2, <1>7, <2>3 DEF Agrees, more
<1> QED BY <1>6, <1>7

LEMMA AgreesAlways ==
    ASSUME NEW events \in Seq(Event)
    PROVE  Agrees(events)
<1> DEFINE T == {Len(s) : s \in {x \in Seq(Event) : ~Agrees(x)}}
<1> SUFFICES ASSUME T # {} PROVE FALSE
  OBVIOUS
<1>1. PICK s \in Seq(Event) : ~Agrees(s) /\ \A t \in Seq(Event) : Agrees(t) \/ Len(s) <= Len(t)
  <2>1. PICK m \in T : \A n \in T : m <= n
    <3>1. T \in SUBSET Nat
      OBVIOUS
    <3> HIDE DEF T
    <3> QED BY <3>1, Least
  <2>2. PICK s \in Seq(Event) : ~Agrees(s) /\ Len(s) = m
    BY <2>1
  <2> QED BY <2>1, <2>2
<1>2. s # <<>>
  BY <1>1, AgreesOnNothing
<1>3. PICK t \in Seq(Event), e \in Event : s = Append(t, e)
  BY <1>2, SequenceEmptyOrAppend
<1>4. Agrees(t)
  BY <1>1, <1>3
<1> QED BY <1>1, <1>3, <1>4, AgreesAppend

\* The closed form of the replay, which the model and the theorems speak of, says what
\* ReplayStep says event by event, as replayEvents does, on every history of events.
LEMMA ReplayedOneByOne ==
    ASSUME NEW events \in Seq(Event), Replayable(events)
    PROVE  ReplayOneByOne(events) = [ok |-> TRUE, records |-> Replay(events)]
BY AgreesAlways DEF Agrees

-----------------------------------------------------------------------------
(* The operators of the abstract ledger are those of the store *)

LEMMA SameLedger ==
    /\ TheStore!EmptyLedger = EmptyLedger
    /\ \A view : TheStore!Known(view) = Known(view)
    /\ \A id : TheStore!Linked(id) = Linked(id)
    /\ \A from, to : TheStore!TransitionAllowed(from, to) = TransitionAllowed(from, to)
    /\ \A view, id, linked :
          TheStore!AcceptedPeers(view, id, linked) = AcceptedPeers(view, id, linked)
    /\ \A view, d : TheStore!AcceptedFor(view, d) = AcceptedFor(view, d)
    /\ \A ids : TheStore!FreeOfLinks(ids) = FreeOfLinks(ids)
BY DEF TheStore!EmptyLedger, EmptyLedger, TheStore!NoRecord, NoRecord, TheStore!Known, Known,
   TheStore!Linked, Linked, TheStore!TransitionAllowed, TransitionAllowed,
   TheStore!AcceptedPeers, AcceptedPeers, TheStore!AcceptedFor, AcceptedFor,
   TheStore!FreeOfLinks, FreeOfLinks

LEMMA SameHistory ==
    /\ \A events, id : TheStore!Carriers(events, id) = Carriers(events, id)
    /\ \A events, id : TheStore!Latest(events, id) = Latest(events, id)
    /\ \A e, view : TheStore!Replays(e, view) = Replays(e, view)
    /\ \A events : TheStore!Replay(events) = Replay(events)
    /\ \A events : TheStore!Replayable(events) = Replayable(events)
<1>1. \A events, id : TheStore!Carriers(events, id) = Carriers(events, id)
  BY DEF TheStore!Carriers, Carriers, TheStore!Carries, Carries
<1>2. \A events, id : TheStore!Latest(events, id) = Latest(events, id)
  BY <1>1 DEF TheStore!Latest, Latest
<1>3. \A e, view : TheStore!Replays(e, view) = Replays(e, view)
  BY SameLedger DEF TheStore!Replays, Replays
<1>4. \A events : TheStore!Replay(events) = Replay(events)
  BY <1>1, <1>2 DEF TheStore!Replay, Replay, TheStore!NoRecord, NoRecord
<1>5. \A events : TheStore!Replayable(events) = Replayable(events)
  BY <1>3, <1>4 DEF TheStore!Replayable, Replayable
<1> QED BY <1>1, <1>2, <1>3, <1>4, <1>5

-----------------------------------------------------------------------------
(* The plans are lawful *)

LEMMA MutatesTells ==
    ASSUME Typing, NEW p \in Procs, NEW events, NEW records, Mutates(p, events, records)
    PROVE  /\ TheStore!Tells(events, ledger, records, Len(log) + 1)
           /\ todo'[p] = events /\ planned'[p] = records /\ pc'[p] = "appending"
           /\ UNCHANGED <<ledger, log, op, begun, published>>
<1>1. /\ todo'[p] = events /\ planned'[p] = records /\ pc'[p] = "appending"
      /\ UNCHANGED <<ledger, log, op, begun, published>>
  BY DEF Mutates, Plan, Typing, TypeOK
<1>2. /\ events # <<>> /\ CarryOnce(events) /\ records \in Ledger
      /\ \A i \in DOMAIN events : Replays(events[i], ledger)
  BY FitsReplays DEF Mutates
<1>3. \A id \in Ids : \A i, j \in Carriers(events, id) :
         i = j /\ events[i].record.updated_at = Len(log) + 1
  BY <1>2 DEF Mutates, CarryOnce, Carriers, Now
<1>4. ASSUME NEW id \in Ids
      PROVE  records[id] = IF Carriers(events, id) = {} THEN ledger[id]
                           ELSE events[Latest(events, id)].record
  <2>1. CASE records[id] = ledger[id] /\ Carriers(events, id) = {}
    BY <2>1
  <2>2. ASSUME NEW j \in Carriers(events, id), records[id] = events[j].record
        PROVE  records[id] = events[Latest(events, id)].record /\ Carriers(events, id) # {}
    <3>1. Carriers(events, id) = {j} /\ j \in Nat
      BY <1>3, <2>2 DEF Carriers, Mutates
    <3>2. Latest(events, id) = j
      BY <3>1 DEF Latest
    <3> QED BY <2>2, <3>2
  <2> QED BY <2>1, <2>2 DEF Mutates
<1>5. records = TheStore!Updated(ledger, events)
  BY <1>2, <1>4, SameHistory DEF TheStore!Updated, Ledger
<1> QED
  BY <1>1, <1>2, <1>3, <1>5, SameHistory DEF TheStore!Tells

LEMMA ProposeIsLawful ==
    ASSUME Typing, History, Sound, NEW p \in Procs, Propose(p)
    PROVE  \E id \in Ids : TheStore!Proposed(id, ledger, planned'[p], todo'[p])
<1> DEFINE id == op[p].id
           status == InitialStatus(id, op[p].decision)
           record == WithStatus(id, status)
           event == [type |-> "memory_proposed", id |-> id, record |-> record]
<1>1. op[p] \in Proposal
  BY CommandKinds DEF Typing, TypeOK, Propose, NoOp
<1>2. /\ id \in Ids /\ record.status \in {"pending", "accepted", "rejected"}
      /\ Linked(id) => record.status # "accepted"
  BY <1>1 DEF Proposal, InitialStatus, WithStatus
<1>3. /\ planned'[p] = [ledger EXCEPT ![id] = record]
      /\ todo'[p] = << event >>
      /\ Supersedes[id] \cup Conflicts[id] \subseteq Known(ledger)
  BY DEF Propose, Plan, Typing, TypeOK
<1>4. id \notin Known(ledger)
  <2>1. Carriers(log, id) = {}
    BY DEF Propose, Sound, FreshIds
  <2> QED BY <2>1 DEF History, LedgerIsLogged
<1>5. planned'[p][id] = record /\ \A x \in Ids : x # id => planned'[p][x] = ledger[x]
  BY <1>2, <1>3 DEF Typing, TypeOK, Ledger
<1>6. Len(todo'[p]) = 1
  BY <1>3
<1> HIDE DEF id, record, event
<1> QED
  BY <1>2, <1>3, <1>4, <1>5, <1>6, SameLedger DEF TheStore!Proposed

LEMMA UpdateStatusIsLawful ==
    ASSUME Typing, NEW p \in Procs, UpdateStatus(p)
    PROVE  \E id \in Ids : TheStore!Reviewed(id, ledger, planned'[p], todo'[p])
<1> DEFINE id == op[p].id
           status == op[p].status
           first == StatusChange(id, status)
           second == Resolution(id, {id}, {})
           two == status = "retired"
           events == << first >> \o IF two THEN << second >> ELSE <<>>
<1>1. op[p] \in Review
  BY CommandKinds DEF Typing, TypeOK, UpdateStatus, NoOp
<1>2. /\ id \in Known(ledger) /\ id \in Ids /\ status \in Statuses
      /\ TransitionAllowed(ledger[id].status, status)
  BY <1>1 DEF Review, UpdateStatus
<1>3. /\ planned'[p] = [ledger EXCEPT ![id] = WithStatus(id, status)]
      /\ todo'[p] = events
  BY DEF UpdateStatus, Plan, Typing, TypeOK
<1>4. /\ planned'[p][id].status = status
      /\ \A x \in Ids : x # id => planned'[p][x] = ledger[x]
  BY <1>2, <1>3 DEF Typing, TypeOK, Ledger, WithStatus
<1>5. first \in Event /\ second \in Event /\ two \in BOOLEAN
  BY <1>2, StatusChangeType, ResolutionType DEF Event, Typing
<1> HIDE DEF first
<1>6. /\ two => Len(events) = 2 /\ events[2].retired = {id}
      /\ ~two => Len(events) = 1
  <2> HIDE DEF second, two, events
  <2>1. events \in Seq(Event) /\ DOMAIN events = IF two THEN {1, 2} ELSE {1}
    BY <1>5, OneOrTwo DEF events
  <2>2. two => events[2] = second
    BY <1>5, OneOrTwo DEF events
  <2>3. Len(events) \in Nat /\ DOMAIN events = 1..Len(events)
    BY <2>1
  <2>4. Len(events) = IF two THEN 2 ELSE 1
    BY <2>1, <2>3
  <2> QED BY <2>2, <2>4 DEF second, Resolution
<1> HIDE DEF id, status, events
<1>7. TheStore!Reviewed(id, ledger, planned'[p], todo'[p])
  BY <1>2, <1>3, <1>4, <1>6, SameLedger DEF TheStore!Reviewed, TheStore!LastOf
<1> QED BY <1>2, <1>7

LEMMA AcceptIsLawful ==
    ASSUME Typing, History, Sound, NEW p \in Procs, AcceptWithRelationships(p)
    PROVE  \E id \in Ids : TheStore!Accepted(id, ledger, planned'[p], todo'[p])
<1> DEFINE id == op[p].id
           superseded == AcceptedPeers(ledger, id, Supersedes[id])
           retired == IF op[p].retire THEN superseded ELSE {}
           overridden == (superseded \ retired)
                         \cup AcceptedPeers(ledger, id, Conflicts[id])
           records == [x \in Ids |->
                        IF x = id THEN WithStatus(id, "accepted")
                        ELSE IF x \in retired THEN WithStatus(x, "retired")
                        ELSE ledger[x]]
<1>1. op[p] \in Acceptance
  BY CommandKinds DEF Typing, TypeOK, AcceptWithRelationships, NoOp
<1>2. /\ id \in Ids /\ id \in Known(ledger)
      /\ TransitionAllowed(ledger[id].status, "accepted")
  BY <1>1 DEF Acceptance, AcceptWithRelationships
<1>3. PICK order \in Orders(retired) :
        Plan(p, AcceptanceEvents(id, order, overridden), records)
  BY DEF AcceptWithRelationships
<1>4. planned'[p] = records /\ todo'[p] = AcceptanceEvents(id, order, overridden)
  BY <1>3 DEF Plan, Typing, TypeOK
<1>5. /\ retired \in SUBSET Known(ledger) /\ retired \in SUBSET Ids
      /\ overridden \in SUBSET Ids /\ id \notin Supersedes[id] \cup Conflicts[id]
  BY <1>2, StoreAssumption, KnownSelfFree DEF AcceptedPeers, Known, Sound
<1>7. {x \in superseded : records[x].status = "retired"} = retired
  BY <1>2, <1>5, StoreAssumption DEF WithStatus, AcceptedPeers
<1>8. overridden = AcceptedPeers(records, id, Supersedes[id] \cup Conflicts[id])
  <2> SUFFICES ASSUME NEW x
               PROVE  x \in overridden
                       <=> x \in AcceptedPeers(records, id, Supersedes[id] \cup Conflicts[id])
    OBVIOUS
  <2>1. CASE x \in Supersedes[id]
    BY <1>2, <1>5, <2>1, StoreAssumption DEF AcceptedPeers, WithStatus
  <2>2. CASE x \in Conflicts[id]
    BY <1>2, <1>5, <2>2, StoreAssumption DEF AcceptedPeers, WithStatus
  <2>3. CASE x \notin Supersedes[id] \cup Conflicts[id]
    BY <2>3 DEF AcceptedPeers
  <2> QED BY <2>1, <2>2, <2>3
<1>9. /\ Len(order) \in Nat /\ Len(todo'[p]) = Len(order) + 2
      /\ todo'[p][Len(order) + 2]
            = Resolution(id, {order[j] : j \in DOMAIN order}, overridden)
  BY <1>2, <1>4, <1>5, AcceptanceEventsType DEF AcceptanceEvents, Typing
<1>10. {order[j] : j \in DOMAIN order} = retired
  <2>1. Cardinality(retired) \in Nat
    BY <1>5, StoreAssumption, FS_Subset, FS_CardinalityType
  <2> QED BY <2>1 DEF Orders
<1>11. retired \in {{}, superseded}
  OBVIOUS
<1>12. /\ records[id].status = "accepted"
       /\ \A x \in Ids \ retired : x # id => records[x] = ledger[x]
  BY <1>2 DEF WithStatus
<1>13. /\ TheStore!LastOf(todo'[p]).retired = retired
       /\ TheStore!LastOf(todo'[p]).overridden = overridden
  BY <1>9, <1>10 DEF TheStore!LastOf, Resolution
<1> HIDE DEF id, superseded, retired, overridden, records
<1>14. TheStore!Accepted(id, ledger, planned'[p], todo'[p])
  BY <1>2, <1>4, <1>7, <1>8, <1>11, <1>12, <1>13, SameLedger
     DEF TheStore!Accepted, superseded
<1> QED BY <1>2, <1>14

-----------------------------------------------------------------------------
(* The command in flight *)

\* Only a command that has events or the ledger to write has begun, never a repair, and
\* what a command will write is lawful for the ledger as long as it has not begun.
Underway ==
    \A p \in Procs :
        /\ begun[p] => pc[p] \in {"appending", "writing"} /\ op[p].kind # "repair"
        /\ pc[p] = "appending" /\ ~begun[p] =>
              TheStore!Lawful(todo[p], ledger, planned[p], Len(log) + 1)

LEMMA PlansAreLawful ==
    ASSUME Sane, NEW p \in Procs, NEW events, NEW records, Mutates(p, events, records),
           Propose(p) \/ UpdateStatus(p) \/ AcceptWithRelationships(p)
    PROVE  TheStore!Lawful(todo'[p], ledger', planned'[p], Len(log') + 1)
<1>1. TheStore!Tells(todo'[p], ledger', planned'[p], Len(log') + 1) /\ UNCHANGED ledger
  BY MutatesTells DEF Sane
<1>2. \E id \in Ids :
         \/ TheStore!Proposed(id, ledger, planned'[p], todo'[p])
         \/ TheStore!Reviewed(id, ledger, planned'[p], todo'[p])
         \/ TheStore!Accepted(id, ledger, planned'[p], todo'[p])
  BY ProposeIsLawful, UpdateStatusIsLawful, AcceptIsLawful DEF Sane
<1> QED BY <1>1, <1>2 DEF TheStore!Lawful

LEMMA BegunStep ==
    ASSUME Sane, Underway, NEW p \in Procs, Acts(p), begun'[p]
    PROVE  pc'[p] \in {"appending", "writing"} /\ op'[p].kind # "repair"
<1> USE DEF Sane, Typing, TypeOK
<1>1. begun[p] => pc[p] \in {"appending", "writing"} /\ op[p].kind # "repair"
  BY DEF Underway
<1>2. CASE \/ \E o \in Commands : Start(p, o)
           \/ Acquire(p) \/ RepairConfirmed(p) \/ RepairReadsEvents(p)
  BY <1>1, <1>2 DEF Start, Acquire, RepairConfirmed, RepairReadsEvents, work
<1>3. ASSUME NEW events, NEW records, Mutates(p, events, records) PROVE FALSE
  BY <1>1, <1>3 DEF Mutates
<1>4. CASE GivesUp(p) \/ WriteLedger(p) \/ TornAppend(p)
  BY <1>4 DEF GivesUp, WriteLedger, TornAppend, Forget, Finish
<1>5. CASE Publish(p)
  BY <1>5 DEF Publish, Plan
<1>6. CASE AppendEvent(p)
  BY <1>6 DEF AppendEvent, Finish, Roles, Role
<1> QED BY <1>2, <1>3, <1>4, <1>5, <1>6 DEF Acts

LEMMA UnderwayStep == Sane /\ Underway /\ [Next]_vars => Underway'
<1> SUFFICES ASSUME Sane, Underway, [Next]_vars PROVE Underway'
  OBVIOUS
<1> USE DEF Sane
<1>1. CASE Unchanged
  BY <1>1 DEF Unchanged, files, work, Underway
<1>2. ASSUME NEW p \in Procs, OthersKeep(p), Acts(p),
             pc'[p] = "appending" /\ ~begun'[p] =>
                 Propose(p) \/ UpdateStatus(p) \/ AcceptWithRelationships(p)
      PROVE  Underway'
  <2>1. ASSUME pc'[p] = "appending", ~begun'[p]
        PROVE  TheStore!Lawful(todo'[p], ledger', planned'[p], Len(log') + 1)
    <3>1. PICK events, records : Mutates(p, events, records)
      BY <1>2, <2>1, ProposeMutates, UpdateStatusMutates, AcceptMutates
    <3> QED BY <1>2, <2>1, <3>1, PlansAreLawful
  <2>2. ASSUME NEW q \in Procs, q # p
        PROVE  /\ begun'[q] => pc'[q] \in {"appending", "writing"} /\ op'[q].kind # "repair"
               /\ pc'[q] = "appending" /\ ~begun'[q] =>
                     TheStore!Lawful(todo'[q], ledger', planned'[q], Len(log') + 1)
    <3>1. /\ pc'[q] = pc[q] /\ op'[q] = op[q] /\ todo'[q] = todo[q]
          /\ planned'[q] = planned[q] /\ begun'[q] = begun[q]
      BY <1>2, <2>2 DEF OthersKeep
    <3>2. pc[q] = "appending" => UNCHANGED <<ledger, log>>
      BY <1>2, <2>2, OthersWait DEF Critical
    <3> QED BY <3>1, <3>2 DEF Underway
  <2>3. begun'[p] => pc'[p] \in {"appending", "writing"} /\ op'[p].kind # "repair"
    BY <1>2, BegunStep
  <2> QED BY <2>1, <2>2, <2>3 DEF Underway
<1>3. ASSUME NEW p \in Procs, Propose(p) \/ UpdateStatus(p) \/ AcceptWithRelationships(p)
      PROVE  Acts(p)
  BY <1>3, ProposeMutates, UpdateStatusMutates, AcceptMutates DEF Acts
<1>4. ASSUME NEW p \in Procs,
             \/ \E o \in Commands : Start(p, o)
             \/ GivesUp(p) \/ Acquire(p) \/ RepairConfirmed(p) \/ RepairReadsEvents(p)
             \/ Publish(p) \/ AppendEvent(p) \/ WriteLedger(p) \/ TornAppend(p)
      PROVE  Acts(p) /\ ~(pc'[p] = "appending" /\ ~begun'[p])
  BY <1>4 DEF Acts, Start, GivesUp, Acquire, RepairConfirmed, RepairReadsEvents, Publish, Plan,
     AppendEvent, WriteLedger, TornAppend, Forget, Finish, work, Typing, TypeOK
<1> QED BY <1>1, <1>2, <1>3, <1>4, StepKinds DEF Unchanged

-----------------------------------------------------------------------------
(* Histories and their beginnings *)

LEMMA GrowsByOne ==
    ASSUME NEW s \in Seq(Event), NEW e \in Event
    PROVE  /\ TheStore!Prefix(s, s) /\ TheStore!Prefix(s, Append(s, e))
           /\ TheStore!LastOf(Append(s, e)) = e /\ Len(Append(s, e)) = Len(s) + 1
BY DEF TheStore!Prefix, TheStore!LastOf

LEMMA GrowsByMany ==
    ASSUME NEW s \in Seq(Event), NEW t \in Seq(Event), t # <<>>
    PROVE  /\ TheStore!Prefix(s, s \o t)
           /\ TheStore!Prefix(Append(s, Head(t)), s \o t)
           /\ Append(s, Head(t)) \o Tail(t) = s \o t
           /\ SubSeq(s \o t, Len(s) + 1, Len(s \o t)) = t
<1> DEFINE whole == s \o t
           more == Append(s, Head(t))
<1>1. /\ whole \in Seq(Event) /\ Len(whole) = Len(s) + Len(t)
      /\ \A i \in 1..(Len(s) + Len(t)) :
            whole[i] = IF i <= Len(s) THEN s[i] ELSE t[i - Len(s)]
  BY ConcatProperties
<1>2. /\ Head(t) \in Event /\ Head(t) = t[1] /\ Len(t) \in Nat /\ Len(t) >= 1
      /\ Tail(t) \in Seq(Event) /\ Len(Tail(t)) = Len(t) - 1
      /\ \A i \in 1..Len(Tail(t)) : Tail(t)[i] = t[i + 1]
  BY HeadTailProperties
<1>3. /\ more \in Seq(Event) /\ Len(more) = Len(s) + 1 /\ more[Len(s) + 1] = t[1]
      /\ \A i \in 1..Len(s) : more[i] = s[i]
  BY <1>2
<1>4. /\ more \o Tail(t) \in Seq(Event) /\ Len(more \o Tail(t)) = Len(s) + Len(t)
      /\ \A i \in 1..(Len(s) + Len(t)) :
            (more \o Tail(t))[i] = IF i <= Len(s) + 1 THEN more[i] ELSE Tail(t)[i - (Len(s) + 1)]
  BY <1>2, <1>3, ConcatProperties
<1>5. SubSeq(whole, Len(s) + 1, Len(whole)) = t
  BY <1>1, <1>2, SubSeqOfConcat2, SubSeqFull
<1> HIDE DEF whole, more
<1>6. TheStore!Prefix(s, whole) /\ TheStore!Prefix(more, whole)
  <2>1. Len(s) \in Nat /\ Len(s) + 1 <= Len(whole)
    BY <1>1, <1>2
  <2>2. \A i \in 1..Len(s) : whole[i] = s[i]
    BY <1>1, <1>2, <2>1
  <2>3. whole[Len(s) + 1] = t[1]
    BY <1>1, <1>2, <2>1
  <2>4. Len(s) <= Len(whole)
    BY <1>1, <2>1
  <2>5. ASSUME NEW i \in 1..Len(more) PROVE more[i] = whole[i]
    <3>1. i \in 1..Len(s) \/ i = Len(s) + 1
      BY <1>3, <2>1
    <3>2. CASE i \in 1..Len(s)
      BY <1>3, <2>2, <3>2
    <3>3. CASE i = Len(s) + 1
      BY <1>3, <2>3, <3>3
    <3> QED BY <3>1, <3>2, <3>3
  <2>6. Len(more) <= Len(whole)
    BY <1>3, <2>1
  <2> QED BY <2>2, <2>4, <2>5, <2>6 DEF TheStore!Prefix
<1>7. ASSUME NEW i \in 1..Len(whole) PROVE (more \o Tail(t))[i] = whole[i]
  <2>1. i \in 1..(Len(s) + Len(t)) /\ i \in Int /\ Len(s) \in Nat
    BY <1>1
  <2>2. CASE i <= Len(s)
    BY <1>1, <1>3, <1>4, <2>1, <2>2
  <2>3. CASE i = Len(s) + 1
    BY <1>1, <1>2, <1>3, <1>4, <2>1, <2>3
  <2>4. CASE i > Len(s) + 1
    <3> DEFINE k == i - (Len(s) + 1)
    <3>1. k \in 1..Len(Tail(t)) /\ k + 1 = i - Len(s)
      BY <1>2, <2>1, <2>4
    <3>2. Tail(t)[k] = t[k + 1]
      BY <1>2, <3>1
    <3>3. whole[i] = t[i - Len(s)]
      BY <1>1, <2>1, <2>4
    <3>4. (more \o Tail(t))[i] = Tail(t)[k]
      BY <1>4, <2>1, <2>4
    <3> QED BY <3>1, <3>2, <3>3, <3>4
  <2>5. i <= Len(s) \/ i = Len(s) + 1 \/ i > Len(s) + 1
    BY <2>1
  <2> QED BY <2>2, <2>3, <2>4, <2>5, Zenon
<1>8. more \o Tail(t) = whole
  BY <1>1, <1>4, <1>7, SeqEqual
<1> QED BY <1>5, <1>6, <1>8 DEF whole, more

-----------------------------------------------------------------------------
(* What the command in flight adds to the files *)

LEMMA InFlight ==
    ASSUME NEW p \in Procs, begun[p], \A q \in Procs : q # p => ~begun[q]
    PROVE  /\ View = IF op[p].kind = "export" THEN ledger ELSE planned[p]
           /\ Told = log \o todo[p]
<1>1. Begun = {p}
  BY DEF Begun
<1>2. Current = p
  BY <1>1 DEF Current
<1> QED BY <1>1, <1>2 DEF View, Told

LEMMA InFlightNext ==
    ASSUME NEW p \in Procs, begun'[p], \A q \in Procs : q # p => ~begun'[q]
    PROVE  /\ View' = IF op'[p].kind = "export" THEN ledger' ELSE planned'[p]
           /\ Told' = log' \o todo'[p]
<1>1. Begun' = {p}
  BY DEF Begun
<1>2. Current' = p
  BY <1>1 DEF Current
<1> QED BY <1>1, <1>2 DEF View, Told

LEMMA NothingInFlight ==
    /\ (\A q \in Procs : ~begun[q]) => View = ledger /\ Told = log
    /\ (\A q \in Procs : ~begun'[q]) => View' = ledger' /\ Told' = log'
BY DEF View, Told, Begun

LEMMA StillInFlight ==
    ASSUME NEW p \in Procs, OthersKeep(p), ~begun[p], ~begun'[p],
           UNCHANGED <<ledger, log, published>>
    PROVE  UNCHANGED <<View, Told, published, [records |-> ledger, history |-> log]>>
<1>1. Begun' = Begun /\ p \notin Begun
  BY DEF OthersKeep, Begun
<1>2. Current' = Current
  BY <1>1 DEF Current
<1>3. Begun # {} => Current \in Begun
  BY DEF Current
<1>4. Begun # {} => /\ todo'[Current] = todo[Current] /\ op'[Current] = op[Current]
                    /\ planned'[Current] = planned[Current]
  BY <1>1, <1>3 DEF OthersKeep, Begun
<1>5. UNCHANGED <<View, Told>>
  <2>1. CASE Begun = {}
    BY <1>1, <2>1 DEF View, Told
  <2>2. CASE Begun # {}
    BY <1>1, <1>2, <1>4, <2>2 DEF View, Told
  <2> QED BY <2>1, <2>2
<1> QED BY <1>5

-----------------------------------------------------------------------------
(* Every step is one of the abstract ledger, or none *)

Kept == [records |-> ledger, history |-> log]

LEMMA GivingUpStops ==
    ASSUME Sane, Underway, NEW p \in Procs, OthersKeep(p), GivesUp(p), begun[p]
    PROVE  TheStore!Stop
<1> USE DEF Sane, Typing, TypeOK
<1>1. pc[p] \in Critical /\ \A q \in Procs : q # p => ~begun[q]
  BY OneInside DEF Underway, Critical
<1>2. Told = log \o todo[p]
  BY <1>1, InFlight
<1>3. \A q \in Procs : ~begun'[q]
  BY <1>1 DEF GivesUp, Forget, Finish, OthersKeep
<1>4. View' = ledger' /\ Told' = log' /\ UNCHANGED <<ledger, log, published>>
  BY <1>3, NothingInFlight DEF GivesUp
<1>5. TheStore!Prefix(log, log) /\ TheStore!Prefix(log, log \o todo[p])
  <2>1. log \in Seq(Event) /\ todo[p] \in Seq(Event)
    OBVIOUS
  <2>2. CASE todo[p] = <<>>
    BY <2>1, <2>2, ConcatEmptySeq DEF TheStore!Prefix
  <2>3. CASE todo[p] # <<>>
    BY <2>1, <2>3, GrowsByMany DEF TheStore!Prefix
  <2> QED BY <2>2, <2>3
<1> QED BY <1>2, <1>4, <1>5 DEF TheStore!Stop, TheStore!Hardens

LEMMA PublishingShows ==
    ASSUME Sane, Underway, NEW p \in Procs, OthersKeep(p), Publish(p)
    PROVE  \E d \in Dests : TheStore!Show(d)
<1> USE DEF Sane, Typing, TypeOK
<1> DEFINE d == op[p].dest
           e == [type |-> "memory_exported", dest |-> d, ids |-> AcceptedFor(ledger, d)]
<1>1. /\ pc[p] \in Critical /\ \A q \in Procs : ~begun[q]
  BY OneInside DEF Underway, Critical, Publish
<1>2. /\ begun'[p] /\ \A q \in Procs : q # p => ~begun'[q]
  BY <1>1 DEF Publish, OthersKeep
<1>3. /\ op'[p].kind = "export" /\ todo'[p] = << e >> /\ UNCHANGED <<ledger, log>>
      /\ FreeOfLinks(AcceptedFor(ledger, d))
      /\ published' = [published EXCEPT ![d] = AcceptedFor(ledger, d)]
  BY DEF Publish, Plan
<1>4. d \in Dests /\ e \in Event
  <2>1. op[p] \in Export
    BY CommandKinds DEF Publish, NoOp
  <2>2. AcceptedFor(ledger, d) \in SUBSET Ids
    BY DEF AcceptedFor
  <2> QED BY <2>1, <2>2 DEF Export, Event, ExportedEvent
<1>5. View = ledger /\ Told = log
  BY <1>1, NothingInFlight
<1>6. View' = ledger' /\ Told' = log' \o todo'[p]
  BY <1>2, <1>3, InFlightNext
<1> HIDE DEF e
<1>7. Told' = Append(log, e)
  BY <1>3, <1>4, <1>6, AppendIsConcat
<1>8. TheStore!Prefix(log, log) /\ TheStore!Prefix(log, Append(log, e))
  BY <1>4, GrowsByOne
<1>9. TheStore!Settled
  BY <1>5 DEF TheStore!Settled
<1>10. TheStore!Hardens(Told')
  BY <1>3, <1>7, <1>8 DEF TheStore!Hardens
<1>11. View' = View
  BY <1>3, <1>5, <1>6
<1> HIDE DEF d
<1>12. TheStore!Show(d)
  BY <1>3, <1>5, <1>7, <1>9, <1>10, <1>11, SameLedger DEF TheStore!Show, e
<1> QED BY <1>4, <1>12

LEMMA AppendingChanges ==
    ASSUME Sane, Underway, NEW p \in Procs, OthersKeep(p), AppendEvent(p), ~begun[p]
    PROVE  TheStore!Change
<1> USE DEF Sane, Typing, TypeOK
<1>1. /\ pc[p] = "appending" /\ pc[p] \in Critical /\ \A q \in Procs : ~begun[q]
      /\ op[p].kind # "export"
  BY OneInside DEF Underway, Critical, AppendEvent, Roles, Role
<1>2. /\ begun'[p] /\ \A q \in Procs : q # p => ~begun'[q]
      /\ op'[p] = op[p] /\ planned'[p] = planned[p] /\ todo'[p] = Tail(todo[p])
      /\ log' = Append(log, Head(todo[p])) /\ UNCHANGED <<ledger, published>>
  BY <1>1 DEF AppendEvent, OthersKeep
<1>3. log \in Seq(Event) /\ todo[p] \in Seq(Event) /\ todo[p] # <<>>
  BY <1>1 DEF Appending
<1>4. /\ TheStore!Prefix(log, log \o todo[p])
      /\ TheStore!Prefix(Append(log, Head(todo[p])), log \o todo[p])
      /\ Append(log, Head(todo[p])) \o Tail(todo[p]) = log \o todo[p]
      /\ SubSeq(log \o todo[p], Len(log) + 1, Len(log \o todo[p])) = todo[p]
      /\ TheStore!Prefix(log, Append(log, Head(todo[p])))
  BY <1>3, GrowsByMany, GrowsByOne, HeadTailProperties
<1>5. View = ledger /\ Told = log
  BY <1>1, NothingInFlight
<1>6. View' = planned[p] /\ Told' = log \o todo[p]
  BY <1>1, <1>2, <1>4, InFlightNext
<1>7. TheStore!Lawful(todo[p], ledger, planned[p], Len(log) + 1)
  BY <1>1 DEF Underway
<1>8. TheStore!Settled
  BY <1>5 DEF TheStore!Settled
<1>9. TheStore!Hardens(Told')
  BY <1>2, <1>4, <1>6 DEF TheStore!Hardens
<1>10. TheStore!Added = todo[p]
  BY <1>4, <1>5, <1>6 DEF TheStore!Added
<1> QED
  BY <1>2, <1>4, <1>5, <1>6, <1>7, <1>8, <1>9, <1>10 DEF TheStore!Change

LEMMA AppendingPersists ==
    ASSUME Sane, Underway, NEW p \in Procs, OthersKeep(p), AppendEvent(p), begun[p]
    PROVE  TheStore!Persist
<1> USE DEF Sane, Typing, TypeOK
<1>1. /\ pc[p] = "appending" /\ pc[p] \in Critical /\ \A q \in Procs : q # p => ~begun[q]
      /\ \A q \in Procs : q # p => ~begun'[q]
  BY OneInside DEF Underway, Critical, AppendEvent, OthersKeep
<1>2. log' = Append(log, Head(todo[p])) /\ UNCHANGED <<ledger, published, op>>
  BY DEF AppendEvent, Finish
<1>3. log \in Seq(Event) /\ todo[p] \in Seq(Event) /\ todo[p] # <<>>
  BY <1>1 DEF Appending
<1>4. /\ TheStore!Prefix(Append(log, Head(todo[p])), log \o todo[p])
      /\ Append(log, Head(todo[p])) \o Tail(todo[p]) = log \o todo[p]
      /\ TheStore!Prefix(log, Append(log, Head(todo[p])))
  BY <1>3, GrowsByMany, GrowsByOne, HeadTailProperties
<1>5. /\ View = IF op[p].kind = "export" THEN ledger ELSE planned[p]
      /\ Told = log \o todo[p]
  BY <1>1, InFlight
<1>6. CASE op[p].kind = "export"
  <2>1. \E e : todo[p] = << e >>
    BY <1>1, <1>6 DEF Roles, Role
  <2>2. Len(todo[p]) = 1 /\ Tail(todo[p]) = <<>>
    BY <2>1
  <2>3. \A q \in Procs : ~begun'[q]
    BY <1>1, <1>6, <2>2 DEF AppendEvent, Finish
  <2>4. View' = ledger' /\ Told' = log'
    BY <2>3, NothingInFlight
  <2>5. log' \in Seq(Event)
    BY <1>2, <1>3, HeadTailProperties, AppendProperties
  <2>6. log' = log \o todo[p]
    BY <1>2, <1>4, <2>2, <2>5, ConcatEmptySeq
  <2> QED
    BY <1>2, <1>4, <1>5, <1>6, <2>4, <2>6 DEF TheStore!Persist, TheStore!Hardens
<1>7. CASE op[p].kind # "export"
  <2>1. /\ begun'[p] /\ planned'[p] = planned[p] /\ todo'[p] = Tail(todo[p])
        /\ op'[p] = op[p]
    BY <1>7 DEF AppendEvent
  <2>2. View' = planned[p] /\ Told' = log \o todo[p]
    BY <1>1, <1>2, <1>4, <1>7, <2>1, InFlightNext
  <2> QED
    BY <1>2, <1>4, <1>5, <1>7, <2>2 DEF TheStore!Persist, TheStore!Hardens
<1> QED BY <1>6, <1>7

LEMMA WritingPersists ==
    ASSUME Sane, Timely, Underway, NEW p \in Procs, OthersKeep(p), WriteLedger(p)
    PROVE  TheStore!Persist \/ TheStore!Recover
<1> USE DEF Sane, Typing, TypeOK
<1>1. /\ pc[p] = "writing" /\ pc[p] \in Critical /\ \A q \in Procs : q # p => ~begun[q]
      /\ todo[p] = <<>> /\ op[p].kind # "export"
  BY OneInside DEF Underway, Critical, WriteLedger, Appending, Roles, Role
<1>2. \A q \in Procs : ~begun'[q]
  BY <1>1 DEF WriteLedger, Finish, OthersKeep
<1>3. ledger' = planned[p] /\ UNCHANGED <<log, published>>
  BY DEF WriteLedger
<1>4. View' = planned[p] /\ Told' = log
  BY <1>2, <1>3, NothingInFlight
<1>5. CASE op[p].kind = "repair"
  <2>1. \A q \in Procs : ~begun[q]
    BY <1>1, <1>5 DEF Underway
  <2>2. View = ledger /\ Told = log
    BY <2>1, NothingInFlight
  <2>3. Replayable(log) /\ planned[p] = Replay(log)
    BY <1>1, <1>5 DEF Timely, RepairHolds
  <2>4. TheStore!Recover
    BY <1>3, <1>4, <2>2, <2>3, SameHistory DEF TheStore!Recover, TheStore!Settled
  <2> QED BY <2>4
<1>6. CASE op[p].kind # "repair"
  <2>1. begun[p]
    BY <1>1, <1>6 DEF Roles, Role
  <2>2. View = planned[p] /\ Told = log \o <<>>
    BY <1>1, <2>1, InFlight
  <2>3. Told = log
    BY <2>2, ConcatEmptySeq
  <2>4. TheStore!Persist
    BY <1>3, <1>4, <2>2, <2>3 DEF TheStore!Persist
  <2> QED BY <2>4
<1> QED BY <1>5, <1>6

LEMMA TearingStops ==
    ASSUME Sane, Underway, NEW p \in Procs, OthersKeep(p), TornAppend(p)
    PROVE  TheStore!Stop \/ TheStore!StopAtFirst
<1> USE DEF Sane, Typing, TypeOK
<1> DEFINE e == Head(todo[p])
<1>1. /\ pc[p] = "appending" /\ pc[p] \in Critical /\ \A q \in Procs : q # p => ~begun[q]
  BY OneInside DEF Underway, Critical, TornAppend
<1>2. \A q \in Procs : ~begun'[q]
  BY <1>1 DEF TornAppend, Finish, OthersKeep
<1>3. log' = Append(log, e) /\ UNCHANGED <<ledger, published>>
  BY DEF TornAppend
<1>4. View' = ledger /\ Told' = log'
  BY <1>2, <1>3, NothingInFlight
<1>5. log \in Seq(Event) /\ todo[p] \in Seq(Event) /\ todo[p] # <<>> /\ e \in Event
  BY <1>1, TailOfTodo DEF Appending
<1>6. CASE begun[p]
  <2>1. Told = log \o todo[p]
    BY <1>1, <1>6, InFlight
  <2>2. /\ TheStore!Prefix(log, log')
        /\ TheStore!Prefix(log', log \o todo[p])
    BY <1>3, <1>5, GrowsByMany, GrowsByOne
  <2>3. TheStore!Stop
    BY <1>3, <1>4, <2>1, <2>2 DEF TheStore!Stop, TheStore!Hardens
  <2> QED BY <2>3
<1>7. CASE ~begun[p]
  <2>1. View = ledger /\ Told = log
    BY <1>1, <1>7, NothingInFlight
  <2>2. Replays(e, ledger) /\ e.type # "memory_exported"
    <3>1. Fits(op[p], ledger, e) /\ op[p].kind # "export"
      BY <1>1, <1>7, TailOfTodo DEF PlansFit, Roles, Role
    <3> QED BY <3>1, FitsReplays DEF Fits
  <2> HIDE DEF e
  <2>3. /\ TheStore!Prefix(log, log') /\ Len(log') = Len(log) + 1
        /\ TheStore!LastOf(log') = e
    BY <1>3, <1>5, GrowsByOne
  <2>4. TheStore!StopAtFirst
    BY <1>3, <1>4, <2>1, <2>2, <2>3, SameHistory
       DEF TheStore!StopAtFirst, TheStore!Settled
  <2> QED BY <2>4
<1> QED BY <1>6, <1>7

LEMMA LedgerStep ==
    ASSUME Sane, Timely, Underway, [Next]_vars
    PROVE  [TheStore!Next]_<<View, Told, published, Kept>>
<1>1. CASE Unchanged
  BY <1>1 DEF Unchanged, files, work, View, Told, Begun, Current, Kept
<1>2. ASSUME NEW p \in Procs, OthersKeep(p), Acts(p)
      PROVE  [TheStore!Next]_<<View, Told, published, Kept>>
  <2>1. CASE \/ \E o \in Commands : Start(p, o)
             \/ Acquire(p) \/ RepairConfirmed(p) \/ RepairReadsEvents(p)
    <3>1. ~begun[p] /\ ~begun'[p] /\ UNCHANGED <<ledger, log, published>>
      BY <2>1 DEF Underway, Start, Acquire, RepairConfirmed, RepairReadsEvents, work, files
    <3> QED BY <1>2, <3>1, StillInFlight DEF Kept
  <2>2. ASSUME NEW events, NEW records, Mutates(p, events, records)
        PROVE  [TheStore!Next]_<<View, Told, published, Kept>>
    <3>1. ~begun[p] /\ ~begun'[p] /\ UNCHANGED <<ledger, log, published>>
      BY <2>2 DEF Underway, Mutates, Plan
    <3> QED BY <1>2, <3>1, StillInFlight DEF Kept
  <2>3. CASE GivesUp(p) /\ ~begun[p]
    <3>1. ~begun'[p] /\ UNCHANGED <<ledger, log, published>>
      BY <2>3 DEF GivesUp, Forget, Finish, Sane, Typing, TypeOK
    <3> QED BY <1>2, <2>3, <3>1, StillInFlight DEF Kept
  <2>4. CASE GivesUp(p) /\ begun[p]
    BY <1>2, <2>4, GivingUpStops DEF TheStore!Next
  <2>5. CASE Publish(p)
    BY <1>2, <2>5, PublishingShows DEF TheStore!Next
  <2>6. CASE AppendEvent(p)
    BY <1>2, <2>6, AppendingChanges, AppendingPersists DEF TheStore!Next
  <2>7. CASE WriteLedger(p) \/ TornAppend(p)
    BY <1>2, <2>7, WritingPersists, TearingStops DEF TheStore!Next
  <2> QED BY <1>2, <2>1, <2>2, <2>3, <2>4, <2>5, <2>6, <2>7 DEF Acts
<1> QED BY <1>1, <1>2, SaneSteps

\* The two files and the managed blocks are the abstract ledger, with any processes,
\* records, links and faults: each command takes effect as a whole with its first durable
\* change, lawfully and as its events tell; a crash, a failed or torn write or a full
\* history loses only what is not written of one command; and a repair that runs alone
\* restores what the history gives.
THEOREM LedgerIsAbstract == RepairAlone /\ Spec => ImplementsLedger
<1>1. Init => TheStore!Init
  <2> SUFFICES ASSUME Init PROVE TheStore!Init
    OBVIOUS
  <2>1. View = ledger /\ Told = log
    BY NothingInFlight DEF Init
  <2> QED BY <2>1, SameLedger DEF Init, TheStore!Init
<1>2. Init => Underway
  BY DEF Init, Underway
<1> QED
  BY <1>1, <1>2, TimelyAlways, UnderwayStep, LedgerStep, PTL
     DEF Spec, ImplementsLedger, TheStore!Spec, Kept

=============================================================================
