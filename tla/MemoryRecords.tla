----------------------------- MODULE MemoryRecords -----------------------------
(***************************************************************************)
(* Memory records, the events that tell of them, the replay of a history   *)
(* and the rules of review: what every part of the store has in common.    *)
(***************************************************************************)
EXTENDS Naturals, Sequences, FiniteSets

CONSTANTS
    Ids,          \* record ids
    Dests,        \* export destinations
    Dest,         \* the destination of each record
    Supersedes,   \* the ids each record supersedes
    Conflicts     \* the ids each record conflicts with

Statuses == {"pending", "accepted", "rejected", "retired"}

\* A memory record as far as the store's properties tell records apart: its
\* status, and its updated_at, a logical time that the write takes from the log.
\* Text, source, reason and reviewer change only together with updated_at.
Record == [status: Statuses, updated_at: Nat]

\* Not a record: the id is not in the ledger.
NoRecord == [status |-> "none", updated_at |-> 0]

Ledger == [Ids -> Record \cup {NoRecord}]

EmptyLedger == [id \in Ids |-> NoRecord]

-----------------------------------------------------------------------------
(* The event history and its replay *)

ProposedEvent == [type: {"memory_proposed"}, id: Ids, record: Record]
StatusEvent == [type: {"memory_status_changed"}, id: Ids,
                previous: Statuses, record: Record]
ResolvedEvent == [type: {"memory_relationship_resolved"}, id: Ids,
                  retired: SUBSET Ids, overridden: SUBSET Ids]
ExportedEvent == [type: {"memory_exported"}, dest: Dests, ids: SUBSET Ids]

Event == ProposedEvent \cup StatusEvent \cup ResolvedEvent \cup ExportedEvent

\* The event holds a version of record id, which replay puts in the view.
Carries(e, id) ==
    e.type \in {"memory_proposed", "memory_status_changed"} /\ e.id = id

Carriers(events, id) == {i \in DOMAIN events : Carries(events[i], id)}

Latest(events, id) ==
    CHOOSE i \in Carriers(events, id) :
        \A j \in Carriers(events, id) : j <= i

\* The records a replay of the history ends with: the latest version of each.
Replay(events) ==
    [id \in Ids |->
        IF Carriers(events, id) = {}
        THEN NoRecord
        ELSE events[Latest(events, id)].record]

Known(records) == {id \in Ids : records[id].status # "none"}

\* Replay accepts event e after the events that gave the records `before`.
Replays(e, before) ==
    \/ /\ e.type = "memory_proposed"
       /\ e.id \notin Known(before)
    \/ /\ e.type = "memory_status_changed"
       /\ before[e.id].status = e.previous
    \/ /\ e.type = "memory_relationship_resolved"
       /\ {e.id} \cup e.retired \cup e.overridden \subseteq Known(before)
    \/ /\ e.type = "memory_exported"
       /\ e.ids \subseteq Known(before)

\* Replay runs through the whole history without an error.
Replayable(events) ==
    \A i \in DOMAIN events :
        Replays(events[i], Replay(SubSeq(events, 1, i - 1)))

\* replayEvents as the code runs it: a map that is built up event by event, until
\* one is not accepted.  Replayable and Replay are the same in closed form, which the
\* models use (MemprStore_proofs: lemma ReplayedOneByOne).
ReplayStep(view, e) ==
    IF ~view.ok \/ ~Replays(e, view.records) THEN [view EXCEPT !.ok = FALSE]
    ELSE IF e.type \in {"memory_proposed", "memory_status_changed"}
    THEN [view EXCEPT !.records[e.id] = e.record]
    ELSE view

ReplayOneByOne(events) ==
    LET view[n \in 0..Len(events)] ==
            IF n = 0 THEN [ok |-> TRUE, records |-> EmptyLedger]
            ELSE ReplayStep(view[n - 1], events[n])
    IN view[Len(events)]

-----------------------------------------------------------------------------
(* Review rules *)

\* Faulty: a retired record may be accepted again.
TransitionFromRetired(from, to) ==
    from = to \/ to # "pending"

\* validateStatusTransition.  The reason each change needs is data.
TransitionAllowed(from, to) ==
    \/ from = to
    \/ <<from, to>> \in {<<"pending", "accepted">>, <<"pending", "rejected">>,
                         <<"accepted", "rejected">>, <<"rejected", "accepted">>,
                         <<"accepted", "retired">>}

Linked(id) == Supersedes[id] \cup Conflicts[id] # {}

\* Faulty: stores the policy decision itself.
InitialStatusIsDecision(id, decision) == decision

\* The status a proposal starts with: its policy decision, where a proposal
\* that names other records never takes the automatic path.
InitialStatus(id, decision) ==
    CASE decision = "reject_audited" -> "rejected"
      [] decision = "review" -> "pending"
      [] decision = "auto_accept" -> IF Linked(id) THEN "pending" ELSE "accepted"

\* The accepted records of id's own destination among those it names.
AcceptedPeers(records, id, linked) ==
    {x \in linked : records[x].status = "accepted" /\ Dest[x] = Dest[id]}

\* The flags given are enough to accept id beside its accepted peers.
AcceptancePermitted(records, id, retire, override) ==
    /\ AcceptedPeers(records, id, Supersedes[id]) # {} => retire \/ override
    /\ AcceptedPeers(records, id, Conflicts[id]) # {} => override

AcceptedFor(records, d) ==
    {id \in Ids : records[id].status = "accepted" /\ Dest[id] = d}

\* No two records of the set are declared to conflict or to supersede.
FreeOfLinks(ids) ==
    \A id \in ids : (Supersedes[id] \cup Conflicts[id]) \cap ids = {}

=============================================================================
