---------------------------- MODULE AbstractLedger ----------------------------
(***************************************************************************)
(* What the store promises about its files to those who know nothing of    *)
(* its processes, its lock and its single writes: a view of the records, a *)
(* history and the managed blocks, which one command at a time changes as  *)
(* a whole.  The change becomes durable piece by piece, the history first  *)
(* and the view last; a stop takes back what is not durable by then, which *)
(* is the end of the last command or all of it.                            *)
(***************************************************************************)
EXTENDS MemoryRecords

VARIABLES
    records,   \* the view: every command's change is there at once
    history,   \* the events of the commands
    shown,     \* the records in each destination
    durable    \* what a stop would leave of the view and the history

Init ==
    /\ records = EmptyLedger
    /\ history = <<>>
    /\ shown = [d \in Dests |-> {}]
    /\ durable = [records |-> records, history |-> history]

-----------------------------------------------------------------------------
(* What a command may do: the change from one view to another, and its events *)

LastOf(events) == events[Len(events)]

\* The view with the versions that the events carry.
Updated(view, events) ==
    [id \in Ids |-> IF Carriers(events, id) = {} THEN view[id]
                    ELSE events[Latest(events, id)].record]

\* The events tell of the change from one view to the other, all of it, each record
\* once, at time `now`, and in terms of the view before it.
Tells(events, from, to, now) ==
    /\ events # <<>>
    /\ to = Updated(from, events)
    /\ \A i \in DOMAIN events : Replays(events[i], from)
    /\ \A id \in Ids : \A i, j \in Carriers(events, id) :
          i = j /\ events[i].record.updated_at = now

\* A new record, which names known ones only and, if it does, waits for review.
Proposed(id, from, to, events) ==
    /\ Len(events) = 1
    /\ id \notin Known(from)
    /\ Supersedes[id] \cup Conflicts[id] \subseteq Known(from)
    /\ to[id].status \in {"pending", "accepted", "rejected"}
    /\ Linked(id) => to[id].status # "accepted"
    /\ \A x \in Ids : x # id => to[x] = from[x]

\* A transition of one record.  A retirement is resolved in the history.
Reviewed(id, from, to, events) ==
    /\ id \in Known(from)
    /\ TransitionAllowed(from[id].status, to[id].status)
    /\ \A x \in Ids : x # id => to[x] = from[x]
    /\ IF to[id].status = "retired"
       THEN Len(events) = 2 /\ LastOf(events).retired = {id}
       ELSE Len(events) = 1

\* The acceptance of a record, with the retirement of all the accepted peers that it
\* supersedes or of none.  The last event accounts for every peer there was: those
\* that are retired, and those that stay accepted beside the record.
Accepted(id, from, to, events) ==
    LET superseded == AcceptedPeers(from, id, Supersedes[id])
        retired == {x \in superseded : to[x].status = "retired"}
    IN  /\ id \in Known(from)
        /\ TransitionAllowed(from[id].status, "accepted")
        /\ to[id].status = "accepted"
        /\ retired \in {{}, superseded}
        /\ \A x \in Ids \ retired : x # id => to[x] = from[x]
        /\ LastOf(events).retired = retired
        /\ LastOf(events).overridden =
              AcceptedPeers(to, id, Supersedes[id] \cup Conflicts[id])

Lawful(events, from, to, now) ==
    /\ Tells(events, from, to, now)
    /\ \E id \in Ids :
          \/ Proposed(id, from, to, events)
          \/ Reviewed(id, from, to, events)
          \/ Accepted(id, from, to, events)

-----------------------------------------------------------------------------
(* Steps *)

Prefix(s, t) == Len(s) <= Len(t) /\ \A i \in 1..Len(s) : s[i] = t[i]

\* The events that the step adds to the history.
Added == SubSeq(history', Len(history) + 1, Len(history'))

\* Everything is durable: the next command may come.
Settled == durable = [records |-> records, history |-> history]

\* More of a history may be durable; the view is durable as it was.
Hardens(whole) ==
    /\ durable'.records = durable.records
    /\ Prefix(durable.history, durable'.history)
    /\ Prefix(durable'.history, whole)

\* A command changes the view as its events tell.
Change ==
    /\ Settled
    /\ Prefix(history, history')
    /\ Lawful(Added, records, records', Len(history) + 1)
    /\ Hardens(history')
    /\ UNCHANGED shown

\* An export shows the accepted records of a destination, if they are free of links,
\* and says so in the history.
Show(d) ==
    LET accepted == AcceptedFor(records, d)
    IN  /\ Settled
        /\ FreeOfLinks(accepted)
        /\ shown' = [shown EXCEPT ![d] = accepted]
        /\ history' = Append(history, [type |-> "memory_exported", dest |-> d,
                                       ids |-> accepted])
        /\ Hardens(history')
        /\ UNCHANGED records

\* More of the last command becomes durable, its view when all its events are.
Persist ==
    /\ \/ Hardens(history)
       \/ durable.history = history /\ durable' = [records |-> records, history |-> history]
    /\ UNCHANGED <<records, history, shown>>

\* The last command is cut off where it is durable.
Stop ==
    /\ Hardens(history)
    /\ records' = durable'.records
    /\ history' = durable'.history
    /\ UNCHANGED shown

\* A command that changes the view is cut off after its first event.
StopAtFirst ==
    /\ Settled
    /\ Prefix(history, history') /\ Len(history') = Len(history) + 1
    /\ Replays(LastOf(history'), records) /\ LastOf(history').type # "memory_exported"
    /\ durable' = [records |-> records, history |-> history']
    /\ UNCHANGED <<records, shown>>

\* A repair makes the view what the history gives.
Recover ==
    /\ Settled
    /\ Replayable(history)
    /\ records' = Replay(history)
    /\ durable' = [records |-> records', history |-> history]
    /\ UNCHANGED <<history, shown>>

Next ==
    \/ Change \/ Persist \/ Stop \/ StopAtFirst \/ Recover
    \/ \E d \in Dests : Show(d)

Spec == Init /\ [][Next]_<<records, history, shown, durable>>

===============================================================================
