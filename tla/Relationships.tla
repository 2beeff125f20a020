----------------------------- MODULE Relationships -----------------------------
(***************************************************************************)
(* The search for supersession cycles (relationships.ts), one call or      *)
(* return of its recursion at a time, and the acceptance that rests on it  *)
(* (resolveRelationshipAcceptance).  It runs inside the store lock, on     *)
(* any links a ledger may hold: a migrated ledger's are unchecked.         *)
(***************************************************************************)
EXTENDS Naturals, Sequences, SequencesExt

CONSTANT Ids    \* all ids, of records that exist and of records that do not

VARIABLES
    records,    \* the ids in the ledger
    links,      \* what each of them supersedes
    candidate,  \* the record to accept
    peers,      \* the accepted records of its destination
    rivals,     \* those it conflicts with
    flags,      \* "retire" and "override", if given
    phase,      \* of the acceptance
    stack,      \* the records being visited, the last call at the end
    pending,    \* the links each of them has still to follow
    visited,    \* the records whose visit is over
    cycles      \* the cycles found, each as a set of links: it has no first record

input == <<records, links, candidate, peers, rivals, flags>>
search == <<stack, pending, visited, cycles>>
vars == <<input, phase, search>>

Phases == {"deciding", "searching", "accepted", "refused"}

TypeOK ==
    /\ records \subseteq Ids
    /\ links \in [records -> SUBSET Ids]
    /\ candidate \in records
    /\ peers \subseteq records
    /\ rivals \subseteq peers
    /\ flags \subseteq {"retire", "override"}
    /\ phase \in Phases
    /\ stack \in Seq(records)
    /\ pending \in [records -> SUBSET records]
    /\ visited \subseteq records
    /\ cycles \subseteq SUBSET (records \X records)

\* Any ledger, and any acceptance.
Init ==
    /\ records \in SUBSET Ids
    /\ candidate \in records
    /\ links \in [records -> SUBSET Ids]
    /\ peers \in SUBSET records
    /\ rivals \in SUBSET peers
    /\ flags \in SUBSET {"retire", "override"}
    /\ phase = "deciding"
    /\ stack = <<>>
    /\ pending = [x \in records |-> {}]
    /\ visited = {}
    /\ cycles = {}

-----------------------------------------------------------------------------
(* The acceptance, before the search *)

Superseded == links[candidate] \cap peers

\* Faulty: leaves superseded records to the search for cycles.
ConflictsPermitted == rivals # {} => "override" \in flags

\* The flags given are enough for the accepted records that the candidate names.
Permitted ==
    /\ Superseded # {} => flags # {}
    /\ rivals # {} => "override" \in flags

\* The accepted records of the destination, were the candidate accepted.
AcceptedNext ==
    (IF "retire" \in flags THEN peers \ Superseded ELSE peers) \cup {candidate}

Deny ==
    /\ phase = "deciding"
    /\ ~Permitted
    /\ phase' = "refused"
    /\ UNCHANGED <<input, search>>

Search ==
    /\ phase = "deciding"
    /\ Permitted
    /\ phase' = "searching"
    /\ UNCHANGED <<input, search>>

-----------------------------------------------------------------------------
(* detectSupersessionCycles *)

\* The links that are followed.
Successors(x) == links[x] \cap records

Enter(x) ==
    /\ stack' = Append(stack, x)
    /\ pending' = [pending EXCEPT ![x] = Successors(x)]

\* The next record of the ledger (in any order, which the ledger's order is).
Visit(x) ==
    /\ phase = "searching"
    /\ stack = <<>>
    /\ x \notin visited
    /\ Enter(x)
    /\ UNCHANGED <<input, phase, visited, cycles>>

\* Faulty: takes the whole stack for the cycle.
WholeStack(x) ==
    {<<stack[i], IF i = Len(stack) THEN x ELSE stack[i + 1]>> : i \in DOMAIN stack}

\* The links from x up the stack to its end, and back to x.
CycleFrom(x) ==
    LET start == CHOOSE i \in DOMAIN stack : stack[i] = x
    IN {<<stack[i], IF i = Len(stack) THEN x ELSE stack[i + 1]>> :
            i \in start..Len(stack)}

\* Faulty: does not tell a visit under way from one that is over.
FollowVisitedOnce(x) ==
    LET top == Last(stack)
    IN /\ stack # <<>>
       /\ x \in pending[top]
       /\ IF x \in visited \cup ToSet(stack)
          THEN /\ pending' = [pending EXCEPT ![top] = @ \ {x}]
               /\ UNCHANGED stack
          ELSE /\ stack' = Append(stack, x)
               /\ pending' = [pending EXCEPT ![top] = @ \ {x}, ![x] = Successors(x)]
       /\ UNCHANGED <<input, phase, visited, cycles>>

\* The record at hand has a link left (in any order: the list's is the proposer's).
Follow(x) ==
    LET top == Last(stack)
    IN /\ stack # <<>>
       /\ x \in pending[top]
       /\ IF x \in visited \cup ToSet(stack)
          THEN /\ pending' = [pending EXCEPT ![top] = @ \ {x}]
               /\ cycles' = IF x \in visited THEN cycles ELSE cycles \cup {CycleFrom(x)}
               /\ UNCHANGED stack
          ELSE /\ stack' = Append(stack, x)
               /\ pending' = [pending EXCEPT ![top] = @ \ {x}, ![x] = Successors(x)]
               /\ UNCHANGED cycles
       /\ UNCHANGED <<input, phase, visited>>

Leave ==
    LET top == Last(stack)
    IN /\ stack # <<>>
       /\ pending[top] = {}
       /\ stack' = Front(stack)
       /\ visited' = visited \cup {top}
       /\ UNCHANGED <<input, phase, pending, cycles>>

Searched == stack = <<>> /\ visited = records

-----------------------------------------------------------------------------
(* The acceptance, after the search *)

Members(c) == {link[1] : link \in c}

\* Cycles through the candidate that would be accepted as a whole.
CandidateCycles ==
    {c \in cycles : candidate \in Members(c) /\ Members(c) \subseteq AcceptedNext}

Accept ==
    /\ phase = "searching" /\ Searched
    /\ CandidateCycles = {} \/ "override" \in flags
    /\ phase' = "accepted"
    /\ UNCHANGED <<input, search>>

RefuseCycle ==
    /\ phase = "searching" /\ Searched
    /\ CandidateCycles # {} /\ "override" \notin flags
    /\ phase' = "refused"
    /\ UNCHANGED <<input, search>>

Ended ==
    /\ phase \in {"accepted", "refused"}
    /\ UNCHANGED vars

Next ==
    \/ Deny \/ Search
    \/ \E x \in records : Visit(x) \/ Follow(x)
    \/ Leave
    \/ Accept \/ RefuseCycle \/ Ended

Spec == Init /\ [][Next]_vars

-----------------------------------------------------------------------------
(* Properties *)

\* Every record of the set leads to another of it: what a cycle is, without paths.
Cyclic(set) == set # {} /\ \A x \in set : Successors(x) \cap set # {}

\* The search finds a cycle exactly if there is one, though it visits each record once
\* and leaves what it has visited aside (detectSupersessionCycles).
FindsCyclesIfAny ==
    Searched => (cycles = {} <=> \A set \in SUBSET records : ~Cyclic(set))

\* What it reports is one cycle, with no detour and no lead-in: links of the ledger,
\* one into and one out of each member, that do not fall apart (pushCycle).
ReportsSimpleCycles ==
    \A c \in cycles :
        /\ \A link \in c : link[2] \in Successors(link[1]) \cap Members(c)
        /\ \A link, other \in c : link[1] = other[1] <=> link[2] = other[2]
        /\ \A set \in SUBSET Members(c) :
              (\A link \in c : link[1] \in set => link[2] \in set) => set \in {{}, Members(c)}

\* x can be reached from itself within the set.
OnCycle(x, set) ==
    \A reached \in SUBSET set :
        (\A y \in reached \cup {x} : Successors(y) \cap set \subseteq reached)
            => x \in reached

\* Without an override no acceptance leaves its record on a cycle of accepted records
\* of its destination, although the search may miss the very cycle it closes
\* (resolveRelationshipAcceptance: "would leave an accepted supersession cycle").
NoAcceptedCycleUnasked ==
    phase = "accepted" /\ "override" \notin flags => ~OnCycle(candidate, AcceptedNext)

===============================================================================
