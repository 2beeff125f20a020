---------------------------- MODULE ReadSurfaces ----------------------------
(***************************************************************************)
(* What a reader of the store is answered while others change it: lists,   *)
(* single records, timelines, assembled context, context status and export *)
(* previews.  A read takes no lock.  It reads read-policy.json, then       *)
(* principals.json, then ledger.jsonl and, for a timeline, events.jsonl,   *)
(* and each of these files may be replaced between two of its steps.       *)
(*                                                                         *)
(* A record's text is left out; what the answers depend on is its status,  *)
(* and the destination, scope, links, expiry and content findings that the *)
(* constants give it.  A matcher of the read policy that is omitted, empty *)
(* or "*" is the empty set.  A signature is the request it was made over.  *)
(***************************************************************************)
EXTENDS Naturals, Sequences, FiniteSets

CONSTANTS
    Readers, Ids, Dests, Scopes, Principals,
    Dest, Scope,            \* the destination and scope of each record
    Supersedes, Conflicts,  \* the links of each record
    Content,                \* what the scanner finds in each
    Ttl,                    \* Never, [date |-> day] or [at |-> instant] of each
    DayLength,              \* instants in a day
    WarningWindow,          \* how long before its expiry a record is warned of
    ReadPolicies,           \* possible contents of read-policy.json
    PrincipalStores,        \* possible contents of principals.json
    Requests,               \* what readers ask for
    Order,                  \* unlinked records that may have been proposed already
    Never, Absent, Malformed, Anywhere, Nobody, Unconstrained, Missing,
    MaxTime, MaxChanges

VARIABLES
    now,         \* the wall clock
    ledger,      \* ledger.jsonl: status and updated_at of each record
    log,         \* events.jsonl: the events that changed a record's status
    unwritten,   \* the record an appended event still has to bring to the ledger, and
                 \* whether its resolution has still to be appended before
    policy,      \* read-policy.json
    principals,  \* principals.json
    reads,       \* the read each reader is in
    changes,     \* what happened beside the reads so far: events, edits, ticks
    inForce,     \* history: the policy files since each read began
    setBack      \* history: whether the clock was ever set back

vars == <<now, ledger, log, unwritten, policy, principals, reads, changes,
          inForce, setBack>>

(* surfaces that ask the read policy; the relationship graph does not, and the
   check of the ledger, which does, is in LedgerMigration without the question *)
Governed == {"records_list", "record_inspect", "record_history",
             "read_context", "read_context_status", "export_preview"}
Surfaces == Governed \cup {"relationships"}

Statuses == {"pending", "accepted", "rejected", "retired"}
Instants == 0 .. MaxTime

Constraints ==
    [flat : BOOLEAN, actor : BOOLEAN, allowed : SUBSET Scopes,
     until : Nat \cup {Never, Malformed}, noConflicts : BOOLEAN \cup {Malformed},
     noSupersedes : BOOLEAN \cup {Malformed}]

Signatures ==
    [principal : Principals,
     signed : Surfaces \X (Dests \cup {Anywhere}) \X (SUBSET Scopes) \X (SUBSET Ids)
              \X (SUBSET Statuses)]

ReadRequest ==
    [surface : Surfaces, dest : Dests \cup {Anywhere}, scopes : SUBSET Scopes,
     ids : SUBSET Ids, review : BOOLEAN, status : SUBSET Statuses,
     constraint : Constraints \cup {Unconstrained}, auth : Signatures \cup {Nobody}]

ReadSurfacesAssumption ==
    /\ Dest \in [Ids -> Dests] /\ Scope \in [Ids -> Scopes]
    /\ Supersedes \in [Ids -> SUBSET Ids] /\ Conflicts \in [Ids -> SUBSET Ids]
    /\ Content \in [Ids -> {"clean", "secret", "bad destination", "marker", "sensitive"}]
    /\ Ttl \in [Ids -> [date : Nat] \cup [at : Nat] \cup {Never}]
    /\ DayLength \in Nat \ {0} /\ WarningWindow \in Nat
    /\ MaxTime \in Nat /\ MaxChanges \in Nat /\ Absent # Malformed
    /\ Order \in Seq(Ids)
    /\ Requests \subseteq ReadRequest
    /\ \A q \in Requests : q.surface = "record_history" => \E id \in Ids : q.ids = {id}

ASSUME ReadSurfacesAssumption

-----------------------------------------------------------------------------
(* Expiry *)

(* a date stands for the last instant of its day *)
ExpiresAt(ttl) ==
    IF "date" \in DOMAIN ttl THEN ttl.date * DayLength + (DayLength - 1) ELSE ttl.at

Expired(id, t) == Ttl[id] # Never /\ ExpiresAt(Ttl[id]) <= t

Expiring(id, t) ==
    Ttl[id] # Never /\ ~Expired(id, t) /\ ExpiresAt(Ttl[id]) <= t + WarningWindow

-----------------------------------------------------------------------------
(* The read policy and the principals *)

\* Faulty: a malformed policy counts as none.
MalformedPolicyIsNone(file) ==
    IF file \notin {Absent, Malformed} /\ Malformed \in file THEN Absent ELSE file

(* One bad rule makes the whole policy malformed, and two entries for one principal
   the whole store. *)
ParsedPolicy(file) ==
    IF file \notin {Absent, Malformed} /\ Malformed \in file THEN Malformed ELSE file

ParsedPrincipals(file) ==
    IF /\ file \notin {Absent, Malformed}
       /\ Malformed \in file \/ \E e, f \in file : e # f /\ e.id = f.id
    THEN Malformed ELSE file

Matches(values, requested) == values = {} \/ requested \in values

AllMatch(values, requested) ==
    values = {} \/ (requested # {} /\ requested \subseteq values)

RuleMatches(rule, q, who) ==
    /\ Matches(rule.principals, who)
    /\ Matches(rule.surfaces, q.surface)
    /\ Matches(rule.dests, q.dest)
    /\ AllMatch(rule.scopes, q.scopes)
    /\ AllMatch(rule.ids, q.ids)

EvaluateReadPolicy(rules, q, who) ==
    /\ \A rule \in rules : rule.effect = "deny" => ~RuleMatches(rule, q, who)
    /\ \E rule \in rules : rule.effect = "allow" /\ RuleMatches(rule, q, who)

(* what a signature covers *)
Payload(q) == <<q.surface, q.dest, q.scopes, q.ids, q.status>>

(* principals.json is readable, knows the principal as active, and the
   signature is over this very request *)
Verified(file, q) ==
    /\ ParsedPrincipals(file) \notin {Absent, Malformed}
    /\ [id |-> q.auth.principal, status |-> "active"] \in file
    /\ q.auth.signed = Payload(q)

-----------------------------------------------------------------------------
(* Constraints of a context request *)

(* written beside the request's own fields, a constraint has only an actor
   and scopes *)
Refinements(c) ==
    IF c.flat
    THEN [until |-> Never, noConflicts |-> FALSE, noSupersedes |-> FALSE]
    ELSE [until |-> c.until, noConflicts |-> c.noConflicts,
          noSupersedes |-> c.noSupersedes]

RefinementsFail(c) ==
    Malformed \in {Refinements(c).until, Refinements(c).noConflicts,
                   Refinements(c).noSupersedes}

Constrained(q) == q.surface = "read_context" /\ q.constraint # Unconstrained

ConstraintFails(q) ==
    /\ Constrained(q)
    /\ \/ ~q.constraint.actor
       \/ q.constraint.allowed = {}
       \/ ~(q.scopes \subseteq q.constraint.allowed)
       \/ RefinementsFail(q.constraint)

(* the allowed scopes stand in for scopes that were not requested *)
Effective(q) ==
    IF Constrained(q) /\ q.scopes = {}
    THEN [q EXCEPT !.scopes = q.constraint.allowed] ELSE q

(* a constraint leaves out records that expire by a time or that have links *)
Kept(q, id) ==
    Constrained(q) =>
        LET c == Refinements(q.constraint)
        IN /\ c.until # Never /\ Ttl[id] # Never => ExpiresAt(Ttl[id]) > c.until
           /\ c.noConflicts => Conflicts[id] = {}
           /\ c.noSupersedes => Supersedes[id] = {}

-----------------------------------------------------------------------------
(* What each surface makes of the ledger *)

Recorded == {id \in Ids : ledger[id] # Missing}
Accepted(d) == {id \in Recorded : ledger[id].status = "accepted" /\ Dest[id] = d}
Linked(id) == Supersedes[id] \cup Conflicts[id]

(* scanAcceptedMemoryRecords *)
ScanIssues(ids) == {id \in ids : Content[id] \in {"secret", "bad destination", "marker"}}
ScanWarnings(ids) == {id \in ids : Content[id] = "sensitive"}

(* links within a set of accepted records; a cycle of supersessions among them has
   one as well *)
RelationshipIssues(ids) == {id \in ids : Linked(id) \cap ids # {}}

(* readContextIssues: what stops an export or a context of these records *)
HasIssues(ids) ==
    \/ \E id \in ids : Expired(id, now)
    \/ RelationshipIssues(ids) # {}
    \/ ScanIssues(ids) # {}

Warned(ids) == {id \in ids : Expiring(id, now)} \cup ScanWarnings(ids)

Answer(kind, ids, warned) == [kind |-> kind, ids |-> ids, warned |-> warned,
                              status |-> Missing, events |-> {}]
NoAnswer == Answer("none", {}, {})

\* Faulty: only looks for issues among the records that it shows.
AnswerContextByShown(q) ==
    LET shown == {id \in Accepted(q.dest) : (q.scopes = {} \/ Scope[id] \in q.scopes)
                                            /\ Kept(q, id)}
    IN IF HasIssues(shown) THEN Answer("blocked", {}, Warned(shown))
       ELSE Answer("content", shown, Warned(shown))

AnswerContext(q) ==
    LET accepted == Accepted(q.dest)
        shown == {id \in accepted : (q.scopes = {} \/ Scope[id] \in q.scopes)
                                    /\ Kept(q, id)}
    IN IF HasIssues(accepted)
       THEN Answer("blocked", {}, IF Constrained(q) THEN {} ELSE Warned(accepted))
       ELSE Answer("content", shown, Warned(IF Constrained(q) THEN shown ELSE accepted))

(* a preview throws where a context reports *)
AnswerPreview(q) ==
    IF HasIssues(Accepted(q.dest)) THEN Answer("failed", {}, {})
    ELSE Answer("content", Accepted(q.dest), Warned(Accepted(q.dest)))

(* the accepted records of every destination, the blocked ones included *)
Destinations(q) ==
    IF q.dest = Anywhere THEN {Dest[id] : id \in Recorded} ELSE {q.dest}

AnswerStatus(q) ==
    LET accepted == UNION {Accepted(d) : d \in Destinations(q)}
    IN Answer("content", accepted, Warned(accepted))

AnswerList(q) ==
    Answer("content", {id \in Recorded : /\ Matches(q.status, ledger[id].status)
                                         /\ q.dest \in {Anywhere, Dest[id]}}, {})

AnswerRecord(q) ==
    IF q.ids \subseteq Recorded THEN Answer("content", q.ids, {})
    ELSE Answer("failed", {}, {})

(* a record under review comes with the records it links to, which must all be there,
   and those that link to it *)
AnswerReview(q) ==
    LET linking(id) == {o \in Recorded : id \in Linked(o)}
        around(id) == {id} \cup Linked(id) \cup linking(id)
    IN IF \A id \in q.ids : {id} \cup Linked(id) \subseteq Recorded
       THEN Answer("content", UNION {around(id) : id \in q.ids}, {})
       ELSE Answer("failed", {}, {})

AnswerFromLedger(q) ==
    CASE q.surface = "read_context" -> AnswerContext(q)
      [] q.surface = "export_preview" -> AnswerPreview(q)
      [] q.surface = "read_context_status" -> AnswerStatus(q)
      [] q.surface = "records_list" -> AnswerList(q)
      [] q.surface = "record_inspect" /\ ~q.review -> AnswerRecord(q)
      [] q.surface = "record_inspect" /\ q.review -> AnswerReview(q)
      [] q.surface = "relationships" -> Answer("content", Recorded, {})

-----------------------------------------------------------------------------
(* Reads *)

Idle == [pc |-> "idle", q |-> Missing, held |-> Absent, answer |-> NoAnswer]

NoneInForce == [policies |-> {}, stores |-> {}]

Init ==
    /\ now \in Instants /\ setBack = FALSE
    /\ \E n \in 0 .. Len(Order) :
          \E first \in [1 .. n -> {"pending", "accepted"}] :
             /\ log = [i \in 1 .. n |-> [ids |-> {Order[i]}, status |-> first[i], at |-> 0]]
             /\ ledger = [id \in Ids |->
                    IF \E i \in 1 .. n : Order[i] = id
                    THEN [status |-> first[CHOOSE i \in 1 .. n : Order[i] = id], at |-> 0]
                    ELSE Missing]
    /\ unwritten = Missing
    /\ policy \in ReadPolicies /\ principals \in PrincipalStores
    /\ changes = 0
    /\ reads = [r \in Readers |-> Idle]
    /\ inForce = [r \in Readers |-> NoneInForce]

Step(r, pc) == reads' = [reads EXCEPT ![r].pc = pc] /\ UNCHANGED inForce
Return(r, answer) ==
    /\ reads' = [reads EXCEPT ![r] = [Idle EXCEPT !.answer = answer]]
    /\ inForce' = [inForce EXCEPT ![r] = NoneInForce]

StoreUnchanged == UNCHANGED <<now, ledger, log, unwritten, policy, principals,
                              changes, setBack>>

(* a request begins; a constraint that makes no sense, or a scope outside of it,
   is answered before anything is read *)
Ask(r, q) ==
    /\ reads[r].pc = "idle"
    /\ IF ConstraintFails(q) THEN Return(r, Answer("blocked", {}, {}))
       ELSE /\ reads' = [reads EXCEPT ![r] =
                   [Idle EXCEPT !.q = Effective(q),
                                !.pc = IF q.surface \in Governed THEN "authorizing"
                                       ELSE "reading"]]
            /\ inForce' = [inForce EXCEPT ![r] = [policies |-> {policy},
                                                 stores |-> {principals}]]
    /\ StoreUnchanged

(* loadReadPolicy: no policy is no restriction, a malformed one refuses all *)
LoadReadPolicy(r) ==
    LET loaded == ParsedPolicy(policy)
    IN /\ reads[r].pc = "authorizing"
       /\ \/ loaded = Absent /\ Step(r, "reading")
          \/ /\ loaded = Malformed \/ (loaded # Absent /\ reads[r].q.auth = Nobody)
             /\ Return(r, Answer("denied", {}, {}))
          \/ /\ loaded \notin {Absent, Malformed} /\ reads[r].q.auth # Nobody
             /\ reads' = [reads EXCEPT ![r].pc = "verifying", ![r].held = loaded]
             /\ UNCHANGED inForce
       /\ StoreUnchanged

(* verifySignedReadRequest, then the rules that were loaded before *)
Authorize(r) ==
    LET q == reads[r].q
    IN /\ reads[r].pc = "verifying"
       /\ IF /\ Verified(principals, q)
             /\ EvaluateReadPolicy(reads[r].held, q, q.auth.principal)
          THEN Step(r, "reading")
          ELSE Return(r, Answer("denied", {}, {}))
       /\ StoreUnchanged

ReadLedger(r) ==
    /\ reads[r].pc = "reading" /\ reads[r].q.surface # "record_history"
    /\ Return(r, AnswerFromLedger(reads[r].q))
    /\ StoreUnchanged

(* a timeline first takes the record from the ledger *)
ReadHistoryRecord(r) ==
    /\ reads[r].pc = "reading" /\ reads[r].q.surface = "record_history"
    /\ IF reads[r].q.ids \subseteq Recorded
       THEN LET id == CHOOSE i \in reads[r].q.ids : TRUE
            IN /\ reads' = [reads EXCEPT ![r].pc = "recalling",
                                ![r].answer.ids = {id}, ![r].answer.status = ledger[id]]
               /\ UNCHANGED inForce
       ELSE Return(r, Answer("failed", {}, {}))
    /\ StoreUnchanged

(* and then its events, to be shown by their time and, for equal times, their
   place in the file *)
ReadTimeline(r) ==
    /\ reads[r].pc = "recalling"
    /\ LET places == {i \in DOMAIN log : reads[r].q.ids \subseteq log[i].ids}
       IN Return(r, [reads[r].answer EXCEPT
                        !.kind = "content",
                        !.events = {[at |-> log[i].at, place |-> i,
                                     status |-> log[i].status] : i \in places}])
    /\ StoreUnchanged

(* a ledger that cannot be read fails the read, or blocks the context; events
   that cannot be read leave the timeline empty and an issue beside it *)
ReadFails(r) ==
    /\ \/ /\ reads[r].pc = "reading"
          /\ Return(r, Answer(IF reads[r].q.surface \in {"read_context", "read_context_status"}
                              THEN "blocked" ELSE "failed", {}, {}))
       \/ /\ reads[r].pc = "recalling"
          /\ Return(r, [reads[r].answer EXCEPT !.kind = "incomplete"])
    /\ StoreUnchanged

-----------------------------------------------------------------------------
(* What happens beside the reads *)

Change == changes < MaxChanges /\ changes' = changes + 1

(* what a proposal may make of a record whose links are all there; one without links
   may be accepted at once *)
ProposedStatuses(id) ==
    {status \in {"pending", "rejected", "accepted"} :
        Linked(id) \subseteq Recorded /\ (status = "accepted" => Linked(id) = {})}

(* what a proposal or a review may make of a record *)
NextStatuses(id) ==
    IF ledger[id] = Missing THEN ProposedStatuses(id)
    ELSE CASE ledger[id].status \in {"pending", "rejected"} -> {"accepted", "rejected"}
           [] ledger[id].status = "accepted" -> {"accepted", "rejected", "retired"}
           [] ledger[id].status = "retired" -> {"retired"}

(* a record still to be written, with the resolution of a retired one still to append *)
Unwritten(id, status) ==
    [id |-> id, record |-> [status |-> status, at |-> now], resolving |-> status = "retired"]

\* Faulty: the ledger comes before the event.
LedgerBeforeEvent(id, status) ==
    /\ unwritten = Missing /\ Change
    /\ status \in NextStatuses(id)
    /\ unwritten' = [Unwritten(id, status) EXCEPT !.resolving = FALSE]
    /\ ledger' = [ledger EXCEPT ![id] = [status |-> status, at |-> now]]
    /\ UNCHANGED <<now, log, policy, principals, reads, inForce, setBack>>

(* a proposal or review appends its event, then brings the record to the ledger, under
   the store lock *)
AppendEvent(id, status) ==
    /\ unwritten = Missing
    /\ Change
    /\ status \in NextStatuses(id)
    /\ log' = Append(log, [ids |-> {id}, status |-> status, at |-> now])
    /\ unwritten' = Unwritten(id, status)
    /\ UNCHANGED <<now, ledger, policy, principals, reads, inForce, setBack>>

\* Faulty: the resolution counts as a status.
ResolutionIsStatus == [ids |-> {unwritten.id}, status |-> "resolved", at |-> unwritten.record.at]

(* made with the same reading of the clock as the status *)
Resolution == [ids |-> {unwritten.id}, status |-> Missing, at |-> unwritten.record.at]

(* one more event for a record that is retired, before the ledger is written *)
AppendResolution ==
    /\ unwritten # Missing /\ unwritten.resolving
    /\ log' = Append(log, Resolution)
    /\ unwritten' = [unwritten EXCEPT !.resolving = FALSE]
    /\ UNCHANGED <<now, ledger, policy, principals, reads, changes, inForce, setBack>>

(* an export, a sync or an acceptance's resolution: an event that names records and
   changes none *)
AppendReport(ids) ==
    /\ unwritten = Missing /\ ids # {}
    /\ Change
    /\ log' = Append(log, [ids |-> ids, status |-> Missing, at |-> now])
    /\ UNCHANGED <<now, ledger, unwritten, policy, principals, reads, inForce, setBack>>

WriteLedger ==
    /\ unwritten # Missing /\ ~unwritten.resolving
    /\ ledger' = [ledger EXCEPT ![unwritten.id] = unwritten.record]
    /\ unwritten' = Missing
    /\ UNCHANGED <<now, log, policy, principals, reads, changes, inForce, setBack>>

(* the process dies between its first event and the ledger *)
WriterDies ==
    /\ unwritten # Missing /\ unwritten' = Missing
    /\ UNCHANGED <<now, ledger, log, policy, principals, reads, changes, inForce, setBack>>

EditReadPolicy(p) ==
    /\ Change /\ p # policy
    /\ policy' = p
    /\ inForce' = [r \in Readers |->
           IF reads[r].pc = "idle" THEN inForce[r]
           ELSE [inForce[r] EXCEPT !.policies = @ \cup {p}]]
    /\ UNCHANGED <<now, ledger, log, unwritten, principals, reads, setBack>>

EditPrincipals(s) ==
    /\ Change /\ s # principals
    /\ principals' = s
    /\ inForce' = [r \in Readers |->
           IF reads[r].pc = "idle" THEN inForce[r]
           ELSE [inForce[r] EXCEPT !.stores = @ \cup {s}]]
    /\ UNCHANGED <<now, ledger, log, unwritten, policy, reads, setBack>>

Tick ==
    /\ Change /\ now < MaxTime /\ now' = now + 1
    /\ UNCHANGED <<ledger, log, unwritten, policy, principals, reads, inForce, setBack>>

SetClockBack ==
    /\ Change /\ now > 0 /\ ~setBack
    /\ now' = now - 1 /\ setBack' = TRUE
    /\ UNCHANGED <<ledger, log, unwritten, policy, principals, reads, inForce>>

ReadStep(r) ==
    \/ LoadReadPolicy(r) \/ Authorize(r) \/ ReadLedger(r) \/ ReadHistoryRecord(r)
    \/ ReadTimeline(r) \/ ReadFails(r)

Next ==
    \/ \E r \in Readers : ReadStep(r) \/ \E q \in Requests : Ask(r, q)
    \/ \E id \in Ids, status \in Statuses : AppendEvent(id, status)
    \/ \E d \in Dests : AppendReport(Accepted(d))
    \/ AppendResolution \/ WriteLedger \/ WriterDies
    \/ \E p \in ReadPolicies : EditReadPolicy(p)
    \/ \E s \in PrincipalStores : EditPrincipals(s)
    \/ Tick \/ SetClockBack

Spec == Init /\ [][Next]_vars

-----------------------------------------------------------------------------
(* Properties *)

Entry == [status : Statuses, at : Instants]

Answers ==
    [kind : {"none", "content", "blocked", "denied", "failed", "incomplete"},
     ids : SUBSET Ids, warned : SUBSET Ids, status : Entry \cup {Missing},
     events : SUBSET [at : Instants, place : Nat, status : Statuses \cup {Missing}]]

(* The files and every read have their shapes. *)
TypeOK ==
    /\ now \in Instants /\ setBack \in BOOLEAN
    /\ ledger \in [Ids -> Entry \cup {Missing}]
    /\ log \in Seq([ids : SUBSET Ids, status : Statuses \cup {Missing}, at : Instants])
    /\ unwritten \in [id : Ids, record : Entry, resolving : BOOLEAN] \cup {Missing}
    /\ policy \in ReadPolicies /\ principals \in PrincipalStores
    /\ changes \in 0 .. MaxChanges
    /\ reads \in [Readers ->
           [pc : {"idle", "authorizing", "verifying", "reading", "recalling"},
            q : ReadRequest \cup {Missing}, held : ReadPolicies \cup {Absent},
            answer : Answers]]
    /\ inForce \in [Readers -> [policies : SUBSET ReadPolicies,
                                 stores : SUBSET PrincipalStores]]
    /\ \A r \in Readers : reads[r].pc # "idle" => reads[r].q \in ReadRequest

(* A governed read gets as far as content only if, while it ran, there was no
   read policy or one that allows this very request to its signer, and
   principals.json held the signer as active (read-policy.ts: evaluateReadAccess).
   The two files are read one after the other, so nothing is said of one instant. *)
ContentWasAllowed ==
    \A r \in Readers :
        LET q == reads[r].q
        IN reads[r].pc \in {"reading", "recalling"} /\ q.surface \in Governed
           => \/ Absent \in inForce[r].policies
              \/ /\ q.auth # Nobody
                 /\ \E p \in inForce[r].policies :
                       /\ ParsedPolicy(p) \notin {Absent, Malformed}
                       /\ EvaluateReadPolicy(p, q, q.auth.principal)
                 /\ \E s \in inForce[r].stores : Verified(s, q)

(* A day is over once the instants up to now, the first being 0, fill it and all
   days before it. *)
Outlived(id) ==
    /\ Ttl[id] # Never
    /\ IF "date" \in DOMAIN Ttl[id] THEN (Ttl[id].date + 1) * DayLength <= now + 1
       ELSE now >= Ttl[id].at

(* what a context or a preview with content says of the records accepted for its
   destination, and shows of them *)
CleanAnswer(q, a) ==
    LET accepted == {id \in Ids : ledger[id] # Missing
                         /\ ledger[id].status = "accepted" /\ Dest[id] = q.dest}
    IN /\ \A id \in accepted :
             /\ ~Outlived(id) /\ Content[id] \in {"clean", "sensitive"}
             /\ \A other \in accepted : id \notin Conflicts[other] \cup Supersedes[other]
       /\ a.ids \subseteq accepted
       /\ Constrained(q) => /\ \A id \in a.ids : Scope[id] \in q.constraint.allowed
                            /\ a.warned \subseteq a.ids

(* At the moment a context or a preview is answered with content, no record that is
   accepted for its destination is past its day or instant of expiry, has blocked
   content, or is linked to another of them, shown or not: scopes and constraints
   hide records, never what stops an export (read-context.ts: assembleReadContext).
   An answer shows accepted records of that destination only, and a constrained one
   none outside the allowed scopes and warns of none that it does not show. *)
ContextIsClean ==
    [][\A r \in Readers :
        reads[r].pc = "reading" /\ reads'[r].answer.kind = "content"
        /\ reads[r].q.surface \in {"read_context", "export_preview"}
        => CleanAnswer(reads[r].q, reads'[r].answer)]_vars

(* A timeline holds the event that brought its record to the status shown with it,
   although ledger and events are read one after the other beside writers, and
   its order by time is the order of the file unless the clock was set back
   (ledger-history.ts: getRecordHistory, summarizeRecordEvents). *)
TimelineCoversRecord ==
    \A r \in Readers :
        LET a == reads[r].answer
        IN a.kind = "content" /\ a.status # Missing
           => /\ \E e \in a.events : e.status = a.status.status /\ e.at = a.status.at
              /\ ~setBack => \A e, f \in a.events : e.place < f.place => e.at <= f.at

=============================================================================
