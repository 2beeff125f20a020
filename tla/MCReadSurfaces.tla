--------------------------- MODULE MCReadSurfaces ---------------------------
(***************************************************************************)
(* An instance of ReadSurfaces for TLC: three records of one               *)
(* destination, a read policy that is opened and closed, and one request   *)
(* of every kind.                                                          *)
(***************************************************************************)
EXTENDS ReadSurfaces

CONSTANTS rec1, rec2, rec3, \* records: rec2 conflicts with rec1
          ann,              \* a principal
          memory, notes,    \* destinations
          team, self,       \* scopes
          r1                \* a reader

AOrder == <<rec3, rec1>>
ADest == [id \in Ids |-> memory]
AScope == [id \in Ids |-> IF id = rec3 THEN self ELSE team]
NoSupersession == [id \in Ids |-> {}]
BConflictsWithA == [id \in Ids |-> IF id = rec2 THEN {rec1} ELSE {}]
AContent == [id \in Ids |-> IF id = rec3 THEN "sensitive" ELSE "clean"]
ATtl == [id \in Ids |-> CASE id = rec1 -> [date |-> 0]
                          [] id = rec2 -> [at |-> 1]
                          [] id = rec3 -> Never]

Rule(effect, surfaces, dests, scopes, ids) ==
    [effect |-> effect, principals |-> {ann}, surfaces |-> surfaces,
     dests |-> dests, scopes |-> scopes, ids |-> ids]
Open == {Rule("allow", {}, {}, {}, {})}
TeamOnly == {Rule("allow", {"read_context", "export_preview"}, {memory}, {team}, {}),
             Rule("allow", {"record_history", "record_inspect"}, {}, {}, {rec3}),
             Rule("deny", {"record_inspect"}, {}, {}, {})}
Policies == {Absent, Open, TeamOnly, Open \cup {Malformed}}

Listed(status) == [id |-> ann, status |-> status]
Known == {Listed("active")}
Gone == {Listed("disabled")}
Stores == {Known, Gone, Known \cup Gone}

Request(surface, dest, scopes, ids, constraint) ==
    [surface |-> surface, dest |-> dest, scopes |-> scopes, ids |-> ids,
     review |-> TRUE, status |-> {}, constraint |-> constraint, auth |-> Nobody]
Signed(q) == [q EXCEPT !.auth = [principal |-> ann, signed |-> Payload(Effective(q))]]

Constraint(flat, allowed, until, noConflicts) ==
    [flat |-> flat, actor |-> TRUE, allowed |-> allowed, until |-> until,
     noConflicts |-> noConflicts, noSupersedes |-> FALSE]
ForTeam == Constraint(FALSE, {team}, 1, FALSE)
ForTeamFlat == Constraint(TRUE, {team}, 1, TRUE)
Unlinked == Constraint(FALSE, {team, self}, Never, TRUE)

Context(scopes, c0) == Request("read_context", memory, scopes, {}, c0)

SomeRequests ==
    {Signed(Context({}, Unconstrained)), Signed(Context({}, ForTeam)),
     Signed(Context({}, Unlinked)), Signed(Context({}, ForTeamFlat)),
     Context({self}, ForTeam),
     [Context({}, ForTeam) EXCEPT !.auth =
         [principal |-> ann, signed |-> Payload(Context({}, ForTeam))]],
     Signed(Request("export_preview", memory, {}, {}, Unconstrained)),
     Signed(Request("record_history", Anywhere, {}, {rec3}, Unconstrained)),
     Signed(Request("record_inspect", Anywhere, {}, {rec1}, Unconstrained)),
     [Signed(Request("record_inspect", Anywhere, {}, {rec1}, Unconstrained))
         EXCEPT !.review = FALSE],
     Request("read_context_status", Anywhere, {}, {}, Unconstrained),
     Request("records_list", memory, {}, {}, Unconstrained),
     Request("relationships", Anywhere, {}, {}, Unconstrained)}
=============================================================================
