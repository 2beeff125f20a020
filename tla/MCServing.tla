------------------------------ MODULE MCServing ------------------------------
(***************************************************************************)
(* Instances of McpServer and of Proposals for TLC, one beside the other:  *)
(* a behaviour is one of the server or one of the commands that it, or the *)
(* command line, hands to the store.                                       *)
(***************************************************************************)
EXTENDS McpServer, Proposals

VARIABLE side  \* which of the two goes on

vars == <<side, mcpVars, proposalVars>>

-----------------------------------------------------------------------------
(* The server: two tokens whose issuer and subject join to one key, one of which
   expires *)

CONSTANTS c1, c2,     \* connections
          url, local  \* where the server is

Entry(token, issuer, subject, scopes, expiresAt) ==
    [token |-> token, subject |-> subject, issuer |-> issuer, scopes |-> scopes,
     audience |-> Absent, expiresAt |-> expiresAt]
Writer == Entry("writer", Absent, <<"org", "ann">>,
                {"review.write", "records.read", "review.read"}, Never)
Reader == Entry("reader", <<"local", "org">>, <<"ann">>, {"records.read"}, 2)

HttpEnvironment(limit, tokens) ==
    [transport |-> "http", limit |-> limit, hosts |-> {local}, origins |-> {local},
     wildcard |-> FALSE, tokens |-> tokens]
Typical == HttpEnvironment(2, <<Writer, Reader>>)

SomeEnvironments ==
    {Typical, HttpEnvironment(2, <<[Writer EXCEPT !.audience = "elsewhere"]>>),
     [Typical EXCEPT !.transport = "stdio"],
     [Typical EXCEPT !.origins = {"*"}]}

Message(method, target, given) ==
    [valid |-> TRUE, id |-> TRUE, method |-> method, target |-> target,
     args |-> [given |-> given, bad |-> {}]]
Review == Message("tools/call", "review", {"id", "decision", "reason", "confirm"})
Replace == Message("tools/call", "review",
               {"id", "decision", "reason", "confirm", "retireSuperseded"})
Unconfirmed == [Replace EXCEPT !.args = [given |-> {"id", "decision", "reason",
                                                    "retireSuperseded"}, bad |-> {"confirm"}]]
Timeline == Message("resources/read", "record_history", {})
Messages ==
    {Replace, [Replace EXCEPT !.id = FALSE], Unconfirmed,
     Message("tools/call", "live_sync", {"dryRun"}),
     Message("tools/call", "live_sync", {"confirm"}),
     Message("resources/read", "records", {}),
     Message("initialize", Absent, {})}

HttpCall(bearer, body) ==
    [transport |-> "http", host |-> local, origin |-> Absent, path |-> "endpoint",
     bearer |-> bearer, method |-> "POST", accepts |-> TRUE, large |-> FALSE,
     body |-> body]
Line(body) == [HttpCall("", body) EXCEPT !.transport = "stdio"]

SomeCalls ==
    {HttpCall("writer", Replace)}
    \cup {HttpCall("reader", b) : b \in {Replace, Timeline}}
    \cup {[HttpCall("writer", Malformed) EXCEPT !.method = "GET"],
          [HttpCall("writer", Malformed) EXCEPT !.large = TRUE],
          [HttpCall("writer", Replace) EXCEPT !.origin = "elsewhere"],
          [HttpCall("none", Replace) EXCEPT !.path = "metadata"],
          HttpCall("none", Replace)}
    \cup {Line(b) : b \in Messages \cup {Malformed}}

-----------------------------------------------------------------------------
(* The commands *)

CONSTANTS p1, p2,                     \* processes
          plain, secret, advice,       \* memories
          text, bullet, leak, talk,   \* lines that users write
          shown,                      \* the line that an exported memory becomes
          memoryFile, chat, lockfile  \* files

AllTexts == {plain, secret, advice, text, bullet, leak, talk, shown}
AFinding == [t \in AllTexts |-> IF t \in {secret, leak} THEN "secret" ELSE "nothing"]
ATerms == [t \in AllTexts |-> IF t \in {advice, talk} THEN {"term"} ELSE {}]
ABullet == [t \in AllTexts |-> CASE t = bullet -> plain [] t = leak -> secret
                                 [] t = shown -> shown [] OTHER -> Absent]
ACues == [t \in AllTexts |-> IF t = talk THEN <<advice, plain, advice>> ELSE <<>>]
AKind == [t \in AllTexts |-> IF t = advice THEN "instruction" ELSE "fact"]
ARendered == [t \in AllTexts |-> shown]
ARank == [repo |-> 0, other |-> 1]
AGit == <<<<lockfile, plain>>>>

Lax == [needsTrust |-> FALSE, reviewsUnknown |-> FALSE]
Strict == [deny |-> {"term"}, needsVerified |-> TRUE]
Policies == {Absent, Strict, Malformed}

SomeSaves == {<<memoryFile, <<bullet, leak>>>>,
              <<memoryFile, <<text, bullet, Start, End, text>>>>,
              <<memoryFile, Absent>>, <<chat, <<text, talk>>>>}

Plain == [memory |-> plain, quote |-> Absent, source |-> "manual", kind |-> "fact",
          scope |-> "repo", trust |-> "trusted", risk |-> Absent, ttl |-> FALSE,
          hash |-> Absent, lines |-> Absent, verify |-> FALSE, others |-> {},
          supersedes |-> {}, conflicts |-> {}]
Tagged == [Plain EXCEPT !.others = {leak}]
Linked == [Plain EXCEPT !.supersedes = {1}]
Quoting == [Plain EXCEPT !.memory = advice, !.source = memoryFile, !.quote = bullet, !.lines = <<2, 2>>,
               !.scope = "other", !.risk = "low"]
Options(trust) == [scope |-> "repo", trust |-> trust, others |-> {}, limit |-> 2]
From(source, trust, propose) ==
    [kind |-> "suggest", from |-> source, line |-> talk, options |-> Options(trust),
     propose |-> propose]

SomeCommands ==
    [p \in Procs |->
        IF p = p1
        THEN {[kind |-> "propose", input |-> i] : i \in {Linked, Quoting}}
             \cup {[kind |-> "preview", input |-> Linked], [kind |-> "export"],
                   From("memory file", "trusted", TRUE), From("transcript", "unknown", FALSE),
                   From("observation", "unknown", FALSE), From("git diff", "trusted", TRUE)}
        ELSE {[kind |-> "propose", input |-> Plain], [kind |-> "propose", input |-> Tagged],
              [kind |-> "export"], [kind |-> "guard"]}]

-----------------------------------------------------------------------------

ServerAtRest ==
    /\ clock = 0 /\ config = Down /\ session = NewSession
    /\ buckets = Empty(NoBucket) /\ admitted = Empty(<<>>)
    /\ conns = [c \in Conns |-> NoRequest] /\ last = NoLast
    /\ version = 0 /\ sent = 0 /\ setBack = FALSE

CommandsAtRest ==
    /\ policy = Absent /\ ledger = <<>> /\ holder = Nobody
    /\ files = [f \in {MemoryFile, Chat} |-> <<>>] /\ kept = <<>>
    /\ work = [p \in Procs |-> NoWork] /\ outcome = NoOutcome
    /\ begun = 0 /\ saves = 0 /\ reviews = 0
    /\ judged = {} /\ overlapped = FALSE

Init ==
    \/ side = "server" /\ McpInit /\ CommandsAtRest
    \/ side = "commands" /\ ProposalsInit /\ ServerAtRest

(* nothing more is begun *)
Rest ==
    /\ side = "commands" /\ begun = MaxCommands /\ \A p \in Procs : AtRest(p)
    /\ UNCHANGED vars

Next ==
    \/ Rest
    \/ side = "server" /\ McpNext /\ UNCHANGED <<side, proposalVars>>
    \/ side = "commands" /\ ProposalsNext /\ UNCHANGED <<side, mcpVars>>

Spec == Init /\ [][Next]_vars

(* Both have the shapes of their states. *)
TypeOK == McpTypeOK /\ ProposalsTypeOK

=============================================================================
