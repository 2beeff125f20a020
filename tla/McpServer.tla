------------------------------ MODULE McpServer ------------------------------
(***************************************************************************)
(* The MCP servers: mempr-mcp-http, which checks host, origin, token, rate *)
(* and scope of a request, and mempr-mcp, which reads messages from its    *)
(* standard input and checks none of them.  Both hand messages to one      *)
(* MemprMcpServer.                                                         *)
(*                                                                         *)
(* A request is handled in three steps, between which others run: up to    *)
(* its body, up to the core function it calls, and the answer.  A client   *)
(* may go away at any time, and the process may be stopped; neither stops  *)
(* a core function that has taken effect.  What core functions do to the   *)
(* store is counted, not modelled: MemprStore, ReadSurfaces and Proposals  *)
(* model it.                                                               *)
(***************************************************************************)
EXTENDS McpTools, Inputs, Sequences

CONSTANTS
    Conns,         \* connections to mempr-mcp-http, or lines in the work of mempr-mcp
    Environments,  \* what the process may be started with
    Calls,         \* what clients send
    Resource,      \* the URL the tokens are for
    Window,        \* the length of a rate window
    Never, Down, NoBucket, Nothing,
    MaxClock, MaxCalls

VARIABLES
    clock,     \* the wall clock
    config,    \* the loaded configuration, or Down
    session,   \* the state of MemprMcpServer: initialized and log level
    buckets,   \* rateBuckets: count and resetAt for each key
    conns,     \* the request each connection is in
    version,   \* how many writes the store has seen
    sent,      \* how many calls were sent
    setBack,   \* history: whether the wall clock was set back since the start
    admitted,  \* history: when the callers of each key passed the rate limit, since the
               \* start or since the clock was last set back
    last       \* history: the request that has just ended, if it called a core function
               \* or was one too many, with its answer

mcpVars == <<clock, config, session, buckets, conns, version, sent, setBack,
             admitted, last>>

Clock == 0 .. MaxClock

McpAssumption ==
    /\ Window \in Nat \ {0} /\ MaxClock \in Nat /\ MaxCalls \in Nat
    /\ Down \notin Environments /\ NoBucket \notin [count : Nat, resetAt : Nat]
    /\ \A env \in Environments :
          env.tokens # Malformed =>
          \A i \in DOMAIN env.tokens : env.tokens[i].expiresAt \in Nat \cup {Never, Malformed}

ASSUME McpAssumption

-----------------------------------------------------------------------------
(* Configuration *)

TokenFails(entry) ==
    \/ entry.token = Absent \/ entry.subject = Absent
    \/ entry.scopes = Malformed \/ ~(entry.scopes \subseteq KnownScopes)
    \/ entry.audience \notin {Absent, Resource}

OriginsFail(env) ==
    \/ env.origins = {} \/ Malformed \in env.origins
    \/ "*" \in env.origins /\ ~env.wildcard

(* loadConfig throws, and the process ends; mempr-mcp has nothing to load *)
ConfigFails(env) ==
    /\ env.transport = "http"
    /\ \/ env.limit \notin Nat \/ env.hosts = {} \/ OriginsFail(env)
       \/ env.tokens = Malformed
       \/ \E i \in DOMAIN env.tokens : TokenFails(env.tokens[i])

(* The bucket that a token's calls are counted in.  Issuer and subject are texts, here
   sequences of the parts between colons; the key joins them by a colon, so that two
   pairs of issuer and subject may have one key. *)
BucketKey(entry) ==
    (IF entry.issuer = Absent THEN <<"local">> ELSE entry.issuer) \o entry.subject
BucketKeys == UNION {{BucketKey(env.tokens[i]) : i \in DOMAIN env.tokens} :
                        env \in {e \in Environments : e.tokens # Malformed}}

-----------------------------------------------------------------------------
(* What is asked of a request *)

TokenExpired(entry) ==
    entry.expiresAt # Never /\ (entry.expiresAt = Malformed \/ entry.expiresAt <= clock)

(* the first token of that value *)
Bearer(call) ==
    LET first == {i \in DOMAIN config.tokens :
                     /\ config.tokens[i].token = call.bearer
                     /\ \A j \in 1 .. i - 1 : config.tokens[j].token # call.bearer}
    IN IF first = {} THEN Absent ELSE config.tokens[CHOOSE i \in first : TRUE]

Authenticated(call) == Bearer(call) # Absent /\ ~TokenExpired(Bearer(call))

\* Faulty: a window ends an instant early.
SpentEarly(key) == buckets[key] = NoBucket \/ buckets[key].resetAt <= clock + 1

(* a bucket whose end has come is as good as none *)
Spent(key) == buckets[key] = NoBucket \/ buckets[key].resetAt <= clock

RateAllowed(key) ==
    config.limit = 0 \/ Spent(key) \/ buckets[key].count < config.limit

Counted(key) ==
    IF config.limit = 0 THEN buckets
    ELSE IF Spent(key)
    THEN [buckets EXCEPT ![key] = [count |-> 1, resetAt |-> clock + Window]]
    ELSE [buckets EXCEPT ![key].count = @ + 1]

(* requiredScopesForMessage; a target that is not known takes the scope to read *)
RequiredScopes(message) ==
    CASE message.method \in {"initialize", "ping", "logging/setLevel"} -> {}
      [] message.method = "resources/read" /\ message.target \in Routes
            -> {ResourceScope(message.target)}
      [] message.method = "tools/call" /\ message.target \in Tools
            -> {ToolScope[message.target]}
      [] OTHER -> {"records.read"}

-----------------------------------------------------------------------------
(* MemprMcpServer *)

(* the core function that a message calls, if any *)
CoreOf(message) ==
    IF ~message.valid \/ ~message.id THEN "none"
    ELSE CASE message.method = "tools/call" /\ message.target \in Tools
                -> IF Refuses(message.target, message.args) THEN "none"
                   ELSE ToolCore[message.target]
           [] message.method = "resources/read" /\ message.target \in Routes
                -> IF BadReadAccess(message.args) THEN "none"
                   ELSE ResourceCore[message.target]
           [] OTHER -> "none"

Listed == {"initialize", "ping", "tools/list", "resources/list",
           "resources/templates/list", "logging/setLevel", "notifications/initialized"}

(* what a message that calls no core function is answered; a notification is not *)
Reply(message) ==
    IF ~message.valid THEN "error"
    ELSE IF ~message.id THEN "accepted"
    ELSE IF \/ message.method \in Listed \ {"logging/setLevel"}
            \/ message.method = "logging/setLevel" /\ message.target \in {"debug", "error"}
    THEN "result" ELSE "error"

SessionAfter(message) ==
    CASE message.valid /\ message.method = "notifications/initialized"
            -> [session EXCEPT !.initialized = TRUE]
      [] message.valid /\ message.id /\ message.method = "initialize"
            -> [session EXCEPT !.initialized = FALSE]
      [] message.valid /\ message.id /\ message.method = "logging/setLevel"
         /\ message.target \in {"debug", "error"}
            -> [session EXCEPT !.level = message.target]
      [] OTHER -> session

-----------------------------------------------------------------------------
(* Requests *)

NoRequest == [pc |-> "idle", call |-> Nothing, token |-> Absent, since |-> 0,
              wrote |-> FALSE, here |-> TRUE]

NoLast == [request |-> NoRequest, answer |-> "none"]

Ended(c, request, answer) ==
    /\ conns' = [conns EXCEPT ![c] = NoRequest]
    /\ last' = IF request.pc = "running" \/ answer = "too many"
               THEN [request |-> request, answer |-> answer] ELSE NoLast

(* handleMessage: what runs at once runs to the end; core functions take their time *)
HandleMessage(c, request) ==
    LET message == request.call.body
    IN /\ session' = SessionAfter(message)
       /\ IF CoreOf(message) = "none" THEN Ended(c, request, Reply(message))
          ELSE /\ conns' = [conns EXCEPT ![c] = [request EXCEPT !.pc = "running"]]
               /\ last' = NoLast

Send(c, call) ==
    /\ config # Down /\ config.transport = call.transport
    /\ conns[c].pc = "idle"
    /\ sent < MaxCalls /\ sent' = sent + 1

Asked(call, token) ==
    [NoRequest EXCEPT !.call = call, !.token = token, !.since = clock]

(* a line of standard input *)
ReceiveLine(c, call) ==
    /\ call.transport = "stdio" /\ Send(c, call)
    /\ IF call.body = Malformed
       THEN Ended(c, Asked(call, Absent), "error") /\ UNCHANGED session
       ELSE HandleMessage(c, Asked(call, Absent))
    /\ UNCHANGED <<clock, config, buckets, version, setBack, admitted>>

(* the answer to a request that does not get as far as its token *)
Turned(call) ==
    CASE call.host \notin config.hosts -> "forbidden"
      [] call.host \in config.hosts /\ call.origin \notin {Absent} \cup config.origins
            -> "forbidden"
      [] OTHER -> IF call.path = "metadata" THEN "result" ELSE "not found"

Forthcoming(call) ==
    /\ call.host \in config.hosts /\ call.origin \in {Absent} \cup config.origins
    /\ call.path = "endpoint"

(* handleRequest up to its body: all of it runs at once *)
ReceiveHead(c, call) ==
    LET entry == Bearer(call)
        request == Asked(call, entry)
    IN /\ call.transport = "http" /\ Send(c, call)
       /\ IF ~Forthcoming(call) \/ ~Authenticated(call) \/ ~RateAllowed(BucketKey(entry))
          THEN /\ Ended(c, request,
                        IF ~Forthcoming(call) THEN Turned(call)
                        ELSE IF ~Authenticated(call) THEN "unauthorized" ELSE "too many")
               /\ UNCHANGED <<buckets, admitted>>
          ELSE /\ buckets' = Counted(BucketKey(entry))
               /\ admitted' = [admitted EXCEPT ![BucketKey(entry)] = Append(@, clock)]
               /\ IF call.method = "POST" /\ call.accepts
                  THEN /\ conns' = [conns EXCEPT ![c] = [request EXCEPT !.pc = "receiving"]]
                       /\ last' = NoLast
                  ELSE Ended(c, request, "not acceptable")
       /\ UNCHANGED <<clock, config, session, version, setBack>>

(* the body is there: its size, its form and the scopes of the token are looked at,
   and it is handled *)
ReceiveBody(c) ==
    LET request == conns[c]
        body == request.call.body
    IN /\ request.pc = "receiving"
       /\ IF request.call.large \/ body = Malformed
          THEN Ended(c, request, "error") /\ UNCHANGED session
          ELSE IF ~(RequiredScopes(body) \subseteq request.token.scopes)
          THEN Ended(c, request, "forbidden") /\ UNCHANGED session
          ELSE HandleMessage(c, request)
       /\ UNCHANGED <<clock, config, buckets, version, sent, setBack, admitted>>

Core(c) == CoreOf(conns[c].call.body)
Pending(c) == conns[c].pc = "running" /\ ~conns[c].wrote

(* a write takes effect; a dry run of a sync has none *)
TakeEffect(c) ==
    /\ Pending(c) /\ Core(c) \in Writes
    /\ "dryRun" \notin conns[c].call.body.args.given
    /\ conns' = [conns EXCEPT ![c].wrote = TRUE]
    /\ version' = version + 1
    /\ last' = NoLast
    /\ UNCHANGED <<clock, config, session, buckets, sent, setBack, admitted>>

(* a write whose success may leave the store as it was: a sync that is blocked, a batch
   that is empty or whose candidates are all blocked *)
MayWriteNothing == {"syncLiveAdapter", "proposeSuggestionCandidates"}

(* a core function has returned: a write after its effect, or with none to have *)
Respond(c) ==
    /\ conns[c].pc = "running"
    /\ \/ conns[c].wrote \/ Core(c) \notin Writes \/ Core(c) \in MayWriteNothing
       \/ "dryRun" \in conns[c].call.body.args.given
    /\ Ended(c, conns[c], IF conns[c].here THEN "result" ELSE "lost")
    /\ UNCHANGED <<clock, config, session, buckets, version, sent, setBack, admitted>>

(* or has thrown, a write perhaps after some of its effect *)
RespondFailed(c) ==
    /\ conns[c].pc = "running"
    /\ Ended(c, conns[c], IF conns[c].here THEN "failed" ELSE "lost")
    /\ UNCHANGED <<clock, config, session, buckets, version, sent, setBack, admitted>>

(* the client goes away: a body that is not there never comes, a core function goes on *)
ClientLeaves(c) ==
    /\ conns[c].pc # "idle" /\ conns[c].here /\ conns[c].call.transport = "http"
    /\ IF conns[c].pc = "receiving" THEN Ended(c, conns[c], "lost")
       ELSE conns' = [conns EXCEPT ![c].here = FALSE] /\ last' = NoLast
    /\ UNCHANGED <<clock, config, session, buckets, version, sent, setBack, admitted>>

-----------------------------------------------------------------------------
(* The process *)

NewSession == [initialized |-> FALSE, level |-> "warning"]
Empty(value) == [key \in BucketKeys |-> value]

McpInit ==
    /\ clock = 0 /\ config = Down /\ session = NewSession
    /\ buckets = Empty(NoBucket) /\ admitted = Empty(<<>>)
    /\ conns = [c \in Conns |-> NoRequest]
    /\ version = 0 /\ sent = 0 /\ setBack = FALSE
    /\ last = NoLast

StartServer(env) ==
    /\ config = Down /\ ~ConfigFails(env)
    /\ config' = env
    /\ last' = NoLast
    /\ UNCHANGED <<clock, session, buckets, conns, version, sent, setBack, admitted>>

(* the process ends: its sessions, buckets and requests are gone, the store is not *)
StopServer ==
    /\ config # Down /\ config' = Down
    /\ session' = NewSession
    /\ buckets' = Empty(NoBucket) /\ admitted' = Empty(<<>>)
    /\ conns' = [c \in Conns |-> NoRequest]
    /\ setBack' = FALSE
    /\ last' = NoLast
    /\ UNCHANGED <<clock, version, sent>>

TimePasses ==
    /\ clock < MaxClock /\ clock' = clock + 1
    /\ last' = NoLast
    /\ UNCHANGED <<config, session, buckets, conns, version, sent, setBack, admitted>>

(* the wall clock is set back: windows that were over may be open again, and windows
   that are open last longer; the history of passages begins anew *)
ClockSetBack ==
    /\ clock > 0 /\ clock' \in 0 .. clock - 1
    /\ setBack' = (config # Down)
    /\ admitted' = Empty(<<>>)
    /\ last' = NoLast
    /\ UNCHANGED <<config, session, buckets, conns, version, sent>>

(* what the server does for a request, once it has come *)
Serve(c) == ReceiveBody(c) \/ TakeEffect(c) \/ Respond(c) \/ RespondFailed(c)

McpNext ==
    \/ \E c \in Conns : Serve(c) \/ ClientLeaves(c)
    \/ \E c \in Conns, call \in Calls : ReceiveLine(c, call) \/ ReceiveHead(c, call)
    \/ \E env \in Environments : StartServer(env)
    \/ StopServer \/ TimePasses \/ ClockSetBack

McpSpec == McpInit /\ [][McpNext]_mcpVars

-----------------------------------------------------------------------------
(* Properties *)

(* The requests, buckets and histories have their shapes. *)
McpTypeOK ==
    /\ clock \in Clock /\ config \in Environments \cup {Down}
    /\ session \in [initialized : BOOLEAN, level : {"warning", "debug", "error"}]
    /\ \A k \in BucketKeys : buckets[k] = NoBucket \/ buckets[k].count \in 1 .. MaxCalls
    /\ \A c \in Conns : conns[c].pc \in {"idle", "receiving", "running"}
    /\ version \in 0 .. sent /\ sent \in 0 .. MaxCalls /\ setBack \in BOOLEAN

(* Every target of the same core function. *)
SameData(message) ==
    {t \in Tools : ToolCore[t] = CoreOf(message)}
    \cup {r \in Routes : ResourceCore[r] = CoreOf(message)}
ScopeOf(target) == IF target \in Tools THEN ToolScope[target] ELSE ResourceScope(target)

(* A request over HTTP that was given data, or that wrote, came with a token that was
   in force when it came, and the token has the scope of every tool and resource that
   leads to the same core function: no second way in asks for less
   (mcp-http.ts: handleRequest; mcp-resources.ts: authorizationScopeForMemprResourceUri).
   A write had its confirmation, and was no notification. *)
ServedWithinScope ==
    LET request == last.request
        message == request.call.body
    IN /\ last.answer \in {"result", "failed", "lost"}
       /\ request.pc = "running"
       => /\ request.call.transport = "http"
             => /\ request.token.token = request.call.bearer
                /\ request.token.expiresAt = Never \/ request.token.expiresAt > request.since
                /\ \A t \in SameData(message) : ScopeOf(t) \in request.token.scopes
          /\ request.wrote => message.id /\ "confirm" \in message.args.given

(* Passages of a key's callers from one instant up to, not including, another. *)
Passages(key, from, to) ==
    {i \in DOMAIN admitted[key] : from <= admitted[key][i] /\ admitted[key][i] < to}

(* The windows of the rate limit are fixed, so the callers whose issuer and subject join
   to one key may pass nearly twice the limit within a window's length, but never twice,
   while the process runs and the wall clock is not set back; what is left of a window
   that the clock was set back in only makes it less.  And nobody is refused, unless the
   clock was set back, when the callers who share the key had not passed the limit
   within the last window's length (mcp-http.ts: rateAllowed). *)
RateIsBounded ==
    config # Down /\ config.transport = "http" /\ config.limit > 0 =>
        /\ \A key \in BucketKeys, t \in Clock :
              Cardinality(Passages(key, t, t + Window)) < 2 * config.limit
        /\ last.answer = "too many" /\ ~setBack =>
              LET key == BucketKey(last.request.token)
              IN Cardinality({i \in DOMAIN admitted[key] :
                                 admitted[key][i] + Window > clock}) >= config.limit

=============================================================================
