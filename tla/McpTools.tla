------------------------------- MODULE McpTools -------------------------------
(***************************************************************************)
(* The tools and resources of the MCP server: which core function each one *)
(* calls, the authorization scope it is listed with, and the arguments     *)
(* that are refused before the core function runs.                         *)
(*                                                                         *)
(* The arguments of a call are the keys that are given a usable value and  *)
(* the keys that are given another, which for confirm is any but true.  A  *)
(* key that is undefined, or dryRun: false, counts as not given.           *)
(***************************************************************************)
EXTENDS Naturals, FiniteSets

KnownScopes ==
    {"records.read", "records.admin", "consistency.read", "relationships.read",
     "review.read", "review.write", "proposals.write", "export.write", "live.write"}

(* listMcpToolContracts: the scope of each tool; to propose, to read, and to decide
   and publish *)
ProposalToolScope ==
    [propose |-> "proposals.write", suggest |-> "records.read",
     propose_from_observation |-> "proposals.write",
     preview_memory_diff |-> "records.read", request_human_review |-> "review.read"]

RecordToolScope ==
    [list |-> "records.read", inspect |-> "review.read", history |-> "review.read",
     context |-> "records.read", context_status |-> "records.read"]

OtherToolScope ==
    [review |-> "review.write", relationships |-> "relationships.read",
     live_sync |-> "live.write", export_preview |-> "records.read",
     export |-> "export.write", check |-> "consistency.read"]

Tools == DOMAIN ProposalToolScope \cup DOMAIN RecordToolScope \cup DOMAIN OtherToolScope

ToolScope ==
    [tool \in Tools |->
        CASE tool \in DOMAIN ProposalToolScope -> ProposalToolScope[tool]
          [] tool \in DOMAIN RecordToolScope -> RecordToolScope[tool]
          [] tool \in DOMAIN OtherToolScope -> OtherToolScope[tool]]

(* what handleToolCall calls for each tool *)
ToolCore ==
    [list |-> "listRecords", context |-> "assembleReadContext",
     context_status |-> "summarizeReadContextStatus",
     export_preview |-> "previewMarkdownExport",
     suggest |-> "suggest", preview_memory_diff |-> "previewMemoryDiff",
     inspect |-> "getReviewContext", history |-> "getRecordHistory",
     request_human_review |-> "getReviewContext",
     relationships |-> "analyzeRelationshipGraph", check |-> "checkLedgerConsistency",
     propose |-> "proposeMemory",
     propose_from_observation |-> "proposeSuggestionCandidates",
     review |-> "updateRecordStatus", export |-> "exportMarkdown",
     live_sync |-> "syncLiveAdapter"]

(* parseMemprUri: the resources that a URI can be routed to *)
Routes == {"records", "record", "record_review", "record_history", "status",
           "contexts", "context_resource", "policy"}

\* Faulty: a timeline is read with the scope of a record.
HistoryIsRecord(route) ==
    CASE route = "policy" -> "records.admin"
      [] route = "record_review" -> "review.read"
      [] route = "status" -> "consistency.read"
      [] OTHER -> "records.read"

(* authorizationScopeForMemprResourceUri *)
ResourceScope(route) ==
    CASE route = "policy" -> "records.admin"
      [] route \in {"record_review", "record_history"} -> "review.read"
      [] route = "status" -> "consistency.read"
      [] OTHER -> "records.read"

(* readMemprResource *)
ResourceCore ==
    [records |-> "listRecords", record |-> "getRecord",
     record_review |-> "getReviewContext", record_history |-> "getRecordHistory",
     status |-> "checkLedgerConsistency", contexts |-> "summarizeReadContextStatus",
     context_resource |-> "assembleReadContext", policy |-> "loadPolicyConfig"]

Writes == {"proposeMemory", "proposeSuggestionCandidates", "updateRecordStatus",
           "exportMarkdown", "syncLiveAdapter"}

-----------------------------------------------------------------------------
(* Arguments *)

Keys(args) == args.given \cup args.bad

ReadAccessKeys == {"auth", "readAccess"}

(* readAccess stands before auth; the one that does not count is not looked at *)
BadReadAccess(args) ==
    IF "readAccess" \in Keys(args) THEN "readAccess" \in args.bad ELSE "auth" \in args.bad

(* unsupported or unusable keys *)
Misused(args, allowed) ==
    ~(Keys(args) \subseteq allowed) \/ args.bad \ ReadAccessKeys # {}

Confirmed(args) == "confirm" \in args.given

SourceKeys == {"source", "sourceType", "sourceTrust", "quote", "verifySource",
               "sourceLineStart", "sourceLineEnd", "sourceHash", "gitCommit"}
MemoryKeys == {"memory", "kind", "tags", "confidence", "scope", "risk", "destination",
               "ttl", "supersedes", "conflictsWith"}
ProposeKeys == SourceKeys \cup MemoryKeys
               \cup {"retentionClass", "priority", "appliesToPaths", "confirm"}
PreviewKeys == SourceKeys \cup MemoryKeys \cup ReadAccessKeys

(* a line range has both its ends *)
HalfRange(args) == ("sourceLineStart" \in args.given) # ("sourceLineEnd" \in args.given)

RefusesPropose(args) ==
    \/ ~Confirmed(args) \/ Misused(args, ProposeKeys)
    \/ "memory" \notin args.given \/ HalfRange(args)

RefusesReview(args) ==
    \/ ~Confirmed(args)
    \/ Misused(args, {"id", "decision", "reason", "reviewer", "retireSuperseded",
                      "overrideRelationships", "confirm"})
    \/ ~({"id", "decision", "reason"} \subseteq args.given)

(* a sync that is not a dry run has to be confirmed *)
RefusesSync(args) ==
    \/ Misused([args EXCEPT !.bad = @ \ {"confirm"}],
               {"adapter", "destination", "dryRun", "maxRetries", "confirm"})
    \/ "dryRun" \notin args.given /\ ~Confirmed(args)

RefusesExport(args) ==
    ~Confirmed(args) \/ Misused(args, {"destination", "confirm"})

SuggestionSources == {"fromTranscript", "fromGitDiff", "fromMemoryFile", "observation"}
SuggestOptions == {"destination", "scope", "sourceTrust", "limit"}

(* exactly one source; read access may be given and is not used *)
RefusesSuggest(args) ==
    \/ Misused(args, SuggestionSources \cup SuggestOptions \cup ReadAccessKeys)
    \/ Cardinality(SuggestionSources \cap args.given) # 1

RefusesObservation(args) ==
    \/ ~Confirmed(args) \/ Misused(args, SuggestOptions \cup {"observation", "confirm"})
    \/ "observation" \notin args.given

RefusesPreviewDiff(args) ==
    Misused(args, PreviewKeys) \/ "memory" \notin args.given \/ HalfRange(args)

RefusesHumanReview(args) ==
    Misused(args, {"id"} \cup ReadAccessKeys) \/ "id" \notin args.given

(* the id may only come alone, though read access is a supported argument *)
RefusesById(args) == Keys(args) # {"id"} \/ args.bad # {}

RefusesList(args) ==
    \/ Misused(args, {"status", "risk", "destination", "reviewOnly"} \cup ReadAccessKeys)
    \/ BadReadAccess(args)

RefusesContext(args) ==
    \/ Misused(args, {"destination", "scope", "scopes", "readPermission"} \cup ReadAccessKeys)
    \/ BadReadAccess(args)

RefusesOtherRead(tool, args) ==
    \/ Misused(args, ReadAccessKeys \cup
               CASE tool = "check" -> {}
                 [] tool = "relationships" -> {"id"}
                 [] OTHER -> {"destination"})
    \/ BadReadAccess(args)

(* the call is answered with an error of the tool before its core function is called *)
Refuses(tool, args) ==
    CASE tool = "propose" -> RefusesPropose(args)
      [] tool = "propose_from_observation" -> RefusesObservation(args)
      [] tool = "review" -> RefusesReview(args)
      [] tool = "live_sync" -> RefusesSync(args)
      [] tool = "export" -> RefusesExport(args)
      [] tool = "suggest" -> RefusesSuggest(args)
      [] tool = "preview_memory_diff" -> RefusesPreviewDiff(args)
      [] tool = "request_human_review" -> RefusesHumanReview(args)
      [] tool \in {"inspect", "history"} -> RefusesById(args)
      [] tool = "list" -> RefusesList(args)
      [] tool = "context" -> RefusesContext(args)
      [] OTHER -> RefusesOtherRead(tool, args)

=============================================================================
