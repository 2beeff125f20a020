-------------------------------- MODULE Policy --------------------------------
(***************************************************************************)
(* What becomes of a proposal: the verification of its source, the ladder  *)
(* of the policy, and the review that links ask for.                       *)
(*                                                                         *)
(* A text is a model value; the constants say what the scanner and the     *)
(* patterns find in it and which terms it holds.  A source is one of the   *)
(* types below or the name of a file, and the contents of a file are a     *)
(* sequence of lines, texts among them.                                    *)
(***************************************************************************)
EXTENDS Inputs, Naturals

CONSTANTS
    Finding,   \* what each text holds: "nothing", "secret", "instruction", "sensitive"
    Terms,     \* the terms of each text that a policy may list
    Strong     \* texts with always, never, must, ...

Verdicts == {"verified", "unverified", "failed", "not_applicable"}

PolicyAssumption == Absent \notin Verdicts

ASSUME PolicyAssumption

(* DEFAULT_POLICY_CONFIG *)
DefaultPolicy ==
    [deny |-> {}, sensitive |-> {}, scopes |-> {"repo", "project"},
     defaultRisk |-> "medium", ttlRisk |-> "medium",
     needsTrust |-> TRUE, reviewsUnknown |-> TRUE, needsVerified |-> FALSE]

(* loadPolicyConfig: a field that is left out is the default's, and one that makes no
   sense, or is not known, fails the whole file *)
LoadedPolicy(file) ==
    CASE file = Absent -> DefaultPolicy
      [] file = Malformed -> Malformed
      [] OTHER -> [field \in DOMAIN DefaultPolicy |->
                      IF field \in DOMAIN file THEN file[field] ELSE DefaultPolicy[field]]

-----------------------------------------------------------------------------
(* Sources *)

SourceTypes == {"manual", "url", "conversation", "other"}
IsFile(input) == input.source \notin SourceTypes

(* what the patterns and the terms of a policy are looked for in *)
Texts(input) == {input.memory} \cup ({input.quote} \ {Absent})

(* what is scanned for unsafe content: the texts of the fields that are kept besides,
   from the scope and the destination to the tags and the paths, too *)
Scanned(input) == Texts(input) \cup input.others

(* a line range, a hash or a quote *)
HasEvidence(input) ==
    input.quote # Absent \/ input.hash # Absent \/ input.lines # Absent

RangeFails(lines) ==
    lines # Absent /\ (lines = Malformed \/ lines[1] < 1 \/ lines[2] < lines[1])

(* the lines that a quote is looked for in, all if none are given *)
Excerpt(content, lines) ==
    IF lines = Absent THEN content
    ELSE [i \in DOMAIN content \cap (lines[1] .. lines[2]) |-> content[i]]

Holds(lines, text) == \E i \in DOMAIN lines : lines[i] = text

(* verifyFileSource, where content is Absent if the file cannot be read; the hash of
   contents is the contents *)
VerifyFile(input, content) ==
    IF input.source = Malformed \/ RangeFails(input.lines) THEN "failed"
    ELSE IF content = Absent
    THEN IF input.verify \/ HasEvidence(input) THEN "failed" ELSE "unverified"
    ELSE IF input.quote = Absent /\ input.hash = Absent
    THEN IF input.verify THEN "failed" ELSE "unverified"
    ELSE IF \/ input.hash \notin {Absent, content}
            \/ input.quote # Absent /\ ~Holds(Excerpt(content, input.lines), input.quote)
    THEN "failed" ELSE "verified"

(* verifyMemorySource *)
Verification(input, content) ==
    CASE input.source = "manual" -> "not_applicable"
      [] input.source \in SourceTypes \ {"manual"} -> "unverified"
      [] OTHER -> VerifyFile(input, content)

-----------------------------------------------------------------------------
(* classifyMemory *)

Unsafe(input) == \E text \in Scanned(input) : Finding[text] = "secret"
Finds(input, finding) == \E text \in Texts(input) : Finding[text] = finding
HoldsTerm(input, terms) == \E text \in Texts(input) : Terms[text] \cap terms # {}

AtLeastMedium(risk) == IF risk = "low" THEN "medium" ELSE risk

InferredRisk(input, config) ==
    IF input.scope \in config.scopes THEN "low"
    ELSE IF input.ttl THEN config.ttlRisk ELSE config.defaultRisk

(* an instruction in strong words from a source that is not both trusted and verified,
   and a warning or constraint whose risk nobody gave, are not of low risk *)
RaisesRisk(input, verification) ==
    \/ /\ input.kind = "instruction" /\ \E text \in Texts(input) : text \in Strong
       /\ ~(input.trust = "trusted" /\ verification = "verified")
    \/ input.kind \in {"warning", "constraint"} /\ input.risk = Absent
       /\ input.trust # "trusted"

AssessedRisk(input, verification, config) ==
    LET risk == IF input.risk = Absent THEN InferredRisk(input, config) ELSE input.risk
    IN IF RaisesRisk(input, verification) THEN AtLeastMedium(risk) ELSE risk

(* what is known of the source keeps the proposal from being accepted; before the
   source was looked at, verification is Absent *)
SourceNeedsReview(input, verification) ==
    \/ IsFile(input) /\ verification \notin {Absent, "verified"}
    \/ verification = "failed"
    \/ input.verify /\ verification # "verified"
    \/ HasEvidence(input) /\ verification \notin {"verified", "not_applicable"}

KindNeedsReview(input) ==
    input.kind \in {"instruction", "procedure", "constraint", "warning"}
    /\ input.trust # "trusted"

TrustNeedsReview(input, config) ==
    \/ input.trust = "untrusted"
    \/ input.trust # "trusted" /\ config.needsTrust
    \/ input.trust = "unknown" /\ config.reviewsUnknown

Classify(input, verification, config) ==
    CASE Unsafe(input) -> "block_no_persist"
      [] ~Unsafe(input)
         /\ (Finds(input, "instruction") \/ HoldsTerm(input, config.deny)) -> "reject_audited"
      [] OTHER ->
            IF \/ Finds(input, "sensitive") \/ HoldsTerm(input, config.sensitive)
               \/ SourceNeedsReview(input, verification) \/ KindNeedsReview(input)
               \/ AssessedRisk(input, verification, config) # "low"
               \/ TrustNeedsReview(input, config)
               \/ config.needsVerified /\ verification # "verified"
            THEN "review" ELSE "auto_accept"

Links(input) == input.supersedes \cup input.conflicts

(* reviewLinkedAutoAccept *)
ReviewedIfLinked(decision, input) ==
    IF decision = "auto_accept" /\ Links(input) # {} THEN "review" ELSE decision

Decide(input, verification, config) ==
    ReviewedIfLinked(Classify(input, verification, config), input)

(* statusFromDecision *)
StatusOf(decision) ==
    CASE decision = "auto_accept" -> "accepted"
      [] decision = "reject_audited" -> "rejected"
      [] decision = "review" -> "pending"

=============================================================================
