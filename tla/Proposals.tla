------------------------------ MODULE Proposals ------------------------------
(***************************************************************************)
(* Proposals and the memory file: records are proposed one by one or as a  *)
(* batch of suggestions, previewed, reviewed, exported to a managed block  *)
(* of a Markdown file and guarded there, while users edit that file, the   *)
(* transcript and the policy.                                              *)
(*                                                                         *)
(* A file is a sequence of lines: texts and the two markers of the block.  *)
(* Blank lines, and text on a marker's own line, are left out.  The event  *)
(* and the ledger are one step here; MemprStore takes them apart.          *)
(***************************************************************************)
EXTENDS Policy, SequencesExt

CONSTANTS
    Procs, PolicyFiles,
    Commands,           \* what each process may be asked to do
    Saves,              \* what users may save: <<file, content>>
    MemoryFile, Chat,   \* the memory file, and a transcript
    GitFiles,           \* what a change of each file suggests: <<file, text>>, in order
    Bullet,             \* the memory that a line's bullet holds, or Absent
    Cues,               \* the memories that the cues of a line hold
    Kind,               \* the kind inferred of each memory
    Rendered,           \* the line that an exported memory becomes
    ScopeRank, Grouped, \* whether records are exported by scope, and their order
    Start, End,         \* the markers of the managed block
    Nobody,
    MaxCommands, MaxSaves, MaxReviews

VARIABLES
    policy,     \* .mempr/policy.json
    files,      \* the memory file and the transcript
    ledger,     \* the records
    holder,     \* the process that has the store lock
    work,       \* the command of each process
    outcome,    \* history: how the command did that has just ended
    begun, saves, reviews,  \* how much was begun, saved and reviewed so far
    judged,     \* history: what was decided since the policy or a file last changed
    kept,       \* history: the lines of the memory file that are the users' own
    overlapped  \* history: whether users saved it while an export was at it

proposalVars == <<policy, files, ledger, holder, work, outcome, begun, saves, reviews,
                  judged, kept, overlapped>>

Memories == DOMAIN Rendered
Scopes == DOMAIN ScopeRank
Lines == DOMAIN Bullet          \* the lines of files that are no markers
Markers == {Start, End}
Contents == Seq(Lines \cup Markers)

ProposalsAssumption ==
    /\ \A p \in Procs : \A command \in Commands[p] :
          \/ /\ command.kind \in {"propose", "preview"}
             /\ command.input.memory \in Memories /\ command.input.scope \in Scopes
          \/ /\ command.kind = "suggest"
             /\ command.from \in {"memory file", "transcript", "observation", "git diff"}
             /\ command.from = "observation" => command.line \in Lines
             /\ command.options.scope \in Scopes /\ command.options.limit \in Nat \ {0}
          \/ command.kind \in {"export", "guard"}
    /\ Nobody \notin Procs /\ Absent \in PolicyFiles
    /\ MaxCommands \in Nat /\ MaxSaves \in Nat /\ MaxReviews \in Nat

(* An exported memory is never a line with a marker: markdownJsonScalar leaves no "<". *)
TextAssumption ==
    /\ Start # End /\ Markers \cap Lines = {} /\ Absent \notin Contents
    /\ \A memory \in Memories : Rendered[memory] \in Lines
    /\ \A line \in Lines : /\ Bullet[line] \in Memories \cup {Absent}
                           /\ line \in DOMAIN Cues /\ Cues[line] \in Seq(Memories)
    /\ \A scope \in Scopes : ScopeRank[scope] \in Nat
    /\ GitFiles \in Seq(ToSet(GitFiles))
    /\ \A entry \in ToSet(GitFiles) : entry[2] \in Memories
    /\ MemoryFile # Chat
    /\ \A save \in Saves : /\ save[1] \in {MemoryFile, Chat}
                           /\ save[2] # Absent => save[2] \in Contents
                           /\ save[1] = Chat /\ save[2] # Absent => save[2] \in Seq(Lines)
    /\ \E save \in Saves : save[1] = Chat /\ save[2] # Absent

ASSUME ProposalsAssumption
ASSUME TextAssumption

-----------------------------------------------------------------------------
(* Orders *)

(* the members of a set, each after those that come before it *)
Ordered(set, Before(_, _)) ==
    [k \in 1 .. Cardinality(set) |->
        CHOOSE x \in set : Cardinality({y \in set : Before(y, x)}) = k - 1]

Earlier(i, j) == i < j

-----------------------------------------------------------------------------
(* The managed block *)

Places(content, marker) == {i \in DOMAIN content : content[i] = marker}

WellFormed(content) ==
    \E s, e \in DOMAIN content :
        s < e /\ Places(content, Start) = {s} /\ Places(content, End) = {e}

Position(content, marker) == CHOOSE i \in Places(content, marker) : TRUE

BlockAt(content) == Position(content, Start) .. Position(content, End)

NoBlock(content) == Places(content, Start) \cup Places(content, End) = {}

\* Faulty: what stands below the block is lost.
ReplaceToTheEnd(content, block) ==
    IF NoBlock(content) THEN content \o block
    ELSE IF WellFormed(content)
    THEN SubSeq(content, 1, Position(content, Start) - 1) \o block
    ELSE Malformed

ReplaceManagedBlock(content, block) ==
    IF NoBlock(content) THEN content \o block
    ELSE IF WellFormed(content)
    THEN SubSeq(content, 1, Position(content, Start) - 1) \o block
         \o SubSeq(content, Position(content, End) + 1, Len(content))
    ELSE Malformed

Read(file) == IF files[file] = Absent THEN <<>> ELSE files[file]

AcceptedIds == {i \in DOMAIN ledger : ledger[i].status = "accepted"}

(* in the order of the ledger, or, for the files of coding agents, by scope *)
ExportOrder(i, j) ==
    LET rank(k) == ScopeRank[ledger[k].input.scope]
    IN IF Grouped /\ rank(i) # rank(j) THEN rank(i) < rank(j) ELSE i < j

Block(ids) ==
    LET order == Ordered(ids, ExportOrder)
    IN <<Start>> \o [k \in DOMAIN order |-> Rendered[ledger[order[k]].input.memory]] \o <<End>>

(* accepted records that are linked to one another stop an export *)
ExportBlocked == \E i \in AcceptedIds : Links(ledger[i].input) \cap AcceptedIds # {}

(* the content that an export would write *)
Planned ==
    IF ExportBlocked THEN Malformed
    ELSE ReplaceManagedBlock(Read(MemoryFile), Block(AcceptedIds))

-----------------------------------------------------------------------------
(* Suggestions *)

Candidate(memory, quote, source, options) ==
    [memory |-> memory, quote |-> quote, source |-> source, kind |-> Kind[memory],
     scope |-> options.scope, trust |-> options.trust, risk |-> Absent, ttl |-> FALSE,
     hash |-> Absent, lines |-> Absent, verify |-> FALSE, others |-> options.others,
     supersedes |-> {}, conflicts |-> {}]

(* the bullets of the memory file that are not between a start and the next end *)
ImportCandidates(content, options) ==
    LET managed(i) == \E s \in 1 .. i - 1 : /\ content[s] = Start
                                            /\ \A k \in s .. i : content[k] # End
        open == {i \in DOMAIN content : /\ content[i] \notin {Start, End}
                                        /\ ~managed(i) /\ Bullet[content[i]] # Absent}
        order == Ordered(open, Earlier)
    IN [k \in DOMAIN order |->
           Candidate(Bullet[content[order[k]]], content[order[k]], MemoryFile, options)]

LineCandidates(line, source, options) ==
    [k \in DOMAIN Cues[line] |-> Candidate(Cues[line][k], line, source, options)]

TranscriptCandidates(content, options) ==
    FlattenSeq([i \in DOMAIN content |-> LineCandidates(content[i], Chat, options)])

(* git may not answer in time, and is then taken to know of no change *)
GitCandidates(changed, options) ==
    LET order == Ordered({i \in DOMAIN GitFiles : GitFiles[i][1] \in changed}, Earlier)
        entry(k) == GitFiles[order[k]]
    IN [k \in DOMAIN order |-> Candidate(entry(k)[2], Absent, entry(k)[1], options)]

(* the first candidate of each memory and source *)
Deduplicated(candidates) ==
    LET same(i, j) == /\ candidates[i].memory = candidates[j].memory
                      /\ candidates[i].source = candidates[j].source
        order == Ordered({j \in DOMAIN candidates : \A i \in 1 .. j - 1 : ~same(i, j)},
                         Earlier)
    IN [k \in DOMAIN order |-> candidates[order[k]]]

Limited(candidates, limit) ==
    SubSeq(candidates, 1, IF limit < Len(candidates) THEN limit ELSE Len(candidates))

(* what may be suggested, with the lines it was taken from *)
Suggestions(command) ==
    CASE command.from = "memory file" -> {ImportCandidates(files[MemoryFile], command.options)}
      [] command.from = "transcript" -> {TranscriptCandidates(files[Chat], command.options)}
      [] command.from = "observation" ->
            {LineCandidates(command.line, "conversation", command.options)}
      [] command.from = "git diff" ->
            {GitCandidates(changed, command.options) :
                changed \in SUBSET {GitFiles[i][1] : i \in DOMAIN GitFiles}}

(* a file to import from that cannot be read fails the command *)
SuggestFails(command) ==
    \/ command.from = "memory file" /\ files[MemoryFile] = Absent
    \/ command.from = "transcript" /\ files[Chat] = Absent

-----------------------------------------------------------------------------
(* Commands *)

NoWork == [pc |-> "idle", command |-> Absent, queue |-> <<>>, at |-> 1, config |-> Absent,
           verification |-> Absent, records |-> <<>>, blocked |-> {}, plan |-> <<>>,
           exported |-> {}, source |-> <<>>, steady |-> TRUE, policies |-> {}, contents |-> {}]

NoOutcome == [end |-> "none", work |-> NoWork]

(* what is told of a command that ended *)
Told(job) == [NoWork EXCEPT !.command = job.command, !.queue = job.queue, !.at = job.at,
                            !.records = job.records, !.blocked = job.blocked,
                            !.source = job.source, !.exported = job.exported]

AtRest(p) == work[p].pc = "idle"

(* what the source of a proposal holds, Absent for one that is no readable file *)
SourceContent(input) == IF input.source \in DOMAIN files THEN files[input.source] ELSE Absent

(* a proposal begins: what is in force from now on is noted *)
Taken(job) ==
    [job EXCEPT !.steady = TRUE, !.policies = {policy}, !.config = Absent,
                !.verification = Absent,
                !.contents = {SourceContent(job.queue[job.at])}]

Over(p, job, end) ==
    /\ work' = [work EXCEPT ![p] = NoWork]
    /\ outcome' = [end |-> end, work |-> Told(job)]

Goes(p, job) == work' = [work EXCEPT ![p] = job] /\ outcome' = NoOutcome

(* on to the next proposal of the batch, if there is one *)
NextProposal(p, job) ==
    LET next == [job EXCEPT !.at = @ + 1]
    IN IF next.at > Len(job.queue) THEN Over(p, next, "done")
       ELSE Goes(p, Taken([next EXCEPT !.pc = "proposing"]))

World == <<policy, files, kept, overlapped, saves, reviews>>

Begin(p, command) ==
    LET job == [NoWork EXCEPT !.command = command]
    IN /\ AtRest(p) /\ begun < MaxCommands
       /\ begun' = begun + 1
       /\ CASE command.kind \in {"propose", "preview"} ->
                 Goes(p, Taken([job EXCEPT !.queue = <<command.input>>,
                                           !.pc = IF command.kind = "propose" THEN "proposing"
                                                  ELSE "previewing"]))
            [] command.kind = "suggest" -> Goes(p, [job EXCEPT !.pc = "suggesting"])
            [] command.kind = "export" -> Goes(p, [job EXCEPT !.pc = "waiting"])
            [] command.kind = "guard" -> Goes(p, [job EXCEPT !.pc = "guarding"])
       /\ UNCHANGED <<World, ledger, holder, judged>>

(* suggestions are made first, and proposed after that if that was asked for *)
Suggest(p) ==
    /\ work[p].pc = "suggesting"
    /\ IF SuggestFails(work[p].command) THEN Over(p, work[p], "failed")
       ELSE \E found \in Suggestions(work[p].command) :
               LET job == [work[p] EXCEPT !.queue = Limited(Deduplicated(found),
                                                            work[p].command.options.limit),
                                          !.source = Read(MemoryFile)]
               IN IF job.queue = <<>> \/ ~work[p].command.propose THEN Over(p, job, "done")
                  ELSE Goes(p, Taken([job EXCEPT !.pc = "proposing"]))
    /\ UNCHANGED <<World, ledger, holder, begun, judged>>

Input(p) == work[p].queue[work[p].at]

Judge(p, decision) ==
    judged' = IF work[p].steady
              THEN judged \cup {[input |-> Input(p), decision |-> decision]} ELSE judged

\* Faulty: the place of a blocked proposal is its place among the blocked ones.
BlockByCount(p) ==
    NextProposal(p, [work[p] EXCEPT !.blocked = @ \cup {Cardinality(@) + 1}])

(* a proposal that is blocked is reported, with its place, and leaves nothing *)
BlockProposal(p) == NextProposal(p, [work[p] EXCEPT !.blocked = @ \cup {work[p].at}])

(* the policy is loaded, and what it blocks is not even looked up *)
LoadPolicy(p) ==
    LET config == LoadedPolicy(policy)
    IN /\ work[p].pc = "proposing"
       /\ IF config = Malformed THEN Over(p, work[p], "failed") /\ UNCHANGED judged
          ELSE IF Classify(Input(p), Absent, config) = "block_no_persist"
          THEN BlockProposal(p) /\ Judge(p, "block_no_persist")
          ELSE Goes(p, [work[p] EXCEPT !.pc = "waiting", !.config = config]) /\ UNCHANGED judged
       /\ UNCHANGED <<World, ledger, holder, begun>>

EnterStore(p) ==
    /\ work[p].pc = "waiting" /\ holder = Nobody
    /\ holder' = p
    /\ Goes(p, [work[p] EXCEPT !.pc = IF work[p].command.kind = "export" THEN "planning"
                                      ELSE "verifying"])
    /\ UNCHANGED <<World, ledger, begun, judged>>

LockTimesOut(p) ==
    /\ work[p].pc = "waiting" /\ holder # Nobody
    /\ Over(p, work[p], "failed")
    /\ UNCHANGED <<World, ledger, holder, begun, judged>>

\* Faulty: only looks for what both kinds of links name.
OverlappingReferences(input) == input.supersedes \cap input.conflicts # {}

(* validateProposalReferences *)
BadReferences(input) ==
    input.supersedes \cap input.conflicts # {} \/ ~(Links(input) \subseteq DOMAIN ledger)

(* the records are read, the links looked up, and the source is read *)
VerifySource(p) ==
    /\ work[p].pc = "verifying"
    /\ IF BadReferences(Input(p))
       THEN holder' = Nobody /\ Over(p, work[p], "failed")
       ELSE /\ Goes(p, [work[p] EXCEPT
                          !.pc = "deciding",
                          !.verification = Verification(Input(p), SourceContent(Input(p)))])
            /\ UNCHANGED holder
    /\ UNCHANGED <<World, ledger, begun, judged>>

RecordOf(p, decision) ==
    [input |-> Input(p), status |-> StatusOf(decision), decision |-> decision,
     policies |-> IF decision = "auto_accept" THEN work[p].policies ELSE {},
     contents |-> IF decision = "auto_accept" THEN work[p].contents ELSE {}]

\* Faulty: what was decided before the lock is what counts.
PersistEarlyDecision(p) ==
    LET decision == Decide(Input(p), Absent, work[p].config)
    IN /\ work[p].pc = "deciding"
       /\ ledger' = Append(ledger, RecordOf(p, decision))
       /\ NextProposal(p, [work[p] EXCEPT
                             !.records = Append(@, [at |-> work[p].at, id |-> Len(ledger) + 1])])
       /\ Judge(p, decision)
       /\ holder' = Nobody
       /\ UNCHANGED <<World, begun>>

(* decided again, with the policy from before the lock and the source from within *)
Persist(p) ==
    LET decision == Decide(Input(p), work[p].verification, work[p].config)
    IN /\ work[p].pc = "deciding"
       /\ IF decision = "block_no_persist" THEN BlockProposal(p) /\ UNCHANGED ledger
          ELSE /\ ledger' = Append(ledger, RecordOf(p, decision))
               /\ NextProposal(p, [work[p] EXCEPT
                     !.records = Append(@, [at |-> work[p].at, id |-> Len(ledger) + 1])])
       /\ Judge(p, decision)
       /\ holder' = Nobody
       /\ UNCHANGED <<World, begun>>

(* a preview takes no lock and looks no links up *)
LoadPreviewPolicy(p) ==
    LET config == LoadedPolicy(policy)
    IN /\ work[p].pc = "previewing"
       /\ IF config = Malformed THEN Over(p, work[p], "failed")
          ELSE Goes(p, [work[p] EXCEPT !.pc = "foreseeing", !.config = config])
       /\ UNCHANGED <<World, ledger, holder, begun, judged>>

\* Faulty: leaves the links out.
PreviewUnlinked(p) ==
    LET verification == Verification(Input(p), SourceContent(Input(p)))
    IN /\ work[p].pc = "foreseeing"
       /\ Judge(p, Classify(Input(p), verification, work[p].config))
       /\ Over(p, work[p], "done")
       /\ UNCHANGED <<World, ledger, holder, begun>>

Preview(p) ==
    LET verification == Verification(Input(p), SourceContent(Input(p)))
    IN /\ work[p].pc = "foreseeing"
       /\ Judge(p, Decide(Input(p), verification, work[p].config))
       /\ Over(p, work[p], "done")
       /\ UNCHANGED <<World, ledger, holder, begun>>

PlanExport(p) ==
    /\ work[p].pc = "planning"
    /\ IF Planned = Malformed THEN holder' = Nobody /\ Over(p, work[p], "failed")
       ELSE Goes(p, [work[p] EXCEPT !.pc = "writing", !.plan = Planned]) /\ UNCHANGED holder
    /\ UNCHANGED <<World, ledger, begun, judged>>

(* commands under way may find the new content when they look at their source *)
Noted(file, content) ==
    [p \in Procs |->
        IF work[p].contents # {} /\ Input(p).source = file
        THEN [work[p] EXCEPT !.contents = @ \cup {content}, !.steady = FALSE]
        ELSE [work[p] EXCEPT !.steady = AtRest(p)]]

WriteExport(p) ==
    /\ work[p].pc = "writing"
    /\ files' = [files EXCEPT ![MemoryFile] = work[p].plan]
    /\ work' = [Noted(MemoryFile, work[p].plan) EXCEPT ![p] = NoWork]
    /\ holder' = Nobody /\ judged' = {} /\ outcome' = NoOutcome
    /\ UNCHANGED <<policy, kept, overlapped, saves, reviews, ledger, begun>>

(* a guard plans an export as well, without the lock *)
ReadForGuard(p) ==
    /\ work[p].pc = "guarding"
    /\ IF ExportBlocked THEN Over(p, work[p], "blocked")
       ELSE Goes(p, [work[p] EXCEPT !.pc = "viewing", !.exported = AcceptedIds])
    /\ UNCHANGED <<World, ledger, holder, begun, judged>>

PlanGuard(p) ==
    LET planned == ReplaceManagedBlock(Read(MemoryFile), Block(work[p].exported))
    IN /\ work[p].pc = "viewing"
       /\ IF planned = Malformed THEN Over(p, work[p], "blocked")
          ELSE Goes(p, [work[p] EXCEPT !.pc = "comparing", !.plan = planned])
       /\ UNCHANGED <<World, ledger, holder, begun, judged>>

\* Faulty: only looks whether there is a block.
CompareMarkers(p) ==
    /\ work[p].pc = "comparing"
    /\ Over(p, [work[p] EXCEPT !.source = Read(MemoryFile)],
            IF files[MemoryFile] = Absent THEN "missing"
            ELSE IF WellFormed(files[MemoryFile]) THEN "matches" ELSE "differs")
    /\ UNCHANGED <<World, ledger, holder, begun, judged>>

(* and then reads the file again *)
CompareGuard(p) ==
    /\ work[p].pc = "comparing"
    /\ Over(p, [work[p] EXCEPT !.source = Read(MemoryFile)],
            IF files[MemoryFile] = Absent THEN "missing"
            ELSE IF files[MemoryFile] = work[p].plan THEN "matches" ELSE "differs")
    /\ UNCHANGED <<World, ledger, holder, begun, judged>>

(* a file that cannot be read or written fails the command, which gives back the lock;
   the records of a batch so far stay *)
StepFails(p) ==
    /\ work[p].pc \notin {"idle", "waiting"}
    /\ Over(p, work[p], "failed")
    /\ holder' = IF holder = p THEN Nobody ELSE holder
    /\ UNCHANGED <<World, ledger, begun, judged>>

-----------------------------------------------------------------------------
(* Reviews and users *)

(* as MemprStore has it, in one step *)
ReviewRecord(id, status) ==
    /\ holder = Nobody /\ reviews < MaxReviews
    /\ <<ledger[id].status, status>> \in
          {<<"pending", "accepted">>, <<"pending", "rejected">>, <<"accepted", "rejected">>,
           <<"rejected", "accepted">>, <<"accepted", "retired">>}
    /\ ledger' = [ledger EXCEPT ![id].status = status]
    /\ reviews' = reviews + 1
    /\ outcome' = NoOutcome
    /\ UNCHANGED <<policy, files, kept, overlapped, saves, holder, work, begun, judged>>

(* the lines that are not in a block *)
Outside(content) ==
    IF WellFormed(content)
    THEN SubSeq(content, 1, Position(content, Start) - 1)
         \o SubSeq(content, Position(content, End) + 1, Len(content))
    ELSE content

(* a file or, as content Absent, its loss *)
Save(file, content) ==
    /\ saves < MaxSaves /\ saves' = saves + 1
    /\ content # files[file]
    /\ files' = [files EXCEPT ![file] = content]
    /\ work' = Noted(file, content) /\ judged' = {} /\ outcome' = NoOutcome
    /\ IF file = MemoryFile
       THEN /\ kept' = IF content = Absent THEN <<>> ELSE Outside(content)
            /\ overlapped' = (overlapped \/ \E p \in Procs : work[p].pc = "writing")
       ELSE UNCHANGED <<kept, overlapped>>
    /\ UNCHANGED <<policy, ledger, holder, begun, reviews>>

(* the line of a marker is deleted *)
CutMarker(marker) ==
    /\ files[MemoryFile] # Absent
    /\ \E i \in Places(files[MemoryFile], marker) :
          Save(MemoryFile, RemoveAt(files[MemoryFile], i))

EditPolicy(file) ==
    /\ saves < MaxSaves /\ saves' = saves + 1
    /\ file # policy /\ policy' = file
    /\ work' = [p \in Procs |->
                   [work[p] EXCEPT !.steady = AtRest(p),
                                   !.policies = IF @ = {} THEN {} ELSE @ \cup {file}]]
    /\ judged' = {} /\ outcome' = NoOutcome
    /\ UNCHANGED <<files, kept, overlapped, ledger, holder, begun, reviews>>

ProposalsInit ==
    /\ policy = Absent
    /\ \E save \in Saves : /\ save[1] = MemoryFile /\ save[2] # Absent /\ NoBlock(save[2])
                           /\ files = [f \in {MemoryFile, Chat} |->
                                          IF f = MemoryFile THEN save[2]
                                          ELSE (CHOOSE s \in Saves : s[1] = Chat
                                                                         /\ s[2] # Absent)[2]]
                           /\ kept = save[2]
    /\ ledger = <<>> /\ holder = Nobody
    /\ work = [p \in Procs |-> NoWork] /\ outcome = NoOutcome
    /\ begun = 0 /\ saves = 0 /\ reviews = 0
    /\ judged = {} /\ overlapped = FALSE

CommandStep(p) ==
    \/ Suggest(p) \/ LoadPolicy(p) \/ EnterStore(p) \/ LockTimesOut(p)
    \/ VerifySource(p) \/ Persist(p) \/ LoadPreviewPolicy(p) \/ Preview(p)
    \/ PlanExport(p) \/ WriteExport(p) \/ ReadForGuard(p) \/ PlanGuard(p)
    \/ CompareGuard(p) \/ StepFails(p)

ProposalsNext ==
    \/ \E p \in Procs : CommandStep(p) \/ \E command \in Commands[p] : Begin(p, command)
    \/ \E id \in DOMAIN ledger, status \in {"accepted", "rejected", "retired"} :
          ReviewRecord(id, status)
    \/ \E save \in Saves : Save(save[1], save[2])
    \/ \E marker \in {Start, End} : CutMarker(marker)
    \/ \E file \in PolicyFiles : EditPolicy(file)

ProposalsSpec == ProposalsInit /\ [][ProposalsNext]_proposalVars

-----------------------------------------------------------------------------
(* Properties *)

Statuses == {"pending", "accepted", "rejected", "retired"}

(* The records, the lock and the counters have their shapes. *)
ProposalsTypeOK ==
    /\ policy \in PolicyFiles /\ DOMAIN files = {MemoryFile, Chat}
    /\ \A i \in DOMAIN ledger : /\ ledger[i].status \in Statuses
                                /\ Links(ledger[i].input) \subseteq 1 .. i - 1
    /\ holder \in Procs \cup {Nobody}
    /\ \A p \in Procs : holder = p <=> work[p].pc \in {"verifying", "deciding", "planning",
                                                       "writing"}
    /\ begun \in 0 .. MaxCommands /\ saves \in 0 .. MaxSaves /\ reviews \in 0 .. MaxReviews

(* the evidence that a proposal gives for its source is in a content of it *)
Attested(input, content) ==
    /\ content # Absent
    /\ input.quote = Absent => input.hash # Absent
    /\ input.hash \in {Absent, content}
    /\ input.quote # Absent =>
          \E k \in DOMAIN content :
             /\ content[k] = input.quote
             /\ input.lines = Absent \/ k \in input.lines[1] .. input.lines[2]

Justified(record) ==
    LET input == record.input
    IN /\ Links(input) = {} /\ input.trust # "untrusted"
       /\ input.risk \in {Absent, "low"}
       /\ ~Unsafe(input) /\ ~Finds(input, "instruction") /\ ~Finds(input, "sensitive")
       /\ IsFile(input) => \E content \in record.contents : Attested(input, content)
       /\ input.verify => IsFile(input)
       /\ \E file \in record.policies :
             LET config == LoadedPolicy(file)
             IN /\ config # Malformed
                /\ \A text \in Texts(input) :
                      Terms[text] \cap (config.deny \cup config.sensitive) = {}
                /\ config.needsTrust => input.trust = "trusted"
                /\ config.needsVerified => IsFile(input)

(* A record that was accepted with no review is one that some policy in force while it
   was proposed lets through: no field of it is unsafe, no pattern and no term of the
   policy is in its text or quote, it has no links and no risk but a low one, its source
   is not less trusted than the policy wants, and a file it names held its evidence at
   some time while it was proposed (ledger.ts: proposeMemory, which loads the policy
   before it has the lock and the source after; policy.ts: classifyMemory). *)
AutoAcceptIsJustified ==
    \A i \in DOMAIN ledger : ledger[i].decision = "auto_accept" => Justified(ledger[i])

(* A preview and a proposal of the same memory, and any two proposals of it, come to the
   same decision if neither the policy nor a file changes from the beginning of the first
   to the end of the last, whatever else is proposed, reviewed or linked meanwhile
   (suggest.ts: previewMemoryDiff; ledger.ts: proposeMemory). *)
PreviewPredicts ==
    \A one, other \in judged :
        one.input = other.input => one.decision = other.decision

(* A batch of suggestions that ends well has proposed or blocked each of them once, and
   reports each at its place; one that ends with an error has done so up to the one that
   failed.  What a report calls a record is that record, what it calls blocked left
   nothing, no record in the ledger has an unsafe field, and a batch from the memory file
   never holds what the managed block of a well-formed file shows
   (suggest.ts: proposeSuggestionCandidates, suggestFromExistingMemoryFile). *)
BatchIsAccounted ==
    /\ \A i \in DOMAIN ledger : ~Unsafe(ledger[i].input)
    /\ LET job == outcome.work
           recorded == {job.records[k].at : k \in DOMAIN job.records}
       IN outcome.end \in {"done", "failed"} /\ job.command.kind = "suggest"
          => /\ job.command.propose =>
                   /\ recorded \cup job.blocked = 1 .. job.at - 1
                   /\ outcome.end = "done" => job.at = Len(job.queue) + 1 \/ job.queue = <<>>
             /\ recorded \cap job.blocked = {}
             /\ \A k \in DOMAIN job.records :
                   ledger[job.records[k].id].input = job.queue[job.records[k].at]
             /\ \A i \in job.blocked : Unsafe(job.queue[i])
             /\ job.command.from = "memory file" /\ WellFormed(job.source) =>
                   \A i \in DOMAIN job.queue : \E k \in DOMAIN job.source :
                       job.source[k] = job.queue[i].quote /\ k \notin BlockAt(job.source)

(* However often the file is exported, the lines that are the users' own stay as they
   were saved, in their order, and a file whose markers make no sense is left alone;
   only a save between the read and the write of an export can be lost
   (export-adapters.ts: replaceManagedBlock; ledger-export.ts: exportMarkdown). *)
UserTextIsKept == ~overlapped => Outside(Read(MemoryFile)) = kept

(* A guard that finds a match has seen, at its last look at the file, one managed block
   that shows the records accepted when it looked at the ledger, whatever was exported
   or saved between its two looks (review-workflow.ts: guardExport). *)
GuardSawTheBlock ==
    LET job == outcome.work
    IN outcome.end = "matches" =>
       /\ WellFormed(job.source)
       /\ [k \in 1 .. Cardinality(BlockAt(job.source)) |->
              job.source[Position(job.source, Start) + k - 1]]
          = Block(job.exported)

=============================================================================
