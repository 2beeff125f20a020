# A verification of MemPR

MemPR keeps an AI agent's long-term memory as reviewed records in a repository. A
record is proposed, classified by a policy, reviewed by a person, and exported to
Markdown files or a live memory service. All its state is a handful of files in
`.mempr/`, and any number of short `mempr` commands and long-running MCP servers
work on them at the same time, with one advisory lock file between them. There is
no database and no daemon.

The TLA+ modules here model that: what the commands do to the files, step by step,
what interleavings, crashes and failed writes make of it, and what still holds. TLC
checks the modules on small instances, TLAPS proves the central invariants for
every size. Paths below are relative to `src/src/`.

## The system

| Component | State | Operations | Interacts with |
|---|---|---|---|
| Store files (`storage.ts`, `store-paths.ts`, `ledger-store.ts`) | `.mempr/ledger.jsonl`, `events.jsonl`, `store.lock` | lock with a 5 s deadline, append, temp file + rename, size limit of 10 MiB | everything that mutates |
| Ledger (`ledger.ts`, `ledger-records.ts`) | the records, their statuses | propose, accept, reject, retire, list, get | events, policy, provenance |
| Events (`events.ts`) | the hash-chained history | append, read, verify, replay | ledger, repair, history |
| Relationships (`relationships.ts`, `relationship-review.ts`) | `supersedes` and `conflicts_with` links | accept with retirement or override, graph and cycle analysis | ledger, export gate |
| Export (`ledger-export.ts`, `export-adapters.ts`, `read-context-issues.ts`) | managed block of each destination | gate, replace block, log event | ledger, destination files |
| Check and repair (`ledger-consistency.ts`) | none | compare ledger with replay, rewrite ledger from it | ledger, events |
| Migration (`migration*.ts`) | none | backfill events for a ledger written before there were any | ledger, events |
| Live sync (`live-adapter-*.ts`) | events, remote service | plan, push with retries and idempotency keys, log outcomes | ledger, events, network |
| Policy (`policy.ts`, `policy-config.ts`, `memory-model.ts`, `ttl.ts`, `scanner.ts`) | `policy.json` | classify a proposal; expiry | ledger |
| Provenance (`provenance.ts`) | none | verify a quote, a hash or a line range in its source | ledger, files of the repository |
| Read access (`read-policy.ts`, `identity.ts`, `read-permission-*.ts`) | `principals.json`, `read-policy.json` | authenticate, allow or deny a read | every read surface |
| Read context (`read-context.ts`, `review-workflow.ts`, `ledger-history.ts`) | none | assemble accepted records; review summaries; timelines | ledger, read access |
| MCP servers (`mcp-server.ts`, `mcp-http.ts`, `mcp-*.ts`) | session, rate buckets, requests in hand | stdio loop, HTTP pipeline, tools with confirmation | all of the above |
| Suggest (`suggest.ts`, `suggest-candidate-helpers.ts`) | none | candidates from the memory file, a transcript, an observation or a git diff; preview; propose them as a batch | policy, ledger |
| Diagnostics, CLI parsing and rendering | `diagnostics.jsonl` | support bundle; command line | all of the above |

What is hard in it:

- **two files, no transaction.** Every mutation appends one or more events and then
  replaces the ledger. A crash, a failed write or the size limit can fall between
  any two of these steps.
- **a lock file that survives its owner.** A dead process leaves `store.lock`; other
  commands time out and a person removes it.
- **reads outside the lock.** Check, repair's comparison, migration's planning, the
  reading surfaces and live sync's plan read one file and then another while
  mutations go on.
- **derived state.** The ledger is a view of the history, a destination is a view of
  the ledger, a remote service is a view of the destination; each lags in its way.
- **review rules over links** that look at one record's own links only.
- **files replaced between a reader's steps.** A read takes the read policy, then the
  principals, then the ledger, then the events, each as it is at that moment.
- **a decision made of two moments.** A proposal loads the policy before it has the lock
  and reads its source while it has it; users and other commands change both.
- **a batch without a transaction.** Suggestions are proposed one by one, and what was
  recorded before one fails stays.
- **requests side by side.** The server answers several at once, a client may leave in
  the middle of a write, and the rate limit counts in fixed windows.

## Modules

| Module | Models | State and actions |
|---|---|---|
| `MemoryRecords` | records, events, the replay of a history, the rules of review | operators |
| `MemprStore` | store files, lock, ledger, events, relationship acceptance, export, repair | on top of `MemoryRecords`; below |
| `AbstractLedger` | what the store promises about its files | on top of `MemoryRecords`; implemented by `MemprStore` |
| `StoreLock` | `withStoreLock`, one file operation at a time | below |
| `AbstractLock` | what the lock promises | implemented by `StoreLock`, used by `MemprStore` |
| `LiveSync` | `mempr sync-live`, the remote service, the network | below |
| `LedgerMigration` | `mempr migrate` on a legacy ledger, beside the other commands | below |
| `Relationships` | the search for supersession cycles, and the acceptance that rests on it | below |
| `ReadSurfaces` | the reading surfaces, the read policy, signed requests, expiry, timelines, beside writers | below |
| `Policy` | the policy's decision and the verification of a source | operators |
| `Proposals` | propose, preview, suggest, export to a Markdown file, guard; users who edit files | on top of `Policy`; below |
| `McpTools` | tools and resources: core function, scope, refused arguments | operators |
| `McpServer` | the HTTP pipeline, the stdio loop, requests side by side, the rate limit | on top of `McpTools`; below |
| `Inputs` | the two values a field may have instead of a proper one | constants |
| `MCMemprStore`, `MCStoreLock`, `MCLiveSync`, `MCLedgerMigration`, `MCRelationships`, `MCReadSurfaces`, `MCServing` | the instances TLC checks; `MCServing` has `McpServer` and `Proposals` in one run | |
| `MemprStore_proofs`, `StoreLock_proofs`, `LiveSync_proofs`, `LedgerMigration_proofs`, `Relationships_proofs`, `ReadSurfaces_proofs`, `McpServer_proofs`, `Proposals_proofs` | the theorems about each | |

The store is cut along its lock. `StoreLock` opens the lock itself and shows that it is
`AbstractLock`; `MemprStore` shows that its commands use it as that, and that their single
writes to files amount to `AbstractLedger`. `MemprStore`,
`LiveSync` and `LedgerMigration` take the lock in one step and open what happens inside
and outside it; `Relationships` opens one computation inside it. `MemprStore` knows records as functions and
links, `LedgerMigration` knows the ledger as lines in order, because migration compares
orders and meets duplicate ids; `LiveSync` needs only statuses and versions.

`ReadSurfaces` and `Proposals` look at the same store from the two sides that do not mind
the lock. A reader sees event and ledger as the two writes they are; to a proposal they
are one step, since all of it happens under the lock and `MemprStore` takes it apart. The
export of `MemprStore` is a set of published records, that of `Proposals` the lines of the
file it writes. `McpServer` calls the core functions that the others model, and counts
their writes only.

### MemprStore

`ledger` is `ledger.jsonl` as a function from record id to its status and its version
(`updated_at`, a logical time that each change takes from the length of the log; the
record's text, reason and reviewer change only with it). `log` is `events.jsonl`;
`tail` says whether its last line is whole, whole but without a newline, or broken.
`lock` names the owner in `store.lock`; `Stale` is a file whose owner is gone.
`published` is the set of records in each destination's managed block.

A process takes one command at a time through `pc`:

    idle -> waiting -> locked -> appending ... -> writing -> releasing -> idle
    idle -> reading -> comparing -> waiting -> writing ...          (repair)

| Action | Code |
|---|---|
| `Acquire`, `TimeOut`, `Release` | `acquireStoreLock`, `releaseStoreLock`, the `finally` of `withStoreLock` |
| `Propose` | `proposeMemory`: links checked against the ledger, status from the decision |
| `UpdateStatus` | `updateRecordStatus`: one event, two when it retires |
| `AcceptWithRelationships` | `acceptMemoryWithRelationships`: an event per changed record, then the resolution |
| `Publish` | `exportMarkdown`: gate, replace the block, then one event and no ledger write |
| `Refuse` | any of these throwing before its first change |
| `AppendEvent`, `AppendRefused` | `appendEvent`: reads the whole history first, so it fails when that is too large or ends in a broken line |
| `WriteLedger` | `writeRecords` |
| `RepairReadsEvents`, `RepairFails`, `RepairConfirmed`, `RepairReports` | `repairLedgerFromEvents`, whose reads and comparison come before the lock |
| `Crash`, `WriteFails`, `ReleaseFails`, `AppendTorn` | a process that dies, a write that fails, an append that is cut short |
| `RemoveStaleLock` | the person who follows the time-out's advice |

What is abstracted: a record's text and metadata; the hash chain (it changes only
with the lines themselves, and a broken line stands for what it detects); the
content checks (`Refuse` may take any command that has the lock); the order of
records in the ledger (`Orders` allows any order of the retirement events, where the
code uses the ledger's). The temp file of an atomic write is not state: the rename
either happens (`WriteLedger`) or does not (`WriteFails`, `Crash`). The cycle check of
an acceptance is left out because `LinksPointBack`, proved, says that links of
proposed records form no cycle. The module starts from an empty store; what the cycle
check does with links that a migration took over unchecked is the subject of
`Relationships`.
A stale lock is removed only when its owner is gone.

Properties:

- `NoRecordRollsBack`: no lost update. `UsesAbstractLock`: whatever dies or fails inside,
  the lock is taken and given back as `AbstractLock` allows.
- `LedgerIsLogged`: the ledger is never ahead of the history, under every fault.
- `NoSilentDrift`: unless a command was stopped midway, the ledger is the replay.
- `PublishedIsAudited`: each block is what its last export event says, whatever crashes,
  fails or is torn. Not so while an export of it is under way, and not after one that
  stopped between the block and its event, until the next event for it: the code replaces
  first and logs second, and the history variable `unlogged` keeps such destinations apart.
- `LifecycleIsOneWay`: retirement is final, nothing returns to pending, late writes
  and repairs included.
- `LinksPointBack`: links lead to older records. That no block shows two linked records,
  although the ledger may hold both as accepted, is a part of `ImplementsLedger` (`Show`).
- `CommandsTerminate`, `LockIsReleased`.
- `ImplementsLedger`: the files change as an abstract ledger does; see below.
- `RepairRestoresReplay`, `DriftIsRepairable`: what the documents promise of repair. The
  first holds of a repair that runs alone, as a part of `ImplementsLedger` (`Recover`).

`AbstractLedger` has no processes, no lock and no single writes. It has the records, the
history, the managed blocks, and what of records and history a stop would leave
(`durable`). Its steps are those a user may think in:

| Step | What it allows | Steps of `MemprStore` |
|---|---|---|
| `Change` | a proposal, a review or an acceptance as a whole: lawful by the rules of review, told in full by its events (`Tells`), each retired peer and each one that stays accounted for (`Accepted`) | the first `AppendEvent` of the command |
| `Show` | a block gets the accepted records of its destination, none of them linked, and the history says so | `Publish` |
| `Persist` | more of the last command is durable: its events in order, its records once they all are | every later `AppendEvent`, `WriteLedger` |
| `Stop` | the last command is cut off: records and history are what is durable | `Crash`, `WriteFails`, `AppendRefused`, `AppendTorn` after the first change |
| `StopAtFirst` | a command is cut off after its first event | `AppendTorn` at the first event, when the line is there without its newline |
| `Recover` | the records become the replay of the history | `WriteLedger` of a repair |

All other steps are none to it: whatever happens before a command's first durable change,
and all that the lock is about. The mapping reads the future of the command in flight
out of its process: `View` is the ledger it will write, `Told` is the history with the
events it has still to append. An export is in flight from the replacement of its block
to its event. So a command takes effect with its first durable change, and
`Lawful` is about the whole of it, however many steps it takes, and about the ledger it
was decided on: with another command in between, or an event that differs from what is
written, there is no step of the abstract ledger to map to.

### StoreLock

`file` is whose file the path `store.lock` names: a process's, nobody's, or that of an
owner that is gone (`Orphan`). Every step of `pc` is one file operation:

    looking -> creating -> checking -> naming -> inside -> releasing -> removing

| Action | Code |
|---|---|
| `Look`, `Create` | the `lstat` and the exclusive `open` of `safeCreateStoreLockFile`; either may find a file and lead to `Retry`, the loop of `acquireStoreLock` up to its deadline |
| `Check`, `NameOwner`, `CreateFails`, `Undo` | the check of the open file, the write of the owner, and the removal after an error, which only happens once the file was created |
| `Leave`, `ReadOwner`, `Remove`, `ReleaseFails` | `releaseStoreLock`: read the owner, then remove the path |
| `Crash`, `RemoveByHand` | a process that dies; a person who follows the time-out's advice, "If no MemPR process is running, remove" |

The operation inside the lock is abstracted to one step that ends. A lock removed by
hand while a process runs, against the advice, is not modelled: nothing is promised
then, as owner check and removal are two steps.

Properties: `ImplementsAbstractLock` (a refinement, with the processes inside and the
orphaned file as the abstract state), `RemovesOwnFileOnly` over all error paths, and
`AttemptsEnd`.

### LiveSync

`ledger` has the status and version of each record, `logged` the outcomes in the
`memory_live_synced` events, `net` the requests under way, `applied` the versions the
service has ever stored, `remote` what it shows. A process keeps its `planned` versions,
those it has read as synced (`known`), its `outcomes`, and the request it waits for.

    gating -> reading -> recalling -> pushing <-> awaiting, ... -> logging -> idle

| Action | Code |
|---|---|
| `Gate`, `Blocked` | `assembleReadContext` and its issues |
| `ReadRecords`, `Recall`, `ReportPlan` | `syncLiveAdapter`: accepted records, then `readSuccessfulSyncs`; a dry run ends there |
| `Skip`, `MissCredentials`, `Push` | the loop over the operations |
| `Unavailable`, `Succeed`, `GiveUp` | `applyWithRetries` and the errors of `live-adapter-network.ts`: only an answer of the 500s is tried again |
| `AppendLiveSyncEvent`, `AppendFails` | one event at the end, under the lock |
| `Store`, `Lose` | the service, by what the code relies on: a known idempotency key changes nothing |
| `ReviewRecord`, `Crash` | `updateRecordStatus` by others; a process that dies |

Abstracted: payloads, the order of the operations, one adapter and one destination, the
lock around the last append (it is one step, and every other command leaves the events
it wrote alone). A time-out leaves its request under way, so it may arrive after
anything that follows.

Properties: `SyncedIsDelivered`, `RepeatPushesNothing`, `CleanSyncIsCurrent` and
`SyncsEnd`. `settled` and `undisturbed` are history variables of the last three: they
change nothing the code does. A sync is undisturbed if, when it starts, no other runs, no
request is under way and the service shows the newest version it was sent
(`NewestShown`). The last is needed: a request that timed out may arrive after a newer
version and take its place, and since the history says that the newer one was delivered,
no later sync repairs it. This is a hazard of the code that nothing here excludes, and
the two syncs of the run do not meet it.

### LedgerMigration

`ledger` is a sequence of lines, `log` the events with the records they carry, and
`Replay` the fold of `replayEvents` over them. Lines have a `form`: one that only
`readRecords` takes stops a migration. A command reads under the lock (`Enter`), and
then appends its events (`todo`) and replaces the ledger (`next`) one file change at a
time.

| Action | Code |
|---|---|
| `MigrateLooks`, `MigrateChecks`, `MigrateDryRun` | `assessExistingHistory` before the lock |
| `Migrate` | the second look inside the lock, `readLegacyLedger`, one `ledger_migrated` event |
| `Propose`, `Review`, `Export` | the mutations, which never ask whether the store was migrated |
| `CheckReadsLedger`, `CheckReadsEvents` | `checkLedgerConsistency`: ledger, then history, no lock |
| `RepairReadsEvents`, `RepairConfirmed`, `RepairReports`, `RepairWrites` | `repairLedgerFromEvents` |
| `AppendEvent`, `WriteLedger`, `Release`, `Refuse`, `TimeOut`, `Crash`, `WriteFails`, `RemoveStaleLock` | as in `MemprStore` |

`Guided` keeps repair to a store that has a history and to itself, as the migration guide
and `store_repair_race` ask; it restricts no other command. Links, the size limit and
torn lines are left to `MemprStore`.

Properties: `MigratedOnce`, `ParityAfterMigration`, `CleanVerdictWasTrue`, and
`LegacyRecordKept`, which fails.

### Relationships

The ledger and the links are any that can be on disk, and do not change: the search runs
inside the store lock on what was read there. `stack` is the recursion of `visit`,
`pending` the rest of each loop over `supersedes`, `visited` the set of that name;
membership of `stack` is the set `visiting`.

| Action | Code |
|---|---|
| `Deny`, `Search` | `resolveRelationshipAcceptance` up to its two questions about flags |
| `Visit` | the loop over the records at the end of `detectSupersessionCycles` |
| `Follow`, `Leave` | a link followed, to a visit under way (`pushCycle`), to one that is over, or to a new one; the end of `visit` |
| `Accept`, `RefuseCycle` | the cycles filtered for the candidate, and the refusal without an override |

Abstracted: the order of the ledger and of each record's links, which are any; a cycle
is its set of links, which is what `canonicalCycleKey` makes of its list; the status and
destination of a record is whether it is among the accepted `peers` of the candidate;
the evidence and the events of an acceptance are in `MemprStore`. References to records
that do not exist are followed nowhere, as in the code, and the report of them is left
out, as is the depth of the recursion.

The search is not complete: with the links a-b, a-c, c-b and b-a, followed in this order,
b is over when c is visited, and the cycle a-c-b is never reported. What it does promise is
`FindsCyclesIfAny`, that an empty report means no cycle, and `ReportsSimpleCycles`. The
acceptance needs more than that, a report of the cycles through its candidate, and does
not get it from the search. `NoAcceptedCycleUnasked` holds all the same, because the
question about accepted superseded records comes first: without an override the only link
from the candidate to an accepted record that stays accepted leads to itself, and
such a link is always reported. The mutant that drops that question breaks it.

### ReadSurfaces

`policy` and `principals` are `read-policy.json` and `principals.json`; a file may be
absent or malformed. `ledger` and `log` are as much of the store as answers depend on, and
`unwritten` is the record whose event is in the history and whose ledger is not yet
written, with a second event to come before that if it is retired (`resolving`). `now` is the wall clock, which may be set back. A reader keeps its request, the
rules it has loaded and the answer it is making:

    idle -> authorizing -> verifying -> reading -> idle          (most surfaces)
                                     -> reading -> recalling -> idle   (a timeline)

| Action | Code |
|---|---|
| `Ask` | the entry of a surface; `read_context` checks its constraint (`read-permission-*.ts`) before it reads anything |
| `LoadReadPolicy`, `Authorize` | `evaluateReadAccess`: the policy, then the principals and the signature, then the rules that were loaded |
| `ReadLedger` | `listRecords`, `getRecord`, `assembleReadContext`, `summarizeReadContextStatus`, `previewMarkdownExport`, `getReviewContext`, `analyzeRelationshipGraph` on one read of the ledger |
| `ReadHistoryRecord`, `ReadTimeline` | `getRecordHistory`: ledger, then events |
| `ReadFails` | a file that cannot be read: an error, a blocked context, or a timeline with an issue |
| `AppendEvent`, `AppendResolution`, `AppendReport`, `WriteLedger`, `WriterDies` | the commands beside the reader, as `MemprStore` has them: the event of a record, the resolution of a retired one, and the ledger, each by itself |
| `EditReadPolicy`, `EditPrincipals`, `Tick`, `SetClockBack` | the rest of the world |

Abstracted: the text of records; the scanner (`Content` says what it finds in each); the
cryptography of signatures (a signature is the request it was made over). `inForce`, the
policies and stores since a read began, and `setBack` are history variables.

Properties: `ContentWasAllowed`, `ContextIsClean` and `TimelineCoversRecord`. The first
says "at some time while the read ran", and of each file by itself, because that is all
that two reads without a lock can give. The tools `inspect` and `history` refuse every
argument beside the id although their contract lists `readAccess`, and
`request_human_review` takes one and does not pass it on: with a read policy in place
these three deny every request. The resources of the same records take it. `suggest`
takes one too and asks no policy, as it reads no records.

### Policy and Proposals

`Policy` has the ladder of `classifyMemory`, the risk it assesses, the review that links
ask for, and `verifyMemorySource`. Patterns and terms are looked for in the memory and its
quote (`Texts`); unsafe content is, besides, in every other field that would be kept, from
the destination to the tags (`Scanned`, whose `others` are the texts of those fields). What scanner and patterns find in a text, and which of a
policy's terms are in it, are constants. A quote is one line of its source.

In `Proposals`, `files` are the memory file and a transcript as sequences of lines, with
the two markers of the managed block; `ledger` the records in order; `holder` the process
that has the lock. A command is in `work`, with the batch it proposes, the `policies` and
`contents` that were in force since its present proposal began, and what it will report:

    suggesting -> proposing -> waiting -> verifying -> deciding -> (next) | idle
    previewing -> foreseeing -> idle
    waiting -> planning -> writing -> idle                    (export)
    guarding -> viewing -> comparing -> idle                  (guard)

| Action | Code |
|---|---|
| `Begin` | the start of a command or of the core function behind a tool |
| `Suggest` | the four sources of `suggest.ts`, duplicates and limit |
| `LoadPolicy` | `proposeMemory` up to the lock: the policy, and what it blocks at once |
| `EnterStore`, `LockTimesOut` | `withStoreLock` |
| `VerifySource`, `Persist` | the references, the source, the second decision, the record |
| `LoadPreviewPolicy`, `Preview` | `previewMemoryDiff`, with no lock and no look at links |
| `PlanExport`, `WriteExport` | `exportMarkdown`: gate and `replaceManagedBlock`, then the file |
| `ReadForGuard`, `PlanGuard`, `CompareGuard` | `guardExport`: ledger, file, and the file once more |
| `StepFails` | any read or write that fails |
| `ReviewRecord` | reviews by others, as in `MemprStore` |
| `Save`, `CutMarker`, `EditPolicy` | users |

Text on the line of a marker and blank lines are left out. A memory that is exported becomes
a line without "<" (`markdownJsonScalar` in `export-adapters.ts` escapes it), so never a
marker. The reason a candidate gives
for itself is left out too, and with it that one from a `package.json` is said to come
from the diff though it is made of the scripts as they are now.

Properties: `AutoAcceptIsJustified` puts the two moments of a decision together;
`PreviewPredicts` compares decisions over the interleavings of `judged`, and only as long
as no policy and no file changes; `BatchIsAccounted`, `UserTextIsKept` and
`GuardSawTheBlock` are about what a report says, what an export leaves and what a guard
has seen. A batch that failed is not undone, so to repeat it duplicates its
earlier records; the code promises nothing else. `judged`, `kept`, `overlapped`, `outcome`
and the `policies` and `contents` of `work` are history variables.

### McpServer and McpTools

`McpTools` is the table of tools and resources: the core function behind each, its scope,
and what arguments it refuses. In `McpServer`, `config` is what the process was started
with, `session` the state of one `MemprMcpServer`, which all connections share, `buckets`
the rate windows, and `conns` the request each connection has in hand:

    idle -> receiving -> running -> idle

| Action | Code |
|---|---|
| `StartServer`, `StopServer` | `loadConfig`, which may refuse; the end of the process, which forgets all but the store |
| `ReceiveHead` | `handleRequest` up to its body: host, origin, path, token, rate, method |
| `ReceiveBody` | size, form, scopes of the token, `handleMessage` |
| `ReceiveLine` | one line of `runMcpStdio`, which asks for no token |
| `TakeEffect`, `Respond`, `RespondFailed` | the core function, which takes its time; a blocked sync and a batch of which nothing is recorded are a success with no effect (`MayWriteNothing`) |
| `ClientLeaves` | a connection that closes; a core function goes on |
| `TimePasses`, `ClockSetBack` | the wall clock of expiries and windows (`Date.now()`) |

What core functions do is counted (`version`); the other modules say what it is. A tool
that looks at more than its arguments before it answers (an export preview refuses a
destination without a complete managed block) is in `RespondFailed`.

A token's calls are counted under its issuer and subject joined by a colon, or `local` and
the subject if it has no issuer. `BucketKey` keeps that join: texts are sequences of the
parts between colons, so that different callers may have one key, as the two tokens of
`serving` do.

Properties: `ServedWithinScope` compares all the ways to the same data; `RateIsBounded` is
what fixed windows give, nearly twice the limit for the callers of one key together, and no
refusal unless they had passed the limit. It counts passages since the clock was last set
back, as that may open a window anew; a window that is open then lasts longer than its length, so
nothing is said of refusals until the server is started again. Of an answer nothing is
claimed: it is what the core function returned, a success may have written nothing, and a
lost answer says nothing of what was done. Two lines of standard input that are sent
together run side by side, so nothing is said of their order.

## Runs

| Run | Question | Bounds |
|---|---|---|
| `store_race` | does the lock protect ledger and history from each other's commands, and where do links lead? | two processes, three records in two destinations, one supersedes another from the other destination, a third conflicts with it; five commands of every kind but repair |
| `store_faults` | are the files an abstract ledger, with a fault at any step, does a block show what the history says, and does repair, run alone, restore the replay? | two processes, two records, four commands with repair, two crashes, failed or torn writes, a history readable up to four events |
| `store_liveness` | does every command end and give the lock back? | two processes, four commands, one fault, a history readable up to two events |
| `store_repair_race` | does repair restore the replay beside other commands? | fails: see below |
| `store_retry` | can a drift always be repaired? | fails: see below |
| `lock` | is the lock file, step by step, a lock, and does every attempt end? | three processes, one retry, two removals by hand, any number of crashes and failures |
| `live_sync` | what may the history call synced, is work repeated, is a clean sync current, does each end? | two processes, two records (one may supersede the other), two syncs, two reviews, one retry |
| `migrate` | does the history start once, and stay in parity? is a clean check true? | two processes, two ids, four legacy ledgers (none, one record, a duplicate id, a refused line), four commands, one fault |
| `reads` | what may a reader be answered while everything beside it changes? | one reader, three records (an expiry by day, one by instant, a conflict, sensitive content), four read policies, three stores of principals, thirteen requests, two changes, two instants |
| `serving` | do server and commands keep what they answer? | two connections, two callers whose issuer and subject join to one key, a limit of two in a window of two, a clock that may be set back, four calls, four environments; two processes, three commands, one save or edit, one review |
| `relationships` | is the cycle search exact, and does an acceptance close no cycle unasked? | three ids, every ledger of them with every combination of links, peers, rivals and flags |
| `migrate_late` | is a store safe to leave unmigrated? | fails: see below |

The bounds are small and enough: two processes suffice for every conflict over one
lock and one ledger (a third only waits), five commands reach a record's whole life
(propose, accept, supersede, retire) with an export after it, two faults reach a
fault during the recovery from another. The lock needs a third process: one looks,
one creates, one releases. Two syncs and two reviews give a version that changes between
them or during one, with a late request of the first. For a reader, other readers are
nothing: none of them changes a file, so one is enough, and two changes fall between any
three of its steps. In `serving`, four calls pass twice the limit of two at the end of one window
and the beginning of the next, and two connections give a request that began before
another ended; a proposal, a preview and an export with a save between them are the
three commands of the properties about them. Server and commands have no variable in
common, so one run takes them side by side: `side` says which of the two a behaviour is of. Four commands give a race of two
migrations with a mutation before or beside them and a check after. Three records are
enough for two cycles through one record, one of them missed, with a dangling link when
one of the ids has no record. `MaxOps`, `MaxFaults`, `MaxSyncs`, `MaxReviews`,
`MaxForced`, `MaxChanges`, `MaxTime`, `MaxCalls`, `MaxClock`, `MaxCommands` and `MaxSaves`
are the only bounds on the behaviours; `MaxTries` stands for the lock's deadline, `Retries` for `maxRetries`,
`LogCapacity` for the size limit, in events. Processes are interchangeable, so the runs
with safety properties only use their permutations as symmetry, and `relationships` those
of its ids. Every run checks for deadlock: when everything the bounds allow has run the system rests
(`AllDone`, `Ended`, and `Rest` in `serving`; a process can always begin in `StoreLock`, a
reader ask and a server be started), and any other state without a successor would be
reported.

Fairness: weak fairness of each process's own steps (`FairSpec`), because the
operating system runs a process that can run. A process that waits can always
either take the lock or time out, and one that waits for the network has an answer or
the time-out of fifteen seconds (`live-adapter-network.ts`), so no strong fairness is
needed. No command, fault, answer of the service or removal of a stale lock is assumed
to happen, and nothing is assumed of who wins the lock.

### What the failing runs show

`store_repair_race`: repair replays the history, then a proposal runs to its end, then
repair compares, finds the ledger different from its old replay, takes the lock and
writes the old replay. The new record is gone from the ledger and repair reports
success. Running repair alone is safe (`store_faults`); a second repair mends it.

`store_retry`: an acceptance is logged and the process dies before it writes the
ledger. The reviewer rejects the record instead. The rejection is logged as a change
from `pending`, as the ledger still says, but replay is at `accepted`: the history
does not replay, `mempr check` fails, and repair refuses.

`migrate_late`: on a legacy ledger that was not migrated, a proposal is accepted and
becomes the first event. `mempr migrate` now reports a drift and changes nothing; the
migration guide advises repair for a drift, and the confirmed repair writes the replay,
which never held the legacy record.

## Proofs

`MemprStore_proofs` proves, for all values of the constants:

- `TypeCorrect`. `TypeOK` is not inductive: `Typing` adds that a process has events
  left exactly while it appends, and that every carried record has a latest event.
- `Exclusion`. `MutualExclusion` is inductive on top of `Typing`. From it,
  `LockIsAbstract`: the refinement of `AbstractLock`.
- `LedgerLogged`, `LinksLeadBack`, from one inductive invariant `History`: what the
  ledger holds is logged; what a process will write is logged or among the events it
  has still to append; and every event, logged or waiting, only needs records
  proposed before it. Steps that touch neither file are dealt with once (`QuietSteps`).
- `PublishedAudited`, from `Sane`: beside the invariants above,
  what a process holds between two steps fits its command (`Roles`), and the events it has
  still to append fit the ledger, each record in one of them at most (`PlansFit`). Ids of
  proposals are new and no record names itself (`Sound`). `Tells` says of a block that
  differs from the history that an export is about to log it, or stopped before it could.
- `NothingRollsBack`, `LifecycleOneWay` and `RepairRestores`, from `Timely`: versions are
  logged in the order of their times, and planned ones are newer than the logged ones
  (`Stamped`, `PlansStamped`, `Newest`). What a process will write is the ledger's version
  or the newest that is logged (`Settled`), and a version that a crash left in the history
  alone is one that may follow the ledger's (`Ahead`). Without `Ahead` a repair after a
  crash could not be shown to move records forward only.
- `NothingDrifts`, from `InStep`: unless a command was stopped, the ledger is the replay
  when no write is due, and while a command appends, its plan is the replay of the history
  with the events it has still to append (`Completes`). Replay is taken event by event
  (`ReplayAppend`), so no induction is needed.
- `LedgerIsAbstract`, the refinement of `AbstractLedger`. Beside `Sane` and `Timely` it
  needs `Underway`: a command has begun only while it appends or writes, and one that is
  about to append its first event has a lawful plan for the ledger as it is. That a plan is
  lawful is shown where it is made, once for proposals, reviews and acceptances
  (`ProposeIsLawful`, `UpdateStatusIsLawful`, `AcceptIsLawful`); that it still is when the
  first event is appended, from the lock (`UnderwayStep`). As one process at most has begun
  (`OneInside`), `View` and `Told` are the files, or one process's plan (`NothingInFlight`,
  `InFlight`). Each step is then mapped by itself: `PublishingShows`, `AppendingChanges`,
  `AppendingPersists`, `WritingPersists`, `TearingStops`, `GivingUpStops`; those of a
  process that has not begun change nothing (`StillInFlight`). `SameLedger` and
  `SameHistory` say that the operators of the instance are those of the store.

All of these speak of the replay in closed form. The lemma `ReplayedOneByOne` says that this
is what `ReplayStep`, the loop of `replayEvents`, computes on every history, by induction
over its length.

`NothingRollsBack`, `LifecycleOneWay`, `RepairRestores`, `NothingDrifts` and `LedgerIsAbstract` assume
`RepairAlone`: repair runs with no command beside it, or not at all. They need it: `store_repair_race` shows a repair beside a proposal that loses the
new record and leaves the ledger behind the history.

`StoreLock_proofs` proves `Implements`, the refinement of `AbstractLock`, and
`OwnFileOnly`. Both follow from one invariant, `OwnerHolds`: a process is between its
creation of the file and its removal exactly while the path names its file. A step of
the files maps to entering (`NameOwner`), leaving (`Leave`), abandoning (a crash or a
failed release), clearing (`RemoveByHand`), or to no step.

`LiveSync_proofs` proves `TypeCorrect`, `OnlyDeliveredIsSynced`, `NoRepeatedPush` and
`CleanSyncLeavesCurrent`.
`Delivered` extends the property from the history to what a process has read of it and
to its own outcomes; `Remembers` says that a pushing process knows what was settled when
it started and waits only for a version it does not know. For the clean sync, `Versions`
says that nothing planned, sent or stored is newer than the ledger, and that a sync logs
once each planned version has its outcome; `AloneWhenUndisturbed`, that while it is
undisturbed every request under way is its own and what it planned is the newest.

`LedgerMigration_proofs` proves:

- `BackfilledOnce`, for `Guided` and otherwise. The invariant says that the process that is
  appending owns the lock, and that a migration still to be appended is the first event of
  an empty history.
- `TypeCorrect`, with `Roles`: what a process holds fits its command. That a replay has the
  type of a ledger, and no id twice, is an induction over the history (`ReplayHolds`).
- `MigratedStaysInParity`. `InParity` says where a history that starts with a migration
  leads: as it is, to the ledger, or to what the process in the lock has still to write;
  with the events still to append, to what that process will write.
- `CleanWasTrue`, from `InTime`: events carry the time they are appended at, replay keeps
  the newest version of each record (`Fresh`), and what a check has read of the ledger is
  still there, or the history has gone beyond it (`Watches`). So a check that saw no
  difference saw two files of one moment.

The last two assume `RepairAsGuided`: repair runs by itself on a store with a history, or
not at all. `migrate_late` and `store_repair_race` show what it does otherwise.
`CleanWasTrue` also assumes `PastLegacies`, that no legacy record bears a time later than
the upgrade: its theorem compares versions by their times.

`Relationships_proofs` proves `TypeCorrect`, `SearchIsExact`, `ReportsAreSimple` and
`NoUnaskedCycle` for any ledger. The invariant is that of a depth-first search: the stack is a path of records not
yet over (`Stacked`), a reported cycle is closed under its own links (`Reported`), and as
long as nothing is reported the records that are over lead only to each other and around no
cycle, while those on the stack have followed links only to such records or to the next on
the stack (`Explored`). Cycles are sets in which every record leads to another
(`Cyclic`), so no induction over paths is needed for them. That a reported cycle is simple
takes one: what holds of a record on the stack and is handed on along links holds of all
above it (`HandedOn`), and from the last of them of the first. `SelfLinks` is what the acceptance
rests on.

`ReadSurfaces_proofs` proves `TypeCorrect`, `TimelineCovered`, `ContentAllowed` and
`ContextClean`. For the timeline, `LedgerCovered` says that what the ledger shows of a
record, or is about to show, is in the history; `Recalls`, that this is still so of what a
reader took from the ledger before it reads the events, since the history only grows;
`InOrder`, that times follow the places as long as the clock was not set back. `Access` is
why a read came as far as it did: there was no policy, or the rules it holds were a policy
in force since it began. `ContextClean` is proved from the ledger's type alone: each of the
ways a context is blocked is shown to be one of the things `CleanAnswer` excludes, with the
arithmetic of days and instants as a lemma.

`McpServer_proofs` proves `RateBounded`, `ServedInScope` and `WellTypedServer`. The rate:
a window opens with a passage, and the next opens at least a length later. So within any
length that reaches into the next window, the passages before that are all of the one window,
without the one that opened it: fewer than the limit. With those of the next, at most the
limit, they are fewer than twice the limit. A clock set back leaves a window with fewer
passages than its bucket counts, and starts with none (`Carried`). Scopes: each core
function has one scope in a table, which every tool and resource that leads to it is
shown to have, and `Held` says of each request in hand what it passed to get there.
Types: the writes that took effect and the calls that may yet write (`Waiting`) are no more
than the calls sent (`Balanced`), for a call that has written waits no more.

`Proposals_proofs` proves, from three inductive invariants:

- `Predicted` and `AcceptedJustified`, from `IInv`. `Jobs` says that the policy a process
  holds, and the content behind its verification, were in force since its present proposal
  began; `Judgements`, that every decision in `judged` is the decision of what is in force now, so
  that two of one input are equal; `Ledgered`, that every record that was accepted with no
  review is justified, which is shown once from the ladder of the policy.
- `BatchesAccounted`, `UserTextStays` and `GuardSaw`, from `Sound`: each command under way
  has accounted for the candidates up to the present one; what an export is about to write
  has the users' lines around the block (`Replaced`), for a file with a block in any place
  and for one without; and what a guard compares is the block of what was accepted when it
  looked (`Frames`). Candidates and exported lines are in an order that is a permutation
  of what was found (`Ordered`), by induction over their number.
- `WellTyped`, from `Typed`: the process that has the lock is the one within it.

They rest on the modules' assumptions, which TLC evaluates for each instance.
`StoreAssumption` says only that the lock values differ from the processes, that ids are
finitely many, and the types of the constants. `ReadSurfacesAssumption` gives the types of
what is known of records and requests, and that a timeline is asked of one record;
`McpAssumption` that a window has a length and tokens expire at a time, if they do;
`PolicyAssumption` that the verdicts differ from "no verdict"; `ProposalsAssumption` that
commands are of the five kinds, have memories, scopes and lines as inputs, and a limit of at
least one (`cli-suggest.ts` refuses others); `TextAssumption` that the two markers are no
other lines, what a memory is exported as is no marker (see above), and users save
contents of lines and markers, in the transcript lines only. The others say the same of theirs.

What the proofs found: two definitions had a `CASE` whose conditions overlapped, and left
open which of two values they had (the append of an event that is also the last, and a
server's reply to a message that is not valid and has no id); they say now what the code's
order of tests says. `CleanSyncIsCurrent` is false with a third sync unless a sync that
starts over a late request is excepted, which `NewestShown` now does.

Only model-checked are the liveness properties, `ENABLED` being out of the provers' reach,
and the runs that fail. `TypeOK` of `MCServing` is proved in its two halves,
`WellTypedServer` and `WellTyped`. The induction theorems of the library take an operator
and cannot be used; where a proof needs an induction it takes the least counterexample
instead (`Least`, from the well-founded order of the naturals). Of the library's
recursive operators nothing can be proved, which is why `Ordered` says what an order is
instead of sorting.

## Not modelled

- diagnostics (`diagnostics.ts`): a report of counts and a file that nothing else reads.
- the parsing and rendering of the command line, the static text and schemas of the MCP
  contract, the wording of any answer, the layout of exported Markdown.
- patterns over text: what the scanner, the cues of a transcript and the kinds of
  memories match are constants. That the patterns match what they should is a question
  for tests.
- paths and symbolic links (`store-paths.ts`): that a file is inside the repository is
  taken for granted.
- quotes of several lines, and text on the line of a marker.
- a lock removed against the advice, and a service that ignores idempotency keys.
- the read policy of `mempr check`: `consistency_status` asks it like the other governed
  reads (`ledger-consistency.ts`). `LedgerMigration` has the check without that question,
  and `ReadSurfaces` has the question for the other surfaces.
- the bytes of signatures and hashes: what they are over is modelled.

## Plan

Done: the store, its lock and what both promise, live sync, migration, relationships, the
reading surfaces, the proposals with policy, provenance, suggestions, exports and guards,
and the servers, each with its run and its theorems. Left, in this order:

1. `Proposals` on top of the lock and the files of `MemprStore`, for a batch beside crashes.
2. A refinement of `AbstractLedger` by `LedgerMigration`, with the backfill as one change more.
3. The parsing of the command line into the commands that the modules begin with.
