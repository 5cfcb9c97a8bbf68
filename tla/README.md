# Pratiksha: TLA+ models of the live worker and its catalog

Pratiksha answers WhatsApp messages of a few allowlisted people: it drafts text
replies with a local language model, proposes files from a catalog and sends one
when its requester confirms it. These specifications model the parts of the code
that decide *what may leave, to whom and how often*, and *what the system knows*:
messages, media, files and their contents. They model the crashes, exceptions and
concurrent actions the code meets, are checked with TLC, and the most important
results are proved with TLAPS.

## 1. The system

One Postgres database holds all durable state. These processes use it:

- the **live worker** (`scripts/live-worker-daemon.mjs`), a loop that runs one
  cycle after another. `docker-compose.yml` starts one of it;
- the **API** (`apps/api/src/app.ts`), through which the operator pauses and
  resumes conversations, denies drafts, and registers, scans and extracts files,
  while a cycle runs;
- the **dashboard** (`apps/dashboard`), which writes uploaded files to the resource
  root and has the API register them;
- scripts, run by hand: recovery and backfill, and `stack:live:up`, which checks
  and repairs the store of `wacli` before it starts the stack.

WhatsApp is reached through `wacli`, a command-line program run as a child
process with a timeout, with a store of its own. No transaction spans a cycle, and hardly any spans more
than one statement: between any two statements the process can die, a call can
throw, and the API can change what was read.

### Inventory

| Component | State it keeps | Operations | Hard behaviours | What makes it correct | Modules |
|---|---|---|---|---|---|
| Outbound policy (`packages/policy`) | none | `evaluateOutboundPolicy` | evaluated on values read earlier | a text reply needs mode `auto` and a trusted contact; nothing leaves a paused or stale conversation | `Policy` |
| Outbox and dispatcher (`outbox-dispatch.job.ts`, `outbox.repo.ts`, `send-attempts.repo.ts`) | `agent_outbound_jobs`, `agent_send_attempts`, outbound `msg_messages`, draft state | insert once per key, find, re-check policy, claim, attempt, send, record | crash between statements, answer lost after the message left, two dispatchers, pause during a send | the journal knows every send; an interrupted send is not repeated; ledgers agree; order; every job settles | `Outbox`, `JobLifecycle`, `OutboxProofs` |
| Live automation cycle (`live-automation.job.ts`, `outbox-queue.job.ts`, `resource-catalog.job.ts`, `draft-generation.job.ts`) | `agent_runs`, `agent_drafts`, `res_resource_proposals` with options | take a batch, confirm, propose, generate, queue, dispatch | interruption anywhere, messages out of order, several proposals pending, deny and pause meanwhile | a file is queued only if it was proposed to and confirmed by the same person; one answer per message; no message starves; runs end | `Automation`, `MessageLifecycle` |
| Resource selection and semantic search (`resource-matcher.ts`, `resource-semantic.job.ts`) | embeddings, retrieval records | rank what a text asks for, embed what is not embedded yet, search, record | slow calls between reading a chunk and storing its vector; extraction meanwhile; a listing limited by name | never a file the proposal does not list; no vector of a text that is gone; embeddings of what is listed catch up | `Knowledge`, `Catalog`, `Automation` (outcomes, not scores) |
| Resource indexing (`resource-indexer.ts`, `resources.repo.ts`, dashboard uploads) | the resource root, assets, catalog rows with their allowed contacts | upload, register, scan, promote, list, look up for a send | rows and assets written by separate statements, names taken over, files edited or removed between suggestion and send, uploads of one name | what a contact sent stays private; a contact is sent what it may have; uploads keep apart | `Catalog` |
| Resource understanding (`resource-understanding.job.ts`, `content-extractor.ts`, `knowledge.repo.ts`) | documents, chunks, summaries | extract, replace a document's chunks, summarise | no transaction, foreign keys of a concurrent search, overlapping requests | a document's chunks are the whole of one version of its file | `Knowledge` |
| Policy mode and deny API (`policies.repo.ts`, `app.ts`) | conversation state, policy rows | pause, resume, deny | concurrent with a cycle | a pause stops further sends | `Outbox`, `Automation` |
| Live polling and ingestion (`live-polling.job.ts`, `inbound-ingestion.job.ts`) | messages, conversations, sync runs and cursors | poll each contact, insert idempotently | a window without a cursor, marks `fresh` whatever it saw, a failing transaction ends the poll | no message twice, none passed over for good, one contact's trouble does not starve the others | `Sync` (one conversation), `LiveSync` (the loop over contacts); environment of `Automation` and `Media` |
| Reconnect recovery and backfill (`reconnect-recovery.job.ts`) | backfill jobs, cursors, context state | one page at a time between two transactions | cursors that are times and not places, crash between the transactions, page limit, concurrent poll, context state written back | no hole stays and `completed` means complete, but for a second cut by the edge of a page; a restart loses no progress; `recovering` is left | `Sync` |
| Media download and promotion (`media-sync.job.ts`) | media jobs, files, assets, resources | claim, download, link, promote | crash after the claim, partial files outside the database, two-statement failure paths | what the database calls downloaded is whole on disk; every download is decided | `Media` |
| Audio transcription (`audio-transcription.job.ts`) | transcripts, message bodies | take candidates, transcribe, apply | crash while `pending` | a body is filled once, from a confident transcript, and never overwritten | `Media` |
| Sync scheduler and daemon loop (`live-sync-scheduler.ts`, `live-worker-daemon.mjs`) | next sync, backoff, last status (in memory) | storage gate, decide, record, catch-all | doubling, maximum, reset, a failed sync ends the cycle before the poll | backoff follows the failures; syncs are retried; contacts are polled while syncs fail | `LiveSync`, `Live` |
| wacli adapter (`wacli-client.ts`) | child processes | spawn, time out, terminate, kill, close | a call that hangs or ignores SIGTERM; a killed call may have acted | one process uses the store; no call stops the loop | `Wacli`, `Live`; the outcomes also in `Outbox`, `Sync` |
| Store preflight (`wacli-store-preflight.mjs`, `stack:live:up`) | wacli's session and cache, a backup | check, move a malformed cache, warm, verify | interrupted between two files; checks that break off; four ways to the warm-up | the stack starts only on a store that has what is required, as far as it could be counted; a cache keeps its own side files | `Wacli`, `Live` |
| AI clients | none | calls with timeouts | a call may fail | – | as the outcomes of a call |
| Storage guard, LLM proxy, dashboard page, CLI, other scripts | – | – | pure I/O or presentation | – | not modelled |

How they interact in one cycle: sync, then poll (inserts messages), then the
batch of unhandled messages (creates runs, drafts, proposals and jobs), then the
dispatch loop (sends jobs), then media and audio. A transcript fills the body of
a voice message, which only then becomes visible to the automation. A request for
a file searches the catalog and what was extracted from its files; the API writes
both at any time. Each sync, poll and send is a `wacli` process.

`PROJECT.json` lists the hazards of the code, each at the line where it bites,
with the properties that cover it.

## 2. Modules

| Module | What it models |
|---|---|
| `Policy` | the outbound policy as a predicate; shared by the next two |
| `JobLifecycle` | abstract: what the outbox promises of one job, with no dispatcher, policy or statement |
| `Outbox` | the outbox tables, the dispatcher statement by statement, the API's writes, crashes |
| `MCOutbox` | instances of `Outbox` for TLC |
| `OutboxProofs` | theorems about `Outbox`, proofs checked by TLAPS |
| `MessageLifecycle` | abstract: what the automation promises of one message, with no cycle, policy or statement |
| `Automation` | one cycle of the worker, statement by statement; a send is one step |
| `MCAutomation` | instances of `Automation`: the texts that messages may have |
| `AutomationProofs` | theorems about `Automation` |
| `Media` | the media download queue with its files on disk, promotion, and transcription of voice notes |
| `MediaProofs` | theorems about `Media` |
| `Sync`, `MCSync` | polls, recoveries and backfill pages of one conversation, interleaved transaction by transaction |
| `SyncProofs` | theorems about `Sync` |
| `LiveSync` | the daemon's loop: storage gate, sync scheduler, and the poll over all contacts |
| `Wacli` | wacli's store, the child processes of the worker with their timeouts, and the preflight |
| `Live`, `MCLive` | composes `LiveSync` and `Wacli`: the stack, and how it is started |
| `LiveProofs` | theorems about `Live` |
| `Catalog`, `MCCatalog` | files, catalog rows and permissions: uploads, registrations, scans, promotions, suggestions and sends |
| `CatalogProofs` | theorems about `Catalog` |
| `Knowledge`, `MCKnowledge` | documents, chunks and embeddings: extractions and searches |
| `KnowledgeProofs` | theorems about `Knowledge` |
| `Extremes` | two lemmas on sets of naturals (a least, a greatest element), for three of the proof modules |

Definitions called `...Mutant` or marked "Mutant" are deliberately wrong variants
of the definition after them; putting one in place makes TLC report the property
it is paired with in `PROJECT.json`, which shows that the property depends on
that piece of code.

### Outbox

| In the module | In the code |
|---|---|
| `job[j]` | `agent_outbound_job_state` of the row with idempotency key `j`; `absent` before the insert |
| `older[j]` | which rows existed when `j`'s was created (`created_at`, as all priorities are the default) |
| `attempts[j]` | `agent_send_attempts` by attempt number |
| `rows[j]` | the outbound `msg_messages` rows of the job, named by the attempt whose external id they have; 0 is the `outbox:<id>` stand-in |
| `draft`, `chat` | draft policy state; conversation and context state |
| `worker[w]` | where `w` is in `dispatchNextOutboundJob` (or in an admission) and its locals |
| `delivered`, `late` | what the recipients' phones saw: not in the database |
| `Admit`, `CreateQueuedJob`, `AllowDraft` | `queuePolicyPermittedTextDraft`, `confirmResourceProposal` |
| `FindJob` .. `CommitSent` | the awaited calls of `dispatchNextOutboundJob`, in order; the success path is one transaction, the failure path two statements |
| `Throw`, `CrashAndRestart` | the daemon's catch-all, and a process that dies and comes back |
| `Pause`, `Resume`, `DenyDraft`, `ContextChanges` | `setAllowlistedContactPoliciesMode`, `denyResourceProposal`, recovery and polling |

Abstractions: a job that exists may be admitted again at any time (the real
callers do so after a crash); a failed send may or may not have delivered the
message; the exact reasons of a refusal are left out. A message's age is not part
of the model because the dispatcher does not read it.

### Automation

A message's number stands for its run, its draft, the proposal made from that
draft and the jobs queued from it, since each has at most one row per message.
A text is a record: the conversation it is written in, whether `isAffirmative` or
`looksLikeResourceRequest` accept it, the option number it is, and the files it
mentions. `worker.step` names the next statement of the cycle. `age` is what the
cycle's one reading of the clock says of a message: it only grows between cycles,
because the code passes the same `now` all along. `"queued"` stands for `"failed"`
as well (both are dispatchable, and `Outbox` tells them apart), and the process
keeps its environment when it restarts (in `Outbox` it may change). A failing sync
or poll is a cycle that has not started; a voice note appears (`Ingest`) when its
transcript fills its body (`Media` shows when that is).

`MessageLifecycle` says what all these statements amount to for one message: it is run
once; a draft leads to at most one offer of files and one text; the offer is complete
before the text that lists it is queued, and neither changes once a file was
confirmed; a file is queued only out of an offer still pending, while another message
that may have confirmed it is unhandled; and no job comes back from the state it was
left in. `MessageSpec` maps the proposals of a message to its offer, with `OfferState`
and `Offered`; the other tables are taken as they are.

### Media

| In the module | In the code |
|---|---|
| `job[m]`, `state[m]` | `msg_media_download_job_state`; `msg_message_media_download_state` |
| `file[m]` | what the job's directory `incoming/<job id>` holds |
| `asset[m]`, `resource[m]` | the link to `res_file_assets`; the catalog entry made by the promotion |
| `transcript[m]`, `body[m]` | the transcript's status; where `msg_message_body` comes from |
| `worker` | where the daemon is in `drainMediaDownloadQueue` or `drainAudioTranscriptionQueue`, with their locals |
| `ClaimNext` .. `Promote` | `dispatchNextMediaDownloadJob` call by call; `completeMediaJob` is one transaction, `failMediaJob` and `blockMediaJob` are two statements |
| `SelectAudio` .. `EndAudio` | the transcription drain; a verdict is kept in one transaction |
| `Throw`, `Crash` | the daemon's two catch blocks, after which it goes on with what follows the drain; a process that dies and restarts |

`Enqueue`, `Link`, `SetState`, `PutTranscript`, `FillBody` and `MarkDownloaded` are
single statements of the repositories, used by the steps above.

Media, job, asset, resource and transcript are one-to-one (unique indexes), so
one number names them. Any call may fail. The clean-up of a directory swallows its
own error, so it may leave the file. The rest of the cycle is a step of its own
before `StartDrain` and leaves these tables alone, except for `Ingest`, which may
happen at any time because backfill runs in another process.

### Sync

| In the module | In the code |
|---|---|
| `store` | how many messages wacli's local store has: message `m` is the `m`-th in its list, the last one the newest |
| `clock[m]` | `received_at` of message `m`: a whole second, which neighbours may share |
| `rejected` | messages whose payload the normalizer cannot read |
| `imported`, `context` | `msg_messages` of the conversation; its context state, `absent` before its row exists |
| `checkpoint` | the row `reconnect_checkpoint` of `ops_sync_cursors`, a time |
| `job` | the newest row of `msg_history_backfill_jobs`: state, cursor (a time), count |
| `poller`, `recoverer`, `backfiller` | where each program is between its transactions, with what it read before |
| `PollLists`, `PollImports` | `pollAllowlistedContact`: the adapter's calls, then one transaction |
| `PrepareRecovery`, `RecoveryLists`, `RecoveryImports`, `RecoveryFails` | `recoverConversation`: a transaction, the call, a transaction (or `failReconnect`) |
| `BackfillReads` .. `BackfillImports`, `BackfillFails` | `runHistoryBackfillPage`: a read outside, a transaction, the call, a transaction (or `failBackfill`) |
| `Interrupt` | an exception or a crash of a program run by hand |

Recovery and backfill are called by hand (smoke scripts and tests), at any time
relative to the live worker and to each other; the model has one of each.
`wacli messages list` is external: newest first, at most `limit`, of times strictly
between its bounds `--after` and `--before`. The code passes the time of the oldest
message of a page, or of the newest one imported, so what else was sent in that second
is not listed again: `Skipped(m)` says of a message that a newer one of its second is
imported. The cursors `latest_message` and
`oldest_backfilled`, the sync runs and the summaries are written and never read,
and left out; so is the choice of chat and contact.

### LiveSync and Wacli, composed by Live

| In the module | In the code |
|---|---|
| `forced` | `forceSyncEveryCycle`, of the environment |
| `due`, `backoff`, `last` | `nextSyncAtMs` minus the clock, `retryBackoffMs`, `lastStatus`; lost with the process |
| `step`, `shouldSync`, `contact` | where the loop of the daemon, or of `runLiveAllowlistPoll` inside it, is |
| `StorageMissing`, `Decide`, `CycleEnds`, `CycleThrows`, `Wake` | the body of the loop in `live-worker-daemon.mjs` |
| `RecordSuccess`, `RecordFailure`, `WithJitter` | `record` with its random jitter |
| `call`, `exit`, `procs` | the promise of `runWacliProcess`, what it resolves to, and the processes alive |
| `Spawn`, `Expire`, `Kill`, `Close`, `Collect` | spawn, the parent's timer with SIGTERM, the second timer with SIGKILL, the `close` event, the `await` |
| `session`, `cache`, `log` | `session.db`, `wacli.db` and its `-wal`, `-shm` files |
| `check`, `CheckSession` .. `LookAgain` | where `preflightWacliStore` is, and its calls in their order |
| `CountRows`, `CheckChats` | `sqliteCacheStats` and `requiredChatCheck`, before the warm-up (`LookInside`) and after it (`LookAgain`) |
| `config` | whether chats are required and the cache may be warmed |
| `stack`, `LiveUp`, `Started` | `pnpm stack:live:up`: down, preflight, and up only if that exited with 0 |
| `BeginCall`, `EndSync`, `EndList` | the sync of a cycle, and the calls that list a contact's messages |

Time is what is left until the next sync, in ticks of `MIN_INTERVAL_MS`. `failures`
is a history variable. `Broken` are contacts whose transaction may fail:
`return withTransaction(...)` without `await` lets that failure pass the `catch`
around it, so it ends the poll. `Live` joins the two by conjunction: a sync or a
list of `LiveSync` ends when its call of `Wacli` has closed, and a sync succeeds
exactly if that call exited well. The one child the loop is waiting for is the one
there can be, as every call is awaited. What wacli and SQLite do to the store is
external: a sync adds to the cache; side files found without their database are
discarded when a new one is created. A cache is `Bare` (no tables to count), `Empty`,
with `Rows`, or `Full` (with the required chats), `Malformed` or `Missing`. Each check,
count and query may break off (`BreaksOff`). One that checks for soundness then counts as
malformed, and a query as one that found no chat; but a count that failed is not one of an
empty cache (`isEmptyCache`), so the preflight goes on to the required chats without the
warm-up. The history variable `uncounted` says that the last count failed.
`CycleThrows` ends a cycle at the broken contact, at an exception of the automation, or
at one of a sync or a list, such as a child process that cannot be spawned; the latter
count as disruptions. The sends
of a cycle are calls as well; they are not steps here, since `Outbox` models them
and they use the store exactly as a list does.

### Catalog

| In the module | In the code |
|---|---|
| `disk[p]` | the files of the resource root and of the media root, by version; `Empty` between creating and writing |
| `asset[p]`, `row[n]` | `res_file_assets` by storage URI; `res_resources` by registered name with its file and allowed contacts |
| `upload[u]`, `OpenUpload`, `WriteUpload` | `writeUniqueFile`: the first free name, opened with `wx`, then written |
| `drafts`, `Register`, `Index`, `DraftsOf` | registrations a request has under way; `buildFileResourceRegistration` and the scan of the root |
| `UpsertFileAsset`, `CreateFileResource` | the two statements of a registration |
| `Download`, `Promote` | a media download as one step, and `createFileResourceForAsset` of its promotion, whose name has the message id and which is allowed to its sender |
| `offer[c]`, `Suggest`, `Confirm` | which name a contact is offered out of `listSearchableFileResources`, and confirms |
| `FindFile`, `SendFile` | `findFileResourceForSend` with `existsSync` in the dispatcher, then wacli reading the file |

`NameOf` is the registered name of a path: two files of the root may share one, a
media file's is its own (`MediaNamesAreUnique`). The root of the media lies outside
the root that is scanned, as in the compose file and the defaults. No contact named
in a registration means all contacts: that is what the code does with an empty list.

### Knowledge

| In the module | In the code |
|---|---|
| `disk`, `checksum`, `summary` | a file's content; the checksum of its asset; the content summary of its resource, by the content it was made of |
| `Scan`, `StoreAsset`, `StoreResource` | the files read and hashed; `registerFileResource` of each, two statements, of all files at once (`Promise.all`) |
| `doc`, `chunks` | `kb_documents` by file, `kb_document_chunks` by file and index |
| `embedded`, `vectors` | `kb_embeddings` of resources and of chunks |
| `cited` | `kb_retrieval_chunks` |
| `request[r]`, `Find` .. `UpdateSummary` | then `understandFileResource` for one file after the other, one awaited call after the other |
| `Throw`, `Answer`, `Crash` | an exception, which becomes an error answer; a process that dies |
| `Searchable`, `Listed` | `listSearchableFileResources`: the rows a contact may be sent; the first of them by name, `IndexLimit` at most |
| `search`, `ListResources` .. `Cite` | `findSemanticResourceMatches`, one awaited call after the other; its `catch` ends it without matches |

A checksum is the content it is of. The content extracted may be a later one than
the checksum that was read, since the file is read again. `disturbed` is a history
variable: files whose last extraction broke off while it wrote the chunks, or
overlapped another one of the same file. How similar two vectors are is the
environment's choice in `Match`, which finds what the contact may be sent, listed or not.
`Files` are numbered in the order of their names. Whom a file is allowed to (`Allowed`)
is a constant here, `Catalog` has how it changes; every row is active and every asset
`available`, since no code writes anything else.

## 3. Runs

All runs use two TLC workers; the longest take three to four minutes.

| Run | Bounds | Shows |
|---|---|---|
| `Outbox_one` | 1 worker, a prompt and its file, 1 failure per job, 1 abort, 2 changes | `TypeOK`; an interrupted send is not repeated; ledgers agree; oldest first; implements `JobLifecycle` (so `sent` and `blocked` are final); every job settles and the queue drains |
| `Outbox_two` | 2 workers racing for 1 job, 1 failure, 1 abort, 1 change | what survives the missing compare-and-set: the journal is complete, a pause lets at most one message per worker out |
| `Automation_answers` | 3 messages with 5 texts in 2 conversations, 2 files, batches of 2 | a file needs a proposal that lists it and a confirmation from the same conversation; until the first interruption, one answer per message and one file per proposal |
| `Automation_live` | 2 messages with 3 texts, 1 file, all environments, batches of 1, 1 interruption, 1 change | implements `MessageLifecycle` (so a run that ended is not started again); only finished drafts are queued; a resolved proposal has its file; no message starves; every started run ends unless interrupted |
| `Media_one` | 3 files, 2 of them voice notes, 2 downloads and 1 transcription per drain, 1 interruption | database and disk agree; only confident transcripts become bodies; every download and every voice note is decided unless interrupted |
| `Sync_one` | 4 messages, the second and third sent in one second, the second one perhaps rejected, polls of 2, pages of 2, 1 interruption | but for what is skipped within a second, the imported messages are one stretch, up to what the last poll saw, and `completed` means complete; new messages are imported; `recovering` is left |
| `Live_one` | 3 contacts, the second one broken; interval 6, backoff 4 to 12, jitter a third; 1 restart or storage gap; 3 configurations of the preflight, 2 faults | the backoff is what the failures since the last success make it; one wacli process at a time; a cache keeps its side files; the stack starts with what is required; syncs and polls go on |
| `Catalog_one` | 4 files (2 share a name), a photo of another contact, 1 request and 2 uploads, 1 abort | media stays private; uploads keep apart; what is sent is allowed |
| `Knowledge_one` | 2 files, one of them text, with 2 contents of 1 and 2 chunks, 2 contacts of whom one may be sent the second file only, a listing of 1 resource, 2 requests, 2 extractions; either both files and no disruption, or at first one file and one edit or crash (`MCInit`) | keys and foreign keys hold; vectors are of stored chunks; documents are whole; embeddings of what is listed catch up |
| `Outbox_duplicate`, `Automation_denied`, `Knowledge_again` | the smallest that show it | claims of the documents that the code does not keep, see section 6 |

The type invariants of `Automation`, `Media` and `Sync` are the first conjuncts of
`ResolvedHasItsFile`, `AssetsHaveFiles` and `NoHoles`.

Why the bounds are enough for the questions asked: the outbox properties relate
one job to itself, to one older job, or to one draft shared by two jobs, so two
jobs with one failure and one interruption (anywhere) reach every combination
once; what a second failure adds is the same loop again, and the theorems hold
for all bounds. In `Automation` the interesting patterns are: a proposal and its
confirmation (two messages), two answers to one proposal, an answer from
another conversation, or an old proposal behind a newer one (three messages). `BatchLimit` is 1 or 2 so that a batch can be full.
In `Media` three files exceed both limits, so that a drain ends with
work left and the oldest are taken first. In `Sync` four messages with pages of two
make a full first page, one to resume from, an empty or a short last one, and
leave room for a hole between two imports that a poll of two does not fill;
messages arrive while a poll is under way. A page can end between the two messages of
one second, so that the older one is skipped. In `Live_one` the maximum backoff is not a doubling of the
minimum, so the cap bites in the middle of one (4, 8, 12), the broken contact
has one before and one behind it, and two faults damage a cache and interrupt its
repair. `Catalog_one` has each pair that can meet in a name or a file: library and
upload of one name, two uploads, media and scan. One version per file is enough, as
no step reads it; the request is one because its registrations already run
concurrently. `Knowledge_one` has two extractions, of one file that overlap, or follow
each other with an edit between, or of two files, which meet in the unique hash after
an edit, and a search that overlaps both; the second content
has more chunks than the first and than `ChunkLimit`. The listing of one resource leaves
the second file out for the contact that may be sent both, not for the other one, and
what is embedded for one contact is found for both. The theorems cover any numbers of
files, contacts, requests and disruptions. `MaxDisruptions`, `MaxFailures`, `MaxAborts`,
`MaxInterrupts`, `MaxSwitches`, `MaxFaults` and `MaxRuns` bound counters that
only limit the environment; in `LiveSync` a disruption is a storage gap, a restart, or an
exception in a sync or a list. `FileSymmetry` in `Automation_answers` is sound: the
texts of that run do not name files, no definition tells two files apart, and the
run checks invariants only.

`CHECK_DEADLOCK FALSE` is set for the outbox runs: with nothing admitted, every
job settled and the bounds used up, the outbox rests. The automation and
the media drains never deadlock, nor do the polls and the searches: their cycle
starts again.

### Fairness

`Outbox!FairSpec` has weak fairness of a worker's next statement and strong
fairness of `FindJob`. The daemon's loop resumes after every exception, and every
awaited call ends (adapter processes are killed at their timeout), so a worker
in the middle of a job goes on; a cycle handles a bounded batch before it
dispatches, so it does not spend for ever on admissions while a job waits.
Admissions, failures, crashes and the operator owe nothing.
`Automation!FairSpec` has weak fairness of the cycle as a whole: the loop calls
`runLiveAutomationCycle` for ever. It presumes that the sync and the poll at the
head of a cycle succeed in the end, as an exception there ends the cycle.
`Media!FairSpec` has weak fairness of the drains' next statement for the same
reasons, and presumes that cycles get as far as the drains. That a storage gate
stops the loop while the data root is missing is not a step of the model; the
fairness presumes it opens again (`LiveSync` has that gate).
`Sync!FairSpec` has weak fairness of the poll only, as the live worker polls in
every cycle and calls end at their timeouts: recoveries and backfills may stop
for ever anywhere. `Burst` is an assumption about the chat, not about the code:
no more messages arrive between two polls than a poll lists, else the code does
lose the ones in between until a backfill. `Live!FairStack` has weak fairness of
the loop's next step, of the two timers, and of the end of a process that was sent
SIGKILL. A process that was sent no signal, or only SIGTERM, may hang for ever, the
operator may leave the stack down, and the preflight owes nothing; `SyncGoesOn` and
`PollsGoOn` speak of a stack that stays up. The constant `Rest`, the most ticks
that pass between two cycles, is an assumption: it is smaller than the shortest retry
(4 less its jitter). If a cycle's drains take longer than that, every cycle is due for
a sync, and `PollsGoOn` does not hold when syncs fail for ever. `Environment` lets
nothing damage the store while the preflight looks at it: what has been checked
could otherwise be damaged right after. `Knowledge!FairSpec` has weak fairness of the
statements of a search that has begun, as a model call ends, and strong fairness of a search for each
contact: an assumption that every contact goes on asking for files, between the
searches for others. The API's requests owe nothing.

## 4. Proofs

Seven modules hold theorems, for every value of the constants that the named
assumptions of the modules allow; `Extremes` holds two lemmas they share. The
assumptions type the constants; `MediaNamesAreUnique`,
which no proof uses, justifies the guard of `Promote`, where the code asks whether the
asset has a row and the model whether the name has.

| Theorem | Property | Assumes |
|---|---|---|
| `OutboxProofs!TypeCorrect` | `TypeOK` | any number of dispatchers |
| `OutboxProofs!JournalCorrect` | `JournaledBeforeSend` | any number |
| `OutboxProofs!PauseCorrect` | `PauseBound` | any number |
| `OutboxProofs!NoRetryAfterInterruption` | `InterruptedIsNotRetried` | one dispatcher |
| `OutboxProofs!LedgersCorrect` | `LedgersAgree` | one |
| `OutboxProofs!OrderCorrect` | `NoOvertaking` | one |
| `OutboxProofs!FinishedCorrect` | `FinishedJobsStay` (no run of its own: TLC checks it as part of `LifecycleSpec`) | one |
| `OutboxProofs!ImplementsLifecycle` | `LifecycleSpec` | one |
| `CatalogProofs!CatalogTyped` | `TypeOK` | |
| `CatalogProofs!Privacy` | `MediaStaysPrivate` | |
| `CatalogProofs!UploadsApart` | `UploadsKeepApart` | |
| `CatalogProofs!Permission` | `SentWithPermission` | |
| `KnowledgeProofs!KnowledgeTyped` | `TypeOK` | |
| `KnowledgeProofs!VectorsFollow` | `VectorsAreOfTheirChunks` | |
| `KnowledgeProofs!DocumentsWhole` | `DocumentsAreWhole` | |
| `LiveProofs!Backoff` | `BackoffFollowsFailures` | |
| `LiveProofs!OneProcess` | `OneWacliAtATime` | |
| `LiveProofs!OwnLog` | `LogStaysWithItsCache` | the store is not damaged under the preflight |
| `LiveProofs!StartedReady` | `ReadyWhenStarted` | the same |
| `LiveProofs!StackTyped` | `StackTypeOK` | |
| `MediaProofs!MediaTyped` | `TypeOK` | |
| `MediaProofs!FilesKept` | `AssetsHaveFiles` | |
| `MediaProofs!BodiesConfident` | `BodyIffTranscribed` | |
| `SyncProofs!SyncTyped` | `TypeOK` | |
| `SyncProofs!BackfillComplete` | `CompletedIsComplete` | |
| `SyncProofs!Stretch` | `NoHoles` | `Burst <= PollLimit` |
| `AutomationProofs!AutomationTyped` | `TypeOK` | |
| `AutomationProofs!FilesConfirmed` | `FilesAreProposedAndConfirmed` | |
| `AutomationProofs!TextsFinished` | `QueuedTextIsFinished` | |
| `AutomationProofs!ResolvedDelivered` | `ResolvedHasItsFile` | |
| `AutomationProofs!ImplementsLifecycle` | `MessageSpec` | |
| `AutomationProofs!RunsEnd` | `RunsEndOnce` (no run of its own: it is part of `MessageSpec`) | |
| `AutomationProofs!OneAnswer` | `OneAnswerPerMessage` | |
| `AutomationProofs!OneFile` | `OneFilePerProposal` | |

**Outbox.** `SingleDispatcher` (the set of workers has at most one element) is a
hypothesis of the last five theorems: it holds because only the daemon dispatches
and the compose file runs one live worker; it is needed because
`findNextDispatchableJob` is a plain SELECT and `markSending` an UPDATE by id
(`Outbox_two` does not check the five properties because they fail there).
None of the five is inductive. `LedgersAgree` needs to know that the worker that
commits does so for a job in state `sending` whose last attempt is open; that needs
that the job it found was dispatchable when it was claimed, which a second
dispatcher would destroy. `OneWorkerInv` is the conjunction of the properties with
`WorkerInv`, which states for every program counter what the worker knows of its
job, and `JobInv`, which states what holds of jobs nobody handles (only a job in
`sending` can have an attempt under way; a row is never older than one that does not
exist). `PauseBound` rests on `PauseInv`: a worker past its policy check has sent
nothing to that conversation since the pause, and after a send it must go through
the policy, which refuses a paused conversation. `ImplementsLifecycle` maps `phase`,
`log` and `reached` to `job`, `attempts` and `delivered`; every step of `Outbox` is
one step of `JobLifecycle` or a stutter.

**Catalog.** `Privacy` is not inductive because a send trusts the row: the invariant
adds that a row of a media file is allowed to its sender only, that no registration
under way is of a file outside the root, and that whoever is offered a name is allowed
it as long as the offer lasts. The last one is what makes `Permission` true although the
dispatcher asks nobody: a registration allows its row to all contacts, and a promotion
writes only a row that was not there. `UploadsApart` needs that an upload's file stays on
disk: the owner does not edit the staged directory.

**Knowledge.** The invariant says, for each step of a request, what is known of the
document it writes: between `DeleteChunks` and `UpdateSummary` the chunks of an
undisturbed document are those placed so far, of the content that was extracted. For
that it needs that two requests writing one document make it disturbed, that
chunks of one document have distinct places, and that a recorded chunk is there.
`VectorsFollow` rests on the foreign keys: a vector is inserted only beside its chunk,
and removed with it.

**Live.** A process is alive exactly while its call is open, so the loop, which waits
for `closed`, cannot start a second one. Side files without their own database are
there only between the two moves, when there is no cache. For every place of the
preflight the invariant says what has been checked before it: past the count, a cache
that may be warmed has rows, unless the last count failed (`Counted`); `ready` then implies
what `ReadyWhenStarted` asks, with the same exception. `Backoff` uses that the backoff, doubled as long as it is
below the maximum, is the capped power, and that `MaxFailures` doublings reach the
maximum (`LiveSyncAssumption`).

`StackTyped` needs that no wait exceeds the greatest number of ticks the settings
allow: the jitter added to a wait grows with the wait, so the longest is that of the
greatest interval or backoff.

**Media.** `AssetsHaveFiles` needs to know that the directory that is cleaned is never
that of a linked file. `WorkerKnows` says so step by step: from the claim to the last
statement of a failure the job in hand is not `downloaded`, and its file is whole when
the transaction that links it begins. `BodyIffTranscribed` needs that the transcript in
hand is `pending`, and that nothing is transcribed before it was received
(`ReceivedFirst`), since the ingestion sets the body.

**Sync.** A list between two bounds is an interval of messages without the rejected ones
(`ListIsAPage`): as times never decrease along the list, a bound that is a time parts it at
one place, whatever else was sent in that second (`Place`, `Top`).
`CompletedIsComplete` then needs `BackfilledToCursor`: if nothing is rejected,
every message from the job's cursor to where the job began is imported, or skipped for a
newer one of its second (`Kept`), however often the job
was interrupted or failed. It is the cursor read with the list that the
import continues from, because one backfill runs at a time; and the cursor's own second
has an imported message (`CursorIsImported`), for which the rest of it is skipped. `Stretch` is the only theorem
with an assumption on the environment: with more new messages between two polls than a
poll lists, the code does leave a hole. Under it the invariant says of what is imported, of
what a recovery has listed, and of what a backfill has listed, that whatever is newer, up
to the last poll, is in the same set, imported or skipped (`OneStretch`).

**Automation.** The invariant says of each step of the cycle what is known of the message
in hand and of the confirmation it may be (`MessagesInHand`, `ConfirmationInHand`): a
proposal chosen for a confirmation is of the same conversation, by another message,
pending, and lists the file. A request is proposed at most once (`ProposedOnce`), and a run
changes only while its message is in hand; from that `RunsEndOnce` follows. An
interruption can leave a file queued whose proposal is still pending, or a confirmed
file with a "yes" that is taken again; so `OneAnswerPerMessage` and `OneFilePerProposal` hold
until the first one, for which `Uninterrupted` says what is never observed between cycles: a
queued file with a pending proposal, a confirming message without its run. What is true
whatever is interrupted are the other four, and `ImplementsLifecycle`. For that one the
invariant also says what is known of the draft in hand (`DraftInHand`): until its text is
queued, nothing came of it but its proposal, which is the last one while its options
are listed. Each proposal is the offer of its message, as no message has two, and one
without a queued file is pending; every step is then one step of `MessageLifecycle` or a
stutter.

Only model-checked: the liveness properties (`EveryJobSettles`, `QueueDrains`,
`EveryMessageIsTaken`, `EveryRunEnds`, `EveryDownloadSettles`,
`EveryVoiceIsHeard`, `EveryMessageIsImported`, `RecoveringIsLeft`, `SyncGoesOn`,
`PollsGoOn`, `EmbeddingsCatchUp`), since fairness and ENABLED are beyond the prover.

## 5. Not modelled

Parsing, normalisation and wording (data conversions); what the extractors read out of
a file, and the scores of words and vectors (parameters or choices here); the storage
guard, the LLM proxy, the dashboard's page, the CLI and the scripts for backups,
retention and migrations (I/O without a protocol). A wacli timeout that
`parseWacliTimeoutMs` cannot read, such as `1m30s`, leaves the parent without a timer;
the model has the timer. An upload whose process dies leaves an empty or unregistered
file, which a scan may register like any other. Two statements of
different processes are atomic with respect to each other, as each is one SQL
statement in Postgres; a COMMIT that took effect is taken to be acknowledged.
`core_response_policies` is left out because no part of the worker reads it.

## 6. Where the documents and the code differ

1. *"Prevent duplicate sends"* (`docs/ERD.md:337`): a send the adapter reports as
   failed is retried although the message may have left (`Outbox_duplicate`).
2. *"Failed send records attempt and remains retryable"*
   (`docs/09_IMPLEMENTATION_PHASES.md:333`): a crash between the two statements of
   the failure path strands the job in `sending`; `EveryJobSettles` holds only
   because its `Stranded` exempts such jobs.
3. *"File/resource sends happen only after Vijayalakshmi confirms the exact
   proposed filename"* (`:872`): the proposal is pending as soon as it is inserted, so
   it can be confirmed before its prompt is sent, or although the policy refused the
   prompt. `FilesAreProposedAndConfirmed` therefore asks for the proposal only.
4. *"Denied resource proposal never queues"* (`:327`): a denial of the draft leaves its
   proposal pending and its prompt queued. The prompt is still sent, the dispatcher
   overwrites `blocked` with `sent`, and a later "yes" finds the draft fit and queues the
   file (`Automation_denied`). The property does not count a denial that falls between
   judging a "yes" and queueing its file, where the operator merely came too late.
5. *"... queues exactly one outbound job"* (`:329`): a crash between resolving a
   proposal and consuming the "yes" lets the same "yes" confirm a second, older
   proposal. `OneFilePerProposal` is stated per proposal, not per "yes", and until the first
   interruption.
6. *"Media downloads are resumable"* and *"Storage warning pauses media
   downloads"* (`:557`, `:552`): only `queued` jobs are ever claimed, so a job that
   a warning made `blocked`, or a crash left `running`, stays there; they are the
   `Stranded` of `EveryDownloadSettles`.
7. *"Resumable all-available history backfill"* (`:463`): a page counts as the last
   when fewer messages than its limit *could be read*, so a rejected message in a
   full page completes the backfill early. `CompletedIsComplete` is stated for
   conversations without rejected messages. And the cursor is a time with WhatsApp's
   seconds (`reconnect-recovery.job.ts:184`, `:293`): what was sent in the same second as the
   oldest message of a page, but is not on it, is skipped for good by the next page, and the job
   still completes. `CompletedIsComplete` and `NoHoles` exempt the older messages of a second of which a newer one is imported
   (`Skipped`).
8. *"Context becomes `fresh` only after recovery succeeds"* (`:473`): a poll marks
   the conversation `fresh` whatever it listed, also in the middle of a recovery,
   and a backfill writes back the context state it read before its page.
9. The first recovery of a conversation, when it lists nothing, takes the time of
   its commit as the checkpoint; a message that arrived since its list is then
   passed over by the next recovery. A later poll imports it, which is why
   `NoHoles` speaks of what the last successful poll could see.
10. *"Resource register/index API paths trigger extraction by default"* (`:1115`):
    once a search has recorded a chunk of a file, its chunks cannot be deleted and
    every further registration of the file ends in an error (`Knowledge_again`); the
    same holds for a copy of a file that has a document, because the hash of a
    document is unique within its source. The document's row says `extracted` all the
    same, with the hash of the new content and the chunks of the old one: the file is
    `disturbed` in `DocumentsAreWhole`.
11. *"A "yes" reply sends only the exact pending proposed file"* (`:630`): the row of
    a name may be taken over by another file of that name between the proposal and
    the send, which looks up the row again. `SentWithPermission` and
    `MediaStaysPrivate` say that what is sent then is still something the contact
    may have.
12. *"warms missing or empty cache state"* (`docs/LIVE_WHATSAPP_ADAPTER.md:44`): a cache
    whose count fails is not taken for empty (`wacli-store-preflight.mjs:398`, `:545`), so the
    stack may start on an empty one when no chat is required. `ReadyWhenStarted` exempts that (`uncounted`).
13. *"Resource suggestions now use local embeddings over registered resource metadata"*
    (`docs/14_REPO_WIDE_REVIEW_AND_FUTURE_PHASES.md:43`): a search embeds only the first
    `VIJI_RESOURCE_EMBEDDING_INDEX_LIMIT` (50) files by name that the contact may be sent. Later
    ones are never embedded, and one that drops behind the limit keeps the embedding of its old
    summary; `EmbeddingsCatchUp` speaks of the listed files only (`Listed`).

Items 1, 4 and 10 are violation runs; the others are visible as the exemptions of the
properties named.

## 7. Plan

Done: `Policy`, `JobLifecycle`, `Outbox`, `Automation`, `MessageLifecycle`, `Media`, `Sync`, `LiveSync`,
`Wacli`, `Live`, `Catalog`, `Knowledge`, and the proofs of every safety property that
a run checks. What is left, in this order:

1. Abstract specification of `Sync`: an import that only grows and a cursor that
   never passes it, with the refinement.
2. Composition: `Automation`'s one-step send refined by `Outbox`.
