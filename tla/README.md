# Deepseek2API in TLA+

Deepseek2API serves the OpenAI, Claude, Gemini and Ollama APIs from a pool of
DeepSeek accounts. It is a Go server (with a Node function for streaming when it
runs on Vercel): requests compete for slots of accounts, log them in, switch
between them when upstream refuses, splice and parse the upstream stream, turn
tool markup into calls, write the events of four protocols, and are recorded on
disk, while administrators change accounts, keys, proxies and limits under load.
These modules model that behaviour; TLC checks it on small instances, and TLAPS
proves the main safety properties of the pool, the authentication, the leases, the
history, the requests, the captures and the configuration for every size.

Run `tlc -config X.cfg M` in this directory for a run of the table below and
`tlapm M.tla` for the proofs of a module `M` of section 4 (each takes between
seconds and a few minutes). `PROJECT.json` lists components,
runs, mutants, hazards and theorems, and maps every definition to the source
lines it models.

## 1. Inventory

| Part (under `internal/`) | State it keeps | Operations | What is hard | What must hold |
|---|---|---|---|---|
| `account` (pool) | rotation `queue`, `inUse`, FIFO of waiter channels, limits | Acquire(Wait), Release, Reset, ApplyRuntimeLimits | waiters, cancellation, Reset and new limits under load | counters = holders; limits; no lost wake-up; waiters are answered |
| `auth` (resolver) | per request: account, token, tried set; refresh marks | Determine, Release, RefreshToken, SwitchAccount, login | failed logins, a switch that finds nothing, stale tokens | served on the account whose slot is owned; refused only after all were tried |
| `httpapi/openai/chat/vercel_stream.go`, `js/chat-stream` | lease table with TTL | prepare, pow, switch, release, sweep | calls lost between two processes, expiry racing use | one keeper per slot, every stream answered, every lease ends |
| `chathistory`, `responsehistory` | entries in memory, detail files, index | Start, Update, Delete, Clear, SetLimit, load, migration | partial saves, crashes, entries deleted under a request | saved means durable; nothing forgotten; one entry per request |
| `config`, admin handlers | configuration in memory and in one file, indexes, test results, the published copy | every admin edit, load, save, publish | snapshots used after an unlock, failed writes, torn files, two forms of keys | memory, indexes, pool and file agree; edits lose nothing else |
| `completionruntime`, `deepseek/client` | per request: session, proof of work, attempts, references | start, upload, poll, retry, switch, delete session | retry, refresh and switch nested in each other | one outcome; what a call names belongs together |
| `deepseek/client` auto-continue, `sse`, `stream` | pipe, two channels, buffers, timers, round counter | four goroutines | select races, breaks, cancellation, rounds spliced into one body | content in order and complete; the end told as it was; all goroutines end |
| `toolstream`, `toolcall` | held text, capture, fences and spans, pending calls | ProcessChunk, Flush, parse | chunks that cut anywhere; examples that look like calls | streamed calls are the parsed calls; examples stay text |
| `openai`, `claude`, `gemini` streams, `assistantturn` | what was told, open blocks and items, call ids, stored responses | parsed event, finalize, retry, switch, cancel | flags shared by emitters and by attempts | the answer is told once; one end, recorded as told |
| `devcapture`, `rawsample`, admin raw samples | ring of captures, sample directories | record, clear, capture, save | concurrent traffic, whole-second clock, failing writes | bodies once, rounds in order, samples whole and never replaced |
| `prompt*`, `promptcompat`, `translatorcliproxy`, `claudeconv`, `util`, `textclean`, `format` | none | pure text and data shaping | | (left to tests) |
| `server`, `webui`, `version`, `testsuite`, `pow`, `js` sieve | none of their own | wiring, I/O, hashing, a second implementation in JavaScript | | |

Interactions: a handler calls `Resolver.Determine`, which takes a slot from the
pool (and waits in its FIFO), logs in if needed and stores the token in the
configuration store. The completion runtime uploads context files, creates a
session, solves the proof of work and calls upstream; each of these may call
`RefreshToken` and `SwitchAccount` on the same request. The body passes the
auto-continue pump, the reader, the line pump and the engine to the runtime of
the surface, which asks the sieve for calls, writes events, reports to a history
session and finally stores the response. The handler's deferred `Release` gives
the slot back. Admin handlers change the store, then call `Pool.Reset` or
`ApplyRuntimeLimits`. On Vercel the slot is handed to a lease and given back by
another HTTP call. The capture ring sees every upstream body on the way.

## 2. Modules

| Module | Models | Correspondence |
|---|---|---|
| `AccountPool` | `account/*.go` and the store fields it reads | one operator per method; the bodies under `p.mu` are single steps; `queue`, `inUse`, `waiters`, limits are the fields of `Pool` |
| `AccountPoolClients` | callers of the pool: request goroutines, hang-ups, admin handlers | a request's `pc` stands for its place in `AcquireWait`; a Reset is two steps because it reads the store before it locks; the history variable `forgotten` notes a Reset that met slots in use; its several reads of the store are taken as one |
| `SlotLeases` | abstract promise of the pool: slots are leased within the limits and given back | implemented by `AccountPoolClients` (`ImplementsSlotLeases`) |
| `AccountPoolLemmas` | what the pool's operators return and keep | lemmas for the next two modules |
| `ManagedAuthProofs`, `StreamLeaseProofs`, `ChatHistoryProofs`, `CompletionProofs`, `SurfacesProofs`, `AdminConfigProofs`, `DevCaptureProofs` | theorems about the module of that name | section 4; `ManagedAuthProofs` is about `AccountPoolClients` as well, which `ManagedAuth` extends |
| `ManagedAuth` | `auth/request.go` for managed keys, over the pool and its callers | steps split where the code leaves a mutex or calls upstream (login, wait, switch) |
| `StreamLease` | lease table and handlers, the Node function's calls, over `AccountPool` | every HTTP call is a goroutine of its own that runs on when Node no longer waits; `SwitchAccount` is split between acquire and assignment, where no mutex is held |
| `ChatHistory` | the history store file by file, and the recording sessions | an operation changes memory (`Commit`) and starts a save that holds the mutex; `SaveRemoves`, `SaveWrites`, `SaveIndex` are the file operations in the code's order; `SaveFails` and `Crash` may come at each; `LoadLegacy` is the migration of the one-file format |
| `SSEParse` | what a line of the upstream stream means: paths, fragments, thinking, ids, statuses, filter, overlap of a continuation | operators, one per function; a text is a sequence of tokens |
| `AutoContinue` | what the continuation pump reads from the events, and when a round follows | the fields of `continueState` |
| `StreamPipeline` | the pump of rounds, the scanner, the coalescing line pump, the engine and the accumulator, over the two modules above | one record per goroutine, one action per select branch; the pipe holds nothing, the channels are bounded |
| `Completion` | one request through `completionruntime` and the client | `plan` lists the upstream operations still to do, in the order of the code; `Recoveries` is the common loop of retry, refresh and switch |
| `ToolMarkup` | `toolcall`: tags, blocks, invokes, CDATA, fences, repair of a missing wrapper | operators over tokens |
| `ToolSieve` | `toolstream`: the state machine over chunks | the buffers are two positions in the text; `Chunk` is ProcessChunk, `Flush` is Flush |
| `AnswerTurn` | what all surfaces share: accumulator, what the sieve lets out when, the outcome of a turn | a part of an answer is its kind and its number |
| `ChatStream`, `ResponsesStream`, `ClaudeStream`, `GeminiStream` | the runtimes of the surfaces: event by event what is written, and the finalize of an attempt | operators on the record of a stream; `wire` is what was written |
| `Surfaces` | the attempt loop of `stream_retry.go` with the hooks of each surface | one action per way in which an attempt goes on or ends; a line's parts are received one after another (`OnPart`) between what opens and what flushes a batch (`LineBegins`, `LineEnds`) |
| `ConfigData` | accounts, keys, mobile numbers, validation, reconciliation, normalisation | operators, one per function |
| `ConfigStore` | memory, indexes, file, environment: load, save, update, restart | the fields of `Store`; a write may fail, a crash may cut the file short |
| `AdminEdits` | what each admin request does to a configuration | one operator per handler |
| `AdminConfig` | the handlers over the store: snapshot, edit, pool refresh, login, publication | a handler is a process that leaves the lock where the code does |
| `DevCapture` | the ring of captures, chats that fill it, requests that make samples | one action per lock section or file operation |
| `MCAccountPool`, `MCManagedAuth`, `MCStreamLease`, `MCChatHistory`, `MCStreamPipeline`, `MCCompletion`, `MCToolSieve`, `MCSurfaces`, `MCAdminConfig`, `MCDevCapture` | finite instances for TLC | |

The names follow the source. Operators named `X_Something` are seeds of mutants:
`X` with a plausible mistake. They are not used by the specifications; replacing
`X` by its seed must break the property listed with it in `PROJECT.json`.

A property that is a conjunction has a name for each of its parts, with a comment
that says what the part promises (`OneOutcome` is `AnsweredOnce`, `BoundedCalls`,
`RateLimitSwitchedFirst` and `RetriedBeforeGivingUp`; `AnswerIsTold` is
`SentIsTheAnswer`, `CallsFollowTheirText` and `RequiredIsKept`; and so on). The
type invariant of a module is the first conjunct of one of its properties.

Data are abstracted to what the properties tell apart: accounts and requests are
model values, a token is present or absent, fresh or old, a history entry is its
id, revision, creation time, status and the request it belongs to, a text is a
sequence of opaque tokens and the few that the code looks for.

## 3. Runs

All runs pass. States are distinct states; times are with two workers.

| Run | Module | Question | Instance and why it is enough |
|---|---|---|---|
| `pool_capacity` | `MCAccountPool` | are counters and grants right under live limit changes, Resets, pinned and excluding requests, hang-ups? | 3 requests on 2 accounts, one of them added, deleted and given a token meanwhile, per-account and global limits that bind, a queue that fills (496 k) |
| `pool_progress` | `MCAccountPool` | is every wake-up used, is 429 answered in overload only, is every waiter answered, does the pool implement `SlotLeases`? | 5 requests on 2 one-slot accounts, so 3 compete in the queue; nobody hangs up (9 k) |
| `auth_slots` | `MCManagedAuth` | do account, slot and token of a request stay together; is no slot leaked; is a request refused exactly when all accounts were tried? | 2 requests, failing logins, switches, refreshes, a hang-up, an administrator who adds, deletes and gives tokens under load (1.7 M) |
| `lease_lost_calls` | `MCStreamLease` | has every slot exactly one keeper? | 3 streams, one whose Node function dies or loses calls, two whose lease may expire; a full queue refuses (241 k) |
| `lease_switches` | `MCStreamLease` | are streams answered, do leases end and give back every slot, while switches, releases, expiry and sweeps race? | 2 streams on 2 accounts of which one may be in use at a time; the accounts of one stream are switched, its lease may expire, its Node function may die or lose calls (45 k) |
| `history_store` | `MCChatHistory` | does what was acknowledged survive; does a half-failed save stay repairable; is a request listed once; does the ETag change with the list? | 2 requests, 3 entries, limits 0, 1, 2 (for 0, 10, 20, 50), 2 failing file operations and 2 crashes between any two of them, start from an old one-file history as well, two revisions per millisecond so that creation times tie (2.4 M) |
| `stream_pipeline` | `MCStreamPipeline` | does the handler see what was sent, in order, and its true end; does streaming agree with collecting; do all goroutines end? | 4 lines of 7 kinds, 1 continued round, channels of one place so that every goroutine blocks, breaks and cancellation at any step; a replay may come while what it repeats is still held (753 k) |
| `request` | `MCCompletion` | has a request one outcome after bounded calls; do session, parent, files, proxy and clean-up belong together; does it end? | 3 accounts so that a switch within a switch is possible, 7 kinds of answers, 2 attempts per operation, 1 retry, 2 polls, 2 context files (540 k) |
| `tools` | `MCToolSieve` | are the calls streamed the calls parsed from the whole; do examples stay text; is text held only while it may be markup? | texts of up to three lines of prose, one or several real blocks, fenced and inline examples, mentions, empty wrappers, a stray backtick, and texts with CDATA that quotes a fence, nested blocks and a missing opening; every cut into chunks (93 k) |
| `surfaces` | `MCSurfaces` | is the answer told once and completely, framed, ended, recorded and stored alike, over retry, switch and cancellation? | every surface, 3 parts of 8 kinds, 2 per line, 1 retry and 1 switch: every order of text, blanks, thinking, whole and cut blocks (478 k) |
| `config` | `MCAdminConfig` | do memory, indexes, file, pool and publication agree under concurrent edits, failures and restarts? | 2 handlers, 2 of 29 kinds of requests, two publications included, 6 deployments, one of them with a legacy file, no file or one as a hand writes it (an e-mail with a capital, a number without its plus and there twice), 1 failed write, 1 crash: every pair of edits in every interleaving (963 k) |
| `captures` | `MCDevCapture` | are bodies recorded once, rounds in order, which entries does a sample hold; is it whole and never replaced? | 2 chats, 2 savers that want one name, a ring of 2 so that entries fall off, a body of 1 part, 3 captures, 2 seconds, 1 crash; chats and savers are interchangeable (2.4 M) |

Bounds are constants of the modules or of the MC modules: numbers of accounts,
requests and admin operations; for the history `MaxEntries`, `MaxClock`,
`MaxFailures`, `MaxCrashes`; for the stream `MaxLines`, `MaxRounds`; for requests
`MaxAttempts`, `RetryMax`, `MaxPolls`; for the surfaces `MaxParts`, `MaxLine`; for
the configuration `MaxRequests`, `MaxFailures`, `MaxCrashes`; for captures
`MaxCaptures`, `MaxClock`, `MaxCrashes`. `CHECK_DEADLOCK FALSE` is set where a
behaviour ends because a bound is reached or the work is done (`history_store`,
`request`, `tools`, `surfaces`, `config`, `captures`) or because the modelled
system may really stop (`lease_lost_calls`, `lease_switches`: a stream may wait for
ever).
Elsewhere TLC checks for deadlock, and the specification has a step for the
intended end.

### Fairness

`FairSpec` of the pool and of the leases assumes weak fairness of every step of a
started goroutine: the Go scheduler runs it, upstream calls end (clients carry
time limits), handlers return. New requests, hang-ups and admin operations are
not promised. In `StreamLease` strong fairness of the end of upstream calls, of
the end of prepare's own attempts and of `NodeRelease` says that neither goes
round its retry loop for ever (the code bounds its attempts), and weak fairness of
`Expire` that time passes.
`StreamPipeline` assumes weak fairness of each goroutine and of the ticker, and
nothing of upstream, which may hang: the engine's ticks and the handler's Close
end everything. `Completion` assumes that the current operation answers or
times out (`WF_vars(Handle)`). The other modules state no liveness.

### Where the code and its documents differ, and where the runs stop

Each of these was met while modelling. The runs and theorems are stated beside
them, with the condition named in brackets.

Pool and authentication
- A waiter that is woken and cancelled at once consumes the wake-up
  (`account/pool_acquire.go:38`; README.en.md:352). [`pool_progress` has no
  `Cancellable` request; with one `NoLostWakeup` fails.]
- A Reset while requests hold slots forgets those slots, and later grants exceed
  the limit. [`GrantWithinLimits` and `SlotsMatchHolders` promise nothing after
  that: the history variable `forgotten` notes a Reset that met a slot in use.
  `NoSlotLeaked` does not need it.] Of two overlapping Resets the older view may be
  installed last.
- Raised limits wake one of several waiters. [`pool_progress` keeps the limits.]
- `SwitchAccount` gives the account back first and returns false with `AccountID`
  unchanged; its callers go on (`auth/request.go:200`, `client_auth.go:83`), so the
  per-account limit of docs/DEPLOY.en.md:295 is exceeded beside a second request.
  [`ServedOnOwnSlot` is about accounts not given up.]
- A request that has tried all accounts but one waits for ever when that one is
  deleted: `TriedAll` is evaluated only when a login fails.
  [`GivesUpExactlyAfterAll` assumes `Undisturbed`.]

Leases
- A lease that expires while its account is switched leaks the new slot
  (`vercel_stream.go:226`; `http_internal.js:187` says cleanup on the Go side
  prevents permanent leaks). So does one that is released while its switch is still
  under way. [The history variable `overtaken` notes a lease that is taken from the
  table under a pow or switch handler; `Over` excepts exactly its stream.]
- A stream waiting for the slot of an expired lease waits until some other call
  sweeps it. [`Abandoned` in `PreparesAnswered`; `SweptLeasesEnd` says that the next
  call does.]

History
- Detail files are removed before the index is written; a failed index write and
  a restart leave a store that refuses every call (`chathistory/store.go:512`,
  `:457`; compare store_test.go:421). [`AckedIsDurable` excludes removed entries.]
- A detail file written just before a crash is named by no index and survives a
  later Clear, and the revision may repeat across a crash. [The second part of
  `NothingForgotten`, and `TagNamesList`, hold for a running store.]

Configuration and administration
- A write error is reported after memory changed, and the pool is then not
  refreshed. [`PoolFollowsStore` has `failures = 0`.]
- The file is not replaced atomically: a torn file keeps the server from starting
  without an environment configuration, and with one and write-back it is silently
  overwritten. [`RestartRestores` says what an intact file gives.]
- `updateConfig` and `batchImport` do not validate proxy references; later proxy
  edits are refused and NewApp refuses to start.
- The combination of runtime limits is checked before the lock
  (handler_settings_test.go:136).
- An import can add a mobile-only account that shares an e-mail account's number;
  deleting by that number deletes the first match.
- `captureToken` and `batchUpdateTokens` clear the password; a later `updateConfig`
  drops tokens. `saveLocked` persists tokens that `Save` and the export clear.
- `vercelStatus` may report synced after an upsert whose answer was lost, and of
  two concurrent publications the wrong one may be marked. [`MarkTellsTheTruth` is
  stated while the mark is of the publication that was taken last (`marked`); the
  history variable `overtaken` notes the others.]
- An update that replaces the accounts fills in passwords that are not sent from the
  configuration it read when the request came in
  (`configmgmt/handler_config_write.go:20`, `:51`): a password that a captured
  token cleared meanwhile comes back, one that was set meanwhile is lost.
  [`PasswordsAreKept` says that it is the snapshot's password, and of the same account.]
- A test result is also kept under the identifier that the test was asked for, in
  lower case (`store_index.go:52`): for an e-mail with capitals that is no name of the
  account, and may be one of another account. [The second disjunct of
  `StatusOnlyForKnown`.]
- `loadConfigFromFile` neither rewrites a number without its plus, as
  config.example.json:36 has one, nor removes the second of two equal accounts: they
  are served as they are until an edit touches them. [The history variable `twice`
  notes the names that came twice.]
- API.md:925 documents synthetic `token:<hash>` ids that the code no longer has.

Requests and streams
- A retry may move to another account (docs/prompt-compatibility.md:115 against
  the switch inside GetPow, `stream_retry.go:111`). In a switched start session and
  proof of work may move to a third account, so a re-uploaded file belongs to
  another one. CreateSession and GetPow keep the proxied clients chosen at their
  start. [`UploadsAndCallsUseOwnProxy` is about uploads and calls.]
- A stream with a required tool choice is retried after visible text; streaming
  switches on 503 and 422 as well, while the documents say before a 429; the
  initial 429 of a streamed request is returned without a switch
  (`stream_retry.go:124`). [`BlamesTheAccount` in `RateLimitSwitchedFirst`: an empty
  answer, and the 429 of an answer that was collected.]
- "single" deletes with the token held at the end; the first account's session is
  left after a switch.
- A replay as long as what is known is not trimmed by the Go
  `TrimContinuationOverlap` (`sse/dedupe.go:20`), while dedupe_test.go:21 and the
  JavaScript drop it. [`StreamingMatchesCollect` compares Go with Go.]
- A continued round may replay text that the line pump still holds. What is held and
  the replay are then joined before the overlap is looked for, so a streaming caller
  gets text twice that a collecting one gets once (`client_continue.go:111`,
  `sse/stream.go:326`). [The history variable `joined` notes it; of
  such a stream `StreamingMatchesCollect` only says that nothing is missing.]
- An error message of upstream is treated as content_filter in chat and responses.

Tools
- A tag that follows an opening backtick is taken for markup as long as the closing
  backtick has not come, and blocks inside a capture are executed without asking for
  backticks: an inline example is executed, or a call behind a mention differs from the
  one parsed at the end. [`bets` notes each such tag; the properties hold when all were
  right.]
- A chunk of blanks alone is not noted (`tool_sieve_state.go:51`), so a fence after
  a break that comes alone is not seen and the example in it is executed
  (docs/toolcall-semantics.md:65); a run of backticks that is let out in two parts is
  read as two; what is held is read without what went before, which may hide a wrapper
  between two code spans and lose its call; half a tag goes out with a capture that is
  given up (`shouldKeepBareInvokeCapture`). [`slips` notes each: "break", "run",
  "tag", "half". Examples are executed after the first two only.]
- Complete blocks in one chunk replace each other's calls before they are reported
  (`tool_sieve_core.go:42`, docs/toolcall-semantics.md:69). [`lost` holds exactly the
  calls that were replaced; told and lost calls together are as many as were eaten.]
- A block whose opening is missing, with another wrapper later in the text, is repaired
  when it is collected and not when it is streamed. [Not in the texts of the run.]
- Text after a block is emitted before the event of its calls.

Surfaces
- Claude and Gemini retry a filtered empty attempt (docs/prompt-compatibility.md:115;
  `claude/stream_runtime_core.go:99`, `gemini/handler_stream_runtime.go:157`).
  [`FilteredIsFinal` is about the OpenAI surfaces.]
- After a failed retry Claude and Gemini never close the history session, nor does a
  cancelled response; Claude and Gemini record a cancelled stream as a success.
  [`forgotten` in `RecordedAsTold`.]
- A deferred finalize of responses closes the message item before the failure check
  (README.en.md:363); a completed response may list new ids and indices after
  `resetStreamToolCallState`.
- Claude starts a tool_use block while the thinking block is open, drops the calls of
  a block that arrives whole in one chunk after another block, and without declared
  tools may stop with tool_use and no block. Gemini's filter flag survives a retry.

Captures
- A capture takes every body recorded between its two snapshots, other traffic and
  upload responses included (`handler_raw_samples.go:61`; API.en.md:1064); the last
  round may be missing because the answer ends before the body is closed.
  [`CaptureIsOwn` says which entries a captured sample holds: those of its own chat that
  are listed, in order, and of others only what was recorded in that time. `SavedIsAsked`
  says that a saved one holds the chat that was asked for only.]
- A chain whose first rounds fell off the ring is saved with a later request; of two
  requests for one name the loser fails; a crash leaves temporary directories.

## 4. Proofs

Every theorem holds for all values of the constants that meet the assumptions
stated in the module it is about (`PoolAssumption`, `ClientsAssumption`,
`CompletionAssumption`, `InputsAssumption` and so on: finite sets, limits that are
numbers, inputs of the right form), and those in the column "if". Each
follows from an inductive invariant by the same scheme: `XInit` (the initial states
have it), `XStep` (every action keeps it, one step per action), and a step that
draws the property from it. Each invariant was an invariant of the run of its
module before it was proved.

### Pool and authentication

| Theorem | Statement | If | Inductive invariant and argument |
|---|---|---|---|
| `TypeCorrect` | `[]TypeOK` | | itself |
| `NoSlotLeaked` | `[]InUseNeverOvercounts` | | `LeakInv`: a request holds an account exactly in state "held" (`HolderInv`), and no counter exceeds its holders. Reset only lowers counters, so it stays true under administrators |
| `CountersExact` | `[]SlotsMatchHolders` | | `ExactInv` adds `TotalInv` (busy slots are as many as lease holders), which the global limit needs; a Reset that forgets nothing found every counter at zero |
| `LimitsHold` | `GrantWithinLimits` | | from `ExactInv`: a counter below its limit is a holder count below it |
| `PoolImplementsLeases` | `ImplementsSlotLeases` | `Admins = {}` | `ExactInv` and `FixedLimits`; `LeaseStep` maps each action to a grant, a return or a stutter |
| `WaitersWait` | `[]NoAbandonedWaiter` | | `WaiterInv`: the FIFO holds channels of waiting requests only, each once |
| `NoWakeupIsLost` | `[]NoLostWakeup` | no `Admins`, `Cancellable`, `Pinnable`, and no exclusions | `WakeInv`: while requests wait, at least as many are awake as there are free slots, or as the global limit has room for (`EnoughAwake`), so every slot given back has somebody on the way to take it |
| `RefusalMeansOverload` | `RefusedOnlyWhenOverloaded` | `Admins = {}`, no account configured twice | `RefuseInv`: the rotation is a permutation of the configured accounts, so a round through it has seen them all |
| `RequestsOwnWhatTheyUse` | `[]ServedOnOwnSlot` | | `AuthInv`: what `RequestAuth` says of its account and its token is what the pool knows of the request, phase by phase (`Owns`) |
| `NoSlotLeakedByName` | `AuthSpec => []InUseNeverOvercounts` | | `AuthInv`. A request releases by the name in its `AccountID` field, not by the slot it holds; only `Owns` makes the two the same |
| `GivesUpAfterAll` | `GivesUpExactlyAfterAll` | all accounts configured from the start, each once | `LookingInv`: a request still looking has not tried them all |

`SlotsMatchHolders` alone is not inductive: that Release lowers a counter of
somebody's slot needs `HolderInv`, and the global check needs `TotalInv`. Both
end with the first Reset that meets a slot in use (`forgotten`), which is the
code's real limit, described in section 3.

The hypotheses are where the code stops promising. An administrator may lower the
limits below what is held (`PoolImplementsLeases`), or delete an account somebody
waits for; a cancelled, a pinned or an excluding waiter consumes a wake-up that
another one needed (`NoWakeupIsLost`, section 3); when an account nobody could
have tried is added, a request that was about to give up has not tried all
(`GivesUpAfterAll`, where administrators may delete and bring back any account that
was there at the start). Each hypothesis holds in the run that checks the property.

### Leases

`EverySlotHasAKeeper` (`[]OneKeeperPerSlot`, if `Switching = {}`). `LeaseInv`:
calls that may be lost and the handlers they leave behind follow a course in which
prepare and release run once (`Course`), a handler has popped leases only where it
is about to release them (`BatchInv`), a stream has at most one keeper, which keeps
one slot of the account its `RequestAuth` names (`KeeperInv`), and the pool's
counters are the numbers of those slots (`CountInv`). With switches the property is
false of the code, which may leak the slot of a lease that is gone (section 3); what
holds with switches is liveness, and checked by `lease_switches`.

### History

`ChatHistoryProofs` has one invariant for its four theorems, `HistoryInv`:

| Theorem | Statement | Which part carries it |
|---|---|---|
| `FailingSavesForgetNothing` | `[]NothingForgotten` | `MarksInv`: dirty and deleted cover the difference between memory and disk, and a save in progress is about to do no more than what is marked |
| `NoRequestIsListedTwice` | `[]OneEntryPerRequest` | `SessionInv`: the entry a session refers to is the only one of its request, in memory, files and index, and a session that re-creates its entry finds none |
| `SavedEntriesSurvive` | `[]AckedIsDurable` | `AckedInMemory` and `NewerInMemory`: memory is never older than what was acknowledged or is on disk; `LegacyInv`: until the migration is complete the old file still has all of it |
| `ChangesGetANewTag` | `TagNamesList` | every change of the list raises the revision |

### Requests

| Theorem | Statement | Inductive invariant and argument |
|---|---|---|
| `EveryRequestHasOneOutcome` | `[]OneOutcome`: one answer, bounded calls, no collected 429 and no empty answer of a managed account before another account was looked for | `OutcomeInv`: either the plan leads to a call and there is no outcome, or there is one and at most the deletion of the session is left (`PlanInv`); the calls of a program are counted with the one the plan leads to (`CountInv`) |
| `OnlyEmptyAnswersAskAgain` | `OnlyEmptyAnswersRetried` | `EmptyInv`: an answer that left the request undecided is one that may be asked for again |
| `WhatIsSentBelongsTogether` | `[]StaysWithItsAccount` | `StayInv`: the plan is a suffix of the program's (`OnPlan`), so what is drafted follows from the place in it: which files have a reference (`FileInv`), whose session (`SessionInv`), whose proxy (`ProxyInv`) |

### Surfaces

`SurfacesProofs` has three theorems from one invariant, `SurfaceInv`, for all four
surfaces, lines of any length, any number of parts and any number of retries:

| Theorem | Statement | Which part carries it |
|---|---|---|
| `EndsAreRecorded` | `[]EndIsRecorded` | until the answer is over nothing that ends it is on the wire (`Quiet`), in the history or in the store (`OpenAs`); then one hook writes the end, the record and the stored response together (`OverAs`), or a caller of an OpenAI surface has left and is told no more (`LeftAs`) |
| `FramesAreKept` | `[]FramingIsKept` | Claude: the block that is open is the one that the stream's flags name, and the next index is the number of blocks begun. Responses: an item that something is said of was added, the message's part is open exactly when its flag says so (`ItemsKept`), and every item is done when the response is completed. Chat: the identifiers on the wire are among those given out so far, each once (`IDsDiffer`). All of it passes from one attempt to the next |
| `RetriesAreUnseen` | `[]RetriedOnlyIfEmpty` | between attempts (`UnseenAs`) no call was told, and what was received is blank, or, for a caller who must get a call, without one |

The parts of a line, the calls of a response and those of a Claude answer are
handled by folds. `Upwards` is induction on numbers, for a set instead of an
operator, from the well-foundedness of `<`; `Recursion` uses it to follow the folds
of the community modules step by step, for the three steps that are folded (`Step`).
An invariant of one step is then one of a whole line.

`FramingIsKept` alone is not inductive: that a delta names an open block needs the
flags of the stream, and that an identifier is not used twice needs the last one given out. Nor
is `EndsOnce`: a deferred attempt must have told nothing that ends the answer on any
of the four surfaces, or the next attempt would end it again.

### Configuration

`AdminConfigProofs` has five theorems about the store, the edits of administrators,
the restarts and the publications, for any requests, files and environments, those with
equal accounts and unusual spellings included:

| Theorem | Statement | Inductive invariant and argument |
|---|---|---|
| `StoreStaysConsistent` | `[]StoreIsConsistent` | `StoreInv`: requests and what handlers hold have their shapes (`PublishInv`), the store is kept (`IsKept`: no name twice but those that were loaded twice, keys in one order in both forms, index and test results of the accounts there are), and a restart finds something that can be loaded (`StoreKept`). Every edit is shown to keep a stored configuration (`EditKeeps`) before the store is |
| `EditsKeepTheRestHold` | `EditsKeepTheRest` | from `StoreInv` and `Snapshots` (what an edit read when its request came in was the store's), edit by edit (`EditResult`): keys sent replace keys and keep their names (`ReconciledKeys`), an import loses none (`MergedKeys`, `MergedNames`), a password that is not sent is the one this very account had in the snapshot, whatever happened since (`SentPasswords`), no account keeps a proxy that is gone (`ProxyIsDeleted`) |
| `RestartsServeWhatWasSaved` | `RestartRestores` | `SavedInv`: where the file decides (`Stays`), loading an intact file gives what was saved last, and a process without a variable never counts as served from it, which would make it skip its writes. That a stored configuration is loaded as it is (`StoredIsServed`) is what `StoreInv` is needed for |
| `QuietPoolFollowsStore` | `[]PoolFollowsStore` | `PoolInv`: while no save failed and no change crossed a refresh, what a refresh read is still what the store holds, and a pool that is not the store's has a refresh on its way (`Follows`) |
| `PublicationsAreMarkedTruthfully` | `[]MarkTellsTheTruth` | `PublishInv`: a handler whose text the provider took, and nobody else's since, holds what the provider has (`Marks`), however many publish at once; the store holds a configuration, through each of the edits, the loads and the failing saves (`Shapes`) |

The model takes accounts and keys from lists by position: which positions stay
(`Firsts`), and the list of what stands at them in their order (`AtPositions`, by the
rank of a position). Its results are functions, not folds, so the proofs need
counting of positions and no induction over the list. `AnswerTurn` selects the parts
of an answer in the same way (`OfKinds`, `VisibleText`).

### Captures

| Theorem | Statement | Inductive invariant and argument |
|---|---|---|
| `EachBodyOnce` | `[]CapturedOnce` | `OnceInv`: an open body is of a call its chat has reached (`Proper`, `Calling`), open and recorded bodies have different names, upload responses excepted |
| `EverySampleIsWhole` | `[]SamplesAreWhole` | `WholeInv`: the files of a directory that is being written follow from the stage of its writer (`Written`) |
| `SamplesAreNeverReplaced` | `SamplesStay` | from `WholeInv`: the only step that adds a sample is a rename, which fails when the name exists |

### Only model-checked

- Liveness (`WaitersAnswered`, `PreparesAnswered`, `LeasesEnd`, `EveryGoroutineEnds`,
  `RequestEnds`): out of the prover's reach, as is ENABLED.
- What a recursive definition returns for every input: the induction theorems of the
  library take an operator, which the installed provers cannot instantiate. A given
  fold can be followed step by step (section on surfaces), which shows what every
  step keeps; that two folds over the same data agree is left to TLC. So
  `DeliveredInOrder`, `StreamingMatchesCollect` and `EndIsToldAsItWas` (the lines of
  a stream read as they come and as a whole), `AnswerIsTold` (what was told against
  what the whole text amounts to), `SamplesAreFaithful` (the captures that make a
  chain) are only model-checked.
- `StreamedCallsAreParsed`, `ExamplesStayText`, `HeldOnlyForMarkup`: `ToolMarkup` and
  `ToolSieve` are recursive operators.

## 5. What the models leave out

- Pool: `MarkTokenInvalid` (called by tests only) and `recommendedConcurrency`
  (reported only). Requests with a direct token never touch the pool. The
  clamps of `ApplyRuntimeLimits` never bite with the values its caller passes.
- `StreamLease`: logins always succeed (they are `ManagedAuth`'s); one Go
  process serves every call; malformed requests are `PrepareFails`.
- `ChatHistory`: the contents of entries, previews. The wall clock does not run
  backwards; rename and fsync do what they promise.
- `SSEParse`, `StreamPipeline`: citation links; the content of the 7 kinds of lines
  is fixed by `MakeLine`; one continued round instead of eight.
- `Completion`: logins, session paging; the answer's text is whether it has any.
- `ToolMarkup`, `ToolSieve`: tilde fences, comments, alternative spellings of tags,
  parameter values and schemas. Every cut of a text into chunks is checked, of any
  size for texts of up to 28 tokens and of up to 8 tokens for the longer ones. A text
  with a block whose opening is missing has no other wrapper.
- Surfaces: decoding, non-streaming formatting, usage counts, the expiry of stored
  responses; `ToolCallDeltas` (the sieve never produces them); the status of a
  switched response, which the code does not check either.
- Configuration: settings that only readers use (aliases, prompts, switches),
  trimming of texts, test results that a file of an old version carries, the admin's
  signed token, chat requests of account tests and proxies' connections. Lower casing
  is `LowerCase`, a constant.
- `DevCapture`: at most one account switch per chat, with its uploads; nothing is
  recorded after a crash. The contents of bodies are the number of their parts.
- Not modelled: prompt building and format conversion (pure data shaping), Ollama,
  files, embeddings and model endpoints (single calls), the hash search of the proof
  of work, HTTP and TLS transport, static files and wiring, the React client, the
  JavaScript copies of sieve and stream, and the test drivers.

## 6. Plan

Done, in this order: `AccountPool`, `AccountPoolClients`, `SlotLeases`,
`ManagedAuth`, `StreamLease`, `ChatHistory`; then `SSEParse`,
`AutoContinue`, `StreamPipeline`, `Completion`, `ToolMarkup`, `ToolSieve`,
`AnswerTurn`, the four streams and `Surfaces`, `ConfigData`, `ConfigStore`,
`AdminEdits`, `AdminConfig`, `DevCapture`.

Then the proofs, from the pool outwards: `ManagedAuthProofs`, `StreamLeaseProofs`,
`ChatHistoryProofs`, `CompletionProofs`, `DevCaptureProofs`, `AdminConfigProofs`,
`SurfacesProofs`.

Left:

1. Theorems: `OneKeeperPerSlot` with switches and without expiry; `NoLostWakeup`
   with pinned requests that name different accounts; `AnswerIsTold`, whose invariant
   ties the sieve's rest to the visible text.
2. An abstract ordered channel that `StreamPipeline` implements, and an abstract
   durable map that `ChatHistory` and `ConfigStore` implement.
3. The composition of `Completion` with several requests of `ManagedAuth`; the
   response store's owners and expiry.
