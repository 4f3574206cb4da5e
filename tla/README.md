# InkBloom: a verification project

InkBloom is a writing application: a Go server (`packages/server`), a React
front end (`packages/web`), a Python AI service (`packages/ai-service`) and an
Electron shell (`packages/desktop`) that embeds the server with SQLite. This
directory holds TLA+ models of the parts whose correctness depends on the
order in which things happen, the TLC configurations that check them on small
instances, and TLAPS proofs about them for every value of the constants.

Line numbers are those of the repository at the commit the models were written
from; `S/` abbreviates `src/packages/server/internal/`.

## 1. Inventory

The server runs as several HTTP handlers at a time over one database
(PostgreSQL in the cloud, SQLite on the desktop), a key-value store (Redis or
memory), a message bus (NATS JetStream or a function call), and a handful of
goroutines of its own: the outbox publisher, the task workers, the retry
goroutines, the WebSocket hub with two pumps per client, and periodic sweeps.
Almost no operation that spans several queries is one database transaction, so
the interleaving of queries is where things go wrong.

| component | state | operations | talks to | hard behaviour | what makes it correct |
|---|---|---|---|---|---|
| token ledger (`S/repository/token_repo.go`, `S/service/token_service.go`) | account row with version, gift and expiry; append-only ledger; recharge orders; daily usage | Consume, Credit, GrantGift, recharge | every paid handler | optimistic commits racing, bounded retry, expiry between read and commit, order paid but not credited | the ledger explains the account; a call is one atomic change or none |
| task engine (`S/service/task_engine`) | task rows, outbox rows, stream, bounded channel, locks, sleeping retries | Submit, CancelTask, publish, deliver, execute, retry, Start, Stop | handlers submit; NATS, Redis; results go to the hub | redelivery, a crash after the acknowledgement, a lock that outlives or expires under its holder, a full channel, shutdown, cancellation racing a result | one runner per task, one retry budget, nothing lost silently, every task ends |
| image billing (`S/handler/aigc_handler.go`) | the wallet, one task per idempotency key | GenerateImage | ledger, engine | charge, submission and refund are three steps; two requests with one key | a fee buys a task, a task costs a fee |
| WebSocket hub (`S/server/websocket.go`) | live clients, their channels, the broadcast channel | register, unregister, broadcast, SendToUser, stop | engine, NATS bridge, browsers | a channel closed by one goroutine and used by another; slow clients | closed once, never sent on afterwards; nobody blocks the hub; pumps end |
| circuit breaker (`S/pkg/breaker`) | state, two counters, time it opened | Execute | AI proxy, engine | the mutex is free while the guarded call runs | it opens on a bad window, is probed, and leaves half-open |
| accounts and sessions (`S/service/auth_service.go`, `user_guard.go`, `S/repository/user_session_repo.go`) | account status, codes, sessions, the guard's cache | SendCode, Register, Login, Refresh, Logout, deregistration, the device list, the operators' ban | key-value store | a check and its use are separate queries; a cached status; a device limit of three statements | a refresh token is used once; a cooling account is quiet; a ban applies from the next request |
| payments and subscriptions (`S/service/payment_service.go`, `subscription_service.go`) | orders, the subscription row | CreateOrder, Notify, Extend, trial | payment channels, ledger | repeated notifications, read-modify-write of the whole row | what is paid is extended once, and nothing else is |
| admin (`S/service/admin_service.go`) | none of its own | SetUserStatus, ExtendSubscription, GrantTokens | the three above | a change beside a cache and beside a payment | as above |
| chapters (`S/service/chapter_service.go`, `S/repository/chapter_repo.go`, `S/service/cache`) | chapters with a unique live position, word count, cache | create, insert, reorder, save, delete, read | outline, history, agent | positions shifted under a unique index, whole-row saves of a stale row, a cache filled after it was emptied | no request conflicts with itself; the word count catches up |
| chapter history (`S/service/history_service.go`) | versions per chapter | snapshot, rollback, prune, sweep | chapters | pruning while a rollback relies on its checkpoint | a rollback can be undone; pruning keeps the newest |
| outline (`S/service/novel_doc_service.go`) | one document of nodes bound to chapters; the panel's copy | bind, replace, sync, cleanup at startup | chapters, web panel | the document is replaced whole from an older copy; a crash between creation and binding | bindings are live and single, chapters in outline order, the cleanup deletes no bound chapter |
| whole-novel versions (`S/service/novel_version_service.go`) | bundles of chapters and outline | snapshot, revert in two modes | chapters, outline | a bundle read in two queries; positions on restore | a revert does not conflict |
| bin (`S/service/trash_service.go`) | bin records | trash, restore, purge, empty | chapters, outline | two restores of one record; a record whose chapter came back by another way | nothing live is destroyed |
| publishing (`PublishModal.tsx`, `publish-store.ts`, `publish_service.go`) | the work, its published chapters | publish one, a batch, a schedule, take back, unpublish | chapters | a batch that fails half-way; a list older than the server's | readers see a beginning of the novel, without a gap |
| reading (`components/reader`, `DiscoverPage.tsx`, `S/service/interaction_service.go`, progress and follows of `publish_service.go`) | the chapter shown, the place to resume on the server or in localStorage; remarks, likes, follows and two counters; pages of a search | open, resume, report, comment, like, adopt, hide, follow, search | publishing, sign-in | the sign-in decided while a work loads; a mark and its count are two statements; answers of several searches | a work is resumed where it was left; counts are the number of marks; what is found is a beginning of what matches |
| story workflow (`StoryWorkflowPanel.tsx`, `story_service.go`) | the overview form, its drafts, jobs and stages | type, save, generate, verify, adopt | AI service, chapters | timers, drafts and answers of another novel; two adoptions | what is typed is stored, kept or about to be; a chapter is adopted once |
| agent (`agent_service.go`, `agent_context.go`, `ai-store.ts`, `AIChatPanel.tsx`) | sessions, messages, cards, a stream | ask, stop, switch session, run a card | AI service, chapters, outline | the user leaves in mid-stream; a card outlives its session | the messages shown extend those kept; what says it runs does run |
| AI proxy (`handler/ai_handler.go`) | none of its own | JSON and SSE calls | AI service, breaker, ledger | balance checked before, cost known after | a delivered answer is billed once |
| foreshadow (`foreshadow-store.ts`, `foreshadow_service.go`) | threads, candidates, hints | plant, resolve, abandon, detect, scan, hint | chapters, AI service | a scan saves rows it read before a long call; answers for another novel | nothing says "busy" for good |
| web editor (`EditorArea.tsx`, `TipTapEditor.tsx`, `editor-store.ts`, `tab-store.ts`, `draft-vault.ts`) | tabs, one mounted editor, local drafts, saves under way | type, switch, close, reload, save, retry, draft by AI | chapters | a late answer for another chapter, a save in flight while the author types | typed text is saved, and until then kept locally (but for finding 4) |
| outline and shelf of the page (`outline-store.ts`, `novel-store.ts`, `WorksBar.tsx`) | the outline, the chapter list, the works, the current one | create, move, bind, delete, load, select | server | whole documents saved concurrently, answers out of order | chapters stand in the outline's order; the kept work is the current one |
| memory (`memory-store.ts`, `MemoryEditorModal.tsx`, `memory-access.ts`) | items, gates, pins, a cache | add, edit, gate, pin, load, save | server, agent | optimistic saves under a version; gates that name deleted nodes | page and server agree on what the AI reads, hard gates open only at the places they name |
| chapter and novel versions on the page (`HistoryPanel.tsx`, `VersionCompare.tsx`, `DiffViewer.tsx`, `NovelVersionPanel.tsx`) | slots, snapshots, a comparison, milestones | snapshot, roll back, restore, compare | editor, server | an answer replaces text typed meanwhile | what is replaced can be brought back |
| AI tools (`ai-store.ts`, `candidates-store.ts`, `AigcCard.tsx`, `useAigcClues.ts`) | streams, candidates, runs, clues | complete, rewrite, choose, cancel | AI service | an answer after its cancellation | a cancelled answer is not applied |
| gallery and tasks (`gallery-store.ts`, `aigc-store.ts`, `task-store.ts`) | pages of pictures, tasks, notices | load, upload, delete, poll, cancel | media, engine, hub | pages of another filter, polls beside events | what is shown is there, ends are told of tasks that ended |
| sign-in, socket, billing on the page (`api-client.ts`, `auth-store.ts`, `ws-client.ts`, `token-store.ts`) | tokens, waiting requests, sockets, balances | refresh, replay, reconnect, buy | accounts, hub, payments | many refusals and one single-use refresh token; events of an old socket | an expiry is survived by one page; the page is connected or about to be |
| desktop shell (`packages/desktop/electron`), restore at boot (`S/database/database.go`) | the child it knows of, restarts under way; the database and a staged copy | boot, crash guard, restart, restore, quit | server | an asked-for exit taken for a crash; a kill that times out; quitting during a restart | quitting leaves no server but those of known restarts; a restore is all or nothing |
| sync, backup files (`sync_*.go`, `handler/backup_handler.go`) | archives | export, import, copy, prune | all tables | an import that fails half-way | one transaction |
| self-media desk (`components/media`, `media-store.ts`, `media-client.ts`, `S/service/media_service.go`) | contents and topics on both sides; the editor's fields, a patch that waits, a timer | type, switch, leave, adapt, apply a title, create, delete, order; keep topics | AI service, role switch | a patch that waits when another content is shown; overlapping whole-row saves; an answer for a content left | what waits has a timer; what was written is stored unless a named thing went wrong |
| pictures' files, knowledge, rate limits, feedback, events | rows of their own | create, update, list | storage, Redis | one request each | - |
| AI service (`packages/ai-service`) | none across requests | writing team, chat, verification | model providers | a stage fails and another model answers | a fallback ends |
| presentation, format conversion, configuration | - | - | - | none with a protocol | - |

`PROJECT.json` lists every component with its sources and its status, and under
`hazards` the places where the hard behaviour bites.

## 2. The modules

### TokenLedger, TokenWallet, TokenLedger_proofs

`TokenLedger` has one user's account row (`acct`), the ledger, the recharge
orders and the calls in progress. A call goes through the steps of the code: an
order for a recharge (`CreateOrder`, `MarkPaid`), `Read` at the top of the
retry loop (`ReadMissing` when there is no row), `Commit` - the conditional
UPDATE guarded by the version that was read and the ledger row, which are one
database transaction - or `Conflict`, which retries up to `MaxAttempts`, and
`RecordUsage`. `Fail` ends a call at any query with nothing written;
`CommitUnacknowledged` is the COMMIT whose acknowledgement is lost, so that the
caller is told "error" while row and balance are stored. `Tick` lets a gift expire,
also between a read and its commit. Accounts of different users share no row.

`TokenWallet` is what callers may rely on: a call that succeeds is one atomic
change on the balances of that very moment with one line on the statement, a
refusal is true when it is given, a call told "error" is either that change or
none, any other call changes nothing. `ImplementsWallet` maps the ledger to it.

### TaskEngine, TaskEngine_proofs

Durable state (`task`, `outbox`, `stream`, `lock`) and the process (`taskCh`,
`worker`, the publisher's `batch`, the sleeping and woken retries), with
`life` for the stages of a shutdown (`up`, signalled, channel closed, down).
Actions are the steps of `engine.go` between two queries: `Submit` (task and
outbox in one transaction), `PollOutbox`, `PublishToStream` or `PublishLocal`,
`MarkPublished`, `Deliver`, `Take`, `Acquire`, `Begin` (guarded against
cancelled rows), `Execute` (the handler or the breaker in its place), `Succeed`
and `Bury` (which the code leaves unguarded), `Reload`, `Increment`, `Reset`,
`Release`, `WakeRetry`, `Requeue`. `deployment` selects JetStream and Redis, or
the local bus and the map of mutexes. Faults share one budget: a crash, a
signal, a duplicate delivery, the expiry of a lock, a failing query, a failing
call of Redis, a failing publish, a cancellation. The failing calls have actions of
their own where the code goes on without them: `LockError` (SETNX fails and the
acknowledged task is dropped), `ReleaseFails` (the lock stays until its expiry, and
redeliveries meet it), `NoHandlerFails` (the dead letter is not written),
`BeginUnacknowledged` (the row says running, the worker was told an error). `lost` and
`expired` are history: why a task is no longer carried by anybody, and which locks
expired under a live holder.

### ImageBilling, ImageBilling_proofs

`GenerateImage` step by step: `CanConsume`, `Lookup` by key, `ChargeFee`,
`SubmitTask` (with a lost acknowledgement and the unique constraint as outcomes),
`RefundFee`, `Resolve`. `ChargeUnacknowledged` is the deduction that was committed and
reported as failed: the code answers "billing failed" and refunds nothing. A deduction
is one atomic step here, or an error after which it may have been done, which
`TokenLedger` justifies (`TokenWallet`). `creator` is the request whose task has a key.
The client may leave at any time; the refund does not depend on it. `ProcessDies` ends
all requests.

### WSHub

Run's select is one action per case (`Register`, `Unregister`, `Kick` - the
goroutine the broadcast starts for a slow client -, `Deliver`, `Stop`); the
pumps are `Disconnect`, `Write`, `WriterEnds`; `CopyTargets` and
`SendToTarget` are the two halves of `SendToUser`. A send on a closed channel
sets `life` to "dead": a panic ends the process.

### Breaker

`Pass`, `Probe` and the refusal are `beforeRequest`; `Return` is `afterRequest`
(closed: count and, with `Settle`, judge a full window; half-open: whoever
returns decides; open: count only). `elapsed` says that the timeout is over.
Its two theorems are at the end of the module.

### Sessions, Accounts, Accounts_proofs

`Sessions` begins with what the requests of one account share, and has the
account's requests and the operators' ban, query by query;
`Accounts` has the orders, notifications and extensions, composes both, and adds
time, failing queries and the death of the process. A request makes
at most one session and one order, which are named after it. `granted` is
history: the ticks paid for or given by an operator so far; an order counts once,
when it is extended for the first time. The guard's cached entry says with `late` that
the lookup which stored it had read the row before a ban that has come since.

### Chapters, Outline, Manuscript, Manuscript_proofs

`Chapters` begins with what the requests on one novel share. Chapters have
a row, a position, a text (named after its writer) and a title. It has
creation at the end and at a place - the shift is done in two statements
through negative positions, because PostgreSQL checks the unique index row by
row, which `Collides` states -, the reorder, the cache, the load, the snapshot
with its pruning, the save of the whole row, the deletion, and the agent's
`write_chapter`.
`Outline` has the bindings, the panel with its own copy, the save of the panel
with the synchronisation after it, and the bin. `Manuscript` has the rollback, the
marked version and the sweep, of whole novels bundles and the revert, and
composes all of it with failing queries and the restart,
which ends with the cleanup of chapters that no node binds. `alone` is history:
no other request overlapped this one. What the code does in a loop over a list of
chapters is a recursive function here (`Restored`, `Rebound`) and orders are
permutations given by ranks (`Sorted`), so that the proofs can speak of them; the
cleanup computes the new outline once, hence `\E o \in {...}` in `Restart`.

### Editor, Editor_proofs

`ed` is what a page holds in memory (tabs, the mounted editor, dirty flags, the
status shown), `vault` and `snap` its localStorage, `server` the stored texts;
`saves`, `loads`, `gens` are requests under way and `saveRetries` the timers of
`scheduleSaveRetry`. A text is the chapter it was written for and its last
keystroke. `work` is history, kept beside the flag `isDirty` that the code keeps: the
tab's text is `stored`, `unsaved`, `outrun` (unsaved when the answer to a save of an
older text cleared the flag) or `replaced` (a load or an older draft came over it).
React commits between two tasks of the event loop, so the effects of
a store change (`Commit`) belong to the action that made it. Closing the page
and opening it again keeps the localStorage alone.

### The panels of the page

Each has the state of the page, of its localStorage where it uses one, of the
server as far as the panel changes it, and the set (or sequence) of calls under
way. Every action is one task of the event loop: an event handler up to its
first `await`, or the rest of it when the answer comes. Answers come in any
order and may be failures; where the code tells a failure from a lost answer,
so does the model. Ids are numbers given by the server, texts are the number of
the keystroke or request that made them.

| module | code | state and main actions |
|---|---|---|
| OutlinePanel | outline-store, OutlinePanel, OutlineNodeEditor, the list of novel-store | `ol`, `olServer`, `olJobs`; create, bind, move, delete, load, save, publication marks |
| StoryPanel | StoryWorkflowPanel, story-store, story_service | the overview form with its pause timers and drafts; jobs, stages, verification, adoption under the job's lock; a creation may stop after a part of its steps (`CreateStops`) |
| MemoryPanel | memory stores, MemoryPanel, MemoryEditorModal, memory-access, agent_context | optimistic saves under a version, the cache, the form, edits of the outline on both sides; a gate evaluated by the page on its items and outline (`Verdict`) and by the server on those it has stored (`Resolved`) |
| VersionPanel | HistoryPanel, VersionCompare, temp-branch, history-client | the tab, the published copy, one automatic and two manual slots; snapshot, checkout, roll back, compare |
| Milestones | NovelVersionPanel, its store and client | list, milestone, restore and the refresh of open tabs |
| PublishPanel | PublishModal, publish-store, reader-client, publish_service | the work and its chapters by place; publish, batch, schedule, take back |
| WorldTree | WorldTreePanel, branch-store | a flat list shown as a tree; the agent adds branches |
| Foreshadow | ForeshadowTracker, HintBar, foreshadow-store, foreshadow_service | threads and candidates of two novels; detection, scan, hints with their throttle |
| DiffViewer | DiffViewer | the alignment as functions; its steps only choose the texts |
| AiTools | ai-store, sse-client, TipTapEditor, candidates, AigcCard, useAigcClues | completion, rewriting, candidates, runs and polls, clues and their cache |
| AiChat | ai-store, AIChatPanel, draft cards | sessions, streams, the stop button, cards driving a job; `busy` is of a component and its request, the card's status of the card, which is kept with its session |
| Gallery, TaskNotices | gallery-store, GalleryGrid; aigc-store, task-store | pages, filters, uploads, deletions; tasks with events, polls and notices |
| Shelf | novel-store, WorksBar, NovelOverview, tab-store | works, the current one, what the browser remembers |
| Socket, AuthClient, Billing | ws-client; api-client, auth-store; token-store, subscription-store | sockets per token; two pages sharing kept tokens, one renewal at a time; purchases and figures |
| MediaDesk | MediaEditorArea, MediaLibraryPanel, TitleFactoryPanel, TopicPoolPanel, media-store, media-client, media_service | `media`: list, fields, waiting patch and timer, with what the author last wrote; `pool`: topics and the copy in localStorage |
| Reader | ReaderPage, ChapterReader, ReaderInteractions, DiscoverPage, reader-client; interaction_service, interaction_repo, published_repo | `book`: a load per address and sign-in status, reports of progress; `talk`: the panel of remarks, with likes and follows statement by statement for two readers; `find`: the search with its timer and offset |
| Desktop | server-manager, main, the swap in database.go | `shell`: the main process, its flows and every process it spawned, with those started while another was alive (`beside`); `disk`: database, staged copy, and whether two servers were in the swap at once (`raced`) |

The panels share no state in these models: what one does to another is an input of the
other (the server's list may change, the chapter shown may be another). `MCWebClient`
puts the panels side by side, and a behaviour is of the part in focus. It extends the
parts that theorems are about - `PublishPanel`, `MemoryPanel`, `StoryPanel`, `Socket`,
`DiffViewer` - and has instances of the others. `MCSafety` and `MCLiveness` do
the same: the first with the task engine, the image requests, the editor and the shell,
the second with what must go on by itself, the breaker, the hub, the engine without faults and the
editor. What two parts promise together stands in the module of one of them, which has
an instance of the other: `Socket` of `AuthClient`, for `StaysSignedInAndConnected`;
`DiffViewer` of the two panels that use it, `VersionPanel` and `Milestones`, for
`TextCanBeBroughtBack`; `StoryPanel` of the four panels that like itself ask and hear,
`AiTools`, `Gallery`, `TaskNotices` and `Billing`, for `LateAnswersAreHarmless`.
`Client_proofs` has the proofs about the shell, the first three panels and these four,
`Accounts_proofs` those about `Socket` and `AuthClient` (the page's side of the
sessions), `Editor_proofs` those about `VersionPanel` and `Milestones` (what is poured
over an open tab).

## 3. The runs

| run | instance | what it shows |
|---|---|---|
| MCTokenLedger | 3 calls of any kind, units 1 and 2, 2 attempts, gift valid 1 tick, 2 ticks | The statement and the account reconcile, a call leaves one row exactly when it succeeds, and the optimistic protocol implements the atomic wallet. Two attempts make both a retry that wins and "busy" happen; three calls make two overtake a third. |
| MCSafety | Engine: 2 tasks, 2 workers, channel of 1, 1 retry, 1 slot, 1 fault of 8 kinds, both deployments, one task without a handler. Images: 3 requests of 2 users on one key, 1 paid and 1 gift unit each, 2 faults. Editor: 2 chapters and a panel's tab, 4 events (typing, switching, closing, reloading, drafts, failures), 1 save in flight. Shell: 3 events, 1 restart by the guard | One runner per task, one retry budget, nothing lost but by the named exits, a cancelled task not taken up again; money conserved, a request that ended pays only for a task it made but for two named exits, no task is free; unsaved text has its local copy, a status shown is backed by a request or a timer; what quitting and a cut restore may leave. One place in the channel makes "full" happen with two tasks; one fault at any step; four events of the editor: open, type, fail, and fail again or type again. 1.35 million states. |
| MCLiveness | Breaker: 4 callers, window 3, threshold 50 %. Hub: 2 clients of 1 user, 1 sender, buffers of 1, 2 pending broadcasts, 2 broadcasts, 1 send. Engine: as above, but a channel of 2 (a dropped task never ends, section 5), both tasks with a handler, cloud, one cancellation, releases that do not outlast a redelivery (`SlowRelease`). Editor: 1 chapter and a panel's tab, 4 events | A half-open circuit is decided, with calls that outlive the state that let them pass; broken clients leave, pumps end, broadcasts drain; every submitted task ends, retries included; text that a timer holds is saved in the end, also when a retry fails again. |
| MCWSHubPanic | 2 clients of 1 user, 1 sender, 1 broadcast, 1 send | Violated, finding 1. |
| MCAccounts | an earlier login and 3 requests of 15 kinds, 2 at a time, 1 device, sessions and trials of 1 tick, 1 fault or crash | Rotation is linear, a cooling account is quiet, no time is for free, a ban is seen. |
| MCManuscript | 2 overlapping requests of 15 kinds, 4 chapter ids of which 2 exist, 1 automatic version kept, 1 fault or restart | See below. |
| MCWebClient | 22 parts of the page, each with its own bounds (2 to 5 events, 2 to 4 entities, 2 pages) | See below. 1.28 million states, the sum of the parts. |
| PublishBatch | 3 chapters, 4 events | Violated, finding 2. |
| CancelledRow | the engine as above, one cancellation and no other fault | Violated, finding 3. |
| LossWindow | the editor with 2 chapters, 4 events | Violated, finding 4. |
| RollbackUndo | the versions of 2 chapters, 4 events | Violated, finding 5. |
| DesktopQuit | the shell with 3 events | Violated, finding 6. |

MCManuscript starts from four states: two chapters bound in order with a version
of the novel and of the first chapter, the second in the bin or not, a planned
node in front or not. So every pair of operations meets in a state in which it
does something, although only two requests come. It shows that no request that
runs alone ever violates the position index, that the word count is behind only
while somebody is about to refresh it, that what a rollback overwrites is among
the versions, that a panel save that is alone
leaves live single bindings in chapter order, and that the cleanup spares what
is bound.

MCWebClient states ten properties of the page as a whole; each conjunct is
about one part and is broken by a change in that part alone.

- `BusyIsHonest`: a spinner or a disabled button is backed by a call or a timer
  that will take it back. Every part with an async handler is exposed: an early
  return, a `catch` without the reset, or two overlapping calls with one flag. Two
  spinners of the draft cards do stay: that of a card whose first stage failed, and
  that of a card read back from localStorage. The property names both.
- `ChaptersFollowOutline`, `OverviewIsKept`, `PublishedIsABeginning`,
  `ShownIsTrue`: what two stores, or the page and the server, hold about one
  thing agree, through answers in any order.
- `GatesFailClosed`: what the server stores behind a hard gate is read only at a place
  that its gate names in the server's outline, in every state; and a page that is in
  step with the server - its version and outline, no save out, failed or crossed since
  the last load - says of every item at every place what the server gives the AI. Out
  of step the page may show shut what the server opens.
- `DiffIsFaithful`: over all pairs of short texts the rows read back as both
  texts, with the limit of cells met.
- `TextCanBeBroughtBack`, `LateAnswersAreHarmless`, `StaysSignedInAndConnected`:
  what a step may not do. They hold for one page alone; where a second page or
  a lost answer breaks them the model has the case, the property excludes it,
  and section 5 says what happens. The first leaves out the comparison's rollback,
  which finding 5 is about, and what is typed while the answer is out.

`ShellKeepsServerAndData` (MCSafety): an app that has gone leaves no server
alive that was not told to end, except one that was started beside another by a
restart (finding 6) or a boot that was given up; a swap cut in two loses neither the
database nor the copy, unless two servers were in the swap at once.

Deadlock is switched off where the instance simply runs out of requests.

### Bounds

Every bound is a constant: the sets of calls, requests, tasks, workers and clients;
`MaxAttempts`, `MaxTime`, `GiftValid`; `ChanCap`, `MaxRetries`, `RetrySlots`,
`MaxFaults`, `MaxImgFaults`; `Buffer`, `Pending`, `MaxSends`, `MaxBroadcasts`; `Window`,
`Threshold`; `MaxSessions`, `SessionTTL`, `TrialTicks`, `Periods`; `MaxInFlight`,
`AutoKeep`; `MaxEvents`, `DeskMaxEvents`, `MaxPolls`, `MaxRestarts` and the number of entities of each
panel (`MaxChapters`, `MaxThreads`, `MaxSockets`, `MaxTokens`, ... in `MCWebClient`).
Parts that one module brings together have their events apart: `PubMaxEvents`,
`MmMaxEvents`, `StMaxEvents`, `AuthMaxEvents`, `HistMaxEvents`, `MileMaxEvents`,
`ToolMaxEvents` and `ToolMaxPolls`, `GalMaxEvents` and `GalMaxPictures`, `NoteMaxEvents`
and `NoteMaxPolls`, `BillMaxEvents`. A panel's events are the user's; answers are not
bounded but by the calls that were made. The code's own limits (five attempts, channel
1000, three devices, fifty versions) are parameters too, set to 1 or 2, so that the
limit is met. Symmetry is used in runs that check safety only.

### Fairness

In MCLiveness each part has the fairness of its own module while it has the focus.

- TaskEngine: weak fairness of the publisher, the delivery, the workers and the
  retry goroutines: Go runs goroutines that can run, and the broker redelivers
  what is not acknowledged. Nothing is promised about faults, and a send that
  may fail is not assumed to succeed.
- WSHub: weak fairness of each case of Run's select, because Go chooses among
  the ready ones at random; of a write pump whose channel is closed; of a read
  pump whose connection is closed.
- Editor: weak fairness of each autosave and retry timer and of the answers: the
  browser runs timers that are due, and every request of the client has a
  timeout. A failed save is an event of the instance, so it happens at any time
  but not for ever: `UnsavedIsSaved` is about what follows when the server
  answers again.
- Breaker: time passes, requests keep coming, and every guarded call returns
  (each has a timeout). Without requests an open circuit stays open for ever,
  by design.

### Findings

1. `NoSendOnClosed`: SendToUser may still send on a channel that Run has closed
   (`websocket.go:293`), which kills the process.
2. `RefusedForAReason`: a batch of adjacent chapters is published only in its
   first chapter; the rest are refused because the loop never adds what it has
   published to the set it tests (`PublishModal.tsx:157-168`).
3. `CancelledIsTerminal`: a task cancelled while its handler runs becomes a success
   or a dead letter, because these two updates have no guard (`engine.go:313`, `411`),
   although `task_repo.go:57-59` and `engine.go:184-186` say its result is discarded.
   What does hold is `CancelledNotRevived`: nobody takes it up again.
4. `LossWindowIsBacked`: the answer to a save drops the local draft and the flag even
   when more was typed since (`editor-store.ts:68`), so that this text is in no timer, no
   draft and no request, against "the window of a crash's loss is 15 s"
   (`EditorArea.tsx:34-36`). Until then `UnsavedIsBackedUp` holds.
5. `RollbackKeepsTheDraft`: the comparison's rollback puts aside the server's text, not
   the unsaved text of the tab it replaces (`VersionCompare.tsx:96`), against the
   comment and the toast beside it (lines 92 and 99).
6. `QuitKillsServer`: after a restart that was asked for there are two servers, one
   started by the crash guard and one by `restart()`; and while a quit waits for the
   server a restart starts another beside it. The app goes and leaves one
   (`server-manager.ts:62` and 114-131, against line 12).

## 4. What is proved

`TokenLedger_proofs` proves, for every finite or infinite set of calls, every
set of positive units and every number of attempts, that

- `TypeCorrect`: Spec => []TypeOK, in particular balance and gift stay natural
  numbers, so the CHECK constraints of migration 013 never refuse a statement;
- `Reconciliation`: Spec => []LedgerReconciles;
- `ExactStatement`: Spec => []StatementExact;
- `OneRow`: Spec => []OneRowPerSuccess: success means one row, a refusal none, an
  error at most one.

Type correctness is not inductive: a Consume subtracts what it computed from an
older row. The invariant `LInv` adds that a call about to commit either has been
overtaken (its version is lower than the row's, so its guard fails) or has seen
the very row that is stored, whose balance covers the paid part. That is
exactly what the version guard is for. The other three rest on it. The
assumptions are those the module declares: units are positive, there is at
least one attempt, times are natural numbers. One step per action; facts used
by several actions are lemmas.

`Refinement`: Spec => ImplementsWallet, is proved under the same assumptions. Its
invariant `RInv` is `LInv` with "nothing is on an account whose row has not been
created": a Consume that finds no row is refused for want of tokens, and that refusal is
true only because of this conjunct. Then every step is mapped. A commit is the wallet's
step: `LInv` says that its guard can only hold on the row it has read, so what it writes
is what the wallet computes from the balances of this very moment, and a commit whose
acknowledgement is lost is the wallet's error that was carried out. A refusal is the
wallet's refusal, because it is given in the step that reads the row. Any other read of
a Consume or a Credit is the wallet's look at the clock (which decides whether the gift
still counts). Conflicts that retry, the reads of a grant and the steps on the recharge
order leave the wallet unchanged.

`Breaker` proves, for any number of callers, any window and threshold,
Spec => []TypeOK and Spec => []WindowBounded. The invariant `BInv` adds what the
half-open state holds: at most one late result of each caller, counted while the
circuit was open, because the probe is let through without clearing the counters.

`TaskEngine_proofs` proves, for any sets of tasks and workers, any capacity, retry
bound, number of slots and number of faults, in both deployments,

- `OneRunner`: Spec => []OneRunnerPerTask;
- `Retries`: Spec => []RetryBudget;
- `NothingLostSilently`: Spec => []NoSilentLoss;
- `CancelledStays`: Spec => CancelledNotRevived.

The invariant `IInv` has three parts beside the types. `LockInv`: a worker past
the acquisition has the lock or its lock expired, and whoever has a lock works
on that very task. `BudgetInv`: a worker about to count a retry has seen the
present count, which is below the bound; it needs `LockInv`, because another
worker with the same task would count in between. `CarryInv` strengthens "on its
way": a worker that only has to release the lock carries nothing any more (or
its release would be a loss), the outbox row of the record just published counts
only once the process is gone (or the mark would be), a running task is with a
worker between the update and the outcome (or a wakened retry that finds the row
running would drop it), and a row that does not exist has no record. A dropped
delivery is harmless exactly when the holder of the lock is at work on the same
task, which is `LockInv` again. The exits are those of `NoSilentLoss`: a full channel, a
failed record, a full set of retries, a shutdown, a crash after the acknowledgement, a
query that failed, a lock store that did not answer, a lock that somebody dead or
departing still had or could not give back. One lemma per group of actions and part.

`ImageBilling_proofs` proves, for any finite set of requests, owners and keys, any
balances and number of faults, `Conservation` (MoneyConserved), `FeeBuysATask`
(PayOnlyForATask) and `TaskCostsAFee` (NoTaskForFree). The balances are related to
the requests by cardinalities of the sets of requests that have paid from each
part of the wallet, so the invariant names these sets; each step moves at most
one request between them. `FeeBuysATask` leaves two ways to pay for nothing, which the
code has: a refund that failed or was never reached (`owed`), and a deduction that was
committed though it was reported as failed (`unsure`), answered with "billing failed".

`Accounts_proofs` proves, for any set of requests of any kinds, any device limit,
lifetimes, periods and number of faults, whether requests overlap or not,

- `Rotation`: Spec => []RotationIsLinear;
- `Cooling`: Spec => []CoolingIsQuiet;
- `Ban`: Spec => []BanIsSeen;
- `NothingForFree`: Spec => []NoFreeTime.

None of them is inductive. The invariant `IInv` has, beside the types, the course
of a request - which kind may be at which query (`Course`) - and that what it
works on is there (`Grounded`): the session presented has been made, so the
deletion of `Consume` makes it "gone" and nothing makes it live again, because
only the request it is named after inserts it, once. `RotationInv` counts a
refresh as having won from the deletion that succeeded, not only from its new
session on: between the two are the reload of the user, the count and the
eviction, where another refresh of the same token could slip in if the number of
rows deleted were not looked at. `CoolingInv` says who owes the revocation: the
deregistration between its two writes, or one that died or failed there. Most
steps are alike - one request moves on, sessions only end, nobody sets the
account cooling - and `Step` states this once; `StepKeeps` shows that such a step
preserves the invariant, and one lemma per group of actions shows that they are
such steps. The insertion, the deregistration and the crash are shown by
themselves. `BanInv` says for `Ban` who owes the invalidation: a ban between its update
and its Invalidate, or one that was told its update had failed. It rests on their order
- the other way round, a lookup could fill the cache between the two and stay - and on
the invalidation being made at all; a lookup that had read the row before the update
is marked when it is overtaken (`late`), and excused for the 60 s its entry lives.

`NothingForFree` takes two more. `Within` bounds all that a request has read:
neither the clock it saw nor the expiry it found may be later than the clock, the
trial and what has been handed out, because the extension is computed from these
old values. `Once` is why an order counts once: of the requests that try to mark it
paid one wins, and nobody else is between the mark and the extension of that order;
and a request has placed its own order before anybody can read it. The theorem
holds for requests that overlap and lose one another's extension: those lose time.

The module ends with the page's side of the sessions, for any set of pages and any
number of tokens, sockets and events. `EventsAreNeverCutOff`: LinkSpec =>
[]NeverCutOff. `LinkInv` says that a page that wants the events holds a socket of the
token of the moment, which is not closed or has the timer of the next, and that a page
that wants none holds none, has no timer, and lets its sockets close without setting
one - `intentional` is what a late close of an old socket is told by.
`SessionsOutliveTokens`: Auth!Spec => Auth!ExpiryIsSurvived. Until there is an excuse (a
second page, a sign-out, a lost answer) `AuthInv` has one page open, one renewal out at
most, and that one with the token the page has and the server takes, or answered with
one that it takes; the question "who am I" of a session checked for the second time
carries a token that has not expired, because no second renewal follows it.
`NobodyWaitsForNothing`: Auth!Spec => []Auth!WaitingIsWoken, the sign-in's part of
BusyIsHonest, for pages that share and lose tokens too: whoever waits on a page has a
call of that page out (`AuthWoken`). `SignedInAndConnected` joins the first two
(StaysSignedInAndConnected).

`Editor_proofs` proves, for any chapters, any other tabs and any number of events,
`TypeCorrect`, `NothingUnsavedIsLost` (UnsavedIsBackedUp) and `HonestStatus`
(StatusIsHonest). "Unsaved" is not the code's flag but the history of the text
(`work`): the very text the tab holds must be the one localStorage would give back. That
is not inductive by itself: the draft is dropped by whatever finds the tab clean, a tab
that is closed takes its draft along, and a page may come back to a tab. `Sound` adds
that unsaved text is dirty, that the active tab is open and that a tab that is not open
holds nothing unsaved and says nothing of a save, so that closing may forget and opening
starts anew. Text that the answer to a save of an older one has outrun is the case in
which it does not hold (finding 4), and is named so.
`Honest` ties "saving" to a request and "error" to a timer, for each chapter; a
retry that fires starts its request in the same task of the event loop, which is why
no state lies between. The operators of the store (`OpenTab`, `SetActive`,
`CloseTab`, `UpdateTab`, `Commit`) have a lemma each, and the steps are made of them.

`Editor_proofs` goes on with the two panels that pour a stored text into an open tab,
for any number of events of either. `RestoresCanBeUndone` is about the versions of a
whole novel: `MileInv` says that the text of the newest keystroke, while it is unsaved,
is in no version and not the server's draft, and that a restore asked for when the
server had the text still finds it there, as the draft or in a version, until something
is typed. `RollbacksCanBeUndone` is about the versions of one chapter, where a rollback
asks the server for the present text, keeps it in the automatic slot, asks for the
checkout and only then pours. `HistInv` follows a chapter through all of this, as long
as nothing of it is lost: from the checkout until the text is in the tab the draft is
the published copy, and at any other time what a clean tab shows; what a restore or a
rollback asks about the tab is answered with the tab's text, unless another request is
pouring; and what a checkout is about to replace is in the slot. That a call's number is
its own, and that a refresh is only asked for by a comparison, completes it. Two cases
are left out because the code loses the text in them: the comparison's own rollback
(finding 5), and what is typed between the request and its answer.
`ReplacedTextCanBeBroughtBack` joins the two (TextCanBeBroughtBack).

Both attempts corrected what was claimed. With more events than the run has,
`RestoreIsUndoable` and `UndoIsKept` were false: a restore that was asked for before
a keystroke, and a save that crosses a rollback, which takes the slot that the rollback
has filled. The model now says of a restore whether the server had the text when it was
asked (`saved`, `typed`), and a save or a second restore that crosses a rollback counts
as one of the ways in which a text is lost (`Crossing`, section 5).

`Client_proofs` proves of the desktop shell, when the number of events is a natural
number, `ServerAndDataAreKept`: DeskSpec => []ShellKeepsServerAndData. Two servers at
once are the ordinary case after a restart (finding 6), so the invariant `IInv` speaks of
them one by one. `Alone`: a server that has never been beside another is the only one,
and it is the child or has been told to end. `Waits`: whoever waits for the end of a
server waits for one that is alive and was told to end, each for its own, and only a
stop waits to quit. `Stopping`: "stopping" has a quit that waits - without it, quitting
could leave the child it no longer knows. For the restore, until two servers have been
in the swap at once (`raced`): the database is missing only between the two steps of
the swap, while the copy is there (`Swapping`), and a server at these steps has no other
there or about to open the database (`AloneInSwap`) - whatever other servers run.

Then of seven panels of the page, each for any number of events:

- `ReadersSeeABeginning`: PubSpec => []PublishedIsABeginning, for any number of
  chapters. What readers see is decided by what the page knew when it asked, so
  `PubInv` says, until the author disturbs a call under way or an answer is lost: one
  call is out at most, the server's chapters are those the page knows with those the
  batch has published and the one the call has, a chapter of a batch has all before it
  published, a chapter taken back is the last, and a load brings what is there.
- `GatesAgreeAndFailClosed`: MmSpec => []GatesFailClosed. `GatesAgree` is the
  statement about one gate at one place of any outline: both sides decide alike, and
  open a hard gate only where it names the place. `MmInv` has it that every item
  on the page, in the cache, on the server, in the form and in a call has a gate of
  that kind. `MmTogether` says when the page's items are the server's: the version is
  the server's, no save is out and nothing crossed; a load still out brings what the
  server had with its version, and the one save out sends what the page shows.
  `MemoryWaitsForAnAnswer` (MemoryBusyIsHonest, the memory's part of
  BusyIsHonest) is inductive beside these types.
- `OverviewSurvives`: StSpec => []OverviewIsKept, and `NoKeyIsAdoptedTwice`: StSpec =>
  []KeysAreDistinct (its part of LateAnswersAreHarmless). A generation writes back the
  whole row that it once read, so `StInv` says of every row that a request carries that
  it records no key twice, not only of the stored ones; under the job's lock an
  adoption reads the row it extends.
- `CancelInterrupts`: Tool!Spec => Tool!CluesAreNotLate /\ [](Tool!ToolBusyIsHonest /\
  Tool!CancelledIsNotApplied), for any number of polls and novels. `ToolInv` ties every
  flag of the page to a request that is out, and a result to be applied to a task that
  has not been stopped.
- `PicturesStayInSight`: Gal!Spec => Gal!OnlyTheDeletedDisappear /\
  [](Gal!GalleryBusyIsHonest /\ Gal!ShownBelongsToFilter), for any number of pictures.
  `GalInv` says what a call may still say when it is answered: an answer of the list of
  the present epoch is of the present filter, one deletion is out at most, the selection
  it was asked for has not grown under its dialog, and what a deletion says is gone stays
  gone, although the server stores and deletes in between (`GalGrows`).
- `NoticesAreTrue`: Note!Spec => Note!NoticesOutliveTheirTask /\
  [](Note!NoteBusyIsHonest /\ Note!NoticesTellTheTruth), for any number of tasks and
  polls. What the page, a poll, a list or a pushed event says of a task is behind the
  server or level with it, and an end, once reached, is not left.
- `BoughtMeansPaid`: Bill!Spec => Bill!BoughtIsShown /\ []Bill!BillBusyIsHonest. An
  amount read before the order was paid is never the one that "bought" waits for.
- `LateAnswersDoNoHarm` joins what these four and the story panel promise
  (LateAnswersAreHarmless).

`Manuscript_proofs` proves, for any requests (of any number and kinds, overlapping as
they like), any finite set of chapters of which any are there first, any number of
versions kept and any number of failures and restarts,

- `TypeCorrect`: Spec => []TypeOK;
- `BoundChaptersSurvive`: Spec => CleanupSparesBound;
- `CountIsCaughtUp`: Spec => []CountCatchesUp;
- `RollbackKeepsText`: Spec => RollbackIsReversible;
- `NoConflictAlone`: Spec => []AloneNeverConflicts;
- `SavedOutlineOrders`: Spec => OutlineOrders.

`TypeOK` is more than types. The live positions of the table - and of every book a
request carries or a version holds - are apart (`Apart`), which is what the unique
index promises and what each shift, reorder, revival and restoration has to keep; a
request is at a query of its own kind (`Course`) and carries what that query needs
(`Carries`); the version it goes back to is there (`Backed`). The cleanup needs the
positions apart, because it reorders what it leaves. `Caught` adds to the word count
that a rollback about to save has left a version that is not automatic, which neither
pruning nor the sweep removes; a checkpoint kept as an automatic version would break
it. `Alone` says what a request that nothing overlaps finds at its write (`Solo`): the
place it chose is free, the rows it has to shift are all the rows behind that place,
the ids it was given are all live chapters, the row it read still stands where it
stood, the version it restores fits beside the chapters as they are (`VersionFits`,
by induction along the list of chapters put back), and outline and book are as it
read them. That the index is not violated follows at each of these writes, and so
does the order after an outline save: the ids are a permutation of the live
chapters, bound ones first, in the order of their nodes (`OutlineOrder`, `Reordered`).
`Alone` was checked by TLC as an invariant before it was proved.

Facts about a recursive function (one shift after the other, one chapter put back
after the other) are proved by induction over its argument: a set of numbers
that has 0 and all successors is Nat (`Induction` in `Manuscript_proofs`, from the
well-foundedness of <), applied to the set of numbers for which the fact holds.

### Only model-checked

- Liveness: `EveryTaskFinishes`, `HalfOpenEnds`, `UnsavedIsSaved`, and WSHub's
  `BrokenIsRemoved`, `PumpsEnd` and `BroadcastsDrain`. The provers have no rule for
  fairness and ENABLED.
- WSHub's `NoSendOnClosed`, which does not hold (finding 1).
- `ChaptersFollowOutline` and `DiffIsFaithful`: the order of a list after it was filtered
  and sorted, and an alignment found by a table over both texts, are inductions over
  data.
- `BusyIsHonest` and `ShownIsTrue` as wholes: sums of what a dozen modules promise, each
  over records of its own. Proved of them are the parts of the memory, the sign-in, the
  AI tools, the gallery, the notices and the bills. Several of the other lists are
  filtered as sequences (SelectSeq), which takes an operator.

## 5. Not modelled

- Components marked `not_modelled` in `PROJECT.json`: the AI proxy's single calls,
  import and export, files of pictures, counters, presentation, the AI service, pure
  conversions and infrastructure. They are one pass over data, one request, or
  input and output, without a protocol of their own.
- TokenLedger: listing calls. Engine: what handlers do beyond success or
  failure, and the broker's retention limits.
- Accounts: the demo account, promotion of admin phones, password hashing,
  signatures of the payment channels, grace and dormant states (derived).
- Manuscript: volumes, titles and statuses a save may change, the memory
  document, the merging of acts of like titles, the version check only the
  agent sends, and SQLite, where positions have no unique index.
- Publishing: the content check of comments, notices of new chapters, the
  author's figures and emotion curves; positions inside a chapter, which are
  reported but never restored. Agent: the tool loop and its bill.
- Editor: toolbar, slash menu, mentions, images in the text; localStorage takes
  every write. Page: speech input, profile form, thumbnails, layout.
- Desktop: the updater, the configuration file, the hours of the backup schedule.

### Observations without a run

Met while modelling and not (yet) stated as properties:

- Engine: a task dropped because the channel was full is never swept up; a
  failed outbox record is never retried; Stop closes the channel under its
  senders and main exits without draining; a duplicate delivery runs a finished
  task again; the publisher's Start returns the context's error, so that a
  graceful shutdown exits with status 1; a task whose lock could not be asked for, or
  given back, is dropped or blocked without a word (`engine.go:270-274`,
  `dlock.go:108-111`).
- Money: `balance_after` of a credit is computed from a gift that may have expired by
  the commit (`token_repo.go:132`); a deduction that was committed but reported as failed is
  neither refunded nor turned into a task (`aigc_handler.go:235-242`); a recharge is
  paid and uncredited when the credit fails; a dead-letter image is not
  refunded; a repeated image request is answered 402 when the balance is used
  up; an AI answer that costs more than the balance is delivered uncharged.
- Accounts: a paid order is marked fulfilled before the subscription is
  extended and never retried; a deregistration that failed half-way is refused
  when repeated; a cooling account cannot cancel.
- Manuscript: requests that overlap may clash in the index on positions - a save that
  writes back the position it read before a shift, two creations at one place - and one
  of them is answered with an error; a binned chapter that a full revert has revived is deleted for
  good when its bin record is purged; a full revert does not restore the
  positions of surviving chapters; a save brings back a row deleted in between; the agent
  appends to cached text; a panel save without a version undoes a binding made
  meanwhile, and the cleanup at the next start deletes that chapter.
- Accounts: the device limit counts unexpired sessions and evicts the oldest of
  all (`user_session_repo.go:83`), and two logins that overlap may both find room; a
  login past its status check gets a session although the account has begun to cool
  (`auth_service.go:510`), and a revocation that failed leaves the sessions there were;
  a lookup of the guard that read the row before a ban stores "active" after the
  invalidation, for 60 s (`user_guard.go:50`); two overlapping extensions of a subscription
  overwrite each other (`subscription_service.go:126`).

On the page and in the shell:

- Editor: the flush of an unmounting editor writes the old chapter's text into
  the tab that has just become active; a save's success outruns what was typed
  since (finding 4); nested chains of retries never reach the limit,
  so the offline banner never appears; "reload" after a failed load fetches
  nothing; a draft in the vault is never restored through `openTab`; a failed
  `fetchChapters` prunes tabs without a flush; a generated chapter that comes
  late replaces the text of another.
- Outline and shelf: a failed save is forgotten; concurrent PUTs of the outline
  are unordered; a double click creates two chapters; answers of
  `fetchChapters` for another novel are applied under the visible overview.
- Story: the answer of a save for another novel replaces a newer draft; the
  answer of an AI fill goes into whichever form is shown; a double click creates
  two jobs; a deleted job is brought back by a whole-row save.
- Memory: the mode "default" never lifts a gate; two quick commits refuse one
  another and lose the edit; a failed load shows the cache under the present
  version, and the next save overwrites what another device wrote; "saved
  locally, will be synchronised" is never synchronised.
- Versions: the comparison's rollback drops an unsaved draft (finding 5); what is typed
  while a rollback's answer is out is poured over and kept nowhere; a save that crosses
  a rollback undoes it while the tab says "saved"; after a lost answer the next rollback
  overwrites the automatic slot. Refreshing the whole novel overwrites unsaved typing
  that no version has (`NovelVersionPanel.tsx:236`).
- Publishing: the server does not know the rule of the prefix; unpublishing
  during a batch, or a lost answer of a publication, leaves a gap.
- Reading: two overlapping toggles of one like (the button has no busy flag), or
  one cut between the mark and its count, leave a wrong count for good
  (`interaction_service.go:158-181`); adopting a remark that its author has
  hidden meanwhile brings it back (`interaction_service.go:202`); the last report
  of a chapter may arrive after the first of the next, and the work resumes in
  the old one; while the sign-in is being checked progress is kept in the browser
  (`ChapterReader.tsx:220`), which the server's older place then overrules; a
  follow answered after the session has ended is shown to a guest. Searching: the
  answers of two queries mix, "more" asked for after typing appends to the old
  list, a failed search leaves the old works under the new words, and either kind
  of answer ends both spinners (`DiscoverPage.tsx:58-65`).
- AI: an inline suggestion for another chapter is inserted by Tab though it is not
  visible; the comparison opens after an aborted stream; `cancelMessage` aborts only the
  latest stream; an answer is appended to the session shown and kept under the one that
  asked; a card whose first stage fails stays "running" (`DraftConfigCard.tsx:74`), and
  while that stage is out its buttons can be pressed, because they wait only for the
  requests of their own component; an old novel's clues are used until the new ones are
  loaded.
- Tasks and gallery: any success event takes back "generating" though another run
  polls; a cancelled picture is polled for five minutes; a late answer revives a
  notice; an upload goes into whichever filter is shown; a page in flight brings
  a deleted picture back.
- Media desk: choosing another content within 800 ms of a change (300 ms of a
  keystroke) drops it and says "saved" (`MediaEditorArea.tsx:48-57`); a failed
  save says "saved" too, because `saveContent` swallows the error its caller
  catches; a rewriting that comes late goes into the content shown by then; a
  content whose deletion failed is gone from the page; a new one is first on the
  page and last on the server; an order that names other contents than the
  server's is refused and nobody hears of it; overlapping saves write whole
  rows, one of which may bring back a deleted content; two saves of the topics
  may arrive in either order.
- Foreshadow: switching the novel resets nothing, candidates can be adopted into
  another novel; a scan resolves threads abandoned meanwhile and brings deleted
  ones back (`foreshadow_service.go:271-272`); a failed hint looks like "all
  fine".
- World tree: deleting a leaf of an older list orphans the agent's children,
  which are shown at the root; deleting a subtree takes branches nobody has seen.
- Session: a failed refresh by a network error signs out; two pages share one
  single-use refresh token, and one of them is signed out; a refresh answered
  after the logout puts the tokens back; an open socket keeps an old token.
  Billing: an order that is paid is reported "failed" when the balance after it
  could not be fetched.
- Shell: a restart that was asked for ends with two servers, of which the shell
  forgets one when the other ends (finding 6); an ordinary restore is such a restart, so
  two servers may be in the swap at once, and the second then removes the database that
  the first has put there (`database.go:148`); a boot
  that times out leaves the child; after the five seconds of a kill the old
  process may answer `/health`, and "restored" is said though nothing was; the
  snapshot before a restore is never listed, though `main.ts:281` promises it.

## 6. State of the plan

Modelled first because money, tasks and manuscripts are what users lose: the
ledger, the engine, billing, hub and breaker, accounts, manuscript; then the
page - editor, panels, sign-in - and the shell. Left, in this order:

1. The bin and the revert against each other: that the bin destroys nothing
   live, which does not hold (section 5), as a run with its finding.
2. The AI proxy's JSON and SSE calls with the breaker and the wallet.
3. Two pages of one author against one server: the editor and the panels share
   no state here, and several observations above are about their borders.

Abstract specifications worth stating: the wallet (done); an at-least-once
queue with one runner for the engine; a set of ordered chapters for Chapters.

Theorems worth proving next: the other parts of `BusyIsHonest`, panel by panel, as it
was done for the memory, the sign-in, the AI tools, the gallery, the notices and the
bills; that the requests on chapters implement a set of ordered chapters for a request that
runs alone.
