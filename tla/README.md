# media-bot-v2 in TLA+

media-bot-v2 is a Telegram bot that downloads media for its users: a user sends
a link, the bot downloads it with one of several engines, converts and splits
the result, sends it to the chat and charges the user for what was delivered.
It is one Python process. Almost everything runs as coroutines on one asyncio
event loop; blocking work runs in worker threads; users, settings and the
archive cache are in one SQL database.

This directory models the parts of the bot whose correctness depends on order:
which awaits interleave, what a failure or a cancellation in the middle leaves
behind, and what two requests do to the state they share. The modules are
checked with TLC on small instances; every safety property of every one of them is also
proved with TLAPS, for every value of the constants.

All source paths below are under `src/`; module names of the bot are relative to
`src/media_bot_v2/`.

## The system

| Component | Code | State | Operations |
|---|---|---|---|
| Credit ledger | `credits/service.py` | `users.free`, `paid`, `bandwidth_used` | check, charge, add bandwidth |
| Download pipeline | `pipeline.py` | locals of `run`: delivered sizes, charged flag, archive ids | one request, from quota check to cleanup |
| Archive cache | `cache/video_cache.py` | rows by key | get, put, delete |
| Concurrency limiter | `queue/limiter.py` | two levels of `asyncio.Semaphore` | `slot` |
| Request router | `telegram/router.py` | registry of running tasks, pending menus, confirmations and scans | link handler, button presses |
| Retry store | `telegram/retry.py` | contexts by id and by message | put, get, remove, expiry |
| Progress reporter | `telegram/progress.py` | terminal flag, sequence number, edit lock, deferred retry | update |
| Parallel upload | `telegram/parallel_upload.py` | lanes, queue of parts, lane limit, slots | upload of one file |
| Uploader, flood waits | `telegram/uploader.py`, `flood_wait.py` | attempts of one call | send, send album |
| Provider health | `providers/health.py`, `registry.py` | failures and cool-down for each provider | record, order, fall back |
| HLS engine | `engines/hls.py` | window of segments, batch, gaps | download live or recorded playlists |
| Cancellation token, worker threads | `engines/base.py`, `executor.py` | flag, callbacks | set, subscribe, run in a thread |
| Error reports | `telegram/error_report.py` | duplicates seen, budget of the minute | report |
| Splitter, media processing | `upload/*.py` | files | split, probe, convert |
| Other engines, provider clients | `engines/*.py`, `providers/*.py` | none that lasts | download |
| Menus, texts, settings | `telegram/*_menu.py`, `texts.py` | user settings | presentation |
| Start-up, configuration, persistence | `bootstrap.py`, `config.py`, `db/` | tables | start, sessions |

How they interact. A link reaches `url_handler` of the router, which answers with
a quality menu, a question about a live window, or a status message with a cancel
button. `_execute_download` takes a slot of the limiter, creates a task for
`DownloadPipeline.run`, registers it under the status message for the cancel
button and waits for it. `run` checks the ledger, re-sends an archived result or
calls an engine, processes the files, uploads them through the uploader (which
reports to the progress reporter), records the size and the bandwidth of every
part, copies parts to the archive channel, charges the user, and stores the
archive ids in the cache. A failure worth repeating leaves a context in the retry
store and a button in the chat.

What is hard about it, and what makes each part correct:

- *Pipeline and ledger.* A request may fail or be cancelled at any of about a
  dozen awaits, and whatever happens the user must be charged once, for exactly
  what was delivered; the charge itself may fail. Requests of one user overlap.
- *Cache.* Two requests for one link serve, delete and rewrite one entry; an
  entry must always stand for a whole result.
- *Limiter.* A job holds a user's slot while it queues for a global one, and may be
  cancelled before, at and after the moment it is granted a slot: no slot may be
  lost, no waiter forgotten, neither cap exceeded.
- *Router, retry store, reporter.* Every button can be pressed twice, late, or
  while another handler works on the same message; the registry and the stores
  must find the right request, and the message must not lie about it.
- *Parallel upload, HLS, token, reports, health.* Lanes, threads and concurrent
  reports share small counters and queues; the failure of one must stop or spare
  the others as the code intends.

`PROJECT.json` lists all components with their status, and under "hazards" each
place where one of these can go wrong, with the property that would notice.

## Modules

| Module | Models | Checked by | Proved in |
|---|---|---|---|
| `Credits` | the ledger, as operators that other modules call in their steps | runs of `Pipeline` | `PipelineProofs` |
| `Pipeline` | `DownloadPipeline.run`, any number at once, with ledger and cache | `MCPipeline` | `PipelineProofs` |
| `Slots` | what the limiter promises | as a property of `Limiter` | `LimiterProofs` |
| `Limiter` | `slot` down to the semaphores' queues | `MCLimiter` | `LimiterProofs` |
| `Requests` | the router's handlers, registry, confirmations, retry store | `MCRequests` | `RequestsProofs` |
| `Progress` | the reporter of one request: numbered edits, lock, flood waits, fallback, deferred retry | itself | `ProgressProofs` |
| `Transfer` | what sending a file promises | as a property of `Upload` | `UploadProofs` |
| `Upload` | `send_file` with the parallel upload, flood waits and the percentage shown | itself | `UploadProofs` |
| `Health` | the provider registry and the health records, as operators | runs of `Downloads` | `DownloadsProofs` |
| `Downloads` | engines, provider fallback, worker threads, tokens, task directories and their clean-up, any number of requests at once | `MCDownloads` | `DownloadsProofs` |
| `Hls` | one HLS download: a finite playlist, or a live window fetched by a pool of threads | itself | `HlsProofs` |
| `DataInduction` | nothing of the code: induction over numbers and finite sets, recursion over finite sets, sums | proved | - |

The event loop switches coroutines only at an `await`, so in every module an
action is what a coroutine does from one await to the next, and `pc` names the
await it is at. Threads run between any two steps of each other and of the
coroutines: theirs are the steps between two accesses to what they share (a
token, a file, a counter, a response). Definitions named `Mut...` are variations of the definition after
them, each with one plausible mistake; no behaviour of the modules uses them.

### Credits

`free`, `paid` and `bandwidth` are the columns of `users`. `CheckQuota`,
`UseQuotaDynamic` and `AddBandwidthUsed` are the methods of `CreditsService`; each
opens a session, commits and closes it without an await, so it is atomic on the
event loop. Sizes are whole megabytes; the rounding up to credits, the minimum of
one credit for a non-empty delivery and the order free before paid are kept. The
loop that deducts one credit at a time is written in closed form.

### Pipeline

A *plan* is what the engine and the splitter leave to deliver: a sequence of
groups (files) with the sizes of their parts, whether a file is excluded from albums
(documents, audio), how many subtitle files there are, and whether a playlist was
trimmed. `Prepare` may choose any plan. `acked` holds the parts Telegram
acknowledged, a fact no variable of the code holds; `delivered` and `volume` are
the list `delivered_sizes` and its sum, `archived` and `allArchived` what the
request knows of its archive copies, `charged` the local flag, `bills` the charges that
committed and `failedCharges` the number of those that raised (a history variable, like `acked`). The steps follow `run`:

| Action | Code |
|---|---|
| `Refuse`, `FailEarly`, `StartFromCache`, `StartDownload` | quota check and cache lookup |
| `Serve`, `ServeFails`, `DeleteFails` | re-sending a cached result, or giving it up and deleting the entry |
| `Prepare` | download, probe, convert, split |
| `SendPart`, `SendAlbum`, `AlbumRejected`, `SendFallback` | the upload loop, albums and their one-by-one fallback |
| `Record` | size, then bandwidth, after each message |
| `Archive` | the archive copy of one part, then the next part, album or charge |
| `ChargeDelivered`, `Extras`, `Close` | charge, subtitles and description, `cache.put`, summary |
| `Raise`, `Fail`, `Cancel` | an exception or expired time budget, the except branches, `CancelledError`, each through `Finally` |

`DbMayFail` says whether database statements may fail. `Cancel` is possible at every
await. One request may find in the cache what another has just put there or deleted.
Left out are the `OSError`s of `mkdir` before the `try` and of `stat` on a file that has just been sent (which
would leave a part in the chat and off the list); the await of the raw-split notice, whose failures are swallowed, is
part of the one before it.

### Limiter and Slots

`Slots` is the promise: a job starts only while both caps have room. `Limiter` is the
code, including CPython's `asyncio.Semaphore` on which it rests: `value` and
`queue` are `_value` and `_waiters`, `future` is the state of a waiter's future, and
`doomed` marks a task cancelled after its future was granted. Granting a slot and
resuming the waiter are different steps, with anything in between, as on the
event loop. The `async with` blocks release in the steps `Finish`, `UnwindFromUser`
and `UnwindFromGlobal`. `SlotsSpec` is `Slots` with `inside` mapped to the running jobs and
`left` to those that are done: the refinement that is checked and proved.

### Requests

Handlers (a link, or a press of a button) and messages of one private chat.
`pc` is the await of a handler and of the pipeline task it waits for; the pipeline
itself is reduced to how it ends. `registry` is `active_cancellations`, `confirm` and
`scan` are the pending confirmations and page scans, `retry`, `key` and `byMsg` the retry
store with its two indexes, `reached` is `is_terminal_completed` of a handler's
reporter, `shown` and `button` what the user sees. Decisions worth knowing:

- One private chat, so the checks that a press comes from the owner always pass
  and are left out. A press that is answered with a toast only changes nothing and
  is not an action.
- The end of a task and the resumption of the handler that awaits it are one step:
  the handler is resumed in the next turn of the event loop, before any other await
  that is pending now can be over.
- `RetryLapses` stands for the time to live and for eviction at capacity. The values
  "spent", "refused", "lapsed" and "dropped" record why a context left the store.
- `crossed` is a history variable: the handlers whose run has met another one in flight on its message. Only these are
  exempt from `CancelFindsTheRun`; a later run or a retry on the same message is not.
- `page_scan_pick_handler` is left out because its menu is never shown (see the
  known divergences).
- `LinkFails` takes a credit where an error reporter is configured, as the code does.
- The reporter is reduced to its terminal flag and the text that is edited in last; its
  sequence numbers, lock, flood waits and deferred retry are in `Progress`.

### Progress

The status message of one request. An update is known by its sequence number, so
`u < v` means that `v` was called later; `pc[u]` is the await it is at, `dpc[u]` that
of the background task it may leave. `shown` is the chat: what each message of this
request shows, `message` the one the reporter works on.

| Action | Code |
|---|---|
| `Call`, `Acquire`, `Edited`, `Rejected`, `EditFails` | `update` up to and including an edit, with the checks before and inside the lock |
| `Flooded`, `Wake` | a flood wait outside the lock, and the check after it |
| `Responded`, `RespondFails`, `Deleted`, `Erased`, `EraseFails` | the fallback of a terminal text: a new message, the old one deleted, or a task that tries later |
| `Deferred...` | `_deferred_terminal_retry`, await by await |
| `Cancel`, `DeferredUnwinds` | `CancelledError` at any await of either |

- `applied` stands for `_last_applied_seq` and for `_last_text`: an update may repeat the text
  of the one applied last, if it is of the same kind.
- A call to Telegram that raises has changed nothing; one that is abandoned by a
  cancellation may have. An edit of a deleted message always fails; deleting one again
  does not. Flood retries inside `call_with_flood_retry` are part of the
  await around it. Failed calls of terminal updates are counted in `faults`.
- Only one terminal update is under way at a time, as in the router and the pipeline, which
  look at `is_terminal_completed` first or await one after the other. A text that is
  terminal but does not start with the done line is a failure, as for the code.
- The lock is given to any of the coroutines that queue for it, which includes the order
  of the code. Buttons are left out, and so is a reporter without a message.

### Upload and Transfer

`Transfer` is the promise: parts are stored in any order, also twice, and the message
that refers to the file goes out once, when all are there. `Upload` is `send_file` for
one file: `pc` is the await of the coroutine, `lpc[l]` that of lane `l`, which is a task
of its own.

| Action | Code |
|---|---|
| `Begin`, `TelethonUploads`, `GetSlot` | `_source`: lanes or Telethon's own upload; the semaphore |
| `LinkSettles`, `StartLanes`, `OpenFails` | the extra connections, the descriptor, the lanes |
| `Starts`, `HasRead`, `ReadFails`, `Accepted`, `Reported`, `ReportFails` | `_lane`: a part is taken, read, sent, counted, and reported |
| `Flooded`, `FloodedOut`, `Wakes`, `LinkFails`, `MainFails` | `_send_part` and `_send_via`: flood waits, `note_flood`, the move to the main connection |
| `LanesEnd`, `LanesStopped`, `CloseLink`, `LinksClosed`, `Unwinds` | the first exception or the last lane, and the nested `finally` blocks |
| `Sent`, `SendFloods`, `SendWakes`, `Rejected`, `SendRaises` | the call that sends the message, its flood retries and the document fallback |
| `Cancel` | `CancelledError` at any await, and once more in the clean-up |

- The deque of parts is `next .. Parts`: parts are only taken from its head. A part is a
  percentage, and a lane reports after each part if `WorthAnEdit`; elapsed time is a free
  choice (`due`).
- `stored` is what Telegram has, which no variable of the code knows: a call that raised or
  was cancelled may have stored its part.
- The reporter's lock serves the lanes in the order of their calls, which is the order of the
  percentages they show. A callback that raises or takes too long is `ReportFails`.

### Health and Downloads

`Health` has the two fields of a provider's record that decide anything: the failures in
a row and whether the cool-down is running. The ranking of the providers that are left is
any order: success rates and latencies only sort. `Downloads` is the part of
`DownloadPipeline.run` before the upload. `pc[r]` is the coroutine of request `r`,
`job[r]` the function that `run_in_thread` has handed to the pool for it: what it does,
its step and its result. After a cancellation the coroutine goes on without its job. `token` and `waiting` are the
`CancellationToken` and whether the callback that closes the stream's response is on its list, `closes` how often that callback was run; `dir`
and `files` the task directory; `listed` what `_cleanup` read before it removes anything.

| Action | Code |
|---|---|
| `CreateDirs`, `BeginDownload`, `Deliver` | `run`: directories, the engine's route, and the hand-over to the upload |
| `StartLocal`, `LocalEnds`, `Onward` | the engines: local attempt before the providers (YouTube) or after them (TikTok); provider candidates skip what was tried or does not match |
| `FetchOk`, `FetchFails`, `StreamEnds` | a provider's answer, then its items one after the other; success and failure are recorded |
| `Request`, `Register`, `OpenStream`, `StreamOk`, `StreamStops` | `_stream_url_to_file` in its thread |
| `LocalCheck` to `LocalStops` | yt-dlp or a direct link in its thread: part files, rename, retry, removal |
| `ProcessOpen`, `ProcessOk`, `ProcessFails`, `ProcessEnds` | a step of the splitter or the converter |
| `Cancel`, `SetFlag`, `RunCallbacks` | cancellation or time budget; `CancellationToken.set` flag by flag |
| `ListChildren`, `RemoveChildren`, `RemoveDirs` | `_cleanup`, which threads can interleave with |

- The `finally` block has no await, so while one request is in it (`Sync`) no other coroutine
  moves (`LoopIsFree`); threads do.
- A file is absent, partial or whole. What yt-dlp leaves behind loses its partial files (`RemovePartialFiles`), a whole one
  stays and is found by the next attempt, or goes with `_cleanup`. A thread that wants to open a file in a directory that
  is gone fails, or makes the directory again where the code does (yt-dlp, the live window, segmenting).
- The callbacks of a request's earlier streams stay registered in the code and close what is closed already; the model keeps
  the last one.
- `inRow` is a history variable: the attempts that failed since the provider last served one.
- Processing is one file out of what was downloaded, which `Pipeline` takes on from there.

### Hls

One download in a worker thread: `pc` is what the main thread is about to do, `job` what
became of each segment in the pool, `seen` the futures whose results it has consumed. A segment is its sequence number, every body has
size one, and the playlist that the server publishes moves on at any time (`Publish`).

| Action | Code |
|---|---|
| `FollowMaster`, `ResolveFile`, `ResolveWindow` | master playlists to a depth, then a finite list or a live window |
| `MaterializeVideo`, `MaterializeAudio`, `RemuxFile` | a finite playlist, segment by segment |
| `FetchInit`, `Take`, `Arrive`, `Expired`, `Break`, `Collect`, `Collected`, `Drop`, `Drained` | `_download_segment_batch` and its threads: a 404 is a gap, anything else fails the batch, which drops what is queued and waits for what runs |
| `ResolveAudio`, `Refresh` | the audio rendition; the second look at the live playlist and the tail it adds |
| `CutRuns`, `RemuxRun`, `Concat`, `Probe`, `Rename`, `Tidy`, `Unwind` | gap limits, continuous runs, ffmpeg, the output's name, and the clean-up of either end |

- `Wanted` segments stand for the window in seconds. `MaxGapPercent` is the lower of the two
  ratios of the code, which coincide when all segments are equally long.
- A playlist file, a key or an init map that fails is a failed fetch like another.

## Runs

| Run | Instance | Shows |
|---|---|---|
| `pipeline_safety` | two requests of one user for one key, seven plans, no database failure | one exact charge, on every path that delivers; truthful summaries; whole cache entries; balances exact under interleaving |
| `pipeline_db_faults` | an owner and a guest, three plans, any database statement may fail | a charge that raised after the loop is repeated once, and none is made twice; who has not paid has met the failure of every charge that was due; what reached the chat is on the list |
| `limiter` | four jobs of two users, caps 2 and 2 | slots are accounted for, no lost wake-up, refinement of `Slots`, no starvation |
| `requests` | four handlers, three messages, all symmetric | registry, offers and retry store agree with the handlers at work; the cancel button finds every run that has met no other on its message |
| `progress` | three updates, two of them terminal, one retry after a flood, six failed calls | no text over a later or terminal one, whatever overlaps; a verdict told once; no false progress after three failed calls, and no failure lost after two; every update ends |
| `upload` | three parts, three lanes, one extra connection, two floods, one cancellation | refinement of `Transfer`; progress counts stored parts; nothing outlives the upload; 100 per cent is shown last; every upload ends |
| `downloads` | two requests of one user, two providers on a route of three entries, two items, one local retry | only whole files go on; a request that was not cancelled leaves nothing; a callback runs exactly once, on one side; cool-downs are earned |
| `hls` | a stream of seven segments, playlists of four, a window of three, two threads, one discontinuity, one gap allowed and 18 per cent of the window | the window is delivered in order, without repeats, in continuous runs; the limits hold; nothing is left behind; the download ends |
| `pipeline_album_charge` | as `pipeline_safety`, nothing cached | violates `DeliveredIsCharged` |
| `progress_deferred` | as `progress` | violates `DeliveredFailureIsVisible` |
| `downloads_leftover` | as `downloads` | violates `NothingIsLeft` |
| `hls_hidden_loss` | a stream of five segments, playlists of two | violates `LossIsCounted` |

**Bounds.** Two requests are enough for the pipeline because requests meet only in
the ledger row of a user and in one cache entry, and every conflict there is between two
of them (a read or a write of one between two steps of the other). The plans have
each shape the upload loop tells apart: nothing, one file, a file with
subtitles, a split file, a trimmed playlist, a document between albums, more files
than an album holds (`AlbumLimit` 2 instead of 10). Sizes 0 to 3 against 2 MB per credit
lie below, at and above the rounding boundary, and two credits make balances run out.
Four jobs with caps 2 and 2 let a job queue at either level behind waiters that are granted,
cancelled or both. Each handler of `Requests` is one coroutine; four of them are a
failed run, its retry, and two more presses, on a message that may be replaced by
a second and a third.
Three updates are a late progress text, a later one or a first verdict, and a second verdict
that cancels a deferred retry. Six failed calls of terminal updates are enough to make an update
fail altogether and its deferred retry reach each of its last resorts. The properties about verdicts count the failed calls, because no code can tell a user
anything when every call fails; they speak of a request with one terminal update, because a
second one that has to fall back may delete the message that shows the first.
In `upload` three lanes are the fewest that a first flood can reduce to two and a second
to one (`FloodsToTwo` and `FloodsToOne` scale the thresholds of the code); with three parts a lane
can fail, sleep and finish while the others hold parts, and one extra connection makes lanes share the main
one. Two requests of one user are what meets in a user's directory, and in the records of
a provider; the route names a provider twice around one that does not know the URL. `Earlier`
starts the records one failure below the threshold, so that every failure of the run is at the boundary. In `hls` a live
playlist of four of seven segments moves on by three at most, so that the snapshot and the refreshed list always meet. The share of gaps is 18 per cent because one gap then fails a window of five segments and not one of six: each of the
two limits decides in some run.
The providers of `downloads` are tried for URLs that one of the two matches, before or after the local attempt; that both match would make the
instance too large (over ten million states), and the way from one provider to the next is left to the theorems.
`hls_hidden_loss` is the instance in which they need not.

**Fairness.** `Limiter!FairSpec`
assumes that `on_wait` returns, that the event loop resumes a task that is ready, and that a
running job ends. The code bounds downloads, uploads of single parts and conversions by time budgets, but not every await of a job:
the sending of an album, its fallback and its archive copies, and the re-sending of a cached result return only when Telegram answers, so
for these the assumption is about Telethon. It is not assumed that a job is ever
started. `Progress!FairSpec` assumes that calls to Telegram return or raise, that a flood wait
ends (`max_wait_seconds` bounds it), and that a lock that is free goes to a coroutine that
queues for it. `Upload!FairSpec` assumes the same of `send_file` and of each lane by itself,
and that a slot of the semaphore becomes free. `Hls!FairSpec` assumes that requests time out and
ffmpeg is killed when it takes too long (it is), and that a thread that can go on does; the
server need not publish anything. `Pipeline`, `Requests` and `Downloads` have safety properties only: the control of a request has no cycle, so that it returns is no more
than that its awaits do.

**Deadlock.** All modules but `Requests` end in an explicit stuttering step once every coroutine
and thread has returned; anywhere else a state without a step is an error. `Requests` is checked without it: a chat may go quiet for ever.

## What is proved

Seven proof modules prove, from the assumptions named in the modules
(`CreditsAssumption`, `PipelineAssumption`, `LimiterAssumption`, `RequestsAssumption`, `ProgressAssumption`,
`UploadAssumption`, `HealthAssumption`, `DownloadsAssumption`, `HlsAssumption`), for any number of users, requests,
jobs, handlers, messages, updates, lanes, parts, segments, threads and providers, any plans and any limits:

- `TypeCorrect` in each; in particular no balance and no semaphore goes negative, and the
  limit of the lanes never drops to zero.
- Pipeline: `ChargedOnceExactly`, `ReturnedIsCharged`, `ChargedWasDelivered`,
  `DeliveredIsRecorded`, `SuccessIsTruthful`, `CacheIsWhole`, and `BalancesMoveExactly` with `VolumeIsTotal` and
  `PriceIsCeiling`.
- Limiter: `SlotsAreAccounted`, `NoWakeUpIsLost`, `QueuersWereTold`, and `KeepsTheCaps`:
  the limiter implements `Slots`.
- Requests: `NoStaleTask`, `CancelWorks`, `DoublePressIsOneRun`, `NoStuckRetry`, `RetryIndexesAgree`,
  `RetryButtonWorks`.
- Upload: `CountsStoredParts`, `ShowsTheEnd`, `CleansUpAfterItself`, and `Implements`: the upload
  implements `Transfer`.
- Downloads: `WholeFilesGoOn`, `CallbacksAreRun`, `CoolDownsAreEarned`, `RequestsCleanUp`.
- Progress: `NeverToldTwice`, `OnlyForwards`, `FalseProgressEnds`, `FailureTold`.
- Hls: `WindowDelivered`, `LimitsKept`, `NothingLeft`.

Where a type invariant is proved and nothing else would be learnt from checking it, no run repeats it.

*Pipeline.* None of the properties is inductive. That a request which shows "done" has
every part in the chat needs to know at every earlier await how far it has come. `IInv` is
`TypeOK`, the cache property, and for each request `PositionInv` (the plan and the
position fit the await), `DeliveryInv` (everything before the position is recorded, and
what is acknowledged but not recorded lies in the album at hand), `ArchiveInv` (the copies are
those of recorded parts, and all of them while the flag holds), `BillInv` (what was
charged, by await) and `FaultInv` (how many charges have raised, by await: `NothingLeftUncharged` says that who has not paid after the loop has
seen two fail, and two is what the first failure and that of its repetition add up to). A step changes one request, the ledger and the cache, so `Locality`
and `OneRequestAtATime` reduce preservation to that request; there is one lemma for
each group of actions.

`BalancesMoveExactly` needs sums. `volume` is a running sum and the property adds the sizes up afresh by a fold that
takes parts in an order of its own, so `VolumeInv` (what is on the list are parts of the plan, and `volume` is their total) is inductive only
because a step either records a part that is not on the list yet or leaves list and plan alone (`ListSteps`), and because a part adds
its size to the total in whatever order (`TotalAdds`). `PriceIsCeiling` turns the integer division of the code into the least number of credits that
covers the size, and `BalanceSteps` shows that nothing but a charge touches a balance.

*Induction over data.* The library's induction theorems are about an operator, which the provers here cannot be given.
`DataInduction` states them about a set instead: the data that have the property (`NumberInduction`, `SetInduction`, `PickInduction`). From them follow that
a fold over a finite set has a result (`SetRecursion`, `NumberRecursion`), which the definition of a recursive function by `CHOOSE` leaves open, and that a
sum depends neither on the order (`SumOrder`) nor on the larger set it is taken in (`SumsAgree`).

*Limiter.* `IInv` is the conjunction of `TypeOK`, `QueueInv` (a semaphore's queue lists
the jobs that wait for it, each once), `FutureInv` (futures and cancellation agree with
the await), `SlotsAccounted`, `NoLostWakeUp` and `ToldInv`. The accounting is a count of holders, so
the lemmas follow one semaphore through a step: what its value loses or gains, its set of
holders gains or loses (`SlotStepKeepsSum`), and a step on a user's semaphore and the
global one is two such steps, because they are different (`Apart`). `KeepsTheCaps` uses only
`SlotsAccounted`: a step that starts a job takes a free slot or one granted to it, so the running
jobs were fewer than the limit before.

*Requests.* `IInv` has a part for each group of variables and a lemma that says which changes keep it. `AtInv` says which
handlers have a message and a home. `RegistryInv` is `RegistryIsLive`, `CancelFindsTheRun` and `ApartInv` together (two runs in flight with one home are both `crossed`), because an entry can
only be replaced or removed by a handler with the same home. `WorkInv` adds to `OneRunPerOffer` and `RunningIsRun` what makes
them inductive: `OfferInv` (what a handler has taken is not on offer, and a run that may still fail has no context of its
own) and `QuestionInv` (the question that is out and not yet stored belongs to one handler and nobody has taken it).
`StoreInv` adds to `IndexesAgree` that a context which another has replaced leaves a live one of the message or one that came to its end (`KeyInv`),
which is what `RetryButtonWorks` needs. There is one lemma for each action.

*Upload.* That the message refers to a complete file needs to know where each part is. `Settled` are the parts
that were taken from the queue and that no lane holds any more; `LaneInv` says that no two lanes hold one part, `CountInv`
that what is counted is at most the settled parts that Telegram has, and exactly those while no lane has failed,
`FirstInv` that lane 0, whose number is below every limit, goes on until no part is left. When all lanes have returned, every part is therefore settled
and stored (`AllSettled`). `StageInv` fits the lanes, the descriptor and the connections to the await of `send_file`, and `BarInv` the texts to the count. A step of a lane keeps,
takes or lets go of a part (`KeepingSettles`, `LettingGoSettles`), which is all that `CountInv` sees of it.

*Downloads.* `IInv` is, for each request, `Shape` and `JobInv` (the thread's job and the coroutine's await agree; only a
cancelled request has a job it does not wait for), `RouteInv`, `EndInv` (token, callback and outcome), `StoredInv` (what the awaited job
has stored so far) and `CleanInv` (what `_cleanup` has done), and across them `CountInv` about the health records and
`DirsInv` about the user's directory. A step changes one request and perhaps a health record, so each lemma shows `Kept`: the request keeps its part and the others are
spared. The invariant says of a cancelled request only what remains true while its thread goes on. `CallbacksAreRun` adds `CallbackInv` on top of it: where the callback is and how often
it was run, by the step of the thread that registers it and of the coroutine that sets the token.

*Progress.* `Called` says where an update can be. Whether a text is out is a matter of the await (`TextsOK`: before it is told it is nowhere, and
no two messages show one text), which is `NeverToldTwice`. For `OnlyForwards`, `EarlierOK` orders progress before the first terminal text, `AppliedOK` says
that progress that is out was applied, and `EditingOK` that a progress text about to be edited in is ahead of what was applied and that no terminal text is out:
that is what the checks inside the lock establish, and what the lock keeps true until the edit returns. The two theorems about verdicts follow a terminal text and its
background task from await to await: `Told` and `Retried` say at each what the chat shows and how many calls have failed by then at least, so three (or two) failed calls are not
enough to reach the states in which nothing can be told.

*Hls.* `PoolOK` and `FileOK` say which jobs can be in which state while the main thread is where it is, so that nothing runs
after the batch was drained. `CapOK` admits a counter over the cap only with a job that failed or a download that is failing: the threads add to the
counter before they compare. `RunsOK` and `OutputOK` say of the runs that they cut the delivered segments (`Cut`), each continuous and one after the other; that
the fold of `ContinuousRuns` does so, and that the output joins them in order, is proved by induction over the prefixes of the selection.

Model-checked only: `EveryWaiterLeavesTheQueue`, `EveryUpdateEnds`, `UploadEnds` and `DownloadEnds`: liveness
under fairness is out of the prover's reach. The four runs that expect a violation show properties the code does not have.

## Findings

Each is a run whose property states what the repository says and whose
counterexample is what the code does; `PROJECT.json` quotes both.

1. A cancellation (or failure) during the archive copy of the first item of an album
   leaves the other items in the chat and uncharged (`pipeline_album_charge`).
2. The deferred retry of a failure text, when its edit works, goes on to delete the message
   it has just edited: the failure is counted as delivered and nothing is left in the
   chat (`progress_deferred`).
3. A worker thread that outlives its cancelled request can open its output between the removal of the directory's
   files and that of the directory: file and directory stay (`downloads_leftover`).
4. When a live playlist has moved on by more than its own length between the snapshot and the refresh, the segments
   in neither are lost and not counted as gaps (`hls_hidden_loss`).

Other divergences that the modules show, and that no run of their own states:

- The upload budget of a single part also covers its archive copy, so a slow copy turns a
  delivered part into a failure (`pipeline.py:525`; `Raise` in `Pipeline`).
- Two presses of one quality menu run on one message, and the first to end removes the registry
  entry of the other, which can then not be cancelled (`Unregister` in `Requests`; the reason for
  the exception in `CancelFindsTheRun`).
- A cancellation during the terminal edit suppresses every terminal text: the message stays
  "running" (`Unwind` in `Requests`).
- The page scan works with a reporter that has already shown a terminal text, so what it finds
  is never offered (`ScanFinds`).
- `url_handler` takes a credit when it fails before a download (`LinkFails`, `README.md:132`).
- The percentage shown can go back, although `progress.py:747-748` says it never does: after a flood, `handle_flood_cleared`
  repeats the last percentage that was noted, while a lane may have shown a higher one (`Wakes` in `Upload`).
- When `record_success` fails in the database, TikTok's loop takes the exception for a failure of the provider
  and downloads the result again elsewhere.
- The cancellation checks inside the loops of a provider's coroutine can never fire: the token is set in the `finally`
  block, when the coroutine is over.
- `download_hls_window` starts a fresh byte counter, so what resolving the playlists has read is not counted; gaps of the audio rendition are
  neither counted nor told; with several runs, each is remuxed with the whole audio playlist, and the tail has no audio.

## Not modelled

Text, formatting, menus and settings; parsing of web pages and playlists; the HTTP
clients; what ffmpeg and ffprobe are told; start-up. They have no state that interleaves. Error reports
go to the administrator in background tasks that nothing waits for, and change nothing of a request. A crash of the
process is not modelled either: the only durable state is the database, each
transaction of which is atomic, and a crash before the charge delivers for free by design.
Of the modelled parts: decoding of cached rows, `total_bandwidth`, owner checks in
groups, `send_album` below its acknowledgement, playlists of YouTube, and the byte arithmetic of the splitter.
The modules are composed where state is shared in one step (`Credits` in `Pipeline`, `Health` in `Downloads`); a
request as a whole, from button to upload, is not one state machine: each module takes its neighbours as free choices.

## What is left

| Module | Would model | Properties |
|---|---|---|
| `Reporters` | two reporters on one message, composed from `Progress` | a deferred retry never overwrites a later run |
| `ErrorReport` | duplicates, budget, attachments, concurrent reports | at most the budget in any minute; the promise of an attachment |
| `Splitter` | margin retry and raw split as functions | parts fit and add up to the file, over bounded inputs |
