------------------------------ MODULE Downloads ------------------------------
(***************************************************************************)
(* What happens before the upload: the download and the processing of one  *)
(* request, in the coroutine of DownloadPipeline.run and in the worker     *)
(* threads it waits for (executor.run_in_thread).  An engine downloads     *)
(* with yt-dlp or, for a direct link, streams by itself (the local route); *)
(* the YouTube and TikTok engines have external providers besides,         *)
(* YouTube's after the local route and TikTok's before it.  Instagram and  *)
(* Facebook are YouTube without providers.  All requests are of one user.  *)
(*                                                                         *)
(* Cancelling a request, or its time budget running out, ends the await    *)
(* and not the thread: the thread goes on until it sees the token, while   *)
(* the coroutine removes the directory it writes to.                       *)
(*                                                                         *)
(* pc[r] is where the coroutine is:                                        *)
(*   "new"      run has not created the task directory                     *)
(*   "begin"    ... it has, and waits for the progress message             *)
(*   "local"    waits for the thread of the local route                    *)
(*   "fetch"    waits for a provider's answer                              *)
(*   "stream"   waits for the thread that stores one of its items          *)
(*   "process"  waits for a thread that converts, probes or splits         *)
(*   "ready"    the upload                                                 *)
(*   "set", "call"              the finally block: the token               *)
(*   "list", "remove", "rmdir"  ... and _cleanup                           *)
(*   "over"                                                                *)
(* From "set" to "rmdir" the event loop runs nothing else, but threads do. *)
(* The text that a failure shows before its finally block is left out.     *)
(***************************************************************************)
EXTENDS Health

CONSTANTS
  Requests,
  Matching,   \* providers that know the URL
  Items,      \* bound: items in a provider's result
  Retries     \* max_retries of the local route

ASSUME DownloadsAssumption ==
  /\ Matching \subseteq Providers
  /\ Items \in Nat \ {0} /\ Retries \in Nat

VARIABLES
  engine,      \* youtube, tiktok or direct
  pc,
  route,       \* the providers that remain, the one being tried first
  tried,       \* attempted_providers
  items,       \* items in the result of the provider being tried
  attempt,     \* the attempt of the local route
  job,         \* the worker thread: what it does, its step, and how it ended
  token,       \* is the token set?
  waiting,     \* does the callback of the last stream wait in the token's list?
  closes,      \* how often that callback, which closes the response, was run
  userDir,     \* does the directory of the user exist?
  dir,         \* does a task directory exist?
  files,       \* the files in it
  listed,      \* the children that _cleanup has listed
  outcome,
  inRow        \* history: attempts at a provider that failed since it last served one

disk == <<userDir, dir, files, listed>>
vars == <<health, engine, pc, route, tried, items, attempt, job, token, waiting,
          closes, disk, outcome, inRow>>

\* The files of a task directory: what the local route stores, the items of a
\* provider, and what the processing makes of them.
Local == 0
Out == Items + 1
Names == Local .. Out
Sync == {"set", "call", "list", "remove", "rmdir"}
Steps == {"none", "queued", "request", "check", "register", "open", "read", "finish", "ended"}
Ends == {"", "ok", "error", "too large", "cancelled"}

NoJob == [does |-> "none", name |-> Out, step |-> "none", how |-> ""]
NoFiles == [n \in Names |-> "none"]

TypeOK ==
  /\ HealthTypeOK
  /\ engine \in {"youtube", "tiktok", "direct"}
  /\ pc \in [Requests -> Sync \cup {"new", "begin", "local", "fetch", "stream", "process",
                                    "ready", "over"}]
  /\ route \in [Requests -> Seq(Providers)]
  /\ tried \in [Requests -> SUBSET Providers]
  /\ items \in [Requests -> 0 .. Items]
  /\ attempt \in [Requests -> 0 .. Retries]
  /\ job \in [Requests -> [does : {"none", "stream", "local", "process"}, name : Names,
                           step : Steps, how : Ends]]
  /\ token \in [Requests -> BOOLEAN]
  /\ waiting \in [Requests -> BOOLEAN]
  /\ closes \in [Requests -> Nat]
  /\ userDir \in BOOLEAN
  /\ dir \in [Requests -> BOOLEAN]
  /\ files \in [Requests -> [Names -> {"none", "partial", "whole"}]]
  /\ listed \in [Requests -> SUBSET Names]
  /\ outcome \in [Requests -> {"", "delivered", "failed", "too large", "cancelled"}]
  /\ inRow \in [Providers -> Nat]

Init ==
  /\ HealthInit
  /\ engine \in {"youtube", "tiktok", "direct"}
  /\ pc = [r \in Requests |-> "new"]
  /\ route = [r \in Requests |-> <<>>]
  /\ tried = [r \in Requests |-> {}]
  /\ items = [r \in Requests |-> 0]
  /\ attempt = [r \in Requests |-> 0]
  /\ job = [r \in Requests |-> NoJob]
  /\ token = [r \in Requests |-> FALSE]
  /\ waiting = [r \in Requests |-> FALSE]
  /\ closes = [r \in Requests |-> 0]
  /\ userDir = FALSE
  /\ dir = [r \in Requests |-> FALSE]
  /\ files = [r \in Requests |-> NoFiles]
  /\ listed = [r \in Requests |-> {}]
  /\ outcome = [r \in Requests |-> ""]
  /\ inRow = [p \in Providers |-> health[p].failures]

-----------------------------------------------------------------------------
\* Mutant: the requests of a user share a directory.
MutDirOf(r) == CHOOSE q \in Requests : TRUE

\* The task directory of a request: uuid4, so that no two requests share one.
DirOf(r) == r

FilesOf(r) == files[DirOf(r)]
Write(r, n, state) == files' = [files EXCEPT ![DirOf(r)][n] = state]

\* Nothing runs on the event loop but the coroutine of r.
LoopIsFree(r) == \A q \in Requests \ {r} : pc[q] \notin Sync

At(r, here) == pc[r] = here /\ LoopIsFree(r)
GoTo(r, next) == pc' = [pc EXCEPT ![r] = next]

\* run_in_thread
Submit(r, what, n) ==
  job' = [job EXCEPT ![r] = [does |-> what, name |-> n, step |-> "queued", how |-> ""]]

\* The engine returns, with the result of a provider (n items) or of the local
\* route (0), or raises.
Forget(r, n) ==
  /\ route' = [route EXCEPT ![r] = <<>>]
  /\ tried' = [tried EXCEPT ![r] = {}]
  /\ items' = [items EXCEPT ![r] = n]

EngineReturns(r, n) ==
  /\ Forget(r, n)
  /\ GoTo(r, "process")
  /\ Submit(r, "process", Out)

\* An exception, or the end: the finally block is next.  A thread that is running
\* is left alone, and a job that none has taken is dropped.
End(r, how) ==
  /\ outcome' = [outcome EXCEPT ![r] = how]
  /\ GoTo(r, "set")
  /\ Forget(r, 0)
  /\ job' = [job EXCEPT ![r] = IF @.step \in {"queued", "ended"} THEN NoJob ELSE @]

StartLocal(r) ==
  /\ GoTo(r, "local")
  /\ Submit(r, IF engine = "direct" THEN "stream" ELSE "local", Local)

\* The loop over the providers: the next one that knows the URL and was not tried,
\* or what comes after the loop.
Onward(r, rest) ==
  LET Wanted(i) == rest[i] \in Matching \ tried[r] IN
  \/ \E i \in DOMAIN rest :
       /\ Wanted(i) /\ \A k \in 1 .. i - 1 : ~Wanted(k)
       /\ route' = [route EXCEPT ![r] = SubSeq(rest, i, Len(rest))]
       /\ tried' = [tried EXCEPT ![r] = @ \cup {rest[i]}]
       /\ items' = [items EXCEPT ![r] = 0]
       /\ GoTo(r, "fetch")
       /\ UNCHANGED <<job, outcome>>
  \/ /\ \A i \in DOMAIN rest : ~Wanted(i)
     /\ \/ engine = "tiktok" /\ StartLocal(r) /\ Forget(r, 0) /\ UNCHANGED outcome
        \/ engine = "youtube" /\ End(r, "failed")

-----------------------------------------------------------------------------
\* The coroutine.

CreateDirs(r) ==
  /\ At(r, "new")
  /\ userDir' = TRUE
  /\ dir' = [dir EXCEPT ![DirOf(r)] = TRUE]
  /\ GoTo(r, "begin")
  /\ UNCHANGED <<health, engine, route, tried, items, attempt, job, token, waiting,
                 closes, files, listed, outcome, inRow>>

\* engine.download.  Reading the health records may fail.
BeginDownload(r) ==
  /\ At(r, "begin")
  /\ \/ engine # "tiktok" /\ StartLocal(r) /\ UNCHANGED <<route, tried, items, outcome>>
     \/ engine = "tiktok" /\ \E order \in Orders : Onward(r, order)
     \/ engine = "tiktok" /\ End(r, "failed")
  /\ UNCHANGED <<health, engine, attempt, token, waiting, closes, disk, inRow>>

\* The provider has failed: record_failure, and the next one.  When the record
\* cannot be written the exception leaves the loop.
ProviderFails(r) ==
  LET p == Head(route[r]) IN
  /\ inRow' = [inRow EXCEPT ![p] = @ + 1]
  /\ \/ RecordFailure(p) /\ Onward(r, Tail(route[r]))
     \/ End(r, "failed") /\ UNCHANGED health

\* ... it has served: record_success.  When that cannot be written the result is
\* given up, and the provider counts as failed.
ProviderServes(r) ==
  LET p == Head(route[r]) IN
  \/ /\ RecordSuccess(p)
     /\ inRow' = [inRow EXCEPT ![p] = 0]
     /\ EngineReturns(r, items[r])
     /\ UNCHANGED outcome
  \/ ProviderFails(r)

FetchOk(r) ==
  /\ At(r, "fetch")
  /\ \E n \in 1 .. Items : items' = [items EXCEPT ![r] = n]
  /\ GoTo(r, "stream")
  /\ Submit(r, "stream", 1)
  /\ UNCHANGED <<health, engine, route, tried, attempt, token, waiting, closes, disk,
                 outcome, inRow>>

FetchFails(r) ==
  /\ At(r, "fetch")
  /\ ProviderFails(r)
  /\ UNCHANGED <<engine, attempt, token, waiting, closes, disk>>

\* download_provider_media: an item is stored, or its thread raised.
StreamEnds(r) ==
  /\ At(r, "stream")
  /\ job[r].step = "ended"
  /\ \/ /\ job[r].how = "ok" /\ job[r].name < items[r]
        /\ Submit(r, "stream", job[r].name + 1)
        /\ UNCHANGED <<health, pc, route, tried, items, outcome, inRow>>
     \/ job[r].how = "ok" /\ job[r].name = items[r] /\ ProviderServes(r)
     \/ job[r].how = "error" /\ ProviderFails(r)
     \/ /\ job[r].how = "too large"
        /\ End(r, "too large")
        /\ UNCHANGED <<health, inRow>>
  /\ UNCHANGED <<engine, attempt, token, waiting, closes, disk>>

\* The local route: its failure leads to YouTube's providers, if it has any for
\* this link, and is final otherwise.
LocalEnds(r) ==
  /\ At(r, "local")
  /\ job[r].step = "ended"
  /\ \/ /\ job[r].how = "ok"
        /\ EngineReturns(r, 0)
        /\ UNCHANGED outcome
     \/ /\ job[r].how = "error" /\ engine = "youtube"
        /\ \E order \in Orders : Onward(r, order)
     \/ /\ job[r].how \in {"error", "too large"}
        /\ End(r, IF job[r].how = "error" THEN "failed" ELSE "too large")
  /\ UNCHANGED <<health, engine, attempt, token, waiting, closes, disk, inRow>>

ProcessEnds(r) ==
  /\ At(r, "process")
  /\ job[r].step = "ended"
  /\ \/ job[r].how = "ok" /\ GoTo(r, "ready") /\ UNCHANGED <<route, tried, items, job, outcome>>
     \/ job[r].how = "error" /\ End(r, "failed")
  /\ UNCHANGED <<health, engine, attempt, token, waiting, closes, disk, inRow>>

Deliver(r) ==
  /\ At(r, "ready")
  /\ End(r, "delivered")
  /\ UNCHANGED <<health, engine, attempt, token, waiting, closes, disk, inRow>>

\* The cancel button, or asyncio.timeout.
Cancel(r) ==
  /\ LoopIsFree(r)
  /\ pc[r] \in {"begin", "local", "fetch", "stream", "process", "ready"}
  /\ End(r, "cancelled")
  /\ UNCHANGED <<health, engine, attempt, token, waiting, closes,
                 disk, inRow>>

\* CancellationToken.set: the flag, then the callbacks under the lock.
SetFlag(r) ==
  /\ pc[r] = "set"
  /\ token' = [token EXCEPT ![r] = TRUE]
  /\ GoTo(r, "call")
  /\ UNCHANGED <<health, engine, route, tried, items, attempt, job, waiting, closes,
                 disk, outcome, inRow>>

RunCallbacks(r) ==
  /\ pc[r] = "call"
  /\ waiting' = [waiting EXCEPT ![r] = FALSE]
  /\ closes' = [closes EXCEPT ![r] = IF waiting[r] THEN @ + 1 ELSE @]
  /\ GoTo(r, "list")
  /\ UNCHANGED <<health, engine, route, tried, items, attempt, job, token, disk,
                 outcome, inRow>>

\* _cleanup: the children are listed, then removed, then the two directories go if
\* they are empty.
ListChildren(r) ==
  /\ pc[r] = "list"
  /\ listed' = [listed EXCEPT ![r] = {n \in Names : FilesOf(r)[n] # "none"}]
  /\ GoTo(r, "remove")
  /\ UNCHANGED <<health, engine, route, tried, items, attempt, job, token, waiting,
                 closes, userDir, dir, files, outcome, inRow>>

RemoveChildren(r) ==
  /\ pc[r] = "remove"
  /\ files' = [files EXCEPT ![DirOf(r)] = [n \in Names |-> IF n \in listed[r] THEN "none" ELSE @[n]]]
  /\ listed' = [listed EXCEPT ![r] = {}]
  /\ GoTo(r, "rmdir")
  /\ UNCHANGED <<health, engine, route, tried, items, attempt, job, token, waiting,
                 closes, userDir, dir, outcome, inRow>>

RemoveDirs(r) ==
  /\ pc[r] = "rmdir"
  /\ dir' = [dir EXCEPT ![DirOf(r)] = @ /\ FilesOf(r) # NoFiles]
  /\ userDir' = \E q \in Requests : dir'[q]
  /\ GoTo(r, "over")
  /\ UNCHANGED <<health, engine, route, tried, items, attempt, job, token, waiting,
                 closes, files, listed, outcome, inRow>>

-----------------------------------------------------------------------------
\* The worker thread of r.

Step(r, next) == job' = [job EXCEPT ![r].step = next]

\* It returns or raises; nobody looks at that when the await was cancelled.
Return(r, how) ==
  job' = [job EXCEPT ![r] = IF pc[r] \in {"local", "stream", "process"}
                              THEN [@ EXCEPT !.step = "ended", !.how = how]
                              ELSE NoJob]

ThreadUnchanged ==
  UNCHANGED <<health, engine, pc, route, tried, items, token, userDir, dir, listed,
              outcome, inRow>>

Doing(r, what, step) == job[r].does = what /\ job[r].step = step

\* What the open file becomes: nothing, when _cleanup has unlinked it already.
Finish(r, n) == Write(r, n, IF FilesOf(r)[n] = "partial" THEN "whole" ELSE FilesOf(r)[n])

\* A thread of the pool takes the job.
Run(r) ==
  /\ job[r].step = "queued"
  /\ Step(r, CASE job[r].does = "stream" -> "request" [] job[r].does = "local" -> "check"
               [] OTHER -> "open")
  /\ attempt' = [attempt EXCEPT ![r] = 0]
  /\ UNCHANGED <<waiting, closes, files>> /\ ThreadUnchanged

\* _stream_url_to_file, and _stream_to_file of the direct engine: safe_request, and
\* the token before anything is written.  The callbacks of earlier streams, which
\* close what is closed, are left out from here.
Request(r) ==
  /\ Doing(r, "stream", "request")
  /\ \/ /\ ~token[r]
        /\ Step(r, "register")
        /\ waiting' = [waiting EXCEPT ![r] = FALSE]
        /\ closes' = [closes EXCEPT ![r] = 0]
     \/ /\ \/ token[r] /\ Return(r, "cancelled")
           \/ Return(r, "error") \/ Return(r, "too large")
        /\ UNCHANGED <<waiting, closes>>
  /\ UNCHANGED <<attempt, files>> /\ ThreadUnchanged

\* Mutant: the callback goes on the list even when the thread runs it.
MutRegisterTwice(r) ==
  /\ Doing(r, "stream", "register")
  /\ waiting' = [waiting EXCEPT ![r] = TRUE]
  /\ closes' = [closes EXCEPT ![r] = IF token[r] THEN @ + 1 ELSE @]
  /\ Step(r, "open")
  /\ UNCHANGED <<attempt, files>> /\ ThreadUnchanged

\* on_cancel(response.close): under the lock it is either put on the list or, when
\* the token is set, run by the thread itself.
Register(r) ==
  /\ Doing(r, "stream", "register")
  /\ waiting' = [waiting EXCEPT ![r] = ~token[r]]
  /\ closes' = [closes EXCEPT ![r] = IF token[r] THEN @ + 1 ELSE @]
  /\ Step(r, "open")
  /\ UNCHANGED <<attempt, files>> /\ ThreadUnchanged

OpenStream(r) ==
  /\ Doing(r, "stream", "open")
  /\ IF dir[DirOf(r)]
       THEN Write(r, job[r].name, "partial") /\ Step(r, "read")
       ELSE /\ Return(r, IF token[r] THEN "cancelled" ELSE "error")
            /\ UNCHANGED files
  /\ UNCHANGED <<attempt, waiting, closes>> /\ ThreadUnchanged

\* The token, an error (a closed response is one) or the size cap: the file goes.
StreamStops(r) ==
  /\ job[r].does = "stream" /\ job[r].step \in {"open", "read"}
  /\ \/ token[r] /\ Return(r, "cancelled")
     \/ ~token[r] /\ (Return(r, "error") \/ Return(r, "too large"))
  /\ Write(r, job[r].name, "none")
  /\ UNCHANGED <<attempt, waiting, closes>> /\ ThreadUnchanged

StreamOk(r) ==
  /\ Doing(r, "stream", "read")
  /\ ~token[r] /\ closes[r] = 0
  /\ Finish(r, job[r].name)
  /\ Return(r, "ok")
  /\ UNCHANGED <<attempt, waiting, closes>> /\ ThreadUnchanged

\* What _download_sync leaves at its end: no partial file, but one that is whole.
RemovePartialFiles(r) ==
  Write(r, Local, IF FilesOf(r)[Local] = "partial" THEN "none" ELSE FilesOf(r)[Local])

\* _download_sync: the token before each attempt, which yt-dlp runs.
LocalCheck(r) ==
  /\ Doing(r, "local", "check")
  /\ IF token[r]
       THEN Return(r, "cancelled") /\ RemovePartialFiles(r)
       ELSE Step(r, "open") /\ UNCHANGED files
  /\ UNCHANGED <<attempt, waiting, closes>> /\ ThreadUnchanged

\* yt-dlp makes the directory when it is gone, as download_hls_window does, and goes on
\* with the file that an earlier attempt has left.
LocalOpen(r) ==
  /\ Doing(r, "local", "open")
  /\ userDir' = TRUE
  /\ dir' = [dir EXCEPT ![DirOf(r)] = TRUE]
  /\ Write(r, Local, IF FilesOf(r)[Local] = "none" THEN "partial" ELSE FilesOf(r)[Local])
  /\ Step(r, "read")
  /\ UNCHANGED <<health, engine, pc, route, tried, items, attempt, token, waiting,
                 closes, listed, outcome, inRow>>

\* The bytes are there, and yt-dlp gives the file its name.
LocalRename(r) ==
  /\ Doing(r, "local", "read")
  /\ Finish(r, Local)
  /\ UNCHANGED <<attempt, job, waiting, closes>> /\ ThreadUnchanged

\* The last call of yt-dlp's progress hook, DownloadGuard.check, has seen no token;
\* a file that is merged from several gets its name only after that.
LocalFinish(r) ==
  /\ Doing(r, "local", "read")
  /\ ~token[r]
  /\ Step(r, "finish")
  /\ UNCHANGED <<attempt, waiting, closes, files>> /\ ThreadUnchanged

LocalOk(r) ==
  /\ Doing(r, "local", "finish")
  /\ Finish(r, Local)
  /\ Return(r, IF FilesOf(r)[Local] = "none" THEN "error" ELSE "ok")
  /\ UNCHANGED <<attempt, waiting, closes>> /\ ThreadUnchanged

\* A DownloadError that is worth another attempt.
LocalRetry(r) ==
  /\ job[r].does = "local" /\ job[r].step \in {"open", "read", "finish"}
  /\ attempt[r] < Retries
  /\ attempt' = [attempt EXCEPT ![r] = @ + 1]
  /\ Step(r, "check")
  /\ UNCHANGED <<waiting, closes, files>> /\ ThreadUnchanged

\* Mutant: a download that broke off is taken for a finished one.
MutLocalStops(r) ==
  /\ job[r].does = "local" /\ job[r].step \in {"open", "read", "finish"}
  /\ Return(r, "ok")
  /\ UNCHANGED <<attempt, waiting, closes, files>> /\ ThreadUnchanged

\* DownloadGuard sees the token or the cap, or the last attempt fails.
LocalStops(r) ==
  /\ job[r].does = "local" /\ job[r].step \in {"open", "read", "finish"}
  /\ \/ token[r] /\ Return(r, "cancelled")
     \/ Return(r, "error")
     \/ Return(r, "too large")
  /\ RemovePartialFiles(r)
  /\ UNCHANGED <<attempt, waiting, closes>> /\ ThreadUnchanged

\* Conversion, streaming fix and split: ffmpeg writes a file beside its source and
\* knows no token.  _segment_video makes the directory when it is gone, to no avail.
ProcessOpen(r) ==
  /\ Doing(r, "process", "open")
  /\ IF dir[DirOf(r)]
       THEN /\ Write(r, Out, "partial") /\ Step(r, "read")
            /\ UNCHANGED <<userDir, dir>>
       ELSE /\ Return(r, "error")
            /\ \/ userDir' = TRUE /\ dir' = [dir EXCEPT ![DirOf(r)] = TRUE]
               \/ UNCHANGED <<userDir, dir>>
            /\ UNCHANGED files
  /\ UNCHANGED <<health, engine, pc, route, tried, items, attempt, token, waiting, closes,
                 listed, outcome, inRow>>

\* What it has made takes the place of its sources.
ProcessOk(r) ==
  /\ Doing(r, "process", "read")
  /\ IF FilesOf(r)[Out] = "partial"
       THEN /\ files' = [files EXCEPT ![DirOf(r)] = [NoFiles EXCEPT ![Out] = "whole"]]
            /\ Return(r, "ok")
       ELSE Return(r, "error") /\ UNCHANGED files
  /\ UNCHANGED <<attempt, waiting, closes>> /\ ThreadUnchanged

\* A file that cannot be converted goes out as it is; one that cannot be split does
\* not.
ProcessFails(r) ==
  /\ Doing(r, "process", "read")
  /\ Return(r, "ok") \/ Return(r, "error")
  /\ Write(r, Out, "none")
  /\ UNCHANGED <<attempt, waiting, closes>> /\ ThreadUnchanged

-----------------------------------------------------------------------------
Coroutine(r) ==
  \/ CreateDirs(r) \/ BeginDownload(r) \/ FetchOk(r) \/ FetchFails(r) \/ StreamEnds(r)
  \/ LocalEnds(r) \/ ProcessEnds(r) \/ Deliver(r)
  \/ SetFlag(r) \/ RunCallbacks(r) \/ ListChildren(r) \/ RemoveChildren(r) \/ RemoveDirs(r)

Thread(r) ==
  \/ Run(r) \/ Request(r) \/ Register(r) \/ OpenStream(r) \/ StreamStops(r)
  \/ StreamOk(r) \/ LocalCheck(r) \/ LocalOpen(r) \/ LocalRename(r) \/ LocalFinish(r)
  \/ LocalOk(r) \/ LocalRetry(r) \/ LocalStops(r) \/ ProcessOpen(r) \/ ProcessOk(r) \/ ProcessFails(r)

Recover ==
  /\ \E p \in Providers : CoolDownEnds(p)
  /\ UNCHANGED <<engine, pc, route, tried, items, attempt, job, token, waiting, closes,
                 disk, outcome, inRow>>

Over ==
  /\ \A r \in Requests : pc[r] = "over" /\ job[r] = NoJob
  /\ UNCHANGED vars

Next ==
  \/ \E r \in Requests : Coroutine(r) \/ Thread(r) \/ Cancel(r)
  \/ Recover \/ Over

Spec == Init /\ [][Next]_vars

-----------------------------------------------------------------------------
(***************************************************************************)
(* Properties.                                                             *)
(***************************************************************************)
Sources(r) == IF items[r] = 0 THEN {Local} ELSE 1 .. items[r]

\* What goes on to the processing, and then to the upload, is wholly there: no
\* file that a cancel, a retry, a failed provider or another request's _cleanup has
\* truncated or removed (run, 283-293; _stream_url_to_file, 186-207).
HandedOnWhole ==
  \A r \in Requests : pc[r] \in {"process", "ready"} =>
    \/ \A n \in Sources(r) : FilesOf(r)[n] = "whole"
    \/ FilesOf(r)[Out] = "whole"

\* A callback that is registered while the token is being set is run by one side or
\* the other and never by both: a stream that goes on writing after the callbacks
\* were run has had its response closed exactly once (base.py, 33-55).
EveryCallbackRunsOnce ==
  \A r \in Requests :
    /\ closes[r] <= 1
    /\ /\ pc[r] \in {"list", "remove", "rmdir", "over"}
       /\ job[r].does = "stream" /\ job[r].step \in {"open", "read"}
       => closes[r] = 1 /\ ~waiting[r]

\* A provider is suppressed only for failures in a row, the threshold's number at
\* least, since it last served any request; and a response of another request that
\* is still on its way may clear it (record_success, record_failure).
CoolDownIsEarned ==
  \A p \in Providers : health[p].cooling => inRow[p] >= Threshold

\* A request that was not cancelled removes every file it wrote, and its directory,
\* however it ended; the user's directory goes with the last one (_cleanup).
CleansUp ==
  /\ \A r \in Requests :
       pc[r] = "over" /\ outcome[r] # "cancelled" => ~dir[DirOf(r)] /\ FilesOf(r) = NoFiles
  /\ userDir <=> \E r \in Requests : dir[r]

\* "Remove every file this run wrote, regardless of how far it got."
\* (pipeline.py:1047): also when its thread outlived it.
NothingIsLeft ==
  \A r \in Requests :
    pc[r] = "over" /\ job[r] = NoJob => FilesOf(r) = NoFiles
=============================================================================
