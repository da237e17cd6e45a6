--------------------------------- MODULE Hls ---------------------------------
(***************************************************************************)
(* One download of an HLS stream (engines/hls.py): download_hls, and       *)
(* download_hls_window for a playlist that is live.  A worker thread runs  *)
(* it; the segments of a live window are fetched by a pool of threads of   *)
(* its own while the server moves the window on.                           *)
(*                                                                         *)
(* A segment is its media sequence number.  pc is what the main thread is  *)
(* about to do:                                                            *)
(*   "resolve"      fetch a playlist: a master leads to the next one       *)
(*   "file"         fetch the segments of a finite playlist in order       *)
(*   "file audio"   ... of its audio rendition                             *)
(*   "init"         fetch the init map of a live window                    *)
(*   "batch"        wait for the pool to fetch the window                  *)
(*   "audio"        fetch the playlist of the audio rendition              *)
(*   "audio batch"  wait for the pool to fetch the rendition               *)
(*   "refresh"      fetch the live playlist once more                      *)
(*   "tail"         wait for the pool to fetch what has been added         *)
(*   "drain"        a segment failed: wait for those that are running      *)
(*   "keys"         fetch the keys, count the gaps, cut the runs           *)
(*   "remux"        ffmpeg makes a file of the next run                    *)
(*   "concat"       ffmpeg joins the files of the runs                     *)
(*   "probe"        ffprobe, and the last look at the token                *)
(*   "rename"       the output takes its name                              *)
(*   "tidy"         remove the work directory                              *)
(*   "unwind"       an exception: remove everything                        *)
(* and "done" or "failed" at the end.                                      *)
(***************************************************************************)
EXTENDS Naturals, Sequences, FiniteSets, SequencesExt

CONSTANTS
  LastSegment,     \* bound: the last segment the server publishes
  PlaylistLength,  \* segments that a live playlist lists
  Wanted,          \* segments asked for (window_seconds), 0 for all
  Workers,         \* segment_workers
  MaxSize,         \* max_size; every response body has size 1
  MaxDepth,        \* max_playlist_depth
  MaxGaps,         \* _MAX_GAP_COUNT
  MaxGapPercent,   \* the lower of max_gap_ratio and _MAX_GAP_DURATION_RATIO
  Breaks           \* segments with EXT-X-DISCONTINUITY

ASSUME HlsAssumption ==
  /\ LastSegment \in Nat \ {0} /\ PlaylistLength \in 1 .. LastSegment
  /\ Wanted \in Nat /\ Workers \in Nat \ {0} /\ MaxSize \in Nat
  /\ MaxDepth \in Nat /\ MaxGaps \in Nat /\ MaxGapPercent \in Nat
  /\ Breaks \subseteq 1 .. LastSegment

VARIABLES
  finite,     \* does the playlist end with EXT-X-ENDLIST?
  hasAudio,   \* has the variant an audio rendition of its own?
  first,      \* the first segment that the live playlist lists
  last,       \* and the last
  pc,
  hops,       \* playlists fetched so far
  selected,   \* the segments to deliver, in order
  job,        \* what became of each segment of each track
  seen,       \* segments of a track whose future was consumed (`downloaded`)
  counter,    \* _ByteCounter.total
  cancelled,  \* is the token set?
  runs,       \* the continuous runs to remux
  remuxed,    \* how many of them ffmpeg is done with
  work,       \* does the work directory exist?
  output      \* the segments in the output file, and which name that has

stream == <<finite, hasAudio, first, last>>
pool == <<job, seen>>
disk == <<work, output>>
vars == <<stream, pc, hops, selected, pool, counter, cancelled, runs, remuxed, disk>>

Segments == 1 .. LastSegment
Tracks == {"video", "audio"}
Batches == {"batch", "audio batch", "tail"}
NoOutput == [name |-> "none", segments |-> <<>>]

TypeOK ==
  /\ finite \in BOOLEAN /\ hasAudio \in BOOLEAN
  /\ first \in Segments /\ last \in Segments
  /\ pc \in Batches \cup {"resolve", "file", "file audio", "init", "audio", "refresh",
                          "drain", "keys", "remux", "concat", "probe", "rename", "tidy",
                          "unwind", "done", "failed"}
  /\ hops \in 0 .. MaxDepth + 1
  /\ selected \in Seq(Segments)
  /\ job \in [Tracks -> [Segments ->
               {"none", "queued", "running", "ok", "gone", "failed", "dropped"}]]
  /\ seen \in [Tracks -> SUBSET Segments]
  /\ counter \in Nat
  /\ cancelled \in BOOLEAN
  /\ runs \in Seq(Seq(Segments))
  /\ remuxed \in 0 .. Len(runs)
  /\ work \in BOOLEAN
  /\ output \in [name : {"none", "part", "final"}, segments : Seq(Segments)]

Init ==
  /\ finite \in BOOLEAN
  /\ hasAudio \in BOOLEAN
  /\ first = 1
  /\ last = PlaylistLength
  /\ pc = "resolve"
  /\ hops = 0
  /\ selected = <<>>
  /\ job = [t \in Tracks |-> [s \in Segments |-> "none"]]
  /\ seen = [t \in Tracks |-> {}]
  /\ counter = 0
  /\ cancelled = FALSE
  /\ runs = <<>>
  /\ remuxed = 0
  /\ work = FALSE
  /\ output = NoOutput

-----------------------------------------------------------------------------
\* The server, and the token.

\* One more segment; the oldest one expires.
Publish ==
  /\ ~finite
  /\ last < LastSegment
  /\ last' = last + 1
  /\ first' = last' - PlaylistLength + 1
  /\ UNCHANGED <<finite, hasAudio, pc, hops, selected, pool, counter, cancelled, runs,
                 remuxed, disk>>

\* What the playlist lists from a segment on.
From(s) == [i \in 1 .. last - s + 1 |-> s + i - 1]
Listed == From(first)

Cancel ==
  /\ ~cancelled
  /\ cancelled' = TRUE
  /\ UNCHANGED <<stream, pc, hops, selected, pool, counter, runs, remuxed, disk>>

-----------------------------------------------------------------------------
\* Fetching.

\* _ByteCounter.add: the body is counted first and refused then.
Counts == counter' = counter + 1
\* Mutant: the body is not added before the cap is looked at.
MutFits == counter <= MaxSize
Fits == counter + 1 <= MaxSize

\* A response that the main thread waits for: it arrives, or an exception
\* unwinds.
Raises ==
  /\ pc' = "unwind"
  /\ counter' \in {counter, counter + 1}

Fetches(next) ==
  \/ Counts /\ Fits /\ pc' = next
  \/ Raises

\* ... or there is nothing to fetch.
FetchesIfAny(next) == Fetches(next) \/ (pc' = next /\ UNCHANGED counter)

\* Mutant: the depth is not limited.
MutFollowMaster ==
  /\ pc = "resolve"
  /\ Fetches("resolve")
  /\ hops' = hops + 1
  /\ UNCHANGED <<stream, selected, pool, cancelled, runs, remuxed, disk>>

\* _resolve_media_playlist: another master, down to the depth allowed.
FollowMaster ==
  /\ pc = "resolve"
  /\ IF hops < MaxDepth THEN Fetches("resolve") ELSE Raises
  /\ hops' = hops + 1
  /\ UNCHANGED <<stream, selected, pool, cancelled, runs, remuxed, disk>>

\* _select_window: the newest segments that make up the time asked for.
SelectWindow(listed) ==
  IF Wanted = 0 \/ Wanted >= Len(listed)
    THEN listed
    ELSE SubSeq(listed, Len(listed) - Wanted + 1, Len(listed))

\* The playlist is finite: download_hls makes a directory for its segments.
ResolveFile ==
  /\ pc = "resolve"
  /\ finite
  /\ Fetches("file")
  /\ hops' = hops + 1
  /\ selected' = IF pc' = "file" THEN Listed ELSE <<>>
  /\ work' = (pc' = "file")
  /\ UNCHANGED <<stream, pool, cancelled, runs, remuxed, output>>

\* It is live: download_hls_window takes over, with a counter of its own, unless
\* a key is of a kind it cannot use.
ResolveWindow ==
  /\ pc = "resolve"
  /\ ~finite
  /\ \/ /\ Fits
        /\ counter' = 0
        /\ pc' = "init"
        /\ selected' = SelectWindow(Listed)
        /\ work' = TRUE
     \/ Raises /\ UNCHANGED <<selected, work>>
  /\ hops' = hops + 1
  /\ UNCHANGED <<stream, pool, cancelled, runs, remuxed, output>>

-----------------------------------------------------------------------------
\* A finite playlist.

\* _materialize_media_playlist: the next segment of the track.  Before it come
\* the keys and the init map, which are not told apart from the first segment.
MaterializeNext(t, here, next) ==
  /\ pc = here
  /\ \/ /\ ~cancelled
        /\ Counts /\ Fits
        /\ seen' = [seen EXCEPT ![t] = @ \cup {selected[Cardinality(@) + 1]}]
        /\ pc' = IF Cardinality(seen'[t]) = Len(selected) THEN next ELSE here
     \/ Raises /\ UNCHANGED seen
  /\ UNCHANGED <<stream, hops, selected, job, cancelled, runs, remuxed, disk>>

MaterializeVideo ==
  /\ MaterializeNext("video", "file", IF hasAudio THEN "file audio" ELSE "remux")
MaterializeAudio ==
  /\ MaterializeNext("audio", "file audio", "remux")

\* _run_process: whatever ffmpeg did, a token that is set by then is an error.
FfmpegFails == pc' = "unwind"

RemuxFile ==
  /\ pc = "remux"
  /\ finite
  /\ \/ /\ ~cancelled
        /\ pc' = "rename"
        /\ output' = [name |-> "part", segments |-> selected]
     \/ /\ FfmpegFails
        /\ output' \in {output, [name |-> "part", segments |-> <<>>]}
  /\ UNCHANGED <<stream, hops, selected, pool, counter, cancelled, runs, remuxed, work>>

-----------------------------------------------------------------------------
\* The pool of a batch.

\* pool.submit for every segment that is not in `existing`.
Submit(t, batch) ==
  job' = [job EXCEPT ![t] = [s \in Segments |->
            IF s \in ToSet(batch) \ seen[t] THEN "queued" ELSE @[s]]]

FetchInit ==
  /\ pc = "init"
  /\ FetchesIfAny("batch")
  /\ IF pc' = "batch" THEN Submit("video", selected) ELSE UNCHANGED job
  /\ UNCHANGED <<stream, hops, selected, seen, cancelled, runs, remuxed, disk>>

Running == {p \in Tracks \X Segments : job[p[1]][p[2]] = "running"}

\* The future of a segment ends.
Ends(t, s, how) == job' = [job EXCEPT ![t][s] = how]

Take(t, s) ==
  /\ job[t][s] = "queued"
  /\ Cardinality(Running) < Workers
  /\ Ends(t, s, IF cancelled THEN "failed" ELSE "running")
  /\ UNCHANGED <<stream, pc, hops, selected, seen, counter, cancelled, runs, remuxed, disk>>

\* _fetch_window_segment: the segment is written and renamed, or it is more than
\* the cap allows.
Arrive(t, s) ==
  /\ job[t][s] = "running"
  /\ Counts
  /\ Ends(t, s, IF Fits THEN "ok" ELSE "failed")
  /\ UNCHANGED <<stream, pc, hops, selected, seen, cancelled, runs, remuxed, disk>>

\* 404 or 410: it is no longer published.
Expired(t, s) ==
  /\ job[t][s] = "running"
  /\ s < first
  /\ Ends(t, s, "gone")
  /\ UNCHANGED <<stream, pc, hops, selected, seen, counter, cancelled, runs, remuxed, disk>>

\* Any other failure, or the token between two chunks; the partial file goes.
Break(t, s) ==
  /\ job[t][s] = "running"
  /\ Ends(t, s, "failed")
  /\ UNCHANGED <<stream, pc, hops, selected, seen, counter, cancelled, runs, remuxed, disk>>

Worker == \E t \in Tracks, s \in Segments :
  Take(t, s) \/ Arrive(t, s) \/ Expired(t, s) \/ Break(t, s)

-----------------------------------------------------------------------------
\* download_hls_window.

TrackOf(batch) == IF batch = "audio batch" THEN "audio" ELSE "video"

\* as_completed: the result of a future is noted in `existing`.
Collect ==
  /\ pc \in Batches
  /\ LET t == TrackOf(pc) IN
     /\ \E s \in Segments \ seen[t] :
          job[t][s] \in {"ok", "gone"} /\ seen' = [seen EXCEPT ![t] = @ \cup {s}]
     /\ UNCHANGED <<stream, pc, hops, selected, job, counter, cancelled, runs, remuxed, disk>>

\* Mutant: a segment that failed is fetched once more, for ever.
MutDrop ==
  /\ pc \in Batches
  /\ \E s \in Segments : job[TrackOf(pc)][s] = "failed"
  /\ job' = [t \in Tracks |-> [s \in Segments |->
               IF job[t][s] = "failed" THEN "queued" ELSE job[t][s]]]
  /\ UNCHANGED <<stream, pc, hops, selected, seen, counter, cancelled, runs, remuxed, disk>>

\* ... or it raises: shutdown(cancel_futures=True) drops those that wait.
Drop ==
  /\ pc \in Batches
  /\ \E s \in Segments : job[TrackOf(pc)][s] = "failed"
  /\ pc' = "drain"
  /\ job' = [t \in Tracks |-> [s \in Segments |->
               IF job[t][s] = "queued" THEN "dropped" ELSE job[t][s]]]
  /\ UNCHANGED <<stream, hops, selected, seen, counter, cancelled, runs, remuxed, disk>>

\* Mutant: those that run are not waited for.
MutDrained ==
  /\ pc = "drain"
  /\ pc' = "unwind"
  /\ UNCHANGED <<stream, hops, selected, pool, counter, cancelled, runs, remuxed, disk>>

\* ... and waits for those that run.
Drained ==
  /\ pc = "drain"
  /\ Running = {}
  /\ pc' = "unwind"
  /\ UNCHANGED <<stream, hops, selected, pool, counter, cancelled, runs, remuxed, disk>>

\* The batch is complete.
Collected ==
  /\ pc \in Batches
  /\ \A s \in Segments : job[TrackOf(pc)][s] # "none" => s \in seen[TrackOf(pc)]
  /\ \/ /\ pc = "batch"
        /\ pc' = IF hasAudio THEN "audio" ELSE "refresh"
     \/ /\ pc = "audio batch"
        /\ \/ /\ \E s \in seen["audio"] : job["audio"][s] = "ok"
              /\ pc' = "refresh"
           \/ pc' = "unwind"      \* nothing of it is left, or a key is missing
     \/ pc = "tail" /\ pc' = "keys"
  /\ UNCHANGED <<stream, hops, selected, pool, counter, cancelled, runs, remuxed, disk>>

\* _download_window_audio
ResolveAudio ==
  /\ pc = "audio"
  /\ Fetches("audio batch")
  /\ IF pc' = "audio batch" THEN Submit("audio", SelectWindow(Listed)) ELSE UNCHANGED job
  /\ UNCHANGED <<stream, hops, selected, seen, cancelled, runs, remuxed, disk>>

\* Mutant: the last segment of the snapshot is taken again.
MutLater == From(Max({first, selected[Len(selected)]}))

\* What the refreshed playlist adds to the snapshot.
Later == From(Max({first, selected[Len(selected)] + 1}))

Refresh ==
  /\ pc = "refresh"
  /\ Fetches(IF Later = <<>> THEN "keys" ELSE "tail")
  /\ IF pc' = "tail" THEN selected' = selected \o Later /\ Submit("video", Later)
                     ELSE UNCHANGED <<selected, job>>
  /\ UNCHANGED <<stream, hops, seen, cancelled, runs, remuxed, disk>>

\* downloaded.get(...).path
HasPath(s) == s \in seen["video"] /\ job["video"][s] = "ok"
Gaps == {s \in ToSet(selected) : ~HasPath(s)}

\* _enforce_gap_limits
WithinGapLimits ==
  /\ Cardinality(Gaps) * 100 <= Len(selected) * MaxGapPercent
  /\ Cardinality(Gaps) <= MaxGaps

\* _continuous_runs: a run ends at a gap, at a discontinuity, and where the
\* numbers do.
Joins(s, run) == run[Len(run)] + 1 = s /\ s \notin Breaks
ContinuousRuns(items) ==
  FoldLeft(LAMBDA rs, s :
             IF ~HasPath(s) THEN rs
             ELSE IF rs # <<>> /\ Joins(s, rs[Len(rs)])
                    THEN [rs EXCEPT ![Len(rs)] = Append(@, s)]
                    ELSE Append(rs, <<s>>),
           <<>>, items)

\* _fetch_keys and what follows it without a wait.
CutRuns ==
  /\ pc = "keys"
  /\ IF WithinGapLimits /\ Gaps # ToSet(selected) THEN FetchesIfAny("remux") ELSE Raises
  /\ runs' = IF pc' = "remux" THEN ContinuousRuns(selected) ELSE runs
  /\ UNCHANGED <<stream, hops, selected, pool, cancelled, remuxed, disk>>

RemuxRun ==
  /\ pc = "remux"
  /\ ~finite
  /\ \/ /\ ~cancelled
        /\ remuxed' = remuxed + 1
        /\ pc' = IF remuxed' < Len(runs) THEN "remux"
                 ELSE IF Len(runs) = 1 THEN "probe" ELSE "concat"
        /\ output' = IF pc' = "probe" THEN [name |-> "part", segments |-> runs[1]]
                                      ELSE output
     \/ FfmpegFails /\ UNCHANGED <<remuxed, output>>
  /\ UNCHANGED <<stream, hops, selected, pool, counter, cancelled, runs, work>>

Concat ==
  /\ pc = "concat"
  /\ \/ /\ ~cancelled
        /\ pc' = "probe"
        /\ output' = [name |-> "part", segments |-> FlattenSeq(runs)]
     \/ /\ FfmpegFails
        /\ output' \in {output, [name |-> "part", segments |-> <<>>]}
  /\ UNCHANGED <<stream, hops, selected, pool, counter, cancelled, runs, remuxed, work>>

\* The duration may have drifted, and a cancel may have come since.
Probe ==
  /\ pc = "probe"
  /\ \/ ~cancelled /\ pc' = "rename"
     \/ FfmpegFails
  /\ UNCHANGED <<stream, hops, selected, pool, counter, cancelled, runs, remuxed, disk>>

Rename ==
  /\ pc = "rename"
  /\ pc' = "tidy"
  /\ output' = [output EXCEPT !.name = "final"]
  /\ UNCHANGED <<stream, hops, selected, pool, counter, cancelled, runs, remuxed, work>>

Tidy ==
  /\ pc = "tidy"
  /\ pc' = "done"
  /\ work' = FALSE
  /\ UNCHANGED <<stream, hops, selected, pool, counter, cancelled, runs, remuxed, output>>

Unwind ==
  /\ pc = "unwind"
  /\ pc' = "failed"
  /\ work' = FALSE
  /\ output' = NoOutput
  /\ UNCHANGED <<stream, hops, selected, pool, counter, cancelled, runs, remuxed>>

-----------------------------------------------------------------------------
Main ==
  \/ FollowMaster \/ ResolveFile \/ ResolveWindow \/ MaterializeVideo \/ MaterializeAudio
  \/ RemuxFile \/ FetchInit \/ Collect \/ Drop \/ Drained \/ Collected \/ ResolveAudio
  \/ Refresh \/ CutRuns \/ RemuxRun \/ Concat \/ Probe \/ Rename \/ Tidy \/ Unwind

Over == pc \in {"done", "failed"} /\ UNCHANGED vars

Next == Main \/ Worker \/ Publish \/ Cancel \/ Over

Spec == Init /\ [][Next]_vars

\* Requests time out, ffmpeg is killed when it takes too long, and a thread that
\* can go on does.  The server need not publish anything.
FairSpec == Spec /\ WF_vars(Main) /\ WF_vars(Worker)

-----------------------------------------------------------------------------
(***************************************************************************)
(* Properties.                                                             *)
(***************************************************************************)
Live == pc = "done" /\ ~finite

InOrder(q) == \A i, j \in DOMAIN q : i < j => q[i] < q[j]

\* A live window is delivered in order and without repeats, the tail after the
\* snapshot, and nothing of it is left out but the gaps; each run it was cut into
\* is continuous (download_hls_window, 1288-1340).
WindowIsDelivered ==
  Live =>
    /\ InOrder(output.segments)
    /\ ToSet(output.segments) = ToSet(selected) \ Gaps
    /\ \A i \in DOMAIN runs : \A k \in 2 .. Len(runs[i]) :
         runs[i][k] = runs[i][k - 1] + 1 /\ runs[i][k] \notin Breaks

\* What is delivered kept to the limits: few gaps, by number and by share of all that
\* was selected, the refreshed tail included, and no more bytes than the cap although
\* the threads count theirs at once (_ByteCounter, _enforce_gap_limits).
LimitsAreKept ==
  pc = "done" =>
    /\ counter <= MaxSize
    /\ ~finite => /\ Cardinality(Gaps) <= MaxGaps
                  /\ Cardinality(Gaps) * 100 <= Len(selected) * MaxGapPercent

\* "Leaves no partial files behind on any failure or cancellation" (hls.py:1488),
\* and no thread of the pool is still writing when the directory goes.
NothingLeftBehind ==
  /\ pc \in {"unwind", "tidy", "done", "failed"} => Running = {}
  /\ pc = "failed" => ~work /\ output.name = "none"
  /\ pc = "done" => ~work /\ output.name = "final"

\* What was lost in a delivered window is told: "report delivered versus missing
\* duration rather than implying completeness" (spec/PLAN-M3U8.md:361).
LossIsCounted ==
  Live => \A s \in Segments :
    s \in selected[1] .. selected[Len(selected)] /\ s \notin ToSet(output.segments)
      => s \in Gaps

\* Every download comes to an end.
DownloadEnds == <>(pc \in {"done", "failed"})
=============================================================================
